---------------------------- MODULE MCHookTables ----------------------------
(* Small instances of HookTables for TLC. *)
EXTENDS HookTables

CONSTANTS C, D, x, y

TwoClasses == {C, D}
TwoObjects == {x, y}
TwoOf      == [o \in TwoObjects |-> IF o = x THEN C ELSE D]
TwoFields  == {"cast_object", "do_operation"}
\* std_object_handlers casts but has no do_operation.
TwoStd     == [f \in TwoFields |-> IF f = "cast_object" THEN Native ELSE Null]
=============================================================================
