---------------------------- MODULE MCHookCalls ----------------------------
(* Small instances of HookCalls for TLC. *)
EXTENDS HookCalls, TLC

CONSTANTS r, w, C, D, p, q, old, new

TwoHooks   == {r, w}
TwoClasses == {C, D}
TwoTargets == {p, q}
TwoClassOf == [t \in TwoTargets |-> IF t = p THEN C ELSE D]
TwoValues  == {old, new}

\* One hook class of each sort.
Sorts == {ReadProperty, WriteProperty, UnsetProperty(TRUE), CastObject, CreateObject,
          GetPropertiesFor}

HookSymmetry == Permutations(TwoHooks) \cup Permutations(TwoValues)
=============================================================================
