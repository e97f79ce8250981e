------------------------ MODULE MCModuleLifecycle ------------------------
(* Small instances of ModuleLifecycle for TLC. *)
EXTENDS ModuleLifecycle

CONSTANTS A, B, a1, a2, b1

OneClass   == {A}
OneObjects == {a1, a2}
OneOf      == [i \in OneObjects |-> A]

TwoClasses == {A, B}
TwoObjects == {a1, b1}
TwoOf      == [i \in TwoObjects |-> IF i = a1 THEN A ELSE B]

Temporary == {FALSE}
AnyScope  == BOOLEAN

\* Any declaration at all.
AnyDecl == [OneClass -> DeclType]

Plain == {d \in DeclType : d.boots /\ ~d.linked /\ (d.rs => d.sapi)}

\* Two classes, each with and without hooks; one that hooks or has shutdown
\* callbacks declares request_shutdown.
PlainDecls == [TwoClasses -> {d \in Plain : d.ends = d.rd /\ (d.rs => d.rd)}]
=============================================================================
