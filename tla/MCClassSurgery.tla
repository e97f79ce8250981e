--------------------------- MODULE MCClassSurgery ---------------------------
EXTENDS ClassSurgery, TLC

CONSTANTS C, P, Q, G, I, J, T, U, m, n

TwoMethods == {m, n}
TwoInterfaces == {I, J}
TwoTraits == {T, U}
TwoParents == {P, Q}
AllClasses == {C, P, Q, G}

\* Q extends G, has one method of its own and one of G; P is a class alone.
TheAncestors == [p \in TwoParents |-> IF p = Q THEN {G} ELSE {}]
TheInterfaces == [p \in TwoParents |-> IF p = Q THEN <<I, J>> ELSE <<I>>]
TheMethods == [p \in TwoParents |->
    IF p = Q THEN <<[key |-> n, val |-> Q], [key |-> m, val |-> G]>> ELSE <<[key |-> m, val |-> P]>>]

\* The two traits are alike.
TraitSymmetry == Permutations(TwoTraits)
=============================================================================
