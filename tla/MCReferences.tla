---------------------------- MODULE MCReferences ----------------------------
EXTENDS References, TLC

CONSTANTS x, y

\* Once used, the last is like an owned structure.
TwoVars == {x, y}
SomeSorts == {<<"struct", FALSE, FALSE, FALSE>>, <<"struct", FALSE, TRUE, TRUE>>,
              <<"array", FALSE, FALSE, FALSE>>, <<"new", TRUE, FALSE, FALSE>>}

VarSymmetry == Permutations(TwoVars)
=============================================================================
