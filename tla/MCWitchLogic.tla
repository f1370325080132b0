---------------------------- MODULE MCWitchLogic ----------------------------
EXTENDS WitchLogic, TLC

\* The five logics, three whose report deletes the tree, with and without the
\* *_INST macro, and two whose report leaves it.
FiveLogics == {<<"DEADSPY", FALSE>>, <<"DEADSPY", TRUE>>, <<"LOADSPY", TRUE>>,
               <<"REDSPY", FALSE>>, <<"DUPSPY", FALSE>>, <<"FALSESHARE", FALSE>>}

Traces == Permutations(Contexts)
=============================================================================
