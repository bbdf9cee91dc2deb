---------------------------- MODULE MCAskChannel ----------------------------
(* Small instances of AskChannel for TLC. *)
EXTENDS AskChannel, TLC

CONSTANTS exec, other, tab1, tab2

TwoConvs  == {1, 2}
OneConv   == {1}
OneAsk    == {exec}
TwoAsks   == {exec, other}
TheExec   == {exec}
BothExec  == {exec, other}
TwoTabs   == {tab1, tab2}
OneTab    == {tab1}
TabSymmetry == Permutations(TwoTabs)

Anything      == AllOps
OneTurnAtATime == {}
Parallel      == {"parallelTurns"}
Cancels       == {"cancel"}
=============================================================================
