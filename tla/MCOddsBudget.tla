---------------------------- MODULE MCOddsBudget ----------------------------
(* Instances of OddsBudget.  Run rows are numbered in the order their slots *)
(* are taken, so that interchangeable slots give one state and not many.    *)
EXTENDS OddsBudget

FewIds == 1..4
Derived == {NoFloor}
Mixed == {NoFloor, 3}
NoFaults == {}
AllFaults == {"raise", "timeout", "header", "crash"}
=============================================================================
