--------------------------- MODULE MCClosingLine ---------------------------
(* Instances of ClosingLine: a game that is moved later, or earlier.        *)
EXTENDS ClosingLine

Later == {1}
Earlier == {-1}
AnySides == {{"home"}, {"away"}, Sides}
BothSides == {Sides}
=============================================================================
