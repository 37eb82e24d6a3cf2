------------------------------- MODULE MCSlate -------------------------------
(* Instance of Slate: three games, small gaps, and a horizon that ends before *)
(* the last time does.                                                       *)
EXTENDS Slate

ThreeGames == 1..3
=============================================================================
