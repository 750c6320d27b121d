--------------------------- MODULE MCTokenRotation ---------------------------
(* Instances of TokenRotation for TLC: two processes and the seats of one     *)
(* team.  A seat whose bound is 0 keeps its first credential and is there to  *)
(* be confused with another.  The claims are a user, a label and the account. *)
EXTENDS TokenRotation, TLC

CONSTANTS p1, p2

BothSeatsMove == <<1, 1>>
SecondSeatMoves == <<0, 1>>

\* Enrolled at different times: the label tells them apart.
LabelsDiffer == << <<"", "x", "team">>, <<"u", "y", "team">> >>

\* No claim in common but the account.
TwoAreAlike == << <<"u", "", "team">>, <<"", "y", "team">> >>

\* Of three seats, only the last can be told from both others.
LastIsToldApart ==
    << <<"", "x", "team">>, <<"u", "", "team">>, <<"v", "y", "team">> >>
LastTwoMove == <<0, 1, 1>>
=============================================================================
