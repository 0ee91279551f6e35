----------------------------- MODULE MCAccounts -----------------------------
(* Instances of Accounts for TLC. *)
EXTENDS Accounts, TLC

CONSTANTS e1, e2, d1, d2, s1, r1, r2

\* A night shift that ends after midnight; its grace before the start reaches back to the
\* date before.
Night == [start |-> 1, end |-> 0, before |-> 2, after |-> 0]
Nights == {Night}
NightRoster == {(0 :> Shift(Night, "scheduled") @@ 1 :> NoShift)}
=============================================================================
