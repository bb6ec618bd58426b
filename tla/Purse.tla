------------------------------- MODULE Purse -------------------------------
(***************************************************************************)
(* What a Pending Cash promises the books: its money is on the advance     *)
(* account from the day it is paid, leaves it by payments and refunds      *)
(* never adding up to more than came in, and is taken off only untouched   *)
(* (pending_cash.py, the states of the module's docstring).                *)
(***************************************************************************)
EXTENDS Naturals

CONSTANT Total  \* the amount paid

VARIABLES
  funded,  \* the Paid journal stands
  drawn    \* what posted payments and refunds took

vars == <<funded, drawn>>

Init == funded = FALSE /\ drawn = 0

Fund == ~funded /\ funded' = TRUE /\ UNCHANGED drawn

Unfund == funded /\ drawn = 0 /\ funded' = FALSE /\ UNCHANGED drawn

Draw == funded /\ drawn' \in (drawn + 1)..Total /\ UNCHANGED funded

GiveBack == drawn > 0 /\ drawn' \in 0..(drawn - 1) /\ UNCHANGED funded

Next == Fund \/ Unfund \/ Draw \/ GiveBack

Spec == Init /\ [][Next]_vars

\* The advance account never goes below zero, and nothing is drawn from
\* money that is not there.
NeverOverdrawn == drawn <= IF funded THEN Total ELSE 0
=============================================================================
