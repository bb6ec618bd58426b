---------------------------- MODULE YardPresence ----------------------------
(***************************************************************************)
(* What the depot promises about its tanks, without the papers: which      *)
(* tanks are in the yard, which of them have nothing left to do, and how   *)
(* many finished stays each has on record.  TankVisit implements it: the   *)
(* five kinds of documents and their undos add up to these five steps.     *)
(***************************************************************************)
EXTENDS Naturals

CONSTANTS
    Tank,
    Strict      \* does every order of a tank have to be finished before it leaves?

VARIABLES here, ready, stays

YardInit == here = {} /\ ready = {} /\ stays = [t \in Tank |-> 0]

(* Only the tanks of S are touched, and only tanks in the yard are ready.  *)
ReadyOutside(S) == ready' \subseteq here' /\ ready' \ S = ready \ S

(* A bon brings the tanks of S that are still away into the yard.          *)
Arrive(S) ==
    /\ here' = here \cup S
    /\ ReadyOutside(S)
    /\ UNCHANGED stays

(* A bon takes all of S out: each ends one stay.                           *)
Leave(S) ==
    /\ S \subseteq here
    /\ Strict => S \subseteq ready
    /\ here' = here \ S
    /\ ReadyOutside(S)
    /\ stays' = [t \in Tank |-> IF t \in S THEN stays[t] + 1 ELSE stays[t]]

(* A departure is taken back: the stay goes on, it is not a new one.       *)
ComeBack(S) ==
    /\ S \cap here = {}
    /\ \A t \in S : stays[t] > 0
    /\ here' = here \cup S
    /\ ReadyOutside(S)
    /\ stays' = [t \in Tank |-> IF t \in S THEN stays[t] - 1 ELSE stays[t]]

(* An arrival is undone for S, no stay took place; the others of W, named   *)
(* with them and still in the yard, may have less to do.                   *)
NeverCame(S, W) ==
    /\ S \subseteq here \cap W
    /\ here' = here \ S
    /\ ReadyOutside(W)
    /\ UNCHANGED stays

(* Work on a tank starts or ends.                                          *)
Work(t) ==
    /\ ReadyOutside({t})
    /\ UNCHANGED <<here, stays>>

YardNext ==
    \/ \E S \in SUBSET Tank : Arrive(S) \/ Leave(S) \/ ComeBack(S)
    \/ \E W \in SUBSET Tank : \E S \in SUBSET W : NeverCame(S, W)
    \/ \E t \in Tank : Work(t)

YardSpec == YardInit /\ [][YardNext]_<<here, ready, stays>>
=============================================================================
