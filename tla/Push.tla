-------------------------------- MODULE Push --------------------------------
(***************************************************************************)
(* Web push of the bells of one order (notify._push, ess/push.py,          *)
(* data/push.js, NotifGate.vue, service-worker.js): queued with the commit *)
(* that rang the bell, sent by a worker to the phones registered when it   *)
(* starts, shown as one banner per order.                                  *)
(*                                                                         *)
(* A bell is its number.  Every bell here rings every user.                *)
(***************************************************************************)
EXTENDS Naturals, Sequences

CONSTANTS
  User, Phone,
  None,
  Worker,       \* background workers of the short queue
  MaxBell,      \* bound: bells
  MaxFailures,  \* _MAX_FAILURES (10 in the code)
  Lapse         \* registration while a worker is sending

PushAssumption ==
  /\ None \notin User /\ MaxBell \in Nat /\ MaxFailures \in Nat \ {0}
  /\ Lapse \subseteq {"registers while sent to"}

VARIABLES
  holder,    \* holder[p]: who is signed in to the app on p
  granted,   \* granted[p]: the browser holds the subscription of p's row
  row,       \* Depot Push Subscription: row[p].user is None without one
  bell,      \* bells rung by committed writes
  ringing,   \* a write that rang the next bell has not committed yet
  queue,     \* jobs of deliver
  job,       \* job[w]: bell, phones left and the rows as read; bell 0: idle
  banner,    \* banner[p]: bell and addressee of what shows; bell 0: nothing
  missed     \* missed[p]: sends lost since p registered or was last reached

vars == <<holder, granted, row, bell, ringing, queue, job, banner, missed>>

NoRow == [user |-> None, failures |-> 0]
Idle == [bell |-> 0, left |-> {}, read |-> [p \in Phone |-> NoRow]]
Blank == [bell |-> 0, to |-> None]

Init ==
  /\ holder \in [Phone -> User]
  /\ granted = [p \in Phone |-> FALSE] /\ row = [p \in Phone |-> NoRow]
  /\ bell = 0 /\ ringing = FALSE /\ queue = <<>> /\ job = [w \in Worker |-> Idle]
  /\ banner = [p \in Phone |-> Blank] /\ missed = [p \in Phone |-> 0]

Rows == [user : User \cup {None}, failures : 0..MaxFailures - 1]
TypeOK ==
  /\ holder \in [Phone -> User] /\ granted \in [Phone -> BOOLEAN] /\ row \in [Phone -> Rows]
  /\ bell \in 0..MaxBell /\ ringing \in BOOLEAN /\ queue \in Seq(1..MaxBell)
  /\ job \in [Worker -> [bell : 0..MaxBell, left : SUBSET Phone, read : [Phone -> Rows]]]
  /\ banner \in [Phone -> [bell : 0..MaxBell, to : User \cup {None}]]
  /\ missed \in [Phone -> 0..(MaxBell + 1)]

-----------------------------------------------------------------------------
(* notify in a write of the desk or of a crew: the bell and its job wait   *)
(* for the commit.                                                         *)
Ring ==
  /\ bell < MaxBell /\ ~ringing
  /\ ringing' = TRUE
  /\ UNCHANGED <<holder, granted, row, bell, queue, job, banner, missed>>

Rollback == ringing' = FALSE /\ UNCHANGED <<bell, queue>>

Ends ==
  /\ ringing
  /\ \/ Rollback
     \/ ringing' = FALSE /\ bell' = bell + 1 /\ queue' = Append(queue, bell + 1)
  /\ UNCHANGED <<holder, granted, row, job, banner, missed>>

SentTo(p) == \E w \in Worker : p \in job[w].left

(* subscribe: the endpoint's row is pointed at whoever is signed in.       *)
Registered(p) == [user |-> holder[p], failures |-> 0]

Register(p) ==
  /\ ~SentTo(p) \/ "registers while sent to" \in Lapse
  /\ row' = [row EXCEPT ![p] = Registered(p)]
  /\ missed' = [missed EXCEPT ![p] = 0]
  /\ UNCHANGED <<holder, bell, ringing, queue, job, banner>>

(* The gate's button; and every load or return of the app, while the       *)
(* browser still holds its subscription (enablePush, refreshPushState).    *)
GateAsks(p) == ~granted[p]
Enable(p) == GateAsks(p) /\ granted' = [granted EXCEPT ![p] = TRUE] /\ Register(p)
Refresh(p) == granted[p] /\ row[p] # Registered(p) /\ Register(p) /\ UNCHANGED granted

(* Another signs in; logging out says nothing to the server's list.        *)
SignIn(p, u) ==
  /\ holder[p] # u /\ holder' = [holder EXCEPT ![p] = u]
  /\ UNCHANGED <<granted, row, bell, ringing, queue, job, banner, missed>>

(* unsubscribe drops the caller's own row only; then the browser's half.   *)
Unsubscribed(p) == IF row[p].user = holder[p] THEN [row EXCEPT ![p] = NoRow] ELSE row

Disable(p) ==
  /\ granted[p] /\ granted' = [granted EXCEPT ![p] = FALSE]
  /\ row' = Unsubscribed(p)
  /\ UNCHANGED <<holder, bell, ringing, queue, job, banner, missed>>

(* Reinstalled, site data cleared, permission withdrawn: the server learns *)
(* from the push service only.                                             *)
Wiped(p) ==
  /\ granted[p] /\ granted' = [granted EXCEPT ![p] = FALSE]
  /\ UNCHANGED <<holder, row, bell, ringing, queue, job, banner, missed>>

-----------------------------------------------------------------------------
(* deliver reads the rows once, in the order the jobs were queued ...      *)
Start(w) ==
  /\ job[w].bell = 0 /\ queue # <<>>
  /\ queue' = Tail(queue)
  /\ LET to == {p \in Phone : row[p].user # None} IN
       job' = [job EXCEPT ![w] = IF to = {} THEN Idle ELSE [bell |-> Head(queue), left |-> to, read |-> row]]
  /\ UNCHANGED <<holder, granted, row, bell, ringing, banner, missed>>

Sent(w, p) ==
  job' = [job EXCEPT ![w] = IF @.left = {p} THEN Idle ELSE [@ EXCEPT !.left = @ \ {p}]]

(* A write to a row that is gone writes nothing.                           *)
Count(p, n) == IF row[p].user = None THEN row ELSE [row EXCEPT ![p].failures = n]

(* The worker shows a banner in place of the one of the same order (tag).  *)
Notification(w, p) == [bell |-> job[w].bell, to |-> job[w].read[p].user]

(* ... and sends row by row.                                               *)
Reached(w, p) ==
  /\ p \in job[w].left /\ granted[p]
  /\ banner' = [banner EXCEPT ![p] = Notification(w, p)]
  /\ row' = Count(p, 0)
  /\ missed' = [missed EXCEPT ![p] = 0]
  /\ Sent(w, p)
  /\ UNCHANGED <<holder, granted, bell, ringing, queue>>

(* _count_failure, from the count read at the start.                       *)
Failed(p, n) == IF n >= MaxFailures THEN [row EXCEPT ![p] = NoRow] ELSE Count(p, n)

Lost(w, p) ==
  /\ p \in job[w].left
  /\ row' = Failed(p, job[w].read[p].failures + 1)
  /\ missed' = [missed EXCEPT ![p] = @ + 1]
  /\ Sent(w, p)
  /\ UNCHANGED <<holder, granted, bell, ringing, queue, banner>>

(* 404, 410: the subscription is dead.                                     *)
Gone(w, p) ==
  /\ p \in job[w].left /\ ~granted[p]
  /\ row' = [row EXCEPT ![p] = NoRow]
  /\ Sent(w, p)
  /\ UNCHANGED <<holder, granted, bell, ringing, queue, banner, missed>>

Dismiss(p) ==
  /\ banner[p].bell # 0
  /\ banner' = [banner EXCEPT ![p] = Blank]
  /\ UNCHANGED <<holder, granted, row, bell, ringing, queue, job, missed>>

Next ==
  \/ Ring \/ Ends
  \/ \E p \in Phone :
       \/ Enable(p) \/ Refresh(p) \/ Disable(p) \/ Wiped(p) \/ Dismiss(p)
       \/ \E u \in User : SignIn(p, u)
       \/ \E w \in Worker : Reached(w, p) \/ Lost(w, p) \/ Gone(w, p)
  \/ \E w \in Worker : Start(w)

Spec == Init /\ [][Next]_vars

(* The gate asks at every return of the app until the phone can be rung.   *)
FairSpec == Spec /\ \A p \in Phone : WF_vars(Enable(p)) /\ WF_vars(Refresh(p))

-----------------------------------------------------------------------------
(* Only what was really written rings a phone (enqueue_after_commit).      *)
OnlyCommittedRings == \A p \in Phone : banner[p].bell <= bell

(* A phone rings for the operator it is registered for, never for the one  *)
(* who had it before (subscribe re-points the row).                        *)
RingsOwnPhone ==
  \A p \in Phone : banner'[p] # banner[p] /\ banner'[p] # Blank => row[p].user \in {None, banner'[p].to}
OwnPhoneRings == [][RingsOwnPhone]_vars

(* A later banner of an order is never replaced by an earlier one (tag).   *)
KeepsNewest == \A p \in Phone : banner'[p].bell \in {0} \cup banner[p].bell..MaxBell
NewestBannerStays == [][KeepsNewest]_vars

(* A phone that can be reached loses its row only by hand, or after the    *)
(* set number of sends in a row were lost (_count_failure).                *)
KeepsReachable ==
  \A p \in Phone : granted[p] /\ granted'[p] /\ row[p] # NoRow /\ row'[p] = NoRow
    => missed'[p] >= MaxFailures
ReachableStaysListed == [][KeepsReachable]_vars

(* A phone dropped from the list, or left with another's name on it, is    *)
(* registered for its holder again (refreshPushState, pushGateNeeded).     *)
PhonesHeal == \A p \in Phone : row[p].user # holder[p] ~> row[p].user = holder[p]
=============================================================================
