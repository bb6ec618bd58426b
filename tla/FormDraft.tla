----------------------------- MODULE FormDraft -----------------------------
(***************************************************************************)
(* The autosave of a form that has no document of its own: Letak Tank      *)
(* keeps what is typed for a tank in a server draft until the reading is   *)
(* sent (utils/serverDraft.js, ess/drafts.py, TankPosition.vue;            *)
(* PositionBulk.vue uses it with a single key).                            *)
(*                                                                         *)
(* What is typed for a tank is a version, each newer than the last.  One   *)
(* component serves every tank: its timer, its flight and what waits       *)
(* behind the flight are shared.                                           *)
(***************************************************************************)
EXTENDS Naturals, Sequences

CONSTANTS
  Tank,
  MaxEdit,   \* bound: versions of one tank's text
  MaxWire,   \* bound: requests under way
  Lapse      \* what the operator does while the draft is not through

DraftAssumption ==
  /\ MaxEdit \in Nat /\ MaxWire \in Nat /\ "none" \notin Tank
  /\ Lapse \subseteq {"leaves while sending", "turns to another tank", "comes back early"}

VARIABLES
  open,     \* the tank on the screen
  text,     \* what its form shows
  typed,    \* typed[t]: the newest version ever typed
  timer, again, busy,   \* useServerDraft; busy.stale: gen has moved on since
  wire,     \* draft requests under way
  draft,    \* draft[t]: PWA Draft; 0: no row
  sending,  \* the reading being sent
  sent,     \* sent[t]: the version the last reading carried
  failed    \* failed[t]: a save of it was lost

vars == <<open, text, typed, timer, again, busy, wire, draft, sending, sent, failed>>

NoneDue == [tank |-> "none", data |-> 0]
Idle == [tank |-> "none", data |-> 0, stale |-> FALSE]

Init ==
  /\ open = "none" /\ text = 0 /\ typed = [t \in Tank |-> 0]
  /\ timer = NoneDue /\ again = NoneDue /\ busy = Idle
  /\ wire = <<>> /\ draft = [t \in Tank |-> 0]
  /\ sending = NoneDue /\ sent = [t \in Tank |-> 0] /\ failed = [t \in Tank |-> FALSE]

Some == Tank \cup {"none"}
Versions == 0..MaxEdit
TypeOK ==
  /\ open \in Some /\ text \in Versions /\ typed \in [Tank -> Versions]
  /\ {timer, again, sending} \subseteq [tank : Some, data : Versions]
  /\ busy \in [tank : Some, data : Versions, stale : BOOLEAN]
  /\ wire \in Seq([kind : {"save", "clear"}, tank : Tank, data : Versions]) /\ Len(wire) <= MaxWire
  /\ draft \in [Tank -> Versions] /\ sent \in [Tank -> Versions] /\ failed \in [Tank -> BOOLEAN]

-----------------------------------------------------------------------------
Post(k, t, v) == Append(wire, [kind |-> k, tank |-> t, data |-> v])
Room == Len(wire) < MaxWire

(* Something of t is typed and not yet through.                            *)
UnderWay(t) ==
  \/ \E x \in {timer, again, busy, sending} : x.tank = t
  \/ \E i \in DOMAIN wire : wire[i].tank = t
Settled == busy.tank = "none" /\ \A t \in Tank : ~UnderWay(t)

(* Opened with the recorded place, or with the draft if there is one.      *)
Open(t) ==
  /\ open = "none"
  /\ "turns to another tank" \in Lapse \/ \A o \in Tank \ {t} : ~UnderWay(o)
  /\ "comes back early" \in Lapse \/ ~UnderWay(t)
  /\ open' = t /\ text' = draft[t]
  /\ UNCHANGED <<typed, timer, again, busy, wire, draft, sending, sent, failed>>

Leave ==
  /\ open # "none" /\ (sending.tank = "none" \/ "leaves while sending" \in Lapse)
  /\ open' = "none" /\ text' = 0
  /\ UNCHANGED <<typed, timer, again, busy, wire, draft, sending, sent, failed>>

(* Every change arms the one timer anew, for the tank on the screen.       *)
Type ==
  /\ open # "none" /\ sending.tank = "none" /\ typed[open] < MaxEdit
  /\ text' = typed[open] + 1
  /\ typed' = [typed EXCEPT ![open] = @ + 1]
  /\ timer' = [tank |-> open, data |-> text']
  /\ failed' = [failed EXCEPT ![open] = FALSE]
  /\ UNCHANGED <<open, again, busy, wire, draft, sending, sent>>

Flown(x) == busy' = [tank |-> x.tank, data |-> x.data, stale |-> FALSE] /\ wire' = Post("save", x.tank, x.data)

TimerFires ==
  /\ timer.tank # "none"
  /\ timer' = NoneDue
  /\ IF busy.tank # "none" THEN again' = timer /\ UNCHANGED <<busy, wire>>
     ELSE Room /\ Flown(timer) /\ UNCHANGED again
  /\ UNCHANGED <<open, text, typed, draft, sending, sent, failed>>

(* The flight is over.  A form sent meanwhile throws its draft away again; *)
(* otherwise what waited flies next.                                       *)
Landed ==
  IF busy.stale THEN Room /\ busy' = Idle /\ wire' = Post("clear", busy.tank, 0) /\ UNCHANGED again
  ELSE IF again.tank # "none" THEN Room /\ Flown(again) /\ again' = NoneDue
  ELSE busy' = Idle /\ UNCHANGED <<wire, again>>

(* Every flight posts one save; the server has it, or the link lost it.    *)
FlightEnds(lost) ==
  /\ busy.tank # "none" /\ \A i \in DOMAIN wire : wire[i].kind # "save"
  /\ Landed
  /\ failed' = IF lost THEN [failed EXCEPT ![busy.tank] = TRUE] ELSE failed
  /\ UNCHANGED <<open, text, typed, timer, draft, sending, sent>>

(* draft_save, draft_clear: handled in the order posted, or lost.          *)
Handle ==
  /\ wire # <<>>
  /\ wire' = Tail(wire)
  /\ LET r == Head(wire) IN
       draft' = [draft EXCEPT ![r.tank] = IF r.kind = "save" THEN r.data ELSE 0]
  /\ UNCHANGED <<open, text, typed, timer, again, busy, sending, sent, failed>>

Lose ==
  /\ wire # <<>>
  /\ wire' = Tail(wire)
  /\ failed' = [failed EXCEPT ![Head(wire).tank] = TRUE]
  /\ UNCHANGED <<open, text, typed, timer, again, busy, draft, sending, sent>>

(* Simpan: the reading is sent, and its answer clears the draft of the tank*)
(* then on the screen.                                                     *)
Send ==
  /\ open # "none" /\ text # 0 /\ sending.tank = "none"
  /\ sending' = [tank |-> open, data |-> text]
  /\ UNCHANGED <<open, text, typed, timer, again, busy, wire, draft, sent, failed>>

ClearedHere ==
  /\ timer' = NoneDue /\ again' = NoneDue
  /\ busy' = IF busy.tank = "none" THEN busy ELSE [busy EXCEPT !.stale = TRUE]

Recorded ==
  /\ sending.tank # "none" /\ Room
  /\ sent' = [sent EXCEPT ![sending.tank] = sending.data]
  /\ sending' = NoneDue
  /\ ClearedHere
  /\ IF open # "none" THEN wire' = Post("clear", open, 0) /\ text' = 0 /\ open' = "none"
     ELSE UNCHANGED <<wire, text, open>>
  /\ UNCHANGED <<typed, draft, failed>>

Refused ==
  /\ sending.tank # "none"
  /\ sending' = NoneDue
  /\ UNCHANGED <<open, text, typed, timer, again, busy, wire, draft, sent, failed>>

(* The page is closed or reloaded; requests posted are still handled.      *)
Killed ==
  /\ open # "none" \/ ~Settled
  /\ open' = "none" /\ text' = 0 /\ timer' = NoneDue /\ again' = NoneDue /\ busy' = Idle
  /\ sending' = NoneDue
  /\ failed' = [t \in Tank |-> failed[t] \/ UnderWay(t)]
  /\ UNCHANGED <<typed, wire, draft, sent>>

Next ==
  \/ \E t \in Tank : Open(t)
  \/ Leave \/ Type \/ TimerFires \/ (\E lost \in BOOLEAN : FlightEnds(lost)) \/ Handle \/ Lose
  \/ Send \/ Recorded \/ Refused \/ Killed

Spec == Init /\ [][Next]_vars

-----------------------------------------------------------------------------
(* Once nothing is under way, no draft holds what a reading has recorded:  *)
(* the form does not come back filled with what was sent (clear, flush).   *)
SentStaysCleared ==
  \A t \in Tank : ~UnderWay(t) /\ busy.tank = "none" => draft[t] = 0 \/ draft[t] > sent[t] \/ failed[t]

(* What was typed for a tank and not sent is in its draft, once nothing is *)
(* under way, unless the link lost it (save, flush).                       *)
TypedIsSaved ==
  \A t \in Tank : ~UnderWay(t) /\ busy.tank = "none" => typed[t] \in {draft[t], sent[t]} \/ failed[t]
=============================================================================
