----------------------------- MODULE MCAnswers -----------------------------
(***************************************************************************)
(* What must happen in the end: at the gate, whose operators wait for an   *)
(* answer; on the storage ledger, whose writes are best-effort; on an EIR  *)
(* form, whose edits are sent when the operator pauses; on a phone's       *)
(* registration for bells.  They share no state; a behaviour is about one  *)
(* of them, its part.                                                      *)
(***************************************************************************)
EXTENDS GateIssue

CONSTANTS f1, f2, c1, c2

VARIABLES
  part,
  today, tank, trail, gate, row, bill,                       \* StorageCharge
  kind, eir, form, wire, sending, up, cached,                \* EirForm
  holder, granted, phoneRow, bell, ringing, queue, pushJob,  \* Push
  banner, missed

(* One form takes one tank, the other both.                                *)
Shared == [f \in Form |-> IF f = f1 THEN {c1} ELSE {c1, c2}]

Nightly == INSTANCE StorageCharge WITH
  MaxVisit <- 2, Days <- 2, MaxStays <- 2, Invoice <- {"i1"}, Free <- 0, Running <- TRUE,
  CountOut <- TRUE, Known <- TRUE, Outcomes <- {TRUE, FALSE}, DeskEdits <- TRUE,
  NewestFirst <- TRUE, RepickNewest <- TRUE, None <- "none"

ASSUME StorageBounds == Nightly!BoundAssumption /\ Nightly!SwitchAssumption /\ Nightly!OutcomeAssumption

Typing == INSTANCE EirForm WITH
  Kinds <- {"EIR-In", "EIR-Out"}, Mark <- {"m1"}, Photo <- {"p1"}, Slot <- {"s1"}, MaxWire <- 1,
  Lapse <- {}
OnePhone == INSTANCE Push WITH
  User <- {"u1", "u2"}, Phone <- {"p1"}, None <- "None", Worker <- {"w"}, MaxBell <- 2,
  MaxFailures <- 1, Lapse <- {"registers while sent to"}, row <- phoneRow, job <- pushJob

ASSUME ScreenBounds == Typing!FormAssumption /\ OnePhone!PushAssumption

storage == <<today, tank, trail, gate, row, bill>>
screens == <<kind, eir, form, wire, sending, up, cached>>
pushes == <<holder, granted, phoneRow, bell, ringing, queue, pushJob, banner, missed>>

storageOff ==
  today = "off" /\ tank = "off" /\ trail = "off" /\ gate = "off" /\ row = "off" /\ bill = "off"
screenOff ==
  /\ kind = "off" /\ eir = "off" /\ form = "off" /\ wire = "off"
  /\ sending = "off" /\ up = "off" /\ cached = "off"
pushesOff ==
  /\ holder = "off" /\ granted = "off" /\ phoneRow = "off" /\ bell = "off" /\ ringing = "off"
  /\ queue = "off" /\ pushJob = "off" /\ banner = "off" /\ missed = "off"

DeskInit ==
  /\ Init
  /\ \/ part = "gate" /\ storageOff /\ screenOff /\ pushesOff
     \/ part = "nightly" /\ Nightly!Init /\ screenOff /\ pushesOff
     \/ part = "typing" /\ Typing!Init /\ storageOff /\ pushesOff
     \/ part = "bells" /\ OnePhone!Init /\ storageOff /\ screenOff

GateStep == part = "gate" /\ Next /\ UNCHANGED <<storage, screens, pushes>>
StorageStep == part = "nightly" /\ Nightly!Next /\ UNCHANGED <<vars, screens, pushes>>
TypingStep == part = "typing" /\ Typing!Next /\ UNCHANGED <<vars, storage, pushes>>
BellStep == part = "bells" /\ OnePhone!Next /\ UNCHANGED <<vars, storage, screens>>

DeskNext == (GateStep \/ StorageStep \/ TypingStep \/ BellStep) /\ UNCHANGED part

deskVars == <<part, vars, storage, screens, pushes>>

(* The gate is as fair as GateIssue says; the scheduler runs the sweep     *)
(* every day (hooks.py, scheduler_events); a timer fires, and a request or *)
(* an upload ends one way or another (doSave); the gate asks at every      *)
(* return of the app until the phone can be rung (pushGateNeeded).         *)
DeskSpec ==
  /\ DeskInit /\ [][DeskNext]_deskVars
  /\ Fairness
  /\ WF_deskVars(part = "nightly" /\ Nightly!sync_all /\ UNCHANGED <<part, vars, screens, pushes>>)
  /\ WF_deskVars(part = "typing" /\ Typing!Phone /\ UNCHANGED <<part, vars, storage, pushes>>)
  /\ WF_deskVars(part = "typing" /\ Typing!Link /\ UNCHANGED <<part, vars, storage, pushes>>)
  /\ WF_deskVars(part = "bells" /\ OnePhone!Enable("p1") /\ UNCHANGED <<part, vars, storage, screens>>)
  /\ WF_deskVars(part = "bells" /\ OnePhone!Refresh("p1") /\ UNCHANGED <<part, vars, storage, screens>>)
-----------------------------------------------------------------------------
(* However often a best-effort write fails, the ledger of a tank the sweep *)
(* visits comes back to what the gate records say (sync_all).              *)
LedgerHeals ==
  []<>(part = "nightly" => Nightly!LedgerAgrees \/ tank.status = "Booked")

(* What a form shows and the EIR lacks ends in the EIR, or in an error or  *)
(* an unsent Kirim on the screen, if the operator lets it (doSave).        *)
Pending(s) == ~Typing!Carries(eir.body, Typing!Stripped(form[s]))
EditsSettle ==
  (part = "typing" /\ Pending("s1")) ~>
    (part = "typing" => ~Pending("s1") \/ form["s1"].failed \/ form["s1"].unsent)

(* A phone dropped from the list, or left with another's name on it, is    *)
(* registered for its holder again (refreshPushState, pushGateNeeded).     *)
Astray(p) == phoneRow[p].user # holder[p]
PhonesHeal == (part = "bells" /\ Astray("p1")) ~> (part = "bells" => ~Astray("p1"))

(* Whatever is best-effort or put off is made good.                        *)
HealsInTheEnd == LedgerHeals /\ EditsSettle /\ PhonesHeal
=============================================================================
