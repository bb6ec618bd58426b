--------------------------- MODULE InspectionDesk ---------------------------
(***************************************************************************)
(* The EIR (Inspection) and the work it orders.  Submitting an EIR-In      *)
(* files the ticked Cleaning / M&R orders, which then hold the tank; an    *)
(* EIR-Out is a condition record only and never moves the tank.            *)
(* Sources: eir.py, inspection.py, eir_followups.py, cleaning.py, mr.py    *)
(* and the two work-order controllers.                                     *)
(***************************************************************************)
EXTENDS DepotRecords

(* newer_eir: a submitted EIR of the tank raised after this one.           *)
IsNewest(t, i) == \A j \in DOMAIN eir[t] : j > i => eir[t][j].ds # "Submitted"

(* Was the EIR-In signed, or is it now being undone, with its tank away?   *)
OnAwayTank(t, i) == status[t] \notin Present \/ eir[t][i].snap \notin Present

(* A save of the tank's papers ends in recompute_availability and in the   *)
(* bon's refresh_completion, both over what was just written.              *)
Settle(t, st, es, ws, b) ==
    /\ eir' = [eir EXCEPT ![t] = es]
    /\ work' = [work EXCEPT ![t] = ws]
    /\ status' = [status EXCEPT ![t] = Settled(st, gate[t], es, ws)]
    /\ bon' = RefreshedBons(b, eir')

-----------------------------------------------------------------------------
(* EIR-In: the orders a submit files (eir_followups)                       *)

NewWork(t, kind, i) ==
    [kind |-> kind, src |-> i, seen |-> Len(eir[t]), born |-> departures[t], st |-> "Unstarted"]

Spawned(ws, kind, i) ==
    \E w \in DOMAIN ws : ws[w].kind = kind /\ ws[w].src = i /\ ws[w].st # "Cancelled"

(* The Cleaning Order: adopted silently when one is open, of any visit,    *)
(* unless it already awaits review.                                        *)
WithCleaning(t, i, ws) ==
    IF \/ Spawned(ws, "Cleaning", i)
       \/ \E w \in DOMAIN ws : ws[w].kind = "Cleaning" /\ ws[w].st \in {"Unstarted", "Working"}
    THEN ws
    ELSE Append(ws, NewWork(t, "Cleaning", i))

(* The M&R: an open one is adopted and stamped with the EIR if it has none.*)
WithRepair(t, i, ws) ==
    LET open == Newest({w \in DOMAIN ws : /\ ws[w].kind = "M&R"
                                          /\ ws[w].st \in {"Unstarted", "Working", "Review"}})
    IN  IF Spawned(ws, "M&R", i) THEN ws
        ELSE IF open = 0 THEN Append(ws, NewWork(t, "M&R", i))
        ELSE [ws EXCEPT ![open].src = IF @ = 0 THEN i ELSE @]

FollowUps(t, i, tick) ==
    LET cleaned == IF "Cleaning" \in tick THEN WithCleaning(t, i, work[t]) ELSE work[t]
    IN  IF "M&R" \in tick THEN WithRepair(t, i, cleaned) ELSE cleaned

(* release_followups_for_eir: a void drops the orders nobody touched; an   *)
(* M&R only when it was raised after the EIR existed.                      *)
ReleasedFollowUps(t, i) ==
    [w \in DOMAIN work[t] |->
        IF /\ work[t][w].src = i /\ work[t][w].st = "Unstarted"
           /\ work[t][w].kind = "M&R" => work[t][w].seen >= i
        THEN [work[t][w] EXCEPT !.st = "Cancelled"] ELSE work[t][w]]

-----------------------------------------------------------------------------
StartEIR(t, i) ==
    /\ eir[t][i].ds = "Draft" /\ ~eir[t][i].started
    /\ eir' = [eir EXCEPT ![t][i].started = TRUE]
    /\ UNCHANGED <<status, inDate, bk, code, paid, bon, gate, work, departures, enforceAll>>

SubmitEIRIn(t, i, tick) ==
    /\ eir[t][i].type = "In" /\ eir[t][i].ds = "Draft"
    /\ Settle(t, status[t],
              [eir[t] EXCEPT ![i].ds = "Submitted", ![i].snap = status[t]],
              FollowUps(t, i, tick), eir[t][i].bon)
    /\ Len(work'[t]) <= MaxWork
    /\ UNCHANGED <<inDate, bk, code, paid, gate, departures, enforceAll>>

(* gate.link_eir_out: the finished EIR-Out goes onto its bon's departure.  *)
SubmitEIROut(t, i) ==
    LET b == eir[t][i].bon
        link(r) == IF b # 0 /\ r.muat = b /\ r.eout = 0 THEN [r EXCEPT !.eout = i] ELSE r
    IN  /\ eir[t][i].type = "Out" /\ eir[t][i].ds = "Draft"
        /\ eir' = [eir EXCEPT ![t][i].ds = "Submitted"]
        /\ gate' = [gate EXCEPT ![t] = {link(r) : r \in @}]
        /\ UNCHANGED <<status, inDate, bk, code, paid, bon, work, departures, enforceAll>>

(* Fault: the departure keeps an EIR-Out that went back to draft.          *)
StillLinked(t, i) == IF i \in DOMAIN eir[t] THEN gate[t] ELSE {}

(* unwind_submitted_eir for an EIR-Out: off the departure's Gate Entry.    *)
Unlinked(t, i) == {IF r.eout = i THEN [r EXCEPT !.eout = 0] ELSE r : r \in gate[t]}

(* Kembalikan ke Draft of an EIR: newest only, and no other draft beside   *)
(* it.  An EIR-In puts the tank's pre-submit status back, then settles it. *)
RevertEIR(t, i) ==
    /\ eir[t][i].ds = "Submitted" /\ IsNewest(t, i)
    /\ \A j \in DOMAIN eir[t] : eir[t][j].ds # "Draft"
    /\ IF eir[t][i].type = "In"
       THEN /\ "away EIR" \in Lapse \/ ~OnAwayTank(t, i)
            /\ Settle(t, eir[t][i].snap, [eir[t] EXCEPT ![i].ds = "Draft"], work[t], eir[t][i].bon)
            /\ UNCHANGED gate
       ELSE /\ eir' = [eir EXCEPT ![t][i].ds = "Draft"]
            /\ gate' = [gate EXCEPT ![t] = Unlinked(t, i)]
            /\ UNCHANGED <<status, work, bon>>
    /\ UNCHANGED <<inDate, bk, code, paid, departures, enforceAll>>

(* The framework refuses to cancel a document a submitted one links to: a  *)
(* Cleaning Order this EIR filed that has been signed off.                 *)
FinishedCleaningOf(t, i) ==
    \E w \in DOMAIN work[t] :
        work[t][w].kind = "Cleaning" /\ work[t][w].src = i /\ work[t][w].st = "Done"

(* Voiding a submitted EIR: the same unwind, and its orders go.            *)
VoidEIR(t, i) ==
    /\ eir[t][i].ds = "Submitted" /\ IsNewest(t, i)
    /\ IF eir[t][i].type = "In"
       THEN /\ "away EIR" \in Lapse \/ ~OnAwayTank(t, i)
            /\ ~FinishedCleaningOf(t, i)
            /\ Settle(t, eir[t][i].snap, [eir[t] EXCEPT ![i].ds = "Void"],
                      ReleasedFollowUps(t, i), eir[t][i].bon)
            /\ UNCHANGED gate
       ELSE /\ eir' = [eir EXCEPT ![t][i].ds = "Void"]
            /\ gate' = [gate EXCEPT ![t] = Unlinked(t, i)]
            /\ status' = [status EXCEPT ![t] = Settled(@, gate[t], eir'[t], work[t])]
            /\ UNCHANGED <<work, bon>>
    /\ UNCHANGED <<inDate, bk, code, paid, departures, enforceAll>>

(* The red Cancel on a draft, and deleting it.                             *)
DiscardEIR(t, i) ==
    /\ eir[t][i].ds = "Draft"
    /\ Settle(t, status[t], [eir[t] EXCEPT ![i].ds = "Void"],
              IF eir[t][i].type = "In" THEN ReleasedFollowUps(t, i) ELSE work[t],
              eir[t][i].bon)
    /\ UNCHANGED <<inDate, bk, code, paid, gate, departures, enforceAll>>

EIRStep(t) ==
    \E i \in DOMAIN eir[t] :
        \/ StartEIR(t, i)
        \/ \E tick \in SUBSET WorkKind : SubmitEIRIn(t, i, tick)
        \/ SubmitEIROut(t, i) \/ RevertEIR(t, i) \/ VoidEIR(t, i) \/ DiscardEIR(t, i)

-----------------------------------------------------------------------------
(* Cleaning Orders and M&Rs.  Every save of one ends in the tank's         *)
(* recompute_availability.                                                 *)

(* Fault: a work order's save does not settle the tank.                    *)
WorkSavedOnly(t, ws) ==
    /\ work' = [work EXCEPT ![t] = ws]
    /\ UNCHANGED <<status, inDate, bk, code, paid, bon, gate, eir, departures, enforceAll>>

WorkSaved(t, ws) ==
    /\ work' = [work EXCEPT ![t] = ws]
    /\ status' = [status EXCEPT ![t] = Settled(@, gate[t], eir[t], ws)]
    /\ UNCHANGED <<inDate, bk, code, paid, bon, gate, eir, departures, enforceAll>>

(* The depot raises one by hand.                                           *)
RaiseWork(t, kind) ==
    /\ Len(work[t]) < MaxWork
    /\ WorkSaved(t, Append(work[t], NewWork(t, kind, 0)))

(* start, send for review, withdraw, sign off from anywhere, open again;   *)
(* an M&R also goes back to its Draft.                                     *)
WorkMoves(kind) ==
    {<<"Unstarted", "Working">>, <<"Working", "Review">>, <<"Review", "Working">>,
     <<"Unstarted", "Done">>, <<"Working", "Done">>, <<"Review", "Done">>, <<"Done", "Working">>}
    \cup IF kind = "M&R" THEN {<<"Working", "Unstarted">>, <<"Review", "Unstarted">>} ELSE {}

MoveWork(t, w) ==
    \E move \in WorkMoves(work[t][w].kind) :
        /\ work[t][w].st = move[1]
        /\ WorkSaved(t, [work[t] EXCEPT ![w].st = move[2]])

(* A finished order is never cancelled; it is opened again first.          *)
CancelWork(t, w) ==
    /\ work[t][w].st \in {"Unstarted", "Working", "Review"}
    /\ WorkSaved(t, [work[t] EXCEPT ![w].st = "Cancelled"])

WorkStep(t) ==
    \/ \E kind \in WorkKind : RaiseWork(t, kind)
    \/ \E w \in DOMAIN work[t] : MoveWork(t, w) \/ CancelWork(t, w)
=============================================================================
