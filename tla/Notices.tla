------------------------------ MODULE Notices ------------------------------
(***************************************************************************)
(* The bells of one order and the crew's request to revise it (notify.py,  *)
(* revision.py, hooks.py), over the hand-overs of the four menus that ring *)
(* them: EIR, Cleaning, M&R and Survey Order.                              *)
(*                                                                         *)
(* A bell is a Notification Log row of type Alert: the event it calls for  *)
(* and whom it rings.  Nobody rings himself.                               *)
(***************************************************************************)
EXTENDS FiniteSets

CONSTANTS
  Kinds,   \* the doctypes taken
  Crew,    \* the field users of this order's menu
  None,
  Lapse

NoticeAssumption ==
  /\ Kinds \subseteq {"Inspection", "Cleaning Order", "Repair Order", "Survey Order"}
  /\ Lapse \subseteq {"reopens M&R", "reopens survey", "asks twice", "answers late", "closes some tanks"}
  /\ None \notin Crew /\ Crew \cap {"desk", "boss"} = {}

VARIABLES
  kind,
  stage,
  billed,
  request,   \* revision_requested_by; None: no request
  opener,    \* assigned_to, started_by, work_started_by
  bells,
  asked      \* crew who pressed Ajukan Revisi and have not heard what became of it

vars == <<kind, stage, billed, request, opener, bells, asked>>

Office == {"desk", "boss"}
Stages ==
  {"setup", "owner", "approved", "rejected", "revision",
   "ready", "progress", "review", "done", "void", "gone", "vanished"}
Final == {"done", "void", "gone", "vanished"}
Dead == {"void", "gone", "vanished"}
Events ==
  {"created", "forwarded", "pending_approval", "decided", "pending_review", "submitted",
   "reopened", "requested", "answered", "review_rejected"}

TypeOK ==
  /\ kind \in Kinds /\ stage \in Stages /\ billed \in BOOLEAN
  /\ request \in Crew \cup {None} /\ opener \in Crew \cup {None}
  /\ bells \subseteq [event : Events, to : Crew \cup Office]
  /\ asked \subseteq Crew

-----------------------------------------------------------------------------
(* NOTIFICATION_RULES: the crew hears of what it may start on, the office  *)
(* of everything; an EIR and a survey day are the crew's when they arise.  *)
Told(e) ==
  IF e \in {"forwarded", "reopened"} \/ (e = "created" /\ kind \in {"Inspection", "Survey Order"})
  THEN Crew \cup Office ELSE Office

Rung(e, by) == {[event |-> e, to |-> u] : u \in Told(e) \ {by}}
Bell(e, u) == {[event |-> e, to |-> u]}
Heard(u) == asked \ {u}

(* Fault: the answer rings first and is revoked with the rest.             *)
AnsweredFirst(left) ==
  /\ request' = None /\ asked' = Heard(request)
  /\ bells' = IF request = None \/ left = {} THEN left ELSE left \cup Bell("answered", request)

(* close_request, with what else the step leaves ringing.                  *)
Answer(left) ==
  /\ request' = None
  /\ asked' = Heard(request)
  /\ bells' = IF request = None THEN left ELSE left \cup Bell("answered", request)

Ring(e, by) == bells' = bells \cup Rung(e, by)
Revoke == bells' = {}

First == IF kind \in {"Cleaning Order", "Repair Order"} THEN "setup" ELSE "ready"

(* Filed by an EIR, a bon or a booking, whose actor is not this menu's crew*)
(* nor its office.                                                         *)
Init ==
  /\ kind \in Kinds
  /\ stage = First /\ billed = FALSE /\ request = None /\ opener = None /\ asked = {}
  /\ bells = Rung("created", None)

(* One step of the order by whoever takes it: from, to, and the bell.      *)
Step(from, to) == stage \in from /\ stage' = to /\ UNCHANGED <<kind, billed, request, opener, asked>>

forward_to_team(by) ==
  /\ kind \in {"Cleaning Order", "Repair Order"}
  /\ Step(IF kind = "Repair Order" THEN {"setup", "revision", "approved"} ELSE {"setup"}, "ready")
  /\ Ring("forwarded", by)

publish_to_owner(by) ==
  /\ kind = "Repair Order"
  /\ Step({"setup", "revision"}, "owner")
  /\ Ring("pending_approval", by)

record_decision(by) ==
  /\ kind = "Repair Order"
  /\ \E to \in {"approved", "rejected", "revision"} : Step({"owner"}, to)
  /\ Ring("decided", by)

bypass_approval(by) ==
  /\ kind = "Repair Order"
  /\ Step({"setup", "revision"}, "approved")
  /\ Ring("decided", by)

(* withdraw_from_owner, and Kembali ke Draft from anything not finished.   *)
reopen_to_draft ==
  /\ kind = "Repair Order"
  /\ Step({"owner", "approved", "ready", "progress", "review", "rejected", "revision"}, "setup")
  /\ Revoke

start(c) ==
  /\ stage = "ready" /\ stage' = "progress"
  /\ opener' = IF opener = None THEN c ELSE opener
  /\ UNCHANGED <<kind, billed, request, bells, asked>>

send_for_review(c) ==
  /\ kind # "Survey Order"
  /\ Step({"progress"}, "review")
  /\ Ring("pending_review", c)

(* Fault: the order is taken back from review with its bells left ringing. *)
WithdrawnQuietly ==
  /\ kind # "Survey Order"
  /\ Step({"review"}, "progress")
  /\ bells' = bells
withdraw_review ==
  /\ kind # "Survey Order"
  /\ Step({"review"}, "progress")
  /\ Revoke

(* reject_review: withdrawn, and then whoever opened it is told why.       *)
reject_review ==
  /\ kind # "Survey Order"
  /\ Step({"review"}, "progress")
  /\ bells' = IF opener = None THEN {} ELSE Bell("review_rejected", opener)

(* Submit, finalize_repair (which clears a request), the last tank of a    *)
(* survey day.  Only an EIR's submit rings.                                *)
finalize(by) ==
  /\ stage \in {"review"} \cup (CASE kind = "Repair Order" -> {"approved"}
                                  [] kind \in {"Inspection", "Survey Order"} -> {"progress"}
                                  [] OTHER -> {})
  /\ stage' = "done"
  /\ request' = IF kind = "Repair Order" THEN None ELSE request
  /\ IF kind = "Inspection" THEN Ring("submitted", by) ELSE UNCHANGED bells
  /\ UNCHANGED <<kind, billed, opener, asked>>

(* "Submit" on the Desk walks the stages left; the owner's is decided.     *)
submit_direct(by) ==
  /\ kind = "Repair Order"
  /\ stage \notin Final \cup {"rejected"} /\ stage' = "done"
  /\ request' = None
  /\ \/ stage \in {"setup", "revision", "owner"} /\ Ring("decided", by)
     \/ stage # "owner" /\ UNCHANGED bells
  /\ UNCHANGED <<kind, billed, opener, asked>>

(* Tutup Order: every bell of what it finishes is muted, then all revoked. *)
close_order ==
  /\ Step(Stages \ (Final \cup {"rejected"}), "done")
  /\ Revoke

(* ... of a survey day only the tanks picked, though the bells are the     *)
(* day's.                                                                  *)
close_some_tanks ==
  /\ "closes some tanks" \in Lapse /\ kind = "Survey Order"
  /\ Step({"ready", "progress"}, "progress")
  /\ Revoke

(* A tank of a survey day is sent back: the day is open again, written raw.*)
reopen_survey(by) ==
  /\ "reopens survey" \in Lapse /\ kind = "Survey Order" /\ ~billed
  /\ Step({"done"}, "progress")
  /\ Ring("reopened", by)

(* assert_can_revise: finished and not invoiced.                           *)
MayRevise == stage = "done" /\ ~billed

(* revert_to_draft; reopen_completed of an M&R revokes nothing.            *)
revert_to_draft ==
  /\ \/ kind \in {"Inspection", "Cleaning Order"}
     \/ (kind = "Repair Order" /\ "reopens M&R" \in Lapse)
  /\ MayRevise
  /\ stage' = "progress"
  /\ Answer(IF kind = "Repair Order" THEN bells ELSE {})
  /\ UNCHANGED <<kind, billed, opener>>

-----------------------------------------------------------------------------
(* What the screens offer: Ajukan Revisi while none is pending, Tolak      *)
(* Revisi on a pending one of a finished order.                            *)
OffersRequest == MayRevise /\ request = None
OffersReject == stage = "done" /\ request # None

(* Ajukan Revisi.  A stale screen overwrites who asked.                    *)
request_revision(c) ==
  /\ OffersRequest \/ (MayRevise /\ "asks twice" \in Lapse)
  /\ request' = c
  /\ asked' = asked \cup {c}
  /\ Ring("requested", c)
  /\ UNCHANGED <<kind, stage, billed, opener>>

(* Revisi Data: saved in place, and the answer to a pending request.       *)
save_revision ==
  /\ MayRevise
  /\ Answer(bells)
  /\ UNCHANGED <<kind, stage, billed, opener>>

(* Tolak Revisi: the endpoint takes it on any order.                       *)
reject ==
  /\ OffersReject \/ (request # None /\ "answers late" \in Lapse)
  /\ Answer(bells)
  /\ UNCHANGED <<kind, stage, billed, opener>>

bill ==
  /\ stage = "done"
  /\ billed' = ~billed
  /\ UNCHANGED <<kind, stage, request, opener, bells, asked>>

-----------------------------------------------------------------------------
(* Cancel or discard; voiding is itself the answer to who asked.  A        *)
(* finished Cleaning or M&R is reverted first; a survey day keeps its flag.*)
cancel ==
  /\ stage \notin Dead
  /\ stage # "done" \/ (kind \in {"Inspection", "Survey Order"} /\ ~billed)
  /\ stage' = "void"
  /\ request' = IF kind \in {"Inspection", "Cleaning Order"} THEN None ELSE request
  /\ asked' = {}
  /\ Revoke
  /\ UNCHANGED <<kind, billed, opener>>

(* Deleted through its controller; a maintenance script deletes the row    *)
(* alone, and the daily sweep drops what it left.                          *)
on_trash ==
  /\ stage \notin Dead /\ ~billed /\ kind # "Survey Order"
  /\ stage # "done" \/ kind = "Repair Order"
  /\ stage' = "gone" /\ request' = None /\ asked' = {}
  /\ Revoke
  /\ UNCHANGED <<kind, billed, opener>>

vanish ==
  /\ stage \notin Dead /\ ~billed
  /\ stage' = "vanished" /\ request' = None /\ asked' = {}
  /\ UNCHANGED <<kind, billed, opener, bells>>

sweep_stale_notifications ==
  /\ stage \in Dead /\ (stage = "vanished" \/ bells # {})
  /\ stage' = IF stage = "vanished" THEN "gone" ELSE stage
  /\ Revoke
  /\ UNCHANGED <<kind, billed, request, opener, asked>>

Next ==
  \/ \E by \in Office :
       \/ forward_to_team(by) \/ publish_to_owner(by) \/ record_decision(by) \/ bypass_approval(by)
       \/ finalize(by) \/ submit_direct(by) \/ reopen_survey(by)
  \/ \E c \in Crew : start(c) \/ send_for_review(c) \/ request_revision(c)
  \/ reopen_to_draft \/ withdraw_review \/ reject_review \/ close_order \/ close_some_tanks
  \/ revert_to_draft \/ save_revision \/ reject \/ bill
  \/ cancel \/ on_trash \/ vanish \/ sweep_stale_notifications

Spec == Init /\ [][Next]_vars

-----------------------------------------------------------------------------
(* The step a bell calls for, or tells of, was taken and not undone.       *)
Stands(e) ==
  CASE e = "forwarded" -> stage \notin {"setup", "owner", "approved", "rejected", "revision"}
    [] e \in {"pending_approval", "decided"} -> stage # "setup"
    [] e = "pending_review" -> stage \in {"review", "done"}
    [] e \in {"submitted", "requested"} -> stage = "done"
    [] e = "review_rejected" -> stage \in {"progress", "review", "done"}
    [] OTHER -> TRUE

(* No bell outlives the step it rang for: a call to act is dropped with    *)
(* whatever undoes it (revoke).                                            *)
NoCallAhead == stage # "vanished" => \A b \in bells : Stands(b.event)

(* Nothing rings for an order that is void or deleted (revoke_on_cancel).  *)
VoidIsSilent == stage \in {"void", "gone"} => bells = {}

(* On a living order a request for revision stands only once it is         *)
(* finished, and while it is (request, revert_to_draft).                   *)
RequestOnFinished == request # None /\ stage \notin Dead => stage = "done"

(* Whoever asked is still on the order's flag, or was told what became of  *)
(* it (close_request, notify_revision_answered).                           *)
NobodyForgotten == asked \subseteq {request}

(* A request that ends on a living order rings whoever asked, and the step *)
(* that ends it leaves that bell standing (revert_to_draft: revoked first).*)
TellsAnswers ==
  request # None /\ request' # request /\ stage' \notin Dead
    => [event |-> "answered", to |-> request] \in bells'
AnswersTold == [][TellsAnswers]_vars

(* A survey day with tanks still to do rings the crew (close_order).       *)
OpenDayRings ==
  kind = "Survey Order" /\ stage \in {"ready", "progress"} => bells # {}
=============================================================================
