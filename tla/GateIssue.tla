----------------------------- MODULE GateIssue -----------------------------
(***************************************************************************)
(* How a bon is born while several requests run at once.  The gate phone   *)
(* (GateEntry.vue) mints one request id when its form opens and sends it   *)
(* with every press of Generate; the endpoint (api.gate_generate_order)    *)
(* looks the id up in the cache, and make_order checks the booking, locks  *)
(* the Booking Codes (SELECT ... FOR UPDATE), writes the bon and consumes   *)
(* the codes.  The database commits only after the endpoint has returned,  *)
(* the cache at once.                                                      *)
(*                                                                         *)
(* The database is MariaDB at REPEATABLE READ: what a request reads before *)
(* the locking read is what was committed when it began; the locking read  *)
(* sees what is committed now and is kept until commit or rollback.  A     *)
(* worker may die at the stages in CrashAt, an answer may be lost, a cache *)
(* entry may be evicted, and the office voids bons and takes the booking   *)
(* back to draft meanwhile.                                                *)
(***************************************************************************)
EXTENDS Integers, FiniteSets

CONSTANTS
  Form,       \* the gate phones' open forms, each for one intended bon
  Code,       \* the Booking Codes of the one booking they issue from
  Selected,   \* Selected[f]: the codes ticked on form f
  Copies,     \* bound: requests of one form in flight together
  MaxVoid,    \* bound: bons ever voided
  MaxMint,    \* bound: how often one form is opened
  MaxLoss,    \* bound: answers lost, workers killed, entries evicted
  CrashAt,    \* the stages at which a worker may be killed
  Evicts,     \* whether the cache may drop a live entry
  Reverts     \* whether Kembali ke Draft is pressed on the booking

ASSUME SelectedAssumption == Selected \in [Form -> (SUBSET Code) \ {{}}]
ASSUME CopiesAssumption == Copies \in Nat \ {0}
ASSUME BoundAssumption == MaxVoid \in Nat /\ MaxMint \in Nat /\ MaxLoss \in Nat

VARIABLES
  confirmed,  \* docstatus = 1 of the booking, as committed
  reverting,  \* a revert_booking_to_draft has passed its checks
  used,       \* the codes whose committed state is Used
  bons,       \* every bon committed so far
  remembered, \* the request ids the cache can answer
  request,    \* request[f][i]: the i-th request of form f in flight
  screen,     \* what each phone shows
  losses      \* how many faults have happened

vars == <<confirmed, reverting, used, bons, remembered, request, screen, losses>>

Slot == Form \X (1..Copies)

Stage == {"idle", "sent", "checked", "locked", "written", "answered", "refused"}

(* A request: where it is and the id it carries.                           *)
Idle == [stage |-> "idle", id |-> 0]

Id(f, r) == <<f, r.id>>

TypeOK ==
  /\ confirmed \in BOOLEAN
  /\ reverting \in BOOLEAN
  /\ used \subseteq Code
  /\ bons \subseteq [nr : 1..(Cardinality(Code) + MaxVoid), form : Form, id : 1..MaxMint, standing : BOOLEAN]
  /\ remembered \subseteq Form \X (1..MaxMint)
  /\ request \in [Slot -> [stage : Stage, id : 0..MaxMint]]
  /\ screen \in [Form -> [step : {"vehicle", "waiting", "error", "done"},
                          id : 1..MaxMint, slot : 0..Copies]]
  /\ losses \in 0..MaxLoss

Init ==
  /\ confirmed = TRUE
  /\ reverting = FALSE
  /\ used = {}
  /\ bons = {}
  /\ remembered = {}
  /\ request = [s \in Slot |-> Idle]
  /\ screen = [f \in Form |-> [step |-> "vehicle", id |-> 1, slot |-> 0]]
  /\ losses = 0

-----------------------------------------------------------------------------
(* The rows a request holds until it commits or rolls back.                *)
Holds(s) == request[s].stage \in {"locked", "written"}

NoRowLock(codes) == TRUE

LockFree(codes) == \A s \in Slot : Holds(s) => Selected[s[1]] \cap codes = {}

AtStage(s, stage) == request' = [request EXCEPT ![s].stage = stage]

(* Plausible bugs in the steps below.                                      *)
RemembersNothing(s) ==
  /\ request[s].stage = "locked"
  /\ AtStage(s, "written")
  /\ UNCHANGED <<confirmed, reverting, used, bons, remembered, screen, losses>>

RefusalUnheard(s) ==
  /\ request[s].stage \in {"answered", "refused"}
  /\ request' = [request EXCEPT ![s] = Idle]
  /\ screen' = IF screen[s[1]].slot = s[2] /\ request[s].stage = "answered"
               THEN [screen EXCEPT ![s[1]].step = "done", ![s[1]].slot = 0]
               ELSE screen
  /\ UNCHANGED <<confirmed, reverting, used, bons, remembered, losses>>

RemembersFirst(s) ==
  LET known == Id(s[1], request[s]) \in remembered IN
  /\ request[s].stage = "sent"
  /\ AtStage(s, IF known THEN "answered" ELSE IF confirmed THEN "checked" ELSE "refused")
  /\ remembered' = remembered \cup {Id(s[1], request[s])}
  /\ UNCHANGED <<confirmed, reverting, used, bons, screen, losses>>

(* The phone.  Generate is disabled while an answer is awaited, so a form  *)
(* is pressed again only once its last press has failed.                   *)
Press(f) ==
  /\ screen[f].step \in {"vehicle", "error"}
  /\ \E i \in 1..Copies :
       /\ request[<<f, i>>].stage = "idle"
       /\ request' = [request EXCEPT ![<<f, i>>] = [stage |-> "sent", id |-> screen[f].id]]
       /\ screen' = [screen EXCEPT ![f].step = "waiting", ![f].slot = i]
  /\ UNCHANGED <<confirmed, reverting, used, bons, remembered, losses>>

(* The operator goes back and opens the vehicle form again: a new id.      *)
OpenGenerate(f) ==
  /\ screen[f].step \in {"error", "done"}
  /\ screen[f].id < MaxMint
  /\ screen' = [screen EXCEPT ![f] = [step |-> "vehicle", id |-> screen[f].id + 1, slot |-> 0]]
  /\ UNCHANGED <<confirmed, reverting, used, bons, remembered, request, losses>>

(* The link drops: the phone reads an error, the request runs on.          *)
LinkDown(f) ==
  /\ losses < MaxLoss
  /\ screen[f].step = "waiting"
  /\ screen' = [screen EXCEPT ![f].step = "error", ![f].slot = 0]
  /\ losses' = losses + 1
  /\ UNCHANGED <<confirmed, reverting, used, bons, remembered, request>>

(* The answer of request s reaches the phone, if the phone still waits.    *)
Answer(s) ==
  LET f == s[1] IN
  /\ request[s].stage \in {"answered", "refused"}
  /\ request' = [request EXCEPT ![s] = Idle]
  /\ screen' = IF screen[f].step = "waiting" /\ screen[f].slot = s[2]
               THEN [screen EXCEPT ![f].step = IF request[s].stage = "answered" THEN "done" ELSE "error",
                                   ![f].slot = 0]
               ELSE screen
  /\ UNCHANGED <<confirmed, reverting, used, bons, remembered, losses>>

-----------------------------------------------------------------------------
(* Lookup: an id the cache knows is answered without running anything;     *)
(* otherwise the booking must be confirmed as the request's snapshot has   *)
(* it.                                                                     *)
Lookup(s) ==
  LET known == Id(s[1], request[s]) \in remembered IN
  /\ request[s].stage = "sent"
  /\ AtStage(s, IF known THEN "answered" ELSE IF confirmed THEN "checked" ELSE "refused")
  /\ UNCHANGED <<confirmed, reverting, used, bons, remembered, screen, losses>>

(* SELECT ... FOR UPDATE waits for the rows, then sees what is committed:  *)
(* every code must still be Active.                                        *)
Lock(s) ==
  /\ request[s].stage = "checked"
  /\ LockFree(Selected[s[1]])
  /\ AtStage(s, IF Selected[s[1]] \cap used = {} THEN "locked" ELSE "refused")
  /\ UNCHANGED <<confirmed, reverting, used, bons, remembered, screen, losses>>

(* The bon is inserted and submitted, and the answer is remembered.        *)
Write(s) ==
  /\ request[s].stage = "locked"
  /\ AtStage(s, "written")
  /\ remembered' = remembered \cup {Id(s[1], request[s])}
  /\ UNCHANGED <<confirmed, reverting, used, bons, screen, losses>>

(* insert or submit refuses: rolled back to the savepoint and thrown.      *)
Reject(s) ==
  /\ request[s].stage = "locked"
  /\ AtStage(s, "refused")
  /\ UNCHANGED <<confirmed, reverting, used, bons, remembered, screen, losses>>

Commit(s) ==
  /\ request[s].stage = "written"
  /\ AtStage(s, "answered")
  /\ used' = used \cup Selected[s[1]]
  /\ bons' = bons \cup {[nr |-> Cardinality(bons) + 1, form |-> s[1], id |-> request[s].id,
                         standing |-> TRUE]}
  /\ UNCHANGED <<confirmed, reverting, remembered, screen, losses>>

(* The worker is killed: its transaction rolls back and nobody answers.    *)
Crash(s) ==
  LET f == s[1] IN
  /\ request[s].stage \in CrashAt
  /\ losses < MaxLoss
  /\ losses' = losses + 1
  /\ request' = [request EXCEPT ![s] = Idle]
  /\ screen' = IF screen[f].slot = s[2] THEN [screen EXCEPT ![f].step = "error", ![f].slot = 0] ELSE screen
  /\ UNCHANGED <<confirmed, reverting, used, bons, remembered>>

Evict(k) ==
  /\ Evicts
  /\ losses < MaxLoss
  /\ k \in remembered
  /\ remembered' = remembered \ {k}
  /\ losses' = losses + 1
  /\ UNCHANGED <<confirmed, reverting, used, bons, request, screen>>

-----------------------------------------------------------------------------
(* The office: a bon is taken to draft and voided, its codes given back    *)
(* (the updates wait for the rows).                                        *)
Void(b) ==
  /\ b \in bons
  /\ b.standing
  /\ LockFree(Selected[b.form])
  /\ Cardinality({c \in bons : ~c.standing}) < MaxVoid
  /\ bons' = (bons \ {b}) \cup {[b EXCEPT !.standing = FALSE]}
  /\ used' = used \ Selected[b.form]
  /\ UNCHANGED <<confirmed, reverting, remembered, request, screen, losses>>

(* revert_booking_to_draft reads, without a lock, that no bon was ever     *)
(* raised and no code is Used ...                                          *)
RevertChecks ==
  /\ Reverts
  /\ confirmed /\ ~reverting
  /\ bons = {} /\ used = {}
  /\ reverting' = TRUE
  /\ UNCHANGED <<confirmed, used, bons, remembered, request, screen, losses>>

(* ... and then flips the booking.                                         *)
RevertCommits ==
  /\ reverting
  /\ reverting' = FALSE
  /\ confirmed' = FALSE
  /\ UNCHANGED <<used, bons, remembered, request, screen, losses>>

Confirm ==
  /\ Reverts
  /\ ~confirmed
  /\ confirmed' = TRUE
  /\ UNCHANGED <<reverting, used, bons, remembered, request, screen, losses>>

Served(s) == Lookup(s) \/ Lock(s) \/ Write(s) \/ Reject(s) \/ Commit(s) \/ Answer(s)

Next ==
  \/ \E f \in Form : Press(f) \/ OpenGenerate(f) \/ LinkDown(f)
  \/ \E s \in Slot : Lookup(s) \/ Lock(s) \/ Write(s) \/ Reject(s) \/ Commit(s) \/ Answer(s) \/ Crash(s)
  \/ \E k \in remembered : Evict(k)
  \/ \E b \in bons : Void(b)
  \/ RevertChecks \/ RevertCommits \/ Confirm

Spec == Init /\ [][Next]_vars

(* Workers run their requests to an end; InnoDB grants row locks in the    *)
(* order they were asked for, so a waiting request gets its turn; and the  *)
(* operator presses again on a screen that still looks unfinished          *)
(* (api.gate_generate_order).  Losses are finitely many (MaxLoss).         *)
Fairness ==
  /\ \A s \in Slot : WF_vars(Served(s)) /\ SF_vars(Lock(s))
  /\ \A f \in Form : WF_vars(screen[f].step = "error" /\ Press(f))

LiveSpec == Spec /\ Fairness

-----------------------------------------------------------------------------
(* Two guards never spend one code twice: no code stands on two bons, and  *)
(* exactly the codes of standing bons are Used, whatever crashes and       *)
(* resends happen in between (make_order's FOR UPDATE).                    *)
OneBonPerCode ==
  /\ \A b, c \in bons : b.standing /\ c.standing /\ b # c => Selected[b.form] \cap Selected[c.form] = {}
  /\ used = UNION {Selected[b.form] : b \in {c \in bons : c.standing}}

(* A phone that shows step 3 was answered for a bon of its id that is      *)
(* committed, or whose transaction has only the commit left: "a stepper    *)
(* that lights up on submit tells the operator a bon exists while the      *)
(* request is still in the air" (GateEntry.vue).                           *)
DoneMeansBon ==
  \A f \in Form : screen[f].step = "done" =>
     \/ \E b \in bons : b.form = f /\ b.id = screen[f].id
     \/ \E i \in 1..Copies : request[<<f, i>>] = [stage |-> "written", id |-> screen[f].id]

(* A bon stands on a confirmed booking only: the refusal at the head of    *)
(* make_order and the one of revert_booking_to_draft together.             *)
BonsStandOnConfirmed == (\E b \in bons : b.standing) => confirmed

(* No press hangs: the phone that waits is answered or reads an error.     *)
EveryPressEnds == \A f \in Form : (screen[f].step = "waiting") ~> (screen[f].step # "waiting")

(* A bon whose answer was lost reaches its operator all the same: pressing *)
(* again on the same form ends on step 3, unless the office voids the bon  *)
(* first.                                                                  *)
BonReachesItsPhone ==
  \A f \in Form : (\E b \in bons : b.form = f /\ b.standing)
                    ~> (screen[f].step = "done" \/ ~\E b \in bons : b.form = f /\ b.standing)
=============================================================================
