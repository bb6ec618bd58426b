------------------------------- MODULE JobForm -------------------------------
(***************************************************************************)
(* The screen of one wash, repair or tank survey, and the order behind it  *)
(* (CleaningDetail.vue, RepairDetail.vue, SurveyTank.vue; cleaning.py,     *)
(* mr.py, tank_survey.py).  A screen saves its whole album by itself a     *)
(* moment after every change; several phones may have one order open, and  *)
(* one screen is reused when a notification names another order.           *)
(*                                                                         *)
(* A remark is a value or Blank; the signature and captions travel like    *)
(* it.  Parked photos and screens served from the cache are in EirForm,    *)
(* the office's own steps in RepairOrder, CleaningOrder and SurveyOrder.   *)
(***************************************************************************)
EXTENDS Naturals, Sequences, FiniteSets, SequencesExt

CONSTANTS
  Kinds,    \* which of "cleaning", "repair" and "survey" the orders may be
  Job,      \* orders
  Phone,
  Photo,
  Note,     \* remarks
  Blank,    \* the empty one
  None,
  SameItem, \* do the repairs bill the same item?
  MaxWire,  \* bound: requests under way at once
  Lapse     \* what the code relies on not happening

Lapses == {
  "two at once",          \* an order is open on two phones
  "switches while busy",  \* a notification swaps the order under a screen with something under way
  "leaves early",         \* Back within the moment before a save, during an upload, or after one was lost
  "types on",             \* the screen is filled in further after a Kirim, under way or failed
  "empties"}              \* the remark of a wash is emptied

JobAssumption ==
  /\ Kinds \subseteq {"cleaning", "repair", "survey"} /\ Lapse \subseteq Lapses
  /\ Blank \in Note /\ None \notin Job \cup Photo /\ SameItem \in BOOLEAN /\ MaxWire \in Nat \ {0}

VARIABLES
  kind,
  job,      \* job[j]: stage, Mulai pressed?, remark, album, what the last Kirim carried and for whom
  form,     \* form[f], the screen of a phone
  wire,     \* requests under way, in the order they were posted
  shotFor,  \* the order a photo was taken for
  struck    \* photos somebody removed

vars == <<kind, job, form, wire, shotFor, struck>>

Closed == [shown |-> FALSE, at |-> None, asked |-> None, revisi |-> FALSE, stage |-> "pending", note |-> Blank,
           photos |-> {}, timer |-> FALSE, again |-> FALSE, ok |-> FALSE, lost |-> FALSE, up |-> None, press |-> "no", for |-> None]

Init ==
  /\ kind \in Kinds
  /\ job = [j \in Job |-> [stage |-> "pending", started |-> FALSE, note |-> Blank, photos |-> {},
                           sent |-> {}, for |-> None]]
  /\ form = [f \in Phone |-> Closed]
  /\ wire = <<>> /\ shotFor = [p \in Photo |-> None] /\ struck = {}

Stage == {"pending", "running", "review", "done"}
MaybeJob == Job \cup {None}
TypeOK ==
  /\ kind \in Kinds
  /\ job \in [Job -> [stage : Stage, started : BOOLEAN, note : Note, photos : SUBSET Photo,
                      sent : SUBSET Photo, for : MaybeJob]]
  /\ form \in [Phone -> [shown : BOOLEAN, at : MaybeJob, asked : MaybeJob, revisi : BOOLEAN, stage : Stage,
                         note : Note, photos : SUBSET Photo, timer : BOOLEAN, again : BOOLEAN, ok : BOOLEAN,
                         lost : BOOLEAN, up : Photo \cup {None}, press : {"no", "waits", "flying", "failed"}, for : MaybeJob]]
  /\ wire \in Seq([kind : {"start", "save", "send"}, phone : Phone, job : Job, for : MaybeJob, note : Note,
                   photos : SUBSET Photo, revise : BOOLEAN, answer : {"none", "ok", "refused", "lost"}])
  /\ Len(wire) <= MaxWire
  /\ shotFor \in [Photo -> MaybeJob] /\ struck \subseteq Photo

-----------------------------------------------------------------------------
Revising(f) == form[f].revisi /\ form[f].stage = "done"
OnScreen(f) == form[f].shown /\ form[f].at # None /\ form[f].asked = None

(* The form is out while the work runs, and for Revisi Data.               *)
Working(f) == OnScreen(f) /\ (form[f].stage = "running" \/ Revising(f))
Usable(f) == Working(f) /\ (form[f].press = "no" \/ "types on" \in Lapse)

Flying(f, k) == \E i \in DOMAIN wire : wire[i].phone = f /\ wire[i].kind = k
Busy(f) == form[f].timer \/ form[f].again \/ form[f].up # None \/ form[f].press \in {"waits", "flying"}
           \/ \E i \in DOMAIN wire : wire[i].phone = f

Request(k, f, revise) ==
  [kind |-> k, phone |-> f, job |-> form[f].at, for |-> form[f].for, note |-> form[f].note,
   photos |-> form[f].photos, revise |-> revise, answer |-> "none"]
Posted(r) == Len(wire) < MaxWire /\ wire' = Append(wire, r)

(* A change starts the moment before a save; a revision saves once.        *)
Changed(f, g) == [g EXCEPT !.timer = IF Revising(f) THEN @ ELSE TRUE, !.ok = FALSE]

-----------------------------------------------------------------------------
(* The screen.                                                             *)

(* A revision left before it is sent is given up.                          *)
GivenUp(f) == IF Revising(f) THEN form[f].photos \ job[form[f].at].photos ELSE {}

(* A list row or a notification: the order is fetched, what the screen has *)
(* under way goes on.                                                      *)
Open(f, j, revisi) ==
  /\ form[f].at # j \/ ~form[f].shown
  /\ (~Busy(f) /\ ~form[f].lost) \/ ("switches while busy" \in Lapse /\ form[f].shown)
  /\ "two at once" \in Lapse \/ \A g \in Phone \ {f} : ~Busy(g) /\ ~(form[g].shown /\ j \in {form[g].at, form[g].asked})
  /\ revisi => kind # "survey"
  /\ form' = [form EXCEPT ![f].shown = TRUE, ![f].asked = j, ![f].revisi = revisi, ![f].lost = FALSE,
                          ![f].press = IF @ = "failed" THEN "no" ELSE @]
  /\ struck' = struck \cup GivenUp(f)
  /\ UNCHANGED <<kind, job, wire, shotFor>>

(* The album as it is read: a survey's only while it is under way.         *)
Album(j) == IF kind = "survey" /\ job[j].stage # "running" THEN {} ELSE job[j].photos

Detail(j) == [stage |-> job[j].stage, note |-> job[j].note, photos |-> Album(j)]

(* The answer fills the screen; only a survey drops the pending save.      *)
Arrives(f) ==
  LET j == form[f].asked
      d == Detail(j)
  IN
  /\ j # None
  /\ form' = [form EXCEPT
       ![f].at = j, ![f].asked = None, ![f].stage = d.stage, ![f].note = d.note, ![f].ok = FALSE,
       ![f].photos = d.photos, ![f].timer = @ /\ kind # "survey"]
  /\ UNCHANGED <<kind, job, wire, shotFor, struck>>

(* Back: a wash or repair is cleared, the pending save of a survey goes on.*)
Left(f) == IF kind = "survey" THEN [form[f] EXCEPT !.shown = FALSE, !.up = None] ELSE Closed
Leave(f) ==
  /\ form[f].shown /\ ((~Busy(f) /\ ~form[f].lost) \/ "leaves early" \in Lapse)
  /\ form' = [form EXCEPT ![f] = Left(f)]
  /\ struck' = struck \cup GivenUp(f)
  /\ UNCHANGED <<kind, job, wire, shotFor>>

PressStart(f) ==
  /\ OnScreen(f) /\ form[f].stage = "pending" /\ ~Flying(f, "start")
  /\ Posted(Request("start", f, FALSE))
  /\ UNCHANGED <<kind, job, form, shotFor, struck>>

(* The remark of a survey waits for its Selesai; a repair shows the        *)
(* office's.                                                               *)
EditNote(f, n) ==
  /\ Usable(f) /\ kind # "repair" /\ n # form[f].note
  /\ n # Blank \/ kind = "survey" \/ "empties" \in Lapse
  /\ form' = [form EXCEPT ![f] = IF kind = "survey" THEN [@ EXCEPT !.note = n]
                                  ELSE Changed(f, [@ EXCEPT !.note = n])]
  /\ UNCHANGED <<kind, job, wire, shotFor, struck>>

Shoot(f, p) ==
  /\ Usable(f) /\ form[f].up = None /\ shotFor[p] = None
  /\ shotFor' = [shotFor EXCEPT ![p] = form[f].at]
  /\ form' = [form EXCEPT ![f].up = p]
  /\ UNCHANGED <<kind, job, wire, struck>>

(* The photo joins whatever album the screen shows by then.                *)
Uploaded(f) ==
  /\ form[f].up # None /\ form[f].at # None
  /\ form' = [form EXCEPT ![f] = Changed(f, [@ EXCEPT !.photos = @ \cup {form[f].up}, !.up = None])]
  /\ UNCHANGED <<kind, job, wire, shotFor, struck>>

(* A repair shows a photo under its line, another order's nowhere.         *)
Visible(f, p) == kind = "repair" => shotFor[p] = form[f].at
RemovePhoto(f, p) ==
  /\ Usable(f) /\ p \in form[f].photos /\ Visible(f, p)
  /\ struck' = struck \cup {p}
  /\ form' = [form EXCEPT ![f] = Changed(f, [@ EXCEPT !.photos = @ \ {p}])]
  /\ UNCHANGED <<kind, job, wire, shotFor>>

Remembers(f) == form' = [form EXCEPT ![f].timer = FALSE, ![f].again = TRUE]

(* Never two saves of one screen at once.                                  *)
TimerFires(f) ==
  /\ form[f].timer
  /\ \/ Flying(f, "save") /\ Remembers(f) /\ UNCHANGED wire
     \/ /\ ~Flying(f, "save")
        /\ form' = [form EXCEPT ![f].timer = FALSE]
        /\ IF kind = "survey" /\ form[f].stage # "running" THEN UNCHANGED wire ELSE Posted(Request("save", f, FALSE))
  /\ UNCHANGED <<kind, job, shotFor, struck>>

(* Kirim, after its confirmation: a survey first lets its save land.       *)
Press(f) ==
  /\ Working(f) /\ form[f].press \in {"no", "failed"} /\ (form[f].up = None \/ "types on" \in Lapse)
  /\ LET g == [form[f] EXCEPT !.timer = FALSE, !.for = form[f].at] IN
     IF kind = "survey"
       THEN form' = [form EXCEPT ![f] = [g EXCEPT !.press = "waits", !.again = FALSE]] /\ UNCHANGED wire
       ELSE /\ form' = [form EXCEPT ![f] = [g EXCEPT !.press = "flying"]]
            /\ Posted([Request("send", f, Revising(f)) EXCEPT !.for = form[f].at])
  /\ UNCHANGED <<kind, job, shotFor, struck>>

PostFinish(f) ==
  /\ form[f].press = "waits" /\ ~Flying(f, "save")
  /\ Posted(Request("send", f, FALSE))
  /\ form' = [form EXCEPT ![f].press = "flying"]
  /\ UNCHANGED <<kind, job, shotFor, struck>>

(* Tarik: the order is taken back and read again.                          *)
Withdraw(f) ==
  LET j == form[f].at IN
  /\ OnScreen(f) /\ ~Busy(f)
  /\ form[f].stage = job[j].stage /\ job[j].stage = IF kind = "survey" THEN "done" ELSE "review"
  /\ job' = [job EXCEPT ![j].stage = "running"]
  /\ form' = [form EXCEPT ![f].asked = j]
  /\ UNCHANGED <<kind, wire, shotFor, struck>>

-----------------------------------------------------------------------------
(* The server.                                                             *)
Handled(i, answer) == wire' = [wire EXCEPT ![i].answer = answer]
Unhandled(i) == /\ i \in DOMAIN wire /\ wire[i].answer = "none"
                /\ \A h \in 1..(i - 1) : wire[h].answer # "none"

(* A repair's photo must be of an item it bills.                           *)
Binds(r) == kind = "repair" /\ ~SameItem => \A p \in r.photos : shotFor[p] = r.job

(* A second Mulai joins the first; work sent or done is refused.           *)
Start(i) ==
  /\ Unhandled(i) /\ wire[i].kind = "start"
  /\ LET j == wire[i].job IN
     IF job[j].stage \in {"pending", "running"}
       THEN job' = [job EXCEPT ![j].stage = "running", ![j].started = TRUE] /\ Handled(i, "ok")
       ELSE UNCHANGED job /\ Handled(i, "refused")
  /\ UNCHANGED <<kind, form, shotFor, struck>>

(* save_cleaning_order, save_mr_order, save_interior_photos, finish_survey.*)
Accepts(r) ==
  LET s == job[r.job].stage IN
  CASE kind = "cleaning" -> s \in {"pending", "running"} \/ (r.revise /\ s = "done")
    [] kind = "repair"   -> /\ Binds(r)
                            /\ \/ s = "running" \/ (r.revise /\ s = "done")
                               \/ s = "pending" /\ (r.kind = "save" \/ r.revise)
    [] kind = "survey"   -> s = "running"

(* An empty remark is not sent; a survey's Selesai writes what it has.     *)
NoteAfter(r) ==
  CASE kind = "cleaning" /\ r.note # Blank      -> r.note
    [] kind = "survey" /\ r.kind = "send"       -> r.note
    [] OTHER                                    -> job[r.job].note

(* The album is replaced by the one the screen shows.                      *)
Written(r) == [job[r.job] EXCEPT !.note = NoteAfter(r), !.photos = r.photos]

Save(i) ==
  LET r == wire[i] IN
  /\ Unhandled(i) /\ r.kind \in {"save", "send"}
  /\ IF Accepts(r)
       THEN /\ Handled(i, "ok")
            /\ job' = [job EXCEPT ![r.job] =
                 LET w == Written(r) IN
                 IF r.kind = "send" /\ ~r.revise
                   THEN [w EXCEPT !.stage = IF kind = "survey" THEN "done" ELSE "review",
                                  !.sent = r.photos, !.for = r.for]
                   ELSE [w EXCEPT !.sent = IF job[r.job].stage = "done" THEN r.photos ELSE @]]
       ELSE UNCHANGED job /\ Handled(i, "refused")
  /\ UNCHANGED <<kind, form, shotFor, struck>>

Lost(i) ==
  /\ i \in DOMAIN wire /\ wire[i].answer # "lost"
  /\ Handled(i, "lost")
  /\ UNCHANGED <<kind, job, form, shotFor, struck>>

(* The office closes the work, sends it back or opens it again.            *)
Finalise(j) ==
  /\ job[j].stage = "review" /\ job' = [job EXCEPT ![j].stage = "done"]
  /\ UNCHANGED <<kind, form, wire, shotFor, struck>>
Reopen(j) ==
  /\ job[j].stage \in {"review", "done"} /\ job' = [job EXCEPT ![j].stage = "running"]
  /\ UNCHANGED <<kind, form, wire, shotFor, struck>>

-----------------------------------------------------------------------------
(* The answers, heard by the screen as it is by then.                      *)
Heard(i) == wire[i].answer # "none" /\ wire' = RemoveAt(wire, i)

(* Mulai: the status of what is shown is turned; a survey is read again.   *)
StartReturns(i) ==
  LET f == wire[i].phone IN
  /\ i \in DOMAIN wire /\ wire[i].kind = "start" /\ Heard(i)
  /\ form' = IF wire[i].answer # "ok" \/ ~form[f].shown THEN form
             ELSE IF kind = "survey" /\ form[f].asked = None THEN [form EXCEPT ![f].asked = form[f].at]
             ELSE IF kind # "survey" /\ form[f].at # None THEN [form EXCEPT ![f].stage = "running"] ELSE form
  /\ UNCHANGED <<kind, job, shotFor, struck>>

SaveReturns(i) ==
  LET f == wire[i].phone
      g == [form[f] EXCEPT !.ok = IF wire[i].answer = "ok" THEN ~form[f].again ELSE @ /\ ~form[f].again,
                           !.timer = @ \/ form[f].again, !.again = FALSE,
                           !.lost = wire[i].answer = "lost" \/ (@ /\ form[f].press = "failed")]
  IN
  /\ i \in DOMAIN wire /\ wire[i].kind = "save" /\ Heard(i)
  /\ form' = IF form[f].at = None THEN form ELSE [form EXCEPT ![f] = g]
  /\ UNCHANGED <<kind, job, shotFor, struck>>

(* Sent: back to the list, or the survey read again; otherwise the screen  *)
(* stays as it is.                                                         *)
SendReturns(i) ==
  LET f == wire[i].phone IN
  /\ i \in DOMAIN wire /\ wire[i].kind = "send" /\ Heard(i)
  /\ form' = IF form[f].press # "flying" THEN form
             ELSE CASE wire[i].answer = "ok" /\ kind = "survey" /\ form[f].shown ->
                         [form EXCEPT ![f].press = "no", ![f].lost = FALSE, ![f].asked = IF @ = None THEN form[f].at ELSE @]
                    [] wire[i].answer = "ok" /\ kind # "survey" /\ form[f].shown -> [form EXCEPT ![f] = Closed]
                    [] wire[i].answer = "lost" -> [form EXCEPT ![f].press = "failed", ![f].lost = TRUE]
                    [] OTHER -> [form EXCEPT ![f].press = "failed", ![f].lost = FALSE]
  /\ UNCHANGED <<kind, job, shotFor, struck>>

Next ==
  \/ \E f \in Phone :
       \/ \E j \in Job, revisi \in BOOLEAN : Open(f, j, revisi)
       \/ Arrives(f) \/ Leave(f) \/ PressStart(f) \/ Uploaded(f) \/ TimerFires(f)
       \/ Press(f) \/ PostFinish(f) \/ Withdraw(f)
       \/ \E n \in Note : EditNote(f, n)
       \/ \E p \in Photo : Shoot(f, p) \/ RemovePhoto(f, p)
  \/ \E i \in DOMAIN wire : Start(i) \/ Save(i) \/ Lost(i) \/ StartReturns(i) \/ SaveReturns(i) \/ SendReturns(i)
  \/ \E j \in Job : Finalise(j) \/ Reopen(j)

Spec == Init /\ [][Next]_vars
-----------------------------------------------------------------------------
(* An order in review or done was started, was sent from its own screen,   *)
(* and still holds the album that was sent.                                *)
SentStands ==
  \A j \in Job : job[j].stage \in {"review", "done"} =>
    job[j].started /\ job[j].for = j /\ job[j].photos = job[j].sent

(* An album holds only photos taken for its order.                         *)
PhotosOfTheirJob == \A j \in Job, p \in Photo : p \in job[j].photos => shotFor[p] = j

(* "Draf tersimpan", nothing under way and the last answer heard: the order*)
(* holds what is shown.                                                    *)
SavedShows ==
  \A f \in Phone : OnScreen(f) /\ form[f].ok /\ ~form[f].lost /\ ~Busy(f) /\ job[form[f].at].stage = "running" =>
    /\ form[f].photos = job[form[f].at].photos
    /\ kind = "cleaning" => form[f].note = job[form[f].at].note

(* Once no screen has an order up and nothing is under way, every photo    *)
(* taken for it that nobody removed is in its album.                       *)
NothingForgotten ==
  \A p \in Photo : shotFor[p] # None /\ p \notin struck =>
    \/ p \in job[shotFor[p]].photos
    \/ \E f \in Phone : Busy(f) \/ (form[f].shown /\ shotFor[p] \in {form[f].at, form[f].asked})
=============================================================================
