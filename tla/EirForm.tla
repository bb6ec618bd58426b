------------------------------ MODULE EirForm ------------------------------
(***************************************************************************)
(* One EIR draft and the phone that fills it in: the form, its debounced   *)
(* autosave, parked photos and Kirim (EirInForm.vue, EirOutForm.vue,       *)
(* data/send.js, data/cache.js), against save_draft, review and the photo  *)
(* sorting of the office (eir.py).                                         *)
(*                                                                         *)
(* A slot is one mounted form; a left form's timer and answers live on.    *)
(* What is typed is a set of entries, only added to; a photo is on the     *)
(* server (in up) or parked on the phone.  The tank's own data, fittings,  *)
(* seals and the wording of the checklist travel like the entries and are  *)
(* left out; what a submit does next is in InspectionDesk.                 *)
(***************************************************************************)
EXTENDS Naturals, Sequences, FiniteSets, SequencesExt

CONSTANTS
  Kinds,     \* which of "EIR-In" and "EIR-Out" the EIR may be
  Mark,      \* entries
  Photo,
  Slot,      \* mounted forms, the open one and left ones
  MaxWire,   \* bound: requests under way at once
  Lapse      \* what the code relies on not happening

Lapses == {
  "overtakes",         \* a request is handled before an earlier one
  "exits early",       \* Simpan draft while an autosave is under way
  "parks",             \* a photo does not go up at once and waits on the phone for Kirim
  "types on",          \* the form is used while its Kirim is under way
  "reopens",           \* the EIR is opened again before a left or closed form is through
  "cached",            \* the EIR is opened without a link, from the last answer
  "sorts while open"}  \* the office sorts a photo while a form has the EIR open

FormAssumption ==
  /\ Kinds \subseteq {"EIR-In", "EIR-Out"} /\ Lapse \subseteq Lapses
  /\ MaxWire \in Nat \ {0} /\ "gone" \notin Slot

VARIABLES
  kind,
  eir,      \* stage, Mulai pressed?, what it holds, what the last Kirim carried
  form,     \* form[s]
  wire,     \* requests under way, in the order they were posted
  sending,  \* the Kirim under way: its form, its body, photos still to upload
  up,       \* photos on the server
  cached    \* the last answer of eir_open, kept on the phone

vars == <<kind, eir, form, wire, sending, up, cached>>

Nothing == [marks |-> {}, photos |-> {}, sorted |-> {}]
Unmounted == [screen |-> "none", at |-> Nothing, parked |-> {}, timer |-> FALSE, again |-> FALSE,
              loading |-> FALSE, failed |-> FALSE, unsent |-> FALSE]
NotSending == [slot |-> "gone", body |-> Nothing, left |-> {}, posted |-> FALSE]

Init ==
  /\ kind \in Kinds
  /\ eir = [stage |-> "draft", started |-> FALSE, body |-> Nothing, sent |-> Nothing]
  /\ form = [s \in Slot |-> Unmounted]
  /\ wire = <<>> /\ sending = NotSending /\ up = {} /\ cached = Nothing

Body == [marks : SUBSET Mark, photos : SUBSET Photo, sorted : SUBSET Photo]
TypeOK ==
  /\ kind \in Kinds
  /\ eir \in [stage : {"draft", "review", "done"}, started : BOOLEAN, body : Body, sent : Body]
  /\ form \in [Slot -> [screen : {"none", "open", "left"}, at : Body, parked : SUBSET Photo, timer : BOOLEAN,
                        again : BOOLEAN, loading : BOOLEAN, failed : BOOLEAN, unsent : BOOLEAN]]
  /\ wire \in Seq([kind : {"save", "send"}, slot : Slot \cup {"gone"}, body : Body,
                   answer : {"none", "ok", "refused", "lost"}])
  /\ Len(wire) <= MaxWire
  /\ sending \in [slot : Slot \cup {"gone"}, body : Body, left : SUBSET Photo, posted : BOOLEAN]
  /\ up \subseteq Photo /\ cached \in Body

-----------------------------------------------------------------------------
Carries(b, c) == c.marks \subseteq b.marks /\ c.photos \subseteq b.photos

(* What an autosave may carry: a parked photo has no file to point at.     *)
Stripped(f) == [f.at EXCEPT !.photos = @ \ f.parked]

(* The lists an EIR is opened from: the team's, the reviewer's and the one *)
(* of photos to sort.                                                      *)
Listed == eir.stage = "draft"
InReview == eir.stage = "review"
Unsorted == eir.body.photos \ eir.body.sorted

Flying(s) == \E i \in DOMAIN wire : wire[i].slot = s
Due(s) == form[s].timer \/ form[s].again \/ Flying(s)
Through(s) == form[s].screen # "open" /\ ~Due(s) /\ sending.slot # s

Quiet == (\A s \in Slot : Through(s)) /\ \A i \in DOMAIN wire : wire[i].answer # "none"

Request(k, s, body) == Append(wire, [kind |-> k, slot |-> s, body |-> body, answer |-> "none"])

-----------------------------------------------------------------------------
(* The form.                                                               *)

(* Mulai: the first press stamps, later ones join.                         *)
start_eir(s) ==
  /\ form[s].screen = "open" /\ eir.stage # "done" /\ ~eir.started
  /\ eir' = [eir EXCEPT !.started = TRUE]
  /\ UNCHANGED <<kind, form, wire, sending, up, cached>>

Mounted(s, body) == form' = [form EXCEPT ![s] = [Unmounted EXCEPT !.screen = "open", !.at = body]]
Mountable(s) ==
  /\ Through(s) /\ \A o \in Slot : form[o].screen # "open"
  /\ "reopens" \in Lapse \/ Quiet

(* Opened from the list; rows in review are not opened there, and a        *)
(* submitted EIR is refused.                                               *)
Open(s) ==
  /\ Mountable(s) /\ Listed
  /\ Mounted(s, eir.body) /\ cached' = eir.body
  /\ UNCHANGED <<kind, eir, wire, sending, up>>

OpenCached(s) ==
  /\ "cached" \in Lapse /\ Mountable(s)
  /\ Mounted(s, cached)
  /\ UNCHANGED <<kind, eir, wire, sending, up, cached>>

(* The Kirim button is dead while a Kirim is under way; the form is not.   *)
Usable(s) == form[s].screen = "open" /\ (sending = NotSending \/ "types on" \in Lapse)
Editable(s) == Usable(s) /\ eir.started

Edit(s, m) ==
  /\ Editable(s) /\ m \notin form[s].at.marks
  /\ form' = [form EXCEPT ![s].at.marks = @ \cup {m}, ![s].timer = TRUE]
  /\ UNCHANGED <<kind, eir, wire, sending, up, cached>>

(* A photo goes up at once; without a link it is parked.                   *)
TakePhoto(s, p, lands) ==
  /\ Editable(s) /\ p \notin up /\ \A o \in Slot : p \notin form[o].at.photos
  /\ lands \/ "parks" \in Lapse
  /\ up' = IF lands THEN up \cup {p} ELSE up
  /\ form' = [form EXCEPT ![s].at.photos = @ \cup {p}, ![s].timer = TRUE,
                          ![s].parked = IF lands THEN @ ELSE @ \cup {p}]
  /\ UNCHANGED <<kind, eir, wire, sending, cached>>

(* Fault: an edit made while a save flies is not remembered.               *)
BusyForgotten(s) == form' = [form EXCEPT ![s].timer = FALSE]
Busy(s) == form' = [form EXCEPT ![s].timer = FALSE, ![s].again = TRUE]

Autosaved(s, screen) ==
  /\ Len(wire) < MaxWire
  /\ wire' = Request("save", s, Stripped(form[s]))
  /\ form' = [form EXCEPT ![s].timer = FALSE, ![s].loading = TRUE, ![s].screen = screen]

TimerFires(s) ==
  /\ form[s].timer
  /\ IF form[s].loading THEN Busy(s) /\ UNCHANGED wire ELSE Autosaved(s, form[s].screen)
  /\ UNCHANGED <<kind, eir, sending, up, cached>>

(* "Simpan draft" posts at once, whatever is under way.                    *)
SaveAndExit(s) ==
  /\ Usable(s) /\ (~form[s].loading \/ "exits early" \in Lapse)
  /\ Autosaved(s, "left")
  /\ UNCHANGED <<kind, eir, sending, up, cached>>

Leave(s) ==
  /\ form[s].screen = "open"
  /\ form' = [form EXCEPT ![s].screen = "left"]
  /\ UNCHANGED <<kind, eir, wire, sending, up, cached>>

(* The app is closed or reloaded: nothing of a form outlives it.           *)
TabKilled ==
  /\ \E s \in Slot : form[s].screen # "none"
  /\ form' = [s \in Slot |-> Unmounted]
  /\ sending' = NotSending
  /\ wire' = [i \in DOMAIN wire |-> [wire[i] EXCEPT !.slot = "gone"]]
  /\ UNCHANGED <<kind, eir, up, cached>>

-----------------------------------------------------------------------------
(* Kirim.  An EIR-In asks for the required fields first.                   *)
Press(s) ==
  /\ form[s].screen = "open" /\ sending = NotSending /\ eir.started
  /\ kind = "EIR-In" => form[s].at.marks # {}
  /\ sending' = [slot |-> s, body |-> form[s].at, left |-> form[s].parked \ up, posted |-> FALSE]
  /\ form' = [form EXCEPT ![s].timer = FALSE, ![s].unsent = FALSE]
  /\ UNCHANGED <<kind, eir, wire, up, cached>>

Sent(s) == sending' = NotSending /\ form' = [form EXCEPT ![s].unsent = TRUE]

UploadParked(p) ==
  /\ p \in sending.left
  /\ up' = up \cup {p} /\ sending' = [sending EXCEPT !.left = @ \ {p}]
  /\ UNCHANGED <<kind, eir, form, wire, cached>>

UploadFails ==
  /\ sending.left # {}
  /\ Sent(sending.slot)
  /\ UNCHANGED <<kind, eir, wire, up, cached>>

PhotosFirst == sending # NotSending /\ ~sending.posted /\ sending.left = {}

PostSend ==
  /\ PhotosFirst /\ Len(wire) < MaxWire
  /\ wire' = Request("send", sending.slot, sending.body)
  /\ sending' = [sending EXCEPT !.posted = TRUE]
  /\ UNCHANGED <<kind, eir, form, up, cached>>

-----------------------------------------------------------------------------
(* The link and the server.                                                *)
Next1 == {i \in DOMAIN wire : wire[i].answer = "none" /\
            ("overtakes" \in Lapse \/ \A j \in 1..(i - 1) : wire[j].answer # "none")}

Answered(i, a) == wire' = [wire EXCEPT ![i].answer = a]

Accepted(e) == e.started /\ e.stage # "done"

(* The rows a payload makes: only a photo that travels can be sorted.      *)
Built(b) == [b EXCEPT !.sorted = @ \cap b.photos]

(* save_draft writes the whole document over what is there.                *)
Written(r) ==
  [eir EXCEPT !.body = Built(r.body),
              !.stage = IF r.kind = "save" THEN @ ELSE IF kind = "EIR-Out" THEN "done" ELSE "review",
              !.sent = IF r.kind = "save" THEN @ ELSE r.body]

(* A submit of an EIR-Out may be refused by what stands behind it.         *)
save_draft(i) ==
  /\ i \in Next1
  /\ \/ Accepted(eir) /\ eir' = Written(wire[i]) /\ \E a \in {"ok", "lost"} : Answered(i, a)
     \/ /\ ~Accepted(eir) \/ (wire[i].kind = "send" /\ kind = "EIR-Out")
        /\ UNCHANGED eir /\ \E a \in {"refused", "lost"} : Answered(i, a)
  /\ UNCHANGED <<kind, form, sending, up, cached>>

LoseRequest(i) ==
  /\ i \in Next1 /\ Answered(i, "lost")
  /\ UNCHANGED <<kind, eir, form, sending, up, cached>>

(* An autosave's answer: then what was typed meanwhile is due again.       *)
SaveReturns(i) ==
  LET s == wire[i].slot IN
  /\ wire[i].kind = "save" /\ wire[i].answer # "none" /\ s # "gone"
  /\ wire' = RemoveAt(wire, i)
  /\ form' = [form EXCEPT ![s].loading = FALSE, ![s].failed = wire[i].answer # "ok",
                          ![s].timer = @ \/ form[s].again, ![s].again = FALSE]
  /\ UNCHANGED <<kind, eir, sending, up, cached>>

(* The form closes once its Kirim is through.                              *)
SendReturns(i) ==
  LET s == wire[i].slot IN
  /\ wire[i].kind = "send" /\ wire[i].answer # "none" /\ s # "gone"
  /\ wire' = RemoveAt(wire, i)
  /\ IF wire[i].answer = "ok"
     THEN sending' = NotSending /\ form' = [form EXCEPT ![s].screen = "left"]
     ELSE Sent(s)
  /\ UNCHANGED <<kind, eir, up, cached>>

NobodyHears(i) ==
  /\ wire[i].slot = "gone" /\ wire[i].answer # "none"
  /\ wire' = RemoveAt(wire, i)
  /\ UNCHANGED <<kind, eir, form, sending, up, cached>>

-----------------------------------------------------------------------------
(* The office.  Pulled back by the team, or turned down by the reviewer.   *)
withdraw_review ==
  /\ InReview
  /\ eir' = [eir EXCEPT !.stage = "draft", !.sent = Nothing]
  /\ UNCHANGED <<kind, form, wire, sending, up, cached>>

Finalise ==
  /\ InReview
  /\ eir' = [eir EXCEPT !.stage = "done"]
  /\ UNCHANGED <<kind, form, wire, sending, up, cached>>

assign_photo_section(p) ==
  /\ p \in Unsorted
  /\ "sorts while open" \in Lapse \/ Quiet
  /\ eir' = [eir EXCEPT !.body.sorted = @ \cup {p}]
  /\ UNCHANGED <<kind, form, wire, sending, up, cached>>

Operator(s) ==
  \/ start_eir(s) \/ Open(s) \/ OpenCached(s) \/ SaveAndExit(s) \/ Leave(s) \/ Press(s)
  \/ \E m \in Mark : Edit(s, m)
  \/ \E p \in Photo, lands \in BOOLEAN : TakePhoto(s, p, lands)
Phone == (\E s \in Slot : TimerFires(s)) \/ (\E p \in Photo : UploadParked(p)) \/ UploadFails \/ PostSend
Link == \E i \in DOMAIN wire :
          save_draft(i) \/ LoseRequest(i) \/ SaveReturns(i) \/ SendReturns(i) \/ NobodyHears(i)
Office == withdraw_review \/ Finalise \/ \E p \in Photo : assign_photo_section(p)

Next == (\E s \in Slot : Operator(s)) \/ TabKilled \/ Phone \/ Link \/ Office

(* A timer fires, an upload and a request end one way or another.          *)
Fairness == WF_vars(Phone) /\ WF_vars(Link)

Spec == Init /\ [][Next]_vars
FairSpec == Spec /\ Fairness

-----------------------------------------------------------------------------
(* A sent EIR holds everything its Kirim carried: no autosave under way,   *)
(* due or behind it takes anything back (submitEir, doSave, save_draft).   *)
SentStands == eir.stage # "draft" => Carries(eir.body, eir.sent)

(* What a form shows and the EIR lacks is due, under way, or its failure is*)
(* on the screen: never more than two autosaves' worth silently forgotten  *)
(* (scheduleSave, flushPendingSave).                                       *)
NothingForgotten ==
  \A s \in Slot : ~Carries(eir.body, Stripped(form[s])) =>
                    Due(s) \/ sending.slot = s \/ form[s].failed \/ form[s].unsent

(* The EIR points at no photo that is only on a phone (doSave, send).      *)
NoDanglingPhoto == eir.body.photos \subseteq up

(* What the EIR once held of an entry, a photo or the office's sorting, no *)
(* later save takes back (save_draft, applyDraftToRows, buildPhotos).      *)
KeepsWork == Carries(eir'.body, eir.body)
WorkKept == [][KeepsWork]_vars
KeepsSorting == eir.body.sorted \subseteq eir'.body.sorted
SortingStands == [][KeepsSorting]_vars

(* An autosave that is due ends in the EIR or in an error on the screen,   *)
(* if the operator stops typing for long enough (doSave, saveRes).         *)
EditsSettle ==
  \A s \in Slot : ~Carries(eir.body, Stripped(form[s])) ~>
                    Carries(eir.body, Stripped(form[s])) \/ form[s].failed \/ form[s].unsent
=============================================================================
