----------------------------- MODULE GateScreen -----------------------------
(***************************************************************************)
(* The gate phone's screen (GateEntry.vue): a booking is looked up, tanks  *)
(* are ticked, one form takes the truck and each tank's condition, and the *)
(* form either issues a bon (api.gate_generate_order) or corrects an       *)
(* issued one (bon_revision.save_bon_revision).  The screen works on what  *)
(* the last lookup showed while the office edits lines, voids bons and     *)
(* blocks the booking, and answers come when they come.                    *)
(*                                                                         *)
(* One booking; each line has a truck and a condition, each bon a date.  A *)
(* field is "" or a Word.  What a request that runs twice does is          *)
(* GateIssue's subject; here each runs once and is answered or refused.    *)
(***************************************************************************)
EXTENDS Naturals, FiniteSets, Sequences

CONSTANTS
  Tank,      \* the booking's Booking Codes
  Word,      \* what a field can hold
  Outbound,  \* Tank Out: no condition is asked and unfinished work holds a tank
  MaxBon,    \* bound: bons issued
  MaxOffice, \* bound: what the office does meanwhile
  Lapse      \* what the operator does that the screen does not prevent

ScreenAssumption ==
  /\ IsFiniteSet(Tank) /\ "" \notin Word /\ Outbound \in BOOLEAN
  /\ MaxBon \in Nat /\ MaxOffice \in Nat
  /\ Lapse \subseteq {"works on", "next while revising"}

VARIABLES
  bon,        \* bon[t]: the live bon of the tank, 0: none
  line,       \* line[t]: the booking line's truck and condition
  date,       \* date[b]: the bon's own date
  held,       \* the tanks unfinished work holds
  blocked,    \* unpaid, or not submitted
  shown,      \* what the last lookup answered; Nothing: no booking on screen
  step, selected, form,
  revising,   \* the bon being corrected, 0: the form issues
  start,      \* the form as get_bon_revision filled it
  typed,      \* the fields the operator changed since the form opened
  flight,     \* the requests under way
  last,       \* the bon step 3 shows
  office      \* what the office has done

vars == <<bon, line, date, held, blocked, shown, step, selected, form,
          revising, start, typed, flight, last, office>>

server == <<bon, line, date, held, blocked>>

MAX_PER_BON == 2
Nothing == [bon |-> <<>>]
Value == Word \cup {""}
Lines == [truck : Value, cond : Value]
Bons == 1..MaxBon
Forms == [truck : Value, date : Value, cond : [Tank -> Value]]
NoForm == [truck |-> "", date |-> "", cond |-> [t \in Tank |-> ""]]
Today == CHOOSE w \in Word : TRUE
Fields == {"truck", "date"} \cup Tank
Codes == {s[i] : s \in {selected}, i \in DOMAIN selected}
Of(b) == {t \in Tank : bon[t] = b}

Lookups == [does : {"lookup"}]
Readings == [does : {"read"}, bon : Bons]
Issues == [does : {"issue"}, codes : SUBSET Tank, form : Forms]
Saves == [does : {"save"}, bon : Bons, fields : SUBSET Fields, form : Forms]
Snapshots == [bon : [Tank -> 0..MaxBon], line : [Tank -> Lines], held : SUBSET Tank, blocked : BOOLEAN]

Init ==
  /\ bon = [t \in Tank |-> 0]
  /\ line \in [Tank -> Lines]
  /\ date = [b \in Bons |-> ""]
  /\ held = {} /\ blocked = FALSE
  /\ shown = Nothing /\ step = "container" /\ selected = <<>> /\ form = NoForm
  /\ revising = 0 /\ start = NoForm /\ typed = {}
  /\ flight = {} /\ last = 0 /\ office = 0

TypeOK ==
  /\ bon \in [Tank -> 0..MaxBon] /\ line \in [Tank -> Lines] /\ date \in [Bons -> Value]
  /\ held \subseteq Tank /\ blocked \in BOOLEAN
  /\ shown \in Snapshots \cup {Nothing}
  /\ step \in {"container", "vehicle", "done"}
  /\ Codes \subseteq Tank /\ Len(selected) = Cardinality(Codes)
  /\ Len(selected) <= MAX_PER_BON
  /\ {form, start} \subseteq Forms /\ typed \subseteq Fields
  /\ revising \in 0..MaxBon /\ last \in 0..MaxBon
  /\ \A r \in flight : r \in Lookups \cup Readings \cup Issues \cup Saves
  /\ office \in 0..MaxOffice

-----------------------------------------------------------------------------
Valid == shown # Nothing

(* At most one request of a kind is under way: its button is disabled.     *)
Asked(kind) == \E r \in flight : r.does = kind
busy == Asked("issue") \/ Asked("save") \/ Asked("read")

(* The operator waits for every answer, or works on.                       *)
Attends == flight = {} \/ "works on" \in Lapse

(* A blocked booking shows why and offers nothing.                         *)
Open == Valid /\ ~shown.blocked

Issued(t) == shown.bon[t] # 0
Selectable(t) == ~Issued(t) /\ t \notin shown.held

screen == <<shown, step, selected, form, revising, start, typed, last>>

Lookup ==
  /\ Attends /\ ~Valid /\ ~Asked("lookup") /\ step = "container"
  /\ flight' = flight \cup {[does |-> "lookup"]}
  /\ UNCHANGED <<server, screen, office>>

Booked == [bon |-> bon, line |-> line, held |-> held, blocked |-> blocked]

LookupAnswers ==
  /\ Asked("lookup")
  /\ flight' = flight \ Lookups
  /\ shown' = Booked /\ selected' = <<>>
  /\ UNCHANGED <<server, step, form, revising, start, typed, last, office>>

Without(t) == SelectSeq(selected, LAMBDA s : s # t)

Toggle(t) ==
  /\ Attends /\ Open /\ step = "container" /\ revising = 0
  /\ Selectable(t)
  /\ \/ t \in Codes /\ selected' = Without(t)
     \/ t \notin Codes /\ Len(selected) < MAX_PER_BON /\ selected' = Append(selected, t)
  /\ UNCHANGED <<server, shown, step, form, revising, start, typed, flight, last, office>>

(* The form of a new bon: the truck of the first ticked tank's line, each  *)
(* tank's own condition, today.                                            *)
Filled ==
  [truck |-> shown.line[Head(selected)].truck,
   date |-> Today,
   cond |-> [t \in Tank |-> IF t \in Codes THEN shown.line[t].cond ELSE ""]]

(* Beside an open form on a wide screen the button is pressed as well; it  *)
(* does not ask whether that form is a correction.                         *)
OpenGenerate ==
  /\ Attends /\ Open /\ selected # <<>>
  /\ \/ step = "container"
     \/ step = "vehicle" /\ revising # 0 /\ "next while revising" \in Lapse
  /\ form' = Filled /\ typed' = {} /\ step' = "vehicle"
  /\ UNCHANGED <<server, shown, selected, revising, start, flight, last, office>>

(* closeVehicleForm                                                        *)
ClosedForm ==
  /\ step' = "container" /\ revising' = 0
  /\ selected' = IF revising # 0 THEN <<>> ELSE selected

Close ==
  /\ Attends /\ step = "vehicle" /\ ClosedForm
  /\ UNCHANGED <<server, shown, form, start, typed, flight, last, office>>

Type(f, v) ==
  /\ Valid /\ step = "vehicle" /\ (f \in Tank => f \in Codes /\ ~Outbound)
  /\ Attends \/ ~busy
  /\ form' = IF f \in Tank THEN [form EXCEPT !.cond[f] = v]
             ELSE IF f = "truck" THEN [form EXCEPT !.truck = v]
             ELSE [form EXCEPT !.date = v]
  /\ form' # form
  /\ typed' = typed \cup {f}
  /\ UNCHANGED <<server, shown, step, selected, revising, start, flight, last, office>>

OpenRevision(b) ==
  /\ Attends /\ Open /\ ~Asked("read")
  /\ step = "container" /\ \E t \in Tank : shown.bon[t] = b
  /\ flight' = flight \cup {[does |-> "read", bon |-> b]}
  /\ UNCHANGED <<server, screen, office>>

AnyOrder(S) == {s \in [1..Cardinality(S) -> S] : \A i, j \in DOMAIN s : s[i] = s[j] => i = j}

(* get_bon_revision refuses a bon that is void.                            *)
RevisionRead(r) ==
  /\ r \in flight /\ r.does = "read"
  /\ flight' = flight \ {r}
  /\ \/ Of(r.bon) = {} /\ UNCHANGED screen
     \/ \E s \in AnyOrder(Of(r.bon)) :
          /\ s # <<>> /\ selected' = s
          /\ form' = [truck |-> line[s[1]].truck, date |-> date[r.bon],
                      cond |-> [t \in Tank |-> IF bon[t] = r.bon THEN line[t].cond ELSE ""]]
          /\ start' = form' /\ typed' = {} /\ revising' = r.bon /\ step' = "vehicle"
          /\ UNCHANGED <<shown, last>>
  /\ UNCHANGED <<server, office>>

Complete == form.truck # "" /\ (Outbound \/ \A t \in Codes : form.cond[t] # "")

(* What a correction carries: the fields that differ from how it opened.   *)
Changed ==
  {f \in {"truck", "date"} : form[f] # start[f]}
    \cup {t \in Codes : ~Outbound /\ form.cond[t] # start.cond[t]}

Corrects == revising # 0

Press ==
  /\ Open /\ step = "vehicle" /\ ~busy /\ Attends
  /\ selected # <<>> /\ Complete
  /\ \/ /\ ~Corrects
        /\ flight' = flight \cup {[does |-> "issue", codes |-> Codes, form |-> form]}
     \/ /\ Corrects /\ Changed # {}
        /\ flight' = flight \cup {[does |-> "save", bon |-> revising, fields |-> Changed, form |-> form]}
  /\ UNCHANGED <<server, screen, office>>

(* make_order: every code still unused, the booking open, and outbound     *)
(* nothing holding a tank; the form's answers land on the lines.           *)
MayIssue(codes) == ~blocked /\ \A t \in codes : bon[t] = 0 /\ (Outbound => t \notin held)
Numbers == {b \in Bons : date[b] = ""}

IssueAnswers(r) ==
  LET b == MaxBon - Cardinality(Numbers) + 1 IN
  /\ r \in flight /\ r.does = "issue"
  /\ flight' = flight \ {r}
  /\ \/ /\ MayIssue(r.codes) /\ Numbers # {}
        /\ bon' = [t \in Tank |-> IF t \in r.codes THEN b ELSE bon[t]]
        /\ line' = [t \in Tank |-> IF t \notin r.codes THEN line[t] ELSE
                      [truck |-> r.form.truck, cond |-> IF Outbound THEN line[t].cond ELSE r.form.cond[t]]]
        /\ date' = [date EXCEPT ![b] = IF r.form.date = "" THEN Today ELSE r.form.date]
        /\ last' = b /\ step' = "done"
        /\ UNCHANGED <<held, blocked, shown, selected, form, revising, start, typed>>
     \/ ~MayIssue(r.codes) /\ UNCHANGED <<server, screen>>
  /\ UNCHANGED office

(* save_bon_revision: the changed shared field onto every line of the bon, *)
(* each tank's condition onto its own; refused when the bon is void or its *)
(* date is emptied.                                                        *)
MaySave(r) == Of(r.bon) # {} /\ ("date" \in r.fields => r.form.date # "")

Saved(r) ==
  /\ line' = [t \in Tank |-> IF bon[t] # r.bon THEN line[t] ELSE
                [truck |-> IF "truck" \in r.fields THEN r.form.truck ELSE line[t].truck,
                 cond |-> IF t \in r.fields THEN r.form.cond[t] ELSE line[t].cond]]
  /\ date' = [date EXCEPT ![r.bon] = IF "date" \in r.fields THEN r.form.date ELSE @]

SaveAnswers(r) ==
  /\ r \in flight /\ r.does = "save"
  /\ \/ /\ MaySave(r) /\ Saved(r) /\ ClosedForm
        /\ flight' = (flight \ {r}) \cup IF Valid THEN {[does |-> "lookup"]} ELSE {}
        /\ UNCHANGED <<bon, held, blocked, shown, form, start, typed, last>>
     \/ /\ ~MaySave(r) /\ flight' = flight \ {r} /\ UNCHANGED <<server, screen>>
  /\ UNCHANGED office

Reset ==
  /\ Attends /\ Valid
  /\ shown' = Nothing /\ step' = "container" /\ selected' = <<>> /\ revising' = 0 /\ last' = 0
  /\ UNCHANGED <<server, form, start, typed, flight, office>>

-----------------------------------------------------------------------------
(* The office meanwhile.                                                   *)
Office ==
  /\ office < MaxOffice /\ office' = office + 1
  /\ UNCHANGED <<screen, flight>>

EditLine(t, l) ==
  /\ Office /\ l # line[t] /\ line' = [line EXCEPT ![t] = l]
  /\ UNCHANGED <<bon, date, held, blocked>>

VoidBon(b) ==
  /\ Office /\ Of(b) # {}
  /\ bon' = [t \in Tank |-> IF bon[t] = b THEN 0 ELSE bon[t]]
  /\ UNCHANGED <<line, date, held, blocked>>

Blocks ==
  /\ Office /\ blocked' = ~blocked
  /\ UNCHANGED <<bon, line, date, held>>

Works(t) ==
  /\ Office /\ Outbound
  /\ held' = IF t \in held THEN held \ {t} ELSE held \cup {t}
  /\ UNCHANGED <<bon, line, date, blocked>>

Next ==
  \/ Lookup \/ LookupAnswers \/ OpenGenerate \/ Close \/ Press \/ Reset \/ Blocks
  \/ \E t \in Tank : Toggle(t) \/ Works(t) \/ \E l \in Lines : EditLine(t, l)
  \/ \E f \in Fields, v \in Value : Type(f, v)
  \/ \E b \in Bons : OpenRevision(b) \/ VoidBon(b)
  \/ \E r \in flight : RevisionRead(r) \/ IssueAnswers(r) \/ SaveAnswers(r)

Spec == Init /\ [][Next]_vars
-----------------------------------------------------------------------------
(* A correction carries only what the operator changed on the form, and    *)
(* only to tanks of its bon: what somebody else wrote on the other fields  *)
(* while it was open stands (saveRevision, save_bon_revision).             *)
UntouchedStands ==
  \A r \in flight : r.does = "save" => r.fields \subseteq typed /\ r.fields \cap Tank \subseteq Codes

(* Step 3 shows a bon that was issued on exactly the tanks still named     *)
(* above it, unless the office has voided it since (doGenerate).           *)
DoneIsTheirs == step = "done" => last # 0 /\ Of(last) \in {Codes, {}}

(* What the operator typed leaves the screen only by a step of theirs: the *)
(* form is closed, reopened, reset, or its own request has been answered.  *)
KeepsTyped ==
  step = "vehicle" /\ typed # {} /\ ~(Asked("issue") \/ Asked("save"))
    => \/ step' = "vehicle" /\ revising' = revising /\ typed \subseteq typed'
       \/ flight' = flight /\ (Close \/ Reset \/ OpenGenerate)
TypedKept == [][KeepsTyped]_vars

(* A form that is open has tanks to act on, those of its bon when it       *)
(* corrects one that still stands (lookupRes.onSuccess, openRevision).     *)
FormHasTanks ==
  step = "vehicle" =>
    selected # <<>> /\ (revising # 0 => Of(revising) \in {Codes, {}})
=============================================================================
