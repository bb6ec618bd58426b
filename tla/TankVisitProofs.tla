--------------------------- MODULE TankVisitProofs ---------------------------
(***************************************************************************)
(* What TLAPS proves of TankVisit for every set of tanks and bookings,     *)
(* every lapse of the office and every bound: the types, the payment of    *)
(* bons, and the papers of a tank, each against the others.  Part two is   *)
(* about what is cached from the papers, part three about the yard.        *)
(*                                                                         *)
(* A Booking Code is consumed by exactly one live bon.  Of every bon that  *)
(* invariant reads the booking, the tanks and whether it is voided.        *)
(*                                                                         *)
(* "The" draft EIR of a tank: at most one of each type is open, whoever    *)
(* raised it.  Every operation either files one where none is open, or     *)
(* makes no draft out of an EIR that was not one; Kembalikan ke Draft does,*)
(* and asks first that no other draft is open beside it.                   *)
(***************************************************************************)
EXTENDS TankVisit, FiniteSetTheorems, FunctionTheorems, TLAPS

-----------------------------------------------------------------------------
(* Sequences and the helpers the documents are read with                   *)

LEMMA SequenceShape ==
    ASSUME NEW R, NEW s \in Seq(R)
    PROVE  /\ Len(s) \in Nat /\ DOMAIN s = 1..Len(s) /\ s \in [1..Len(s) -> R]
           /\ \A i \in DOMAIN s : s[i] \in R
OBVIOUS

(* A document rewritten in place leaves its table a table.                 *)
LEMMA RewrittenAt ==
    ASSUME NEW R, NEW s \in Seq(R), NEW i \in DOMAIN s, NEW r \in R
    PROVE  [s EXCEPT ![i] = r] \in Seq(R)
OBVIOUS

(* So does a rewrite of every document of it.                              *)
LEMMA RewrittenAll ==
    ASSUME NEW R, NEW s \in Seq(R), NEW f \in [DOMAIN s -> R]
    PROVE  f \in Seq(R)
BY SequenceShape

(* And filing one more at its end.                                         *)
LEMMA Filed ==
    ASSUME NEW R, NEW s \in Seq(R), NEW r \in R
    PROVE  Append(s, r) \in Seq(R)
OBVIOUS

LEMMA NewestBelongs ==
    ASSUME NEW S PROVE Newest(S) \in S \cup {0}
BY DEF Newest

LEMMA SettledType ==
    ASSUME NEW st \in Status, NEW g, NEW es, NEW ws
    PROVE  Settled(st, g, es, ws) \in Status
BY DEF Settled, Status

-----------------------------------------------------------------------------
(* The booking desk                                                        *)

LEMMA PreArrivalType ==
    ASSUME TypeOK, NEW k, NEW t \in Tank PROVE PreArrival(k, t) \in Status
BY DEF TypeOK, PreArrival, Status

LEMMA NewEIROutType ==
    ASSUME TypeOK, NEW k \in Booking, NEW t \in Tank PROVE NewEIROut(k, t) \in EIRRec
BY DEF TypeOK, NewEIROut, EIRRec, Direction, Status

LEMMA ProvisionedEIROutType ==
    ASSUME TypeOK, NEW k \in Booking, NEW t \in Tank
    PROVE  ProvisionedEIROut(k, t) \in Seq(EIRRec)
<1>1. eir[t] \in Seq(EIRRec)
  BY DEF TypeOK
<1>2. Append(eir[t], NewEIROut(k, t)) \in Seq(EIRRec)
  BY <1>1, NewEIROutType, Filed
<1>3. ASSUME NEW i, i = Newest(Drafts(t, "Out")), i # 0
      PROVE  [eir[t] EXCEPT ![i].booking = k] \in Seq(EIRRec)
  <2>1. i \in DOMAIN eir[t]
    BY <1>3, NewestBelongs DEF Drafts
  <2>2. eir[t][i] \in EIRRec
    BY <1>1, <2>1, SequenceShape
  <2>3. [eir[t][i] EXCEPT !.booking = k] \in EIRRec
    BY <2>2 DEF EIRRec
  <2> QED
    BY <1>1, <2>1, <2>3, RewrittenAt
<1> QED
  BY <1>1, <1>2, <1>3 DEF ProvisionedEIROut

LEMMA WithdrawnEIROutType ==
    ASSUME TypeOK, NEW k \in Booking, NEW t \in Tank
    PROVE  WithdrawnEIROut(k, t) \in Seq(EIRRec)
<1>1. eir[t] \in Seq(EIRRec) /\ \A i \in DOMAIN eir[t] : eir[t][i] \in EIRRec
  BY SequenceShape DEF TypeOK
<1>2. \A i \in DOMAIN eir[t] : [eir[t][i] EXCEPT !.ds = "Void"] \in EIRRec
  BY <1>1 DEF EIRRec
<1>3. WithdrawnEIROut(k, t) \in [DOMAIN eir[t] -> EIRRec]
  BY <1>1, <1>2 DEF WithdrawnEIROut
<1> QED
  BY <1>1, <1>3, RewrittenAll

(* Every request of the booking desk keeps the papers well-formed.         *)
LEMMA BookingStepTypes ==
    ASSUME TypeOK, NEW k \in Booking, BookingStep(k) PROVE TypeOK'
<1>1. CASE CreateBooking(k)
  BY <1>1, PreArrivalType DEF CreateBooking, TypeOK
<1>2. CASE ConfirmBooking(k)
  <2>1. code' \in [Booking -> [Tank -> {"None", "Active", "Used", "Cancelled"}]]
    BY <1>2 DEF ConfirmBooking, TypeOK
  <2> QED
    BY <1>2, <2>1, PreArrivalType, ProvisionedEIROutType DEF ConfirmBooking, TypeOK
<1>3. CASE RevertBooking(k)
  BY <1>3, WithdrawnEIROutType DEF RevertBooking, TypeOK
<1>4. CASE VoidBooking(k)
  <2>1. code' \in [Booking -> [Tank -> {"None", "Active", "Used", "Cancelled"}]]
    BY <1>4 DEF VoidBooking, TypeOK
  <2>2. \A t \in Tank : Released(k, t) \in Status
    BY DEF Released, TypeOK, Status
  <2> QED
    BY <1>4, <2>1, <2>2, WithdrawnEIROutType DEF VoidBooking, TypeOK
<1>5. CASE MarkPaid(k)
  BY <1>5, DepotAssumption DEF MarkPaid, TypeOK
<1>6. CASE MarkUnpaid(k) \/ ReopenPayment(k)
  BY <1>6 DEF MarkUnpaid, ReopenPayment, TypeOK
<1> QED
  BY <1>1, <1>2, <1>3, <1>4, <1>5, <1>6 DEF BookingStep

-----------------------------------------------------------------------------
(* The bon desk                                                            *)

(* The parts of TypeOK, for a tank and for a bon.                          *)
LEMMA PapersOf ==
    ASSUME TypeOK, NEW t \in Tank
    PROVE  /\ status[t] \in Status /\ inDate[t] \in BOOLEAN /\ departures[t] \in Nat
           /\ gate[t] \in SUBSET GateRec
           /\ eir[t] \in Seq(EIRRec) /\ work[t] \in Seq(WorkRec)
           /\ \A i \in DOMAIN eir[t] : eir[t][i] \in EIRRec
           /\ \A w \in DOMAIN work[t] : work[t][w] \in WorkRec
BY SequenceShape DEF TypeOK

LEMMA BonType ==
    ASSUME TypeOK, NEW b \in DOMAIN bon
    PROVE  /\ bon[b] \in BonRec /\ bon[b].booking \in Booking /\ bon[b].tanks \in SUBSET Tank
           /\ bon[b].ds \in {"Draft", "Submitted", "Voided"} /\ bon[b].completed \in BOOLEAN
           /\ b \in Nat
<1>1. bon \in Seq(BonRec)
  BY DEF TypeOK
<1>2. bon[b] \in BonRec /\ b \in Nat
  BY <1>1, SequenceShape
<1> QED
  BY <1>2 DEF BonRec

LEMMA RewrittenEIR ==
    ASSUME NEW e \in EIRRec
    PROVE  /\ \A b \in Nat : [e EXCEPT !.bon = b] \in EIRRec
           /\ \A b \in Nat, k \in Booking : [e EXCEPT !.bon = b, !.booking = k] \in EIRRec
           /\ \A ds \in {"Draft", "Submitted", "Void"} : [e EXCEPT !.ds = ds] \in EIRRec
           /\ [e EXCEPT !.started = TRUE] \in EIRRec
BY DEF EIRRec

LEMMA CancelledWork ==
    ASSUME NEW w \in WorkRec PROVE [w EXCEPT !.st = "Cancelled"] \in WorkRec
BY DEF WorkRec

LEMMA ArrivalGateType ==
    ASSUME TypeOK, NEW t \in Tank, NEW b \in Nat
    PROVE  ArrivalGate(t, b) \in SUBSET GateRec
BY PapersOf DEF ArrivalGate, GateRec

LEMMA ArrivalEIRType ==
    ASSUME TypeOK, NEW t \in Tank, NEW b \in Nat, NEW k \in Booking
    PROVE  ArrivalEIR(t, b, k) \in Seq(EIRRec)
<1> DEFINE e == [type |-> "In", ds |-> "Draft", bon |-> b, booking |-> k,
                 started |-> FALSE, snap |-> "In_Depot", born |-> departures[t]]
<1>1. e \in EIRRec
  BY PapersOf DEF EIRRec, Direction, Status
<1>2. Append(eir[t], e) \in Seq(EIRRec)
  BY <1>1, PapersOf, Filed
<1> QED
  BY <1>2, PapersOf DEF ArrivalEIR

LEMMA AttachedEIRType ==
    ASSUME TypeOK, NEW t \in Tank, NEW b \in Nat, NEW k \in Booking
    PROVE  AttachedEIR(t, b, k) \in Seq(EIRRec)
<1>1. ASSUME NEW i \in DOMAIN eir[t]
      PROVE  /\ [eir[t] EXCEPT ![i].bon = b] \in Seq(EIRRec)
             /\ [eir[t] EXCEPT ![i].bon = b, ![i].booking = k] \in Seq(EIRRec)
  <2>1. eir[t][i] \in EIRRec
    BY PapersOf
  <2>2. /\ [eir[t][i] EXCEPT !.bon = b] \in EIRRec
        /\ [eir[t][i] EXCEPT !.bon = b, !.booking = k] \in EIRRec
    BY <2>1, RewrittenEIR
  <2>3. /\ [eir[t] EXCEPT ![i] = [eir[t][i] EXCEPT !.bon = b]] \in Seq(EIRRec)
        /\ [eir[t] EXCEPT ![i] = [eir[t][i] EXCEPT !.bon = b, !.booking = k]] \in Seq(EIRRec)
    BY <2>2, PapersOf, RewrittenAt
  <2> QED
    BY <2>3
<1> DEFINE draft == Newest(Drafts(t, "Out"))
           done == Newest({i \in DOMAIN eir[t] :
                              /\ eir[t][i].type = "Out" /\ eir[t][i].ds = "Submitted"
                              /\ eir[t][i].booking = k /\ eir[t][i].bon = 0})
<1>2. draft # 0 => draft \in DOMAIN eir[t]
  BY NewestBelongs DEF Drafts
<1>3. done # 0 => done \in DOMAIN eir[t]
  BY NewestBelongs
<1> QED
  BY <1>1, <1>2, <1>3, PapersOf DEF AttachedEIR

LEMMA FinishedEIROutType ==
    ASSUME NEW t, NEW b, NEW es \in Seq(EIRRec) PROVE FinishedEIROut(t, b, es) \in Nat
BY NewestBelongs, SequenceShape DEF FinishedEIROut

LEMMA DepartureGateType ==
    ASSUME TypeOK, NEW t \in Tank, NEW b \in Nat, NEW es \in Seq(EIRRec)
    PROVE  DepartureGate(t, b, es) \in SUBSET GateRec
<1> DEFINE stamp(r) == [r EXCEPT !.muat = b, !.out = departures[t] + 1, !.st = "Closed",
                                 !.eout = FinishedEIROut(t, b, es)]
           fresh == [arr |-> 0, muat |-> 0, out |-> 0, eout |-> 0, st |-> "Open"]
<1>1. FinishedEIROut(t, b, es) \in Nat /\ departures[t] + 1 \in Nat
  BY PapersOf, FinishedEIROutType
<1>2. ASSUME NEW r \in GateRec PROVE stamp(r) \in GateRec
  <2> DEFINE n == departures[t] + 1
             e == FinishedEIROut(t, b, es)
  <2>1. n \in Nat /\ e \in Nat
    BY <1>1
  <2> HIDE DEF n, e
  <2>2. [r EXCEPT !.muat = b, !.out = n, !.st = "Closed", !.eout = e] \in GateRec
    BY <2>1 DEF GateRec
  <2> QED
    BY <2>2 DEF n, e
<1>3. stamp(fresh) \in GateRec
  <2>1. fresh \in GateRec
    BY DEF GateRec
  <2> HIDE DEF fresh, stamp
  <2> QED
    BY <1>2, <2>1
<1>4. OpenEntries(gate[t]) \subseteq GateRec
  BY PapersOf DEF OpenEntries
<1>5. OpenEntries(gate[t]) # {} =>
        (CHOOSE r \in OpenEntries(gate[t]) : TRUE) \in OpenEntries(gate[t])
  OBVIOUS
<1> QED
  BY <1>2, <1>3, <1>4, <1>5, PapersOf DEF DepartureGate

LEMMA LetGoType ==
    ASSUME TypeOK, NEW e \in EIRRec, NEW b, NEW d, NEW next \in {0} \cup DOMAIN bon,
           next # 0 \/ ~(next > b)
    PROVE  LetGo(e, b, d, next) \in EIRRec
<1>1. next \in DOMAIN bon => [e EXCEPT !.bon = next, !.booking = bon[next].booking] \in EIRRec
  BY BonType, RewrittenEIR
<1>2. [e EXCEPT !.ds = "Void"] \in EIRRec /\ [e EXCEPT !.bon = 0] \in EIRRec
  BY RewrittenEIR
<1> QED
  BY <1>1, <1>2 DEF LetGo

LEMMA ReleasedEIRType ==
    ASSUME TypeOK, NEW t \in Tank, NEW b \in Nat, NEW d
    PROVE  ReleasedEIR(t, b, d) \in Seq(EIRRec)
<1> DEFINE next == Newest(BonsOf(t, d, {"Submitted"}))
<1>1. next \in {0} \cup DOMAIN bon
  BY NewestBelongs DEF BonsOf
<1>2. next # 0 \/ ~(next > b)
  OBVIOUS
<1>3. \A i \in DOMAIN eir[t] : LetGo(eir[t][i], b, d, next) \in EIRRec
  <2> HIDE DEF next
  <2> QED
    BY <1>1, <1>2, PapersOf, LetGoType
<1>4. ReleasedEIR(t, b, d) \in [DOMAIN eir[t] -> EIRRec]
  BY <1>3 DEF ReleasedEIR
<1> QED
  BY <1>4, PapersOf, RewrittenAll

LEMMA ReleasedGateType ==
    ASSUME TypeOK, NEW t \in Tank, NEW b PROVE ReleasedGate(t, b) \in SUBSET GateRec
<1>1. \A r \in GateRec : [r EXCEPT !.st = "Cancelled"] \in GateRec
  BY DEF GateRec
<1> QED
  BY <1>1, PapersOf DEF ReleasedGate

LEMMA ReversedGateType ==
    ASSUME TypeOK, NEW t \in Tank, NEW b PROVE ReversedGate(b, t) \in SUBSET GateRec
<1>1. \A r \in GateRec :
        [r EXCEPT !.muat = 0, !.out = 0, !.eout = 0, !.st = "Open"] \in GateRec
  BY DEF GateRec
<1> QED
  BY <1>1, PapersOf DEF ReversedGate

LEMMA ReleasedWorkType ==
    ASSUME TypeOK, NEW t \in Tank, NEW b PROVE ReleasedWork(t, b) \in Seq(WorkRec)
<1>1. \A w \in DOMAIN work[t] : [work[t][w] EXCEPT !.st = "Cancelled"] \in WorkRec
  BY PapersOf, CancelledWork
<1>2. ReleasedWork(t, b) \in [DOMAIN work[t] -> WorkRec]
  BY <1>1, PapersOf DEF ReleasedWork
<1> QED
  BY <1>2, PapersOf, RewrittenAll

LEMMA RolledBackType ==
    ASSUME TypeOK, NEW t \in Tank, NEW b PROVE RolledBack(t, b) \in Status
BY PapersOf, SettledType DEF RolledBack, Status

LEMMA UndoArrivalTypes ==
    ASSUME TypeOK, NEW b \in DOMAIN bon, NEW S, UndoArrival(b, S)
    PROVE  /\ status' \in [Tank -> Status] /\ inDate' \in [Tank -> BOOLEAN]
           /\ gate' \in [Tank -> SUBSET GateRec]
           /\ eir' \in [Tank -> Seq(EIRRec)] /\ work' \in [Tank -> Seq(WorkRec)]
<1>1. \A t \in Tank : ReleasedEIR(t, b, "In") \in Seq(EIRRec)
  BY BonType, ReleasedEIRType
<1> QED
  BY <1>1, PapersOf, ReleasedGateType, ReleasedWorkType, RolledBackType DEF UndoArrival

LEMMA ArriveTypes ==
    ASSUME TypeOK, NEW b \in Nat, NEW k \in Booking, NEW S, Arrive(b, k, S)
    PROVE  /\ status' \in [Tank -> Status] /\ inDate' \in [Tank -> BOOLEAN]
           /\ gate' \in [Tank -> SUBSET GateRec] /\ eir' \in [Tank -> Seq(EIRRec)]
           /\ departures' \in [Tank -> Nat]
<1>1. \A t \in Tank :
        Settled("In_Depot", ArrivalGate(t, b), ArrivalEIR(t, b, k), work[t]) \in Status
  BY SettledType DEF Status
<1> QED
  BY <1>1, PapersOf, ArrivalGateType, ArrivalEIRType DEF Arrive, TypeOK

LEMMA DepartTypes ==
    ASSUME TypeOK, NEW b \in Nat, NEW k \in Booking, NEW S, Depart(b, k, S)
    PROVE  /\ status' \in [Tank -> Status] /\ inDate' \in [Tank -> BOOLEAN]
           /\ gate' \in [Tank -> SUBSET GateRec] /\ eir' \in [Tank -> Seq(EIRRec)]
           /\ departures' \in [Tank -> Nat]
<1>1. \A t \in Tank : AttachedEIR(t, b, k) \in Seq(EIRRec)
  BY AttachedEIRType
<1>2. \A t \in Tank : DepartureGate(t, b, AttachedEIR(t, b, k)) \in SUBSET GateRec
  BY <1>1, DepartureGateType
<1> QED
  BY <1>1, <1>2, PapersOf DEF Depart, TypeOK, Status

(* Submitting, reverting, voiding and editing write one bon.               *)
LEMMA BonWritten ==
    ASSUME TypeOK, NEW b \in DOMAIN bon, NEW r \in BonRec
    PROVE  [bon EXCEPT ![b] = r] \in Seq(BonRec)
BY RewrittenAt DEF TypeOK

LEMMA BonRewritten ==
    ASSUME TypeOK, NEW b \in DOMAIN bon
    PROVE  /\ \A ds \in {"Draft", "Submitted", "Voided"} : [bon EXCEPT ![b].ds = ds] \in Seq(BonRec)
           /\ \A ds \in {"Draft", "Submitted", "Voided"}, done \in BOOLEAN :
                [bon EXCEPT ![b].ds = ds, ![b].completed = done] \in Seq(BonRec)
           /\ \A done \in BOOLEAN : [bon EXCEPT ![b].completed = done] \in Seq(BonRec)
           /\ \A S \in SUBSET Tank : [bon EXCEPT ![b].tanks = S] \in Seq(BonRec)
<1>1. bon[b] \in BonRec
  BY BonType
<1>2. \A ds \in {"Draft", "Submitted", "Voided"} : [bon[b] EXCEPT !.ds = ds] \in BonRec
  BY <1>1 DEF BonRec
<1>3. \A ds \in {"Draft", "Submitted", "Voided"}, done \in BOOLEAN :
        [bon[b] EXCEPT !.ds = ds, !.completed = done] \in BonRec
  BY <1>1 DEF BonRec
<1>4. \A done \in BOOLEAN : [bon[b] EXCEPT !.completed = done] \in BonRec
  BY <1>1 DEF BonRec
<1>5. \A S \in SUBSET Tank : [bon[b] EXCEPT !.tanks = S] \in BonRec
  BY <1>1 DEF BonRec
<1>6. /\ \A ds \in {"Draft", "Submitted", "Voided"} :
           [bon EXCEPT ![b] = [bon[b] EXCEPT !.ds = ds]] \in Seq(BonRec)
      /\ \A ds \in {"Draft", "Submitted", "Voided"}, done \in BOOLEAN :
           [bon EXCEPT ![b] = [bon[b] EXCEPT !.ds = ds, !.completed = done]] \in Seq(BonRec)
  BY <1>2, <1>3, BonWritten
<1>7. /\ \A done \in BOOLEAN :
           [bon EXCEPT ![b] = [bon[b] EXCEPT !.completed = done]] \in Seq(BonRec)
      /\ \A S \in SUBSET Tank : [bon EXCEPT ![b] = [bon[b] EXCEPT !.tanks = S]] \in Seq(BonRec)
  BY <1>4, <1>5, BonWritten
<1> QED
  BY <1>6, <1>7

LEMMA CodeTypes ==
    ASSUME TypeOK, NEW k \in Booking, NEW S, NEW was
    PROVE  /\ Consumed(k, S) \in [Booking -> [Tank -> {"None", "Active", "Used", "Cancelled"}]]
           /\ Freed(k, S) \in [Booking -> [Tank -> {"None", "Active", "Used", "Cancelled"}]]
           /\ Recoded(k, was, S) \in [Booking -> [Tank -> {"None", "Active", "Used", "Cancelled"}]]
BY DEF TypeOK, Consumed, Freed, Recoded

LEMMA IssueTypes ==
    ASSUME TypeOK, NEW k \in Booking, NEW S \in SUBSET Lines[k],
           IssueBongkar(k, S) \/ IssueMuat(k, S)
    PROVE  TypeOK'
<1>1. Len(bon) + 1 \in Nat /\ S \in SUBSET Tank
  <2>1. Len(bon) \in Nat
    BY DEF TypeOK
  <2>2. Lines[k] \in SUBSET Tank
    BY DepotAssumption
  <2> QED
    BY <2>1, <2>2
<1>2. ASSUME NEW done \in BOOLEAN
      PROVE  Append(bon, [booking |-> k, tanks |-> S, ds |-> "Submitted", completed |-> done])
               \in Seq(BonRec)
  BY <1>1, Filed DEF TypeOK, BonRec
<1>3. CASE IssueBongkar(k, S)
  <2>1. bon' \in Seq(BonRec) /\ Arrive(Len(bon) + 1, k, S)
    BY <1>2, <1>3 DEF IssueBongkar
  <2> QED
    BY <1>1, <1>3, <2>1, ArriveTypes, CodeTypes DEF IssueBongkar, TypeOK
<1>4. CASE IssueMuat(k, S)
  <2>1. bon' \in Seq(BonRec) /\ Depart(Len(bon) + 1, k, S)
    BY <1>2, <1>4 DEF IssueMuat
  <2> QED
    BY <1>1, <1>4, <2>1, DepartTypes, CodeTypes DEF IssueMuat, TypeOK
<1> QED
  BY <1>3, <1>4

LEMMA ResubmitTypes ==
    ASSUME TypeOK, NEW b \in DOMAIN bon, ResubmitBongkar(b) \/ ResubmitMuat(b)
    PROVE  TypeOK'
<1>1. b \in Nat /\ bon[b].booking \in Booking
  BY BonType
<1>2. CASE ResubmitBongkar(b)
  <2>1. Arrive(b, bon[b].booking, bon[b].tanks)
    BY <1>2 DEF ResubmitBongkar
  <2>2. bon' \in Seq(BonRec)
    BY <1>2, BonRewritten DEF ResubmitBongkar, AllInspected
  <2> QED
    BY <1>1, <1>2, <2>1, <2>2, ArriveTypes DEF ResubmitBongkar, TypeOK
<1>3. CASE ResubmitMuat(b)
  <2>1. Depart(b, bon[b].booking, bon[b].tanks)
    BY <1>3 DEF ResubmitMuat
  <2>2. bon' \in Seq(BonRec)
    BY <1>3, BonRewritten DEF ResubmitMuat
  <2> QED
    BY <1>1, <1>3, <2>1, <2>2, DepartTypes DEF ResubmitMuat, TypeOK
<1> QED
  BY <1>2, <1>3

LEMMA ReversalTypes ==
    ASSUME TypeOK, NEW b
    PROVE  /\ [t \in Tank |-> IF Reversible(b, t) THEN ReversedGate(b, t) ELSE gate[t]]
                 \in [Tank -> SUBSET GateRec]
           /\ [t \in Tank |-> IF Reversible(b, t)
                              THEN Settled("Available", ReversedGate(b, t), eir[t], work[t])
                              ELSE status[t]] \in [Tank -> Status]
<1>1. \A t \in Tank : Settled("Available", ReversedGate(b, t), eir[t], work[t]) \in Status
  BY SettledType DEF Status
<1> QED
  BY <1>1, PapersOf, ReversedGateType

LEMMA RevertBonTypes ==
    ASSUME TypeOK, NEW b \in DOMAIN bon, RevertBongkar(b) \/ RevertMuat(b)
    PROVE  TypeOK'
<1>1. bon' \in Seq(BonRec)
  BY BonRewritten DEF RevertBongkar, RevertMuat
<1>2. CASE RevertBongkar(b)
  BY <1>1, <1>2 DEF RevertBongkar, TypeOK
<1>3. CASE RevertMuat(b)
  BY <1>1, <1>3, ReversalTypes DEF RevertMuat, TypeOK
<1> QED
  BY <1>2, <1>3

LEMMA VoidBonTypes ==
    ASSUME TypeOK, NEW b \in DOMAIN bon, VoidBongkar(b) \/ VoidMuat(b)
    PROVE  TypeOK'
<1>1. bon' \in Seq(BonRec)
  BY BonRewritten DEF VoidBongkar, VoidMuat
<1>2. b \in Nat /\ bon[b].booking \in Booking
  BY BonType
<1>3. code' \in [Booking -> [Tank -> {"None", "Active", "Used", "Cancelled"}]]
  <2>1. Freed(bon[b].booking, bon[b].tanks)
          \in [Booking -> [Tank -> {"None", "Active", "Used", "Cancelled"}]]
    BY <1>2, CodeTypes
  <2> QED
    BY <2>1 DEF VoidBongkar, VoidMuat
<1>4. CASE VoidBongkar(b)
  <2>1. UndoArrival(b, bon[b].tanks)
    BY <1>4 DEF VoidBongkar
  <2> QED
    BY <1>1, <1>3, <1>4, <2>1, UndoArrivalTypes DEF VoidBongkar, TypeOK
<1>5. CASE VoidMuat(b)
  <2>1. eir' \in [Tank -> Seq(EIRRec)]
    BY <1>2, <1>5, PapersOf, ReleasedEIRType DEF VoidMuat
  <2> QED
    BY <1>1, <1>3, <1>5, <2>1, ReversalTypes DEF VoidMuat, TypeOK
<1> QED
  BY <1>4, <1>5

LEMMA EditBonTypes ==
    ASSUME TypeOK, NEW b \in DOMAIN bon, NEW S \in SUBSET Lines[bon[b].booking],
           EditBongkar(b, S) \/ EditMuat(b, S)
    PROVE  TypeOK'
<1>1. bon[b].booking \in Booking
  BY BonType
<1>2. S \in SUBSET Tank
  <2>1. Lines[bon[b].booking] \in SUBSET Tank
    BY <1>1, DepotAssumption
  <2> QED
    BY <2>1
<1>3. bon' \in Seq(BonRec)
  <2>1. bon' = [bon EXCEPT ![b].tanks = S]
    BY DEF EditBongkar, EditMuat
  <2> QED
    BY <2>1, <1>2, BonRewritten
<1>4. code' \in [Booking -> [Tank -> {"None", "Active", "Used", "Cancelled"}]]
  <2>1. Recoded(bon[b].booking, bon[b].tanks, S)
          \in [Booking -> [Tank -> {"None", "Active", "Used", "Cancelled"}]]
    BY <1>1, CodeTypes
  <2> QED
    BY <2>1 DEF EditBongkar, EditMuat
<1>5. CASE EditBongkar(b, S)
  <2>1. UndoArrival(b, bon[b].tanks \ S)
    BY <1>5 DEF EditBongkar
  <2> QED
    BY <1>3, <1>4, <1>5, <2>1, UndoArrivalTypes DEF EditBongkar, TypeOK
<1>6. CASE EditMuat(b, S)
  BY <1>3, <1>4, <1>6 DEF EditMuat, TypeOK
<1> QED
  BY <1>5, <1>6

(* Every request of the bon desk keeps the papers well-formed.             *)
LEMMA BonStepTypes ==
    ASSUME TypeOK, BonStep PROVE TypeOK'
<1>1. CASE \E k \in Booking : \E S \in SUBSET Lines[k] : IssueBongkar(k, S) \/ IssueMuat(k, S)
  BY <1>1, IssueTypes
<1>2. ASSUME NEW b \in DOMAIN bon,
             ResubmitBongkar(b) \/ ResubmitMuat(b) \/ RevertBongkar(b) \/ RevertMuat(b)
             \/ VoidBongkar(b) \/ VoidMuat(b)
      PROVE  TypeOK'
  BY <1>2, ResubmitTypes, RevertBonTypes, VoidBonTypes
<1>3. ASSUME NEW b \in DOMAIN bon, NEW S \in SUBSET Lines[bon[b].booking],
             EditBongkar(b, S) \/ EditMuat(b, S)
      PROVE  TypeOK'
  BY <1>3, EditBonTypes
<1> QED
  BY <1>1, <1>2, <1>3 DEF BonStep

-----------------------------------------------------------------------------
(* The inspection desk and the work orders                                 *)

LEMMA EIRsMarked ==
    ASSUME TypeOK, NEW t \in Tank, NEW i \in DOMAIN eir[t]
    PROVE  /\ \A ds \in {"Draft", "Submitted", "Void"} : [eir[t] EXCEPT ![i].ds = ds] \in Seq(EIRRec)
           /\ \A ds \in {"Draft", "Submitted", "Void"}, st \in Status :
                [eir[t] EXCEPT ![i].ds = ds, ![i].snap = st] \in Seq(EIRRec)
           /\ [eir[t] EXCEPT ![i].started = TRUE] \in Seq(EIRRec)
<1>1. eir[t][i] \in EIRRec /\ eir[t] \in Seq(EIRRec)
  BY PapersOf
<1>2. \A ds \in {"Draft", "Submitted", "Void"}, st \in Status :
        [eir[t][i] EXCEPT !.ds = ds, !.snap = st] \in EIRRec
  BY <1>1 DEF EIRRec
<1>3. /\ \A ds \in {"Draft", "Submitted", "Void"} :
           [eir[t] EXCEPT ![i] = [eir[t][i] EXCEPT !.ds = ds]] \in Seq(EIRRec)
      /\ [eir[t] EXCEPT ![i] = [eir[t][i] EXCEPT !.started = TRUE]] \in Seq(EIRRec)
  BY <1>1, RewrittenEIR, RewrittenAt
<1>4. \A ds \in {"Draft", "Submitted", "Void"}, st \in Status :
        [eir[t] EXCEPT ![i] = [eir[t][i] EXCEPT !.ds = ds, !.snap = st]] \in Seq(EIRRec)
  BY <1>1, <1>2, RewrittenAt
<1> QED
  BY <1>3, <1>4

LEMMA NewWorkType ==
    ASSUME TypeOK, NEW t \in Tank, NEW kind \in {"Cleaning", "M&R"}, NEW i \in Nat
    PROVE  NewWork(t, kind, i) \in WorkRec
BY PapersOf DEF NewWork, WorkRec

LEMMA WithCleaningType ==
    ASSUME TypeOK, NEW t \in Tank, NEW i \in Nat, NEW ws \in Seq(WorkRec)
    PROVE  WithCleaning(t, i, ws) \in Seq(WorkRec)
<1>1. Append(ws, NewWork(t, "Cleaning", i)) \in Seq(WorkRec)
  BY NewWorkType, Filed
<1> QED
  BY <1>1 DEF WithCleaning

LEMMA WithRepairType ==
    ASSUME TypeOK, NEW t \in Tank, NEW i \in Nat, NEW ws \in Seq(WorkRec)
    PROVE  WithRepair(t, i, ws) \in Seq(WorkRec)
<1>1. Append(ws, NewWork(t, "M&R", i)) \in Seq(WorkRec)
  BY NewWorkType, Filed
<1>2. ASSUME NEW w \in DOMAIN ws
      PROVE  [ws EXCEPT ![w].src = IF @ = 0 THEN i ELSE @] \in Seq(WorkRec)
  <2>1. ws[w] \in WorkRec
    BY SequenceShape
  <2>2. [ws[w] EXCEPT !.src = IF @ = 0 THEN i ELSE @] \in WorkRec
    BY <2>1 DEF WorkRec
  <2>3. [ws EXCEPT ![w] = [ws[w] EXCEPT !.src = IF @ = 0 THEN i ELSE @]] \in Seq(WorkRec)
    BY <2>2, RewrittenAt
  <2> QED
    BY <2>3
<1> DEFINE open == Newest({w \in DOMAIN ws : /\ ws[w].kind = "M&R"
                                             /\ ws[w].st \in {"Unstarted", "Working", "Review"}})
<1>3. open # 0 => open \in DOMAIN ws
  BY NewestBelongs
<1> QED
  BY <1>1, <1>2, <1>3 DEF WithRepair

LEMMA FollowUpsType ==
    ASSUME TypeOK, NEW t \in Tank, NEW i \in Nat, NEW tick
    PROVE  FollowUps(t, i, tick) \in Seq(WorkRec)
BY PapersOf, WithCleaningType, WithRepairType DEF FollowUps

LEMMA ReleasedFollowUpsType ==
    ASSUME TypeOK, NEW t \in Tank, NEW i PROVE ReleasedFollowUps(t, i) \in Seq(WorkRec)
<1>1. \A w \in DOMAIN work[t] : [work[t][w] EXCEPT !.st = "Cancelled"] \in WorkRec
  BY PapersOf, CancelledWork
<1>2. ReleasedFollowUps(t, i) \in [DOMAIN work[t] -> WorkRec]
  BY <1>1, PapersOf DEF ReleasedFollowUps
<1> QED
  BY <1>2, PapersOf, RewrittenAll

LEMMA SettleTypes ==
    ASSUME TypeOK, NEW t \in Tank, NEW st \in Status, NEW es \in Seq(EIRRec),
           NEW ws \in Seq(WorkRec), NEW b, Settle(t, st, es, ws, b)
    PROVE  /\ status' \in [Tank -> Status] /\ eir' \in [Tank -> Seq(EIRRec)]
           /\ work' \in [Tank -> Seq(WorkRec)] /\ bon' \in Seq(BonRec)
<1>1. bon' \in Seq(BonRec)
  <2>1. RefreshedBons(b, eir') \in Seq(BonRec)
    BY BonRewritten DEF RefreshedBons, AllInspected, TypeOK
  <2> QED
    BY <2>1 DEF Settle
<1> QED
  BY <1>1, SettledType DEF Settle, TypeOK

LEMMA UnlinkedType ==
    ASSUME TypeOK, NEW t \in Tank, NEW i PROVE Unlinked(t, i) \in SUBSET GateRec
<1>1. \A r \in GateRec : [r EXCEPT !.eout = 0] \in GateRec
  BY DEF GateRec
<1> QED
  BY <1>1, PapersOf DEF Unlinked

LEMMA EIRInTypes ==
    ASSUME TypeOK, NEW t \in Tank, NEW i \in DOMAIN eir[t],
           \/ \E tick \in SUBSET WorkKind : SubmitEIRIn(t, i, tick)
           \/ DiscardEIR(t, i)
    PROVE  TypeOK'
<1>1. i \in Nat /\ status[t] \in Status /\ work[t] \in Seq(WorkRec)
  BY PapersOf, SequenceShape
<1>2. ASSUME NEW tick \in SUBSET WorkKind, SubmitEIRIn(t, i, tick) PROVE TypeOK'
  <2>1. /\ [eir[t] EXCEPT ![i].ds = "Submitted", ![i].snap = status[t]] \in Seq(EIRRec)
        /\ FollowUps(t, i, tick) \in Seq(WorkRec)
    BY <1>1, EIRsMarked, FollowUpsType
  <2>2. Settle(t, status[t], [eir[t] EXCEPT ![i].ds = "Submitted", ![i].snap = status[t]],
               FollowUps(t, i, tick), eir[t][i].bon)
    BY <1>2 DEF SubmitEIRIn
  <2>3. /\ status' \in [Tank -> Status] /\ eir' \in [Tank -> Seq(EIRRec)]
        /\ work' \in [Tank -> Seq(WorkRec)] /\ bon' \in Seq(BonRec)
    BY <1>1, <2>1, <2>2, SettleTypes
  <2> QED
    BY <1>2, <2>3 DEF SubmitEIRIn, TypeOK
<1>3. CASE DiscardEIR(t, i)
  <2> DEFINE es == [eir[t] EXCEPT ![i].ds = "Void"]
             ws == IF eir[t][i].type = "In" THEN ReleasedFollowUps(t, i) ELSE work[t]
  <2>1. es \in Seq(EIRRec) /\ ws \in Seq(WorkRec)
    BY <1>1, EIRsMarked, ReleasedFollowUpsType
  <2>2. Settle(t, status[t], es, ws, eir[t][i].bon)
    BY <1>3 DEF DiscardEIR
  <2> HIDE DEF es, ws
  <2>3. /\ status' \in [Tank -> Status] /\ eir' \in [Tank -> Seq(EIRRec)]
        /\ work' \in [Tank -> Seq(WorkRec)] /\ bon' \in Seq(BonRec)
    BY <1>1, <2>1, <2>2, SettleTypes
  <2> QED
    BY <1>3, <2>3 DEF DiscardEIR, TypeOK
<1> QED
  BY <1>2, <1>3

LEMMA EIRUndoTypes ==
    ASSUME TypeOK, NEW t \in Tank, NEW i \in DOMAIN eir[t], RevertEIR(t, i) \/ VoidEIR(t, i)
    PROVE  TypeOK'
<1> DEFINE draft == [eir[t] EXCEPT ![i].ds = "Draft"]
           void == [eir[t] EXCEPT ![i].ds = "Void"]
<1>1. /\ eir[t][i].snap \in Status /\ work[t] \in Seq(WorkRec)
      /\ draft \in Seq(EIRRec) /\ void \in Seq(EIRRec)
      /\ ReleasedFollowUps(t, i) \in Seq(WorkRec) /\ Unlinked(t, i) \in SUBSET GateRec
  <2>1. eir[t][i].snap \in Status
    BY PapersOf DEF EIRRec
  <2> QED
    BY <2>1, PapersOf, EIRsMarked, ReleasedFollowUpsType, UnlinkedType
<1> HIDE DEF draft, void
<1>2. CASE RevertEIR(t, i) /\ eir[t][i].type = "In"
  <2>1. Settle(t, eir[t][i].snap, draft, work[t], eir[t][i].bon)
    BY <1>2 DEF RevertEIR, draft
  <2>2. /\ status' \in [Tank -> Status] /\ eir' \in [Tank -> Seq(EIRRec)]
        /\ work' \in [Tank -> Seq(WorkRec)] /\ bon' \in Seq(BonRec)
    BY <1>1, <2>1, SettleTypes
  <2> QED
    BY <1>2, <2>2 DEF RevertEIR, TypeOK
<1>3. CASE RevertEIR(t, i) /\ eir[t][i].type # "In"
  <2>1. eir' = [eir EXCEPT ![t] = draft]
    BY <1>3 DEF RevertEIR, draft
  <2> QED
    BY <1>1, <1>3, <2>1 DEF RevertEIR, TypeOK
<1>4. CASE VoidEIR(t, i) /\ eir[t][i].type = "In"
  <2>1. Settle(t, eir[t][i].snap, void, ReleasedFollowUps(t, i), eir[t][i].bon)
    BY <1>4 DEF VoidEIR, void
  <2>2. /\ status' \in [Tank -> Status] /\ eir' \in [Tank -> Seq(EIRRec)]
        /\ work' \in [Tank -> Seq(WorkRec)] /\ bon' \in Seq(BonRec)
    BY <1>1, <2>1, SettleTypes
  <2> QED
    BY <1>4, <2>2 DEF VoidEIR, TypeOK
<1>5. CASE VoidEIR(t, i) /\ eir[t][i].type # "In"
  <2>1. eir' = [eir EXCEPT ![t] = void]
    BY <1>5 DEF VoidEIR, void
  <2>2. status' \in [Tank -> Status]
    <3>1. Settled(status[t], gate[t], eir'[t], work[t]) \in Status
      BY PapersOf, SettledType
    <3>2. status' = [status EXCEPT ![t] = Settled(status[t], gate[t], eir'[t], work[t])]
      BY <1>5 DEF VoidEIR
    <3> QED
      BY <3>1, <3>2 DEF TypeOK
  <2>3. /\ gate' = [gate EXCEPT ![t] = Unlinked(t, i)] /\ work' = work /\ bon' = bon
        /\ UNCHANGED <<inDate, bk, code, paid, departures, enforceAll>>
    BY <1>5 DEF VoidEIR
  <2>4. eir' \in [Tank -> Seq(EIRRec)] /\ gate' \in [Tank -> SUBSET GateRec]
    BY <1>1, <2>1, <2>3 DEF TypeOK
  <2> QED
    BY <2>2, <2>3, <2>4 DEF TypeOK
<1> QED
  BY <1>2, <1>3, <1>4, <1>5

LEMMA EIRStepTypes ==
    ASSUME TypeOK, NEW t \in Tank, EIRStep(t) PROVE TypeOK'
<1>1. PICK i \in DOMAIN eir[t] :
        \/ StartEIR(t, i)
        \/ \E tick \in SUBSET WorkKind : SubmitEIRIn(t, i, tick)
        \/ SubmitEIROut(t, i) \/ RevertEIR(t, i) \/ VoidEIR(t, i) \/ DiscardEIR(t, i)
  BY DEF EIRStep
<1>2. CASE StartEIR(t, i)
  <2>1. eir' = [eir EXCEPT ![t] = [eir[t] EXCEPT ![i].started = TRUE]]
    BY <1>2 DEF StartEIR
  <2>2. UNCHANGED <<status, inDate, bk, code, paid, bon, gate, work, departures, enforceAll>>
    BY <1>2 DEF StartEIR
  <2>3. eir' \in [Tank -> Seq(EIRRec)]
    BY <2>1, EIRsMarked DEF TypeOK
  <2> QED
    BY <2>2, <2>3 DEF TypeOK
<1>3. CASE SubmitEIROut(t, i)
  <2>1. eir' = [eir EXCEPT ![t] = [eir[t] EXCEPT ![i].ds = "Submitted"]]
    BY <1>3 DEF SubmitEIROut
  <2>2. i \in Nat
    BY PapersOf, SequenceShape
  <2>3. \A r \in GateRec : [r EXCEPT !.eout = i] \in GateRec
    BY <2>2 DEF GateRec
  <2>4. gate' \in [Tank -> SUBSET GateRec]
    BY <1>3, <2>3, PapersOf DEF SubmitEIROut, TypeOK
  <2>5. eir' \in [Tank -> Seq(EIRRec)]
    BY <2>1, EIRsMarked DEF TypeOK
  <2> QED
    BY <1>3, <2>4, <2>5 DEF SubmitEIROut, TypeOK
<1> QED
  BY <1>1, <1>2, <1>3, EIRInTypes, EIRUndoTypes

LEMMA WorkStepTypes ==
    ASSUME TypeOK, WorkKind \subseteq {"Cleaning", "M&R"}, NEW t \in Tank, WorkStep(t)
    PROVE  TypeOK'
<1>1. ASSUME NEW ws \in Seq(WorkRec), WorkSaved(t, ws) PROVE TypeOK'
  <2>1. status' \in [Tank -> Status]
    BY <1>1, PapersOf, SettledType DEF WorkSaved, TypeOK
  <2> QED
    BY <1>1, <2>1 DEF WorkSaved, TypeOK
<1>2. ASSUME NEW kind \in WorkKind, RaiseWork(t, kind) PROVE TypeOK'
  <2>1. Append(work[t], NewWork(t, kind, 0)) \in Seq(WorkRec)
    BY PapersOf, NewWorkType, Filed
  <2> QED
    BY <1>1, <1>2, <2>1 DEF RaiseWork
<1>3. ASSUME NEW w \in DOMAIN work[t],
             NEW st \in {"Unstarted", "Working", "Review", "Done", "Cancelled"}
      PROVE  [work[t] EXCEPT ![w].st = st] \in Seq(WorkRec)
  <2>1. work[t][w] \in WorkRec
    BY PapersOf
  <2>2. [work[t][w] EXCEPT !.st = st] \in WorkRec
    BY <2>1 DEF WorkRec
  <2>3. [work[t] EXCEPT ![w] = [work[t][w] EXCEPT !.st = st]] \in Seq(WorkRec)
    BY <2>2, PapersOf, RewrittenAt
  <2> QED
    BY <2>3
<1>4. ASSUME NEW w \in DOMAIN work[t], MoveWork(t, w) PROVE TypeOK'
  <2>1. PICK move \in WorkMoves(work[t][w].kind) :
          WorkSaved(t, [work[t] EXCEPT ![w].st = move[2]])
    BY <1>4 DEF MoveWork
  <2>2. move[2] \in {"Unstarted", "Working", "Review", "Done", "Cancelled"}
    BY DEF WorkMoves
  <2> QED
    BY <1>1, <1>3, <2>1, <2>2
<1>5. ASSUME NEW w \in DOMAIN work[t], CancelWork(t, w) PROVE TypeOK'
  BY <1>1, <1>3, <1>5 DEF CancelWork
<1> QED
  BY <1>2, <1>4, <1>5 DEF WorkStep

-----------------------------------------------------------------------------
(* Whatever the offices do, in whatever order, the papers stay well-formed: *)
(* every status, code, bon, Gate Entry, EIR and order has a value the       *)
(* program knows, and every reference is to a document of the right table.  *)
THEOREM TypeCorrect == Spec => []TypeOK
<1>1. Init => TypeOK
  <2>1. Switch \subseteq BOOLEAN
    BY DepotAssumption
  <2>2. << >> \in Seq(BonRec) /\ << >> \in Seq(EIRRec) /\ << >> \in Seq(WorkRec)
    OBVIOUS
  <2> QED
    BY <2>1, <2>2 DEF Init, TypeOK, Status
<1>2. TypeOK /\ [Next]_vars => TypeOK'
  <2>1. SUFFICES ASSUME TypeOK, [Next]_vars PROVE TypeOK'
    OBVIOUS
  <2>2. CASE UNCHANGED vars
    BY <2>1, <2>2 DEF vars, TypeOK
  <2>3. CASE \E k \in Booking : BookingStep(k)
    BY <2>1, <2>3, BookingStepTypes
  <2>4. CASE BonStep
    BY <2>1, <2>4, BonStepTypes
  <2>5. CASE \E t \in Tank : EIRStep(t) \/ WorkStep(t)
    BY <2>1, <2>5, EIRStepTypes, WorkStepTypes, DepotAssumption
  <2>6. CASE ToggleEnforceAll
    BY <2>1, <2>6, DepotAssumption DEF ToggleEnforceAll, TypeOK
  <2> QED
    BY <2>1, <2>2, <2>3, <2>4, <2>5, <2>6 DEF Next
<1> QED
  BY <1>1, <1>2, PTL DEF Spec

-----------------------------------------------------------------------------
(* The money.  A bon is raised on a confirmed booking whose money allows   *)
(* it; a booking with any bon to its name, even a voided one, never leaves *)
(* Confirmed, though it can owe again at any time.                         *)

(* What the other desks write leaves every bon on its booking.             *)
LEMMA SameBookings ==
    ASSUME BonsConfirmed, bk' = bk, DOMAIN bon' = DOMAIN bon,
           \A b \in DOMAIN bon : bon'[b].booking = bon[b].booking
    PROVE  BonsConfirmed'
BY DEF BonsConfirmed

LEMMA BookingStepConfirmed ==
    ASSUME TypeOK, BonsConfirmed, NEW k \in Booking, BookingStep(k) PROVE BonsConfirmed'
<1>1. bon' = bon
  BY DEF BookingStep, CreateBooking, ConfirmBooking, RevertBooking, VoidBooking,
         MarkPaid, MarkUnpaid, ReopenPayment
<1>2. \A b \in DOMAIN bon : bk[bon[b].booking] = "Confirmed" /\ bon[b].booking \in Booking
  BY BonType DEF BonsConfirmed
<1>3. CASE CreateBooking(k) \/ ConfirmBooking(k)
  BY <1>1, <1>2, <1>3 DEF CreateBooking, ConfirmBooking, BonsConfirmed, TypeOK
<1>4. CASE RevertBooking(k) \/ VoidBooking(k)
  BY <1>1, <1>2, <1>4 DEF RevertBooking, VoidBooking, BonRaised, BonsConfirmed, TypeOK
<1>5. CASE MarkPaid(k) \/ MarkUnpaid(k) \/ ReopenPayment(k)
  BY <1>1, <1>5 DEF MarkPaid, MarkUnpaid, ReopenPayment, BonsConfirmed
<1> QED
  BY <1>3, <1>4, <1>5 DEF BookingStep

LEMMA BonStepConfirmed ==
    ASSUME TypeOK, BonsConfirmed, BonStep PROVE BonsConfirmed'
<1>1. ASSUME NEW k \in Booking, NEW S \in SUBSET Lines[k], IssueBongkar(k, S) \/ IssueMuat(k, S)
      PROVE  BonsConfirmed'
  <2>1. bk' = bk /\ bk[k] = "Confirmed"
    BY <1>1 DEF IssueBongkar, IssueMuat, IssueGuard
  <2>2. PICK r : bon' = Append(bon, r) /\ r.booking = k
    BY <1>1 DEF IssueBongkar, IssueMuat
  <2>3. \A b \in DOMAIN bon' : (b \in DOMAIN bon /\ bon'[b] = bon[b]) \/ bon'[b] = r
    BY <2>2 DEF TypeOK
  <2> QED
    BY <2>1, <2>2, <2>3 DEF BonsConfirmed
<1>2. ASSUME NEW b \in DOMAIN bon,
             \/ ResubmitBongkar(b) \/ ResubmitMuat(b) \/ RevertBongkar(b) \/ RevertMuat(b)
             \/ VoidBongkar(b) \/ VoidMuat(b)
             \/ \E S \in SUBSET Lines[bon[b].booking] : EditBongkar(b, S) \/ EditMuat(b, S)
      PROVE  BonsConfirmed'
  <2>1. bk' = bk
    BY <1>2 DEF ResubmitBongkar, ResubmitMuat, RevertBongkar, RevertMuat,
                VoidBongkar, VoidMuat, EditBongkar, EditMuat
  <2>2. /\ DOMAIN bon' = DOMAIN bon
        /\ \A c \in DOMAIN bon : bon'[c].booking = bon[c].booking
    <3>1. \A c \in DOMAIN bon : bon[c] \in BonRec
      BY BonType
    <3>2. CASE ResubmitBongkar(b) \/ ResubmitMuat(b)
      BY <3>1, <3>2 DEF ResubmitBongkar, ResubmitMuat, BonRec
    <3>3. CASE RevertBongkar(b) \/ RevertMuat(b)
      BY <3>1, <3>3 DEF RevertBongkar, RevertMuat, BonRec
    <3>4. CASE VoidBongkar(b) \/ VoidMuat(b)
      BY <3>1, <3>4 DEF VoidBongkar, VoidMuat, BonRec
    <3>5. ASSUME NEW S, EditBongkar(b, S) \/ EditMuat(b, S)
          PROVE  /\ DOMAIN bon' = DOMAIN bon
                 /\ \A c \in DOMAIN bon : bon'[c].booking = bon[c].booking
      <4>1. bon' = [bon EXCEPT ![b].tanks = S]
        BY <3>5 DEF EditBongkar, EditMuat
      <4> QED
        BY <3>1, <4>1 DEF BonRec
    <3> QED
      BY <1>2, <3>2, <3>3, <3>4, <3>5
  <2> QED
    BY <2>1, <2>2, SameBookings
<1> QED
  BY <1>1, <1>2 DEF BonStep

LEMMA OtherStepsConfirmed ==
    ASSUME TypeOK, BonsConfirmed, NEW t \in Tank, EIRStep(t) \/ WorkStep(t) PROVE BonsConfirmed'
<1>1. bk' = bk
  BY DEF EIRStep, StartEIR, SubmitEIRIn, SubmitEIROut, RevertEIR, VoidEIR, DiscardEIR,
         WorkStep, RaiseWork, MoveWork, CancelWork, WorkSaved
<1>2. bon' = bon \/ \E b, es : bon' = RefreshedBons(b, es)
  BY DEF EIRStep, StartEIR, SubmitEIRIn, SubmitEIROut, RevertEIR, VoidEIR, DiscardEIR, Settle,
         WorkStep, RaiseWork, MoveWork, CancelWork, WorkSaved
<1>3. /\ DOMAIN bon' = DOMAIN bon
      /\ \A c \in DOMAIN bon : bon'[c].booking = bon[c].booking
  <2>1. \A c \in DOMAIN bon : bon[c] \in BonRec
    BY BonType
  <2> QED
    BY <1>2, <2>1 DEF RefreshedBons, BonRec
<1> QED
  BY <1>1, <1>3, SameBookings

LEMMA BonsStayConfirmed == Spec => []BonsConfirmed
<1>1. Init => BonsConfirmed
  BY DEF Init, BonsConfirmed
<1>2. TypeOK /\ BonsConfirmed /\ [Next]_vars => BonsConfirmed'
  <2>1. SUFFICES ASSUME TypeOK, BonsConfirmed, [Next]_vars PROVE BonsConfirmed'
    OBVIOUS
  <2>2. CASE UNCHANGED vars
    BY <2>1, <2>2 DEF vars, BonsConfirmed
  <2>3. CASE \E k \in Booking : BookingStep(k)
    BY <2>1, <2>3, BookingStepConfirmed
  <2>4. CASE BonStep
    BY <2>1, <2>4, BonStepConfirmed
  <2>5. CASE \E t \in Tank : EIRStep(t) \/ WorkStep(t)
    BY <2>1, <2>5, OtherStepsConfirmed
  <2>6. CASE ToggleEnforceAll
    BY <2>1, <2>6 DEF ToggleEnforceAll, BonsConfirmed
  <2> QED
    BY <2>1, <2>2, <2>3, <2>4, <2>5, <2>6 DEF Next
<1> QED
  BY <1>1, <1>2, TypeCorrect, PTL DEF Spec

(* What a step may do to the money's side of the papers: no bon is born,   *)
(* and no tank leaves, but for money that is in.                           *)
AskedForMoney ==
    /\ \A b \in DOMAIN bon' \ DOMAIN bon : PaymentAllowsBon(bon'[b].booking)
    /\ \A t \in Tank : departures'[t] # departures[t] =>
          \E b \in DOMAIN bon' : /\ StampedBy(t, b)
                                 /\ t \in bon'[b].tanks
                                 /\ bon'[b].booking \notin InBooking
                                 /\ PaymentAllowsBon(bon'[b].booking)

(* A departure stamps the row of every tank it takes, and counts no other. *)
LEMMA DepartStamps ==
    ASSUME TypeOK, NEW b, NEW k, NEW S, Depart(b, k, S), NEW t \in Tank,
           departures'[t] # departures[t]
    PROVE  t \in S /\ StampedBy(t, b)
<1>1. t \in S /\ departures'[t] = departures[t] + 1 /\ departures[t] \in Nat
  BY DEF Depart, TypeOK
<1> DEFINE es == AttachedEIR(t, b, k)
           stamp(r) == [r EXCEPT !.muat = b, !.out = departures[t] + 1, !.st = "Closed",
                                 !.eout = FinishedEIROut(t, b, es)]
           fresh == [arr |-> 0, muat |-> 0, out |-> 0, eout |-> 0, st |-> "Open"]
<1>2. gate'[t] = DepartureGate(t, b, es)
  BY <1>1 DEF Depart
<1>3. PICK r \in GateRec : stamp(r) \in gate'[t]
  <2>1. CASE OpenEntries(gate[t]) = {}
    <3>1. stamp(fresh) \in gate'[t] /\ fresh \in GateRec
      BY <1>2, <2>1 DEF DepartureGate, GateRec
    <3> QED
      BY <3>1
  <2>2. CASE OpenEntries(gate[t]) # {}
    <3> DEFINE cur == CHOOSE r \in OpenEntries(gate[t]) : TRUE
    <3>1. cur \in GateRec
      BY <2>2 DEF OpenEntries, TypeOK
    <3>2. stamp(cur) \in gate'[t]
      BY <1>2, <2>2 DEF DepartureGate
    <3> QED
      BY <3>1, <3>2
  <2> QED
    BY <2>1, <2>2
<1>4. stamp(r).muat = b /\ stamp(r).out = departures[t] + 1
  BY <1>3 DEF GateRec
<1> QED
  BY <1>1, <1>3, <1>4 DEF StampedBy

LEMMA BonStepAsks ==
    ASSUME TypeOK, BonStep PROVE AskedForMoney
<1>1. ASSUME NEW k \in Booking, NEW S \in SUBSET Lines[k], IssueBongkar(k, S) \/ IssueMuat(k, S)
      PROVE  AskedForMoney
  <2> DEFINE b == Len(bon) + 1
  <2>1. PICK r : bon' = Append(bon, r) /\ r.booking = k /\ r.tanks = S
    BY <1>1 DEF IssueBongkar, IssueMuat
  <2>2. PaymentAllowsBon(k)
    BY <1>1 DEF IssueBongkar, IssueMuat, IssueGuard
  <2>3. DOMAIN bon' \ DOMAIN bon = {b} /\ b \in DOMAIN bon' /\ bon'[b] = r
    BY <2>1 DEF TypeOK
  <2>4. CASE IssueBongkar(k, S)
    BY <2>1, <2>2, <2>3, <2>4 DEF IssueBongkar, Arrive, AskedForMoney
  <2>5. CASE IssueMuat(k, S)
    <3>1. k \notin InBooking /\ Depart(b, k, S)
      BY <2>5 DEF IssueMuat
    <3>2. ASSUME NEW t \in Tank, departures'[t] # departures[t] PROVE t \in S /\ StampedBy(t, b)
      BY <3>1, <3>2, DepartStamps
    <3> QED
      BY <2>1, <2>2, <2>3, <3>1, <3>2 DEF AskedForMoney
  <2> QED
    BY <1>1, <2>4, <2>5
<1>2. ASSUME NEW b \in DOMAIN bon, ResubmitMuat(b) PROVE AskedForMoney
  <2> DEFINE k == bon[b].booking
             S == bon[b].tanks
  <2>1. k \notin InBooking /\ PaymentAllowsBon(k) /\ Depart(b, k, S)
    BY <1>2 DEF ResubmitMuat
  <2>2. bon' = [bon EXCEPT ![b].ds = "Submitted", ![b].completed = TRUE] /\ bon[b] \in BonRec
    BY <1>2, BonType DEF ResubmitMuat
  <2>3. DOMAIN bon' = DOMAIN bon /\ bon'[b].booking = k /\ bon'[b].tanks = S
    BY <2>2 DEF BonRec
  <2>4. ASSUME NEW t \in Tank, departures'[t] # departures[t] PROVE t \in S /\ StampedBy(t, b)
    BY <2>1, <2>4, DepartStamps
  <2> QED
    BY <2>1, <2>3, <2>4 DEF AskedForMoney
<1>3. ASSUME NEW b \in DOMAIN bon,
             \/ ResubmitBongkar(b) \/ RevertBongkar(b) \/ RevertMuat(b)
             \/ VoidBongkar(b) \/ VoidMuat(b)
             \/ \E S \in SUBSET Lines[bon[b].booking] : EditBongkar(b, S) \/ EditMuat(b, S)
      PROVE  AskedForMoney
  <2>1. departures' = departures
    BY <1>3 DEF ResubmitBongkar, Arrive, RevertBongkar, RevertMuat, VoidBongkar, VoidMuat,
                EditBongkar, EditMuat
  <2>2. DOMAIN bon' = DOMAIN bon
    BY <1>3 DEF ResubmitBongkar, RevertBongkar, RevertMuat, VoidBongkar, VoidMuat,
                EditBongkar, EditMuat
  <2> QED
    BY <2>1, <2>2 DEF AskedForMoney
<1> QED
  BY <1>1, <1>2, <1>3 DEF BonStep

(* A bon is born, and a tank leaves, on a confirmed booking whose money is *)
(* in at that moment, though the booking may have owed, been paid and owed *)
(* again since the bon was raised.                                         *)
THEOREM BonsPaid == Spec => BonsArePaid
<1>1. TypeOK /\ [Next]_vars => AskedForMoney \/ UNCHANGED vars
  <2>1. SUFFICES ASSUME TypeOK, Next PROVE AskedForMoney
    OBVIOUS
  <2>2. ASSUME NEW k \in Booking, BookingStep(k) PROVE AskedForMoney
    BY <2>2 DEF BookingStep, CreateBooking, ConfirmBooking, RevertBooking, VoidBooking,
                MarkPaid, MarkUnpaid, ReopenPayment, AskedForMoney
  <2>3. CASE BonStep
    BY <2>1, <2>3, BonStepAsks
  <2>4. ASSUME NEW t \in Tank, EIRStep(t) \/ WorkStep(t) PROVE AskedForMoney
    <3>1. departures' = departures
      BY <2>4 DEF EIRStep, StartEIR, SubmitEIRIn, SubmitEIROut, RevertEIR, VoidEIR, DiscardEIR,
                  Settle, WorkStep, RaiseWork, MoveWork, CancelWork, WorkSaved
    <3>2. bon' = bon \/ \E b, es : bon' = RefreshedBons(b, es)
      BY <2>4 DEF EIRStep, StartEIR, SubmitEIRIn, SubmitEIROut, RevertEIR, VoidEIR, DiscardEIR,
                  Settle, WorkStep, RaiseWork, MoveWork, CancelWork, WorkSaved
    <3>3. DOMAIN bon' = DOMAIN bon
      BY <3>2 DEF RefreshedBons
    <3> QED
      BY <3>1, <3>3 DEF AskedForMoney
  <2>5. CASE ToggleEnforceAll
    BY <2>5 DEF ToggleEnforceAll, AskedForMoney
  <2> QED
    BY <2>1, <2>2, <2>3, <2>4, <2>5 DEF Next
<1>2. TypeOK /\ BonsConfirmed' /\ [Next]_vars
        => [/\ BonsConfirmed'
            /\ \A b \in DOMAIN bon' \ DOMAIN bon : PaymentAllowsBon(bon'[b].booking)
            /\ \A t \in Tank : departures'[t] # departures[t] =>
                  \E b \in DOMAIN bon' : /\ StampedBy(t, b)
                                         /\ t \in bon'[b].tanks
                                         /\ bon'[b].booking \notin InBooking
                                         /\ PaymentAllowsBon(bon'[b].booking)]_vars
  BY <1>1 DEF AskedForMoney
<1> QED
  BY <1>2, TypeCorrect, BonsStayConfirmed, PTL DEF Spec, BonsArePaid

-----------------------------------------------------------------------------
(* Codes and bons.                                                         *)

(* The bons that stand for tank t on booking k.                            *)
LiveBons(k, t) ==
    {b \in DOMAIN bon : bon[b].booking = k /\ t \in bon[b].tanks /\ bon[b].ds # "Voided"}

(* The code of one line and its bons agree.                                *)
CodeFits(k, t) ==
    IF code[k][t] = "Used" THEN \E b \in DOMAIN bon : LiveBons(k, t) = {b} ELSE LiveBons(k, t) = {}

CodesFit == \A k \in Booking, t \in Tank : CodeFits(k, t)

(* A line that no step of a bon or a code touches stays as it was.         *)
LEMMA FitsStill ==
    ASSUME NEW k \in Booking, NEW t \in Tank, CodeFits(k, t),
           LiveBons(k, t)' = LiveBons(k, t), DOMAIN bon \subseteq DOMAIN bon',
           code'[k][t] = "Used" <=> code[k][t] = "Used"
    PROVE  CodeFits(k, t)'
BY DEF CodeFits

(* Bons that only move between draft and submitted stand for the same      *)
(* tanks as before.                                                        *)
LEMMA BonsStill ==
    ASSUME NEW k \in Booking, NEW t \in Tank, DOMAIN bon' = DOMAIN bon,
           \A b \in DOMAIN bon : /\ bon'[b].booking = bon[b].booking
                                 /\ bon'[b].tanks = bon[b].tanks
                                 /\ bon'[b].ds = "Voided" <=> bon[b].ds = "Voided"
    PROVE  LiveBons(k, t)' = LiveBons(k, t)
BY DEF LiveBons

(* A booking's step issues or cancels codes; a consumed one it leaves.     *)
LEMMA BookingKeepsCodes ==
    ASSUME TypeOK, CodesFit, NEW j \in Booking, BookingStep(j) PROVE CodesFit'
<1>1. bon' = bon
  BY DEF BookingStep, CreateBooking, ConfirmBooking, RevertBooking, VoidBooking,
         MarkPaid, MarkUnpaid, ReopenPayment
<1>2. ASSUME NEW k \in Booking, NEW t \in Tank
      PROVE  code'[k][t] = "Used" <=> code[k][t] = "Used"
  <2>1. CASE code' = code
    BY <2>1
  <2>2. CASE ConfirmBooking(j)
    BY <2>2 DEF ConfirmBooking, TypeOK
  <2>3. CASE VoidBooking(j)
    BY <2>3 DEF VoidBooking, TypeOK
  <2>4. QED
    BY <2>1, <2>2, <2>3
       DEF BookingStep, CreateBooking, RevertBooking, MarkPaid, MarkUnpaid, ReopenPayment
<1>3. ASSUME NEW k \in Booking, NEW t \in Tank PROVE CodeFits(k, t)'
  <2>1. LiveBons(k, t)' = LiveBons(k, t)
    BY <1>1 DEF LiveBons
  <2>2. QED
    BY <1>1, <1>2, <2>1, FitsStill DEF CodesFit
<1>4. QED
  BY <1>3 DEF CodesFit

(* A new bon consumes codes that were Active, hence on no live bon.        *)
LEMMA IssueConsumes ==
    ASSUME TypeOK, CodesFit, NEW j \in Booking, NEW S \in SUBSET Tank, NEW r \in BonRec,
           \A t \in S : code[j][t] = "Active", code' = Consumed(j, S),
           bon' = Append(bon, r), r.booking = j, r.tanks = S, r.ds = "Submitted"
    PROVE  CodesFit'
<1> DEFINE b == Len(bon) + 1
<1>1. /\ DOMAIN bon' = DOMAIN bon \cup {b} /\ b \notin DOMAIN bon /\ bon'[b] = r
      /\ \A c \in DOMAIN bon : bon'[c] = bon[c]
  BY DEF TypeOK
<1>2. SUFFICES ASSUME NEW k \in Booking, NEW t \in Tank PROVE CodeFits(k, t)'
  BY DEF CodesFit
<1>3. CodeFits(k, t)
  BY DEF CodesFit
<1>4. CASE k = j /\ t \in S
  <2>1. code[k][t] # "Used" /\ code'[k][t] = "Used"
    BY <1>4 DEF Consumed, TypeOK
  <2>2. LiveBons(k, t)' = {b}
    BY <1>1, <1>3, <1>4, <2>1 DEF CodeFits, LiveBons
  <2>3. QED
    BY <1>1, <2>1, <2>2 DEF CodeFits
<1>5. CASE ~(k = j /\ t \in S)
  <2>1. code'[k][t] = code[k][t]
    BY <1>5 DEF Consumed, TypeOK
  <2>2. LiveBons(k, t)' = LiveBons(k, t)
    BY <1>1, <1>5 DEF LiveBons
  <2>3. QED
    BY <1>1, <1>3, <2>1, <2>2, FitsStill
<1>6. QED
  BY <1>4, <1>5

(* A voided bon gives back the codes of its tanks, which stood on it alone. *)
LEMMA VoidFrees ==
    ASSUME TypeOK, CodesFit, NEW b \in DOMAIN bon, bon[b].ds = "Draft",
           code' = Freed(bon[b].booking, bon[b].tanks), bon' = [bon EXCEPT ![b].ds = "Voided"]
    PROVE  CodesFit'
<1>1. bon[b] \in BonRec /\ bon \in Seq(BonRec)
  BY DEF TypeOK
<1>2. /\ DOMAIN bon' = DOMAIN bon
      /\ \A c \in DOMAIN bon : /\ bon'[c].booking = bon[c].booking
                               /\ bon'[c].tanks = bon[c].tanks
                               /\ bon'[c].ds = IF c = b THEN "Voided" ELSE bon[c].ds
  BY <1>1 DEF BonRec
<1>3. SUFFICES ASSUME NEW k \in Booking, NEW t \in Tank PROVE CodeFits(k, t)'
  BY DEF CodesFit
<1>4. CodeFits(k, t)
  BY DEF CodesFit
<1>5. CASE k = bon[b].booking /\ t \in bon[b].tanks
  <2>1. b \in LiveBons(k, t)
    BY <1>5 DEF LiveBons
  <2>2. LiveBons(k, t) = {b} /\ code[k][t] = "Used"
    BY <1>4, <2>1 DEF CodeFits
  <2>3. LiveBons(k, t)' = {}
    BY <1>2, <2>2 DEF LiveBons
  <2>4. code'[k][t] = "Active"
    BY <1>5, <2>2 DEF Freed, TypeOK
  <2>5. QED
    BY <2>3, <2>4 DEF CodeFits
<1>6. CASE ~(k = bon[b].booking /\ t \in bon[b].tanks)
  <2>1. code'[k][t] = code[k][t]
    BY <1>6 DEF Freed, TypeOK
  <2>2. LiveBons(k, t)' = LiveBons(k, t)
    BY <1>2, <1>6 DEF LiveBons
  <2>3. QED
    BY <1>2, <1>4, <2>1, <2>2, FitsStill
<1>7. QED
  BY <1>5, <1>6

(* Saving a draft with other rows consumes the codes placed on it and      *)
(* gives back those struck off.                                            *)
LEMMA EditRecodes ==
    ASSUME TypeOK, CodesFit, NEW b \in DOMAIN bon, NEW S \in SUBSET Tank, EditGuard(b, S),
           code' = Recoded(bon[b].booking, bon[b].tanks, S), bon' = [bon EXCEPT ![b].tanks = S]
    PROVE  CodesFit'
<1> DEFINE j == bon[b].booking
           was == bon[b].tanks
<1>1. bon[b] \in BonRec /\ bon \in Seq(BonRec) /\ j \in Booking
  BY BonType DEF TypeOK
<1>2. /\ DOMAIN bon' = DOMAIN bon
      /\ \A c \in DOMAIN bon : /\ bon'[c].booking = bon[c].booking
                               /\ bon'[c].tanks = IF c = b THEN S ELSE bon[c].tanks
                               /\ bon'[c].ds = bon[c].ds
  BY <1>1 DEF BonRec
<1>3. SUFFICES ASSUME NEW k \in Booking, NEW t \in Tank PROVE CodeFits(k, t)'
  BY DEF CodesFit
<1>4. CodeFits(k, t)
  BY DEF CodesFit
<1>5. bon[b].ds = "Draft" /\ \A u \in S \ was : code[j][u] = "Active"
  BY DEF EditGuard
<1>6. CASE k = j /\ t \in S \ was
  <2>1. code[k][t] = "Active" /\ code'[k][t] = "Used"
    BY <1>5, <1>6 DEF Recoded, TypeOK
  <2>2. LiveBons(k, t)' = {b}
    BY <1>2, <1>4, <1>5, <1>6, <2>1 DEF CodeFits, LiveBons
  <2>3. QED
    BY <1>2, <2>1, <2>2 DEF CodeFits
<1>7. CASE k = j /\ t \in was \ S
  <2>1. b \in LiveBons(k, t)
    BY <1>5, <1>7 DEF LiveBons
  <2>2. LiveBons(k, t) = {b} /\ code[k][t] = "Used"
    BY <1>4, <2>1 DEF CodeFits
  <2>3. LiveBons(k, t)' = {}
    BY <1>2, <1>7, <2>2 DEF LiveBons
  <2>4. code'[k][t] = "Active"
    BY <1>7, <2>2 DEF Recoded, TypeOK
  <2>5. QED
    BY <2>3, <2>4 DEF CodeFits
<1>8. CASE k # j \/ (t \in S <=> t \in was)
  <2>1. code'[k][t] = code[k][t]
    BY <1>8 DEF Recoded, TypeOK
  <2>2. LiveBons(k, t)' = LiveBons(k, t)
    BY <1>2, <1>8 DEF LiveBons
  <2>3. QED
    BY <1>2, <1>4, <2>1, <2>2, FitsStill
<1>9. QED
  BY <1>6, <1>7, <1>8

(* Neither codes nor the standing of any bon changes.                      *)
LEMMA CodesKept ==
    ASSUME CodesFit, code' = code, DOMAIN bon' = DOMAIN bon,
           \A b \in DOMAIN bon : /\ bon'[b].booking = bon[b].booking
                                 /\ bon'[b].tanks = bon[b].tanks
                                 /\ bon'[b].ds = "Voided" <=> bon[b].ds = "Voided"
    PROVE  CodesFit'
BY BonsStill, FitsStill DEF CodesFit

(* refresh_completion touches the badge alone.                             *)
LEMMA RefreshKeepsCodes ==
    ASSUME TypeOK, CodesFit, NEW b, NEW es, bon' = RefreshedBons(b, es), code' = code PROVE CodesFit'
<1>1. bon \in Seq(BonRec)
  BY DEF TypeOK
<1>2. /\ DOMAIN bon' = DOMAIN bon
      /\ \A c \in DOMAIN bon : /\ bon'[c].booking = bon[c].booking
                               /\ bon'[c].tanks = bon[c].tanks
                               /\ bon'[c].ds = bon[c].ds
  BY <1>1 DEF RefreshedBons, BonRec
<1>3. QED
  BY <1>2, CodesKept

LEMMA BonStepKeepsCodes ==
    ASSUME TypeOK, CodesFit, BonStep PROVE CodesFit'
<1>1. ASSUME NEW k \in Booking, NEW S \in SUBSET Lines[k], IssueBongkar(k, S) \/ IssueMuat(k, S)
      PROVE  CodesFit'
  <2> DEFINE r(c) == [booking |-> k, tanks |-> S, ds |-> "Submitted", completed |-> c]
  <2>1. S \in SUBSET Tank
    BY DepotAssumption
  <2>2. \A t \in S : code[k][t] = "Active"
    BY <1>1 DEF IssueBongkar, IssueMuat, IssueGuard
  <2>3. PICK c \in BOOLEAN : bon' = Append(bon, r(c)) /\ code' = Consumed(k, S)
    BY <1>1 DEF IssueBongkar, IssueMuat
  <2>4. r(c) \in BonRec /\ r(c).booking = k /\ r(c).tanks = S /\ r(c).ds = "Submitted"
    BY <2>1 DEF BonRec
  <2>5. QED
    BY <2>1, <2>2, <2>3, <2>4, IssueConsumes
<1>2. ASSUME NEW b \in DOMAIN bon,
             ResubmitBongkar(b) \/ ResubmitMuat(b) \/ RevertBongkar(b) \/ RevertMuat(b)
      PROVE  CodesFit'
  <2>1. bon \in Seq(BonRec) /\ bon[b] \in BonRec /\ bon[b].ds # "Voided" /\ code' = code
    BY <1>2, BonType DEF TypeOK, ResubmitBongkar, ResubmitMuat, RevertBongkar, RevertMuat
  <2>2. PICK ds \in {"Draft", "Submitted"} : \E c :
           bon' = [bon EXCEPT ![b].ds = ds, ![b].completed = c]
    BY <1>2 DEF ResubmitBongkar, ResubmitMuat, RevertBongkar, RevertMuat
  <2>3. /\ DOMAIN bon' = DOMAIN bon
        /\ \A d \in DOMAIN bon : /\ bon'[d].booking = bon[d].booking
                                 /\ bon'[d].tanks = bon[d].tanks
                                 /\ bon'[d].ds = "Voided" <=> bon[d].ds = "Voided"
    BY <2>1, <2>2 DEF BonRec
  <2>4. QED
    BY <2>1, <2>3, CodesKept
<1>3. ASSUME NEW b \in DOMAIN bon, VoidBongkar(b) \/ VoidMuat(b) PROVE CodesFit'
  BY <1>3, VoidFrees DEF VoidBongkar, VoidMuat
<1>4. ASSUME NEW b \in DOMAIN bon, NEW S \in SUBSET Lines[bon[b].booking],
             EditBongkar(b, S) \/ EditMuat(b, S)
      PROVE  CodesFit'
  <2>1. S \in SUBSET Tank
    BY BonType, DepotAssumption
  <2>2. QED
    BY <1>4, <2>1, EditRecodes DEF EditBongkar, EditMuat
<1>5. QED
  BY <1>1, <1>2, <1>3, <1>4 DEF BonStep

(* Of the EIRs and the work orders only the badge comes back to a bon.     *)
LEMMA YardStepKeepsCodes ==
    ASSUME TypeOK, CodesFit, NEW t \in Tank, EIRStep(t) \/ WorkStep(t) PROVE CodesFit'
<1>1. CASE bon' = bon /\ code' = code
  BY <1>1, CodesKept
<1>2. CASE \E b, es : bon' = RefreshedBons(b, es) /\ code' = code
  BY <1>2, RefreshKeepsCodes
<1>3. ASSUME NEW i \in DOMAIN eir[t],
             \/ \E tick \in SUBSET WorkKind : SubmitEIRIn(t, i, tick)
             \/ RevertEIR(t, i) \/ VoidEIR(t, i) \/ DiscardEIR(t, i)
      PROVE  CodesFit'
  BY <1>1, <1>2, <1>3 DEF SubmitEIRIn, RevertEIR, VoidEIR, DiscardEIR, Settle
<1>4. ASSUME NEW i \in DOMAIN eir[t], StartEIR(t, i) \/ SubmitEIROut(t, i) PROVE CodesFit'
  BY <1>1, <1>4 DEF StartEIR, SubmitEIROut
<1>5. ASSUME WorkStep(t) PROVE CodesFit'
  BY <1>1, <1>5 DEF WorkStep, RaiseWork, MoveWork, CancelWork, WorkSaved
<1>6. QED
  BY <1>3, <1>4, <1>5 DEF EIRStep

(* One live bon in the sense of the invariant is one in that of its count. *)
LEMMA FitIsOne == CodesFit => CodeOnOneLiveBon
<1>1. SUFFICES ASSUME CodesFit, NEW k \in Booking, NEW t \in Tank
               PROVE  IF code[k][t] = "Used" THEN Cardinality(LiveBons(k, t)) = 1
                      ELSE LiveBons(k, t) = {}
  BY DEF CodeOnOneLiveBon, LiveBons
<1>2. \A b : Cardinality({b}) = 1
  BY FS_Singleton
<1>3. QED
  <2>1. CodeFits(k, t)
    BY <1>1 DEF CodesFit
  <2>2. CASE code[k][t] = "Used"
    BY <1>2, <2>1, <2>2 DEF CodeFits
  <2>3. CASE code[k][t] # "Used"
    BY <2>1, <2>3 DEF CodeFits
  <2>4. QED
    BY <2>2, <2>3

(* A consumed Booking Code stands on exactly one live bon, and a tank of a *)
(* live bon has its code consumed, through every issue, void, edit, revert *)
(* and resubmission of bons and bookings (_reconcile_codes,                *)
(* _release_codes, void_order).                                            *)
THEOREM CodesOnce == Spec => []CodeOnOneLiveBon
<1>1. Init => CodesFit
  BY DEF Init, CodesFit, CodeFits, LiveBons
<1>2. TypeOK /\ CodesFit /\ [Next]_vars => CodesFit'
  <2>1. SUFFICES ASSUME TypeOK, CodesFit, [Next]_vars PROVE CodesFit'
    OBVIOUS
  <2>2. ASSUME NEW k \in Booking, BookingStep(k) PROVE CodesFit'
    BY <2>1, <2>2, BookingKeepsCodes
  <2>3. ASSUME BonStep PROVE CodesFit'
    BY <2>1, <2>3, BonStepKeepsCodes
  <2>4. ASSUME NEW t \in Tank, EIRStep(t) \/ WorkStep(t) PROVE CodesFit'
    BY <2>1, <2>4, YardStepKeepsCodes
  <2>5. ASSUME UNCHANGED <<code, bon>> PROVE CodesFit'
    BY <2>1, <2>5, CodesKept
  <2>6. QED
    BY <2>1, <2>2, <2>3, <2>4, <2>5 DEF Next, ToggleEnforceAll, vars
<1>3. QED
  BY <1>1, <1>2, FitIsOne, TypeCorrect, PTL DEF Spec

-----------------------------------------------------------------------------
(* Draft EIRs.                                                             *)

(* No two drafts of type d among the EIRs es.                              *)
OneDraft(es, d) ==
    \A i, j \in DOMAIN es :
        /\ es[i].type = d /\ es[i].ds = "Draft"
        /\ es[j].type = d /\ es[j].ds = "Draft"
        => i = j

DraftsApart == \A t \in Tank, d \in Direction : OneDraft(eir[t], d)

(* fs are the EIRs es, rewritten, and none of them has become a draft.     *)
NoFresh(es, fs) ==
    /\ DOMAIN fs = DOMAIN es
    /\ \A i \in DOMAIN es : fs[i].type = es[i].type /\ (fs[i].ds = "Draft" => es[i].ds = "Draft")

LEMMA NoFreshKeeps ==
    ASSUME NEW es, NEW fs, NEW d, OneDraft(es, d), NoFresh(es, fs) PROVE OneDraft(fs, d)
BY DEF OneDraft, NoFresh

(* An EIR filed where no draft of its type is open.                        *)
LEMMA FiledKeeps ==
    ASSUME NEW es \in Seq(EIRRec), NEW e \in EIRRec, NEW d, OneDraft(es, d),
           e.type = d => \A i \in DOMAIN es : ~(es[i].type = d /\ es[i].ds = "Draft")
    PROVE  OneDraft(Append(es, e), d)
<1>1. /\ DOMAIN Append(es, e) = DOMAIN es \cup {Len(es) + 1}
      /\ \A i \in DOMAIN es : Append(es, e)[i] = es[i]
      /\ Append(es, e)[Len(es) + 1] = e
  OBVIOUS
<1> HIDE DEF EIRRec
<1>2. QED
  BY <1>1 DEF OneDraft

(* The newest of at most one draft is none only when there is none.        *)
LEMMA NewestDraft ==
    ASSUME TypeOK, NEW t \in Tank, NEW d, OneDraft(eir[t], d), Newest(Drafts(t, d)) = 0
    PROVE  Drafts(t, d) = {}
<1>1. SUFFICES ASSUME NEW i \in Drafts(t, d) PROVE FALSE
  OBVIOUS
<1>2. i \in Nat \ {0}
  <2>1. DOMAIN eir[t] = 1..Len(eir[t]) /\ Len(eir[t]) \in Nat
    BY PapersOf, SequenceShape
  <2>2. QED
    BY <1>1, <2>1 DEF Drafts
<1>3. Drafts(t, d) = {i}
  BY <1>1 DEF Drafts, OneDraft
<1>4. Newest({i}) = i
  BY <1>2 DEF Newest
<1>5. QED
  BY <1>2, <1>3, <1>4

-----------------------------------------------------------------------------
(* The booking desk.                                                       *)

LEMMA ProvisionedApart ==
    ASSUME TypeOK, NEW k \in Booking, NEW t \in Tank, NEW d, OneDraft(eir[t], d)
    PROVE  OneDraft(ProvisionedEIROut(k, t), d)
<1>1. eir[t] \in Seq(EIRRec) /\ \A i \in DOMAIN eir[t] : eir[t][i] \in EIRRec
  BY PapersOf
<1>2. ASSUME Newest(Drafts(t, "Out")) = 0
      PROVE  OneDraft(Append(eir[t], NewEIROut(k, t)), d)
  <2>1. NewEIROut(k, t) \in EIRRec /\ NewEIROut(k, t).type = "Out"
    BY NewEIROutType DEF NewEIROut
  <2>2. d = "Out" => Drafts(t, "Out") = {}
    BY <1>2, NewestDraft
  <2>3. QED
    BY <1>1, <2>1, <2>2, FiledKeeps DEF Drafts
<1>3. ASSUME NEW i PROVE OneDraft([eir[t] EXCEPT ![i].booking = k], d)
  <2>1. NoFresh(eir[t], [eir[t] EXCEPT ![i].booking = k])
    BY <1>1 DEF EIRRec, NoFresh
  <2>2. QED
    BY <2>1, NoFreshKeeps
<1>4. QED
  BY <1>2, <1>3 DEF ProvisionedEIROut

LEMMA WithdrawnApart ==
    ASSUME TypeOK, NEW k \in Booking, NEW t \in Tank
    PROVE  NoFresh(eir[t], WithdrawnEIROut(k, t))
<1>1. \A i \in DOMAIN eir[t] : eir[t][i] \in EIRRec
  BY PapersOf
<1>2. QED
  BY <1>1 DEF WithdrawnEIROut, NoFresh, EIRRec

LEMMA BookingKeepsApart ==
    ASSUME TypeOK, DraftsApart, NEW k \in Booking, BookingStep(k) PROVE DraftsApart'
<1>1. SUFFICES ASSUME NEW t \in Tank, NEW d \in Direction PROVE OneDraft(eir'[t], d)
  BY DEF DraftsApart
<1>2. OneDraft(eir[t], d)
  BY DEF DraftsApart
<1>3. \/ eir'[t] = eir[t]
      \/ eir'[t] = ProvisionedEIROut(k, t)
      \/ eir'[t] = WithdrawnEIROut(k, t)
  BY DEF BookingStep, CreateBooking, ConfirmBooking, RevertBooking, VoidBooking, MarkPaid,
         MarkUnpaid, ReopenPayment
<1>4. QED
  BY <1>2, <1>3, ProvisionedApart, WithdrawnApart, NoFreshKeeps

-----------------------------------------------------------------------------
(* The bon desk.                                                           *)

LEMMA ArrivalApart ==
    ASSUME TypeOK, NEW t \in Tank, NEW b \in Nat, NEW k \in Booking, NEW d, OneDraft(eir[t], d)
    PROVE  OneDraft(ArrivalEIR(t, b, k), d)
<1> DEFINE e == [type |-> "In", ds |-> "Draft", bon |-> b, booking |-> k,
                 started |-> FALSE, snap |-> "In_Depot", born |-> departures[t]]
<1>1. eir[t] \in Seq(EIRRec) /\ e \in EIRRec /\ e.type = "In"
  BY PapersOf DEF EIRRec, Direction, Status
<1>2. CASE ArrivalEIR(t, b, k) = eir[t]
  BY <1>2
<1>3. CASE Drafts(t, "In") = {} /\ ArrivalEIR(t, b, k) = Append(eir[t], e)
  <2>1. d = "In" => \A i \in DOMAIN eir[t] : ~(eir[t][i].type = d /\ eir[t][i].ds = "Draft")
    BY <1>3 DEF Drafts
  <2> HIDE DEF e
  <2>2. QED
    BY <1>1, <1>3, <2>1, FiledKeeps
<1>4. QED
  BY <1>2, <1>3 DEF ArrivalEIR

LEMMA AttachedApart ==
    ASSUME TypeOK, NEW t \in Tank, NEW b, NEW k PROVE NoFresh(eir[t], AttachedEIR(t, b, k))
<1>1. \A i \in DOMAIN eir[t] : eir[t][i] \in EIRRec
  BY PapersOf
<1>2. NoFresh(eir[t], eir[t])
  BY DEF NoFresh
<1>3. \A i : NoFresh(eir[t], [eir[t] EXCEPT ![i].bon = b, ![i].booking = k])
  BY <1>1 DEF NoFresh, EIRRec
<1>4. \A i : NoFresh(eir[t], [eir[t] EXCEPT ![i].bon = b])
  BY <1>1 DEF NoFresh, EIRRec
<1>5. QED
  BY <1>2, <1>3, <1>4 DEF AttachedEIR

LEMMA ReleasedApart ==
    ASSUME TypeOK, NEW t \in Tank, NEW b, NEW d PROVE NoFresh(eir[t], ReleasedEIR(t, b, d))
<1>1. \A i \in DOMAIN eir[t] : eir[t][i] \in EIRRec
  BY PapersOf
<1>2. ASSUME NEW e \in EIRRec, NEW next
      PROVE  /\ LetGo(e, b, d, next).type = e.type
             /\ LetGo(e, b, d, next).ds = "Draft" => e.ds = "Draft"
  <2>1. \/ LetGo(e, b, d, next) = e
        \/ LetGo(e, b, d, next) = [e EXCEPT !.bon = next, !.booking = bon[next].booking]
        \/ LetGo(e, b, d, next) = [e EXCEPT !.ds = "Void"]
        \/ LetGo(e, b, d, next) = [e EXCEPT !.bon = 0]
    BY DEF LetGo
  <2>2. QED
    BY <2>1 DEF EIRRec
<1>3. QED
  BY <1>1, <1>2 DEF ReleasedEIR, NoFresh

(* Of the bon's operations only an arrival files an EIR.                   *)
LEMMA BonKeepsApart ==
    ASSUME TypeOK, DraftsApart, BonStep PROVE DraftsApart'
<1>1. SUFFICES ASSUME NEW t \in Tank, NEW d \in Direction PROVE OneDraft(eir'[t], d)
  BY DEF DraftsApart
<1>2. OneDraft(eir[t], d)
  BY DEF DraftsApart
<1>3. ASSUME NEW b \in Nat, NEW k \in Booking, NEW S, Arrive(b, k, S) \/ Depart(b, k, S)
      PROVE  OneDraft(eir'[t], d)
  <2>1. \/ eir'[t] = eir[t] \/ eir'[t] = ArrivalEIR(t, b, k) \/ eir'[t] = AttachedEIR(t, b, k)
    BY <1>3 DEF Arrive, Depart
  <2>2. QED
    BY <1>2, <2>1, ArrivalApart, AttachedApart, NoFreshKeeps
<1>4. ASSUME NEW b, NEW c, eir'[t] = eir[t] \/ eir'[t] = ReleasedEIR(t, b, c)
      PROVE  OneDraft(eir'[t], d)
  BY <1>2, <1>4, ReleasedApart, NoFreshKeeps
<1>5. ASSUME NEW k \in Booking, NEW S, IssueBongkar(k, S) \/ IssueMuat(k, S)
      PROVE  OneDraft(eir'[t], d)
  <2>1. Len(bon) + 1 \in Nat
    BY DEF TypeOK
  <2>2. QED
    BY <1>3, <1>5, <2>1 DEF IssueBongkar, IssueMuat
<1>6. ASSUME NEW b \in DOMAIN bon, ResubmitBongkar(b) \/ ResubmitMuat(b)
      PROVE  OneDraft(eir'[t], d)
  <2>1. b \in Nat /\ bon[b].booking \in Booking
    BY BonType DEF TypeOK
  <2>2. QED
    BY <1>3, <1>6, <2>1 DEF ResubmitBongkar, ResubmitMuat
<1>7. ASSUME NEW b \in DOMAIN bon, NEW S,
             \/ RevertBongkar(b) \/ RevertMuat(b) \/ VoidBongkar(b) \/ VoidMuat(b)
             \/ EditBongkar(b, S) \/ EditMuat(b, S)
      PROVE  OneDraft(eir'[t], d)
  <2>1. ASSUME NEW T, UndoArrival(b, T) PROVE eir'[t] = eir[t] \/ eir'[t] = ReleasedEIR(t, b, "In")
    BY <2>1 DEF UndoArrival
  <2>2. CASE RevertBongkar(b) \/ RevertMuat(b) \/ EditMuat(b, S)
    <3>1. eir' = eir
      BY <2>2 DEF RevertBongkar, RevertMuat, EditMuat
    <3>2. QED
      BY <1>4, <3>1
  <2>3. CASE VoidMuat(b)
    <3>1. eir' = [u \in Tank |-> IF u \in bon[b].tanks THEN ReleasedEIR(u, b, "Out") ELSE eir[u]]
      BY <2>3 DEF VoidMuat
    <3>2. eir'[t] = eir[t] \/ eir'[t] = ReleasedEIR(t, b, "Out")
      BY <3>1
    <3>3. QED
      BY <1>4, <3>2
  <2>4. CASE VoidBongkar(b)
    <3>1. UndoArrival(b, bon[b].tanks)
      BY <2>4 DEF VoidBongkar
    <3>2. QED
      BY <1>4, <2>1, <3>1
  <2>5. CASE EditBongkar(b, S)
    <3>1. UndoArrival(b, bon[b].tanks \ S)
      BY <2>5 DEF EditBongkar
    <3>2. QED
      BY <1>4, <2>1, <3>1
  <2>6. QED
    BY <1>7, <2>2, <2>3, <2>4, <2>5
<1>8. QED
  BY <1>5, <1>6, <1>7 DEF BonStep

-----------------------------------------------------------------------------
(* The inspection desk.                                                    *)

(* Starting an EIR, or writing a state other than draft on it.             *)
LEMMA StartedApart ==
    ASSUME TypeOK, NEW t \in Tank, NEW i \in DOMAIN eir[t]
    PROVE  NoFresh(eir[t], [eir[t] EXCEPT ![i].started = TRUE])
<1>1. \A j \in DOMAIN eir[t] : eir[t][j] \in EIRRec
  BY PapersOf
<1>2. QED
  BY <1>1 DEF NoFresh, EIRRec

LEMMA ClosedApart ==
    ASSUME TypeOK, NEW t \in Tank, NEW i \in DOMAIN eir[t], NEW ds, ds # "Draft", NEW st
    PROVE  /\ NoFresh(eir[t], [eir[t] EXCEPT ![i].ds = ds])
           /\ NoFresh(eir[t], [eir[t] EXCEPT ![i].ds = ds, ![i].snap = st])
<1>1. \A j \in DOMAIN eir[t] : eir[t][j] \in EIRRec
  BY PapersOf
<1>2. NoFresh(eir[t], [eir[t] EXCEPT ![i].ds = ds])
  BY <1>1 DEF NoFresh, EIRRec
<1>3. NoFresh(eir[t], [eir[t] EXCEPT ![i].ds = ds, ![i].snap = st])
  BY <1>1 DEF NoFresh, EIRRec
<1>4. QED
  BY <1>2, <1>3

(* Reopened where no draft is open, it is the only one.                    *)
LEMMA ReopenedApart ==
    ASSUME TypeOK, NEW t \in Tank, NEW i \in DOMAIN eir[t], NEW d,
           \A j \in DOMAIN eir[t] : eir[t][j].ds # "Draft"
    PROVE  OneDraft([eir[t] EXCEPT ![i].ds = "Draft"], d)
<1> DEFINE es == [eir[t] EXCEPT ![i].ds = "Draft"]
<1>1. DOMAIN es = DOMAIN eir[t] /\ \A j \in DOMAIN eir[t] \ {i} : es[j] = eir[t][j]
  OBVIOUS
<1> HIDE DEF es
<1>2. OneDraft(es, d)
  BY <1>1 DEF OneDraft
<1>3. QED
  BY <1>2 DEF es

LEMMA EIRKeepsApart ==
    ASSUME TypeOK, DraftsApart, NEW t \in Tank, EIRStep(t) PROVE DraftsApart'
<1>1. PICK i \in DOMAIN eir[t] :
        \/ StartEIR(t, i)
        \/ \E tick \in SUBSET WorkKind : SubmitEIRIn(t, i, tick)
        \/ SubmitEIROut(t, i) \/ RevertEIR(t, i) \/ VoidEIR(t, i) \/ DiscardEIR(t, i)
  BY DEF EIRStep
<1>2. eir \in [Tank -> Seq(EIRRec)]
  BY DEF TypeOK
<1>3. SUFFICES ASSUME NEW u \in Tank, NEW d \in Direction PROVE OneDraft(eir'[u], d)
  BY DEF DraftsApart
<1>4. OneDraft(eir[u], d) /\ OneDraft(eir[t], d)
  BY DEF DraftsApart
<1>5. ASSUME NEW es, OneDraft(es, d), eir' = [eir EXCEPT ![t] = es] PROVE OneDraft(eir'[u], d)
  BY <1>2, <1>4, <1>5
<1>6. ASSUME NEW es, NoFresh(eir[t], es), eir' = [eir EXCEPT ![t] = es] PROVE OneDraft(eir'[u], d)
  BY <1>4, <1>5, <1>6, NoFreshKeeps
<1> DEFINE put(ds) == [eir[t] EXCEPT ![i].ds = ds]
           filled == [eir[t] EXCEPT ![i].ds = "Submitted", ![i].snap = status[t]]
           begun == [eir[t] EXCEPT ![i].started = TRUE]
<1>7. /\ NoFresh(eir[t], put("Submitted")) /\ NoFresh(eir[t], put("Void"))
      /\ NoFresh(eir[t], filled) /\ NoFresh(eir[t], begun)
  BY ClosedApart, StartedApart
<1>8. RevertEIR(t, i) => OneDraft(put("Draft"), d)
  BY ReopenedApart DEF RevertEIR
<1>9. /\ StartEIR(t, i) => eir' = [eir EXCEPT ![t] = begun]
      /\ \A tick : SubmitEIRIn(t, i, tick) => eir' = [eir EXCEPT ![t] = filled]
      /\ SubmitEIROut(t, i) => eir' = [eir EXCEPT ![t] = put("Submitted")]
      /\ RevertEIR(t, i) => eir' = [eir EXCEPT ![t] = put("Draft")]
      /\ VoidEIR(t, i) \/ DiscardEIR(t, i) => eir' = [eir EXCEPT ![t] = put("Void")]
  BY DEF StartEIR, SubmitEIRIn, SubmitEIROut, RevertEIR, VoidEIR, DiscardEIR, Settle
<1> HIDE DEF put, filled, begun
<1>10. QED
  BY <1>1, <1>5, <1>6, <1>7, <1>8, <1>9

(* No two drafts are at most one, counted.                                 *)
LEMMA ApartIsOne == DraftsApart => OneDraftEIR
<1>1. SUFFICES ASSUME DraftsApart, NEW t \in Tank, NEW d \in Direction
               PROVE  Cardinality(Drafts(t, d)) <= 1
  BY DEF OneDraftEIR
<1>2. OneDraft(eir[t], d)
  BY <1>1 DEF DraftsApart
<1>3. CASE Drafts(t, d) = {}
  <2>1. Cardinality({}) = 0
    BY FS_EmptySet
  <2>2. QED
    BY <1>3, <2>1
<1>4. ASSUME NEW i \in Drafts(t, d) PROVE Cardinality(Drafts(t, d)) <= 1
  <2>1. Drafts(t, d) = {i}
    BY <1>2, <1>4 DEF Drafts, OneDraft
  <2>2. Cardinality({i}) = 1
    BY FS_Singleton
  <2>3. QED
    BY <2>1, <2>2
<1>5. QED
  BY <1>3, <1>4

(* The field app opens "the" draft EIR of a tank: no tank ever has two of  *)
(* one type open, whatever bookings, bons and reverts raised or reopened   *)
(* them (eir.open_draft, provision_eirs_for_order_bongkar,                 *)
(* provision_eir_out_for_booking, the revert's draft check).               *)
THEOREM OneDraftOpen == Spec => []OneDraftEIR
<1>1. Init => DraftsApart
  BY DEF Init, DraftsApart, OneDraft
<1>2. TypeOK /\ DraftsApart /\ [Next]_vars => DraftsApart'
  <2>1. SUFFICES ASSUME TypeOK, DraftsApart, [Next]_vars PROVE DraftsApart'
    OBVIOUS
  <2>2. ASSUME NEW k \in Booking, BookingStep(k) PROVE DraftsApart'
    BY <2>1, <2>2, BookingKeepsApart
  <2>3. ASSUME BonStep PROVE DraftsApart'
    BY <2>1, <2>3, BonKeepsApart
  <2>4. ASSUME NEW t \in Tank, EIRStep(t) PROVE DraftsApart'
    BY <2>1, <2>4, EIRKeepsApart
  <2>5. ASSUME UNCHANGED eir PROVE DraftsApart'
    BY <2>1, <2>5 DEF DraftsApart
  <2>6. ASSUME NEW t \in Tank, WorkStep(t) PROVE DraftsApart'
    BY <2>5, <2>6 DEF WorkStep, RaiseWork, MoveWork, CancelWork, WorkSaved
  <2>7. QED
    BY <2>1, <2>2, <2>3, <2>4, <2>5, <2>6 DEF Next, ToggleEnforceAll, vars
<1>3. QED
  BY <1>1, <1>2, ApartIsOne, TypeCorrect, PTL DEF Spec

-----------------------------------------------------------------------------
(***************************************************************************)
(* Part two: what is cached from the papers is never stale.                *)
(* A tank's status, a bon's Completed badge, the reservation of a tank;    *)
(* and a departure never finds work it had to wait for.                    *)
(***************************************************************************)

-----------------------------------------------------------------------------
(* What the recomputation depends on                                       *)

(* Settling a settled tank changes nothing: a present tank stays present,  *)
(* so the same visit's orders are counted again.                           *)
LEMMA SettledTwice ==
    ASSUME NEW st, NEW g, NEW es, NEW ws
    PROVE  Settled(Settled(st, g, es, ws), g, es, ws) = Settled(st, g, es, ws)
BY DEF Settled, HasOpenOrders, LastDeparture, Present

(* An away tank is settled whatever its papers say.                        *)
LEMMA AwaySettled ==
    ASSUME NEW st, st \notin Present, NEW g, NEW es, NEW ws
    PROVE  Settled(st, g, es, ws) = st
BY DEF Settled

(* Do two tables of EIRs hold the tank alike?                              *)
SameHolding(es, fs) == \A since : HoldingEIR(es, since) = HoldingEIR(fs, since)

(* Do two gate logs record the same departures?                            *)
SameDepartures(g, h) ==
    {r.out : r \in {q \in g : q.st # "Cancelled"}} = {r.out : r \in {q \in h : q.st # "Cancelled"}}

(* The recomputation reads nothing else off the EIRs and the gate log.     *)
LEMMA SettledAlike ==
    ASSUME NEW st, NEW g, NEW h, NEW es, NEW fs, NEW ws, SameHolding(es, fs), SameDepartures(g, h)
    PROVE  Settled(st, g, es, ws) = Settled(st, h, fs, ws)
<1>1. LastDeparture(st, g) = LastDeparture(st, h)
  BY DEF LastDeparture, SameDepartures
<1>2. HoldingEIR(es, LastDeparture(st, g)) = HoldingEIR(fs, LastDeparture(st, h))
  BY <1>1 DEF SameHolding
<1> QED
  BY <1>1, <1>2 DEF Settled, HasOpenOrders

(* EIRs whose type and birth stand, and that are drafts as before unless   *)
(* they are EIR-Outs, hold the tank as before.                             *)
LEMMA HoldingKept ==
    ASSUME NEW es, NEW fs, DOMAIN fs = DOMAIN es,
           \A i \in DOMAIN es :
              /\ fs[i].type = es[i].type /\ fs[i].born = es[i].born
              /\ es[i].type = "In" => fs[i].ds = es[i].ds
    PROVE  SameHolding(es, fs)
BY DEF SameHolding, HoldingEIR

(* So does a table with one more EIR-Out.                                  *)
LEMMA HoldingFiled ==
    ASSUME NEW es \in Seq(EIRRec), NEW e \in EIRRec, e.type = "Out"
    PROVE  SameHolding(es, Append(es, e))
<1>1. /\ DOMAIN Append(es, e) = DOMAIN es \cup {Len(es) + 1}
      /\ \A i \in DOMAIN es : Append(es, e)[i] = es[i]
      /\ Append(es, e)[Len(es) + 1] = e
      /\ Len(es) + 1 \notin DOMAIN es
  OBVIOUS
<1> QED
  BY <1>1 DEF SameHolding, HoldingEIR

LEMMA SameHoldingSelf == ASSUME NEW es PROVE SameHolding(es, es)
BY DEF SameHolding

LEMMA SameDeparturesSelf == ASSUME NEW g PROVE SameDepartures(g, g)
BY DEF SameDepartures

-----------------------------------------------------------------------------
(* The two ways a step keeps a tank's status right: it leaves all that is  *)
(* read as it was, or it settles the tank over what it wrote.              *)

LEMMA StillAgrees ==
    ASSUME StatusAgrees, NEW t \in Tank, status'[t] = status[t], work'[t] = work[t],
           SameHolding(eir[t], eir'[t]), SameDepartures(gate[t], gate'[t])
    PROVE  status'[t] = Settled(status'[t], gate'[t], eir'[t], work'[t])
<1>1. status[t] = Settled(status[t], gate[t], eir[t], work[t])
  BY DEF StatusAgrees
<1>2. Settled(status[t], gate[t], eir[t], work[t]) = Settled(status[t], gate'[t], eir'[t], work[t])
  BY SettledAlike
<1> QED
  BY <1>1, <1>2

LEMMA NowAgrees ==
    ASSUME NEW t \in Tank, NEW st, NEW g, NEW es,
           status'[t] = Settled(st, g, es, work'[t]),
           SameHolding(es, eir'[t]), SameDepartures(g, gate'[t])
    PROVE  status'[t] = Settled(status'[t], gate'[t], eir'[t], work'[t])
<1>1. Settled(st, g, es, work'[t]) = Settled(st, gate'[t], eir'[t], work'[t])
  BY SettledAlike
<1> QED
  BY <1>1, SettledTwice

-----------------------------------------------------------------------------
(* The booking desk: it reserves and gives back tanks that are away, and   *)
(* writes EIR-Outs only.                                                   *)

LEMMA ProvisionedHolds ==
    ASSUME TypeOK, NEW k \in Booking, NEW t \in Tank
    PROVE  SameHolding(eir[t], ProvisionedEIROut(k, t))
<1>1. eir[t] \in Seq(EIRRec) /\ \A i \in DOMAIN eir[t] : eir[t][i] \in EIRRec
  BY PapersOf
<1>2. SameHolding(eir[t], Append(eir[t], NewEIROut(k, t)))
  <2>1. NewEIROut(k, t) \in EIRRec /\ NewEIROut(k, t).type = "Out"
    BY NewEIROutType DEF NewEIROut
  <2> QED
    BY <1>1, <2>1, HoldingFiled
<1>3. ASSUME NEW i PROVE SameHolding(eir[t], [eir[t] EXCEPT ![i].booking = k])
  <2>1. \A j \in DOMAIN eir[t] :
          LET e == [eir[t] EXCEPT ![i].booking = k][j]
          IN  e.type = eir[t][j].type /\ e.born = eir[t][j].born /\ e.ds = eir[t][j].ds
    BY <1>1 DEF EIRRec
  <2> QED
    BY <2>1, HoldingKept
<1> QED
  BY <1>2, <1>3, SameHoldingSelf DEF ProvisionedEIROut

LEMMA WithdrawnHolds ==
    ASSUME TypeOK, NEW k \in Booking, NEW t \in Tank
    PROVE  SameHolding(eir[t], WithdrawnEIROut(k, t))
<1>1. \A i \in DOMAIN eir[t] : eir[t][i] \in EIRRec
  BY PapersOf
<1>2. /\ DOMAIN WithdrawnEIROut(k, t) = DOMAIN eir[t]
      /\ \A i \in DOMAIN eir[t] :
           /\ WithdrawnEIROut(k, t)[i].type = eir[t][i].type
           /\ WithdrawnEIROut(k, t)[i].born = eir[t][i].born
           /\ eir[t][i].type = "In" => WithdrawnEIROut(k, t)[i].ds = eir[t][i].ds
  BY <1>1 DEF WithdrawnEIROut, EIRRec
<1> QED
  BY <1>2, HoldingKept

LEMMA BookingStepAgrees ==
    ASSUME TypeOK, StatusAgrees, NEW k \in Booking, BookingStep(k) PROVE StatusAgrees'
<1>1. SUFFICES ASSUME NEW t \in Tank
               PROVE  status'[t] = Settled(status'[t], gate'[t], eir'[t], work'[t])
  BY DEF StatusAgrees
<1>2. gate'[t] = gate[t] /\ work'[t] = work[t] /\ SameDepartures(gate[t], gate'[t])
  <2>1. gate' = gate /\ work' = work
    BY DEF BookingStep, CreateBooking, ConfirmBooking, RevertBooking, VoidBooking,
           MarkPaid, MarkUnpaid, ReopenPayment
  <2> QED
    BY <2>1, SameDeparturesSelf
<1>3. SameHolding(eir[t], eir'[t])
  <2>1. \/ eir'[t] = eir[t]
        \/ eir'[t] = ProvisionedEIROut(k, t)
        \/ eir'[t] = WithdrawnEIROut(k, t)
    BY DEF BookingStep, CreateBooking, ConfirmBooking, RevertBooking, VoidBooking,
           MarkPaid, MarkUnpaid, ReopenPayment
  <2> QED
    BY <2>1, SameHoldingSelf, ProvisionedHolds, WithdrawnHolds
<1>4. status'[t] = status[t] \/ status'[t] \notin Present
  BY DEF BookingStep, CreateBooking, ConfirmBooking, RevertBooking, VoidBooking,
         MarkPaid, MarkUnpaid, ReopenPayment,
         PreArrival, Released, Present
<1> QED
  BY <1>2, <1>3, <1>4, StillAgrees, AwaySettled

-----------------------------------------------------------------------------
(* The bon desk                                                            *)

LEMMA ArriveAgrees ==
    ASSUME TypeOK, StatusAgrees, NEW b, NEW k, NEW S, Arrive(b, k, S), UNCHANGED work
    PROVE  StatusAgrees'
<1>1. SUFFICES ASSUME NEW t \in Tank
               PROVE  status'[t] = Settled(status'[t], gate'[t], eir'[t], work'[t])
  BY DEF StatusAgrees
<1>2. CASE t \in S
  <2>1. /\ gate'[t] = ArrivalGate(t, b) /\ eir'[t] = ArrivalEIR(t, b, k)
        /\ status'[t] = Settled("In_Depot", ArrivalGate(t, b), ArrivalEIR(t, b, k), work'[t])
    BY <1>2 DEF Arrive
  <2> QED
    BY <2>1, NowAgrees, SameHoldingSelf, SameDeparturesSelf
<1>3. CASE t \notin S
  <2>1. /\ gate'[t] = gate[t] /\ eir'[t] = eir[t] /\ status'[t] = status[t]
    BY <1>3 DEF Arrive
  <2> QED
    BY <2>1, StillAgrees, SameHoldingSelf, SameDeparturesSelf
<1> QED
  BY <1>2, <1>3

LEMMA DepartAgrees ==
    ASSUME TypeOK, StatusAgrees, NEW b, NEW k, NEW S, Depart(b, k, S), UNCHANGED work
    PROVE  StatusAgrees'
<1>1. SUFFICES ASSUME NEW t \in Tank
               PROVE  status'[t] = Settled(status'[t], gate'[t], eir'[t], work'[t])
  BY DEF StatusAgrees
<1>2. CASE t \in S
  <2>1. status'[t] = "Gate_Out" /\ "Gate_Out" \notin Present
    BY <1>2 DEF Depart, Present
  <2> QED
    BY <2>1, AwaySettled
<1>3. CASE t \notin S
  <2>1. /\ gate'[t] = gate[t] /\ eir'[t] = eir[t] /\ status'[t] = status[t]
    BY <1>3 DEF Depart
  <2> QED
    BY <2>1, StillAgrees, SameHoldingSelf, SameDeparturesSelf
<1> QED
  BY <1>2, <1>3

(* Letting go of the EIR-Outs of a bon holds no tank and frees none.       *)
LEMMA ReleasedOutHolds ==
    ASSUME TypeOK, NEW t \in Tank, NEW b PROVE SameHolding(eir[t], ReleasedEIR(t, b, "Out"))
<1>1. \A i \in DOMAIN eir[t] : eir[t][i] \in EIRRec
  BY PapersOf
<1>2. ASSUME NEW e \in EIRRec, NEW next
      PROVE  /\ LetGo(e, b, "Out", next).type = e.type
             /\ LetGo(e, b, "Out", next).born = e.born
             /\ e.type = "In" => LetGo(e, b, "Out", next).ds = e.ds
  <2>1. CASE ~(e.type = "Out" /\ e.bon = b)
    BY <2>1 DEF LetGo
  <2>2. CASE e.type = "Out" /\ e.bon = b
    <3>1. \/ LetGo(e, b, "Out", next) = [e EXCEPT !.bon = next, !.booking = bon[next].booking]
          \/ LetGo(e, b, "Out", next) = [e EXCEPT !.bon = 0]
          \/ LetGo(e, b, "Out", next) = e
      BY <2>2 DEF LetGo
    <3> QED
      BY <2>2, <3>1 DEF EIRRec
  <2> QED
    BY <2>1, <2>2
<1>3. /\ DOMAIN ReleasedEIR(t, b, "Out") = DOMAIN eir[t]
      /\ \A i \in DOMAIN eir[t] :
           /\ ReleasedEIR(t, b, "Out")[i].type = eir[t][i].type
           /\ ReleasedEIR(t, b, "Out")[i].born = eir[t][i].born
           /\ eir[t][i].type = "In" => ReleasedEIR(t, b, "Out")[i].ds = eir[t][i].ds
  BY <1>1, <1>2 DEF ReleasedEIR
<1> QED
  BY <1>3, HoldingKept

(* Taking a departure back, with or without letting its EIR-Outs go.       *)
LEMMA ReversalAgrees ==
    ASSUME TypeOK, StatusAgrees, NEW b \in DOMAIN bon, RevertMuat(b) \/ VoidMuat(b)
    PROVE  StatusAgrees'
<1>1. SUFFICES ASSUME NEW t \in Tank
               PROVE  status'[t] = Settled(status'[t], gate'[t], eir'[t], work'[t])
  BY DEF StatusAgrees
<1>2. work'[t] = work[t] /\ SameHolding(eir[t], eir'[t])
  <2>1. eir'[t] = eir[t] \/ eir'[t] = ReleasedEIR(t, b, "Out")
    BY DEF RevertMuat, VoidMuat
  <2> QED
    BY <2>1, SameHoldingSelf, ReleasedOutHolds DEF RevertMuat, VoidMuat
<1>3. CASE Reversible(b, t)
  <2>1. /\ gate'[t] = ReversedGate(b, t)
        /\ status'[t] = Settled("Available", ReversedGate(b, t), eir[t], work'[t])
    BY <1>2, <1>3 DEF RevertMuat, VoidMuat
  <2> QED
    BY <1>2, <2>1, NowAgrees, SameDeparturesSelf
<1>4. CASE ~Reversible(b, t)
  <2>1. gate'[t] = gate[t] /\ status'[t] = status[t]
    BY <1>4 DEF RevertMuat, VoidMuat
  <2> QED
    BY <1>2, <2>1, StillAgrees, SameDeparturesSelf
<1> QED
  BY <1>3, <1>4

(* Undoing an arrival sends its own tank away and settles the others.      *)
LEMMA UndoArrivalAgrees ==
    ASSUME TypeOK, StatusAgrees, NEW b \in DOMAIN bon, NEW S, UndoArrival(b, S)
    PROVE  StatusAgrees'
<1>1. SUFFICES ASSUME NEW t \in Tank
               PROVE  status'[t] = Settled(status'[t], gate'[t], eir'[t], work'[t])
  BY DEF StatusAgrees
<1>2. CASE t \in S /\ ArrivedOn(b, t)
  <2>1. status'[t] \in {"Booked", "Gate_Out"}
    BY <1>2 DEF UndoArrival, RolledBack
  <2> QED
    BY <2>1, AwaySettled DEF Present
<1>3. CASE t \in S /\ ~ArrivedOn(b, t)
  <2>1. ReleasedWork(t, b) = work[t]
    BY <1>3, PapersOf DEF ReleasedWork
  <2>2. /\ gate'[t] = ReleasedGate(t, b) /\ eir'[t] = ReleasedEIR(t, b, "In") /\ work'[t] = work[t]
        /\ status'[t] = Settled(status[t], ReleasedGate(t, b), ReleasedEIR(t, b, "In"), work[t])
    BY <1>3, <2>1 DEF UndoArrival, RolledBack
  <2> QED
    BY <2>2, NowAgrees, SameHoldingSelf, SameDeparturesSelf
<1>4. CASE t \notin S
  <2>1. gate'[t] = gate[t] /\ eir'[t] = eir[t] /\ work'[t] = work[t] /\ status'[t] = status[t]
    BY <1>4 DEF UndoArrival
  <2> QED
    BY <2>1, StillAgrees, SameHoldingSelf, SameDeparturesSelf
<1> QED
  BY <1>2, <1>3, <1>4

LEMMA BonStepAgrees ==
    ASSUME TypeOK, StatusAgrees, BonStep PROVE StatusAgrees'
<1>1. ASSUME NEW k \in Booking, NEW S, IssueBongkar(k, S) \/ IssueMuat(k, S) PROVE StatusAgrees'
  BY <1>1, ArriveAgrees, DepartAgrees DEF IssueBongkar, IssueMuat
<1>2. ASSUME NEW b \in DOMAIN bon, ResubmitBongkar(b) \/ ResubmitMuat(b) PROVE StatusAgrees'
  BY <1>2, ArriveAgrees, DepartAgrees DEF ResubmitBongkar, ResubmitMuat
<1>3. ASSUME NEW b \in DOMAIN bon, NEW S, RevertBongkar(b) \/ EditMuat(b, S) PROVE StatusAgrees'
  BY <1>3 DEF RevertBongkar, EditMuat, StatusAgrees
<1>4. ASSUME NEW b \in DOMAIN bon, NEW S, VoidBongkar(b) \/ EditBongkar(b, S) PROVE StatusAgrees'
  BY <1>4, UndoArrivalAgrees DEF VoidBongkar, EditBongkar
<1>5. CASE \E k \in Booking : \E S \in SUBSET Lines[k] : IssueBongkar(k, S) \/ IssueMuat(k, S)
  BY <1>1, <1>5
<1> QED
  BY <1>2, <1>3, <1>4, <1>5, ReversalAgrees DEF BonStep

-----------------------------------------------------------------------------
(* The inspection desk and the work orders                                 *)

(* Settling one tank leaves the others as they were.                       *)
LEMMA SettleAgrees ==
    ASSUME TypeOK, StatusAgrees, NEW t \in Tank, NEW st, NEW es, NEW ws, NEW b,
           Settle(t, st, es, ws, b), UNCHANGED gate
    PROVE  StatusAgrees'
<1>1. SUFFICES ASSUME NEW u \in Tank
               PROVE  status'[u] = Settled(status'[u], gate'[u], eir'[u], work'[u])
  BY DEF StatusAgrees
<1>2. CASE u = t
  <2>1. eir'[t] = es /\ work'[t] = ws /\ status'[t] = Settled(st, gate[t], es, ws)
    BY DEF Settle, TypeOK
  <2> QED
    BY <1>2, <2>1, NowAgrees, SameHoldingSelf, SameDeparturesSelf
<1>3. CASE u # t
  <2>1. eir'[u] = eir[u] /\ work'[u] = work[u] /\ status'[u] = status[u]
    BY <1>3 DEF Settle, TypeOK
  <2> QED
    BY <2>1, StillAgrees, SameHoldingSelf, SameDeparturesSelf
<1> QED
  BY <1>2, <1>3

(* An EIR-Out that changes hands holds no tank.                            *)
LEMMA EIROutHolds ==
    ASSUME TypeOK, NEW t \in Tank, NEW i \in DOMAIN eir[t], eir[t][i].type # "In", NEW ds
    PROVE  SameHolding(eir[t], [eir[t] EXCEPT ![i].ds = ds])
<1>1. \A j \in DOMAIN eir[t] : eir[t][j] \in EIRRec
  BY PapersOf
<1> DEFINE es == [eir[t] EXCEPT ![i].ds = ds]
<1>2. DOMAIN es = DOMAIN eir[t] /\ \A j \in DOMAIN eir[t] :
        /\ es[j].type = eir[t][j].type /\ es[j].born = eir[t][j].born
        /\ eir[t][j].type = "In" => es[j].ds = eir[t][j].ds
  BY <1>1 DEF EIRRec
<1> HIDE DEF es
<1>3. SameHolding(eir[t], es)
  BY <1>2, HoldingKept
<1> QED
  BY <1>3 DEF es

LEMMA StartedHolds ==
    ASSUME TypeOK, NEW t \in Tank, NEW i \in DOMAIN eir[t]
    PROVE  SameHolding(eir[t], [eir[t] EXCEPT ![i].started = TRUE])
<1>1. \A j \in DOMAIN eir[t] : eir[t][j] \in EIRRec
  BY PapersOf
<1> DEFINE es == [eir[t] EXCEPT ![i].started = TRUE]
<1>2. DOMAIN es = DOMAIN eir[t] /\ \A j \in DOMAIN eir[t] :
        es[j].type = eir[t][j].type /\ es[j].born = eir[t][j].born /\ es[j].ds = eir[t][j].ds
  BY <1>1 DEF EIRRec
<1> HIDE DEF es
<1>3. SameHolding(eir[t], es)
  BY <1>2, HoldingKept
<1> QED
  BY <1>3 DEF es

(* Linking an EIR-Out to a departure, or unlinking it, moves no departure. *)
LEMMA DeparturesKept ==
    ASSUME NEW g, NEW h,
           \A r \in g : \E q \in h : q.out = r.out /\ q.st = r.st,
           \A q \in h : \E r \in g : q.out = r.out /\ q.st = r.st
    PROVE  SameDepartures(g, h)
<1> DEFINE outs(x) == {r.out : r \in {q \in x : q.st # "Cancelled"}}
<1>1. ASSUME NEW x, NEW y, \A r \in x : \E q \in y : q.out = r.out /\ q.st = r.st
      PROVE  outs(x) \subseteq outs(y)
  BY <1>1
<1>2. outs(g) \subseteq outs(h) /\ outs(h) \subseteq outs(g)
  <2>1. \A q \in h : \E r \in g : r.out = q.out /\ r.st = q.st
    OBVIOUS
  <2> HIDE DEF outs
  <2> QED
    BY <1>1, <2>1
<1> QED
  BY <1>2 DEF SameDepartures

LEMMA UnlinkedDepartures ==
    ASSUME TypeOK, NEW t \in Tank, NEW i PROVE SameDepartures(gate[t], Unlinked(t, i))
<1> DEFINE u(r) == IF r.eout = i THEN [r EXCEPT !.eout = 0] ELSE r
<1>1. ASSUME NEW r \in gate[t] PROVE u(r).out = r.out /\ u(r).st = r.st
  <2>1. r \in GateRec
    BY PapersOf
  <2> QED
    BY <2>1 DEF GateRec
<1>2. Unlinked(t, i) = {u(r) : r \in gate[t]}
  BY DEF Unlinked
<1> HIDE DEF u
<1>3. \A r \in gate[t] : \E q \in Unlinked(t, i) : q.out = r.out /\ q.st = r.st
  BY <1>1, <1>2
<1>4. \A q \in Unlinked(t, i) : \E r \in gate[t] : q.out = r.out /\ q.st = r.st
  BY <1>1, <1>2
<1> QED
  BY <1>3, <1>4, DeparturesKept

LEMMA LinkedDepartures ==
    ASSUME TypeOK, NEW t \in Tank, NEW i \in DOMAIN eir[t], SubmitEIROut(t, i)
    PROVE  SameDepartures(gate[t], gate'[t])
<1> DEFINE b == eir[t][i].bon
           u(r) == IF b # 0 /\ r.muat = b /\ r.eout = 0 THEN [r EXCEPT !.eout = i] ELSE r
<1>1. ASSUME NEW r \in gate[t] PROVE u(r).out = r.out /\ u(r).st = r.st
  <2>1. r \in GateRec
    BY PapersOf
  <2> QED
    BY <2>1 DEF GateRec
<1>2. gate'[t] = {u(r) : r \in gate[t]}
  BY DEF SubmitEIROut, TypeOK
<1> HIDE DEF u
<1>3. \A r \in gate[t] : \E q \in gate'[t] : q.out = r.out /\ q.st = r.st
  BY <1>1, <1>2
<1>4. \A q \in gate'[t] : \E r \in gate[t] : q.out = r.out /\ q.st = r.st
  BY <1>1, <1>2
<1> QED
  BY <1>3, <1>4, DeparturesKept

(* One tank's EIR-Outs and links change, its status is left or settled.    *)
LEMMA OneTankAgrees ==
    ASSUME TypeOK, StatusAgrees, NEW t \in Tank, UNCHANGED work,
           SameHolding(eir[t], eir'[t]), SameDepartures(gate[t], gate'[t]),
           \/ status'[t] = status[t]
           \/ status'[t] = Settled(status[t], gate[t], eir'[t], work[t]),
           \A u \in Tank \ {t} : status'[u] = status[u] /\ eir'[u] = eir[u] /\ gate'[u] = gate[u]
    PROVE  StatusAgrees'
<1>1. SUFFICES ASSUME NEW u \in Tank
               PROVE  status'[u] = Settled(status'[u], gate'[u], eir'[u], work'[u])
  BY DEF StatusAgrees
<1>2. CASE u = t
  BY <1>2, StillAgrees, NowAgrees, SameHoldingSelf
<1>3. CASE u # t
  BY <1>3, StillAgrees, SameHoldingSelf, SameDeparturesSelf
<1> QED
  BY <1>2, <1>3

LEMMA EIRStepAgrees ==
    ASSUME TypeOK, StatusAgrees, NEW t \in Tank, EIRStep(t) PROVE StatusAgrees'
<1>1. PICK i \in DOMAIN eir[t] :
        \/ StartEIR(t, i)
        \/ \E tick \in SUBSET WorkKind : SubmitEIRIn(t, i, tick)
        \/ SubmitEIROut(t, i) \/ RevertEIR(t, i) \/ VoidEIR(t, i) \/ DiscardEIR(t, i)
  BY DEF EIRStep
<1>2. CASE StartEIR(t, i)
  <2>1. eir'[t] = [eir[t] EXCEPT ![i].started = TRUE] /\ UNCHANGED <<status, gate, work>>
    BY <1>2 DEF StartEIR, TypeOK
  <2>2. \A u \in Tank \ {t} : eir'[u] = eir[u]
    BY <1>2 DEF StartEIR, TypeOK
  <2> QED
    BY <2>1, <2>2, StartedHolds, SameDeparturesSelf, OneTankAgrees
<1>3. CASE \E tick \in SUBSET WorkKind : SubmitEIRIn(t, i, tick)
  BY <1>3, SettleAgrees DEF SubmitEIRIn
<1>4. CASE SubmitEIROut(t, i)
  <2>1. /\ eir'[t] = [eir[t] EXCEPT ![i].ds = "Submitted"] /\ eir[t][i].type # "In"
        /\ UNCHANGED <<status, work>>
        /\ \A u \in Tank \ {t} : eir'[u] = eir[u] /\ gate'[u] = gate[u]
    BY <1>4 DEF SubmitEIROut, TypeOK
  <2>2. SameHolding(eir[t], eir'[t]) /\ SameDepartures(gate[t], gate'[t])
    BY <1>4, <2>1, EIROutHolds, LinkedDepartures
  <2> QED
    BY <2>1, <2>2, OneTankAgrees
<1>5. CASE (RevertEIR(t, i) \/ VoidEIR(t, i)) /\ eir[t][i].type = "In"
  BY <1>5, SettleAgrees DEF RevertEIR, VoidEIR
<1>6. CASE (RevertEIR(t, i) \/ VoidEIR(t, i)) /\ eir[t][i].type # "In"
  <2>1. PICK ds : eir' = [eir EXCEPT ![t][i].ds = ds]
    BY <1>6 DEF RevertEIR, VoidEIR
  <2>2. /\ eir'[t] = [eir[t] EXCEPT ![i].ds = ds] /\ gate'[t] = Unlinked(t, i)
        /\ \A u \in Tank \ {t} : eir'[u] = eir[u] /\ gate'[u] = gate[u]
    BY <1>6, <2>1 DEF RevertEIR, VoidEIR, TypeOK
  <2>3. /\ UNCHANGED work
        /\ \/ status'[t] = status[t]
           \/ status'[t] = Settled(status[t], gate[t], eir'[t], work[t])
        /\ \A u \in Tank \ {t} : status'[u] = status[u]
    BY <1>6 DEF RevertEIR, VoidEIR, TypeOK
  <2>4. SameHolding(eir[t], eir'[t]) /\ SameDepartures(gate[t], gate'[t])
    BY <1>6, <2>2, EIROutHolds, UnlinkedDepartures
  <2> QED
    BY <2>2, <2>3, <2>4, OneTankAgrees
<1>7. CASE DiscardEIR(t, i)
  BY <1>7, SettleAgrees DEF DiscardEIR
<1> QED
  BY <1>1, <1>2, <1>3, <1>4, <1>5, <1>6, <1>7

LEMMA WorkStepAgrees ==
    ASSUME TypeOK, StatusAgrees, NEW t \in Tank, WorkStep(t) PROVE StatusAgrees'
<1>1. PICK ws : WorkSaved(t, ws)
  BY DEF WorkStep, RaiseWork, MoveWork, CancelWork
<1>2. SUFFICES ASSUME NEW u \in Tank
               PROVE  status'[u] = Settled(status'[u], gate'[u], eir'[u], work'[u])
  BY DEF StatusAgrees
<1>3. CASE u = t
  <2>1. /\ work'[t] = ws /\ status'[t] = Settled(status[t], gate[t], eir[t], ws)
        /\ UNCHANGED <<gate, eir>>
    BY <1>1 DEF WorkSaved, TypeOK
  <2> QED
    BY <1>3, <2>1, SettledTwice
<1>4. CASE u # t
  <2>1. work'[u] = work[u] /\ status'[u] = status[u] /\ UNCHANGED <<gate, eir>>
    BY <1>1, <1>4 DEF WorkSaved, TypeOK
  <2> QED
    BY <2>1, StillAgrees, SameHoldingSelf, SameDeparturesSelf
<1> QED
  BY <1>3, <1>4

-----------------------------------------------------------------------------
(* In_Depot / Available is a cache that five kinds of documents write; no   *)
(* request of any desk, lapse or not, leaves it stale.                      *)
THEOREM StatusNeverStale == Spec => []StatusAgrees
<1>1. Init => StatusAgrees
  BY AwaySettled DEF Init, StatusAgrees, Present
<1>2. TypeOK /\ StatusAgrees /\ [Next]_vars => StatusAgrees'
  <2>1. SUFFICES ASSUME TypeOK, StatusAgrees, [Next]_vars PROVE StatusAgrees'
    OBVIOUS
  <2>2. CASE UNCHANGED vars
    BY <2>1, <2>2 DEF vars, StatusAgrees
  <2>3. CASE \E k \in Booking : BookingStep(k)
    BY <2>1, <2>3, BookingStepAgrees
  <2>4. CASE BonStep
    BY <2>1, <2>4, BonStepAgrees
  <2>5. CASE \E t \in Tank : EIRStep(t) \/ WorkStep(t)
    BY <2>1, <2>5, EIRStepAgrees, WorkStepAgrees
  <2>6. CASE ToggleEnforceAll
    BY <2>1, <2>6 DEF ToggleEnforceAll, StatusAgrees
  <2> QED
    BY <2>1, <2>2, <2>3, <2>4, <2>5, <2>6 DEF Next
<1> QED
  BY <1>1, <1>2, TypeCorrect, PTL DEF Spec

-----------------------------------------------------------------------------
(* The gate asks for this visit's orders, not for the status; that a tank   *)
(* leaves only when everybody reads it as ready follows because the status  *)
(* is never stale.                                                          *)

Clear(t) ==
    /\ status[t] \in Present
    /\ HoldingEIR(eir[t], LastDeparture(status[t], gate[t])) = {}
    /\ enforceAll => status[t] = "Available"

LEMMA UnblockedIsClear ==
    ASSUME StatusAgrees, NEW t \in Tank, status[t] \in Present, ~Blocked(t)
    PROVE  Clear(t)
<1>1. HoldingEIR(eir[t], LastDeparture(status[t], gate[t])) = {}
  BY DEF Blocked
<1>2. ASSUME enforceAll PROVE status[t] = "Available"
  <2>1. HoldingWork(work[t], LastDeparture(status[t], gate[t])) = {}
    BY <1>2 DEF Blocked
  <2>2. ~HasOpenOrders(status[t], gate[t], eir[t], work[t])
    BY <1>1, <2>1 DEF HasOpenOrders
  <2>3. status[t] = Settled(status[t], gate[t], eir[t], work[t])
    BY DEF StatusAgrees
  <2> QED
    BY <2>2, <2>3 DEF Settled
<1> QED
  BY <1>1, <1>2 DEF Clear

LEMMA DepartClear ==
    ASSUME TypeOK, StatusAgrees, NEW b, NEW k \in Booking \ InBooking, NEW S,
           RowsFit(b, k, S), Depart(b, k, S), NEW t \in Tank, departures'[t] # departures[t]
    PROVE  Clear(t)
<1>1. t \in S
  BY DEF Depart
<1>2. status[t] \in Present /\ ~Blocked(t)
  BY <1>1 DEF RowsFit
<1> QED
  BY <1>2, UnblockedIsClear

(* Only a bon's submit stamps a departure.                                  *)
LEMMA OnlyBonsDepart ==
    ASSUME Next, NEW t \in Tank, departures'[t] # departures[t]
    PROVE  \/ \E k \in Booking : \E S \in SUBSET Lines[k] : IssueMuat(k, S)
           \/ \E b \in DOMAIN bon : ResubmitMuat(b)
<1>1. ASSUME NEW k \in Booking, BookingStep(k) PROVE FALSE
  BY <1>1 DEF BookingStep, CreateBooking, ConfirmBooking, RevertBooking, VoidBooking,
              MarkPaid, MarkUnpaid, ReopenPayment
<1>2. ASSUME NEW u \in Tank, EIRStep(u) \/ WorkStep(u) PROVE FALSE
  BY <1>2 DEF EIRStep, StartEIR, SubmitEIRIn, SubmitEIROut, RevertEIR, VoidEIR, DiscardEIR,
              WorkStep, RaiseWork, MoveWork, CancelWork, WorkSaved
<1>3. ~ToggleEnforceAll
  BY DEF ToggleEnforceAll
<1>4. ASSUME NEW k \in Booking, NEW S, IssueBongkar(k, S) PROVE FALSE
  BY <1>4 DEF IssueBongkar, Arrive
<1>5. ASSUME NEW b \in DOMAIN bon,
             \/ ResubmitBongkar(b) \/ RevertBongkar(b) \/ RevertMuat(b)
             \/ VoidBongkar(b) \/ VoidMuat(b)
             \/ \E S \in SUBSET Lines[bon[b].booking] : EditBongkar(b, S) \/ EditMuat(b, S)
      PROVE  FALSE
  BY <1>5 DEF ResubmitBongkar, Arrive, RevertBongkar, RevertMuat, VoidBongkar, VoidMuat,
              EditBongkar, EditMuat
<1>6. BonStep
  BY <1>1, <1>2, <1>3 DEF Next
<1> QED
  BY <1>4, <1>5, <1>6 DEF BonStep

(* A departing tank is in the yard, has no EIR-In of this visit left as a   *)
(* draft and, with "Wajibkan Semua Order" on, reads Available.              *)
THEOREM DeparturesAreClear == Spec => LeavesClear
<1>1. TypeOK /\ StatusAgrees /\ [Next]_vars
        => [\A t \in Tank : departures'[t] # departures[t] => Clear(t)]_vars
  <2>1. SUFFICES ASSUME TypeOK, StatusAgrees, Next, NEW t \in Tank,
                        departures'[t] # departures[t]
                 PROVE  Clear(t)
    OBVIOUS
  <2>2. ASSUME NEW k \in Booking, NEW S \in SUBSET Lines[k], IssueMuat(k, S) PROVE Clear(t)
    <3>1. /\ k \in Booking \ InBooking
          /\ RowsFit(Len(bon) + 1, k, S) /\ Depart(Len(bon) + 1, k, S)
      BY <2>2 DEF IssueMuat, IssueGuard
    <3> QED
      BY <2>1, <3>1, DepartClear
  <2>3. ASSUME NEW b \in DOMAIN bon, ResubmitMuat(b) PROVE Clear(t)
    <3>1. /\ bon[b].booking \in Booking \ InBooking
          /\ RowsFit(b, bon[b].booking, bon[b].tanks) /\ Depart(b, bon[b].booking, bon[b].tanks)
      BY <2>1, <2>3, BonType DEF ResubmitMuat
    <3> QED
      BY <2>1, <3>1, DepartClear
  <2> QED
    BY <2>1, <2>2, <2>3, OnlyBonsDepart
<1> QED
  BY <1>1, TypeCorrect, StatusNeverStale, PTL DEF Spec, LeavesClear, Clear

-----------------------------------------------------------------------------
(* The bons                                                                *)

(* A tank that is on a bon stands on the lines of the bon's booking.       *)
BonsListed == \A b \in DOMAIN bon : bon[b].tanks \subseteq Lines[bon[b].booking]

(* Bons are filed at the end, never deleted, and stay on their booking.    *)
BonsKept ==
    /\ Len(bon') \in Nat /\ Len(bon) <= Len(bon')
    /\ DOMAIN bon \subseteq DOMAIN bon'
    /\ \A b \in DOMAIN bon : bon'[b].booking = bon[b].booking

LEMMA BonFiled ==
    ASSUME TypeOK, NEW r \in BonRec, bon' = Append(bon, r)
    PROVE  /\ BonsKept /\ Len(bon') = Len(bon) + 1 /\ Len(bon) \in Nat
           /\ DOMAIN bon = 1..Len(bon) /\ DOMAIN bon' = 1..(Len(bon) + 1)
           /\ \A b \in DOMAIN bon : bon'[b] = bon[b]
           /\ bon'[Len(bon) + 1] = r
<1>1. bon \in Seq(BonRec)
  BY DEF TypeOK
<1>2. /\ Len(bon) \in Nat /\ DOMAIN bon = 1..Len(bon) /\ Len(bon') = Len(bon) + 1
      /\ DOMAIN bon' = 1..(Len(bon) + 1) /\ bon'[Len(bon) + 1] = r
      /\ \A b \in DOMAIN bon : bon'[b] = bon[b]
  BY <1>1
<1>3. DOMAIN bon \subseteq DOMAIN bon' /\ Len(bon) <= Len(bon') /\ Len(bon') \in Nat
  BY <1>2
<1> QED
  BY <1>2, <1>3 DEF BonsKept

(* What a request writes on the bon it is about.                           *)
LEMMA BonMarked ==
    ASSUME TypeOK, NEW b \in DOMAIN bon,
           \/ ResubmitBongkar(b) \/ ResubmitMuat(b) \/ RevertBongkar(b) \/ RevertMuat(b)
           \/ VoidBongkar(b) \/ VoidMuat(b)
           \/ \E S \in SUBSET Lines[bon[b].booking] : EditBongkar(b, S) \/ EditMuat(b, S)
    PROVE  /\ DOMAIN bon' = DOMAIN bon /\ Len(bon') = Len(bon)
           /\ \A c \in DOMAIN bon \ {b} : bon'[c] = bon[c]
           /\ bon'[b].booking = bon[b].booking
<1>1. bon \in Seq(BonRec) /\ bon[b] \in BonRec
  BY BonType DEF TypeOK
<1>2. ASSUME NEW r, r.booking = bon[b].booking, bon' = [bon EXCEPT ![b] = r]
      PROVE  /\ DOMAIN bon' = DOMAIN bon /\ Len(bon') = Len(bon)
             /\ \A c \in DOMAIN bon \ {b} : bon'[c] = bon[c]
             /\ bon'[b].booking = bon[b].booking
  BY <1>1, <1>2
<1>3. CASE ResubmitBongkar(b)
  <2>1. bon' = [bon EXCEPT ![b] = [bon[b] EXCEPT !.ds = "Submitted",
                                                 !.completed = AllInspected(b, bon[b], eir')]]
    BY <1>3 DEF ResubmitBongkar
  <2> QED
    BY <1>1, <1>2, <2>1 DEF BonRec
<1>4. CASE ResubmitMuat(b)
  <2>1. bon' = [bon EXCEPT ![b] = [bon[b] EXCEPT !.ds = "Submitted", !.completed = TRUE]]
    BY <1>4 DEF ResubmitMuat
  <2> QED
    BY <1>1, <1>2, <2>1 DEF BonRec
<1>5. CASE RevertBongkar(b) \/ RevertMuat(b)
  <2>1. bon' = [bon EXCEPT ![b] = [bon[b] EXCEPT !.ds = "Draft", !.completed = FALSE]]
    BY <1>5 DEF RevertBongkar, RevertMuat
  <2> QED
    BY <1>1, <1>2, <2>1 DEF BonRec
<1>6. CASE VoidBongkar(b) \/ VoidMuat(b)
  <2>1. bon' = [bon EXCEPT ![b] = [bon[b] EXCEPT !.ds = "Voided"]]
    BY <1>6 DEF VoidBongkar, VoidMuat
  <2> QED
    BY <1>1, <1>2, <2>1 DEF BonRec
<1>7. ASSUME NEW S, EditBongkar(b, S) \/ EditMuat(b, S)
      PROVE  bon' = [bon EXCEPT ![b] = [bon[b] EXCEPT !.tanks = S]]
  BY <1>7 DEF EditBongkar, EditMuat
<1>8. CASE \E S \in SUBSET Lines[bon[b].booking] : EditBongkar(b, S) \/ EditMuat(b, S)
  BY <1>1, <1>2, <1>7, <1>8 DEF BonRec
<1> QED
  BY <1>3, <1>4, <1>5, <1>6, <1>8

(* The bon's own state and tanks after it.                                 *)
LEMMA BonMarkedSo ==
    ASSUME TypeOK, NEW b \in DOMAIN bon
    PROVE  /\ ResubmitBongkar(b) \/ ResubmitMuat(b)
                => bon'[b].ds = "Submitted" /\ bon'[b].tanks = bon[b].tanks
           /\ RevertBongkar(b) \/ RevertMuat(b)
                => bon'[b].ds = "Draft" /\ bon'[b].tanks = bon[b].tanks
           /\ VoidBongkar(b) \/ VoidMuat(b)
                => bon'[b].ds = "Voided" /\ bon'[b].tanks = bon[b].tanks
           /\ \A S : EditBongkar(b, S) \/ EditMuat(b, S)
                => bon'[b].ds = "Draft" /\ bon'[b].tanks = S
<1>1. bon \in Seq(BonRec) /\ bon[b] \in BonRec
  BY BonType DEF TypeOK
<1>2. ASSUME RevertBongkar(b) \/ RevertMuat(b)
      PROVE  bon'[b].ds = "Draft" /\ bon'[b].tanks = bon[b].tanks
  <2>1. bon' = [bon EXCEPT ![b] = [bon[b] EXCEPT !.ds = "Draft", !.completed = FALSE]]
    BY <1>2 DEF RevertBongkar, RevertMuat
  <2> QED
    BY <1>1, <2>1 DEF BonRec
<1>3. ASSUME VoidBongkar(b) \/ VoidMuat(b)
      PROVE  bon'[b].ds = "Voided" /\ bon'[b].tanks = bon[b].tanks
  <2>1. bon' = [bon EXCEPT ![b] = [bon[b] EXCEPT !.ds = "Voided"]]
    BY <1>3 DEF VoidBongkar, VoidMuat
  <2> QED
    BY <1>1, <2>1 DEF BonRec
<1>4. ASSUME NEW S, EditBongkar(b, S) \/ EditMuat(b, S)
      PROVE  bon'[b].ds = "Draft" /\ bon'[b].tanks = S
  <2>1. bon' = [bon EXCEPT ![b] = [bon[b] EXCEPT !.tanks = S]] /\ bon[b].ds = "Draft"
    BY <1>4 DEF EditBongkar, EditMuat, EditGuard
  <2> QED
    BY <1>1, <2>1 DEF BonRec
<1>5. ASSUME ResubmitBongkar(b) \/ ResubmitMuat(b)
      PROVE  bon'[b].ds = "Submitted" /\ bon'[b].tanks = bon[b].tanks
  <2>1. PICK done : bon' = [bon EXCEPT ![b] = [bon[b] EXCEPT !.ds = "Submitted", !.completed = done]]
    BY <1>5 DEF ResubmitBongkar, ResubmitMuat
  <2> QED
    BY <1>1, <2>1 DEF BonRec
<1> QED
  BY <1>2, <1>3, <1>4, <1>5

(* An inspection refreshes a bon's Completed badge and nothing else.       *)
LEMMA BadgeOnly ==
    ASSUME TypeOK, NEW c, NEW es, bon' = bon \/ bon' = RefreshedBons(c, es)
    PROVE  /\ DOMAIN bon' = DOMAIN bon /\ Len(bon') = Len(bon)
           /\ \A b \in DOMAIN bon : /\ bon'[b].booking = bon[b].booking
                                    /\ bon'[b].tanks = bon[b].tanks /\ bon'[b].ds = bon[b].ds
<1>1. bon \in Seq(BonRec) /\ \A b \in DOMAIN bon : bon[b] \in BonRec
  BY BonType DEF TypeOK
<1>2. CASE bon' = bon
  BY <1>2
<1>3. CASE bon' # bon
  <2>1. c \in DOMAIN bon
        /\ bon' = [bon EXCEPT ![c] = [bon[c] EXCEPT !.completed = AllInspected(c, bon[c], es)]]
    BY <1>3 DEF RefreshedBons
  <2> QED
    BY <1>1, <2>1 DEF BonRec
<1> QED
  BY <1>2, <1>3

-----------------------------------------------------------------------------
(* The papers: an arrival bon's Completed badge is what its EIR-Ins say,   *)
(* and a Booked tank is expected by a booking that lives.                  *)

Inspected(es, b) == \E i \in DOMAIN es : es[i].type = "In" /\ es[i].ds = "Submitted" /\ es[i].bon = b

HasEIRIn(es) == \E i \in DOMAIN es : es[i].type = "In"

(* No EIR of a tank is for a bon that was never raised.                    *)
OnBons(es, n) == \A i \in DOMAIN es : es[i].bon \in 0..n

(* The EIRs fs say of every bon what es said, and no EIR-In is new.        *)
SamePapers(es, fs, n) ==
    /\ \A b : Inspected(fs, b) <=> Inspected(es, b)
    /\ HasEIRIn(fs) => HasEIRIn(es)
    /\ OnBons(fs, n)

(* A booking that brings the tank in and lives.                            *)
Expected(t) == \E k \in InBooking : t \in Lines[k] /\ bk[k] \in {"Draft", "Confirmed"}

(* A bon was raised on a booking that brings the tank in.                  *)
Backed(t) == \E b \in DOMAIN bon : bon[b].booking \in InBooking /\ t \in Lines[bon[b].booking]

(* What has ever come in, or was inspected coming in, has a bon to its     *)
(* name, and every EIR is for a bon there is.                              *)
PapersBacked ==
    \A t \in Tank : /\ OnBons(eir[t], Len(bon))
                    /\ inDate[t] \/ HasEIRIn(eir[t]) => Backed(t)

PapersAgree == BonsListed /\ CompletedAgrees /\ BookedIsExpected /\ PapersBacked

LEMMA PapersRewritten ==
    ASSUME NEW n, NEW es, NEW fs, DOMAIN fs = DOMAIN es,
           \A i \in DOMAIN es :
              /\ fs[i].bon \in 0..n /\ fs[i].type = es[i].type
              /\ es[i].type = "In" => (fs[i].ds = "Submitted" <=> es[i].ds = "Submitted")
              /\ es[i].type = "In" /\ es[i].ds = "Submitted" => fs[i].bon = es[i].bon
    PROVE  SamePapers(es, fs, n)
<1>1. \A b : Inspected(fs, b) <=> Inspected(es, b)
  BY DEF Inspected
<1>2. HasEIRIn(fs) => HasEIRIn(es)
  BY DEF HasEIRIn
<1>3. OnBons(fs, n)
  BY DEF OnBons
<1> QED
  BY <1>1, <1>2, <1>3 DEF SamePapers

LEMMA PapersFiled ==
    ASSUME NEW n \in Nat, NEW es \in Seq(EIRRec), NEW e \in EIRRec, OnBons(es, n),
           e.ds = "Draft", e.bon \in 0..n
    PROVE  /\ \A b : Inspected(Append(es, e), b) <=> Inspected(es, b)
           /\ OnBons(Append(es, e), n)
           /\ e.type = "Out" => SamePapers(es, Append(es, e), n)
<1> DEFINE fs == Append(es, e)
<1>1. /\ DOMAIN es \subseteq DOMAIN fs
      /\ \A i \in DOMAIN es : fs[i] = es[i]
      /\ \A i \in DOMAIN fs : i \in DOMAIN es \/ fs[i] = e
  OBVIOUS
<1> HIDE DEF fs
<1>2. \A b : Inspected(fs, b) <=> Inspected(es, b)
  BY <1>1 DEF Inspected
<1>3. OnBons(fs, n)
  BY <1>1 DEF OnBons
<1>4. e.type = "Out" /\ HasEIRIn(fs) => HasEIRIn(es)
  BY <1>1 DEF HasEIRIn
<1>5. e.type = "Out" => SamePapers(es, fs, n)
  BY <1>2, <1>3, <1>4 DEF SamePapers
<1> QED
  BY <1>2, <1>3, <1>5 DEF fs

LEMMA PapersSelf ==
    ASSUME NEW es, NEW n, OnBons(es, n) PROVE SamePapers(es, es, n)
BY DEF SamePapers

(* What the booking desk writes on the EIRs: EIR-Outs and their booking.   *)
LEMMA ProvisionedPapers ==
    ASSUME TypeOK, NEW k \in Booking, NEW t \in Tank, NEW n \in Nat, OnBons(eir[t], n)
    PROVE  SamePapers(eir[t], ProvisionedEIROut(k, t), n)
<1>1. eir[t] \in Seq(EIRRec) /\ \A i \in DOMAIN eir[t] : eir[t][i] \in EIRRec
  BY PapersOf
<1>2. SamePapers(eir[t], Append(eir[t], NewEIROut(k, t)), n)
  <2>1. /\ NewEIROut(k, t) \in EIRRec /\ NewEIROut(k, t).type = "Out"
        /\ NewEIROut(k, t).ds = "Draft" /\ NewEIROut(k, t).bon \in 0..n
    BY NewEIROutType DEF NewEIROut
  <2> QED
    BY <1>1, <2>1, PapersFiled
<1>3. ASSUME NEW i PROVE SamePapers(eir[t], [eir[t] EXCEPT ![i].booking = k], n)
  <2> DEFINE fs == [eir[t] EXCEPT ![i].booking = k]
  <2>1. /\ DOMAIN fs = DOMAIN eir[t]
        /\ \A j \in DOMAIN eir[t] : /\ fs[j].type = eir[t][j].type /\ fs[j].ds = eir[t][j].ds
                                    /\ fs[j].bon = eir[t][j].bon
    BY <1>1 DEF EIRRec
  <2> HIDE DEF fs
  <2>2. SamePapers(eir[t], fs, n)
    BY <2>1, PapersRewritten DEF OnBons
  <2> QED
    BY <2>2 DEF fs
<1> QED
  BY <1>2, <1>3, PapersSelf DEF ProvisionedEIROut

LEMMA WithdrawnPapers ==
    ASSUME TypeOK, NEW k \in Booking, NEW t \in Tank, NEW n \in Nat, OnBons(eir[t], n)
    PROVE  SamePapers(eir[t], WithdrawnEIROut(k, t), n)
<1>1. \A i \in DOMAIN eir[t] : eir[t][i] \in EIRRec
  BY PapersOf
<1>2. /\ DOMAIN WithdrawnEIROut(k, t) = DOMAIN eir[t]
      /\ \A i \in DOMAIN eir[t] :
           /\ WithdrawnEIROut(k, t)[i].type = eir[t][i].type
           /\ WithdrawnEIROut(k, t)[i].bon = eir[t][i].bon
           /\ eir[t][i].type = "In" => WithdrawnEIROut(k, t)[i].ds = eir[t][i].ds
  BY <1>1 DEF WithdrawnEIROut, EIRRec
<1> QED
  BY <1>2, PapersRewritten DEF OnBons

(* What the bon desk writes on them.                                       *)
LEMMA ArrivalPapers ==
    ASSUME TypeOK, NEW t \in Tank, NEW k \in Booking, NEW n \in Nat, NEW b \in 0..n,
           OnBons(eir[t], n)
    PROVE  /\ \A c : Inspected(ArrivalEIR(t, b, k), c) <=> Inspected(eir[t], c)
           /\ OnBons(ArrivalEIR(t, b, k), n)
<1>1. PICK e \in EIRRec : /\ e.ds = "Draft" /\ e.bon = b
                          /\ ArrivalEIR(t, b, k) = eir[t] \/ ArrivalEIR(t, b, k) = Append(eir[t], e)
  <2> DEFINE d == [type |-> "In", ds |-> "Draft", bon |-> b, booking |-> k,
                   started |-> FALSE, snap |-> "In_Depot", born |-> departures[t]]
  <2>1. d \in EIRRec /\ d.ds = "Draft" /\ d.bon = b
    BY PapersOf DEF EIRRec, Direction, Status
  <2>2. ArrivalEIR(t, b, k) = eir[t] \/ ArrivalEIR(t, b, k) = Append(eir[t], d)
    BY DEF ArrivalEIR
  <2> QED
    BY <2>1, <2>2
<1>2. eir[t] \in Seq(EIRRec)
  BY PapersOf
<1>3. /\ \A c : Inspected(Append(eir[t], e), c) <=> Inspected(eir[t], c)
      /\ OnBons(Append(eir[t], e), n)
  BY <1>1, <1>2, PapersFiled
<1> QED
  BY <1>1, <1>3

LEMMA AttachedPapers ==
    ASSUME TypeOK, NEW t \in Tank, NEW k \in Booking, NEW n \in Nat, NEW b \in 0..n,
           OnBons(eir[t], n)
    PROVE  SamePapers(eir[t], AttachedEIR(t, b, k), n)
<1>1. \A i \in DOMAIN eir[t] : eir[t][i] \in EIRRec
  BY PapersOf
<1>2. ASSUME NEW i \in DOMAIN eir[t], eir[t][i].type = "Out"
      PROVE  /\ SamePapers(eir[t], [eir[t] EXCEPT ![i].bon = b], n)
             /\ SamePapers(eir[t], [eir[t] EXCEPT ![i].bon = b, ![i].booking = k], n)
  <2>1. ASSUME NEW fs, DOMAIN fs = DOMAIN eir[t],
               \A j \in DOMAIN eir[t] :
                  /\ fs[j].type = eir[t][j].type /\ fs[j].ds = eir[t][j].ds
                  /\ fs[j].bon = IF j = i THEN b ELSE eir[t][j].bon
        PROVE  SamePapers(eir[t], fs, n)
    BY <1>2, <2>1, PapersRewritten DEF OnBons
  <2> DEFINE fs == [eir[t] EXCEPT ![i].bon = b]
             hs == [eir[t] EXCEPT ![i].bon = b, ![i].booking = k]
  <2>2. /\ DOMAIN fs = DOMAIN eir[t]
        /\ \A j \in DOMAIN eir[t] :
              /\ fs[j].type = eir[t][j].type /\ fs[j].ds = eir[t][j].ds
              /\ fs[j].bon = IF j = i THEN b ELSE eir[t][j].bon
    BY <1>1 DEF EIRRec
  <2>3. /\ DOMAIN hs = DOMAIN eir[t]
        /\ \A j \in DOMAIN eir[t] :
              /\ hs[j].type = eir[t][j].type /\ hs[j].ds = eir[t][j].ds
              /\ hs[j].bon = IF j = i THEN b ELSE eir[t][j].bon
    BY <1>1 DEF EIRRec
  <2> HIDE DEF fs, hs
  <2>4. SamePapers(eir[t], fs, n) /\ SamePapers(eir[t], hs, n)
    BY <2>1, <2>2, <2>3
  <2> QED
    BY <2>4 DEF fs, hs
<1> DEFINE draft == Newest(Drafts(t, "Out"))
           done == Newest({i \in DOMAIN eir[t] :
                              /\ eir[t][i].type = "Out" /\ eir[t][i].ds = "Submitted"
                              /\ eir[t][i].booking = k /\ eir[t][i].bon = 0})
<1>3. draft # 0 => draft \in DOMAIN eir[t] /\ eir[t][draft].type = "Out"
  BY NewestBelongs DEF Drafts
<1>4. done # 0 => done \in DOMAIN eir[t] /\ eir[t][done].type = "Out"
  BY NewestBelongs
<1> QED
  BY <1>2, <1>3, <1>4, PapersSelf DEF AttachedEIR

LEMMA ReleasedPapers ==
    ASSUME TypeOK, NEW t \in Tank, NEW b \in Nat, NEW d \in Direction, OnBons(eir[t], Len(bon))
    PROVE  SamePapers(eir[t], ReleasedEIR(t, b, d), Len(bon))
<1> DEFINE next == Newest(BonsOf(t, d, {"Submitted"}))
<1>1. next \in {0} \cup DOMAIN bon
  BY NewestBelongs DEF BonsOf
<1>2. bon \in Seq(BonRec)
  BY DEF TypeOK
<1>3. next \in 0..Len(bon) /\ 0 \in 0..Len(bon)
  BY <1>1, <1>2, SequenceShape
<1>4. ReleasedEIR(t, b, d) = [i \in DOMAIN eir[t] |-> LetGo(eir[t][i], b, d, next)]
  BY DEF ReleasedEIR
<1> HIDE DEF next
<1>5. ASSUME NEW i \in DOMAIN eir[t]
      PROVE  LET e == eir[t][i]
                 f == LetGo(eir[t][i], b, d, next)
             IN  /\ f.bon \in 0..Len(bon) /\ f.type = e.type
                 /\ e.type = "In" => (f.ds = "Submitted" <=> e.ds = "Submitted")
                 /\ e.type = "In" /\ e.ds = "Submitted" => f.bon = e.bon
  <2>1. eir[t][i] \in EIRRec /\ eir[t][i].bon \in 0..Len(bon)
    BY PapersOf DEF OnBons
  <2> QED
    BY <1>3, <2>1 DEF LetGo, EIRRec, Direction
<1> QED
  BY <1>4, <1>5, PapersRewritten

-----------------------------------------------------------------------------
(* The badge                                                               *)

LEMMA AllInspectedIs ==
    ASSUME NEW b, NEW r, NEW es
    PROVE  AllInspected(b, r, es) <=> \A t \in r.tanks \ NoEIR[r.booking] : Inspected(es[t], b)
BY DEF AllInspected, Inspected

(* A request that leaves the other bons, and what is inspected for them,   *)
(* alone, and fits the badge of bon b to what is inspected for it.         *)
LEMMA BadgeStep ==
    ASSUME TypeOK, CompletedAgrees, NEW b,
           \A c \in DOMAIN bon' : c # b =>
                /\ c \in DOMAIN bon /\ bon'[c] = bon[c]
                /\ \A t \in Tank : Inspected(eir'[t], c) <=> Inspected(eir[t], c),
           b \in DOMAIN bon' /\ bon'[b].booking \in InBooking =>
                (bon'[b].completed <=> bon'[b].ds = "Submitted" /\ AllInspected(b, bon'[b], eir'))
    PROVE  CompletedAgrees'
<1>1. ASSUME NEW c \in DOMAIN bon', bon'[c].booking \in InBooking, c # b
      PROVE  bon'[c].completed <=> bon'[c].ds = "Submitted" /\ AllInspected(c, bon'[c], eir')
  <2>1. c \in DOMAIN bon /\ bon'[c] = bon[c] /\ bon[c].tanks \in SUBSET Tank
    BY <1>1, BonType
  <2>2. bon[c].completed <=> bon[c].ds = "Submitted" /\ AllInspected(c, bon[c], eir)
    BY <1>1, <2>1 DEF CompletedAgrees
  <2>3. \A t \in Tank : Inspected(eir'[t], c) <=> Inspected(eir[t], c)
    BY <1>1
  <2>4. AllInspected(c, bon[c], eir') <=> AllInspected(c, bon[c], eir)
    BY <2>1, <2>3, AllInspectedIs
  <2> QED
    BY <2>1, <2>2, <2>4
<1> QED
  BY <1>1 DEF CompletedAgrees

(* A request that leaves every bon alone, and every EIR-In's verdict.      *)
LEMMA BadgeStays ==
    ASSUME TypeOK, CompletedAgrees, bon' = bon,
           \A t \in Tank : \A c : Inspected(eir'[t], c) <=> Inspected(eir[t], c)
    PROVE  CompletedAgrees'
<1>1. 0 \notin DOMAIN bon
  BY DEF TypeOK
<1>2. \A c \in DOMAIN bon' : c # 0 =>
        /\ c \in DOMAIN bon /\ bon'[c] = bon[c]
        /\ \A t \in Tank : Inspected(eir'[t], c) <=> Inspected(eir[t], c)
  OBVIOUS
<1>3. 0 \notin DOMAIN bon'
  BY <1>1
<1> QED
  BY <1>2, <1>3, BadgeStep

(* A tank's save refreshes the badge of the bon its EIR is for.            *)
LEMMA BadgeRefreshed ==
    ASSUME TypeOK, CompletedAgrees, NEW t \in Tank, NEW st, NEW es, NEW ws, NEW b,
           Settle(t, st, es, ws, b),
           \A c : c # b => (Inspected(es, c) <=> Inspected(eir[t], c))
    PROVE  CompletedAgrees'
<1>1. eir'[t] = es /\ \A u \in Tank \ {t} : eir'[u] = eir[u]
  BY DEF Settle, TypeOK
<1>2. bon' = RefreshedBons(b, eir') /\ bon \in Seq(BonRec)
  BY DEF Settle, TypeOK
<1>3. \A c \in DOMAIN bon' : c # b => c \in DOMAIN bon /\ bon'[c] = bon[c]
  BY <1>2 DEF RefreshedBons
<1>4. ASSUME NEW c, c # b, NEW u \in Tank PROVE Inspected(eir'[u], c) <=> Inspected(eir[u], c)
  BY <1>1, <1>4
<1>5. ASSUME b \in DOMAIN bon', bon'[b].booking \in InBooking
      PROVE  bon'[b].completed <=> bon'[b].ds = "Submitted" /\ AllInspected(b, bon'[b], eir')
  <2>1. b \in DOMAIN bon /\ bon[b] \in BonRec
    BY <1>2, <1>5, BonType DEF RefreshedBons
  <2>2. CASE bon[b].ds = "Submitted" /\ DirectionOf(bon[b].booking) = "In"
    <3> DEFINE done == AllInspected(b, bon[b], eir')
    <3>1. bon' = [bon EXCEPT ![b] = [bon[b] EXCEPT !.completed = done]] /\ done \in BOOLEAN
      BY <1>2, <2>1, <2>2 DEF RefreshedBons, AllInspected
    <3> HIDE DEF done
    <3>2. /\ bon'[b].completed = done /\ bon'[b].ds = "Submitted"
          /\ bon'[b].tanks = bon[b].tanks /\ bon'[b].booking = bon[b].booking
      BY <1>2, <2>1, <2>2, <3>1 DEF BonRec
    <3>3. AllInspected(b, bon'[b], eir') <=> AllInspected(b, bon[b], eir')
      BY <3>2, AllInspectedIs
    <3> QED
      BY <3>2, <3>3 DEF done
  <2>3. CASE ~(bon[b].ds = "Submitted" /\ DirectionOf(bon[b].booking) = "In")
    <3>1. bon' = bon
      BY <1>2, <2>3 DEF RefreshedBons
    <3>2. bon[b].ds # "Submitted"
      BY <1>5, <2>3, <3>1 DEF DirectionOf
    <3> QED
      BY <1>5, <2>1, <3>1, <3>2 DEF CompletedAgrees
  <2> QED
    BY <2>2, <2>3
<1> QED
  BY <1>3, <1>4, <1>5, BadgeStep

-----------------------------------------------------------------------------
(* The steps                                                               *)

LEMMA BackedStays ==
    ASSUME BonsKept, NEW t, Backed(t) PROVE Backed(t)'
BY DEF BonsKept, Backed

(* A bon raised on a booking is the booking's hold on the tank.            *)
LEMMA BackedExpected ==
    ASSUME TypeOK, BonsConfirmed, NEW t, Backed(t) PROVE Expected(t)
BY BonType DEF Backed, Expected, BonsConfirmed

LEMMA ExpectedStays ==
    ASSUME BookedIsExpected, bk' = bk,
           \A t \in Tank : status'[t] = "Booked" => status[t] = "Booked" \/ Expected(t)
    PROVE  BookedIsExpected'
BY DEF BookedIsExpected, Expected

LEMMA PapersStay ==
    ASSUME PapersBacked, BonsKept,
           \A t \in Tank : /\ SamePapers(eir[t], eir'[t], Len(bon'))
                           /\ inDate'[t] => inDate[t]
    PROVE  PapersBacked'
<1>1. ASSUME NEW t \in Tank
      PROVE  OnBons(eir'[t], Len(bon')) /\ (inDate'[t] \/ HasEIRIn(eir'[t]) => Backed(t)')
  BY BackedStays DEF SamePapers, PapersBacked
<1> QED
  BY <1>1 DEF PapersBacked

(* A booking's own requests.  Voiding it lets go of what it reserved; a    *)
(* tank that stays Booked is on another booking's lines, or has a bon, and *)
(* that bon's booking is Confirmed.                                        *)
LEMMA BookingStepPapers ==
    ASSUME TypeOK, BonsConfirmed, PapersAgree, NEW k \in Booking, BookingStep(k) PROVE PapersAgree'
<1>1. bon' = bon /\ inDate' = inDate /\ Len(bon) \in Nat
  BY DEF BookingStep, CreateBooking, ConfirmBooking, RevertBooking, VoidBooking,
         MarkPaid, MarkUnpaid, ReopenPayment,
         TypeOK
<1>2. ASSUME NEW t \in Tank PROVE SamePapers(eir[t], eir'[t], Len(bon))
  <2>1. OnBons(eir[t], Len(bon))
    BY DEF PapersAgree, PapersBacked
  <2>2. \/ eir'[t] = eir[t]
        \/ eir'[t] = ProvisionedEIROut(k, t)
        \/ eir'[t] = WithdrawnEIROut(k, t)
    BY DEF BookingStep, CreateBooking, ConfirmBooking, RevertBooking, VoidBooking,
           MarkPaid, MarkUnpaid, ReopenPayment
  <2> QED
    BY <1>1, <2>1, <2>2, PapersSelf, ProvisionedPapers, WithdrawnPapers
<1>3. BonsListed'
  BY <1>1 DEF PapersAgree, BonsListed
<1>4. CompletedAgrees'
  BY <1>1, <1>2, BadgeStays DEF PapersAgree, SamePapers
<1>5. PapersBacked'
  <2>1. BonsKept
    BY <1>1 DEF BonsKept
  <2> QED
    BY <1>1, <1>2, <2>1, PapersStay DEF PapersAgree
<1>6. ASSUME NEW t \in Tank, status'[t] = "Booked" PROVE Expected(t)'
  <2>1. CASE CreateBooking(k) \/ ConfirmBooking(k)
    <3>1. bk[k] \in {"New", "Draft"} /\ bk'[k] \in {"Draft", "Confirmed"}
          /\ (\A j \in Booking \ {k} : bk'[j] = bk[j]) /\ status'[t] = PreArrival(k, t)
      BY <2>1 DEF CreateBooking, ConfirmBooking, TypeOK
    <3>2. status[t] = "Booked" \/ (k \in InBooking /\ t \in Lines[k])
      BY <1>6, <3>1 DEF PreArrival
    <3>3. status[t] = "Booked" => Expected(t)
      BY DEF PapersAgree, BookedIsExpected, Expected
    <3> QED
      BY <3>1, <3>2, <3>3, DepotAssumption DEF Expected
  <2>2. CASE RevertBooking(k) \/ MarkPaid(k) \/ MarkUnpaid(k) \/ ReopenPayment(k)
    <3>1. status' = status /\ \A j \in Booking : bk[j] \in {"Draft", "Confirmed"} => bk'[j] \in {"Draft", "Confirmed"}
      BY <2>2 DEF RevertBooking, MarkPaid, MarkUnpaid, ReopenPayment, TypeOK
    <3>2. Expected(t)
      BY <1>6, <3>1 DEF PapersAgree, BookedIsExpected, Expected
    <3> QED
      BY <3>1, <3>2, DepotAssumption DEF Expected
  <2>3. CASE VoidBooking(k)
    <3>1. /\ bk[k] = "Draft" /\ ~BonRaised(k) /\ status'[t] = Released(k, t)
          /\ \A j \in Booking \ {k} : bk'[j] = bk[j]
      BY <2>3 DEF VoidBooking, TypeOK
    <3>2. \/ status[t] = "Booked" /\ t \notin Lines[k]
          \/ inDate[t]
          \/ \E j \in InBooking \ {k} : t \in Lines[j] /\ bk[j] \in {"Draft", "Confirmed"}
      BY <1>6, <3>1 DEF Released
    <3>3. \E j \in InBooking \ {k} : t \in Lines[j] /\ bk[j] \in {"Draft", "Confirmed"}
      <4>1. CASE status[t] = "Booked" /\ t \notin Lines[k]
        BY <4>1 DEF PapersAgree, BookedIsExpected
      <4>2. CASE inDate[t]
        <5>1. PICK b \in DOMAIN bon : bon[b].booking \in InBooking /\ t \in Lines[bon[b].booking]
          BY <4>2 DEF PapersAgree, PapersBacked, Backed
        <5>2. bon[b].booking # k /\ bk[bon[b].booking] = "Confirmed"
          BY <3>1 DEF BonRaised, BonsConfirmed
        <5> QED
          BY <5>1, <5>2
      <4> QED
        BY <3>2, <4>1, <4>2
    <3> QED
      BY <3>1, <3>3, DepotAssumption DEF Expected
  <2> QED
    BY <2>1, <2>2, <2>3 DEF BookingStep
<1>7. BookedIsExpected'
  BY <1>6 DEF BookedIsExpected, Expected
<1> QED
  BY <1>3, <1>4, <1>5, <1>7 DEF PapersAgree

(* An arrival: its EIR-Ins are drafts, and the bon backs all that came.    *)
LEMMA ArrivePapers ==
    ASSUME TypeOK, PapersAgree, BonsKept, NEW b \in DOMAIN bon', b \in 0..Len(bon'),
           NEW k \in Booking, k \in InBooking, bon'[b].booking = k,
           NEW S \in SUBSET Lines[k], Arrive(b, k, S)
    PROVE  /\ PapersBacked'
           /\ \A t \in Tank : /\ \A c : Inspected(eir'[t], c) <=> Inspected(eir[t], c)
                              /\ status'[t] = "Booked" => status[t] = "Booked"
<1>1. ASSUME NEW t \in Tank
      PROVE  /\ OnBons(eir'[t], Len(bon'))
             /\ \A c : Inspected(eir'[t], c) <=> Inspected(eir[t], c)
  <2>1. OnBons(eir[t], Len(bon'))
    BY DEF PapersAgree, PapersBacked, OnBons, BonsKept, TypeOK
  <2>2. eir'[t] = eir[t] \/ eir'[t] = ArrivalEIR(t, b, k)
    BY DEF Arrive
  <2>3. Len(bon') \in Nat
    BY DEF BonsKept
  <2> QED
    BY <2>1, <2>2, <2>3, ArrivalPapers
<1>2. ASSUME NEW t \in Tank, inDate'[t] \/ HasEIRIn(eir'[t]) PROVE Backed(t)'
  <2>1. CASE t \in S
    BY <2>1 DEF Backed
  <2>2. CASE t \notin S
    BY <1>2, <2>2, BackedStays DEF Arrive, PapersAgree, PapersBacked
  <2> QED
    BY <2>1, <2>2
<1>3. ASSUME NEW t \in Tank PROVE status'[t] = "Booked" => status[t] = "Booked"
  <2>1. \/ status'[t] = status[t]
        \/ status'[t] = Settled("In_Depot", ArrivalGate(t, b), ArrivalEIR(t, b, k), work[t])
    BY DEF Arrive
  <2> QED
    BY <2>1 DEF Settled, Present
<1> QED
  BY <1>1, <1>2, <1>3 DEF PapersBacked

LEMMA DepartPapers ==
    ASSUME TypeOK, PapersAgree, BonsKept, NEW b \in Nat, b \in 0..Len(bon'),
           NEW k \in Booking, NEW S \in SUBSET Tank, Depart(b, k, S)
    PROVE  /\ PapersBacked'
           /\ \A t \in Tank : /\ \A c : Inspected(eir'[t], c) <=> Inspected(eir[t], c)
                              /\ status'[t] = "Booked" => status[t] = "Booked"
<1>1. ASSUME NEW t \in Tank PROVE SamePapers(eir[t], eir'[t], Len(bon'))
  <2>1. OnBons(eir[t], Len(bon'))
    BY DEF PapersAgree, PapersBacked, OnBons, BonsKept, TypeOK
  <2>2. eir'[t] = eir[t] \/ eir'[t] = AttachedEIR(t, b, k)
    BY DEF Depart
  <2>3. Len(bon') \in Nat
    BY DEF BonsKept
  <2> QED
    BY <2>1, <2>2, <2>3, AttachedPapers, PapersSelf
<1>2. inDate' = inDate /\ \A t \in Tank : status'[t] = "Booked" => status[t] = "Booked"
  BY DEF Depart
<1>3. PapersBacked'
  BY <1>1, <1>2, PapersStay DEF PapersAgree
<1> QED
  BY <1>1, <1>2, <1>3 DEF SamePapers

LEMMA UndoPapers ==
    ASSUME TypeOK, PapersAgree, BonsKept, Len(bon') = Len(bon), NEW b \in DOMAIN bon,
           bon[b].booking \in InBooking, NEW S \in SUBSET bon[b].tanks, UndoArrival(b, S)
    PROVE  /\ PapersBacked'
           /\ \A t \in Tank : /\ \A c : Inspected(eir'[t], c) <=> Inspected(eir[t], c)
                              /\ status'[t] = "Booked" => status[t] = "Booked" \/ Expected(t)
<1>1. ASSUME NEW t \in Tank PROVE SamePapers(eir[t], eir'[t], Len(bon'))
  <2>1. OnBons(eir[t], Len(bon)) /\ b \in Nat /\ "In" \in Direction
    BY BonType DEF PapersAgree, PapersBacked, Direction
  <2>2. eir'[t] = eir[t] \/ eir'[t] = ReleasedEIR(t, b, "In")
    BY DEF UndoArrival
  <2> QED
    BY <2>1, <2>2, ReleasedPapers, PapersSelf
<1>2. ASSUME NEW t \in Tank, status'[t] = "Booked" PROVE status[t] = "Booked" \/ Expected(t)
  <2>1. status'[t] = status[t] \/ (t \in S /\ status'[t] = RolledBack(t, b))
    BY DEF UndoArrival
  <2>2. status'[t] = status[t] \/ (t \in S /\ LiveBooking(bon[b].booking))
    BY <1>2, <2>1 DEF RolledBack, Settled
  <2>3. t \in S => t \in Lines[bon[b].booking]
    BY DEF PapersAgree, BonsListed
  <2> QED
    BY <1>2, <2>2, <2>3 DEF LiveBooking, Expected
<1>3. \A t \in Tank : inDate'[t] => inDate[t]
  BY DEF UndoArrival
<1>4. PapersBacked'
  BY <1>1, <1>3, PapersStay DEF PapersAgree
<1> QED
  BY <1>1, <1>2, <1>4 DEF SamePapers

LEMMA IssuePapers ==
    ASSUME TypeOK, BonsConfirmed, PapersAgree, NEW k \in Booking, NEW S \in SUBSET Lines[k],
           IssueBongkar(k, S) \/ IssueMuat(k, S)
    PROVE  PapersAgree'
<1>1. S \in SUBSET Tank /\ bk' = bk
  BY DepotAssumption DEF IssueBongkar, IssueMuat
<1>2. PICK done \in BOOLEAN :
         /\ bon' = Append(bon, [booking |-> k, tanks |-> S, ds |-> "Submitted", completed |-> done])
         /\ k \in InBooking => (done <=> S \subseteq NoEIR[k])
  BY DEF IssueBongkar, IssueMuat
<1>3. PICK r \in BonRec : /\ bon' = Append(bon, r) /\ r.booking = k /\ r.tanks = S
                          /\ r.ds = "Submitted" /\ r.completed = done
  <2> DEFINE q == [booking |-> k, tanks |-> S, ds |-> "Submitted", completed |-> done]
  <2>1. q \in BonRec
    BY <1>1 DEF BonRec
  <2> QED
    BY <1>2, <2>1
<1>4. PICK b : b = Len(bon) + 1
  OBVIOUS
<1>5. /\ BonsKept /\ Len(bon') = b /\ Len(bon) \in Nat /\ b \in Nat
      /\ b \in DOMAIN bon' /\ b \in 0..Len(bon')
      /\ \A c \in DOMAIN bon : bon'[c] = bon[c]
      /\ \A c \in DOMAIN bon' : c # b => c \in DOMAIN bon
      /\ bon'[b] = r
  <2>1. BonsKept /\ Len(bon') = Len(bon) + 1 /\ Len(bon) \in Nat
        /\ DOMAIN bon = 1..Len(bon) /\ DOMAIN bon' = 1..(Len(bon) + 1)
        /\ (\A c \in DOMAIN bon : bon'[c] = bon[c]) /\ bon'[Len(bon) + 1] = r
    BY <1>3, BonFiled
  <2> QED
    BY <1>4, <2>1
<1>6. BonsListed'
  BY <1>3, <1>5 DEF PapersAgree, BonsListed
<1>7. /\ PapersBacked'
      /\ \A t \in Tank : /\ \A c : Inspected(eir'[t], c) <=> Inspected(eir[t], c)
                         /\ status'[t] = "Booked" => status[t] = "Booked"
  <2>1. CASE IssueBongkar(k, S)
    <3>1. k \in InBooking /\ bon'[b].booking = k /\ Arrive(b, k, S)
      BY <1>3, <1>4, <1>5, <2>1 DEF IssueBongkar
    <3> QED
      BY <1>5, <3>1, ArrivePapers
  <2>2. CASE IssueMuat(k, S)
    <3>1. Depart(b, k, S)
      BY <1>4, <2>2 DEF IssueMuat
    <3> QED
      BY <1>1, <1>5, <3>1, DepartPapers
  <2> QED
    BY <2>1, <2>2
<1>8. ASSUME k \in InBooking
      PROVE  bon'[b].completed <=> bon'[b].ds = "Submitted" /\ AllInspected(b, bon'[b], eir')
  <2>1. ASSUME NEW t \in S PROVE ~Inspected(eir'[t], b)
    <3>1. OnBons(eir[t], Len(bon)) /\ t \in Tank
      BY <1>1 DEF PapersAgree, PapersBacked
    <3>2. ~Inspected(eir[t], b)
      BY <1>4, <1>5, <3>1 DEF OnBons, Inspected
    <3> QED
      BY <1>7, <3>1, <3>2
  <2>2. AllInspected(b, r, eir') <=> \A t \in r.tanks \ NoEIR[r.booking] : Inspected(eir'[t], b)
    BY AllInspectedIs
  <2> QED
    BY <1>2, <1>3, <1>5, <1>8, <2>1, <2>2
<1>9. CompletedAgrees'
  BY <1>3, <1>5, <1>7, <1>8, BadgeStep DEF PapersAgree
<1>10. BookedIsExpected'
  BY <1>1, <1>7, ExpectedStays DEF PapersAgree
<1> QED
  BY <1>6, <1>7, <1>9, <1>10 DEF PapersAgree

(* The bon a request is about: its badge after it.                         *)
LEMMA BadgeOf ==
    ASSUME TypeOK, CompletedAgrees, NEW b \in DOMAIN bon, bon[b].booking \in InBooking,
           \/ ResubmitBongkar(b) \/ RevertBongkar(b) \/ VoidBongkar(b)
           \/ \E S \in SUBSET Lines[bon[b].booking] : EditBongkar(b, S)
    PROVE  bon'[b].completed <=> bon'[b].ds = "Submitted" /\ AllInspected(b, bon'[b], eir')
<1>1. bon \in Seq(BonRec) /\ bon[b] \in BonRec
  BY BonType DEF TypeOK
<1>2. bon[b].ds = "Draft" => ~bon[b].completed
  BY DEF CompletedAgrees
<1>3. CASE ResubmitBongkar(b)
  <2> DEFINE done == AllInspected(b, bon[b], eir')
  <2>1. bon' = [bon EXCEPT ![b] = [bon[b] EXCEPT !.ds = "Submitted", !.completed = done]]
    BY <1>3 DEF ResubmitBongkar
  <2>2. done \in BOOLEAN
    BY DEF AllInspected
  <2> HIDE DEF done
  <2>3. /\ bon'[b].completed = done /\ bon'[b].ds = "Submitted"
        /\ bon'[b].tanks = bon[b].tanks /\ bon'[b].booking = bon[b].booking
    BY <1>1, <2>1, <2>2 DEF BonRec
  <2>4. AllInspected(b, bon'[b], eir') <=> AllInspected(b, bon[b], eir')
    BY <2>3, AllInspectedIs
  <2> QED
    BY <2>3, <2>4 DEF done
<1>4. CASE RevertBongkar(b)
  <2>1. bon' = [bon EXCEPT ![b] = [bon[b] EXCEPT !.ds = "Draft", !.completed = FALSE]]
    BY <1>4 DEF RevertBongkar
  <2>2. bon'[b].completed = FALSE /\ bon'[b].ds = "Draft"
    BY <1>1, <2>1 DEF BonRec
  <2> QED
    BY <2>2
<1>5. CASE VoidBongkar(b)
  <2>1. bon' = [bon EXCEPT ![b] = [bon[b] EXCEPT !.ds = "Voided"]] /\ bon[b].ds = "Draft"
    BY <1>5 DEF VoidBongkar
  <2>2. bon'[b].completed = bon[b].completed /\ bon'[b].ds = "Voided"
    BY <1>1, <2>1 DEF BonRec
  <2> QED
    BY <1>2, <2>1, <2>2
<1>6. ASSUME NEW S, EditBongkar(b, S)
      PROVE  bon'[b].completed <=> bon'[b].ds = "Submitted" /\ AllInspected(b, bon'[b], eir')
  <2>1. bon' = [bon EXCEPT ![b] = [bon[b] EXCEPT !.tanks = S]] /\ bon[b].ds = "Draft"
    BY <1>6 DEF EditBongkar, EditGuard
  <2>2. bon'[b].completed = bon[b].completed /\ bon'[b].ds = "Draft"
    BY <1>1, <2>1 DEF BonRec
  <2> QED
    BY <1>2, <2>1, <2>2
<1> QED
  BY <1>3, <1>4, <1>5, <1>6

(* Taking a departure back writes EIR-Outs only, and frees a tank.         *)
LEMMA ReversalPapers ==
    ASSUME TypeOK, PapersAgree, BonsKept, Len(bon') = Len(bon), NEW b \in DOMAIN bon,
           RevertMuat(b) \/ VoidMuat(b)
    PROVE  /\ PapersBacked'
           /\ \A t \in Tank : /\ \A c : Inspected(eir'[t], c) <=> Inspected(eir[t], c)
                              /\ status'[t] = "Booked" => status[t] = "Booked" \/ Expected(t)
<1>1. ASSUME NEW t \in Tank PROVE SamePapers(eir[t], eir'[t], Len(bon'))
  <2>1. OnBons(eir[t], Len(bon)) /\ b \in Nat /\ "Out" \in Direction
    BY BonType DEF PapersAgree, PapersBacked, Direction
  <2>2. eir'[t] = eir[t] \/ eir'[t] = ReleasedEIR(t, b, "Out")
    BY DEF RevertMuat, VoidMuat
  <2> QED
    BY <2>1, <2>2, ReleasedPapers, PapersSelf
<1>2. ASSUME NEW t \in Tank, status'[t] = "Booked" PROVE status[t] = "Booked"
  <2>1. \/ status'[t] = status[t]
        \/ status'[t] = Settled("Available", ReversedGate(b, t), eir[t], work[t])
    BY DEF RevertMuat, VoidMuat
  <2> QED
    BY <1>2, <2>1 DEF Settled, Present
<1>3. inDate' = inDate
  BY DEF RevertMuat, VoidMuat
<1>4. PapersBacked'
  BY <1>1, <1>3, PapersStay DEF PapersAgree
<1> QED
  BY <1>1, <1>2, <1>4 DEF SamePapers

(* A bon sent back or edited with the tanks where they stand.              *)
LEMMA StillPapers ==
    ASSUME TypeOK, PapersAgree, BonsKept, Len(bon') = Len(bon), UNCHANGED <<eir, status, inDate>>
    PROVE  /\ PapersBacked'
           /\ \A t \in Tank : /\ \A c : Inspected(eir'[t], c) <=> Inspected(eir[t], c)
                              /\ status'[t] = "Booked" => status[t] = "Booked" \/ Expected(t)
<1>1. \A t \in Tank : SamePapers(eir[t], eir'[t], Len(bon'))
  BY PapersSelf DEF PapersAgree, PapersBacked
<1>2. PapersBacked'
  BY <1>1, PapersStay DEF PapersAgree
<1> QED
  BY <1>2

LEMMA MarkedPapers ==
    ASSUME TypeOK, BonsConfirmed, PapersAgree, NEW b \in DOMAIN bon,
           \/ ResubmitBongkar(b) \/ ResubmitMuat(b) \/ RevertBongkar(b) \/ RevertMuat(b)
           \/ VoidBongkar(b) \/ VoidMuat(b)
           \/ \E S \in SUBSET Lines[bon[b].booking] : EditBongkar(b, S) \/ EditMuat(b, S)
    PROVE  PapersAgree'
<1>1. /\ bon[b].booking \in Booking /\ bon[b].tanks \in SUBSET Tank /\ b \in Nat
      /\ bon[b].tanks \in SUBSET Lines[bon[b].booking]
  BY BonType DEF PapersAgree, BonsListed
<1>2. /\ DOMAIN bon' = DOMAIN bon /\ Len(bon') = Len(bon)
      /\ \A c \in DOMAIN bon \ {b} : bon'[c] = bon[c]
      /\ bon'[b].booking = bon[b].booking
  BY BonMarked
<1>3. BonsKept /\ b \in 0..Len(bon')
  <2>1. bon \in Seq(BonRec)
    BY DEF TypeOK
  <2>2. Len(bon) \in Nat /\ b \in 0..Len(bon)
    BY <1>1, <2>1, SequenceShape
  <2> QED
    BY <1>2, <2>2 DEF BonsKept
<1>4. BonsListed'
  <2>1. bon'[b].tanks \subseteq Lines[bon[b].booking]
    BY <1>1, BonMarkedSo
  <2> QED
    BY <1>2, <2>1 DEF PapersAgree, BonsListed
<1>5. /\ PapersBacked'
      /\ \A t \in Tank : /\ \A c : Inspected(eir'[t], c) <=> Inspected(eir[t], c)
                         /\ status'[t] = "Booked" => status[t] = "Booked" \/ Expected(t)
  <2>1. CASE ResubmitBongkar(b)
    <3>1. /\ bon[b].booking \in InBooking /\ b \in DOMAIN bon'
          /\ Arrive(b, bon[b].booking, bon[b].tanks)
      BY <1>2, <2>1 DEF ResubmitBongkar
    <3> QED
      BY <1>1, <1>2, <1>3, <3>1, ArrivePapers
  <2>2. CASE ResubmitMuat(b)
    <3>1. Depart(b, bon[b].booking, bon[b].tanks)
      BY <2>2 DEF ResubmitMuat
    <3> QED
      BY <1>1, <1>3, <3>1, DepartPapers
  <2>3. CASE RevertMuat(b) \/ VoidMuat(b)
    BY <1>2, <1>3, <2>3, ReversalPapers
  <2>4. CASE VoidBongkar(b)
    <3>1. bon[b].booking \in InBooking /\ UndoArrival(b, bon[b].tanks)
      BY <2>4 DEF VoidBongkar
    <3> QED
      BY <1>2, <1>3, <3>1, UndoPapers
  <2>5. CASE \E S \in SUBSET Lines[bon[b].booking] : EditBongkar(b, S)
    <3>1. PICK S \in SUBSET bon[b].tanks : bon[b].booking \in InBooking /\ UndoArrival(b, S)
      BY <2>5 DEF EditBongkar
    <3> QED
      BY <1>2, <1>3, <3>1, UndoPapers
  <2>6. CASE RevertBongkar(b) \/ \E S \in SUBSET Lines[bon[b].booking] : EditMuat(b, S)
    <3>1. UNCHANGED <<eir, status, inDate>>
      BY <2>6 DEF RevertBongkar, EditMuat
    <3> QED
      BY <1>2, <1>3, <3>1, StillPapers
  <2> QED
    BY <2>1, <2>2, <2>3, <2>4, <2>5, <2>6
<1>6. CompletedAgrees'
  <2>1. ASSUME bon[b].booking \in InBooking
        PROVE  \/ ResubmitBongkar(b) \/ RevertBongkar(b) \/ VoidBongkar(b)
               \/ \E S \in SUBSET Lines[bon[b].booking] : EditBongkar(b, S)
    BY <2>1 DEF ResubmitMuat, RevertMuat, VoidMuat, EditMuat
  <2>2. ASSUME bon'[b].booking \in InBooking
        PROVE  bon'[b].completed <=> bon'[b].ds = "Submitted" /\ AllInspected(b, bon'[b], eir')
    BY <1>2, <2>1, <2>2, BadgeOf DEF PapersAgree
  <2> QED
    BY <1>2, <1>5, <2>2, BadgeStep DEF PapersAgree
<1>7. BookedIsExpected'
  <2>1. bk' = bk
    BY DEF ResubmitBongkar, ResubmitMuat, RevertBongkar, RevertMuat, VoidBongkar, VoidMuat,
           EditBongkar, EditMuat
  <2> QED
    BY <1>5, <2>1, ExpectedStays DEF PapersAgree
<1> QED
  BY <1>4, <1>5, <1>6, <1>7 DEF PapersAgree

(* EIRs rewritten in place, each for the bon it was for.                   *)
SameForm(es, fs) ==
    /\ DOMAIN fs = DOMAIN es
    /\ \A j \in DOMAIN es : fs[j].type = es[j].type /\ fs[j].bon = es[j].bon

(* At most the verdict of the i-th is another.                             *)
OneMarked(es, fs, i) == SameForm(es, fs) /\ \A j \in DOMAIN es : j # i => fs[j].ds = es[j].ds

LEMMA SameFormPapers ==
    ASSUME PapersAgree, BonsKept, Len(bon') = Len(bon), inDate' = inDate,
           \A t \in Tank : SameForm(eir[t], eir'[t])
    PROVE  PapersBacked'
<1>1. ASSUME NEW t \in Tank
      PROVE  /\ OnBons(eir'[t], Len(bon'))
             /\ inDate'[t] \/ HasEIRIn(eir'[t]) => Backed(t)'
  <2>1. OnBons(eir[t], Len(bon)) /\ (inDate[t] \/ HasEIRIn(eir[t]) => Backed(t))
    BY DEF PapersAgree, PapersBacked
  <2>2. OnBons(eir'[t], Len(bon'))
    BY <2>1 DEF OnBons, SameForm
  <2>3. HasEIRIn(eir'[t]) => HasEIRIn(eir[t])
    BY DEF HasEIRIn, SameForm
  <2> QED
    BY <2>1, <2>2, <2>3, BackedStays
<1> QED
  BY <1>1 DEF PapersBacked

LEMMA BadgeListed ==
    ASSUME TypeOK, PapersAgree, NEW c, NEW es, bon' = bon \/ bon' = RefreshedBons(c, es)
    PROVE  BonsKept /\ Len(bon') = Len(bon) /\ BonsListed'
<1>1. /\ DOMAIN bon' = DOMAIN bon /\ Len(bon') = Len(bon)
      /\ \A b \in DOMAIN bon : bon'[b].booking = bon[b].booking /\ bon'[b].tanks = bon[b].tanks
  BY BadgeOnly
<1>2. Len(bon) \in Nat
  BY DEF TypeOK
<1> QED
  BY <1>1, <1>2 DEF BonsKept, BonsListed, PapersAgree

LEMMA SettlePapers ==
    ASSUME TypeOK, PapersAgree, NEW t \in Tank, NEW i \in DOMAIN eir[t], NEW st, NEW es, NEW ws,
           Settle(t, st, es, ws, eir[t][i].bon), OneMarked(eir[t], es, i),
           st = "Booked" => status[t] = "Booked" \/ Expected(t),
           inDate' = inDate, bk' = bk
    PROVE  PapersAgree'
<1>1. eir'[t] = es /\ \A u \in Tank \ {t} : eir'[u] = eir[u]
  BY DEF Settle, TypeOK
<1>2. bon' = RefreshedBons(eir[t][i].bon, eir')
  BY DEF Settle
<1>3. BonsKept /\ Len(bon') = Len(bon) /\ BonsListed'
  BY <1>2, BadgeListed
<1>4. \A u \in Tank : SameForm(eir[u], eir'[u])
  BY <1>1 DEF OneMarked, SameForm
<1>5. PapersBacked'
  BY <1>3, <1>4, SameFormPapers
<1>6. ASSUME NEW c, c # eir[t][i].bon PROVE Inspected(es, c) <=> Inspected(eir[t], c)
  BY <1>6 DEF Inspected, OneMarked, SameForm
<1>7. CompletedAgrees'
  BY <1>6, BadgeRefreshed DEF PapersAgree
<1>8. ASSUME NEW u \in Tank, status'[u] = "Booked" PROVE status[u] = "Booked" \/ Expected(u)
  <2>1. status'[u] = IF u = t THEN Settled(st, gate[t], es, ws) ELSE status[u]
    BY DEF Settle, TypeOK
  <2>2. Settled(st, gate[t], es, ws) = "Booked" => st = "Booked"
    BY DEF Settled
  <2> QED
    BY <1>8, <2>1, <2>2
<1>9. BookedIsExpected'
  BY <1>8, ExpectedStays DEF PapersAgree
<1> QED
  BY <1>3, <1>5, <1>7, <1>9 DEF PapersAgree

(* The requests that write no bon and no EIR-In's verdict.                 *)
LEMMA UninspectedPapers ==
    ASSUME TypeOK, PapersAgree, bon' = bon, inDate' = inDate, bk' = bk,
           \A t \in Tank : SameForm(eir[t], eir'[t]),
           \A t \in Tank : \A j \in DOMAIN eir[t] :
                eir[t][j].type = "In" => eir'[t][j].ds = eir[t][j].ds,
           \A t \in Tank : status'[t] = "Booked" => status[t] = "Booked"
    PROVE  PapersAgree'
<1>1. BonsKept /\ Len(bon') = Len(bon) /\ BonsListed'
  BY BadgeListed
<1>2. PapersBacked'
  BY <1>1, SameFormPapers
<1>3. ASSUME NEW t \in Tank, NEW c PROVE Inspected(eir'[t], c) <=> Inspected(eir[t], c)
  BY DEF Inspected, SameForm
<1>4. CompletedAgrees'
  BY <1>3, BadgeStays DEF PapersAgree
<1>5. BookedIsExpected'
  BY ExpectedStays DEF PapersAgree
<1> QED
  BY <1>1, <1>2, <1>4, <1>5 DEF PapersAgree

LEMMA EIRStepPapers ==
    ASSUME TypeOK, BonsConfirmed, PapersAgree, NEW t \in Tank, EIRStep(t) PROVE PapersAgree'
<1>1. PICK i \in DOMAIN eir[t] :
        \/ StartEIR(t, i)
        \/ \E tick \in SUBSET WorkKind : SubmitEIRIn(t, i, tick)
        \/ SubmitEIROut(t, i) \/ RevertEIR(t, i) \/ VoidEIR(t, i) \/ DiscardEIR(t, i)
  BY DEF EIRStep
<1>2. eir[t] \in Seq(EIRRec) /\ \A j \in DOMAIN eir[t] : eir[t][j] \in EIRRec
  BY PapersOf
<1>3. inDate' = inDate /\ bk' = bk
  BY <1>1 DEF StartEIR, SubmitEIRIn, SubmitEIROut, RevertEIR, VoidEIR, DiscardEIR
<1>4. ASSUME NEW ds PROVE OneMarked(eir[t], [eir[t] EXCEPT ![i].ds = ds], i)
  BY <1>2 DEF EIRRec, OneMarked, SameForm
<1>5. CASE (\E tick \in SUBSET WorkKind : SubmitEIRIn(t, i, tick)) \/ DiscardEIR(t, i)
  <2>1. OneMarked(eir[t], [eir[t] EXCEPT ![i].ds = "Submitted", ![i].snap = status[t]], i)
    BY <1>2 DEF EIRRec, OneMarked, SameForm
  <2>2. PICK es, ws : /\ Settle(t, status[t], es, ws, eir[t][i].bon)
                      /\ OneMarked(eir[t], es, i)
    BY <1>4, <1>5, <2>1 DEF SubmitEIRIn, DiscardEIR
  <2> QED
    BY <1>3, <2>2, SettlePapers
<1>6. CASE (RevertEIR(t, i) \/ VoidEIR(t, i)) /\ eir[t][i].type = "In"
  <2>1. eir[t][i].snap = "Booked" => Expected(t)
    BY <1>6, BackedExpected DEF PapersAgree, PapersBacked, HasEIRIn
  <2>2. PICK es, ws : /\ Settle(t, eir[t][i].snap, es, ws, eir[t][i].bon)
                      /\ OneMarked(eir[t], es, i)
    BY <1>4, <1>6 DEF RevertEIR, VoidEIR
  <2> QED
    BY <1>3, <2>1, <2>2, SettlePapers
<1>7. CASE \/ StartEIR(t, i) \/ SubmitEIROut(t, i)
           \/ (RevertEIR(t, i) \/ VoidEIR(t, i)) /\ eir[t][i].type # "In"
  <2>1. PICK es : /\ eir' = [eir EXCEPT ![t] = es] /\ SameForm(eir[t], es)
                  /\ \A j \in DOMAIN eir[t] : eir[t][j].type = "In" => es[j].ds = eir[t][j].ds
    <3>1. CASE StartEIR(t, i)
      <4>1. eir' = [eir EXCEPT ![t] = [eir[t] EXCEPT ![i].started = TRUE]]
        BY <3>1 DEF StartEIR
      <4>2. \A j \in DOMAIN eir[t] : [eir[t] EXCEPT ![i].started = TRUE][j].ds = eir[t][j].ds
        BY <1>2 DEF EIRRec
      <4>3. SameForm(eir[t], [eir[t] EXCEPT ![i].started = TRUE])
        BY <1>2 DEF EIRRec, SameForm
      <4> QED
        BY <4>1, <4>2, <4>3
    <3>2. CASE ~StartEIR(t, i)
      <4>1. PICK ds : eir' = [eir EXCEPT ![t] = [eir[t] EXCEPT ![i].ds = ds]]
        BY <1>7, <3>2 DEF SubmitEIROut, RevertEIR, VoidEIR
      <4>2. eir[t][i].type # "In"
        BY <1>7, <3>2 DEF SubmitEIROut
      <4>3. SameForm(eir[t], [eir[t] EXCEPT ![i].ds = ds])
        BY <1>4 DEF OneMarked
      <4>4. \A j \in DOMAIN eir[t] :
              eir[t][j].type = "In" => [eir[t] EXCEPT ![i].ds = ds][j].ds = eir[t][j].ds
        BY <1>2, <4>2
      <4> QED
        BY <4>1, <4>3, <4>4
    <3> QED
      BY <3>1, <3>2
  <2>2. bon' = bon
    BY <1>7 DEF StartEIR, SubmitEIROut, RevertEIR, VoidEIR
  <2>3. ASSUME NEW u \in Tank PROVE status'[u] = "Booked" => status[u] = "Booked"
    <3>1. \/ status'[u] = status[u]
          \/ status'[u] = Settled(status[u], gate[u], eir'[u], work[u])
      BY <1>7 DEF StartEIR, SubmitEIROut, RevertEIR, VoidEIR, TypeOK
    <3> QED
      BY <3>1 DEF Settled
  <2>4. ASSUME NEW u \in Tank
        PROVE  /\ SameForm(eir[u], eir'[u])
               /\ \A j \in DOMAIN eir[u] : eir[u][j].type = "In" => eir'[u][j].ds = eir[u][j].ds
    <3>1. eir'[u] = IF u = t THEN es ELSE eir[u]
      BY <2>1 DEF TypeOK
    <3> QED
      BY <2>1, <3>1 DEF SameForm
  <2> QED
    BY <1>3, <2>2, <2>3, <2>4, UninspectedPapers
<1> QED
  BY <1>1, <1>5, <1>6, <1>7

LEMMA WorkStepPapers ==
    ASSUME TypeOK, PapersAgree, NEW t \in Tank, WorkStep(t) PROVE PapersAgree'
<1>1. PICK ws : WorkSaved(t, ws)
  BY DEF WorkStep, RaiseWork, MoveWork, CancelWork
<1>2. bon' = bon /\ eir' = eir /\ inDate' = inDate /\ bk' = bk
  BY <1>1 DEF WorkSaved
<1>3. ASSUME NEW u \in Tank PROVE status'[u] = "Booked" => status[u] = "Booked"
  <2>1. \/ status'[u] = status[u]
        \/ status'[u] = Settled(status[u], gate[u], eir[u], ws)
    BY <1>1 DEF WorkSaved, TypeOK
  <2> QED
    BY <2>1 DEF Settled
<1>4. \A u \in Tank : SameForm(eir[u], eir'[u])
  BY <1>2 DEF SameForm
<1> QED
  BY <1>2, <1>3, <1>4, UninspectedPapers

(* An arrival bon reads Completed exactly while its tanks' EIR-Ins stand,  *)
(* and a Booked tank is expected, whatever the office does: what came in   *)
(* has a bon, a bon keeps its booking Confirmed, and every request that    *)
(* changes an EIR-In's verdict refreshes the one bon it is for.            *)
THEOREM PapersSpeakTrue == Spec => []BookingsAgree
<1>1. Init => PapersAgree
  BY DEF Init, PapersAgree, BonsListed, CompletedAgrees, BookedIsExpected, PapersBacked, OnBons,
         HasEIRIn
<1>2. TypeOK /\ BonsConfirmed /\ PapersAgree /\ [Next]_vars => PapersAgree'
  <2>1. SUFFICES ASSUME TypeOK, BonsConfirmed, PapersAgree, [Next]_vars PROVE PapersAgree'
    OBVIOUS
  <2>2. CASE UNCHANGED vars \/ ToggleEnforceAll
    <3>1. UNCHANGED <<bon, eir, inDate, bk, status>>
      BY <2>2 DEF vars, ToggleEnforceAll
    <3> QED
      BY <2>1, <3>1 DEF PapersAgree, BonsListed, CompletedAgrees, BookedIsExpected, PapersBacked,
                        OnBons, HasEIRIn, Backed, AllInspected
  <2>3. CASE \E k \in Booking : BookingStep(k)
    BY <2>1, <2>3, BookingStepPapers
  <2>4. CASE BonStep
    BY <2>1, <2>4, IssuePapers, MarkedPapers DEF BonStep
  <2>5. CASE \E t \in Tank : EIRStep(t) \/ WorkStep(t)
    BY <2>1, <2>5, EIRStepPapers, WorkStepPapers
  <2> QED
    BY <2>1, <2>2, <2>3, <2>4, <2>5 DEF Next
<1>3. PapersAgree => BookingsAgree
  BY DEF PapersAgree, BookingsAgree
<1> QED
  BY <1>1, <1>2, <1>3, TypeCorrect, BonsStayConfirmed, PTL DEF Spec

-----------------------------------------------------------------------------
(***************************************************************************)
(* Part three: the yard's register.                                        *)
(* The register (Gate Entry), the tank's status and the bons tell one      *)
(* story, and the whole of it is YardPresence, of an office that keeps the *)
(* rules (Lapse = {}; the run OldDeparture shows what one lapse is enough  *)
(* for).                                                                   *)
(***************************************************************************)

-----------------------------------------------------------------------------
(* The newest of a set of documents                                        *)

(* A finite set of numbers has a greatest one: else the sets of the        *)
(* greater ones would have none that is smallest.                          *)
LEMMA HasGreatest ==
    ASSUME NEW S \in SUBSET Nat, IsFiniteSet(S), S # {}
    PROVE  \E x \in S : \A y \in S : y <= x
<1> DEFINE above == [x \in S |-> {y \in S : x < y}]
           aboves == {above[x] : x \in S}
<1>1. aboves \subseteq SUBSET S /\ aboves # {}
  OBVIOUS
<1>2. IsWellFoundedOn(StrictSubsetOrdering(S), SUBSET S)
  BY FS_StrictSubsetOrderingWellFounded, FS_FiniteSubsetsOfFinite
<1>3. \E U \in aboves : \A V \in aboves : <<V, U>> \notin StrictSubsetOrdering(S)
  <2> HIDE DEF aboves
  <2> QED
    BY <1>1, <1>2, WFMin
<1>4. PICK x \in S : \A y \in S : <<above[y], above[x]>> \notin StrictSubsetOrdering(S)
  BY <1>3
<1>5. ASSUME NEW y \in S, x < y PROVE FALSE
  <2>1. above[y] = {z \in S : y < z} /\ above[x] = {z \in S : x < z} /\ y \in Nat
    OBVIOUS
  <2>2. \A z \in S : y < z => x < z
    BY <1>5
  <2>3. y \notin {z \in S : y < z}
    BY <2>1
  <2> HIDE DEF above
  <2>4. above[y] \subseteq above[x] /\ y \in above[x] /\ y \notin above[y]
    BY <1>5, <2>1, <2>2, <2>3
  <2>5. above[y] \in SUBSET S /\ above[x] \in SUBSET S
    BY <2>1
  <2> QED
    BY <1>4, <2>4, <2>5 DEF StrictSubsetOrdering
<1> QED
  BY <1>5

(* Whatever is at least all of a set it belongs to is its newest.          *)
LEMMA NewestIs ==
    ASSUME NEW S \in SUBSET Nat, NEW n \in S, \A m \in S : m <= n
    PROVE  Newest(S) = n
<1>1. Newest(S) = CHOOSE x \in S : \A m \in S : m <= x
  BY DEF Newest
<1>2. Newest(S) \in S /\ \A m \in S : m <= Newest(S)
  BY <1>1
<1>3. Newest(S) <= n /\ n <= Newest(S) /\ Newest(S) \in Nat
  BY <1>2
<1> QED
  BY <1>3

LEMMA NewestOfSome ==
    ASSUME NEW S \in SUBSET Nat, IsFiniteSet(S), S # {}
    PROVE  Newest(S) \in S /\ \A m \in S : m <= Newest(S)
BY HasGreatest, NewestIs

(* The newest stays the newest when another one goes.                      *)
LEMMA NewestStays ==
    ASSUME NEW S \in SUBSET Nat, 0 \notin S, NEW T \in SUBSET S, Newest(S) \in T
    PROVE  Newest(T) = Newest(S)
<1>1. Newest(S) # 0
  OBVIOUS
<1>2. Newest(S) \in S /\ \A m \in S : m <= Newest(S)
  BY <1>1 DEF Newest
<1> QED
  BY <1>2, NewestIs

-----------------------------------------------------------------------------
(* One tank's gate log                                                     *)

Standing(g) == {r \in g : r.st # "Cancelled"}
Closed(g) == {r \in g : r.st = "Closed"}

(* The log of a tank that has left n times: one visit per arrival bon, at  *)
(* most one of them open, and one departure per number.                    *)
LogFits(g, n) ==
    /\ g \subseteq GateRec
    /\ \A q, r \in Standing(g) : q.arr = r.arr => q = r
    /\ \A q, r \in OpenEntries(g) : q = r
    /\ \A r \in Closed(g) : r.out \in 1..n
    /\ \A q, r \in Closed(g) : q.out = r.out => q = r
    /\ n > 0 => g # {}

(* The tank's status, its visit date and its newest arrival bon fit it.    *)
TankFits(g, n, st, in, last) ==
    /\ LogFits(g, n)
    /\ st \in Present <=> OpenEntries(g) # {}
    /\ \A r \in OpenEntries(g) : r.arr = last
    /\ st \in Present => in
    /\ st = "Gate_Out" /\ ~in => n = 0

(* Every row was opened by an arrival bon whose booking lists the tank.    *)
RowsBacked(t, g, bons) ==
    \A r \in g : /\ r.arr \in DOMAIN bons /\ bons[r.arr].booking \in InBooking
                 /\ t \in Lines[bons[r.arr].booking]
                 /\ r.muat <= Len(bons)

(* A log whose rows change in nothing but the EIR-Out they carry.          *)
Relinked(g, h) ==
    \E f \in [g -> GateRec] :
        /\ h = {f[r] : r \in g}
        /\ \A r \in g : /\ f[r].arr = r.arr /\ f[r].muat = r.muat
                        /\ f[r].out = r.out /\ f[r].st = r.st

LEMMA RelinkedFits ==
    ASSUME NEW g, NEW h, NEW n, NEW st, NEW in, NEW last,
           TankFits(g, n, st, in, last), Relinked(g, h)
    PROVE  TankFits(h, n, st, in, last)
<1>1. PICK f \in [g -> GateRec] :
        /\ h = {f[r] : r \in g}
        /\ \A r \in g : /\ f[r].arr = r.arr /\ f[r].muat = r.muat
                        /\ f[r].out = r.out /\ f[r].st = r.st
  BY DEF Relinked
<1>2. LogFits(h, n)
  BY <1>1 DEF TankFits, LogFits, Standing, Closed, OpenEntries
<1>3. OpenEntries(h) # {} <=> OpenEntries(g) # {}
  BY <1>1 DEF OpenEntries
<1>4. \A r \in OpenEntries(h) : r.arr = last
  BY <1>1 DEF OpenEntries, TankFits
<1> QED
  BY <1>2, <1>3, <1>4 DEF TankFits

(* A visit opens on a bon that has opened no other that still stands.      *)
LEMMA OpenedFits ==
    ASSUME NEW g, NEW n, NEW st, NEW in, NEW last, TankFits(g, n, st, in, last),
           st \notin Present, NEW b \in Nat, \A r \in Standing(g) : r.arr # b,
           NEW now \in Present
    PROVE  TankFits(g \cup {[arr |-> b, muat |-> 0, out |-> 0, eout |-> 0, st |-> "Open"]},
                    n, now, TRUE, b)
<1> DEFINE new == [arr |-> b, muat |-> 0, out |-> 0, eout |-> 0, st |-> "Open"]
           h == g \cup {new}
<1>1. new \in GateRec /\ new.arr = b /\ new.st = "Open"
  BY DEF GateRec
<1> HIDE DEF new
<1>2. OpenEntries(g) = {} /\ OpenEntries(h) = {new} /\ Closed(h) = Closed(g)
      /\ Standing(h) = Standing(g) \cup {new}
  BY <1>1 DEF TankFits, OpenEntries, Closed, Standing
<1>3. LogFits(h, n)
  BY <1>1, <1>2 DEF TankFits, LogFits
<1>4. TankFits(h, n, now, TRUE, b)
  BY <1>1, <1>2, <1>3 DEF TankFits, Present
<1> QED
  BY <1>4 DEF new

(* The closed rows are as many as their departure numbers.                 *)
LEMMA ClosedCounted ==
    ASSUME NEW n \in Nat, NEW g, LogFits(g, n)
    PROVE  /\ IsFiniteSet(Closed(g))
           /\ Cardinality(Closed(g)) = Cardinality({r.out : r \in Closed(g)})
<1> DEFINE outs == {r.out : r \in Closed(g)}
           f == [r \in Closed(g) |-> r.out]
<1>1. outs \subseteq 1..n
  BY DEF LogFits
<1>2. IsFiniteSet(outs)
  <2>1. IsFiniteSet(1..n)
    BY FS_Interval
  <2> HIDE DEF outs
  <2> QED
    BY <1>1, <2>1, FS_Subset
<1>3. f \in Bijection(Closed(g), outs)
  <2>1. f \in [Closed(g) -> outs]
    OBVIOUS
  <2>2. \A q, r \in Closed(g) : f[q] = f[r] => q = r
    BY DEF LogFits
  <2>3. \A o \in outs : \E r \in Closed(g) : f[r] = o
    OBVIOUS
  <2> HIDE DEF f, outs
  <2> QED
    BY <2>1, <2>2, <2>3 DEF Bijection, Injection, Surjection, IsInjective
<1>4. ExistsBijection(outs, Closed(g))
  <2>1. ExistsBijection(Closed(g), outs)
    BY <1>3 DEF ExistsBijection
  <2> QED
    BY <2>1, Fun_ExistsBijSymmetric
<1> HIDE DEF outs
<1>5. IsFiniteSet(Closed(g)) /\ Cardinality(Closed(g)) = Cardinality(outs)
  BY <1>2, <1>4, FS_Bijection
<1> QED
  BY <1>5 DEF outs

(* A tank that stays where it is, in the yard or out of it.                *)
LEMMA StillFits ==
    ASSUME NEW g, NEW n, NEW st, NEW in, NEW last, TankFits(g, n, st, in, last),
           NEW now, now \in Present <=> st \in Present,
           NEW newest, newest = last \/ st \notin Present,
           now = "Gate_Out" /\ ~in => n = 0
    PROVE  TankFits(g, n, now, in, newest)
BY DEF TankFits

LEMMA SettledPlace ==
    ASSUME NEW st, NEW g, NEW es, NEW ws
    PROVE  /\ Settled(st, g, es, ws) \in Present <=> st \in Present
           /\ st \notin Present => Settled(st, g, es, ws) = st
BY DEF Settled, Present

-----------------------------------------------------------------------------
(* The bons                                                                *)

(* The arrival bons a tank is on.                                          *)
ArrivalBons(t) == BonsOf(t, "In", {"Draft", "Submitted"})

LEMMA SameArrivals ==
    ASSUME NEW t, \A b : b \in ArrivalBons(t)' <=> b \in ArrivalBons(t)
    PROVE  LastIn(t)' = LastIn(t)
<1>1. ArrivalBons(t)' = ArrivalBons(t)
  OBVIOUS
<1> QED
  BY <1>1 DEF LastIn, ArrivalBons

LEMMA LastInIs ==
    ASSUME TypeOK, NEW t \in Tank
    PROVE  /\ LastIn(t) \in {0} \cup DOMAIN bon
           /\ ArrivalBons(t) \subseteq 1..Len(bon)
           /\ LastIn(t) # 0 => LastIn(t) \in ArrivalBons(t)
           /\ \A b \in ArrivalBons(t) : b <= LastIn(t)
<1>1. bon \in Seq(BonRec)
  BY DEF TypeOK
<1>2. Len(bon) \in Nat /\ DOMAIN bon = 1..Len(bon)
  BY <1>1
<1>3. ArrivalBons(t) \subseteq DOMAIN bon
  BY DEF ArrivalBons, BonsOf
<1>4. ArrivalBons(t) \in SUBSET Nat /\ IsFiniteSet(ArrivalBons(t))
  <2>1. IsFiniteSet(1..Len(bon))
    BY <1>2, FS_Interval
  <2> QED
    BY <1>2, <1>3, <2>1, FS_Subset
<1>5. LastIn(t) = Newest(ArrivalBons(t))
  BY DEF LastIn, ArrivalBons
<1>6. LastIn(t) \in ArrivalBons(t) \cup {0}
  BY <1>5, NewestBelongs
<1>7. \A b \in ArrivalBons(t) : b <= LastIn(t)
  BY <1>4, <1>5, NewestOfSome
<1> QED
  BY <1>2, <1>3, <1>6, <1>7

-----------------------------------------------------------------------------
(* The invariant: what ties the log, the status and the bons together.     *)

TankAgrees(t) ==
    /\ TankFits(gate[t], departures[t], status[t], inDate[t], LastIn(t))
    /\ RowsBacked(t, gate[t], bon)

YardAgrees == BonsListed /\ \A t \in Tank : TankAgrees(t)

LEMMA BackedStill ==
    ASSUME TypeOK, BonsKept, NEW t, NEW g \in SUBSET GateRec, RowsBacked(t, g, bon)
    PROVE  RowsBacked(t, g, bon')
<1>1. Len(bon) \in Nat
  BY DEF TypeOK
<1>2. \A r \in g : r.muat \in Nat /\ r.muat <= Len(bon')
  BY <1>1 DEF BonsKept, RowsBacked, GateRec
<1> QED
  BY <1>2 DEF BonsKept, RowsBacked

(* A tank whose papers a request leaves alone.                             *)
LEMMA UntouchedAgrees ==
    ASSUME TypeOK, YardAgrees, BonsKept, NEW t \in Tank,
           gate'[t] = gate[t], departures'[t] = departures[t], inDate'[t] = inDate[t],
           status'[t] = status[t], LastIn(t)' = LastIn(t) \/ status[t] \notin Present
    PROVE  TankAgrees(t)'
<1>1. TankAgrees(t) /\ gate[t] \in SUBSET GateRec
  BY PapersOf DEF YardAgrees
<1>2. TankFits(gate[t], departures[t], status[t], inDate[t], LastIn(t)')
  BY <1>1, StillFits DEF TankAgrees, TankFits
<1>3. RowsBacked(t, gate[t], bon')
  BY <1>1, BackedStill DEF TankAgrees
<1> QED
  BY <1>2, <1>3 DEF TankAgrees

-----------------------------------------------------------------------------
(* Arrivals                                                                *)

LEMMA ArriveYard ==
    ASSUME TypeOK, YardAgrees, BonsKept, NEW b \in DOMAIN bon', NEW k \in InBooking, NEW S,
           Arrive(b, k, S), S \subseteq Lines[k], bon'[b].booking = k, b \in Nat,
           \A t \in S : status[t] \in Present => LastIn(t) = b,
           \A t \in S : status[t] \notin Present => \A r \in Standing(gate[t]) : r.arr # b,
           \A t \in S : LastIn(t)' = b,
           \A t \in Tank \ S : LastIn(t)' = LastIn(t)
    PROVE  \A t \in Tank : TankAgrees(t)'
<1>1. SUFFICES ASSUME NEW t \in Tank PROVE TankAgrees(t)'
  OBVIOUS
<1>2. /\ TankAgrees(t) /\ gate[t] \in SUBSET GateRec /\ status[t] \in Status
      /\ departures'[t] = departures[t]
  BY PapersOf DEF YardAgrees, Arrive
<1>3. CASE t \notin S
  <2>1. gate'[t] = gate[t] /\ inDate'[t] = inDate[t] /\ status'[t] = status[t]
    BY <1>3, PapersOf DEF Arrive, TypeOK
  <2> QED
    BY <1>2, <1>3, <2>1, UntouchedAgrees
<1>4. CASE t \in S
  <2> DEFINE new == [arr |-> b, muat |-> 0, out |-> 0, eout |-> 0, st |-> "Open"]
  <2>1. gate'[t] = ArrivalGate(t, b) /\ inDate'[t] = TRUE
    BY <1>4 DEF Arrive
  <2>2. status'[t] \in Present
    <3>1. status'[t] = Settled("In_Depot", ArrivalGate(t, b), ArrivalEIR(t, b, k), work[t])
      BY <1>4 DEF Arrive
    <3> QED
      BY <3>1, SettledPlace DEF Present
  <2>3. CASE status[t] \in Present
    <3>1. gate'[t] = gate[t]
      BY <1>2, <2>1, <2>3 DEF ArrivalGate, TankAgrees, TankFits
    <3>2. TankFits(gate[t], departures[t], status'[t], inDate'[t], LastIn(t)')
      BY <1>2, <1>4, <2>1, <2>2, <2>3 DEF TankAgrees, TankFits
    <3> QED
      BY <1>2, <3>1, <3>2, BackedStill DEF TankAgrees
  <2>4. CASE status[t] \notin Present
    <3>1. gate'[t] = gate[t] \cup {new}
      BY <1>2, <2>1, <2>4 DEF ArrivalGate, TankAgrees, TankFits
    <3>2. TankFits(gate[t] \cup {new}, departures[t], status'[t], TRUE, b)
      BY <1>2, <1>4, <2>2, <2>4, OpenedFits DEF TankAgrees
    <3>3. RowsBacked(t, gate[t] \cup {new}, bon')
      <4>1. RowsBacked(t, gate[t], bon')
        BY <1>2, BackedStill DEF TankAgrees
      <4>2. new.arr = b /\ new.muat = 0 /\ 0 <= Len(bon') /\ t \in Lines[bon'[b].booking]
        BY <1>4 DEF BonsKept
      <4> HIDE DEF new
      <4> QED
        BY <4>1, <4>2 DEF RowsBacked
    <3> QED
      BY <1>2, <1>4, <2>1, <3>1, <3>2, <3>3 DEF TankAgrees
  <2> QED
    BY <2>3, <2>4
<1> QED
  BY <1>3, <1>4

LEMMA IssueBongkarYard ==
    ASSUME Lapse = {}, TypeOK, YardAgrees, NEW k \in Booking, NEW S \in SUBSET Lines[k],
           IssueBongkar(k, S)
    PROVE  YardAgrees'
<1> DEFINE b == Len(bon) + 1
           r == [booking |-> k, tanks |-> S, ds |-> "Submitted", completed |-> S \subseteq NoEIR[k]]
<1>1. /\ k \in InBooking /\ S \in SUBSET Tank /\ bon' = Append(bon, r) /\ Arrive(b, k, S)
      /\ OnlyArrivalBon(b, S)
  BY DepotAssumption DEF IssueBongkar, Arrive
<1>2. r \in BonRec /\ r.booking = k /\ r.tanks = S /\ r.ds = "Submitted"
  BY <1>1 DEF BonRec
<1> HIDE DEF r
<1>3. /\ BonsKept /\ Len(bon) \in Nat /\ DOMAIN bon = 1..Len(bon) /\ DOMAIN bon' = 1..b
      /\ \A c \in DOMAIN bon : bon'[c] = bon[c]
      /\ bon'[b] = r
  BY <1>1, <1>2, BonFiled
<1>4. b \in DOMAIN bon' /\ b \notin DOMAIN bon /\ b \in Nat /\ \A c \in DOMAIN bon : c <= b
  BY <1>3
<1>5. BonsListed'
  BY <1>2, <1>3 DEF YardAgrees, BonsListed
<1>6. ASSUME NEW t \in Tank
      PROVE  /\ \A c : c \in ArrivalBons(t)' <=> c \in ArrivalBons(t) \/ (c = b /\ t \in S)
             /\ ArrivalBons(t)' \subseteq 1..b
  <2>1. \A c : c \in ArrivalBons(t)' <=> c \in ArrivalBons(t) \/ (c = b /\ t \in S)
    BY <1>1, <1>2, <1>3, <1>4 DEF ArrivalBons, BonsOf, DirectionOf
  <2>2. ArrivalBons(t)' \subseteq DOMAIN bon'
    BY DEF ArrivalBons, BonsOf
  <2> QED
    BY <1>3, <2>1, <2>2
<1>7. \A t \in Tank \ S : LastIn(t)' = LastIn(t)
  BY <1>6, SameArrivals
<1>8. ASSUME NEW t \in S PROVE LastIn(t)' = b
  <2>1. b \in ArrivalBons(t)' /\ ArrivalBons(t)' \in SUBSET Nat /\ \A c \in ArrivalBons(t)' : c <= b
    BY <1>1, <1>3, <1>6
  <2>2. LastIn(t)' = Newest(ArrivalBons(t)')
    BY DEF LastIn, ArrivalBons
  <2> QED
    BY <2>1, <2>2, NewestIs
<1>9. ASSUME NEW t \in S PROVE status[t] \notin Present
  <2>1. status[t] \in Present => LastIn(t) = b
    BY <1>1 DEF OnlyArrivalBon
  <2> QED
    BY <1>1, <1>3, <1>4, <2>1, LastInIs
<1>10. \A t \in S : \A q \in Standing(gate[t]) : q.arr # b
  BY <1>1, <1>4 DEF YardAgrees, TankAgrees, RowsBacked, Standing
<1>11. \A t \in Tank : TankAgrees(t)'
  BY <1>1, <1>2, <1>3, <1>4, <1>7, <1>8, <1>9, <1>10, ArriveYard
<1> QED
  BY <1>5, <1>11 DEF YardAgrees

LEMMA ResubmitBongkarYard ==
    ASSUME Lapse = {}, TypeOK, YardAgrees, NEW b \in DOMAIN bon, ResubmitBongkar(b)
    PROVE  YardAgrees'
<1> DEFINE k == bon[b].booking
           S == bon[b].tanks
<1>1. /\ k \in InBooking /\ S \in SUBSET Tank /\ Arrive(b, k, S) /\ OnlyArrivalBon(b, S)
      /\ Undisturbed(b) /\ bon[b].ds = "Draft" /\ b \in Nat
  BY BonType DEF ResubmitBongkar, Arrive
<1>2. /\ DOMAIN bon' = DOMAIN bon /\ Len(bon') = Len(bon)
      /\ \A c \in DOMAIN bon : /\ bon'[c].booking = bon[c].booking /\ bon'[c].tanks = bon[c].tanks
                               /\ c # b => bon'[c].ds = bon[c].ds
      /\ bon'[b].ds = "Submitted"
  BY BonMarked, BonMarkedSo
<1>3. BonsKept /\ BonsListed'
  <2>1. Len(bon) \in Nat
    BY DEF TypeOK
  <2>2. BonsKept
    BY <1>2, <2>1 DEF BonsKept
  <2> QED
    BY <1>2, <2>2 DEF YardAgrees, BonsListed
<1>4. ASSUME NEW t \in Tank PROVE LastIn(t)' = LastIn(t)
  <2>1. \A c : c \in ArrivalBons(t)' <=> c \in ArrivalBons(t)
    BY <1>1, <1>2 DEF ArrivalBons, BonsOf
  <2> QED
    BY <2>1, SameArrivals
<1>5. ASSUME NEW t \in S PROVE LastIn(t) = b
  <2>1. b \in ArrivalBons(t)
    BY <1>1 DEF ArrivalBons, BonsOf, DirectionOf
  <2>2. LastIn(t) <= b /\ b <= LastIn(t) /\ LastIn(t) \in Nat
    BY <1>1, <2>1, LastInIs DEF OnlyArrivalBon, TypeOK
  <2> QED
    BY <1>1, <2>2
<1>6. ASSUME NEW t \in S, status[t] \notin Present, NEW r \in Standing(gate[t]) PROVE r.arr # b
  <2>1. r \in GateRec /\ r.st # "Cancelled" /\ r \in gate[t]
    BY <1>1, PapersOf DEF Standing
  <2>2. r.st # "Open"
    BY <1>1, <1>6, <2>1 DEF YardAgrees, TankAgrees, TankFits, OpenEntries
  <2>3. r.st = "Closed"
    BY <2>1, <2>2 DEF GateRec
  <2> QED
    BY <1>1, <2>1, <2>3 DEF Undisturbed, PastVisitBon
<1>7. S \subseteq Lines[k] /\ bon'[b].booking = k /\ b \in DOMAIN bon'
  BY <1>2 DEF YardAgrees, BonsListed
<1>8. \A t \in Tank : TankAgrees(t)'
  <2> HIDE DEF k, S
  <2> QED
    BY <1>1, <1>3, <1>4, <1>5, <1>6, <1>7, ArriveYard
<1> QED
  BY <1>3, <1>8 DEF YardAgrees

-----------------------------------------------------------------------------
(* Departures                                                              *)

(* What a departure makes of a present tank's log: the open row is closed   *)
(* as the tank's next departure, on the bon.                                *)
LEMMA DepartureGateIs ==
    ASSUME TypeOK, NEW t \in Tank, NEW b \in Nat, NEW es \in Seq(EIRRec),
           OpenEntries(gate[t]) # {}
    PROVE  \E cur \in OpenEntries(gate[t]), done \in GateRec :
              /\ done.arr = cur.arr /\ done.out = departures[t] + 1 /\ done.st = "Closed"
              /\ done.muat = b
              /\ DepartureGate(t, b, es) = (gate[t] \ {cur}) \cup {done}
<1> DEFINE cur == CHOOSE r \in OpenEntries(gate[t]) : TRUE
           n == departures[t] + 1
           e == FinishedEIROut(t, b, es)
           done == [cur EXCEPT !.muat = b, !.out = n, !.st = "Closed", !.eout = e]
<1>1. cur \in OpenEntries(gate[t])
  OBVIOUS
<1>2. cur \in GateRec
  BY <1>1, PapersOf DEF OpenEntries
<1>3. n \in Nat /\ e \in Nat
  BY PapersOf, FinishedEIROutType
<1>4. DepartureGate(t, b, es) = (gate[t] \ {cur}) \cup {done}
  BY DEF DepartureGate
<1> HIDE DEF cur, n, e
<1>5. done \in GateRec /\ done.arr = cur.arr /\ done.out = n /\ done.st = "Closed" /\ done.muat = b
  BY <1>2, <1>3 DEF GateRec
<1> HIDE DEF done
<1> QED
  BY <1>1, <1>4, <1>5 DEF n

LEMMA DepartureFits ==
    ASSUME TypeOK, NEW t \in Tank, NEW b \in Nat, NEW es \in Seq(EIRRec),
           TankAgrees(t), status[t] \in Present
    PROVE  /\ TankFits(DepartureGate(t, b, es), departures[t] + 1, "Gate_Out", inDate[t], LastIn(t))
           /\ \E cur \in OpenEntries(gate[t]), done \in GateRec :
                 /\ DepartureGate(t, b, es) = (gate[t] \ {cur}) \cup {done}
                 /\ done.arr = cur.arr /\ done.muat = b /\ done.out = departures[t] + 1
                 /\ done \notin Closed(gate[t])
                 /\ Closed(DepartureGate(t, b, es)) = Closed(gate[t]) \cup {done}
<1> DEFINE g == gate[t]
           h == DepartureGate(t, b, es)
           n == departures[t]
           m == departures[t] + 1
           in == inDate[t]
           last == LastIn(t)
<1>1. n \in Nat /\ m \in Nat /\ n < m /\ TankFits(g, n, status[t], in, last)
      /\ OpenEntries(g) # {}
  BY PapersOf DEF TankAgrees, TankFits
<1>2. PICK cur \in OpenEntries(g), done \in GateRec :
        /\ done.arr = cur.arr /\ done.out = m /\ done.st = "Closed" /\ done.muat = b
        /\ h = (g \ {cur}) \cup {done}
  <2>1. OpenEntries(gate[t]) # {}
    BY <1>1
  <2> HIDE DEF g, h, n, m, in, last
  <2>2. \E cur \in OpenEntries(gate[t]), done \in GateRec :
          /\ done.arr = cur.arr /\ done.out = departures[t] + 1 /\ done.st = "Closed"
          /\ done.muat = b
          /\ DepartureGate(t, b, es) = (gate[t] \ {cur}) \cup {done}
    BY <2>1, DepartureGateIs
  <2> QED
    BY <2>2 DEF g, h, m
<1> HIDE DEF g, h, n, m, in, last
<1>3. cur \in g /\ cur.st = "Open" /\ cur \in Standing(g) /\ \A r \in OpenEntries(g) : r = cur
  BY <1>1 DEF OpenEntries, Standing, TankFits, LogFits
<1>4. OpenEntries(h) = {}
  BY <1>2, <1>3 DEF OpenEntries
<1>5. Closed(h) = Closed(g) \cup {done} /\ Standing(h) = (Standing(g) \ {cur}) \cup {done}
  BY <1>2, <1>3 DEF Closed, Standing
<1>6. \A r \in Closed(g) : r.out \in 1..n /\ r.out # m
  BY <1>1 DEF TankFits, LogFits
<1>7. LogFits(h, m)
  <2>1. h \subseteq GateRec /\ h # {}
    BY <1>1, <1>2 DEF TankFits, LogFits
  <2>2. \A q, r \in Standing(h) : q.arr = r.arr => q = r
    <3>1. \A q, r \in Standing(g) : q.arr = r.arr => q = r
      BY <1>1 DEF TankFits, LogFits
    <3> QED
      BY <1>2, <1>3, <1>5, <3>1
  <2>3. \A r \in Closed(h) : r.out \in 1..m
    BY <1>1, <1>2, <1>5, <1>6
  <2>4. \A q, r \in Closed(h) : q.out = r.out => q = r
    BY <1>1, <1>2, <1>5, <1>6 DEF TankFits, LogFits
  <2> QED
    BY <1>4, <2>1, <2>2, <2>3, <2>4 DEF LogFits
<1>8. TankFits(h, m, "Gate_Out", in, last)
  BY <1>1, <1>4, <1>7 DEF TankFits, Present
<1>9. done \notin Closed(g)
  BY <1>2, <1>6
<1> QED
  BY <1>2, <1>5, <1>8, <1>9 DEF g, h, m, in, last

LEMMA DepartYard ==
    ASSUME TypeOK, YardAgrees, BonsKept, NEW b \in Nat, b <= Len(bon'), NEW k \in Booking, NEW S,
           Depart(b, k, S), \A t \in S : status[t] \in Present,
           \A t \in Tank : LastIn(t)' = LastIn(t)
    PROVE  \A t \in Tank : TankAgrees(t)'
<1>1. SUFFICES ASSUME NEW t \in Tank PROVE TankAgrees(t)'
  OBVIOUS
<1>2. /\ TankAgrees(t) /\ gate[t] \in SUBSET GateRec /\ departures[t] \in Nat
      /\ inDate[t] \in BOOLEAN /\ inDate'[t] = inDate[t] /\ LastIn(t)' = LastIn(t)
  BY PapersOf DEF YardAgrees, Depart
<1>3. CASE t \notin S
  <2>1. gate'[t] = gate[t] /\ departures'[t] = departures[t] /\ status'[t] = status[t]
    BY <1>3 DEF Depart
  <2> QED
    BY <1>2, <2>1, UntouchedAgrees
<1>4. CASE t \in S
  <2> DEFINE es == AttachedEIR(t, b, k)
  <2>1. /\ gate'[t] = DepartureGate(t, b, es)
        /\ departures'[t] = departures[t] + 1 /\ status'[t] = "Gate_Out"
        /\ es \in Seq(EIRRec)
    BY <1>2, <1>4, AttachedEIRType DEF Depart
  <2> HIDE DEF es
  <2>2. status[t] \in Present
    BY <1>4
  <2>3. /\ TankFits(gate'[t], departures'[t], "Gate_Out", inDate[t], LastIn(t))
        /\ \E cur \in OpenEntries(gate[t]), done \in GateRec :
              /\ gate'[t] = (gate[t] \ {cur}) \cup {done}
              /\ done.arr = cur.arr /\ done.muat = b
    BY <1>2, <2>1, <2>2, DepartureFits
  <2>4. RowsBacked(t, gate'[t], bon')
    <3>1. PICK cur \in OpenEntries(gate[t]), done \in GateRec :
              /\ gate'[t] = (gate[t] \ {cur}) \cup {done}
              /\ done.arr = cur.arr /\ done.muat = b
      BY <2>3
    <3>2. RowsBacked(t, gate[t], bon') /\ cur \in gate[t]
      BY <1>2, BackedStill DEF TankAgrees, OpenEntries
    <3> QED
      BY <3>1, <3>2 DEF RowsBacked
  <2> QED
    BY <1>2, <2>1, <2>3, <2>4 DEF TankAgrees
<1> QED
  BY <1>3, <1>4

LEMMA IssueMuatYard ==
    ASSUME TypeOK, YardAgrees, NEW k \in Booking, NEW S \in SUBSET Lines[k], IssueMuat(k, S)
    PROVE  YardAgrees'
<1> DEFINE b == Len(bon) + 1
           r == [booking |-> k, tanks |-> S, ds |-> "Submitted", completed |-> TRUE]
<1>1. /\ k \notin InBooking /\ S \in SUBSET Tank /\ bon' = Append(bon, r) /\ Depart(b, k, S)
      /\ \A t \in S : status[t] \in Present
  BY DepotAssumption DEF IssueMuat, IssueGuard, RowsFit
<1>2. r \in BonRec /\ r.booking = k /\ r.tanks = S
  BY <1>1 DEF BonRec
<1> HIDE DEF r
<1>3. /\ BonsKept /\ Len(bon') = b /\ Len(bon) \in Nat /\ DOMAIN bon = 1..Len(bon)
      /\ DOMAIN bon' = 1..b
      /\ \A c \in DOMAIN bon : bon'[c] = bon[c]
      /\ bon'[b] = r
  BY <1>1, <1>2, BonFiled
<1>4. BonsListed'
  BY <1>2, <1>3 DEF YardAgrees, BonsListed
<1>5. \A t \in Tank : LastIn(t)' = LastIn(t)
  <2>1. ASSUME NEW t \in Tank, NEW c PROVE c \in ArrivalBons(t)' <=> c \in ArrivalBons(t)
    BY <1>1, <1>2, <1>3 DEF ArrivalBons, BonsOf, DirectionOf
  <2> QED
    BY <2>1, SameArrivals
<1>6. \A t \in Tank : TankAgrees(t)'
  BY <1>1, <1>3, <1>5, DepartYard
<1> QED
  BY <1>4, <1>6 DEF YardAgrees

(* A bon of a Tank Out booking is no tank's arrival.                       *)
LEMMA MuatKeepsArrivals ==
    ASSUME TypeOK, YardAgrees, NEW b \in DOMAIN bon, bon[b].booking \notin InBooking,
           DOMAIN bon' = DOMAIN bon, Len(bon') = Len(bon),
           \A c \in DOMAIN bon \ {b} : bon'[c] = bon[c],
           bon'[b].booking = bon[b].booking, bon'[b].tanks \subseteq Lines[bon[b].booking]
    PROVE  BonsKept /\ BonsListed' /\ \A t \in Tank : LastIn(t)' = LastIn(t)
<1>1. BonsKept
  <2>1. Len(bon) \in Nat
    BY DEF TypeOK
  <2> QED
    BY <2>1 DEF BonsKept
<1>2. BonsListed'
  BY DEF BonsListed, YardAgrees
<1>3. ASSUME NEW t \in Tank, NEW c PROVE c \in ArrivalBons(t)' <=> c \in ArrivalBons(t)
  BY DEF ArrivalBons, BonsOf, DirectionOf
<1> QED
  BY <1>1, <1>2, <1>3, SameArrivals

LEMMA ResubmitMuatYard ==
    ASSUME TypeOK, YardAgrees, NEW b \in DOMAIN bon, ResubmitMuat(b) PROVE YardAgrees'
<1>1. /\ bon[b].booking \in Booking \ InBooking /\ b \in Nat
      /\ Depart(b, bon[b].booking, bon[b].tanks) /\ \A t \in bon[b].tanks : status[t] \in Present
  BY BonType DEF ResubmitMuat, RowsFit
<1>2. /\ DOMAIN bon' = DOMAIN bon /\ Len(bon') = Len(bon)
      /\ \A c \in DOMAIN bon \ {b} : bon'[c] = bon[c]
      /\ bon'[b].booking = bon[b].booking /\ bon'[b].tanks \subseteq Lines[bon[b].booking]
  BY BonMarked, BonMarkedSo DEF YardAgrees, BonsListed
<1>3. b <= Len(bon')
  BY <1>2 DEF TypeOK
<1>4. BonsKept /\ BonsListed' /\ \A t \in Tank : LastIn(t)' = LastIn(t)
  BY <1>1, <1>2, MuatKeepsArrivals
<1>5. \A t \in Tank : TankAgrees(t)'
  BY <1>1, <1>3, <1>4, DepartYard
<1> QED
  BY <1>4, <1>5 DEF YardAgrees

(* What taking the last departure of a tank back makes of its log.         *)
LEMMA ReversedGateIs ==
    ASSUME TypeOK, NEW t \in Tank, NEW b, LogFits(gate[t], departures[t]),
           NEW r \in Closed(gate[t]), r.muat = b, r.out = departures[t]
    PROVE  \E back \in GateRec :
              /\ back.arr = r.arr /\ back.st = "Open" /\ back.muat = 0
              /\ ReversedGate(b, t) = (gate[t] \ {r}) \cup {back}
<1> DEFINE open(q) == [q EXCEPT !.muat = 0, !.out = 0, !.eout = 0, !.st = "Open"]
           mine == {q \in gate[t] : q.st = "Closed" /\ q.muat = b}
           last(q) == q \in mine /\ \A p \in mine : p.out <= q.out
<1>1. r \in GateRec /\ r \in mine /\ gate[t] \in SUBSET GateRec /\ departures[t] \in Nat
  BY PapersOf DEF Closed
<1>2. open(r) \in GateRec /\ open(r).arr = r.arr /\ open(r).st = "Open" /\ open(r).muat = 0
  BY <1>1 DEF GateRec
<1>3. \A q \in mine : q.out \in 1..departures[t] /\ (q.out = r.out => q = r)
  BY DEF LogFits, Closed
<1>4. \A q \in gate[t] : last(q) <=> q = r
  <2>1. \A q \in mine : q.out \in Nat /\ q.out <= r.out
    BY <1>3
  <2>2. last(r)
    BY <1>1, <2>1
  <2>3. ASSUME NEW q \in gate[t], last(q) PROVE q = r
    <3>1. q \in mine /\ r.out <= q.out /\ q.out <= r.out /\ q.out \in Nat /\ r.out \in Nat
      BY <1>1, <2>1, <2>3
    <3>2. q.out = r.out
      BY <3>1
    <3> QED
      BY <1>3, <3>1, <3>2
  <2> QED
    BY <2>2, <2>3
<1>5. ReversedGate(b, t) = {IF last(q) THEN open(q) ELSE q : q \in gate[t]}
  BY DEF ReversedGate
<1> HIDE DEF open, last
<1>6. ReversedGate(b, t) = (gate[t] \ {r}) \cup {open(r)}
  BY <1>1, <1>4, <1>5
<1> QED
  BY <1>2, <1>6

LEMMA ReversalFits ==
    ASSUME TypeOK, NEW t \in Tank, NEW b, TankAgrees(t), status[t] = "Gate_Out",
           NEW r \in Closed(gate[t]), r.muat = b, r.out = departures[t], r.arr = LastIn(t),
           NEW now \in Present
    PROVE  /\ TankFits(ReversedGate(b, t), departures[t], now, inDate[t], LastIn(t))
           /\ Closed(ReversedGate(b, t)) = Closed(gate[t]) \ {r}
           /\ \E back \in GateRec : /\ back.arr = r.arr /\ back.muat = 0 /\ back.st = "Open"
                                    /\ ReversedGate(b, t) = (gate[t] \ {r}) \cup {back}
<1> DEFINE g == gate[t]
           h == ReversedGate(b, t)
           n == departures[t]
           in == inDate[t]
           last == LastIn(t)
<1>1. n \in Nat /\ TankFits(g, n, "Gate_Out", in, last) /\ r.out = n /\ r.arr = last
      /\ r \in Closed(g)
  BY PapersOf DEF TankAgrees
<1>2. PICK back \in GateRec :
        back.arr = r.arr /\ back.st = "Open" /\ back.muat = 0 /\ h = (g \ {r}) \cup {back}
  <2>1. LogFits(gate[t], departures[t])
    BY <1>1 DEF TankFits
  <2> HIDE DEF g, h, n, in, last
  <2>2. \E back \in GateRec : /\ back.arr = r.arr /\ back.st = "Open" /\ back.muat = 0
                             /\ ReversedGate(b, t) = (gate[t] \ {r}) \cup {back}
    BY <2>1, ReversedGateIs
  <2> QED
    BY <2>2 DEF g, h
<1> HIDE DEF g, h, n, in, last
<1>3. r \in g /\ r.st = "Closed" /\ r \in Standing(g) /\ n \in 1..n
  BY <1>1 DEF Closed, Standing, TankFits, LogFits
<1>4. OpenEntries(g) = {}
  BY <1>1 DEF TankFits, Present
<1>5. OpenEntries(h) = {back} /\ Closed(h) = Closed(g) \ {r}
      /\ Standing(h) = (Standing(g) \ {r}) \cup {back}
  BY <1>2, <1>3, <1>4 DEF OpenEntries, Closed, Standing
<1>6. LogFits(h, n)
  <2>1. h \subseteq GateRec /\ h # {}
    BY <1>1, <1>2 DEF TankFits, LogFits
  <2>2. \A p, q \in Standing(h) : p.arr = q.arr => p = q
    <3>1. \A p, q \in Standing(g) : p.arr = q.arr => p = q
      BY <1>1 DEF TankFits, LogFits
    <3> QED
      BY <1>2, <1>3, <1>5, <3>1
  <2> QED
    BY <1>1, <1>5, <2>1, <2>2 DEF TankFits, LogFits
<1>7. n # 0 /\ in
  BY <1>1, <1>3 DEF TankFits
<1>8. TankFits(h, n, now, in, last)
  BY <1>1, <1>2, <1>5, <1>6, <1>7 DEF TankFits, Present
<1> QED
  BY <1>2, <1>5, <1>8 DEF g, h, n, in, last

(* A tank that comes back left last of all on this bon.                    *)
LEMMA ReversalYard ==
    ASSUME Lapse = {}, TypeOK, YardAgrees, NEW b \in DOMAIN bon, RevertMuat(b) \/ VoidMuat(b)
    PROVE  YardAgrees'
<1>1. /\ bon[b].booking \notin InBooking /\ LatestDeparture(b)
      /\ UNCHANGED <<inDate, departures>>
  BY DEF RevertMuat, VoidMuat
<1>2. /\ DOMAIN bon' = DOMAIN bon /\ Len(bon') = Len(bon)
      /\ \A c \in DOMAIN bon \ {b} : bon'[c] = bon[c]
      /\ bon'[b].booking = bon[b].booking /\ bon'[b].tanks \subseteq Lines[bon[b].booking]
  BY BonMarked, BonMarkedSo DEF YardAgrees, BonsListed
<1>3. BonsKept /\ BonsListed' /\ \A t \in Tank : LastIn(t)' = LastIn(t)
  BY <1>1, <1>2, MuatKeepsArrivals
<1>4. ASSUME NEW t \in Tank PROVE TankAgrees(t)'
  <2>1. /\ TankAgrees(t) /\ gate[t] \in SUBSET GateRec
        /\ inDate'[t] = inDate[t] /\ departures'[t] = departures[t] /\ LastIn(t)' = LastIn(t)
    BY <1>1, <1>3, PapersOf DEF YardAgrees
  <2>2. CASE ~Reversible(b, t)
    <3>1. gate'[t] = gate[t] /\ status'[t] = status[t]
      BY <2>2 DEF RevertMuat, VoidMuat
    <3> QED
      BY <1>3, <2>1, <3>1, UntouchedAgrees
  <2>3. CASE Reversible(b, t)
    <3>1. /\ gate'[t] = ReversedGate(b, t) /\ status[t] = "Gate_Out"
          /\ status'[t] = Settled("Available", ReversedGate(b, t), eir[t], work[t])
      BY <2>3 DEF RevertMuat, VoidMuat, Reversible
    <3>2. status'[t] \in Present
      BY <3>1, SettledPlace DEF Present
    <3>3. PICK r \in Closed(gate[t]) : r.muat = b /\ r.out = departures[t] /\ r.arr = LastIn(t)
      BY <1>1, <2>3 DEF LatestDeparture, Closed
    <3>4. /\ TankFits(ReversedGate(b, t), departures[t], status'[t], inDate[t], LastIn(t))
          /\ \E back \in GateRec : /\ back.arr = r.arr /\ back.muat = 0
                                   /\ ReversedGate(b, t) = (gate[t] \ {r}) \cup {back}
      BY <2>1, <3>1, <3>2, <3>3, ReversalFits
    <3>5. RowsBacked(t, gate'[t], bon')
      <4>1. RowsBacked(t, gate[t], bon') /\ r \in gate[t] /\ 0 <= Len(bon')
        BY <1>3, <2>1, BackedStill DEF TankAgrees, Closed, BonsKept
      <4> QED
        BY <3>1, <3>4, <4>1 DEF RowsBacked
    <3> QED
      BY <2>1, <3>1, <3>4, <3>5 DEF TankAgrees
  <2> QED
    BY <2>2, <2>3
<1> QED
  BY <1>3, <1>4 DEF YardAgrees

-----------------------------------------------------------------------------
(* Undoing an arrival                                                      *)

(* Only the open row of a bon's arrival is cancelled with it.              *)
LEMMA ReleasedGateIs ==
    ASSUME TypeOK, NEW t \in Tank, NEW b, LogFits(gate[t], departures[t])
    PROVE  /\ \A cur \in OpenEntries(gate[t]) : cur.arr = b =>
                \E gone \in GateRec :
                   /\ gone.arr = b /\ gone.muat = cur.muat /\ gone.st = "Cancelled"
                   /\ ReleasedGate(t, b) = (gate[t] \ {cur}) \cup {gone}
           /\ (\A r \in OpenEntries(gate[t]) : r.arr # b) => ReleasedGate(t, b) = gate[t]
<1> DEFINE cancel(r) == [r EXCEPT !.st = "Cancelled"]
           its(r) == r.arr = b /\ r.st = "Open"
<1>1. ReleasedGate(t, b) = {IF its(r) THEN cancel(r) ELSE r : r \in gate[t]}
  BY DEF ReleasedGate
<1>2. \A r \in OpenEntries(gate[t]) : r \in gate[t] /\ r \in GateRec /\ r.st = "Open"
  BY PapersOf DEF OpenEntries
<1>3. ASSUME NEW cur \in OpenEntries(gate[t]), cur.arr = b
      PROVE  \E gone \in GateRec :
                /\ gone.arr = b /\ gone.muat = cur.muat /\ gone.st = "Cancelled"
                /\ ReleasedGate(t, b) = (gate[t] \ {cur}) \cup {gone}
  <2>1. cancel(cur) \in GateRec /\ cancel(cur).arr = b /\ cancel(cur).muat = cur.muat
        /\ cancel(cur).st = "Cancelled"
    BY <1>2, <1>3 DEF GateRec
  <2>2. \A r \in gate[t] : its(r) <=> r = cur
    BY <1>2, <1>3 DEF LogFits, OpenEntries
  <2> HIDE DEF cancel, its
  <2>3. ReleasedGate(t, b) = (gate[t] \ {cur}) \cup {cancel(cur)}
    BY <1>1, <1>2, <2>2
  <2> QED
    BY <2>1, <2>3
<1>4. ASSUME \A r \in OpenEntries(gate[t]) : r.arr # b PROVE ReleasedGate(t, b) = gate[t]
  <2>1. \A r \in gate[t] : ~its(r)
    BY <1>4 DEF OpenEntries
  <2> HIDE DEF its
  <2> QED
    BY <1>1, <2>1
<1> QED
  BY <1>3, <1>4

(* A tank whose arrival is undone is expected again and has not come.      *)
LEMMA CancelledFits ==
    ASSUME TypeOK, NEW t \in Tank, NEW b, TankAgrees(t), status[t] \in Present,
           \A r \in OpenEntries(gate[t]) : r.arr = b
    PROVE  /\ LogFits(ReleasedGate(t, b), departures[t])
           /\ OpenEntries(ReleasedGate(t, b)) = {}
           /\ Closed(ReleasedGate(t, b)) = Closed(gate[t])
           /\ \E cur \in gate[t], gone \in GateRec :
                 /\ gone.arr = cur.arr /\ gone.muat = cur.muat
                 /\ ReleasedGate(t, b) = (gate[t] \ {cur}) \cup {gone}
<1> DEFINE g == gate[t]
           h == ReleasedGate(t, b)
           n == departures[t]
<1>1. LogFits(g, n) /\ g \subseteq GateRec /\ OpenEntries(g) # {}
      /\ \A r \in OpenEntries(g) : r.arr = b
  BY DEF TankAgrees, TankFits, LogFits
<1>2. PICK cur \in OpenEntries(g) : cur.arr = b
  BY <1>1
<1>3. PICK gone \in GateRec : /\ gone.arr = b /\ gone.muat = cur.muat /\ gone.st = "Cancelled"
                              /\ h = (g \ {cur}) \cup {gone}
  BY <1>1, <1>2, ReleasedGateIs
<1> HIDE DEF g, h, n
<1>4. cur \in g /\ cur.st = "Open" /\ \A r \in OpenEntries(g) : r = cur
  BY <1>1, <1>2 DEF OpenEntries, LogFits
<1>5. OpenEntries(h) = {} /\ Closed(h) = Closed(g) /\ Standing(h) = Standing(g) \ {cur}
  BY <1>3, <1>4 DEF OpenEntries, Closed, Standing
<1>6. LogFits(h, n)
  BY <1>1, <1>3, <1>5 DEF LogFits
<1> QED
  BY <1>2, <1>3, <1>4, <1>5, <1>6 DEF g, h, n

LEMMA UndoArrivalYard ==
    ASSUME TypeOK, YardAgrees, BonsKept, BonsConfirmed, NEW b \in DOMAIN bon, NEW S,
           UndoArrival(b, S), UNCHANGED departures,
           \A t \in S : LastIn(t) # b => LastIn(t)' = LastIn(t),
           \A t \in Tank \ S : LastIn(t)' = LastIn(t) \/ status[t] \notin Present
    PROVE  \A t \in Tank : TankAgrees(t)'
<1>1. SUFFICES ASSUME NEW t \in Tank PROVE TankAgrees(t)'
  OBVIOUS
<1>2. /\ TankAgrees(t) /\ gate[t] \in SUBSET GateRec /\ LogFits(gate[t], departures[t])
      /\ departures'[t] = departures[t] /\ inDate[t] \in BOOLEAN
  BY PapersOf DEF YardAgrees, TankAgrees, TankFits
<1>3. CASE t \notin S
  <2>1. gate'[t] = gate[t] /\ inDate'[t] = inDate[t] /\ status'[t] = status[t]
    BY <1>2, <1>3 DEF UndoArrival
  <2> QED
    BY <1>2, <1>3, <2>1, UntouchedAgrees
<1>4. CASE t \in S /\ ArrivedOn(b, t)
  <2>1. gate'[t] = ReleasedGate(t, b) /\ inDate'[t] = FALSE /\ status[t] \in Present
    BY <1>4 DEF UndoArrival, ArrivedOn
  <2>2. LastIn(t) = b
    <3>1. LastIn(t) \in DOMAIN bon
      BY <1>2, <2>1 DEF TankAgrees, TankFits, RowsBacked, OpenEntries
    <3>2. 0 \notin DOMAIN bon
      BY DEF TypeOK
    <3> QED
      BY <1>4, <3>1, <3>2 DEF ArrivedOn
  <2>3. status'[t] = "Booked"
    <3>1. bon[b].booking \in Booking /\ bk[bon[b].booking] = "Confirmed"
      BY BonType DEF BonsConfirmed
    <3> QED
      BY <1>4, <3>1 DEF UndoArrival, RolledBack, LiveBooking
  <2>4. /\ LogFits(gate'[t], departures[t]) /\ OpenEntries(gate'[t]) = {}
        /\ \E cur \in gate[t], gone \in GateRec :
              /\ gone.arr = cur.arr /\ gone.muat = cur.muat
              /\ gate'[t] = (gate[t] \ {cur}) \cup {gone}
    <3>1. \A r \in OpenEntries(gate[t]) : r.arr = b
      BY <1>2, <2>2 DEF TankAgrees, TankFits
    <3> QED
      BY <1>2, <2>1, <3>1, CancelledFits
  <2>5. RowsBacked(t, gate'[t], bon')
    <3>1. RowsBacked(t, gate[t], bon')
      BY <1>2, BackedStill DEF TankAgrees
    <3> QED
      BY <2>1, <2>4, <3>1 DEF RowsBacked
  <2>6. TankFits(gate'[t], departures'[t], status'[t], inDate'[t], LastIn(t)')
    BY <1>2, <2>1, <2>3, <2>4 DEF TankFits, Present
  <2> QED
    BY <2>5, <2>6 DEF TankAgrees
<1>5. CASE t \in S /\ ~ArrivedOn(b, t)
  <2>1. \A r \in OpenEntries(gate[t]) : r.arr # b
    BY <1>2, <1>5 DEF TankAgrees, TankFits, ArrivedOn
  <2>2. gate'[t] = gate[t] /\ inDate'[t] = inDate[t]
    BY <1>2, <1>5, <2>1, ReleasedGateIs DEF UndoArrival
  <2>3. status'[t] \in Present <=> status[t] \in Present
    BY <1>5, SettledPlace DEF UndoArrival, RolledBack
  <2>4. status[t] \notin Present => status'[t] = status[t]
    BY <1>5, SettledPlace DEF UndoArrival, RolledBack
  <2>5. LastIn(t)' = LastIn(t) \/ status[t] \notin Present
    BY <1>5 DEF ArrivedOn
  <2>6. TankFits(gate[t], departures[t], status'[t], inDate[t], LastIn(t)')
    <3>1. TankFits(gate[t], departures[t], status[t], inDate[t], LastIn(t))
      BY <1>2 DEF TankAgrees
    <3>2. status'[t] = "Gate_Out" /\ ~inDate[t] => departures[t] = 0
      BY <2>3, <2>4, <3>1 DEF TankFits, Present
    <3> QED
      BY <2>3, <2>5, <3>1, <3>2, StillFits
  <2>7. RowsBacked(t, gate[t], bon')
    BY <1>2, BackedStill DEF TankAgrees
  <2> QED
    BY <1>2, <2>2, <2>6, <2>7 DEF TankAgrees
<1> QED
  BY <1>3, <1>4, <1>5

(* Striking a tank off an arrival bon leaves its newer one the newest.     *)
LEMMA OlderStruck ==
    ASSUME TypeOK, NEW t \in Tank, NEW b \in ArrivalBons(t), LastIn(t) # b,
           \A c : c \in ArrivalBons(t)' <=> c \in ArrivalBons(t) /\ c # b
    PROVE  LastIn(t)' = LastIn(t)
<1> DEFINE S == ArrivalBons(t)
           T == ArrivalBons(t)'
<1>1. S \in SUBSET Nat /\ 0 \notin S /\ LastIn(t) \in S /\ T \in SUBSET S
  <2>1. LastIn(t) # 0
    BY LastInIs DEF TypeOK
  <2> QED
    BY <2>1, LastInIs DEF TypeOK
<1>2. LastIn(t) \in T
  BY <1>1
<1>3. LastIn(t) = Newest(S) /\ LastIn(t)' = Newest(T)
  BY DEF LastIn, ArrivalBons
<1> HIDE DEF S, T
<1> QED
  BY <1>1, <1>2, <1>3, NewestStays

LEMMA BonKept ==
    ASSUME TypeOK, NEW b \in DOMAIN bon, DOMAIN bon' = DOMAIN bon, Len(bon') = Len(bon),
           \A c \in DOMAIN bon \ {b} : bon'[c] = bon[c], bon'[b].booking = bon[b].booking
    PROVE  BonsKept
<1>1. Len(bon) \in Nat
  BY DEF TypeOK
<1> QED
  BY <1>1 DEF BonsKept

LEMMA VoidBongkarYard ==
    ASSUME TypeOK, YardAgrees, BonsConfirmed, NEW b \in DOMAIN bon, VoidBongkar(b)
    PROVE  YardAgrees'
<1>1. /\ bon[b].booking \in InBooking /\ bon[b].ds = "Draft" /\ UndoArrival(b, bon[b].tanks)
      /\ UNCHANGED departures /\ bon[b].tanks \in SUBSET Tank
  BY BonType DEF VoidBongkar
<1>2. /\ DOMAIN bon' = DOMAIN bon /\ Len(bon') = Len(bon)
      /\ \A c \in DOMAIN bon \ {b} : bon'[c] = bon[c]
      /\ bon'[b].booking = bon[b].booking /\ bon'[b].ds = "Voided"
      /\ bon'[b].tanks = bon[b].tanks
  BY BonMarked, BonMarkedSo
<1>3. BonsKept
  BY <1>2, BonKept
<1>4. BonsListed'
  BY <1>2 DEF YardAgrees, BonsListed
<1>5. ASSUME NEW t \in Tank, NEW c
      PROVE  c \in ArrivalBons(t)' <=> c \in ArrivalBons(t) /\ c # b
  BY <1>2 DEF ArrivalBons, BonsOf
<1>6. ASSUME NEW t \in bon[b].tanks, LastIn(t) # b PROVE LastIn(t)' = LastIn(t)
  <2>1. b \in ArrivalBons(t)
    BY <1>1 DEF ArrivalBons, BonsOf, DirectionOf
  <2> QED
    BY <1>1, <1>5, <1>6, <2>1, OlderStruck
<1>7. ASSUME NEW t \in Tank \ bon[b].tanks PROVE LastIn(t)' = LastIn(t)
  <2>1. b \notin ArrivalBons(t)
    BY DEF ArrivalBons, BonsOf
  <2> QED
    BY <1>5, <2>1, SameArrivals
<1>8. \A t \in Tank : TankAgrees(t)'
  BY <1>1, <1>3, <1>6, <1>7, UndoArrivalYard
<1> QED
  BY <1>4, <1>8 DEF YardAgrees

LEMMA EditBongkarYard ==
    ASSUME Lapse = {}, TypeOK, YardAgrees, BonsConfirmed, NEW b \in DOMAIN bon,
           NEW S \in SUBSET Lines[bon[b].booking], EditBongkar(b, S)
    PROVE  YardAgrees'
<1> DEFINE off == bon[b].tanks \ S
<1>1. /\ bon[b].booking \in InBooking /\ bon[b].ds = "Draft" /\ UndoArrival(b, off)
      /\ UNCHANGED departures /\ bon[b].tanks \in SUBSET Tank
      /\ \A t \in S \ bon[b].tanks : status[t] \notin Present
  BY BonType DEF EditBongkar, EditGuard
<1>2. /\ DOMAIN bon' = DOMAIN bon /\ Len(bon') = Len(bon)
      /\ \A c \in DOMAIN bon \ {b} : bon'[c] = bon[c]
      /\ bon'[b].booking = bon[b].booking /\ bon'[b].ds = "Draft" /\ bon'[b].tanks = S
  BY BonMarked, BonMarkedSo
<1>3. BonsKept
  BY <1>2, BonKept
<1>4. BonsListed'
  BY <1>2 DEF YardAgrees, BonsListed
<1>5. ASSUME NEW t \in Tank
      PROVE  /\ \A c : c \in ArrivalBons(t)' /\ c # b <=> c \in ArrivalBons(t) /\ c # b
             /\ b \in ArrivalBons(t)' <=> t \in S
             /\ b \in ArrivalBons(t) <=> t \in bon[b].tanks
  BY <1>1, <1>2 DEF ArrivalBons, BonsOf, DirectionOf
<1>6. ASSUME NEW t \in off, LastIn(t) # b PROVE LastIn(t)' = LastIn(t)
  <2>1. b \in ArrivalBons(t) /\ \A c : c \in ArrivalBons(t)' <=> c \in ArrivalBons(t) /\ c # b
    BY <1>1, <1>5
  <2> QED
    BY <1>1, <1>6, <2>1, OlderStruck
<1>7. ASSUME NEW t \in Tank \ off PROVE LastIn(t)' = LastIn(t) \/ status[t] \notin Present
  <2>1. CASE t \in S \ bon[b].tanks
    BY <1>1, <2>1
  <2>2. CASE t \notin S \ bon[b].tanks
    <3>1. \A c : c \in ArrivalBons(t)' <=> c \in ArrivalBons(t)
      BY <1>5, <1>7, <2>2
    <3> QED
      BY <3>1, SameArrivals
  <2> QED
    BY <2>1, <2>2
<1>8. \A t \in Tank : TankAgrees(t)'
  <2> HIDE DEF off
  <2> QED
    BY <1>1, <1>3, <1>6, <1>7, UndoArrivalYard
<1> QED
  BY <1>4, <1>8 DEF YardAgrees

(* The requests on a bon that move no tank.                                *)
LEMMA RevertBongkarYard ==
    ASSUME TypeOK, YardAgrees, NEW b \in DOMAIN bon, RevertBongkar(b) PROVE YardAgrees'
<1>1. /\ DOMAIN bon' = DOMAIN bon /\ Len(bon') = Len(bon)
      /\ \A c \in DOMAIN bon \ {b} : bon'[c] = bon[c]
      /\ bon'[b].booking = bon[b].booking /\ bon'[b].ds = "Draft"
      /\ bon'[b].tanks = bon[b].tanks /\ bon[b].ds = "Submitted"
  BY BonMarked, BonMarkedSo DEF RevertBongkar
<1>2. BonsKept
  BY <1>1, BonKept
<1>3. BonsListed'
  BY <1>1 DEF YardAgrees, BonsListed
<1>4. ASSUME NEW t \in Tank PROVE TankAgrees(t)'
  <2>1. \A c : c \in ArrivalBons(t)' <=> c \in ArrivalBons(t)
    BY <1>1 DEF ArrivalBons, BonsOf
  <2>2. LastIn(t)' = LastIn(t)
    BY <2>1, SameArrivals
  <2>3. gate' = gate /\ departures' = departures /\ inDate' = inDate /\ status' = status
    BY DEF RevertBongkar
  <2> QED
    BY <1>2, <2>2, <2>3, UntouchedAgrees
<1> QED
  BY <1>3, <1>4 DEF YardAgrees

LEMMA EditMuatYard ==
    ASSUME TypeOK, YardAgrees, NEW b \in DOMAIN bon, NEW S \in SUBSET Lines[bon[b].booking],
           EditMuat(b, S)
    PROVE  YardAgrees'
<1>1. /\ DOMAIN bon' = DOMAIN bon /\ Len(bon') = Len(bon)
      /\ \A c \in DOMAIN bon \ {b} : bon'[c] = bon[c]
      /\ bon'[b].booking = bon[b].booking /\ bon'[b].tanks \subseteq Lines[bon[b].booking]
  BY BonMarked, BonMarkedSo
<1>2. bon[b].booking \notin InBooking
  BY DEF EditMuat
<1>3. BonsKept /\ BonsListed' /\ \A t \in Tank : LastIn(t)' = LastIn(t)
  BY <1>1, <1>2, MuatKeepsArrivals
<1>4. ASSUME NEW t \in Tank PROVE TankAgrees(t)'
  <2>1. gate' = gate /\ departures' = departures /\ inDate' = inDate /\ status' = status
    BY DEF EditMuat
  <2> QED
    BY <1>3, <2>1, UntouchedAgrees
<1> QED
  BY <1>3, <1>4 DEF YardAgrees

LEMMA BonStepYard ==
    ASSUME Lapse = {}, TypeOK, YardAgrees, BonsConfirmed, BonStep PROVE YardAgrees'
<1>1. ASSUME NEW k \in Booking, NEW S \in SUBSET Lines[k], IssueBongkar(k, S) \/ IssueMuat(k, S)
      PROVE  YardAgrees'
  BY <1>1, IssueBongkarYard, IssueMuatYard
<1>2. ASSUME NEW b \in DOMAIN bon,
             \/ ResubmitBongkar(b) \/ ResubmitMuat(b) \/ RevertBongkar(b) \/ RevertMuat(b)
             \/ VoidBongkar(b) \/ VoidMuat(b)
      PROVE  YardAgrees'
  BY <1>2, ResubmitBongkarYard, ResubmitMuatYard, RevertBongkarYard, ReversalYard, VoidBongkarYard
<1>3. ASSUME NEW b \in DOMAIN bon, NEW S \in SUBSET Lines[bon[b].booking],
             EditBongkar(b, S) \/ EditMuat(b, S)
      PROVE  YardAgrees'
  BY <1>3, EditBongkarYard, EditMuatYard
<1> QED
  BY <1>1, <1>2, <1>3 DEF BonStep

-----------------------------------------------------------------------------
(* The other desks                                                         *)

(* The booking desk moves no tank; a tank nobody expects any more is one   *)
(* that never left, for a departed one's arrival bon keeps its booking.    *)
LEMMA BookingStepYard ==
    ASSUME TypeOK, YardAgrees, BonsConfirmed, NEW k \in Booking, BookingStep(k)
    PROVE  YardAgrees'
<1>1. UNCHANGED <<bon, gate, inDate, departures>>
  BY DEF BookingStep, CreateBooking, ConfirmBooking, RevertBooking, VoidBooking,
         MarkPaid, MarkUnpaid, ReopenPayment
<1>2. BonsListed'
  BY <1>1 DEF YardAgrees, BonsListed
<1>3. ASSUME NEW t \in Tank PROVE TankAgrees(t)'
  <2>1. TankAgrees(t) /\ TankFits(gate[t], departures[t], status[t], inDate[t], LastIn(t))
    BY DEF YardAgrees, TankAgrees
  <2>2. LastIn(t)' = LastIn(t)
    BY <1>1 DEF LastIn, BonsOf
  <2>3. \/ status'[t] = status[t]
        \/ status'[t] = PreArrival(k, t)
        \/ VoidBooking(k) /\ status'[t] = Released(k, t)
    BY DEF BookingStep, CreateBooking, ConfirmBooking, RevertBooking, VoidBooking,
           MarkPaid, MarkUnpaid, ReopenPayment
  <2>4. /\ status'[t] \in Present <=> status[t] \in Present
        /\ status'[t] = "Gate_Out" /\ ~inDate[t] => departures[t] = 0
    <3>1. CASE status'[t] = status[t]
      BY <2>1, <3>1 DEF TankFits
    <3>2. CASE status'[t] = PreArrival(k, t)
      BY <2>1, <3>2 DEF PreArrival, TankFits, Present
    <3>3. CASE VoidBooking(k) /\ status'[t] = Released(k, t) /\ status'[t] # status[t]
      <4>1. /\ status[t] = "Booked" /\ status'[t] = "Gate_Out" /\ bk[k] = "Draft"
            /\ ~\E j \in InBooking \ {k} : t \in Lines[j] /\ bk[j] \in {"Draft", "Confirmed"}
        BY <3>3 DEF Released, VoidBooking
      <4>2. ASSUME NEW r \in gate[t] PROVE FALSE
        <5>1. bk[bon[r.arr].booking] = "Confirmed" /\ bon[r.arr].booking \in InBooking
              /\ t \in Lines[bon[r.arr].booking]
          BY <2>1 DEF TankAgrees, RowsBacked, BonsConfirmed
        <5> QED
          BY <4>1, <5>1
      <4>3. ~(departures[t] > 0)
        BY <2>1, <4>2 DEF TankFits, LogFits
      <4>4. departures[t] \in Nat
        BY PapersOf
      <4> QED
        BY <4>1, <4>3, <4>4 DEF Present
    <3> QED
      BY <2>3, <3>1, <3>2, <3>3
  <2>5. TankFits(gate[t], departures[t], status'[t], inDate[t], LastIn(t))
    BY <2>1, <2>4, StillFits
  <2>6. RowsBacked(t, gate[t], bon)
    BY <2>1 DEF TankAgrees
  <2> QED
    BY <1>1, <2>2, <2>5, <2>6 DEF TankAgrees
<1> QED
  BY <1>2, <1>3 DEF YardAgrees

(* What an inspection or a work order does to the yard: nothing but the    *)
(* EIR-Outs on the gate log, and In_Depot against Available.               *)
DeskStep ==
    /\ UNCHANGED <<inDate, departures>>
    /\ DOMAIN bon' = DOMAIN bon /\ Len(bon') = Len(bon)
    /\ \A b \in DOMAIN bon : /\ bon'[b].booking = bon[b].booking
                             /\ bon'[b].tanks = bon[b].tanks /\ bon'[b].ds = bon[b].ds
    /\ \A t \in Tank : gate'[t] = gate[t] \/ Relinked(gate[t], gate'[t])
    /\ \A t \in Tank : /\ status'[t] \in Present <=> status[t] \in Present
                       /\ status[t] \notin Present => status'[t] = status[t]

LEMMA DeskStepYard == ASSUME TypeOK, YardAgrees, DeskStep PROVE YardAgrees'
<1>1. BonsKept
  <2>1. Len(bon) \in Nat
    BY DEF TypeOK
  <2> QED
    BY <2>1 DEF DeskStep, BonsKept
<1>2. BonsListed'
  BY DEF YardAgrees, BonsListed, DeskStep
<1>3. ASSUME NEW t \in Tank PROVE TankAgrees(t)'
  <2>1. LastIn(t)' = LastIn(t)
    <3>1. \A c : c \in ArrivalBons(t)' <=> c \in ArrivalBons(t)
      BY DEF DeskStep, ArrivalBons, BonsOf
    <3> QED
      BY <3>1, SameArrivals
  <2>2. /\ TankFits(gate[t], departures[t], status[t], inDate[t], LastIn(t))
        /\ RowsBacked(t, gate[t], bon')
        /\ inDate'[t] = inDate[t] /\ departures'[t] = departures[t]
    BY <1>1, PapersOf, BackedStill DEF YardAgrees, TankAgrees, DeskStep
  <2>3. /\ status'[t] \in Present <=> status[t] \in Present
        /\ status'[t] = "Gate_Out" /\ ~inDate[t] => departures[t] = 0
    BY <2>2 DEF DeskStep, TankFits, Present
  <2>4. TankFits(gate[t], departures[t], status'[t], inDate[t], LastIn(t))
    BY <2>2, <2>3, StillFits
  <2>5. CASE gate'[t] = gate[t]
    BY <2>1, <2>2, <2>4, <2>5 DEF TankAgrees
  <2>6. CASE Relinked(gate[t], gate'[t])
    <3>1. TankFits(gate'[t], departures[t], status'[t], inDate[t], LastIn(t))
      BY <2>4, <2>6, RelinkedFits
    <3>2. RowsBacked(t, gate'[t], bon')
      BY <2>2, <2>6 DEF Relinked, RowsBacked
    <3> QED
      BY <2>1, <2>2, <3>1, <3>2 DEF TankAgrees
  <2> QED
    BY <2>5, <2>6 DEF DeskStep
<1> QED
  BY <1>2, <1>3 DEF YardAgrees

LEMMA UnlinkedRelinks ==
    ASSUME TypeOK, NEW t \in Tank, NEW i PROVE Relinked(gate[t], Unlinked(t, i))
<1> DEFINE u(r) == IF r.eout = i THEN [r EXCEPT !.eout = 0] ELSE r
           f == [r \in gate[t] |-> u(r)]
<1>1. ASSUME NEW r \in gate[t]
      PROVE  /\ u(r) \in GateRec /\ u(r).arr = r.arr /\ u(r).muat = r.muat
             /\ u(r).out = r.out /\ u(r).st = r.st
  <2>1. r \in GateRec
    BY PapersOf
  <2> QED
    BY <2>1 DEF GateRec
<1>2. Unlinked(t, i) = {u(r) : r \in gate[t]}
  BY DEF Unlinked
<1> HIDE DEF u
<1>3. f \in [gate[t] -> GateRec] /\ Unlinked(t, i) = {f[r] : r \in gate[t]}
  BY <1>1, <1>2
<1> QED
  BY <1>1, <1>3 DEF Relinked

LEMMA LinkedRelinks ==
    ASSUME TypeOK, NEW t \in Tank, NEW i \in DOMAIN eir[t], SubmitEIROut(t, i)
    PROVE  Relinked(gate[t], gate'[t])
<1> DEFINE b == eir[t][i].bon
           u(r) == IF b # 0 /\ r.muat = b /\ r.eout = 0 THEN [r EXCEPT !.eout = i] ELSE r
           f == [r \in gate[t] |-> u(r)]
<1>1. ASSUME NEW r \in gate[t]
      PROVE  /\ u(r) \in GateRec /\ u(r).arr = r.arr /\ u(r).muat = r.muat
             /\ u(r).out = r.out /\ u(r).st = r.st
  <2>1. r \in GateRec /\ i \in Nat
    BY PapersOf
  <2> QED
    BY <2>1 DEF GateRec
<1>2. gate'[t] = {u(r) : r \in gate[t]}
  BY DEF SubmitEIROut, TypeOK
<1> HIDE DEF u
<1>3. f \in [gate[t] -> GateRec] /\ gate'[t] = {f[r] : r \in gate[t]}
  BY <1>1, <1>2
<1> QED
  BY <1>1, <1>3 DEF Relinked

LEMMA SettleDesk ==
    ASSUME TypeOK, NEW t \in Tank, NEW st, NEW es, NEW ws, NEW b, Settle(t, st, es, ws, b),
           UNCHANGED <<inDate, departures, gate>>,
           st = status[t] \/ (st \in Present /\ status[t] \in Present)
    PROVE  DeskStep
<1>1. /\ DOMAIN bon' = DOMAIN bon /\ Len(bon') = Len(bon)
      /\ \A c \in DOMAIN bon : /\ bon'[c].booking = bon[c].booking
                               /\ bon'[c].tanks = bon[c].tanks /\ bon'[c].ds = bon[c].ds
  BY BadgeOnly DEF Settle
<1>2. ASSUME NEW u \in Tank
      PROVE  /\ status'[u] \in Present <=> status[u] \in Present
             /\ status[u] \notin Present => status'[u] = status[u]
  <2>1. status'[u] = IF u = t THEN Settled(st, gate[t], es, ws) ELSE status[u]
    BY DEF Settle, TypeOK
  <2>2. CASE u # t
    BY <2>1, <2>2
  <2>3. CASE u = t
    BY <2>1, <2>3, SettledPlace
  <2> QED
    BY <2>2, <2>3
<1> QED
  BY <1>1, <1>2 DEF DeskStep

LEMMA EIRStepDesk ==
    ASSUME Lapse = {}, TypeOK, NEW t \in Tank, EIRStep(t) PROVE DeskStep
<1>1. PICK i \in DOMAIN eir[t] :
        \/ StartEIR(t, i)
        \/ \E tick \in SUBSET WorkKind : SubmitEIRIn(t, i, tick)
        \/ SubmitEIROut(t, i) \/ RevertEIR(t, i) \/ VoidEIR(t, i) \/ DiscardEIR(t, i)
  BY DEF EIRStep
<1>2. CASE StartEIR(t, i)
  BY <1>2 DEF StartEIR, DeskStep
<1>3. CASE (\E tick \in SUBSET WorkKind : SubmitEIRIn(t, i, tick)) \/ DiscardEIR(t, i)
  BY <1>3, SettleDesk DEF SubmitEIRIn, DiscardEIR
<1>4. CASE (RevertEIR(t, i) \/ VoidEIR(t, i)) /\ eir[t][i].type = "In"
  <2>1. status[t] \in Present /\ eir[t][i].snap \in Present
    BY <1>4 DEF RevertEIR, VoidEIR, OnAwayTank
  <2> QED
    BY <1>4, <2>1, SettleDesk DEF RevertEIR, VoidEIR
<1>5. CASE SubmitEIROut(t, i)
  <2>1. \A u \in Tank \ {t} : gate'[u] = gate[u]
    BY <1>5 DEF SubmitEIROut, TypeOK
  <2>2. Relinked(gate[t], gate'[t])
    BY <1>5, LinkedRelinks
  <2> QED
    BY <1>5, <2>1, <2>2 DEF SubmitEIROut, DeskStep
<1>6. CASE (RevertEIR(t, i) \/ VoidEIR(t, i)) /\ eir[t][i].type # "In"
  <2>1. /\ gate'[t] = Unlinked(t, i) /\ \A u \in Tank \ {t} : gate'[u] = gate[u]
        /\ UNCHANGED <<inDate, departures, bon>>
    BY <1>6 DEF RevertEIR, VoidEIR, TypeOK
  <2>2. Relinked(gate[t], gate'[t])
    BY <2>1, UnlinkedRelinks
  <2>3. ASSUME NEW u \in Tank
        PROVE  /\ status'[u] \in Present <=> status[u] \in Present
               /\ status[u] \notin Present => status'[u] = status[u]
    <3>1. \/ status'[u] = status[u]
          \/ status'[u] = Settled(status[u], gate[u], eir'[u], work[u])
      BY <1>6 DEF RevertEIR, VoidEIR, TypeOK
    <3> QED
      BY <3>1, SettledPlace
  <2> QED
    BY <2>1, <2>2, <2>3 DEF DeskStep
<1> QED
  BY <1>1, <1>2, <1>3, <1>4, <1>5, <1>6

LEMMA WorkStepDesk ==
    ASSUME TypeOK, NEW t \in Tank, WorkStep(t) PROVE DeskStep
<1>1. PICK ws : WorkSaved(t, ws)
  BY DEF WorkStep, RaiseWork, MoveWork, CancelWork
<1>2. ASSUME NEW u \in Tank
      PROVE  /\ status'[u] \in Present <=> status[u] \in Present
             /\ status[u] \notin Present => status'[u] = status[u]
  <2>1. status'[u] = status[u] \/ status'[u] = Settled(status[u], gate[u], eir[u], ws)
    BY <1>1 DEF WorkSaved, TypeOK
  <2> QED
    BY <2>1, SettledPlace
<1> QED
  BY <1>1, <1>2 DEF WorkSaved, DeskStep

LEMMA YardStep ==
    ASSUME Lapse = {}, TypeOK, BonsConfirmed, YardAgrees, [Next]_vars PROVE YardAgrees'
<1>1. CASE UNCHANGED vars
  BY <1>1 DEF vars, YardAgrees, BonsListed, TankAgrees, RowsBacked, LastIn, BonsOf
<1>2. CASE \E k \in Booking : BookingStep(k)
  BY <1>2, BookingStepYard
<1>3. CASE BonStep
  BY <1>3, BonStepYard
<1>4. CASE \E t \in Tank : EIRStep(t) \/ WorkStep(t)
  BY <1>4, EIRStepDesk, WorkStepDesk, DeskStepYard
<1>5. CASE ToggleEnforceAll
  <2>1. DeskStep
    BY <1>5 DEF ToggleEnforceAll, DeskStep
  <2> QED
    BY <2>1, DeskStepYard
<1> QED
  BY <1>1, <1>2, <1>3, <1>4, <1>5 DEF Next

LEMMA BornAgreed == Init => YardAgrees
<1>1. SUFFICES ASSUME Init PROVE YardAgrees
  OBVIOUS
<1>2. BonsListed
  BY <1>1 DEF Init, BonsListed
<1>3. ASSUME NEW t \in Tank PROVE TankAgrees(t)
  <2>1. gate[t] = {} /\ departures[t] = 0 /\ status[t] = "Gate_Out"
    BY <1>1 DEF Init
  <2> QED
    BY <2>1 DEF TankAgrees, TankFits, LogFits, Standing, Closed, OpenEntries, RowsBacked, Present
<1> QED
  BY <1>2, <1>3 DEF YardAgrees

LEMMA OneVisit == YardAgrees => VisitsAgree
<1>1. SUFFICES ASSUME YardAgrees, NEW t \in Tank
               PROVE  /\ Cardinality(OpenEntries(gate[t])) <= 1
                      /\ status[t] \in Present <=> OpenEntries(gate[t]) # {}
  BY DEF VisitsAgree, OneOpenVisit, PresentIffOpenVisit
<1>2. TankFits(gate[t], departures[t], status[t], inDate[t], LastIn(t))
  BY <1>1 DEF YardAgrees, TankAgrees
<1>3. CASE OpenEntries(gate[t]) = {}
  BY <1>2, <1>3, FS_EmptySet DEF TankFits
<1>4. CASE OpenEntries(gate[t]) # {}
  <2>1. PICK r \in OpenEntries(gate[t]) : TRUE
    BY <1>4
  <2>2. \A q \in OpenEntries(gate[t]) : q = r
    BY <1>2, <2>1 DEF TankFits, LogFits
  <2>3. OpenEntries(gate[t]) = {r}
    BY <2>1, <2>2
  <2>4. Cardinality(OpenEntries(gate[t])) = 1
    BY <2>3, FS_Singleton
  <2> QED
    BY <1>2, <2>4 DEF TankFits
<1> QED
  BY <1>3, <1>4

(* The register and the status tell one story, of an office that keeps the *)
(* rules: one open Gate Entry at most, exactly while the tank is present.  *)
THEOREM RegisterIsTrue == ASSUME Lapse = {} PROVE Spec => []VisitsAgree
<1>1. Init => YardAgrees
  BY BornAgreed
<1>2. TypeOK /\ BonsConfirmed /\ YardAgrees /\ [Next]_vars => YardAgrees'
  BY YardStep
<1>3. YardAgrees => VisitsAgree
  BY OneVisit
<1> QED
  BY <1>1, <1>2, <1>3, TypeCorrect, BonsStayConfirmed, PTL DEF Spec

-----------------------------------------------------------------------------
(* Every step is one of the yard's                                         *)

Stays(t) == Cardinality({r \in gate[t] : r.st = "Closed"})

(* What the yard can see of a tank a request leaves alone.                 *)
SamePlace(t) == status'[t] \in Present <=> status[t] \in Present
SameReady(t) == status'[t] = "Available" <=> status[t] = "Available"

LEMMA YardArrives ==
    ASSUME NEW S \in SUBSET Tank,
           \A t \in Tank : status'[t] \in Present <=> status[t] \in Present \/ t \in S,
           \A t \in Tank \ S : SameReady(t),
           \A t \in Tank : Stays(t)' = Stays(t)
    PROVE  Yard!Arrive(S)
BY DEF Yard!Arrive, Yard!ReadyOutside, SameReady, Stays, Present

LEMMA YardLeaves ==
    ASSUME NEW S \in SUBSET Tank,
           \A t \in S : status[t] \in Present /\ status'[t] \notin Present,
           Switch = {TRUE} => \A t \in S : status[t] = "Available",
           \A t \in S : Stays(t)' = Stays(t) + 1,
           \A t \in Tank \ S : SamePlace(t) /\ SameReady(t) /\ Stays(t)' = Stays(t)
    PROVE  Yard!Leave(S)
BY DEF Yard!Leave, Yard!ReadyOutside, SamePlace, SameReady, Stays, Present

LEMMA YardComesBack ==
    ASSUME NEW S \in SUBSET Tank,
           \A t \in S : status[t] \notin Present /\ status'[t] \in Present,
           \A t \in S : Stays(t) > 0 /\ Stays(t)' = Stays(t) - 1,
           \A t \in Tank \ S : SamePlace(t) /\ SameReady(t) /\ Stays(t)' = Stays(t)
    PROVE  Yard!ComeBack(S)
BY DEF Yard!ComeBack, Yard!ReadyOutside, SamePlace, SameReady, Stays, Present

LEMMA YardNeverCame ==
    ASSUME NEW W \in SUBSET Tank, NEW S \in SUBSET W,
           \A t \in S : status[t] \in Present /\ status'[t] \notin Present,
           \A t \in Tank \ S : SamePlace(t),
           \A t \in Tank \ W : SameReady(t),
           \A t \in Tank : Stays(t)' = Stays(t)
    PROVE  Yard!NeverCame(S, W)
BY DEF Yard!NeverCame, Yard!ReadyOutside, SamePlace, SameReady, Stays, Present

LEMMA YardWorks ==
    ASSUME NEW t \in Tank, \A u \in Tank : SamePlace(u) /\ Stays(u)' = Stays(u),
           \A u \in Tank \ {t} : SameReady(u)
    PROVE  Yard!Work(t)
BY DEF Yard!Work, Yard!ReadyOutside, SamePlace, SameReady, Stays, Present

LEMMA YardStands ==
    ASSUME \A t \in Tank : SamePlace(t) /\ SameReady(t) /\ Stays(t)' = Stays(t)
    PROVE  Yard!YardNext
<1>1. Yard!Arrive({})
  BY DEF Yard!Arrive, Yard!ReadyOutside, SamePlace, SameReady, Stays, Present
<1> QED
  BY <1>1 DEF Yard!YardNext

LEMMA BookingStepSeen ==
    ASSUME TypeOK, YardAgrees, NEW k \in Booking, BookingStep(k) PROVE Yard!YardNext
<1>1. gate' = gate
  BY DEF BookingStep, CreateBooking, ConfirmBooking, RevertBooking, VoidBooking,
         MarkPaid, MarkUnpaid, ReopenPayment
<1>2. ASSUME NEW t \in Tank PROVE SamePlace(t) /\ SameReady(t) /\ Stays(t)' = Stays(t)
  <2>1. status'[t] = status[t] \/ status'[t] = PreArrival(k, t) \/ status'[t] = Released(k, t)
    BY DEF BookingStep, CreateBooking, ConfirmBooking, RevertBooking, VoidBooking,
           MarkPaid, MarkUnpaid, ReopenPayment
  <2>2. status[t] \in Present => inDate[t]
    BY DEF YardAgrees, TankAgrees, TankFits
  <2> QED
    BY <1>1, <2>1, <2>2 DEF PreArrival, Released, SamePlace, SameReady, Stays, Present
<1> QED
  BY <1>2, YardStands

LEMMA ArriveSeen ==
    ASSUME TypeOK, NEW b, NEW k, NEW S \in SUBSET Tank, Arrive(b, k, S) PROVE Yard!YardNext
<1>1. ASSUME NEW t \in Tank
      PROVE  /\ status'[t] \in Present <=> status[t] \in Present \/ t \in S
             /\ t \notin S => SameReady(t)
  <2>1. CASE t \in S
    <3>1. status'[t] = Settled("In_Depot", ArrivalGate(t, b), ArrivalEIR(t, b, k), work[t])
      BY <2>1 DEF Arrive
    <3> QED
      BY <2>1, <3>1, SettledPlace DEF Present
  <2>2. CASE t \notin S
    BY <2>2 DEF Arrive, SameReady
  <2> QED
    BY <2>1, <2>2
<1>2. ASSUME NEW t \in Tank PROVE Stays(t)' = Stays(t)
  <2>1. gate'[t] = gate[t] \/ gate'[t] = ArrivalGate(t, b)
    BY DEF Arrive
  <2>2. {r \in gate'[t] : r.st = "Closed"} = {r \in gate[t] : r.st = "Closed"}
    BY <2>1 DEF ArrivalGate
  <2> QED
    BY <2>2 DEF Stays
<1>3. Yard!Arrive(S)
  BY <1>1, <1>2, YardArrives
<1> QED
  BY <1>3 DEF Yard!YardNext

LEMMA DepartSeen ==
    ASSUME TypeOK, YardAgrees, StatusAgrees, enforceAll \in Switch,
           NEW k \in Booking \ InBooking, NEW S \in SUBSET Tank, NEW b \in Nat,
           RowsFit(b, k, S), Depart(b, k, S)
    PROVE  Yard!YardNext
<1>1. ASSUME NEW t \in S
      PROVE  /\ status[t] \in Present /\ status'[t] \notin Present
             /\ Switch = {TRUE} => status[t] = "Available"
  <2>1. status[t] \in Present /\ ~Blocked(t) /\ t \in Tank /\ status'[t] = "Gate_Out"
    BY DEF RowsFit, Depart
  <2>2. enforceAll => status[t] = "Available"
    BY <2>1, UnblockedIsClear DEF Clear
  <2>3. Switch = {TRUE} => enforceAll
    OBVIOUS
  <2>4. status'[t] \notin Present
    BY <2>1 DEF Present
  <2> QED
    BY <2>1, <2>2, <2>3, <2>4, Zenon
<1>2. ASSUME NEW t \in S PROVE Stays(t)' = Stays(t) + 1
  <2> DEFINE es == AttachedEIR(t, b, k)
  <2>1. /\ t \in Tank /\ TankAgrees(t) /\ es \in Seq(EIRRec)
        /\ gate'[t] = DepartureGate(t, b, es) /\ departures[t] \in Nat
    BY PapersOf, AttachedEIRType DEF YardAgrees, Depart
  <2> HIDE DEF es
  <2>2. PICK done : /\ done \notin Closed(gate[t])
                    /\ Closed(gate'[t]) = Closed(gate[t]) \cup {done}
    <3>1. \E cur \in OpenEntries(gate[t]), done \in GateRec :
             /\ DepartureGate(t, b, es) = (gate[t] \ {cur}) \cup {done}
             /\ done.arr = cur.arr /\ done.muat = b /\ done.out = departures[t] + 1
             /\ done \notin Closed(gate[t])
             /\ Closed(DepartureGate(t, b, es)) = Closed(gate[t]) \cup {done}
      <4>1. status[t] \in Present
        BY <1>1
      <4> QED
        BY <2>1, <4>1, DepartureFits
    <3> QED
      BY <2>1, <3>1
  <2>3. IsFiniteSet(Closed(gate[t]))
    BY <2>1, ClosedCounted DEF TankAgrees, TankFits
  <2>4. Cardinality(Closed(gate'[t])) = Cardinality(Closed(gate[t])) + 1
    BY <2>2, <2>3, FS_AddElement
  <2> QED
    BY <2>4 DEF Stays, Closed
<1>3. ASSUME NEW t \in Tank \ S PROVE SamePlace(t) /\ SameReady(t) /\ Stays(t)' = Stays(t)
  BY DEF Depart, SamePlace, SameReady, Stays
<1>4. Yard!Leave(S)
  BY <1>1, <1>2, <1>3, YardLeaves
<1> QED
  BY <1>4 DEF Yard!YardNext

(* A tank that comes back left last of all on this bon's row.              *)
LEMMA ComesBack ==
    ASSUME Lapse = {}, TypeOK, YardAgrees, NEW b \in DOMAIN bon, RevertMuat(b) \/ VoidMuat(b),
           NEW t \in Tank, Reversible(b, t)
    PROVE  /\ status[t] \notin Present /\ status'[t] \in Present
           /\ \E r \in Closed(gate[t]) : /\ r.out = departures[t] /\ r.muat = b
                                         /\ r \notin gate'[t]
                                         /\ Closed(gate'[t]) = Closed(gate[t]) \ {r}
<1>1. /\ gate'[t] = ReversedGate(b, t) /\ status[t] = "Gate_Out" /\ LatestDeparture(b)
      /\ status'[t] = Settled("Available", ReversedGate(b, t), eir[t], work[t])
  BY DEF RevertMuat, VoidMuat, Reversible
<1>2. status[t] \notin Present /\ status'[t] \in Present
  BY <1>1, SettledPlace DEF Present
<1>3. PICK r \in Closed(gate[t]) : r.muat = b /\ r.out = departures[t] /\ r.arr = LastIn(t)
  BY <1>1 DEF LatestDeparture, Closed
<1>4. /\ Closed(ReversedGate(b, t)) = Closed(gate[t]) \ {r}
      /\ \E back \in GateRec : back.st = "Open" /\ ReversedGate(b, t) = (gate[t] \ {r}) \cup {back}
  <2>1. TankAgrees(t)
    BY DEF YardAgrees
  <2> QED
    BY <1>1, <1>2, <1>3, <2>1, ReversalFits
<1>5. r \notin gate'[t]
  BY <1>1, <1>4 DEF Closed
<1> QED
  BY <1>1, <1>2, <1>3, <1>4, <1>5

LEMMA ReversalSeen ==
    ASSUME Lapse = {}, TypeOK, YardAgrees, NEW b \in DOMAIN bon, RevertMuat(b) \/ VoidMuat(b)
    PROVE  Yard!YardNext
<1>. PICK S \in SUBSET Tank : S = {t \in Tank : Reversible(b, t)}
  OBVIOUS
<1>1. ASSUME NEW t \in S PROVE status[t] \notin Present /\ status'[t] \in Present
  BY ComesBack
<1>2. ASSUME NEW t \in S PROVE Stays(t) > 0 /\ Stays(t)' = Stays(t) - 1
  <2>1. t \in Tank /\ TankAgrees(t) /\ departures[t] \in Nat
    BY PapersOf DEF YardAgrees
  <2>2. PICK r \in Closed(gate[t]) : Closed(gate'[t]) = Closed(gate[t]) \ {r}
    BY ComesBack
  <2>3. IsFiniteSet(Closed(gate[t]))
    BY <2>1, ClosedCounted DEF TankAgrees, TankFits
  <2>4. Cardinality(Closed(gate'[t])) = Cardinality(Closed(gate[t])) - 1
    <3>1. Cardinality(Closed(gate[t]) \ {r}) = Cardinality(Closed(gate[t])) - 1
      BY <2>3, FS_RemoveElement
    <3> QED
      BY <2>2, <3>1
  <2>5. Cardinality(Closed(gate[t])) > 0
    <3>1. Cardinality(Closed(gate[t])) # 0 /\ Cardinality(Closed(gate[t])) \in Nat
      BY <2>2, <2>3, FS_EmptySet, FS_CardinalityType
    <3> QED
      BY <3>1
  <2> QED
    BY <2>4, <2>5 DEF Stays, Closed
<1>3. ASSUME NEW t \in Tank \ S PROVE SamePlace(t) /\ SameReady(t) /\ Stays(t)' = Stays(t)
  BY DEF RevertMuat, VoidMuat, SamePlace, SameReady, Stays
<1>4. Yard!ComeBack(S)
  BY <1>1, <1>2, <1>3, YardComesBack
<1> QED
  BY <1>4 DEF Yard!YardNext

LEMMA UndoSeen ==
    ASSUME TypeOK, YardAgrees, NEW b \in DOMAIN bon, NEW W \in SUBSET Tank, UndoArrival(b, W)
    PROVE  Yard!YardNext
<1>. PICK S \in SUBSET W : S = {t \in W : ArrivedOn(b, t)}
  OBVIOUS
<1>1. ASSUME NEW t \in S PROVE status[t] \in Present /\ status'[t] \notin Present
  BY DEF UndoArrival, ArrivedOn, RolledBack, Present
<1>2. ASSUME NEW t \in Tank \ S PROVE SamePlace(t) /\ (t \notin W => SameReady(t))
  <2>1. \/ status'[t] = status[t]
        \/ status'[t] = Settled(status[t], ReleasedGate(t, b), ReleasedEIR(t, b, "In"), work[t])
    BY DEF UndoArrival, RolledBack
  <2>2. t \notin W => status'[t] = status[t]
    BY DEF UndoArrival
  <2> QED
    BY <2>1, <2>2, SettledPlace DEF SamePlace, SameReady
<1>3. ASSUME NEW t \in Tank PROVE Stays(t)' = Stays(t)
  <2>1. gate'[t] = gate[t] \/ gate'[t] = ReleasedGate(t, b)
    BY DEF UndoArrival
  <2>2. \A r \in gate[t] : r \in GateRec
    BY PapersOf
  <2>3. {r \in ReleasedGate(t, b) : r.st = "Closed"} = {r \in gate[t] : r.st = "Closed"}
    BY <2>2 DEF ReleasedGate, GateRec
  <2> QED
    BY <2>1, <2>3 DEF Stays
<1>4. Yard!NeverCame(S, W)
  BY <1>1, <1>2, <1>3, YardNeverCame
<1> QED
  BY <1>4 DEF Yard!YardNext

(* Linking an EIR-Out to a stay, or unlinking it, makes it no other stay.  *)
LEMMA RelinkedCounted ==
    ASSUME NEW n \in Nat, NEW g, NEW h, LogFits(g, n), LogFits(h, n), Relinked(g, h)
    PROVE  Cardinality(Closed(h)) = Cardinality(Closed(g))
<1>1. PICK f \in [g -> GateRec] :
        /\ h = {f[r] : r \in g}
        /\ \A r \in g : f[r].out = r.out /\ f[r].st = r.st
  BY DEF Relinked
<1>2. {r.out : r \in Closed(h)} = {r.out : r \in Closed(g)}
  BY <1>1 DEF Closed
<1>3. /\ Cardinality(Closed(g)) = Cardinality({r.out : r \in Closed(g)})
      /\ Cardinality(Closed(h)) = Cardinality({r.out : r \in Closed(h)})
  BY ClosedCounted
<1> QED
  BY <1>2, <1>3

LEMMA DeskStepSeen ==
    ASSUME TypeOK, YardAgrees, DeskStep, NEW t \in Tank,
           \A u \in Tank \ {t} : status'[u] = status[u]
    PROVE  Yard!YardNext
<1>1. ASSUME NEW u \in Tank PROVE SamePlace(u) /\ Stays(u)' = Stays(u)
  <2>1. CASE gate'[u] = gate[u]
    BY <2>1 DEF DeskStep, SamePlace, Stays
  <2>2. CASE Relinked(gate[u], gate'[u])
    <3>1. LogFits(gate[u], departures[u]) /\ LogFits(gate'[u], departures[u])
          /\ departures[u] \in Nat
      BY PapersOf, DeskStepYard DEF YardAgrees, TankAgrees, TankFits, DeskStep
    <3>2. Cardinality(Closed(gate'[u])) = Cardinality(Closed(gate[u]))
      BY <2>2, <3>1, RelinkedCounted
    <3> QED
      BY <3>2 DEF DeskStep, SamePlace, Stays, Closed
  <2> QED
    BY <2>1, <2>2 DEF DeskStep
<1>2. Yard!Work(t)
  BY <1>1, YardWorks DEF SameReady
<1> QED
  BY <1>2 DEF Yard!YardNext

-----------------------------------------------------------------------------
LEMMA BonStepSeen ==
    ASSUME Lapse = {}, TypeOK, YardAgrees, StatusAgrees, enforceAll \in Switch, BonStep
    PROVE  Yard!YardNext
<1>1. ASSUME NEW k \in Booking, NEW S \in SUBSET Lines[k], IssueBongkar(k, S) \/ IssueMuat(k, S)
      PROVE  Yard!YardNext
  <2>1. S \in SUBSET Tank /\ Len(bon) + 1 \in Nat
    BY DepotAssumption DEF TypeOK
  <2>2. CASE IssueBongkar(k, S)
    BY <2>1, <2>2, ArriveSeen DEF IssueBongkar
  <2>3. CASE IssueMuat(k, S)
    <3>1. /\ k \in Booking \ InBooking
          /\ RowsFit(Len(bon) + 1, k, S) /\ Depart(Len(bon) + 1, k, S)
      BY <2>3 DEF IssueMuat, IssueGuard
    <3> QED
      BY <2>1, <3>1, DepartSeen
  <2> QED
    BY <1>1, <2>2, <2>3
<1>2. ASSUME NEW b \in DOMAIN bon,
             \/ ResubmitBongkar(b) \/ ResubmitMuat(b) \/ RevertBongkar(b) \/ RevertMuat(b)
             \/ VoidBongkar(b) \/ VoidMuat(b)
             \/ \E S \in SUBSET Lines[bon[b].booking] : EditBongkar(b, S) \/ EditMuat(b, S)
      PROVE  Yard!YardNext
  <2>1. /\ b \in Nat /\ bon[b].tanks \in SUBSET Tank /\ bon[b].booking \in Booking
    BY BonType DEF TypeOK
  <2>2. CASE ResubmitBongkar(b)
    BY <2>1, <2>2, ArriveSeen DEF ResubmitBongkar
  <2>3. CASE ResubmitMuat(b)
    <3>1. /\ bon[b].booking \in Booking \ InBooking
          /\ RowsFit(b, bon[b].booking, bon[b].tanks) /\ Depart(b, bon[b].booking, bon[b].tanks)
      BY <2>1, <2>3 DEF ResubmitMuat
    <3> QED
      BY <2>1, <3>1, DepartSeen
  <2>4. CASE RevertMuat(b) \/ VoidMuat(b)
    BY <2>4, ReversalSeen
  <2>5. CASE VoidBongkar(b)
    BY <2>1, <2>5, UndoSeen DEF VoidBongkar
  <2>6. ASSUME NEW S, EditBongkar(b, S) PROVE Yard!YardNext
    <3>1. bon[b].tanks \ S \in SUBSET Tank /\ UndoArrival(b, bon[b].tanks \ S)
      BY <2>1, <2>6 DEF EditBongkar
    <3> QED
      BY <3>1, UndoSeen
  <2>7. CASE RevertBongkar(b) \/ \E S : EditMuat(b, S)
    <3>1. status' = status /\ gate' = gate
      BY <2>7 DEF RevertBongkar, EditMuat
    <3> QED
      BY <3>1, YardStands DEF SamePlace, SameReady, Stays
  <2> QED
    BY <1>2, <2>2, <2>3, <2>4, <2>5, <2>6, <2>7
<1> QED
  BY <1>1, <1>2 DEF BonStep

(* Inspections and work orders touch one tank's status each.               *)
LEMMA DeskTank ==
    ASSUME TypeOK, NEW t \in Tank, EIRStep(t) \/ WorkStep(t), NEW u \in Tank \ {t}
    PROVE  status'[u] = status[u]
<1>1. status \in [Tank -> Status]
  BY DEF TypeOK
<1>2. \E st : status' = [status EXCEPT ![t] = st]
  <2>1. CASE EIRStep(t)
    <3>1. PICK i \in DOMAIN eir[t] :
            \/ StartEIR(t, i) \/ SubmitEIROut(t, i) \/ (\E tick \in SUBSET WorkKind : SubmitEIRIn(t, i, tick))
            \/ RevertEIR(t, i) \/ VoidEIR(t, i) \/ DiscardEIR(t, i)
      BY <2>1 DEF EIRStep
    <3>2. \A st, es, ws, b : Settle(t, st, es, ws, b) => \E new : status' = [status EXCEPT ![t] = new]
      BY DEF Settle
    <3>3. status' = status => status' = [status EXCEPT ![t] = status[t]]
      BY <1>1
    <3>4. CASE StartEIR(t, i) \/ SubmitEIROut(t, i)
      BY <3>3, <3>4 DEF StartEIR, SubmitEIROut
    <3>5. CASE \E tick \in SUBSET WorkKind : SubmitEIRIn(t, i, tick)
      BY <3>2, <3>5 DEF SubmitEIRIn
    <3>6. CASE RevertEIR(t, i)
      BY <3>2, <3>3, <3>6 DEF RevertEIR
    <3>7. CASE VoidEIR(t, i)
      BY <3>2, <3>7 DEF VoidEIR
    <3>8. CASE DiscardEIR(t, i)
      BY <3>2, <3>8 DEF DiscardEIR
    <3> QED
      BY <3>1, <3>4, <3>5, <3>6, <3>7, <3>8
  <2>2. CASE WorkStep(t)
    <3>1. \A ws : WorkSaved(t, ws) => \E new : status' = [status EXCEPT ![t] = new]
      BY DEF WorkSaved
    <3> QED
      BY <2>2, <3>1 DEF WorkStep, RaiseWork, MoveWork, CancelWork
  <2> QED
    BY <2>1, <2>2
<1> QED
  BY <1>1, <1>2

LEMMA NextSeen ==
    ASSUME Lapse = {}, TypeOK, YardAgrees, StatusAgrees, enforceAll \in Switch, [Next]_vars
    PROVE  Yard!YardNext
<1>1. CASE \E k \in Booking : BookingStep(k)
  BY <1>1, BookingStepSeen
<1>2. CASE BonStep
  BY <1>2, BonStepSeen
<1>3. ASSUME NEW t \in Tank, EIRStep(t) \/ WorkStep(t) PROVE Yard!YardNext
  <2>1. DeskStep
    BY <1>3, EIRStepDesk, WorkStepDesk
  <2>2. \A u \in Tank \ {t} : status'[u] = status[u]
    BY <1>3, DeskTank
  <2> QED
    BY <2>1, <2>2, DeskStepSeen
<1>4. CASE ToggleEnforceAll \/ UNCHANGED vars
  <2>1. status' = status /\ gate' = gate
    BY <1>4 DEF ToggleEnforceAll, vars
  <2> QED
    BY <2>1, YardStands DEF SamePlace, SameReady, Stays
<1> QED
  BY <1>1, <1>2, <1>3, <1>4 DEF Next

LEMMA SwitchKept == ASSUME enforceAll \in Switch, [Next]_vars PROVE enforceAll' \in Switch
<1>1. enforceAll' = enforceAll \/ ToggleEnforceAll
  <2>1. CASE \E k \in Booking : BookingStep(k)
    BY <2>1 DEF BookingStep, CreateBooking, ConfirmBooking, RevertBooking, VoidBooking,
                MarkPaid, MarkUnpaid, ReopenPayment
  <2>2. CASE BonStep
    BY <2>2 DEF BonStep, IssueBongkar, IssueMuat, ResubmitBongkar, ResubmitMuat, RevertBongkar, RevertMuat,
                VoidBongkar, VoidMuat, EditBongkar, EditMuat
  <2>3. CASE \E t \in Tank : EIRStep(t) \/ WorkStep(t)
    <3>1. ASSUME NEW t, NEW i,
                 \/ StartEIR(t, i) \/ SubmitEIROut(t, i) \/ RevertEIR(t, i) \/ VoidEIR(t, i)
                 \/ DiscardEIR(t, i) \/ \E tick \in SUBSET WorkKind : SubmitEIRIn(t, i, tick)
          PROVE  enforceAll' = enforceAll
      BY <3>1 DEF StartEIR, SubmitEIRIn, SubmitEIROut, RevertEIR, VoidEIR, DiscardEIR
    <3>2. ASSUME NEW t, WorkStep(t) PROVE enforceAll' = enforceAll
      BY <3>2 DEF WorkStep, RaiseWork, MoveWork, CancelWork, WorkSaved
    <3> QED
      BY <2>3, <3>1, <3>2 DEF EIRStep
  <2> QED
    BY <2>1, <2>2, <2>3 DEF Next, vars
<1> QED
  BY <1>1 DEF ToggleEnforceAll

(* Every request of an office that keeps the rules is one step of the yard *)
(* YardPresence describes, or none: the bookings, bons, inspections and     *)
(* work orders, with all their undos, add up to tanks that come, become     *)
(* ready, leave and come back, each stay counted once.                      *)
THEOREM YardImplemented == ASSUME Lapse = {} PROVE Spec => ImplementsYard
<1>1. Init => Yard!YardInit
  <2>1. ASSUME Init PROVE \A t \in Tank : status[t] = "Gate_Out" /\ Stays(t) = 0
    BY <2>1, FS_EmptySet DEF Init, Stays
  <2> QED
    BY <2>1 DEF Yard!YardInit, Stays, Present
<1>2. TypeOK /\ YardAgrees /\ StatusAgrees /\ enforceAll \in Switch /\ [Next]_vars
        => Yard!YardNext
  BY NextSeen
<1>3. Init => YardAgrees /\ enforceAll \in Switch
  BY BornAgreed DEF Init
<1>4. TypeOK /\ BonsConfirmed /\ YardAgrees /\ [Next]_vars => YardAgrees'
  BY YardStep
<1>5. enforceAll \in Switch /\ [Next]_vars => (enforceAll \in Switch)'
  BY SwitchKept
<1> QED
  BY <1>1, <1>2, <1>3, <1>4, <1>5, TypeCorrect, BonsStayConfirmed, StatusNeverStale,
     PTL DEF Spec, ImplementsYard, Yard!YardSpec

-----------------------------------------------------------------------------
(* What brings a tank back                                                 *)

ComesIn(t) ==
    \E b \in DOMAIN bon' :
        /\ bon'[b].ds = "Submitted" /\ bon'[b].booking \in InBooking
        /\ t \in bon'[b].tanks /\ (b \in DOMAIN bon => bon[b].ds = "Draft")

(* An away tank comes back by a bon's submit, or by taking back its newest *)
(* departure: never by the save of an EIR or of a work order.              *)
THEOREM OnlyBonsReturn == ASSUME Lapse = {} PROVE Spec => ReturnsOnlyByBon
<1>1. ASSUME TypeOK, YardAgrees, Next, NEW t \in Tank,
             status[t] \notin Present, status'[t] \in Present
      PROVE  ComesIn(t) \/ \E r \in gate[t] \ gate'[t] : r.out = departures[t]
  <2>1. ASSUME NEW k \in Booking, BookingStep(k) PROVE FALSE
    BY <1>1, <2>1 DEF BookingStep, CreateBooking, ConfirmBooking, RevertBooking, VoidBooking,
                      MarkPaid, MarkUnpaid, ReopenPayment, PreArrival, Released, Present
  <2>2. ASSUME NEW u \in Tank, EIRStep(u) \/ WorkStep(u) PROVE FALSE
    <3>1. DeskStep
      BY <1>1, <2>2, EIRStepDesk, WorkStepDesk
    <3> QED
      BY <1>1, <3>1 DEF DeskStep
  <2>3. ASSUME NEW k \in Booking, NEW S \in SUBSET Lines[k], IssueBongkar(k, S) PROVE ComesIn(t)
    <3> DEFINE b == Len(bon) + 1
               r == [booking |-> k, tanks |-> S, ds |-> "Submitted",
                     completed |-> S \subseteq NoEIR[k]]
    <3>1. k \in InBooking /\ bon' = Append(bon, r) /\ Arrive(b, k, S) /\ S \in SUBSET Tank
      BY <2>3, DepotAssumption DEF IssueBongkar
    <3>2. t \in S
      BY <1>1, <3>1 DEF Arrive
    <3>3. r \in BonRec /\ r.booking = k /\ r.tanks = S /\ r.ds = "Submitted"
      BY <3>1 DEF BonRec
    <3> HIDE DEF r
    <3>4. bon'[b] = r /\ b \in DOMAIN bon' /\ b \notin DOMAIN bon
      BY <1>1, <3>1, <3>3, BonFiled
    <3> HIDE DEF b
    <3> QED
      BY <3>1, <3>2, <3>3, <3>4 DEF ComesIn
  <2>4. ASSUME NEW b \in DOMAIN bon, ResubmitBongkar(b) PROVE ComesIn(t)
    <3>1. /\ bon[b].ds = "Draft" /\ bon[b].booking \in InBooking
          /\ Arrive(b, bon[b].booking, bon[b].tanks)
      BY <2>4 DEF ResubmitBongkar
    <3>2. t \in bon[b].tanks
      BY <1>1, <3>1 DEF Arrive
    <3>3. /\ b \in DOMAIN bon' /\ bon'[b].booking = bon[b].booking
          /\ bon'[b].ds = "Submitted" /\ bon'[b].tanks = bon[b].tanks
      BY <1>1, <2>4, BonMarked, BonMarkedSo
    <3> QED
      BY <3>1, <3>2, <3>3 DEF ComesIn
  <2>5. ASSUME NEW b \in DOMAIN bon, RevertMuat(b) \/ VoidMuat(b)
        PROVE  \E r \in gate[t] \ gate'[t] : r.out = departures[t]
    <3>1. Reversible(b, t)
      BY <1>1, <2>5 DEF RevertMuat, VoidMuat
    <3>2. PICK r \in Closed(gate[t]) : r.out = departures[t] /\ r \notin gate'[t]
      BY <1>1, <2>5, <3>1, ComesBack
    <3> QED
      BY <3>2 DEF Closed
  <2>6. ASSUME NEW k, NEW S, IssueMuat(k, S) PROVE FALSE
    BY <1>1, <2>6 DEF IssueMuat, Depart, Present
  <2>7. ASSUME NEW b \in DOMAIN bon,
               \/ ResubmitMuat(b) \/ RevertBongkar(b) \/ VoidBongkar(b)
               \/ \E S \in SUBSET Lines[bon[b].booking] : EditBongkar(b, S) \/ EditMuat(b, S)
        PROVE  FALSE
    <3>1. CASE ResubmitMuat(b)
      BY <1>1, <3>1 DEF ResubmitMuat, Depart, Present
    <3>2. CASE RevertBongkar(b) \/ \E S : EditMuat(b, S)
      BY <1>1, <3>2 DEF RevertBongkar, EditMuat
    <3>3. CASE VoidBongkar(b) \/ \E S : EditBongkar(b, S)
      <4>1. PICK W : UndoArrival(b, W)
        BY <3>3 DEF VoidBongkar, EditBongkar
      <4>2. status'[t] = status[t] \/ status'[t] = RolledBack(t, b)
        BY <4>1 DEF UndoArrival
      <4> QED
        BY <1>1, <4>2, SettledPlace DEF RolledBack, ArrivedOn, Present
    <3> QED
      BY <2>7, <3>1, <3>2, <3>3
  <2>8. ~ToggleEnforceAll
    BY <1>1 DEF ToggleEnforceAll
  <2> QED
    BY <1>1, <2>1, <2>2, <2>3, <2>4, <2>5, <2>6, <2>7, <2>8 DEF Next, BonStep
<1>2. TypeOK /\ YardAgrees /\ [Next]_vars
        => [\A t \in Tank :
              status[t] \notin Present /\ status'[t] \in Present =>
                 \/ ComesIn(t)
                 \/ \E r \in gate[t] \ gate'[t] : r.out = departures[t]]_vars
  BY <1>1
<1>3. Init => YardAgrees
  BY BornAgreed
<1>4. TypeOK /\ BonsConfirmed /\ YardAgrees /\ [Next]_vars => YardAgrees'
  BY YardStep
<1> QED
  BY <1>2, <1>3, <1>4, TypeCorrect, BonsStayConfirmed, PTL DEF Spec, ReturnsOnlyByBon, ComesIn

-----------------------------------------------------------------------------
(* A departure bon and its Gate Entry rows                                 *)

LeftOn(t, b) == {r \in gate[t] : r.st = "Closed" /\ r.muat = b}

StandingMuat(b) == bon[b].ds = "Submitted" /\ bon[b].booking \notin InBooking

LeftOnce == \A b \in DOMAIN bon : \A t \in bon[b].tanks :
                StandingMuat(b) => \E r : LeftOn(t, b) = {r}

(* The bons but b stand as they stood, b is no standing departure, and no  *)
(* tank's departures on them are touched.                                  *)
LEMMA LeftStill ==
    ASSUME LeftOnce, NEW b,
           \A c \in DOMAIN bon' : StandingMuat(c)' /\ c # b =>
                c \in DOMAIN bon /\ StandingMuat(c) /\ bon'[c].tanks = bon[c].tanks,
           \A c \in DOMAIN bon, t \in Tank : c # b => LeftOn(t, c)' = LeftOn(t, c),
           TypeOK',
           b \in DOMAIN bon' /\ StandingMuat(b)' =>
                \A t \in bon'[b].tanks : \E r : LeftOn(t, b)' = {r}
    PROVE  LeftOnce'
<1>1. ASSUME NEW c \in DOMAIN bon', NEW t \in bon'[c].tanks, StandingMuat(c)', c # b
      PROVE  \E r : LeftOn(t, c)' = {r}
  <2>. t \in Tank
    <3>1. bon' \in Seq(BonRec)
      BY DEF TypeOK
    <3>2. bon'[c] \in BonRec
      BY <3>1, SequenceShape
    <3> QED
      BY <3>2 DEF BonRec
  <2>1. c \in DOMAIN bon /\ StandingMuat(c) /\ t \in bon[c].tanks /\ LeftOn(t, c)' = LeftOn(t, c)
    BY <1>1
  <2>2. \E r : LeftOn(t, c) = {r}
    BY <2>1 DEF LeftOnce
  <2> QED
    BY <2>1, <2>2
<1> QED
  BY <1>1 DEF LeftOnce

LEMMA LeftSame ==
    ASSUME LeftOnce, bon' = bon, gate' = gate PROVE LeftOnce'
<1>1. \A t, c : LeftOn(t, c)' = LeftOn(t, c) /\ (StandingMuat(c)' <=> StandingMuat(c))
  BY DEF LeftOn, StandingMuat
<1> QED
  BY <1>1 DEF LeftOnce

LEMMA ClosedSame ==
    ASSUME NEW t, Closed(gate'[t]) = Closed(gate[t]), NEW c
    PROVE  LeftOn(t, c)' = LeftOn(t, c)
BY DEF LeftOn, Closed

LEMMA DepartClosed ==
    ASSUME TypeOK, YardAgrees, NEW k \in Booking, NEW S \in SUBSET Tank, NEW b \in Nat,
           Depart(b, k, S), NEW t \in S, status[t] \in Present
    PROVE  \E done : done.muat = b /\ Closed(gate'[t]) = Closed(gate[t]) \cup {done}
<1> DEFINE es == AttachedEIR(t, b, k)
<1>1. /\ t \in Tank /\ TankAgrees(t) /\ es \in Seq(EIRRec)
      /\ gate'[t] = DepartureGate(t, b, es) /\ departures[t] \in Nat
  BY PapersOf, AttachedEIRType DEF YardAgrees, Depart
<1> HIDE DEF es
<1>2. \E cur \in OpenEntries(gate[t]), done \in GateRec :
         /\ DepartureGate(t, b, es) = (gate[t] \ {cur}) \cup {done}
         /\ done.arr = cur.arr /\ done.muat = b /\ done.out = departures[t] + 1
         /\ done \notin Closed(gate[t])
         /\ Closed(DepartureGate(t, b, es)) = Closed(gate[t]) \cup {done}
  BY <1>1, DepartureFits
<1> QED
  BY <1>1, <1>2

(* A tank with one Gate Entry row more, closed by b, has left on b once     *)
(* more and on no other bon.                                               *)
LEMMA ClosedMore ==
    ASSUME NEW t, NEW b, \E done : done.muat = b /\ Closed(gate'[t]) = Closed(gate[t]) \cup {done}
    PROVE  /\ \A c : c # b => LeftOn(t, c)' = LeftOn(t, c)
           /\ LeftOn(t, b) = {} => \E r : LeftOn(t, b)' = {r}
<1>1. PICK done : done.muat = b /\ Closed(gate'[t]) = Closed(gate[t]) \cup {done}
  OBVIOUS
<1>2. \A c : /\ LeftOn(t, c) = {r \in Closed(gate[t]) : r.muat = c}
            /\ LeftOn(t, c)' = {r \in Closed(gate'[t]) : r.muat = c}
  BY DEF LeftOn, Closed
<1> QED
  BY <1>1, <1>2

LEMMA DepartElsewhere ==
    ASSUME NEW k, NEW S, NEW b, Depart(b, k, S), NEW t \in Tank, t \notin S, NEW c
    PROVE  LeftOn(t, c)' = LeftOn(t, c)
BY DEF Depart, LeftOn

LEMMA IssueMuatLeft ==
    ASSUME TypeOK, TypeOK', YardAgrees, LeftOnce, NEW k \in Booking, NEW S \in SUBSET Lines[k],
           IssueMuat(k, S)
    PROVE  LeftOnce'
<1>1. PICK b : b = Len(bon) + 1
  OBVIOUS
<1> DEFINE r == [booking |-> k, tanks |-> S, ds |-> "Submitted", completed |-> TRUE]
<1>2. /\ k \notin InBooking /\ S \in SUBSET Tank /\ bon' = Append(bon, r) /\ Depart(b, k, S)
      /\ \A t \in S : status[t] \in Present
  BY <1>1, DepotAssumption DEF IssueMuat, IssueGuard, RowsFit
<1>3. r \in BonRec /\ r.tanks = S
  BY <1>2 DEF BonRec
<1> HIDE DEF r
<1>4. /\ Len(bon) \in Nat /\ b \in Nat /\ DOMAIN bon = 1..Len(bon) /\ DOMAIN bon' = 1..b
      /\ \A c \in DOMAIN bon : bon'[c] = bon[c]
      /\ bon'[b] = r
  BY <1>1, <1>2, <1>3, BonFiled
<1>5. \A c \in DOMAIN bon' : c # b => c \in DOMAIN bon
  BY <1>1, <1>4
<1>6. ASSUME NEW t \in S PROVE LeftOn(t, b) = {}
  <2>1. \A q \in gate[t] : q.muat <= Len(bon) /\ q.muat \in Nat
    BY <1>2, PapersOf DEF YardAgrees, TankAgrees, RowsBacked, GateRec
  <2>2. \A q \in gate[t] : q.muat # b
    BY <1>1, <1>4, <2>1
  <2> QED
    BY <2>2 DEF LeftOn
<1>7. /\ \A t \in Tank : \A c : c # b => LeftOn(t, c)' = LeftOn(t, c)
      /\ \A t \in S : \E q : LeftOn(t, b)' = {q}
  <2>1. b \in Nat /\ k \in Booking /\ S \in SUBSET Tank /\ Depart(b, k, S)
    BY <1>2, <1>4
  <2>2. ASSUME NEW t \in S
        PROVE  \E done : done.muat = b /\ Closed(gate'[t]) = Closed(gate[t]) \cup {done}
    <3>1. status[t] \in Present
      BY <1>2
    <3> QED
      BY <2>1, <3>1, DepartClosed
  <2>3. ASSUME NEW t \in S
        PROVE  /\ \A c : c # b => LeftOn(t, c)' = LeftOn(t, c)
               /\ \E q : LeftOn(t, b)' = {q}
    BY <1>6, <2>2, ClosedMore
  <2>4. ASSUME NEW t \in Tank, t \notin S, NEW c PROVE LeftOn(t, c)' = LeftOn(t, c)
    BY <1>2, <2>4, DepartElsewhere
  <2> QED
    BY <2>3, <2>4
<1> QED
  BY <1>3, <1>4, <1>5, <1>7, LeftStill DEF StandingMuat

(* A resubmitted departure bon has no departure left on it: its rows are    *)
(* still of this visit, and this visit is open.                            *)
LEMMA ResubmitMuatLeft ==
    ASSUME Lapse = {}, TypeOK, TypeOK', YardAgrees, LeftOnce, NEW b \in DOMAIN bon, ResubmitMuat(b)
    PROVE  LeftOnce'
<1>. PICK S, k : S = bon[b].tanks /\ k = bon[b].booking
  OBVIOUS
<1>1. /\ k \in Booking \ InBooking /\ b \in Nat /\ S \in SUBSET Tank
      /\ Depart(b, k, S) /\ \A t \in S : status[t] \in Present
      /\ ~PastVisitBon(b)
  BY BonType DEF ResubmitMuat, RowsFit, Undisturbed
<1>2. /\ DOMAIN bon' = DOMAIN bon
      /\ \A c \in DOMAIN bon \ {b} : bon'[c] = bon[c]
      /\ bon'[b].tanks = S
  BY BonMarked, BonMarkedSo
<1>3. ASSUME NEW t \in S, NEW r \in LeftOn(t, b) PROVE FALSE
  <2>1. r \in gate[t] /\ r.st = "Closed" /\ r.muat = b
    BY DEF LeftOn
  <2>2. TankFits(gate[t], departures[t], status[t], inDate[t], LastIn(t)) /\ status[t] \in Present
    BY <1>1 DEF YardAgrees, TankAgrees
  <2>3. PICK q \in gate[t] : q.st = "Open"
    BY <2>2 DEF TankFits, OpenEntries
  <2>4. q.arr # r.arr
    BY <2>1, <2>2, <2>3 DEF TankFits, LogFits, Standing
  <2>5. VisitedSince(t, r)
    BY <2>3, <2>4 DEF VisitedSince
  <2> QED
    BY <1>1, <2>1, <2>5 DEF PastVisitBon
<1>4. /\ \A t \in Tank : \A c : c # b => LeftOn(t, c)' = LeftOn(t, c)
      /\ \A t \in S : \E r : LeftOn(t, b)' = {r}
  <2>1. /\ b \in Nat /\ k \in Booking /\ S \in SUBSET Tank /\ Depart(b, k, S)
        /\ \A t \in S : LeftOn(t, b) = {}
    BY <1>1, <1>3
  <2>2. ASSUME NEW t \in S
        PROVE  \E done : done.muat = b /\ Closed(gate'[t]) = Closed(gate[t]) \cup {done}
    <3>1. status[t] \in Present
      BY <1>1
    <3> QED
      BY <1>1, <2>1, <3>1, DepartClosed
  <2>3. ASSUME NEW t \in S
        PROVE  /\ \A c : c # b => LeftOn(t, c)' = LeftOn(t, c)
               /\ \E q : LeftOn(t, b)' = {q}
    BY <2>1, <2>2, ClosedMore
  <2>4. ASSUME NEW t \in Tank, t \notin S, NEW c PROVE LeftOn(t, c)' = LeftOn(t, c)
    BY <1>1, <2>4, DepartElsewhere
  <2> QED
    BY <2>3, <2>4
<1> QED
  BY <1>2, <1>4, LeftStill DEF StandingMuat

LEMMA ReversalLeft ==
    ASSUME Lapse = {}, TypeOK, TypeOK', YardAgrees, LeftOnce, NEW b \in DOMAIN bon,
           RevertMuat(b) \/ VoidMuat(b)
    PROVE  LeftOnce'
<1>1. /\ DOMAIN bon' = DOMAIN bon
      /\ \A c \in DOMAIN bon \ {b} : bon'[c] = bon[c]
      /\ bon'[b].ds # "Submitted"
  BY BonMarked, BonMarkedSo
<1>2. ASSUME NEW t \in Tank, NEW c, c # b PROVE LeftOn(t, c)' = LeftOn(t, c)
  <2>1. CASE Reversible(b, t)
    <3>1. PICK r : r.muat = b /\ Closed(gate'[t]) = Closed(gate[t]) \ {r}
      BY <2>1, ComesBack
    <3>2. LeftOn(t, c) = {q \in Closed(gate[t]) : q.muat = c}
          /\ LeftOn(t, c)' = {q \in Closed(gate'[t]) : q.muat = c}
      BY DEF LeftOn, Closed
    <3> QED
      BY <1>2, <3>1, <3>2
  <2>2. CASE ~Reversible(b, t)
    BY <2>2 DEF RevertMuat, VoidMuat, LeftOn
  <2> QED
    BY <2>1, <2>2
<1> QED
  BY <1>1, <1>2, LeftStill DEF StandingMuat

(* The other requests of the bon desk close no Gate Entry and open none.    *)
LEMMA OtherBonsLeft ==
    ASSUME TypeOK, TypeOK', LeftOnce, NEW b \in DOMAIN bon,
           \/ ResubmitBongkar(b) \/ RevertBongkar(b) \/ VoidBongkar(b)
           \/ \E S \in SUBSET Lines[bon[b].booking] : EditBongkar(b, S) \/ EditMuat(b, S)
    PROVE  LeftOnce'
<1>1. /\ DOMAIN bon' = DOMAIN bon
      /\ \A c \in DOMAIN bon \ {b} : bon'[c] = bon[c]
      /\ bon'[b].booking = bon[b].booking
  BY BonMarked
<1>2. bon'[b].booking \in InBooking \/ bon'[b].ds # "Submitted"
  <2>1. ASSUME NEW S, EditMuat(b, S) \/ EditBongkar(b, S) PROVE bon'[b].ds # "Submitted"
    BY <2>1, BonMarkedSo
  <2>2. CASE ResubmitBongkar(b) \/ RevertBongkar(b) \/ VoidBongkar(b)
    BY <1>1, <2>2 DEF ResubmitBongkar, RevertBongkar, VoidBongkar
  <2> QED
    BY <2>1, <2>2
<1>3. ASSUME NEW t \in Tank, NEW c PROVE LeftOn(t, c)' = LeftOn(t, c)
  <2>1. gate'[t] = gate[t] \/ gate'[t] = ArrivalGate(t, b) \/ gate'[t] = ReleasedGate(t, b)
    <3>1. CASE ResubmitBongkar(b)
      BY <3>1 DEF ResubmitBongkar, Arrive
    <3>2. CASE RevertBongkar(b)
      BY <3>2 DEF RevertBongkar
    <3>3. CASE VoidBongkar(b)
      BY <3>3 DEF VoidBongkar, UndoArrival
    <3>4. ASSUME NEW S, EditBongkar(b, S) PROVE gate'[t] = gate[t] \/ gate'[t] = ReleasedGate(t, b)
      BY <3>4 DEF EditBongkar, UndoArrival
    <3>5. ASSUME NEW S, EditMuat(b, S) PROVE gate'[t] = gate[t]
      BY <3>5 DEF EditMuat
    <3> QED
      BY <3>1, <3>2, <3>3, <3>4, <3>5
  <2>2. \A r \in gate[t] : r \in GateRec
    BY PapersOf
  <2>3. Closed(ArrivalGate(t, b)) = Closed(gate[t])
    BY DEF ArrivalGate, Closed
  <2>4. Closed(ReleasedGate(t, b)) = Closed(gate[t])
    BY <2>2 DEF ReleasedGate, Closed, GateRec
  <2>5. Closed(gate'[t]) = Closed(gate[t])
    BY <2>1, <2>3, <2>4
  <2> QED
    BY <2>5, ClosedSame
<1> QED
  BY <1>1, <1>2, <1>3, LeftStill DEF StandingMuat

LEMMA IssueBongkarLeft ==
    ASSUME TypeOK, TypeOK', LeftOnce, NEW k \in Booking, NEW S \in SUBSET Lines[k],
           IssueBongkar(k, S)
    PROVE  LeftOnce'
<1> DEFINE b == Len(bon) + 1
           r == [booking |-> k, tanks |-> S, ds |-> "Submitted", completed |-> S \subseteq NoEIR[k]]
<1>1. /\ k \in InBooking /\ S \in SUBSET Tank /\ bon' = Append(bon, r) /\ Arrive(b, k, S)
  BY DepotAssumption DEF IssueBongkar
<1>2. r \in BonRec /\ r.booking = k
  BY <1>1 DEF BonRec
<1> HIDE DEF r
<1>3. /\ Len(bon) \in Nat /\ DOMAIN bon = 1..Len(bon) /\ DOMAIN bon' = 1..b
      /\ \A c \in DOMAIN bon : bon'[c] = bon[c]
      /\ bon'[b] = r
  BY <1>1, <1>2, BonFiled
<1>4. \A c \in DOMAIN bon' : c # b => c \in DOMAIN bon
  BY <1>3
<1> HIDE DEF b
<1>5. ASSUME NEW t \in Tank, NEW c PROVE LeftOn(t, c)' = LeftOn(t, c)
  <2>1. gate'[t] = gate[t] \/ gate'[t] = ArrivalGate(t, b)
    BY <1>1 DEF Arrive
  <2>2. Closed(gate'[t]) = Closed(gate[t])
    BY <2>1 DEF ArrivalGate, Closed
  <2> QED
    BY <2>2, ClosedSame
<1> QED
  BY <1>1, <1>2, <1>3, <1>4, <1>5, LeftStill DEF StandingMuat

LEMMA DeskLeft ==
    ASSUME TypeOK, LeftOnce, DeskStep PROVE LeftOnce'
<1>1. SUFFICES ASSUME NEW c \in DOMAIN bon', NEW t \in bon'[c].tanks, StandingMuat(c)'
               PROVE  \E r : LeftOn(t, c)' = {r}
  BY DEF LeftOnce
<1>2. c \in DOMAIN bon /\ t \in bon[c].tanks /\ StandingMuat(c) /\ t \in Tank
  BY <1>1, BonType DEF DeskStep, StandingMuat
<1>3. PICK r : LeftOn(t, c) = {r}
  BY <1>2 DEF LeftOnce
<1>4. CASE gate'[t] = gate[t]
  BY <1>3, <1>4 DEF LeftOn
<1>5. CASE Relinked(gate[t], gate'[t])
  <2>1. PICK f \in [gate[t] -> GateRec] :
          /\ gate'[t] = {f[q] : q \in gate[t]}
          /\ \A q \in gate[t] : f[q].muat = q.muat /\ f[q].st = q.st
    BY <1>5 DEF Relinked
  <2>2. \A q \in gate[t] : q.st = "Closed" /\ q.muat = c <=> q = r
    BY <1>3 DEF LeftOn
  <2>3. r \in gate[t]
    BY <1>3 DEF LeftOn
  <2>4. LeftOn(t, c)' = {f[r]}
    BY <2>1, <2>2, <2>3 DEF LeftOn
  <2> QED
    BY <2>4
<1> QED
  BY <1>2, <1>4, <1>5 DEF DeskStep

LEMMA LeftStep ==
    ASSUME Lapse = {}, TypeOK, TypeOK', YardAgrees, LeftOnce, [Next]_vars PROVE LeftOnce'
<1>1. CASE UNCHANGED vars \/ \E k \in Booking : BookingStep(k)
  <2>1. bon' = bon /\ gate' = gate
    BY <1>1 DEF vars, BookingStep, CreateBooking, ConfirmBooking, RevertBooking, VoidBooking,
                MarkPaid, MarkUnpaid, ReopenPayment
  <2> QED
    BY <2>1, LeftSame
<1>2. CASE BonStep
  <2>1. ASSUME NEW k \in Booking, NEW S \in SUBSET Lines[k], IssueBongkar(k, S) \/ IssueMuat(k, S)
        PROVE  LeftOnce'
    BY <2>1, IssueBongkarLeft, IssueMuatLeft
  <2>2. ASSUME NEW b \in DOMAIN bon,
               \/ ResubmitBongkar(b) \/ ResubmitMuat(b) \/ RevertBongkar(b) \/ RevertMuat(b)
               \/ VoidBongkar(b) \/ VoidMuat(b)
               \/ \E S \in SUBSET Lines[bon[b].booking] : EditBongkar(b, S) \/ EditMuat(b, S)
        PROVE  LeftOnce'
    BY <2>2, ResubmitMuatLeft, ReversalLeft, OtherBonsLeft
  <2> QED
    BY <1>2, <2>1, <2>2 DEF BonStep
<1>3. CASE \E t \in Tank : EIRStep(t) \/ WorkStep(t)
  BY <1>3, EIRStepDesk, WorkStepDesk, DeskLeft
<1>4. CASE ToggleEnforceAll
  <2>1. bon' = bon /\ gate' = gate
    BY <1>4 DEF ToggleEnforceAll
  <2> QED
    BY <2>1, LeftSame
<1> QED
  BY <1>1, <1>2, <1>3, <1>4 DEF Next

(* Each tank of a submitted Order Muat left on it exactly once, however     *)
(* often the bon went back to draft, was edited and was submitted again.    *)
THEOREM MuatLeavesOnce == ASSUME Lapse = {} PROVE Spec => []MuatIsDeparture
<1>1. Init => YardAgrees /\ LeftOnce
  BY BornAgreed DEF Init, LeftOnce
<1>2. TypeOK /\ BonsConfirmed /\ YardAgrees /\ [Next]_vars => YardAgrees'
  BY YardStep
<1>3. TypeOK /\ TypeOK' /\ YardAgrees /\ LeftOnce /\ [Next]_vars => LeftOnce'
  BY LeftStep
<1>4. LeftOnce => MuatIsDeparture
  <2>1. SUFFICES ASSUME LeftOnce, NEW b \in DOMAIN bon, NEW t \in bon[b].tanks, StandingMuat(b)
                 PROVE  Cardinality({r \in gate[t] : r.st = "Closed" /\ r.muat = b}) = 1
    BY DEF MuatIsDeparture, StandingMuat
  <2>2. PICK r : LeftOn(t, b) = {r}
    BY <2>1 DEF LeftOnce
  <2> QED
    BY <2>2, FS_Singleton DEF LeftOn
<1> QED
  BY <1>1, <1>2, <1>3, <1>4, TypeCorrect, BonsStayConfirmed, PTL DEF Spec
-----------------------------------------------------------------------------
(* A departure's Gate Entry and its EIR-Out                                *)

VoidBon(b) == b \in DOMAIN bon /\ bon[b].ds = "Voided"

(* The i-th of the EIRs es is a finished EIR-Out.                           *)
Signed(es, i) == i \in DOMAIN es /\ es[i].type = "Out" /\ es[i].ds = "Submitted"

(* What a row names is finished, and on the row's bon unless that is void.  *)
Names(t, r) ==
    /\ r.muat # 0 /\ Signed(eir[t], r.eout)
    /\ eir[t][r.eout].bon = r.muat \/ VoidBon(r.muat)

LinksStand == \A t \in Tank : \A r \in gate[t] : r.eout # 0 => Names(t, r)

VoidsStand == \A b : VoidBon(b) => VoidBon(b)'

(* A finished EIR-Out that stays finished and leaves no bon but a void one. *)
StaysSigned(t, i) ==
    Signed(eir[t], i) =>
        /\ Signed(eir'[t], i)
        /\ \A b : eir[t][i].bon = b => b = 0 \/ eir'[t][i].bon = b \/ VoidBon(b)'

(* Every row names what it named, where it was, or nothing.                 *)
SameLinks(g, h) == \A q \in h : q.eout = 0 \/ \E r \in g : r.eout = q.eout /\ r.muat = q.muat

LEMMA LinksKept ==
    ASSUME LinksStand, VoidsStand, NEW t \in Tank, SameLinks(gate[t], gate'[t]),
           \A q \in gate'[t] : q.eout # 0 => StaysSigned(t, q.eout)
    PROVE  \A q \in gate'[t] : q.eout # 0 => Names(t, q)'
<1>1. SUFFICES ASSUME NEW q \in gate'[t], q.eout # 0 PROVE Names(t, q)'
  OBVIOUS
<1>2. PICK r \in gate[t] : r.eout = q.eout /\ r.muat = q.muat
  BY <1>1 DEF SameLinks
<1>3. Names(t, r) /\ StaysSigned(t, q.eout)
  BY <1>1, <1>2 DEF LinksStand
<1> QED
  BY <1>2, <1>3 DEF Names, StaysSigned, VoidsStand

(* Rewriting EIRs without touching a finished EIR-Out.                      *)
SignedKept(es, fs) ==
    \A i : Signed(es, i) => Signed(fs, i) /\ fs[i].bon = es[i].bon

LEMMA SignedFiled ==
    ASSUME NEW es \in Seq(EIRRec), NEW e \in EIRRec PROVE SignedKept(es, Append(es, e))
<1>1. /\ DOMAIN es \subseteq DOMAIN Append(es, e)
      /\ \A i \in DOMAIN es : Append(es, e)[i] = es[i]
  OBVIOUS
<1> HIDE DEF EIRRec
<1> QED
  BY <1>1 DEF SignedKept, Signed

LEMMA SignedRewritten ==
    ASSUME NEW es \in Seq(EIRRec), NEW i, NEW e, ~Signed(es, i)
    PROVE  SignedKept(es, [es EXCEPT ![i] = e])
<1>1. DOMAIN [es EXCEPT ![i] = e] = DOMAIN es
      /\ \A j \in DOMAIN es : j # i => [es EXCEPT ![i] = e][j] = es[j]
  OBVIOUS
<1> QED
  BY <1>1 DEF SignedKept, Signed

-----------------------------------------------------------------------------
(* The booking desk writes drafts only.                                    *)

LEMMA ProvisionedSigned ==
    ASSUME TypeOK, NEW k \in Booking, NEW t \in Tank
    PROVE  SignedKept(eir[t], ProvisionedEIROut(k, t))
<1>1. eir[t] \in Seq(EIRRec) /\ SignedKept(eir[t], eir[t])
  BY PapersOf DEF SignedKept
<1>2. SignedKept(eir[t], Append(eir[t], NewEIROut(k, t)))
  BY <1>1, NewEIROutType, SignedFiled
<1> DEFINE i == Newest(Drafts(t, "Out"))
<1>3. ASSUME i # 0 PROVE SignedKept(eir[t], [eir[t] EXCEPT ![i].booking = k])
  <2>1. ~Signed(eir[t], i)
    BY <1>3, NewestBelongs DEF Drafts, Signed
  <2> HIDE DEF i
  <2> QED
    BY <1>1, <2>1, SignedRewritten
<1> QED
  BY <1>1, <1>2, <1>3 DEF ProvisionedEIROut

LEMMA WithdrawnSigned ==
    ASSUME TypeOK, NEW k \in Booking, NEW t \in Tank
    PROVE  SignedKept(eir[t], WithdrawnEIROut(k, t))
BY DEF WithdrawnEIROut, SignedKept, Signed

LEMMA SignedStays ==
    ASSUME NEW t \in Tank, SignedKept(eir[t], eir'[t]) PROVE \A i : StaysSigned(t, i)
BY DEF SignedKept, StaysSigned

LEMMA LinksSelf == ASSUME NEW g PROVE SameLinks(g, g)
BY DEF SameLinks

LEMMA BookingStepLinks ==
    ASSUME TypeOK, LinksStand, NEW k \in Booking, BookingStep(k) PROVE LinksStand'
<1>1. gate' = gate /\ bon' = bon
  BY DEF BookingStep, CreateBooking, ConfirmBooking, RevertBooking, VoidBooking, MarkPaid,
         MarkUnpaid, ReopenPayment
<1>2. VoidsStand
  BY <1>1 DEF VoidsStand, VoidBon
<1>3. ASSUME NEW t \in Tank PROVE \A q \in gate'[t] : q.eout # 0 => Names(t, q)'
  <2>1. \/ eir'[t] = eir[t]
        \/ eir'[t] = ProvisionedEIROut(k, t)
        \/ eir'[t] = WithdrawnEIROut(k, t)
    BY DEF BookingStep, CreateBooking, ConfirmBooking, RevertBooking, VoidBooking, MarkPaid,
           MarkUnpaid, ReopenPayment
  <2>2. SignedKept(eir[t], eir'[t])
    BY <2>1, ProvisionedSigned, WithdrawnSigned DEF SignedKept
  <2> QED
    BY <1>1, <1>2, <2>2, SignedStays, LinksSelf, LinksKept
<1> QED
  BY <1>3 DEF LinksStand

-----------------------------------------------------------------------------
(* The bon desk.                                                           *)

(* Filing a bon, or writing on one that is not void, revives none.          *)
LEMMA VoidsAfterIssue ==
    ASSUME TypeOK, NEW r \in BonRec, bon' = Append(bon, r) PROVE VoidsStand
BY BonFiled DEF VoidsStand, VoidBon, BonsKept

LEMMA VoidsAfterMark ==
    ASSUME TypeOK, NEW b \in DOMAIN bon,
           \/ ResubmitBongkar(b) \/ ResubmitMuat(b) \/ RevertBongkar(b) \/ RevertMuat(b)
           \/ VoidBongkar(b) \/ VoidMuat(b)
           \/ \E S \in SUBSET Lines[bon[b].booking] : EditBongkar(b, S) \/ EditMuat(b, S)
    PROVE  VoidsStand
<1>1. bon[b].ds # "Voided"
  BY DEF ResubmitBongkar, ResubmitMuat, RevertBongkar, RevertMuat, VoidBongkar, VoidMuat,
         EditBongkar, EditMuat, EditGuard
<1>2. DOMAIN bon' = DOMAIN bon /\ \A c \in DOMAIN bon \ {b} : bon'[c] = bon[c]
  BY BonMarked
<1> QED
  BY <1>1, <1>2 DEF VoidsStand, VoidBon

LEMMA ArrivalLinks ==
    ASSUME TypeOK, NEW t \in Tank, NEW b PROVE SameLinks(gate[t], ArrivalGate(t, b))
BY DEF ArrivalGate, SameLinks

LEMMA ArrivalSigned ==
    ASSUME TypeOK, NEW t \in Tank, NEW b \in Nat, NEW k \in Booking
    PROVE  SignedKept(eir[t], ArrivalEIR(t, b, k))
<1> DEFINE e == [type |-> "In", ds |-> "Draft", bon |-> b, booking |-> k,
                 started |-> FALSE, snap |-> "In_Depot", born |-> departures[t]]
<1>1. e \in EIRRec /\ eir[t] \in Seq(EIRRec) /\ SignedKept(eir[t], eir[t])
  BY PapersOf DEF EIRRec, Direction, Status, SignedKept
<1>2. ArrivalEIR(t, b, k) \in {eir[t], Append(eir[t], e)}
  BY DEF ArrivalEIR
<1> HIDE DEF e
<1> QED
  BY <1>1, <1>2, SignedFiled

LEMMA ArriveLinks ==
    ASSUME TypeOK, LinksStand, VoidsStand, NEW b \in Nat, NEW k \in Booking, NEW S, Arrive(b, k, S)
    PROVE  LinksStand'
<1>1. ASSUME NEW t \in Tank PROVE \A q \in gate'[t] : q.eout # 0 => Names(t, q)'
  <2>1. /\ gate'[t] = gate[t] \/ gate'[t] = ArrivalGate(t, b)
        /\ eir'[t] = eir[t] \/ eir'[t] = ArrivalEIR(t, b, k)
    BY DEF Arrive
  <2>2. SameLinks(gate[t], gate'[t])
    BY <2>1, ArrivalLinks, LinksSelf
  <2>3. SignedKept(eir[t], eir'[t])
    BY <2>1, ArrivalSigned DEF SignedKept
  <2> QED
    BY <2>2, <2>3, SignedStays, LinksKept
<1> QED
  BY <1>1 DEF LinksStand

(* A departing tank's EIR-Out is its draft, or a finished one on no bon.    *)
LEMMA AttachedSigned ==
    ASSUME TypeOK, NEW t \in Tank, NEW b \in Nat, NEW k \in Booking
    PROVE  \A i : Signed(eir[t], i) =>
              /\ Signed(AttachedEIR(t, b, k), i)
              /\ eir[t][i].bon \in {0, AttachedEIR(t, b, k)[i].bon}
<1> DEFINE draft == Newest(Drafts(t, "Out"))
           free == {i \in DOMAIN eir[t] : /\ eir[t][i].type = "Out" /\ eir[t][i].ds = "Submitted"
                                          /\ eir[t][i].booking = k /\ eir[t][i].bon = 0}
           done == Newest(free)
           adopted == [eir[t][draft] EXCEPT !.bon = b, !.booking = k]
           taken == [eir[t][done] EXCEPT !.bon = b]
<1>1. eir[t] \in Seq(EIRRec) /\ \A i \in DOMAIN eir[t] : eir[t][i] \in EIRRec
  BY PapersOf
<1>2. \/ draft # 0 /\ AttachedEIR(t, b, k) = [eir[t] EXCEPT ![draft] = adopted]
      \/ AttachedEIR(t, b, k) = eir[t]
      \/ done # 0 /\ AttachedEIR(t, b, k) = [eir[t] EXCEPT ![done] = taken]
  BY DEF AttachedEIR
<1>3. draft # 0 => ~Signed(eir[t], draft)
  BY NewestBelongs DEF Drafts, Signed
<1>4. done # 0 => done \in free
  BY NewestBelongs
<1>5. done # 0 => eir[t][done].bon = 0 /\ taken.type = "Out" /\ taken.ds = "Submitted"
  <2>1. done # 0 => /\ eir[t][done] \in EIRRec /\ eir[t][done].bon = 0
                    /\ eir[t][done].type = "Out" /\ eir[t][done].ds = "Submitted"
    BY <1>1, <1>4
  <2> HIDE DEF done
  <2> QED
    BY <2>1 DEF EIRRec
<1> HIDE DEF draft, done, free, adopted, taken
<1>6. CASE draft # 0 /\ AttachedEIR(t, b, k) = [eir[t] EXCEPT ![draft] = adopted]
  <2>1. SignedKept(eir[t], [eir[t] EXCEPT ![draft] = adopted])
    BY <1>1, <1>3, <1>6, SignedRewritten
  <2>2. SignedKept(eir[t], AttachedEIR(t, b, k))
    BY <1>6, <2>1
  <2> QED
    BY <2>2 DEF SignedKept
<1>7. CASE done # 0 /\ AttachedEIR(t, b, k) = [eir[t] EXCEPT ![done] = taken]
  BY <1>5, <1>7 DEF Signed
<1> QED
  BY <1>2, <1>6, <1>7

(* The row of a departure names a finished EIR-Out of its bon, or none.     *)
LEMMA DepartureLinks ==
    ASSUME TypeOK, NEW t \in Tank, NEW b \in Nat \ {0}, NEW es \in Seq(EIRRec)
    PROVE  \A q \in DepartureGate(t, b, es) :
              q \in gate[t] \/ q.eout = 0 \/ (q.muat = b /\ Signed(es, q.eout) /\ es[q.eout].bon = b)
<1> DEFINE n == departures[t] + 1
           e == FinishedEIROut(t, b, es)
           fresh == [arr |-> 0, muat |-> 0, out |-> 0, eout |-> 0, st |-> "Open"]
           cur == CHOOSE r \in OpenEntries(gate[t]) : TRUE
           stamp(r) == [r EXCEPT !.muat = b, !.out = n, !.st = "Closed", !.eout = e]
<1>1. e = 0 \/ (Signed(es, e) /\ es[e].bon = b)
  <2> DEFINE own == {i \in DOMAIN es : es[i].type = "Out" /\ es[i].ds = "Submitted" /\ es[i].bon = b}
  <2>1. e = Newest(own)
    BY DEF FinishedEIROut
  <2>2. e \in own \cup {0}
    BY <2>1, NewestBelongs
  <2> HIDE DEF e
  <2>3. e \in own => Signed(es, e) /\ es[e].bon = b
    BY Zenon DEF Signed
  <2> HIDE DEF own
  <2> QED
    BY <2>2, <2>3
<1>2. \/ DepartureGate(t, b, es) = gate[t] \cup {stamp(fresh)}
      \/ /\ OpenEntries(gate[t]) # {}
         /\ DepartureGate(t, b, es) = (gate[t] \ {cur}) \cup {stamp(cur)}
  BY DEF DepartureGate
<1>3. OpenEntries(gate[t]) # {} => cur \in GateRec
  BY PapersOf DEF OpenEntries
<1>4. fresh \in GateRec
  BY DEF GateRec
<1> HIDE DEF n, e, fresh, cur
<1>5. \A r \in GateRec : stamp(r).muat = b /\ stamp(r).eout = e
  BY DEF GateRec
<1> HIDE DEF stamp
<1> QED
  BY <1>1, <1>2, <1>3, <1>4, <1>5

LEMMA DepartLinks ==
    ASSUME TypeOK, LinksStand, VoidsStand, NEW b \in Nat \ {0}, NEW k \in Booking, NEW S,
           Depart(b, k, S)
    PROVE  LinksStand'
<1>1. ASSUME NEW t \in Tank PROVE \A q \in gate'[t] : q.eout # 0 => Names(t, q)'
  <2>1. CASE t \notin S
    <3>1. gate'[t] = gate[t] /\ eir'[t] = eir[t]
      BY <2>1 DEF Depart
    <3>2. SignedKept(eir[t], eir'[t])
      BY <3>1 DEF SignedKept
    <3> QED
      BY <3>1, <3>2, LinksSelf, SignedStays, LinksKept
  <2>2. CASE t \in S
    <3> DEFINE es == AttachedEIR(t, b, k)
    <3>1. eir'[t] = es /\ gate'[t] = DepartureGate(t, b, es) /\ es \in Seq(EIRRec)
      BY <2>2, AttachedEIRType DEF Depart
    <3>2. ASSUME NEW i PROVE StaysSigned(t, i)
      <4>1. Signed(eir[t], i) => Signed(es, i) /\ eir[t][i].bon \in {0, es[i].bon}
        BY AttachedSigned
      <4> QED
        BY <3>1, <4>1 DEF StaysSigned
    <3> HIDE DEF es
    <3>3. ASSUME NEW q \in gate'[t], q.eout # 0 PROVE Names(t, q)'
      <4>1. q \in gate[t] \/ (q.muat = b /\ Signed(es, q.eout) /\ es[q.eout].bon = b)
        BY <3>1, <3>3, DepartureLinks
      <4>2. CASE q \in gate[t]
        <5>1. Names(t, q) /\ StaysSigned(t, q.eout)
          BY <3>2, <3>3, <4>2 DEF LinksStand
        <5> QED
          BY <5>1 DEF Names, StaysSigned, VoidsStand
      <4>3. CASE q.muat = b /\ Signed(es, q.eout) /\ es[q.eout].bon = b
        BY <3>1, <4>3 DEF Names
      <4> QED
        BY <4>1, <4>2, <4>3
    <3> QED
      BY <3>3
  <2> QED
    BY <2>1, <2>2
<1> QED
  BY <1>1 DEF LinksStand

LEMMA ReversedLinks ==
    ASSUME TypeOK, NEW t \in Tank, NEW b PROVE SameLinks(gate[t], ReversedGate(b, t))
<1> DEFINE back(r) == [r EXCEPT !.muat = 0, !.out = 0, !.eout = 0, !.st = "Open"]
<1>1. \A r \in gate[t] : back(r).eout = 0
  BY PapersOf DEF GateRec
<1>2. \A q \in ReversedGate(b, t) : \E r \in gate[t] : q = r \/ q = back(r)
  BY DEF ReversedGate
<1> HIDE DEF back
<1> QED
  BY <1>1, <1>2 DEF SameLinks

LEMMA ReleasedLinks ==
    ASSUME TypeOK, NEW t \in Tank, NEW b PROVE SameLinks(gate[t], ReleasedGate(t, b))
<1> DEFINE gone(r) == [r EXCEPT !.st = "Cancelled"]
<1>1. \A r \in gate[t] : gone(r).eout = r.eout /\ gone(r).muat = r.muat
  BY PapersOf DEF GateRec
<1>2. \A q \in ReleasedGate(t, b) : \E r \in gate[t] : q = r \/ q = gone(r)
  BY DEF ReleasedGate
<1> HIDE DEF gone
<1> QED
  BY <1>1, <1>2 DEF SameLinks

(* An undone arrival lets no EIR-Out go; a void departure frees its own.    *)
LEMMA ReleasedSigned ==
    ASSUME TypeOK, NEW t \in Tank, NEW b, NEW d \in Direction
    PROVE  \A i : Signed(eir[t], i) =>
              /\ Signed(ReleasedEIR(t, b, d), i)
              /\ \/ ReleasedEIR(t, b, d)[i].bon = eir[t][i].bon
                 \/ d = "Out" /\ eir[t][i].bon = b
<1> DEFINE next == Newest(BonsOf(t, d, {"Submitted"}))
<1>1. SUFFICES ASSUME NEW i, Signed(eir[t], i)
               PROVE  /\ Signed(ReleasedEIR(t, b, d), i)
                      /\ \/ ReleasedEIR(t, b, d)[i].bon = eir[t][i].bon
                         \/ d = "Out" /\ eir[t][i].bon = b
  OBVIOUS
<1> DEFINE e == eir[t][i]
<1>2. /\ i \in DOMAIN eir[t] /\ e \in EIRRec /\ e.type = "Out" /\ e.ds = "Submitted"
      /\ i \in DOMAIN ReleasedEIR(t, b, d) /\ ReleasedEIR(t, b, d)[i] = LetGo(e, b, d, next)
  BY <1>1, PapersOf DEF Signed, ReleasedEIR
<1> HIDE DEF e, next
<1>3. \/ LetGo(e, b, d, next) = e
      \/ d = "Out" /\ e.bon = b /\ LetGo(e, b, d, next) = [e EXCEPT !.bon = 0]
  BY <1>2 DEF LetGo
<1>4. [e EXCEPT !.bon = 0].type = "Out" /\ [e EXCEPT !.bon = 0].ds = "Submitted"
  BY <1>2 DEF EIRRec
<1> QED
  BY <1>2, <1>3, <1>4 DEF Signed, e

LEMMA UndoLinks ==
    ASSUME TypeOK, LinksStand, VoidsStand, NEW b, NEW S, UndoArrival(b, S) PROVE LinksStand'
<1>1. ASSUME NEW t \in Tank PROVE \A q \in gate'[t] : q.eout # 0 => Names(t, q)'
  <2>1. /\ gate'[t] = gate[t] \/ gate'[t] = ReleasedGate(t, b)
        /\ eir'[t] = eir[t] \/ eir'[t] = ReleasedEIR(t, b, "In")
    BY DEF UndoArrival
  <2>2. SameLinks(gate[t], gate'[t])
    BY <2>1, ReleasedLinks, LinksSelf
  <2>3. SignedKept(eir[t], eir'[t])
    <3>1. "In" \in Direction /\ "In" # "Out"
      BY DEF Direction
    <3>2. SignedKept(eir[t], ReleasedEIR(t, b, "In"))
      BY <3>1, ReleasedSigned DEF SignedKept
    <3> QED
      BY <2>1, <3>2 DEF SignedKept
  <2> QED
    BY <2>2, <2>3, SignedStays, LinksKept
<1> QED
  BY <1>1 DEF LinksStand

LEMMA ReversalLinks ==
    ASSUME TypeOK, LinksStand, VoidsStand, NEW b \in DOMAIN bon, RevertMuat(b) \/ VoidMuat(b)
    PROVE  LinksStand'
<1>1. VoidMuat(b) => VoidBon(b)'
  <2>1. VoidMuat(b) => DOMAIN bon' = DOMAIN bon /\ bon'[b].ds = "Voided"
    BY BonMarked, BonMarkedSo
  <2> QED
    BY <2>1 DEF VoidBon
<1>2. ASSUME NEW t \in Tank PROVE \A q \in gate'[t] : q.eout # 0 => Names(t, q)'
  <2>1. gate'[t] = gate[t] \/ gate'[t] = ReversedGate(b, t)
    BY DEF RevertMuat, VoidMuat
  <2>2. eir'[t] = eir[t] \/ (VoidBon(b)' /\ eir'[t] = ReleasedEIR(t, b, "Out"))
    BY <1>1 DEF RevertMuat, VoidMuat
  <2>3. SameLinks(gate[t], gate'[t])
    BY <2>1, ReversedLinks, LinksSelf
  <2>4. ASSUME NEW i PROVE StaysSigned(t, i)
    <3>1. CASE eir'[t] = eir[t]
      BY <3>1 DEF StaysSigned
    <3>2. CASE VoidBon(b)' /\ eir'[t] = ReleasedEIR(t, b, "Out")
      <4>1. "Out" \in Direction
        BY DEF Direction
      <4>2. Signed(eir[t], i) =>
              /\ Signed(eir'[t], i) /\ \/ eir'[t][i].bon = eir[t][i].bon
                                       \/ eir[t][i].bon = b
        BY <3>2, <4>1, ReleasedSigned
      <4>3. \A c : c = b => VoidBon(c)'
        BY <3>2
      <4> QED
        BY <4>2, <4>3 DEF StaysSigned
    <3> QED
      BY <2>2, <3>1, <3>2
  <2> QED
    BY <2>3, <2>4, LinksKept
<1> QED
  BY <1>2 DEF LinksStand

(* Nothing at the gate or among the EIRs changed.                          *)
LEMMA StillLinks ==
    ASSUME LinksStand, VoidsStand, UNCHANGED <<gate, eir>> PROVE LinksStand'
<1>1. ASSUME NEW t \in Tank PROVE \A q \in gate'[t] : q.eout # 0 => Names(t, q)'
  <2>1. SignedKept(eir[t], eir'[t]) /\ SameLinks(gate[t], gate'[t])
    BY LinksSelf DEF SignedKept
  <2> QED
    BY <2>1, SignedStays, LinksKept
<1> QED
  BY <1>1 DEF LinksStand

LEMMA IssueLinks ==
    ASSUME TypeOK, LinksStand, NEW k \in Booking, NEW S \in SUBSET Lines[k],
           IssueBongkar(k, S) \/ IssueMuat(k, S)
    PROVE  LinksStand'
<1>1. S \in SUBSET Tank
  BY DepotAssumption
<1>2. PICK done \in BOOLEAN :
        bon' = Append(bon, [booking |-> k, tanks |-> S, ds |-> "Submitted", completed |-> done])
  BY DEF IssueBongkar, IssueMuat
<1>3. [booking |-> k, tanks |-> S, ds |-> "Submitted", completed |-> done] \in BonRec
  BY <1>1 DEF BonRec, Status
<1>4. VoidsStand
  BY <1>2, <1>3, VoidsAfterIssue
<1>5. Len(bon) + 1 \in Nat \ {0}
  <2>1. bon \in Seq(BonRec)
    BY DEF TypeOK
  <2> HIDE DEF BonRec
  <2>2. Len(bon) \in Nat
    BY <2>1
  <2> QED
    BY <2>2
<1> QED
  BY <1>4, <1>5, ArriveLinks, DepartLinks DEF IssueBongkar, IssueMuat

LEMMA BonStepLinks ==
    ASSUME TypeOK, LinksStand, BonStep PROVE LinksStand'
<1>1. CASE \E k \in Booking : \E S \in SUBSET Lines[k] : IssueBongkar(k, S) \/ IssueMuat(k, S)
  BY <1>1, IssueLinks
<1>2. ASSUME NEW b \in DOMAIN bon,
             \/ ResubmitBongkar(b) \/ ResubmitMuat(b) \/ RevertBongkar(b) \/ RevertMuat(b)
             \/ VoidBongkar(b) \/ VoidMuat(b)
             \/ \E S \in SUBSET Lines[bon[b].booking] : EditBongkar(b, S) \/ EditMuat(b, S)
      PROVE  LinksStand'
  <2>1. VoidsStand
    BY <1>2, VoidsAfterMark
  <2>2. b \in Nat \ {0} /\ bon[b].booking \in Booking
    <3>1. bon \in Seq(BonRec) /\ bon[b] \in BonRec
      BY BonType DEF TypeOK
    <3>2. bon[b].booking \in Booking
      BY <3>1 DEF BonRec
    <3> HIDE DEF BonRec
    <3> QED
      BY <3>1, <3>2
  <2>3. ResubmitBongkar(b) \/ ResubmitMuat(b) => LinksStand'
    BY <2>1, <2>2, ArriveLinks, DepartLinks DEF ResubmitBongkar, ResubmitMuat
  <2>4. RevertMuat(b) \/ VoidMuat(b) => LinksStand'
    BY <2>1, ReversalLinks
  <2>5. ASSUME NEW S PROVE VoidBongkar(b) \/ EditBongkar(b, S) => LinksStand'
    BY <2>1, UndoLinks DEF VoidBongkar, EditBongkar
  <2>6. ASSUME NEW S PROVE RevertBongkar(b) \/ EditMuat(b, S) => LinksStand'
    BY <2>1, StillLinks DEF RevertBongkar, EditMuat
  <2> QED
    BY <1>2, <2>3, <2>4, <2>5, <2>6
<1> QED
  BY <1>1, <1>2 DEF BonStep

-----------------------------------------------------------------------------
(* The inspection desk.                                                    *)

(* Refreshing a badge voids no bon and revives none.                       *)
LEMMA VoidsAfterBadge ==
    ASSUME TypeOK, NEW c, NEW es, bon' = bon \/ bon' = RefreshedBons(c, es) PROVE VoidsStand
BY BadgeOnly DEF VoidsStand, VoidBon

(* One tank's EIRs are rewritten without touching a finished EIR-Out.      *)
LEMMA SettleLinks ==
    ASSUME TypeOK, LinksStand, NEW t \in Tank, NEW st, NEW es, NEW ws, NEW c,
           Settle(t, st, es, ws, c), SignedKept(eir[t], es), UNCHANGED gate
    PROVE  LinksStand'
<1>1. VoidsStand
  BY VoidsAfterBadge DEF Settle
<1>2. ASSUME NEW u \in Tank PROVE \A q \in gate'[u] : q.eout # 0 => Names(u, q)'
  <2>1. eir'[u] = IF u = t THEN es ELSE eir[u]
    BY DEF Settle, TypeOK
  <2>2. SignedKept(eir[u], eir'[u])
    BY <2>1 DEF SignedKept
  <2> QED
    BY <1>1, <2>2, LinksSelf, SignedStays, LinksKept
<1> QED
  BY <1>2 DEF LinksStand

(* A form that is not a finished EIR-Out changes hands.                    *)
LEMMA FormLinks ==
    ASSUME TypeOK, LinksStand, UNCHANGED <<gate, bon>>, NEW t \in Tank, NEW i, NEW e,
           ~Signed(eir[t], i), eir' = [eir EXCEPT ![t] = [eir[t] EXCEPT ![i] = e]]
    PROVE  LinksStand'
<1>1. VoidsStand
  BY DEF VoidsStand, VoidBon
<1>2. ASSUME NEW u \in Tank PROVE \A q \in gate'[u] : q.eout # 0 => Names(u, q)'
  <2>1. eir[t] \in Seq(EIRRec)
    BY PapersOf
  <2>2. SignedKept(eir[t], [eir[t] EXCEPT ![i] = e])
    BY <2>1, SignedRewritten
  <2>3. eir'[u] = IF u = t THEN [eir[t] EXCEPT ![i] = e] ELSE eir[u]
    BY DEF TypeOK
  <2>4. SignedKept(eir[u], eir'[u])
    BY <2>2, <2>3 DEF SignedKept
  <2> QED
    BY <1>1, <2>4, LinksSelf, SignedStays, LinksKept
<1> QED
  BY <1>2 DEF LinksStand

(* A finished EIR-Out that is reverted or voided is off every Gate Entry.  *)
LEMMA UnlinkedLinks ==
    ASSUME TypeOK, LinksStand, UNCHANGED bon, NEW t \in Tank, NEW i \in DOMAIN eir[t], NEW ds,
           eir' = [eir EXCEPT ![t][i].ds = ds], gate' = [gate EXCEPT ![t] = Unlinked(t, i)]
    PROVE  LinksStand'
<1>1. VoidsStand
  BY DEF VoidsStand, VoidBon
<1>2. ASSUME NEW u \in Tank \ {t} PROVE \A q \in gate'[u] : q.eout # 0 => Names(u, q)'
  <2>1. eir'[u] = eir[u] /\ gate'[u] = gate[u]
    BY DEF TypeOK
  <2>2. SignedKept(eir[u], eir'[u])
    BY <2>1 DEF SignedKept
  <2> QED
    BY <1>1, <2>1, <2>2, LinksSelf, SignedStays, LinksKept
<1>3. \A q \in gate'[t] : q.eout # 0 => Names(t, q)'
  <2>1. gate'[t] = Unlinked(t, i)
    BY DEF TypeOK
  <2>2. DOMAIN eir'[t] = DOMAIN eir[t] /\ \A j \in DOMAIN eir[t] \ {i} : eir'[t][j] = eir[t][j]
    BY DEF TypeOK
  <2> DEFINE u(r) == [r EXCEPT !.eout = 0]
  <2>3. \A r \in gate[t] : u(r).eout = 0
    BY PapersOf DEF GateRec
  <2>4. ASSUME NEW q \in gate'[t], q.eout # 0 PROVE q \in gate[t] /\ q.eout # i
    <3>1. PICK r \in gate[t] : q = IF r.eout = i THEN u(r) ELSE r
      BY <2>1, <2>4 DEF Unlinked
    <3> HIDE DEF u
    <3> QED
      BY <2>3, <2>4, <3>1
  <2>5. \A j : Signed(eir[t], j) /\ j # i => Signed(eir'[t], j) /\ eir'[t][j].bon = eir[t][j].bon
    BY <2>2 DEF Signed
  <2> QED
    BY <1>1, <2>4, <2>5 DEF LinksStand, Names, VoidsStand
<1> QED
  BY <1>2, <1>3 DEF LinksStand

(* A finished EIR-Out goes onto the Gate Entries of its own bon that name  *)
(* none.                                                                   *)
LEMMA LinkedLinks ==
    ASSUME TypeOK, LinksStand, NEW t \in Tank, NEW i \in DOMAIN eir[t], SubmitEIROut(t, i)
    PROVE  LinksStand'
<1> DEFINE b == eir[t][i].bon
           u(r) == IF b # 0 /\ r.muat = b /\ r.eout = 0 THEN [r EXCEPT !.eout = i] ELSE r
<1>1. VoidsStand
  BY DEF SubmitEIROut, VoidsStand, VoidBon
<1>2. ASSUME NEW v \in Tank \ {t} PROVE \A q \in gate'[v] : q.eout # 0 => Names(v, q)'
  <2>1. eir'[v] = eir[v] /\ gate'[v] = gate[v]
    BY DEF TypeOK, SubmitEIROut
  <2>2. SignedKept(eir[v], eir'[v])
    BY <2>1 DEF SignedKept
  <2> QED
    BY <1>1, <2>1, <2>2, LinksSelf, SignedStays, LinksKept
<1>3. \A q \in gate'[t] : q.eout # 0 => Names(t, q)'
  <2>1. gate'[t] = {u(r) : r \in gate[t]}
    BY DEF SubmitEIROut, TypeOK
  <2>2. eir[t][i] \in EIRRec /\ eir[t][i].type = "Out" /\ eir[t][i].ds = "Draft"
    BY PapersOf DEF SubmitEIROut
  <2>3. /\ DOMAIN eir'[t] = DOMAIN eir[t] /\ eir'[t][i] = [eir[t][i] EXCEPT !.ds = "Submitted"]
        /\ \A j \in DOMAIN eir[t] \ {i} : eir'[t][j] = eir[t][j]
    BY DEF SubmitEIROut, TypeOK
  <2>4. Signed(eir'[t], i) /\ eir'[t][i].bon = b
    BY <2>2, <2>3 DEF EIRRec, Signed
  <2>5. \A j : Signed(eir[t], j) => Signed(eir'[t], j) /\ eir'[t][j].bon = eir[t][j].bon
    BY <2>2, <2>3 DEF Signed
  <2>6. ASSUME NEW q \in gate'[t], q.eout # 0
        PROVE  q \in gate[t] \/ (b # 0 /\ q.muat = b /\ q.eout = i)
    <3>1. PICK r \in gate[t] : q = u(r)
      BY <2>1
    <3>2. r \in GateRec
      BY PapersOf
    <3> QED
      BY <3>1, <3>2 DEF GateRec
  <2> HIDE DEF b, u
  <2>7. ASSUME NEW q \in gate'[t], q.eout # 0 PROVE Names(t, q)'
    <3>1. CASE q \in gate[t]
      <4>1. Names(t, q)
        BY <2>7, <3>1 DEF LinksStand
      <4> QED
        BY <1>1, <2>5, <4>1 DEF Names, VoidsStand
    <3>2. CASE b # 0 /\ q.muat = b /\ q.eout = i
      BY <2>4, <3>2 DEF Names
    <3> QED
      BY <2>6, <2>7, <3>1, <3>2
  <2> QED
    BY <2>7
<1> QED
  BY <1>2, <1>3 DEF LinksStand

LEMMA EIRStepLinks ==
    ASSUME TypeOK, LinksStand, NEW t \in Tank, EIRStep(t) PROVE LinksStand'
<1>1. PICK i \in DOMAIN eir[t] :
        \/ StartEIR(t, i)
        \/ \E tick \in SUBSET WorkKind : SubmitEIRIn(t, i, tick)
        \/ SubmitEIROut(t, i) \/ RevertEIR(t, i) \/ VoidEIR(t, i) \/ DiscardEIR(t, i)
  BY DEF EIRStep
<1>2. eir[t] \in Seq(EIRRec) /\ eir[t][i] \in EIRRec
  BY PapersOf
<1>3. \A e : ~Signed(eir[t], i) => SignedKept(eir[t], [eir[t] EXCEPT ![i] = e])
  BY <1>2, SignedRewritten
<1>4. CASE StartEIR(t, i)
  <2> DEFINE e == [eir[t][i] EXCEPT !.started = TRUE]
  <2>1. /\ ~Signed(eir[t], i) /\ UNCHANGED <<gate, bon>>
        /\ eir' = [eir EXCEPT ![t] = [eir[t] EXCEPT ![i] = e]]
    BY <1>4 DEF StartEIR, Signed, TypeOK
  <2> HIDE DEF e
  <2> QED
    BY <2>1, FormLinks
<1>5. CASE \E tick \in SUBSET WorkKind : SubmitEIRIn(t, i, tick)
  <2>1. PICK tick : SubmitEIRIn(t, i, tick)
    BY <1>5
  <2> DEFINE e == [eir[t][i] EXCEPT !.ds = "Submitted", !.snap = status[t]]
  <2>2. ~Signed(eir[t], i) /\ UNCHANGED gate
    BY <2>1 DEF SubmitEIRIn, Signed
  <2>3. Settle(t, status[t], [eir[t] EXCEPT ![i] = e], FollowUps(t, i, tick), eir[t][i].bon)
    BY <2>1 DEF SubmitEIRIn
  <2> HIDE DEF e
  <2> QED
    BY <1>3, <2>2, <2>3, SettleLinks
<1>6. CASE SubmitEIROut(t, i)
  BY <1>6, LinkedLinks
<1>7. CASE (RevertEIR(t, i) \/ VoidEIR(t, i)) /\ eir[t][i].type = "In"
  <2>1. ~Signed(eir[t], i) /\ UNCHANGED gate
    BY <1>7 DEF RevertEIR, VoidEIR, Signed
  <2>2. PICK ds, ws : Settle(t, eir[t][i].snap, [eir[t] EXCEPT ![i].ds = ds], ws, eir[t][i].bon)
    BY <1>7 DEF RevertEIR, VoidEIR
  <2> DEFINE e == [eir[t][i] EXCEPT !.ds = ds]
  <2>3. Settle(t, eir[t][i].snap, [eir[t] EXCEPT ![i] = e], ws, eir[t][i].bon)
    BY <2>2
  <2> HIDE DEF e
  <2> QED
    BY <1>3, <2>1, <2>3, SettleLinks
<1>8. CASE (RevertEIR(t, i) \/ VoidEIR(t, i)) /\ eir[t][i].type # "In"
  <2>1. PICK ds : eir' = [eir EXCEPT ![t][i].ds = ds]
    BY <1>8 DEF RevertEIR, VoidEIR
  <2>2. gate' = [gate EXCEPT ![t] = Unlinked(t, i)] /\ UNCHANGED bon
    BY <1>8 DEF RevertEIR, VoidEIR
  <2> QED
    BY <2>1, <2>2, UnlinkedLinks
<1>9. CASE DiscardEIR(t, i)
  <2>1. ~Signed(eir[t], i) /\ UNCHANGED gate
    BY <1>9 DEF DiscardEIR, Signed
  <2>2. PICK ws : Settle(t, status[t], [eir[t] EXCEPT ![i].ds = "Void"], ws, eir[t][i].bon)
    BY <1>9 DEF DiscardEIR
  <2> DEFINE e == [eir[t][i] EXCEPT !.ds = "Void"]
  <2>3. Settle(t, status[t], [eir[t] EXCEPT ![i] = e], ws, eir[t][i].bon)
    BY <2>2
  <2> HIDE DEF e
  <2> QED
    BY <1>3, <2>1, <2>3, SettleLinks
<1> QED
  BY <1>1, <1>4, <1>5, <1>6, <1>7, <1>8, <1>9

LEMMA LinksStep ==
    ASSUME TypeOK, LinksStand, [Next]_vars PROVE LinksStand'
<1>1. CASE UNCHANGED vars
  BY <1>1, StillLinks DEF vars, VoidsStand, VoidBon
<1>2. CASE \E t \in Tank : WorkStep(t)
  <2>1. UNCHANGED <<gate, eir, bon>>
    BY <1>2 DEF WorkStep, RaiseWork, MoveWork, CancelWork, WorkSaved
  <2> QED
    BY <2>1, StillLinks DEF VoidsStand, VoidBon
<1>3. CASE ToggleEnforceAll
  BY <1>3, StillLinks DEF ToggleEnforceAll, VoidsStand, VoidBon
<1> QED
  BY <1>1, <1>2, <1>3, BookingStepLinks, BonStepLinks, EIRStepLinks DEF Next

(* The EIR-Out a standing departure's Gate Entry shows is one of its own,  *)
(* finished: no revert, void, release or adoption of either leaves the     *)
(* gate log showing an EIR that is open again or another bon's.            *)
THEOREM LinksAreFinished == Spec => []LinkIsFinished
<1>1. Init => LinksStand
  BY DEF Init, LinksStand
<1>2. TypeOK /\ LinksStand /\ [Next]_vars => LinksStand'
  BY LinksStep
<1>3. LinksStand => LinkIsFinished
  BY DEF LinksStand, Names, Signed, VoidBon, LinkIsFinished, FinishedOn
<1> QED
  BY <1>1, <1>2, <1>3, TypeCorrect, PTL DEF Spec
=============================================================================
