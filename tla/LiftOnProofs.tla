---------------------------- MODULE LiftOnProofs ----------------------------
(***************************************************************************)
(* The lift-on stamps, for any fleet and any bookings.  Under every lapse: *)
(* who owns a stamp, and that the open work of a tank shows it.  With no   *)
(* lapse but "take off": a waiting tank is stamped, survey rows and        *)
(* headers follow, and the urgent work goes first.                         *)
(***************************************************************************)
EXTENDS LiftOn, TLAPS

BookingRec ==
  [status : {"New", "Draft", "Confirmed", "Completed", "Cancelled"},
   tanks : SUBSET Tank, urgent : BOOLEAN, bonned : BOOLEAN]

TankRec == [here : BOOLEAN, left : Booking \cup {None}, stamp : Stamp]

OrderRec == [open : BOOLEAN, old : BOOLEAN, by : Booking \cup {None}, urgent : BOOLEAN]

(* What the proofs need of TypeOK: codes and survey rows are not read.     *)
Shape == bk \in [Booking -> BookingRec] /\ tank \in [Tank -> TankRec] /\ order \in [Tank -> OrderRec]

StampInv == Shape /\ StampIsOwned /\ OrdersShowStamp

-----------------------------------------------------------------------------
(* A booking's stamp is a Stamp.                                           *)
LEMMA StampsAreStamps ==
  ASSUME NEW b \in Booking, NEW u \in BOOLEAN
  PROVE  [by |-> b, urgent |-> u] \in Stamp /\ NoStamp \in Stamp
BY SetAssumption DEF Stamp, NoStamp

(* Every way a booking stamps its tanks: the tanks it lists while it is    *)
(* live get its days, the others lose them, and what is stamped is pushed  *)
(* to the open orders.                                                     *)
Restamps(b, tk) ==
  /\ tank' = Stamped(b, bk'[b], tk)
  /\ order' = [t \in Tank |->
       IF t \in Touched(b, bk'[b], tk) /\ Current(t, tk[t].here) THEN Shows(order[t], tank'[t].stamp) ELSE order[t]]

LEMMA SyncRestamps ==
  ASSUME NEW b \in Booking, NEW tk \in [Tank -> TankRec], Sync(b, bk'[b], tk)
  PROVE  Restamps(b, tk)
<1>1. tank' = Stamped(b, bk'[b], tk)
  BY DEF Sync
<1>2. \A t \in Tank : tank'[t].here = tk[t].here
  BY <1>1 DEF Stamped, TankRec
<1>3. order' = [t \in Tank |->
        IF t \in Touched(b, bk'[b], tk) /\ Current(t, tank'[t].here) THEN Shows(order[t], tank'[t].stamp)
        ELSE order[t]]
  BY DEF Sync, Push
<1> QED
  BY <1>1, <1>2, <1>3 DEF Restamps

(* The tanks after a booking's stamping, one by one.                       *)
LEMMA StampedTanks ==
  ASSUME NEW b \in Booking, NEW nb \in BookingRec, NEW tk \in [Tank -> TankRec], NEW t \in Tank
  PROVE  /\ Stamped(b, nb, tk)[t] \in TankRec
         /\ t \notin Touched(b, nb, tk) => Stamped(b, nb, tk)[t] = tk[t]
         /\ t \in Touched(b, nb, tk) =>
              Stamped(b, nb, tk)[t].stamp = IF Live(nb) /\ t \in nb.tanks THEN [by |-> b, urgent |-> nb.urgent]
                                            ELSE NoStamp
<1>1. [by |-> b, urgent |-> nb.urgent] \in Stamp /\ NoStamp \in Stamp
  BY StampsAreStamps DEF BookingRec
<1> DEFINE s == IF Live(nb) /\ t \in nb.tanks THEN [by |-> b, urgent |-> nb.urgent] ELSE NoStamp
<1>2. s \in Stamp
  BY <1>1
<1>3. Stamped(b, nb, tk)[t] = IF t \notin Touched(b, nb, tk) THEN tk[t] ELSE [tk[t] EXCEPT !.stamp = s]
  BY DEF Stamped
<1> HIDE DEF s
<1>4. [tk[t] EXCEPT !.stamp = s] \in TankRec /\ [tk[t] EXCEPT !.stamp = s].stamp = s
  BY <1>2 DEF TankRec
<1> QED
  BY <1>3, <1>4 DEF s

(* Stamping keeps the invariant, whatever happened to the booking itself,  *)
(* if the tanks' stamps stood as they were.                                *)
LEMMA RestampKeeps ==
  ASSUME StampInv, NEW b \in Booking, bk' \in [Booking -> BookingRec],
         \A x \in Booking \ {b} : /\ bk'[x].tanks = bk[x].tanks /\ bk'[x].urgent = bk[x].urgent
                                  /\ bk'[x].status = "Cancelled" => bk[x].status = "Cancelled",
         NEW tk \in [Tank -> TankRec], \A t \in Tank : tk[t].stamp = tank[t].stamp,
         Restamps(b, tk)
  PROVE  StampInv'
<1>1. bk'[b] \in BookingRec
  OBVIOUS
<1>2. \A t \in Tank :
        /\ tank'[t] \in TankRec
        /\ t \notin Touched(b, bk'[b], tk) => tank'[t] = tk[t]
        /\ t \in Touched(b, bk'[b], tk) =>
             tank'[t].stamp = IF Live(bk'[b]) /\ t \in bk'[b].tanks THEN [by |-> b, urgent |-> bk'[b].urgent]
                              ELSE NoStamp
  BY <1>1, StampedTanks DEF Restamps
<1>3. tank' \in [Tank -> TankRec]
  BY <1>2 DEF Restamps, Stamped
<1>4. order' \in [Tank -> OrderRec]
  <2>1. ASSUME NEW t \in Tank PROVE Shows(order[t], tank'[t].stamp) \in OrderRec /\ order[t] \in OrderRec
    <3>1. order[t] \in OrderRec
      BY DEF StampInv, Shape
    <3>2. tank'[t].stamp.by \in Booking \cup {None} /\ tank'[t].stamp.urgent \in BOOLEAN
      BY <1>2 DEF TankRec, Stamp
    <3> QED
      BY <3>1, <3>2 DEF Shows, OrderRec
  <2> QED
    BY <2>1 DEF Restamps
<1>5. StampIsOwned'
  <2> SUFFICES ASSUME NEW t \in Tank, NEW x \in Booking, tank'[t].stamp.by = x
               PROVE  /\ t \in bk'[x].tanks /\ bk'[x].status # "Cancelled"
                      /\ tank'[t].stamp.urgent = bk'[x].urgent
    BY DEF StampIsOwned
  <2>1. CASE t \in Touched(b, bk'[b], tk)
    <3>1. Live(bk'[b]) /\ t \in bk'[b].tanks /\ tank'[t].stamp = [by |-> b, urgent |-> bk'[b].urgent]
      BY <1>2, <2>1, SetAssumption DEF NoStamp
    <3> QED
      BY <3>1 DEF Live
  <2>2. CASE t \notin Touched(b, bk'[b], tk)
    <3>1. tank'[t] = tk[t] /\ tk[t].stamp = tank[t].stamp /\ x # b
      BY <1>2, <2>2 DEF Touched
    <3>2. /\ t \in bk[x].tanks /\ bk[x].status # "Cancelled"
          /\ tank[t].stamp.urgent = bk[x].urgent
      BY <3>1 DEF StampInv, StampIsOwned
    <3> QED
      BY <3>1, <3>2
  <2> QED
    BY <2>1, <2>2
<1>6. OrdersShowStamp'
  <2> SUFFICES ASSUME NEW t \in Tank, order'[t].open, ~order'[t].old
               PROVE  order'[t].by = tank'[t].stamp.by /\ order'[t].urgent = tank'[t].stamp.urgent
    BY DEF OrdersShowStamp
  <2>1. order[t] \in OrderRec /\ order[t].open /\ ~order[t].old
    BY DEF Restamps, Shows, StampInv, Shape, OrderRec
  <2>2. CASE t \in Touched(b, bk'[b], tk)
    <3>1. order'[t] = Shows(order[t], tank'[t].stamp)
      BY <2>1, <2>2 DEF Restamps, Current
    <3> QED
      BY <2>1, <3>1 DEF Shows, OrderRec
  <2>3. CASE t \notin Touched(b, bk'[b], tk)
    <3>1. order'[t] = order[t] /\ tank'[t].stamp = tank[t].stamp
      BY <1>2, <2>3 DEF Restamps
    <3> QED
      BY <2>1, <3>1 DEF StampInv, OrdersShowStamp
  <2> QED
    BY <2>2, <2>3
<1> QED
  BY <1>3, <1>4, <1>5, <1>6 DEF StampInv, Shape

(* Recounting % Keluar only opens and closes bookings.                     *)
LEMMA RefreshedBookings ==
  ASSUME Shape, NEW t \in Tank, NEW codes, NEW tk
  PROVE  /\ Refreshed(t, codes, tk) \in [Booking -> BookingRec]
         /\ \A x \in Booking : LET nb == Refreshed(t, codes, tk)[x] IN
              /\ nb.tanks = bk[x].tanks /\ nb.urgent = bk[x].urgent
              /\ nb.status = "Cancelled" => bk[x].status = "Cancelled"
<1>1. ASSUME NEW x \in Booking
      PROVE  LET nb == Refreshed(t, codes, tk)[x] IN
               /\ nb \in BookingRec /\ nb.tanks = bk[x].tanks /\ nb.urgent = bk[x].urgent
               /\ nb.status = "Cancelled" => bk[x].status = "Cancelled"
  <2>1. bk[x] \in BookingRec
    BY DEF Shape
  <2>2. Refreshed(t, codes, tk)[x] \in {bk[x], [bk[x] EXCEPT !.status = "Completed"],
                                        [bk[x] EXCEPT !.status = "Confirmed"]}
    BY DEF Refreshed, Fulfilled
  <2> QED
    BY <2>1, <2>2 DEF BookingRec
<1>2. DOMAIN Refreshed(t, codes, tk) = Booking
  BY DEF Refreshed
<1>3. Refreshed(t, codes, tk) = [x \in Booking |-> Refreshed(t, codes, tk)[x]]
  BY DEF Refreshed
<1> QED
  BY <1>1, <1>3

(* The steps of a booking's own desk.                                      *)
LEMMA BookingDeskKeeps ==
  ASSUME StampInv, NEW b \in Booking,
         \/ \E ts \in SUBSET Tank : SaveDraft(b, ts)
         \/ Confirm(b) \/ void_draft(b) \/ set_urgent(b) \/ clear_urgent(b)
         \/ \E t \in Tank : remove_tank(b, t)
  PROVE  StampInv'
<1> USE DEF StampInv, Shape
<1>1. \E nb \in BookingRec : bk' = [bk EXCEPT ![b] = nb]
  <2>1. ASSUME NEW ts \in SUBSET Tank, SaveDraft(b, ts) PROVE \E nb \in BookingRec : bk' = [bk EXCEPT ![b] = nb]
    <3>1. bk' = [bk EXCEPT ![b] = [bk[b] EXCEPT !.status = "Draft", !.tanks = ts]]
      BY <2>1 DEF SaveDraft
    <3>2. [bk[b] EXCEPT !.status = "Draft", !.tanks = ts] \in BookingRec
      BY DEF BookingRec
    <3> QED
      BY <3>1, <3>2
  <2>2. ASSUME NEW t \in Tank, remove_tank(b, t) PROVE \E nb \in BookingRec : bk' = [bk EXCEPT ![b] = nb]
    <3>1. bk' = [bk EXCEPT ![b] = [bk[b] EXCEPT !.tanks = bk[b].tanks \ {t}]]
      BY <2>2 DEF remove_tank
    <3>2. [bk[b] EXCEPT !.tanks = bk[b].tanks \ {t}] \in BookingRec
      BY DEF BookingRec
    <3> QED
      BY <3>1, <3>2
  <2>3. ASSUME NEW st \in {"Confirmed", "Cancelled"}, bk' = [bk EXCEPT ![b].status = st]
        PROVE  \E nb \in BookingRec : bk' = [bk EXCEPT ![b] = nb]
    <3>1. [bk[b] EXCEPT !.status = st] \in BookingRec
      BY DEF BookingRec
    <3> QED
      BY <2>3, <3>1
  <2>4. ASSUME NEW u \in BOOLEAN, bk' = [bk EXCEPT ![b].urgent = u]
        PROVE  \E nb \in BookingRec : bk' = [bk EXCEPT ![b] = nb]
    <3>1. [bk[b] EXCEPT !.urgent = u] \in BookingRec
      BY DEF BookingRec
    <3> QED
      BY <2>4, <3>1
  <2> QED
    BY <2>1, <2>2, <2>3, <2>4 DEF Confirm, void_draft, set_urgent, clear_urgent
<1>2. Restamps(b, tank)
  <2>1. CASE Sync(b, bk'[b], tank)
    BY <2>1, SyncRestamps
  <2>2. CASE Confirm(b) \/ \E t \in Tank : remove_tank(b, t)
    BY <2>2 DEF Confirm, remove_tank, Restamps
  <2> QED
    BY <2>1, <2>2 DEF SaveDraft, void_draft, set_urgent, clear_urgent
<1>3. /\ bk' \in [Booking -> BookingRec]
      /\ \A x \in Booking \ {b} : bk'[x] = bk[x]
  BY <1>1
<1> HIDE DEF StampInv, Shape
<1>4. tank \in [Tank -> TankRec]
  BY DEF StampInv, Shape
<1> QED
  BY <1>2, <1>3, <1>4, RestampKeeps

(* The steps of a bon at the gate.                                         *)
LEMMA GateKeeps ==
  ASSUME StampInv, NEW b \in Booking, NEW t \in Tank, mark_gate_out(b, t) \/ RevertBon(b, t) PROVE StampInv'
<1>1. CASE mark_gate_out(b, t)
  <2> DEFINE away == [here |-> FALSE, left |-> b, stamp |-> NoStamp]
  <2>1. bk' = Refreshed(t, code', tank') /\ tank' = [tank EXCEPT ![t] = away]
    BY <1>1 DEF mark_gate_out
  <2>2. /\ bk' \in [Booking -> BookingRec]
        /\ \A x \in Booking : /\ bk'[x].tanks = bk[x].tanks /\ bk'[x].urgent = bk[x].urgent
                              /\ bk'[x].status = "Cancelled" => bk[x].status = "Cancelled"
    BY <2>1, RefreshedBookings DEF StampInv
  <2>3. away \in TankRec /\ away.stamp = NoStamp
    BY DEF TankRec, Stamp, NoStamp
  <2> HIDE DEF away
  <2>4. tank' \in [Tank -> TankRec] /\ tank'[t].stamp = NoStamp /\ \A u \in Tank \ {t} : tank'[u] = tank[u]
    BY <2>1, <2>3 DEF StampInv, Shape
  <2>5. StampIsOwned'
    <3> SUFFICES ASSUME NEW u \in Tank, NEW x \in Booking, tank'[u].stamp.by = x
                 PROVE  /\ u \in bk'[x].tanks /\ bk'[x].status # "Cancelled"
                        /\ tank'[u].stamp.urgent = bk'[x].urgent
      BY DEF StampIsOwned
    <3>1. u # t
      BY <2>4, SetAssumption DEF NoStamp
    <3>2. tank[u].stamp.by = x /\ tank'[u] = tank[u]
      BY <2>4, <3>1
    <3> QED
      BY <2>2, <3>2 DEF StampInv, StampIsOwned
  <2>6. \A u \in Tank : order'[u] = order[u] \/ (u = t /\ order'[u] = Shows(order[u], tank'[u].stamp))
    BY <1>1 DEF mark_gate_out, Push
  <2>7. order[t].open => order'[t] = Shows(order[t], NoStamp) \/ (order'[t] = order[t] /\ tank[t].stamp = NoStamp)
    <3>1. CASE tank[t].stamp.by # None
      <4>1. ~tank'[t].here
        BY <2>1, <2>4 DEF away, StampInv, Shape
      <4> QED
        BY <1>1, <2>4, <3>1, <4>1 DEF mark_gate_out, Push, Current
    <3>2. CASE tank[t].stamp.by = None
      <4>1. tank[t].stamp = NoStamp
        <5>1. tank[t].stamp \in Stamp
          BY DEF StampInv, Shape, TankRec
        <5> QED
          BY <3>2, <5>1 DEF Stamp, NoStamp
      <4>2. order'[t] = order[t]
        BY <1>1, <3>2 DEF mark_gate_out, Push, StampInv, Shape
      <4> QED
        BY <4>1, <4>2
    <3> QED
      BY <3>1, <3>2
  <2>8. order' \in [Tank -> OrderRec]
    <3>1. ASSUME NEW u \in Tank PROVE order'[u] \in OrderRec
      <4>1. order[u] \in OrderRec
        BY DEF StampInv, Shape
      <4>2. tank'[u].stamp.by \in Booking \cup {None} /\ tank'[u].stamp.urgent \in BOOLEAN
        BY <2>4 DEF TankRec, Stamp
      <4> QED
        BY <2>6, <4>1, <4>2 DEF Shows, OrderRec
    <3>2. order' = [u \in Tank |-> order'[u]]
      BY <1>1 DEF mark_gate_out, Push
    <3> QED
      BY <3>1, <3>2
  <2>9. OrdersShowStamp'
    <3> SUFFICES ASSUME NEW u \in Tank, order'[u].open, ~order'[u].old
                 PROVE  order'[u].by = tank'[u].stamp.by /\ order'[u].urgent = tank'[u].stamp.urgent
      BY DEF OrdersShowStamp
    <3>1. order[u] \in OrderRec
      BY DEF StampInv, Shape
    <3>2. order[u].open /\ ~order[u].old
      BY <2>6, <3>1 DEF Shows, OrderRec
    <3>3. CASE u = t
      BY <2>4, <2>7, <3>1, <3>2, <3>3 DEF Shows, OrderRec, StampInv, OrdersShowStamp
    <3>4. CASE u # t
      BY <2>4, <2>6, <3>2, <3>4 DEF StampInv, OrdersShowStamp
    <3> QED
      BY <3>3, <3>4
  <2> QED
    BY <2>2, <2>4, <2>5, <2>8, <2>9 DEF StampInv, Shape
<1>2. CASE RevertBon(b, t)
  <2> DEFINE back == [tank EXCEPT ![t].here = TRUE]
  <2>1. CASE UNCHANGED <<bk, tank, order, row, header>>
    BY <2>1 DEF StampInv, Shape, StampIsOwned, OrdersShowStamp
  <2>2. CASE bk' = Refreshed(t, code', back) /\ Sync(b, bk'[b], back)
    <3>1. back \in [Tank -> TankRec] /\ \A u \in Tank : back[u].stamp = tank[u].stamp
      BY DEF StampInv, Shape, TankRec
    <3> HIDE DEF back
    <3>2. /\ bk' \in [Booking -> BookingRec]
          /\ \A x \in Booking : /\ bk'[x].tanks = bk[x].tanks /\ bk'[x].urgent = bk[x].urgent
                                /\ bk'[x].status = "Cancelled" => bk[x].status = "Cancelled"
      BY <2>2, RefreshedBookings DEF StampInv
    <3>3. Restamps(b, back)
      BY <2>2, <3>1, SyncRestamps
    <3> QED
      BY <3>1, <3>2, <3>3, RestampKeeps
  <2> QED
    BY <1>2, <2>1, <2>2 DEF RevertBon
<1> QED
  BY <1>1, <1>2

(* The steps of the yard.                                                  *)
LEMMA YardKeeps ==
  ASSUME StampInv, NEW t \in Tank, TankStep(t) PROVE StampInv'
<1>1. CASE Arrive(t)
  <2>1. /\ tank' \in [Tank -> TankRec] /\ \A u \in Tank : tank'[u].stamp = tank[u].stamp
        /\ order' \in [Tank -> OrderRec]
        /\ \A u \in Tank : order'[u].open /\ ~order'[u].old => order'[u] = order[u]
    <3>1. /\ tank' = [tank EXCEPT ![t] = [tank[t] EXCEPT !.here = TRUE]]
          /\ order' = [order EXCEPT ![t] = [order[t] EXCEPT !.old = order[t].open]]
      BY <1>1 DEF Arrive
    <3>2. tank \in [Tank -> TankRec] /\ order \in [Tank -> OrderRec]
      BY DEF StampInv, Shape
    <3>3. tank[t] \in TankRec /\ order[t] \in OrderRec
      BY <3>2
    <3>4. [tank[t] EXCEPT !.here = TRUE] \in TankRec /\ [tank[t] EXCEPT !.here = TRUE].stamp = tank[t].stamp
      BY <3>3 DEF TankRec
    <3>5. /\ order[t].open \in BOOLEAN /\ [order[t] EXCEPT !.old = order[t].open] \in OrderRec
          /\ [order[t] EXCEPT !.old = order[t].open].open = order[t].open
          /\ [order[t] EXCEPT !.old = order[t].open].old = order[t].open
      BY <3>3 DEF OrderRec
    <3> QED
      BY <3>1, <3>2, <3>4, <3>5
  <2> QED
    BY <1>1, <2>1 DEF Arrive, StampInv, Shape, StampIsOwned, OrdersShowStamp
<1>2. CASE OpenOrder(t) \/ SaveOrder(t) \/ FinishOrder(t)
  <2>1. tank[t].stamp.by \in Booking \cup {None} /\ tank[t].stamp.urgent \in BOOLEAN
    BY DEF StampInv, Shape, TankRec, Stamp
  <2>2. PICK o \in OrderRec : /\ order' = [order EXCEPT ![t] = o]
                              /\ o.open => o.by = tank[t].stamp.by /\ o.urgent = tank[t].stamp.urgent
    <3>1. CASE OpenOrder(t)
      <4> DEFINE o == Shows([NoOrder EXCEPT !.open = TRUE], tank[t].stamp)
      <4>1. o \in OrderRec /\ o.by = tank[t].stamp.by /\ o.urgent = tank[t].stamp.urgent
        BY <2>1 DEF Shows, NoOrder, OrderRec
      <4> QED
        BY <3>1, <4>1 DEF OpenOrder
    <3>2. CASE SaveOrder(t)
      <4> DEFINE o == Shows(order[t], tank[t].stamp)
      <4>1. o \in OrderRec /\ o.by = tank[t].stamp.by /\ o.urgent = tank[t].stamp.urgent
        BY <2>1 DEF Shows, OrderRec, StampInv, Shape
      <4>2. order' = [order EXCEPT ![t] = o]
        BY <3>2 DEF SaveOrder, StampInv, Shape
      <4> QED
        BY <4>1, <4>2
    <3>3. CASE FinishOrder(t)
      <4>1. NoOrder \in OrderRec /\ ~NoOrder.open
        BY DEF NoOrder, OrderRec
      <4> QED
        BY <3>3, <4>1 DEF FinishOrder
    <3> QED
      BY <1>2, <3>1, <3>2, <3>3
  <2>3. UNCHANGED <<bk, tank>>
    BY <1>2 DEF OpenOrder, SaveOrder, FinishOrder
  <2> QED
    BY <2>2, <2>3 DEF StampInv, Shape, StampIsOwned, OrdersShowStamp
<1> QED
  BY <1>1, <1>2 DEF TankStep

(* No tank is stamped at first, and no step of Next leaves a stamp behind. *)
LEMMA BornStamped == Init => StampInv
<1> SUFFICES ASSUME Init PROVE StampInv
  OBVIOUS
<1>1. bk \in [Booking -> BookingRec]
  BY DEF Init, BookingRec
<1>2. NoOrder \in OrderRec /\ order = [t \in Tank |-> NoOrder]
  BY DEF Init, NoOrder, OrderRec
<1>3. tank \in [Tank -> TankRec]
  <2>1. NoStamp \in Stamp
    BY DEF NoStamp, Stamp
  <2> QED
    BY <2>1 DEF Init, TankRec
<1>4. StampIsOwned /\ OrdersShowStamp
  BY SetAssumption DEF Init, NoOrder, NoStamp, StampIsOwned, OrdersShowStamp
<1> QED
  BY <1>1, <1>2, <1>3, <1>4 DEF StampInv, Shape

LEMMA StampStep == StampInv /\ [Next]_vars => StampInv'
<1> SUFFICES ASSUME StampInv, [Next]_vars PROVE StampInv'
  OBVIOUS
<1>1. ASSUME NEW b \in Booking, revert_booking_to_draft(b) PROVE StampInv'
  BY <1>1 DEF revert_booking_to_draft, StampInv, Shape, BookingRec, StampIsOwned, OrdersShowStamp
<1>2. ASSUME NEW b \in Booking, NEW t \in Tank, NewBon(b, t) \/ VoidBon(b, t) PROVE StampInv'
  <2>1. CASE NewBon(b, t)
    <3>1. bk' = [bk EXCEPT ![b] = [bk[b] EXCEPT !.bonned = TRUE]] /\ UNCHANGED <<tank, order>>
      BY <2>1 DEF NewBon, StampInv, Shape
    <3>2. /\ [bk[b] EXCEPT !.bonned = TRUE] \in BookingRec
          /\ [bk[b] EXCEPT !.bonned = TRUE].tanks = bk[b].tanks
          /\ [bk[b] EXCEPT !.bonned = TRUE].urgent = bk[b].urgent
          /\ [bk[b] EXCEPT !.bonned = TRUE].status = bk[b].status
      BY DEF StampInv, Shape, BookingRec
    <3> QED
      BY <3>1, <3>2 DEF StampInv, Shape, StampIsOwned, OrdersShowStamp
  <2>2. CASE VoidBon(b, t)
    BY <2>2 DEF VoidBon, StampInv, Shape, StampIsOwned, OrdersShowStamp
  <2> QED
    BY <1>2, <2>1, <2>2
<1>3. CASE UNCHANGED vars
  BY <1>3 DEF vars, StampInv, Shape, StampIsOwned, OrdersShowStamp
<1> QED
  BY <1>1, <1>2, <1>3, BookingDeskKeeps, GateKeeps, YardKeeps DEF Next, BookingStep

(* A stamp belongs to a booking that lists the tank, is not cancelled and  *)
(* is as urgent as the stamp says, and the open work of this visit shows   *)
(* it, for every lapse (sync_booking_targets, push_to_open_orders,         *)
(* release_on_gate_out).                                                   *)
THEOREM StampsFollowBookings == Spec => [](StampIsOwned /\ OrdersShowStamp)
<1>1. StampInv => StampIsOwned /\ OrdersShowStamp
  BY DEF StampInv
<1> QED
  BY <1>1, BornStamped, StampStep, PTL DEF Spec

-----------------------------------------------------------------------------
(* The codes, the bookings that wait, and the survey's header              *)

(* A Booking Code c of tank t, of a booking nb.                            *)
CodeFits(nb, c, t, here) ==
  /\ nb.status \in {"New", "Cancelled"} => c = "None"
  /\ nb.status = "Draft" => c \in {"None", "Active"}
  /\ nb.status \in {"New", "Draft"} => ~nb.bonned
  /\ nb.status \in {"Confirmed", "Completed"} => (c = "None" <=> t \notin nb.tanks)
  /\ c # "None" => t \in nb.tanks
  /\ c \in {"Used", "Left"} => nb.bonned
  /\ c = "Used" => here /\ nb.status = "Confirmed"
  /\ nb.status = "Completed" => c \in {"None", "Left"}

CodesFit == \A b \in Booking, t \in Tank : CodeFits(bk[b], code[b][t], t, tank[t].here)

(* Of two live bookings that list a tank, it has left on one.              *)
Lists(b, t) == Live(bk[b]) /\ t \in bk[b].tanks

OneWaits ==
  \A b, x \in Booking, t \in Tank :
    b # x /\ Lists(b, t) /\ Lists(x, t) => code[b][t] = "Left" \/ code[x][t] = "Left"

Awaits(b, t) == bk[b].status = "Confirmed" /\ t \in bk[b].tanks /\ code[b][t] # "Left"

HeaderFits == \A b \in Booking : header[b] = \E t \in Tank : row[b][t] # NoRow /\ row[b][t].urgent

Codes == {"None", "Active", "Used", "Left"}

LiftOnInv ==
  /\ StampInv
  /\ code \in [Booking -> [Tank -> Codes]]
  /\ row \in [Booking -> [Tank -> Stamp \cup {NoRow}]] /\ header \in [Booking -> BOOLEAN]
  /\ CodesFit /\ OneWaits /\ WaitingIsStamped /\ HeaderFits

(* What is pushed to the survey rows is counted in their header.           *)
LEMMA PushedRows ==
  ASSUME LiftOnInv, NEW tk \in [Tank -> TankRec], NEW touched, Push(tk, touched)
  PROVE  /\ row' \in [Booking -> [Tank -> Stamp \cup {NoRow}]] /\ header' \in [Booking -> BOOLEAN]
         /\ HeaderFits'
<1>1. \A t \in Tank : tk[t].stamp \in Stamp
  BY DEF TankRec
<1>2. row' = [b \in Booking |-> [t \in Tank |->
         IF t \in touched /\ row[b][t] # NoRow THEN tk[t].stamp ELSE row[b][t]]]
  BY DEF Push
<1>3. header' = [b \in Booking |->
         IF \E t \in touched : row[b][t] # NoRow
         THEN \E t \in Tank : row'[b][t] # NoRow /\ row'[b][t].urgent
         ELSE header[b]]
  BY DEF Push
<1>4. row' \in [Booking -> [Tank -> Stamp \cup {NoRow}]]
  BY <1>1, <1>2 DEF LiftOnInv
<1>5. ASSUME NEW b \in Booking
      PROVE  /\ header'[b] \in BOOLEAN
             /\ header'[b] = \E t \in Tank : row'[b][t] # NoRow /\ row'[b][t].urgent
  <2>1. CASE \E t \in touched : row[b][t] # NoRow
    BY <1>3, <2>1
  <2>2. CASE ~\E t \in touched : row[b][t] # NoRow
    <3>1. \A t \in Tank : row'[b][t] = row[b][t]
      BY <1>2, <2>2
    <3>2. header'[b] = header[b]
      BY <1>3, <2>2
    <3> QED
      BY <3>1, <3>2 DEF LiftOnInv, HeaderFits
  <2> QED
    BY <2>1, <2>2
<1>6. header' \in [Booking -> BOOLEAN]
  BY <1>3, <1>5
<1> QED
  BY <1>4, <1>5, <1>6 DEF HeaderFits

(* A booking stamps its tanks, and the tanks the others wait for are none  *)
(* of them.                                                                *)
LEMMA RestampedWait ==
  ASSUME NEW b \in Booking, bk' \in [Booking -> BookingRec], NEW tk \in [Tank -> TankRec], Restamps(b, tk),
         \A x \in Booking \ {b}, t \in Tank : Awaits(x, t)' => tk[t].stamp.by = x /\ ~Lists(b, t)'
  PROVE  WaitingIsStamped'
<1> SUFFICES ASSUME NEW x \in Booking, NEW t \in Tank, Awaits(x, t)'
             PROVE  tank'[t].stamp.by = x
  BY DEF WaitingIsStamped, Awaits
<1>1. /\ t \notin Touched(b, bk'[b], tk) => tank'[t] = tk[t]
      /\ t \in Touched(b, bk'[b], tk) =>
           tank'[t].stamp = IF Live(bk'[b]) /\ t \in bk'[b].tanks THEN [by |-> b, urgent |-> bk'[b].urgent]
                            ELSE NoStamp
  BY StampedTanks DEF Restamps
<1>2. CASE x = b
  <2>1. Live(bk'[b]) /\ t \in bk'[b].tanks
    BY <1>2 DEF Awaits, Live
  <2> QED
    BY <1>1, <1>2, <2>1 DEF Touched
<1>3. CASE x # b
  <2>1. tk[t].stamp.by = x /\ ~(Live(bk'[b]) /\ t \in bk'[b].tanks)
    BY <1>3 DEF Lists
  <2>2. t \notin Touched(b, bk'[b], tk)
    BY <1>3, <2>1 DEF Touched
  <2> QED
    BY <1>1, <2>1, <2>2
<1> QED
  BY <1>2, <1>3

(* A booking's own desk changes only that booking, and what it lists is    *)
(* listed by no other it has not left on.                                  *)
LEMMA OwnDesk ==
  ASSUME LiftOnInv, NEW b \in Booking, bk' \in [Booking -> BookingRec], Restamps(b, tank),
         \A x \in Booking \ {b} : bk'[x] = bk[x] /\ code'[x] = code[x],
         \A x \in Booking \ {b}, t \in Tank : Lists(x, t) /\ Lists(b, t)' => code[x][t] = "Left"
  PROVE  OneWaits' /\ WaitingIsStamped'
<1>1. \A x \in Booking \ {b}, t \in Tank : (Lists(x, t)' <=> Lists(x, t)) /\ (Awaits(x, t)' <=> Awaits(x, t))
  BY DEF Lists, Awaits
<1>2. OneWaits'
  <2> SUFFICES ASSUME NEW x \in Booking, NEW y \in Booking, NEW t \in Tank,
                      x # y, Lists(x, t)', Lists(y, t)'
               PROVE  code'[x][t] = "Left" \/ code'[y][t] = "Left"
    BY DEF OneWaits
  <2>1. CASE x # b /\ y # b
    BY <1>1, <2>1 DEF LiftOnInv, OneWaits
  <2>2. CASE x = b
    BY <1>1, <2>2
  <2>3. CASE y = b
    BY <1>1, <2>3
  <2> QED
    BY <2>1, <2>2, <2>3
<1>3. ASSUME NEW x \in Booking \ {b}, NEW t \in Tank, Awaits(x, t)'
      PROVE  tank[t].stamp.by = x /\ ~Lists(b, t)'
  <2>1. Awaits(x, t)
    BY <1>1, <1>3
  <2>2. Lists(x, t) /\ code[x][t] # "Left" /\ tank[t].stamp.by = x
    BY <2>1 DEF Awaits, Lists, Live, LiftOnInv, WaitingIsStamped
  <2> QED
    BY <2>2
<1>4. tank \in [Tank -> TankRec]
  BY DEF LiftOnInv, StampInv, Shape
<1> QED
  BY <1>2, <1>3, <1>4, RestampedWait

(* What is left to show of a step of the booking's desk.                   *)
LEMMA OwnDeskKeeps ==
  ASSUME LiftOnInv, StampInv', NEW b \in Booking, NEW nb \in BookingRec, NEW c \in [Tank -> Codes],
         bk' = [bk EXCEPT ![b] = nb], code' = [code EXCEPT ![b] = c], Restamps(b, tank),
         \A t \in Tank : CodeFits(nb, c[t], t, tank[t].here),
         \A x \in Booking \ {b}, t \in Tank : Lists(x, t) /\ Live(nb) /\ t \in nb.tanks => code[x][t] = "Left",
         row' \in [Booking -> [Tank -> Stamp \cup {NoRow}]], header' \in [Booking -> BOOLEAN], HeaderFits'
  PROVE  LiftOnInv'
<1>1. /\ bk \in [Booking -> BookingRec] /\ code \in [Booking -> [Tank -> Codes]] /\ tank \in [Tank -> TankRec]
  BY DEF LiftOnInv, StampInv, Shape
<1>2. /\ bk' \in [Booking -> BookingRec] /\ code' \in [Booking -> [Tank -> Codes]]
      /\ bk'[b] = nb /\ code'[b] = c
      /\ \A x \in Booking \ {b} : bk'[x] = bk[x] /\ code'[x] = code[x]
  BY <1>1
<1>3. \A t \in Tank : tank'[t].here = tank[t].here
  BY <1>1 DEF Restamps, Stamped, TankRec
<1>4. CodesFit'
  <2> SUFFICES ASSUME NEW x \in Booking, NEW t \in Tank
               PROVE  CodeFits(bk'[x], code'[x][t], t, tank'[t].here)
    BY DEF CodesFit
  <2>1. CASE x = b
    BY <1>2, <1>3, <2>1
  <2>2. CASE x # b
    <3>1. CodeFits(bk[x], code[x][t], t, tank[t].here)
      BY DEF LiftOnInv, CodesFit
    <3> QED
      BY <1>2, <1>3, <2>2, <3>1
  <2> QED
    BY <2>1, <2>2
<1>5. \A x \in Booking \ {b}, t \in Tank : Lists(x, t) /\ Lists(b, t)' => code[x][t] = "Left"
  BY <1>2 DEF Lists
<1>6. OneWaits' /\ WaitingIsStamped'
  BY <1>2, <1>5, OwnDesk
<1> QED
  BY <1>2, <1>4, <1>6 DEF LiftOnInv

LEMMA DeskKeepsAll ==
  ASSUME Lapse \subseteq {"take off"}, LiftOnInv, NEW b \in Booking,
         \/ \E ts \in SUBSET Tank : SaveDraft(b, ts)
         \/ Confirm(b) \/ void_draft(b) \/ set_urgent(b) \/ clear_urgent(b)
         \/ \E t \in Tank : remove_tank(b, t)
  PROVE  LiftOnInv'
<1>1. /\ bk \in [Booking -> BookingRec] /\ code \in [Booking -> [Tank -> Codes]] /\ tank \in [Tank -> TankRec]
      /\ bk[b] \in BookingRec /\ code[b] \in [Tank -> Codes]
      /\ \A t \in Tank : CodeFits(bk[b], code[b][t], t, tank[t].here)
      /\ "late sync" \notin Lapse /\ "rival draft" \notin Lapse
  BY DEF LiftOnInv, StampInv, Shape, CodesFit
<1>2. StampInv'
  BY BookingDeskKeeps DEF LiftOnInv
<1>3. tank' \in [Tank -> TankRec]
  BY <1>2 DEF StampInv, Shape
<1>4. ASSUME Sync(b, bk'[b], tank)
      PROVE  /\ Restamps(b, tank)
             /\ row' \in [Booking -> [Tank -> Stamp \cup {NoRow}]] /\ header' \in [Booking -> BOOLEAN]
             /\ HeaderFits'
  <2>1. Restamps(b, tank)
    BY <1>1, <1>4, SyncRestamps
  <2>2. Push(tank', Touched(b, bk'[b], tank))
    BY <1>4 DEF Sync
  <2>3. \A T : Push(tank', T) => \E tk \in [Tank -> TankRec] : tk = tank' /\ Push(tk, T)
    BY <1>3
  <2> QED
    BY <2>1, <2>2, <2>3, PushedRows
<1>5. ASSUME NEW ts \in SUBSET Tank, SaveDraft(b, ts) PROVE LiftOnInv'
  <2> DEFINE nb == [bk[b] EXCEPT !.status = "Draft", !.tanks = ts]
             c == [t \in Tank |-> IF t \in ts THEN code[b][t] ELSE "None"]
  <2>1. /\ bk' = [bk EXCEPT ![b] = nb] /\ code' = [code EXCEPT ![b] = c]
        /\ Sync(b, bk'[b], tank) /\ bk[b].status \in {"New", "Draft"} /\ Alone(b, ts)
    BY <1>1, <1>5 DEF SaveDraft
  <2>2. nb \in BookingRec /\ nb.status = "Draft" /\ nb.tanks = ts /\ nb.bonned = bk[b].bonned
    BY <1>1 DEF BookingRec
  <2>3. c \in [Tank -> Codes]
    BY <1>1 DEF Codes
  <2>4. \A t \in Tank : CodeFits(nb, c[t], t, tank[t].here)
    BY <1>1, <2>1, <2>2 DEF CodeFits
  <2>5. \A x \in Booking \ {b}, t \in Tank : Lists(x, t) /\ Live(nb) /\ t \in nb.tanks => code[x][t] = "Left"
    BY <1>1, <2>1, <2>2 DEF Alone, Lists
  <2> HIDE DEF nb, c
  <2> QED
    BY <1>2, <1>4, <2>1, <2>2, <2>3, <2>4, <2>5, OwnDeskKeeps
<1>6. ASSUME void_draft(b) PROVE LiftOnInv'
  <2> DEFINE nb == [bk[b] EXCEPT !.status = "Cancelled"]
             c == [t \in Tank |-> "None"]
  <2>1. /\ bk' = [bk EXCEPT ![b] = nb] /\ code' = [code EXCEPT ![b] = c]
        /\ Sync(b, bk'[b], tank)
    BY <1>1, <1>6 DEF void_draft
  <2>2. nb \in BookingRec /\ nb.status = "Cancelled" /\ ~Live(nb)
    BY <1>1 DEF BookingRec, Live
  <2>3. c \in [Tank -> Codes]
    BY DEF Codes
  <2>4. \A t \in Tank : CodeFits(nb, c[t], t, tank[t].here)
    BY <2>2 DEF CodeFits
  <2> HIDE DEF nb, c
  <2> QED
    BY <1>2, <1>4, <2>1, <2>2, <2>3, <2>4, OwnDeskKeeps
<1>7. ASSUME NEW u \in BOOLEAN, bk' = [bk EXCEPT ![b].urgent = u], code' = code, Sync(b, bk'[b], tank),
             Alone(b, bk[b].tanks)
      PROVE  LiftOnInv'
  <2> DEFINE nb == [bk[b] EXCEPT !.urgent = u]
  <2>1. bk' = [bk EXCEPT ![b] = nb] /\ code' = [code EXCEPT ![b] = code[b]]
    BY <1>1, <1>7
  <2>2. nb \in BookingRec /\ nb.status = bk[b].status /\ nb.tanks = bk[b].tanks /\ nb.bonned = bk[b].bonned
    BY <1>1 DEF BookingRec
  <2>3. \A t \in Tank : CodeFits(nb, code[b][t], t, tank[t].here)
    BY <1>1, <2>2 DEF CodeFits
  <2>4. \A x \in Booking \ {b}, t \in Tank : Lists(x, t) /\ Live(nb) /\ t \in nb.tanks => code[x][t] = "Left"
    BY <1>1, <1>7, <2>2 DEF Alone, Lists
  <2> HIDE DEF nb
  <2> QED
    BY <1>1, <1>2, <1>4, <1>7, <2>1, <2>2, <2>3, <2>4, OwnDeskKeeps
<1>8. ASSUME set_urgent(b) \/ clear_urgent(b) PROVE LiftOnInv'
  <2>1. CASE set_urgent(b)
    BY <1>7, <2>1 DEF set_urgent
  <2>2. CASE clear_urgent(b)
    BY <1>7, <2>2 DEF clear_urgent
  <2> QED
    BY <1>8, <2>1, <2>2
<1>9. ASSUME Confirm(b) PROVE LiftOnInv'
  <2> DEFINE nb == [bk[b] EXCEPT !.status = "Confirmed"]
             c == [t \in Tank |-> IF t \in bk[b].tanks THEN "Active" ELSE code[b][t]]
             touched == Touched(b, bk'[b], tank)
  <2>1. bk' = [bk EXCEPT ![b] = nb] /\ code' = [code EXCEPT ![b] = c] /\ bk[b].status = "Draft"
    BY <1>1, <1>9 DEF Confirm
  <2>2. nb \in BookingRec /\ nb.status = "Confirmed" /\ nb.tanks = bk[b].tanks /\ nb.bonned = bk[b].bonned
    BY <1>1 DEF BookingRec
  <2>3. c \in [Tank -> Codes]
    BY <1>1 DEF Codes
  <2>4. \A t \in Tank : CodeFits(nb, c[t], t, tank[t].here)
    BY <1>1, <2>1, <2>2 DEF CodeFits
  <2>5. ASSUME NEW x \in Booking \ {b}, NEW t \in Tank, Lists(x, t), t \in nb.tanks PROVE code[x][t] = "Left"
    <3>1. Lists(b, t) /\ code[b][t] # "Left"
      BY <1>1, <2>1, <2>2, <2>5 DEF Lists, Live, CodeFits
    <3> QED
      BY <2>5, <3>1 DEF LiftOnInv, OneWaits
  <2>6. Restamps(b, tank)
    BY <1>9 DEF Confirm, Restamps
  <2>7. /\ row' = [x \in Booking |->
              IF x = b THEN NewRows(b)
              ELSE [t \in Tank |-> IF t \in touched /\ row[x][t] # NoRow THEN tank'[t].stamp ELSE row[x][t]]]
        /\ header' = [x \in Booking |->
              IF x = b THEN FALSE
              ELSE IF \E t \in touched : row[x][t] # NoRow
              THEN \E t \in Tank : row'[x][t] # NoRow /\ row'[x][t].urgent ELSE header[x]]
    BY <1>9 DEF Confirm
  <2>8. \A t \in Tank : tank'[t].stamp \in Stamp
    BY <1>3 DEF TankRec
  <2>9. NewRows(b) \in [Tank -> Stamp \cup {NoRow}] /\ \A t \in Tank : NewRows(b)[t] = NoRow \/ ~NewRows(b)[t].urgent
    <3>1. [by |-> b, urgent |-> FALSE] \in Stamp
      BY StampsAreStamps
    <3> QED
      BY <3>1 DEF NewRows
  <2> HIDE DEF touched
  <2>10. row' \in [Booking -> [Tank -> Stamp \cup {NoRow}]]
    BY <2>7, <2>8, <2>9 DEF LiftOnInv
  <2>11. ASSUME NEW x \in Booking
         PROVE  header'[x] \in BOOLEAN /\ header'[x] = \E t \in Tank : row'[x][t] # NoRow /\ row'[x][t].urgent
    <3>1. CASE x = b
      <4>1. row'[x] = NewRows(b) /\ header'[x] = FALSE
        BY <2>7, <3>1
      <4> QED
        BY <2>9, <4>1
    <3>2. CASE x # b /\ \E t \in touched : row[x][t] # NoRow
      BY <2>7, <3>2
    <3>3. CASE x # b /\ ~\E t \in touched : row[x][t] # NoRow
      <4>1. \A t \in Tank : row'[x][t] = row[x][t]
        BY <2>7, <3>3
      <4>2. header'[x] = header[x]
        BY <2>7, <3>3
      <4> QED
        BY <4>1, <4>2 DEF LiftOnInv, HeaderFits
    <3> QED
      BY <3>1, <3>2, <3>3
  <2>12. header' \in [Booking -> BOOLEAN] /\ HeaderFits'
    BY <2>7, <2>11 DEF HeaderFits
  <2>13. \A x \in Booking \ {b}, t \in Tank : Lists(x, t) /\ Live(nb) /\ t \in nb.tanks => code[x][t] = "Left"
    BY <2>5
  <2> HIDE DEF nb, c
  <2> QED
    BY <1>2, <2>1, <2>2, <2>3, <2>4, <2>6, <2>10, <2>12, <2>13, OwnDeskKeeps
<1>10. ASSUME NEW r \in Tank, remove_tank(b, r) PROVE LiftOnInv'
  <2> DEFINE nb == [bk[b] EXCEPT !.tanks = bk[b].tanks \ {r}]
             c == [code[b] EXCEPT ![r] = "None"]
             touched == Touched(b, bk'[b], tank)
  <2>1. /\ bk' = [bk EXCEPT ![b] = nb] /\ code' = [code EXCEPT ![b] = c]
        /\ bk[b].status = "Confirmed" /\ r \in bk[b].tanks /\ code[b][r] = "Active"
        /\ \A t \in bk[b].tanks : code[b][t] # "Left"
    BY <1>1, <1>10 DEF remove_tank, Early
  <2>2. nb \in BookingRec /\ nb.status = "Confirmed" /\ nb.tanks = bk[b].tanks \ {r} /\ nb.bonned = bk[b].bonned
    BY <1>1, <2>1 DEF BookingRec
  <2>3. c \in [Tank -> Codes] /\ c[r] = "None" /\ \A t \in Tank \ {r} : c[t] = code[b][t]
    BY <1>1 DEF Codes
  <2>4. \A t \in Tank : CodeFits(nb, c[t], t, tank[t].here)
    <3> HIDE DEF nb, c
    <3> QED
      BY <1>1, <2>1, <2>2, <2>3 DEF CodeFits
  <2>5. ASSUME NEW x \in Booking \ {b}, NEW t \in Tank, Lists(x, t), t \in nb.tanks PROVE code[x][t] = "Left"
    <3>1. Lists(b, t) /\ code[b][t] # "Left"
      BY <1>1, <2>1, <2>2, <2>5 DEF Lists, Live
    <3>2. OneWaits /\ x \in Booking /\ b \in Booking /\ b # x
      BY <2>5 DEF LiftOnInv
    <3> QED
      BY <2>5, <3>1, <3>2 DEF OneWaits
  <2>6. Restamps(b, tank)
    BY <1>10 DEF remove_tank, Restamps
  <2>7. /\ row' = [x \in Booking |-> [u \in Tank |->
              IF x = b /\ u = r THEN NoRow
              ELSE IF u \in touched /\ row[x][u] # NoRow THEN tank'[u].stamp ELSE row[x][u]]]
        /\ header' = [x \in Booking |->
              IF \E u \in touched : row[x][u] # NoRow
              THEN \E u \in Tank : row'[x][u] # NoRow /\ row'[x][u].urgent ELSE header[x]]
    BY <1>10 DEF remove_tank
  <2>8. \A t \in Tank : tank'[t].stamp \in Stamp
    BY <1>3 DEF TankRec
  <2>9. r \in touched
    <3>1. tank[r].stamp.by = b
      BY <2>1 DEF LiftOnInv, WaitingIsStamped
    <3> QED
      BY <3>1 DEF Touched
  <2> HIDE DEF touched
  <2>10. row' \in [Booking -> [Tank -> Stamp \cup {NoRow}]]
    BY <2>7, <2>8 DEF LiftOnInv
  <2>11. ASSUME NEW x \in Booking
         PROVE  header'[x] \in BOOLEAN /\ header'[x] = \E t \in Tank : row'[x][t] # NoRow /\ row'[x][t].urgent
    <3>1. CASE \E t \in touched : row[x][t] # NoRow
      BY <2>7, <3>1
    <3>2. CASE ~\E t \in touched : row[x][t] # NoRow
      <4>1. \A t \in Tank : row'[x][t] = row[x][t]
        BY <2>7, <2>9, <3>2
      <4>2. header'[x] = header[x]
        BY <2>7, <3>2
      <4> QED
        BY <4>1, <4>2 DEF LiftOnInv, HeaderFits
    <3> QED
      BY <3>1, <3>2
  <2>12. header' \in [Booking -> BOOLEAN] /\ HeaderFits'
    BY <2>7, <2>11 DEF HeaderFits
  <2>13. \A x \in Booking \ {b}, t \in Tank : Lists(x, t) /\ Live(nb) /\ t \in nb.tanks => code[x][t] = "Left"
    BY <2>5
  <2> HIDE DEF nb, c
  <2> QED
    BY <1>2, <2>1, <2>2, <2>3, <2>4, <2>6, <2>10, <2>12, <2>13, OwnDeskKeeps
<1> QED
  BY <1>5, <1>6, <1>8, <1>9, <1>10

-----------------------------------------------------------------------------
(* The bon and the gate, the yard, and all of it                           *)

(* Recounting closes a booking only when its tanks have left on it, and    *)
(* opens none that was not closed.                                         *)
LEMMA RecountedCodes ==
  ASSUME NEW nb \in BookingRec, NEW c \in [Tank -> Codes], NEW tk \in [Tank -> TankRec], NEW ob,
         ob = Fulfilled(nb, c, tk),
         \A t \in Tank : CodeFits(nb, c[t], t, tk[t].here)
  PROVE  \A t \in Tank : CodeFits(ob, c[t], t, tk[t].here)
<1>1. CASE nb.status = "Confirmed" /\ AllOut(nb, c, tk)
  <2>1. ob = [nb EXCEPT !.status = "Completed"]
    BY <1>1 DEF Fulfilled
  <2>2. ob.status = "Completed" /\ ob.tanks = nb.tanks /\ ob.bonned = nb.bonned
    BY <2>1 DEF BookingRec
  <2>3. \A t \in Tank : t \in nb.tanks => c[t] \in {"Used", "Left"} /\ ~tk[t].here
    BY <1>1 DEF AllOut
  <2>4. \A t \in Tank : c[t] \in {"None", "Left"}
    BY <1>1, <2>3 DEF CodeFits
  <2> QED
    BY <1>1, <2>2, <2>4 DEF CodeFits
<1>2. CASE nb.status = "Completed" /\ ~AllOut(nb, c, tk)
  <2>1. ob = [nb EXCEPT !.status = "Confirmed"]
    BY <1>2 DEF Fulfilled
  <2>2. ob.status = "Confirmed" /\ ob.tanks = nb.tanks /\ ob.bonned = nb.bonned
    BY <2>1 DEF BookingRec
  <2> QED
    BY <1>2, <2>2 DEF CodeFits
<1>3. CASE ob = nb
  BY <1>3
<1> QED
  BY <1>1, <1>2, <1>3 DEF Fulfilled

(* A recounted booking lists the same tanks; one that was closed has left  *)
(* on all of them.                                                         *)
LEMMA RecountedLists ==
  ASSUME NEW nb \in BookingRec, NEW c, NEW tk, NEW ob, ob = Fulfilled(nb, c, tk)
  PROVE  /\ ob.tanks = nb.tanks
         /\ Live(ob) => Live(nb) \/ nb.status = "Completed"
         /\ ob.status = "Confirmed" => nb.status \in {"Confirmed", "Completed"}
BY DEF Fulfilled, BookingRec, Live

(* A tank that leaves on a bon.                                            *)
LEMMA DepartureKeeps ==
  ASSUME LiftOnInv, NEW b \in Booking, NEW t \in Tank, mark_gate_out(b, t) PROVE LiftOnInv'
<1> DEFINE away == [here |-> FALSE, left |-> b, stamp |-> NoStamp]
           c == [code[b] EXCEPT ![t] = "Left"]
<1>1. /\ bk \in [Booking -> BookingRec] /\ code \in [Booking -> [Tank -> Codes]] /\ tank \in [Tank -> TankRec]
      /\ \A x \in Booking, u \in Tank : CodeFits(bk[x], code[x][u], u, tank[u].here)
  BY DEF LiftOnInv, StampInv, Shape, CodesFit
<1>2. StampInv'
  BY GateKeeps DEF LiftOnInv
<1>3. /\ bk' \in [Booking -> BookingRec] /\ tank' \in [Tank -> TankRec]
  BY <1>2 DEF StampInv, Shape
<1>4. /\ code' = [code EXCEPT ![b] = c] /\ tank' = [tank EXCEPT ![t] = away]
      /\ bk' = Refreshed(t, code', tank') /\ code[b][t] = "Used"
  BY <1>1 DEF mark_gate_out
<1>5. c \in [Tank -> Codes] /\ c[t] = "Left" /\ \A u \in Tank \ {t} : c[u] = code[b][u]
  BY <1>1 DEF Codes
<1>6. /\ code' \in [Booking -> [Tank -> Codes]] /\ code'[b] = c
      /\ \A x \in Booking \ {b} : code'[x] = code[x]
  <2> HIDE DEF c
  <2> QED
    BY <1>1, <1>4, <1>5
<1>7. ~tank'[t].here /\ \A u \in Tank \ {t} : tank'[u] = tank[u]
  BY <1>1, <1>4
<1> HIDE DEF away, c
<1>8. Awaits(b, t) \/ Lists(b, t)
  BY <1>1, <1>4 DEF CodeFits, Lists, Live
<1>9. \A x \in Booking \ {b} : Lists(x, t) => code[x][t] = "Left"
  <2>1. Lists(b, t)
    BY <1>1, <1>4 DEF CodeFits, Lists, Live
  <2> QED
    BY <1>4, <2>1 DEF LiftOnInv, OneWaits
<1>10. \A x \in Booking \ {b} : code[x][t] # "Used"
  <2>1. ASSUME NEW x \in Booking \ {b}, code[x][t] = "Used" PROVE Lists(x, t)
    BY <1>1, <2>1 DEF CodeFits, Lists, Live
  <2> QED
    BY <1>9, <2>1
<1>11. ASSUME NEW x \in Booking
       PROVE  bk'[x] = IF t \in bk[x].tanks THEN Fulfilled(bk[x], code'[x], tank') ELSE bk[x]
  BY <1>4 DEF Refreshed
<1>12. \A x \in Booking, u \in Tank : CodeFits(bk[x], code'[x][u], u, tank'[u].here)
  <2> SUFFICES ASSUME NEW x \in Booking, NEW u \in Tank PROVE CodeFits(bk[x], code'[x][u], u, tank'[u].here)
    OBVIOUS
  <2>1. CodeFits(bk[x], code[x][u], u, tank[u].here)
    BY <1>1
  <2>2. CASE u # t
    BY <1>5, <1>6, <1>7, <2>1, <2>2
  <2>3. CASE u = t /\ x = b
    BY <1>4, <1>5, <1>6, <2>1, <2>3 DEF CodeFits
  <2>4. CASE u = t /\ x # b
    BY <1>6, <1>10, <2>1, <2>4 DEF CodeFits
  <2> QED
    BY <2>2, <2>3, <2>4
<1>13. CodesFit'
  <2> SUFFICES ASSUME NEW x \in Booking PROVE \A u \in Tank : CodeFits(bk'[x], code'[x][u], u, tank'[u].here)
    BY DEF CodesFit
  <2>1. CASE t \notin bk[x].tanks
    BY <1>11, <1>12, <2>1
  <2>2. CASE t \in bk[x].tanks
    <3>1. bk[x] \in BookingRec /\ code'[x] \in [Tank -> Codes] /\ bk'[x] = Fulfilled(bk[x], code'[x], tank')
      BY <1>1, <1>6, <1>11, <2>2
    <3> QED
      BY <1>3, <1>12, <3>1, RecountedCodes
  <2> QED
    BY <2>1, <2>2
<1>14. \A x \in Booking, u \in Tank :
         Lists(x, u)' /\ code'[x][u] # "Left" => Lists(x, u) /\ code[x][u] # "Left" /\ u # t
  <2> SUFFICES ASSUME NEW x \in Booking, NEW u \in Tank, Lists(x, u)', code'[x][u] # "Left"
               PROVE  Lists(x, u) /\ code[x][u] # "Left" /\ u # t
    OBVIOUS
  <2>1. bk[x] \in BookingRec
    BY <1>1
  <2>2. /\ bk'[x].tanks = bk[x].tanks
        /\ Live(bk'[x]) => Live(bk[x]) \/ bk[x].status = "Completed"
    BY <1>11, <2>1, RecountedLists
  <2>3. u \in bk[x].tanks /\ Live(bk'[x])
    BY <2>2 DEF Lists
  <2>4. CodeFits(bk[x], code'[x][u], u, tank'[u].here)
    BY <1>12
  <2>5. Live(bk[x])
    BY <2>2, <2>3, <2>4 DEF CodeFits
  <2>6. CASE u = t
    BY <1>5, <1>6, <1>9, <2>3, <2>5, <2>6 DEF Lists
  <2>7. CASE u # t
    BY <1>5, <1>6, <2>3, <2>5, <2>7 DEF Lists
  <2> QED
    BY <2>6, <2>7
<1>15. OneWaits'
  <2> SUFFICES ASSUME NEW x \in Booking, NEW y \in Booking, NEW u \in Tank,
                      x # y, Lists(x, u)', Lists(y, u)', code'[x][u] # "Left", code'[y][u] # "Left"
               PROVE  FALSE
    BY DEF OneWaits
  <2> QED
    BY <1>14 DEF LiftOnInv, OneWaits
<1>16. WaitingIsStamped'
  <2> SUFFICES ASSUME NEW x \in Booking, NEW u \in Tank,
                      bk'[x].status = "Confirmed", u \in bk'[x].tanks, code'[x][u] # "Left"
               PROVE  tank'[u].stamp.by = x
    BY DEF WaitingIsStamped
  <2>1. Lists(x, u) /\ code[x][u] # "Left" /\ u # t
    BY <1>14 DEF Lists, Live
  <2>2. bk[x] \in BookingRec
    BY <1>1
  <2>3. bk[x].status \in {"Confirmed", "Completed"}
    BY <1>11, <2>2, RecountedLists
  <2>4. bk[x].status = "Confirmed" /\ u \in bk[x].tanks
    BY <2>1, <2>3 DEF Lists, Live
  <2> QED
    BY <1>7, <2>1, <2>4 DEF LiftOnInv, WaitingIsStamped
<1>17. /\ row' \in [Booking -> [Tank -> Stamp \cup {NoRow}]] /\ header' \in [Booking -> BOOLEAN]
       /\ HeaderFits'
  <2>1. \E T : Push(tank', T)
    BY DEF mark_gate_out
  <2>2. \A T : Push(tank', T) => \E tk \in [Tank -> TankRec] : tk = tank' /\ Push(tk, T)
    BY <1>3
  <2> QED
    BY <2>1, <2>2, PushedRows
<1> QED
  BY <1>2, <1>6, <1>13, <1>15, <1>16, <1>17 DEF LiftOnInv

(* A departure taken back: the tank is in the yard again and its booking   *)
(* open; the other bookings that list it have left on it.                  *)
LEMMA ReturnKeeps ==
  ASSUME Lapse \subseteq {"take off"}, LiftOnInv, NEW b \in Booking, NEW t \in Tank, RevertBon(b, t)
  PROVE  LiftOnInv'
<1> DEFINE back == [tank EXCEPT ![t].here = TRUE]
           c == [code[b] EXCEPT ![t] = "Used"]
<1>1. /\ bk \in [Booking -> BookingRec] /\ code \in [Booking -> [Tank -> Codes]] /\ tank \in [Tank -> TankRec]
      /\ \A x \in Booking, u \in Tank : CodeFits(bk[x], code[x][u], u, tank[u].here)
      /\ "old bon" \notin Lapse /\ "late sync" \notin Lapse /\ "rival draft" \notin Lapse
  BY DEF LiftOnInv, StampInv, Shape, CodesFit
<1>2. StampInv'
  BY GateKeeps DEF LiftOnInv
<1>3. /\ bk' \in [Booking -> BookingRec] /\ tank' \in [Tank -> TankRec]
  BY <1>2 DEF StampInv, Shape
<1>4. /\ code' = [code EXCEPT ![b] = c] /\ bk' = Refreshed(t, code', back)
      /\ Sync(b, bk'[b], back) /\ code[b][t] = "Left"
      /\ \A x \in Booking \ {b} : Lists(x, t) => code[x][t] = "Left"
      /\ \A u \in bk[b].tanks \ {t} : code[b][u] # "Left"
  BY <1>1 DEF RevertBon, Alone, Lists
<1>5. c \in [Tank -> Codes] /\ c[t] = "Used" /\ \A u \in Tank \ {t} : c[u] = code[b][u]
  BY <1>1 DEF Codes
<1>6. /\ code' \in [Booking -> [Tank -> Codes]] /\ code'[b] = c
      /\ \A x \in Booking \ {b} : code'[x] = code[x]
  <2> HIDE DEF c
  <2> QED
    BY <1>1, <1>4, <1>5
<1>7. /\ back \in [Tank -> TankRec] /\ back[t].here /\ \A u \in Tank \ {t} : back[u] = tank[u]
      /\ \A u \in Tank : back[u].stamp = tank[u].stamp
  BY <1>1 DEF TankRec
<1> HIDE DEF back, c
<1>8. Restamps(b, back)
  BY <1>4, <1>7, SyncRestamps
<1>9. \A u \in Tank : tank'[u].here = back[u].here
  BY <1>7, <1>8 DEF Restamps, Stamped, TankRec
<1>10. ASSUME NEW x \in Booking
       PROVE  bk'[x] = IF t \in bk[x].tanks THEN Fulfilled(bk[x], code'[x], back) ELSE bk[x]
  BY <1>4 DEF Refreshed
<1>11. t \in bk[b].tanks /\ bk[b].bonned /\ bk[b].status \in {"Confirmed", "Completed"}
  <2>1. bk[b] \in BookingRec /\ CodeFits(bk[b], "Left", t, tank[t].here)
    BY <1>1, <1>4
  <2> QED
    BY <2>1 DEF CodeFits, BookingRec
<1>12. /\ bk'[b].status = "Confirmed" /\ bk'[b].tanks = bk[b].tanks /\ bk'[b].bonned
  <2>1. bk[b] \in BookingRec /\ ~AllOut(bk[b], code'[b], back)
    BY <1>1, <1>7, <1>11 DEF AllOut
  <2>2. bk'[b] = Fulfilled(bk[b], code'[b], back)
    BY <1>10, <1>11
  <2> QED
    BY <1>11, <2>1, <2>2 DEF Fulfilled, BookingRec
<1>13. CodesFit'
  <2> SUFFICES ASSUME NEW x \in Booking PROVE \A u \in Tank : CodeFits(bk'[x], code'[x][u], u, tank'[u].here)
    BY DEF CodesFit
  <2>1. ASSUME x = b, NEW u \in Tank PROVE CodeFits(bk'[x], code'[x][u], u, tank'[u].here)
    <3>1. CodeFits(bk[b], code[b][u], u, tank[u].here)
      BY <1>1
    <3>2. CASE u = t
      BY <1>5, <1>6, <1>7, <1>9, <1>11, <1>12, <2>1, <3>2 DEF CodeFits
    <3>3. CASE u # t
      <4>1. code'[b][u] = code[b][u] /\ tank'[u].here = tank[u].here
        BY <1>5, <1>6, <1>7, <1>9, <3>3
      <4>2. CodeFits(bk'[b], code[b][u], u, tank[u].here)
        BY <1>11, <1>12, <3>1 DEF CodeFits
      <4> QED
        BY <2>1, <4>1, <4>2
    <3> QED
      BY <3>2, <3>3
  <2>2. CASE x # b
    <3>1. ASSUME NEW u \in Tank PROVE CodeFits(bk[x], code'[x][u], u, back[u].here)
      <4>1. CodeFits(bk[x], code[x][u], u, tank[u].here) /\ code'[x] = code[x]
        BY <1>1, <1>6, <2>2
      <4> QED
        BY <1>7, <4>1 DEF CodeFits
    <3>2. CASE t \notin bk[x].tanks
      BY <1>9, <1>10, <3>1, <3>2
    <3>3. CASE t \in bk[x].tanks
      <4>1. bk[x] \in BookingRec /\ code'[x] \in [Tank -> Codes] /\ bk'[x] = Fulfilled(bk[x], code'[x], back)
        BY <1>1, <1>6, <1>10, <3>3
      <4>2. \A u \in Tank : CodeFits(bk'[x], code'[x][u], u, back[u].here)
        BY <1>7, <3>1, <4>1, RecountedCodes
      <4> QED
        BY <1>9, <4>2
    <3> QED
      BY <3>2, <3>3
  <2> QED
    BY <2>1, <2>2
<1>14. \A x \in Booking \ {b}, u \in Tank :
         Lists(x, u)' /\ code'[x][u] # "Left" => Lists(x, u) /\ code[x][u] # "Left" /\ u # t
  <2> SUFFICES ASSUME NEW x \in Booking \ {b}, NEW u \in Tank, Lists(x, u)', code'[x][u] # "Left"
               PROVE  Lists(x, u) /\ code[x][u] # "Left" /\ u # t
    OBVIOUS
  <2>1. x \in Booking /\ bk[x] \in BookingRec
    BY <1>1
  <2>2. /\ bk'[x].tanks = bk[x].tanks
        /\ Live(bk'[x]) => Live(bk[x]) \/ bk[x].status = "Completed"
    <3>1. CASE t \in bk[x].tanks
      <4>1. bk'[x] = Fulfilled(bk[x], code'[x], back)
        BY <1>10, <2>1, <3>1
      <4> QED
        BY <2>1, <4>1 DEF Fulfilled, BookingRec, Live
    <3>2. CASE t \notin bk[x].tanks
      BY <1>10, <2>1, <3>2
    <3> QED
      BY <3>1, <3>2
  <2>3. u \in bk[x].tanks /\ Live(bk'[x])
    BY <2>2 DEF Lists
  <2>4. CodeFits(bk[x], code[x][u], u, tank[u].here) /\ code[x][u] # "Left"
    BY <1>1, <1>6
  <2>5. Live(bk[x])
    BY <2>2, <2>3, <2>4 DEF CodeFits
  <2> QED
    BY <1>4, <2>3, <2>4, <2>5 DEF Lists
<1>15. \A x \in Booking \ {b}, u \in Tank : Lists(x, u)' /\ u \in bk[b].tanks => code'[x][u] = "Left"
  <2> SUFFICES ASSUME NEW x \in Booking \ {b}, NEW u \in Tank, Lists(x, u)', u \in bk[b].tanks, code'[x][u] # "Left"
               PROVE  FALSE
    OBVIOUS
  <2>1. Lists(x, u) /\ code[x][u] # "Left" /\ u # t
    BY <1>14
  <2>2. code[b][u] # "Left"
    BY <1>4, <2>1
  <2>3. Lists(b, u)
    <3>1. CodeFits(bk[b], code[b][u], u, tank[u].here)
      BY <1>1
    <3>2. bk[b].status = "Confirmed"
      BY <1>11, <2>2, <3>1 DEF CodeFits
    <3> QED
      BY <3>2 DEF Lists, Live
  <2> QED
    BY <2>1, <2>2, <2>3 DEF LiftOnInv, OneWaits
<1>16. OneWaits'
  <2> SUFFICES ASSUME NEW x \in Booking, NEW y \in Booking, NEW u \in Tank,
                      x # y, Lists(x, u)', Lists(y, u)', code'[x][u] # "Left", code'[y][u] # "Left"
               PROVE  FALSE
    BY DEF OneWaits
  <2>1. u \in bk'[x].tanks /\ u \in bk'[y].tanks /\ bk'[b].tanks = bk[b].tanks
    BY <1>12 DEF Lists
  <2>4. x # b
    <3>1. ASSUME x = b PROVE FALSE
      <4>1. y \in Booking \ {b} /\ u \in bk[b].tanks
        BY <2>1, <3>1
      <4> QED
        BY <4>1, <1>15
    <3> QED
      BY <3>1
  <2>5. y # b
    <3>1. ASSUME y = b PROVE FALSE
      <4>1. x \in Booking \ {b} /\ u \in bk[b].tanks
        BY <2>1, <3>1
      <4> QED
        BY <4>1, <1>15
    <3> QED
      BY <3>1
  <2>2. x \in Booking \ {b} /\ y \in Booking \ {b}
    BY <2>4, <2>5
  <2>3. Lists(x, u) /\ code[x][u] # "Left" /\ Lists(y, u) /\ code[y][u] # "Left"
    BY <1>14, <2>2
  <2>6. OneWaits
    BY DEF LiftOnInv
  <2> QED
    BY <2>3, <2>6 DEF OneWaits
<1>17. \A x \in Booking \ {b}, u \in Tank : Awaits(x, u)' => back[u].stamp.by = x /\ ~Lists(b, u)'
  <2> SUFFICES ASSUME NEW x \in Booking \ {b}, NEW u \in Tank, Awaits(x, u)'
               PROVE  back[u].stamp.by = x /\ ~Lists(b, u)'
    OBVIOUS
  <2>1. Lists(x, u)' /\ code'[x][u] # "Left" /\ bk'[x].status = "Confirmed"
    BY DEF Awaits, Lists, Live
  <2>2. Lists(x, u) /\ code[x][u] # "Left"
    BY <1>14, <2>1
  <2>3. x \in Booking /\ bk[x] \in BookingRec
    BY <1>1
  <2>4. bk[x].status \in {"Confirmed", "Completed"}
    <3>1. CASE t \in bk[x].tanks
      <4>1. bk'[x] = Fulfilled(bk[x], code'[x], back)
        BY <1>10, <2>3, <3>1
      <4> QED
        BY <2>1, <2>3, <4>1 DEF Fulfilled, BookingRec
    <3>2. CASE t \notin bk[x].tanks
      BY <1>10, <2>1, <2>3, <3>2
    <3> QED
      BY <3>1, <3>2
  <2>5. bk[x].status = "Confirmed" /\ u \in bk[x].tanks
    BY <2>2, <2>4 DEF Lists, Live
  <2>6. tank[u].stamp.by = x
    BY <2>2, <2>5 DEF LiftOnInv, WaitingIsStamped
  <2>7. u \notin bk[b].tanks
    BY <1>15, <2>1
  <2> QED
    BY <1>7, <1>12, <2>6, <2>7 DEF Lists
<1>18. WaitingIsStamped'
  BY <1>3, <1>7, <1>8, <1>17, RestampedWait
<1>19. /\ row' \in [Booking -> [Tank -> Stamp \cup {NoRow}]] /\ header' \in [Booking -> BOOLEAN]
       /\ HeaderFits'
  <2>1. \E T : Push(tank', T)
    BY <1>4 DEF Sync
  <2>2. \A T : Push(tank', T) => \E tk \in [Tank -> TankRec] : tk = tank' /\ Push(tk, T)
    BY <1>3
  <2> QED
    BY <2>1, <2>2, PushedRows
<1> QED
  BY <1>2, <1>6, <1>13, <1>16, <1>18, <1>19 DEF LiftOnInv

(* The steps that move no stamp.                                           *)
LEMMA QuietKeeps ==
  ASSUME LiftOnInv, StampInv',
         \/ \E b \in Booking : revert_booking_to_draft(b) \/ \E t \in Tank : NewBon(b, t) \/ VoidBon(b, t)
         \/ \E t \in Tank : TankStep(t)
  PROVE  LiftOnInv'
<1>1. /\ bk \in [Booking -> BookingRec] /\ code \in [Booking -> [Tank -> Codes]] /\ tank \in [Tank -> TankRec]
      /\ \A x \in Booking, u \in Tank : CodeFits(bk[x], code[x][u], u, tank[u].here)
  BY DEF LiftOnInv, StampInv, Shape, CodesFit
<1>2. ASSUME NEW b \in Booking, revert_booking_to_draft(b) PROVE LiftOnInv'
  <2> DEFINE nb == [bk[b] EXCEPT !.status = "Draft"]
  <2>1. /\ bk' = [bk EXCEPT ![b] = nb] /\ bk[b].status = "Confirmed" /\ ~bk[b].bonned
        /\ row' = [row EXCEPT ![b] = [t \in Tank |-> NoRow]] /\ header' = [header EXCEPT ![b] = FALSE]
        /\ UNCHANGED <<code, tank, order>>
    BY <1>2 DEF revert_booking_to_draft
  <2>2. nb.status = "Draft" /\ nb.tanks = bk[b].tanks /\ ~nb.bonned
    BY <1>1, <2>1 DEF BookingRec
  <2> HIDE DEF nb
  <2>3. bk'[b] = nb /\ \A x \in Booking \ {b} : bk'[x] = bk[x]
    BY <1>1, <2>1
  <2>4. CodesFit'
    <3> SUFFICES ASSUME NEW x \in Booking, NEW t \in Tank PROVE CodeFits(bk'[x], code[x][t], t, tank[t].here)
      BY <2>1 DEF CodesFit
    <3>1. CodeFits(bk[x], code[x][t], t, tank[t].here) /\ code[x][t] \in Codes
      BY <1>1
    <3>2. CASE x = b
      BY <2>1, <2>2, <2>3, <3>1, <3>2 DEF CodeFits, Codes
    <3>3. CASE x # b
      BY <2>3, <3>1, <3>3
    <3> QED
      BY <3>2, <3>3
  <2>5. \A x \in Booking, t \in Tank : (Lists(x, t)' => Lists(x, t)) /\ (Awaits(x, t)' => Awaits(x, t))
    <3> SUFFICES ASSUME NEW x \in Booking, NEW t \in Tank
                 PROVE  (Lists(x, t)' => Lists(x, t)) /\ (Awaits(x, t)' => Awaits(x, t))
      OBVIOUS
    <3>1. CASE x = b
      BY <2>1, <2>2, <2>3, <3>1 DEF Lists, Awaits, Live
    <3>2. CASE x # b
      BY <2>1, <2>3, <3>2 DEF Lists, Awaits
    <3> QED
      BY <3>1, <3>2
  <2>6. OneWaits'
    BY <2>1, <2>5 DEF LiftOnInv, OneWaits
  <2>7. WaitingIsStamped'
    BY <2>1, <2>5 DEF LiftOnInv, WaitingIsStamped, Awaits
  <2>8. row' \in [Booking -> [Tank -> Stamp \cup {NoRow}]] /\ header' \in [Booking -> BOOLEAN]
    BY <2>1 DEF LiftOnInv
  <2>9. HeaderFits'
    <3> SUFFICES ASSUME NEW x \in Booking
                 PROVE  header'[x] = \E t \in Tank : row'[x][t] # NoRow /\ row'[x][t].urgent
      BY DEF HeaderFits
    <3>1. CASE x = b
      <4>1. header'[x] = FALSE /\ \A t \in Tank : row'[x][t] = NoRow
        BY <2>1, <3>1 DEF LiftOnInv
      <4> QED
        BY <4>1
    <3>2. CASE x # b
      <4>1. header'[x] = header[x] /\ row'[x] = row[x]
        BY <2>1, <3>2 DEF LiftOnInv
      <4> QED
        BY <4>1 DEF LiftOnInv, HeaderFits
    <3> QED
      BY <3>1, <3>2
  <2>10. code' \in [Booking -> [Tank -> Codes]]
    BY <1>1, <2>1
  <2> QED
    BY <2>4, <2>6, <2>7, <2>8, <2>9, <2>10 DEF LiftOnInv
<1>3. ASSUME NEW b \in Booking, NEW t \in Tank, NEW u \in {"Active", "Used"}, NEW nb \in BookingRec,
             code[b][t] \in {"Active", "Used"}, u = "Used" => tank[t].here /\ nb.bonned,
             bk[b].status = "Confirmed", nb.status = "Confirmed", nb.tanks = bk[b].tanks, bk[b].bonned => nb.bonned,
             bk' = [bk EXCEPT ![b] = nb],
             code' = [code EXCEPT ![b][t] = u], UNCHANGED <<tank, row, header>>
      PROVE  LiftOnInv'
  <2>1. /\ code' \in [Booking -> [Tank -> Codes]] /\ code'[b][t] = u
        /\ \A x \in Booking, v \in Tank : x # b \/ v # t => code'[x][v] = code[x][v]
    BY <1>1, <1>3 DEF Codes
  <2>2. bk'[b] = nb /\ \A x \in Booking \ {b} : bk'[x] = bk[x]
    BY <1>1, <1>3
  <2>3. CodesFit'
    <3> SUFFICES ASSUME NEW x \in Booking, NEW v \in Tank PROVE CodeFits(bk'[x], code'[x][v], v, tank[v].here)
      BY <1>3 DEF CodesFit
    <3>1. CodeFits(bk[x], code[x][v], v, tank[v].here)
      BY <1>1
    <3>2. CASE x = b /\ v = t
      <4>1. bk'[x] = nb /\ code'[x][v] = u /\ u \in {"Active", "Used"} /\ v \in bk[b].tanks
        BY <1>3, <2>1, <2>2, <3>1, <3>2 DEF CodeFits
      <4> QED
        BY <1>3, <3>2, <4>1 DEF CodeFits
    <3>3. CASE x = b /\ v # t
      <4>1. bk'[x] = nb /\ code'[x][v] = code[x][v]
        BY <2>1, <2>2, <3>3
      <4> QED
        BY <1>3, <3>1, <3>3, <4>1 DEF CodeFits
    <3>4. CASE x # b
      BY <2>1, <2>2, <3>1, <3>4
    <3> QED
      BY <3>2, <3>3, <3>4
  <2>4. \A x \in Booking, v \in Tank :
          /\ Lists(x, v)' => Lists(x, v)
          /\ Awaits(x, v)' => Awaits(x, v)
          /\ code'[x][v] # "Left" => code[x][v] # "Left"
    <3> SUFFICES ASSUME NEW x \in Booking, NEW v \in Tank
                 PROVE  /\ Lists(x, v)' => Lists(x, v)
                        /\ Awaits(x, v)' => Awaits(x, v)
                        /\ code'[x][v] # "Left" => code[x][v] # "Left"
      OBVIOUS
    <3>1. bk'[x].status = bk[x].status /\ bk'[x].tanks = bk[x].tanks
      BY <1>3, <2>2
    <3>2. code'[x][v] # "Left" => code[x][v] # "Left"
      BY <1>3, <2>1
    <3> QED
      BY <3>1, <3>2 DEF Lists, Awaits, Live
  <2>5. OneWaits'
    <3> SUFFICES ASSUME NEW x \in Booking, NEW y \in Booking, NEW v \in Tank,
                        x # y, Lists(x, v)', Lists(y, v)', code'[x][v] # "Left", code'[y][v] # "Left"
                 PROVE  FALSE
      BY DEF OneWaits
    <3> QED
      BY <2>4 DEF LiftOnInv, OneWaits
  <2>6. WaitingIsStamped'
    BY <1>3, <2>4 DEF LiftOnInv, WaitingIsStamped, Awaits
  <2>7. HeaderFits' /\ row' = row /\ header' = header
    BY <1>3 DEF LiftOnInv, HeaderFits
  <2> QED
    BY <2>1, <2>3, <2>5, <2>6, <2>7 DEF LiftOnInv
<1>4. ASSUME NEW b \in Booking, NEW t \in Tank, NewBon(b, t) PROVE LiftOnInv'
  <2> DEFINE nb == [bk[b] EXCEPT !.bonned = TRUE]
  <2>1. /\ bk' = [bk EXCEPT ![b] = nb] /\ code' = [code EXCEPT ![b][t] = "Used"]
        /\ bk[b].status = "Confirmed" /\ code[b][t] = "Active" /\ tank[t].here
        /\ UNCHANGED <<tank, row, header>>
    BY <1>4 DEF NewBon
  <2>2. nb \in BookingRec /\ nb.status = bk[b].status /\ nb.tanks = bk[b].tanks /\ nb.bonned = TRUE
    BY <1>1 DEF BookingRec
  <2> HIDE DEF nb
  <2> QED
    BY <1>3, <2>1, <2>2
<1>5. ASSUME NEW b \in Booking, NEW t \in Tank, VoidBon(b, t) PROVE LiftOnInv'
  <2>1. /\ bk' = [bk EXCEPT ![b] = bk[b]] /\ code' = [code EXCEPT ![b][t] = "Active"]
        /\ code[b][t] = "Used" /\ UNCHANGED <<tank, row, header>> /\ bk[b] \in BookingRec
    BY <1>1, <1>5 DEF VoidBon
  <2>2. bk[b].status = "Confirmed"
    <3>1. CodeFits(bk[b], "Used", t, tank[t].here)
      BY <1>1, <2>1
    <3> QED
      BY <3>1 DEF CodeFits
  <2> QED
    BY <1>3, <2>1, <2>2
<1>6. ASSUME NEW t \in Tank, TankStep(t) PROVE LiftOnInv'
  <2>1. /\ UNCHANGED <<bk, code, row, header>>
        /\ \A u \in Tank : tank'[u].stamp = tank[u].stamp /\ (tank[u].here => tank'[u].here)
    BY <1>1, <1>6 DEF TankStep, Arrive, OpenOrder, SaveOrder, FinishOrder, TankRec
  <2>2. CodesFit'
    BY <1>1, <2>1 DEF CodesFit, CodeFits
  <2>3. OneWaits'
    BY <2>1 DEF LiftOnInv, OneWaits, Lists
  <2>4. WaitingIsStamped'
    BY <2>1 DEF LiftOnInv, WaitingIsStamped
  <2>5. HeaderFits'
    BY <2>1 DEF LiftOnInv, HeaderFits
  <2> QED
    BY <2>1, <2>2, <2>3, <2>4, <2>5 DEF LiftOnInv
<1> QED
  BY <1>2, <1>4, <1>5, <1>6

(* What the invariant says of the properties.                              *)
LEMMA InvStampsHold ==
  ASSUME LiftOnInv PROVE StampsHold
<1>1. TypeOK
  <2>1. bk \in [Booking -> BookingRec] /\ tank \in [Tank -> TankRec] /\ order \in [Tank -> OrderRec]
    BY DEF LiftOnInv, StampInv, Shape
  <2> QED
    BY <2>1 DEF LiftOnInv, TypeOK, BookingRec, TankRec, OrderRec, Codes
<1>2. StampIsOwned /\ OrdersShowStamp /\ WaitingIsStamped
  BY DEF LiftOnInv, StampInv
<1>3. HeaderShowsRows
  BY DEF LiftOnInv, HeaderFits, HeaderShowsRows
<1> QED
  BY <1>1, <1>2, <1>3 DEF StampsHold

(* An order of a tank an urgent booking waits for shows an urgent stamp;   *)
(* a closed booking has left on all its codes.                             *)
LEMMA InvUrgentIsServed ==
  ASSUME LiftOnInv PROVE UrgentIsServed
<1>1. UrgentGoesFirst
  <2> SUFFICES ASSUME NEW b \in Booking, NEW c \in Booking, NEW t \in Tank, NEW u \in Tank,
                      bk[b].status = "Confirmed", code[b][t] = "Active", bk[b].urgent,
                      bk[c].status = "Confirmed", code[c][u] = "Active", ~bk[c].urgent,
                      order[t].open, ~order[t].old, order[u].open, ~order[u].old
               PROVE  Precedes(order[t], order[u])
    BY DEF UrgentGoesFirst
  <2>1. t \in bk[b].tanks /\ u \in bk[c].tanks
    BY DEF LiftOnInv, CodesFit, CodeFits
  <2>2. tank[t].stamp.by = b /\ tank[u].stamp.by = c
    BY <2>1 DEF LiftOnInv, WaitingIsStamped
  <2>3. tank[t].stamp.urgent = bk[b].urgent /\ tank[u].stamp.urgent = bk[c].urgent
    BY <2>2 DEF LiftOnInv, StampInv, StampIsOwned
  <2>4. order[t].urgent = tank[t].stamp.urgent /\ order[u].urgent = tank[u].stamp.urgent
    BY DEF LiftOnInv, StampInv, OrdersShowStamp
  <2>5. order[t].urgent /\ ~order[u].urgent
    BY <2>3, <2>4
  <2>6. Tier(order[t]) = 0 /\ Tier(order[u]) = 1
    BY <2>5 DEF Tier
  <2> QED
    BY <2>6 DEF Precedes
<1>2. NothingWaitsBehindIt
  <2> SUFFICES ASSUME NEW b \in Booking, bk[b].status = "Completed", NEW t \in bk[b].tanks
               PROVE  code[b][t] # "Active"
    BY DEF NothingWaitsBehindIt
  <2>1. t \in Tank
    BY DEF LiftOnInv, StampInv, Shape, BookingRec
  <2> QED
    BY <2>1 DEF LiftOnInv, CodesFit, CodeFits
<1> QED
  BY <1>1, <1>2 DEF UrgentIsServed

(* A ledger nobody has written in yet agrees with itself.                  *)
LEMMA LiftOnBorn == Init => LiftOnInv
<1> SUFFICES ASSUME Init PROVE LiftOnInv
  OBVIOUS
<1>1. StampInv
  BY BornStamped
<1>2. code \in [Booking -> [Tank -> Codes]] /\ \A b \in Booking, t \in Tank : code[b][t] = "None"
  BY DEF Init, Codes
<1>3. row \in [Booking -> [Tank -> Stamp \cup {NoRow}]] /\ header \in [Booking -> BOOLEAN] /\ HeaderFits
  BY DEF Init, HeaderFits
<1>4. \A b \in Booking : bk[b].status = "New" /\ bk[b].tanks = {} /\ ~bk[b].bonned
  BY DEF Init
<1>5. CodesFit
  BY <1>2, <1>4 DEF CodesFit, CodeFits
<1>6. OneWaits /\ WaitingIsStamped
  BY <1>4 DEF OneWaits, Lists, WaitingIsStamped
<1> QED
  BY <1>1, <1>2, <1>3, <1>5, <1>6 DEF LiftOnInv

(* No step of the office breaks the invariant.                             *)
LEMMA LiftOnStep ==
  ASSUME Lapse \subseteq {"take off"}
  PROVE  LiftOnInv /\ [Next]_vars => LiftOnInv'
<1> SUFFICES ASSUME LiftOnInv, [Next]_vars PROVE LiftOnInv'
  OBVIOUS
<1>1. StampInv'
  BY StampStep DEF LiftOnInv
<1>2. CASE UNCHANGED vars
  <2>1. UNCHANGED <<bk, code, tank, order, row, header>>
    BY <1>2 DEF vars
  <2>2. CodesFit'
    BY <2>1 DEF LiftOnInv, CodesFit
  <2>3. OneWaits'
    <3>1. bk' = bk /\ code' = code
      BY <2>1
    <3>2. OneWaits
      BY DEF LiftOnInv
    <3> QED
      BY <3>1, <3>2 DEF OneWaits, Lists
  <2>4. WaitingIsStamped'
    BY <2>1 DEF LiftOnInv, WaitingIsStamped
  <2>5. HeaderFits'
    BY <2>1 DEF LiftOnInv, HeaderFits
  <2>6. code' \in [Booking -> [Tank -> Codes]] /\ row' \in [Booking -> [Tank -> Stamp \cup {NoRow}]]
        /\ header' \in [Booking -> BOOLEAN]
    BY <2>1 DEF LiftOnInv
  <2> QED
    BY <1>1, <2>2, <2>3, <2>4, <2>5, <2>6 DEF LiftOnInv
<1>3. ASSUME NEW b \in Booking, BookingStep(b) PROVE LiftOnInv'
  <2>1. CASE revert_booking_to_draft(b) \/ \E t \in Tank : NewBon(b, t) \/ VoidBon(b, t)
    BY <1>1, <2>1, QuietKeeps
  <2>2. CASE \E t \in Tank : mark_gate_out(b, t)
    BY <2>2, DepartureKeeps
  <2>3. CASE \E t \in Tank : RevertBon(b, t)
    BY <2>3, ReturnKeeps
  <2> QED
    BY <1>3, <2>1, <2>2, <2>3, DeskKeepsAll DEF BookingStep
<1>4. ASSUME NEW t \in Tank, TankStep(t) PROVE LiftOnInv'
  BY <1>1, <1>4, QuietKeeps
<1> QED
  BY <1>2, <1>3, <1>4 DEF Next

(* The lift-on days of an office that saves no rival draft, marks no       *)
(* booking one of whose tanks has left and takes no bon back once its tank *)
(* has returned: every stamp, open order, survey row and header shows a    *)
(* live booking's days, and a tank a confirmed booking waits for carries it*)
(* (sync_booking_targets, push_to_open_orders, refresh_urgency).           *)
THEOREM StampsStand == ASSUME Lapse \subseteq {"take off"} PROVE Spec => []StampsHold
<1> QED
  BY LiftOnBorn, LiftOnStep, InvStampsHold, PTL DEF Spec

(* In the same office the yard works an urgent booking's tanks above every *)
(* tank only a calmer booking waits for, and a booking that has closed has *)
(* no tank waiting in the yard (sort_by_priority, refresh_fulfilment).     *)
THEOREM UrgentFirst == ASSUME Lapse \subseteq {"take off"} PROVE Spec => []UrgentIsServed
<1> QED
  BY LiftOnBorn, LiftOnStep, InvUrgentIsServed, PTL DEF Spec
=============================================================================
