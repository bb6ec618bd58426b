----------------------------- MODULE MCTankVisit -----------------------------
EXTENDS TankVisit, TLC

CONSTANTS t1, t2, in1, in2, out1, out2

(* Every booking names every tank.                                         *)
AllTanks == [k \in Booking |-> Tank]

(* Which lines are LADEN moves taken without an EIR: none; every departure;*)
(* every arrival.                                                          *)
NoneExempt == [k \in Booking |-> {}]
OutExempt == [k \in Booking |-> IF k \in InBooking THEN {} ELSE Tank]
InExempt == [k \in Booking |-> IF k \in InBooking THEN Tank ELSE {}]

(* The two arrival bookings are interchangeable.                           *)
Alike == Permutations({in1, in2})

(* The second arrival booking announces both tanks, the first only one.    *)
SharedLines == [k \in Booking |-> IF k = in1 THEN {t1} ELSE Tank]
=============================================================================
