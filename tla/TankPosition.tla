---------------------------- MODULE TankPosition ----------------------------
(***************************************************************************)
(* Where the tanks stand: the readings anybody files, the copy of the      *)
(* newest one on the Container master, the derived queue "cek letak tank"  *)
(* and the Posisi Tank board.  (container_position.py and the Container    *)
(* Position doctype.)                                                      *)
(*                                                                         *)
(* A time is the moment of a write; two writes may share one.  Which       *)
(* booking holds a tank is LiftOn's and is free here; depots, photos, the  *)
(* text of a place and the pages of a list are left out.                   *)
(***************************************************************************)
EXTENDS Integers, Sequences, FiniteSets, SequencesExt

CONSTANTS
  Lapse,       \* "moves a reading": an admin corrects the tank of a reading
  Tank,
  Place,
  RecheckAge,  \* RECHECK_DAYS: how old a reading may be on the board
  MaxTime,     \* bound: moments
  MaxReading   \* bound: readings ever filed

LapseAssumption == Lapse \subseteq {"moves a reading"}
BoundAssumption == {RecheckAge, MaxTime, MaxReading} \subseteq Nat /\ IsFiniteSet(Tank)

VARIABLES
  now,
  reading,   \* the Container Positions, in order of creation; deleted ones are not live
  master,    \* master[t]: the place the Container shows and when it was read; 0: never
  ask,       \* ask[t]: when somebody last asked for a check by hand; 0: never
  hold,      \* hold[t]: when the booking that holds t was created, and is t on its survey day?
  yard       \* yard[t]: is it in the depot, and is it an active tank?

vars == <<now, reading, master, ask, hold, yard>>

Time == 1..MaxTime
Unknown == [place |-> "nowhere", on |-> 0]
Free == [since |-> 0, listed |-> FALSE]

Init ==
  /\ now = 1
  /\ reading = <<>>
  /\ master = [t \in Tank |-> Unknown]
  /\ ask = [t \in Tank |-> 0]
  /\ hold = [t \in Tank |-> Free]
  /\ yard = [t \in Tank |-> [here |-> TRUE, active |-> TRUE]]

TypeOK ==
  /\ now \in Time
  /\ reading \in Seq([tank : Tank, place : Place, on : Time, live : BOOLEAN])
  /\ Len(reading) <= MaxReading
  /\ master \in [Tank -> [place : Place \cup {"nowhere"}, on : 0..MaxTime]]
  /\ ask \in [Tank -> 0..MaxTime]
  /\ hold \in [Tank -> [since : 0..MaxTime, listed : BOOLEAN]]
  /\ yard \in [Tank -> [here : BOOLEAN, active : BOOLEAN]]

-----------------------------------------------------------------------------
(* The newest standing reading of t, by recorded_on and then by creation.  *)
Of(rs, t) == {i \in DOMAIN rs : rs[i].live /\ rs[i].tank = t}

(* Fault: the reading just written is taken for the newest.                *)
LastWritten(rs, t) ==
  IF Of(rs, t) = {} THEN Unknown
  ELSE LET i == CHOOSE i \in Of(rs, t) : \A j \in Of(rs, t) : j <= i
       IN  [place |-> rs[i].place, on |-> rs[i].on]

Newest(rs, t) ==
  IF Of(rs, t) = {} THEN Unknown
  ELSE LET i == CHOOSE i \in Of(rs, t) : \A j \in Of(rs, t) :
                  rs[j].on < rs[i].on \/ (rs[j].on = rs[i].on /\ j <= i)
       IN  [place |-> rs[i].place, on |-> rs[i].on]

push_to_container(rs, t) == [master EXCEPT ![t] = Newest(rs, t)]

(* Filed by a phone now, or told by a migration that knows when it was.    *)
record_position(t, place, on) ==
  /\ Len(reading) < MaxReading /\ yard[t].active /\ on <= now
  /\ reading' = Append(reading, [tank |-> t, place |-> place, on |-> on, live |-> TRUE])
  /\ master' = push_to_container(reading', t)
  /\ UNCHANGED <<now, ask, hold, yard>>

(* One place for many tanks: a retired one among them is refused alone.    *)
record_positions(ts, place) ==
  LET taken == {t \in ts : yard[t].active}
      order == CHOOSE s \in [1..Cardinality(taken) -> taken] : \A i, j \in DOMAIN s : i # j => s[i] # s[j]
  IN /\ Cardinality(ts) > 1 /\ Len(reading) + Cardinality(taken) <= MaxReading
     /\ reading' = reading \o [i \in DOMAIN order |->
                                 [tank |-> order[i], place |-> place, on |-> now, live |-> TRUE]]
     /\ master' = [t \in Tank |-> IF t \in taken THEN push_to_container(reading', t)[t] ELSE master[t]]
     /\ UNCHANGED <<now, ask, hold, yard>>

(* An admin corrects what a reading says of the place, or of the tank.     *)
EditReading(i, t, place) ==
  /\ reading[i].live /\ (t = reading[i].tank \/ ("moves a reading" \in Lapse /\ yard[t].active))
  /\ reading' = [reading EXCEPT ![i].tank = t, ![i].place = place]
  /\ master' = push_to_container(reading', t)
  /\ UNCHANGED <<now, ask, hold, yard>>

DeleteReading(i) ==
  /\ reading[i].live
  /\ reading' = [reading EXCEPT ![i].live = FALSE]
  /\ master' = push_to_container(reading', reading[i].tank)
  /\ UNCHANGED <<now, ask, hold, yard>>

(* Asked by hand from the order that needs the tank; asking again moves    *)
(* the stamp on.                                                           *)
request_position_check(t) ==
  /\ yard[t].active /\ yard[t].here
  /\ ask' = [ask EXCEPT ![t] = now]
  /\ UNCHANGED <<now, reading, master, hold, yard>>

(* A booking takes the tank, with or without a survey day, or lets it go.  *)
Hold(t) ==
  /\ \E since \in 1..now, listed \in BOOLEAN : hold' = [hold EXCEPT ![t] = [since |-> since, listed |-> listed]]
  /\ UNCHANGED <<now, reading, master, ask, yard>>
LetGo(t) == hold[t] # Free /\ hold' = [hold EXCEPT ![t] = Free] /\ UNCHANGED <<now, reading, master, ask, yard>>

(* The tank passes the gate, or is retired or taken back into the fleet.   *)
Pass(t) ==
  /\ yard[t].active /\ yard' = [yard EXCEPT ![t].here = ~@]
  /\ UNCHANGED <<now, reading, master, ask, hold>>
Retire(t) ==
  /\ hold[t] = Free /\ yard' = [yard EXCEPT ![t].active = ~@]
  /\ UNCHANGED <<now, reading, master, ask, hold>>

Tick == now < MaxTime /\ now' = now + 1 /\ UNCHANGED <<reading, master, ask, hold, yard>>

Next ==
  \/ Tick
  \/ \E t \in Tank :
       \/ request_position_check(t) \/ Hold(t) \/ LetGo(t) \/ Pass(t) \/ Retire(t)
       \/ \E place \in Place, on \in Time : record_position(t, place, on)
  \/ \E ts \in SUBSET Tank, place \in Place : record_positions(ts, place)
  \/ \E i \in DOMAIN reading :
       DeleteReading(i) \/ \E t \in Tank, place \in Place : EditReading(i, t, place)

Spec == Init /\ [][Next]_vars

-----------------------------------------------------------------------------
(* What a screen says of one tank: the master's place and its age, over the*)
(* readings it rests on, the latest first.                                 *)
History(t) ==
  SetToSortSeq(Of(reading, t),
    LAMBDA i, j : reading[i].on > reading[j].on \/ (reading[i].on = reading[j].on /\ i > j))

get_container_position(t) ==
  [place |-> master[t].place, on |-> master[t].on, located |-> master[t] # Unknown, history |-> History(t)]

-----------------------------------------------------------------------------
(* Does the tank owe an answer?  Nobody read it, somebody asked since, or  *)
(* the booking that holds it is younger than the reading.                  *)

needs_position(m, a, since) == m = Unknown \/ (a # 0 /\ m.on < a) \/ (since # 0 /\ m.on < since)

Waiting(m, a, h, y) ==
  {t \in Tank : /\ y[t].active /\ y[t].here /\ (h[t].since # 0 \/ a[t] # 0)
                /\ needs_position(m[t], a[t], h[t].since)}
open_position_orders == Waiting(master, ask, hold, yard)

(* The board: tanks here, active, on the survey day of the booking that    *)
(* holds them.  A pill's number is not narrowed by what it lists.          *)
OnBoard == {t \in Tank : yard[t].active /\ yard[t].here /\ hold[t].since # 0 /\ hold[t].listed}

Missing == {t \in OnBoard : master[t] = Unknown}
Located == OnBoard \ Missing
Recheck == {t \in Located : now - master[t].on > RecheckAge}
position_board == [all |-> OnBoard, missing |-> Missing, located |-> Located, recheck |-> Recheck]

search_containers(unlocated) == {t \in Tank : yard[t].active /\ (unlocated => master[t] = Unknown)}

-----------------------------------------------------------------------------
(* "A correction typed after the fact, or a reading deleted, must not leave*)
(* the master quoting the wrong row": what a screen shows is the latest of *)
(* the readings it lists, however they were filed late, corrected or       *)
(* deleted, and a tank nobody stands behind a reading of is not located.   *)
MasterIsNewest ==
  \A t \in Tank :
    LET p == get_container_position(t) IN
    /\ p.located <=> p.history # <<>>
    /\ p.located => LET r == reading[Head(p.history)] IN p.place = r.place /\ p.on = r.on

(* The screens agree: a tank the board misses is in the queue and among    *)
(* the unlocated, and a tank the queue does not ask for was read since the *)
(* booking that holds it was made and since anybody last asked.            *)
ScreensAgree ==
  /\ Missing \subseteq open_position_orders \cap search_containers(TRUE)
  /\ Located \cap search_containers(TRUE) = {}
  /\ \A t \in OnBoard \ open_position_orders :
       \E i \in DOMAIN reading : /\ reading[i].live /\ reading[i].tank = t
                                 /\ reading[i].on >= hold[t].since /\ reading[i].on >= ask[t]

(* "Filing one reading is what closes it": a tank leaves the queue when it *)
(* is read, when it leaves the depot or the fleet, or when its booking     *)
(* lets it go or another takes it; a reading filed now always takes it out.*)
QueueClosesByReading ==
  \A t \in Tank :
    LET before == open_position_orders
        after == Waiting(master', ask', hold', yard')
    IN  /\ t \in before \ after =>
             \/ \E i \in DOMAIN reading' \ DOMAIN reading : reading'[i].tank = t
             \/ yard'[t] # yard[t]
             \/ hold'[t] # hold[t]
        /\ (\E i \in DOMAIN reading' \ DOMAIN reading : reading'[i].tank = t /\ reading'[i].on = now)
             => t \notin after

=============================================================================
