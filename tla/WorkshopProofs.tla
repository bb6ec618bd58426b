--------------------------- MODULE WorkshopProofs ---------------------------
(***************************************************************************)
(* The gate's bons, issued by requests that overlap: no code is spent      *)
(* twice, and a phone on step 3 has its bon, for any number of phones,     *)
(* codes, copies, lost answers and killed workers.                         *)
(*                                                                         *)
(* Then the desk of MCWorkshop as a whole.  Its parts share variables, so  *)
(* its invariant is the invariant of the part that is on: those of         *)
(* RepairProofs and WashProofs, at the values each part is given.          *)
(***************************************************************************)
EXTENDS MCWorkshop, TLAPS

-----------------------------------------------------------------------------
(* The gate                                                                *)


(* What the proofs need of the types: a bon is a record of some form.      *)
BonShape == \A b \in bons : b \in [nr : {b.nr}, form : Form, id : {b.id}, standing : BOOLEAN]

RequestShape == request \in [Slot -> [stage : Stage, id : Nat]]

ScreenShape ==
  screen \in [Form -> [step : {"vehicle", "waiting", "error", "done"}, id : Nat, slot : 0..Copies]]

Shape == BonShape /\ RequestShape /\ ScreenShape

LEMMA ShapeHolds == Spec => []Shape
<1> USE CopiesAssumption, BoundAssumption
<1>1. Init => Shape
  BY DEF Init, Shape, BonShape, RequestShape, ScreenShape, Idle, Stage
<1>2. Shape /\ [Next]_vars => Shape'
  <2> SUFFICES ASSUME Shape, [Next]_vars PROVE Shape'
    OBVIOUS
  <2> USE DEF Shape
  <2>1. ASSUME NEW f \in Form, Press(f) \/ OpenGenerate(f) \/ LinkDown(f) PROVE Shape'
    <3>1. BonShape'
      BY <2>1 DEF Press, OpenGenerate, LinkDown, BonShape
    <3>2. RequestShape' /\ ScreenShape'
      <4>1. CASE Press(f)
        <5>1. PICK i \in 1..Copies :
                /\ request' = [request EXCEPT ![<<f, i>>] = [stage |-> "sent", id |-> screen[f].id]]
                /\ screen' = [screen EXCEPT ![f].step = "waiting", ![f].slot = i]
          BY <4>1 DEF Press
        <5>2. RequestShape'
          BY <5>1 DEF RequestShape, ScreenShape, Stage, Slot
        <5>3. i \in 0..Copies
          OBVIOUS
        <5>4. screen' = [screen EXCEPT ![f] = [screen[f] EXCEPT !.step = "waiting", !.slot = i]]
          BY <5>1 DEF ScreenShape
        <5>5. ScreenShape'
          BY <5>3, <5>4 DEF ScreenShape
        <5> QED
          BY <5>2, <5>5
      <4>2. CASE OpenGenerate(f)
        BY <4>2 DEF OpenGenerate, RequestShape, ScreenShape
      <4>3. CASE LinkDown(f)
        <5>1. screen' = [screen EXCEPT ![f] = [screen[f] EXCEPT !.step = "error", !.slot = 0]]
          BY <4>3 DEF LinkDown, ScreenShape
        <5>2. 0 \in 0..Copies
          OBVIOUS
        <5> QED
          BY <4>3, <5>1, <5>2 DEF LinkDown, RequestShape, ScreenShape
      <4> QED
        BY <2>1, <4>1, <4>2, <4>3
    <3> QED
      BY <3>1, <3>2
  <2>2. ASSUME NEW s \in Slot,
               Lookup(s) \/ Lock(s) \/ Write(s) \/ Reject(s) \/ Commit(s) \/ Answer(s) \/ Crash(s)
        PROVE  Shape'
    <3>1. BonShape'
      <4>1. CASE bons' = bons
        BY <4>1 DEF BonShape
      <4>2. CASE Commit(s)
        <5>1. s[1] \in Form
          BY DEF Slot
        <5>2. PICK n, i : bons' = bons \cup {[nr |-> n, form |-> s[1], id |-> i, standing |-> TRUE]}
          BY <4>2 DEF Commit
        <5> DEFINE new == [nr |-> n, form |-> s[1], id |-> i, standing |-> TRUE]
        <5>3. new \in [nr : {new.nr}, form : Form, id : {new.id}, standing : BOOLEAN]
          BY <5>1
        <5> HIDE DEF new
        <5>4. bons' = bons \cup {new}
          BY <5>2 DEF new
        <5> QED
          BY <5>3, <5>4 DEF BonShape
      <4> QED
        BY <2>2, <4>1, <4>2 DEF Lookup, Lock, Write, Reject, Answer, Crash
    <3>2. RequestShape'
      <4>1. CASE Lookup(s) \/ Lock(s) \/ Write(s) \/ Reject(s) \/ Commit(s)
        BY <4>1 DEF Lookup, Lock, Write, Reject, Commit, AtStage, RequestShape, Stage
      <4>2. CASE Answer(s) \/ Crash(s)
        BY <4>2 DEF Answer, Crash, Idle, RequestShape, Stage
      <4> QED
        BY <2>2, <4>1, <4>2
    <3>3. ScreenShape'
      BY <2>2 DEF Lookup, Lock, Write, Reject, Commit, Answer, Crash, ScreenShape, Slot
    <3> QED
      BY <3>1, <3>2, <3>3
  <2>3. ASSUME NEW k \in remembered, Evict(k) PROVE Shape'
    BY <2>3 DEF Evict, BonShape, RequestShape, ScreenShape
  <2>4. ASSUME NEW b \in bons, Void(b) PROVE Shape'
    <3>1. BonShape'
      BY <2>4 DEF Void, BonShape
    <3> QED
      BY <2>4, <3>1 DEF Void, RequestShape, ScreenShape
  <2>5. CASE RevertChecks \/ RevertCommits \/ Confirm
    BY <2>5 DEF RevertChecks, RevertCommits, Confirm, BonShape, RequestShape, ScreenShape
  <2>6. CASE UNCHANGED vars
    BY <2>6 DEF vars, BonShape, RequestShape, ScreenShape
  <2> QED
    BY <2>1, <2>2, <2>3, <2>4, <2>5, <2>6 DEF Next
<1> QED
  BY <1>1, <1>2, PTL DEF Spec

-----------------------------------------------------------------------------
(* What a request holds is nobody else's: no bon that stands has its codes *)
(* and no other request holds any of them.                                 *)
HeldIsFree ==
  /\ \A s \in Slot : Holds(s) => Selected[s[1]] \cap used = {}
  /\ \A s, r \in Slot : Holds(s) /\ Holds(r) /\ s # r => Selected[s[1]] \cap Selected[r[1]] = {}

CodesInv == Shape /\ HeldIsFree /\ OneBonPerCode

(* A request that comes to hold nothing it did not hold leaves that so.    *)
LEMMA HeldStill ==
  ASSUME HeldIsFree, used' = used, \A s \in Slot : Holds(s)' => Holds(s)
  PROVE  HeldIsFree'
BY DEF HeldIsFree

(* The lock is granted only over rows nobody holds and only kept if every  *)
(* code is still Active.                                                   *)
LEMMA LockKeepsFree ==
  ASSUME Shape, HeldIsFree, NEW s \in Slot, Lock(s) PROVE HeldIsFree'
<1>1. \A r \in Slot : r # s => (Holds(r)' <=> Holds(r))
  BY DEF Lock, AtStage, Holds, Shape, RequestShape
<1>2. Holds(s)' => Selected[s[1]] \cap used = {}
  BY DEF Lock, AtStage, Holds, Shape, RequestShape
<1>3. \A r \in Slot : Holds(r) => Selected[r[1]] \cap Selected[s[1]] = {}
  BY DEF Lock, LockFree
<1>4. used' = used
  BY DEF Lock
<1> QED
  BY <1>1, <1>2, <1>3, <1>4 DEF HeldIsFree

(* The commit spends what the request held, which no bon and no other      *)
(* request had.                                                            *)
LEMMA CommitKeepsCodes ==
  ASSUME CodesInv, NEW s \in Slot, Commit(s) PROVE HeldIsFree' /\ OneBonPerCode'
<1> DEFINE new == [nr |-> Cardinality(bons) + 1, form |-> s[1], id |-> request[s].id, standing |-> TRUE]
<1>1. Holds(s) /\ ~Holds(s)' /\ \A r \in Slot : r # s => (Holds(r)' <=> Holds(r))
  BY DEF Commit, AtStage, Holds, CodesInv, Shape, RequestShape
<1>2. used' = used \cup Selected[s[1]] /\ bons' = bons \cup {new}
  BY DEF Commit
<1>3. Selected[s[1]] \cap used = {}
  BY <1>1 DEF CodesInv, HeldIsFree
<1>4. HeldIsFree'
  BY <1>1, <1>2 DEF CodesInv, HeldIsFree
<1>5. \A b \in bons : b.standing => Selected[b.form] \cap Selected[s[1]] = {}
  BY <1>3 DEF CodesInv, OneBonPerCode
<1>6. new.form = s[1] /\ new.standing
  OBVIOUS
<1> HIDE DEF new
<1>7. \A b, c \in bons' : b.standing /\ c.standing /\ b # c => Selected[b.form] \cap Selected[c.form] = {}
  BY <1>2, <1>5, <1>6 DEF CodesInv, OneBonPerCode
<1>8. used' = UNION {Selected[b.form] : b \in {c \in bons' : c.standing}}
  BY <1>2, <1>6 DEF CodesInv, OneBonPerCode
<1> QED
  BY <1>4, <1>7, <1>8 DEF OneBonPerCode

(* The bon that is voided gives back its own codes and nobody else's.      *)
LEMMA VoidKeepsCodes ==
  ASSUME CodesInv, NEW b \in bons, Void(b) PROVE HeldIsFree' /\ OneBonPerCode'
<1> DEFINE gone == [b EXCEPT !.standing = FALSE]
<1>1. \A s \in Slot : Holds(s)' <=> Holds(s)
  BY DEF Void, Holds
<1>2. used' = used \ Selected[b.form] /\ bons' = (bons \ {b}) \cup {gone} /\ b.standing
  BY DEF Void
<1>3. HeldIsFree'
  BY <1>1, <1>2 DEF CodesInv, HeldIsFree
<1>4. ~gone.standing
  BY DEF CodesInv, Shape, BonShape
<1> HIDE DEF gone
<1>5. {c \in bons' : c.standing} = {c \in bons : c.standing} \ {b}
  BY <1>2, <1>4
<1>6. \A c \in bons : c.standing /\ c # b => Selected[c.form] \cap Selected[b.form] = {}
  BY <1>2 DEF CodesInv, OneBonPerCode
<1>7. used' = UNION {Selected[c.form] : c \in {c \in bons : c.standing} \ {b}}
  BY <1>2, <1>6 DEF CodesInv, OneBonPerCode
<1>8. \A c, d \in bons' : c.standing /\ d.standing /\ c # d => Selected[c.form] \cap Selected[d.form] = {}
  BY <1>5 DEF CodesInv, OneBonPerCode
<1> QED
  BY <1>3, <1>5, <1>7, <1>8 DEF OneBonPerCode

(* However requests overlap, are lost, resent or killed, two standing bons *)
(* never share a code, and exactly the codes of standing bons are Used     *)
(* (make_order, void_order).                                               *)
THEOREM CodesSpentOnce == Spec => []OneBonPerCode
<1>1. Init => CodesInv
  <2>1. Init => HeldIsFree /\ OneBonPerCode
    BY DEF Init, HeldIsFree, Holds, OneBonPerCode, Idle
  <2>2. Init => Shape
    BY CopiesAssumption DEF Init, Shape, BonShape, RequestShape, ScreenShape, Idle, Stage
  <2> QED
    BY <2>1, <2>2 DEF CodesInv
<1>2. CodesInv /\ Shape' /\ [Next]_vars => CodesInv'
  <2> SUFFICES ASSUME CodesInv, Shape', [Next]_vars PROVE HeldIsFree' /\ OneBonPerCode'
    BY DEF CodesInv
  <2>1. CASE UNCHANGED <<used, bons>> /\ \A s \in Slot : Holds(s)' => Holds(s)
    BY <2>1, HeldStill DEF CodesInv, OneBonPerCode
  <2>2. ASSUME NEW f \in Form, Press(f) \/ OpenGenerate(f) \/ LinkDown(f)
        PROVE  HeldIsFree' /\ OneBonPerCode'
    <3>1. \A s \in Slot : Holds(s)' => Holds(s)
      <4>1. ASSUME NEW i \in 1..Copies,
                   request' = [request EXCEPT ![<<f, i>>] = [stage |-> "sent", id |-> screen[f].id]]
            PROVE  \A s \in Slot : Holds(s)' => Holds(s)
        BY <4>1 DEF Holds, CodesInv, Shape, RequestShape, Slot
      <4> QED
        BY <2>2, <4>1 DEF Press, OpenGenerate, LinkDown, Holds
    <3> QED
      BY <2>1, <2>2, <3>1 DEF Press, OpenGenerate, LinkDown
  <2>3. ASSUME NEW s \in Slot, Lookup(s) \/ Write(s) \/ Reject(s) \/ Answer(s) \/ Crash(s)
        PROVE  HeldIsFree' /\ OneBonPerCode'
    <3>1. \A r \in Slot : Holds(r)' => Holds(r)
      BY <2>3 DEF Lookup, Write, Reject, Answer, Crash, AtStage, Idle, Holds, CodesInv, Shape, RequestShape
    <3> QED
      BY <2>1, <2>3, <3>1 DEF Lookup, Write, Reject, Answer, Crash
  <2>4. ASSUME NEW s \in Slot, Lock(s) PROVE HeldIsFree' /\ OneBonPerCode'
    BY <2>4, LockKeepsFree DEF CodesInv, Lock, OneBonPerCode
  <2>5. ASSUME NEW s \in Slot, Commit(s) PROVE HeldIsFree' /\ OneBonPerCode'
    BY <2>5, CommitKeepsCodes
  <2>6. ASSUME NEW k \in remembered, Evict(k) PROVE HeldIsFree' /\ OneBonPerCode'
    BY <2>1, <2>6 DEF Evict, Holds
  <2>7. ASSUME NEW b \in bons, Void(b) PROVE HeldIsFree' /\ OneBonPerCode'
    BY <2>7, VoidKeepsCodes
  <2>8. CASE RevertChecks \/ RevertCommits \/ Confirm \/ UNCHANGED vars
    BY <2>1, <2>8 DEF RevertChecks, RevertCommits, Confirm, vars, Holds
  <2> QED
    BY <2>2, <2>3, <2>4, <2>5, <2>6, <2>7, <2>8 DEF Next
<1> QED
  BY <1>1, <1>2, ShapeHolds, PTL DEF Spec, CodesInv
-----------------------------------------------------------------------------
(* An answer is backed by a bon of its id, committed or with only the      *)
(* commit left.                                                            *)
Backed(f, i) ==
  \/ \E b \in bons : b.form = f /\ b.id = i
  \/ \E j \in 1..Copies : request[<<f, j>>] = [stage |-> "written", id |-> i]

(* Whatever may still turn a screen to step 3 is backed: the ids the cache *)
(* knows, the answers under way, and the request a waiting phone waits for *)
(* is for the id its form has.                                             *)
AnswersBacked ==
  /\ remembered \subseteq Form \X Nat
  /\ \A k \in remembered : Backed(k[1], k[2])
  /\ \A s \in Slot : request[s].stage = "answered" => Backed(s[1], request[s].id)
  /\ \A f \in Form : screen[f].step = "done" => Backed(f, screen[f].id)
  /\ \A f \in Form : screen[f].step = "waiting" =>
       screen[f].slot \in 1..Copies /\ request[<<f, screen[f].slot>>].id = screen[f].id

(* No step but a kill at the commit takes the backing of an answer away.   *)
LEMMA BackedStays ==
  ASSUME "written" \notin CrashAt, Shape, Next, NEW f \in Form, NEW i \in Nat, Backed(f, i)
  PROVE  Backed(f, i)'
<1>1. CASE \E b \in bons : b.form = f /\ b.id = i
  <2>1. PICK b \in bons : b.form = f /\ b.id = i
    BY <1>1
  <2>2. CASE b \in bons'
    BY <2>1, <2>2 DEF Backed
  <2>3. CASE b \notin bons'
    <3>1. PICK c \in bons : Void(c)
      BY <2>3 DEF Next, Press, OpenGenerate, LinkDown, Lookup, Lock, Write, Reject, Commit, Answer, Crash,
                  Evict, RevertChecks, RevertCommits, Confirm
    <3>2. c = b
      BY <2>3, <3>1 DEF Void
    <3> DEFINE gone == [b EXCEPT !.standing = FALSE]
    <3>3. gone.form = f /\ gone.id = i
      BY <2>1 DEF Shape, BonShape
    <3>4. gone \in bons'
      BY <3>1, <3>2 DEF Void
    <3> HIDE DEF gone
    <3> QED
      BY <3>3, <3>4 DEF Backed
  <2> QED
    BY <2>2, <2>3
<1>2. CASE \E j \in 1..Copies : request[<<f, j>>] = [stage |-> "written", id |-> i]
  <2>1. PICK j \in 1..Copies : request[<<f, j>>] = [stage |-> "written", id |-> i]
    BY <1>2
  <2> DEFINE t == <<f, j>>
  <2>2. t \in Slot /\ t[1] = f
    BY DEF Slot
  <2>3. CASE request'[t] = request[t]
    BY <2>1, <2>3 DEF Backed
  <2>4. CASE Commit(t)
    <3> DEFINE new == [nr |-> Cardinality(bons) + 1, form |-> f, id |-> i, standing |-> TRUE]
    <3>1. new \in bons'
      BY <2>1, <2>2, <2>4 DEF Commit
    <3>2. new.form = f /\ new.id = i
      OBVIOUS
    <3> HIDE DEF new
    <3> QED
      BY <3>1, <3>2 DEF Backed
  <2>5. request'[t] = request[t] \/ Commit(t)
    <3>1. ASSUME NEW g \in Form, Press(g) PROVE request'[t] = request[t]
      <4>1. PICK k \in 1..Copies :
              /\ request[<<g, k>>].stage = "idle"
              /\ request' = [request EXCEPT ![<<g, k>>] = [stage |-> "sent", id |-> screen[g].id]]
        BY <3>1 DEF Press
      <4>2. <<g, k>> # t
        BY <2>1, <4>1
      <4>3. <<g, k>> \in Slot
        BY <4>1 DEF Slot
      <4> HIDE DEF t
      <4> QED
        BY <2>2, <4>1, <4>2, <4>3 DEF Shape, RequestShape
    <3>2. ASSUME NEW s \in Slot,
                 Lookup(s) \/ Lock(s) \/ Write(s) \/ Reject(s) \/ Commit(s) \/ Answer(s) \/ Crash(s), s # t
          PROVE  request'[t] = request[t]
      BY <2>2, <3>2 DEF Lookup, Lock, Write, Reject, Commit, Answer, Crash, AtStage, Shape, RequestShape
    <3>3. request[t].stage = "written"
      BY <2>1
    <3>4. ~(Lookup(t) \/ Lock(t) \/ Write(t) \/ Reject(t) \/ Answer(t) \/ Crash(t))
      BY <3>3 DEF Lookup, Lock, Write, Reject, Answer, Crash
    <3> QED
      BY <3>1, <3>2, <3>4 DEF Next, OpenGenerate, LinkDown, Evict, Void, RevertChecks, RevertCommits, Confirm
  <2> QED
    BY <2>3, <2>4, <2>5
<1> QED
  BY <1>1, <1>2 DEF Backed

(* The cache only remembers what Write has just backed.                    *)
LEMMA RememberedBacked ==
  ASSUME "written" \notin CrashAt, Shape, Next, AnswersBacked
  PROVE  remembered' \subseteq Form \X Nat /\ \A k \in remembered' : Backed(k[1], k[2])'
<1>1. \A k \in remembered : Backed(k[1], k[2])'
  BY BackedStays DEF AnswersBacked
<1>2. CASE remembered' \subseteq remembered
  BY <1>1, <1>2 DEF AnswersBacked
<1>3. ASSUME NEW s \in Slot, Write(s)
      PROVE  remembered' \subseteq Form \X Nat /\ \A k \in remembered' : Backed(k[1], k[2])'
  <2>1. s[1] \in Form /\ s[2] \in 1..Copies /\ s = <<s[1], s[2]>>
    BY DEF Slot
  <2>2. PICK i \in Nat : i = request[s].id
    BY DEF Shape, RequestShape
  <2>3. request'[s] = [stage |-> "written", id |-> i]
    <3>1. request' = [request EXCEPT ![s] = [request[s] EXCEPT !.stage = "written"]]
      BY <1>3 DEF Write, AtStage
    <3>2. [request[s] EXCEPT !.stage = "written"] = [stage |-> "written", id |-> i]
      BY <2>2 DEF Shape, RequestShape
    <3> QED
      BY <3>1, <3>2 DEF Shape, RequestShape
  <2>4. Backed(s[1], i)'
    BY <2>1, <2>3 DEF Backed
  <2>5. remembered' = remembered \cup {<<s[1], i>>}
    BY <1>3, <2>2 DEF Write, Id
  <2> QED
    BY <1>1, <2>1, <2>2, <2>4, <2>5 DEF AnswersBacked
<1> QED
  BY <1>2, <1>3 DEF Next, Press, OpenGenerate, LinkDown, Lookup, Lock, Reject, Commit, Answer, Crash, Evict,
                    Void, RevertChecks, RevertCommits, Confirm

(* An answer is given by a lookup that found its id, or by a commit.       *)
LEMMA AnsweredBacked ==
  ASSUME "written" \notin CrashAt, Shape, Next, AnswersBacked,
         NEW s \in Slot, request'[s].stage = "answered"
  PROVE  Backed(s[1], request[s].id)'
<1>1. s[1] \in Form /\ s[2] \in 1..Copies /\ s = <<s[1], s[2]>>
  BY DEF Slot
<1>2. PICK i \in Nat : i = request[s].id
  BY DEF Shape, RequestShape
<1>3. ASSUME request'[s] = request[s] PROVE Backed(s[1], request[s].id)'
  BY <1>1, <1>2, <1>3, BackedStays DEF AnswersBacked
<1>4. ASSUME NEW g \in Form, Press(g) PROVE Backed(s[1], request[s].id)'
  <2>1. PICK k \in 1..Copies : request' = [request EXCEPT ![<<g, k>>] = [stage |-> "sent", id |-> screen[g].id]]
    BY <1>4 DEF Press
  <2>2. request'[s] = request[s]
    BY <2>1 DEF Shape, RequestShape
  <2> QED
    BY <1>3, <2>2
<1>5. ASSUME NEW r \in Slot, r # s,
             Lookup(r) \/ Lock(r) \/ Write(r) \/ Reject(r) \/ Commit(r) \/ Answer(r) \/ Crash(r)
      PROVE  Backed(s[1], request[s].id)'
  <2>1. request'[s] = request[s]
    BY <1>5 DEF Lookup, Lock, Write, Reject, Commit, Answer, Crash, AtStage, Shape, RequestShape
  <2> QED
    BY <1>3, <2>1
<1>6. CASE Lookup(s)
  <2>1. request'[s].id = i
    BY <1>2, <1>6 DEF Lookup, AtStage, Shape, RequestShape
  <2>2. <<s[1], i>> \in remembered
    BY <1>2, <1>6 DEF Lookup, AtStage, Id, Shape, RequestShape
  <2>3. Backed(s[1], i)
    BY <2>2 DEF AnswersBacked
  <2> QED
    BY <1>1, <2>1, <2>3, BackedStays
<1>7. CASE Commit(s)
  <2>1. request'[s].id = i /\ request[s] = [stage |-> "written", id |-> i]
    BY <1>2, <1>7 DEF Commit, AtStage, Shape, RequestShape
  <2>2. Backed(s[1], i)
    BY <1>1, <2>1 DEF Backed
  <2> QED
    BY <1>1, <2>1, <2>2, BackedStays
<1>8. ~(Lock(s) \/ Write(s) \/ Reject(s) \/ Answer(s) \/ Crash(s))
  BY DEF Lock, Write, Reject, Answer, Crash, AtStage, Idle, Shape, RequestShape
<1> QED
  BY <1>3, <1>4, <1>5, <1>6, <1>7, <1>8
     DEF Next, OpenGenerate, LinkDown, Evict, Void, RevertChecks, RevertCommits, Confirm

(* A waiting phone waits for the id its form has: its own press put it     *)
(* there, and nothing of another request touches it.                       *)
LEMMA WaitingKnown ==
  ASSUME Shape, Next, AnswersBacked, NEW f \in Form, screen'[f].step = "waiting"
  PROVE  screen'[f].slot \in 1..Copies /\ request'[<<f, screen'[f].slot>>].id = screen'[f].id
<1>1. ASSUME screen'[f] = screen[f],
             \A j \in 1..Copies : screen[f].slot = j => request'[<<f, j>>].id = request[<<f, j>>].id
      PROVE  screen'[f].slot \in 1..Copies /\ request'[<<f, screen'[f].slot>>].id = screen'[f].id
  BY <1>1 DEF AnswersBacked
<1>2. ASSUME NEW g \in Form, Press(g)
      PROVE  screen'[f].slot \in 1..Copies /\ request'[<<f, screen'[f].slot>>].id = screen'[f].id
  <2>1. PICK k \in 1..Copies :
          /\ request' = [request EXCEPT ![<<g, k>>] = [stage |-> "sent", id |-> screen[g].id]]
          /\ screen' = [screen EXCEPT ![g].step = "waiting", ![g].slot = k]
    BY <1>2 DEF Press
  <2>2. CASE g = f
    <3>1. screen'[f].slot = k /\ screen'[f].id = screen[f].id
      BY <2>1, <2>2 DEF Shape, ScreenShape
    <3>2. request'[<<f, k>>] = [stage |-> "sent", id |-> screen[f].id]
      BY <2>1, <2>2 DEF Shape, RequestShape, Slot
    <3> QED
      BY <3>1, <3>2
  <2>3. CASE g # f
    <3>1. screen'[f] = screen[f]
      BY <2>1, <2>3 DEF Shape, ScreenShape
    <3>2. \A j \in 1..Copies : request'[<<f, j>>] = request[<<f, j>>]
      BY <2>1, <2>3 DEF Shape, RequestShape, Slot
    <3> QED
      BY <1>1, <3>1, <3>2
  <2> QED
    BY <2>2, <2>3
<1>3. ASSUME NEW g \in Form, OpenGenerate(g) \/ LinkDown(g)
      PROVE  screen'[f].slot \in 1..Copies /\ request'[<<f, screen'[f].slot>>].id = screen'[f].id
  <2>1. screen'[f] = screen[f] /\ request' = request
    BY <1>3 DEF OpenGenerate, LinkDown, Shape, ScreenShape
  <2> QED
    BY <1>1, <2>1
<1>4. ASSUME NEW s \in Slot, Lookup(s) \/ Lock(s) \/ Write(s) \/ Reject(s) \/ Commit(s)
      PROVE  screen'[f].slot \in 1..Copies /\ request'[<<f, screen'[f].slot>>].id = screen'[f].id
  <2>1. PICK x : request' = [request EXCEPT ![s].stage = x]
    BY <1>4 DEF Lookup, Lock, Write, Reject, Commit, AtStage
  <2>2. \A j \in 1..Copies : request'[<<f, j>>].id = request[<<f, j>>].id
    BY <2>1 DEF Shape, RequestShape, Slot
  <2>3. screen' = screen
    BY <1>4 DEF Lookup, Lock, Write, Reject, Commit
  <2> QED
    BY <1>1, <2>2, <2>3
<1>5. ASSUME NEW s \in Slot, Answer(s) \/ Crash(s)
      PROVE  screen'[f].slot \in 1..Copies /\ request'[<<f, screen'[f].slot>>].id = screen'[f].id
  <2>1. s[1] # f \/ s[2] # screen[f].slot
    BY <1>5 DEF Answer, Crash, Shape, ScreenShape
  <2>2. screen'[f] = screen[f]
    BY <1>5, <2>1 DEF Answer, Crash, Shape, ScreenShape, Slot
  <2>3. \A j \in 1..Copies : screen[f].slot = j => request'[<<f, j>>] = request[<<f, j>>]
    BY <1>5, <2>1 DEF Answer, Crash, Shape, RequestShape, Slot
  <2> QED
    BY <1>1, <2>2, <2>3
<1>6. CASE UNCHANGED <<request, screen>>
  BY <1>1, <1>6
<1> QED
  BY <1>2, <1>3, <1>4, <1>5, <1>6 DEF Next, Evict, Void, RevertChecks, RevertCommits, Confirm

(* A phone that turns to step 3 is answered for the id it waits for.       *)
LEMMA DoneBacked ==
  ASSUME "written" \notin CrashAt, Shape, Next, AnswersBacked, NEW f \in Form, screen'[f].step = "done"
  PROVE  Backed(f, screen[f].id)'
<1>1. PICK i \in Nat : i = screen[f].id
  BY DEF Shape, ScreenShape
<1>2. ASSUME screen'[f] = screen[f] PROVE Backed(f, screen[f].id)'
  BY <1>1, <1>2, BackedStays DEF AnswersBacked
<1>3. ASSUME NEW g \in Form, Press(g) \/ OpenGenerate(g) \/ LinkDown(g) PROVE Backed(f, screen[f].id)'
  <2>1. screen'[f] = screen[f]
    <3>1. ASSUME NEW k \in 1..Copies, screen' = [screen EXCEPT ![g].step = "waiting", ![g].slot = k]
          PROVE  screen'[f] = screen[f]
      <4>1. g # f
        BY <3>1 DEF Shape, ScreenShape
      <4> QED
        BY <3>1, <4>1 DEF Shape, ScreenShape
    <3>2. CASE OpenGenerate(g) \/ LinkDown(g)
      BY <3>2 DEF OpenGenerate, LinkDown, Shape, ScreenShape
    <3> QED
      BY <1>3, <3>1, <3>2 DEF Press
  <2> QED
    BY <1>2, <2>1
<1>4. ASSUME NEW s \in Slot, Answer(s) PROVE Backed(f, screen[f].id)'
  <2>1. CASE screen'[f] = screen[f]
    BY <1>2, <2>1
  <2>2. CASE screen'[f] # screen[f]
    <3>1. s[1] = f /\ screen[f].step = "waiting" /\ screen[f].slot = s[2]
      BY <1>4, <2>2 DEF Answer, Shape, ScreenShape, Slot
    <3>2. request[s].stage = "answered" /\ screen'[f].id = i
      BY <1>1, <1>4, <3>1 DEF Answer, Shape, ScreenShape
    <3>3. s = <<f, screen[f].slot>>
      BY <3>1 DEF Slot
    <3>4. request[s].id = i
      BY <1>1, <3>1, <3>3 DEF AnswersBacked
    <3>5. Backed(f, i)
      BY <3>1, <3>2, <3>4 DEF AnswersBacked
    <3> QED
      BY <3>2, <3>5, BackedStays
  <2> QED
    BY <2>1, <2>2
<1>5. ASSUME NEW s \in Slot, Crash(s) PROVE Backed(f, screen[f].id)'
  <2>1. screen'[f] = screen[f]
    BY <1>5 DEF Crash, Shape, ScreenShape
  <2> QED
    BY <1>2, <2>1
<1>6. CASE screen' = screen
  BY <1>2, <1>6
<1> QED
  BY <1>3, <1>4, <1>5, <1>6
     DEF Next, Lookup, Lock, Write, Reject, Commit, Evict, Void, RevertChecks, RevertCommits, Confirm

(* If no worker dies between writing the cache and the commit, a phone     *)
(* that shows step 3 has its bon, whatever else is lost, killed, evicted   *)
(* or pressed again (idempotency.remember, api.gate_generate_order).       *)
THEOREM DonePhonesHaveBons == ASSUME "written" \notin CrashAt PROVE Spec => []DoneMeansBon
<1>1. Init => AnswersBacked
  BY DEF Init, AnswersBacked, Idle
<1>2. AnswersBacked /\ Shape /\ [Next]_vars => AnswersBacked'
  <2> SUFFICES ASSUME AnswersBacked, Shape, [Next]_vars PROVE AnswersBacked'
    OBVIOUS
  <2>1. CASE Next
    <3>1. remembered' \subseteq Form \X Nat /\ \A k \in remembered' : Backed(k[1], k[2])'
      BY <2>1, RememberedBacked
    <3>2. \A s \in Slot : request'[s].stage = "answered" => Backed(s[1], request[s].id)'
      BY <2>1, AnsweredBacked
    <3>3. \A f \in Form : screen'[f].step = "done" => Backed(f, screen[f].id)'
      BY <2>1, DoneBacked
    <3>4. \A f \in Form : screen'[f].step = "waiting" =>
            screen'[f].slot \in 1..Copies /\ request'[<<f, screen'[f].slot>>].id = screen'[f].id
      BY <2>1, WaitingKnown
    <3> QED
      BY <3>1, <3>2, <3>3, <3>4 DEF AnswersBacked
  <2>2. CASE UNCHANGED vars
    BY <2>2 DEF vars, AnswersBacked, Backed
  <2> QED
    BY <2>1, <2>2
<1>3. AnswersBacked => DoneMeansBon
  BY DEF AnswersBacked, DoneMeansBon, Backed
<1> QED
  BY <1>1, <1>2, <1>3, ShapeHolds, PTL DEF Spec

-----------------------------------------------------------------------------
(* The desk                                                                *)

(* Whatever part is on, the gate's variables move as the gate moves them:  *)
(* what is proved of the gate holds of the desk.                           *)
THEOREM DeskKeepsGate == DeskSpec => Spec
<1>1. DeskInit => Init
  BY DEF DeskInit
<1>2. [DeskNext]_deskVars => [Next]_vars
  BY DEF DeskNext, GateStep, RepairStep, WashStep, deskVars
<1> QED
  BY <1>1, <1>2, PTL DEF DeskSpec, Spec

LEMMA PartBounds ==
  /\ Estimate!BoundAssumption /\ Tests!BoundAssumption
  /\ Spares!BoundAssumption /\ Spares!ItemAssumption /\ Spares!PriceAssumption
  /\ Times!BoundAssumption /\ Times!ItemAssumption /\ Times!PriceAssumption
  /\ Prices!BoundAssumption /\ Prices!ItemAssumption /\ Prices!PriceAssumption
<1>1. Estimate!BoundAssumption /\ Tests!BoundAssumption
  BY DEF Estimate!BoundAssumption, Tests!BoundAssumption
<1>2. Spares!BoundAssumption /\ Spares!ItemAssumption /\ Spares!PriceAssumption
  BY DEF Spares!BoundAssumption, Spares!ItemAssumption, Spares!PriceAssumption
<1>3. Times!BoundAssumption /\ Times!ItemAssumption /\ Times!PriceAssumption
  BY DEF Times!BoundAssumption, Times!ItemAssumption, Times!PriceAssumption
<1>4. Prices!BoundAssumption /\ Prices!ItemAssumption /\ Prices!PriceAssumption
  BY DEF Prices!BoundAssumption, Prices!ItemAssumption, Prices!PriceAssumption
<1> QED
  BY <1>1, <1>2, <1>3, <1>4

(* The part that is on is as its own proof says.                           *)
DeskInv ==
  /\ part = "estimate" => Estimate!RepairInv
  /\ part = "tests" => Tests!RepairInv
  /\ part = "spares" => Spares!WashInv
  /\ part = "times" => Times!WashInv
  /\ part = "prices" => Prices!WashInv

LEMMA DeskStart == DeskInit => DeskInv
<1> SUFFICES ASSUME DeskInit PROVE DeskInv
  OBVIOUS
<1>1. part = "estimate" => Estimate!RepairInv
  BY PartBounds, Estimate!RepairStart DEF DeskInit
<1>2. part = "tests" => Tests!RepairInv
  BY PartBounds, Tests!RepairStart DEF DeskInit
<1>3. part = "spares" => Spares!WashInv
  BY PartBounds, Spares!WashStart DEF DeskInit
<1>4. part = "times" => Times!WashInv
  BY PartBounds, Times!WashStart DEF DeskInit
<1>5. part = "prices" => Prices!WashInv
  BY PartBounds, Prices!WashStart DEF DeskInit
<1> QED
  BY <1>1, <1>2, <1>3, <1>4, <1>5 DEF DeskInv

(* The desk's step is a step of the part that is on, or none.              *)
LEMMA PartMoves ==
  ASSUME [DeskNext]_deskVars
  PROVE  /\ part' = part
         /\ part = "estimate" => [Estimate!Next]_(Estimate!vars)
         /\ part = "tests" => [Tests!Next]_(Tests!vars)
         /\ part = "spares" => [Spares!Next]_(Spares!vars)
         /\ part = "times" => [Times!Next]_(Times!vars)
         /\ part = "prices" => [Prices!Next]_(Prices!vars)
<1>1. CASE DeskNext
  BY <1>1 DEF DeskNext, GateStep, RepairStep, WashStep
<1>2. CASE UNCHANGED deskVars
  BY <1>2 DEF deskVars, repair, wash, Estimate!vars, Tests!vars, Spares!vars, Times!vars, Prices!vars
<1> QED
  BY <1>1, <1>2

(* What the part that is on never does.                                    *)
DeskKept ==
  /\ part = "estimate" => Estimate!Kept
  /\ part = "tests" => Tests!Kept
  /\ part = "times" => Times!WorkKept

LEMMA DeskMoves == DeskInv /\ [DeskNext]_deskVars => DeskInv' /\ DeskKept
<1> SUFFICES ASSUME DeskInv, [DeskNext]_deskVars PROVE DeskInv' /\ DeskKept
  OBVIOUS
<1>1. part = "estimate" => Estimate!RepairInv' /\ Estimate!Kept
  BY PartBounds, PartMoves, Estimate!RepairStep DEF DeskInv
<1>2. part = "tests" => Tests!RepairInv' /\ Tests!Kept
  BY PartBounds, PartMoves, Tests!RepairStep DEF DeskInv
<1>3. part = "spares" => Spares!WashInv'
  BY PartBounds, PartMoves, Spares!WashStep DEF DeskInv
<1>4. part = "times" => Times!WashInv' /\ Times!WorkKept
  BY PartBounds, PartMoves, Times!WashStep DEF DeskInv
<1>5. part = "prices" => Prices!WashInv'
  BY PartBounds, PartMoves, Prices!WashStep DEF DeskInv
<1>6. part' = part
  BY PartMoves
<1> QED
  BY <1>1, <1>2, <1>3, <1>4, <1>5, <1>6 DEF DeskInv, DeskKept

LEMMA DeskHolds == DeskSpec => []DeskInv
<1>1. DeskInv /\ [DeskNext]_deskVars => DeskInv'
  BY DeskMoves
<1> QED
  BY <1>1, DeskStart, PTL DEF DeskSpec

(* The warehouse is short of exactly the parts that agreed M&R orders and  *)
(* submitted washes carry, through every undo, rewind and deletion         *)
(* (issue_parts_on_approval, _return_parts_if_rewound, revert_to_draft).   *)
THEOREM WorkshopPartsAdd == DeskSpec => []PartsAccounted
<1> SUFFICES ASSUME DeskInv PROVE PartsAccounted
  BY DeskHolds, PTL
<1>1. part = "estimate" => Estimate!TypeOK /\ Estimate!PartsAccounted
  BY Estimate!RepairAsMeant DEF DeskInv
<1>2. part = "spares" => Spares!TypeOK /\ Spares!PartsAccounted
  BY PartBounds, Spares!WashAsMeant DEF DeskInv
<1> QED
  BY <1>1, <1>2 DEF PartsAccounted

(* No order that is open again is on an invoice or waits for its Ajukan    *)
(* Revisi to be answered (reopen_completed, revert_to_draft).              *)
THEOREM WorkshopMarksStay == DeskSpec => []MarksStayClosed
<1> SUFFICES ASSUME DeskInv PROVE MarksStayClosed
  BY DeskHolds, PTL
<1>1. part = "estimate" => Estimate!MarksOnClosed
  BY Estimate!RepairAsMeant DEF DeskInv
<1>2. part = "spares" => Spares!MarksOnSubmitted
  BY PartBounds, Spares!WashAsMeant DEF DeskInv
<1> QED
  BY <1>1, <1>2 DEF MarksStayClosed

(* A wash that is finished is timed by its last round, after its start,    *)
(* and no save takes back a price a person typed (withdraw_review,         *)
(* revert_to_draft, _resolve_cleaning_services).                           *)
THEOREM WorkshopFiguresStand == DeskSpec => []WashFiguresStand
<1> SUFFICES ASSUME DeskInv PROVE WashFiguresStand
  BY DeskHolds, PTL
<1>1. part = "times" => Times!TypeOK /\ Times!FinishRetimed /\ Times!StartBeforeFinish
  BY PartBounds, Times!WashAsMeant DEF DeskInv
<1>2. part = "prices" => Prices!TypeOK /\ Prices!TypedPriceStands
  BY PartBounds, Prices!WashAsMeant DEF DeskInv
<1> QED
  BY <1>1, <1>2 DEF WashFiguresStand

(* No step of the workshop turns an owner's no into a yes, dates a tank's  *)
(* last test back but by undoing that test, or changes who did a wash and  *)
(* since when (approve_estimate, restore_test_date, start_cleaning).       *)
THEOREM WorkshopFactsStand == DeskSpec => FactsStand
<1>1. DeskInv /\ [DeskNext]_deskVars => DeskInv' /\ DeskKept
  BY DeskMoves
<1>2. DeskKept => /\ part = "estimate" => Estimate!OwnersNoKept
                  /\ part = "tests" => Tests!DateKept
                  /\ part = "times" => Times!WorkKept
  BY DEF DeskKept, Estimate!Kept, Tests!Kept
<1> QED
  BY <1>1, <1>2, DeskStart, PTL DEF DeskSpec, FactsStand
=============================================================================
