------------------------------ MODULE RateCard ------------------------------
(***************************************************************************)
(* A customer's rate card is the Depot Contract that is Active             *)
(* (doctype/depot_contract, pricing_model.py).  Contracts are drafted,     *)
(* copied from one another, activated, amended by a successor, declared    *)
(* invalid, and retired by the day after their last (tasks.py).  Orders    *)
(* and invoices price from whichever one is Active when they ask.          *)
(*                                                                         *)
(* One customer's contracts.  A contract's tariff is whether it has lines; *)
(* its currency is the one its lines are in.  A draft may take its lines   *)
(* from a base contract, which must then be in the same currency.          *)
(***************************************************************************)
EXTENDS Naturals, FiniteSets

CONSTANTS
  Contract,
  Currency,
  None,
  MaxDay,    \* bound: days that pass
  MaxEdit,   \* bound: corrections of drafts
  Lapse      \* what the code leaves open

CardAssumption ==
  /\ IsFiniteSet(Contract) /\ None \notin Contract
  /\ MaxDay \in Nat /\ MaxEdit \in Nat
  /\ Lapse \subseteq {"presses overlap", "base changes currency"}

VARIABLES
  status,   \* status[c]; "none": not created
  amends,   \* amends[c]: the contract it replaces
  base,     \* base[c]: the contract its lines come from
  money,    \* money[c]: its currency
  lines,    \* lines[c]: it has a tariff line
  until,    \* until[c]: valid_to
  today,
  expired,  \* tonight's job has run
  checked,  \* activations past their checks and not committed
  edits

vars == <<status, amends, base, money, lines, until, today, expired, checked, edits>>

ALLOWED_TRANSITIONS ==
  [s \in {"none", "Draft", "Active", "Expired", "Void", "Amended"} |->
     CASE s = "Draft" -> {"Active", "Void"}
       [] s = "Active" -> {"Expired", "Void", "Amended"}
       [] OTHER -> {}]

Init ==
  /\ status = [c \in Contract |-> "none"]
  /\ amends = [c \in Contract |-> None] /\ base = amends
  /\ money = [c \in Contract |-> CHOOSE m \in Currency : TRUE]
  /\ lines = [c \in Contract |-> FALSE] /\ until = [c \in Contract |-> 0]
  /\ today = 1 /\ expired = FALSE /\ checked = {} /\ edits = 0

Active == {c \in Contract : status[c] = "Active"}
Drafts == {c \in Contract : status[c] = "Draft"}
Known == {c \in Contract : status[c] # "none"}

TypeOK ==
  /\ status \in [Contract -> DOMAIN ALLOWED_TRANSITIONS]
  /\ amends \in [Contract -> Contract \cup {None}] /\ base \in [Contract -> Contract \cup {None}]
  /\ money \in [Contract -> Currency] /\ lines \in [Contract -> BOOLEAN]
  /\ until \in [Contract -> 0..MaxDay] /\ today \in 1..MaxDay
  /\ expired \in BOOLEAN /\ checked \subseteq Drafts /\ edits \in 0..MaxEdit

-----------------------------------------------------------------------------
(* validate(): what any save of c asks, with the fields as they now are.   *)
MatchesBase(c) == base[c] # None => money[c] = money[base[c]]
SourceStands(c) ==
  amends[c] # None /\ status[c] = "Draft" => status[amends[c]] \notin {"Draft", "Amended"}

Saves(c) == MatchesBase(c)' /\ SourceStands(c)'

(* Nothing is under way but what two presses at once leave.                *)
Quiet == checked = {}
contracts == <<status, amends, base, money, lines, until>>

Fill(c, b, m, l, u) ==
  /\ base' = [base EXCEPT ![c] = b] /\ money' = [money EXCEPT ![c] = m]
  /\ lines' = [lines EXCEPT ![c] = l] /\ until' = [until EXCEPT ![c] = u]

(* A tariff may be taken from any other contract that has one, whatever    *)
(* became of it.                                                           *)
Bases(c) == {None} \cup {k \in Known \ {c} : lines[k]}

(* The buttons of a contract: Submit, Cancel, Invalid; a copy is offered   *)
(* of any but a draft.                                                     *)
Buttons(c) ==
  CASE status[c] = "Draft"  -> {"Active", "Void"}
    [] status[c] = "Active" -> {"Void", "Amend"}
    [] OTHER                -> {"Amend"}

(* A new contract, or a copy of one that is not a draft, made to amend it. *)
Create(c) ==
  /\ Quiet /\ status[c] = "none"
  /\ \E s \in {None} \cup {k \in Known : "Amend" \in Buttons(k)}, b \in Bases(c),
        m \in Currency, l \in BOOLEAN, u \in today..MaxDay :
       /\ amends' = [amends EXCEPT ![c] = s]
       /\ status' = [status EXCEPT ![c] = "Draft"]
       /\ Fill(c, b, m, l, u)
  /\ Saves(c)
  /\ UNCHANGED <<today, expired, checked, edits>>

(* The currency of a contract others took their lines from is a field of   *)
(* its draft like any other: nobody asks who copied from it.               *)
Copied(c) == \E k \in Known : base[k] = c

Edit(c) ==
  /\ Quiet /\ status[c] = "Draft" /\ edits < MaxEdit
  /\ \E b \in Bases(c), m \in Currency, l \in BOOLEAN, u \in today..MaxDay :
       /\ Fill(c, b, m, l, u)
       /\ m # money[c] /\ Copied(c) => "base changes currency" \in Lapse
  /\ UNCHANGED <<status, amends>>
  /\ Saves(c)
  /\ edits' = edits + 1
  /\ UNCHANGED <<today, expired, checked>>

Delete(c) ==
  /\ Quiet /\ status[c] = "Draft" /\ ~Copied(c) /\ c \notin {amends[k] : k \in Known}
  /\ status' = [status EXCEPT ![c] = "none"]
  /\ amends' = [amends EXCEPT ![c] = None] /\ base' = [base EXCEPT ![c] = None]
  /\ lines' = [lines EXCEPT ![c] = FALSE] /\ until' = [until EXCEPT ![c] = 0]
  /\ money' = [money EXCEPT ![c] = CHOOSE m \in Currency : TRUE]
  /\ UNCHANGED <<today, expired, checked, edits>>

(* _validate_single_active leaves out only the contract being replaced.    *)
NoOther(c) == Active \ {c, amends[c]} = {}

ActivateChecks(c) ==
  /\ Quiet \/ "presses overlap" \in Lapse
  /\ status[c] # "none" /\ "Active" \in Buttons(c) \cap ALLOWED_TRANSITIONS[status[c]] /\ c \notin checked
  /\ lines[c] /\ MatchesBase(c) /\ NoOther(c)
  /\ checked' = checked \cup {c}
  /\ UNCHANGED <<contracts, today, expired, edits>>

(* on_update: a contract past its last day is Expired at once and          *)
(* supersedes nothing; else the one it replaces is saved as Amended, which *)
(* may refuse and take the activation with it.                             *)
SupersededBy(c) ==
  IF amends[c] \in Active
  THEN [status EXCEPT ![c] = "Active", ![amends[c]] = "Amended"]
  ELSE [status EXCEPT ![c] = "Active"]

ActivateCommits(c) ==
  /\ c \in checked
  /\ checked' = checked \ {c}
  /\ status' =
       IF until[c] < today THEN [status EXCEPT ![c] = "Expired"]
       ELSE IF amends[c] \in Active /\ ~MatchesBase(amends[c]) THEN status
       ELSE SupersededBy(c)
  /\ UNCHANGED <<amends, base, money, lines, until, today, expired, edits>>

(* set_status: Invalid on an Active contract, Cancel on a draft.           *)
set_status(c) ==
  /\ Quiet /\ "Void" \in Buttons(c) \cap ALLOWED_TRANSITIONS[status[c]] /\ MatchesBase(c)
  /\ status' = [status EXCEPT ![c] = "Void"]
  /\ UNCHANGED <<amends, base, money, lines, until, today, expired, checked, edits>>

(* The nightly job: each lapsed contract in turn, committed once at the    *)
(* end, so one that cannot be saved keeps every one of them.               *)
Lapsed == {c \in Active : until[c] < today}

expire_lapsed_contracts ==
  /\ Quiet /\ ~expired
  /\ expired' = TRUE
  /\ status' = IF \A c \in Lapsed : MatchesBase(c)
               THEN [c \in Contract |-> IF c \in Lapsed THEN "Expired" ELSE status[c]]
               ELSE status
  /\ UNCHANGED <<amends, base, money, lines, until, today, checked, edits>>

Midnight ==
  /\ Quiet /\ today < MaxDay
  /\ today' = today + 1 /\ expired' = FALSE
  /\ UNCHANGED <<contracts, checked, edits>>

Next ==
  \/ expire_lapsed_contracts \/ Midnight
  \/ \E c \in Contract :
       \/ Create(c) \/ Edit(c) \/ Delete(c) \/ set_status(c)
       \/ ActivateChecks(c) \/ ActivateCommits(c)

Spec == Init /\ [][Next]_vars
-----------------------------------------------------------------------------
(* Whoever asks for the customer's tariff finds one contract, and it has   *)
(* lines (active_contract, _validate_single_active, _validate_payment_type)*)
OneRateCard == Cardinality(Active) <= 1 /\ \A c \in Active : lines[c]

(* A contract reads Amended exactly while the contract that replaced it    *)
(* has been activated: an amendment that was only drafted, refused or      *)
(* thrown away leaves the one it copies in force                           *)
(* (_supersede_amended_contract, on_trash).                                *)
AmendedByHeir ==
  \A c \in Contract :
    status[c] = "Amended" =>
      \E h \in Contract : amends[h] = c /\ status[h] \in {"Active", "Expired", "Void", "Amended"}

(* After the night's job no contract prices anything past its last day     *)
(* (expire_lapsed_contracts).                                              *)
NoneOutlivesItsDay == expired => Lapsed = {}

(* A contract in force can always be ended: what any save of it asks still *)
(* holds (_validate_currency_vs_base_contract).                            *)
CanBeEnded == \A c \in Active : MatchesBase(c)

(* A customer with a contract in force is left without one only by the     *)
(* office declaring it invalid or by its last day, never by an amendment   *)
(* (_supersede_amended_contract).                                          *)
CutsNobodyOff ==
  Active # {} /\ Active' = {} =>
    \/ \E c \in Active : status'[c] = "Void"
    \/ \A c \in Active : until[c] < today
NeverCutOff == [][CutsNobodyOff]_vars
=============================================================================
