----------------------------- MODULE ChargeForm -----------------------------
(***************************************************************************)
(* The charge lines of one draft booking: the Desk form prices a line as   *)
(* its service is picked (container_booking.js, charge_pricing) and keeps  *)
(* its quantity at the number of tanks, and every save prices what is      *)
(* still blank and settles the booking on one currency (_price_charges,    *)
(* _sync_currency_from_charges).  Meanwhile the customer's contract is     *)
(* replaced by one that may be in another currency.                        *)
(*                                                                         *)
(* A price is the contract and the service it was read for.                *)
(***************************************************************************)
EXTENDS Naturals, FiniteSets

CONSTANTS
  Row,      \* the lines of the charges table
  Item,     \* services
  Money,    \* Money[k]: the currency of contract k, Money[0] the customer's own
  None,
  MaxTank,  \* bound: tanks on the booking
  Lapse     \* what the operator or the office does that the form does not expect

Contracts == DOMAIN Money
ChargeAssumption ==
  /\ IsFiniteSet(Row) /\ None \notin Item /\ 0 \in Contracts /\ Contracts \subseteq Nat
  /\ MaxTank \in Nat \ {0}
  /\ Lapse \subseteq {"picks again", "saves early", "amended meanwhile", "adds tanks to unsaved lines"}

VARIABLES
  card,    \* the Active contract, 0: none
  tanks,   \* tanks on the form
  row,     \* row[r]: the line on the form, Blank: no such line
  asked,   \* charge_pricing requests under way
  saved,   \* the booking as last saved, NotSaved before
  dirty    \* the form differs from it

vars == <<card, tanks, row, asked, saved, dirty>>

(* The contract's currency, without a contract the customer's own.         *)
Currencies == {Money[k] : k \in Contracts}
Price == Contracts \X Item
Blank == [item |-> None, price |-> None, cur |-> None, qty |-> 0, touched |-> FALSE, typed |-> {}]
Line == [item : Item \cup {None}, price : Price \cup {None}, cur : Currencies \cup {None},
         qty : 0..(MaxTank + 1), touched : BOOLEAN, typed : SUBSET {"cur", "qty"}]
NotSaved == [tanks |-> 0, row |-> [r \in Row |-> Blank]]

Init ==
  /\ card \in Contracts
  /\ tanks = 1 /\ row = [r \in Row |-> Blank] /\ asked = {}
  /\ saved = NotSaved /\ dirty = TRUE

TypeOK ==
  /\ card \in Contracts /\ tanks \in 1..MaxTank
  /\ row \in [Row -> Line] /\ asked \subseteq Row \X Item
  /\ saved \in [tanks : 0..MaxTank, row : [Row -> Line]] /\ dirty \in BOOLEAN

-----------------------------------------------------------------------------
Lines == {r \in Row : row[r].item # None}
SavedLines == {r \in Row : saved.row[r].item # None}
New == saved.tanks = 0

(* The rate read for a service: the contract's in force.                   *)
Rate(i) == <<card, i>>

(* charge_currency: the contract's currency where it prices the item, the   *)
(* customer's otherwise, which is the contract's too when there is one.    *)
Resolved(k) == Money[k]

(* A service is picked on a line; a new line starts at the tanks there     *)
(* are.  Writing the quantity runs its handler, which takes it for typed.  *)
Pick(r, i) ==
  /\ row[r].item # i
  /\ row[r].item # None => asked = {} \/ "picks again" \in Lapse
  /\ row' = [row EXCEPT ![r].item = i,
                        ![r].qty = IF @ = 0 THEN tanks ELSE @,
                        ![r].touched = TRUE]
  /\ asked' = asked \cup {<<r, i>>} /\ dirty' = TRUE
  /\ UNCHANGED <<card, tanks, saved>>

(* Ambil Charges: the lines of a template or another booking come priced   *)
(* from this customer's contract, at the tanks there are.                  *)
Copy(r, i) ==
  /\ row[r].item = None
  /\ row' = [row EXCEPT ![r] = [Blank EXCEPT !.item = i, !.qty = tanks,
                                            !.price = Rate(i), !.cur = Resolved(card)]]
  /\ dirty' = TRUE
  /\ UNCHANGED <<card, tanks, asked, saved>>

(* The answer: the rate as it comes, the currency only where none is.      *)
Fetched(r, i) ==
  /\ <<r, i>> \in asked
  /\ asked' = asked \ {<<r, i>>}
  /\ row' = IF row[r].item = None THEN row ELSE
              [row EXCEPT ![r].price = Rate(i),
                          ![r].cur = IF @ = None THEN Resolved(card) ELSE @]
  /\ dirty' = TRUE
  /\ UNCHANGED <<card, tanks, saved>>

TypeQty(r) ==
  /\ r \in Lines /\ row[r].qty # MaxTank + 1
  /\ row' = [row EXCEPT ![r].qty = MaxTank + 1, ![r].touched = TRUE, ![r].typed = @ \cup {"qty"}]
  /\ dirty' = TRUE
  /\ UNCHANGED <<card, tanks, asked, saved>>

TypeCurrency(r, m) ==
  /\ r \in Lines /\ row[r].cur \notin {m, None}
  /\ row' = [row EXCEPT ![r].cur = m, ![r].typed = @ \cup {"cur"}]
  /\ dirty' = TRUE
  /\ UNCHANGED <<card, tanks, asked, saved>>

RemoveLine(r) ==
  /\ r \in Lines
  /\ row' = [row EXCEPT ![r] = Blank]
  /\ asked' = {a \in asked : a[1] # r} /\ dirty' = TRUE
  /\ UNCHANGED <<card, tanks, saved>>

(* _sync_charge_qty: the lines nobody touched follow the tanks.            *)
SetTanks(n) ==
  /\ n # tanks
  /\ \A r \in Lines : ~row[r].touched \/ "qty" \in row[r].typed \/ "adds tanks to unsaved lines" \in Lapse
  /\ tanks' = n
  /\ row' = [r \in Row |-> IF r \in Lines /\ ~row[r].touched
                           THEN [row[r] EXCEPT !.qty = n, !.touched = TRUE] ELSE row[r]]
  /\ dirty' = TRUE
  /\ UNCHANGED <<card, asked, saved>>

(* _price_charges on one line: a quantity that was the number of tanks at  *)
(* the last save still is it; a blank rate is priced; a currency stands.   *)
Counted(l) ==
  IF l.qty = 0 \/ (~New /\ tanks # saved.tanks /\ l.qty = saved.tanks) THEN tanks ELSE l.qty

PricedLine(l) ==
  IF l.item = None THEN Blank ELSE
    [l EXCEPT !.qty = Counted(l), !.touched = FALSE,
              !.cur = IF @ = None THEN Resolved(card) ELSE @,
              !.price = IF @ = None THEN Rate(l.item) ELSE @]

(* Refused when the lines disagree on the currency.                        *)
Save ==
  LET lines == [r \in Row |-> PricedLine(row[r])] IN
  /\ dirty
  /\ asked = {} \/ "saves early" \in Lapse
  /\ Cardinality({lines[r].cur : r \in Lines}) <= 1
  /\ row' = lines
  /\ saved' = [tanks |-> tanks, row |-> lines]
  /\ asked' = {} /\ dirty' = FALSE
  /\ UNCHANGED <<card, tanks>>

(* The customer's contract is amended, ends, or a first one comes.         *)
Amend(k) ==
  /\ k # card
  /\ Lines = {} \/ "amended meanwhile" \in Lapse \/ Money[k] = Money[card]
  /\ card' = k
  /\ UNCHANGED <<tanks, row, asked, saved, dirty>>

(* Another customer: the lines go, and the form's currency with them.      *)
SwitchCustomer ==
  /\ Lines # {}
  /\ row' = [r \in Row |-> Blank] /\ asked' = {} /\ dirty' = TRUE
  /\ card' \in Contracts
  /\ UNCHANGED <<tanks, saved>>

Next ==
  \/ Save \/ SwitchCustomer
  \/ \E r \in Row :
       \/ TypeQty(r) \/ RemoveLine(r)
       \/ \E i \in Item : Pick(r, i) \/ Copy(r, i) \/ Fetched(r, i)
       \/ \E m \in Currencies : TypeCurrency(r, m)
  \/ \E n \in 1..MaxTank : SetTanks(n)
  \/ \E k \in Contracts : Amend(k)

Spec == Init /\ [][Next]_vars
-----------------------------------------------------------------------------
(* A saved booking bills each line at a price read for that line's service *)
(* (_fetch_charge_rate, _price_charges).                                   *)
PriceIsItems == \A r \in SavedLines : saved.row[r].price[2] = saved.row[r].item

(* ... in the currency of the contract the price was read from, unless     *)
(* somebody chose another (charge_currency).                               *)
RateInItsCurrency ==
  \A r \in SavedLines :
    LET l == saved.row[r] IN "cur" \in l.typed \/ l.cur = Money[l.price[1]]

(* ... and once per tank of the booking, unless somebody typed a quantity, *)
(* however tanks come and go between the saves (_price_charges).           *)
BilledPerTank ==
  \A r \in SavedLines :
    LET l == saved.row[r] IN "qty" \in l.typed \/ l.qty = saved.tanks

(* A booking is billed in one currency (_sync_currency_from_charges).      *)
OneCurrency == Cardinality({saved.row[r].cur : r \in SavedLines}) <= 1
=============================================================================
