------------------------------ MODULE Inventory ------------------------------
(***************************************************************************)
(* Lists of items and what pkg/game/world/inventory.go does to them.  The  *)
(* same type serves a player's inventory, whose unstackable items take one *)
(* slot each, and the bank, which stacks everything (all = TRUE).          *)
(* An index is 1-based here; where the code returns -1, 0 is returned.     *)
(***************************************************************************)
EXTENDS Integers, Sequences, SequencesExt

CONSTANTS Id,            \* ids of items
          StackableId,   \* those whose definition says Stackable
          MaxAmount      \* math.MaxInt32

ASSUME InventoryAssumption == StackableId \subseteq Id /\ MaxAmount \in Nat \ {0}

Item == [id : Id, amount : Nat, worn : BOOLEAN]
NewItem(id, n) == [id |-> id, amount |-> n, worn |-> FALSE]

Stacks(id, all) == all \/ id \in StackableId

(* GetIndex ranges from the end: the last entry with the id. *)
GetIndex(list, id) == SelectLastInSeq(list, LAMBDA item : item.id = id)

AmountOf(list, id) == SumFunction([i \in DOMAIN list |-> IF list[i].id = id THEN list[i].amount ELSE 0])

(* CountID says -1 for none, so that asking for 0 of what is not there fails. *)
CountID(list, id) == IF AmountOf(list, id) = 0 THEN -1 ELSE AmountOf(list, id)

(* The loop of CanHold takes a slot for each MaxInt32 the stack overflows by. *)
SlotsNeeded(list, id, n, all) ==
  LET at == GetIndex(list, id)
  IN IF ~Stacks(id, all) THEN 1
     ELSE IF at = 0 THEN 1 + n \div MaxAmount
     ELSE (list[at].amount + n - 1) \div MaxAmount

CanHold(list, capacity, id, n, all) == Len(list) + SlotsNeeded(list, id, n, all) - 1 < capacity

Least(a, b) == IF a < b THEN a ELSE b
Merged(a, b) == Least(MaxAmount, a + b)

(* Add once CanHold has said yes, for an amount above 0: what a stack cannot
   take is cut off. *)
Added(list, id, n, all) ==
  LET at == GetIndex(list, id)
  IN IF Stacks(id, all) /\ at # 0 THEN [list EXCEPT ![at].amount = Merged(@, n)]
     ELSE Append(list, NewItem(id, n))

(* One stack per item that stacks, one slot per item that does not, never an
   amount of 0 or past the maximum, never more entries than slots. *)
Packed(list, capacity, all) ==
  /\ Len(list) <= capacity
  /\ \A i \in DOMAIN list :
       /\ list[i].amount \in 1..MaxAmount
       /\ IF Stacks(list[i].id, all) THEN \A j \in DOMAIN list \ {i} : list[j].id # list[i].id
          ELSE list[i].amount = 1

LastOf(S, n) == {i \in S : Cardinality({j \in S : j > i}) < n}

CutOne(list, id, n, all) ==                                          \* mutant
  LET at == {i \in DOMAIN list : list[i].id = id}
  IN {i \in LastOf(at, 1) : Stacks(id, all) => list[i].amount = n}

(* The entries RemoveByID deletes once CountID has said yes: a stack that is
   used up, or as many entries of an unstackable item, the last first. *)
Cut(list, id, n, all) ==
  LET at == {i \in DOMAIN list : list[i].id = id}
  IN IF Stacks(id, all) THEN {i \in LastOf(at, 1) : list[i].amount = n} ELSE LastOf(at, n)

(* The numbers of S in increasing order. *)
Ascending(S) == CHOOSE f \in [1..Cardinality(S) -> S] : \A a, b \in DOMAIN f : a < b => f[a] < f[b]

Without(list, cut) ==
  LET kept == Ascending(DOMAIN list \ cut)
  IN [k \in DOMAIN kept |-> list[kept[k]]]

(* RemoveByID; a stack that is not used up loses the amount. *)
Taken(list, id, n, all) ==
  LET at == GetIndex(list, id)
  IN IF Cut(list, id, n, all) = {} /\ n > 0 THEN [list EXCEPT ![at].amount = @ - n]
     ELSE Without(list, Cut(list, id, n, all))
=============================================================================
