--------------------------------- MODULE Kit ---------------------------------
(***************************************************************************)
(* What one player owns: the inventory, what of it is worn, the bank, and  *)
(* the items of one tile of ground.  From pkg/game/world/inventory.go,     *)
(* player.go (EquipItem, DequipItem, Killed, AddItem), the handlers        *)
(* scripts/packets/item_actions.ank and bank.ank, and the item actions     *)
(* (scripts/general/edible.ank, scripts/skills/prayer.ank) with the spell  *)
(* "Bones to bananas" (scripts/def/magic.ank).                             *)
(*                                                                         *)
(* Handlers, tick actions and deaths run on the engine, one at a time.  An *)
(* item action runs on a goroutine of its own: between finding the index   *)
(* of its item and deleting the entry at that index, the engine may act.   *)
(***************************************************************************)
EXTENDS Inventory, Bags

CONSTANTS Capacity, BankCapacity,   \* 30 and 192
          WieldType,                \* id -> the body parts an item covers, {} if not worn
          WieldPos,                 \* id -> the place of its sprite
          Bonus,                    \* id -> what it adds to the equipment points
          Price,                    \* id -> its base price
          KeptOnDeath,              \* 3
          DefaultDrop,              \* the bones a death leaves
          Consumable,               \* ids that have an item action
          Converted, Conversion,    \* "Bones to bananas": from and to
          Skin,                     \* the sprite of a place nothing is worn at
          FirstItems,               \* the inventory at first
          NewItems,                 \* what AddItem is asked for: pairs of an id and an amount
          MaxPoints, MaxNew         \* bounds: of the points, and of new items

ASSUME KitAssumption ==
  /\ {Capacity, BankCapacity} \subseteq Nat \ {0} /\ Capacity <= MaxAmount /\ KeptOnDeath \in Nat
  /\ DefaultDrop \in Id /\ Consumable \subseteq Id \ StackableId
  /\ {Converted, Conversion} \subseteq Id \ StackableId /\ WieldType[Converted] = {}
  /\ Bonus \in [Id -> Int] /\ Price \in [Id -> Int]
  /\ FirstItems \in Seq([id : Id, amount : Nat, worn : {FALSE}])
  /\ Packed(FirstItems, Capacity, FALSE)
  /\ NewItems \subseteq Id \X (1..MaxAmount) /\ MaxNew \in Nat

VARIABLES
  inv, bank,
  shown,      \* Equips(): the sprite at each place
  points,     \* AimPoints and its like, as one number
  ground,     \* a bag of items without owners
  banking,    \* StateBanking
  tickAction, \* 0, or the index a dropItem packet asked for
  action,     \* the item action's goroutine: NoAction, or its item and the index it found
  broken,     \* a handler has dereferenced the bank's Owner, which is nil: the process ends
  made,       \* history: new items since the start
  minted,     \* history: how many of an id have been put into the world
  used,       \* history: ... and taken out of it
  limits,     \* history: ids whose stack has been at MaxAmount
  overtaken       \* history: the engine deleted entries between the goroutine's two steps

kitVars == <<inv, bank, shown, points, ground, banking, tickAction, action, broken,
          made, minted, used, limits, overtaken>>
wear == <<shown, points>>
ledger == <<made, minted, used>>

Places == {WieldPos[id] : id \in {i \in Id : WieldType[i] # {}}}
NoAction == [id |-> Skin, index |-> 0]
Wieldable(id) == WieldType[id] # {}
Loose(id, n) == SetToBag({[id |-> id, amount |-> n]})

-----------------------------------------------------------------------------
(* What is worn. *)

(* DequipItem, for the entries at indices S, each at a place of its own. *)
Bared(S) == {i \in S : inv[i].worn /\ Wieldable(inv[i].id)}
Dequipped(S) ==
  /\ points' = points - SumFunction([i \in Bared(S) |-> Bonus[inv[i].id]])
  /\ shown' = [p \in Places |-> IF \E i \in Bared(S) : WieldPos[inv[i].id] = p THEN Skin ELSE shown[p]]

ReplacedNone(i) == {}                                                \* mutant

(* The entries EquipItem takes off to make room for the one at index i. *)
Replaced(i) ==
  {j \in DOMAIN inv \ {i} : inv[j].worn /\ WieldType[inv[j].id] \cap WieldType[inv[i].id] # {}}

(* EquipItem, when the player's skills and sex allow it.  What it takes off is
   accounted for with the bonus of the item put on. *)
EquipItem(i) ==
  /\ inv' = [j \in DOMAIN inv |-> [inv[j] EXCEPT !.worn = (j = i) \/ (@ /\ j \notin Replaced(i))]]
  /\ points' = points + Bonus[inv[i].id] * (1 - Cardinality(Replaced(i)))
  /\ shown' = [p \in Places |->
       IF p = WieldPos[inv[i].id] THEN inv[i].id
       ELSE IF \E j \in Replaced(i) : WieldPos[inv[j].id] = p THEN Skin ELSE shown[p]]
  /\ points' \in -MaxPoints..MaxPoints     \* the bound

Engine == ~broken /\ UNCHANGED broken
Racing(deleted) == overtaken' = (overtaken \/ (deleted /\ action.index # 0))

Equip ==
  /\ Engine
  /\ \E i \in DOMAIN inv : ~inv[i].worn /\ Wieldable(inv[i].id) /\ EquipItem(i)
  /\ UNCHANGED <<bank, ground, banking, tickAction, action, overtaken, ledger>>

Unequip ==
  /\ Engine
  /\ \E i \in DOMAIN inv :
       /\ inv[i].worn /\ Dequipped({i})
       /\ inv' = [inv EXCEPT ![i].worn = FALSE]
  /\ UNCHANGED <<bank, ground, banking, tickAction, action, overtaken, ledger>>

-----------------------------------------------------------------------------
(* Dropping, picking up, finding. *)

Busy == banking \/ action # NoAction

(* The handler only sets the tick action; the index is used when the player
   stands still, whatever is there by then. *)
DropPacket ==
  /\ Engine /\ ~Busy
  /\ \E i \in DOMAIN inv : tickAction' = i
  /\ UNCHANGED <<inv, bank, wear, ground, banking, action, overtaken, ledger>>

DropAction ==
  /\ Engine /\ tickAction # 0 /\ tickAction' = 0
  /\ IF Busy \/ tickAction \notin DOMAIN inv
     THEN UNCHANGED <<inv, wear, ground, overtaken>>
     ELSE /\ Dequipped({tickAction})
          /\ inv' = Without(inv, {tickAction})
          /\ ground' = ground (+) Loose(inv[tickAction].id, inv[tickAction].amount)
          /\ Racing(TRUE)
  /\ UNCHANGED <<bank, banking, action, ledger>>

PickupAction ==
  /\ Engine /\ ~Busy
  /\ \E g \in BagToSet(ground) :
       /\ CanHold(inv, Capacity, g.id, g.amount, FALSE)
       /\ ground' = ground (-) Loose(g.id, g.amount)
       /\ inv' = Added(inv, g.id, g.amount, FALSE)
  /\ UNCHANGED <<bank, wear, banking, tickAction, action, overtaken, ledger>>

(* Player.AddItem: an item mined, fished or won, or a command's.  Unstackable
   items are added one after the other, each with the whole amount, until one
   does not fit and drops to the ground. *)
Supplied(id, n) == minted' = [minted EXCEPT ![id] = @ + n] /\ made' = made + 1 /\ made < MaxNew
Fitting(id, n) ==
  IF id \notin StackableId THEN Least(n, Capacity - Len(inv))
  ELSE IF CanHold(inv, Capacity, id, n, FALSE) THEN 1 ELSE 0
Copies(id, n) == IF id \in StackableId THEN 1 ELSE n
AddItem ==
  /\ Engine
  /\ \E g \in NewItems :
       LET id == g[1]  n == g[2]
       IN /\ Supplied(id, n)
          /\ inv' = IF id \notin StackableId THEN inv \o [k \in 1..Fitting(id, n) |-> NewItem(id, n)]
                    ELSE IF Fitting(id, n) = 1 THEN Added(inv, id, n, FALSE)
                    ELSE inv
          /\ ground' = IF Fitting(id, n) < Copies(id, n) THEN ground (+) Loose(id, n) ELSE ground
  /\ UNCHANGED <<bank, wear, banking, tickAction, action, overtaken, used>>

-----------------------------------------------------------------------------
(* The bank. *)

OpenBank ==
  /\ Engine /\ ~Busy /\ banking' = TRUE
  /\ UNCHANGED <<inv, bank, wear, ground, tickAction, action, overtaken, ledger>>

CloseBank ==
  /\ Engine /\ banking /\ banking' = FALSE
  /\ UNCHANGED <<inv, bank, wear, ground, tickAction, action, overtaken, ledger>>

(* The items are out of the inventory before the bank is asked: a full bank
   would drop them where its Owner stands, and it has none. *)
Deposit ==
  /\ ~broken /\ banking
  /\ \E id \in Id : \E n \in 1..CountID(inv, id) :
       /\ Dequipped(Cut(inv, id, n, FALSE))
       /\ inv' = Taken(inv, id, n, FALSE)
       /\ IF CanHold(bank, BankCapacity, id, n, TRUE)
          THEN bank' = Added(bank, id, n, TRUE) /\ UNCHANGED broken
          ELSE broken' = TRUE /\ UNCHANGED bank
       /\ Racing(Cut(inv, id, n, FALSE) # {})
  /\ UNCHANGED <<ground, banking, tickAction, action, ledger>>

(* Unstackable items are moved one by one while both sides agree. *)
Room(id, n) == Least(n, Capacity - Len(inv))
Withdraw ==
  /\ Engine /\ banking
  /\ \E id \in Id : \E n \in 1..CountID(bank, id) :
       /\ CanHold(inv, Capacity, id, n, FALSE)
       /\ IF id \in StackableId
          THEN bank' = Taken(bank, id, n, TRUE) /\ inv' = Added(inv, id, n, FALSE)
          ELSE /\ bank' = Taken(bank, id, Room(id, n), TRUE)
               /\ inv' = inv \o [k \in 1..Room(id, n) |-> NewItem(id, 1)]
  /\ UNCHANGED <<wear, ground, banking, tickAction, action, overtaken, ledger>>

-----------------------------------------------------------------------------
(* Item actions and a spell. *)

UseItem ==
  /\ Engine /\ ~Busy
  /\ \E i \in DOMAIN inv : inv[i].id \in Consumable /\ action' = [id |-> inv[i].id, index |-> 0]
  /\ UNCHANGED <<inv, bank, wear, ground, banking, tickAction, overtaken, ledger>>

(* RemoveByID on the goroutine: CountID and GetIndex, ... *)
FindUsed ==
  /\ Engine /\ action # NoAction /\ action.index = 0
  /\ action' = IF GetIndex(inv, action.id) = 0 THEN NoAction
               ELSE [action EXCEPT !.index = GetIndex(inv, action.id)]
  /\ UNCHANGED <<inv, bank, wear, ground, banking, tickAction, overtaken, ledger>>

(* ... then Remove of that index, whatever is there by now. *)
DeleteUsed ==
  /\ Engine /\ action.index # 0 /\ action' = NoAction
  /\ IF action.index \in DOMAIN inv
     THEN /\ Dequipped({action.index})
          /\ inv' = Without(inv, {action.index})
          /\ used' = [used EXCEPT ![action.id] = @ + 1]
     ELSE UNCHANGED <<inv, wear, used>>
  /\ UNCHANGED <<bank, ground, banking, tickAction, overtaken, made, minted>>

(* The spell has no guard on what else the player is doing.  Each of the first
   items is deleted before one of the second is appended. *)
CastBonesToBananas ==
  /\ Engine
  /\ LET n == CountID(inv, Converted)
     IN /\ n > 0 /\ made + n <= MaxNew
        /\ inv' = Taken(inv, Converted, n, FALSE) \o [k \in 1..n |-> NewItem(Conversion, 1)]
        /\ minted' = [minted EXCEPT ![Conversion] = @ + n]
        /\ used' = [used EXCEPT ![Converted] = @ + n]
        /\ made' = made + n
  /\ Racing(TRUE)
  /\ UNCHANGED <<bank, wear, ground, banking, tickAction, action>>

-----------------------------------------------------------------------------
(* Death. *)

LessByPrice(a, b) ==                                                 \* mutant
  IF a.id \notin StackableId /\ b.id \notin StackableId THEN Price[a.id] < Price[b.id]
  ELSE a.id \notin StackableId /\ b.id \in StackableId

(* itemSorter.Less: unstackable items by falling price, then the others. *)
Less(a, b) ==
  IF a.id \notin StackableId /\ b.id \notin StackableId THEN Price[a.id] > Price[b.id]
  ELSE a.id \notin StackableId /\ b.id \in StackableId

(* The orders sort.Sort may leave the items in. *)
Orders(list) == Bijection(DOMAIN list, DOMAIN list)
Sorted(list) ==
  {p \in Orders(list) : \A a, b \in DOMAIN list : a < b => ~Less(list[p[b]], list[p[a]])}

(* DeathDrops: of the first keep, the unstackable ones stay. *)
Spared(p, keep) == {p[k] : k \in {j \in DOMAIN p : j <= keep /\ inv[p[j]].id \notin StackableId}}

(* Killed removes what is dropped by id and amount, so of equal items the last
   entries go, worn or not. *)
LostOf(id, dropped) == Cardinality({i \in dropped : inv[i].id = id})
Gone(dropped) ==
  UNION {LastOf({i \in DOMAIN inv : inv[i].id = id}, LostOf(id, dropped)) : id \in Id}

(* The entries at indices S, as they lie on the ground. *)
Entry(i) == [id |-> inv[i].id, amount |-> inv[i].amount]
Pile(S) == [g \in {Entry(i) : i \in S} |-> Cardinality({i \in S : Entry(i) = g})]

(* All prayers are switched off before the protecting one is asked for. *)
Killed ==
  /\ Engine /\ Supplied(DefaultDrop, 1)
  /\ \E skulled \in BOOLEAN : \E p \in Sorted(inv) :
       LET dropped == DOMAIN inv \ Spared(p, IF skulled THEN 0 ELSE KeptOnDeath)
       IN /\ Dequipped(Gone(dropped))
          /\ inv' = Without(inv, Gone(dropped))
          /\ ground' = (ground (+) Loose(DefaultDrop, 1)) (+) Pile(dropped)
          /\ Racing(Gone(dropped) # {})
  /\ UNCHANGED <<bank, banking, tickAction, action, used>>

-----------------------------------------------------------------------------
KitInit ==
  /\ inv = FirstItems /\ bank = <<>>
  /\ shown = [p \in Places |-> Skin] /\ points = 0
  /\ ground = EmptyBag
  /\ banking = FALSE /\ tickAction = 0 /\ action = NoAction /\ broken = FALSE /\ overtaken = FALSE
  /\ made = 0 /\ limits = {}
  /\ minted = [id \in Id |-> AmountOf(FirstItems, id)] /\ used = [id \in Id |-> 0]

Full(list) == {list[i].id : i \in {j \in DOMAIN list : list[j].amount = MaxAmount}}

KitNext ==
  /\ \/ Equip \/ Unequip
     \/ DropPacket \/ DropAction \/ PickupAction \/ AddItem
     \/ OpenBank \/ CloseBank \/ Deposit \/ Withdraw
     \/ UseItem \/ FindUsed \/ DeleteUsed \/ CastBonesToBananas
     \/ Killed
  /\ limits' = limits \cup Full(inv') \cup Full(bank')

KitSpec == KitInit /\ [][KitNext]_kitVars

-----------------------------------------------------------------------------
KitTypeOK ==
  /\ inv \in Seq(Item) /\ bank \in Seq(Item)
  /\ shown \in [Places -> Id \cup {Skin}] /\ points \in Int
  /\ {banking, broken, overtaken} \subseteq BOOLEAN /\ tickAction \in 0..Capacity
  /\ limits \subseteq Id /\ made \in 0..MaxNew
  /\ minted \in [Id -> Nat] /\ used \in [Id -> Nat]

Strewn(id) == SumFunction([g \in BagToSet(ground) |-> IF g.id = id THEN g.amount * ground[g] ELSE 0])
Total(id) == AmountOf(inv, id) + AmountOf(bank, id) + Strewn(id)

(* What Conserved takes for granted of AddItem's callers: unstackable items are
   asked for one at a time, for each is added with the whole amount. *)
OneByOne == \A g \in NewItems : g[1] \notin StackableId => g[2] = 1

(* No item is ever doubled: inventory, bank and ground together never hold
   more of an id than was put into the world, however item actions, deaths,
   spells and the bank's handlers interleave. *)
NoDuplication == \A id \in Id : Total(id) <= minted[id]

(* ... and none is lost, except from a stack that was full, from a bank that
   was, and when a deletion hit the entry of another item. *)
OnlyLimitsLose ==
  \A id \in Id : Total(id) + used[id] # minted[id] => id \in limits \/ broken \/ overtaken

(* So no id is ever in more or fewer places than it was put into the world, but
   for the limits the code has (AddItem, RemoveByID, deposit, withdraw, Killed). *)
Conserved == NoDuplication /\ OnlyLimitsLose

(* Both lists stay packed, whatever is moved between them. *)
WellPacked ==
  /\ Packed(inv, Capacity, FALSE)
  /\ Packed(bank, BankCapacity, TRUE) /\ \A i \in DOMAIN bank : ~bank[i].worn

(* What WornIsShown takes for granted of the definitions: items shown at the same
   place cover a common part, and those that do have the same bonus. *)
Alike ==
  \A a, b \in {id \in Id : Wieldable(id)} :
    /\ WieldPos[a] = WieldPos[b] => WieldType[a] \cap WieldType[b] # {}
    /\ WieldType[a] \cap WieldType[b] # {} => Bonus[a] = Bonus[b]

(* What others see of the player is what it wears, and so are its points: no
   two worn items cover the same part of the body, each place shows the item
   worn there, and the points are theirs.  The points go wrong when an item
   replaces one of another bonus. *)
Worn == {i \in DOMAIN inv : inv[i].worn}
WornIsShown ==
  /\ \A i, j \in Worn : i # j => WieldType[inv[i].id] \cap WieldType[inv[j].id] = {}
  /\ \A p \in Places :
       LET on == {inv[i].id : i \in {j \in Worn : WieldPos[inv[j].id] = p}}
       IN IF on = {} THEN shown[p] = Skin ELSE shown[p] \in on
  /\ points = SumFunction([i \in Worn |-> Bonus[inv[i].id]])

LoadBareRow(list, capacity, row, all) ==                             \* mutant
  IF CanHold(list, capacity, row.id, row.amount, all) THEN Added(list, row.id, row.amount, all) ELSE list

(* PlayerSave inserts a row per entry; loadInventory and loadBank read the
   rows in whatever order the database has them and Add each. *)
LoadRow(list, capacity, row, all) ==
  IF CanHold(list, capacity, row.id, row.amount, all)
  THEN LET l == Added(list, row.id, row.amount, all)
       IN [l EXCEPT ![GetIndex(l, row.id)].worn = @ \/ (row.worn /\ Wieldable(row.id))]
  ELSE list
Loaded(list, capacity, all, p) ==
  FoldLeft(LAMBDA l, i : LoadRow(l, capacity, list[i], all), <<>>, [k \in DOMAIN list |-> p[k]])

Outfit(list) == {list[i].id : i \in {j \in DOMAIN list : list[j].worn}}

(* Whatever a player may own comes back from the database as it was, with the
   same items worn, for every order of the rows.  The exception is a full list
   with a stack at MaxInt32: CanHold asks for two slots for such a row. *)
Crammed(list, capacity) == Len(list) = capacity /\ Full(list) # {}
ReloadsSame ==
  /\ ~Crammed(inv, Capacity) => \A p \in Orders(inv) :
       LET l == Loaded(inv, Capacity, FALSE, p)
       IN Outfit(l) = Outfit(inv) /\ \A id \in Id : AmountOf(l, id) = AmountOf(inv, id)
  /\ ~Crammed(bank, BankCapacity) => \A p \in Orders(bank) :
       LET l == Loaded(bank, BankCapacity, TRUE, p)
       IN \A id \in Id : AmountOf(l, id) = AmountOf(bank, id)

(* Whoever is not skulled keeps the dearest unstackable items, up to three: a
   death never takes one and leaves a cheaper one. *)
DearestStay ==
  [][made' = made + 1 /\ Len(inv') < Len(inv) /\ minted'[DefaultDrop] = minted[DefaultDrop] + 1 =>
      \A i \in DOMAIN inv : inv[i].id \notin StackableId =>
        \/ \E k \in DOMAIN inv' : inv'[k].id = inv[i].id
        \/ \A k \in DOMAIN inv' : inv'[k].id \notin StackableId /\ Price[inv'[k].id] >= Price[inv[i].id]]_kitVars
=============================================================================
