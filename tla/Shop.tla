-------------------------------- MODULE Shop --------------------------------
(***************************************************************************)
(* A general store: pkg/game/world/shops.go and the handlers that sell to  *)
(* it and buy from it, scripts/packets/shop.ank.                           *)
(*                                                                         *)
(* In the packets phase of a tick the players' handlers run concurrently.  *)
(* They read the shop's inventory under its lock, but nothing holds the    *)
(* lock from one read to the next, and AddItem increments an amount        *)
(* without it.  In the tasks phase the shop's ticker runs alone.           *)
(***************************************************************************)
EXTENDS Integers, FiniteSets, FiniteSetsExt, Functions

CONSTANTS Player,
          Good,                 \* the kinds of items traded
          Stock,                \* shop.Stock: the normal amount, 0 when unstocked
          BasePrice,            \* of every good here
          BasePurchasePercent, BaseSalePercent, ShopNormalDeltaRate,
          RestockTicks,         \* 20 in the code
          Coins, Owned,         \* what a player starts with
          Nothing,              \* no good
          MaxTrades             \* bound: trades begun

ASSUME ShopAssumption ==
  /\ IsFiniteSet(Player) /\ IsFiniteSet(Good) /\ Nothing \notin Good
  /\ Stock \in [Good -> Nat] /\ Owned \in [Good -> Nat]
  /\ {BasePrice, RestockTicks} \subseteq Nat \ {0}
  /\ {BasePurchasePercent, BaseSalePercent, ShopNormalDeltaRate, Coins, MaxTrades} \subseteq Nat

VARIABLES
  listed,     \* the goods shop.Inventory.set has an Item of
  amount,     \* ... and its Amount
  phase,
  shopTicker,
  pc,         \* where a player's handler is
  good,       \* the id in its packet
  read,       \* the Amount it has loaded and not yet stored
  coins, inventory,
  trades,     \* trades begun
  raced,      \* history: two trades have overlapped
  supply      \* history: how many of a good there should be, at the shop and the players

vars == <<listed, amount, phase, shopTicker, pc, good, read, coins, inventory, trades, raced, supply>>
purse == <<coins, inventory>>
clock == <<phase, shopTicker>>
history == <<trades, raced, supply>>

-----------------------------------------------------------------------------
(* ShopItems.Count and Get: an id without an Item gets a new one, of amount 0,
   that is in no list. *)
Count(g) == IF g \in listed THEN amount[g] ELSE 0

(* Price.Scale *)
Scale(percent) == (Max({10, percent}) * BasePrice) \div 100

(* DeltaPercentModID *)
DeltaPercentMod(g) == (Stock[g] - Count(g)) * ShopNormalDeltaRate

AppraiseAtSalePrice(g) == Scale(BaseSalePercent + DeltaPercentMod(g))   \* mutant
AppraiseItem(g) == Scale(BasePurchasePercent + DeltaPercentMod(g))
SalePrice(g) == Scale(BaseSalePercent + DeltaPercentMod(g))

(* The lock of shop.Inventory: Range holds it while it removes. *)
Unlocked == \A p \in Player : pc[p] # "removing"

AllIdle == \A p \in Player : pc[p] = "idle"
At(p, label) == phase = "packets" /\ pc[p] = label
Goto(p, label) == pc' = [pc EXCEPT ![p] = label]
Begin(p, g) ==
  /\ trades < MaxTrades
  /\ good' = [good EXCEPT ![p] = g]
  /\ trades' = trades + 1
  /\ raced' = (raced \/ ~AllIdle)
  /\ UNCHANGED supply
Done(p) == Goto(p, "idle") /\ good' = [good EXCEPT ![p] = Nothing] /\ read' = [read EXCEPT ![p] = 0]

-----------------------------------------------------------------------------
(* shopBuy: is there any?  A negative count will do. *)
Always(g) == TRUE                                  \* mutant
InStock(g) == Count(g) # 0

Buy(p, g) ==
  /\ At(p, "idle") /\ Unlocked
  /\ InStock(g)
  /\ Begin(p, g)
  /\ Goto(p, "buying")
  /\ UNCHANGED <<listed, amount, clock, read, purse>>

(* ... the price now, which must be the one the player saw, and the payment. *)
Refuse(p) ==
  /\ At(p, "buying") /\ Unlocked
  /\ Done(p)
  /\ UNCHANGED <<listed, amount, clock, purse, history>>

CanPay(p) == coins[p] >= SalePrice(good[p])

Pay(p) ==
  /\ At(p, "buying") /\ Unlocked
  /\ CanPay(p)
  /\ coins' = [coins EXCEPT ![p] = @ - SalePrice(good[p])]
  /\ inventory' = [inventory EXCEPT ![p][good[p]] = @ + 1]
  /\ Goto(p, "paid")
  /\ UNCHANGED <<listed, amount, clock, good, read, history>>

(* shop.Remove: the count again, *)
CheckCount(p) ==
  /\ At(p, "paid") /\ Unlocked
  /\ IF Count(good[p]) >= 1 THEN Goto(p, "counted") /\ UNCHANGED <<good, read>> ELSE Done(p)
  /\ UNCHANGED <<listed, amount, clock, purse, history>>

(* ... and RemoveID, under the lock.  Its argument remove is always false, for
   Contains is always true. *)
RemoveLoad(p) ==
  /\ At(p, "counted") /\ Unlocked
  /\ Goto(p, "removing")
  /\ read' = [read EXCEPT ![p] = amount[good[p]]]
  /\ UNCHANGED <<listed, amount, clock, good, purse, history>>

RemoveStore(p) ==
  /\ At(p, "removing")
  /\ Done(p)
  /\ amount' = [amount EXCEPT ![good[p]] = read[p] - 1]
  /\ UNCHANGED <<listed, clock, purse, history>>

-----------------------------------------------------------------------------
(* shopSell: the price, the item and the coins. *)
Sell(p, g) ==
  /\ At(p, "idle") /\ Unlocked
  /\ inventory[p][g] > 0
  /\ Begin(p, g)
  /\ inventory' = [inventory EXCEPT ![p][g] = @ - 1]
  /\ coins' = [coins EXCEPT ![p] = @ + AppraiseItem(g)]
  /\ Goto(p, "sold")
  /\ UNCHANGED <<listed, amount, clock, read>>

(* AddItem: Get(id).Amount += 1, after Get has released the lock.  An id without
   an Item in the list: the new Item is incremented, and forgotten. *)
Forget(p) ==
  /\ At(p, "sold")
  /\ good[p] \notin listed
  /\ Done(p)
  /\ UNCHANGED <<listed, amount, clock, purse, history>>

AddLoad(p) ==
  /\ At(p, "sold")
  /\ good[p] \in listed
  /\ Goto(p, "adding")
  /\ read' = [read EXCEPT ![p] = amount[good[p]]]
  /\ UNCHANGED <<listed, amount, clock, good, purse, history>>

AddStore(p) ==
  /\ At(p, "adding")
  /\ Done(p)
  /\ amount' = [amount EXCEPT ![good[p]] = read[p] + 1]
  /\ UNCHANGED <<listed, clock, purse, history>>

-----------------------------------------------------------------------------
(* AsyncRange waits for every handler; then the tasks run. *)
StartTasks ==
  /\ phase = "packets"
  /\ AllIdle
  /\ phase' = "tasks"
  /\ UNCHANGED <<listed, amount, shopTicker, pc, good, read, purse, history>>

(* The shop's ticker, every RestockTicks-th time: each Item one step toward its
   normal amount, and out of the list when the step ends at 0. *)
StepByTwo(g) == amount[g] + (IF Stock[g] > amount[g] THEN 2 ELSE -2)   \* mutant
StepToward(g) == amount[g] + (IF Stock[g] > amount[g] THEN 1 ELSE -1)

Restocked == [g \in Good |-> IF g \in listed /\ amount[g] # Stock[g] THEN StepToward(g) ELSE amount[g]]
Emptied == {g \in listed : amount[g] # Stock[g] /\ Restocked[g] = 0}

RunTicker ==
  /\ phase = "tasks"
  /\ phase' = "packets"
  /\ IF shopTicker + 1 = RestockTicks
     THEN /\ shopTicker' = 0
          /\ amount' = Restocked
          /\ listed' = listed \ Emptied
          /\ supply' = [g \in Good |-> supply[g] + Restocked[g] - amount[g]]
     ELSE shopTicker' = shopTicker + 1 /\ UNCHANGED <<listed, amount, supply>>
  /\ UNCHANGED <<pc, good, read, purse, trades, raced>>

-----------------------------------------------------------------------------
Init ==
  /\ listed = {g \in Good : Stock[g] > 0}
  /\ amount = Stock
  /\ phase = "packets" /\ shopTicker = 0
  /\ pc = [p \in Player |-> "idle"]
  /\ good = [p \in Player |-> Nothing]
  /\ read = [p \in Player |-> 0]
  /\ coins = [p \in Player |-> Coins] /\ inventory = [p \in Player |-> Owned]
  /\ trades = 0 /\ raced = FALSE
  /\ supply = [g \in Good |-> Stock[g] + Cardinality(Player) * Owned[g]]

(* The rest of a handler that has begun. *)
Continue(p) ==
  \/ Pay(p) \/ Refuse(p) \/ CheckCount(p) \/ RemoveLoad(p) \/ RemoveStore(p)
  \/ Forget(p) \/ AddLoad(p) \/ AddStore(p)

Next ==
  \/ \E p \in Player : Continue(p) \/ \E g \in Good : Buy(p, g) \/ Sell(p, g)
  \/ StartTasks \/ RunTicker

Spec == Init /\ [][Next]_vars

(* Handlers run to their end, and the engine ticks on. *)
FairSpec ==
  /\ Spec
  /\ \A p \in Player : WF_vars(Continue(p))
  /\ WF_vars(StartTasks) /\ WF_vars(RunTicker)

-----------------------------------------------------------------------------
(* Properties *)

(* Every variable stays in its type; handlers run in the packets phase only. *)
TypeOK ==
  /\ listed \subseteq Good /\ amount \in [Good -> Int]
  /\ phase \in {"packets", "tasks"} /\ shopTicker \in 0..RestockTicks - 1
  /\ pc \in [Player -> {"idle", "buying", "paid", "counted", "removing", "sold", "adding"}]
  /\ phase = "tasks" => AllIdle
  /\ good \in [Player -> Good \cup {Nothing}] /\ read \in [Player -> Int]
  /\ coins \in [Player -> Nat] /\ inventory \in [Player -> [Good -> Nat]]
  /\ trades \in 0..MaxTrades /\ raced \in BOOLEAN /\ supply \in [Good -> Int]

Held(g) == SumFunction([p \in Player |-> inventory[p][g]])
Exact(g) == amount[g] + Held(g) = supply[g]

(* As long as no two trades have overlapped, what the shop lists and the players
   hold adds up, nothing is oversold and nothing stocked leaves the list, over
   any trades and restocks: its faults are those of races alone. *)
ExactWhenAlone ==
  AllIdle /\ ~raced => \A g \in Good :
    /\ g \in listed => Exact(g) /\ amount[g] >= 0
    /\ Stock[g] > 0 => g \in listed

(* What NoMoneyPump takes for granted of the prices: a shop asks for a piece at
   least what it then pays to have it back (40, 130 and 3 in the code). *)
Margin == BasePurchasePercent + ShopNormalDeltaRate <= BaseSalePercent

(* As long as no two trades have overlapped, no trades, across restocks or not,
   make the players richer: while they have at least the goods they began with,
   they have no more coins than they began with.  Two trades at the price before
   the first, which may move the amount by one piece, can. *)
NoMoneyPump ==
  ~raced /\ (\A g \in Good : Held(g) >= Cardinality(Player) * Owned[g])
    => SumFunction(coins) <= Cardinality(Player) * Coins

(* When trading ends, every good still listed goes back to its normal amount, and stays. *)
Normalises == \A g \in Good : <>[](g \in listed => amount[g] = Stock[g])

-----------------------------------------------------------------------------
(* What the comments of shops.go promise, and the code does not keep. *)

(* Inventory's comment: it can never remove things that are in Stock entirely. *)
StockStays == \A g \in Good : Stock[g] > 0 => g \in listed

(* ShopItems's comment, of item lists "without introducing any data race
   conditions": at rest, what the shop lists and the players hold adds up. *)
NothingMislaid == AllIdle => \A g \in listed : Exact(g)

(* Get's comment: an item it cannot find is added to the collection for later
   usage, so that a shop lists what it has bought. *)
BoughtIsListed == [][\A p \in Player : pc[p] = "sold" /\ pc'[p] # "sold" => good[p] \in listed']_vars
=============================================================================
