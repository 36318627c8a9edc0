------------------------------ MODULE GroundItem ------------------------------
(***************************************************************************)
(* Items lying on the ground: pkg/game/world/inventory.go (GroundItem),    *)
(* the region's item list (entitylist.go, world.go), and the scripts that  *)
(* drop them and pick them up (scripts/packets/item_actions.ank).          *)
(*                                                                         *)
(* An engine tick has a packets phase, in which every player's handlers    *)
(* run in a goroutine of their own, and a tasks phase, in which one        *)
(* goroutine runs the tick tasks: the items' tickers and the fights.  The  *)
(* goroutines that bring spawned items back sleep through both, and the    *)
(* goroutine in which an NPC dies may run at any time.                     *)
(*                                                                         *)
(* All items here have the same id and lie on the same tile, so that       *)
(* GetItem has to choose among them.                                       *)
(***************************************************************************)
EXTENDS Integers, FiniteSets, SequencesExt

CONSTANTS Player,
          Admin,       \* the players of rank 2
          Spawn,       \* persistent items, loaded from the database
          Drop,        \* transient items, dropped by players or by the dead
          Nobody,      \* nil: the owner of an item without one, no target
          Stage,       \* ticks of a visibility stage, 110 in the code
          MaxCopies    \* bound: entries and sleepers of one persistent item

Item == Spawn \cup Drop

ASSUME ItemAssumption ==
  /\ IsFiniteSet(Player) /\ Admin \subseteq Player /\ Nobody \notin Player \cup Item
  /\ Spawn \cap Drop = {} /\ IsFiniteSet(Item)
  /\ Stage \in Nat \ {0} /\ MaxCopies \in Nat \ {0}

VARIABLES
  set,      \* region.Items.set, in order
  vis,      \* the attribute "visibility": 0 unset, 1 the owner's, 2 everybody's
  owner,
  ticker,   \* the attribute "ticker"
  ticking,  \* items whose ticker is in TickList
  asleep,   \* respawning goroutines of an item before their sleep has ended
  awake,    \* ... and between SetVar("visibility", 2) and AddItem
  phase,
  todo,     \* tickers this tasks phase has not run yet
  pc,       \* where a player's pickup is
  target,   \* the item it found, Nobody when there is none
  born,     \* transient items created so far
  making,   \* items an NPC's death is creating: "no", "new" or "owned"
  loot,     \* history: the items that come from the dead
  takers    \* history: the players who got a transient item

vars == <<set, vis, owner, ticker, ticking, asleep, awake, phase, todo, pc, target, born, making,
          loot, takers>>
sleepers == <<asleep, awake>>
clock == <<ticker, ticking, todo>>
life == <<born, making, loot>>

-----------------------------------------------------------------------------
Entries(i) == Cardinality({k \in DOMAIN set : set[k] = i})
Copies(i) == Entries(i) + asleep[i] + awake[i]
Pickers(i) == {p \in Player : target[p] = i}

(* entityList.Remove: the first entry, if there is one. *)
RemoveNone(s, i) == s                              \* mutant
Removed(s, i) == RemoveFirst(s, i)

(* VisibleTo *)
AnybodysOnce(i, p) == vis[i] # 0                   \* mutant
VisibleTo(i, p) ==
  /\ vis[i] # 0
  /\ p \in Admin \/ (vis[i] = 1 => owner[i] = p)

-----------------------------------------------------------------------------
(* Packets phase: the players' tick actions run concurrently. *)

(* Drop an item, or more than the inventory holds: NewGroundItemFor registers
   the ticker before the owner is set and the item listed, which no ticker can
   notice, for tickers run in the other phase. *)
DropItem(p, i) ==
  /\ phase = "packets"
  /\ pc[p] = "idle"
  /\ i \notin born
  /\ born' = born \cup {i}
  /\ vis' = [vis EXCEPT ![i] = 1]
  /\ owner' = [owner EXCEPT ![i] = p]
  /\ ticking' = ticking \cup {i}
  /\ set' = Append(set, i)
  /\ UNCHANGED <<ticker, sleepers, phase, todo, pc, target, making, loot, takers>>

(* The pickup's checks: GetItem returns the first entry, VisibleTo is asked,
   the player stands near enough and can hold it. *)
Look(p) ==
  /\ phase = "packets"
  /\ pc[p] = "idle"
  /\ set # <<>>
  /\ VisibleTo(Head(set), p)
  /\ Head(set) \in Spawn => Copies(Head(set)) + Cardinality(Pickers(Head(set))) < MaxCopies
  /\ pc' = [pc EXCEPT ![p] = "sure"]
  /\ target' = [target EXCEPT ![p] = Head(set)]
  /\ UNCHANGED <<set, vis, owner, clock, sleepers, phase, life, takers>>

(* item.Remove() begins: UnsetVar("visibility"). *)
Hide(p) ==
  /\ pc[p] = "sure"
  /\ pc' = [pc EXCEPT ![p] = "hid"]
  /\ vis' = [vis EXCEPT ![target[p]] = 0]
  /\ UNCHANGED <<set, owner, clock, sleepers, phase, target, life, takers>>

NobodySleeps(i) == asleep                          \* mutant
Sleeping(i) == IF i \in Spawn THEN [asleep EXCEPT ![i] = @ + 1] ELSE asleep

(* ... RemoveItem(i), the respawning goroutine, and Inventory.Add. *)
Grab(p) ==
  /\ pc[p] = "hid"
  /\ pc' = [pc EXCEPT ![p] = "idle"]
  /\ set' = Removed(set, target[p])
  /\ asleep' = Sleeping(target[p])
  /\ takers' = IF target[p] \in Drop THEN [takers EXCEPT ![target[p]] = @ \cup {p}] ELSE takers
  /\ target' = [target EXCEPT ![p] = Nobody]
  /\ UNCHANGED <<vis, owner, clock, awake, phase, life>>

(* Bound: the goroutine of a dying NPC does not take longer than a tick. *)
Prompt == \A i \in Drop : making[i] # "no" => ticker[i] = 0

(* AsyncRange has waited for every player; Tick hands out the tickers. *)
AllBack == \A p \in Player : pc[p] = "idle"

StartTasks ==
  /\ phase = "packets"
  /\ AllBack /\ Prompt
  /\ phase' = "tasks"
  /\ todo' = ticking
  /\ UNCHANGED <<set, vis, owner, ticker, ticking, sleepers, pc, target, life, takers>>

-----------------------------------------------------------------------------
(* Tasks phase: one goroutine. *)

(* A player dies in a fight: Player.Killed, inside the fight's task, creates the
   items while ForEach is filtering its list, so that the tickers they register
   are lost with everything else registered then (TaskList). *)
PlayerDies(i, o) ==
  /\ phase = "tasks"
  /\ i \notin born
  /\ born' = born \cup {i}
  /\ loot' = loot \cup {i}
  /\ vis' = [vis EXCEPT ![i] = 1]
  /\ owner' = [owner EXCEPT ![i] = o]
  /\ set' = Append(set, i)
  /\ UNCHANGED <<clock, sleepers, phase, pc, target, making, takers>>

(* An NPC dies: NPC.Killed is a goroutine of its own.  NewGroundItemFor creates
   the item, whose ticker is lost or not, *)
NpcDies(i) ==
  /\ i \notin born
  /\ born' = born \cup {i}
  /\ loot' = loot \cup {i}
  /\ making' = [making EXCEPT ![i] = "new"]
  /\ vis' = [vis EXCEPT ![i] = 1]
  /\ ticking' = IF phase = "tasks" THEN ticking ELSE ticking \cup {i}
  /\ UNCHANGED <<set, owner, ticker, sleepers, phase, todo, pc, target, takers>>

(* ... sets its owner, the player who did most of the damage, *)
OwnLoot(i) ==
  /\ making[i] = "new"
  /\ making' = [making EXCEPT ![i] = "owned"]
  /\ \E o \in Player \cup {Nobody} : owner' = [owner EXCEPT ![i] = o]
  /\ UNCHANGED <<set, vis, clock, sleepers, phase, pc, target, born, loot, takers>>

(* ... and adds it to the region. *)
ListLoot(i) ==
  /\ making[i] = "owned"
  /\ making' = [making EXCEPT ![i] = "no"]
  /\ set' = Append(set, i)
  /\ UNCHANGED <<vis, owner, clock, sleepers, phase, pc, target, born, loot, takers>>

Ownerless(i) == vis[i] = 1 /\ owner[i] = Nobody

Seen(i) == IF Ownerless(i) THEN 2 ELSE vis[i]

(* The first pass, ~71 seconds in: 25% of the items stay private. *)
ShowAtFirstPass(i) ==
  /\ i \in todo
  /\ ticker[i] + 1 = Stage
  /\ Seen(i) = 1
  /\ vis' \in {[vis EXCEPT ![i] = 1], [vis EXCEPT ![i] = 2]}
  /\ ticker' = [ticker EXCEPT ![i] = @ + 1]
  /\ todo' = todo \ {i}
  /\ UNCHANGED <<set, owner, ticking, sleepers, phase, pc, target, life, takers>>

Old(i) == (ticker[i] + 1) \div Stage >= 3

(* The third pass: the item expires. *)
ExpireItem(i) ==
  /\ i \in todo
  /\ Old(i)
  /\ vis' = [vis EXCEPT ![i] = 0]
  /\ set' = Removed(set, i)
  /\ ticker' = [ticker EXCEPT ![i] = @ + 1]
  /\ ticking' = ticking \ {i}
  /\ todo' = todo \ {i}
  /\ UNCHANGED <<owner, sleepers, phase, pc, target, life, takers>>

(* Any other tick.  The ticker of an item somebody took is dropped here. *)
StillTicking(i) == IF Seen(i) = 0 THEN ticking \ {i} ELSE ticking

Wait(i) ==
  /\ i \in todo
  /\ ~Old(i)
  /\ ~(ticker[i] + 1 = Stage /\ Seen(i) = 1)
  /\ vis' = [vis EXCEPT ![i] = Seen(i)]
  /\ ticker' = [ticker EXCEPT ![i] = @ + 1]
  /\ ticking' = StillTicking(i)
  /\ todo' = todo \ {i}
  /\ UNCHANGED <<set, owner, sleepers, phase, pc, target, life, takers>>

StartPackets ==
  /\ phase = "tasks"
  /\ todo = {}
  /\ phase' = "packets"
  /\ UNCHANGED <<set, vis, owner, clock, sleepers, pc, target, life, takers>>

-----------------------------------------------------------------------------
(* The respawning goroutine: time.Sleep, SetVar("visibility", 2), AddItem. *)
Reappear(i) ==
  /\ asleep[i] > 0
  /\ asleep' = [asleep EXCEPT ![i] = @ - 1]
  /\ awake' = [awake EXCEPT ![i] = @ + 1]
  /\ vis' = [vis EXCEPT ![i] = 2]
  /\ UNCHANGED <<set, owner, clock, phase, pc, target, life, takers>>

Relist(i) ==
  /\ awake[i] > 0
  /\ awake' = [awake EXCEPT ![i] = @ - 1]
  /\ set' = Append(set, i)
  /\ UNCHANGED <<vis, owner, clock, asleep, phase, pc, target, life, takers>>

-----------------------------------------------------------------------------
(* The server has loaded the persistent items, in any order, and nobody plays yet. *)
Init ==
  /\ set \in {s \in [1..Cardinality(Spawn) -> Spawn] : Range(s) = Spawn}
  /\ vis = [i \in Item |-> IF i \in Spawn THEN 2 ELSE 0]
  /\ owner = [i \in Item |-> Nobody]
  /\ ticker = [i \in Item |-> 0]
  /\ ticking = {} /\ todo = {}
  /\ asleep = [i \in Item |-> 0] /\ awake = [i \in Item |-> 0]
  /\ phase = "packets"
  /\ pc = [p \in Player |-> "idle"]
  /\ target = [p \in Player |-> Nobody]
  /\ born = {} /\ loot = {}
  /\ making = [i \in Drop |-> "no"]
  /\ takers = [i \in Item |-> {}]

Ticker == \E i \in Drop : ShowAtFirstPass(i) \/ ExpireItem(i) \/ Wait(i)
Respawn(i) == Reappear(i) \/ Relist(i)
MakeLoot(i) == OwnLoot(i) \/ ListLoot(i)
Pickup(p) == Hide(p) \/ Grab(p)

Next ==
  \/ \E p \in Player : Look(p) \/ Pickup(p) \/ \E i \in Drop : DropItem(p, i)
  \/ \E i \in Drop : NpcDies(i) \/ MakeLoot(i) \/ \E o \in Player \cup {Nobody} : PlayerDies(i, o)
  \/ \E i \in Spawn : Respawn(i)
  \/ Ticker \/ StartTasks \/ StartPackets

Spec == Init /\ [][Next]_vars

(* Handlers run to their end, the engine ticks on, sleeps end.  The packets
   phase is strongly fair: each player runs its handlers once in it, while
   pickups here may follow one another for as long as items come back. *)
FairSpec ==
  /\ Spec
  /\ \A p \in Player : WF_vars(Pickup(p))
  /\ \A i \in Spawn : WF_vars(Reappear(i)) /\ WF_vars(Relist(i))
  /\ \A i \in Drop : WF_vars(MakeLoot(i))
  /\ WF_vars(Ticker)
  /\ SF_vars(StartTasks)
  /\ WF_vars(StartPackets)

-----------------------------------------------------------------------------
(* Properties *)

Listed(i) == i \in Range(set)

(* Every variable stays in its type; a transient item does not outlive its
   third visibility stage. *)
TypeOK ==
  /\ set \in Seq(Item)
  /\ vis \in [Item -> 0..2]
  /\ owner \in [Item -> Player \cup {Nobody}]
  /\ ticker \in [Item -> 0..3 * Stage]
  /\ ticking \subseteq born /\ todo \subseteq ticking
  /\ asleep \in [Item -> Nat] /\ awake \in [Item -> Nat]
  /\ phase \in {"packets", "tasks"}
  /\ pc \in [Player -> {"idle", "sure", "hid"}]
  /\ target \in [Player -> Item \cup {Nobody}]
  /\ born \subseteq Drop /\ loot \subseteq born
  /\ making \in [Drop -> {"no", "new", "owned"}]
  /\ takers \in [Item -> SUBSET Player]

(* However many players find a spawned item in the same tick, it is there for
   everybody, or a goroutine is on its way to bring it back, or a pickup is
   about to start one: it is never left listed but hidden, nor unlisted. *)
NeverLost ==
  \A i \in Spawn :
    \/ vis[i] = 2 /\ (Listed(i) \/ awake[i] > 0)
    \/ asleep[i] > 0
    \/ \E p \in Pickers(i) : pc[p] = "hid"

(* A dropped item whose visibility has been unset is out of the region's list
   for good, but for the moment in which a pickup removes it. *)
GoneForGood ==
  \A i \in born : vis[i] = 0 /\ Listed(i) => \E p \in Pickers(i) : pc[p] = "hid"

(* An item a player dropped is everybody's from its first pass on and not before,
   although NewGroundItem hands it to the ticker before the owner is known. *)
PrivateFirst ==
  \A i \in born \ loot : vis[i] = 2 => ticker[i] >= Stage

(* As long as an item is private, a pickup of it that has passed its checks is
   its owner's or an administrator's, even if its ticker runs meanwhile. *)
PrivateToOwner ==
  \A p \in Player : target[p] \in Item =>
    (vis[target[p]] = 1 => p \in Admin \/ owner[target[p]] = p)

(* An item whose ticker runs leaves the world, taken or expired. *)
TickingLeaves == \A i \in Drop : i \in ticking ~> ~Listed(i)

(* A spawned item somebody took comes back. *)
SpawnComesBack == \A i \in Spawn : vis[i] = 0 ~> vis[i] = 2 /\ Listed(i)

-----------------------------------------------------------------------------
(* The inductive invariant behind NeverLost and PrivateToOwner. *)

Types ==
  /\ set \in Seq(Item)
  /\ vis \in [Item -> 0..2]
  /\ owner \in [Item -> Player \cup {Nobody}]
  /\ asleep \in [Item -> Nat] /\ awake \in [Item -> Nat]
  /\ pc \in [Player -> {"idle", "sure", "hid"}]
  /\ target \in [Player -> Item \cup {Nobody}]
  /\ born \subseteq Drop
  /\ making \in [Drop -> {"no", "new", "owned"}]

(* Only what has been made can be found, and only a pickup under way has a target. *)
FoundIsBorn ==
  /\ \A i \in Item : Listed(i) => i \in Spawn \cup born
  /\ \A p \in Player : IF pc[p] = "idle" THEN target[p] = Nobody ELSE target[p] \in Spawn \cup born

(* What a death is still making nobody has found. *)
MakingIsHidden ==
  \A i \in Drop : making[i] # "no" => i \in born /\ ~Listed(i) /\ \A p \in Player : target[p] # i

IInv == Types /\ FoundIsBorn /\ MakingIsHidden /\ NeverLost /\ PrivateToOwner

-----------------------------------------------------------------------------
(* What the comments of inventory.go promise, and the code does not keep. *)

(* Remove's comment: it "removes the ground item from the world", so that an item is had by one player. *)
OneTaker == \A i \in Drop : Cardinality(takers[i]) <= 1

(* NewPersistentGroundItem's comment: the item respawns after pickup, one item. *)
OneEntry == \A i \in Spawn : Entries(i) <= 1

(* Visibility's comment: an item is its owner's "for the first minute or two", then value 2. *)
OwnersForAWhile == \A i \in Drop : vis[i] = 1 ~> vis[i] # 1

(* NewGroundItemFor's comment: it creates an item with an owner, not one that its
   ticker can meet without. *)
KillersFirst == \A i \in loot : vis[i] = 2 /\ owner[i] # Nobody => ticker[i] >= Stage

(* The ticker's comment: an item that stays private at the first pass does so until the second. *)
PublicAtSecondPass == \A i \in born : ticker[i] >= 2 * Stage => vis[i] # 1
=============================================================================
