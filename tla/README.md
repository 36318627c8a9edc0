# RSCGo, specified

TLA+ models of the game server in `src/pkg` (Go) and `src/scripts` (anko), the
TLC runs that check them on small instances, and TLAPS proofs of what holds for
every instance. Paths below are relative to the repository.

Each module describes what the code does, not what it should do. Properties
are either checked by a passing run, or refuted. A refuted property stays in its
module, and the table *Refuted statements* says how to see its counterexample.

## The system

One engine goroutine (`Server.Start`, `pkg/server.go`) runs a tick every 640 ms:

1. up to 25 logins are taken from `loginQ` and handled;
2. **packets phase**: `Players.AsyncRange` starts a goroutine per listed player
   (its queued packets, its tick action, one step of its path) and waits for all;
3. **NPC phase**: NPCs notice, walk and attack, one after the other;
4. **tasks phase**: `tasks.TickList` calls every registered task, in order, in one
   goroutine, and keeps those that ask to run again;
5. position, scenery and appearance packets are built and sent, in goroutines
   again, and the synchronization masks are reset;
6. up to 25 logouts are taken from `logoutQ`.

Around it run a reader goroutine per session, a `Destroy` goroutine per logout
(which saves the player), the goroutine of each dying NPC (`go n.Killed`), the
sleeping goroutines of items that respawn, and goroutines that scripts start. Most
state is shared without a lock that spans more than one call.

| Component (source) | State | Operations | Meets others through | What is hard |
|---|---|---|---|---|
| Tick tasks (`pkg/tasks`) | `ScriptCalls`, tick counter | Add, Schedule, DoOnce, DoOnceSync, Stall, ForEach | everything periodic is a task | a list filtered in place while others append; a 640 ms deadline |
| Player registry (`world/world.go`) | listed players, index counter, free indices, regions | Put, Remove, AddPlayer, RemovePlayer, FindHash, Range | sessions, the engine's phases | three separate critical sections per login |
| Sessions (`pkg/server.go`, `world/player.go`) | queues, contexts, connected flag, `sync.Once` | accept, handleLogin, reader, Unregister, runLogout, Destroy, system update | registry, engine, save | bounded channels whose only receiver is also a sender; closed channels |
| Login throttle (`pkg/throttle`) | times of failures per address | Add, Recent | handleLogin | a removal loop that uses stale indices |
| Persistence (`pkg/db/player.go`) | tables, transactions | PlayerLoad, PlayerSave | sessions; inventories and banks | saves in the background of new logins; crashes; rows of text |
| Player data (`world/player.go`, `attributes.go`, `skills.go`) | experience, levels, attributes | IncrementExp, Distribute*Exp, SetStat | combat and skill scripts, persistence | awards from several goroutines, one compare apart from its update |
| Inventory, equipment, bank (`world/inventory.go`, `player.go`, item and bank scripts) | items, what is worn, equipment points | Add, RemoveByID, EquipItem, DequipItem, deposit, withdraw, DeathDrops | ground items, shops, persistence | tick actions and script goroutines that use indices found earlier |
| Ground items (`world/inventory.go`, `entitylist.go`, item scripts) | region lists, visibility, tickers, sleepers | drop, loot, pickup, expiry, respawn | tick tasks, deaths, pickups | check and act apart; goroutines that bring items back |
| Shops (`world/shops.go`, shop script) | inventory, amounts, ticker | buy, sell, restock | player inventory | counts read, then used; one lost update |
| Combat and NPC life (`world/mob.go`, `damage.go`, `npc.go`, `player.go`, combat scripts) | fight state of each mob, hits, fight tasks | attack, hit, cast, retreat, die, respawn | tick tasks, disconnects, ground items | fights outlived by their task; deaths in goroutines |
| What clients see (`world/packetbuilders.go`, `mob.go`, `player.go`) | masks, regions' lists, local lists, appearance events and tickets | position and appearance packets, reset, SetCoords, UpdateRegions, Destroy | every move, login, logout, death | the world changes between one client's packet and the next |
| Scenery and collision (`world/world.go`, `environment.go`, `object.go`, door, mining and web scripts) | objects of a region, clip masks, local objects | AddObject, RemoveObject, ReplaceObject, packets of objects and boundaries | walks, scripts, timers | two-step replacements from three kinds of goroutine |
| Movement and paths (`world/pathway.go`, `location.go`, `astar.go`) | location, path | TraversePath, reachability, MakePath | collision masks | a heap whose entries are moved and put back |
| Packets, chat cipher, names (`net/packet.go`, `strutil/conversion.go`) | a buffer; tables | AddBitmask, Read*, Encipher, Decipher, Base37 | chat, accounts | carries, bit offsets, terminators |
| Trade and duel; script host; web site; configuration; unused handlers | — | — | — | see *Not modelled* |

What makes them correct, by component: tasks run once per cycle, none is lost or
repeated, callers that wait come back. Indices are unique and none leaks. A
session is saved once, is gone when it has ended, and ends. The throttle forgets
no failure that counts. An item is in one place, seen by whom it should be, and
survives a reload; what is worn is what is shown. Experience adds up. A shop neither
creates nor mislays goods or money. Nobody is left in a fight that no longer
takes place. Clients show who is there, where he is, as he looks. What blocks the
way is what stands there, and comes back when it has been used up.

## Modules

| Module | Models | With |
|---|---|---|
| `TickContract` | what a cycle promises to those who register tasks | abstract specification |
| `TaskList` | `pkg/tasks/tasks.go`, slices and backing arrays included | `MCTaskList`, `TaskListProofs`, which also proves that it implements `TickContract` |
| `PlayerList` | `world.go`: indices, list, regions | `AdmissionProofs` |
| `LoginThrottle` | `pkg/throttle`, the attempts of one address | `AdmissionProofs` |
| `Admission` | `handleLogin` over `PlayerList` and `LoginThrottle` | `MCAdmission`, `AdmissionProofs` |
| `Session` | `server.go` and the session half of `player.go` | `MCSession`, `SessionProofs` |
| `Profile` | loading and saving beside logins, crashes and handlers | `MCProfile`; proofs in `AdmissionProofs` |
| `Skills`, `Record` | experience and levels; attributes as rows (no state) | `MCProfile` |
| `Inventory` | lists of items (no state) | `Kit` |
| `Kit` | one player's pack, bank, equipment and tile of ground | `MCKit`, `ItemProofs` |
| `GroundItem` | ground items, their tickers, pickups | `MCGroundItem`, `GroundItemProofs` |
| `Shop` | one general store | `MCShop`, `ItemProofs` |
| `Fight` | fights, spells, deaths, the NPC's return | `MCFight`, `FightProofs` |
| `View` | positions and appearance against what clients show | `MCView`, `ViewProofs` |
| `ChatCipher`, `Packet`, `Base37` | chat cipher, packing and reading, names (no state) | `MCView` |
| `Tiles` | collision masks and the steps they allow (no state) | `Scenery`, `Pathfinder` |
| `Scenery` | an object that handlers and timers replace, who walks there, what is shown | `MCScenery`, `SceneryProofs` |
| `Pathfinder` | the A* search (no state) | `MCScenery` |

An MC module EXTENDS what it instantiates and gives the constants small values;
the modules without state are looked at by the MC module named with them, as
ASSUMEs TLC evaluates at the start of a run or as an invariant of the initial
states where a mutant shows what it depends on.

### TaskList

Go slices are headers (array, length) over a store of arrays with a capacity, so
that `append`, `s.ScriptCalls[:0]` and the runner's range share memory as in the
program. `Register` is any of the registering functions; `Open` to `Close` are one
`ForEach`, with `Call` and the `Finish` of each type of function in the runner; a function
of a player gets nil where it is wrapped, and nobody adds one unwrapped
(`NobodyAddsPlayerCalls`), nor nil, which the runner would skip;
`Expire` and `RunnerQuits` are the deadline, after which the runner returns
without closing `done` and the engine waits for ever (phase `"hung"`). Times are
in ticks (`Elapsed`). An array nobody refers to is used again, which is what the
garbage collector allows and keeps arrays finite. Entering `ForEach` reads the
list header in one step; that it is read before the read lock is taken, so that
it may be torn, is not modelled. The refinement mapping is a handful of named operators
(`Phase`, `Queue`, `Todo`, `Again`, `NowRunning`): the contract sees sequences of
tasks, never an array.

### PlayerList, LoginThrottle, Admission

Each login is `NextSlot`, `Insert`, `EnterRegion`, each logout `Unindex`,
`Delete`, `LeaveRegion`, as the code takes its lock. A freed index is pushed
to the front of the queue and popped first. `Shifted` is the net effect of the
throttle's removal loop on the aliased slice; `ShiftedIsLoop` (MCAdmission)
compares it with the loop itself.

`Admission` conjoins the two: an action is a step of `handleLogin`, which asks
for the registry's size and the throttle, and of the goroutine of an admitted
player, whose first call is AddPlayer. Which accounts and passwords exist is left
open: a login may turn out either way. Logins are handled one after the other by
the engine, but players admitted are listed later, so the size check counts too
few (`WithinMaxPlayers` is refuted); no property of the run relies on that check.

### Session

The engine's `phase` follows the order of `Server.Start`; every sender on
`logoutQ` is a record in `sends` until there is room. `Destroyer` is the
body of `Destroy` step by step (`sync.Once`: `Called`), the reader that of the
goroutine `handleLogin` starts. `crash` names a panic; afterwards nothing runs.
`SystemUpdate` to `Exit` are the update task. `abandoned` is a connection whose
first packet could not be read: the code returns with the socket open.

### Profile, Skills, Record

A `Visit` is one Player object. A login reads the inventory table and the bank table in
two queries (`LoadInventory`, `LoadBank`) and is listed by a goroutine later (`AddPlayer`); a logout's `StartSave` starts
PlayerSave, whose transaction opens, reads pack and bank one after the other
and commits (`OpenTx`, `InsertItems`, `InsertBank`, `Commit`), while handlers may
still move the player's items, while the account may come back, and while the
process may end (`Crash`) or a statement fail (`GiveUp`). The database is
external: one writer at a time, and what is written shows at the commit.
A save ends `"done"`, `"failed"` (a logged error) or `"lost"`, with the process: what was not
committed is then gone, and the next process starts from the tables.
`disturbed` says that an account came back before its save was done, or that a handler
ran after the save had read; `broken` that a save failed or the process ended. Undisturbed,
the tables are always those of one save, pack and bank together (`SavedTogether`), broken or
not; and unless broken, every item is in one place.

`Skills` has the experience table, the awards of combat as the list of calls they
are, and `Left`, the tables two goroutines may leave when their calls interleave at
each read and write of a stat. `Record` has the text each attribute becomes
and what is read from it.

### Inventory, Kit

`Inventory` has `Added`, `RemovedByID`, `CanHold` and their limits (a stack stops
at MaxInt32, what is over is dropped). `Kit` has one action per handler and tick
action: equip and unequip, drop, pick up, deposit, withdraw, eat and bury,
"Bones to bananas", AddItem, death, and a reload by way of the database. Item
actions run in a goroutine of their own: `action` holds the index they found,
and the engine may act before they delete the entry at it (`overtaken` when it
deleted entries meanwhile, so that another item may be there by then). `limits` remembers the ids
of which a stack has been full, `broken` that a full bank's nil `Owner` was dereferenced.
`minted` and `used` count what came into the world and what was eaten. Its initial states, next-state
relation and specification are `KitInit`, `KitNext` and `KitSpec`, for `ItemProofs` extends
`Shop` too.

### GroundItem

All items lie on one tile with one id, the case in which they can be confused.
A pickup is `Look` (find and check), `Hide` and `Grab`. A spawned
item taken leaves a sleeper, which `Reappear`s and is `Relist`ed. `MakeLoot` is
the part of an NPC's death that lists loot; it is in a goroutine of its own, so
its ticker may be registered during a cycle and lost.

### Shop

`Buy`/`Pay` and `Sell` read the inventory under its lock but in separate
critical sections, and `RemoveLoad`/`RemoveStore`, `AddLoad`/`AddStore` split the
increments that may interleave. Prices are those of `Price.Scale`, integer
divisions included. `RunTicker` is the restock task.

### Fight

`See`/`Engage` is the closure a player runs on arrival, checks and
`StartCombat` apart; `Aim`/`Strike`/`Judge` is a spell: hits read, written back,
read again. `FightWaits`, `FightEnds`, `Hit` are the fight's task; when the
attacker began the fight as a player, the deferred function counts a round even
when the fight is over. `Freed` is `Mob.ResetFighting`, which unsets
`fightTarget` before it reads it, and so frees the opponent only when it is not
fighting itself. An NPC's death is `Reward` and `Leave`. `Notices` includes that
an aggressive NPC which has taken a `targetPlayer` without attacking never acts
again: the engine skips it from then on. Damage is any number up to the hits;
duels, prayers, skulls and experience change none of these variables.

### View, ChatCipher, Packet, Base37

The world of `View` is a line of tiles cut into regions: enough for who is near, whose
region is visible, and which direction a move has. `seen` is what a client has
made of the position packets it was sent, applied as a client does: a local mob
moves by the step it is told, a new one appears where it is told. So an error
in what the server marks, lists or resets shows as a mob in the wrong place.
Two goroutines write into queues for each player (`Writer`): that of its turn in the packets or
update phase, and one started with `go` at any time, as `n.Killed` is by a fight's task,
which gives experience (`LevelsUp`) while appearances may just be written. `UpdateAppearance`
makes what each of them has yet to queue, and each event is a `Fetch` and a `Store`, for the queue
is read and stored without a lock. `PlayerPositions`, `NPCPositions`, `PlayerAppearances`
and `UnsetEvents`, which drops whatever has been queued since the queue was read, are the
update phase; a fight's beginning (`StartCombat`) moves and marks who attacks;
`Reset` and `NextPhase` the rest. `Put`/`Place` and `SetRegionRemoved`, `Unplace`, `Delist`
are a login and a Destroy beside all of it. `late`, `lost` and `missed` are
histories: mobs another goroutine changed while positions were being sent, whose
mark was reset before everybody had seen it, or whose change a client was not told; `since`
is who was queued for a client after its queue was last read. Inc of a ticket, and append
with the SetVar after it, are one step each.

`ChatCipher` derives the tables of `init` (codes from lengths, with their carries) and
has `Encipher` and `Decipher`; `Packet` has a buffer of bytes, each a set of bits, with
AddBitmask at any offset and the readers; `Base37` encodes and decodes names.

### Tiles, Scenery, Pathfinder

`Tiles` holds the masks as one set of marks `[sector, index, bit]`, computes what an
object adds and takes away (`Marks`, `Clears`) and which steps are possible
(`ReachableCoords`), sector seams as the code indexes them. `Scenery` is one place with
one of five kinds of object; two players click, walk and teleport; a handler's
goroutine is `Stalls`, `Stalled`, `TakeAway`, `PutNew`, `Teleport`, `Schedule`, a timer `TimerRemoves`,
`TimerAdds`, so that each replacement is two steps between which anything may happen. Timers
and the waking of who stalls (`Wakes`) are tasks of the tick list, which its runner calls one at a
time, beside the goroutines. What a goroutine gives the list while it runs is dropped when
the filtered list is assigned (`Dropped`, tasks.go:281; which of it is, `TaskList` says
exactly): a handler that stalls then is `"stuck"` for good, and an object for which `Schedule`
does so has no timer (`lost`). `Scan` and `News`
are the two passes of ObjectLocations and BoundaryLocations. `raced` says that an object
already replaced was replaced again, `fresh` and `torn` that nothing changed after, or
something changed in the middle of, a player's packet. `Pathfinder` is MakePath with a
heap that may pop any of the equally cheap tiles: `Found` is the set of all
outcomes. Its costs are integers, in hundredths of a tile.

## Runs

| Run (cfg) | Asks | Bounds, and why they are enough |
|---|---|---|
| `tasklist` | does in-place filtering lose, repeat or overwrite a task; does it implement the contract; do waiting callers return | 3 tasks (once, periodic, stalled), arrays of up to 4 cells: append within capacity, at capacity and into a new array all occur, before, during and after a cycle |
| `admission` | do registry and throttle keep their promises where handleLogin uses both | 3 players, 2 places, window 2, limit 4, 3 time units: free queues with logins and logouts on both sides, several windows, as many failures as the limit and more, slices long enough that the removal loop leaves the wrong entries (`RecentIsExact` is refuted) |
| `session` | no zombie, one save | 2 connections, queues of 2, batches of 1: full queues, two Destroys, kicks and an update meet |
| `session_live` | does a logout complete, do ticks go on | 1 connection, room in `logoutQ` for its three sends and the update's |
| `session_twice` (refuted) | one session per account | two connections of one account |
| `profile` | is an item ever in two places or none; are those who leave saved; do awards add up; do attributes come back | 2 accounts, one of which comes twice, one coin, which passes between them by the ground; two awards of every kind on three hit levels; times on both sides of a minute |
| `kit` | is anything doubled or lost; is what is worn what is shown; does a reload change anything; what does a death take | 3 slots and a bank of 2, so that full ones are common; stacks up to 3; items of one and of two body parts, a stackable, a consumable; 2 new items |
| `grounditem` | is an item ever lost, seen by the wrong player, or left | 2 players (one an administrator), a spawned and a dropped item, stages of 2 ticks, 3 copies |
| `shop` | exactness, prices, return to normal | 2 players, a stocked and an unstocked good, 5 trades, restock every 2 ticks |
| `fight` | is anyone but a killer left fighting; are two ever in two fights with each other; drops per life | 2 players, 1 caster, 1 who may disconnect, 2 fight tasks, 1 hit, fight period 1, rest 2, respawn 2 |
| `view` | do clients show who is there, where, as he looks; is chat read as written | 2 players, one of whom comes and one of whom leaves, an NPC, 4 tiles in 2 regions, view radius 3, 2 moves, attacks, deaths, new appearances or logouts; one of the players is given experience by a goroutine: a move, teleport, Destroy or new appearance at every point of a tick and of the other client's packets |
| `scenery` | whose are the collision marks; do clients show what stands; does what is used up come back; are paths cheapest | 2 players, each of the five kinds, 2 clicks and 2 walks or teleports, at most 3 of both: two handlers and a timer on one object; all ties and both limits of the search on a maze of 12 tiles with a wall, a diagonal wall and a solid tile |

`MCShop` takes ten times the code's price rate, so that small amounts reach the cap that the
real rate reaches at large ones. In `Fight` the periods are the smallest that
keep the order of the real ones (fight 2 ticks < rest 3 or 4 < respawn 16); the
assumption `FightAssumption` states that order. A task table (`Task`), an item's
copies (`MaxCopies`), trades (`MaxTrades`), time (`MaxTime`), array capacity
(`MaxCap`), equipment points (`MaxPoints`), new items (`MaxNew`), moves (`MaxMoves`),
clicks, trips and inputs (`MaxClicks`, `MaxTrips`, `MaxInputs`) are bounds of the models, not
of the code; each appears in a guard. `Prompt` (GroundItem, Fight) bounds the goroutine of a
dying NPC to one tick. `MaxName` is 12 in the code and 4 in the run, for TLC's integers have 32
bits. Symmetry is used only in runs without liveness.

Deadlock is checked where the system cannot stop (ground items, scenery). It is
not checked where the model may: a hung or crashed or exited server, all tasks,
trades, moves or visits used up.

### What the passing runs show

* *tasklist.* `KeptExactly`: for all its aliasing, the filter keeps exactly what asked to
  run again, in order. `OnlyLateLost`: only what was registered during a cycle is lost.
  `ImplementsContract`: the refinement to `TickContract`. `StallReturns`,
  `TickEndsUnlessExpired`: liveness, conditional on no loss and no deadline.
* *admission.* `IndexAccounting` (an index is held once or free once, in the middle of
  logins and logouts too, and none is lost), `NoneForgotten` (the removal loop forgets no
  failure that counts), `AtMostLimit`.
* *session.* `NoZombie` (a destroyed session does not stay listed), `SavedOnce`;
  *session_live*: `LogoutCompletes`, `TicksGoOn`, as long as nothing panicked and the
  queue has room.
* *profile.* `ExactlyOnce` (unless disturbed, and the model says by what; what is stored
  is of one save even when saves fail), `LeaversAreSaved` (every save ends: done, logged as
  failed, or lost with the process),
  `AwardsCatchUp` (no experience is lost, the maximum is never too low), `RecordReturns`
  (attributes come back; times up to a minute early).
* *kit.* `Conserved` (nothing is doubled, and only limits and a raced deletion lose),
  `WornIsShown`, `ReloadsSame` (for every order of rows), `DearestStay`.
* *grounditem.* `NeverLost` (a spawned item is listed or somebody will bring it
  back), `PrivateToOwner`, `TickingLeaves`, `SpawnComesBack`.
* *shop.* `ExactWhenAlone` (no goods appear or vanish unless trades overlapped),
  `NoMoneyPump` (no order of trades that do not overlap gains coins), `Normalises`.
* *fight.* `OnlyWinnersStranded` (whoever fights has a task that ends it, killers
  excepted), `OneTaskPerNpcFight` (a player and the NPC are in one fight task at most, for
  the rest after a fight outlasts its task), `LoneHunterOneDrop`.
* *view.* `ClientAgrees`, `SeesAllNear`, `NoGhosts`, `AppearanceKnown`, each with the
  exceptions its comment names, and `ChatReturns`.
* *scenery.* `MarksMatch`, `ClientShows`, `ComesBack` (as long as nothing whole stands there, a
  timer or handler is on its way, unless the tick list dropped the timer), `NeverThroughShut`,
  `CheapestPaths`.

Evaluated once, as ASSUMEs of the MC modules: `ShiftedIsLoop` (the throttle's loop),
`LevelsMatch` (levels and experience are inverse), `FieldsReturn`, `NumbersReturn`,
`StringsReturn` (what is packed is read), `NamesReturn` (a name's hash stands for it).

Each property of a passing run has a mutant of a mapped definition (listed in
`PROJECT.json`) that violates it. `ChatReturns`, `AwardsCatchUp`, `RecordReturns` and
`CheapestPaths` are of the form `Init => P` with a `P` about pure operators: TLC evaluates them
in the initial states.

## Refuted statements

One disagreement is a run of its own, `session_twice`: two logins of one account, handled
before either session's goroutine has listed its player, both pass. The other statements
below are refuted by the configuration named, or by one that differs from the run's as said.

| Statement | Configuration | What happens |
|---|---|---|
| `RunAgainNextCycle` (TaskList) | `TaskListLost.cfg` | a task registered during a cycle is dropped when the filtered list is assigned |
| `TicksGoOn` (TaskList) | `TaskList.cfg` with this PROPERTY | past the deadline the runner leaves `done` open, the engine waits for ever |
| `ErrorRemoves` (TaskList) | `TaskList.cfg` with this INVARIANT | a script whose call returned an error is kept (tasks.go:246-247 says removed) |
| `LowestSlot` (PlayerList) | `Admission.cfg` with this PROPERTY | the index handed out is the last freed, not the lowest |
| `GoneFromWorld` (PlayerList) | `Admission.cfg` with this INVARIANT | a logout inside AddPlayer leaves a ghost in the region |
| `RecentIsExact` (LoginThrottle) | `Admission.cfg` with this INVARIANT | the removal loop leaves an entry behind that is too old |
| `WithinMaxPlayers` (Session) | `Session.cfg` with this INVARIANT, `MaxPlayers = 1` | logins of one tick all see the same number of players |
| `UpdateShutsDown` (Session) | `Session.cfg` with this PROPERTY, `FairSpec`, `QueueCap = 1` | the update task fills `logoutQ`, which only the engine running that task empties |
| `OneTaker` (GroundItem) | `GroundItemTaken.cfg` | two players take one dropped item in one tick |
| `OneEntry` (GroundItem) | `GroundItemTaken.cfg` with this INVARIANT | a spawned item is listed twice after two pickups |
| `OwnersForAWhile` (GroundItem) | `GroundItemPrivate.cfg` | an item that stays private at its first pass stays so until it is destroyed |
| `PublicAtSecondPass` (GroundItem) | `GroundItemTaken.cfg` with this INVARIANT | the same, at the second pass (inventory.go: `stage == 1` is the only branch) |
| `KillersFirst` (GroundItem) | `GroundItemTaken.cfg` with this INVARIANT | loot may meet its ticker before it has an owner |
| `StockStays` (Shop) | `ShopStock.cfg` | two buyers of the last piece: a stocked good leaves the shop for good |
| `NothingMislaid` (Shop) | `ShopStock.cfg` with this INVARIANT | AddItem's increment outside the lock loses an update |
| `NoMoneyPump` without its first condition (Shop) | `Shop.cfg` with jugs only, `MCStock` 3, `MCOwned` 0, `ShopNormalDeltaRate = 90`, `Coins = 700`, `RestockTicks = 20` | two players buy one after the other, then both sell at the price before the first sale |
| `BoughtIsListed` (Shop) | `ShopStock.cfg` with this PROPERTY | Get returns what a concurrent trade removes |
| `FightersFight` (Fight) | `FightWinner.cfg` | who kills a player stays in StateFighting (mob.go:24) with no fight |
| `OneDropPerLife` (Fight) | `FightDrops.cfg` | two attackers in one tick both start NPC.Killed |
| `ComesBack` (Fight) | `FightLive.cfg` with this PROPERTY | the NPC's respawn is scheduled during the cycle that killed it, and lost |
| `OneOre` (Scenery) | `Scenery.cfg` with this INVARIANT | two miners find the same rock still whole, replace it one after the other, and both have ore (mining.ank:49-51) |

`FightLive.cfg` itself passes: `LeftAlone`, that a player is freed from an opponent who
left, on an instance without spells and with one task.

The exceptions in the statements of the newer runs are each needed; without them TLC shows, or
the code reads, that

* *Kit.* Equipment points drift when an item replaces one of another bonus (take `MCUnlike` for
  `Bonus`); `::item` with two of an unstackable makes two entries of amount 2 (`MCNewTwo`
  for `NewItems`); a deletion by an index found earlier hits another entry (`overtaken`); a deposit
  into a full bank dereferences its nil `Owner` (`broken`); a full list with a full stack
  reloads short (`Crammed`); the protect-item prayer never counts, for the prayers are
  reset before it is asked for (player.go:1527, 1542).
* *Profile.* The account may come back before its save, and then loads what was stored
  before, while its older session saves over what the newer does. With overlapping awards a
  maximum may exceed what its experience is worth, until the next login. `stat_normalizer.ank:18`
  is an `else if` of the same period, so hits regenerate only with rapid heal on and rapid
  restore off; `setstat.ank:29` lets index 18 pass; `lastLogin` is set (player.go:1025)
  before the login box computes the days since (1042), which are therefore 0; an attribute of an
  unknown type leaves an empty row, and `value[0]` panics at the next login; times lose
  their seconds; the contact list asks a friend list for its own owner (db/player.go:338).
* *View.* `Dec("viewRadius")` on an attribute that is not set gives -1, so after more than 50
  new players or 25 new NPCs a client sees nobody (packetbuilders.go:297 says otherwise); a
  change of appearance reaches only players in the changer's own visible regions, which are
  those in the + directions (404-406); steps onto a target and ladders set coordinates
  without `UpdateRegions`, which leaves strays and ghosts; a Destroy's mark may be wiped by the
  reset before clients have seen it; two enqueues at once lose one, and the UnsetVar at the end of
  an appearance packet (442) erases what was queued since the queue was read; the count of events
  is written before stale ones are skipped; `NewItems` does not ask `VisibleTo`; a replaced
  boundary stays in `LocalObjects`.
* *Scenery.* Two players who replace one object leave two, and marks that belong to none; a rock, a locked door or a web whose timer is scheduled while a tick's tasks run is never put
  back (tasks.go:281), and who stalls then never goes on; scenery
  that changes between the passes of a packet stays stale; a cut web that is put back is not
  shown again; a boundary left behind within three times its radius stays with the client; the
  masks are updated without a lock; those at a seam of two sectors are looked up in the wrong
  one; gates of directions 0, 4 and 6 index out of range at a sector's edge in RemoveObject. Paths lack the first
  tile of the chain; a path to an adjacent tile is empty; past 512 queued nodes it is partial.
* *Chat, packets, names.* `Encipher` counts bytes where the reader counts symbols; the handler
  reads the ciphertext as a string (chat.ank:67), which ends at the first byte 0x00 or 0x0A after
  the first one: 1881 of the 7482 messages of one or two symbols are cut short. `ReadString` skips
  an empty string and returns what follows it. `AddBitmask` of a value too wide sets bits of the
  fields before; `AddSmart1632` is wrong from 2^31 on; a name cut at 12 symbols after a space keeps
  the space, and its hash is that of another name.

## Fairness

* `TaskList`, `Session`, `Fight`: weak fairness of the engine goroutine's next
  step (`Engine`, `Tick`): Go's scheduler is fair to runnable goroutines and the
  ticker fires again. In `Session` also of each pending send and each `Destroy`;
  not of readers, clients or logins, which may stay away.
* `Profile`: weak fairness of each `Destroy` and each save under way; strong fairness of
  `OpenTx`, because other saves may hold the database's writer lock again and again, and it is
  granted in turn. A failed save is not fair and not excluded.
* `Shop`, `Fight`: weak fairness of a handler under way (`Continue`) and of a
  dying NPC's goroutine (`Dies`), never of a player's decision to act.
* `GroundItem`: weak fairness of pickups under way, of the sleepers' and loot's
  goroutines, and of the engine; strong fairness of `StartTasks`, because new
  pickups may begin again and again in a packets phase, which in the program
  ends: each player's handler runs once per tick. The model does not count
  handlers per tick, and the strong fairness stands for that.
* A crash, a deadline, a disconnect, an update have no fairness. `Kit`, `View`, `Scenery` and
  `Admission` state safety only.

## Proofs

Checked with TLAPS, for any values of the constants that satisfy the modules'
assumptions. `SMT` and `Zenon` prove the steps, `PTL` the temporal conclusion.

* `TaskListProofs`. The inductive invariant (`InductiveInvariant`) conjoins types
  with the sharing of arrays: as long as no array is replaced, `list`, `rng` and
  `calls` lie on one array and the filtered list is never longer than the part
  of the range already visited; otherwise appends go to another array. That is
  what makes in-place filtering safe, and is not visible in the properties:
  `UnvisitedIntact` alone says nothing of where an append will write. From it,
  `TypeCorrect`, `UnvisitedStayIntact`, `ListIsWhatWasKept`. Assumptions: arrays
  to choose from (`ArrayAssumption`), `TaskAssumption`.
  `NothingElseLost` needs one thing more (`Accounted`): wherever a cycle has got to, what was
  registered in time is in `ScriptCalls`, among what has been kept, or still before the runner.
  `CycleImplementsContract`: every behaviour of `Spec` satisfies
  `TickContract`'s under the mapping. Initial states map to initial states, and each action
  to the contract's or to a stutter: `Register` to `Accept`, `Open`'s start to `StartCycle`, `Call` to
  `CallNext`, what a call answers to `Answer`, the end of the runner and of the cycle to
  `EndCalls` and `EndCycle`, the deadline to `GiveUp`. The invariant above supplies
  what an array-level step must know: that the rest of the range has not been
  overwritten, and that an append leaves what others read.
* `AdmissionProofs`. Of `PlayerList`: indices are held or free, each once, and none is lost (`IndicesAccounted`,
  `IndicesUnique`), for any set of players. The invariant
  counts the indices players hold between two critical sections too, keeps them
  below `curIdx` and apart from the queue's, and says that a player being removed
  has already lost its own. Of `LoginThrottle`: the slice holds every failure that is still young
  (`ThrottleForgetsNone`), hence at most Limit guesses in a Window
  (`ThrottleHolds`), and stays short (`ThrottleStaysShort`). The strengthening
  is that slice and history are both in order of time; `NoneForgotten` compares
  them from the end. Of `Admission`: each step of `handleLogin` and of the goroutine it spawns is a
  step of the registry, of the throttle, or of neither (`AdmissionList`, `AdmissionThrottle`), so
  that what is proved of the two holds of their composition (`AdmissionSafe`).
  Of `Profile`: `ItemsExactlyOnce`, that is `ExactlyOnce` for any accounts, items and
  visits, from tables in which no item is twice (`FirstApart`). The invariant adds that,
  undisturbed, an account has one session, that what it has loaded is what is stored, that what is
  staged is what is still held, and that a save follows its Destroy; that is also why
  `SavedTogether` survives a crash at any point of a save.
* `SessionProofs`. `SessionsSavedOnce`, `NoZombies` and `QueuesClosedOnce`, for any connections,
  batches and queue lengths. None of them is inductive by itself: a Destroy could overtake the goroutine that
  lists its player, if something could reach `logoutQ` before. The invariant
  (`SessionInvariant`) excludes it: nothing is on its way to `logoutQ`, in it, or being
  destroyed for a session not yet answered; a connection waits in `loginQ` once; a player is
  listed exactly while its goroutine has listed it and it is not gone; a queue is closed by
  Destroy only.
* `GroundItemProofs`. `SpawnsNeverLost` and `PrivateStaysPrivate`, for any players, items and
  stages, from `GroundItemInvariant`: what is listed or found has come into the world, a
  pickup that is not under way has no target, and what a death is still making has been found by
  nobody, so that setting its owner cannot take it from under a pickup. That removing one entry
  keeps those of all other items (`RemovedIsShorter`) is what keeps a spawned item that
  is not the one taken.

* `ItemProofs`, of `Shop`. `AloneIsExact`: `ExactWhenAlone` for any players, goods, prices and
  stocks. What the players hold is a sum, a fold of the community modules; that sums are well
  defined, follow a change of one summand (`SumChanges`) and do not depend on the order in which the
  fold picks (`AnyFirst`) is an induction over subsets, done by looking at a smallest subset for
  which it fails (`SetInduction`). `ShopInvariant` says what is true in the middle of a trade: without
  overlaps one handler runs at a time, what it has read still stands when it stores, a buyer's
  good is listed until it is removed, and the books are out by the one piece it carries.
  `TradingMakesNoneRich`: `NoMoneyPump` from `Margin`, that a shop asks for a piece at least what
  it then pays to have it back. The invariant (`NoGain`) is a potential. Take a piece at `Bid(0)`,
  what the shop pays at its normal amount, and let `Drift(x)` be the sum, over the pieces by which the
  amount is x off normal, of how far the bid was from `Bid(0)`. Then coins, plus the pieces
  gained at `Bid(0)` each, plus the drifts, never grow: a sale leaves them as they are, for it
  pays `Bid(x)` and `Drift(x + 1)` is `Drift(x) + Bid(0) - Bid(x)` (`DriftSteps`); a purchase takes
  `Ask(x) - Bid(x - 1)` from them, which `Margin` makes no gift (`AskAboveBid`); and a restock moves an
  amount toward normal, where the drift is less (`DriftEases`). As drifts are never negative, who
  holds no less than at first has no more coins. It needs the balance of `ShopInvariant`: with it the
  level of a good can be read off what was supplied and is held, which change when the coins do,
  while the amount changes some steps later.
* `ItemProofs`, of `Kit`: `KitConserved`, `KitWornIsShown`, `KitDearestStay`, for any ids, capacities,
  prices, body parts and requests. The invariant (`KitInv`) conjoins `Lists` (both lists packed,
  nothing in the bank worn, only what can be worn worn), `Heap` (the ground is a bag of items with
  copies to count), `Tracks` (unless the engine deleted entries meanwhile, the index an item
  action has found is that of its item), types, and the account of each id. `WellPacked` is in
  it because the accounts need it: `Added` merges into the only stack there is, and the amount
  `RemoveByID` takes is that of as many entries only while each counts for one. Each amount
  is a sum over a list's entries or the ground's kinds, so every action has a lemma of what it moves:
  `Without`, `Added`, `Taken`, `HeapJoin`, `HeapTake` change the amount of one id by as much as
  they say (`WeighWithout`, `WeighAppend` and their like), and `KitStepInv` puts them together, one action at a time.
  `Conserved` assumes `OneByOne`, that AddItem's callers ask for unstackable items one at a time
  (a mined ore, a caught fish; `::item` does not): asked for n, it makes n entries of n.
  For what is worn, all actions but `Equip` and `Unequip` are of one kind (`Carried`):
  they take off what they delete (`Dequipped`) and then append or count entries, which puts nothing
  on. `Dressed` (items worn are `Apart`, each place shows what is worn there, the points are their
  sum) survives that, and equipping, if items shown at one place cover a common part and
  items that do have one bonus (`Alike`); a definition without the first would show one item over
  another, and without the second points drift, as they do in the code (below).
  A death sorts, spares the first and removes by id and amount: that it takes nothing dearer
  than what it leaves (`DeathSparesDearest`) follows from the order at the end of `sort.Sort`, whichever
  it is of the orders `Sorted` allows, although equal items are removed from the end of the list.
  The runs' instances satisfy `OneByOne`, `Alike` and `Margin`: `MCKit` and `MCShop` state so as
  assumptions, which TLC evaluates.
* `FightProofs`. `NobodyIsStranded` and `NpcFightsOnce`, for any players, tasks, hits and delays
  that keep the order of the code's (`FightAssumption`). What makes them inductive (`Ending`) is
  about time: whoever is in a task but no longer fights rests for longer than the task
  has yet to wait, because a release rests `RestTicks` and a task waits `FightTicks` at
  most; so who may be attacked again is in no task with the NPC, and no old task ends a new fight.
  `Freeing` is who fights without a task: a winner over a player, or who waits for a death's
  goroutine. `HuntedAloneDropsOnce` adds the NPC's life: a death outside the tasks phase is a
  spell's and the only one, nobody casts at a dying NPC, its return finds no task with it, and one
  hunter in one way makes one death. It assumes `OneCaster`, as the run has: a second caster,
  who read the hits before the NPC died, would write them back after (`Strike`).
* `ViewProofs`. `ClientsAgree`, `AllNearAreSeen`, `NobodyHaunts` and `LooksAreKnown`, for any
  finite set of mobs, any tiles, radius and limits of the packets. The core is `Adding`: until a client
  has had its packet, where it shows a mob plus the direction marked is where the mob is, or
  the mob is marked as removed; afterwards it shows where the mob is, unless another
  goroutine moved it on (`late`) or a mark was reset too early (`lost`). The others follow a mark,
  a region's list or an event from the change to the packet that tells of it (`Marked`,
  `Haunting`, `Covered`, `Appearing`), through every turn of the phases. For appearances, at any
  moment the latest of a player shown is known, or in the queue, or yet to be stored by one of
  the goroutines (`Coming`); what is queued between the reading of a queue and its
  unsetting is the case that makes `since` necessary.
* `SceneryProofs`. `MarksAreThoseOfObjects`, `UsedUpComesBack`, `ClientsShowWhatStands`,
  `ShutIsShut` and `CrowdsAreRaces`, for any players, tiles and delays, with the slack within which a
  client keeps a boundary at most the radius. The invariant counts who is about to put an
  object there (`OneAtATime`): nobody while one stands, one goroutine or timer while none does, as long
  as none was replaced twice; `UsedUp`, which holds in spite of such races and of dropped
  timers, says who brings back what is gone, or which object lost its timer; `Known` is what a client was told, in the middle of its packet too. That no step goes
  through what is shut is `Tiles`' arithmetic, on any tile and over sector seams.

Only model-checked:

* all liveness, which is out of TLAPS's reach;
* `ReloadsSame` (Kit): what a row makes of a list depends on all rows before it, and the statement
  that would be proved by induction along the rows is about every list the rows may have made so far,
  one induction over data inside another;
* what is said of pure functions (`AwardsCatchUp`, `RecordReturns`, `ChatReturns`,
  `CheapestPaths` and the ASSUMEs), which are fixed tables or recursive definitions.

## Not modelled

Trade and duel scripts call Go functions with results and arguments those do
not have (`world.getPlayer` returns two values, `SetTradeTargetAccepted` takes none),
so their handlers fail before they change state. The handlers in
`pkg/game/net/handlers` are imported by nothing. The web site, configuration, the script
host and definitions are I/O or data. ISAAC, XTEA, RSA and the password hash are arithmetic on
words of 32 bits and more, which TLC does not have. Of packets, only positions, objects and
appearance are modelled as events; the layout of the rest is left out, as are the
statements of the database for passwords, recovery and appearance. Loading the landscape is
left out. Two concurrent writers of an NPC's damage table (its methods copy the lock they take)
end the process in Go's map check; the tables only decide who gets experience and
loot, and are left out of `Fight`.

Hazards without a property that could catch them: a region that lists who left, a tick past its
deadline, a `logoutQ` that only its sender could empty, overlapping purchases, a stocked good that leaves the shop,
a second death of an NPC and the killer who goes on fighting are all reached, and shown
among the refuted statements; sends on queues that Destroy has closed are reached (`crash`),
and no text of the repository rules them out; a view that shrinks to nothing needs more mobs than
the run has; a torn list header is not modelled. A passing property beside one of them says
what still holds: `TickEndsUnlessExpired` of ticks in time, `TicksGoOn` with room in the queue,
`ExactWhenAlone` of trades that do not overlap.

## Plan

Left to do:

1. A tick as an abstract specification (phases, and what may run in each), implemented by
   Session's engine and used by GroundItem, Shop, Fight, View and Scenery.
2. `Profile` with `Session`: the save that `SavedOnce` counts is the one whose order
   `ExactlyOnce` depends on.
3. The 5000-packet queues of a session at their limit, and the 15 seconds of a silent login.
