------------------------------- MODULE Scenery ------------------------------
(***************************************************************************)
(* One place of the scenery: an object that players change from            *)
(* goroutines of their own and timers change back, the collision marks it  *)
(* leaves, who walks there and what clients are shown.  From               *)
(* pkg/game/world/world.go, player.go, packetbuilders.go and entitylist.go, *)
(* and from scripts/packets/scenary.ank, general/doors.ank, general/       *)
(* web.ank, skills/mining.ank and tutorial_island/doors.ank.               *)
(*                                                                         *)
(*   gate    scenery that bars a side of its tiles, and is opened and shut *)
(*   door    a boundary that is opened and shut; it bars nothing (solid    *)
(*           boundaries that are doors count as passable)                  *)
(*   locked  a boundary that is replaced by a doorframe, which does bar    *)
(*           the way, and put back by a timer, while the player is         *)
(*           teleported past it                                            *)
(*   rock    scenery that is mined out and comes back                      *)
(*   web     a boundary that is cut away and comes back, the same object   *)
(***************************************************************************)
EXTENDS Tiles, Sequences, SequencesExt

CONSTANTS Player,                 \* their indices
          Kinds,                   \* of those five: what may stand at the place
          Place,                   \* its tile
          Ground, Away,            \* bound: the tiles players walk on, and others they teleport to
          Start,                   \* where they are at first
          Radius, Slack,           \* ViewRadius, and 5: boundaries are kept up to Radius + Slack
          StallTicks, BackTicks,   \* 3, and 5 or more
          MaxClicks, MaxTrips, MaxInputs \* bounds: clicks, walks and teleports, and all of them

ASSUME SceneryAssumption ==
  /\ Kinds \subseteq {"gate", "door", "locked", "rock", "web"}
  /\ Player \subseteq Nat /\ {Radius, Slack, StallTicks, BackTicks} \subseteq Nat
  /\ Ground \cup Away \cup {Place} \subseteq Tile /\ Start \in Ground
  /\ Slack <= Radius

VARIABLES
  kind,
  list,                      \* the region's Objects at the place: [serial, id]
  clips,
  made,                      \* ObjectCounter
  at, path,
  action,                    \* tick action: the object a player is on its way to
  hand,                      \* the goroutine of a player's handler (Batching while it runs)
  timers,                    \* closures the tick list was given, each of one player's use
  ore,                       \* how often the rock was mined since it last came back
  local, shown,              \* LocalObjects, and what the client shows at the place
  phase, todo,
  clicks, trips,
  raced,                     \* history: an object was replaced or put back twice
  lost,                      \* history: objects that are there, or were cut away, and have no timer
  fresh, torn                \* history: no change or teleport since, or a change within, a player's packet

world == <<list, clips, made, raced, lost>>
body == <<at, path>>
client == <<local, shown>>
turn == <<phase, todo>>
bounds == <<clicks, trips>>
vars == <<kind, world, body, action, hand, timers, ore, client, turn, bounds, fresh, torn>>

-----------------------------------------------------------------------------
(* What stands there. *)
Nothing == [serial |-> 0, id |-> "none"]
NoPath == <<>>
Idle == [at |-> "idle", object |-> Nothing, due |-> 0]
Boundary == kind \in {"door", "locked", "web"}
Direction == IF kind = "gate" THEN 2 ELSE 0
Scene == [place |-> Place, direction |-> Direction, boundary |-> Boundary]

Clip(id) ==
  CASE kind = "gate" -> IF id = "whole" THEN "shut" ELSE "open"
    [] kind = "rock" -> "solid"
    [] kind = "locked" /\ id = "changed" -> "shut"
    [] OTHER -> "open"
Def(id) == [clip |-> Clip(id), w |-> 1, h |-> IF kind = "gate" THEN 2 ELSE 1]

GetObject == IF list = <<>> THEN Nothing ELSE list[1]
Standing == ToSet(list)
Without(o) == RemoveFirst(list, o)

Changed == /\ fresh' = [p \in Player |-> FALSE]
           /\ torn' = [p \in Player |-> torn[p] \/ (~Boundary /\ <<p, "news">> \in todo)]

(* Whoever replaces an object that is no longer there takes its marks away all
   the same. *)
RemoveObject(o) ==
  /\ list' = Without(o)
  /\ clips' = clips \ Clears(Scene, Def(o.id))
  /\ raced' = (raced \/ o \notin Standing)
  /\ Changed /\ UNCHANGED lost

AddObject(o) ==
  /\ list' = Append(list, o)
  /\ clips' = clips \cup Marks(Scene, Def(o.id))
  /\ raced' = (raced \/ o \in Standing)
  /\ Changed /\ lost' = lost \ {o}

NewObject(id) == [serial |-> made + 1, id |-> id]

-----------------------------------------------------------------------------
(* Packets phase: a packet, the tick action, then TraversePath.  Players take
   their turns side by side, here and in the update phase; they touch nothing of
   one another's, so one after another is enough. *)
First(p, part) == <<p, part>> \in todo /\ \A other \in todo : p <= other[1]
Turn(p, part) == phase = "packets" /\ First(p, part)
Then(p, part, next) == todo' = (todo \ {<<p, part>>}) \cup next /\ UNCHANGED phase
Walks(p) == IF path'[p] = NoPath THEN {} ELSE {<<p, "walk">>}
Acts(p) == IF action'[p] = Nothing THEN Walks(p) ELSE {<<p, "action">>}

Usable(o) == o.id = "whole" \/ (o.id = "changed" /\ kind \in {"gate", "door"})
More == clicks + trips < MaxInputs
Click(p) ==
  /\ hand[p] = Idle /\ Usable(GetObject) /\ clicks < MaxClicks /\ More
  /\ action' = [action EXCEPT ![p] = GetObject] /\ clicks' = clicks + 1
  /\ UNCHANGED <<body, trips>>

Walk(p) ==                            \* SetPath, and ResetAll ends the tick action
  /\ hand[p] = Idle /\ trips < MaxTrips /\ More /\ trips' = trips + 1
  /\ \E t \in Ground \ {at[p]} : path' = [path EXCEPT ![p] = t]
  /\ action' = [action EXCEPT ![p] = Nothing] /\ UNCHANGED <<at, clicks>>

Travel(p) ==
  /\ hand[p] = Idle /\ trips < MaxTrips /\ More /\ trips' = trips + 1
  /\ \E t \in (Ground \cup Away) \ {at[p]} : at' = [at EXCEPT ![p] = t]
  /\ path' = [path EXCEPT ![p] = NoPath] /\ UNCHANGED <<action, clicks>>

HandlePacket(p) ==
  /\ Turn(p, "packet")
  /\ Click(p) \/ Walk(p) \/ Travel(p) \/ UNCHANGED <<body, action, bounds>>
  /\ Then(p, "packet", Acts(p))
  /\ UNCHANGED <<kind, world, hand, timers, ore, client, fresh, torn>>

(* The object that was clicked on must still be there; it is used once the
   player is at it. *)
Bounds(o) == Boundaries(Scene, Def(o.id))
Corner(o, i) == <<Bounds(o)[i][1], Bounds(o)[i][2]>>
At(p, o) ==
  IF kind = "web"                     \* an item is used on it
  THEN /\ WithinArea(at[p], Bounds(o))
       /\ \E i \in 1..2 : ReachableCoords(clips, at[p], Corner(o, i))
  ELSE AtObject(clips, at[p], Scene, Def(o.id), IF Boundary THEN "solid" ELSE Clip(o.id))

(* The handler goes on in a goroutine of its own: mining and cutting stall. *)
Begun(o) == [at |-> IF kind \in {"rock", "web"} THEN "call" ELSE "remove", object |-> o, due |-> 0]

TickAction(p) ==
  /\ Turn(p, "action")
  /\ LET o == action[p]
     IN \/ /\ GetObject # o \/ hand[p] # Idle
           /\ action' = [action EXCEPT ![p] = Nothing] /\ UNCHANGED <<path, hand>>
        \/ /\ GetObject = o /\ hand[p] = Idle /\ ~At(p, o)
           /\ action' = IF kind = "web" /\ path[p] = NoPath
                        THEN [action EXCEPT ![p] = Nothing] ELSE action
           /\ UNCHANGED <<path, hand>>
        \/ /\ GetObject = o /\ hand[p] = Idle /\ At(p, o)
           /\ path' = [path EXCEPT ![p] = NoPath] /\ action' = [action EXCEPT ![p] = Nothing]
           /\ hand' = [hand EXCEPT ![p] = Begun(o)]
  /\ Then(p, "action", Walks(p))
  /\ UNCHANGED <<kind, world, at, timers, ore, client, bounds, fresh, torn>>

Step(p) == NextTileToward(at[p], path[p])
TraversePath(p) ==
  /\ Turn(p, "walk") /\ Then(p, "walk", {})
  /\ IF path[p] = at[p] \/ ~ReachableCoords(clips, at[p], path[p])
     THEN path' = [path EXCEPT ![p] = NoPath] /\ UNCHANGED at
     ELSE at' = [at EXCEPT ![p] = Step(p)] /\ UNCHANGED path
  /\ UNCHANGED <<kind, world, action, hand, timers, ore, client, bounds, fresh, torn>>

-----------------------------------------------------------------------------
(* A handler's goroutine.  What it gives the tick list while a tick's tasks run
   is dropped: then a Stall never returns, and an object gets no timer. *)
Dropped == phase = "tasks"
Goto(p, label) == hand' = [hand EXCEPT ![p].at = label]
Leaves(p) == hand' = [hand EXCEPT ![p] = Idle]
Keeps == UNCHANGED <<kind, action, client, turn, bounds>>

Stalls(p) ==
  /\ hand[p].at = "call"
  /\ IF Dropped THEN Goto(p, "stuck")
     ELSE hand' = [hand EXCEPT ![p].at = "stall", ![p].due = StallTicks]
  /\ Keeps /\ UNCHANGED <<world, body, timers, ore, fresh, torn>>

TooLate(o) == kind = "rock" /\ GetObject # o      \* only miners look again
Stalled(p) ==
  /\ hand[p].at = "awake"
  /\ \/ Leaves(p) /\ UNCHANGED ore                        \* too late, or no luck
     \/ /\ ~TooLate(hand[p].object) /\ Goto(p, "remove")
        /\ ore' = IF kind = "rock" THEN ore + 1 ELSE ore
  /\ Keeps /\ UNCHANGED <<world, body, timers, fresh, torn>>

TakeAway(p) ==
  /\ hand[p].at = "remove" /\ RemoveObject(hand[p].object)
  /\ Goto(p, IF kind = "web" THEN "schedule" ELSE "add")
  /\ Keeps /\ UNCHANGED <<made, body, timers, ore>>

ReturnsRock == kind = "rock"                                         \* mutant
Returns == kind \in {"rock", "locked"}
Toggled(o) == IF o.id = "whole" THEN "changed" ELSE "whole"
PutNew(p) ==
  /\ hand[p].at = "add"
  /\ LET o == NewObject(Toggled(hand[p].object))
     IN /\ AddObject(o) /\ made' = made + 1
        /\ IF ~Returns THEN Leaves(p)
           ELSE hand' = [hand EXCEPT ![p].at = IF kind = "locked" THEN "teleport" ELSE "schedule",
                                     ![p].object = o]
  /\ Keeps /\ UNCHANGED <<body, timers, ore>>

Past(t) == IF t = Place THEN North(Place) ELSE Place
Teleport(p) ==
  /\ hand[p].at = "teleport" /\ Goto(p, "schedule")
  /\ at' = [at EXCEPT ![p] = Past(@)] /\ UNCHANGED path
  /\ fresh' = [fresh EXCEPT ![p] = FALSE]
  /\ Keeps /\ UNCHANGED <<world, timers, ore, torn>>

Wait(p) == [of |-> <<p, clicks>>, at |-> "wait", object |-> hand[p].object, due |-> BackTicks]
Schedules(p) ==
  /\ Leaves(p)
  /\ IF Dropped THEN lost' = lost \cup {hand[p].object} /\ UNCHANGED timers
     ELSE timers' = timers \cup {Wait(p)} /\ UNCHANGED lost
Schedule(p) ==
  /\ hand[p].at = "schedule" /\ Schedules(p)
  /\ Keeps /\ UNCHANGED <<list, clips, made, raced, body, ore, fresh, torn>>

-----------------------------------------------------------------------------
(* Tasks phase: the runner of the tick list wakes who stalled long enough and runs
   the closures that are due, one at a time, beside the goroutines; then a tick has
   passed. *)
Running == phase = "tasks" /\ \A t \in timers : t.at = "wait"
Sleeps(p) == hand[p].at = "stall"
Wakes(p) ==
  /\ Running /\ Sleeps(p) /\ hand[p].due = 0 /\ Goto(p, "awake")
  /\ Keeps /\ UNCHANGED <<world, body, timers, ore, fresh, torn>>

TimerRemoves(t) ==
  /\ Running /\ t.due = 0
  /\ timers' = (timers \ {t}) \cup {[t EXCEPT !.at = "add"]}
  /\ IF kind = "web" THEN UNCHANGED <<list, clips, raced, lost, fresh, torn>>
     ELSE RemoveObject(t.object)
  /\ Keeps /\ UNCHANGED <<made, body, hand, ore>>

TimerAdds(t) ==
  /\ t.at = "add" /\ timers' = timers \ {t}
  /\ IF kind = "web" THEN AddObject(t.object) /\ UNCHANGED made
     ELSE AddObject(NewObject("whole")) /\ made' = made + 1
  /\ ore' = 0
  /\ Keeps /\ UNCHANGED <<body, hand>>

Due(t) == t.due = 0
Passed(t) == [t EXCEPT !.due = IF @ = 0 THEN 0 ELSE @ - 1]
Tasks ==
  /\ Running /\ (\A t \in timers : ~Due(t)) /\ (\A p \in Player : Sleeps(p) => ~Due(hand[p]))
  /\ phase' = "update" /\ todo' = Player \X {"scan"}
  /\ hand' = [p \in Player |-> Passed(hand[p])]
  /\ timers' = {Passed(t) : t \in timers}
  /\ UNCHANGED <<kind, world, body, action, ore, client, bounds, fresh, torn>>

-----------------------------------------------------------------------------
(* Update phase: ObjectLocations or BoundaryLocations goes through LocalObjects,
   and then through what the regions have that is new. *)
Updating(p, part) == phase = "update" /\ First(p, part)
Within(p, radius) == LongestDelta(at[p], Place) <= radius
Nearby(p) == Within(p, Radius * 2)

StaleFar(p) == {o \in local[p] : ~Nearby(p)}                         \* mutant
StaleScenery(p) == {o \in local[p] : ~Nearby(p) \/ GetObject # o}
ScanObjects(p) ==
  /\ local' = [local EXCEPT ![p] = @ \ StaleScenery(p)]
  /\ shown' = IF StaleScenery(p) = {} THEN shown ELSE [shown EXCEPT ![p] = "none"]

(* A boundary is told to be another one, or "none", which is one that does not
   show; a removal between three times the radius and nine times is sent for a
   place of its own. *)
ScanBoundaries(p) ==
  IF local[p] = {} THEN UNCHANGED client
  ELSE IF ~Within(p, Radius + Slack)
  THEN /\ local' = [local EXCEPT ![p] = {}]
       /\ shown' = IF Within(p, (Radius + Slack) * 3) \/ Within(p, Radius * 9)
                   THEN shown ELSE [shown EXCEPT ![p] = "none"]
  ELSE /\ shown' = IF local[p] \subseteq {GetObject} THEN shown ELSE [shown EXCEPT ![p] = GetObject.id]
       /\ UNCHANGED local

Scan(p) ==
  /\ Updating(p, "scan") /\ Then(p, "scan", {<<p, "news">>})
  /\ IF Boundary THEN ScanBoundaries(p) ELSE ScanObjects(p)
  /\ fresh' = [fresh EXCEPT ![p] = TRUE]
  /\ torn' = [torn EXCEPT ![p] = @ /\ GetObject \in local[p]]
  /\ UNCHANGED <<kind, world, body, action, hand, timers, ore, bounds>>

NewObjects(p) == {i \in 1..Len(list) : Nearby(p) /\ list[i] \notin local[p]}
News(p) ==
  /\ Updating(p, "news") /\ Then(p, "news", {})
  /\ local' = [local EXCEPT ![p] = @ \cup {list[i] : i \in NewObjects(p)}]
  /\ shown' = IF NewObjects(p) = {} THEN shown
              ELSE [shown EXCEPT ![p] = list[Max(NewObjects(p))].id]
  /\ UNCHANGED <<kind, world, body, action, hand, timers, ore, bounds, fresh, torn>>

NextPhase ==
  /\ todo = {}
  /\ \/ phase = "packets" /\ phase' = "tasks" /\ todo' = {}
     \/ phase = "update" /\ phase' = "packets" /\ todo' = Player \X {"packet"}
  /\ UNCHANGED <<kind, world, body, action, hand, timers, ore, client, bounds, fresh, torn>>

-----------------------------------------------------------------------------
Init ==
  /\ kind \in Kinds
  /\ list = <<[serial |-> 1, id |-> "whole"]>> /\ made = 1
  /\ clips = Marks(Scene, Def("whole"))
  /\ at = [p \in Player |-> Start] /\ path = [p \in Player |-> NoPath]
  /\ action = [p \in Player |-> Nothing] /\ hand = [p \in Player |-> Idle]
  /\ timers = {} /\ ore = 0
  /\ local = [p \in Player |-> {}] /\ shown = [p \in Player |-> "none"]
  /\ phase = "update" /\ todo = Player \X {"scan"}
  /\ clicks = 0 /\ trips = 0
  /\ raced = FALSE /\ lost = {}
  /\ fresh = [p \in Player |-> FALSE] /\ torn = [p \in Player |-> FALSE]

PacketsOf(p) == HandlePacket(p) \/ TickAction(p) \/ TraversePath(p)
HandlerOf(p) == Stalls(p) \/ Stalled(p) \/ TakeAway(p) \/ PutNew(p) \/ Teleport(p) \/ Schedule(p)
UpdateOf(p) == Scan(p) \/ News(p)
TimersRun == \E t \in timers : TimerRemoves(t) \/ TimerAdds(t)
Next ==
  \/ NextPhase \/ Tasks \/ TimersRun
  \/ \E p \in Player : PacketsOf(p) \/ HandlerOf(p) \/ Wakes(p) \/ UpdateOf(p)

Spec == Init /\ [][Next]_vars

-----------------------------------------------------------------------------
(* Types. *)
Object == [serial : Nat, id : {"whole", "changed"}]
Stages == {"idle", "call", "stuck", "stall", "awake", "remove", "add", "teleport", "schedule"}
Hand == [at : Stages, object : Object \cup {Nothing}, due : Nat]
Timer == [of : Player \X Nat, at : {"wait", "add"}, object : Object, due : Nat]
TypeOK ==
  /\ kind \in Kinds /\ list \in Seq(Object) /\ {made, ore, clicks, trips} \subseteq Nat
  /\ raced \in BOOLEAN /\ {fresh, torn} \subseteq [Player -> BOOLEAN]
  /\ at \in [Player -> Tile] /\ path \in [Player -> Tile \cup {NoPath}]
  /\ action \in [Player -> Object \cup {Nothing}] /\ hand \in [Player -> Hand]
  /\ timers \subseteq Timer /\ lost \subseteq Object
  /\ local \in [Player -> SUBSET Object] /\ shown \in [Player -> {"none", "whole", "changed"}]
  /\ phase \in {"packets", "tasks", "update"}
  /\ todo \subseteq Player \X {"packet", "action", "walk", "scan", "news"}

(* Nothing stands twice at a place, also while it is being replaced, unless an
   object was replaced that had already been replaced: handlers look whether it
   is still there when the player arrives, and miners once more, but replace it
   later. *)
OnlyRacesCrowd == Len(list) > 1 => raced

(* The marks are those of what stands there, whatever order handlers and timers
   remove and add it in, unless it has been replaced twice. *)
MarksMatch == ~raced => clips = UNION {Marks(Scene, Def(o.id)) : o \in Standing}

(* Nobody walks through a shut gate, on the south side of the place, nor through
   the doorframe a locked door is replaced by, on the north side. *)
Side == IF kind = "gate" THEN South(Place) ELSE North(Place)
Crosses(p) == {at[p], at'[p]} = {Place, Side}
NeverThroughShut ==
  [][\A p \in Player : TraversePath(p) /\ Crosses(p) =>
       raced \/ \A o \in Standing : Clip(o.id) # "shut"]_vars

(* Once a client has been told, and as long as nothing changes after it and its
   player is not teleported from a door, it shows
   what stands there, however often that was changed before, opened and shut, or
   left behind and come back to: unless scenery was changed in the middle of its
   packet or replaced twice, two boundaries stand there or none, or the same one
   has been put back. *)
ClientShows ==
  \A p \in Player :
    /\ fresh[p] /\ ~torn[p] /\ <<p, "news">> \notin todo
    /\ phase # "packets" /\ phase # "tasks" /\ <<p, "scan">> \notin todo
    /\ Within(p, IF Boundary THEN Radius + Slack ELSE Radius * 2)
    /\ (IF Boundary THEN list # <<>> ELSE ~raced) /\ Len(list) <= 1 /\ kind # "web"
    => shown[p] = GetObject.id

(* What is mined out, cut away or opened by teleport is never left so: as long as
   nothing whole stands there a timer or a handler is on its way to bring it
   back, also after several players used it at once.  Unless schedule gave the
   tick list the timer while a tick's tasks ran, which drops it: then what that
   timer would have replaced still stands, or the web is still away. *)
ComesBack ==
  kind \in {"rock", "web", "locked"} /\ (\A o \in Standing : o.id # "whole")
    => \/ timers # {} \/ \E p \in Player : hand[p].at \in {"add", "teleport", "schedule"}
       \/ IF kind = "web" THEN lost # {} ELSE lost \cap Standing # {}

-----------------------------------------------------------------------------
(* Refuted.  mining.ank:49-51: "if the pointers don't match, then someone else's
   mine action depleted the ore and we are too late". *)
OneOre == kind = "rock" => ore <= 1
=============================================================================
