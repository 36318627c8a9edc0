-------------------------------- MODULE View --------------------------------
(***************************************************************************)
(* What each client is told of the players and NPCs around it: regions and *)
(* their lists, the synchronization masks, LocalPlayers and LocalNPCs, the *)
(* view radius and the queue of appearance events.  From                   *)
(* pkg/game/world/packetbuilders.go, mob.go and player.go, in the order in *)
(* which Server.Start goes through them.                                   *)
(*                                                                         *)
(* The world is a line of tiles, cut into regions.  A position packet says *)
(* of each local mob whether it stays, moves one tile or is removed, then  *)
(* names the new ones with their place; "seen" is what the client makes of *)
(* it, mob by mob.  Indices are not used again here (see PlayerList).      *)
(*                                                                         *)
(* Two goroutines act for a player: the one of its turn, and one started   *)
(* with go at any time, as NPC.Killed is by a task, which gives experience *)
(* and teleports.  Inc of a ticket, and append with SetVar, are one step.  *)
(***************************************************************************)
EXTENDS Integers, Sequences, FiniteSets, SequencesExt

CONSTANTS Player, Npc,
          LastTile, RegionSize,
          FullRadius,                         \* 16, when nothing is stored
          MaxLocal, MaxNewPlayers, MaxNewNpcs, \* 255, 50, 25
          Newcomer, Leaver,                   \* players that log in later, that may log out
          Killer,                             \* players that get experience when an NPC dies
          StartPoint,                         \* mob -> the tile it starts at
          DeathPoint,                         \* where dead NPCs are put
          Landing,                            \* where teleports and ladders lead
          Pivots,                             \* whether walks to a target and ladders are taken
          MaxMoves                            \* the bound of moves, fights, deaths, new looks and logouts

Mob == Player \cup Npc
Writer == Player \X {"turn", "script"}         \* the goroutines that write into queues
Tile == 0..LastTile
Unset == FullRadius + 1                       \* an attribute that is not there

ASSUME ViewAssumption ==
  /\ Player \cap Npc = {} /\ Newcomer \cup Leaver \cup Killer \subseteq Player
  /\ StartPoint \in [Mob -> Tile] /\ DeathPoint \in Tile /\ Landing \subseteq Tile
  /\ {RegionSize, FullRadius} \subseteq Nat \ {0}
  /\ {LastTile, MaxLocal, MaxNewPlayers, MaxNewNpcs} \subseteq Nat
  /\ IsFiniteSet(Mob)

VARIABLES
  at,                 \* the tile of each mob
  removed, step,      \* its SyncMask: SyncRemoved, and SyncMoved with its direction (0: not set)
  listing,            \* the regions whose lists have it
  life,               \* a player's way through login and Destroy; an NPC's "removed"
  ready,              \* players that Initialize has run for
  viewRadius,         \* the attribute
  seen,               \* player -> the mobs its client shows, and where
  ticket,             \* appearanceTicket
  events,             \* the queue of appearance events
  writer,             \* of each: what it has yet to queue, and the queue it has read for one of these
  known,              \* player -> the last ticket its client was sent of each
  phase, todo,        \* of the tick: who has yet to run
  moves,
  late,               \* history: mobs changed by another goroutine since positions are being sent
  lost,               \* history: mobs whose mark was reset too early
  missed,             \* history: pairs of a viewer and one whose latest appearance never reached its
                      \* queue, or was overwritten or erased there
  since               \* history: pairs of a viewer and one queued for it since its queue was last read

body == <<at, removed, step, listing>>
client == <<seen, known, viewRadius>>
queues == <<ticket, events, writer>>
turn == <<phase, todo>>
history == <<late, lost, missed, since>>
vars == <<body, life, ready, client, queues, turn, moves, history>>

Least(a, b) == IF a < b THEN a ELSE b
Event(p) == [who |-> p, ticket |-> ticket[p]]
Idle == [left |-> {}, job |-> {}, queue |-> <<>>]
Quiet(p) == writer[<<p, "turn">>] = Idle

-----------------------------------------------------------------------------
(* Regions.  Only those at and after the one that has the tile are visible. *)
Region(x) == x \div RegionSize
VisibleRegions(x) == {Region(x), Region(x) + 1}
Near(x, y, radius) == x - y <= radius /\ y - x <= radius
ListedNear(p) == {m \in Mob : listing[m] \cap VisibleRegions(at[p]) # {}}

VarInt(p) == IF viewRadius[p] = Unset THEN FullRadius ELSE viewRadius[p]
ViewRadius(p) == VarInt(p) - 1

(* Dec takes an attribute that is not there for 0. *)
Dec(p) == IF viewRadius[p] = Unset THEN -1 ELSE viewRadius[p] - 1

Online(p) == life[p] \in {"listed", "in", "marked", "unplaced"}
Sending == phase \in {"update", "reset"}
Late(S) == late' = (IF Sending THEN late \cup S ELSE late) /\ UNCHANGED lost

-----------------------------------------------------------------------------
(* Moving.  SetLocation and Teleport go through UpdateRegions first. *)
UpdateRegions(m, x) ==
  listing' = IF Region(x) = Region(at[m]) THEN listing
             ELSE [listing EXCEPT ![m] = (@ \ {Region(at[m])}) \cup {Region(x)}]

SetCoordsSilently(m, x, teleport) ==                        \* mutant
  /\ at' = [at EXCEPT ![m] = x] /\ step' = step
  /\ removed' = IF teleport THEN removed \cup {m} ELSE removed

SetCoords(m, x, teleport) ==
  /\ at' = [at EXCEPT ![m] = x]
  /\ removed' = IF teleport THEN removed \cup {m} ELSE removed
  /\ step' = IF teleport THEN step ELSE [step EXCEPT ![m] = x - at[m]]

Moving == moves < MaxMoves /\ moves' = moves + 1
NextTo(m) == {x \in Tile : Near(x, at[m], 1)} \ {at[m]}

(* A step of a path. *)
Walk(m) ==
  /\ \E x \in NextTo(m) : UpdateRegions(m, x) /\ SetCoords(m, x, FALSE)
  /\ Moving /\ UNCHANGED <<late, lost>>

(* The step towards a target that WalkingArrivalAction takes, and ladders: the
   region lists are left as they are. *)
Pivot(p) == \E x \in NextTo(p) : SetCoords(p, x, FALSE)
Climb(p) == \E x \in Landing \ {at[p]} : SetCoords(p, x, TRUE)
WithoutRegions(p) == Pivots /\ (Pivot(p) \/ Climb(p)) /\ Moving /\ UNCHANGED <<listing, late, lost>>

Teleport(m) ==
  /\ \E x \in Landing \ {at[m]} : UpdateRegions(m, x) /\ SetCoords(m, x, TRUE)
  /\ Moving /\ Late({m})

(* StartCombat: who attacks goes to where the other is, which is marked too, and
   may have left meanwhile. *)
Targets(m, S, dist) ==
  {t \in S \ {m} : life[t] \notin {"out", "listed", "removed"} /\ Near(at[m], at[t], dist)}
StartCombat(m, targets) ==
  /\ \E t \in targets :
       /\ UpdateRegions(m, at[t]) /\ at' = [at EXCEPT ![m] = at[t]] /\ removed' = removed \cup {m, t}
  /\ Moving /\ UNCHANGED <<step, late, lost>>

-----------------------------------------------------------------------------
(* The queues of appearance events. *)

(* What w has to queue: for each of V the appearance of each of Q as it is now. *)
Jobs(V, Q) == {[to |-> v, event |-> Event(q)'] : v \in V, q \in Q}
Enqueues(w, jobs) == writer' = [writer EXCEPT ![w] = [Idle EXCEPT !.left = jobs]]

(* enqueueArea, for the players of the visible regions.  Whoever is not in the
   area is not told of a change. *)
Area(p) == {v \in ListedNear(p) \cap Player : Near(at[p], at[v], ViewRadius(p))}
EnqueueOwn(w) == Enqueues(w, Jobs({w[1]}, {w[1]}))          \* mutant
EnqueueArea(w) == Enqueues(w, Jobs(Area(w[1]), {w[1]}))

(* UpdateAppearance, of a player that dresses, fights its way up or is skulled. *)
UpdateAppearance(w) ==
  LET p == w[1] IN
  /\ writer[w] = Idle /\ Moving
  /\ ticket' = [ticket EXCEPT ![p] = @ + 1]
  /\ EnqueueArea(w)
  /\ missed' = {pair \in missed : pair[2] # p} \cup ((Player \ Area(p)) \X {p})
  /\ UNCHANGED <<body, life, ready, client, events, turn, late, lost, since>>

(* Experience for what was killed, on the goroutine of NPC.Killed: a level. *)
LevelsUp(p) == p \in Killer /\ Online(p) /\ UpdateAppearance(<<p, "script">>)

(* enqueue reads the queue and stores the longer one, without a lock over both. *)
Fetch(w) ==
  /\ writer[w].job = {}
  /\ \E j \in writer[w].left :
       writer' = [writer EXCEPT ![w] = [left |-> @.left \ {j}, job |-> {j}, queue |-> events[j.to]]]
  /\ UNCHANGED <<body, life, ready, client, ticket, events, turn, moves, history>>

Overwritten(v, queue) ==
  {<<v, e.who>> : e \in {f \in ToSet(events[v]) \ ToSet(queue) : f.ticket = ticket[f.who]}}
Store(w) ==
  /\ \E j \in writer[w].job :
       /\ events' = [events EXCEPT ![j.to] = Append(writer[w].queue, j.event)]
       /\ missed' = missed \cup Overwritten(j.to, Append(writer[w].queue, j.event))
       /\ since' = since \cup {<<j.to, j.event.who>>}
  /\ writer' = [writer EXCEPT ![w] = [Idle EXCEPT !.left = writer[w].left]]
  /\ UNCHANGED <<body, life, ready, client, ticket, turn, moves, late, lost>>

-----------------------------------------------------------------------------
(* Packets phase: one goroutine for each player. *)
Turn(p) == phase = "packets" /\ p \in todo
TurnEnds(p) == todo' = todo \ {p} /\ UNCHANGED phase

Initialize(p) ==
  /\ Turn(p) /\ p \notin ready /\ Quiet(p)
  /\ ready' = ready \cup {p} /\ UNCHANGED <<body, life, client, ticket, events, turn, moves, late, lost, since>>
  /\ EnqueueArea(<<p, "turn">>) /\ missed' = missed \ (Area(p) \X {p})

ChangesLooks(p) == Turn(p) /\ p \in ready /\ UpdateAppearance(<<p, "turn">>)

Act(p) ==
  /\ Turn(p) /\ p \in ready /\ Quiet(p) /\ TurnEnds(p)
  /\ \/ Walk(p) \/ WithoutRegions(p) \/ Teleport(p)
     \/ StartCombat(p, Targets(p, Npc, 1) \cup Targets(p, Player, 2))
     \/ UNCHANGED <<body, moves, late, lost>>
  /\ UNCHANGED <<life, ready, client, queues, missed, since>>

-----------------------------------------------------------------------------
(* NPCs: each has one turn in a tick. *)
NpcTurn(n) == phase = "npcs" /\ n \in todo /\ TurnEnds(n)
NpcWalks(n) ==
  /\ NpcTurn(n)
  /\ \/ life[n] = "in" /\ (Walk(n) \/ StartCombat(n, Targets(n, Player, 1)))
     \/ UNCHANGED <<body, moves, late, lost>>
  /\ UNCHANGED <<life, ready, client, queues, missed, since>>

Respawn(n) ==
  /\ phase = "npcs" /\ life[n] = "removed" /\ life' = [life EXCEPT ![n] = "in"]
  /\ UpdateRegions(n, StartPoint[n]) /\ SetCoords(n, StartPoint[n], TRUE)
  /\ UNCHANGED <<ready, client, queues, turn, moves, history>>

(* NPC.Killed, on the goroutine of the script. *)
Killed(n) ==
  /\ life[n] = "in" /\ life' = [life EXCEPT ![n] = "removed"]
  /\ UpdateRegions(n, DeathPoint) /\ SetCoords(n, DeathPoint, TRUE)
  /\ Moving /\ Late({n})
  /\ UNCHANGED <<ready, client, queues, turn, missed, since>>

-----------------------------------------------------------------------------
(* Update phase: one goroutine for each player, PlayerPositions first. *)
Updating(p, part) == phase = "update" /\ <<p, part>> \in todo
Then(p, part, next) == todo' = (todo \ {<<p, part>>}) \cup next /\ UNCHANGED phase

(* The mobs of a kind that stay local, moved as the client is told, ... *)
Local(p, S) == DOMAIN seen[p] \cap S
StayingMarked(p, S, radius) ==                              \* mutant
  {m \in Local(p, S) : Near(at[p], at[m], radius) /\ life[m] # "removed"}
Staying(p, S, radius) ==
  {m \in Local(p, S) \ removed : Near(at[p], at[m], radius) /\ life[m] # "removed"}
Shift(m, x) == IF x + step[m] \in Tile THEN x + step[m] ELSE x   \* the bound: a ghost may walk on for ever
Kept(p, S, radius) ==
  [m \in (DOMAIN seen[p] \ S) \cup Staying(p, S, radius) |->
     IF m \in S THEN Shift(m, seen[p][m]) ELSE seen[p][m]]

(* ... and the new ones: at most max of them, and at most MaxLocal in all.  If
   more than max are waiting, the view shrinks. *)
NewUnmarked(p, S, radius) ==                                \* mutant
  {m \in (ListedNear(p) \cap S) \ (Staying(p, S, radius) \cup {p} \cup removed) :
     Near(at[p], at[m], ViewRadius(p) - 1) /\ life[m] # "removed"}
NewMobs(p, S, radius) ==
  {m \in (ListedNear(p) \cap S) \ (Staying(p, S, radius) \cup {p}) :
     Near(at[p], at[m], ViewRadius(p) - 1) /\ life[m] # "removed"}
Room(p, S, radius) == MaxLocal - Cardinality(Staying(p, S, radius))
Some(N, most) == {M \in SUBSET N : Cardinality(M) = most \/ (M = N /\ Cardinality(N) < most)}
Positions(p, S, radius, max) ==
  LET new == NewMobs(p, S, radius)
  IN \E N \in Some(new, Least(max, Room(p, S, radius))) :
       /\ seen' = [seen EXCEPT ![p] =
            [m \in DOMAIN Kept(p, S, radius) \cup N |-> IF m \in N THEN at[m] ELSE Kept(p, S, radius)[m]]]
       /\ viewRadius' =
            IF N # new /\ Room(p, S, radius) > max /\ ViewRadius(p) > 1
            THEN [viewRadius EXCEPT ![p] = Dec(p)] ELSE viewRadius

(* A player that comes into view is described anew. *)
PlayerPositions(p) ==
  /\ Updating(p, "players") /\ Quiet(p) /\ Then(p, "players", {<<p, "npcs">>})
  /\ Positions(p, Player, ViewRadius(p), MaxNewPlayers)
  /\ UNCHANGED <<body, life, ready, known, ticket, events, moves, late, lost, since>>
  /\ LET new == DOMAIN seen'[p] \ (Staying(p, Player, ViewRadius(p)) \cup Npc)
     IN Enqueues(<<p, "turn">>, Jobs({p}, new)) /\ missed' = missed \ ({p} \X new)

NPCPositions(p) ==
  /\ Updating(p, "npcs") /\ Quiet(p) /\ Then(p, "npcs", {<<p, "events">>})
  /\ Positions(p, Npc, ViewRadius(p) - 1, MaxNewNpcs)
  /\ UNCHANGED <<body, life, ready, known, queues, moves, history>>

(* An event whose ticket is no longer that of the player at its index is left
   out.  An empty queue is not unset. *)
Current(p) == {e \in ToSet(events[p]) : Online(e.who) /\ e.ticket = ticket[e.who]}
PlayerAppearances(p) ==
  /\ Updating(p, "events") /\ Then(p, "events", IF events[p] = <<>> THEN {} ELSE {<<p, "unset">>})
  /\ known' = [known EXCEPT ![p] = [q \in Player |->
                 IF \E e \in Current(p) : e.who = q THEN ticket[q] ELSE @[q]]]
  /\ since' = since \ ({p} \X Player)
  /\ UNCHANGED <<body, life, ready, seen, viewRadius, queues, moves, late, lost, missed>>

(* UnsetVar: whatever has been queued meanwhile goes too. *)
Erased(p) == {<<p, e.who>> : e \in {f \in Current(p) : known[p][f.who] # f.ticket}}
UnsetEvents(p) ==
  /\ Updating(p, "unset") /\ Then(p, "unset", {})
  /\ events' = [events EXCEPT ![p] = <<>>] /\ missed' = missed \cup Erased(p)
  /\ UNCHANGED <<body, life, ready, client, ticket, writer, moves, late, lost, since>>

-----------------------------------------------------------------------------
(* Reset phase, and the turn of the phases. *)
Reset(p) ==
  /\ phase = "reset" /\ p \in todo /\ TurnEnds(p)
  /\ removed' = removed \ {p} /\ step' = [step EXCEPT ![p] = 0]
  /\ lost' = IF p \in removed /\ (p \in late \/ life[p] # "in") THEN lost \cup {p} ELSE lost
  /\ UNCHANGED <<at, listing, life, ready, client, queues, moves, late, missed, since>>

OnlinePlayers == {p \in Player : Online(p)}
NextPhase ==
  /\ todo = {}
  /\ \/ phase = "packets" /\ phase' = "npcs" /\ todo' = Npc
     \/ phase = "npcs" /\ phase' = "update" /\ todo' = OnlinePlayers \X {"players"}
     \/ phase = "update" /\ phase' = "reset" /\ todo' = OnlinePlayers
     \/ phase = "reset" /\ phase' = "packets" /\ todo' = OnlinePlayers
  /\ IF phase = "reset"
     THEN /\ removed' = removed \ Npc /\ step' = [m \in Mob |-> IF m \in Npc THEN 0 ELSE step[m]]
          /\ lost' = lost \cup (late \cap removed \cap Npc) /\ late' = {}
     ELSE UNCHANGED <<removed, step, late, lost>>
  /\ UNCHANGED <<at, listing, life, ready, client, queues, moves, missed, since>>

-----------------------------------------------------------------------------
(* Login, and Destroy on a goroutine of its own. *)
Put(p) ==
  /\ life[p] = "out" /\ life' = [life EXCEPT ![p] = "listed"]
  /\ UNCHANGED <<body, ready, client, queues, turn, moves, history>>

Place(p) ==
  /\ life[p] = "listed" /\ life' = [life EXCEPT ![p] = "in"]
  /\ listing' = [listing EXCEPT ![p] = @ \cup {Region(at[p])}]
  /\ Late({p})
  /\ UNCHANGED <<at, removed, step, ready, client, queues, turn, moves, missed, since>>

SetRegionRemoved(p) ==
  /\ p \in Leaver \cap ready /\ life[p] = "in" /\ life' = [life EXCEPT ![p] = "marked"]
  /\ removed' = removed \cup {p} /\ Moving /\ Late({p})
  /\ UNCHANGED <<at, step, listing, ready, client, queues, turn, missed, since>>

Unplace(p) ==
  /\ life[p] = "marked" /\ life' = [life EXCEPT ![p] = "unplaced"]
  /\ listing' = [listing EXCEPT ![p] = @ \ {Region(at[p])}] /\ Late({p})
  /\ UNCHANGED <<at, removed, step, ready, client, queues, turn, moves, missed, since>>

Delist(p) ==       \* ... and there is no client any more
  /\ life[p] = "unplaced" /\ life' = [life EXCEPT ![p] = "gone"]
  /\ seen' = [seen EXCEPT ![p] = <<>>] /\ known' = [known EXCEPT ![p] = [q \in Player |-> -1]]
  /\ events' = [events EXCEPT ![p] = <<>>]
  /\ UNCHANGED <<body, ready, viewRadius, ticket, writer, turn, moves, history>>

(* A script's goroutine, waiting for a menu's answer, teleports. *)
ScriptTeleport(p) ==
  /\ Sending /\ life[p] = "in" /\ Teleport(p)
  /\ UNCHANGED <<life, ready, client, queues, turn, missed, since>>

-----------------------------------------------------------------------------
Init ==
  /\ at = StartPoint /\ removed = {} /\ step = [m \in Mob |-> 0]
  /\ listing = [m \in Mob |-> IF m \in Newcomer THEN {} ELSE {Region(StartPoint[m])}]
  /\ life = [m \in Mob |-> IF m \in Newcomer THEN "out" ELSE "in"] /\ ready = {}
  /\ viewRadius = [p \in Player |-> Unset] /\ seen = [p \in Player |-> <<>>]
  /\ known = [p \in Player |-> [q \in Player |-> -1]]
  /\ ticket = [p \in Player |-> 0] /\ events = [p \in Player |-> <<>>]
  /\ writer = [w \in Writer |-> Idle]
  /\ phase = "packets" /\ todo = Player \ Newcomer
  /\ moves = 0 /\ late = {} /\ lost = {} /\ missed = {} /\ since = {}

PacketsOf(p) == Initialize(p) \/ ChangesLooks(p) \/ Act(p)
UpdateOf(p) == PlayerPositions(p) \/ NPCPositions(p) \/ PlayerAppearances(p) \/ UnsetEvents(p)
DestroyOf(p) == SetRegionRemoved(p) \/ Unplace(p) \/ Delist(p)

Next ==
  \/ NextPhase
  \/ \E p \in Player :
       \/ PacketsOf(p) \/ UpdateOf(p) \/ Reset(p) \/ Put(p) \/ Place(p) \/ DestroyOf(p)
       \/ ScriptTeleport(p) \/ LevelsUp(p)
  \/ \E w \in Writer : Fetch(w) \/ Store(w)
  \/ \E n \in Npc : NpcWalks(n) \/ Killed(n) \/ Respawn(n)

Spec == Init /\ [][Next]_vars

-----------------------------------------------------------------------------
Views == UNION {[M -> Tile] : M \in SUBSET Mob}
Events == [who : Player, ticket : Nat]
Job == [to : Player, event : Events]
PlayerLives == {"out", "listed", "in", "marked", "unplaced", "gone"}

(* Every variable stays in its type; a stored view radius is a negative one. *)
TypeOK ==
  /\ at \in [Mob -> Tile] /\ removed \subseteq Mob
  /\ step \in [Mob -> Int] /\ listing \in [Mob -> SUBSET Int]
  /\ life \in [Mob -> PlayerLives \cup {"removed"}] /\ ready \subseteq Player
  /\ \A n \in Npc : life[n] \in {"in", "removed"}
  /\ \A p \in Player : life[p] # "removed"
  /\ viewRadius \in [Player -> {Unset, -1}] /\ seen \in [Player -> Views]
  /\ known \in [Player -> [Player -> Int]] /\ ticket \in [Player -> Nat]
  /\ events \in [Player -> Seq(Events)]
  /\ writer \in [Writer -> [left : SUBSET Job, job : SUBSET Job, queue : Seq(Events)]]
  /\ moves \in Nat /\ late \subseteq Mob /\ lost \subseteq Mob
  /\ missed \cup since \subseteq Player \X Player

(* Of the moment when positions have been sent. *)
Sent == phase = "reset"
Watching == {p \in Player : life[p] = "in" /\ p \in ready}
Strays == {m \in Mob : listing[m] # (IF life[m] \in {"in", "removed", "marked"} THEN {Region(at[m])} ELSE {})}
Settled == Mob \ (late \cup lost)

(* A client that shows as many of a kind as one packet may name. *)
Crowded(p, m) ==
  IF m \in Npc THEN Cardinality(Local(p, Npc)) >= Least(MaxNewNpcs, MaxLocal)
               ELSE Cardinality(Local(p, Player)) >= Least(MaxNewPlayers, MaxLocal)

(* Once positions are sent, every client shows every mob where it is, but for
   those that another goroutine moved or removed meanwhile, or whose mark was
   reset too early for that reason. *)
ClientAgrees ==
  Sent => \A p \in Watching : \A m \in DOMAIN seen[p] \cap Settled : seen[p][m] = at[m]

(* Once positions are sent, whoever is near, in a region that counts as
   visible, is shown, also one that has just been teleported, unless a region
   has it wrongly or the client shows as many of its kind as one packet may
   name. *)
SeesAllNear ==
  Sent => \A p \in Watching \ late : \A m \in Settled \ (Strays \cup {p}) :
    /\ life[m] = "in" /\ Region(at[m]) \in VisibleRegions(at[p])
    /\ Near(at[p], at[m], ViewRadius(p) - 1)
    => m \in DOMAIN seen[p] \/ Crowded(p, m)

(* Once positions are sent, nobody is shown who has gone, unless the mark of
   that was reset before everybody had seen it, or a region still has it. *)
NoGhosts ==
  Sent => \A p \in Watching : \A q \in Local(p, Player \cap Settled) \ Strays : life[q] # "gone"

(* Somebody is about to queue the latest appearance of q for p. *)
Coming(p, q) == \E w \in Writer : [to |-> p, event |-> Event(q)] \in writer[w].left \cup writer[w].job

(* Once positions are sent, every client has the latest appearance of each
   player it shows, or that is still to come: the goroutine that tells of it has
   not queued it yet, or has queued it after the client's queue was read.  Left
   out are changes the other's regions or radius did not reach, and events that
   two writers at once overwrote or that went with the queue when it was unset. *)
AppearanceKnown ==
  Sent => \A p \in Watching : \A q \in Local(p, Player) :
    \/ known[p][q] = ticket[q] \/ <<p, q>> \in missed \/ life[q] = "gone"
    \/ Coming(p, q) \/ (<<p, q>> \in since /\ Event(q) \in ToSet(events[p]))
=============================================================================
