----------------------------- MODULE ViewProofs -----------------------------
(* Proofs about View, for any number of players, NPCs and tiles, any radius and
   any limits of the packets: what clients show is where it is, whoever is near
   is shown, nobody is shown who has gone, and looks are known. *)
EXTENDS View, SequenceTheorems, FiniteSetTheorems, TLAPS

Parts == {"players", "npcs", "events", "unset"}

(* Who may have a turn; in the update phase each player sends one packet after
   the other. *)
Turns ==
  \/ phase = "packets" /\ todo \subseteq {p \in Player : life[p] # "out"}
  \/ phase = "npcs" /\ todo \subseteq Npc
  \/ /\ phase = "update" /\ todo \subseteq {p \in Player : life[p] # "out"} \X Parts
     /\ \A x, y \in todo : x[1] = y[1] => x = y
  \/ phase = "reset" /\ todo \subseteq Player

(* Nobody has met a player that has not been put into the list yet. *)
Unmet ==
  \A p \in Player : life[p] = "out" =>
    /\ step[p] = 0 /\ listing[p] = {} /\ seen[p] = <<>>
    /\ \A v \in Player : p \notin DOMAIN seen[v]

(* Before a mob's turn its direction is not set: what it sets is the whole of
   what it moves between two position packets. *)
Fresh ==
  /\ phase = "packets" => \A m \in todo \cup Npc : step[m] = 0
  /\ phase = "npcs" => \A n \in todo : step[n] = 0
  /\ phase = "reset" => \A p \in Player \ todo : step[p] = 0 \/ life[p] = "gone"

(* The mark of a leaver stays, or is known to have been reset too early. *)
Marked ==
  \A p \in Player : life[p] \in {"marked", "unplaced", "gone"} => p \in removed \cup lost

(* The client of p has had the packet of this tick that tells of m. *)
Told(p, m) ==
  \/ phase = "reset"
  \/ phase = "update" /\ <<p, "players">> \notin todo /\ (m \in Npc => <<p, "npcs">> \notin todo)

(* Where a client shows a mob, and the marks it has yet to be sent, add up to
   where it is; afterwards only another goroutine can have moved it on. *)
Adding ==
  \A p \in Player : life[p] # "gone" => \A m \in DOMAIN seen[p] \ lost :
    /\ Told(p, m) => m \in late \cap removed \/ seen[p][m] = at[m]
    /\ ~Told(p, m) => m \in removed \/ seen[p][m] + step[m] = at[m]

(* Whoever has left the region and is still shown is listed wrongly. *)
Haunting ==
  \A p \in Player : life[p] # "gone" => \A q \in Local(p, Player) \ (late \cup lost) :
    Told(p, q) /\ life[q] \in {"unplaced", "gone"} => listing[q] # {}

(* Whoever is listed near a client that has been told is shown by it. *)
Covered ==
  \A p \in Player \ late : life[p] = "in" => \A m \in Mob \ (late \cup {p}) :
    /\ Told(p, m) /\ life[m] = "in" /\ m \in ListedNear(p)
    /\ Near(at[p], at[m], ViewRadius(p) - 1)
    => m \in DOMAIN seen[p] \/ Crowded(p, m)

(* Who writes into queues has read one of them. *)
Writing == \A w \in Writer : \A j, k \in writer[w].job : j = k

(* The latest appearance of whoever is shown is known, missed, or on its way:
   about to be queued, or in a queue that has yet to be read. *)
Described(p) ==
  phase = "reset" \/ (phase = "update" /\ \A part \in {"players", "npcs", "events"} : <<p, part>> \notin todo)
Queued(p, q) == Event(q) \in ToSet(events[p])
Appears(p, q) ==
  \/ known[p][q] = ticket[q] \/ <<p, q>> \in missed \/ life[q] = "gone"
  \/ Coming(p, q) \/ (Queued(p, q) /\ (<<p, q>> \in since \/ ~Described(p)))
Appearing ==
  \A p \in Player : life[p] # "gone" => \A q \in Local(p, Player) : Appears(p, q)

IInv == TypeOK /\ Turns /\ Unmet /\ Fresh /\ Marked /\ Adding /\ Haunting /\ Covered
        /\ Writing /\ Appearing
-----------------------------------------------------------------------------
(* Sequences. *)

(* What is in a longer sequence. *)
LEMMA ToSetAppend ==
  ASSUME NEW T, NEW s \in Seq(T), NEW e \in T
  PROVE  Append(s, e) \in Seq(T) /\ ToSet(Append(s, e)) = ToSet(s) \cup {e}
<1>1. /\ Append(s, e) \in Seq(T) /\ Len(s) \in Nat
      /\ DOMAIN s = 1..Len(s) /\ DOMAIN Append(s, e) = 1 .. Len(s) + 1
      /\ Append(s, e)[Len(s) + 1] = e
      /\ \A i \in 1..Len(s) : Append(s, e)[i] = s[i]
  BY LenProperties, AppendProperties
<1>2. 1 .. Len(s) + 1 = (1..Len(s)) \cup {Len(s) + 1}
  BY <1>1
<1> QED BY <1>1, <1>2 DEF ToSet

LEMMA ToSetType ==
  ASSUME NEW T, NEW s \in Seq(T)
  PROVE  ToSet(s) \subseteq T
<1>1. DOMAIN s = 1..Len(s) /\ \A i \in 1..Len(s) : s[i] \in T
  BY LenProperties
<1> QED BY <1>1 DEF ToSet

-----------------------------------------------------------------------------
(* Moves. *)

(* What a move of m changes: m alone and whom it marks, and either m is marked as
   removed or its direction is what it moved by. *)
Displaces(m) ==
  /\ at' \in [Mob -> Tile] /\ step' \in [Mob -> Int] /\ listing' \in [Mob -> SUBSET Int]
  /\ \A k \in Mob \ {m} : at'[k] = at[k] /\ step'[k] = step[k] /\ listing'[k] = listing[k]
  /\ removed \subseteq removed' /\ removed' \subseteq Mob
  /\ \/ step' = step /\ m \in removed'
     \/ step'[m] = at'[m] - at[m] /\ removed' = removed

LEMMA TilesAreNumbers == Tile \subseteq Nat /\ \A x \in Tile : x \in Int
BY ViewAssumption DEF Tile

LEMMA RegionType ==
  ASSUME NEW x \in Tile
  PROVE  Region(x) \in Int
BY TilesAreNumbers, ViewAssumption DEF Region

LEMMA UpdateRegionsMoves ==
  ASSUME TypeOK, NEW m \in Mob, NEW x \in Tile, UpdateRegions(m, x)
  PROVE  /\ listing' \in [Mob -> SUBSET Int]
         /\ \A k \in Mob \ {m} : listing'[k] = listing[k]
<1>1. Region(x) \in Int /\ listing \in [Mob -> SUBSET Int]
  BY RegionType DEF TypeOK
<1> DEFINE new == (listing[m] \ {Region(at[m])}) \cup {Region(x)}
<1>2. new \in SUBSET Int
  BY <1>1
<1>3. listing' = listing \/ listing' = [listing EXCEPT ![m] = new]
  BY DEF UpdateRegions
<1> HIDE DEF new
<1> QED BY <1>1, <1>2, <1>3

LEMMA SetCoordsMoves ==
  ASSUME TypeOK, NEW m \in Mob, NEW x \in Tile, NEW teleport \in BOOLEAN, SetCoords(m, x, teleport)
  PROVE  /\ at' \in [Mob -> Tile] /\ step' \in [Mob -> Int]
         /\ \A k \in Mob \ {m} : at'[k] = at[k] /\ step'[k] = step[k]
         /\ removed \subseteq removed' /\ removed' \subseteq Mob
         /\ teleport => step' = step /\ m \in removed'
         /\ ~teleport => step'[m] = at'[m] - at[m] /\ removed' = removed
<1>1. at \in [Mob -> Tile] /\ step \in [Mob -> Int] /\ removed \subseteq Mob
  BY DEF TypeOK
<1>2. x \in Int /\ at[m] \in Int /\ x - at[m] \in Int
  <2>1. at[m] \in Tile
    BY <1>1
  <2>2. x \in Nat /\ at[m] \in Nat
    BY <2>1, TilesAreNumbers
  <2> QED BY <2>2
<1>3. at' = [at EXCEPT ![m] = x]
  BY DEF SetCoords
<1>4. at' \in [Mob -> Tile] /\ at'[m] = x /\ \A k \in Mob \ {m} : at'[k] = at[k]
  BY <1>1, <1>3
<1>5. CASE teleport
  BY <1>1, <1>4, <1>5 DEF SetCoords
<1>6. CASE ~teleport
  <2>1. step' = [step EXCEPT ![m] = x - at[m]] /\ removed' = removed
    BY <1>6 DEF SetCoords
  <2> QED BY <1>1, <1>2, <1>4, <1>6, <2>1
<1> QED BY <1>5, <1>6

LEMMA WalkMoves ==
  ASSUME TypeOK, NEW m \in Mob, Walk(m)
  PROVE  Displaces(m) /\ moves' \in Nat /\ late' = late /\ lost' = lost
<1>1. PICK x \in Tile : UpdateRegions(m, x) /\ SetCoords(m, x, FALSE)
  BY DEF Walk, NextTo
<1>2. moves' \in Nat /\ late' = late /\ lost' = lost
  BY DEF Walk, Moving, TypeOK
<1> QED BY <1>1, <1>2, UpdateRegionsMoves, SetCoordsMoves DEF Displaces

LEMMA WithoutRegionsMoves ==
  ASSUME TypeOK, NEW p \in Player, WithoutRegions(p)
  PROVE  Displaces(p) /\ moves' \in Nat /\ late' = late /\ lost' = lost
<1>1. p \in Mob
  BY DEF Mob
<1>2. PICK x \in Tile, teleport \in BOOLEAN : SetCoords(p, x, teleport)
  BY ViewAssumption DEF WithoutRegions, Pivot, Climb, NextTo
<1>3. moves' \in Nat /\ late' = late /\ lost' = lost /\ listing' = listing
  BY DEF WithoutRegions, Moving, TypeOK
<1>4. listing' \in [Mob -> SUBSET Int]
  BY <1>3 DEF TypeOK
<1>5. teleport \/ ~teleport
  BY <1>2
<1> QED BY <1>1, <1>2, <1>3, <1>4, <1>5, SetCoordsMoves DEF Displaces

LEMMA TeleportMoves ==
  ASSUME TypeOK, NEW m \in Mob, Teleport(m)
  PROVE  /\ Displaces(m) /\ m \in removed' /\ step' = step /\ moves' \in Nat /\ lost' = lost
         /\ late' = IF Sending THEN late \cup {m} ELSE late
<1>1. PICK x \in Tile : UpdateRegions(m, x) /\ SetCoords(m, x, TRUE)
  BY ViewAssumption DEF Teleport
<1>2. moves' \in Nat /\ lost' = lost /\ late' = IF Sending THEN late \cup {m} ELSE late
  BY DEF Teleport, Moving, Late, TypeOK
<1> QED BY <1>1, <1>2, UpdateRegionsMoves, SetCoordsMoves DEF Displaces

LEMMA TargetsAreMobs ==
  ASSUME NEW m, NEW S \in SUBSET Mob, NEW dist
  PROVE  Targets(m, S, dist) \subseteq Mob
BY DEF Targets

LEMMA StartCombatMoves ==
  ASSUME TypeOK, NEW m \in Mob, NEW T \in SUBSET Mob, StartCombat(m, T)
  PROVE  /\ Displaces(m) /\ m \in removed' /\ step' = step /\ moves' \in Nat
         /\ late' = late /\ lost' = lost
<1>1. PICK t \in Mob :
        /\ UpdateRegions(m, at[t]) /\ at' = [at EXCEPT ![m] = at[t]] /\ removed' = removed \cup {m, t}
  BY DEF StartCombat
<1>2. at \in [Mob -> Tile] /\ at[t] \in Tile /\ step \in [Mob -> Int] /\ removed \subseteq Mob
  BY DEF TypeOK
<1>3. at' \in [Mob -> Tile] /\ \A k \in Mob \ {m} : at'[k] = at[k]
  BY <1>1, <1>2
<1>4. moves' \in Nat /\ step' = step /\ late' = late /\ lost' = lost
  BY DEF StartCombat, Moving, TypeOK
<1>5. listing' \in [Mob -> SUBSET Int] /\ \A k \in Mob \ {m} : listing'[k] = listing[k]
  BY <1>1, <1>2, UpdateRegionsMoves
<1> QED BY <1>1, <1>2, <1>3, <1>4, <1>5 DEF Displaces

(* A player's turn. *)
LEMMA ActMoves ==
  ASSUME TypeOK, NEW p \in Player, Act(p)
  PROVE  /\ p \in Mob /\ (Displaces(p) \/ UNCHANGED body)
         /\ late' = late /\ lost' = lost /\ moves' \in Nat
<1>1. p \in Mob /\ Player \subseteq Mob /\ Npc \subseteq Mob /\ moves \in Nat
  BY DEF Mob, TypeOK
<1>2. CASE UNCHANGED <<body, moves, late, lost>>
  BY <1>1, <1>2
<1>3. CASE Walk(p)
  BY <1>1, <1>3, WalkMoves
<1>4. CASE WithoutRegions(p)
  BY <1>1, <1>4, WithoutRegionsMoves
<1>5. CASE Teleport(p)
  <2>1. ~Sending
    BY DEF Act, Turn, Sending
  <2> QED BY <1>1, <1>5, <2>1, TeleportMoves
<1>6. ASSUME NEW T, T = Targets(p, Npc, 1) \cup Targets(p, Player, 2), StartCombat(p, T)
      PROVE  Displaces(p) /\ late' = late /\ lost' = lost /\ moves' \in Nat
  <2>1. T \in SUBSET Mob
    BY <1>1, <1>6, TargetsAreMobs
  <2> QED BY <1>1, <1>6, <2>1, StartCombatMoves
<1> QED BY <1>1, <1>2, <1>3, <1>4, <1>5, <1>6 DEF Act

(* An NPC's turn. *)
LEMMA NpcWalksMoves ==
  ASSUME TypeOK, NEW n \in Npc, NpcWalks(n)
  PROVE  /\ n \in Mob /\ (Displaces(n) \/ UNCHANGED body)
         /\ late' = late /\ lost' = lost /\ moves' \in Nat
<1>1. n \in Mob /\ Player \subseteq Mob /\ moves \in Nat
  BY DEF Mob, TypeOK
<1>2. CASE UNCHANGED <<body, moves, late, lost>>
  BY <1>1, <1>2
<1>3. CASE Walk(n)
  BY <1>1, <1>3, WalkMoves
<1>4. ASSUME NEW T, T = Targets(n, Player, 1), StartCombat(n, T)
      PROVE  Displaces(n) /\ late' = late /\ lost' = lost /\ moves' \in Nat
  <2>1. T \in SUBSET Mob
    BY <1>1, <1>4, TargetsAreMobs
  <2> QED BY <1>1, <1>4, <2>1, StartCombatMoves
<1> QED BY <1>1, <1>2, <1>3, <1>4 DEF NpcWalks

LEMMA RespawnMoves ==
  ASSUME TypeOK, NEW n \in Npc, Respawn(n)
  PROVE  Displaces(n) /\ n \in removed' /\ step' = step
<1>1. n \in Mob /\ StartPoint[n] \in Tile
  BY ViewAssumption DEF Mob
<1>2. UpdateRegions(n, StartPoint[n]) /\ SetCoords(n, StartPoint[n], TRUE)
  BY DEF Respawn
<1> QED BY <1>1, <1>2, UpdateRegionsMoves, SetCoordsMoves DEF Displaces

LEMMA KilledMoves ==
  ASSUME TypeOK, NEW n \in Npc, Killed(n)
  PROVE  /\ Displaces(n) /\ n \in removed' /\ step' = step /\ moves' \in Nat /\ lost' = lost
         /\ late' = IF Sending THEN late \cup {n} ELSE late
<1>1. n \in Mob /\ DeathPoint \in Tile
  BY ViewAssumption DEF Mob
<1>2. UpdateRegions(n, DeathPoint) /\ SetCoords(n, DeathPoint, TRUE)
  BY DEF Killed
<1>3. moves' \in Nat /\ lost' = lost /\ late' = IF Sending THEN late \cup {n} ELSE late
  BY DEF Killed, Moving, Late, TypeOK
<1> QED BY <1>1, <1>2, <1>3, UpdateRegionsMoves, SetCoordsMoves DEF Displaces

-----------------------------------------------------------------------------
(* Writing into the queues of appearance events. *)

Hands == [left : SUBSET Job, job : SUBSET Job, queue : Seq(Events)]

LEMMA EventType ==
  ASSUME TypeOK, NEW p \in Player
  PROVE  Event(p) \in Events /\ Event(p).who = p /\ Event(p).ticket = ticket[p]
BY DEF Event, Events, TypeOK

LEMMA JobType ==
  ASSUME NEW j \in Job
  PROVE  j.to \in Player /\ j.event \in Events /\ j = [to |-> j.to, event |-> j.event]
BY DEF Job

LEMMA WriterType ==
  ASSUME TypeOK, NEW w \in Writer
  PROVE  /\ writer \in [Writer -> Hands] /\ w[1] \in Player
         /\ writer[w].left \subseteq Job /\ writer[w].job \subseteq Job /\ writer[w].queue \in Seq(Events)
BY DEF TypeOK, Hands, Writer

LEMMA TurnIsWriter ==
  ASSUME NEW p \in Player
  PROVE  <<p, "turn">> \in Writer /\ <<p, "script">> \in Writer /\ <<p, "turn">>[1] = p /\ <<p, "script">>[1] = p
BY DEF Writer

LEMMA EnqueuesGives ==
  ASSUME TypeOK, NEW w \in Writer, NEW jobs \in SUBSET Job, Enqueues(w, jobs)
  PROVE  /\ writer' \in [Writer -> Hands]
         /\ writer'[w].left = jobs /\ writer'[w].job = {}
         /\ \A x \in Writer \ {w} : writer'[x] = writer[x]
<1> DEFINE hand == [Idle EXCEPT !.left = jobs]
<1>1. hand \in Hands /\ hand.left = jobs /\ hand.job = {}
  <2>1. <<>> \in Seq(Events)
    BY EmptySeq
  <2>2. Idle \in Hands /\ Idle.job = {}
    BY <2>1 DEF Idle, Hands
  <2> QED BY <2>2 DEF Hands
<1>2. writer' = [writer EXCEPT ![w] = hand] /\ writer \in [Writer -> Hands]
  BY WriterType DEF Enqueues
<1> HIDE DEF hand
<1> QED BY <1>1, <1>2

(* What an appearance that has changed, or is asked for, has queued. *)
LEMMA JobsAre ==
  ASSUME NEW V \in SUBSET Player, NEW Q \in SUBSET Player, ticket' \in [Player -> Nat]
  PROVE  /\ Jobs(V, Q) \in SUBSET Job
         /\ \A v \in V, q \in Q : [to |-> v, event |-> Event(q)'] \in Jobs(V, Q)
<1>1. ASSUME NEW q \in Q PROVE Event(q)' \in Events
  BY DEF Event, Events
<1> QED BY <1>1 DEF Jobs, Job

LEMMA EnqueueAreaGives ==
  ASSUME TypeOK, NEW w \in Writer, ticket' \in [Player -> Nat], EnqueueArea(w)
  PROVE  /\ Area(w[1]) \subseteq Player
         /\ writer' \in [Writer -> Hands] /\ writer'[w].job = {}
         /\ \A v \in Area(w[1]) : [to |-> v, event |-> Event(w[1])'] \in writer'[w].left
         /\ \A x \in Writer \ {w} : writer'[x] = writer[x]
<1>1. Area(w[1]) \in SUBSET Player /\ {w[1]} \in SUBSET Player
  BY WriterType DEF Area
<1>2. PICK jobs : jobs = Jobs(Area(w[1]), {w[1]})
  OBVIOUS
<1>3. jobs \in SUBSET Job /\ \A v \in Area(w[1]) : [to |-> v, event |-> Event(w[1])'] \in jobs
  BY <1>1, <1>2, JobsAre
<1>4. Enqueues(w, jobs)
  BY <1>2 DEF EnqueueArea
<1> QED BY <1>1, <1>3, <1>4, EnqueuesGives

LEMMA FetchGives ==
  ASSUME TypeOK, NEW w \in Writer, Fetch(w)
  PROVE  \E j \in writer[w].left :
           /\ j \in Job /\ writer[w].job = {}
           /\ writer' \in [Writer -> Hands]
           /\ writer'[w].left = writer[w].left \ {j} /\ writer'[w].job = {j}
           /\ \A x \in Writer \ {w} : writer'[x] = writer[x]
<1>1. writer \in [Writer -> Hands] /\ writer[w].left \subseteq Job
  BY WriterType
<1>2. PICK j \in writer[w].left :
        writer' = [writer EXCEPT ![w] = [left |-> @.left \ {j}, job |-> {j}, queue |-> events[j.to]]]
  BY DEF Fetch
<1> DEFINE hand == [left |-> writer[w].left \ {j}, job |-> {j}, queue |-> events[j.to]]
<1>3. hand \in Hands /\ hand.left = writer[w].left \ {j} /\ hand.job = {j}
  <2>1. j \in Job /\ j.to \in Player
    BY <1>1, JobType
  <2>2. events[j.to] \in Seq(Events)
    BY <2>1 DEF TypeOK
  <2> QED BY <1>1, <2>1, <2>2 DEF Hands
<1>4. writer' = [writer EXCEPT ![w] = hand]
  BY <1>2
<1>5. writer[w].job = {}
  BY DEF Fetch
<1> HIDE DEF hand
<1> QED BY <1>1, <1>3, <1>4, <1>5

LEMMA StoreGives ==
  ASSUME TypeOK, NEW w \in Writer, Store(w)
  PROVE  \E j \in writer[w].job :
           /\ j \in Job
           /\ writer' \in [Writer -> Hands]
           /\ writer'[w].left = writer[w].left /\ writer'[w].job = {}
           /\ \A x \in Writer \ {w} : writer'[x] = writer[x]
           /\ events' \in [Player -> Seq(Events)]
           /\ j.event \in ToSet(events'[j.to])
           /\ \A v \in Player \ {j.to} : events'[v] = events[v]
           /\ missed' = missed \cup Overwritten(j.to, events'[j.to])
           /\ since' = since \cup {<<j.to, j.event.who>>}
<1>1. writer \in [Writer -> Hands] /\ writer[w].left \subseteq Job /\ writer[w].job \subseteq Job
      /\ writer[w].queue \in Seq(Events)
  BY WriterType
<1>2. PICK j \in writer[w].job :
        /\ events' = [events EXCEPT ![j.to] = Append(writer[w].queue, j.event)]
        /\ missed' = missed \cup Overwritten(j.to, Append(writer[w].queue, j.event))
        /\ since' = since \cup {<<j.to, j.event.who>>}
  BY DEF Store
<1>3. j \in Job /\ j.to \in Player /\ j.event \in Events
  BY <1>1, JobType
<1> DEFINE hand == [Idle EXCEPT !.left = writer[w].left]
<1>4. hand \in Hands /\ hand.left = writer[w].left /\ hand.job = {}
  <2>1. <<>> \in Seq(Events)
    BY EmptySeq
  <2>2. Idle \in Hands /\ Idle.job = {}
    BY <2>1 DEF Idle, Hands
  <2> QED BY <1>1, <2>2 DEF Hands
<1>5. writer' = [writer EXCEPT ![w] = hand]
  BY DEF Store
<1>6. PICK longer : longer = Append(writer[w].queue, j.event)
  OBVIOUS
<1>7. longer \in Seq(Events) /\ j.event \in ToSet(longer)
  BY <1>1, <1>3, <1>6, ToSetAppend
<1>8. events' = [events EXCEPT ![j.to] = longer] /\ events \in [Player -> Seq(Events)]
      /\ missed' = missed \cup Overwritten(j.to, longer)
  BY <1>2, <1>6 DEF TypeOK
<1> HIDE DEF hand
<1>9. events' \in [Player -> Seq(Events)] /\ events'[j.to] = longer
      /\ \A v \in Player \ {j.to} : events'[v] = events[v]
  BY <1>3, <1>7, <1>8
<1> QED BY <1>1, <1>2, <1>3, <1>4, <1>5, <1>7, <1>8, <1>9

(* An event of the latest appearance that a store drops is missed. *)
LEMMA DroppedIsMissed ==
  ASSUME TypeOK, NEW p \in Player, NEW q \in Player, NEW queue, Event(q) \in ToSet(events[p])
  PROVE  Event(q) \in ToSet(queue) \/ <<p, q>> \in Overwritten(p, queue)
<1>1. Event(q).who = q /\ Event(q).ticket = ticket[q]
  BY EventType
<1> QED BY <1>1 DEF Overwritten

-----------------------------------------------------------------------------
(* Position packets. *)

LEMMA FiniteMobs ==
  ASSUME NEW S \in SUBSET Mob
  PROVE  IsFiniteSet(S) /\ Cardinality(S) \in Nat
BY ViewAssumption, FS_Subset, FS_CardinalityType

LEMMA ViewIsView ==
  ASSUME TypeOK, NEW p \in Player
  PROVE  /\ DOMAIN seen[p] \subseteq Mob
         /\ \A m \in DOMAIN seen[p] : seen[p][m] \in Tile
BY DEF TypeOK, Views

(* What a position packet of one kind of mobs makes of a client's view, and that
   whoever is left out of it finds it crowded. *)
LEMMA PositionsGive ==
  ASSUME TypeOK, NEW p \in Player, NEW S \in {Player, Npc}, NEW radius \in Int, NEW max \in Nat,
         Positions(p, S, radius, max)
  PROVE  LET stay == Staying(p, S, radius)
             came == NewMobs(p, S, radius)
         IN  /\ seen' \in [Player -> Views]
             /\ viewRadius' \in [Player -> {Unset, -1}]
             /\ \A v \in Player \ {p} : seen'[v] = seen[v] /\ viewRadius'[v] = viewRadius[v]
             /\ \E N \in SUBSET came :
                  /\ DOMAIN seen'[p] = (DOMAIN seen[p] \ S) \cup stay \cup N
                  /\ \A m \in N : seen'[p][m] = at[m]
                  /\ \A m \in stay : seen'[p][m] = Shift(m, seen[p][m])
                  /\ \A m \in DOMAIN seen[p] \ S : seen'[p][m] = seen[p][m]
                  /\ N = came \/ Cardinality(DOMAIN seen'[p] \cap S) >= Least(max, MaxLocal)
             /\ viewRadius' = viewRadius \/ (viewRadius[p] = Unset /\ viewRadius'[p] = -1)
<1> DEFINE stay == Staying(p, S, radius)
           came == NewMobs(p, S, radius)
           room == Room(p, S, radius)
           kept == Kept(p, S, radius)
<1>1. S \subseteq Mob /\ Player \cap Npc = {}
  BY ViewAssumption DEF Mob
<1>2. DOMAIN seen[p] \subseteq Mob /\ \A m \in DOMAIN seen[p] : seen[p][m] \in Tile
  BY ViewIsView
<1>3. stay \subseteq DOMAIN seen[p] \cap S /\ came \subseteq S \ stay
  BY DEF Staying, NewMobs, Local
<1>4. DOMAIN kept = (DOMAIN seen[p] \ S) \cup stay
  BY DEF Kept
<1>5. ASSUME NEW m \in DOMAIN kept
      PROVE  /\ m \in stay => kept[m] = Shift(m, seen[p][m])
             /\ m \notin S => kept[m] = seen[p][m]
             /\ kept[m] \in Tile
  <2>1. kept[m] = IF m \in S THEN Shift(m, seen[p][m]) ELSE seen[p][m]
    BY <1>4, <1>5 DEF Kept
  <2>2. seen[p][m] \in Tile
    BY <1>2, <1>3, <1>4
  <2>3. Shift(m, seen[p][m]) \in Tile
    BY <2>2 DEF Shift
  <2> QED BY <1>3, <2>1, <2>2, <2>3
<1>6. PICK N \in Some(came, Least(max, room)) :
        /\ seen' = [seen EXCEPT ![p] =
             [m \in DOMAIN kept \cup N |-> IF m \in N THEN at[m] ELSE kept[m]]]
        /\ viewRadius' = IF N # came /\ room > max /\ ViewRadius(p) > 1
                         THEN [viewRadius EXCEPT ![p] = Dec(p)] ELSE viewRadius
  BY DEF Positions
<1>7. N \subseteq came /\ (N = came \/ Cardinality(N) = Least(max, room))
  BY <1>6 DEF Some
<1> DEFINE view == [m \in DOMAIN kept \cup N |-> IF m \in N THEN at[m] ELSE kept[m]]
<1>8. /\ DOMAIN view = (DOMAIN seen[p] \ S) \cup stay \cup N
      /\ \A m \in N : view[m] = at[m]
      /\ \A m \in DOMAIN kept \ N : view[m] = kept[m]
  BY <1>4
<1>9. view \in Views
  <2>1. DOMAIN view \subseteq Mob
    BY <1>1, <1>2, <1>3, <1>7, <1>8
  <2>2. ASSUME NEW m \in DOMAIN view PROVE view[m] \in Tile
    <3>1. m \in Mob
      BY <2>1
    <3>2. at[m] \in Tile
      BY <3>1 DEF TypeOK
    <3> QED BY <1>4, <1>5, <1>8, <3>2
  <2>3. view \in [DOMAIN view -> Tile]
    BY <2>2
  <2> QED BY <2>1, <2>3 DEF Views
<1>10. seen' \in [Player -> Views] /\ seen'[p] = view /\ \A v \in Player \ {p} : seen'[v] = seen[v]
  <2>1. seen' = [seen EXCEPT ![p] = view] /\ seen \in [Player -> Views]
    BY <1>6 DEF TypeOK
  <2> HIDE DEF view
  <2> QED BY <1>9, <2>1
<1>11. /\ viewRadius' \in [Player -> {Unset, -1}]
       /\ \A v \in Player \ {p} : viewRadius'[v] = viewRadius[v]
       /\ viewRadius' = viewRadius \/ (viewRadius[p] = Unset /\ viewRadius'[p] = -1)
  <2>1. viewRadius \in [Player -> {Unset, -1}] /\ FullRadius \in Nat
    BY ViewAssumption DEF TypeOK
  <2>2. CASE viewRadius' = viewRadius
    BY <2>1, <2>2
  <2>3. CASE viewRadius' = [viewRadius EXCEPT ![p] = Dec(p)] /\ ViewRadius(p) > 1
    <3>1. viewRadius[p] = Unset
      BY <2>1, <2>3 DEF ViewRadius, VarInt, Unset
    <3>2. Dec(p) = -1
      BY <3>1 DEF Dec
    <3> QED BY <2>1, <2>3, <3>1, <3>2
  <2> QED BY <1>6, <2>2, <2>3
<1>12. N = came \/ Cardinality(DOMAIN view \cap S) >= Least(max, MaxLocal)
  <2> SUFFICES ASSUME N # came PROVE Cardinality(DOMAIN view \cap S) >= Least(max, MaxLocal)
    OBVIOUS
  <2>1. DOMAIN view \cap S = stay \cup N /\ stay \cap N = {}
    BY <1>3, <1>7, <1>8
  <2>2. stay \in SUBSET Mob /\ N \in SUBSET Mob
    BY <1>1, <1>3, <1>7
  <2> HIDE DEF stay, view
  <2>3. IsFiniteSet(stay) /\ IsFiniteSet(N) /\ Cardinality(stay) \in Nat /\ Cardinality(N) \in Nat
    BY <2>2, FiniteMobs
  <2>4. Cardinality(stay \cup N) = Cardinality(stay) + Cardinality(N) - Cardinality(stay \cap N)
    BY <2>3, FS_Union
  <2>5. Cardinality(stay \cap N) = 0
    <3>1. Cardinality({}) = 0
      BY FS_EmptySet
    <3> QED BY <2>1, <3>1
  <2>6. room = MaxLocal - Cardinality(stay) /\ MaxLocal \in Nat
    BY ViewAssumption DEF Room, stay
  <2>7. Cardinality(N) = Least(max, room)
    BY <1>7
  <2> HIDE DEF room
  <2>8. Cardinality(DOMAIN view \cap S) = Cardinality(stay) + Cardinality(N)
    <3>1. Cardinality(stay \cup N) = Cardinality(stay) + Cardinality(N)
      BY <2>3, <2>4, <2>5
    <3> QED BY <2>1, <3>1
  <2>9. Cardinality(stay) + Least(max, room) >= Least(max, MaxLocal)
    <3>1. \A a, b, c \in Nat : a + Least(b, c - a) >= Least(b, c)
      BY DEF Least
    <3> QED BY <2>3, <2>6, <3>1
  <2> QED BY <2>7, <2>8, <2>9
<1>13. /\ DOMAIN seen'[p] = (DOMAIN seen[p] \ S) \cup stay \cup N
       /\ \A m \in N : seen'[p][m] = at[m]
       /\ \A m \in stay : seen'[p][m] = Shift(m, seen[p][m])
       /\ \A m \in DOMAIN seen[p] \ S : seen'[p][m] = seen[p][m]
       /\ N = came \/ Cardinality(DOMAIN seen'[p] \cap S) >= Least(max, MaxLocal)
  <2> HIDE DEF stay, came, kept, view
  <2>1. \A m \in stay : m \in DOMAIN kept \ N /\ m \in S
    BY <1>3, <1>4, <1>7
  <2>2. \A m \in DOMAIN seen[p] \ S : m \in DOMAIN kept \ N
    BY <1>3, <1>4, <1>7
  <2> QED BY <1>5, <1>8, <1>10, <1>12, <2>1, <2>2
<1> HIDE DEF stay, came, kept, view, room
<1>14. N \in SUBSET came
  BY <1>7
<1> QED BY <1>10, <1>11, <1>13, <1>14 DEF stay, came

LEMMA RadiusType ==
  ASSUME TypeOK, NEW p \in Player
  PROVE  ViewRadius(p) \in Int
BY ViewAssumption DEF TypeOK, ViewRadius, VarInt, Unset

(* The packet about players also has the looks queued of those that have come. *)
LEMMA PlayerPositionsGive ==
  ASSUME TypeOK, NEW p \in Player, PlayerPositions(p)
  PROVE  LET stay == Staying(p, Player, ViewRadius(p))
             came == NewMobs(p, Player, ViewRadius(p))
         IN  /\ seen' \in [Player -> Views]
             /\ viewRadius' \in [Player -> {Unset, -1}]
             /\ \A v \in Player \ {p} : seen'[v] = seen[v] /\ viewRadius'[v] = viewRadius[v]
             /\ writer' \in [Writer -> Hands] /\ writer'[<<p, "turn">>].job = {}
             /\ \A x \in Writer \ {<<p, "turn">>} : writer'[x] = writer[x]
             /\ \E N \in SUBSET came :
                  /\ DOMAIN seen'[p] = (DOMAIN seen[p] \ Player) \cup stay \cup N
                  /\ \A m \in N : seen'[p][m] = at[m]
                  /\ \A m \in stay : seen'[p][m] = Shift(m, seen[p][m])
                  /\ \A m \in DOMAIN seen[p] \ Player : seen'[p][m] = seen[p][m]
                  /\ N = came \/ Cardinality(DOMAIN seen'[p] \cap Player) >= Least(MaxNewPlayers, MaxLocal)
                  /\ \A q \in N : [to |-> p, event |-> Event(q)'] \in writer'[<<p, "turn">>].left
                  /\ missed' = missed \ ({p} \X N)
             /\ viewRadius' = viewRadius \/ (viewRadius[p] = Unset /\ viewRadius'[p] = -1)
<1> DEFINE stay == Staying(p, Player, ViewRadius(p))
           came == NewMobs(p, Player, ViewRadius(p))
           new == DOMAIN seen'[p] \ (stay \cup Npc)
<1>1. /\ ViewRadius(p) \in Int /\ MaxNewPlayers \in Nat
      /\ Positions(p, Player, ViewRadius(p), MaxNewPlayers)
  BY RadiusType, ViewAssumption DEF PlayerPositions
<1>2. /\ seen' \in [Player -> Views]
      /\ viewRadius' \in [Player -> {Unset, -1}]
      /\ \A v \in Player \ {p} : seen'[v] = seen[v] /\ viewRadius'[v] = viewRadius[v]
      /\ \E N \in SUBSET came :
           /\ DOMAIN seen'[p] = (DOMAIN seen[p] \ Player) \cup stay \cup N
           /\ \A m \in N : seen'[p][m] = at[m]
           /\ \A m \in stay : seen'[p][m] = Shift(m, seen[p][m])
           /\ \A m \in DOMAIN seen[p] \ Player : seen'[p][m] = seen[p][m]
           /\ N = came \/ Cardinality(DOMAIN seen'[p] \cap Player) >= Least(MaxNewPlayers, MaxLocal)
      /\ viewRadius' = viewRadius \/ (viewRadius[p] = Unset /\ viewRadius'[p] = -1)
  BY <1>1, PositionsGive
<1>3. PICK N \in SUBSET came :
           /\ DOMAIN seen'[p] = (DOMAIN seen[p] \ Player) \cup stay \cup N
           /\ \A m \in N : seen'[p][m] = at[m]
           /\ \A m \in stay : seen'[p][m] = Shift(m, seen[p][m])
           /\ \A m \in DOMAIN seen[p] \ Player : seen'[p][m] = seen[p][m]
           /\ N = came \/ Cardinality(DOMAIN seen'[p] \cap Player) >= Least(MaxNewPlayers, MaxLocal)
  BY <1>2
<1>4. new = N /\ N \subseteq Player
  <2>1. came \subseteq Player \ stay
    BY DEF NewMobs
  <2>2. DOMAIN seen[p] \ Player \subseteq Npc /\ Player \cap Npc = {}
    BY ViewIsView, ViewAssumption DEF Mob
  <2> QED BY <1>3, <2>1, <2>2
<1>5. PICK jobs : jobs = Jobs({p}, new)
  OBVIOUS
<1>6. /\ Enqueues(<<p, "turn">>, jobs)
      /\ missed' = missed \ ({p} \X new)
  BY <1>5 DEF PlayerPositions
<1>7. jobs \in SUBSET Job /\ \A q \in N : [to |-> p, event |-> Event(q)'] \in jobs
  <2>1. ticket' \in [Player -> Nat]
    BY DEF PlayerPositions, TypeOK
  <2>2. jobs = Jobs({p}, N)
    BY <1>4, <1>5
  <2> QED BY <1>4, <2>1, <2>2, JobsAre
<1>8. /\ writer' \in [Writer -> Hands]
      /\ writer'[<<p, "turn">>].left = jobs /\ writer'[<<p, "turn">>].job = {}
      /\ \A x \in Writer \ {<<p, "turn">>} : writer'[x] = writer[x]
  BY <1>6, <1>7, TurnIsWriter, EnqueuesGives
<1>9. missed' = missed \ ({p} \X N)
  BY <1>4, <1>6
<1> HIDE DEF stay, came, new
<1> QED BY <1>2, <1>3, <1>7, <1>8, <1>9 DEF stay, came

(* The packet about NPCs. *)
LEMMA NPCPositionsGive ==
  ASSUME TypeOK, NEW p \in Player, NPCPositions(p)
  PROVE  LET stay == Staying(p, Npc, ViewRadius(p) - 1)
             came == NewMobs(p, Npc, ViewRadius(p) - 1)
         IN  /\ seen' \in [Player -> Views]
             /\ viewRadius' \in [Player -> {Unset, -1}]
             /\ \A v \in Player \ {p} : seen'[v] = seen[v] /\ viewRadius'[v] = viewRadius[v]
             /\ \E N \in SUBSET came :
                  /\ DOMAIN seen'[p] = (DOMAIN seen[p] \ Npc) \cup stay \cup N
                  /\ \A m \in N : seen'[p][m] = at[m]
                  /\ \A m \in stay : seen'[p][m] = Shift(m, seen[p][m])
                  /\ \A m \in DOMAIN seen[p] \ Npc : seen'[p][m] = seen[p][m]
                  /\ N = came \/ Cardinality(DOMAIN seen'[p] \cap Npc) >= Least(MaxNewNpcs, MaxLocal)
             /\ viewRadius' = viewRadius \/ (viewRadius[p] = Unset /\ viewRadius'[p] = -1)
<1>1. /\ ViewRadius(p) - 1 \in Int /\ MaxNewNpcs \in Nat
      /\ Positions(p, Npc, ViewRadius(p) - 1, MaxNewNpcs)
  BY RadiusType, ViewAssumption DEF NPCPositions
<1> QED BY <1>1, PositionsGive

-----------------------------------------------------------------------------
(* Every step keeps the types. *)

LEMMA AppearanceTypes ==
  ASSUME TypeOK, NEW w \in Writer, UpdateAppearance(w)
  PROVE  TypeOK'
<1>1. ticket' \in [Player -> Nat] /\ moves' \in Nat
  BY WriterType DEF UpdateAppearance, Moving, TypeOK
<1>2. writer' \in [Writer -> Hands]
  BY <1>1, EnqueueAreaGives DEF UpdateAppearance
<1>3. missed' \subseteq Player \X Player
  BY WriterType DEF UpdateAppearance, TypeOK
<1> QED BY <1>1, <1>2, <1>3 DEF UpdateAppearance, TypeOK, Hands, body, client, turn

LEMMA PacketsTypes ==
  ASSUME TypeOK, NEW p \in Player, Initialize(p) \/ ChangesLooks(p) \/ LevelsUp(p)
  PROVE  TypeOK'
<1>1. CASE Initialize(p)
  <2>1. ticket' \in [Player -> Nat] /\ ready' \subseteq Player /\ missed' \subseteq missed
    BY <1>1 DEF Initialize, TypeOK
  <2>2. writer' \in [Writer -> Hands]
    BY <1>1, <2>1, TurnIsWriter, EnqueueAreaGives DEF Initialize
  <2> QED BY <1>1, <2>1, <2>2 DEF Initialize, TypeOK, Hands, body, client, turn
<1> QED BY <1>1, TurnIsWriter, AppearanceTypes DEF ChangesLooks, LevelsUp

LEMMA QueueTypes ==
  ASSUME TypeOK, NEW w \in Writer, Fetch(w) \/ Store(w)
  PROVE  TypeOK'
<1>1. CASE Fetch(w)
  <2>1. writer' \in [Writer -> Hands]
    BY <1>1, FetchGives
  <2> QED BY <1>1, <2>1 DEF Fetch, TypeOK, Hands, body, client, history, turn
<1>2. CASE Store(w)
  <2>1. PICK j \in writer[w].job :
          /\ j \in Job
          /\ writer' \in [Writer -> Hands]
          /\ events' \in [Player -> Seq(Events)]
          /\ missed' = missed \cup Overwritten(j.to, events'[j.to])
          /\ since' = since \cup {<<j.to, j.event.who>>}
    BY <1>2, StoreGives
  <2>2. j.to \in Player /\ j.event \in Events
    BY <2>1, JobType
  <2>3. missed' \cup since' \subseteq Player \X Player
    <3>1. \A e \in ToSet(events[j.to]) : e.who \in Player
      <4>1. events[j.to] \in Seq(Events)
        BY <2>2 DEF TypeOK
      <4>2. ToSet(events[j.to]) \subseteq Events
        BY <4>1, ToSetType
      <4> QED BY <4>2 DEF Events
    <3>2. Overwritten(j.to, events'[j.to]) \subseteq Player \X Player
      BY <2>2, <3>1 DEF Overwritten
    <3>3. j.event.who \in Player
      BY <2>2 DEF Events
    <3> QED BY <2>1, <2>2, <3>2, <3>3 DEF TypeOK
  <2> QED BY <1>2, <2>1, <2>3 DEF Store, TypeOK, Hands, body, client, turn
<1> QED BY <1>1, <1>2

(* A step that moves one mob. *)
LEMMA MovingTypes ==
  ASSUME TypeOK, NEW m \in Mob, Displaces(m) \/ UNCHANGED body,
         late' \subseteq Mob, lost' = lost, moves' \in Nat,
         life' \in [Mob -> PlayerLives \cup {"removed"}],
         \A n \in Npc : life'[n] \in {"in", "removed"},
         \A p \in Player : life'[p] # "removed",
         UNCHANGED <<ready, client, queues, missed, since>>
  PROVE  TypeOK'
<1>1. /\ at' \in [Mob -> Tile] /\ step' \in [Mob -> Int] /\ listing' \in [Mob -> SUBSET Int]
      /\ removed' \subseteq Mob
  BY DEF Displaces, TypeOK, body
<1> QED BY <1>1 DEF TypeOK, client, queues

LEMMA MovesTypes ==
  ASSUME TypeOK,
         \/ \E p \in Player : Act(p) \/ ScriptTeleport(p)
         \/ \E n \in Npc : NpcWalks(n) \/ Killed(n) \/ Respawn(n)
  PROVE  TypeOK'
<1>0. Player \subseteq Mob /\ Npc \subseteq Mob /\ Player \cap Npc = {} /\ late \subseteq Mob /\ moves \in Nat
      /\ life \in [Mob -> PlayerLives \cup {"removed"}]
      /\ (\A n \in Npc : life[n] \in {"in", "removed"}) /\ (\A p \in Player : life[p] # "removed")
  BY ViewAssumption DEF Mob, TypeOK
<1>1. ASSUME NEW p \in Player, Act(p) PROVE TypeOK'
  <2>1. life' = life /\ UNCHANGED <<ready, client, queues, missed, since>>
    BY <1>1 DEF Act
  <2> QED BY <1>0, <1>1, <2>1, ActMoves, MovingTypes
<1>2. ASSUME NEW p \in Player, ScriptTeleport(p) PROVE TypeOK'
  <2>1. p \in Mob /\ life' = life /\ UNCHANGED <<ready, client, queues, missed, since>> /\ Teleport(p)
    BY <1>0, <1>2 DEF ScriptTeleport
  <2>2. Displaces(p) /\ lost' = lost /\ moves' \in Nat /\ late' \subseteq Mob
    BY <1>0, <2>1, TeleportMoves
  <2> QED BY <1>0, <2>1, <2>2, MovingTypes
<1>3. ASSUME NEW n \in Npc, NpcWalks(n) PROVE TypeOK'
  <2>1. life' = life /\ UNCHANGED <<ready, client, queues, missed, since>>
    BY <1>3 DEF NpcWalks
  <2> QED BY <1>0, <1>3, <2>1, NpcWalksMoves, MovingTypes
<1>4. ASSUME NEW n \in Npc, Killed(n) PROVE TypeOK'
  <2>1. n \in Mob /\ life' = [life EXCEPT ![n] = "removed"] /\ UNCHANGED <<ready, client, queues, missed, since>>
    BY <1>0, <1>4 DEF Killed
  <2>2. Displaces(n) /\ lost' = lost /\ moves' \in Nat /\ late' \subseteq Mob
    BY <1>0, <1>4, KilledMoves
  <2>3. life' \in [Mob -> PlayerLives \cup {"removed"}]
        /\ (\A k \in Npc : life'[k] \in {"in", "removed"}) /\ (\A p \in Player : life'[p] # "removed")
    BY <1>0, <2>1
  <2> QED BY <2>1, <2>2, <2>3, MovingTypes
<1>5. ASSUME NEW n \in Npc, Respawn(n) PROVE TypeOK'
  <2>1. n \in Mob /\ life' = [life EXCEPT ![n] = "in"]
        /\ UNCHANGED <<ready, client, queues, missed, since, late, lost, moves>>
    BY <1>0, <1>5 DEF Respawn, history
  <2>2. Displaces(n)
    BY <1>0, <1>5, RespawnMoves
  <2>3. life' \in [Mob -> PlayerLives \cup {"removed"}]
        /\ (\A k \in Npc : life'[k] \in {"in", "removed"}) /\ (\A p \in Player : life'[p] # "removed")
    BY <1>0, <2>1 DEF PlayerLives
  <2>4. late' \subseteq Mob /\ lost' = lost /\ moves' \in Nat
    BY <1>0, <2>1
  <2> QED BY <2>1, <2>2, <2>3, <2>4, MovingTypes
<1> QED BY <1>1, <1>2, <1>3, <1>4, <1>5

LEMMA UpdateTypes ==
  ASSUME TypeOK, NEW p \in Player, UpdateOf(p)
  PROVE  TypeOK'
<1>1. CASE PlayerPositions(p)
  <2>1. /\ seen' \in [Player -> Views] /\ viewRadius' \in [Player -> {Unset, -1}]
        /\ writer' \in [Writer -> Hands] /\ missed' \subseteq missed
    BY <1>1, PlayerPositionsGive
  <2> QED BY <1>1, <2>1 DEF PlayerPositions, TypeOK, Hands, body
<1>2. CASE NPCPositions(p)
  <2>1. seen' \in [Player -> Views] /\ viewRadius' \in [Player -> {Unset, -1}]
    BY <1>2, NPCPositionsGive
  <2> QED BY <1>2, <2>1 DEF NPCPositions, TypeOK, body, queues, history
<1>3. CASE PlayerAppearances(p)
  <2>1. \A q \in Player : ticket[q] \in Int /\ known[p][q] \in Int
    BY DEF TypeOK
  <2> DEFINE heard == [q \in Player |-> IF \E e \in Current(p) : e.who = q THEN ticket[q] ELSE known[p][q]]
  <2>2. heard \in [Player -> Int]
    BY <2>1
  <2>3. known' = [known EXCEPT ![p] = heard]
    BY <1>3 DEF PlayerAppearances
  <2>4. known' \in [Player -> [Player -> Int]]
    <3> HIDE DEF heard
    <3> QED BY <2>2, <2>3 DEF TypeOK
  <2>5. since' \subseteq since
    BY <1>3 DEF PlayerAppearances
  <2> QED BY <1>3, <2>4, <2>5 DEF PlayerAppearances, TypeOK, body, queues
<1>4. CASE UnsetEvents(p)
  <2>1. events' \in [Player -> Seq(Events)]
    <3>1. <<>> \in Seq(Events)
      BY EmptySeq
    <3> QED BY <1>4, <3>1 DEF UnsetEvents, TypeOK
  <2>2. Erased(p) \subseteq Player \X Player
    <3>1. events[p] \in Seq(Events)
      BY DEF TypeOK
    <3>2. ToSet(events[p]) \subseteq Events
      BY <3>1, ToSetType
    <3> QED BY <3>2 DEF Erased, Current, Events
  <2> QED BY <1>4, <2>1, <2>2 DEF UnsetEvents, TypeOK, body, client
<1> QED BY <1>1, <1>2, <1>3, <1>4 DEF UpdateOf

LEMMA LoginTypes ==
  ASSUME TypeOK, NEW p \in Player,
         Reset(p) \/ Put(p) \/ Place(p) \/ SetRegionRemoved(p) \/ Unplace(p)
  PROVE  TypeOK'
<1>0. p \in Mob /\ p \notin Npc
  BY ViewAssumption DEF Mob
<1>1. CASE Reset(p)
  <2>1. step' \in [Mob -> Int] /\ removed' \subseteq Mob /\ lost' \subseteq Mob
    BY <1>0, <1>1 DEF Reset, TypeOK
  <2> QED BY <1>1, <2>1 DEF Reset, TypeOK, client, queues
<1>2. ASSUME NEW l \in PlayerLives, life' = [life EXCEPT ![p] = l]
      PROVE  /\ life' \in [Mob -> PlayerLives \cup {"removed"}]
             /\ \A n \in Npc : life'[n] \in {"in", "removed"}
             /\ \A q \in Player : life'[q] # "removed"
  BY <1>0, <1>2 DEF TypeOK, PlayerLives, Mob
<1>3. ASSUME Late({p}) PROVE late' \subseteq Mob /\ lost' = lost
  BY <1>0, <1>3 DEF Late, TypeOK
<1>4. CASE Put(p)
  <2>1. life' = [life EXCEPT ![p] = "listed"] /\ "listed" \in PlayerLives
    BY <1>4 DEF Put, PlayerLives
  <2> QED BY <1>2, <1>4, <2>1 DEF Put, TypeOK, body, client, queues, history
<1>5. CASE Place(p)
  <2>1. life' = [life EXCEPT ![p] = "in"] /\ "in" \in PlayerLives
    BY <1>5 DEF Place, PlayerLives
  <2>2. listing' \in [Mob -> SUBSET Int]
    <3>1. Region(at[p]) \in Int
      BY <1>0, RegionType DEF TypeOK
    <3> QED BY <1>0, <1>5, <3>1 DEF Place, TypeOK
  <2> QED BY <1>2, <1>3, <1>5, <2>1, <2>2 DEF Place, TypeOK, client, queues
<1>6. CASE SetRegionRemoved(p)
  <2>1. life' = [life EXCEPT ![p] = "marked"] /\ "marked" \in PlayerLives
    BY <1>6 DEF SetRegionRemoved, PlayerLives
  <2>2. removed' \subseteq Mob
    BY <1>0, <1>6 DEF SetRegionRemoved, TypeOK
  <2>3. moves' \in Nat
    BY <1>6 DEF SetRegionRemoved, Moving, TypeOK
  <2> QED BY <1>2, <1>3, <1>6, <2>1, <2>2, <2>3 DEF SetRegionRemoved, TypeOK, client, queues
<1>7. CASE Unplace(p)
  <2>1. life' = [life EXCEPT ![p] = "unplaced"] /\ "unplaced" \in PlayerLives
    BY <1>7 DEF Unplace, PlayerLives
  <2>2. listing' \in [Mob -> SUBSET Int]
    BY <1>0, <1>7 DEF Unplace, TypeOK
  <2> QED BY <1>2, <1>3, <1>7, <2>1, <2>2 DEF Unplace, TypeOK, client, queues
<1> QED BY <1>1, <1>4, <1>5, <1>6, <1>7

LEMMA DelistTypes ==
  ASSUME TypeOK, NEW p \in Player, Delist(p)
  PROVE  TypeOK'
<1>1. /\ life' \in [Mob -> PlayerLives \cup {"removed"}]
      /\ \A n \in Npc : life'[n] \in {"in", "removed"}
      /\ \A q \in Player : life'[q] # "removed"
  BY ViewAssumption DEF Delist, TypeOK, PlayerLives, Mob
<1>2. seen' \in [Player -> Views]
  <2>1. <<>> \in [{} -> Tile]
    BY EmptySeq, LenProperties
  <2>2. <<>> \in Views
    BY <2>1 DEF Views
  <2> QED BY <2>2 DEF Delist, TypeOK
<1>3. known' \in [Player -> [Player -> Int]]
  <2> DEFINE none == [q \in Player |-> -1]
  <2>1. none \in [Player -> Int]
    OBVIOUS
  <2>2. known' = [known EXCEPT ![p] = none]
    BY DEF Delist
  <2> HIDE DEF none
  <2> QED BY <2>1, <2>2 DEF TypeOK
<1>4. events' \in [Player -> Seq(Events)]
  <2>1. <<>> \in Seq(Events)
    BY EmptySeq
  <2> QED BY <2>1 DEF Delist, TypeOK
<1> QED BY <1>1, <1>2, <1>3, <1>4 DEF Delist, TypeOK, Hands, body, history

LEMMA NextTypes ==
  ASSUME TypeOK, [Next]_vars
  PROVE  TypeOK'
<1>1. CASE UNCHANGED vars
  BY <1>1 DEF vars, body, client, queues, history, TypeOK
<1>2. CASE NextPhase
  <2>1. /\ removed' \subseteq Mob /\ step' \in [Mob -> Int]
        /\ late' \subseteq Mob /\ lost' \subseteq Mob
    BY <1>2 DEF NextPhase, TypeOK
  <2> QED BY <1>2, <2>1 DEF NextPhase, TypeOK, client, queues
<1>3. ASSUME NEW p \in Player, PacketsOf(p) \/ UpdateOf(p) \/ Reset(p) \/ Put(p) \/ Place(p)
                                 \/ DestroyOf(p) \/ ScriptTeleport(p) \/ LevelsUp(p)
      PROVE  TypeOK'
  BY <1>3, PacketsTypes, MovesTypes, UpdateTypes, LoginTypes, DelistTypes DEF PacketsOf, DestroyOf
<1>4. ASSUME NEW n \in Npc, NpcWalks(n) \/ Killed(n) \/ Respawn(n) PROVE TypeOK'
  BY <1>4, MovesTypes
<1>5. ASSUME NEW w \in Writer, Fetch(w) \/ Store(w) PROVE TypeOK'
  BY <1>5, QueueTypes
<1> QED BY <1>1, <1>2, <1>3, <1>4, <1>5 DEF Next

-----------------------------------------------------------------------------
(* Steps, by what they leave alone. *)

(* Steps that have looks queued, or queue them. *)
Describing ==
  \/ \E p \in Player : Initialize(p) \/ ChangesLooks(p) \/ LevelsUp(p)
  \/ \E w \in Writer : Fetch(w) \/ Store(w)

LEMMA DescribingMovesNobody ==
  ASSUME Describing
  PROVE  /\ UNCHANGED <<at, step, removed, listing, life, seen, known, viewRadius>>
         /\ UNCHANGED <<phase, todo, late, lost>>
<1>1. ASSUME NEW w, UpdateAppearance(w)
      PROVE  UNCHANGED <<body, life, client, turn, late, lost>>
  BY <1>1 DEF UpdateAppearance
<1>2. ASSUME NEW p \in Player, Initialize(p)
      PROVE  UNCHANGED <<body, life, client, turn, late, lost>>
  BY <1>2 DEF Initialize
<1>3. ASSUME NEW w \in Writer, Fetch(w) \/ Store(w)
      PROVE  UNCHANGED <<body, life, client, turn, late, lost>>
  BY <1>3 DEF Fetch, Store, history
<1> QED BY <1>1, <1>2, <1>3 DEF Describing, ChangesLooks, LevelsUp, body, client, turn

(* The way of a player's life. *)
LEMMA Careers ==
  ASSUME TypeOK, [Next]_vars, NEW p \in Player
  PROVE  \/ life'[p] = life[p]
         \/ life[p] = "out" /\ life'[p] = "listed"
         \/ life[p] = "listed" /\ life'[p] = "in"
         \/ life[p] = "in" /\ life'[p] = "marked"
         \/ life[p] = "marked" /\ life'[p] = "unplaced"
         \/ life[p] = "unplaced" /\ life'[p] = "gone"
<1>0. p \in Mob /\ p \notin Npc /\ life \in [Mob -> PlayerLives \cup {"removed"}]
  BY ViewAssumption DEF Mob, TypeOK
<1>1. CASE UNCHANGED vars
  BY <1>1 DEF vars
<1>2. CASE NextPhase
  BY <1>2 DEF NextPhase
<1>3. ASSUME NEW q \in Player, Act(q) \/ UpdateOf(q) \/ Reset(q) \/ ScriptTeleport(q)
      PROVE  life' = life
  BY <1>3 DEF UpdateOf, Act, PlayerPositions, NPCPositions, PlayerAppearances, UnsetEvents, Reset, ScriptTeleport
<1>4. ASSUME NEW q \in Player, Put(q) \/ Place(q) \/ DestroyOf(q)
      PROVE  \/ life'[p] = life[p]
             \/ life[p] = "out" /\ life'[p] = "listed"
             \/ life[p] = "listed" /\ life'[p] = "in"
             \/ life[p] = "in" /\ life'[p] = "marked"
             \/ life[p] = "marked" /\ life'[p] = "unplaced"
             \/ life[p] = "unplaced" /\ life'[p] = "gone"
  BY <1>0, <1>4 DEF DestroyOf, Put, Place, SetRegionRemoved, Unplace, Delist
<1>5. ASSUME NEW n \in Npc, NpcWalks(n) \/ Killed(n) \/ Respawn(n)
      PROVE  life'[p] = life[p]
  BY <1>0, <1>5 DEF NpcWalks, Killed, Respawn
<1>6. CASE Describing
  BY <1>6, DescribingMovesNobody
<1> QED BY <1>1, <1>2, <1>3, <1>4, <1>5, <1>6 DEF Next, PacketsOf, Describing

(* A step that sends no packet and begins no phase. *)
Elsewhere ==
  /\ phase' = phase /\ todo' \subseteq todo /\ (phase = "update" => todo' = todo)
  /\ viewRadius' = viewRadius
  /\ \A p \in Player : life'[p] # "gone" => life[p] # "gone" /\ seen'[p] = seen[p]
  /\ \A p \in Player : DOMAIN seen'[p] \subseteq DOMAIN seen[p]
  /\ late \subseteq late' /\ lost \subseteq lost'

OthersTurn ==
  \/ Describing
  \/ \E p \in Player : Act(p) \/ Reset(p) \/ Put(p) \/ Place(p) \/ DestroyOf(p) \/ ScriptTeleport(p)
  \/ \E n \in Npc : NpcWalks(n) \/ Killed(n) \/ Respawn(n)

LEMMA OthersAreSteps == OthersTurn => [Next]_vars
BY DEF OthersTurn, Describing, Next, PacketsOf

LEMMA OthersAreElsewhere ==
  ASSUME TypeOK, OthersTurn
  PROVE  Elsewhere
<1>1. \A p \in Player : life'[p] # "gone" => life[p] # "gone"
  BY OthersAreSteps, Careers
<1>2. phase' = phase /\ todo' \subseteq todo /\ (phase = "update" => todo' = todo)
  <2>1. ASSUME NEW p \in Player, Act(p)
        PROVE  phase' = phase /\ todo' \subseteq todo /\ (phase = "update" => todo' = todo)
    BY <2>1 DEF Act, Turn, TurnEnds
  <2>2. ASSUME NEW p \in Player, Reset(p) \/ Put(p) \/ Place(p) \/ DestroyOf(p) \/ ScriptTeleport(p)
        PROVE  phase' = phase /\ todo' \subseteq todo /\ (phase = "update" => todo' = todo)
    BY <2>2 DEF DestroyOf, Reset, Put, Place, SetRegionRemoved, Unplace, Delist, ScriptTeleport, TurnEnds, turn
  <2>3. ASSUME NEW n \in Npc, NpcWalks(n) \/ Killed(n) \/ Respawn(n)
        PROVE  phase' = phase /\ todo' \subseteq todo /\ (phase = "update" => todo' = todo)
    BY <2>3 DEF NpcWalks, Killed, Respawn, NpcTurn, TurnEnds, turn
  <2> QED BY <2>1, <2>2, <2>3, DescribingMovesNobody DEF OthersTurn
<1>3. ASSUME ~ \E p \in Player : Delist(p)
      PROVE  viewRadius' = viewRadius /\ seen' = seen
  <2>1. ASSUME NEW p \in Player,
               Act(p) \/ Reset(p) \/ Put(p) \/ Place(p) \/ SetRegionRemoved(p) \/ Unplace(p) \/ ScriptTeleport(p)
        PROVE UNCHANGED client
    BY <2>1 DEF Act, Reset, Put, Place, SetRegionRemoved, Unplace, ScriptTeleport
  <2>2. ASSUME NEW n \in Npc, NpcWalks(n) \/ Killed(n) \/ Respawn(n) PROVE UNCHANGED client
    BY <2>2 DEF NpcWalks, Killed, Respawn
  <2> QED BY <1>3, <2>1, <2>2, DescribingMovesNobody DEF OthersTurn, DestroyOf, client
<1>4. ASSUME NEW p \in Player, Delist(p)
      PROVE  /\ viewRadius' = viewRadius
             /\ \A q \in Player : life'[q] # "gone" => seen'[q] = seen[q]
             /\ \A q \in Player : DOMAIN seen'[q] \subseteq DOMAIN seen[q]
  <2>1. DOMAIN <<>> = {}
    BY EmptySeq, LenProperties
  <2>2. p \in Mob /\ life'[p] = "gone"
    BY <1>4 DEF Delist, TypeOK, Mob
  <2>3. seen' = [seen EXCEPT ![p] = <<>>] /\ seen \in [Player -> Views] /\ viewRadius' = viewRadius
    BY <1>4 DEF Delist, TypeOK
  <2> QED BY <2>1, <2>2, <2>3
<1>5. late \subseteq late' /\ lost \subseteq lost'
  <2>0. \A m : Late({m}) => late \subseteq late' /\ lost' = lost
    BY DEF Late
  <2>1. ASSUME NEW p \in Player, Act(p) PROVE late \subseteq late' /\ lost \subseteq lost'
    BY <2>1, ActMoves
  <2>2. ASSUME NEW p \in Player, Reset(p) \/ Put(p) \/ Place(p) \/ DestroyOf(p) \/ ScriptTeleport(p)
        PROVE late \subseteq late' /\ lost \subseteq lost'
    BY <2>0, <2>2 DEF DestroyOf, Reset, Put, Place, SetRegionRemoved, Unplace, Delist, ScriptTeleport, Teleport, history
  <2>3. ASSUME NEW n \in Npc, NpcWalks(n) \/ Killed(n) \/ Respawn(n)
        PROVE late \subseteq late' /\ lost \subseteq lost'
    BY <2>0, <2>3, NpcWalksMoves DEF Killed, Respawn, history
  <2> QED BY <2>1, <2>2, <2>3, DescribingMovesNobody DEF OthersTurn
<1> QED BY <1>1, <1>2, <1>3, <1>4, <1>5 DEF Elsewhere

LEMMA SameTold ==
  ASSUME Elsewhere, NEW p \in Player
  PROVE  /\ \A m : Told(p, m)' <=> Told(p, m)
         /\ Described(p)' <=> Described(p)
BY DEF Elsewhere, Told, Described

(* How a mob goes on: lost sight of; marked where it counts as late; left where
   it is and seen there, or with its marks; or, before positions are sent, marked
   or moved by the direction it sets. *)
Follows(m) ==
  \/ m \in lost'
  \/ m \in removed' \cap late'
  \/ at'[m] = at[m] /\ phase = "reset" /\ m \notin late \cap removed
  \/ at'[m] = at[m] /\ step'[m] = step[m] /\ (m \in removed => m \in removed')
  \/ ~Sending /\ (m \in removed' \/ (m \notin removed /\ at'[m] - step'[m] = at[m] - step[m]))

(* Where regions have it, and what becomes of it. *)
Placed(m) ==
  \/ m \in late' \/ ~Sending
  \/ /\ at'[m] = at[m] /\ listing'[m] = listing[m]
     /\ life'[m] = "in" => life[m] = "in"
     /\ life'[m] \in {"unplaced", "gone"} => life[m] \in {"unplaced", "gone"}

LEMMA DisplacedFollows ==
  ASSUME TypeOK, NEW m \in Mob, Displaces(m),
         Sending => m \in late' /\ step' = step /\ m \in removed',
         ~Sending => (step' = step /\ m \in removed') \/ step[m] = 0,
         Sending => \A k \in Mob : life'[k] = life[k]
  PROVE  \A k \in Mob : Follows(k) /\ Placed(k)
<1>1. ASSUME NEW k \in Mob \ {m} PROVE Follows(k) /\ Placed(k)
  BY DEF Displaces, Follows, Placed
<1>2. Placed(m)
  BY DEF Placed
<1>3. Follows(m)
  <2>1. CASE m \in removed'
    BY <2>1 DEF Follows
  <2>2. CASE m \notin removed'
    <3>1. ~Sending /\ step[m] = 0 /\ step'[m] = at'[m] - at[m] /\ removed' = removed
      BY <2>2 DEF Displaces
    <3>2. at[m] \in Int /\ at'[m] \in Int
      <4>1. at[m] \in Tile /\ at'[m] \in Tile
        BY DEF TypeOK, Displaces
      <4>2. \A x \in Tile : x \in Int
        BY TilesAreNumbers
      <4> QED BY <4>1, <4>2
    <3>3. at'[m] - step'[m] = at[m] - step[m]
      BY <3>1, <3>2
    <3> QED BY <2>2, <3>1, <3>3 DEF Follows
  <2> QED BY <2>1, <2>2
<1> QED BY <1>1, <1>2, <1>3

LEMMA EverybodyFollows ==
  ASSUME TypeOK, Turns, Fresh, OthersTurn
  PROVE  \A k \in Mob : Follows(k) /\ Placed(k)
<1>0. Player \subseteq Mob /\ Npc \subseteq Mob /\ Player \cap Npc = {}
  BY ViewAssumption DEF Mob
<1>1. ASSUME UNCHANGED <<at, step, removed, listing, life>>
      PROVE  \A k \in Mob : Follows(k) /\ Placed(k)
  BY <1>1 DEF Follows, Placed
<1>2. CASE Describing
  BY <1>1, <1>2, DescribingMovesNobody
<1>3. ASSUME NEW p \in Player, Act(p) PROVE \A k \in Mob : Follows(k) /\ Placed(k)
  <2>1. ~Sending /\ life' = life
    BY <1>3 DEF Act, Turn, Sending
  <2>2. step[p] = 0
    BY <1>3 DEF Act, Turn, Fresh
  <2>3. Displaces(p) \/ UNCHANGED body
    BY <1>3, ActMoves
  <2> QED BY <1>0, <1>1, <2>1, <2>2, <2>3, DisplacedFollows DEF body
<1>4. ASSUME NEW p \in Player, ScriptTeleport(p) PROVE \A k \in Mob : Follows(k) /\ Placed(k)
  <2>1. Teleport(p) /\ life' = life /\ p \in Mob
    BY <1>0, <1>4 DEF ScriptTeleport
  <2> QED BY <2>1, TeleportMoves, DisplacedFollows
<1>5. ASSUME NEW n \in Npc, NpcWalks(n) PROVE \A k \in Mob : Follows(k) /\ Placed(k)
  <2>1. ~Sending /\ life' = life /\ n \in Mob /\ step[n] = 0
    BY <1>0, <1>5 DEF NpcWalks, NpcTurn, Sending, Fresh
  <2>2. Displaces(n) \/ UNCHANGED body
    BY <1>5, NpcWalksMoves
  <2> QED BY <1>1, <2>1, <2>2, DisplacedFollows DEF body
<1>6. ASSUME NEW n \in Npc, Respawn(n) PROVE \A k \in Mob : Follows(k) /\ Placed(k)
  <2>1. ~Sending /\ n \in Mob
    BY <1>0, <1>6 DEF Respawn, Sending
  <2> QED BY <1>6, <2>1, RespawnMoves, DisplacedFollows
<1>7. ASSUME NEW n \in Npc, Killed(n) PROVE \A k \in Mob : Follows(k) /\ Placed(k)
  <2>1. /\ Displaces(n) /\ n \in removed' /\ step' = step /\ n \in Mob
        /\ late' = IF Sending THEN late \cup {n} ELSE late
    BY <1>0, <1>7, KilledMoves
  <2>2. ASSUME NEW k \in Mob \ {n} PROVE Follows(k) /\ Placed(k)
    <3>1. life'[k] = life[k]
      BY <1>7 DEF Killed, TypeOK
    <3> QED BY <2>1, <3>1 DEF Displaces, Follows, Placed
  <2>3. Follows(n) /\ Placed(n)
    BY <2>1 DEF Follows, Placed
  <2> QED BY <2>2, <2>3
<1>8. ASSUME NEW p \in Player, Reset(p) PROVE \A k \in Mob : Follows(k) /\ Placed(k)
  <2>1. /\ phase = "reset" /\ at' = at /\ listing' = listing /\ life' = life
        /\ removed' = removed \ {p} /\ step' = [step EXCEPT ![p] = 0]
        /\ p \in removed /\ p \in late => p \in lost'
    BY <1>8 DEF Reset
  <2>2. ASSUME NEW k \in Mob PROVE Placed(k)
    BY <2>1 DEF Placed
  <2>3. ASSUME NEW k \in Mob \ {p} PROVE Follows(k)
    <3>1. step'[k] = step[k]
      BY <2>1 DEF TypeOK
    <3> QED BY <2>1, <3>1 DEF Follows
  <2>4. Follows(p)
    BY <2>1 DEF Follows
  <2> QED BY <2>2, <2>3, <2>4
<1>9. ASSUME NEW p \in Player, Put(p) \/ Place(p) \/ DestroyOf(p)
      PROVE  \A k \in Mob : Follows(k) /\ Placed(k)
  <2>1. at' = at /\ step' = step /\ removed \subseteq removed'
    BY <1>9 DEF Put, Place, DestroyOf, SetRegionRemoved, Unplace, Delist, body
  <2>2. ASSUME NEW k \in Mob PROVE Follows(k)
    BY <2>1 DEF Follows
  <2>3. ASSUME NEW k \in Mob \ {p} PROVE Placed(k)
    <3>1. life'[k] = life[k] /\ listing'[k] = listing[k]
      BY <1>9 DEF Put, Place, DestroyOf, SetRegionRemoved, Unplace, Delist, body, TypeOK
    <3> QED BY <2>1, <3>1 DEF Placed
  <2>4. Placed(p)
    <3>1. p \in Mob /\ life \in [Mob -> PlayerLives \cup {"removed"}]
      BY <1>0 DEF TypeOK
    <3>2. CASE Place(p) \/ SetRegionRemoved(p) \/ Unplace(p)
      BY <3>2 DEF Place, SetRegionRemoved, Unplace, Late, Placed
    <3>3. CASE Put(p)
      BY <2>1, <3>1, <3>3 DEF Put, Placed, body
    <3>4. CASE Delist(p)
      BY <2>1, <3>1, <3>4 DEF Delist, Placed, body
    <3> QED BY <1>9, <3>2, <3>3, <3>4 DEF DestroyOf
  <2> QED BY <2>2, <2>3, <2>4
<1> QED BY <1>1, <1>2, <1>3, <1>4, <1>5, <1>6, <1>7, <1>8, <1>9 DEF OthersTurn

-----------------------------------------------------------------------------
(* What the steps of others keep. *)

LEMMA AddingElsewhere ==
  ASSUME TypeOK, TypeOK', Adding, Elsewhere, \A m \in Mob : Follows(m)
  PROVE  Adding'
<1> SUFFICES ASSUME NEW p \in Player, life'[p] # "gone", NEW m \in DOMAIN seen'[p] \ lost'
             PROVE  /\ Told(p, m)' => m \in late' \cap removed' \/ seen'[p][m] = at'[m]
                    /\ ~Told(p, m)' => m \in removed' \/ seen'[p][m] + step'[m] = at'[m]
  BY DEF Adding
<1>1. life[p] # "gone" /\ seen'[p] = seen[p] /\ m \in DOMAIN seen[p] \ lost
      /\ (Told(p, m)' <=> Told(p, m)) /\ late \subseteq late'
  BY SameTold DEF Elsewhere
<1>2. m \in Mob /\ seen[p][m] \in Int /\ at[m] \in Int /\ at'[m] \in Int /\ step[m] \in Int /\ step'[m] \in Int
  <2>1. m \in Mob /\ seen[p][m] \in Tile
    BY <1>1, ViewIsView
  <2>2. at[m] \in Tile /\ at'[m] \in Tile /\ step[m] \in Int /\ step'[m] \in Int
    BY <2>1 DEF TypeOK
  <2>3. \A x \in Tile : x \in Int
    BY TilesAreNumbers
  <2> QED BY <2>1, <2>2, <2>3
<1>3. /\ Told(p, m) => m \in late \cap removed \/ seen[p][m] = at[m]
      /\ ~Told(p, m) => m \in removed \/ seen[p][m] + step[m] = at[m]
  BY <1>1 DEF Adding
<1>4. Told(p, m) => Sending
  BY DEF Told, Sending
<1>5. phase = "reset" => Told(p, m)
  BY DEF Told
<1>6. Follows(m)
  BY <1>2
<1> QED BY <1>1, <1>2, <1>3, <1>4, <1>5, <1>6 DEF Follows

LEMMA NearbyElsewhere ==
  ASSUME TypeOK, Haunting, Covered, Elsewhere, \A m \in Mob : Placed(m)
  PROVE  Haunting' /\ Covered'
<1>1. ASSUME NEW p \in Player, NEW m PROVE Told(p, m)' => Told(p, m) /\ Sending
  BY SameTold DEF Told, Sending
<1>2. Player \subseteq Mob
  BY DEF Mob
<1>3. Haunting'
  <2> SUFFICES ASSUME NEW p \in Player, life'[p] # "gone",
                      NEW q \in Local(p, Player)', q \notin late' \cup lost',
                      Told(p, q)', life'[q] \in {"unplaced", "gone"}
               PROVE  listing'[q] # {}
    BY DEF Haunting
  <2>1. life[p] # "gone" /\ q \in Local(p, Player) /\ q \notin late \cup lost /\ q \in Mob
    BY <1>2 DEF Elsewhere, Local
  <2>2. listing'[q] = listing[q] /\ life[q] \in {"unplaced", "gone"} /\ Told(p, q)
    BY <1>1, <2>1 DEF Placed
  <2> QED BY <2>1, <2>2 DEF Haunting
<1>4. Covered'
  <2> SUFFICES ASSUME NEW p \in Player \ late', life'[p] = "in",
                      NEW m \in Mob \ (late' \cup {p}),
                      Told(p, m)', life'[m] = "in", m \in ListedNear(p)',
                      Near(at[p], at[m], ViewRadius(p) - 1)'
               PROVE  m \in DOMAIN seen'[p] \/ Crowded(p, m)'
    BY DEF Covered
  <2>1. Told(p, m) /\ Sending
    BY <1>1
  <2>2. /\ at'[p] = at[p] /\ life[p] = "in" /\ p \notin late
        /\ at'[m] = at[m] /\ listing'[m] = listing[m] /\ life[m] = "in" /\ m \notin late
    BY <1>2, <2>1 DEF Placed, Elsewhere
  <2>3. seen'[p] = seen[p] /\ viewRadius' = viewRadius
    BY DEF Elsewhere
  <2>4. m \in ListedNear(p) /\ Near(at[p], at[m], ViewRadius(p) - 1)
    BY <2>2, <2>3 DEF ListedNear, Near, ViewRadius, VarInt
  <2>5. m \in DOMAIN seen[p] \/ Crowded(p, m)
    BY <2>1, <2>2, <2>4 DEF Covered
  <2>6. Crowded(p, m)' <=> Crowded(p, m)
    BY <2>3 DEF Crowded, Local
  <2> QED BY <2>3, <2>5, <2>6
<1> QED BY <1>3, <1>4

LEMMA MarksElsewhere ==
  ASSUME TypeOK, Turns, Unmet, Fresh, Marked, Elsewhere, OthersTurn
  PROVE  Turns' /\ Unmet' /\ Fresh' /\ Marked'
<1>0. /\ Player \subseteq Mob /\ Npc \subseteq Mob /\ Player \cap Npc = {}
      /\ step \in [Mob -> Int] /\ listing \in [Mob -> SUBSET Int]
      /\ life \in [Mob -> PlayerLives \cup {"removed"}]
  BY ViewAssumption DEF Mob, TypeOK
<1>1. \A p \in Player : /\ life'[p] = "out" => life[p] = "out"
                        /\ life[p] = "gone" => life'[p] = "gone"
  BY OthersAreSteps, Careers
<1>2. Turns'
  <2>1. CASE phase = "update"
    BY <1>1, <2>1 DEF Turns, Elsewhere
  <2>2. CASE phase # "update"
    BY <1>1, <2>2 DEF Turns, Elsewhere
  <2> QED BY <2>1, <2>2
<1>3. ASSUME NEW m \in Mob, Displaces(m)
      PROVE  \A k \in Mob \ {m} : step'[k] = step[k] /\ listing'[k] = listing[k]
  BY <1>3 DEF Displaces
<1>4. ASSUME NEW m \in Mob,
             step'[m] # step[m] \/ listing'[m] # listing[m]
      PROVE  \/ phase = "packets" /\ m \in Player /\ m \in todo /\ m \notin todo'
             \/ phase = "npcs" /\ m \in Npc /\ m \in todo /\ m \notin todo' 
             \/ m \in Npc /\ step' = step
             \/ m \in Player /\ life[m] # "out" /\ (step' = step \/ (step'[m] = 0 /\ phase = "reset"))
  <2>1. CASE Describing
    BY <1>4, <2>1, DescribingMovesNobody
  <2>2. ASSUME NEW p \in Player, Act(p)
        PROVE  phase = "packets" /\ m \in Player /\ m \in todo /\ m \notin todo'
    <3>1. Displaces(p) \/ UNCHANGED body
      BY <2>2, ActMoves
    <3>2. m = p
      BY <1>0, <1>3, <1>4, <3>1 DEF body
    <3> QED BY <2>2, <3>2 DEF Act, Turn, TurnEnds
  <2>3. ASSUME NEW p \in Player, ScriptTeleport(p)
        PROVE  m \in Player /\ life[m] # "out" /\ step' = step
    <3>1. Displaces(p) /\ step' = step /\ life[p] = "in"
      BY <1>0, <2>3, TeleportMoves DEF ScriptTeleport
    <3>2. m = p
      BY <1>0, <1>3, <1>4, <3>1
    <3> QED BY <3>1, <3>2
  <2>4. ASSUME NEW n \in Npc, NpcWalks(n)
        PROVE  phase = "npcs" /\ m \in Npc /\ m \in todo /\ m \notin todo'
    <3>1. Displaces(n) \/ UNCHANGED body
      BY <2>4, NpcWalksMoves
    <3>2. m = n
      BY <1>0, <1>3, <1>4, <3>1 DEF body
    <3> QED BY <2>4, <3>2 DEF NpcWalks, NpcTurn, TurnEnds
  <2>5. ASSUME NEW n \in Npc, Killed(n) \/ Respawn(n)
        PROVE  m \in Npc /\ step' = step
    <3>1. Displaces(n) /\ step' = step
      BY <2>5, KilledMoves, RespawnMoves
    <3> QED BY <1>0, <1>3, <1>4, <3>1
  <2>6. ASSUME NEW p \in Player, Reset(p)
        PROVE  m \in Player /\ life[m] # "out" /\ step'[m] = 0 /\ phase = "reset"
    <3>1. phase = "reset" /\ step' = [step EXCEPT ![p] = 0] /\ listing' = listing
      BY <2>6 DEF Reset
    <3>2. m = p /\ step[m] # 0 /\ step'[m] = 0
      BY <1>0, <1>4, <3>1
    <3> QED BY <3>1, <3>2 DEF Unmet
  <2>7. ASSUME NEW p \in Player, Put(p) \/ Place(p) \/ DestroyOf(p)
        PROVE  m \in Player /\ life[m] # "out" /\ step' = step
    <3>1. step' = step /\ \A k \in Mob \ {p} : listing'[k] = listing[k]
      BY <1>0, <2>7 DEF Put, Place, DestroyOf, SetRegionRemoved, Unplace, Delist, body
    <3>2. m = p
      BY <1>4, <3>1
    <3>3. ~Put(p)
      BY <1>4 DEF Put, body
    <3> QED BY <2>7, <3>1, <3>2, <3>3 DEF Place, DestroyOf, SetRegionRemoved, Unplace, Delist
  <2> QED BY <2>1, <2>2, <2>3, <2>4, <2>5, <2>6, <2>7 DEF OthersTurn
<1>5. Unmet'
  <2> SUFFICES ASSUME NEW p \in Player, life'[p] = "out"
               PROVE  /\ step'[p] = 0 /\ listing'[p] = {} /\ seen'[p] = <<>>
                      /\ \A v \in Player : p \notin DOMAIN seen'[v]
    BY DEF Unmet
  <2>1. /\ step[p] = 0 /\ listing[p] = {} /\ seen[p] = <<>>
        /\ \A v \in Player : p \notin DOMAIN seen[v]
    BY <1>1 DEF Unmet
  <2>2. p \notin todo \/ phase # "packets"
    BY <1>1 DEF Turns
  <2>3. step'[p] = step[p] /\ listing'[p] = listing[p]
    BY <1>0, <1>1, <1>4, <2>2
  <2>4. seen'[p] = seen[p] /\ \A v \in Player : DOMAIN seen'[v] \subseteq DOMAIN seen[v]
    BY DEF Elsewhere
  <2> QED BY <2>1, <2>3, <2>4
<1>6. Fresh'
  <2>0. phase' = phase /\ todo' \subseteq todo
    BY DEF Elsewhere
  <2>1. ASSUME phase = "packets", NEW m \in todo' \cup Npc PROVE step'[m] = 0
    <3>1. m \in Mob /\ step[m] = 0
      BY <1>0, <2>0, <2>1 DEF Fresh, Turns
    <3> QED BY <1>0, <1>4, <2>1, <3>1
  <2>2. ASSUME phase = "npcs", NEW n \in todo' PROVE step'[n] = 0
    <3>1. n \in Npc /\ n \in Mob /\ step[n] = 0
      BY <1>0, <2>0, <2>2 DEF Fresh, Turns
    <3> QED BY <1>0, <1>4, <2>2, <3>1
  <2>3. ASSUME phase = "reset", NEW p \in Player \ todo' PROVE step'[p] = 0 \/ life'[p] = "gone"
    <3>1. CASE p \notin todo
      <4>1. step[p] = 0 \/ life[p] = "gone"
        BY <2>3, <3>1 DEF Fresh
      <4> QED BY <1>0, <1>1, <1>4, <2>3, <4>1
    <3>2. CASE p \in todo
      <4>1. ASSUME NEW n \in Npc, NpcWalks(n) \/ Killed(n) \/ Respawn(n) PROVE FALSE
        BY <2>3, <3>2, <4>1 DEF NpcWalks, NpcTurn, Killed, Respawn, turn
      <4>2. ASSUME NEW q \in Player, Act(q) PROVE FALSE
        BY <2>3, <4>2 DEF Act, Turn
      <4>3. Reset(p)
        BY <2>3, <3>2, <4>1, <4>2, DescribingMovesNobody DEF OthersTurn, Reset, Put, Place, DestroyOf,
           SetRegionRemoved, Unplace, Delist, ScriptTeleport, TurnEnds, turn
      <4> QED BY <1>0, <4>3 DEF Reset
    <3> QED BY <3>1, <3>2
  <2> QED BY <2>0, <2>1, <2>2, <2>3 DEF Fresh
<1>7. Marked'
  <2> SUFFICES ASSUME NEW p \in Player, life'[p] \in {"marked", "unplaced", "gone"}
               PROVE  p \in removed' \cup lost'
    BY DEF Marked
  <2>1. CASE life[p] \in {"marked", "unplaced", "gone"}
    <3>1. p \in removed \cup lost /\ lost \subseteq lost'
      BY <2>1 DEF Marked, Elsewhere
    <3>2. CASE Reset(p)
      BY <2>1, <3>1, <3>2 DEF Reset
    <3>3. CASE ~Reset(p)
      <4>1. p \in removed => p \in removed'
        <5>1. ASSUME NEW q \in Player, Act(q) \/ ScriptTeleport(q) PROVE removed \subseteq removed'
          <6>1. Displaces(q) \/ UNCHANGED body
            BY <1>0, <5>1, ActMoves, TeleportMoves DEF ScriptTeleport
          <6> QED BY <6>1 DEF Displaces, body
        <5>2. ASSUME NEW n \in Npc, NpcWalks(n) \/ Killed(n) \/ Respawn(n) PROVE removed \subseteq removed'
          <6>1. Displaces(n) \/ UNCHANGED body
            BY <5>2, NpcWalksMoves, KilledMoves, RespawnMoves
          <6> QED BY <6>1 DEF Displaces, body
        <5>3. ASSUME NEW q \in Player, Put(q) \/ Place(q) \/ DestroyOf(q) PROVE removed \subseteq removed'
          BY <5>3 DEF Put, Place, DestroyOf, SetRegionRemoved, Unplace, Delist, body
        <5>4. ASSUME NEW q \in Player \ {p}, Reset(q) PROVE removed \subseteq removed' \cup {q}
          BY <5>4 DEF Reset
        <5> QED BY <3>3, <5>1, <5>2, <5>3, <5>4, DescribingMovesNobody DEF OthersTurn
      <4> QED BY <3>1, <4>1
    <3> QED BY <3>2, <3>3
  <2>2. CASE life[p] \notin {"marked", "unplaced", "gone"}
    <3>1. SetRegionRemoved(p)
      <4>1. \A q \in Player : Put(q) \/ Place(q) => life'[p] \in {life[p], "listed", "in"}
        BY <1>0 DEF Put, Place
      <4>2. \A q \in Player : Unplace(q) \/ Delist(q) => life'[p] = life[p]
        BY <1>0, <2>2 DEF Unplace, Delist
      <4>3. \A q \in Player \ {p} : SetRegionRemoved(q) => life'[p] = life[p]
        BY <1>0 DEF SetRegionRemoved
      <4>4. \A q \in Player : Act(q) \/ Reset(q) \/ ScriptTeleport(q) => life' = life
        BY DEF Act, Reset, ScriptTeleport
      <4>5. \A n \in Npc : NpcWalks(n) \/ Killed(n) \/ Respawn(n) => life'[p] = life[p]
        BY <1>0 DEF NpcWalks, Killed, Respawn
      <4> QED BY <2>2, <4>1, <4>2, <4>3, <4>4, <4>5, DescribingMovesNobody DEF OthersTurn, DestroyOf
    <3> QED BY <3>1 DEF SetRegionRemoved
  <2> QED BY <2>1, <2>2
<1> QED BY <1>2, <1>5, <1>6, <1>7

(* The queues of appearance events, while the world goes on. *)
LEMMA WritingElsewhere ==
  ASSUME TypeOK, Writing, OthersTurn
  PROVE  Writing'
<1>1. ASSUME NEW w \in Writer, ticket' \in [Player -> Nat], EnqueueArea(w) PROVE Writing'
  <2>1. writer'[w].job = {} /\ \A x \in Writer \ {w} : writer'[x] = writer[x]
    BY <1>1, EnqueueAreaGives
  <2> QED BY <2>1 DEF Writing
<1>2. ASSUME NEW w \in Writer, UpdateAppearance(w) PROVE Writing'
  <2>1. ticket' \in [Player -> Nat]
    BY <1>2, WriterType DEF UpdateAppearance, TypeOK
  <2> QED BY <1>1, <1>2, <2>1 DEF UpdateAppearance
<1>3. ASSUME NEW p \in Player, Initialize(p) PROVE Writing'
  <2>1. ticket' \in [Player -> Nat] /\ EnqueueArea(<<p, "turn">>)
    BY <1>3 DEF Initialize, TypeOK
  <2> QED BY <1>1, <2>1, TurnIsWriter
<1>4. ASSUME NEW w \in Writer, Fetch(w) PROVE Writing'
  <2>1. PICK j \in writer[w].left :
          writer'[w].job = {j} /\ \A x \in Writer \ {w} : writer'[x] = writer[x]
    BY <1>4, FetchGives
  <2> QED BY <2>1 DEF Writing
<1>5. ASSUME NEW w \in Writer, Store(w) PROVE Writing'
  <2>1. writer'[w].job = {} /\ \A x \in Writer \ {w} : writer'[x] = writer[x]
    BY <1>5, StoreGives
  <2> QED BY <2>1 DEF Writing
<1>6. CASE Describing
  BY <1>2, <1>3, <1>4, <1>5, <1>6, TurnIsWriter DEF Describing, ChangesLooks, LevelsUp
<1>7. ASSUME NEW p \in Player,
             Act(p) \/ Reset(p) \/ Put(p) \/ Place(p) \/ DestroyOf(p) \/ ScriptTeleport(p)
      PROVE  writer' = writer
  BY <1>7 DEF Act, Reset, Put, Place, DestroyOf, SetRegionRemoved, Unplace, Delist, ScriptTeleport, queues
<1>8. ASSUME NEW n \in Npc, NpcWalks(n) \/ Killed(n) \/ Respawn(n) PROVE writer' = writer
  BY <1>8 DEF NpcWalks, Killed, Respawn, queues
<1>9. ASSUME writer' = writer PROVE Writing'
  BY <1>9 DEF Writing
<1> QED BY <1>6, <1>7, <1>8, <1>9 DEF OthersTurn

(* What a step must leave of what q looks like to p, when q's looks stay. *)
Remembers(p, q) ==
  /\ known'[p] = known[p] /\ ticket'[q] = ticket[q]
  /\ <<p, q>> \in missed => <<p, q>> \in missed' \/ Coming(p, q)'
  /\ <<p, q>> \in since => <<p, q>> \in since'
  /\ Queued(p, q) => Queued(p, q)' \/ <<p, q>> \in missed'
  /\ Coming(p, q) => Coming(p, q)' \/ (Queued(p, q)' /\ <<p, q>> \in since')

LEMMA AppearingKept ==
  ASSUME TypeOK, Appearing, Elsewhere, OthersTurn,
         NEW p \in Player, life'[p] # "gone", NEW q \in Local(p, Player)', Remembers(p, q)
  PROVE  Appears(p, q)'
<1>1. life[p] # "gone" /\ q \in Local(p, Player) /\ q \in Player /\ (Described(p)' <=> Described(p))
  BY SameTold DEF Elsewhere, Local
<1>2. life[q] = "gone" => life'[q] = "gone"
  BY <1>1, OthersAreSteps, Careers
<1>3. Appears(p, q)
  BY <1>1 DEF Appearing
<1> QED BY <1>1, <1>2, <1>3 DEF Appears, Remembers

(* Nothing is taken from the hands of anybody but w. *)
LEMMA OthersStillCome ==
  ASSUME NEW p \in Player, NEW q \in Player, NEW w \in Writer, ticket'[q] = ticket[q],
         \A x \in Writer \ {w} : writer'[x] = writer[x],
         Coming(p, q), ~Coming(p, q)'
  PROVE  /\ [to |-> p, event |-> Event(q)] \in writer[w].left \cup writer[w].job
         /\ [to |-> p, event |-> Event(q)] \notin writer'[w].left \cup writer'[w].job
<1>1. Event(q)' = Event(q)
  BY DEF Event
<1>2. PICK j : j = [to |-> p, event |-> Event(q)]
  OBVIOUS
<1>3. \E x \in Writer : j \in writer[x].left \cup writer[x].job
  BY <1>2 DEF Coming
<1>4. \A x \in Writer : j \notin writer'[x].left \cup writer'[x].job
  BY <1>1, <1>2 DEF Coming
<1> QED BY <1>2, <1>3, <1>4

LEMMA AppearingElsewhere ==
  ASSUME TypeOK, Writing, Appearing, Elsewhere, OthersTurn
  PROVE  Appearing'
<1> SUFFICES ASSUME NEW p \in Player, life'[p] # "gone", NEW q \in Local(p, Player)'
             PROVE  Appears(p, q)'
  BY DEF Appearing
<1>0. q \in Player
  BY DEF Local
<1>1. ASSUME NEW r \in Player, Initialize(r) PROVE Appears(p, q)'
  <2> DEFINE w == <<r, "turn">>
  <2>1. w \in Writer /\ w[1] = r
    BY TurnIsWriter
  <2>2. /\ known' = known /\ ticket' = ticket /\ events' = events /\ since' = since
        /\ missed' = missed \ (Area(r) \X {r}) /\ writer[w] = Idle
        /\ ticket' \in [Player -> Nat] /\ EnqueueArea(w)
    BY <1>1 DEF Initialize, client, Quiet, TypeOK
  <2> HIDE DEF w
  <2>3. /\ \A x \in Writer \ {w} : writer'[x] = writer[x]
        /\ \A v \in Area(r) : [to |-> v, event |-> Event(r)'] \in writer'[w].left
    BY <2>1, <2>2, EnqueueAreaGives
  <2>4. Coming(p, q) => Coming(p, q)'
    <3>1. writer[w].left \cup writer[w].job = {}
      BY <2>2 DEF Idle
    <3> QED BY <1>0, <2>1, <2>2, <2>3, <3>1, OthersStillCome
  <2>5. <<p, q>> \in missed => <<p, q>> \in missed' \/ Coming(p, q)'
    <3>1. p \in Area(r) /\ q = r => Coming(p, q)'
      BY <2>1, <2>3 DEF Coming
    <3> QED BY <2>2, <3>1
  <2>6. Queued(p, q) => Queued(p, q)'
    BY <2>2 DEF Queued, Event
  <2>7. Remembers(p, q)
    BY <2>2, <2>4, <2>5, <2>6 DEF Remembers
  <2> QED BY <2>7, AppearingKept
<1>2. ASSUME NEW w \in Writer, UpdateAppearance(w) PROVE Appears(p, q)'
  <2>0. w[1] \in Player
    BY WriterType
  <2>1. /\ known' = known /\ events' = events /\ since' = since /\ writer[w] = Idle
        /\ missed' = {pair \in missed : pair[2] # w[1]} \cup ((Player \ Area(w[1])) \X {w[1]})
        /\ \A r \in Player \ {w[1]} : ticket'[r] = ticket[r]
        /\ ticket' \in [Player -> Nat] /\ EnqueueArea(w)
    <3>1. ticket' = [ticket EXCEPT ![w[1]] = @ + 1] /\ ticket \in [Player -> Nat]
      BY <1>2 DEF UpdateAppearance, TypeOK
    <3>2. ticket' \in [Player -> Nat] /\ \A r \in Player \ {w[1]} : ticket'[r] = ticket[r]
      BY <2>0, <3>1
    <3> QED BY <1>2, <3>2 DEF UpdateAppearance, client
  <2>2. /\ \A x \in Writer \ {w} : writer'[x] = writer[x]
        /\ \A v \in Area(w[1]) : [to |-> v, event |-> Event(w[1])'] \in writer'[w].left
    BY <2>1, EnqueueAreaGives
  <2>3. CASE q = w[1]
    <3>1. CASE p \in Area(w[1])
      <4>1. Coming(p, q)'
        BY <2>2, <2>3, <3>1 DEF Coming
      <4> QED BY <4>1 DEF Appears
    <3>2. CASE p \notin Area(w[1])
      <4>1. <<p, q>> \in missed'
        BY <2>1, <2>3, <3>2
      <4> QED BY <4>1 DEF Appears
    <3> QED BY <3>1, <3>2
  <2>4. CASE q # w[1]
    <3>1. ticket'[q] = ticket[q] /\ (<<p, q>> \in missed => <<p, q>> \in missed')
      BY <1>0, <2>1, <2>4
    <3>2. Coming(p, q) => Coming(p, q)'
      <4>1. writer[w].left \cup writer[w].job = {}
        BY <2>1 DEF Idle
      <4> QED BY <1>0, <2>2, <3>1, <4>1, OthersStillCome
    <3>3. Queued(p, q) => Queued(p, q)'
      BY <2>1, <3>1 DEF Queued, Event
    <3>4. Remembers(p, q)
      BY <2>1, <3>1, <3>2, <3>3 DEF Remembers
    <3> QED BY <3>4, AppearingKept
  <2> QED BY <2>3, <2>4
<1>3. ASSUME NEW w \in Writer, Fetch(w) PROVE Appears(p, q)'
  <2>1. PICK j \in writer[w].left :
          /\ writer[w].job = {}
          /\ writer'[w].left = writer[w].left \ {j} /\ writer'[w].job = {j}
          /\ \A x \in Writer \ {w} : writer'[x] = writer[x]
    BY <1>3, FetchGives
  <2>2. known' = known /\ ticket' = ticket /\ missed' = missed /\ events' = events /\ since' = since
    BY <1>3 DEF Fetch, client, history
  <2>3. Coming(p, q) => Coming(p, q)'
    <3>1. writer[w].left \cup writer[w].job \subseteq writer'[w].left \cup writer'[w].job
      BY <2>1
    <3> QED BY <1>0, <2>1, <2>2, <3>1, OthersStillCome
  <2>4. Queued(p, q) => Queued(p, q)'
    BY <2>2 DEF Queued, Event
  <2>5. Remembers(p, q)
    BY <2>2, <2>3, <2>4 DEF Remembers
  <2> QED BY <2>5, AppearingKept
<1>4. ASSUME NEW w \in Writer, Store(w) PROVE Appears(p, q)'
  <2>1. PICK j \in writer[w].job :
           /\ j \in Job
           /\ writer'[w].left = writer[w].left /\ writer'[w].job = {}
           /\ \A x \in Writer \ {w} : writer'[x] = writer[x]
           /\ j.event \in ToSet(events'[j.to])
           /\ \A v \in Player \ {j.to} : events'[v] = events[v]
           /\ missed' = missed \cup Overwritten(j.to, events'[j.to])
           /\ since' = since \cup {<<j.to, j.event.who>>}
    BY <1>4, StoreGives
  <2>2. known' = known /\ ticket' = ticket /\ Event(q)' = Event(q)
    BY <1>4 DEF Store, client, Event
  <2>3. Queued(p, q) => Queued(p, q)' \/ <<p, q>> \in missed'
    <3>1. CASE p = j.to
      <4>1. PICK queue : queue = events'[p]
        OBVIOUS
      <4>2. Event(q) \in ToSet(events[p]) => Event(q) \in ToSet(queue) \/ <<p, q>> \in Overwritten(p, queue)
        BY <1>0, DroppedIsMissed
      <4> QED BY <2>1, <2>2, <3>1, <4>1, <4>2 DEF Queued
    <3>2. CASE p # j.to
      BY <2>1, <2>2, <3>2 DEF Queued
    <3> QED BY <3>1, <3>2
  <2>4. Coming(p, q) => Coming(p, q)' \/ (Queued(p, q)' /\ <<p, q>> \in since')
    <3> SUFFICES ASSUME Coming(p, q), ~Coming(p, q)' PROVE Queued(p, q)' /\ <<p, q>> \in since'
      OBVIOUS
    <3>1. /\ [to |-> p, event |-> Event(q)] \in writer[w].left \cup writer[w].job
          /\ [to |-> p, event |-> Event(q)] \notin writer'[w].left \cup writer'[w].job
      BY <1>0, <2>1, <2>2, OthersStillCome
    <3>2. [to |-> p, event |-> Event(q)] = j
      <4>1. [to |-> p, event |-> Event(q)] \in writer[w].job
        BY <2>1, <3>1
      <4> QED BY <2>1, <4>1 DEF Writing
    <3>3. j.to = p /\ j.event = Event(q)
      BY <3>2
    <3>4. Event(q).who = q
      BY DEF Event
    <3> QED BY <2>1, <2>2, <3>3, <3>4 DEF Queued
  <2>5. Remembers(p, q)
    BY <2>1, <2>2, <2>3, <2>4 DEF Remembers
  <2> QED BY <2>5, AppearingKept
<1>5. ASSUME known'[p] = known[p], events'[p] = events[p], UNCHANGED <<ticket, writer, missed, since>>
      PROVE  Appears(p, q)'
  <2>1. Remembers(p, q)
    BY <1>5 DEF Remembers, Coming, Queued, Event
  <2> QED BY <2>1, AppearingKept
<1>6. ASSUME NEW d \in Player, Delist(d) PROVE Appears(p, q)'
  <2>1. p # d
    BY <1>6 DEF Delist, TypeOK, Mob
  <2>2. /\ known'[p] = known[p] /\ events'[p] = events[p]
        /\ UNCHANGED <<ticket, writer, missed, since>>
    BY <1>6, <2>1 DEF Delist, TypeOK, history
  <2> QED BY <1>5, <2>2
<1>7. ASSUME NEW w \in Player,
             Act(w) \/ Reset(w) \/ Put(w) \/ Place(w) \/ SetRegionRemoved(w) \/ Unplace(w) \/ ScriptTeleport(w)
      PROVE  UNCHANGED <<known, events, ticket, writer, missed, since>>
  BY <1>7 DEF Act, Reset, Put, Place, SetRegionRemoved, Unplace, ScriptTeleport, client, queues, history
<1>8. ASSUME NEW n \in Npc, NpcWalks(n) \/ Killed(n) \/ Respawn(n)
      PROVE  UNCHANGED <<known, events, ticket, writer, missed, since>>
  BY <1>8 DEF NpcWalks, Killed, Respawn, client, queues, history
<1>9. CASE Describing
  BY <1>1, <1>2, <1>3, <1>4, <1>9, TurnIsWriter DEF Describing, ChangesLooks, LevelsUp
<1> QED BY <1>5, <1>6, <1>7, <1>8, <1>9 DEF OthersTurn, DestroyOf

-----------------------------------------------------------------------------
(* The packets of the update phase. *)

(* Who stays in view is moved to where it is: nobody who stays is marked. *)
LEMMA StayersAreRight ==
  ASSUME TypeOK, Adding, NEW p \in Player, life[p] # "gone", NEW S, NEW radius,
         NEW m \in Staying(p, S, radius), m \notin lost, ~Told(p, m)
  PROVE  Shift(m, seen[p][m]) = at[m]
<1>1. m \in DOMAIN seen[p] \ lost /\ m \notin removed
  BY DEF Staying, Local
<1>2. seen[p][m] + step[m] = at[m]
  BY <1>1 DEF Adding
<1>3. at[m] \in Tile
  BY <1>1, ViewIsView DEF TypeOK
<1> QED BY <1>2, <1>3 DEF Shift

(* A view radius that has shrunk. *)
LEMMA SmallerRadius ==
  ASSUME TypeOK, NEW p \in Player, NEW m \in Mob,
         viewRadius'[p] = viewRadius[p] \/ (viewRadius[p] = Unset /\ viewRadius'[p] = -1),
         at' = at, Near(at[p], at[m], ViewRadius(p) - 1)'
  PROVE  Near(at[p], at[m], ViewRadius(p) - 1)
<1>1. p \in Mob
  BY DEF Mob
<1>2. at[p] \in Int /\ at[m] \in Int
  <2>1. at[p] \in Tile /\ at[m] \in Tile
    BY <1>1 DEF TypeOK
  <2> QED BY <2>1, TilesAreNumbers
<1>3. FullRadius \in Nat /\ FullRadius >= 1 /\ viewRadius[p] \in {Unset, -1}
  BY ViewAssumption DEF TypeOK
<1> QED BY <1>2, <1>3 DEF Near, ViewRadius, VarInt, Unset

(* The parts of the invariant that a packet of the update phase cannot touch. *)
LEMMA UpdateKeeps ==
  ASSUME IInv, NEW p \in Player, UpdateOf(p)
  PROVE  Turns' /\ Fresh' /\ Marked' /\ Writing'
<1>1. /\ phase = "update" /\ phase' = phase /\ UNCHANGED <<removed, lost, life>>
      /\ \E part \in Parts : <<p, part>> \in todo
      /\ \E part \in Parts : todo' \subseteq todo \cup {<<p, part>>}
  BY DEF UpdateOf, PlayerPositions, NPCPositions, PlayerAppearances, UnsetEvents, Updating, Then, body, history, Parts
<1>2. life[p] # "out"
  BY <1>1 DEF IInv, Turns
<1>3. \E part \in Parts : todo' \subseteq {x \in todo : x[1] # p} \cup {<<p, part>>}
  <2>1. \A x, y \in todo : x[1] = y[1] => x = y
    BY <1>1 DEF IInv, Turns
  <2>2. \A part, next \in Parts : <<p, part>> \in todo => todo \ {<<p, part>>} \subseteq {x \in todo : x[1] # p}
    BY <2>1
  <2>3. \/ <<p, "players">> \in todo /\ todo' = (todo \ {<<p, "players">>}) \cup {<<p, "npcs">>}
        \/ <<p, "npcs">> \in todo /\ todo' = (todo \ {<<p, "npcs">>}) \cup {<<p, "events">>}
        \/ <<p, "events">> \in todo /\ todo' \subseteq (todo \ {<<p, "events">>}) \cup {<<p, "unset">>}
        \/ <<p, "unset">> \in todo /\ todo' = todo \ {<<p, "unset">>}
    BY DEF UpdateOf, PlayerPositions, NPCPositions, PlayerAppearances, UnsetEvents, Updating, Then
  <2> QED BY <2>2, <2>3 DEF Parts
<1>4. Turns'
  <2>1. /\ todo \subseteq {q \in Player : life[q] # "out"} \X Parts
        /\ \A x, y \in todo : x[1] = y[1] => x = y
    BY <1>1 DEF IInv, Turns
  <2> QED BY <1>1, <1>2, <1>3, <2>1 DEF Turns
<1>5. Writing'
  <2>1. CASE PlayerPositions(p)
    <3>1. TypeOK /\ Writing
      BY DEF IInv
    <3>2. /\ writer'[<<p, "turn">>].job = {}
          /\ \A x \in Writer \ {<<p, "turn">>} : writer'[x] = writer[x]
      BY <2>1, <3>1, PlayerPositionsGive
    <3> QED BY <3>1, <3>2 DEF Writing
  <2>2. CASE ~PlayerPositions(p)
    <3>1. writer' = writer
      BY <2>2 DEF UpdateOf, NPCPositions, PlayerAppearances, UnsetEvents, queues
    <3> QED BY <3>1 DEF IInv, Writing
  <2> QED BY <2>1, <2>2
<1> QED BY <1>1, <1>4, <1>5 DEF IInv, Fresh, Marked

LEMMA PlayerPositionsKeep ==
  ASSUME IInv, TypeOK', NEW p \in Player, PlayerPositions(p)
  PROVE  Unmet' /\ Adding' /\ Haunting' /\ Covered' /\ Appearing'
<1> DEFINE stay == Staying(p, Player, ViewRadius(p))
           came == NewMobs(p, Player, ViewRadius(p))
<1>0. /\ TypeOK /\ Turns /\ Unmet /\ Marked /\ Adding /\ Haunting /\ Covered /\ Writing /\ Appearing
      /\ Player \subseteq Mob /\ Player \cap Npc = {}
  BY ViewAssumption DEF IInv, Mob
<1>1. /\ at' = at /\ removed' = removed /\ step' = step /\ listing' = listing /\ life' = life
      /\ known' = known /\ ticket' = ticket /\ events' = events /\ since' = since
      /\ late' = late /\ lost' = lost /\ Quiet(p)
      /\ phase = "update" /\ phase' = "update" /\ <<p, "players">> \in todo
      /\ todo' = (todo \ {<<p, "players">>}) \cup {<<p, "npcs">>}
  BY DEF PlayerPositions, Updating, Then, body
<1>2. /\ \A v \in Player \ {p} : seen'[v] = seen[v] /\ viewRadius'[v] = viewRadius[v]
      /\ \A x \in Writer \ {<<p, "turn">>} : writer'[x] = writer[x]
      /\ viewRadius'[p] = viewRadius[p] \/ (viewRadius[p] = Unset /\ viewRadius'[p] = -1)
  BY <1>0, PlayerPositionsGive
<1>3. PICK N \in SUBSET came :
        /\ DOMAIN seen'[p] = (DOMAIN seen[p] \ Player) \cup stay \cup N
        /\ \A m \in N : seen'[p][m] = at[m]
        /\ \A m \in stay : seen'[p][m] = Shift(m, seen[p][m])
        /\ \A m \in DOMAIN seen[p] \ Player : seen'[p][m] = seen[p][m]
        /\ N = came \/ Cardinality(DOMAIN seen'[p] \cap Player) >= Least(MaxNewPlayers, MaxLocal)
        /\ \A q \in N : [to |-> p, event |-> Event(q)'] \in writer'[<<p, "turn">>].left
        /\ missed' = missed \ ({p} \X N)
  BY <1>0, PlayerPositionsGive
<1>4. /\ stay \subseteq DOMAIN seen[p] \cap Player /\ stay \cap removed = {}
      /\ came \subseteq Player \ stay
      /\ \A m \in came : listing[m] # {}
  BY DEF Staying, NewMobs, Local, ListedNear
<1>5. /\ \A v \in Player \ {p}, m \in Mob : Told(v, m)' <=> Told(v, m)
      /\ \A v \in Player \ {p} : Described(v)' <=> Described(v)
      /\ \A m \in Mob : ~Told(p, m) /\ (Told(p, m)' => m \notin Npc)
      /\ \A m \in Player : Told(p, m)'
      /\ ~Described(p)'
  BY <1>0, <1>1 DEF Told, Described, Parts
<1>6. life[p] # "out"
  BY <1>0, <1>1 DEF Turns
<1>7. Unmet'
  <2>1. ASSUME NEW q \in Player, life[q] = "out" PROVE q \notin DOMAIN seen'[p]
    BY <1>0, <1>3, <1>4, <2>1 DEF Unmet
  <2> QED BY <1>0, <1>1, <1>2, <1>6, <2>1 DEF Unmet
<1>8. Adding'
  <2>1. ASSUME NEW v \in Player \ {p}, life[v] # "gone", NEW m \in DOMAIN seen[v] \ lost
        PROVE  /\ Told(v, m)' => m \in late \cap removed \/ seen'[v][m] = at[m]
               /\ ~Told(v, m)' => m \in removed \/ seen'[v][m] + step[m] = at[m]
    <3>1. m \in Mob
      BY <1>0, ViewIsView
    <3> QED BY <1>0, <1>2, <1>5, <2>1, <3>1 DEF Adding
  <2>2. ASSUME life[p] # "gone", NEW m \in DOMAIN seen'[p] \ lost
        PROVE  /\ Told(p, m)' => seen'[p][m] = at[m]
               /\ ~Told(p, m)' => m \in removed \/ seen'[p][m] + step[m] = at[m]
    <3>1. CASE m \in N
      BY <1>0, <1>3, <1>4, <1>5, <3>1
    <3>2. CASE m \in stay
      <4>1. m \in Mob
        BY <1>0, <1>4, <3>2
      <4>2. Shift(m, seen[p][m]) = at[m]
        BY <1>0, <1>5, <2>2, <3>2, <4>1, StayersAreRight
      <4> QED BY <1>0, <1>3, <1>4, <1>5, <3>2, <4>2
    <3>3. CASE m \in DOMAIN seen[p] \ Player
      <4>1. m \in Mob /\ m \in Npc
        BY <1>0, <3>3, ViewIsView DEF Mob
      <4> QED BY <1>0, <1>3, <1>5, <2>2, <3>3, <4>1 DEF Adding
    <3> QED BY <1>3, <2>2, <3>1, <3>2, <3>3
  <2> QED BY <1>1, <1>2, <2>1, <2>2 DEF Adding
<1>9. Haunting'
  <2>1. ASSUME life[p] # "gone", NEW q \in Local(p, Player)', q \notin late \cup lost,
               life[q] \in {"unplaced", "gone"}
        PROVE  listing[q] # {}
    <3>1. q \in N \/ q \in stay
      BY <1>3 DEF Local
    <3>2. q \notin stay
      BY <1>0, <1>4, <2>1 DEF Marked
    <3> QED BY <1>3, <1>4, <3>1, <3>2
  <2>2. ASSUME NEW v \in Player \ {p}, life[v] # "gone", NEW q \in Local(v, Player) \ (late \cup lost),
               Told(v, q)', life[q] \in {"unplaced", "gone"}
        PROVE  listing[q] # {}
    <3>1. q \in Mob
      BY <1>0 DEF Local
    <3> QED BY <1>0, <1>5, <2>2, <3>1 DEF Haunting
  <2> QED BY <1>1, <1>2, <2>1, <2>2 DEF Haunting, Local
<1>10. Covered'
  <2>1. ASSUME p \notin late, life[p] = "in", NEW m \in Mob \ (late \cup {p}), Told(p, m)',
               life[m] = "in", m \in ListedNear(p), Near(at[p], at[m], ViewRadius(p) - 1)'
        PROVE  m \in DOMAIN seen'[p] \/ Crowded(p, m)'
    <3>1. m \in Player /\ m \notin Npc
      BY <1>5, <2>1 DEF Mob
    <3>2. Near(at[p], at[m], ViewRadius(p) - 1)
      BY <1>0, <1>1, <1>2, <2>1, SmallerRadius
    <3>3. m \in came \/ m \in stay
      BY <2>1, <3>1, <3>2 DEF NewMobs
    <3>4. N = came \/ Crowded(p, m)'
      BY <1>3, <3>1 DEF Crowded, Local
    <3> QED BY <1>3, <3>3, <3>4
  <2>2. ASSUME NEW v \in Player \ {p}, NEW m \in Mob
        PROVE  /\ Near(at[v], at[m], ViewRadius(v) - 1)' <=> Near(at[v], at[m], ViewRadius(v) - 1)
               /\ Crowded(v, m)' <=> Crowded(v, m)
    BY <1>1, <1>2 DEF ViewRadius, VarInt, Near, Crowded, Local
  <2>3. \A v : ListedNear(v)' = ListedNear(v)
    BY <1>1 DEF ListedNear
  <2>4. ASSUME NEW v \in Player \ late', v # p, life'[v] = "in", NEW m \in Mob \ (late' \cup {v}),
               Told(v, m)', life'[m] = "in", m \in ListedNear(v)', Near(at[v], at[m], ViewRadius(v) - 1)'
        PROVE  m \in DOMAIN seen'[v] \/ Crowded(v, m)'
    BY <1>0, <1>1, <1>2, <1>5, <2>2, <2>3, <2>4 DEF Covered
  <2> QED BY <1>1, <2>1, <2>3, <2>4 DEF Covered
<1>11. Appearing'
  <2>0. \A q : Event(q)' = Event(q)
    BY <1>1 DEF Event
  <2>1. \A v, q : Queued(v, q)' <=> Queued(v, q)
    BY <1>1, <2>0 DEF Queued
  <2>2. ASSUME NEW v, NEW q, Coming(v, q) PROVE Coming(v, q)'
    <3>1. PICK w \in Writer : [to |-> v, event |-> Event(q)] \in writer[w].left \cup writer[w].job
      BY <2>2 DEF Coming
    <3>2. w # <<p, "turn">>
      BY <1>1, <3>1 DEF Quiet, Idle
    <3>3. writer'[w] = writer[w]
      BY <1>2, <3>2
    <3> QED BY <2>0, <3>1, <3>3 DEF Coming
  <2>3. ASSUME NEW q \in N PROVE Coming(p, q)'
    BY <1>3, TurnIsWriter DEF Coming
  <2>4. ASSUME life[p] # "gone", NEW q \in Local(p, Player)' PROVE Appears(p, q)'
    <3>1. CASE q \in N
      BY <2>3, <3>1 DEF Appears
    <3>2. CASE q \notin N
      <4>1. q \in Local(p, Player)
        BY <1>3, <1>4, <3>2 DEF Local
      <4>2. <<p, q>> \in missed => <<p, q>> \in missed'
        BY <1>3, <3>2
      <4>3. Appears(p, q)
        BY <1>0, <2>4, <4>1 DEF Appearing
      <4> QED BY <1>1, <1>5, <2>1, <2>2, <4>2, <4>3 DEF Appears
    <3> QED BY <3>1, <3>2
  <2>5. ASSUME NEW v \in Player \ {p}, life[v] # "gone", NEW q \in Local(v, Player) PROVE Appears(v, q)'
    <3>1. <<v, q>> \in missed => <<v, q>> \in missed'
      BY <1>3
    <3>2. Appears(v, q)
      BY <1>0, <2>5 DEF Appearing
    <3> QED BY <1>1, <1>5, <2>1, <2>2, <3>1, <3>2 DEF Appears
  <2> QED BY <1>1, <1>2, <2>4, <2>5 DEF Appearing, Local
<1> QED BY <1>7, <1>8, <1>9, <1>10, <1>11

LEMMA NPCPositionsKeep ==
  ASSUME IInv, TypeOK', NEW p \in Player, NPCPositions(p)
  PROVE  Unmet' /\ Adding' /\ Haunting' /\ Covered' /\ Appearing'
<1> DEFINE stay == Staying(p, Npc, ViewRadius(p) - 1)
           came == NewMobs(p, Npc, ViewRadius(p) - 1)
<1>0. /\ TypeOK /\ Turns /\ Unmet /\ Marked /\ Adding /\ Haunting /\ Covered /\ Writing /\ Appearing
      /\ Player \subseteq Mob /\ Npc \subseteq Mob /\ Player \cap Npc = {}
  BY ViewAssumption DEF IInv, Mob
<1>1. /\ at' = at /\ removed' = removed /\ step' = step /\ listing' = listing /\ life' = life
      /\ known' = known /\ ticket' = ticket /\ writer' = writer /\ late' = late /\ lost' = lost
      /\ events' = events /\ missed' = missed /\ since' = since
      /\ phase = "update" /\ phase' = "update" /\ <<p, "npcs">> \in todo
      /\ todo' = (todo \ {<<p, "npcs">>}) \cup {<<p, "events">>}
  BY DEF NPCPositions, Updating, Then, body, queues, history
<1>2. /\ \A v \in Player \ {p} : seen'[v] = seen[v] /\ viewRadius'[v] = viewRadius[v]
      /\ viewRadius'[p] = viewRadius[p] \/ (viewRadius[p] = Unset /\ viewRadius'[p] = -1)
  BY <1>0, NPCPositionsGive
<1>3. PICK N \in SUBSET came :
        /\ DOMAIN seen'[p] = (DOMAIN seen[p] \ Npc) \cup stay \cup N
        /\ \A m \in N : seen'[p][m] = at[m]
        /\ \A m \in stay : seen'[p][m] = Shift(m, seen[p][m])
        /\ \A m \in DOMAIN seen[p] \ Npc : seen'[p][m] = seen[p][m]
        /\ N = came \/ Cardinality(DOMAIN seen'[p] \cap Npc) >= Least(MaxNewNpcs, MaxLocal)
  BY <1>0, NPCPositionsGive
<1>4. stay \subseteq DOMAIN seen[p] \cap Npc /\ came \subseteq Npc \ stay
  BY DEF Staying, NewMobs, Local
<1>5. /\ \A v \in Player \ {p}, m \in Mob : Told(v, m)' <=> Told(v, m)
      /\ \A v \in Player \ {p} : Described(v)' <=> Described(v)
      /\ \A m \in Player : Told(p, m) /\ Told(p, m)'
      /\ \A m \in Npc : ~Told(p, m) /\ Told(p, m)'
      /\ ~Described(p) /\ ~Described(p)'
  <2>1. \A x, y \in todo : x[1] = y[1] => x = y
    BY <1>0, <1>1 DEF Turns
  <2>2. <<p, "players">> \notin todo
    BY <1>1, <2>1
  <2> QED BY <1>0, <1>1, <2>2 DEF Told, Described, Parts
<1>6. Local(p, Player)' = Local(p, Player) /\ \A m \in Local(p, Player) : seen'[p][m] = seen[p][m]
  BY <1>0, <1>3, <1>4 DEF Local
<1>7. Unmet'
  <2>1. life[p] # "out"
    BY <1>0, <1>1 DEF Turns
  <2>2. ASSUME NEW q \in Player, life[q] = "out" PROVE q \notin DOMAIN seen'[p]
    BY <1>0, <1>3, <1>4, <2>2 DEF Unmet
  <2> QED BY <1>0, <1>1, <1>2, <2>1, <2>2 DEF Unmet
<1>8. Adding'
  <2>1. ASSUME NEW v \in Player \ {p}, life[v] # "gone", NEW m \in DOMAIN seen[v] \ lost
        PROVE  /\ Told(v, m)' => m \in late \cap removed \/ seen'[v][m] = at[m]
               /\ ~Told(v, m)' => m \in removed \/ seen'[v][m] + step[m] = at[m]
    <3>1. m \in Mob
      BY <1>0, ViewIsView
    <3> QED BY <1>0, <1>2, <1>5, <2>1, <3>1 DEF Adding
  <2>2. ASSUME life[p] # "gone", NEW m \in DOMAIN seen'[p] \ lost
        PROVE  /\ Told(p, m)' => m \in late \cap removed \/ seen'[p][m] = at[m]
               /\ ~Told(p, m)' => m \in removed \/ seen'[p][m] + step[m] = at[m]
    <3>1. CASE m \in N
      <4>1. m \notin Player /\ seen'[p][m] = at[m] /\ m \in Npc
        BY <1>0, <1>3, <1>4, <3>1
      <4> QED BY <1>5, <4>1
    <3>2. CASE m \in stay
      <4>1. m \in Mob /\ m \in Npc
        BY <1>0, <1>4, <3>2
      <4>2. Shift(m, seen[p][m]) = at[m]
        BY <1>0, <1>5, <2>2, <3>2, <4>1, StayersAreRight
      <4> QED BY <1>0, <1>3, <1>4, <1>5, <3>2, <4>2
    <3>3. CASE m \in DOMAIN seen[p] \ Npc
      <4>1. m \in Player /\ seen'[p][m] = seen[p][m]
        BY <1>0, <1>3, <3>3, ViewIsView DEF Mob
      <4> QED BY <1>0, <1>3, <1>5, <2>2, <3>3, <4>1 DEF Adding
    <3> QED BY <1>3, <2>2, <3>1, <3>2, <3>3
  <2> QED BY <1>1, <1>2, <2>1, <2>2 DEF Adding
<1>9. Haunting'
  <2>1. ASSUME NEW v \in Player, life[v] # "gone", NEW q \in Local(v, Player) \ (late \cup lost),
               life[q] \in {"unplaced", "gone"}, Told(v, q)'
        PROVE  listing[q] # {}
    <3>1. q \in Mob /\ q \in Player
      BY <1>0 DEF Local
    <3>2. Told(v, q)
      BY <1>5, <2>1, <3>1
    <3> QED BY <1>0, <2>1, <3>1, <3>2 DEF Haunting
  <2>2. \A v \in Player : Local(v, Player)' = Local(v, Player)
    BY <1>2, <1>6 DEF Local
  <2> QED BY <1>1, <2>1, <2>2 DEF Haunting
<1>10. Covered'
  <2>1. ASSUME p \notin late, life[p] = "in", NEW m \in Npc \ late,
               life[m] = "in", m \in ListedNear(p), Near(at[p], at[m], ViewRadius(p) - 1)'
        PROVE  m \in DOMAIN seen'[p] \/ Crowded(p, m)'
    <3>1. m # p
      BY <1>0
    <3>2. Near(at[p], at[m], ViewRadius(p) - 1)
      BY <1>0, <1>1, <1>2, <2>1, SmallerRadius
    <3>3. m \in came \/ m \in stay
      BY <2>1, <3>1, <3>2 DEF NewMobs
    <3>4. N = came \/ Crowded(p, m)'
      BY <1>3, <2>1 DEF Crowded, Local
    <3> QED BY <1>3, <3>3, <3>4
  <2>2. ASSUME p \notin late, life[p] = "in", NEW m \in Player \ (late \cup {p}),
               life[m] = "in", m \in ListedNear(p), Near(at[p], at[m], ViewRadius(p) - 1)'
        PROVE  m \in DOMAIN seen'[p] \/ Crowded(p, m)'
    <3>1. m \in Mob /\ m \notin Npc
      BY <1>0
    <3>2. Near(at[p], at[m], ViewRadius(p) - 1)
      BY <1>0, <1>1, <1>2, <2>2, <3>1, SmallerRadius
    <3>3. m \in DOMAIN seen[p] \/ Crowded(p, m)
      BY <1>0, <1>5, <2>2, <3>1, <3>2 DEF Covered
    <3>4. Crowded(p, m) => Crowded(p, m)'
      BY <1>6, <3>1 DEF Crowded
    <3>5. m \in DOMAIN seen[p] => m \in DOMAIN seen'[p]
      BY <1>3, <3>1
    <3> QED BY <3>3, <3>4, <3>5
  <2>3. ASSUME NEW v \in Player \ {p}, NEW m \in Mob
        PROVE  /\ Near(at[v], at[m], ViewRadius(v) - 1)' <=> Near(at[v], at[m], ViewRadius(v) - 1)
               /\ Crowded(v, m)' <=> Crowded(v, m)
    BY <1>1, <1>2 DEF ViewRadius, VarInt, Near, Crowded, Local
  <2>4. \A v : ListedNear(v)' = ListedNear(v)
    BY <1>1 DEF ListedNear
  <2>5. ASSUME NEW v \in Player \ late', v # p, life'[v] = "in", NEW m \in Mob \ (late' \cup {v}),
               Told(v, m)', life'[m] = "in", m \in ListedNear(v)', Near(at[v], at[m], ViewRadius(v) - 1)'
        PROVE  m \in DOMAIN seen'[v] \/ Crowded(v, m)'
    BY <1>0, <1>1, <1>2, <1>5, <2>3, <2>4, <2>5 DEF Covered
  <2>6. \A m \in Mob : m \in Player \/ m \in Npc
    BY DEF Mob
  <2> QED BY <1>1, <2>1, <2>2, <2>4, <2>5, <2>6 DEF Covered
<1>11. Appearing'
  <2>1. \A v \in Player : Local(v, Player)' = Local(v, Player)
    BY <1>2, <1>6 DEF Local
  <2>2. \A v, q : (Queued(v, q)' <=> Queued(v, q)) /\ (Coming(v, q)' <=> Coming(v, q))
    BY <1>1 DEF Queued, Coming, Event
  <2>3. \A v \in Player : Described(v)' <=> Described(v)
    BY <1>5
  <2>4. \A v \in Player : \A q : Appears(v, q)' <=> Appears(v, q)
    BY <1>1, <2>2, <2>3 DEF Appears
  <2> QED BY <1>0, <1>1, <2>1, <2>4 DEF Appearing
<1> QED BY <1>7, <1>8, <1>9, <1>10, <1>11

(* Reading a queue, and unsetting it: what has been read is known, and what went
   with the queue is missed. *)
LEMMA AppearancesKeep ==
  ASSUME IInv, TypeOK', NEW p \in Player, PlayerAppearances(p) \/ UnsetEvents(p)
  PROVE  Unmet' /\ Adding' /\ Haunting' /\ Covered' /\ Appearing'
<1>0. /\ TypeOK /\ Turns /\ Unmet /\ Adding /\ Haunting /\ Covered /\ Writing /\ Appearing
      /\ Player \subseteq Mob
  BY DEF IInv, Mob
<1>1. /\ at' = at /\ removed' = removed /\ step' = step /\ listing' = listing /\ life' = life
      /\ seen' = seen /\ viewRadius' = viewRadius /\ ticket' = ticket /\ writer' = writer
      /\ late' = late /\ lost' = lost
      /\ phase = "update" /\ phase' = "update"
      /\ \E part, next \in {"events", "unset"} :
           <<p, part>> \in todo /\ todo' \in {todo \ {<<p, part>>}, (todo \ {<<p, part>>}) \cup {<<p, next>>}}
  <2>1. CASE PlayerAppearances(p)
    <3>1. <<p, "events">> \in todo
          /\ todo' \in {todo \ {<<p, "events">>}, (todo \ {<<p, "events">>}) \cup {<<p, "unset">>}}
      BY <2>1 DEF PlayerAppearances, Updating, Then
    <3> QED BY <2>1, <3>1 DEF PlayerAppearances, Updating, Then, body, queues
  <2>2. CASE UnsetEvents(p)
    <3>1. <<p, "unset">> \in todo /\ todo' = todo \ {<<p, "unset">>}
      BY <2>2 DEF UnsetEvents, Updating, Then
    <3> QED BY <2>2, <3>1 DEF UnsetEvents, Updating, Then, body, client
  <2> QED BY <2>1, <2>2
<1>2. \A v \in Player : \A m : Told(v, m)' <=> Told(v, m)
  BY <1>1 DEF Told
<1>3. Unmet'
  BY <1>0, <1>1 DEF Unmet
<1>4. Adding'
  BY <1>0, <1>1, <1>2 DEF Adding
<1>5. Haunting'
  BY <1>0, <1>1, <1>2 DEF Haunting, Local
<1>6. Covered'
  <2>1. \A v \in Player, m \in Mob :
          /\ ListedNear(v)' = ListedNear(v) /\ (Crowded(v, m)' <=> Crowded(v, m))
          /\ Near(at[v], at[m], ViewRadius(v) - 1)' <=> Near(at[v], at[m], ViewRadius(v) - 1)
    BY <1>1 DEF ListedNear, Crowded, Local, ViewRadius, VarInt, Near
  <2> QED BY <1>0, <1>1, <1>2, <2>1 DEF Covered
<1>7. \A v, q : (Coming(v, q)' <=> Coming(v, q)) /\ Event(q)' = Event(q)
  BY <1>1 DEF Coming, Event
<1>8. \A v : Local(v, Player)' = Local(v, Player)
  BY <1>1 DEF Local
<1>9. \A v \in Player \ {p} : Described(v)' <=> Described(v)
  BY <1>1 DEF Described
<1>10. ASSUME PlayerAppearances(p) PROVE Appearing'
  <2>1. /\ \A v \in Player \ {p} : known'[v] = known[v]
        /\ \A q \in Player : known'[p][q] = IF \E e \in Current(p) : e.who = q THEN ticket[q] ELSE known[p][q]
    <3>1. known \in [Player -> [Player -> Int]]
      BY <1>0 DEF TypeOK
    <3>2. known' = [known EXCEPT ![p] = [q \in Player |->
                      IF \E e \in Current(p) : e.who = q THEN ticket[q] ELSE @[q]]]
      BY <1>10 DEF PlayerAppearances
    <3> HIDE DEF Current
    <3> QED BY <3>1, <3>2
  <2>2. events' = events /\ missed' = missed /\ since' = since \ ({p} \X Player)
    BY <1>10 DEF PlayerAppearances, queues
  <2>3. ASSUME life[p] # "gone", NEW q \in Local(p, Player) PROVE Appears(p, q)'
    <3>0. q \in Player /\ q \in DOMAIN seen[p]
      BY DEF Local
    <3>1. CASE known[p][q] = ticket[q] \/ <<p, q>> \in missed \/ life[q] = "gone" \/ Coming(p, q)
      <4>1. known[p][q] = ticket[q] => known'[p][q] = ticket[q]
        BY <2>1, <3>0
      <4> QED BY <1>1, <1>7, <2>2, <3>1, <4>1 DEF Appears
    <3>2. CASE Queued(p, q) /\ life[q] # "gone"
      <4>1. life[q] \in PlayerLives /\ life[q] # "out"
        BY <1>0, <3>0 DEF TypeOK, Unmet
      <4>2. Event(q) \in Current(p) /\ Event(q).who = q
        BY <3>2, <4>1 DEF Queued, Current, Online, PlayerLives, Event
      <4>3. known'[p][q] = ticket'[q]
        BY <1>1, <2>1, <3>0, <4>2
      <4> QED BY <4>3 DEF Appears
    <3> QED BY <1>0, <2>3, <3>1, <3>2 DEF Appearing, Appears
  <2>4. ASSUME NEW v \in Player \ {p}, life[v] # "gone", NEW q \in Local(v, Player) PROVE Appears(v, q)'
    <3>1. <<v, q>> \in since => <<v, q>> \in since'
      BY <2>2
    <3>2. Queued(v, q)' <=> Queued(v, q)
      BY <1>7, <2>2 DEF Queued
    <3>3. Appears(v, q)
      BY <1>0, <2>4 DEF Appearing
    <3> QED BY <1>1, <1>7, <1>9, <2>1, <2>2, <3>1, <3>2, <3>3 DEF Appears
  <2> QED BY <1>1, <1>8, <2>3, <2>4 DEF Appearing
<1>11. ASSUME UnsetEvents(p) PROVE Appearing'
  <2>1. /\ known' = known /\ missed' = missed \cup Erased(p) /\ since' = since
        /\ \A v \in Player \ {p} : events'[v] = events[v]
    BY <1>0, <1>11 DEF UnsetEvents, client, TypeOK
  <2>2. ASSUME NEW v \in Player, life[v] # "gone", NEW q \in Local(v, Player) PROVE Appears(v, q)'
    <3>0. q \in Player /\ q \in DOMAIN seen[v]
      BY DEF Local
    <3>1. Appears(v, q)
      BY <1>0, <2>2 DEF Appearing
    <3>2. CASE v # p
      <4>1. Queued(v, q)' <=> Queued(v, q)
        BY <1>7, <2>1, <3>2 DEF Queued
      <4> QED BY <1>1, <1>7, <1>9, <2>1, <3>1, <3>2, <4>1 DEF Appears
    <3>3. CASE v = p /\ Queued(p, q) /\ life[q] # "gone"
      <4>1. life[q] \in PlayerLives /\ life[q] # "out"
        BY <1>0, <3>0, <3>3 DEF TypeOK, Unmet
      <4>2. Event(q) \in Current(p) /\ Event(q).who = q /\ Event(q).ticket = ticket[q]
        BY <3>3, <4>1 DEF Queued, Current, Online, PlayerLives, Event
      <4>3. known[p][q] = ticket[q] \/ <<p, q>> \in Erased(p)
        BY <4>2 DEF Erased
      <4> QED BY <1>1, <2>1, <3>3, <4>3 DEF Appears
    <3>4. CASE v = p /\ (~Queued(p, q) \/ life[q] = "gone")
      BY <1>1, <1>7, <2>1, <3>1, <3>4 DEF Appears
    <3> QED BY <3>2, <3>3, <3>4
  <2> QED BY <1>1, <1>8, <2>2 DEF Appearing
<1> QED BY <1>3, <1>4, <1>5, <1>6, <1>10, <1>11

(* The turn of the phases. *)
LEMMA NextPhaseKeeps ==
  ASSUME IInv, TypeOK', NextPhase
  PROVE  IInv'
<1>0. /\ TypeOK /\ Turns /\ Unmet /\ Fresh /\ Marked /\ Adding /\ Haunting /\ Covered /\ Writing /\ Appearing
      /\ Player \subseteq Mob /\ Npc \subseteq Mob /\ Player \cap Npc = {}
  BY ViewAssumption DEF IInv, Mob
<1>1. /\ at' = at /\ listing' = listing /\ life' = life /\ ready' = ready
      /\ seen' = seen /\ known' = known /\ viewRadius' = viewRadius
      /\ ticket' = ticket /\ events' = events /\ writer' = writer /\ missed' = missed /\ since' = since
      /\ todo = {}
  BY DEF NextPhase, client, queues
<1>2. \/ phase = "packets" /\ phase' = "npcs" /\ todo' = Npc
      \/ phase = "npcs" /\ phase' = "update" /\ todo' = OnlinePlayers \X {"players"}
      \/ phase = "update" /\ phase' = "reset" /\ todo' = OnlinePlayers
      \/ phase = "reset" /\ phase' = "packets" /\ todo' = OnlinePlayers
  BY DEF NextPhase
<1>3. /\ phase # "reset" => removed' = removed /\ step' = step /\ late' = late /\ lost' = lost
      /\ phase = "reset" => removed' = removed \ Npc /\ lost' = lost \cup (late \cap removed \cap Npc)
  BY DEF NextPhase
<1>4. /\ \A p \in Player : step'[p] = step[p] /\ (p \in removed' <=> p \in removed)
      /\ phase = "reset" => \A n \in Npc : step'[n] = 0
  <2>1. step \in [Mob -> Int]
    BY <1>0 DEF TypeOK
  <2>2. phase = "reset" => step' = [m \in Mob |-> IF m \in Npc THEN 0 ELSE step[m]]
    BY DEF NextPhase
  <2> QED BY <1>0, <1>3, <2>1, <2>2
<1>5. \A p \in Player : p \in OnlinePlayers <=> life[p] \notin {"out", "gone"}
  BY <1>0 DEF OnlinePlayers, Online, TypeOK, PlayerLives
<1>6. \A p \in OnlinePlayers : \A m : Told(p, m)' => Told(p, m) /\ phase = "update"
  BY <1>1, <1>2 DEF Told
<1>7. \A p \in Player : \A m : Told(p, m) => phase = "update" \/ phase = "reset"
  BY DEF Told
<1>8. \A p \in Player, m \in Mob : Told(p, m) /\ phase = "update" => Told(p, m)'
  BY <1>1, <1>2 DEF Told
<1>9. \A p \in Player : life[p] # "gone" => \A m \in DOMAIN seen[p] : p \in OnlinePlayers /\ m \in Mob
  BY <1>0, <1>5, ViewIsView DEF Unmet
<1>10. Turns'
  BY <1>1, <1>2, <1>5 DEF Turns, OnlinePlayers, Parts
<1>11. Unmet'
  BY <1>0, <1>1, <1>4 DEF Unmet
<1>12. Fresh'
  <2>1. CASE phase = "packets"
    BY <1>0, <1>1, <1>2, <1>3, <2>1 DEF Fresh
  <2>2. CASE phase = "npcs"
    BY <1>2, <2>2 DEF Fresh
  <2>3. CASE phase = "update"
    BY <1>0, <1>1, <1>2, <1>4, <1>5, <2>3 DEF Fresh, Unmet
  <2>4. CASE phase = "reset"
    <3>1. \A p \in OnlinePlayers : p \in Player /\ step[p] = 0
      BY <1>0, <1>1, <1>5, <2>4 DEF Fresh, OnlinePlayers
    <3> QED BY <1>2, <1>4, <2>4, <3>1 DEF Fresh
  <2> QED BY <1>2, <2>1, <2>2, <2>3, <2>4
<1>13. Marked'
  BY <1>0, <1>1, <1>3, <1>4 DEF Marked
<1>14. Adding'
  <2> SUFFICES ASSUME NEW p \in Player, life[p] # "gone", NEW m \in DOMAIN seen[p], m \notin lost'
               PROVE  /\ Told(p, m)' => m \in late' \cap removed' \/ seen[p][m] = at[m]
                      /\ ~Told(p, m)' => m \in removed' \/ seen[p][m] + step'[m] = at[m]
    BY <1>1 DEF Adding
  <2>0. m \notin lost /\ p \in OnlinePlayers /\ m \in Mob
    BY <1>3, <1>9
  <2>1. CASE phase = "update"
    <3>1. Told(p, m) /\ Told(p, m)'
      BY <1>1, <1>8, <2>0, <2>1 DEF Told
    <3> QED BY <1>0, <1>3, <2>0, <2>1, <3>1 DEF Adding
  <2>2. CASE phase = "packets" \/ phase = "npcs"
    <3>1. ~Told(p, m) /\ ~Told(p, m)'
      BY <1>6, <1>7, <2>0, <2>2
    <3> QED BY <1>0, <1>3, <2>0, <2>2, <3>1 DEF Adding
  <2>3. CASE phase = "reset"
    <3>1. Told(p, m) /\ ~Told(p, m)'
      BY <1>6, <2>0, <2>3 DEF Told
    <3>2. m \in late \cap removed \/ seen[p][m] = at[m]
      BY <1>0, <2>0, <3>1 DEF Adding
    <3>3. at[m] \in Int
      <4>1. at[m] \in Tile
        BY <1>0, <2>0 DEF TypeOK
      <4> QED BY <4>1, TilesAreNumbers
    <3>4. CASE m \in Npc
      <4>1. m \notin late \cap removed
        BY <1>3, <2>3, <3>4
      <4>2. step'[m] = 0
        BY <1>4, <2>3, <3>4
      <4> QED BY <3>1, <3>2, <3>3, <4>1, <4>2
    <3>5. CASE m \in Player
      <4>1. step[m] = 0 \/ life[m] = "gone"
        BY <1>0, <1>1, <2>3, <3>5 DEF Fresh
      <4>2. life[m] = "gone" => m \in removed
        BY <1>0, <2>0, <3>5 DEF Marked
      <4>3. m \in removed => m \in removed'
        BY <1>4, <3>5
      <4>4. step'[m] = step[m]
        BY <1>4, <3>5
      <4> QED BY <3>1, <3>2, <3>3, <4>1, <4>2, <4>3, <4>4
    <3> QED BY <2>0, <3>4, <3>5 DEF Mob
  <2> QED BY <1>2, <2>1, <2>2, <2>3
<1>15. Haunting'
  <2>1. ASSUME NEW p \in Player, life[p] # "gone", NEW q \in Local(p, Player), q \notin late' \cup lost',
               Told(p, q)', life[q] \in {"unplaced", "gone"}
        PROVE  listing[q] # {}
    <3>1. Told(p, q) /\ phase = "update"
      BY <1>6, <1>9, <2>1 DEF Local
    <3> QED BY <1>0, <1>3, <2>1, <3>1 DEF Haunting
  <2> QED BY <1>1, <2>1 DEF Haunting, Local
<1>16. Covered'
  <2>1. \A v \in Player, m \in Mob :
          /\ ListedNear(v)' = ListedNear(v) /\ (Crowded(v, m)' <=> Crowded(v, m))
          /\ Near(at[v], at[m], ViewRadius(v) - 1)' <=> Near(at[v], at[m], ViewRadius(v) - 1)
    BY <1>1 DEF ListedNear, Crowded, Local, ViewRadius, VarInt, Near
  <2>2. ASSUME NEW p \in Player \ late', life[p] = "in", NEW m \in Mob \ (late' \cup {p}),
               Told(p, m)', life[m] = "in", m \in ListedNear(p), Near(at[p], at[m], ViewRadius(p) - 1)
        PROVE  m \in DOMAIN seen[p] \/ Crowded(p, m)
    <3>1. Told(p, m) /\ phase = "update"
      BY <1>5, <1>6, <2>2
    <3> QED BY <1>0, <1>3, <2>2, <3>1 DEF Covered
  <2> QED BY <1>1, <2>1, <2>2 DEF Covered
<1>17. Writing'
  BY <1>0, <1>1 DEF Writing
<1>18. Appearing'
  <2>1. \A v, q : /\ Local(v, Player)' = Local(v, Player)
                  /\ (Queued(v, q)' <=> Queued(v, q)) /\ (Coming(v, q)' <=> Coming(v, q))
    BY <1>1 DEF Local, Queued, Coming, Event
  <2>2. \A p \in OnlinePlayers : Described(p)' => Described(p)
    BY <1>1, <1>2 DEF Described
  <2>3. \A p \in OnlinePlayers : \A q : Appears(p, q) => Appears(p, q)'
    BY <1>1, <2>1, <2>2 DEF Appears
  <2>4. ASSUME NEW p \in Player, life[p] # "gone", NEW q \in Local(p, Player)
        PROVE  p \in OnlinePlayers
    BY <1>9, <2>4 DEF Local
  <2> QED BY <1>0, <1>1, <2>1, <2>3, <2>4 DEF Appearing
<1> QED BY <1>10, <1>11, <1>12, <1>13, <1>14, <1>15, <1>16, <1>17, <1>18 DEF IInv

-----------------------------------------------------------------------------
(* The invariant, and what it says of the moment when positions have been sent. *)

LEMMA InitIInv == Init => IInv
<1> SUFFICES ASSUME Init PROVE IInv
  OBVIOUS
<1>0. /\ Player \subseteq Mob /\ Npc \subseteq Mob /\ Player \cap Npc = {} /\ Newcomer \subseteq Player
      /\ StartPoint \in [Mob -> Tile]
  BY ViewAssumption DEF Mob
<1>1. TypeOK
  <2>1. \A m \in Mob : {Region(StartPoint[m])} \subseteq Int
    BY <1>0, RegionType
  <2>2. listing \in [Mob -> SUBSET Int]
    BY <2>1 DEF Init
  <2>3. seen \in [Player -> Views]
    <3>1. <<>> \in [{} -> Tile] /\ {} \in SUBSET Mob
      OBVIOUS
    <3>2. <<>> \in Views
      BY <3>1 DEF Views
    <3> QED BY <3>2 DEF Init
  <2>4. <<>> \in Seq(Events)
    BY EmptySeq
  <2>5. events \in [Player -> Seq(Events)]
    BY <2>4 DEF Init
  <2>6. writer \in [Writer -> [left : SUBSET Job, job : SUBSET Job, queue : Seq(Events)]]
    BY <2>4 DEF Init, Idle
  <2>7. /\ life \in [Mob -> PlayerLives \cup {"removed"}]
        /\ \A n \in Npc : life[n] \in {"in", "removed"}
        /\ \A p \in Player : life[p] # "removed"
    BY <1>0 DEF Init, PlayerLives
  <2>8. /\ at \in [Mob -> Tile] /\ removed \subseteq Mob /\ step \in [Mob -> Int]
        /\ ready \subseteq Player /\ viewRadius \in [Player -> {Unset, -1}]
        /\ known \in [Player -> [Player -> Int]] /\ ticket \in [Player -> Nat]
        /\ moves \in Nat /\ late \subseteq Mob /\ lost \subseteq Mob /\ missed \cup since \subseteq Player \X Player
    BY <1>0 DEF Init
  <2> QED BY <2>2, <2>3, <2>5, <2>6, <2>7, <2>8 DEF TypeOK
<1>2. /\ phase = "packets" /\ todo = Player \ Newcomer /\ \A m \in Mob : step[m] = 0
      /\ \A p \in Player : /\ life[p] = (IF p \in Newcomer THEN "out" ELSE "in")
                           /\ seen[p] = <<>> /\ DOMAIN seen[p] = {}
                           /\ listing[p] = {} \/ p \notin Newcomer
      /\ \A w \in Writer : writer[w].job = {}
  BY <1>0 DEF Init, Idle
<1>3. Turns /\ Unmet /\ Fresh /\ Marked
  BY <1>0, <1>2 DEF Turns, Unmet, Fresh, Marked
<1>4. Adding /\ Haunting /\ Covered /\ Appearing
  BY <1>2 DEF Adding, Haunting, Covered, Appearing, Local, Told
<1>5. Writing
  BY <1>2 DEF Writing
<1> QED BY <1>1, <1>3, <1>4, <1>5 DEF IInv

LEMMA NextIInv == IInv /\ [Next]_vars => IInv'
<1> SUFFICES ASSUME IInv, [Next]_vars PROVE IInv'
  OBVIOUS
<1>0. /\ TypeOK /\ Turns /\ Unmet /\ Fresh /\ Marked /\ Adding /\ Haunting /\ Covered
      /\ Writing /\ Appearing
  BY DEF IInv
<1>1. TypeOK'
  BY <1>0, NextTypes
<1>2. CASE NextPhase
  BY <1>1, <1>2, NextPhaseKeeps
<1>3. CASE \E p \in Player : UpdateOf(p)
  <2> PICK p \in Player : UpdateOf(p)
    BY <1>3
  <2>1. Turns' /\ Fresh' /\ Marked' /\ Writing'
    BY UpdateKeeps
  <2>2. Unmet' /\ Adding' /\ Haunting' /\ Covered' /\ Appearing'
    BY <1>1, PlayerPositionsKeep, NPCPositionsKeep, AppearancesKeep DEF UpdateOf
  <2> QED BY <1>1, <2>1, <2>2 DEF IInv
<1>4. CASE OthersTurn
  <2>1. Elsewhere
    BY <1>0, <1>4, OthersAreElsewhere
  <2>2. \A k \in Mob : Follows(k) /\ Placed(k)
    BY <1>0, <1>4, EverybodyFollows
  <2>3. Turns' /\ Unmet' /\ Fresh' /\ Marked'
    BY <1>0, <1>4, <2>1, MarksElsewhere
  <2>4. Adding'
    BY <1>0, <1>1, <2>1, <2>2, AddingElsewhere
  <2>5. Haunting' /\ Covered'
    BY <1>0, <2>1, <2>2, NearbyElsewhere
  <2>6. Writing'
    BY <1>0, <1>4, WritingElsewhere
  <2>7. Appearing'
    BY <1>0, <1>4, <2>1, AppearingElsewhere
  <2> QED BY <1>1, <2>3, <2>4, <2>5, <2>6, <2>7 DEF IInv
<1>5. CASE UNCHANGED vars
  <2>1. /\ at' = at /\ removed' = removed /\ step' = step /\ listing' = listing /\ life' = life
        /\ seen' = seen /\ known' = known /\ viewRadius' = viewRadius
        /\ ticket' = ticket /\ events' = events /\ writer' = writer
        /\ phase' = phase /\ todo' = todo /\ late' = late /\ lost' = lost
        /\ missed' = missed /\ since' = since
    BY <1>5 DEF vars, body, client, queues, turn, history
  <2>2. Turns' /\ Unmet' /\ Fresh' /\ Marked' /\ Writing'
    BY <1>0, <2>1 DEF Turns, Unmet, Fresh, Marked, Writing
  <2>3. Adding' /\ Haunting'
    BY <1>0, <2>1 DEF Adding, Haunting, Told, Local
  <2>4. Covered'
    <3>1. \A p, m : /\ (Told(p, m)' <=> Told(p, m)) /\ ListedNear(p)' = ListedNear(p)
                    /\ Crowded(p, m)' <=> Crowded(p, m)
                    /\ Near(at[p], at[m], ViewRadius(p) - 1)' <=> Near(at[p], at[m], ViewRadius(p) - 1)
      BY <2>1 DEF Told, ListedNear, Crowded, Local, Near, ViewRadius, VarInt
    <3> QED BY <1>0, <2>1, <3>1 DEF Covered
  <2>5. Appearing'
    BY <1>0, <2>1 DEF Appearing, Appears, Local, Described, Queued, Coming, Event
  <2> QED BY <1>1, <2>2, <2>3, <2>4, <2>5 DEF IInv
<1> QED BY <1>2, <1>3, <1>4, <1>5 DEF Next, OthersTurn, Describing, PacketsOf

(* Whatever the players and NPCs do and whenever scripts and logouts get in
   between: the parts above hold in every state of Server.Start's ticks. *)
THEOREM ViewInvariant == Spec => []IInv
<1> QED BY InitIInv, NextIInv, PTL DEF Spec

(* Once the position packets of a tick are sent, every client shows every mob
   where it is, but for those that another goroutine moved meanwhile or whose
   mark was reset too early. *)
THEOREM ClientsAgree == Spec => []ClientAgrees
<1>1. IInv => ClientAgrees
  BY DEF IInv, Adding, ClientAgrees, Sent, Told, Watching, Settled
<1> QED BY <1>1, ViewInvariant, PTL

(* Whoever is near, in a region that counts as visible and lists it, is then
   shown, teleported or not, unless the packet was full. *)
THEOREM AllNearAreSeen == Spec => []SeesAllNear
<1>1. ASSUME IInv, Sent, NEW p \in Watching \ late, NEW m \in Settled \ (Strays \cup {p}),
             life[m] = "in", Region(at[m]) \in VisibleRegions(at[p]),
             Near(at[p], at[m], ViewRadius(p) - 1)
      PROVE  m \in DOMAIN seen[p] \/ Crowded(p, m)
  <2>1. m \in Mob \ (late \cup {p}) /\ listing[m] = {Region(at[m])}
    BY <1>1 DEF Settled, Strays
  <2>2. m \in ListedNear(p)
    BY <1>1, <2>1 DEF ListedNear
  <2>3. p \in Player \ late /\ life[p] = "in" /\ Told(p, m)
    BY <1>1 DEF Watching, Told, Sent
  <2> QED BY <1>1, <2>1, <2>2, <2>3 DEF IInv, Covered
<1>2. IInv => SeesAllNear
  BY <1>1 DEF SeesAllNear
<1> QED BY <1>2, ViewInvariant, PTL

(* Nobody is then shown who has logged out, unless its mark was reset before
   everybody had seen it or a region still has it. *)
THEOREM NobodyHaunts == Spec => []NoGhosts
<1>1. ASSUME IInv, Sent, NEW p \in Watching, NEW q \in Local(p, Player \cap Settled) \ Strays,
             life[q] = "gone"
      PROVE  FALSE
  <2>1. q \in Player /\ q \in Local(p, Player) \ (late \cup lost) /\ q \in Mob
    BY <1>1 DEF Local, Settled
  <2>2. listing[q] = {}
    BY <1>1, <2>1 DEF Strays
  <2>3. p \in Player /\ life[p] # "gone" /\ Told(p, q)
    BY <1>1 DEF Watching, Told, Sent
  <2> QED BY <1>1, <2>1, <2>2, <2>3 DEF IInv, Haunting
<1>2. IInv => NoGhosts
  BY <1>1 DEF NoGhosts
<1> QED BY <1>2, ViewInvariant, PTL

(* Every client then has the latest appearance of each player it shows, or it is
   still to come: about to be queued, or queued too late for this tick.  Left out
   are changes that did not reach its region, and events overwritten or erased in
   its queue. *)
THEOREM LooksAreKnown == Spec => []AppearanceKnown
<1>1. IInv => AppearanceKnown
  BY DEF IInv, Appearing, Appears, Queued, AppearanceKnown, Sent, Described, Watching
<1> QED BY <1>1, ViewInvariant, PTL
=============================================================================
