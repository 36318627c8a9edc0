----------------------------- MODULE Pathfinder -----------------------------
(***************************************************************************)
(* The A* search of pkg/game/world/astar.go: Pathfinder.MakePath, the path *)
(* WalkTo gives a mob.                                                     *)
(*                                                                         *)
(* A search is [queue, cost, parent]: the tiles in the heap, and what the  *)
(* nodes of the tiles met so far hold; reach gives the steps from a tile.  *)
(* The heap pops one of the cheapest tiles, any of them.  Costs are        *)
(* integers, in hundredths of a tile, a diagonal step rounded up and a     *)
(* distance down: as in the code, but for the last digits of its floats,   *)
(* no step lowers the estimate of a path.                                  *)
(***************************************************************************)
EXTENDS Tiles, Sequences, TLC

Straight == 100
Slant == 142
Root == [d \in 0..100 |->
           CHOOSE n \in 0..(10 * Straight) :
             n * n <= d * Straight * Straight /\ d * Straight * Straight < (n + 1) * (n + 1)]
EuclideanDistance(l, other) == Root[Abs(l[1] - other[1]) ^ 2 + Abs(l[2] - other[2]) ^ 2]

StepPrice(l, t) == IF l[1] # t[1] /\ l[2] # t[2] THEN Slant ELSE Straight
Neighbors(l) == {<<l[1] + dx, l[2] + dy>> : dx \in -1..1, dy \in -1..1} \ {l}
ReachFrom(masks, tiles) == [t \in tiles |-> {u \in Neighbors(t) : ReachableCoords(masks, t, u)}]

-----------------------------------------------------------------------------
NewPathfinder(start) == [queue |-> {start}, cost |-> start :> 0, parent |-> <<>>]

Active(s, end) ==
  LET nCost(t) == s.cost[t] + EuclideanDistance(t, end)
  IN {t \in s.queue : \A u \in s.queue : nCost(t) <= nCost(u)}

BetterOnce(s, reach, active) == {t \in reach[active] : t \notin DOMAIN s.cost}   \* mutant

(* The neighbours that are new, and those reached for less than before. *)
Better(s, reach, active) ==
  {t \in reach[active] :
     t \notin DOMAIN s.cost \/ s.cost[active] + StepPrice(active, t) < s.cost[t]}

Expanded(s, reach, active) ==
  LET better == Better(s, reach, active)
  IN [queue  |-> (s.queue \ {active}) \cup better,
      cost   |-> [t \in better |-> s.cost[active] + StepPrice(active, t)] @@ s.cost,
      parent |-> [t \in better |-> active] @@ s.parent]

(* A search is over when it is where it wanted to be, or has become too wide. *)
Over(s, active, limit, end) == active = end \/ Cardinality(s.queue) - 1 > limit

Turns(S, end) == UNION {{<<s, active>> : active \in Active(s, end)} : s \in S}

(* What a search may be like after n expansions. *)
Searches(reach, limit, start, end, most) ==
  LET After[n \in 0..most] ==
        IF n = 0 THEN {NewPathfinder(start)}
        ELSE {Expanded(turn[1], reach, turn[2]) :
                turn \in {t \in Turns(After[n - 1], end) : ~Over(t[1], t[2], limit, end)}}
  IN UNION {After[n] : n \in 0..most}

Chain(s, tile) ==
  LET From[t \in DOMAIN s.cost] ==
        IF t \in DOMAIN s.parent THEN Append(From[s.parent[t]], t) ELSE <<t>>
  IN From[tile]

(* The waypoints: all of the chain but the start and the tile after it. *)
Waypoints(chain) == SubSeq(chain, 3, Len(chain))

NoChain == <<>>

(* The chains of tiles MakePath may find, or NoChain where it returns nil; to a
   tile that is blocked it does not search. *)
Found(reach, limit, start, end, most) ==
  LET all == Searches(reach, limit, start, end, most)
  IN {Chain(turn[1], turn[2]) : turn \in {t \in Turns(all, end) : Over(t[1], t[2], limit, end)}}
     \cup {NoChain : s \in {t \in all : t.queue = {}}}
Searched(masks, end) == ~IsTileBlocking(masks, end, {}, FALSE)
=============================================================================
