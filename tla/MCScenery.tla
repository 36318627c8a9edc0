------------------------------ MODULE MCScenery -----------------------------
(* Two players south of one place; the tiles away from it are two, three and
   eleven tiles off.  And, for the search of a path, twelve tiles shut in by
   solid ones, with a solid one, a wall and a diagonal wall among them. *)
EXTENDS Scenery, Pathfinder
MCPlace == <<5, 5>>
MCGround == {<<5, 4>>, <<5, 5>>, <<5, 6>>}
MCAway == {<<5, 8>>, <<5, 16>>}
MCStart == <<5, 6>>

Floor == (10..13) \X (10..12)
Ring == ((9..14) \X (9..13)) \ Floor
Maze ==
  UNION {Own(t, Full) : t \in Ring \cup {<<11, 11>>}}
    \cup WallMarks(<<12, 11>>, 0) \cup WallMarks(<<13, 12>>, 2)

Price(chain) ==
  LET Sum[n \in 1..Len(chain)] ==
        IF n = 1 THEN 0 ELSE Sum[n - 1] + StepPrice(chain[n - 1], chain[n])
  IN Sum[Len(chain)]

Reach == ReachFrom(Maze, Floor)

(* Where walks from a tile lead that enter no more tiles than there are, and at
   what price. *)
Ways(start) ==
  LET Walked[n \in 0..Cardinality(Floor)] ==
        IF n = 0 THEN {<<start, 0>>}
        ELSE UNION {{w} \cup {<<t, w[2] + StepPrice(w[1], t)>> : t \in Reach[w[1]]} : w \in Walked[n - 1]}
  IN Walked[Cardinality(Floor)]

Starts == {<<10, 10>>, <<13, 12>>, <<12, 10>>, <<10, 12>>}
Legal(chain, start) ==
  chain[1] = start /\ \A i \in 2..Len(chain) : chain[i] \in Reach[chain[i-1]]

AllCheapest ==
  \A start \in Starts :
    LET walks == Ways(start) IN
    \A end \in {t \in Floor : Searched(Maze, t)} :
      LET prices == {w[2] : w \in {v \in walks : v[1] = end}} IN
      /\ \A chain \in Found(Reach, 512, start, end, Cardinality(Floor)) :
           IF prices = {} THEN chain = NoChain
           ELSE /\ chain # NoChain /\ chain[Len(chain)] = end /\ Legal(chain, start)
                /\ Price(chain) \in prices /\ \A price \in prices : Price(chain) <= price
      /\ \A chain \in Found(Reach, 3, start, end, Cardinality(Floor)) :
           chain = NoChain \/ Legal(chain, start)

(* The tiles MakePath chains together, whichever of equally good tiles its heap
   pops first, lead to where the mob was sent at the least price of any walk, and
   each step of them is allowed; there is no path only where there is no walk; and
   a search that becomes too wide leaves a path of allowed steps. *)
CheapestPaths == Init => AllCheapest
=============================================================================
