-------------------------------- MODULE Tiles -------------------------------
(***************************************************************************)
(* The collision masks of the landscape, what objects add to them and take *)
(* away, and which steps they allow: pkg/game/world/world.go, landscape.go, *)
(* location.go and object.go.                                              *)
(*                                                                         *)
(* All masks are one set of marks [sector, index, bit]: a sector has       *)
(* RegionSize^2 tiles in one array, column by column, and the index of a   *)
(* neighbour is that of the tile plus or minus one, or one column, also    *)
(* where the neighbour is in another sector.                               *)
(*                                                                         *)
(* X grows to the west and Y to the south.  A direction is the set of its  *)
(* clip bits; an object is [id, place, direction, boundary], and what is   *)
(* defined for its id a record [clip, w, h]: clip is "none", "solid",      *)
(* "shut" or "open", its ClipType.                                         *)
(***************************************************************************)
EXTENDS Integers, FiniteSets

CONSTANT RegionSize            \* 48

ASSUME TilesAssumption == RegionSize \in Nat \ {0}

Tile == Int \X Int
Way == {"north", "east", "south", "west"}
Diagonal == {"sw-ne", "se-nw"}
Full == "full"
Bit == Way \cup Diagonal \cup {Full}

-----------------------------------------------------------------------------
(* Sectors. *)
Sector(t) == <<t[1] \div RegionSize, t[2] \div RegionSize>>
Area(t) == <<t[1] % RegionSize, t[2] % RegionSize>>
Index(t) == Area(t)[1] * RegionSize + Area(t)[2]

Mark(t, index, bit) == [sector |-> Sector(t), index |-> index, bit |-> bit]
CollisionData(masks, t) == {b \in Bit : Mark(t, Index(t), b) \in masks}
IsTileBlocking(masks, t, bits, current) ==
  \/ CollisionData(masks, t) \cap bits # {}
  \/ ~current /\ CollisionData(masks, t) \cap (Diagonal \cup {Full}) # {}

-----------------------------------------------------------------------------
(* Directions and steps. *)
North(t) == <<t[1], t[2] - 1>>
South(t) == <<t[1], t[2] + 1>>
West(t) == <<t[1] + 1, t[2]>>
East(t) == <<t[1] - 1, t[2]>>

ClipBit(l, dst) ==            \* of the direction from l toward dst
  {w \in Way : \/ w = "north" /\ dst[2] < l[2]
               \/ w = "south" /\ dst[2] > l[2]
               \/ w = "west" /\ dst[1] > l[1]
               \/ w = "east" /\ dst[1] < l[1]}

Sign(n) == IF n > 0 THEN 1 ELSE IF n < 0 THEN -1 ELSE 0
Abs(n) == IF n < 0 THEN -n ELSE n
LongestDelta(l, dst) ==
  LET dx == Abs(l[1] - dst[1])  dy == Abs(l[2] - dst[2]) IN IF dx > dy THEN dx ELSE dy
NextTileToward(l, dst) == <<l[1] + Sign(dst[1] - l[1]), l[2] + Sign(dst[2] - l[2])>>

(* A diagonal step is barred by its corners only if both are. *)
CornersOpen(masks, l, dst) ==
  \/ l[1] = dst[1] \/ l[2] = dst[2]
  \/ ~IsTileBlocking(masks, <<l[1], dst[2]>>, {IF dst[1] > l[1] THEN "south" ELSE "north"}, FALSE)
  \/ ~IsTileBlocking(masks, <<dst[1], l[2]>>, {IF dst[2] > l[2] THEN "east" ELSE "west"}, FALSE)

ReachableCoords(masks, l, target) ==
  LET dst == IF LongestDelta(l, target) > 1 THEN NextTileToward(l, target) ELSE target
  IN /\ ~IsTileBlocking(masks, l, ClipBit(l, dst), TRUE)
     /\ ~IsTileBlocking(masks, dst, ClipBit(dst, l), FALSE)
     /\ CornersOpen(masks, l, dst)

-----------------------------------------------------------------------------
(* Objects: the tiles one covers, ... *)
Turned(o, def) == IF o.direction \in {0, 4} THEN <<def.w, def.h>> ELSE <<def.h, def.w>>
Covered(o, def) ==
  {<<o.place[1] + dx, o.place[2] + dy>> :
     dx \in 0..(Turned(o, def)[1] - 1), dy \in 0..(Turned(o, def)[2] - 1)}

(* ... what a wall that stands on a side of t marks, ... *)
OneUp(t) == IF Index(t) > 0 THEN {Mark(North(t), Index(t) - 1, "south")} ELSE {}
OneLeft(t) == IF Area(t)[1] > 0 THEN {Mark(East(t), Index(t) - RegionSize, "west")} ELSE {}
OneDown(t) == {Mark(South(t), Index(t) + 1, "north")}
OneRight(t) ==
  LET next == Area(West(t))[1] * RegionSize + Area(t)[2]
  IN IF next + RegionSize > RegionSize * RegionSize THEN {Mark(West(t), next, "east")} ELSE {}
Own(t, bit) == {Mark(t, Index(t), bit)}

WallMarks(t, direction) ==
  CASE direction = 0 -> Own(t, "north") \cup OneUp(t)
    [] direction = 1 -> Own(t, "east") \cup OneLeft(t)
    [] direction = 2 -> Own(t, "sw-ne")
    [] direction = 3 -> Own(t, "se-nw")
    [] OTHER -> {}

GateMarks(t, direction) ==
  CASE direction = 0 -> Own(t, "east") \cup OneLeft(t)
    [] direction = 2 -> Own(t, "south") \cup OneDown(t)
    [] direction = 4 -> Own(t, "west") \cup OneRight(t)
    [] direction = 6 -> Own(t, "north") \cup OneUp(t)
    [] OTHER -> {}

(* ... and what RemoveObject takes away, which has guards of its own. *)
GateClears(t, direction) ==
  CASE direction = 0 -> Own(t, "east") \cup {Mark(East(t), Index(t) - RegionSize, "west")}
    [] direction = 4 -> Own(t, "west") \cup {Mark(West(t), Index(t) + RegionSize, "east")}
    [] direction = 6 -> Own(t, "north") \cup {Mark(North(t), Index(t) - 1, "south")}
    [] OTHER -> GateMarks(t, direction)

PassableGates(def) == def.clip # "solid"                        \* mutant
Passable(def) == def.clip \in {"none", "open"}
Marks(o, def) ==                               \* AddObject
  IF Passable(def) THEN {}
  ELSE IF o.boundary THEN WallMarks(o.place, o.direction)
  ELSE IF def.clip = "solid" THEN UNION {Own(t, Full) : t \in Covered(o, def)}
  ELSE UNION {GateMarks(t, o.direction) : t \in Covered(o, def)}

ClearsOwn(o, def) ==                           \* mutant
  IF o.boundary \/ def.clip # "shut" THEN Marks(o, def)
  ELSE UNION {Own(t, "south") : t \in Covered(o, def)}
Clears(o, def) ==                              \* RemoveObject
  IF o.boundary \/ def.clip # "shut" THEN Marks(o, def)
  ELSE UNION {GateClears(t, o.direction) : t \in Covered(o, def)}

-----------------------------------------------------------------------------
(* From where an object can be used. *)
Boundaries(o, def) ==
  LET x == o.place[1]  y == o.place[2]
      w == Turned(o, def)[1]  h == Turned(o, def)[2]
      d == o.direction
  IN IF o.boundary
     THEN <<<<IF d = 2 THEN x + 1 ELSE x, y>>,
            <<IF d \in {0, 3} THEN x + 1 ELSE x, IF d \in 1..3 THEN y + 1 ELSE y>>>>
     ELSE IF def.clip \in {"none", "solid"} THEN <<<<x, y>>, <<x + w - 1, y + h - 1>>>>
     ELSE <<<<IF d = 0 THEN x - 1 ELSE x, IF d = 6 THEN y - 1 ELSE y>>,
            <<(IF d \in {0, 4} THEN w + 1 ELSE w) + x - 1,
              (IF d \in {2, 6} THEN h + 1 ELSE h) + y - 1>>>>

WithinArea(t, bounds) ==
  t[1] \in bounds[1][1]..bounds[2][1] /\ t[2] \in bounds[1][2]..bounds[2][2]

CanReach(masks, t, bounds) ==
  \/ WithinArea(t, bounds)
  \/ WithinArea(East(t), bounds) /\ "west" \notin CollisionData(masks, East(t))
  \/ WithinArea(West(t), bounds) /\ "east" \notin CollisionData(masks, West(t))
  \/ WithinArea(North(t), bounds) /\ "south" \notin CollisionData(masks, North(t))
  \/ WithinArea(South(t), bounds) /\ "north" \notin CollisionData(masks, South(t))

(* What counts is the clip of the scenery of that id, for a boundary too.
   CanReachDiag is never true: (mask&ClipSouth|ClipWest) is not 0 whatever the
   mask. *)
AtObject(masks, t, o, def, sceneryClip) ==
  IF sceneryClip \in {"shut", "open"} THEN WithinArea(t, Boundaries(o, def))
  ELSE CanReach(masks, t, Boundaries(o, def))
=============================================================================
