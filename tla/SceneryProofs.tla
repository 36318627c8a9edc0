--------------------------- MODULE SceneryProofs ---------------------------
(* Proofs about Scenery, for any players, tiles, ticks and delays: what is used
   up comes back, the marks are those of what stands there, nobody walks through
   what is shut, and clients show what there is. *)
EXTENDS Scenery, SequenceTheorems, WellFoundedInduction, TLAPS

(* What is next to be done for a player fits the phase, is one thing, and has
   what it needs. *)
Parts ==
  CASE phase = "packets" -> {"packet", "action", "walk"}
    [] phase = "tasks" -> {}
    [] phase = "update" -> {"scan", "news"}
Agenda ==
  /\ todo \subseteq Player \X Parts
  /\ \A x, y \in todo : x[1] = y[1] => x = y
  /\ \A p \in Player : /\ <<p, "action">> \in todo => action[p] # Nothing
                       /\ <<p, "walk">> \in todo => path[p] # NoPath

(* What a goroutine is at is an object. *)
AtSomething == \A p \in Player : hand[p].at # "idle" => hand[p].object # Nothing

(* Objects are numbered as they are made, and each stands once.  (A web that has
   been cut away is itself put back.) *)
Serials ==
  kind # "web" =>
    /\ \A o \in Standing : o.serial \in 1..made
    /\ \A p \in Player : \A o \in local[p] : o.serial \in 1..made
    /\ \A i, j \in 1..Len(list) : list[i] = list[j] => i = j

(* Whoever is about to put an object there, a web by way of a timer: one
   goroutine or timer, and then nothing stands there, or nobody, and then what
   stands there is one object and the marks are its. *)
Adding(p) == hand[p].at = "add" \/ (kind = "web" /\ hand[p].at = "schedule")
Pending(t) == t.at = "add" \/ kind = "web"
OneAtATime ==
  ~raced =>
    /\ Len(list) <= 1
    /\ list # <<>> => /\ \A p \in Player : ~Adding(p)
                      /\ \A t \in timers : ~Pending(t)
    /\ \A p, q \in Player : Adding(p) /\ Adding(q) => p = q
    /\ \A t, u \in timers : Pending(t) /\ Pending(u) => t = u
    /\ \A p \in Player, t \in timers : ~(Adding(p) /\ Pending(t))
    /\ clips = IF list = <<>> THEN {} ELSE Marks(Scene, Def(list[1].id))

(* Where things are used up, it is whole ones that players are at, until they
   have replaced them. *)
Replaced(p) == kind # "web" /\ hand[p].at \in {"teleport", "schedule"}
Wholes ==
  kind \in {"rock", "locked", "web"} =>
    \A p \in Player : action[p].id # "changed" /\ (hand[p].object.id = "changed" => Replaced(p))

(* What is used up has a timer, or a goroutine that is to schedule one, and
   whoever took away the last object comes back to put one there, unless the timer
   was dropped. *)
Timed(o) == \E t \in timers : t.at = "wait" /\ t.object = o
Held(o) == \E p \in Player : hand[p].at \in {"teleport", "schedule"} /\ hand[p].object = o
UsedUp ==
  /\ kind \in {"rock", "locked", "web"} =>
       (list = <<>> => \/ \E t \in timers : Pending(t)
                       \/ \E p \in Player : Adding(p)
                       \/ kind = "web" /\ lost # {})
  /\ kind \in {"rock", "locked"} =>
       \A o \in Standing : o.id = "changed" => Timed(o) \/ Held(o) \/ o \in lost
  /\ kind = "web" => /\ \A o \in Standing : o.id = "whole"
                     /\ \A t \in timers : t.object.id = "whole"
                     /\ \A p \in Player : hand[p].at \notin {"add", "teleport"}

(* Of scenery: a client shows the one object it was told of; unless scenery
   changed in the middle of its packet it knows nothing but what stands there
   between the halves of the packet, and all of that after it. *)
SceneryKnown(p) ==
  /\ local[p] = {} => shown[p] = "none"
  /\ ~raced /\ ~torn[p] => \A o \in local[p] : local[p] = {o} /\ shown[p] = o.id
  /\ ~torn[p] /\ <<p, "news">> \in todo => \A o \in local[p] : GetObject = o
  /\ /\ phase = "update" /\ <<p, "scan">> \notin todo /\ <<p, "news">> \notin todo
     /\ fresh[p] /\ ~torn[p] /\ ~raced /\ Nearby(p)
     => local[p] = Standing

(* Of boundaries: it has been told of all that stand there up to some one, and
   shows the only one it knows if that still stands. *)
BoundaryKnown(p) ==
  /\ \A i, j \in 1..Len(list) : i < j /\ list[j] \in local[p] => list[i] \in local[p]
  /\ \A o \in Standing : local[p] = {o} => shown[p] = o.id
  /\ phase = "update" /\ <<p, "scan">> \notin todo /\ fresh[p]
       /\ Within(p, Radius + Slack) /\ Len(list) = 1
     => /\ GetObject \in local[p] => shown[p] = GetObject.id
        /\ <<p, "news">> \notin todo => GetObject \in local[p]

Known ==
  kind # "web" => \A p \in Player : IF Boundary THEN BoundaryKnown(p) ELSE SceneryKnown(p)

IInv == TypeOK /\ Agenda /\ AtSomething /\ Serials /\ OneAtATime /\ Wholes /\ UsedUp /\ Known

-----------------------------------------------------------------------------
(* The list of a region. *)

(* The natural numbers being well founded, a set of them has a least one. *)
LEMMA LeastExists ==
  ASSUME NEW I \in SUBSET Nat, I # {}
  PROVE  Min(I) \in I /\ \A i \in I : Min(I) <= i
<1> DEFINE Below == {ss \in Nat \X Nat : ss[1] < ss[2]}
<1>1. IsWellFoundedOn(Below, Nat)
  BY NatLessThanWellFounded DEF OpToRel
<1>2. PICK x \in I : \A y \in I : ~ (<<y, x>> \in Below)
  <2> HIDE DEF Below
  <2> QED BY <1>1, WFMin
<1>3. ASSUME NEW y \in I PROVE x <= y
  <2>1. x \in Nat /\ y \in Nat /\ <<y, x>> \notin Below
    BY <1>2
  <2>2. <<y, x>> \in Nat \X Nat /\ <<y, x>>[1] = y /\ <<y, x>>[2] = x
    BY <2>1
  <2>3. ~(y < x)
    BY <2>1, <2>2
  <2> QED BY <2>1, <2>3
<1> QED BY <1>3 DEF Min

(* So a set of indices has a last one. *)
LEMMA LastExists ==
  ASSUME NEW n \in Nat, NEW I \in SUBSET (1..n), I # {}
  PROVE  Max(I) \in I /\ \A i \in I : i <= Max(I)
<1> DEFINE J == {n - i : i \in I}
<1>1. J \in SUBSET Nat /\ J # {}
  <2>1. \A i \in I : n - i \in Nat
    OBVIOUS
  <2> QED BY <2>1
<1>2. Min(J) \in J /\ \A j \in J : Min(J) <= j
  <2> HIDE DEF J
  <2> QED BY <1>1, LeastExists
<1>3. PICK i \in I : Min(J) = n - i
  BY <1>2
<1>4. \A k \in I : k <= i
  <2> SUFFICES ASSUME NEW k \in I PROVE k <= i OBVIOUS
  <2>1. n - k \in J
    OBVIOUS
  <2>2. n - i <= n - k
    BY <1>2, <1>3, <2>1
  <2> QED BY <2>2
<1> QED BY <1>4 DEF Max

(* entityList.Remove takes out the first entry of an object, and closes up the
   entries behind it. *)
LEMMA RemovedCells ==
  ASSUME NEW s \in Seq(Object), NEW i
  PROVE  \/ /\ RemoveFirst(s, i) = s
            /\ \A n \in 1..Len(s) : s[n] # i
         \/ \E k \in 1..Len(s) :
              /\ s[k] = i
              /\ RemoveFirst(s, i) \in Seq(Object)
              /\ Len(RemoveFirst(s, i)) = Len(s) - 1
              /\ \A n \in 1..Len(s) - 1 :
                   RemoveFirst(s, i)[n] = IF n < k THEN s[n] ELSE s[n + 1]
<1>1. CASE ~ \E k \in 1..Len(s) : s[k] = i
  BY <1>1 DEF RemoveFirst
<1>2. CASE \E k \in 1..Len(s) : s[k] = i
  <2> DEFINE I == {k \in 1..Len(s) : s[k] = i}
             k == Min(I)
  <2>1. k \in 1..Len(s) /\ s[k] = i
    <3>1. I # {} /\ I \in SUBSET Nat
      BY <1>2
    <3>2. Min(I) \in I
      BY <3>1, LeastExists
    <3> QED BY <3>2
  <2>2. RemoveFirst(s, i) = SubSeq(s, 1, k - 1) \o SubSeq(s, k + 1, Len(s))
    <3>1. I # {}
      BY <1>2
    <3> QED BY <1>2, <3>1 DEF RemoveFirst, RemoveAt, SelectInSeq
  <2>3. Len(s) \in Nat /\ (\A n \in 1..Len(s) : s[n] \in Object) /\ k \in Nat
    BY <2>1, LenProperties
  <2> DEFINE a == SubSeq(s, 1, k - 1)
             b == SubSeq(s, k + 1, Len(s))
  <2> HIDE DEF k
  <2>4. /\ a \in Seq(Object) /\ Len(a) = k - 1
        /\ \A n \in 1..k - 1 : a[n] = s[n]
    <3>1. /\ 1 \in Int /\ k - 1 \in Int /\ \A n \in 1..k - 1 : s[n] \in Object
      BY <2>1, <2>3
    <3>2. /\ a \in Seq(Object)
          /\ Len(a) = IF 1 <= k - 1 THEN (k - 1) - 1 + 1 ELSE 0
          /\ \A n \in 1 .. (k - 1) - 1 + 1 : a[n] = s[1 + n - 1]
      BY <3>1, SubSeqProperties
    <3> HIDE DEF a
    <3> QED BY <2>1, <2>3, <3>2
  <2>5. /\ b \in Seq(Object) /\ Len(b) = Len(s) - k
        /\ \A n \in 1..Len(s) - k : b[n] = s[k + n]
    <3>1. /\ k + 1 \in Int /\ Len(s) \in Int /\ \A n \in k + 1 .. Len(s) : s[n] \in Object
      BY <2>1, <2>3
    <3>2. /\ b \in Seq(Object)
          /\ Len(b) = IF k + 1 <= Len(s) THEN Len(s) - (k + 1) + 1 ELSE 0
          /\ \A n \in 1 .. Len(s) - (k + 1) + 1 : b[n] = s[k + 1 + n - 1]
      BY <3>1, SubSeqProperties
    <3> HIDE DEF b
    <3>3. Len(b) = Len(s) - k
      BY <2>1, <2>3, <3>2
    <3>4. ASSUME NEW n \in 1..Len(s) - k PROVE b[n] = s[k + n]
      <4>1. n \in 1 .. Len(s) - (k + 1) + 1 /\ k + 1 + n - 1 = k + n
        BY <2>1, <2>3
      <4> QED BY <3>2, <4>1
    <3> QED BY <3>2, <3>3, <3>4
  <2> HIDE DEF a, b
  <2>6. /\ a \o b \in Seq(Object) /\ Len(a \o b) = Len(a) + Len(b)
        /\ \A n \in 1 .. Len(a) + Len(b) : (a \o b)[n] = IF n <= Len(a) THEN a[n] ELSE b[n - Len(a)]
    BY <2>4, <2>5, ConcatProperties
  <2>7. DOMAIN (a \o b) = 1..Len(s) - 1 /\ DOMAIN s = 1..Len(s)
    BY <2>1, <2>3, <2>4, <2>5, <2>6, LenProperties
  <2>8. ASSUME NEW n \in 1..Len(s) - 1 PROVE (a \o b)[n] = IF n < k THEN s[n] ELSE s[n + 1]
    <3>1. n \in 1..Len(a) + Len(b) /\ Len(a) = k - 1
      BY <2>1, <2>3, <2>4, <2>5
    <3>2. CASE n < k
      <4>1. n \in 1..k - 1 /\ n <= Len(a)
        BY <2>1, <2>3, <3>1, <3>2
      <4> QED BY <2>4, <2>6, <3>1, <3>2, <4>1
    <3>3. CASE ~(n < k)
      <4>1. n - (k - 1) \in 1..Len(s) - k /\ ~(n <= Len(a)) /\ k + (n - (k - 1)) = n + 1
        BY <2>1, <2>3, <3>1, <3>3
      <4>2. (a \o b)[n] = b[n - (k - 1)]
        BY <2>6, <3>1, <4>1
      <4> QED BY <2>5, <3>3, <4>1, <4>2
    <3> QED BY <3>2, <3>3
  <2>9. Len(a \o b) = Len(s) - 1
    BY <2>1, <2>3, <2>4, <2>5, <2>6
  <2> QED BY <2>1, <2>2, <2>6, <2>8, <2>9 DEF a, b
<1> QED BY <1>1, <1>2

(* So it lists no other objects than before, in the same order, and all of them
   but, of those that stand once, the one that was removed. *)
LEMMA RemovedList ==
  ASSUME NEW s \in Seq(Object), NEW o, NEW t, t = RemoveFirst(s, o)
  PROVE  /\ t \in Seq(Object)
         /\ ToSet(t) \subseteq ToSet(s) /\ Len(t) <= Len(s)
         /\ \A x \in ToSet(s) : x # o => x \in ToSet(t)
         /\ o \in ToSet(s) => Len(t) = Len(s) - 1
         /\ o \notin ToSet(s) => t = s
         /\ \A i, j \in 1..Len(t) : i < j =>
              \E k, l \in 1..Len(s) : k < l /\ s[k] = t[i] /\ s[l] = t[j]
         /\ (\A i, j \in 1..Len(s) : s[i] = s[j] => i = j) =>
              /\ \A i, j \in 1..Len(t) : t[i] = t[j] => i = j
              /\ o \notin ToSet(t)
<1>1. Len(s) \in Nat /\ DOMAIN s = 1..Len(s) /\ ToSet(s) = {s[i] : i \in 1..Len(s)}
  BY LenProperties DEF ToSet
<1>2. CASE t = s /\ \A n \in 1..Len(s) : s[n] # o
  <2>1. o \notin ToSet(s)
    BY <1>1, <1>2
  <2>2. \A i, j \in 1..Len(t) : i < j =>
          \E k, l \in 1..Len(s) : k < l /\ s[k] = t[i] /\ s[l] = t[j]
    BY <1>2, Zenon
  <2>3. Len(t) <= Len(s) /\ t \in Seq(Object)
    BY <1>1, <1>2
  <2> QED BY <1>2, <2>1, <2>2, <2>3, Zenon
<1>3. CASE \E k \in 1..Len(s) :
              /\ s[k] = o /\ t \in Seq(Object) /\ Len(t) = Len(s) - 1
              /\ \A n \in 1..Len(s) - 1 : t[n] = IF n < k THEN s[n] ELSE s[n + 1]
  <2>1. PICK k \in 1..Len(s) :
              /\ s[k] = o /\ t \in Seq(Object) /\ Len(t) = Len(s) - 1
              /\ \A n \in 1..Len(s) - 1 : t[n] = IF n < k THEN s[n] ELSE s[n + 1]
    BY <1>3
  <2>2. ToSet(t) = {t[i] : i \in 1..Len(s) - 1}
    BY <2>1, LenProperties DEF ToSet
  <2> DEFINE From(n) == IF n < k THEN n ELSE n + 1
  <2>3. \A n \in 1..Len(s) - 1 : From(n) \in 1..Len(s) /\ From(n) # k /\ t[n] = s[From(n)]
    BY <1>1, <2>1
  <2>4. \A i, j \in 1..Len(s) - 1 : i < j => From(i) < From(j)
    BY <1>1, <2>1
  <2>5. ASSUME NEW n \in 1..Len(s), n # k
        PROVE  \E m \in 1..Len(s) - 1 : From(m) = n
    <3>1. CASE n < k
      <4>1. n \in 1..Len(s) - 1 /\ From(n) = n
        BY <1>1, <2>1, <3>1
      <4> QED BY <4>1
    <3>2. CASE ~(n < k)
      <4>1. n - 1 \in 1..Len(s) - 1 /\ From(n - 1) = n
        BY <1>1, <2>1, <2>5, <3>2
      <4> QED BY <4>1
    <3> QED BY <3>1, <3>2
  <2>6. \A i, j \in 1..Len(s) - 1 : From(i) = From(j) => i = j
    BY <1>1, <2>1
  <2> HIDE DEF From
  <2>7. ToSet(t) \subseteq ToSet(s)
    BY <1>1, <2>2, <2>3
  <2>8. ASSUME NEW x \in ToSet(s), x # o PROVE x \in ToSet(t)
    <3>1. PICK n \in 1..Len(s) : s[n] = x
      BY <1>1
    <3>2. PICK m \in 1..Len(s) - 1 : From(m) = n
      BY <2>1, <2>5, <2>8, <3>1
    <3> QED BY <2>2, <2>3, <3>1, <3>2
  <2>9. o \in ToSet(s)
    BY <1>1, <2>1
  <2>10. ASSUME NEW i \in 1..Len(t), NEW j \in 1..Len(t), i < j
         PROVE  \E k0, l0 \in 1..Len(s) : k0 < l0 /\ s[k0] = t[i] /\ s[l0] = t[j]
    BY <2>1, <2>3, <2>4, <2>10
  <2>11. ASSUME \A i, j \in 1..Len(s) : s[i] = s[j] => i = j
         PROVE  /\ \A i, j \in 1..Len(t) : t[i] = t[j] => i = j
                /\ o \notin ToSet(t)
    <3>1. ASSUME NEW i \in 1..Len(t), NEW j \in 1..Len(t), t[i] = t[j] PROVE i = j
      <4>1. s[From(i)] = s[From(j)] /\ From(i) \in 1..Len(s) /\ From(j) \in 1..Len(s)
        BY <2>1, <2>3, <3>1
      <4> QED BY <2>1, <2>6, <2>11, <4>1
    <3>2. ASSUME o \in ToSet(t) PROVE FALSE
      <4>1. PICK n \in 1..Len(s) - 1 : t[n] = o
        BY <2>2, <3>2
      <4>2. From(n) \in 1..Len(s) /\ From(n) # k /\ s[From(n)] = s[k]
        BY <2>1, <2>3, <4>1
      <4> QED BY <2>1, <2>11, <4>2
    <3> QED BY <3>1, <3>2
  <2>12. t \in Seq(Object) /\ Len(t) <= Len(s) /\ Len(t) = Len(s) - 1
    BY <1>1, <2>1
  <2> QED BY <2>7, <2>8, <2>9, <2>10, <2>11, <2>12
<1> QED BY <1>2, <1>3, RemovedCells

(* entityList.Add lists the object behind the others. *)
LEMMA AddedList ==
  ASSUME NEW s \in Seq(Object), NEW o \in Object, NEW t, t = Append(s, o)
  PROVE  /\ t \in Seq(Object) /\ Len(s) \in Nat /\ Len(t) = Len(s) + 1
         /\ ToSet(t) = ToSet(s) \cup {o}
         /\ \A i \in 1..Len(t) : \/ i \in 1..Len(s) /\ t[i] = s[i]
                                 \/ i = Len(s) + 1 /\ t[i] = o
         /\ t # <<>>
<1>1. /\ t \in Seq(Object) /\ Len(t) = Len(s) + 1 /\ Len(s) \in Nat
      /\ \A k \in 1..Len(s) : t[k] = s[k]
      /\ t[Len(s) + 1] = o
  BY AppendProperties, LenProperties
<1>2. /\ DOMAIN t = 1..Len(s) + 1 /\ DOMAIN s = 1..Len(s)
      /\ 1..Len(s) + 1 = 1..Len(s) \cup {Len(s) + 1}
  BY <1>1, LenProperties
<1>3. ToSet(t) = ToSet(s) \cup {o}
  BY <1>1, <1>2 DEF ToSet
<1>4. \A i \in 1..Len(t) : \/ i \in 1..Len(s) /\ t[i] = s[i]
                           \/ i = Len(s) + 1 /\ t[i] = o
  BY <1>1, <1>2
<1>5. t # <<>>
  BY <1>1, EmptySeq
<1> QED BY <1>1, <1>3, <1>4, <1>5

(* What GetObject finds. *)
LEMMA FirstStands ==
  ASSUME TypeOK
  PROVE  /\ Len(list) \in Nat /\ Standing = {list[i] : i \in 1..Len(list)}
         /\ Standing \subseteq Object /\ Nothing \notin Object
         /\ list = <<>> <=> Len(list) = 0
         /\ list = <<>> <=> Standing = {}
         /\ list # <<>> => GetObject \in Standing /\ GetObject = list[1] /\ 1 \in 1..Len(list)
         /\ GetObject \in Object \cup {Nothing}
         /\ Len(list) <= 1 => Standing \subseteq {GetObject}
<1>1. list \in Seq(Object)
  BY DEF TypeOK
<1>2. Len(list) \in Nat /\ DOMAIN list = 1..Len(list) /\ \A i \in 1..Len(list) : list[i] \in Object
  BY <1>1, LenProperties
<1>3. Standing = {list[i] : i \in 1..Len(list)}
  BY <1>2 DEF Standing, ToSet
<1>4. list = <<>> <=> Len(list) = 0
  BY <1>1, EmptySeq
<1>5. Nothing \notin Object
  BY DEF Nothing, Object
<1>6. list # <<>> => 1 \in 1..Len(list)
  BY <1>2, <1>4
<1>7. Len(list) <= 1 => 1..Len(list) \subseteq {1}
  BY <1>2
<1> QED BY <1>2, <1>3, <1>4, <1>5, <1>6, <1>7 DEF GetObject

-----------------------------------------------------------------------------
(* Types. *)

(* What RemoveObject and AddObject do to the place. *)
LEMMA RemovingTypes ==
  ASSUME TypeOK, NEW o, RemoveObject(o)
  PROVE  /\ list' = RemoveFirst(list, o) /\ list' \in Seq(Object) /\ raced' \in BOOLEAN
         /\ fresh' \in [Player -> BOOLEAN] /\ torn' \in [Player -> BOOLEAN] /\ lost' = lost
<1>1. list' = RemoveFirst(list, o) /\ lost' = lost
  BY DEF RemoveObject, Without
<1>2. list' \in Seq(Object)
  BY <1>1, RemovedList DEF TypeOK
<1>3. raced' \in BOOLEAN
  BY DEF RemoveObject, TypeOK
<1>4. fresh' \in [Player -> BOOLEAN] /\ torn' \in [Player -> BOOLEAN]
  BY DEF RemoveObject, Changed, TypeOK
<1> QED BY <1>1, <1>2, <1>3, <1>4

LEMMA AddingTypes ==
  ASSUME TypeOK, NEW o \in Object, AddObject(o)
  PROVE  /\ list' = Append(list, o) /\ list' \in Seq(Object) /\ raced' \in BOOLEAN
         /\ fresh' \in [Player -> BOOLEAN] /\ torn' \in [Player -> BOOLEAN]
         /\ lost' = lost \ {o} /\ lost' \subseteq Object
<1>1. list' = Append(list, o) /\ list' \in Seq(Object) /\ lost' = lost \ {o} /\ lost' \subseteq Object
  BY AddedList DEF AddObject, TypeOK
<1>2. raced' \in BOOLEAN
  BY DEF AddObject, TypeOK
<1>3. fresh' \in [Player -> BOOLEAN] /\ torn' \in [Player -> BOOLEAN]
  BY DEF AddObject, Changed, TypeOK
<1> QED BY <1>1, <1>2, <1>3

LEMMA AddingMore ==
  ASSUME TypeOK, NEW o \in Object, AddObject(o)
  PROVE  list' # <<>> /\ Standing' = Standing \cup {o} /\ lost' = lost \ {o}
<1>1. list' = Append(list, o) /\ list \in Seq(Object) /\ lost' = lost \ {o}
  BY AddingTypes DEF TypeOK
<1>2. list' # <<>> /\ ToSet(list') = ToSet(list) \cup {o}
  BY <1>1, AddedList
<1> QED BY <1>1, <1>2 DEF Standing

LEMMA NewTypes ==
  ASSUME TypeOK, NEW o
  PROVE  /\ NewObject(Toggled(o)) \in Object /\ NewObject("whole") \in Object
         /\ NewObject(Toggled(o)).serial = made + 1 /\ NewObject("whole").serial = made + 1
         /\ NewObject("whole").id = "whole" /\ made \in Nat
BY DEF TypeOK, NewObject, Toggled, Object

(* A goroutine that goes on keeps its object, ... *)
LEMMA GotoMoves ==
  ASSUME TypeOK, NEW p \in Player, NEW label \in Stages, Goto(p, label)
  PROVE  /\ hand' \in [Player -> Hand]
         /\ hand'[p].at = label /\ hand'[p].object = hand[p].object
         /\ \A q \in Player : q # p => hand'[q] = hand[q]
<1> DEFINE h == [hand[p] EXCEPT !.at = label]
<1>1. hand' = [hand EXCEPT ![p] = h] /\ hand \in [Player -> Hand]
  BY DEF Goto, TypeOK
<1>2. h \in Hand /\ h.at = label /\ h.object = hand[p].object
  BY <1>1 DEF Hand
<1> HIDE DEF h
<1> QED BY <1>1, <1>2

LEMMA StallsMoves ==
  ASSUME TypeOK, NEW p \in Player, Stalls(p)
  PROVE  /\ hand' \in [Player -> Hand]
         /\ hand[p].at = "call" /\ hand'[p].at \in {"stuck", "stall"}
         /\ hand'[p].object = hand[p].object
         /\ \A q \in Player : q # p => hand'[q] = hand[q]
<1> DEFINE h == [hand[p] EXCEPT !.at = "stall", !.due = StallTicks]
<1>1. CASE Goto(p, "stuck")
  <2>1. "stuck" \in Stages
    BY DEF Stages
  <2> QED BY <1>1, <2>1, GotoMoves DEF Stalls
<1>2. CASE hand' = [hand EXCEPT ![p] = h]
  <2>1. h \in Hand /\ h.at = "stall" /\ h.object = hand[p].object
    <3>1. hand[p] \in Hand /\ StallTicks \in Nat /\ "stall" \in Stages
      BY SceneryAssumption DEF TypeOK, Stages
    <3> QED BY <3>1 DEF Hand
  <2>2. hand \in [Player -> Hand] /\ hand[p].at = "call"
    BY DEF Stalls, TypeOK
  <2> HIDE DEF h
  <2> QED BY <1>2, <2>1, <2>2
<1> QED BY <1>1, <1>2 DEF Stalls, TypeOK

(* ... and one that has put a new object there has that, ... *)
Renewed(p, o, label) == hand' = [hand EXCEPT ![p].at = label, ![p].object = o]
LEMMA RenewedMoves ==
  ASSUME TypeOK, NEW p \in Player, NEW o \in Object, NEW label \in Stages, Renewed(p, o, label)
  PROVE  /\ hand' \in [Player -> Hand]
         /\ hand'[p].at = label /\ hand'[p].object = o
         /\ \A q \in Player : q # p => hand'[q] = hand[q]
<1> DEFINE h == [hand[p] EXCEPT !.at = label, !.object = o]
<1>1. hand' = [hand EXCEPT ![p] = h] /\ hand \in [Player -> Hand]
  BY DEF Renewed, TypeOK
<1>2. h \in Hand /\ h.at = label /\ h.object = o
  BY <1>1 DEF Hand
<1> HIDE DEF h
<1> QED BY <1>1, <1>2

LEMMA LeavesEnds ==
  ASSUME TypeOK, NEW p \in Player, Leaves(p)
  PROVE  /\ hand' \in [Player -> Hand]
         /\ hand'[p] = Idle /\ Idle.at = "idle" /\ Idle.object = Nothing
         /\ \A q \in Player : q # p => hand'[q] = hand[q]
BY DEF TypeOK, Leaves, Idle, Hand, Stages

(* What PutNew does to the goroutine: doors and gates are done, the others have
   the new object. *)
NewOf(p) == NewObject(Toggled(hand[p].object))
LEMMA PutNewMoves ==
  ASSUME TypeOK, NEW p \in Player, PutNew(p)
  PROVE  /\ AddObject(NewOf(p)) /\ NewOf(p) \in Object /\ NewOf(p).serial = made + 1
         /\ hand[p].at = "add" /\ made' = made + 1 /\ made \in Nat /\ hand' \in [Player -> Hand]
         /\ \A q \in Player : q # p => hand'[q] = hand[q]
         /\ kind' = kind /\ UNCHANGED <<action, timers, ore, body, client, turn, bounds>>
         /\ \/ ~Returns /\ hand'[p] = Idle /\ Idle.at = "idle" /\ Idle.object = Nothing
            \/ /\ Returns /\ hand'[p].at \in {"teleport", "schedule"}
               /\ hand'[p].object = NewOf(p)
<1> DEFINE o == NewObject(Toggled(hand[p].object))
           label == IF kind = "locked" THEN "teleport" ELSE "schedule"
<1>1. o \in Object /\ o.serial = made + 1 /\ made \in Nat
  BY NewTypes DEF TypeOK
<1>2. label \in Stages /\ label \in {"teleport", "schedule"}
  BY DEF Stages
<1>3. /\ AddObject(o) /\ made' = made + 1 /\ hand[p].at = "add"
      /\ IF ~Returns THEN Leaves(p) ELSE Renewed(p, o, label)
      /\ kind' = kind /\ UNCHANGED <<action, timers, ore, body, client, turn, bounds>>
  BY DEF PutNew, Keeps, Renewed
<1> HIDE DEF o, label
<1>4. CASE ~Returns
  BY <1>1, <1>3, <1>4, LeavesEnds DEF o, NewOf
<1>5. CASE Returns
  BY <1>1, <1>2, <1>3, <1>5, RenewedMoves DEF o, NewOf
<1> QED BY <1>4, <1>5

(* While a tick passes all keep theirs. *)
LEMMA PassedKeeps ==
  /\ \A h \in Hand : /\ Passed(h) \in Hand
                     /\ Passed(h).at = h.at /\ Passed(h).object = h.object
  /\ \A t \in Timer : /\ Passed(t) \in Timer
                      /\ Passed(t).at = t.at /\ Passed(t).object = t.object
<1>1. ASSUME NEW h \in Hand
      PROVE  Passed(h) \in Hand /\ Passed(h).at = h.at /\ Passed(h).object = h.object
  <2>1. Passed(h) = [at |-> h.at, object |-> h.object, due |-> IF h.due = 0 THEN 0 ELSE h.due - 1]
    BY DEF Passed, Hand
  <2>2. (IF h.due = 0 THEN 0 ELSE h.due - 1) \in Nat
    BY DEF Hand
  <2> QED BY <2>1, <2>2 DEF Hand
<1>2. ASSUME NEW t \in Timer
      PROVE  Passed(t) \in Timer /\ Passed(t).at = t.at /\ Passed(t).object = t.object
  <2>1. Passed(t) = [of |-> t.of, at |-> t.at, object |-> t.object,
                     due |-> IF t.due = 0 THEN 0 ELSE t.due - 1]
    BY DEF Passed, Timer
  <2>2. (IF t.due = 0 THEN 0 ELSE t.due - 1) \in Nat
    BY DEF Timer
  <2> QED BY <2>1, <2>2 DEF Timer
<1> QED BY <1>1, <1>2

LEMMA InitTypes == Init => TypeOK
<1> SUFFICES ASSUME Init PROVE TypeOK OBVIOUS
<1>1. [serial |-> 1, id |-> "whole"] \in Object
  BY DEF Object
<1>2. list \in Seq(Object)
  BY <1>1 DEF Init
<1>3. Start \in Tile
  BY SceneryAssumption
<1>4. Idle \in Hand
  BY DEF Idle, Hand, Stages
<1>5. /\ fresh \in [Player -> BOOLEAN] /\ torn \in [Player -> BOOLEAN] /\ raced \in BOOLEAN
      /\ at \in [Player -> Tile] /\ path \in [Player -> Tile \cup {NoPath}]
      /\ action \in [Player -> Object \cup {Nothing}] /\ hand \in [Player -> Hand]
  BY <1>3, <1>4 DEF Init
<1>6. /\ lost \subseteq Object /\ local \in [Player -> SUBSET Object] /\ shown \in [Player -> {"none", "whole", "changed"}]
      /\ todo \subseteq Player \X {"packet", "action", "walk", "scan", "news"}
      /\ phase \in {"packets", "tasks", "update"} /\ timers \subseteq Timer
  BY DEF Init
<1>7. kind \in Kinds /\ {made, ore, clicks, trips} \subseteq Nat
  BY DEF Init
<1> QED BY <1>2, <1>5, <1>6, <1>7 DEF TypeOK

(* The actions of the packets phase. *)
LEMMA PacketTypes ==
  ASSUME TypeOK, Agenda, NEW p \in Player, PacketsOf(p)
  PROVE  TypeOK'
<1> USE DEF TypeOK
<1>1. CASE HandlePacket(p)
  <2>1. GetObject \in Object \cup {Nothing}
    BY FirstStands
  <2>2. Ground \cup Away \subseteq Tile
    BY SceneryAssumption
  <2>3. todo' \subseteq Player \X {"packet", "action", "walk", "scan", "news"} /\ phase' = phase
    BY <1>1 DEF HandlePacket, Then, Acts, Walks
  <2>4. CASE Click(p)
    BY <1>1, <2>1, <2>3, <2>4 DEF HandlePacket, Click, body, bounds, world, client
  <2>5. CASE Walk(p)
    BY <1>1, <2>2, <2>3, <2>5 DEF HandlePacket, Walk, body, bounds, world, client
  <2>6. CASE Travel(p)
    BY <1>1, <2>2, <2>3, <2>6 DEF HandlePacket, Travel, body, bounds, world, client
  <2>7. CASE UNCHANGED <<body, action, bounds>>
    BY <1>1, <2>3, <2>7 DEF HandlePacket, body, bounds, world, client
  <2> QED BY <1>1, <2>4, <2>5, <2>6, <2>7 DEF HandlePacket
<1>2. CASE TickAction(p)
  <2>1. todo' \subseteq Player \X {"packet", "action", "walk", "scan", "news"} /\ phase' = phase
    BY <1>2 DEF TickAction, Then, Walks
  <2>2. Begun(action[p]) \in Hand
    BY DEF Begun, Hand, Stages
  <2>3. /\ action' \in [Player -> Object \cup {Nothing}] /\ path' \in [Player -> Tile \cup {NoPath}]
        /\ hand' \in [Player -> Hand]
    <3> HIDE DEF Begun, At, Hand
    <3>1. action' \in [Player -> Object \cup {Nothing}]
      BY <1>2 DEF TickAction
    <3>2. path' \in [Player -> Tile \cup {NoPath}]
      BY <1>2 DEF TickAction
    <3>3. hand' \in [Player -> Hand]
      BY <1>2, <2>2 DEF TickAction
    <3> QED BY <3>1, <3>2, <3>3
  <2> QED BY <1>2, <2>1, <2>3 DEF TickAction, bounds, world, client
<1>3. CASE TraversePath(p)
  <2>1. todo' \subseteq Player \X {"packet", "action", "walk", "scan", "news"} /\ phase' = phase
    BY <1>3 DEF TraversePath, Then
  <2>2. path[p] \in Tile
    BY <1>3 DEF TraversePath, Turn, First, Agenda
  <2>3. Step(p) \in Tile
    <3>1. /\ at[p][1] \in Int /\ at[p][2] \in Int /\ path[p][1] \in Int /\ path[p][2] \in Int
      BY <2>2 DEF Tile
    <3>2. \A a, b \in Int : a + Sign(b - a) \in Int
      BY DEF Sign
    <3> HIDE DEF TypeOK
    <3> QED BY <3>1, <3>2 DEF Step, NextTileToward, Tile
  <2>4. at' \in [Player -> Tile]
    <3> HIDE DEF Step
    <3> QED BY <1>3, <2>3 DEF TraversePath
  <2>5. path' \in [Player -> Tile \cup {NoPath}]
    <3> HIDE DEF Step, Passable
    <3> QED BY <1>3 DEF TraversePath
  <2> QED BY <1>3, <2>1, <2>4, <2>5 DEF TraversePath, bounds, world, client
<1> QED BY <1>1, <1>2, <1>3 DEF PacketsOf

(* The goroutines of handlers. *)
LEMMA HandlerTypes ==
  ASSUME TypeOK, AtSomething, NEW p \in Player, HandlerOf(p) \/ Wakes(p)
  PROVE  TypeOK'
<1> USE DEF TypeOK
<1>0. {"awake", "remove", "add", "schedule"} \subseteq Stages
  BY DEF Stages
<1>1. CASE Stalls(p)
  BY <1>1, StallsMoves DEF Stalls, Keeps, body, world, client, turn, bounds
<1>2. CASE Stalled(p)
  <2>1. ore' \in Nat
    BY <1>2 DEF Stalled
  <2>2. hand' \in [Player -> Hand]
    BY <1>0, <1>2, GotoMoves, LeavesEnds DEF Stalled
  <2> QED BY <1>2, <2>1, <2>2 DEF Stalled, Keeps, body, world, client, turn, bounds
<1>3. CASE TakeAway(p)
  <2>1. hand' \in [Player -> Hand]
    BY <1>0, <1>3, GotoMoves DEF TakeAway
  <2>2. /\ list' \in Seq(Object) /\ raced' \in BOOLEAN /\ lost' = lost
        /\ fresh' \in [Player -> BOOLEAN] /\ torn' \in [Player -> BOOLEAN]
    BY <1>3, RemovingTypes DEF TakeAway
  <2> QED BY <1>3, <2>1, <2>2 DEF TakeAway, Keeps, body, client, turn, bounds
<1>4. CASE PutNew(p)
  <2>1. /\ hand' \in [Player -> Hand] /\ made' \in Nat /\ AddObject(NewOf(p)) /\ NewOf(p) \in Object
        /\ UNCHANGED <<kind, action, timers, ore, body, client, turn, bounds>>
    BY <1>4, PutNewMoves
  <2>2. /\ list' \in Seq(Object) /\ raced' \in BOOLEAN /\ lost' \subseteq Object
        /\ fresh' \in [Player -> BOOLEAN] /\ torn' \in [Player -> BOOLEAN]
    BY <2>1, AddingTypes
  <2> QED BY <2>1, <2>2 DEF body, client, turn, bounds
<1>5. CASE Teleport(p)
  <2>1. hand' \in [Player -> Hand]
    BY <1>0, <1>5, GotoMoves DEF Teleport
  <2>2. at' \in [Player -> Tile]
    <3>1. Place \in Tile
      BY SceneryAssumption
    <3> QED BY <1>5, <3>1 DEF Teleport, Past, North, Tile
  <2> QED BY <1>5, <2>1, <2>2 DEF Teleport, Keeps, world, client, turn, bounds
<1>6. CASE Schedule(p)
  <2>1. hand[p] \in Hand /\ hand[p].object \in Object
    BY <1>6 DEF Schedule, AtSomething, Hand
  <2>2. Wait(p) \in Timer
    BY <2>1, SceneryAssumption DEF Wait, Timer
  <2>3. hand' \in [Player -> Hand] /\ timers' \subseteq Timer /\ lost' \subseteq Object
    BY <1>6, <2>1, <2>2, LeavesEnds DEF Schedule, Schedules
  <2> QED BY <1>6, <2>3 DEF Schedule, Keeps, body, client, turn, bounds
<1>7. CASE Wakes(p)
  <2>1. hand' \in [Player -> Hand]
    BY <1>0, <1>7, GotoMoves DEF Wakes
  <2> QED BY <1>7, <2>1 DEF Wakes, Keeps, body, world, client, turn, bounds
<1> QED BY <1>1, <1>2, <1>3, <1>4, <1>5, <1>6, <1>7 DEF HandlerOf

(* Timers, and the ticks that pass for them and for goroutines. *)
LEMMA TimerTypes ==
  ASSUME TypeOK, Tasks \/ TimersRun
  PROVE  TypeOK'
<1> USE DEF TypeOK
<1>1. CASE Tasks
  <2>3. hand' \in [Player -> Hand] /\ timers' \subseteq Timer
    BY <1>1, PassedKeeps DEF Tasks
  <2>4. todo' \subseteq Player \X {"packet", "action", "walk", "scan", "news"}
    BY <1>1 DEF Tasks
  <2> QED BY <1>1, <2>3, <2>4 DEF Tasks, body, world, client, bounds
<1>2. ASSUME NEW t \in timers, TimerRemoves(t)
      PROVE  TypeOK'
  <2>1. [t EXCEPT !.at = "add"] \in Timer
    BY DEF Timer
  <2>2. timers' \subseteq Timer
    BY <1>2, <2>1 DEF TimerRemoves
  <2>3. /\ list' \in Seq(Object) /\ raced' \in BOOLEAN /\ lost' \subseteq Object
        /\ fresh' \in [Player -> BOOLEAN] /\ torn' \in [Player -> BOOLEAN]
    BY <1>2, RemovingTypes DEF TimerRemoves
  <2> QED BY <1>2, <2>2, <2>3 DEF TimerRemoves, Keeps, body, client, turn, bounds
<1>3. ASSUME NEW t \in timers, TimerAdds(t)
      PROVE  TypeOK'
  <2>1. t.object \in Object /\ NewObject("whole") \in Object
    BY NewTypes DEF Timer
  <2>2. /\ list' \in Seq(Object) /\ raced' \in BOOLEAN /\ lost' \subseteq Object
        /\ fresh' \in [Player -> BOOLEAN] /\ torn' \in [Player -> BOOLEAN]
    BY <1>3, <2>1, AddingTypes DEF TimerAdds
  <2>3. timers' \subseteq Timer /\ made' \in Nat /\ ore' \in Nat
    BY <1>3 DEF TimerAdds
  <2> QED BY <1>3, <2>2, <2>3 DEF TimerAdds, Keeps, body, client, turn, bounds
<1> QED BY <1>1, <1>2, <1>3 DEF TimersRun

(* The update phase, and the change of phases. *)
LEMMA UpdateTypes ==
  ASSUME TypeOK, NextPhase \/ (\E p \in Player : UpdateOf(p)) \/ UNCHANGED vars
  PROVE  TypeOK'
<1> USE DEF TypeOK
<1>0. Nothing.id = "none" /\ \A o \in Object : o.id \in {"whole", "changed"}
  BY DEF Nothing, Object
<1>1. CASE NextPhase
  BY <1>1 DEF NextPhase, body, world, client, bounds
<1>2. ASSUME NEW p \in Player, Scan(p)
      PROVE  TypeOK'
  <2>1. todo' \subseteq Player \X {"packet", "action", "walk", "scan", "news"} /\ phase' = phase
    BY <1>2 DEF Scan, Then
  <2>2. fresh' \in [Player -> BOOLEAN] /\ torn' \in [Player -> BOOLEAN]
    BY <1>2 DEF Scan
  <2>3. GetObject.id \in {"none", "whole", "changed"}
    BY <1>0, FirstStands
  <2>4. CASE ScanBoundaries(p)
    <3>1. local' \in [Player -> SUBSET Object] /\ shown' \in [Player -> {"none", "whole", "changed"}]
      BY <2>3, <2>4 DEF ScanBoundaries, client
    <3> QED BY <1>2, <2>1, <2>2, <3>1 DEF Scan, body, world, bounds
  <2>5. CASE ScanObjects(p)
    <3>1. local' \in [Player -> SUBSET Object] /\ shown' \in [Player -> {"none", "whole", "changed"}]
      BY <2>5 DEF ScanObjects
    <3> QED BY <1>2, <2>1, <2>2, <3>1 DEF Scan, body, world, bounds
  <2> QED BY <1>2, <2>4, <2>5 DEF Scan
<1>3. ASSUME NEW p \in Player, News(p)
      PROVE  TypeOK'
  <2>1. todo' \subseteq Player \X {"packet", "action", "walk", "scan", "news"} /\ phase' = phase
    BY <1>3 DEF News, Then
  <2>2. \A i \in NewObjects(p) : list[i] \in Object /\ i \in Nat
    BY LenProperties DEF NewObjects
  <2>3. NewObjects(p) # {} => Max(NewObjects(p)) \in NewObjects(p)
    <3>1. NewObjects(p) \in SUBSET (1..Len(list)) /\ Len(list) \in Nat
      BY LenProperties DEF NewObjects
    <3> QED BY <3>1, LastExists
  <2>4. local' \in [Player -> SUBSET Object]
    BY <1>3, <2>2 DEF News
  <2>5. shown' \in [Player -> {"none", "whole", "changed"}]
    BY <1>0, <1>3, <2>2, <2>3 DEF News
  <2> QED BY <1>3, <2>1, <2>4, <2>5 DEF News, body, world, bounds
<1>4. CASE UNCHANGED vars
  BY <1>4 DEF vars, body, world, client, turn, bounds
<1> QED BY <1>1, <1>2, <1>3, <1>4 DEF UpdateOf

LEMMA TypesKept == TypeOK /\ Agenda /\ AtSomething /\ [Next]_vars => TypeOK'
BY PacketTypes, HandlerTypes, TimerTypes, UpdateTypes DEF Next

-----------------------------------------------------------------------------
(* What is next, and what is numbered. *)

LEMMA AgendaKept == TypeOK /\ Agenda /\ [Next]_vars => Agenda'
<1> SUFFICES ASSUME TypeOK, Agenda, [Next]_vars PROVE Agenda' OBVIOUS
<1>1. CASE UNCHANGED <<todo, phase, action, path>>
  BY <1>1 DEF Agenda, Parts
<1>2. ASSUME NEW p \in Player, HandlePacket(p)
      PROVE  Agenda'
  <2>1. /\ phase' = phase /\ phase = "packets" /\ <<p, "packet">> \in todo
        /\ todo' = (todo \ {<<p, "packet">>}) \cup Acts(p)
    BY <1>2 DEF HandlePacket, Turn, First, Then
  <2>2. Acts(p) \subseteq {<<p, "action">>} \/ Acts(p) \subseteq {<<p, "walk">>}
    BY DEF Acts, Walks
  <2>3. /\ <<p, "action">> \in Acts(p) => action'[p] # Nothing
        /\ <<p, "walk">> \in Acts(p) => path'[p] # NoPath
    BY DEF Acts, Walks
  <2>4. \A q \in Player : q # p => action'[q] = action[q] /\ path'[q] = path[q]
    BY <1>2 DEF HandlePacket, Click, Walk, Travel, body, TypeOK
  <2> QED BY <2>1, <2>2, <2>3, <2>4 DEF Agenda, Parts
<1>3. ASSUME NEW p \in Player, TickAction(p)
      PROVE  Agenda'
  <2>1. /\ phase' = phase /\ phase = "packets" /\ <<p, "action">> \in todo
        /\ todo' = (todo \ {<<p, "action">>}) \cup Walks(p)
    BY <1>3 DEF TickAction, Turn, First, Then
  <2>2. Walks(p) \subseteq {<<p, "walk">>} /\ (<<p, "walk">> \in Walks(p) => path'[p] # NoPath)
    BY DEF Walks
  <2>3. \A q \in Player : q # p => action'[q] = action[q] /\ path'[q] = path[q]
    BY <1>3 DEF TickAction, TypeOK
  <2> QED BY <2>1, <2>2, <2>3 DEF Agenda, Parts
<1>4. ASSUME NEW p \in Player, TraversePath(p)
      PROVE  Agenda'
  <2>1. /\ phase' = phase /\ phase = "packets" /\ <<p, "walk">> \in todo
        /\ todo' = todo \ {<<p, "walk">>}
    BY <1>4 DEF TraversePath, Turn, First, Then
  <2>2. action' = action /\ \A q \in Player : q # p => path'[q] = path[q]
    BY <1>4 DEF TraversePath, TypeOK
  <2> QED BY <2>1, <2>2 DEF Agenda, Parts
<1>5. ASSUME NEW p \in Player, UpdateOf(p)
      PROVE  Agenda'
  <2>1. /\ phase' = phase /\ phase = "update" /\ UNCHANGED <<action, path>>
        /\ \/ <<p, "scan">> \in todo /\ todo' = (todo \ {<<p, "scan">>}) \cup {<<p, "news">>}
           \/ <<p, "news">> \in todo /\ todo' = todo \ {<<p, "news">>}
    BY <1>5 DEF UpdateOf, Scan, News, Updating, First, Then, body
  <2> QED BY <2>1 DEF Agenda, Parts
<1>6. CASE NextPhase
  BY <1>6 DEF NextPhase, Agenda, Parts, body
<1>7. CASE Tasks
  BY <1>7 DEF Tasks, Agenda, Parts, body
<1>8. CASE TimersRun
  BY <1>1, <1>8 DEF TimersRun, TimerRemoves, TimerAdds, Keeps, turn, body
<1>9. ASSUME NEW p \in Player, HandlerOf(p) \/ Wakes(p)
      PROVE  Agenda'
  BY <1>1, <1>9 DEF HandlerOf, Stalls, Stalled, TakeAway, PutNew, Teleport, Schedule, Wakes, Keeps, turn, body
<1>10. CASE UNCHANGED vars
  BY <1>1, <1>10 DEF vars, turn, body
<1> QED BY <1>2, <1>3, <1>4, <1>5, <1>6, <1>7, <1>8, <1>9, <1>10 DEF Next, PacketsOf

LEMMA AtSomethingKept == TypeOK /\ Agenda /\ AtSomething /\ [Next]_vars => AtSomething'
<1> SUFFICES ASSUME TypeOK, Agenda, AtSomething, [Next]_vars PROVE AtSomething' OBVIOUS
<1>1. CASE UNCHANGED hand
  BY <1>1 DEF AtSomething
<1>2. ASSUME NEW p \in Player, TickAction(p)
      PROVE  AtSomething'
  <2>1. action[p] # Nothing
    BY <1>2 DEF TickAction, Turn, First, Agenda
  <2>2. Begun(action[p]).object = action[p]
    BY DEF Begun
  <2>3. hand' = hand \/ hand' = [hand EXCEPT ![p] = Begun(action[p])]
    BY <1>2 DEF TickAction
  <2> QED BY <2>1, <2>2, <2>3 DEF AtSomething, TypeOK
<1>3. ASSUME NEW p \in Player, HandlerOf(p) \/ Wakes(p)
      PROVE  AtSomething'
  <2>1. CASE Leaves(p) \/ (hand[p].at # "idle" /\ \E label \in Stages : Goto(p, label))
    BY <2>1, GotoMoves, LeavesEnds DEF AtSomething
  <2>2. CASE Stalls(p)
    BY <2>2, StallsMoves DEF AtSomething
  <2>3. CASE PutNew(p)
    BY <2>3, PutNewMoves, FirstStands DEF AtSomething
  <2>4. CASE Stalled(p) \/ TakeAway(p) \/ Teleport(p) \/ Schedule(p) \/ Wakes(p)
    <3>1. {"awake", "remove", "add", "schedule"} \subseteq Stages
      BY DEF Stages
    <3>2. Leaves(p) \/ (hand[p].at # "idle" /\ \E label \in Stages : Goto(p, label))
      BY <2>4, <3>1 DEF Stalled, TakeAway, Teleport, Schedule, Schedules, Wakes, Sleeps
    <3> QED BY <2>1, <3>2
  <2> QED BY <1>3, <2>2, <2>3, <2>4 DEF HandlerOf
<1>4. CASE Tasks
  <2>1. \A p \in Player : hand'[p].at = hand[p].at /\ hand'[p].object = hand[p].object
    BY <1>4, PassedKeeps DEF Tasks, TypeOK
  <2> QED BY <2>1 DEF AtSomething
<1>5. CASE TimersRun
  BY <1>1, <1>5 DEF TimersRun, TimerRemoves, TimerAdds
<1>6. ASSUME NEW p \in Player, HandlePacket(p) \/ TraversePath(p) \/ UpdateOf(p)
      PROVE  AtSomething'
  BY <1>1, <1>6 DEF HandlePacket, TraversePath, UpdateOf, Scan, News
<1>7. CASE NextPhase \/ UNCHANGED vars
  BY <1>1, <1>7 DEF NextPhase, vars
<1> QED BY <1>2, <1>3, <1>4, <1>5, <1>6, <1>7 DEF Next, PacketsOf

LEMMA RemovingSerials ==
  ASSUME TypeOK, Serials, NEW o, RemoveObject(o), UNCHANGED <<kind, made, local>>
  PROVE  Serials'
<1>1. list' = RemoveFirst(list, o) /\ list \in Seq(Object)
  BY RemovingTypes DEF TypeOK
<1>2. Standing' \subseteq Standing
  BY <1>1, RemovedList DEF Standing
<1>3. kind # "web" => \A i, j \in 1..Len(list') : list'[i] = list'[j] => i = j
  BY <1>1, RemovedList DEF Serials
<1> QED BY <1>2, <1>3 DEF Serials

LEMMA AddingSerials ==
  ASSUME TypeOK, Serials, NEW o \in Object, AddObject(o), UNCHANGED <<kind, local>>,
         o.serial = made + 1, made' = made + 1
  PROVE  Serials'
<1> SUFFICES ASSUME kind # "web" PROVE Serials' BY DEF Serials
<1>1. list' = Append(list, o) /\ list \in Seq(Object) /\ made \in Nat
  BY AddingTypes DEF TypeOK
<1>2. Standing' = Standing \cup {o}
  BY <1>1, AddedList DEF Standing
<1>3. \A x \in Standing : x.serial \in 1..made /\ x # o
  BY <1>1 DEF Serials
<1>4. \A x : x.serial \in 1..made => x.serial \in 1..made'
  BY <1>1
<1>5. o.serial \in 1..made'
  BY <1>1
<1>6. \A x \in Standing' : x.serial \in 1..made'
  BY <1>2, <1>3, <1>4, <1>5
<1>7. \A p \in Player : \A x \in local'[p] : x.serial \in 1..made'
  BY <1>4 DEF Serials
<1>8. ASSUME NEW i \in 1..Len(list'), NEW j \in 1..Len(list'), list'[i] = list'[j]
      PROVE  i = j
  <2>1. \A k \in 1..Len(list) : list[k] \in Standing
    BY FirstStands
  <2>2. \A k \in 1..Len(list') : \/ k \in 1..Len(list) /\ list'[k] = list[k]
                                 \/ k = Len(list) + 1 /\ list'[k] = o
    BY <1>1, AddedList
  <2> QED BY <1>3, <1>8, <2>1, <2>2 DEF Serials
<1> QED BY <1>6, <1>7, <1>8 DEF Serials

LEMMA SerialsKept == TypeOK /\ Serials /\ [Next]_vars => Serials'
<1> SUFFICES ASSUME TypeOK, Serials, [Next]_vars PROVE Serials' OBVIOUS
<1>1. CASE UNCHANGED <<kind, list, made, local>>
  BY <1>1 DEF Serials, Standing
<1>2. ASSUME NEW p \in Player,
             Stalls(p) \/ Stalled(p) \/ Teleport(p) \/ Schedule(p) \/ Wakes(p) \/ PacketsOf(p)
      PROVE  Serials'
  BY <1>1, <1>2 DEF Stalls, Stalled, Teleport, Schedule, Wakes, PacketsOf, HandlePacket, TickAction,
                    TraversePath, Keeps, world, client
<1>3. ASSUME NEW p \in Player, TakeAway(p)
      PROVE  Serials'
  BY <1>3, RemovingSerials DEF TakeAway, Keeps, client
<1>4. ASSUME NEW p \in Player, PutNew(p)
      PROVE  Serials'
  BY <1>4, PutNewMoves, AddingSerials DEF client
<1>5. ASSUME NEW t \in timers, TimerRemoves(t)
      PROVE  Serials'
  <2>1. CASE kind = "web"
    BY <1>5, <2>1 DEF TimerRemoves, Keeps, Serials
  <2>2. CASE kind # "web"
    BY <1>5, <2>2, RemovingSerials DEF TimerRemoves, Keeps, client
  <2> QED BY <2>1, <2>2
<1>6. ASSUME NEW t \in timers, TimerAdds(t)
      PROVE  Serials'
  <2>1. CASE kind = "web"
    BY <1>6, <2>1 DEF TimerAdds, Keeps, Serials
  <2>2. CASE kind # "web"
    BY <1>6, <2>2, NewTypes, AddingSerials DEF TimerAdds, Keeps, client
  <2> QED BY <2>1, <2>2
<1>7. ASSUME NEW p \in Player, UpdateOf(p)
      PROVE  Serials'
  <2>1. UNCHANGED <<kind, list, made>>
    BY <1>7 DEF UpdateOf, Scan, News, world
  <2>2. \A q \in Player : local'[q] \subseteq local[q] \cup Standing
    <3>1. CASE Scan(p)
      BY <3>1 DEF Scan, ScanObjects, ScanBoundaries, client, TypeOK
    <3>2. CASE News(p)
      <4>1. {list[i] : i \in NewObjects(p)} \subseteq Standing
        BY FirstStands DEF NewObjects
      <4> QED BY <3>2, <4>1 DEF News, TypeOK
    <3> QED BY <1>7, <3>1, <3>2 DEF UpdateOf
  <2> QED BY <2>1, <2>2 DEF Serials, Standing
<1>8. CASE NextPhase \/ Tasks \/ UNCHANGED vars
  BY <1>1, <1>8 DEF NextPhase, Tasks, vars, world, client
<1> QED BY <1>2, <1>3, <1>4, <1>5, <1>6, <1>7, <1>8 DEF Next, TimersRun, HandlerOf

-----------------------------------------------------------------------------
(* One object at a time. *)

(* What AddObject marks for an object RemoveObject takes away, its guards being
   other ones. *)
LEMMA ClearsAll ==
  ASSUME NEW id
  PROVE  Marks(Scene, Def(id)) \subseteq Clears(Scene, Def(id))
<1>1. CASE Scene.boundary \/ Def(id).clip # "shut"
  BY <1>1 DEF Clears
<1>2. CASE ~Scene.boundary /\ Def(id).clip = "shut"
  <2>1. kind = "gate"
    BY <1>2 DEF Scene, Boundary, Def, Clip
  <2>2. Scene.direction = 2
    BY <2>1 DEF Scene, Direction
  <2>3. \A t : GateClears(t, 2) = GateMarks(t, 2)
    BY DEF GateClears
  <2>4. Marks(Scene, Def(id)) = UNION {GateMarks(t, 2) : t \in Covered(Scene, Def(id))}
    BY <1>2, <2>2 DEF Marks, Passable
  <2>5. Clears(Scene, Def(id)) = UNION {GateClears(t, 2) : t \in Covered(Scene, Def(id))}
    BY <1>2, <2>2 DEF Clears
  <2> QED BY <2>3, <2>4, <2>5
<1> QED BY <1>1, <1>2

(* Removing the object that stands leaves nothing, and no marks; ... *)
LEMMA RemovingOne ==
  ASSUME TypeOK, OneAtATime, NEW o, RemoveObject(o), ~raced'
  PROVE  /\ ~raced /\ list' = <<>> /\ clips' = {}
         /\ \A p \in Player : ~Adding(p)
         /\ \A t \in timers : ~Pending(t)
<1>1. ~raced /\ o \in Standing
  BY DEF RemoveObject
<1>2. list # <<>> /\ Len(list) = 1 /\ o = list[1]
  <2>1. Len(list) <= 1
    BY <1>1 DEF OneAtATime
  <2>2. /\ Len(list) \in Nat /\ Standing \subseteq {GetObject} /\ list # <<>>
        /\ GetObject = list[1] /\ (list = <<>> <=> Len(list) = 0)
    BY <1>1, <2>1, FirstStands
  <2>3. o = GetObject
    BY <1>1, <2>2
  <2>4. Len(list) # 0
    BY <2>2
  <2>5. \A n \in Nat : n <= 1 /\ n # 0 => n = 1
    OBVIOUS
  <2> HIDE DEF GetObject
  <2>6. Len(list) = 1
    BY <2>1, <2>2, <2>4, <2>5
  <2> QED BY <2>2, <2>3, <2>6
<1>3. list' = RemoveFirst(list, o) /\ list' \in Seq(Object) /\ list \in Seq(Object)
  BY RemovingTypes DEF TypeOK
<1>4. Len(list') = Len(list) - 1
  <2> DEFINE old == list new == list'
  <2>1. old \in Seq(Object) /\ new = RemoveFirst(old, o) /\ o \in ToSet(old)
    BY <1>1, <1>3 DEF Standing
  <2> HIDE DEF old, new
  <2>2. Len(new) = Len(old) - 1
    BY <2>1, RemovedList
  <2> QED BY <2>2 DEF old, new
<1>5. list' = <<>>
  BY <1>2, <1>3, <1>4, EmptySeq
<1>6. clips' = {}
  BY <1>1, <1>2, ClearsAll DEF RemoveObject, OneAtATime
<1> QED BY <1>1, <1>2, <1>5, <1>6 DEF OneAtATime

(* ... and what is put where nothing stands is all there is. *)
LEMMA AddingOne ==
  ASSUME TypeOK, OneAtATime, NEW o \in Object, AddObject(o), ~raced', kind' = kind,
         (\E p \in Player : Adding(p)) \/ (\E t \in timers : Pending(t))
  PROVE  /\ ~raced /\ list' # <<>> /\ Len(list') = 1
         /\ clips' = Marks(Scene', Def(list[1].id)')
<1>1. ~raced
  BY DEF AddObject
<1>2. list = <<>> /\ clips = {}
  BY <1>1 DEF OneAtATime
<1>3. list' = Append(list, o) /\ list \in Seq(Object)
  BY AddingTypes DEF TypeOK
<1>4. Len(list) = 0
  BY <1>2, FirstStands
<1>5. list' # <<>> /\ Len(list') = 1 /\ list'[1] = o
  BY <1>3, <1>4, AddedList
<1>6. Scene' = Scene /\ Def(o.id)' = Def(o.id)
  BY DEF Scene, Boundary, Direction, Def, Clip
<1>7. Def(list[1].id)' = Def(o.id)'
  BY <1>5 DEF Def, Clip
<1>8. clips' = Marks(Scene, Def(o.id))
  BY <1>2 DEF AddObject
<1> QED BY <1>1, <1>5, <1>6, <1>7, <1>8

LEMMA SameOne ==
  ASSUME OneAtATime, UNCHANGED <<kind, list, clips, raced>>,
         \A p \in Player : Adding(p)' <=> Adding(p),
         \/ timers' = timers
         \/ timers' = {Passed(t) : t \in timers} /\ timers \subseteq Timer
  PROVE  OneAtATime'
<1>1. /\ \A t \in timers' : Pending(t)' <=> Pending(t)
      /\ \A t \in timers' : \E u \in timers :
           (t = u \/ t = Passed(u)) /\ (Pending(t) <=> Pending(u))
  BY PassedKeeps DEF Pending
<1>2. \A t, u \in timers' : Pending(t)' /\ Pending(u)' => t = u \/ raced
  <2>1. CASE timers' = timers
    BY <1>1, <2>1 DEF OneAtATime
  <2>2. CASE timers' = {Passed(t) : t \in timers} /\ timers \subseteq Timer
    <3>1. \A t \in timers' : \E u \in timers : t = Passed(u) /\ (Pending(t) <=> Pending(u))
      BY <2>2, PassedKeeps DEF Pending
    <3> QED BY <1>1, <3>1 DEF OneAtATime
  <2> QED BY <2>1, <2>2
<1>3. ~raced /\ list # <<>> => \A t \in timers' : ~Pending(t)'
  BY <1>1 DEF OneAtATime
<1>4. ~raced => \A p \in Player, t \in timers' : ~(Adding(p)' /\ Pending(t)')
  BY <1>1 DEF OneAtATime
<1>5. Scene' = Scene /\ \A id : Def(id)' = Def(id)
  BY DEF Scene, Boundary, Direction, Def, Clip
<1>6. ~raced => clips' = IF list' = <<>> THEN {} ELSE Marks(Scene', Def(list[1].id)')
  BY <1>5 DEF OneAtATime
<1> QED BY <1>2, <1>3, <1>4, <1>6 DEF OneAtATime

(* The steps of a goroutine that leave the place and the timers alone. *)
Stays(p) == Stalls(p) \/ Stalled(p) \/ Teleport(p) \/ Wakes(p)
LEMMA StaysMoves ==
  ASSUME TypeOK, NEW p \in Player, Stays(p)
  PROVE  /\ UNCHANGED <<kind, list, clips, raced, lost, timers, action>>
         /\ hand[p].at \notin {"add", "schedule"}
         /\ \/ hand'[p].at \in {"idle", "stuck", "stall", "awake", "remove"} /\ hand[p].at # "teleport"
            \/ /\ hand[p].at = "teleport" /\ hand'[p].at = "schedule"
               /\ hand'[p].object = hand[p].object
         /\ hand'[p] = Idle \/ hand'[p].object = hand[p].object
         /\ \A q \in Player : q # p => hand'[q] = hand[q]
<1>0. {"awake", "remove", "schedule"} \subseteq Stages
  BY DEF Stages
<1>1. CASE Stalls(p)
  BY <1>1, StallsMoves DEF Stalls, Keeps, world
<1>2. CASE Stalled(p)
  BY <1>0, <1>2, GotoMoves, LeavesEnds DEF Stalled, Keeps, world
<1>3. CASE Teleport(p)
  BY <1>0, <1>3, GotoMoves DEF Teleport, Keeps, world
<1>4. CASE Wakes(p)
  BY <1>0, <1>4, GotoMoves DEF Wakes, Sleeps, Keeps, world
<1> QED BY <1>1, <1>2, <1>3, <1>4 DEF Stays

LEMMA OneAtATimeKept == TypeOK /\ OneAtATime /\ UsedUp /\ [Next]_vars => OneAtATime'
<1> SUFFICES ASSUME TypeOK, OneAtATime, UsedUp, [Next]_vars PROVE OneAtATime' OBVIOUS
<1>1. CASE UNCHANGED <<kind, list, clips, raced, hand, timers>>
  BY <1>1, SameOne DEF Adding
<1>2. ASSUME NEW p \in Player, TickAction(p) \/ Stays(p)
      PROVE  OneAtATime'
  <2>1. UNCHANGED <<kind, list, clips, raced, timers>>
    BY <1>2 DEF TickAction, Stays, Stalls, Stalled, Teleport, Wakes, Keeps, world
  <2>2. \A q \in Player : Adding(q)' <=> Adding(q)
    <3>1. CASE TickAction(p)
      <4>1. hand' = hand \/ (hand[p] = Idle /\ hand' = [hand EXCEPT ![p] = Begun(action[p])])
        BY <3>1 DEF TickAction
      <4>2. Begun(action[p]).at \notin {"add", "schedule"} /\ Idle.at \notin {"add", "schedule"}
        BY DEF Begun, Idle
      <4>3. kind' = kind
        BY <2>1
      <4> QED BY <4>1, <4>2, <4>3 DEF Adding, TypeOK
    <3>2. CASE Stays(p)
      BY <2>1, <3>2, StaysMoves DEF Adding, UsedUp
    <3> QED BY <1>2, <3>1, <3>2
  <2> QED BY <2>1, <2>2, SameOne
<1>3. CASE Tasks
  <2>1. \A q \in Player : Adding(q)' <=> Adding(q)
    BY <1>3, PassedKeeps DEF Tasks, Adding, TypeOK
  <2> QED BY <1>3, <2>1, SameOne DEF Tasks, world, TypeOK
<1>4. ASSUME NEW p \in Player, TakeAway(p), ~raced'
      PROVE  OneAtATime'
  <2>1. RemoveObject(hand[p].object) /\ kind' = kind
    BY <1>4 DEF TakeAway, Keeps
  <2>2. /\ ~raced /\ list' = <<>> /\ clips' = {}
        /\ \A q \in Player : ~Adding(q)
        /\ \A t \in timers : ~Pending(t)
    BY <1>4, <2>1, RemovingOne
  <2>3. Len(list') <= 1
    BY <2>2, EmptySeq
  <2>4. Adding(p)' /\ timers' = timers /\ \A q \in Player : q # p => hand'[q] = hand[q]
    <3>1. {"add", "schedule"} \subseteq Stages
      BY DEF Stages
    <3> QED BY <1>4, <2>1, <3>1, GotoMoves DEF TakeAway, Adding
  <2>5. \A q \in Player : Adding(q)' <=> q = p
    BY <2>1, <2>2, <2>4 DEF Adding
  <2>6. \A t \in timers' : ~Pending(t)'
    BY <2>1, <2>2, <2>4 DEF Pending
  <2> QED BY <2>2, <2>3, <2>5, <2>6 DEF OneAtATime
<1>5. ASSUME NEW p \in Player, PutNew(p), ~raced'
      PROVE  OneAtATime'
  <2>1. /\ AddObject(NewOf(p)) /\ NewOf(p) \in Object /\ kind' = kind /\ timers' = timers /\ Adding(p)
        /\ hand'[p].at # "add" /\ (kind = "web" => hand'[p].at # "schedule")
        /\ \A q \in Player : q # p => hand'[q] = hand[q]
    BY <1>5, PutNewMoves DEF Adding, Returns
  <2>2. ~raced /\ list' # <<>> /\ Len(list') = 1 /\ clips' = Marks(Scene', Def(list[1].id)')
    BY <1>5, <2>1, AddingOne
  <2>3. \A q \in Player : ~Adding(q)'
    BY <2>1, <2>2 DEF OneAtATime, Adding
  <2>4. \A t \in timers' : ~Pending(t)'
    BY <2>1, <2>2 DEF OneAtATime, Pending
  <2> QED BY <2>2, <2>3, <2>4 DEF OneAtATime
<1>11. ASSUME NEW p \in Player, Schedule(p), ~raced'
      PROVE  OneAtATime'
  <2>1. /\ UNCHANGED <<kind, list, clips, raced>> /\ hand[p].at = "schedule"
        /\ timers' = timers \/ timers' = timers \cup {Wait(p)}
    BY <1>11 DEF Schedule, Schedules, Keeps
  <2>2. hand'[p].at = "idle" /\ \A q \in Player : q # p => hand'[q] = hand[q]
    BY <1>11, LeavesEnds DEF Schedule, Schedules
  <2>3. Scene' = Scene /\ (\A id : Def(id)' = Def(id)) /\ ~raced
    BY <1>11, <2>1 DEF Scene, Boundary, Direction, Def, Clip
  <2>4. Wait(p).at = "wait"
    BY DEF Wait
  <2>5. CASE kind = "web"
    <3>1. Adding(p) /\ list = <<>> /\ timers = {}
      BY <2>1, <2>3, <2>5 DEF OneAtATime, Adding, Pending
    <3>2. \A q \in Player : ~Adding(q)'
      BY <2>1, <2>2, <2>3, <2>5, <3>1 DEF OneAtATime, Adding
    <3>3. \A t, u \in timers' : t = u
      BY <2>1, <3>1
    <3> QED BY <2>1, <2>3, <3>1, <3>2, <3>3 DEF OneAtATime
  <2>6. CASE kind # "web"
    <3>1. \A q \in Player : Adding(q)' <=> Adding(q)
      BY <2>1, <2>2, <2>6 DEF Adding
    <3>2. \A t \in timers' : Pending(t)' => t \in timers /\ Pending(t)
      BY <2>1, <2>4, <2>6 DEF Pending
    <3> QED BY <2>1, <2>3, <3>1, <3>2 DEF OneAtATime
  <2> QED BY <2>5, <2>6
<1>6. ASSUME NEW t \in timers, TimerRemoves(t), ~raced'
      PROVE  OneAtATime'
  <2> DEFINE u == [t EXCEPT !.at = "add"]
  <2>1. kind' = kind /\ hand' = hand /\ timers' = (timers \ {t}) \cup {u}
    BY <1>6 DEF TimerRemoves, Keeps
  <2> HIDE DEF u
  <2>2. CASE kind = "web"
    <3>1. UNCHANGED <<list, clips, raced>>
      BY <1>6, <2>2 DEF TimerRemoves
    <3>2. \A x \in timers : x = t
      BY <1>6, <2>2, <3>1 DEF OneAtATime, Pending
    <3>3. timers' = {u}
      BY <2>1, <3>2
    <3>4. list' = <<>> /\ clips' = {} /\ \A p \in Player : ~Adding(p)'
      BY <1>6, <2>1, <2>2, <3>1 DEF OneAtATime, Pending, Adding
    <3>5. Len(list') <= 1
      BY <3>4, EmptySeq
    <3> QED BY <3>3, <3>4, <3>5 DEF OneAtATime
  <2>3. CASE kind # "web"
    <3>1. RemoveObject(t.object)
      BY <1>6, <2>3 DEF TimerRemoves
    <3>2. /\ ~raced /\ list' = <<>> /\ clips' = {}
          /\ \A q \in Player : ~Adding(q)
          /\ \A x \in timers : ~Pending(x)
      BY <1>6, <3>1, RemovingOne
    <3>3. \A q \in Player : ~Adding(q)'
      BY <2>1, <3>2 DEF Adding
    <3>4. \A x \in timers' : Pending(x)' => x = u
      BY <2>1, <3>2 DEF Pending
    <3>5. Len(list') <= 1
      BY <3>2, EmptySeq
    <3> QED BY <3>2, <3>3, <3>4, <3>5 DEF OneAtATime
  <2> QED BY <2>2, <2>3
<1>7. ASSUME NEW t \in timers, TimerAdds(t), ~raced'
      PROVE  OneAtATime'
  <2>1. \E o \in Object : AddObject(o)
    BY <1>7, NewTypes DEF TimerAdds, TypeOK, Timer
  <2>2. kind' = kind /\ hand' = hand /\ timers' = timers \ {t} /\ Pending(t)
    BY <1>7 DEF TimerAdds, Keeps, Pending
  <2>3. ~raced /\ list' # <<>> /\ Len(list') = 1 /\ clips' = Marks(Scene', Def(list[1].id)')
    BY <1>7, <2>1, <2>2, AddingOne
  <2>4. \A q \in Player : ~Adding(q)'
    BY <2>2, <2>3 DEF OneAtATime, Adding
  <2>5. \A x \in timers' : ~Pending(x)'
    BY <2>2, <2>3 DEF OneAtATime, Pending
  <2> QED BY <2>3, <2>4, <2>5 DEF OneAtATime
<1>8. ASSUME NEW p \in Player, HandlePacket(p) \/ TraversePath(p) \/ UpdateOf(p)
      PROVE  OneAtATime'
  BY <1>1, <1>8 DEF HandlePacket, TraversePath, UpdateOf, Scan, News, world
<1>9. CASE NextPhase \/ UNCHANGED vars
  BY <1>1, <1>9 DEF NextPhase, vars, world
<1>10. CASE raced'
  BY <1>10 DEF OneAtATime
<1> QED BY <1>2, <1>3, <1>4, <1>5, <1>6, <1>7, <1>8, <1>9, <1>10, <1>11
       DEF Next, PacketsOf, HandlerOf, Stays, TimersRun

-----------------------------------------------------------------------------
(* What is used up comes back. *)

LEMMA KindKept == [Next]_vars => kind' = kind
<1>1. ASSUME NEW p \in Player, PacketsOf(p) PROVE kind' = kind
  BY <1>1 DEF PacketsOf, HandlePacket, TickAction, TraversePath
<1>2. ASSUME NEW p \in Player, HandlerOf(p) \/ Wakes(p) PROVE kind' = kind
  BY <1>2 DEF HandlerOf, Stalls, Stalled, TakeAway, PutNew, Teleport, Schedule, Wakes, Keeps
<1>3. ASSUME NEW p \in Player, UpdateOf(p) PROVE kind' = kind
  BY <1>3 DEF UpdateOf, Scan, News
<1>4. CASE TimersRun
  BY <1>4 DEF TimersRun, TimerRemoves, TimerAdds, Keeps
<1>5. CASE NextPhase \/ Tasks \/ UNCHANGED vars
  BY <1>5 DEF NextPhase, Tasks, vars
<1> QED BY <1>1, <1>2, <1>3, <1>4, <1>5 DEF Next

WholeFor(p) == action[p].id # "changed" /\ (hand[p].object.id = "changed" => Replaced(p))
LEMMA WholeWholes ==
  ASSUME kind' = kind, kind \in {"rock", "locked", "web"} => \A p \in Player : WholeFor(p)'
  PROVE  Wholes'
BY DEF Wholes, WholeFor, Replaced

LEMMA WholesKept ==
  TypeOK /\ Wholes /\ [Next]_vars => Wholes'
<1> SUFFICES ASSUME TypeOK, Wholes, [Next]_vars, kind \in {"rock", "locked", "web"}
             PROVE  \A p \in Player : WholeFor(p)'
  <2> QED BY KindKept, WholeWholes
<1> USE DEF WholeFor
<1>0. Nothing.id = "none"
  BY DEF Nothing
<1>k. kind' = kind
  BY KindKept
<1>1. CASE UNCHANGED <<action, hand>>
  BY <1>1, <1>k DEF Wholes, Replaced
<1>2. ASSUME NEW p \in Player, HandlePacket(p)
      PROVE  \A q \in Player : WholeFor(q)'
  <2>1. hand' = hand
    BY <1>2 DEF HandlePacket
  <2>2. CASE Click(p)
    <3>1. GetObject.id # "changed" /\ action' = [action EXCEPT ![p] = GetObject]
      BY <2>2 DEF Click, Usable
    <3> QED BY <1>k, <2>1, <3>1 DEF Wholes, Replaced, TypeOK
  <2>3. CASE ~Click(p)
    <3>1. action' = action \/ action' = [action EXCEPT ![p] = Nothing]
      BY <1>2, <2>3 DEF HandlePacket, Walk, Travel
    <3> QED BY <1>0, <1>k, <2>1, <3>1 DEF Wholes, Replaced, TypeOK
  <2> QED BY <2>2, <2>3
<1>3. ASSUME NEW p \in Player, TickAction(p)
      PROVE  \A q \in Player : WholeFor(q)'
  <2>1. action' = action \/ action' = [action EXCEPT ![p] = Nothing]
    BY <1>3 DEF TickAction
  <2>2. hand' = hand \/ (hand[p] = Idle /\ hand' = [hand EXCEPT ![p] = Begun(action[p])])
    BY <1>3 DEF TickAction
  <2>3. Begun(action[p]).object = action[p]
    BY DEF Begun
  <2>4. \A q \in Player : action'[q].id # "changed"
    BY <1>0, <2>1 DEF Wholes, TypeOK
  <2>5. \A q \in Player : hand'[q].object.id = "changed" => Replaced(q)'
    BY <1>k, <2>2, <2>3 DEF Wholes, Replaced, TypeOK
  <2> QED BY <2>4, <2>5
<1>4. ASSUME NEW p \in Player, HandlerOf(p) \/ Wakes(p)
      PROVE  \A q \in Player : WholeFor(q)'
  <2>1. action' = action
    BY <1>4 DEF HandlerOf, Stalls, Stalled, TakeAway, PutNew, Teleport, Schedule, Wakes, Keeps
  <2>2. CASE Stays(p)
    BY <1>0, <1>k, <2>1, <2>2, StaysMoves DEF Wholes, Replaced, Idle
  <2>3. CASE TakeAway(p)
    <3>1. {"add", "schedule"} \subseteq Stages /\ hand[p].at = "remove"
      BY <2>3 DEF Stages, TakeAway
    <3> QED BY <1>k, <2>1, <2>3, <3>1, GotoMoves DEF TakeAway, Wholes, Replaced
  <2>4. CASE PutNew(p)
    BY <1>0, <1>k, <2>1, <2>4, PutNewMoves DEF Wholes, Replaced, Returns
  <2>5. CASE Schedule(p)
    BY <1>0, <1>k, <2>1, <2>5, LeavesEnds DEF Schedule, Schedules, Wholes, Replaced
  <2> QED BY <1>4, <2>2, <2>3, <2>4, <2>5 DEF HandlerOf, Stays
<1>5. CASE Tasks
  BY <1>5, <1>k, PassedKeeps DEF Tasks, Wholes, Replaced, TypeOK
<1>6. CASE TimersRun
  BY <1>1, <1>6 DEF TimersRun, TimerRemoves, TimerAdds, Keeps
<1>7. ASSUME NEW p \in Player, TraversePath(p) \/ UpdateOf(p)
      PROVE  \A q \in Player : WholeFor(q)'
  BY <1>1, <1>7 DEF TraversePath, UpdateOf, Scan, News
<1>8. CASE NextPhase \/ UNCHANGED vars
  BY <1>1, <1>8 DEF NextPhase, vars
<1> QED BY <1>2, <1>3, <1>4, <1>5, <1>6, <1>7, <1>8 DEF Next, PacketsOf

LEMMA SameUsed ==
  ASSUME UsedUp, UNCHANGED <<kind, list, lost>>,
         \A p \in Player : hand'[p].at = hand[p].at /\ hand'[p].object = hand[p].object,
         \A t \in timers : \E u \in timers' :
           (Pending(t) => Pending(u)') /\ u.at = t.at /\ u.object = t.object,
         \A u \in timers' : \E t \in timers : u.object = t.object
  PROVE  UsedUp'
<1>1. Standing' = Standing /\ \A p \in Player : Adding(p)' <=> Adding(p)
  BY DEF Standing, Adding
<1>2. \A o : (Timed(o) => Timed(o)') /\ (Held(o) => Held(o)')
  BY DEF Timed, Held
<1> QED BY <1>1, <1>2 DEF UsedUp

LEMMA UsedUpKept == TypeOK /\ AtSomething /\ Serials /\ Wholes /\ UsedUp /\ [Next]_vars => UsedUp'
<1> SUFFICES ASSUME TypeOK, AtSomething, Serials, Wholes, UsedUp, [Next]_vars PROVE UsedUp' OBVIOUS
<1>1. CASE UNCHANGED <<kind, list, lost, hand, timers>>
  BY <1>1, SameUsed DEF Pending
<1>2. ASSUME NEW p \in Player, TickAction(p) \/ Stays(p)
      PROVE  UsedUp'
  <2>1. UNCHANGED <<kind, list, lost, timers>>
    BY <1>2, StaysMoves DEF TickAction, world
  <2>2. /\ \A q \in Player : q # p => hand'[q] = hand[q]
        /\ hand'[p] # hand[p] => hand[p].at \notin {"add", "schedule"}
        /\ hand[p].at = "teleport" => /\ hand'[p].at \in {"teleport", "schedule"}
                                      /\ hand'[p].object = hand[p].object
        /\ hand'[p].at \in {"add", "teleport"} => hand'[p] = hand[p]
    <3>1. CASE TickAction(p)
      <4>1. hand' = hand \/ (hand[p] = Idle /\ hand' = [hand EXCEPT ![p] = Begun(action[p])])
        BY <3>1 DEF TickAction
      <4>2. /\ Begun(action[p]).at \notin {"add", "teleport"}
            /\ Idle.at \notin {"add", "teleport", "schedule"}
        BY DEF Begun, Idle
      <4> QED BY <4>1, <4>2 DEF TypeOK
    <3>2. CASE Stays(p)
      BY <3>2, StaysMoves DEF Idle
    <3> QED BY <1>2, <3>1, <3>2
  <2>3. \A q \in Player : Adding(q) => Adding(q)'
    BY <2>1, <2>2 DEF Adding
  <2>4. \A o : (Timed(o) => Timed(o)') /\ (Held(o) => Held(o)')
    BY <2>1, <2>2 DEF Timed, Held
  <2>5. \A t \in timers : Pending(t) => Pending(t)'
    BY <2>1 DEF Pending
  <2>6. kind = "web" => \A q \in Player : hand'[q].at \notin {"add", "teleport"}
    BY <2>2 DEF UsedUp
  <2>7. Standing' = Standing
    BY <2>1 DEF Standing
  <2> QED BY <2>1, <2>3, <2>4, <2>5, <2>6, <2>7 DEF UsedUp
<1>3. CASE Tasks
  <2>1. \A q \in Player : hand'[q].at = hand[q].at /\ hand'[q].object = hand[q].object
    BY <1>3, PassedKeeps DEF Tasks, TypeOK
  <2>2. UNCHANGED <<kind, list, lost>> /\ timers' = {Passed(t) : t \in timers}
    BY <1>3 DEF Tasks, world
  <2>3. \A t \in timers : /\ Passed(t) \in timers'
                          /\ Passed(t).at = t.at /\ Passed(t).object = t.object
    BY <2>2, PassedKeeps DEF TypeOK
  <2>4. \A t \in timers : \E u \in timers' :
           (Pending(t) => Pending(u)') /\ u.at = t.at /\ u.object = t.object
    BY <2>2, <2>3 DEF Pending
  <2>5. \A u \in timers' : \E t \in timers : u.object = t.object
    BY <2>2, <2>3
  <2> QED BY <2>1, <2>2, <2>4, <2>5, SameUsed
<1>4. ASSUME NEW p \in Player, TakeAway(p)
      PROVE  UsedUp'
  <2>1. /\ RemoveObject(hand[p].object) /\ kind' = kind /\ hand[p].at = "remove"
        /\ timers' = timers /\ Goto(p, IF kind = "web" THEN "schedule" ELSE "add")
    BY <1>4 DEF TakeAway, Keeps
  <2>2. Standing' \subseteq Standing /\ lost' = lost
    BY <2>1, RemovingTypes, RemovedList DEF Standing, TypeOK
  <2>3. {"add", "schedule"} \subseteq Stages
    BY DEF Stages
  <2>4. /\ Adding(p)' /\ hand'[p].at = IF kind = "web" THEN "schedule" ELSE "add"
        /\ \A q \in Player : q # p => hand'[q] = hand[q]
    BY <2>1, <2>3, GotoMoves DEF Adding
  <2>5. \A o : (Timed(o) => Timed(o)') /\ (Held(o) => Held(o)')
    BY <2>1, <2>4 DEF Timed, Held
  <2> QED BY <2>1, <2>2, <2>4, <2>5 DEF UsedUp
<1>5. ASSUME NEW p \in Player, PutNew(p)
      PROVE  UsedUp'
  <2>1. PICK o : o = NewOf(p)
    OBVIOUS
  <2>2. /\ AddObject(o) /\ o \in Object /\ kind' = kind /\ timers' = timers
        /\ hand[p].at = "add" /\ \A q \in Player : q # p => hand'[q] = hand[q]
        /\ Returns => hand'[p].at \in {"teleport", "schedule"} /\ hand'[p].object = o
    BY <1>5, <2>1, PutNewMoves
  <2>3. /\ list' # <<>> /\ Standing' = Standing \cup {o}
        /\ \A x \in Standing : x \in lost => x \in lost' \/ x = o
    BY <2>2, AddingMore
  <2>4. kind # "web"
    BY <2>2 DEF UsedUp
  <2>5. \A x : (Timed(x) => Timed(x)') /\ (Held(x) => Held(x)')
    BY <2>2 DEF Timed, Held
  <2>6. Returns => Held(o)'
    BY <2>2 DEF Held
  <2> QED BY <2>2, <2>3, <2>4, <2>5, <2>6 DEF UsedUp, Returns
<1>10. ASSUME NEW p \in Player, Schedule(p)
       PROVE  UsedUp'
  <2>1. /\ UNCHANGED <<kind, list>> /\ hand[p].at = "schedule" /\ lost \subseteq lost'
        /\ \/ Wait(p) \in timers' \/ hand[p].object \in lost'
        /\ timers \subseteq timers' /\ timers' \subseteq timers \cup {Wait(p)}
    BY <1>10 DEF Schedule, Schedules, Keeps
  <2>2. hand'[p].at = "idle" /\ \A q \in Player : q # p => hand'[q] = hand[q]
    BY <1>10, LeavesEnds DEF Schedule, Schedules
  <2>3. Wait(p).at = "wait" /\ Wait(p).object = hand[p].object
    BY DEF Wait
  <2>4. \A o : Timed(o) \/ Held(o) => Timed(o)' \/ Held(o)' \/ o \in lost'
    BY <2>1, <2>2, <2>3 DEF Timed, Held
  <2>5. Standing' = Standing
    BY <2>1 DEF Standing
  <2>6. CASE kind = "web"
    <3>1. hand[p].object.id = "whole"
      BY <2>1, <2>6 DEF AtSomething, Wholes, Replaced, TypeOK, Hand, Object
    <3>2. timers' # {} \/ lost' # {}
      BY <2>1
    <3>3. \A t \in timers' : Pending(t)' /\ t.object.id = "whole"
      BY <2>1, <2>3, <2>6, <3>1 DEF Pending, UsedUp
    <3> QED BY <2>1, <2>2, <2>5, <2>6, <3>2, <3>3 DEF UsedUp
  <2>7. CASE kind # "web"
    <3>1. \A q \in Player : Adding(q) => Adding(q)'
      BY <2>1, <2>2, <2>7 DEF Adding
    <3>2. \A t \in timers : Pending(t) => Pending(t)'
      BY <2>1 DEF Pending
    <3> QED BY <2>1, <2>4, <2>5, <2>7, <3>1, <3>2 DEF UsedUp
  <2> QED BY <2>6, <2>7
<1>6. ASSUME NEW t \in timers, TimerRemoves(t)
      PROVE  UsedUp'
  <2> DEFINE u == [t EXCEPT !.at = "add"]
  <2>1. /\ kind' = kind /\ hand' = hand /\ timers' = (timers \ {t}) \cup {u}
        /\ u.at = "add" /\ u.object = t.object /\ u \in timers'
    BY <1>6 DEF TimerRemoves, Keeps, TypeOK, Timer
  <2> HIDE DEF u
  <2>2. CASE kind = "web"
    <3>1. list' = list /\ Standing' = Standing /\ lost' = lost
      BY <1>6, <2>2 DEF TimerRemoves, Standing
    <3>2. \A x \in timers' : x.object.id = "whole"
      BY <2>1, <2>2 DEF UsedUp
    <3> QED BY <2>1, <2>2, <3>1, <3>2 DEF UsedUp, Pending, Adding
  <2>3. CASE kind # "web"
    <3>1. RemoveObject(t.object)
      BY <1>6, <2>3 DEF TimerRemoves
    <3>2. Standing' \subseteq Standing /\ t.object \notin Standing'
      BY <2>3, <3>1, RemovingTypes, RemovedList DEF Standing, TypeOK, Serials
    <3>3. \A o : o # t.object => (Timed(o) => Timed(o)') /\ (Held(o) => Held(o)')
      BY <2>1 DEF Timed, Held
    <3>4. Pending(u)' /\ lost' = lost
      BY <2>1, <3>1 DEF Pending, RemoveObject
    <3> QED BY <2>1, <2>3, <3>2, <3>3, <3>4 DEF UsedUp
  <2> QED BY <2>2, <2>3
<1>7. ASSUME NEW t \in timers, TimerAdds(t)
      PROVE  UsedUp'
  <2>1. t.object \in Object /\ NewObject("whole") \in Object /\ NewObject("whole").id = "whole"
    BY NewTypes DEF TypeOK, Timer
  <2>2. PICK o \in Object : AddObject(o) /\ (kind = "web" => o = t.object) /\ (kind # "web" => o.id = "whole")
    BY <1>7, <2>1 DEF TimerAdds
  <2>3. list' # <<>> /\ Standing' = Standing \cup {o} /\ lost' = lost \ {o}
    BY <2>2, AddingMore
  <2>4. kind' = kind /\ hand' = hand /\ timers' = timers \ {t} /\ t.at = "add"
    BY <1>7 DEF TimerAdds, Keeps
  <2>5. \A x : (Timed(x) => Timed(x)') /\ (Held(x) => Held(x)')
    BY <2>4 DEF Timed, Held
  <2>6. o.id = "whole" \/ kind \notin {"rock", "locked", "web"}
    BY <2>2 DEF UsedUp
  <2> QED BY <2>3, <2>4, <2>5, <2>6 DEF UsedUp, Adding
<1>8. ASSUME NEW p \in Player, HandlePacket(p) \/ TraversePath(p) \/ UpdateOf(p)
      PROVE  UsedUp'
  BY <1>1, <1>8 DEF HandlePacket, TraversePath, UpdateOf, Scan, News, world
<1>9. CASE NextPhase \/ UNCHANGED vars
  BY <1>1, <1>9 DEF NextPhase, vars, world
<1> QED BY <1>2, <1>3, <1>4, <1>5, <1>6, <1>7, <1>8, <1>9, <1>10
       DEF Next, PacketsOf, HandlerOf, Stays, TimersRun

-----------------------------------------------------------------------------
(* What clients know. *)

(* Where boundaries are kept in view, they are also looked for. *)
LEMMA KeptIsNear ==
  ASSUME TypeOK, NEW p \in Player, Within(p, Radius + Slack)
  PROVE  Nearby(p)
<1>1. at[p] \in Int \X Int /\ Place \in Int \X Int
  BY SceneryAssumption DEF TypeOK, Tile
<1>2. LongestDelta(at[p], Place) \in Int
  BY <1>1 DEF LongestDelta, Abs
<1>3. Radius \in Nat /\ Slack \in Nat /\ Slack <= Radius
  BY SceneryAssumption
<1> QED BY <1>2, <1>3 DEF Nearby, Within

(* Steps that concern neither the place nor what is shown of it. *)
LEMMA SameKnown ==
  ASSUME Known, UNCHANGED <<kind, list, raced, local, shown, torn, fresh>>,
         \/ UNCHANGED <<at, phase, todo>>
         \/ \A p \in Player : /\ <<p, "news">> \notin todo'
                              /\ phase' = "update" => <<p, "scan">> \in todo'
  PROVE  Known'
<1>1. Standing' = Standing /\ GetObject' = GetObject /\ Boundary' = Boundary
  BY DEF Standing, GetObject, Boundary
<1>2. ASSUME NEW p \in Player, kind # "web", Boundary PROVE BoundaryKnown(p)'
  <2>1. BoundaryKnown(p)
    BY <1>2 DEF Known
  <2>2. CASE UNCHANGED <<at, phase, todo>>
    <3>1. Within(p, Radius + Slack)' <=> Within(p, Radius + Slack)
      BY <2>2 DEF Within
    <3> QED BY <1>1, <2>1, <2>2, <3>1 DEF BoundaryKnown
  <2>3. CASE phase' = "update" => <<p, "scan">> \in todo'
    BY <1>1, <2>1, <2>3 DEF BoundaryKnown
  <2> QED BY <2>2, <2>3
<1>3. ASSUME NEW p \in Player, kind # "web", ~Boundary PROVE SceneryKnown(p)'
  <2>1. SceneryKnown(p)
    BY <1>3 DEF Known
  <2>2. CASE UNCHANGED <<at, phase, todo>>
    <3>1. Nearby(p)' <=> Nearby(p)
      BY <2>2 DEF Nearby, Within
    <3> QED BY <1>1, <2>1, <2>2, <3>1 DEF SceneryKnown
  <2>3. CASE /\ <<p, "news">> \notin todo'
             /\ phase' = "update" => <<p, "scan">> \in todo'
    BY <1>1, <2>1, <2>3 DEF SceneryKnown
  <2> QED BY <2>2, <2>3
<1> QED BY <1>1, <1>2, <1>3 DEF Known

(* A player is teleported: what he was told last is no longer fresh. *)
LEMMA MovedKnown ==
  ASSUME Known, TypeOK, UNCHANGED <<kind, list, raced, local, shown, torn, phase, todo>>, NEW p \in Player,
         fresh' = [fresh EXCEPT ![p] = FALSE], \A q \in Player : q # p => at'[q] = at[q]
  PROVE  Known'
<1>1. Standing' = Standing /\ GetObject' = GetObject /\ Boundary' = Boundary
  BY DEF Standing, GetObject, Boundary
<1>2. ~fresh'[p] /\ \A q \in Player : q # p => fresh'[q] = fresh[q]
  BY DEF TypeOK
<1>3. ASSUME NEW q \in Player, q # p
      PROVE  (Within(q, Radius + Slack)' <=> Within(q, Radius + Slack)) /\ (Nearby(q)' <=> Nearby(q))
  BY <1>3 DEF Within, Nearby
<1>4. ASSUME NEW q \in Player, kind # "web", Boundary PROVE BoundaryKnown(q)'
  BY <1>1, <1>2, <1>3, <1>4 DEF Known, BoundaryKnown
<1>5. ASSUME NEW q \in Player, kind # "web", ~Boundary PROVE SceneryKnown(q)'
  BY <1>1, <1>2, <1>3, <1>5 DEF Known, SceneryKnown
<1> QED BY <1>1, <1>4, <1>5 DEF Known

(* An object is taken away or put there: nobody knows a new one, and what those
   who have been told all knew is no longer fresh. *)
LEMMA ChangedKnown ==
  ASSUME TypeOK, Serials, Known, UNCHANGED <<kind, local, shown, todo>>, Changed, raced => raced',
         \/ \E o : list' = RemoveFirst(list, o)
         \/ \E o \in Object : list' = Append(list, o) /\ o.serial = made + 1
  PROVE  Known'
<1> SUFFICES ASSUME kind # "web" PROVE Known' BY DEF Known
<1>1. Boundary' = Boundary /\ list \in Seq(Object)
  BY DEF Boundary, TypeOK
<1>2. \A p \in Player : /\ ~fresh'[p] /\ (torn[p] => torn'[p])
                        /\ ~Boundary /\ <<p, "news">> \in todo => torn'[p]
  BY DEF Changed
<1>3. ASSUME NEW p \in Player, Boundary PROVE BoundaryKnown(p)'
  <2>1. BoundaryKnown(p)
    BY <1>3 DEF Known
  <2>2. CASE \E o : list' = RemoveFirst(list, o)
    <3>1. PICK o : list' = RemoveFirst(list, o)
      BY <2>2
    <3>2. Standing' \subseteq Standing
      BY <1>1, <3>1, RemovedList DEF Standing
    <3>3. \A i, j \in 1..Len(list') : i < j =>
            \E k, l \in 1..Len(list) : k < l /\ list[k] = list'[i] /\ list[l] = list'[j]
      <4> DEFINE old == list new == list'
      <4>1. old \in Seq(Object) /\ new = RemoveFirst(old, o)
        BY <1>1, <3>1
      <4> HIDE DEF old, new
      <4>2. \A i, j \in 1..Len(new) : i < j =>
              \E k, l \in 1..Len(old) : k < l /\ old[k] = new[i] /\ old[l] = new[j]
        BY <4>1, RemovedList
      <4> QED BY <4>2 DEF old, new
    <3>4. \A i, j \in 1..Len(list') : i < j /\ list'[j] \in local[p] => list'[i] \in local[p]
      BY <2>1, <3>3 DEF BoundaryKnown
    <3> QED BY <1>2, <2>1, <3>2, <3>4 DEF BoundaryKnown
  <2>3. CASE \E o \in Object : list' = Append(list, o) /\ o.serial = made + 1
    <3>1. PICK o \in Object : list' = Append(list, o) /\ o.serial = made + 1
      BY <2>3
    <3>2. Len(list) \in Nat /\ ToSet(list') = ToSet(list) \cup {o}
      BY <1>1, <3>1, AddedList
    <3>3. \A i \in 1..Len(list') : \/ i \in 1..Len(list) /\ list'[i] = list[i]
                                   \/ i = Len(list) + 1 /\ list'[i] = o
      BY <1>1, <3>1, AddedList
    <3>4. o \notin local[p]
      <4>1. made \in Nat
        BY DEF TypeOK
      <4> QED BY <3>1, <4>1 DEF Serials
    <3>5. \A i, j \in 1..Len(list') : i < j /\ list'[j] \in local[p] => list'[i] \in local[p]
      <4> SUFFICES ASSUME NEW i \in 1..Len(list'), NEW j \in 1..Len(list'),
                          i < j, list'[j] \in local[p]
                   PROVE  list'[i] \in local[p]
        OBVIOUS
      <4>1. j \in 1..Len(list) /\ list'[j] = list[j]
        BY <3>3, <3>4
      <4>2. i \in 1..Len(list) /\ list'[i] = list[i]
        BY <3>2, <3>3, <4>1
      <4> QED BY <2>1, <4>1, <4>2 DEF BoundaryKnown
    <3>6. \A x \in Standing' : x \in Standing \/ x \notin local[p]
      BY <3>2, <3>4 DEF Standing
    <3> QED BY <1>2, <2>1, <3>5, <3>6 DEF BoundaryKnown
  <2> QED BY <2>2, <2>3
<1>4. ASSUME NEW p \in Player, ~Boundary PROVE SceneryKnown(p)'
  <2>1. SceneryKnown(p)
    BY <1>4 DEF Known
  <2> QED BY <1>2, <1>4, <2>1 DEF SceneryKnown
<1> QED BY <1>1, <1>3, <1>4 DEF Known

(* The first half of a client's packet, ... *)
LEMMA ScanKnown ==
  ASSUME TypeOK, Agenda, Serials, OneAtATime, Known, NEW p \in Player, Scan(p)
  PROVE  Known'
<1> SUFFICES ASSUME kind # "web" PROVE Known'
  BY DEF Known, Scan
<1>1. /\ phase = "update" /\ phase' = phase /\ <<p, "scan">> \in todo
      /\ todo' = (todo \ {<<p, "scan">>}) \cup {<<p, "news">>}
      /\ UNCHANGED <<kind, list, raced, at>>
      /\ fresh' = [fresh EXCEPT ![p] = TRUE]
      /\ torn' = [torn EXCEPT ![p] = @ /\ GetObject \in local[p]]
  BY DEF Scan, Updating, First, Then, world, body
<1>2. Standing' = Standing /\ GetObject' = GetObject /\ Boundary' = Boundary
  BY <1>1 DEF Standing, GetObject, Boundary
<1>3. \A q \in Player : /\ Within(q, Radius + Slack)' <=> Within(q, Radius + Slack)
                        /\ Nearby(q)' <=> Nearby(q)
  BY <1>1 DEF Within, Nearby
<1>4. \A q \in Player : q # p =>
        /\ local'[q] = local[q] /\ shown'[q] = shown[q]
        /\ fresh'[q] = fresh[q] /\ torn'[q] = torn[q]
        /\ <<q, "scan">> \in todo' <=> <<q, "scan">> \in todo
        /\ <<q, "news">> \in todo' <=> <<q, "news">> \in todo
  <2>1. \A q \in Player : q # p => local'[q] = local[q] /\ shown'[q] = shown[q]
    BY DEF Scan, ScanObjects, ScanBoundaries, client, TypeOK
  <2>2. \A q \in Player : q # p => fresh'[q] = fresh[q] /\ torn'[q] = torn[q]
    BY <1>1 DEF TypeOK
  <2> QED BY <1>1, <2>1, <2>2
<1>5. ASSUME Boundary PROVE \A q \in Player : BoundaryKnown(q)'
  <2>1. \A q \in Player : BoundaryKnown(q)
    BY <1>5 DEF Known
  <2>2. ASSUME NEW q \in Player, q # p PROVE BoundaryKnown(q)'
    BY <1>1, <1>2, <1>3, <1>4, <2>1, <2>2 DEF BoundaryKnown
  <2>3. ScanBoundaries(p)
    BY <1>5 DEF Scan
  <2>4. local'[p] \in {local[p], {}}
    BY <2>3 DEF ScanBoundaries, client, TypeOK
  <2>5. \A i, j \in 1..Len(list') : i < j /\ list'[j] \in local'[p] => list'[i] \in local'[p]
    BY <1>1, <2>1, <2>4 DEF BoundaryKnown
  <2>6. /\ shown'[p] # shown[p] => local'[p] = {} \/ ~(local[p] \subseteq {GetObject})
        /\ Within(p, Radius + Slack) /\ local[p] # {} /\ ~(local[p] \subseteq {GetObject})
             => shown'[p] = GetObject.id
    BY <2>3 DEF ScanBoundaries, client, TypeOK
  <2>7. ASSUME NEW o \in Standing', local'[p] = {o} PROVE shown'[p] = o.id
    <3>1. local[p] = {o} /\ o \in Standing
      BY <1>2, <2>4, <2>7
    <3>2. PICK i \in 1..Len(list) : list[i] = o
      BY <3>1, FirstStands
    <3>3. 1 \in 1..Len(list) /\ GetObject = list[1]
      BY <3>1, FirstStands
    <3>4. i = 1 \/ list[1] \in local[p]
      <4>1. i = 1 \/ 1 < i
        BY <3>2
      <4> QED BY <2>1, <3>1, <3>2, <3>3, <4>1 DEF BoundaryKnown
    <3>5. o = GetObject
      BY <3>1, <3>2, <3>3, <3>4
    <3>6. shown[p] = o.id
      BY <2>1, <3>1 DEF BoundaryKnown
    <3> QED BY <2>6, <2>7, <3>1, <3>5, <3>6
  <2>8. ASSUME Within(p, Radius + Slack), Len(list) = 1, GetObject \in local'[p]
        PROVE  shown'[p] = GetObject.id
    <3>1. GetObject \in Standing
      BY <2>8, FirstStands
    <3>2. CASE local'[p] = {GetObject}
      BY <1>2, <2>7, <3>1, <3>2
    <3>3. CASE local'[p] # {GetObject}
      BY <2>4, <2>6, <2>8, <3>3
    <3> QED BY <3>2, <3>3
  <2>9. BoundaryKnown(p)'
    BY <1>1, <1>2, <1>3, <2>5, <2>7, <2>8 DEF BoundaryKnown
  <2> QED BY <2>2, <2>9
<1>6. ASSUME ~Boundary PROVE \A q \in Player : SceneryKnown(q)'
  <2>1. \A q \in Player : SceneryKnown(q)
    BY <1>6 DEF Known
  <2>2. ASSUME NEW q \in Player, q # p PROVE SceneryKnown(q)'
    BY <1>1, <1>2, <1>3, <1>4, <2>1, <2>2 DEF SceneryKnown
  <2>3. /\ local'[p] = local[p] \ StaleScenery(p)
        /\ shown'[p] = IF StaleScenery(p) = {} THEN shown[p] ELSE "none"
    BY <1>6 DEF Scan, ScanObjects, TypeOK
  <2>4. torn'[p] <=> torn[p] /\ GetObject \in local[p]
    BY <1>1 DEF TypeOK
  <2>5. \A o \in local'[p] : o \in local[p] /\ o = GetObject
    BY <2>3 DEF StaleScenery
  <2>6. local'[p] = {} => shown'[p] = "none"
    BY <2>1, <2>3 DEF SceneryKnown
  <2>7. ASSUME ~raced, ~torn'[p], NEW o \in local'[p]
        PROVE  local'[p] = {o} /\ shown'[p] = o.id
    <3>1. ~torn[p] /\ o \in local[p]
      BY <2>4, <2>5, <2>7
    <3>2. local[p] = {o} /\ shown[p] = o.id
      BY <2>1, <2>7, <3>1 DEF SceneryKnown
    <3>3. StaleScenery(p) = {}
      BY <2>3, <2>7, <3>2 DEF StaleScenery
    <3> QED BY <2>3, <3>2, <3>3
  <2>8. SceneryKnown(p)'
    BY <1>1, <1>2, <2>5, <2>6, <2>7 DEF SceneryKnown
  <2> QED BY <2>2, <2>8
<1> QED BY <1>2, <1>5, <1>6 DEF Known

(* ... and the second. *)
LEMMA NewsKnown ==
  ASSUME TypeOK, Agenda, Serials, OneAtATime, Known, NEW p \in Player, News(p)
  PROVE  Known'
<1> SUFFICES ASSUME kind # "web" PROVE Known'
  BY DEF Known, News
<1>1. /\ phase = "update" /\ phase' = phase /\ <<p, "news">> \in todo
      /\ todo' = todo \ {<<p, "news">>}
      /\ UNCHANGED <<kind, list, raced, at, fresh, torn>>
  BY DEF News, Updating, First, Then, world, body
<1>2. Standing' = Standing /\ GetObject' = GetObject /\ Boundary' = Boundary
  BY <1>1 DEF Standing, GetObject, Boundary
<1>3. \A q \in Player : /\ Within(q, Radius + Slack)' <=> Within(q, Radius + Slack)
                        /\ Nearby(q)' <=> Nearby(q)
  BY <1>1 DEF Within, Nearby
<1>4. \A q \in Player : q # p =>
        /\ local'[q] = local[q] /\ shown'[q] = shown[q]
        /\ <<q, "scan">> \in todo' <=> <<q, "scan">> \in todo
        /\ <<q, "news">> \in todo' <=> <<q, "news">> \in todo
  <2>1. \A q \in Player : q # p => local'[q] = local[q] /\ shown'[q] = shown[q]
    BY DEF News, TypeOK
  <2> QED BY <1>1, <2>1
<1>5. <<p, "scan">> \notin todo
  <2>1. \A x, y \in todo : x[1] = y[1] => x = y
    BY DEF Agenda
  <2> QED BY <1>1, <2>1
<1> DEFINE I == NewObjects(p)
           N == {list[i] : i \in I}
<1>6. /\ local'[p] = local[p] \cup N
      /\ shown'[p] = IF I = {} THEN shown[p] ELSE list[Max(I)].id
  BY DEF News, TypeOK
<1>7. /\ N \subseteq Standing /\ (N = {} <=> I = {})
      /\ I # {} => Max(I) \in I /\ list[Max(I)] \in N
      /\ \A x \in N : x \notin local[p]
      /\ Nearby(p) => \A i \in 1..Len(list) : list[i] \in local[p] \cup N
  <2>1. I \in SUBSET (1..Len(list)) /\ Len(list) \in Nat
    BY FirstStands DEF NewObjects
  <2>2. I # {} => Max(I) \in I
    BY <2>1, LastExists
  <2>3. N \subseteq Standing
    BY <2>1, FirstStands
  <2>4. (\A x \in N : x \notin local[p])
        /\ (Nearby(p) => \A i \in 1..Len(list) : list[i] \in local[p] \cup N)
    BY DEF NewObjects
  <2> HIDE DEF I
  <2> QED BY <2>2, <2>3, <2>4
<1>8. (\E i \in I : TRUE) => Nearby(p)
  BY DEF NewObjects
<1> HIDE DEF I, N
<1>9. ASSUME Boundary PROVE \A q \in Player : BoundaryKnown(q)'
  <2>1. \A q \in Player : BoundaryKnown(q)
    BY <1>9 DEF Known
  <2>2. ASSUME NEW q \in Player, q # p PROVE BoundaryKnown(q)'
    BY <1>1, <1>2, <1>3, <1>4, <2>1, <2>2 DEF BoundaryKnown
  <2>3. CASE I = {}
    <3>1. local'[p] = local[p] /\ shown'[p] = shown[p]
      BY <1>6, <1>7, <2>3
    <3>2. Within(p, Radius + Slack) /\ Len(list) = 1 => GetObject \in local[p]
      <4> SUFFICES ASSUME Within(p, Radius + Slack), Len(list) = 1
                   PROVE  GetObject \in local[p]
        OBVIOUS
      <4>1. Nearby(p)
        BY KeptIsNear
      <4>2. 1 \in 1..Len(list) /\ GetObject = list[1]
        BY FirstStands
      <4>3. N = {}
        BY <1>7, <2>3
      <4> QED BY <1>7, <4>1, <4>2, <4>3
    <3>3. BoundaryKnown(p)
      BY <2>1
    <3>4. BoundaryKnown(p)'
      BY <1>1, <1>2, <1>3, <1>5, <3>1, <3>2, <3>3 DEF BoundaryKnown
    <3> QED BY <2>2, <3>4
  <2>4. CASE I # {}
    <3>1. Nearby(p)
      BY <1>8, <2>4
    <3>2. \A i \in 1..Len(list) : list[i] \in local'[p]
      BY <1>6, <1>7, <3>1
    <3>3. ASSUME NEW o \in Standing', local'[p] = {o} PROVE shown'[p] = o.id
      BY <1>6, <1>7, <2>4, <3>3
    <3>4. ASSUME Len(list) = 1 PROVE GetObject \in local'[p] /\ shown'[p] = GetObject.id
      <4>1. 1 \in 1..Len(list) /\ GetObject = list[1] /\ Standing \subseteq {GetObject}
        BY <3>4, FirstStands
      <4> QED BY <1>6, <1>7, <2>4, <3>2, <4>1
    <3>5. BoundaryKnown(p)'
      BY <1>1, <1>2, <3>2, <3>3, <3>4 DEF BoundaryKnown
    <3> QED BY <2>2, <3>5
  <2> QED BY <2>3, <2>4
<1>10. ASSUME ~Boundary PROVE \A q \in Player : SceneryKnown(q)'
  <2>1. \A q \in Player : SceneryKnown(q)
    BY <1>10 DEF Known
  <2>2. ASSUME NEW q \in Player, q # p PROVE SceneryKnown(q)'
    BY <1>1, <1>2, <1>3, <1>4, <2>1, <2>2 DEF SceneryKnown
  <2>3. local'[p] = {} => shown'[p] = "none"
    BY <1>6, <1>7, <2>1 DEF SceneryKnown
  <2>4. ASSUME ~raced, ~torn[p]
        PROVE  /\ \A o \in local'[p] : local'[p] = {o} /\ shown'[p] = o.id
               /\ Nearby(p) => local'[p] = Standing
    <3>1. Standing \subseteq {GetObject} /\ \A o \in local[p] : o = GetObject
      BY <1>1, <2>1, <2>4, FirstStands DEF SceneryKnown, OneAtATime
    <3>2. ASSUME NEW o \in local'[p] PROVE local'[p] = {o} /\ shown'[p] = o.id
      <4>1. local'[p] = {o} /\ o = GetObject
        BY <1>6, <1>7, <3>1, <3>2
      <4>2. CASE I = {}
        BY <1>6, <1>7, <2>1, <2>4, <3>2, <4>2 DEF SceneryKnown
      <4>3. CASE I # {}
        BY <1>6, <1>7, <3>1, <4>1, <4>3
      <4> QED BY <4>1, <4>2, <4>3
    <3>3. ASSUME Nearby(p) PROVE local'[p] = Standing
      <4>1. Standing \subseteq local'[p]
        BY <1>6, <1>7, <3>3, FirstStands
      <4>2. local[p] \subseteq Object /\ Nothing \notin Object
        BY FirstStands DEF TypeOK
      <4>3. local[p] # {} => GetObject # Nothing
        BY <3>1, <4>2
      <4>4. GetObject # Nothing => GetObject \in Standing
        BY FirstStands DEF GetObject
      <4> QED BY <1>6, <1>7, <3>1, <4>1, <4>3, <4>4
    <3> QED BY <3>2, <3>3
  <2>5. SceneryKnown(p)'
    BY <1>1, <1>2, <1>3, <2>3, <2>4 DEF SceneryKnown
  <2> QED BY <2>2, <2>5
<1> QED BY <1>2, <1>9, <1>10 DEF Known

LEMMA KnownKept ==
  TypeOK /\ Agenda /\ Agenda' /\ Serials /\ OneAtATime /\ Known /\ [Next]_vars => Known'
<1> SUFFICES ASSUME TypeOK, Agenda, Agenda', Serials, OneAtATime, Known, [Next]_vars,
                    kind # "web"
             PROVE  Known'
  BY KindKept DEF Known
<1>1. ASSUME NEW p \in Player, PacketsOf(p)
      PROVE  Known'
  <2>1. phase' = "packets" /\ UNCHANGED <<kind, list, raced, local, shown, torn, fresh>>
    BY <1>1 DEF PacketsOf, HandlePacket, TickAction, TraversePath, Turn, Then, world, client
  <2>2. \A q \in Player : <<q, "news">> \notin todo'
    BY <2>1 DEF Agenda, Parts
  <2> QED BY <2>1, <2>2, SameKnown
<1>2. CASE NextPhase \/ Tasks
  <2>1. UNCHANGED <<kind, list, raced, local, shown, torn, fresh>>
    BY <1>2 DEF NextPhase, Tasks, world, client
  <2>2. \A p \in Player : /\ <<p, "news">> \notin todo'
                          /\ phase' = "update" => <<p, "scan">> \in todo'
    BY <1>2 DEF NextPhase, Tasks
  <2> QED BY <2>1, <2>2, SameKnown
<1>3. ASSUME NEW p \in Player, HandlerOf(p) \/ Wakes(p)
      PROVE  Known'
  <2>1. CASE Stalls(p) \/ Stalled(p) \/ Schedule(p) \/ Wakes(p)
    BY <2>1, SameKnown DEF Stalls, Stalled, Schedule, Wakes, Keeps, world, body, client, turn
  <2>4. CASE Teleport(p)
    BY <2>4, MovedKnown DEF Teleport, Keeps, world, client, turn, TypeOK
  <2>2. CASE TakeAway(p)
    <3>1. RemoveObject(hand[p].object) /\ UNCHANGED <<kind, local, shown, todo>>
      BY <2>2 DEF TakeAway, Keeps, client, turn
    <3> QED BY <3>1, RemovingTypes, ChangedKnown DEF RemoveObject
  <2>3. CASE PutNew(p)
    <3>1. /\ AddObject(NewOf(p)) /\ UNCHANGED <<kind, local, shown, todo>>
          /\ NewOf(p) \in Object /\ NewOf(p).serial = made + 1
      BY <2>3, PutNewMoves DEF client, turn
    <3> QED BY <3>1, ChangedKnown DEF AddObject
  <2> QED BY <1>3, <2>1, <2>2, <2>3, <2>4 DEF HandlerOf
<1>4. ASSUME NEW t \in timers, TimerRemoves(t)
      PROVE  Known'
  <2>1. RemoveObject(t.object) /\ UNCHANGED <<kind, local, shown, todo>>
    BY <1>4 DEF TimerRemoves, Keeps, client, turn
  <2> QED BY <2>1, RemovingTypes, ChangedKnown DEF RemoveObject
<1>5. ASSUME NEW t \in timers, TimerAdds(t)
      PROVE  Known'
  <2>1. AddObject(NewObject("whole")) /\ UNCHANGED <<kind, local, shown, todo>>
    BY <1>5 DEF TimerAdds, Keeps, client, turn
  <2>2. NewObject("whole") \in Object /\ NewObject("whole").serial = made + 1
    BY NewTypes
  <2> QED BY <2>1, <2>2, ChangedKnown DEF AddObject
<1>6. ASSUME NEW p \in Player, UpdateOf(p)
      PROVE  Known'
  BY <1>6, ScanKnown, NewsKnown DEF UpdateOf
<1>7. CASE UNCHANGED vars
  BY <1>7, SameKnown DEF vars, world, body, client, turn
<1> QED BY <1>1, <1>2, <1>3, <1>4, <1>5, <1>6, <1>7 DEF Next, TimersRun

-----------------------------------------------------------------------------
(* The invariant, and what follows from it. *)

LEMMA InitIInv == Init => IInv
<1> SUFFICES ASSUME Init PROVE IInv OBVIOUS
<1> DEFINE o == [serial |-> 1, id |-> "whole"]
<1>1. TypeOK
  BY InitTypes
<1>2. list = <<o>> /\ Len(list) = 1 /\ Standing = {o} /\ list # <<>>
  BY DEF Init, Standing, ToSet
<1>3. Agenda /\ AtSomething /\ Wholes
  BY DEF Init, Agenda, Parts, AtSomething, Wholes, Idle, Nothing
<1>4. Serials
  BY <1>2 DEF Init, Serials
<1>5. OneAtATime
  BY <1>2 DEF Init, OneAtATime, Adding, Idle
<1>6. UsedUp
  BY <1>2 DEF Init, UsedUp, Idle
<1>7. Known
  <2>1. ASSUME NEW p \in Player PROVE BoundaryKnown(p) /\ SceneryKnown(p)
    BY <1>2 DEF Init, BoundaryKnown, SceneryKnown
  <2> QED BY <2>1 DEF Known
<1> QED BY <1>1, <1>3, <1>4, <1>5, <1>6, <1>7 DEF IInv

LEMMA NextIInv == IInv /\ [Next]_vars => IInv'
<1> SUFFICES ASSUME IInv, [Next]_vars PROVE IInv' OBVIOUS
<1> USE DEF IInv
<1>1. TypeOK' /\ Agenda' /\ AtSomething' /\ Serials'
  BY TypesKept, AgendaKept, AtSomethingKept, SerialsKept
<1>2. OneAtATime' /\ Wholes' /\ UsedUp'
  BY OneAtATimeKept, WholesKept, UsedUpKept
<1>3. Known'
  BY <1>1, KnownKept
<1> QED BY <1>1, <1>2, <1>3

(* The invariant of the place and its clients: ReplaceObject's goroutines and
   timers, and ObjectLocations and BoundaryLocations. *)
THEOREM SceneryInvariant == Spec => []IInv
BY InitIInv, NextIInv, PTL DEF Spec

(* ReplaceObject never leaves two objects at the place, unless two goroutines
   replaced the same one. *)
THEOREM CrowdsAreRaces == Spec => []OnlyRacesCrowd
<1>1. IInv => OnlyRacesCrowd
  BY FirstStands DEF IInv, OneAtATime, OnlyRacesCrowd
<1> QED BY <1>1, SceneryInvariant, PTL

(* The collision marks of AddObject and RemoveObject are those of the object that
   stands there. *)
THEOREM MarksAreThoseOfObjects == Spec => []MarksMatch
<1>1. ASSUME IInv, ~raced PROVE clips = UNION {Marks(Scene, Def(o.id)) : o \in Standing}
  <2>1. CASE list = <<>>
    BY <1>1, <2>1, FirstStands DEF IInv, OneAtATime
  <2>2. CASE list # <<>>
    <3>1. Standing = {list[1]}
      BY <1>1, <2>2, FirstStands DEF IInv, OneAtATime
    <3> QED BY <1>1, <2>2, <3>1 DEF IInv, OneAtATime
  <2> QED BY <2>1, <2>2
<1>2. IInv => MarksMatch
  BY <1>1 DEF MarksMatch
<1> QED BY <1>2, SceneryInvariant, PTL

(* Rocks, webs and locked doors do not stay mined, cut or open for good: a timer
   or a goroutine is about to restore them, whatever races there were, or schedule
   gave the tick list the timer of what stands there, or of the web that is away,
   while a tick's tasks ran. *)
THEOREM UsedUpComesBack == Spec => []ComesBack
<1>1. ASSUME IInv, kind \in {"rock", "web", "locked"}, \A o \in Standing : o.id # "whole"
      PROVE  \/ timers # {}
             \/ \E p \in Player : hand[p].at \in {"add", "teleport", "schedule"}
             \/ IF kind = "web" THEN lost # {} ELSE lost \cap Standing # {}
  <2>1. CASE list = <<>>
    BY <1>1, <2>1 DEF IInv, UsedUp, Pending, Adding
  <2>2. CASE list # <<>>
    <3>1. PICK o \in Standing : o.id = "changed"
      BY <1>1, <2>2, FirstStands DEF IInv, Object
    <3>2. kind # "web" /\ (Timed(o) \/ Held(o) \/ o \in lost)
      BY <1>1, <3>1 DEF IInv, UsedUp
    <3> QED BY <3>1, <3>2 DEF Timed, Held
  <2> QED BY <2>1, <2>2
<1>2. IInv => ComesBack
  BY <1>1 DEF ComesBack
<1> QED BY <1>2, SceneryInvariant, PTL

(* What ObjectLocations and BoundaryLocations told a client is what stands there,
   as ClientShows says. *)
THEOREM ClientsShowWhatStands == Spec => []ClientShows
<1>1. ASSUME IInv, NEW p \in Player,
             fresh[p] /\ ~torn[p] /\ <<p, "news">> \notin todo,
             phase # "packets" /\ phase # "tasks" /\ <<p, "scan">> \notin todo,
             Within(p, IF Boundary THEN Radius + Slack ELSE Radius * 2),
             (IF Boundary THEN list # <<>> ELSE ~raced) /\ Len(list) <= 1 /\ kind # "web"
      PROVE  shown[p] = GetObject.id
  <2>1. phase = "update"
    BY <1>1 DEF IInv, TypeOK
  <2>2. CASE Boundary
    <3>1. Len(list) = 1
      <4>1. list # <<>> /\ Len(list) <= 1
        BY <1>1, <2>2
      <4>2. Len(list) \in Nat /\ (list = <<>> <=> Len(list) = 0)
        BY <1>1, FirstStands DEF IInv
      <4>3. \A n \in Nat : n <= 1 => n = 0 \/ n = 1
        OBVIOUS
      <4> QED BY <4>1, <4>2, <4>3, Zenon
    <3> QED BY <1>1, <2>1, <2>2, <3>1 DEF IInv, Known, BoundaryKnown
  <2>3. CASE ~Boundary
    <3>1. SceneryKnown(p)
      BY <1>1, <2>3 DEF IInv, Known
    <3>2. local[p] = Standing
      BY <1>1, <2>1, <2>3, <3>1 DEF SceneryKnown, Nearby
    <3>3. CASE list = <<>>
      BY <1>1, <3>1, <3>2, <3>3, FirstStands DEF IInv, SceneryKnown, GetObject, Nothing
    <3>4. CASE list # <<>>
      <4>1. GetObject \in local[p]
        BY <1>1, <3>2, <3>4, FirstStands DEF IInv
      <4> QED BY <1>1, <2>3, <3>1, <4>1 DEF SceneryKnown
    <3> QED BY <3>3, <3>4
  <2> QED BY <2>2, <2>3
<1>2. IInv => ClientShows
  BY <1>1 DEF ClientShows
<1> QED BY <1>2, SceneryInvariant, PTL

(* The mark of a shut gate or a doorframe on its own tile bars the way in both
   directions, although the index of the other tile's mark is wrong where that
   lies in another sector. *)
LEMMA ShutBars ==
  ASSUME TypeOK, OneAtATime, ~raced, NEW o \in Standing, Clip(o.id) = "shut",
         NEW l, NEW dst, {l, dst} = {Place, Side}
  PROVE  \/ IsTileBlocking(clips, l, ClipBit(l, dst), TRUE)
         \/ IsTileBlocking(clips, dst, ClipBit(dst, l), FALSE)
<1> DEFINE bit == IF kind = "gate" THEN "south" ELSE "north"
<1>1. Place \in Tile /\ Place = <<Place[1], Place[2]>> /\ Place[1] \in Int /\ Place[2] \in Int
  BY SceneryAssumption DEF Tile
<1>2. kind = "gate" \/ kind = "locked"
  BY DEF Clip
<1>3. clips = Marks(Scene, Def(o.id)) /\ Def(o.id).clip = "shut"
  <2>1. list # <<>> /\ o = list[1]
    BY FirstStands DEF OneAtATime
  <2> QED BY <2>1 DEF OneAtATime, Def
<1>4. Mark(Place, Index(Place), bit) \in clips
  <2>1. CASE kind = "gate"
    <3>1. ~Scene.boundary /\ Scene.direction = 2 /\ Scene.place = Place
      BY <2>1 DEF Scene, Boundary, Direction
    <3>2. Turned(Scene, Def(o.id)) = <<2, 1>>
      BY <2>1, <3>1 DEF Turned, Def
    <3>3. Place \in Covered(Scene, Def(o.id))
      <4>1. <<Place[1] + 0, Place[2] + 0>> \in Covered(Scene, Def(o.id))
        BY <3>1, <3>2 DEF Covered
      <4> QED BY <1>1, <4>1
    <3>4. clips = UNION {GateMarks(t, 2) : t \in Covered(Scene, Def(o.id))}
      BY <1>3, <3>1 DEF Marks, Passable
    <3>5. Mark(Place, Index(Place), "south") \in GateMarks(Place, 2)
      BY DEF GateMarks, Own
    <3> QED BY <2>1, <3>3, <3>4, <3>5
  <2>2. CASE kind = "locked"
    <3>1. Scene.boundary /\ Scene.direction = 0 /\ Scene.place = Place
      BY <2>2 DEF Scene, Boundary, Direction
    <3>2. clips = WallMarks(Place, 0)
      BY <1>3, <3>1 DEF Marks, Passable
    <3> QED BY <2>2, <3>2 DEF WallMarks, Own
  <2> QED BY <1>2, <2>1, <2>2
<1>5. bit \in CollisionData(clips, Place)
  BY <1>4 DEF CollisionData, Bit, Way
<1>6. bit \in ClipBit(Place, Side)
  BY <1>1, <1>2 DEF ClipBit, Side, North, South, Way
<1>7. \A current : IsTileBlocking(clips, Place, ClipBit(Place, Side), current)
  BY <1>5, <1>6 DEF IsTileBlocking
<1>8. (l = Place /\ dst = Side) \/ (dst = Place /\ l = Side)
  OBVIOUS
<1> QED BY <1>7, <1>8

(* Toward a neighbour the next tile is that neighbour. *)
LEMMA NextIsNeighbour ==
  ASSUME NEW l \in Tile, NEW t \in Tile, ~(LongestDelta(l, t) > 1)
  PROVE  NextTileToward(l, t) = t
<1>1. /\ l[1] \in Int /\ l[2] \in Int /\ t[1] \in Int /\ t[2] \in Int
      /\ t = <<t[1], t[2]>>
  BY DEF Tile
<1>2. Abs(l[1] - t[1]) <= 1 /\ Abs(l[2] - t[2]) <= 1
  BY <1>1 DEF LongestDelta, Abs
<1>3. \A a, b \in Int : Abs(a - b) <= 1 => a + Sign(b - a) = b
  BY DEF Abs, Sign
<1>4. l[1] + Sign(t[1] - l[1]) = t[1] /\ l[2] + Sign(t[2] - l[2]) = t[2]
  BY <1>1, <1>2, <1>3
<1> QED BY <1>1, <1>4 DEF NextTileToward

(* TraversePath never takes anyone through a shut gate or the doorframe of a
   locked door, in either direction, on any tile. *)
THEOREM ShutIsShut == Spec => NeverThroughShut
<1> DEFINE Barred == \A p \in Player : TraversePath(p) /\ Crosses(p) =>
                       raced \/ \A o \in Standing : Clip(o.id) # "shut"
<1>1. ASSUME IInv, NEW p \in Player, TraversePath(p), Crosses(p), ~raced,
             NEW o \in Standing, Clip(o.id) = "shut"
      PROVE  FALSE
  <2>1. TypeOK /\ OneAtATime /\ at[p] \in Tile /\ path[p] \in Tile
    BY <1>1 DEF IInv, TypeOK, Agenda, TraversePath, Turn, First
  <2>2. Place # Side
    <3>1. Place[2] \in Int
      BY SceneryAssumption DEF Tile
    <3> QED BY <3>1 DEF Side, North, South
  <2>3. {at[p], at'[p]} = {Place, Side} /\ at'[p] # at[p]
    BY <1>1, <2>2 DEF Crosses
  <2>4. at'[p] = NextTileToward(at[p], path[p]) /\ ReachableCoords(clips, at[p], path[p])
    BY <1>1, <2>1, <2>3 DEF TraversePath, Step, TypeOK
  <2>5. at'[p] = IF LongestDelta(at[p], path[p]) > 1
                 THEN NextTileToward(at[p], path[p]) ELSE path[p]
    BY <2>1, <2>4, NextIsNeighbour
  <2>6. /\ ~IsTileBlocking(clips, at[p], ClipBit(at[p], at'[p]), TRUE)
        /\ ~IsTileBlocking(clips, at'[p], ClipBit(at'[p], at[p]), FALSE)
    BY <2>4, <2>5 DEF ReachableCoords
  <2> QED BY <1>1, <2>1, <2>3, <2>6, ShutBars
<1>2. IInv => [Barred]_vars
  BY <1>1
<1>3. IInv /\ [Next]_vars => [Barred]_vars
  BY <1>2
<1> QED BY <1>3, SceneryInvariant, PTL DEF Spec, NeverThroughShut
=============================================================================
