--------------------------- MODULE AdmissionProofs ---------------------------
(* Proofs about logins: the registry of players, the login throttle, both where
   handleLogin uses them, and what a login loads and a logout saves, for any
   players, Window and Limit, accounts and items. *)
EXTENDS Admission, Profile, SequenceTheorems, FiniteSetTheorems, TLAPS
-----------------------------------------------------------------------------
(* The registry: no index is lost or given out twice. *)

LEMMA InitIInv == Init => IInv /\ NoIndexLeak
<1> SUFFICES ASSUME Init PROVE IInv /\ NoIndexLeak OBVIOUS
<1>1. free \in Seq(Nat) /\ Len(free) = 0
  BY EmptySeq DEF Init
<1>2. Holders = {}
  BY DEF Init, Holders
<1> QED BY <1>1, <1>2 DEF Init, IInv, TypeOK, Steps, ListedIffIn, HeldOnce, NoIndexLeak

(* The steps that neither create, hand over nor free an index. *)
LEMMA BookkeepingIInv ==
  ASSUME IInv, NEW p \in Player,
         Insert(p) \/ EnterRegion(p) \/ LeaveRegion(p) \/ Unindex(p)
  PROVE  IInv' /\ (NoIndexLeak => NoIndexLeak')
<1>1. TypeOK'
  BY DEF IInv, TypeOK, Steps, Insert, EnterRegion, LeaveRegion, Unindex
<1>2. UNCHANGED <<free, curIdx>>
  BY DEF Insert, EnterRegion, LeaveRegion, Unindex
<1>3. Holders' = Holders
  BY DEF IInv, TypeOK, Holders, Insert, EnterRegion, LeaveRegion, Unindex
<1>4. \A q \in Player : Held(q)' = Held(q)
  BY DEF IInv, TypeOK, Held, Insert, EnterRegion, LeaveRegion, Unindex
<1>5. Holders \subseteq Player
  BY DEF Holders
<1>6. HeldOnce' /\ (NoIndexLeak => NoIndexLeak')
  BY <1>2, <1>3, <1>4, <1>5 DEF IInv, HeldOnce, NoIndexLeak
<1>7. ListedIffIn'
  BY DEF IInv, TypeOK, ListedIffIn, Insert, EnterRegion, LeaveRegion, Unindex
<1>8. \A q \in Player : pc'[q] = "unindexed" => index'[q] = -1
  BY DEF IInv, TypeOK, Insert, EnterRegion, LeaveRegion, Unindex
<1> QED BY <1>1, <1>6, <1>7, <1>8 DEF IInv

LEMMA NextSlotIInv ==
  ASSUME IInv, NEW p \in Player, NextSlot(p)
  PROVE  IInv' /\ (NoIndexLeak => NoIndexLeak')
<1>1. /\ pc[p] = "out" /\ pc' = [pc EXCEPT ![p] = "indexed"]
      /\ adding' = adding \cup {p}
      /\ UNCHANGED <<slot, listed, region>>
  BY DEF NextSlot
<1>2. TypeOK BY DEF IInv
<1>3. Holders' = Holders \cup {p} /\ p \notin Holders /\ Holders \subseteq Player
  BY <1>1, <1>2 DEF Holders, TypeOK
<1>4. ListedIffIn'
  BY <1>1, <1>2 DEF IInv, ListedIffIn, TypeOK
<1>5. CASE free # <<>>
  <2>1. /\ index' = [index EXCEPT ![p] = Head(free)] /\ free' = Tail(free) /\ curIdx' = curIdx
    BY <1>5 DEF NextSlot, Popped
  <2>2. /\ Len(free) \in Nat /\ Len(free) > 0
        /\ Head(free) = free[1] /\ Head(free) \in Nat
        /\ Tail(free) \in Seq(Nat) /\ Len(Tail(free)) = Len(free) - 1
        /\ \A j \in 1..Len(Tail(free)) : Tail(free)[j] = free[j + 1]
    BY <1>2, <1>5, HeadTailProperties, EmptySeq DEF TypeOK
  <2>3. TypeOK'
    BY <1>1, <1>2, <2>1, <2>2 DEF TypeOK, Steps
  <2>4. Held(p)' = free[1] /\ \A q \in Player : q # p => Held(q)' = Held(q)
    BY <1>1, <1>2, <2>1, <2>2 DEF Held, TypeOK
  <2>5. /\ free[1] < curIdx
        /\ \A q \in Holders : Held(q) # free[1]
        /\ \A j \in 1..Len(Tail(free)) : Tail(free)[j] # free[1]
    BY <2>2 DEF IInv, HeldOnce
  <2>6. HeldOnce'
    <3>1. \A q \in Holders' : Held(q)' \in 0 .. curIdx' - 1
      BY <1>2, <1>3, <2>1, <2>2, <2>4, <2>5 DEF IInv, HeldOnce, TypeOK
    <3>2. \A q, r \in Holders' : Held(q)' = Held(r)' => q = r
      BY <1>3, <2>4, <2>5 DEF IInv, HeldOnce
    <3>3. \A j \in 1..Len(free') : free'[j] < curIdx' /\ \A q \in Holders' : Held(q)' # free'[j]
      BY <1>3, <2>1, <2>2, <2>4, <2>5 DEF IInv, HeldOnce
    <3>4. \A j, k \in 1..Len(free') : free'[j] = free'[k] => j = k
      BY <2>1, <2>2 DEF IInv, HeldOnce
    <3> QED BY <3>1, <3>2, <3>3, <3>4 DEF HeldOnce
  <2>7. ASSUME NoIndexLeak PROVE NoIndexLeak'
    <3> SUFFICES ASSUME NEW i \in 0 .. curIdx - 1
                 PROVE  (\E j \in 1..Len(free') : free'[j] = i) \/ \E q \in Holders' : Held(q)' = i
      BY <2>1 DEF NoIndexLeak
    <3>1. CASE \E q \in Holders : Held(q) = i
      BY <1>3, <2>4, <3>1
    <3>2. CASE \E j \in 1..Len(free) : free[j] = i
      <4>1. PICK j \in 1..Len(free) : free[j] = i BY <3>2
      <4>2. CASE j = 1 BY <1>3, <2>4, <4>1, <4>2
      <4>3. CASE j # 1
        <5>1. j - 1 \in 1..Len(free') /\ free'[j - 1] = i
          BY <2>1, <2>2, <4>1, <4>3
        <5> QED BY <5>1
      <4> QED BY <4>2, <4>3
    <3> QED BY <2>7, <3>1, <3>2 DEF NoIndexLeak
  <2>8. \A q \in Player : pc'[q] = "unindexed" => index'[q] = -1
    BY <1>1, <1>2, <2>1 DEF IInv, TypeOK
  <2> QED BY <1>4, <2>3, <2>6, <2>7, <2>8 DEF IInv
<1>6. CASE free = <<>>
  <2>1. /\ index' = [index EXCEPT ![p] = curIdx] /\ free' = free /\ curIdx' = curIdx + 1
    BY <1>6 DEF NextSlot
  <2>2. curIdx \in Nat /\ Len(free) = 0
    BY <1>2, <1>6, EmptySeq DEF TypeOK
  <2>3. TypeOK'
    BY <1>1, <1>2, <2>1, <2>2 DEF TypeOK, Steps
  <2>4. Held(p)' = curIdx /\ \A q \in Player : q # p => Held(q)' = Held(q)
    BY <1>1, <1>2, <2>1 DEF Held, TypeOK
  <2>5. HeldOnce'
    BY <1>3, <2>1, <2>2, <2>4 DEF IInv, HeldOnce
  <2>6. NoIndexLeak => NoIndexLeak'
    BY <1>3, <2>1, <2>2, <2>4 DEF NoIndexLeak
  <2>7. \A q \in Player : pc'[q] = "unindexed" => index'[q] = -1
    BY <1>1, <1>2, <2>1 DEF IInv, TypeOK
  <2> QED BY <1>4, <2>3, <2>5, <2>6, <2>7 DEF IInv
<1> QED BY <1>5, <1>6

LEMMA DeleteIInv ==
  ASSUME IInv, NEW p \in Player, Delete(p)
  PROVE  IInv' /\ (NoIndexLeak => NoIndexLeak')
<1>1. /\ pc[p] = "unindexed" /\ pc' = [pc EXCEPT ![p] = "out"]
      /\ listed' = listed \ {p}
      /\ free' = <<slot[p]>> \o free
      /\ slot' = [slot EXCEPT ![p] = -1]
      /\ UNCHANGED <<index, curIdx, region, adding>>
  BY DEF Delete, Deleted, Push, Freed
<1>2. TypeOK BY DEF IInv
<1>3. Holders' = Holders \ {p} /\ p \in Holders /\ Holders \subseteq Player /\ Held(p) = slot[p]
  BY <1>1, <1>2 DEF Holders, Held, TypeOK
<1>4. slot[p] \in 0 .. curIdx - 1 /\ \A q \in Holders : q # p => Held(q) # slot[p]
  BY <1>3 DEF IInv, HeldOnce
<1>5. /\ free' \in Seq(Nat)
      /\ Len(free) \in Nat /\ Len(free') = Len(free) + 1
      /\ free'[1] = slot[p]
      /\ \A j \in 1..Len(free) : free'[j + 1] = free[j]
      /\ \A j \in 2..Len(free') : free'[j] = free[j - 1] /\ j - 1 \in 1..Len(free)
  <2>1. slot[p] \in Nat /\ <<slot[p]>> \in Seq(Nat) /\ Len(<<slot[p]>>) = 1 /\ <<slot[p]>>[1] = slot[p]
    BY <1>2, <1>4 DEF TypeOK
  <2>2. Len(free) \in Nat
    BY <1>2, LenProperties DEF TypeOK
  <2>3. /\ free' \in Seq(Nat) /\ Len(free') = 1 + Len(free)
        /\ \A j \in 1 .. 1 + Len(free) : free'[j] = IF j <= 1 THEN <<slot[p]>>[j] ELSE free[j - 1]
    BY <1>1, <1>2, <2>1, ConcatProperties DEF TypeOK
  <2> QED BY <2>1, <2>2, <2>3
<1>6. TypeOK'
  BY <1>1, <1>2, <1>5 DEF TypeOK, Steps
<1>7. ListedIffIn'
  BY <1>1, <1>2 DEF IInv, ListedIffIn, TypeOK
<1>8. \A q \in Player : q # p => Held(q)' = Held(q)
  BY <1>1, <1>2 DEF Held, TypeOK
<1>9. HeldOnce'
  <2>1. \A q \in Holders' : Held(q)' \in 0 .. curIdx' - 1
    BY <1>1, <1>3, <1>8 DEF IInv, HeldOnce
  <2>2. \A q, r \in Holders' : Held(q)' = Held(r)' => q = r
    BY <1>3, <1>8 DEF IInv, HeldOnce
  <2>3. ASSUME NEW j \in 1..Len(free')
        PROVE  free'[j] < curIdx' /\ \A q \in Holders' : Held(q)' # free'[j]
    <3>1. CASE j = 1
      <4>1. free'[j] = slot[p] /\ slot[p] < curIdx /\ curIdx' = curIdx
        BY <1>1, <1>2, <1>4, <1>5, <3>1 DEF TypeOK
      <4>2. \A q \in Holders' : Held(q)' # slot[p]
        BY <1>3, <1>4, <1>8
      <4> QED BY <4>1, <4>2
    <3>2. CASE j # 1
      BY <1>1, <1>3, <1>5, <1>8, <3>2 DEF IInv, HeldOnce
    <3> QED BY <3>1, <3>2
  <2>4. ASSUME NEW j \in 1..Len(free'), NEW k \in 1..Len(free'), free'[j] = free'[k] PROVE j = k
    <3>1. \A m \in 1..Len(free) : free[m] # slot[p]
      BY <1>3 DEF IInv, HeldOnce
    <3>2. \A m \in 1..Len(free') : m # 1 => free'[m] # slot[p]
      <4> SUFFICES ASSUME NEW m \in 1..Len(free'), m # 1 PROVE free'[m] # slot[p] OBVIOUS
      <4>1. free'[m] = free[m - 1] /\ m - 1 \in 1..Len(free)
        BY <1>5
      <4> QED BY <3>1, <4>1
    <3>4. CASE j = 1 \/ k = 1
      BY <1>5, <2>4, <3>2, <3>4
    <3>3. CASE j # 1 /\ k # 1
      <4>1. j - 1 \in 1..Len(free) /\ k - 1 \in 1..Len(free) /\ free[j - 1] = free[k - 1]
        BY <1>5, <2>4, <3>3
      <4>2. j - 1 = k - 1
        BY <4>1 DEF IInv, HeldOnce
      <4> QED BY <4>2
    <3> QED BY <3>3, <3>4
  <2> QED BY <2>1, <2>2, <2>3, <2>4 DEF HeldOnce
<1>10. ASSUME NoIndexLeak PROVE NoIndexLeak'
  <2> SUFFICES ASSUME NEW i \in 0 .. curIdx - 1
               PROVE  (\E j \in 1..Len(free') : free'[j] = i) \/ \E q \in Holders' : Held(q)' = i
    BY <1>1 DEF NoIndexLeak
  <2>1. CASE \E j \in 1..Len(free) : free[j] = i
    <3>1. PICK j \in 1..Len(free) : free[j] = i BY <2>1
    <3>2. j + 1 \in 1..Len(free') /\ free'[j + 1] = i BY <1>5, <3>1
    <3> QED BY <3>2
  <2>2. CASE \E q \in Holders : Held(q) = i
    <3>1. PICK q \in Holders : Held(q) = i BY <2>2
    <3>2. CASE q = p
      <4>1. 1 \in 1..Len(free') /\ free'[1] = i BY <1>3, <1>5, <3>1, <3>2
      <4> QED BY <4>1
    <3>3. CASE q # p
      BY <1>3, <1>8, <3>1, <3>3
    <3> QED BY <3>2, <3>3
  <2> QED BY <1>10, <2>1, <2>2 DEF NoIndexLeak
<1>11. \A q \in Player : pc'[q] = "unindexed" => index'[q] = -1
  BY <1>1, <1>2 DEF IInv, TypeOK
<1> QED BY <1>6, <1>7, <1>9, <1>10, <1>11 DEF IInv

LEMMA NextIInv == IInv /\ NoIndexLeak /\ [Next]_vars => (IInv /\ NoIndexLeak)'
<1> SUFFICES ASSUME IInv, NoIndexLeak, [Next]_vars PROVE (IInv /\ NoIndexLeak)' OBVIOUS
<1>1. CASE UNCHANGED vars
  BY <1>1 DEF vars, IInv, TypeOK, ListedIffIn, HeldOnce, NoIndexLeak, Holders, Held
<1>2. ASSUME NEW p \in Player,
             NextSlot(p) \/ Insert(p) \/ EnterRegion(p) \/ LeaveRegion(p) \/ Unindex(p) \/ Delete(p)
      PROVE  (IInv /\ NoIndexLeak)'
  BY <1>2, BookkeepingIInv, NextSlotIInv, DeleteIInv
<1> QED BY <1>1, <1>2 DEF Next

-----------------------------------------------------------------------------
(* Put and Remove neither give an index out twice nor lose one, for any set of
   players and any interleaving of their critical sections. *)
THEOREM IndicesAccounted == Spec => []IndexAccounting
<1>1. IInv /\ NoIndexLeak => IndexAccounting
  BY DEF IInv, IndexAccounting
<1> QED BY <1>1, InitIInv, NextIInv, PTL DEF Spec

(* Two listed players never answer to the same server index. *)
THEOREM IndicesUnique == Spec => []UniqueIndex
<1>1. IInv => UniqueIndex
  BY DEF IInv, TypeOK, Steps, ListedIffIn, HeldOnce, UniqueIndex, Holders, Held
<1> QED BY <1>1, InitIInv, NextIInv, PTL DEF Spec

-----------------------------------------------------------------------------
(* The throttle never forgets a failure that counts. *)

LEMMA ElementIn ==
  ASSUME NEW S, NEW s \in Seq(S), NEW j \in 1..Len(s)
  PROVE  s[j] \in S
OBVIOUS

(* Some entry is old exactly if the number of old entries is not zero. *)
LEMMA OldCount ==
  ASSUME NEW S, NEW s \in Seq(S)
  PROVE  /\ Cardinality(OldEntries(s)) \in Nat
         /\ Cardinality(OldEntries(s)) = 0 <=> OldEntries(s) = {}
         /\ IsFiniteSet(DOMAIN s) /\ Cardinality(DOMAIN s) = Len(s)
<1>1. IsFiniteSet(1..Len(s)) /\ Cardinality(1..Len(s)) = Len(s)
  <2>1. Len(s) \in Nat /\ 1 \in Int /\ Len(s) \in Int
    OBVIOUS
  <2>2. IsFiniteSet(1..Len(s)) /\ Cardinality(1..Len(s)) = IF 1 > Len(s) THEN 0 ELSE Len(s) - 1 + 1
    BY <2>1, FS_Interval
  <2> QED
    BY <2>1, <2>2
<1>2. DOMAIN s = 1..Len(s)
  OBVIOUS
<1>3. IsFiniteSet(OldEntries(s))
  BY <1>1, <1>2, FS_Subset DEF OldEntries
<1> QED
  BY <1>1, <1>2, <1>3, FS_CardinalityType, FS_EmptySet

(* The cell whose value ends up in cell j lies behind j, and further behind for
   a further j. *)
LEMMA CellsBehind ==
  ASSUME NEW n \in Nat, NEW k \in Nat \ {0}
  PROVE  /\ \A j \in 1 .. n - 1 : /\ LesserOf(n, j + LesserOf(k, j)) \in 1..n
                                  /\ LesserOf(n, j + LesserOf(k, j)) >= j + 1
         /\ \A i, j \in 1 .. n - 1 :
              i <= j => LesserOf(n, i + LesserOf(k, i)) <= LesserOf(n, j + LesserOf(k, j))
BY DEF LesserOf

(* What Recent leaves of the slice: shorter by one if an entry was old, still in
   order, and from its end backwards at least as young as before. *)
LEMMA TrimmedFacts ==
  ASSUME now \in Nat, NEW s \in Seq(0..now), Sorted(s)
  PROVE  /\ Trimmed(s) \in Seq(0..now)
         /\ Sorted(Trimmed(s))
         /\ Len(Trimmed(s)) = IF OldEntries(s) = {} THEN Len(s) ELSE Len(s) - 1
         /\ \A i \in 0 .. Len(s) - 1 :
              Young(s[Len(s) - i]) =>
                /\ i < Len(Trimmed(s))
                /\ Trimmed(s)[Len(Trimmed(s)) - i] >= s[Len(s) - i]
<1> DEFINE k == Cardinality(OldEntries(s))
           t == Shifted(s, k)
<1>1. k \in Nat /\ (k = 0 <=> OldEntries(s) = {})
  BY OldCount
<1>2. CASE k = 0
  <2>1. Trimmed(s) = s
    BY <1>2 DEF Trimmed
  <2> QED
    BY <2>1, <1>1, <1>2
<1>3. CASE k # 0
  <2>1. Trimmed(s) = t
    BY <1>3 DEF Trimmed
  <2>2. PICK o \in 1..Len(s) : ~Young(s[o])
    BY <1>1, <1>3 DEF OldEntries
  <2>3. s[1] <= s[o] /\ 1 \in DOMAIN s /\ Len(s) - 1 \in Nat
    BY <2>2 DEF Sorted
  <2>4. ~Young(s[1])
    BY <2>2, <2>3, ThrottleAssumption DEF Young
  <2> DEFINE at(j) == LesserOf(Len(s), j + LesserOf(k, j))
  <2>5. Len(s) \in Nat /\ k \in Nat \ {0}
    BY <1>1, <1>3
  <2>6. /\ \A j \in 1 .. Len(s) - 1 : at(j) \in 1..Len(s) /\ at(j) >= j + 1
        /\ \A i, j \in 1 .. Len(s) - 1 : i <= j => at(i) <= at(j)
    BY <2>5, CellsBehind
  <2> HIDE DEF at
  <2>7. t = [j \in 1 .. Len(s) - 1 |-> s[at(j)]]
    BY DEF Shifted, at
  <2>8. t \in Seq(0..now) /\ Len(t) = Len(s) - 1
    BY <2>3, <2>6, <2>7
  <2> HIDE DEF t
  <2>9. Sorted(t)
    <3>1. \A i, j \in DOMAIN s : i <= j => s[i] <= s[j]
      BY DEF Sorted
    <3>2. \A j \in DOMAIN t : t[j] = s[at(j)] /\ at(j) \in DOMAIN s
      BY <2>6, <2>7
    <3>3. \A i, j \in DOMAIN t : i <= j => at(i) <= at(j)
      BY <2>6, <2>7
    <3> QED
      BY <3>1, <3>2, <3>3 DEF Sorted
  <2>10. ASSUME NEW i \in 0 .. Len(s) - 1, Young(s[Len(s) - i])
         PROVE  i < Len(t) /\ t[Len(t) - i] >= s[Len(s) - i]
    <3>1. Len(s) - i # 1
      BY <2>10, <2>4
    <3>2. i < Len(t) /\ Len(t) - i \in 1 .. Len(s) - 1
      BY <3>1, <2>8
    <3>3. t[Len(t) - i] = s[at(Len(t) - i)] /\ at(Len(t) - i) >= Len(s) - i
      <4>1. t[Len(t) - i] = s[at(Len(t) - i)]
        BY <3>2, <2>7
      <4>2. at(Len(t) - i) >= (Len(t) - i) + 1 /\ at(Len(t) - i) \in 1..Len(s)
        BY <3>2, <2>6
      <4>3. (Len(t) - i) + 1 = Len(s) - i
        BY <2>8, <2>3
      <4> QED
        BY <4>1, <4>2, <4>3
    <3>4. at(Len(t) - i) \in DOMAIN s /\ Len(s) - i \in DOMAIN s
      <4>1. DOMAIN s = 1..Len(s) /\ Len(s) \in Nat
        OBVIOUS
      <4>2. Len(s) - i \in 1..Len(s)
        BY <4>1
      <4> QED
        BY <3>2, <2>6, <4>1, <4>2
    <3>5. s[Len(s) - i] <= s[at(Len(t) - i)]
      BY <3>3, <3>4, <2>6, <3>2 DEF Sorted
    <3>6. s[Len(s) - i] \in 0..now /\ s[at(Len(t) - i)] \in 0..now
      BY <3>4
    <3> QED
      BY <3>2, <3>3, <3>5, <3>6
  <2> QED
    BY <2>1, <2>8, <2>9, <2>10, <1>1, <1>3
<1> QED
  BY <1>2, <1>3

(* Limit young entries at the end of the slice make Recent refuse. *)
LEMMA YoungTail ==
  ASSUME now \in Nat, NEW s \in Seq(0..now), Sorted(s),
         Len(s) >= Limit, Young(s[Len(s) - (Limit - 1)])
  PROVE  Recent(s) >= Limit
<1> DEFINE T == Len(s) - (Limit - 1) .. Len(s)
<1> USE ThrottleAssumption
<1>1. IsFiniteSet(T) /\ Cardinality(T) = Limit
  BY FS_Interval
<1>2. T \subseteq DOMAIN s \ OldEntries(s)
  BY DEF Sorted, Young, OldEntries
<1>3. IsFiniteSet(DOMAIN s \ OldEntries(s))
  BY OldCount, FS_Subset
<1>4. Cardinality(T) <= Cardinality(DOMAIN s \ OldEntries(s))
  BY <1>2, <1>3, FS_Subset
<1> QED
  BY <1>1, <1>4 DEF Recent

-----------------------------------------------------------------------------
LEMMA Initially == ThrottleInit => ThrottleIInv
BY ThrottleAssumption DEF ThrottleInit, ThrottleIInv, ThrottleTypeOK, Sorted, NoneForgotten, AtMostLimit, StaysShort

(* A look at the throttle keeps what it knows. *)
LEMMA LookKeeps ==
  ASSUME ThrottleIInv
  PROVE  /\ Trimmed(attempts) \in Seq(0..now)
         /\ Sorted(Trimmed(attempts))
         /\ Len(Trimmed(attempts)) <= Len(attempts)
         /\ \A i \in 0 .. Len(failures) - 1 :
              Young(failures[Len(failures) - i]) =>
                /\ i < Len(Trimmed(attempts))
                /\ Trimmed(attempts)[Len(Trimmed(attempts)) - i] >= failures[Len(failures) - i]
<1> DEFINE t == Trimmed(attempts)
<1>1. /\ now \in Nat /\ attempts \in Seq(0..now) /\ Sorted(attempts) /\ failures \in Seq(0..now)
  BY DEF ThrottleIInv, ThrottleTypeOK
<1>2. /\ t \in Seq(0..now) /\ Sorted(t)
      /\ Len(t) = IF OldEntries(attempts) = {} THEN Len(attempts) ELSE Len(attempts) - 1
      /\ \A i \in 0 .. Len(attempts) - 1 :
           Young(attempts[Len(attempts) - i]) =>
             i < Len(t) /\ t[Len(t) - i] >= attempts[Len(attempts) - i]
  BY <1>1, TrimmedFacts
<1> HIDE DEF t
<1>3. ASSUME NEW i \in 0 .. Len(failures) - 1, Young(failures[Len(failures) - i])
      PROVE  i < Len(t) /\ t[Len(t) - i] >= failures[Len(failures) - i]
  <2>1. i < Len(attempts) /\ attempts[Len(attempts) - i] >= failures[Len(failures) - i]
    BY <1>3 DEF ThrottleIInv, NoneForgotten
  <2>2. Len(attempts) - i \in 1..Len(attempts) /\ Len(failures) - i \in 1..Len(failures)
        /\ i \in 0 .. Len(attempts) - 1
    BY <1>1, <2>1
  <2> DEFINE a == attempts[Len(attempts) - i]
             f == failures[Len(failures) - i]
  <2>3. a \in 0..now /\ f \in 0..now
    BY <1>1, <2>2, ElementIn
  <2>4. Young(a)
    <3> HIDE DEF a, f
    <3>1. a >= f /\ Young(f)
      BY <1>3, <2>1 DEF a, f
    <3> QED
      BY <3>1, <1>1, <2>3, ThrottleAssumption DEF Young
  <2>5. i < Len(t) /\ t[Len(t) - i] >= a
    BY <1>2, <2>2, <2>4
  <2>6. Len(t) - i \in 1..Len(t)
    BY <1>2, <2>2, <2>5
  <2>7. t[Len(t) - i] \in 0..now
    BY <1>2, <2>6, ElementIn
  <2> QED
    <3> DEFINE b == t[Len(t) - i]
    <3>1. b >= a /\ a >= f /\ b \in 0..now
      BY <2>1, <2>5, <2>7
    <3> HIDE DEF a, b, f
    <3>2. b >= f
      BY <1>1, <2>3, <3>1
    <3> QED
      BY <2>5, <3>2 DEF b, f
<1>4. Len(t) <= Len(attempts)
  BY <1>1, <1>2
<1> QED
  BY <1>2, <1>3, <1>4 DEF t

LEMMA NotCountedStep == ThrottleIInv /\ NotCounted => ThrottleIInv'
<1> SUFFICES ASSUME ThrottleIInv, NotCounted PROVE ThrottleIInv'
  OBVIOUS
<1> USE DEF NotCounted
<1>1. ThrottleTypeOK'
  BY LookKeeps DEF ThrottleIInv, ThrottleTypeOK
<1>2. Sorted(attempts)' /\ Sorted(failures)'
  BY LookKeeps DEF ThrottleIInv, Sorted
<1>3. NoneForgotten'
  BY LookKeeps DEF NoneForgotten, Young
<1>4. AtMostLimit'
  BY DEF ThrottleIInv, AtMostLimit
<1>5. StaysShort'
  BY LookKeeps, ThrottleAssumption DEF ThrottleIInv, ThrottleTypeOK, StaysShort
<1> QED
  BY <1>1, <1>2, <1>3, <1>4, <1>5 DEF ThrottleIInv

LEMMA BadPasswordStep == ThrottleIInv /\ BadPassword => ThrottleIInv'
<1> SUFFICES ASSUME ThrottleIInv, BadPassword PROVE ThrottleIInv'
  OBVIOUS
<1> DEFINE t == Trimmed(attempts)
<1>1. /\ now \in Nat /\ now' = now
      /\ attempts \in Seq(0..now) /\ Sorted(attempts)
      /\ failures \in Seq(0..now) /\ Sorted(failures)
  BY DEF ThrottleIInv, ThrottleTypeOK, BadPassword
<1>2. /\ t \in Seq(0..now) /\ Sorted(t)
      /\ \A i \in 0 .. Len(failures) - 1 :
           Young(failures[Len(failures) - i]) =>
             i < Len(t) /\ t[Len(t) - i] >= failures[Len(failures) - i]
  BY LookKeeps
<1>3. Len(t) = IF OldEntries(attempts) = {} THEN Len(attempts) ELSE Len(attempts) - 1
  BY <1>1, TrimmedFacts
<1>4. attempts' = Append(t, now) /\ failures' = Append(failures, now) /\ Recent(attempts) < Limit
  BY DEF BadPassword, Stamp, MayTry
<1> HIDE DEF t
<1>5. ThrottleTypeOK'
  BY <1>1, <1>2, <1>4 DEF ThrottleTypeOK
<1>6. Sorted(attempts)' /\ Sorted(failures)'
  <2>1. ASSUME NEW s \in Seq(0..now), Sorted(s) PROVE Sorted(Append(s, now))
    <3>1. \A i \in 1..Len(s) : Append(s, now)[i] = s[i] /\ s[i] \in 0..now
      BY <1>1
    <3>2. Append(s, now)[Len(s) + 1] = now /\ DOMAIN Append(s, now) = 1 .. Len(s) + 1
      OBVIOUS
    <3>3. \A i, j \in 1..Len(s) : i <= j => s[i] <= s[j]
      BY <2>1 DEF Sorted
    <3> QED
      BY <3>1, <3>2, <3>3, <1>1 DEF Sorted
  <2> QED
    BY <2>1, <1>1, <1>2, <1>4 DEF Sorted
<1>7. NoneForgotten'
  <2> SUFFICES ASSUME NEW i \in 0 .. Len(failures') - 1,
                      Young(failures'[Len(failures') - i])
               PROVE  /\ i < Len(attempts')
                      /\ attempts'[Len(attempts') - i] >= failures'[Len(failures') - i]
    BY <1>1 DEF NoneForgotten, Young
  <2>1. /\ Len(failures') = Len(failures) + 1 /\ Len(attempts') = Len(t) + 1
        /\ Len(t) \in Nat /\ Len(failures) \in Nat
    BY <1>1, <1>2, <1>4
  <2>2. CASE i = 0
    BY <2>1, <2>2, <1>1, <1>2, <1>4
  <2>3. CASE i # 0
    <3>1. i - 1 \in 0 .. Len(failures) - 1
      BY <2>1, <2>3
    <3>2. failures'[Len(failures') - i] = failures[Len(failures) - (i - 1)]
      BY <2>1, <2>3, <1>1, <1>4
    <3>3. i - 1 < Len(t) /\ t[Len(t) - (i - 1)] >= failures[Len(failures) - (i - 1)]
      BY <3>1, <3>2, <1>2
    <3>4. attempts'[Len(attempts') - i] = t[Len(t) - (i - 1)]
      BY <3>3, <2>1, <2>3, <1>2, <1>4
    <3> QED
      BY <3>2, <3>3, <3>4, <2>1
  <2> QED
    BY <2>2, <2>3
<1>8. AtMostLimit'
  <2> SUFFICES ASSUME NEW i \in 1 .. Len(failures') - Limit
               PROVE  failures'[i + Limit] - failures'[i] >= Window
    BY DEF AtMostLimit
  <2>1. Len(failures') = Len(failures) + 1 /\ Len(failures) \in Nat
    BY <1>1, <1>4
  <2>2. CASE i + Limit <= Len(failures)
    BY <2>1, <2>2, <1>1, <1>4, ThrottleAssumption DEF ThrottleIInv, AtMostLimit
  <2>3. CASE i + Limit = Len(failures) + 1
    <3> DEFINE f == failures[Len(failures) - (Limit - 1)]
    <3>1. failures'[i + Limit] = now /\ failures'[i] = f /\ f \in 0..now
          /\ Limit - 1 \in 0 .. Len(failures) - 1
      BY <2>1, <2>3, <1>1, <1>4, ThrottleAssumption
    <3>2. ASSUME Young(f) PROVE FALSE
      <4>1. Limit - 1 < Len(attempts) /\ attempts[Len(attempts) - (Limit - 1)] >= f
        BY <3>1, <3>2 DEF ThrottleIInv, NoneForgotten
      <4>2. attempts[Len(attempts) - (Limit - 1)] \in 0..now /\ Len(attempts) >= Limit
        <5>1. Len(attempts) \in Nat /\ Limit \in Nat \ {0} /\ Limit <= Len(attempts)
          BY <4>1, <1>1, ThrottleAssumption
        <5>2. Len(attempts) - (Limit - 1) \in 1 .. Len(attempts)
          BY <5>1
        <5>3. attempts[Len(attempts) - (Limit - 1)] \in 0..now
          BY <5>2, <1>1, ElementIn
        <5> QED
          BY <5>1, <5>3
      <4>3. Young(attempts[Len(attempts) - (Limit - 1)])
        <5> DEFINE a == attempts[Len(attempts) - (Limit - 1)]
        <5>1. a >= f /\ a \in 0..now /\ f \in 0..now /\ now - f < Window
          BY <4>1, <4>2, <3>1, <3>2 DEF Young
        <5> HIDE DEF a, f
        <5>2. now - a < Window
          BY <5>1, <1>1, ThrottleAssumption
        <5> QED
          BY <5>2 DEF Young, a
      <4>4. Recent(attempts) >= Limit
        BY <4>2, <4>3, <1>1, YoungTail
      <4>5. Recent(attempts) \in Nat
        BY <1>1, OldCount, FS_Subset, FS_CardinalityType DEF Recent
      <4> QED
        BY <4>4, <4>5, <1>4, ThrottleAssumption
    <3> QED
      BY <3>1, <3>2, <1>1, ThrottleAssumption DEF Young
  <2> QED
    BY <2>1, <2>2, <2>3, ThrottleAssumption
<1>9. StaysShort'
  <2>1. CASE OldEntries(attempts) = {}
    <3>1. DOMAIN attempts \ OldEntries(attempts) = DOMAIN attempts
      BY <2>1
    <3>2. Recent(attempts) = Len(attempts)
      BY <3>1, <1>1, OldCount DEF Recent
    <3> QED
      BY <3>2, <2>1, <1>1, <1>2, <1>3, <1>4, ThrottleAssumption DEF StaysShort
  <2>2. CASE OldEntries(attempts) # {}
    BY <2>2, <1>1, <1>2, <1>3, <1>4, ThrottleAssumption DEF ThrottleIInv, StaysShort
  <2> QED
    BY <2>1, <2>2
<1> QED
  BY <1>5, <1>6, <1>7, <1>8, <1>9 DEF ThrottleIInv

LEMMA PassStep == ThrottleIInv /\ Pass => ThrottleIInv'
<1> SUFFICES ASSUME ThrottleIInv, Pass PROVE ThrottleIInv'
  OBVIOUS
<1> USE DEF Pass
<1>1. ThrottleTypeOK /\ now' = now + 1 /\ attempts' = attempts /\ failures' = failures
  BY DEF ThrottleIInv
<1>2. ThrottleTypeOK'
  BY <1>1 DEF ThrottleTypeOK
<1>3. NoneForgotten'
  <2> SUFFICES ASSUME NEW i \in 0 .. Len(failures) - 1,
                      Young(failures[Len(failures) - i])'
               PROVE  /\ i < Len(attempts)
                      /\ attempts[Len(attempts) - i] >= failures[Len(failures) - i]
    BY <1>1 DEF NoneForgotten
  <2> DEFINE f == failures[Len(failures) - i]
  <2>1. f \in 0..now /\ now \in Nat
    BY <1>1 DEF ThrottleTypeOK
  <2>2. now + 1 - f < Window
    <3>1. now' - failures'[Len(failures') - i] < Window
      BY DEF Young
    <3>2. now' = now + 1 /\ failures' = failures
      BY <1>1
    <3>3. failures'[Len(failures') - i] = f
      BY <3>2
    <3> HIDE DEF f
    <3>4. now' - f < Window
      BY <3>1, <3>3
    <3> QED
      BY <2>1, <3>2, <3>4
  <2> HIDE DEF f
  <2>3. now - f < Window
    BY <2>1, <2>2, ThrottleAssumption
  <2> QED
    BY <2>3 DEF ThrottleIInv, NoneForgotten, Young, f
<1> QED
  BY <1>1, <1>2, <1>3 DEF ThrottleIInv, Sorted, AtMostLimit, StaysShort

LEMMA StutterStep == ThrottleIInv /\ UNCHANGED throttleVars => ThrottleIInv'
<1> SUFFICES ASSUME ThrottleIInv, UNCHANGED throttleVars PROVE ThrottleIInv'
  OBVIOUS
<1>1. now' = now /\ attempts' = attempts /\ failures' = failures
  BY DEF throttleVars
<1> QED
  BY <1>1 DEF ThrottleIInv, ThrottleTypeOK, Sorted, NoneForgotten, Young, AtMostLimit, StaysShort

LEMMA Inductive == ThrottleSpec => []ThrottleIInv
<1>1. ThrottleIInv /\ [ThrottleNext]_throttleVars => ThrottleIInv'
  BY NotCountedStep, BadPasswordStep, PassStep, StutterStep DEF ThrottleNext
<1> QED
  BY Initially, <1>1, PTL DEF ThrottleSpec

-----------------------------------------------------------------------------
(* throttle.go, Recent: its removal loop, though it takes out the wrong entries,
   never makes a failure that counts disappear from the count. *)
THEOREM ThrottleForgetsNone == ThrottleSpec => []NoneForgotten
<1>1. ThrottleIInv => NoneForgotten
  BY DEF ThrottleIInv
<1> QED
  BY Inductive, <1>1, PTL

(* handleLogin: whatever succession of logins one address makes, at most Limit
   passwords of its are found wrong in any span of Window. *)
THEOREM ThrottleHolds == ThrottleSpec => []AtMostLimit
<1>1. ThrottleIInv => AtMostLimit
  BY DEF ThrottleIInv
<1> QED
  BY Inductive, <1>1, PTL

(* throttle.go: the entries kept for an address stay bounded for good. *)
THEOREM ThrottleStaysShort == ThrottleSpec => []StaysShort
<1>1. ThrottleIInv => StaysShort
  BY DEF ThrottleIInv
<1> QED
  BY Inductive, <1>1, PTL

-----------------------------------------------------------------------------
(* What holds of each of them alone holds of both together: each step of an
   admission is a step of each part, or leaves it as it is. *)

LEMMA ListSteps == AdmissionNext \/ UNCHANGED admissionVars => [Next]_vars
<1>1. CASE Refused \/ WrongPassword \/ Later \/ UNCHANGED admissionVars
  BY <1>1 DEF Refused, WrongPassword, Later, admissionVars, listVars
<1>2. ASSUME NEW p \in Player, Admitted(p)
      PROVE  [Next]_vars
  BY <1>2 DEF Admitted, listVars
<1>3. ASSUME NEW p \in Player, Started(p) \/ InList(p)
      PROVE  [Next]_vars
  BY <1>3 DEF Started, InList, Next
<1> QED
  BY <1>1, <1>2, <1>3 DEF AdmissionNext

LEMMA ThrottleSteps == AdmissionNext \/ UNCHANGED admissionVars => [ThrottleNext]_throttleVars
<1>1. CASE Refused \/ WrongPassword \/ Later \/ UNCHANGED admissionVars
  BY <1>1 DEF Refused, WrongPassword, Later, admissionVars, ThrottleNext
<1>2. ASSUME NEW p \in Player, Admitted(p)
      PROVE  [ThrottleNext]_throttleVars
  BY <1>2 DEF Admitted, ThrottleNext
<1>3. ASSUME NEW p \in Player, Started(p) \/ InList(p)
      PROVE  [ThrottleNext]_throttleVars
  BY <1>3 DEF Started, InList
<1> QED
  BY <1>1, <1>2, <1>3 DEF AdmissionNext

(* Logins and logouts account for the indices, whatever the throttle and
   handleLogin do meanwhile: Put and Remove of world.go. *)
THEOREM AdmissionList == AdmissionSpec => Spec
<1>1. AdmissionInit => Init
  BY DEF AdmissionInit
<1> QED
  BY <1>1, ListSteps, PTL DEF AdmissionSpec, Spec

(* handleLogin uses the throttle as LoginThrottle says: every admission is one of
   its behaviours. *)
THEOREM AdmissionThrottle == AdmissionSpec => ThrottleSpec
<1>1. AdmissionInit => ThrottleInit
  BY DEF AdmissionInit
<1> QED
  BY <1>1, ThrottleSteps, PTL DEF AdmissionSpec, ThrottleSpec

(* So no index is given out twice or lost, and no more than Limit passwords are
   tried within a Window, for any players and whatever interleaving of logins,
   spawned goroutines and logouts (handleLogin, AddPlayer, RemovePlayer). *)
THEOREM AdmissionSafe ==
  AdmissionSpec => []IndexAccounting /\ []NoneForgotten /\ []AtMostLimit
BY AdmissionList, AdmissionThrottle, IndicesAccounted, ThrottleForgetsNone,
   ThrottleHolds, PTL

-----------------------------------------------------------------------------
(* Profiles.  ExactlyOnce is not inductive: that a commit stores what the player
   holds, and that a login loads what nobody else holds, depend on where the
   save and the login are.  Quiet says so, for as long as nothing disturbing has
   happened. *)
Loading(v) == phase[v] \in {"profile", "items"}
Active(v) == Holding(v) \/ Loading(v)

(* A save begins when the player leaves. *)
SaveFollows ==
  \A v \in Visit : save[v] = "none" <=> phase[v] \in {"none", "profile", "items", "loaded", "in", "leaving"}

(* At most one session of an account loads or holds its items, ... *)
OneSession ==
  \A v, w \in Visit : v # w /\ account(v) = account(w) => ~(Active(v) /\ Active(w))

(* ... what it has loaded is still what is stored, and what its save has read
   is still what it holds. *)
LoadedIsStored ==
  \A v \in Visit : phase[v] = "items" => mem[v].inv = stored[account(v)].inv
StagedIsHeld ==
  \A v \in Visit :
    /\ save[v] \in Reading => staged[v].inv = mem[v].inv
    /\ save[v] = "bank" => staged[v].bank = mem[v].bank

Quiet == ~disturbed => OneSession /\ LoadedIsStored /\ StagedIsHeld

ItemsInv == ProfileTypeOK /\ SaveFollows /\ Quiet /\ ExactlyOnce

-----------------------------------------------------------------------------
LEMMA AccountOf == \A v \in Visit : account(v) \in Account
BY ProfileAssumption DEF account

LEMMA FieldsOf ==
  ASSUME NEW f \in [Visit -> Tables], NEW v \in Visit
  PROVE  f[v].inv \in SUBSET Item /\ f[v].bank \in SUBSET Item
BY DEF Tables

LEMMA TablesOf ==
  ASSUME NEW f \in [Visit -> Tables], NEW v \in Visit, NEW S \in SUBSET Item, NEW T \in SUBSET Item
  PROVE  /\ [f EXCEPT ![v].inv = S] \in [Visit -> Tables]
         /\ [f EXCEPT ![v].bank = S] \in [Visit -> Tables]
         /\ [f EXCEPT ![v] = [inv |-> S, bank |-> T]] \in [Visit -> Tables]
<1>1. f[v] = [inv |-> f[v].inv, bank |-> f[v].bank] /\ f[v].inv \in SUBSET Item /\ f[v].bank \in SUBSET Item
  BY DEF Tables
<1>2. [f[v] EXCEPT !.inv = S] \in Tables /\ [f[v] EXCEPT !.bank = S] \in Tables /\ [inv |-> S, bank |-> T] \in Tables
  BY <1>1 DEF Tables
<1> QED
  BY <1>1, <1>2

(* The types, and that a save begins when the player leaves, are kept by every
   step. *)
LEMMA TypesKept == ProfileTypeOK /\ [ProfileNext]_profileVars => ProfileTypeOK'
<1> SUFFICES ASSUME ProfileTypeOK, [ProfileNext]_profileVars PROVE ProfileTypeOK'
  OBVIOUS
<1> USE AccountOf DEF ProfileTypeOK, Phases, Having, Listed, Saves, Ended, Writing, Reading, Disturbing
<1>1. ASSUME NEW v \in Visit, Login(v) PROVE ProfileTypeOK'
  BY <1>1 DEF Login, Away, Holding
<1>2. ASSUME NEW v \in Visit, Loader(v) PROVE ProfileTypeOK'
  <2>1. stored[account(v)].inv \in SUBSET Item /\ stored[account(v)].bank \in SUBSET Item
    BY DEF Tables
  <2>2. /\ [mem EXCEPT ![v].inv = stored[account(v)].inv] \in [Visit -> Tables]
        /\ [mem EXCEPT ![v].bank = stored[account(v)].bank] \in [Visit -> Tables]
    BY <2>1, TablesOf
  <2>3. mem' \in [Visit -> Tables]
    BY <1>2, <2>2 DEF Loader, LoadInventory, LoadBank, AddPlayer
  <2> QED
    BY <1>2, <2>3 DEF Loader, LoadInventory, LoadBank, AddPlayer
<1>3. ASSUME NEW v \in Visit, Handler(v) PROVE ProfileTypeOK'
  <2>1. PICK i \in Item : Deposit(v, i) \/ Withdraw(v, i) \/ Drop(v, i) \/ Pickup(v, i)
    BY <1>3 DEF Handler
  <2>2. \A S \in {mem[v].inv, mem[v].bank} : S \ {i} \in SUBSET Item /\ S \cup {i} \in SUBSET Item
    <3>1. {mem[v].inv, mem[v].bank} \subseteq SUBSET Item /\ i \in Item
      BY <2>1, FieldsOf
    <3> QED
      BY <3>1
  <2>3. mem' \in [Visit -> Tables]
    <3>1. CASE Deposit(v, i)
      <4>1. mem' = [mem EXCEPT ![v] = [inv |-> mem[v].inv \ {i}, bank |-> mem[v].bank \cup {i}]]
        BY <3>1 DEF Deposit
      <4> QED
        BY <2>2, <4>1, TablesOf
    <3>2. CASE Withdraw(v, i)
      <4>1. mem' = [mem EXCEPT ![v] = [inv |-> mem[v].inv \cup {i}, bank |-> mem[v].bank \ {i}]]
        BY <3>2 DEF Withdraw
      <4> QED
        BY <2>2, <4>1, TablesOf
    <3>3. CASE Drop(v, i)
      <4>1. mem' = [mem EXCEPT ![v].inv = mem[v].inv \ {i}]
        BY <3>3 DEF Drop
      <4> QED
        BY <2>2, <4>1, TablesOf
    <3>4. CASE Pickup(v, i)
      <4>1. mem' = [mem EXCEPT ![v].inv = mem[v].inv \cup {i}]
        BY <3>4 DEF Pickup
      <4> QED
        BY <2>2, <4>1, TablesOf
    <3> QED
      BY <2>1, <3>1, <3>2, <3>3, <3>4
  <2>4. ground' \in SUBSET Item
    BY <2>1 DEF Deposit, Withdraw, Drop, Pickup
  <2> QED
    BY <2>1, <2>3, <2>4 DEF Deposit, Withdraw, Drop, Pickup, Handling
<1>4. ASSUME NEW v \in Visit, Disconnect(v) \/ Destroyer(v) PROVE ProfileTypeOK'
  BY <1>4 DEF Disconnect, Destroyer, StartSave, Delist
<1>5. ASSUME NEW v \in Visit, Saver(v) PROVE ProfileTypeOK'
  <2>1. staged' \in [Visit -> Tables]
    <3>1. Empty \in Tables
      BY DEF Empty, Tables
    <3>2. mem[v].inv \in SUBSET Item /\ mem[v].bank \in SUBSET Item
      BY FieldsOf
    <3>3. /\ [staged EXCEPT ![v].inv = mem[v].inv] \in [Visit -> Tables]
          /\ [staged EXCEPT ![v].bank = mem[v].bank] \in [Visit -> Tables]
      BY <3>2, TablesOf
    <3> QED
      BY <1>5, <3>1, <3>3 DEF Saver, OpenTx, InsertItems, InsertBank, Commit
  <2>2. stored' \in [Account -> Tables]
    BY <1>5 DEF Saver, OpenTx, InsertItems, InsertBank, Commit
  <2> QED
    BY <1>5, <2>1, <2>2 DEF Saver, OpenTx, InsertItems, InsertBank, Commit
<1>6. Empty \in Tables
  BY DEF Empty, Tables
<1>7. ASSUME (\E v \in Visit : GiveUp(v)) \/ Crash PROVE ProfileTypeOK'
  <2>1. CASE \E v \in Visit : GiveUp(v)
    BY <1>6, <2>1 DEF GiveUp
  <2>2. CASE Crash
    BY <1>6, <2>2 DEF Crash
  <2> QED
    BY <1>7, <2>1, <2>2
<1>8. CASE UNCHANGED profileVars
  BY <1>8 DEF profileVars
<1> QED
  BY <1>1, <1>2, <1>3, <1>4, <1>5, <1>7, <1>8 DEF ProfileNext

LEMMA SaveFollowsKept == ProfileTypeOK /\ SaveFollows /\ [ProfileNext]_profileVars => SaveFollows'
<1> SUFFICES ASSUME ProfileTypeOK, SaveFollows, [ProfileNext]_profileVars PROVE SaveFollows'
  OBVIOUS
<1> USE DEF ProfileTypeOK, SaveFollows, Phases, Having, Listed, Saves, Ended, Writing, Reading
<1>1. ASSUME NEW v \in Visit, Login(v) \/ Loader(v) PROVE SaveFollows'
  BY <1>1 DEF Login, Loader, LoadInventory, LoadBank, AddPlayer
<1>2. ASSUME NEW v \in Visit, Handler(v) PROVE SaveFollows'
  BY <1>2 DEF Handler, Deposit, Withdraw, Drop, Pickup, Handling
<1>3. ASSUME NEW v \in Visit, Disconnect(v) \/ Destroyer(v) PROVE SaveFollows'
  BY <1>3 DEF Disconnect, Destroyer, StartSave, Delist
<1>4. ASSUME NEW v \in Visit, Saver(v) \/ GiveUp(v) PROVE SaveFollows'
  BY <1>4 DEF Saver, OpenTx, InsertItems, InsertBank, Commit, GiveUp
<1>5. CASE Crash
  BY <1>5 DEF Crash
<1>6. CASE UNCHANGED profileVars
  BY <1>6 DEF profileVars
<1> QED
  BY <1>1, <1>2, <1>3, <1>4, <1>5, <1>6 DEF ProfileNext

-----------------------------------------------------------------------------
(* Quiet is kept: what a step that disturbs nothing does to who is active and
   to what has been loaded and staged. *)
LEMMA QuietKept == ProfileTypeOK /\ SaveFollows /\ Quiet /\ [ProfileNext]_profileVars => Quiet'
<1> SUFFICES ASSUME ProfileTypeOK, SaveFollows, Quiet, [ProfileNext]_profileVars, ~disturbed'
             PROVE  (OneSession /\ LoadedIsStored /\ StagedIsHeld)'
  BY DEF Quiet
<1>1. ~disturbed
  BY DEF ProfileNext, profileVars, Login, Loader, LoadInventory, LoadBank, AddPlayer, Handler, Deposit, Withdraw, Drop, Pickup,
         Handling, Disconnect, Destroyer, StartSave, Delist, Saver, OpenTx, InsertItems, InsertBank,
         Commit, GiveUp, Crash, Disturbing
<1>2. OneSession /\ LoadedIsStored /\ StagedIsHeld
  BY <1>1 DEF Quiet
<1> USE DEF ProfileTypeOK, SaveFollows, Phases, Having, Listed, Saves, Ended, Writing, Reading
<1>3. ASSUME NEW v \in Visit, Login(v) PROVE (OneSession /\ LoadedIsStored /\ StagedIsHeld)'
  <2>1. Away(account(v)) /\ EngineFree
    BY <1>3 DEF Login, Disturbing
  <2>2. \A w \in Visit : account(w) = account(v) => ~Active(w)
    BY <2>1 DEF Away, EngineFree, Active, Loading
  <2>3. \A w \in Visit : w # v => Active(w)' = Active(w)
    BY <1>3 DEF Login, Active, Loading, Holding, Having, Ended
  <2>4. OneSession'
    BY <1>2, <2>2, <2>3 DEF OneSession
  <2> QED
    BY <1>2, <1>3, <2>4 DEF Login, LoadedIsStored, StagedIsHeld
<1>4. ASSUME NEW v \in Visit, Loader(v) PROVE (OneSession /\ LoadedIsStored /\ StagedIsHeld)'
  <2>1. \A w \in Visit : Active(w)' = Active(w)
    BY <1>4 DEF Loader, LoadInventory, LoadBank, AddPlayer, Active, Loading, Holding, Having, Ended
  <2>2. OneSession'
    BY <1>2, <2>1 DEF OneSession
  <2>3. save[v] = "none"
    BY <1>4 DEF Loader, LoadInventory, LoadBank, AddPlayer
  <2>4. LoadedIsStored'
    <3>1. CASE LoadInventory(v)
      <4>1. /\ mem[v] \in Tables
            /\ mem' = [mem EXCEPT ![v].inv = stored[account(v)].inv] /\ stored' = stored
            /\ phase' = [phase EXCEPT ![v] = "items"]
        BY <3>1 DEF LoadInventory
      <4>2. mem'[v].inv = stored[account(v)].inv
        BY <4>1 DEF Tables
      <4> QED
        BY <1>2, <4>1, <4>2 DEF LoadedIsStored
    <3>2. CASE LoadBank(v)
      BY <1>2, <3>2 DEF LoadBank, LoadedIsStored
    <3>3. CASE AddPlayer(v)
      BY <1>2, <3>3 DEF AddPlayer, LoadedIsStored
    <3> QED
      BY <1>4, <3>1, <3>2, <3>3 DEF Loader
  <2> QED
    BY <1>2, <1>4, <2>2, <2>3, <2>4 DEF Loader, LoadInventory, LoadBank, AddPlayer, StagedIsHeld
<1>5. ASSUME NEW v \in Visit, Handler(v) PROVE (OneSession /\ LoadedIsStored /\ StagedIsHeld)'
  <2>1. /\ UNCHANGED <<stored, phase, save, staged>> /\ EngineFree
        /\ save[v] \notin Reading /\ \A w \in Visit : w # v => mem'[w] = mem[w]
    BY <1>5 DEF Handler, Deposit, Withdraw, Drop, Pickup, Handling, Disturbing
  <2> QED
    BY <1>2, <2>1 DEF EngineFree, OneSession, Active, Loading, Holding, Having, Ended, LoadedIsStored, StagedIsHeld
<1>6. ASSUME NEW v \in Visit, Disconnect(v) \/ Destroyer(v)
      PROVE  (OneSession /\ LoadedIsStored /\ StagedIsHeld)'
  <2>1. \A w \in Visit : Active(w)' = Active(w)
    BY <1>6 DEF Disconnect, Destroyer, StartSave, Delist, Active, Loading, Holding, Having, Ended
  <2> QED
    BY <1>2, <1>6, <2>1 DEF Disconnect, Destroyer, StartSave, Delist, OneSession, LoadedIsStored, StagedIsHeld
<1>7. ASSUME NEW v \in Visit, Saver(v) PROVE (OneSession /\ LoadedIsStored /\ StagedIsHeld)'
  <2>1. \A w \in Visit : Active(w)' => Active(w)
    BY <1>7 DEF Saver, OpenTx, InsertItems, InsertBank, Commit, Active, Loading, Holding, Having, Ended
  <2>2. Active(v)
    BY <1>7 DEF Saver, OpenTx, InsertItems, InsertBank, Commit, Active, Holding, Having, Ended
  <2>3. OneSession'
    BY <1>2, <1>7, <2>1 DEF OneSession
  <2>4. LoadedIsStored'
    <3>1. ASSUME NEW w \in Visit, phase'[w] = "items" PROVE stored'[account(w)] = stored[account(w)]
      <4>1. phase[w] = "items" /\ w # v
        BY <1>7, <3>1 DEF Saver, OpenTx, InsertItems, InsertBank, Commit
      <4>2. account(w) # account(v)
        BY <1>2, <2>2, <4>1 DEF OneSession, Active, Loading
      <4>3. account(v) \in Account /\ account(w) \in Account
        BY AccountOf
      <4> QED
        BY <1>7, <4>2, <4>3 DEF Saver, OpenTx, InsertItems, InsertBank, Commit
    <3> QED
      BY <1>2, <1>7, <3>1 DEF Saver, OpenTx, InsertItems, InsertBank, Commit, LoadedIsStored
  <2>5. StagedIsHeld'
    BY <1>2, <1>7 DEF Saver, OpenTx, InsertItems, InsertBank, Commit, StagedIsHeld, Tables
  <2> QED
    BY <1>2, <1>7, <2>3, <2>4, <2>5 DEF Saver, OpenTx, InsertItems, InsertBank, Commit
<1>8. ASSUME NEW v \in Visit, GiveUp(v) PROVE (OneSession /\ LoadedIsStored /\ StagedIsHeld)'
  <2>1. \A w \in Visit : Active(w)' => Active(w)
    BY <1>8 DEF GiveUp, Active, Loading, Holding, Ended
  <2> QED
    BY <1>2, <1>8, <2>1 DEF GiveUp, OneSession, LoadedIsStored, StagedIsHeld
<1>9. CASE Crash
  <2>1. \A w \in Visit : ~Active(w)'
    BY <1>9 DEF Crash, Active, Loading, Holding, Having, Ended
  <2> QED
    BY <1>9, <2>1 DEF Crash, OneSession, LoadedIsStored, StagedIsHeld, Ended
<1>10. CASE UNCHANGED profileVars
  BY <1>2, <1>10 DEF profileVars, OneSession, Active, Loading, Holding, Having, Ended, LoadedIsStored, StagedIsHeld
<1> QED
  BY <1>3, <1>4, <1>5, <1>6, <1>7, <1>8, <1>9, <1>10 DEF ProfileNext

-----------------------------------------------------------------------------
(* ExactlyOnce is kept.  Nothing changes hands in a step that leaves who holds
   items, what they hold and what lies on the ground or is stored as it is. *)
LEMMA NothingMoves ==
  ASSUME WholeTables, NoTwoPlaces, NoneMissing, UNCHANGED <<stored, ground>>,
         \A w \in Visit : Holding(w)' = Holding(w),
         \A w \in Visit : Holding(w) => Of(mem'[w]) = Of(mem[w]) /\ Whole(mem'[w])
  PROVE  (WholeTables /\ NoTwoPlaces /\ NoneMissing)'
<1>1. \A w \in Visit : Carried(w)' = Carried(w)
  BY DEF Carried
<1>2. \A a \in Account : Away(a)' = Away(a)
  BY DEF Away
<1>3. \A a \in Account : Kept(a)' = Kept(a)
  BY <1>2 DEF Kept
<1>4. WholeTables'
  BY <1>2 DEF WholeTables
<1>5. NoTwoPlaces' /\ NoneMissing'
  BY <1>1, <1>3 DEF NoTwoPlaces, NoneMissing
<1> QED
  BY <1>4, <1>5

(* An item that is dropped or picked up is where it was not before. *)
LEMMA HandlersMove ==
  ASSUME ProfileTypeOK, SaveFollows, WholeTables, NoTwoPlaces, NoneMissing, ~disturbed',
         NEW v \in Visit, Handler(v)
  PROVE  (WholeTables /\ NoTwoPlaces /\ NoneMissing)'
<1>1. PICK i \in Item : Deposit(v, i) \/ Withdraw(v, i) \/ Drop(v, i) \/ Pickup(v, i)
  BY DEF Handler
<1>2. /\ UNCHANGED <<stored, phase, save>> /\ Holding(v)
      /\ \A w \in Visit : w # v => mem'[w] = mem[w]
  BY <1>1 DEF Deposit, Withdraw, Drop, Pickup, Handling, Disturbing, Holding, Having, Ended, SaveFollows, Listed, ProfileTypeOK
<1>3. /\ \A w \in Visit : Holding(w)' = Holding(w)
      /\ \A a \in Account : Away(a)' = Away(a)
  BY <1>2 DEF Holding, Away
<1>4. \A a \in Account : Kept(a)' = Kept(a)
  BY <1>2, <1>3 DEF Kept
<1>5. \A w \in Visit : w # v => Carried(w)' = Carried(w)
  BY <1>2, <1>3 DEF Carried
<1>6. Whole(mem[v]) /\ Carried(v) = Of(mem[v]) /\ Carried(v)' = Of(mem'[v])
  BY <1>2, <1>3 DEF WholeTables, Carried
<1>7. mem[v] \in Tables
  BY DEF ProfileTypeOK
<1>8. ASSUME Whole(mem'[v]) PROVE WholeTables'
  BY <1>2, <1>3, <1>8 DEF WholeTables
<1>9. CASE Deposit(v, i) \/ Withdraw(v, i)
  <2>1. \/ i \in mem[v].inv /\ mem'[v] = [inv |-> mem[v].inv \ {i}, bank |-> mem[v].bank \cup {i}]
        \/ i \in mem[v].bank /\ mem'[v] = [inv |-> mem[v].inv \cup {i}, bank |-> mem[v].bank \ {i}]
    BY <1>9 DEF Deposit, Withdraw, ProfileTypeOK
  <2>2. Whole(mem'[v]) /\ Of(mem'[v]) = Of(mem[v])
    BY <1>6, <2>1 DEF Whole, Of
  <2>3. ground' = ground
    BY <1>9 DEF Deposit, Withdraw
  <2> QED
    BY <1>2, <1>3, <2>2, <2>3, NothingMoves DEF WholeTables
<1>10. CASE Drop(v, i)
  <2>1. i \in mem[v].inv /\ mem'[v].inv = mem[v].inv \ {i} /\ mem'[v].bank = mem[v].bank
    BY <1>7, <1>10 DEF Drop, ProfileTypeOK, Tables
  <2>2. Whole(mem'[v]) /\ Carried(v)' = Carried(v) \ {i} /\ i \in Carried(v)
    BY <1>6, <2>1 DEF Whole, Of
  <2>3. ground' = ground \cup {i}
    BY <1>10 DEF Drop
  <2>4. NoTwoPlaces'
    BY <1>4, <1>5, <2>2, <2>3 DEF NoTwoPlaces
  <2>5. NoneMissing'
    BY <1>4, <1>5, <2>2, <2>3 DEF NoneMissing
  <2> QED
    BY <1>8, <2>2, <2>4, <2>5
<1>11. CASE Pickup(v, i)
  <2>1. i \in ground /\ mem'[v].inv = mem[v].inv \cup {i} /\ mem'[v].bank = mem[v].bank
    BY <1>7, <1>11 DEF Pickup, ProfileTypeOK, Tables
  <2>2. i \notin Carried(v)
    BY <2>1 DEF NoTwoPlaces
  <2>3. Whole(mem'[v]) /\ Carried(v)' = Carried(v) \cup {i}
    BY <1>6, <2>1, <2>2 DEF Whole, Of
  <2>4. ground' = ground \ {i}
    BY <1>11 DEF Pickup
  <2>5. NoTwoPlaces'
    BY <1>4, <1>5, <2>1, <2>3, <2>4 DEF NoTwoPlaces
  <2>6. NoneMissing'
    BY <1>4, <1>5, <2>3, <2>4 DEF NoneMissing
  <2> QED
    BY <1>8, <2>3, <2>5, <2>6
<1> QED
  BY <1>1, <1>9, <1>10, <1>11

(* The end of a login takes what is stored, ... *)
LEMMA LoginsMove ==
  ASSUME ProfileTypeOK, SaveFollows, OneSession, LoadedIsStored, WholeTables, NoTwoPlaces, NoneMissing,
         NEW v \in Visit, LoadBank(v)
  PROVE  (WholeTables /\ NoTwoPlaces /\ NoneMissing)'
<1> DEFINE a == account(v)
<1>1. /\ UNCHANGED <<stored, save, ground>> /\ phase[v] = "items" /\ a \in Account
      /\ phase' = [phase EXCEPT ![v] = "loaded"]
      /\ mem' = [mem EXCEPT ![v].bank = stored[a].bank]
  BY AccountOf DEF LoadBank
<1>2. /\ \A w \in Visit : w # v => mem'[w] = mem[w]
      /\ mem'[v].inv = stored[a].inv /\ mem'[v].bank = stored[a].bank
  BY <1>1 DEF ProfileTypeOK, Tables, LoadedIsStored
<1>3. save[v] = "none" /\ ~Holding(v) /\ Holding(v)'
  BY <1>1 DEF SaveFollows, Holding, Having, Ended, Listed, ProfileTypeOK
<1>4. \A w \in Visit : w # v => Holding(w)' = Holding(w)
  BY <1>1 DEF Holding, Having, ProfileTypeOK
<1>5. Away(a) /\ ~Away(a)'
  BY <1>1, <1>3 DEF OneSession, Active, Loading, Away
<1>6. \A b \in Account : b # a => Away(b)' = Away(b)
  BY <1>4 DEF Away
<1>7. \A w \in Visit : w # v => Carried(w)' = Carried(w)
  BY <1>2, <1>4 DEF Carried
<1>8. Carried(v) = {} /\ Carried(v)' = Kept(a) /\ Kept(a)' = {}
  BY <1>2, <1>3, <1>5 DEF Carried, Kept, Of
<1>9. \A b \in Account : b # a => Kept(b)' = Kept(b)
  BY <1>1, <1>6 DEF Kept
<1>10. WholeTables'
  BY <1>1, <1>2, <1>3, <1>4, <1>5, <1>6 DEF WholeTables, Whole
<1>11. NoTwoPlaces'
  BY <1>1, <1>7, <1>8, <1>9 DEF NoTwoPlaces
<1>12. NoneMissing'
  BY <1>1, <1>7, <1>8, <1>9 DEF NoneMissing
<1> QED
  BY <1>10, <1>11, <1>12

(* ... and a commit puts what the player holds there. *)
LEMMA CommitsMove ==
  ASSUME ProfileTypeOK, SaveFollows, OneSession, StagedIsHeld, WholeTables, NoTwoPlaces, NoneMissing,
         NEW v \in Visit, Commit(v)
  PROVE  (WholeTables /\ NoTwoPlaces /\ NoneMissing)'
<1> DEFINE a == account(v)
<1>1. /\ UNCHANGED <<phase, mem, ground>> /\ save[v] = "bank" /\ a \in Account
      /\ save' = [save EXCEPT ![v] = "done"]
      /\ stored' = [stored EXCEPT ![a] = staged[v]]
  BY AccountOf DEF Commit
<1>2. staged[v] = mem[v]
  <2>1. staged[v].inv = mem[v].inv /\ staged[v].bank = mem[v].bank
    BY <1>1 DEF StagedIsHeld, Reading
  <2> QED
    BY <2>1 DEF ProfileTypeOK, Tables
<1>3. stored'[a] = mem[v] /\ \A b \in Account : b # a => stored'[b] = stored[b]
  BY <1>1, <1>2 DEF ProfileTypeOK
<1>4. Holding(v) /\ ~Holding(v)'
  BY <1>1 DEF SaveFollows, Holding, Having, Ended, Listed, Phases, ProfileTypeOK
<1>5. \A w \in Visit : w # v => Holding(w)' = Holding(w)
  BY <1>1 DEF Holding, ProfileTypeOK
<1>6. ~Away(a) /\ Away(a)'
  BY <1>4, <1>5 DEF OneSession, Active, Away
<1>7. \A b \in Account : b # a => Away(b)' = Away(b)
  BY <1>5 DEF Away
<1>8. \A w \in Visit : w # v => Carried(w)' = Carried(w)
  BY <1>1, <1>5 DEF Carried
<1>9. Carried(v)' = {} /\ Kept(a)' = Carried(v) /\ Kept(a) = {}
  BY <1>3, <1>4, <1>6 DEF Carried, Kept
<1>10. \A b \in Account : b # a => Kept(b)' = Kept(b)
  BY <1>3, <1>7 DEF Kept
<1>11. WholeTables'
  BY <1>1, <1>3, <1>4, <1>5, <1>7 DEF WholeTables
<1>12. NoTwoPlaces'
  BY <1>1, <1>8, <1>9, <1>10 DEF NoTwoPlaces
<1>13. NoneMissing'
  BY <1>1, <1>8, <1>9, <1>10 DEF NoneMissing
<1> QED
  BY <1>11, <1>12, <1>13

(* What is stored was held by one player at once: by the one whose commit was the
   last, as nobody changes what it holds from then on. *)
LEMMA SavedTogetherKept == ItemsInv /\ [ProfileNext]_profileVars /\ ~disturbed' => SavedTogether'
<1> SUFFICES ASSUME ItemsInv, [ProfileNext]_profileVars, ~disturbed' PROVE SavedTogether'
  OBVIOUS
<1>1. ~disturbed
  BY DEF ProfileNext, profileVars, Login, Loader, LoadInventory, LoadBank, AddPlayer, Handler, Deposit, Withdraw, Drop, Pickup,
         Handling, Disconnect, Destroyer, StartSave, Delist, Saver, OpenTx, InsertItems, InsertBank,
         Commit, GiveUp, Crash, Disturbing
<1>2. ProfileTypeOK /\ SaveFollows /\ StagedIsHeld /\ SavedTogether
  BY <1>1 DEF ItemsInv, Quiet, ExactlyOnce
<1>3. ASSUME stored' = stored, \A v \in Visit : save[v] = "done" => save'[v] = "done" /\ mem'[v] = mem[v]
      PROVE  SavedTogether'
  BY <1>2, <1>3 DEF SavedTogether
<1> USE DEF ProfileTypeOK, SaveFollows
<1>4. ASSUME NEW v \in Visit, Login(v) \/ Loader(v) \/ Disconnect(v) \/ Destroyer(v) PROVE SavedTogether'
  BY <1>2, <1>3, <1>4 DEF Login, Loader, LoadInventory, LoadBank, AddPlayer, Disconnect, Destroyer, StartSave, Delist
<1>5. ASSUME NEW v \in Visit, Handler(v) PROVE SavedTogether'
  BY <1>2, <1>3, <1>5 DEF Handler, Deposit, Withdraw, Drop, Pickup, Handling, Disturbing, Ended
<1>6. ASSUME NEW v \in Visit, OpenTx(v) \/ InsertItems(v) \/ InsertBank(v) \/ GiveUp(v) PROVE SavedTogether'
  BY <1>2, <1>3, <1>6 DEF OpenTx, InsertItems, InsertBank, GiveUp
<1>7. ASSUME NEW v \in Visit, Commit(v) PROVE SavedTogether'
  <2>1. account(v) \in Account /\ save[v] = "bank" /\ UNCHANGED mem
        /\ save' = [save EXCEPT ![v] = "done"] /\ stored' = [stored EXCEPT ![account(v)] = staged[v]]
    BY <1>7, AccountOf DEF Commit
  <2>2. staged[v].inv = mem[v].inv /\ staged[v].bank = mem[v].bank
    BY <1>2, <2>1 DEF StagedIsHeld, Reading
  <2>3. staged[v] = mem[v]
    BY <1>2, <2>2 DEF Tables
  <2>4. save'[v] = "done" /\ stored'[account(v)] = mem'[v]
    BY <1>2, <2>1, <2>3
  <2>5. \A w \in Visit : save[w] = "done" => save'[w] = "done" /\ mem'[w] = mem[w]
    BY <1>2, <2>1
  <2>6. \A a \in Account : a # account(v) => stored'[a] = stored[a]
    BY <1>2, <2>1
  <2> QED
    BY <1>2, <2>4, <2>5, <2>6 DEF SavedTogether
<1>8. CASE Crash
  BY <1>2, <1>3, <1>8 DEF Crash, Ended
<1>9. CASE UNCHANGED profileVars
  BY <1>2, <1>3, <1>9 DEF profileVars
<1> QED
  BY <1>4, <1>5, <1>6, <1>7, <1>8, <1>9 DEF ProfileNext, Saver

LEMMA ExactlyOnceKept == ItemsInv /\ [ProfileNext]_profileVars => ExactlyOnce'
<1> SUFFICES ASSUME ItemsInv, [ProfileNext]_profileVars, ~disturbed', ~broken'
             PROVE  (WholeTables /\ NoTwoPlaces /\ NoneMissing)'
  BY SavedTogetherKept DEF ExactlyOnce
<1>1. ~disturbed /\ ~broken
  <2>1. disturbed => disturbed'
    BY DEF ProfileNext, profileVars, Login, Loader, LoadInventory, LoadBank, AddPlayer, Handler, Deposit, Withdraw, Drop, Pickup,
           Handling, Disconnect, Destroyer, StartSave, Delist, Saver, OpenTx, InsertItems, InsertBank,
           Commit, GiveUp, Crash, Disturbing
  <2>2. broken => broken'
    BY DEF ProfileNext, profileVars, Login, Loader, LoadInventory, LoadBank, AddPlayer, Handler, Deposit, Withdraw, Drop, Pickup,
           Handling, Disconnect, Destroyer, StartSave, Delist, Saver, OpenTx, InsertItems, InsertBank,
           Commit, GiveUp, Crash, Disturbing
  <2> QED
    BY <2>1, <2>2
<1>2. /\ ProfileTypeOK /\ SaveFollows /\ OneSession /\ LoadedIsStored /\ StagedIsHeld
      /\ WholeTables /\ NoTwoPlaces /\ NoneMissing
  BY <1>1 DEF ItemsInv, Quiet, ExactlyOnce
<1>3. ASSUME NEW v \in Visit, Login(v) \/ LoadInventory(v) \/ AddPlayer(v) \/ Disconnect(v) \/ Destroyer(v)
      PROVE  (WholeTables /\ NoTwoPlaces /\ NoneMissing)'
  <2>1. /\ UNCHANGED <<stored, ground>> /\ \A w \in Visit : Holding(w)' = Holding(w)
        /\ \A w \in Visit : Holding(w) => mem'[w] = mem[w]
    BY <1>2, <1>3 DEF Login, LoadInventory, AddPlayer, Disconnect, Destroyer, StartSave, Delist, Holding, Having, Ended, Listed,
                      ProfileTypeOK, SaveFollows
  <2> QED
    BY <1>2, <2>1, NothingMoves DEF WholeTables
<1>4. ASSUME NEW v \in Visit, OpenTx(v) \/ InsertItems(v) \/ InsertBank(v)
      PROVE  (WholeTables /\ NoTwoPlaces /\ NoneMissing)'
  <2>1. UNCHANGED <<stored, ground, mem>> /\ \A w \in Visit : Holding(w)' = Holding(w)
    BY <1>2, <1>4 DEF OpenTx, InsertItems, InsertBank, Holding, Ended, ProfileTypeOK
  <2> QED
    BY <1>2, <2>1, NothingMoves DEF WholeTables
<1>5. ASSUME NEW v \in Visit, Handler(v) PROVE (WholeTables /\ NoTwoPlaces /\ NoneMissing)'
  BY <1>2, <1>5, HandlersMove
<1>6. ASSUME NEW v \in Visit, LoadBank(v) PROVE (WholeTables /\ NoTwoPlaces /\ NoneMissing)'
  BY <1>2, <1>6, LoginsMove
<1>7. ASSUME NEW v \in Visit, Commit(v) PROVE (WholeTables /\ NoTwoPlaces /\ NoneMissing)'
  BY <1>2, <1>7, CommitsMove
<1>8. ASSUME NEW v \in Visit, GiveUp(v) PROVE FALSE
  BY <1>8 DEF GiveUp
<1>9. CASE Crash
  BY <1>9 DEF Crash
<1>10. CASE UNCHANGED profileVars
  BY <1>2, <1>10, NothingMoves DEF profileVars, Holding, WholeTables
<1> QED
  BY <1>3, <1>4, <1>5, <1>6, <1>7, <1>8, <1>9, <1>10 DEF ProfileNext, Loader, Saver

-----------------------------------------------------------------------------
(* At first everything is in the tables. *)
FirstApart ==
  /\ \A a \in Account : Whole(FirstStored[a])
  /\ \A a, b \in Account : a # b => Of(FirstStored[a]) \cap Of(FirstStored[b]) = {}

LEMMA InitItems == FirstApart /\ ProfileInit => ItemsInv
<1> SUFFICES ASSUME FirstApart, ProfileInit PROVE ItemsInv
  OBVIOUS
<1>1. ProfileTypeOK
  BY ProfileAssumption DEF ProfileInit, ProfileTypeOK, Tables, Empty, Phases, Saves
<1>2. \A v \in Visit : ~Holding(v) /\ ~Loading(v) /\ ~Active(v)
  BY DEF ProfileInit, Holding, Having, Loading, Active, Listed
<1>3. SaveFollows /\ Quiet
  BY <1>2 DEF ProfileInit, SaveFollows, Quiet, OneSession, LoadedIsStored, StagedIsHeld, Reading
<1>4. \A a \in Account : Away(a) /\ Kept(a) = Of(FirstStored[a])
  BY <1>2 DEF ProfileInit, Away, Kept
<1>5. \A v \in Visit : Carried(v) = {}
  BY <1>2 DEF Carried
<1>6. WholeTables
  BY <1>2 DEF ProfileInit, WholeTables, FirstApart
<1>7. NoTwoPlaces /\ NoneMissing
  BY <1>4, <1>5 DEF ProfileInit, NoTwoPlaces, NoneMissing, FirstApart
<1> QED
  BY <1>1, <1>3, <1>6, <1>7 DEF ProfileInit, ItemsInv, ExactlyOnce, SavedTogether

LEMMA NextItems == ItemsInv /\ [ProfileNext]_profileVars => ItemsInv'
BY TypesKept, SaveFollowsKept, QuietKept, ExactlyOnceKept DEF ItemsInv

(* The state of every account, player object and save is one the model allows,
   for any accounts, visits and items. *)
THEOREM ProfileTypes == ProfileSpec => []ProfileTypeOK
<1>1. ProfileInit => ProfileTypeOK
  <2> SUFFICES ASSUME ProfileInit PROVE ProfileTypeOK
    OBVIOUS
  <2> QED
    BY ProfileAssumption DEF ProfileInit, ProfileTypeOK, Tables, Empty, Phases, Saves
<1> QED
  BY <1>1, TypesKept, PTL DEF ProfileSpec

(* If no item is in two places at first, every item is in exactly one, until an
   account comes back before its save is done, a handler runs after the save has
   read, a save fails or the process ends: PlayerLoad and PlayerSave neither
   lose nor double anything by themselves.  And of the first two apart, what is
   stored of an account was held by one player at one moment, whatever failed. *)
THEOREM ItemsExactlyOnce == FirstApart /\ ProfileSpec => []ExactlyOnce
<1>1. ItemsInv => ExactlyOnce
  BY DEF ItemsInv
<1> QED
  BY <1>1, InitItems, NextItems, PTL DEF ProfileSpec
=============================================================================
