-------------------------- MODULE GroundItemProofs --------------------------
(* Proofs about GroundItem: for any players, items and visibility stages, no
   spawned item is ever left out of the world, and a private item is picked up
   by its owner only, an administrator excepted. *)
EXTENDS GroundItem, SequenceTheorems, FiniteSetTheorems, WellFoundedInduction, TLAPS

(* The natural numbers being well founded, a set of them has a least one. *)
LEMMA LeastExists ==
  ASSUME NEW I \in SUBSET Nat, I # {}
  PROVE  Min(I) \in I
<1> DEFINE Below == {ss \in Nat \X Nat : ss[1] < ss[2]}
<1>1. IsWellFoundedOn(Below, Nat)
  BY NatLessThanWellFounded DEF OpToRel
<1>2. PICK x \in I : \A y \in I : ~ (<<y, x>> \in Below)
  <2> HIDE DEF Below
  <2> QED BY <1>1, WFMin
<1>3. ASSUME NEW y \in I PROVE x <= y
  <2>1. x \in Nat /\ y \in Nat /\ <<y, x>> \notin Below
    BY <1>2
  <2>2. <<y, x>> \in Nat \X Nat /\ <<y, x>>[1] = y /\ <<y, x>>[2] = x
    BY <2>1
  <2>3. ~(y < x)
    BY <2>1, <2>2
  <2> QED BY <2>1, <2>3
<1> QED BY <1>3 DEF Min

(* entityList.Remove takes out one entry and keeps those of all other items. *)
LEMMA RemovedIsShorter ==
  ASSUME NEW s \in Seq(Item), NEW i
  PROVE  /\ Removed(s, i) \in Seq(Item)
         /\ Range(Removed(s, i)) \subseteq Range(s)
         /\ \A j \in Range(s) : j # i => j \in Range(Removed(s, i))
<1>1. CASE ~ \E k \in 1..Len(s) : s[k] = i
  BY <1>1 DEF Removed, RemoveFirst
<1>2. CASE \E k \in 1..Len(s) : s[k] = i
  <2> DEFINE I == {k \in 1..Len(s) : s[k] = i}
             k == Min(I)
  <2>1. k \in 1..Len(s) /\ s[k] = i
    <3>1. I # {} /\ I \in SUBSET Nat
      BY <1>2
    <3>2. Min(I) \in I
      BY <3>1, LeastExists
    <3> QED BY <3>2
  <2>2. Removed(s, i) = SubSeq(s, 1, k - 1) \o SubSeq(s, k + 1, Len(s))
    <3>1. I # {}
      BY <1>2
    <3> QED BY <1>2, <3>1 DEF Removed, RemoveFirst, RemoveAt, SelectInSeq
  <2>3. Len(s) \in Nat /\ (\A n \in 1..Len(s) : s[n] \in Item) /\ k \in Nat
    BY <2>1, LenProperties
  <2> DEFINE a == SubSeq(s, 1, k - 1)
             b == SubSeq(s, k + 1, Len(s))
  <2> HIDE DEF k
  <2>4. /\ a \in Seq(Item) /\ Len(a) = k - 1
        /\ \A n \in 1..k - 1 : a[n] = s[n]
    <3>1. /\ 1 \in Int /\ k - 1 \in Int /\ \A n \in 1..k - 1 : s[n] \in Item
      BY <2>1, <2>3
    <3>2. /\ a \in Seq(Item)
          /\ Len(a) = IF 1 <= k - 1 THEN (k - 1) - 1 + 1 ELSE 0
          /\ \A n \in 1 .. (k - 1) - 1 + 1 : a[n] = s[1 + n - 1]
      BY <3>1, SubSeqProperties
    <3> HIDE DEF a
    <3> QED BY <2>1, <2>3, <3>2
  <2>5. /\ b \in Seq(Item) /\ Len(b) = Len(s) - k
        /\ \A n \in 1..Len(s) - k : b[n] = s[k + n]
    <3>1. /\ k + 1 \in Int /\ Len(s) \in Int /\ \A n \in k + 1 .. Len(s) : s[n] \in Item
      BY <2>1, <2>3
    <3>2. /\ b \in Seq(Item)
          /\ Len(b) = IF k + 1 <= Len(s) THEN Len(s) - (k + 1) + 1 ELSE 0
          /\ \A n \in 1 .. Len(s) - (k + 1) + 1 : b[n] = s[k + 1 + n - 1]
      BY <3>1, SubSeqProperties
    <3> HIDE DEF b
    <3>3. Len(b) = Len(s) - k
      BY <2>1, <2>3, <3>2
    <3>4. ASSUME NEW n \in 1..Len(s) - k PROVE b[n] = s[k + n]
      <4>1. n \in 1 .. Len(s) - (k + 1) + 1 /\ k + 1 + n - 1 = k + n
        BY <2>1, <2>3
      <4> QED BY <3>2, <4>1
    <3> QED BY <3>2, <3>3, <3>4
  <2> HIDE DEF a, b
  <2>6. /\ a \o b \in Seq(Item) /\ Len(a \o b) = Len(a) + Len(b)
        /\ \A n \in 1 .. Len(a) + Len(b) : (a \o b)[n] = IF n <= Len(a) THEN a[n] ELSE b[n - Len(a)]
    BY <2>4, <2>5, ConcatProperties
  <2>7. DOMAIN (a \o b) = 1..Len(s) - 1 /\ DOMAIN s = 1..Len(s)
    BY <2>1, <2>3, <2>4, <2>5, <2>6, LenProperties
  <2>8. ASSUME NEW n \in 1..Len(s) - 1 PROVE (a \o b)[n] = IF n < k THEN s[n] ELSE s[n + 1]
    <3>1. n \in 1..Len(a) + Len(b) /\ Len(a) = k - 1
      BY <2>1, <2>3, <2>4, <2>5
    <3>2. CASE n < k
      <4>1. n \in 1..k - 1 /\ n <= Len(a)
        BY <2>1, <2>3, <3>1, <3>2
      <4> QED BY <2>4, <2>6, <3>1, <3>2, <4>1
    <3>3. CASE ~(n < k)
      <4>1. n - (k - 1) \in 1..Len(s) - k /\ ~(n <= Len(a)) /\ k + (n - (k - 1)) = n + 1
        BY <2>1, <2>3, <3>1, <3>3
      <4>2. (a \o b)[n] = b[n - (k - 1)]
        BY <2>6, <3>1, <4>1
      <4> QED BY <2>5, <3>3, <4>1, <4>2
    <3> QED BY <3>2, <3>3
  <2>9. Range(a \o b) \subseteq Range(s)
    <3>1. ASSUME NEW n \in 1..Len(s) - 1 PROVE (a \o b)[n] \in Range(s)
      <4>1. n \in 1..Len(s) /\ n + 1 \in 1..Len(s)
        BY <2>3
      <4>2. (a \o b)[n] \in {s[n], s[n + 1]}
        BY <2>8
      <4> QED BY <2>7, <4>1, <4>2 DEF Range
    <3> QED BY <2>7, <3>1 DEF Range
  <2>10. ASSUME NEW j \in Range(s), j # i PROVE j \in Range(a \o b)
    <3>1. PICK n \in 1..Len(s) : s[n] = j
      BY <2>7 DEF Range
    <3>2. CASE n < k
      <4>1. n \in 1..Len(s) - 1
        BY <2>1, <2>3, <3>2
      <4>2. (a \o b)[n] = j
        BY <2>8, <3>1, <3>2, <4>1
      <4> QED BY <2>7, <4>1, <4>2 DEF Range
    <3>3. CASE n > k
      <4>1. n - 1 \in 1..Len(s) - 1 /\ ~(n - 1 < k) /\ (n - 1) + 1 = n
        BY <2>1, <2>3, <3>3
      <4>2. (a \o b)[n - 1] = j
        BY <2>8, <3>1, <4>1
      <4> QED BY <2>7, <4>1, <4>2 DEF Range
    <3> QED BY <2>1, <2>3, <2>10, <3>1, <3>2, <3>3
  <2> QED BY <2>2, <2>6, <2>9, <2>10 DEF a, b
<1> QED BY <1>1, <1>2

(* entityList.Add lists the item and leaves the others. *)
LEMMA AppendedIsFound ==
  ASSUME NEW s \in Seq(Item), NEW i \in Item
  PROVE  /\ Append(s, i) \in Seq(Item)
         /\ \A j : j \in Range(Append(s, i)) <=> j \in Range(s) \/ j = i
<1>1. /\ Append(s, i) \in Seq(Item) /\ Len(Append(s, i)) = Len(s) + 1 /\ Len(s) \in Nat
      /\ \A k \in 1..Len(s) : Append(s, i)[k] = s[k]
      /\ Append(s, i)[Len(s) + 1] = i
  BY AppendProperties, LenProperties
<1>2. DOMAIN Append(s, i) = 1..Len(s) + 1 /\ DOMAIN s = 1..Len(s)
  BY <1>1, LenProperties
<1>3. \A k \in 1..Len(s) + 1 : k \in 1..Len(s) \/ k = Len(s) + 1
  BY <1>1
<1>4. 1..Len(s) \subseteq 1..Len(s) + 1 /\ Len(s) + 1 \in 1..Len(s) + 1
  BY <1>1
<1>5. ASSUME NEW j, j \in Range(Append(s, i)) PROVE j \in Range(s) \/ j = i
  <2>1. PICK k \in 1..Len(s) + 1 : Append(s, i)[k] = j
    BY <1>2, <1>5 DEF Range
  <2> QED BY <1>1, <1>2, <1>3, <2>1 DEF Range
<1>6. ASSUME NEW j \in Range(s) PROVE j \in Range(Append(s, i))
  <2>1. PICK k \in 1..Len(s) : s[k] = j
    BY <1>2 DEF Range
  <2>2. k \in DOMAIN Append(s, i) /\ Append(s, i)[k] = j
    BY <1>1, <1>2, <1>4, <2>1
  <2> QED BY <2>2, Zenon DEF Range
<1>7. i \in Range(Append(s, i))
  BY <1>1, <1>2, <1>4, Zenon DEF Range
<1> QED BY <1>1, <1>5, <1>6, <1>7

(* The server starts with its spawned items listed and shown, and nothing else. *)
LEMMA InitIInv == Init => IInv
<1> SUFFICES ASSUME Init PROVE IInv OBVIOUS
<1>1. Cardinality(Spawn) \in Nat
  BY ItemAssumption, FS_Subset, FS_CardinalityType DEF Item
<1>2. set \in Seq(Spawn) /\ Range(set) = Spawn
  BY <1>1, SeqDef DEF Init
<1>3. set \in Seq(Item)
  BY <1>1 DEF Init, Item
<1>4. Types
  BY <1>3 DEF Init, Types
<1>5. FoundIsBorn /\ MakingIsHidden
  BY <1>2 DEF Init, FoundIsBorn, MakingIsHidden, Listed
<1>6. NeverLost
  BY <1>2 DEF Init, NeverLost, Listed, Item
<1>7. PrivateToOwner
  BY ItemAssumption DEF Init, PrivateToOwner
<1> QED BY <1>4, <1>5, <1>6, <1>7 DEF IInv

-----------------------------------------------------------------------------
(* Phases begin and end, and a ticker counts. *)
LEMMA QuietIInv ==
  ASSUME IInv, UNCHANGED <<set, vis, owner, sleepers, pc, target, born, making>>
  PROVE  IInv'
BY DEF IInv, Types, FoundIsBorn, MakingIsHidden, NeverLost, PrivateToOwner, Listed, Pickers, sleepers

(* An item comes into being, private, and listed or not yet. *)
LEMMA BirthIInv ==
  ASSUME IInv, NEW i \in Drop, NEW o \in Player \cup {Nobody}, NEW how \in {"no", "new"},
         i \notin born, born' = born \cup {i},
         vis' = [vis EXCEPT ![i] = 1],
         IF how = "no" THEN set' = Append(set, i) /\ owner' = [owner EXCEPT ![i] = o] /\ making' = making
                       ELSE set' = set /\ owner' = owner /\ making' = [making EXCEPT ![i] = "new"],
         UNCHANGED <<sleepers, pc, target>>
  PROVE  IInv'
<1>1. i \in Item /\ i \notin Spawn /\ i # Nobody
  BY ItemAssumption DEF Item
<1>2. /\ set \in Seq(Item) /\ ~Listed(i)
      /\ set' \in Seq(Item)
      /\ \A j : Listed(j)' <=> Listed(j) \/ (how = "no" /\ j = i)
  <2>1. set \in Seq(Item) /\ ~Listed(i)
    BY <1>1 DEF IInv, Types, FoundIsBorn
  <2>2. CASE how = "no"
    <3>1. set' = Append(set, i)
      BY <2>2
    <3>2. /\ Append(set, i) \in Seq(Item)
          /\ \A j : j \in Range(Append(set, i)) <=> j \in Range(set) \/ j = i
      BY <1>1, <2>1, AppendedIsFound
    <3> QED BY <2>1, <2>2, <3>1, <3>2 DEF Listed
  <2>3. CASE how # "no"
    BY <2>1, <2>3 DEF Listed
  <2> QED BY <2>2, <2>3
<1>3. \A p \in Player : target[p] # i
  BY <1>1 DEF IInv, FoundIsBorn
<1>4. Types'
  <2>1. /\ UNCHANGED <<asleep, awake, pc, target>>
        /\ vis' = [vis EXCEPT ![i] = 1]
        /\ born' = born \cup {i}
    BY DEF sleepers
  <2>2. owner' \in {owner, [owner EXCEPT ![i] = o]} /\ making' \in {making, [making EXCEPT ![i] = "new"]}
    OBVIOUS
  <2>3. owner' \in [Item -> Player \cup {Nobody}] /\ making' \in [Drop -> {"no", "new", "owned"}]
    BY <2>2 DEF IInv, Types
  <2>4. vis' \in [Item -> 0..2]
    <3>1. 1 \in 0..2 /\ vis \in [Item -> 0..2]
      BY DEF IInv, Types
    <3> QED BY <2>1, <3>1
  <2>5. born' \subseteq Drop
    BY <2>1 DEF IInv, Types
  <2> QED BY <1>2, <2>1, <2>3, <2>4, <2>5 DEF IInv, Types
<1>5. FoundIsBorn'
  BY <1>1, <1>2 DEF IInv, FoundIsBorn
<1>6. MakingIsHidden'
  <2>1. making[i] = "no"
    BY DEF IInv, MakingIsHidden
  <2> QED BY <1>2, <1>3, <2>1 DEF IInv, MakingIsHidden, Types
<1>7. \A j \in Item : j # i => vis'[j] = vis[j] /\ owner'[j] = owner[j]
  BY <1>1 DEF IInv, Types
<1>8. NeverLost'
  <2>1. \A j \in Spawn : j \in Item /\ j # i
    BY <1>1 DEF Item
  <2> QED BY <1>2, <1>7, <2>1 DEF IInv, NeverLost, Pickers, sleepers
<1>9. PrivateToOwner'
  BY <1>3, <1>7 DEF IInv, PrivateToOwner
<1> QED BY <1>4, <1>5, <1>6, <1>8, <1>9 DEF IInv

(* Drops and deaths create such items. *)
LEMMA NewItemIInv ==
  ASSUME IInv,
         \E i \in Drop : \/ \E p \in Player : DropItem(p, i)
                        \/ \E o \in Player \cup {Nobody} : PlayerDies(i, o)
                        \/ NpcDies(i)
  PROVE  IInv'
<1>1. ASSUME NEW i \in Drop, NEW o \in Player \cup {Nobody}, DropItem(o, i) \/ PlayerDies(i, o)
      PROVE  IInv'
  <2>1. /\ i \notin born /\ born' = born \cup {i} /\ vis' = [vis EXCEPT ![i] = 1]
        /\ set' = Append(set, i) /\ owner' = [owner EXCEPT ![i] = o] /\ making' = making
        /\ UNCHANGED <<sleepers, pc, target>>
    BY <1>1 DEF DropItem, PlayerDies
  <2>2. "no" \in {"no", "new"}
    OBVIOUS
  <2> QED BY <2>1, <2>2, BirthIInv
<1>2. ASSUME NEW i \in Drop, NpcDies(i) PROVE IInv'
  <2>1. /\ i \notin born /\ born' = born \cup {i} /\ vis' = [vis EXCEPT ![i] = 1]
        /\ set' = set /\ owner' = owner /\ making' = [making EXCEPT ![i] = "new"]
        /\ UNCHANGED <<sleepers, pc, target>>
    BY <1>2 DEF NpcDies
  <2>2. "new" \in {"no", "new"} /\ Nobody \in Player \cup {Nobody}
    OBVIOUS
  <2> QED BY <2>1, <2>2, BirthIInv
<1> QED BY <1>1, <1>2

(* The rest of an NPC's death: nobody has found the item it is about. *)
LEMMA MakeLootIInv ==
  ASSUME IInv, NEW i \in Drop, MakeLoot(i)
  PROVE  IInv'
<1>1. /\ UNCHANGED <<vis, sleepers, pc, target, born>>
      /\ making[i] # "no" /\ making' \in {[making EXCEPT ![i] = "owned"], [making EXCEPT ![i] = "no"]}
      /\ \/ /\ set' = set
            /\ \E o \in Player \cup {Nobody} : owner' = [owner EXCEPT ![i] = o]
         \/ set' = Append(set, i) /\ owner' = owner /\ making' = [making EXCEPT ![i] = "no"]
  BY DEF MakeLoot, OwnLoot, ListLoot
<1>2. /\ i \in Item /\ i \in born /\ ~Listed(i) /\ \A p \in Player : target[p] # i
  BY <1>1 DEF IInv, MakingIsHidden, Item
<1>3. /\ set' \in Seq(Item)
      /\ \A j : Listed(j)' <=> Listed(j) \/ (set' # set /\ j = i)
  <2>1. set \in Seq(Item) /\ set' \in {set, Append(set, i)}
    BY <1>1 DEF IInv, Types
  <2>2. CASE set' = set
    BY <2>1, <2>2 DEF Listed
  <2>3. CASE set' = Append(set, i)
    <3>1. set' \in Seq(Item) /\ \A j : j \in Range(set') <=> j \in Range(set) \/ j = i
      BY <1>2, <2>1, <2>3, AppendedIsFound
    <3>2. set' # set
      BY <1>2, <3>1 DEF Listed
    <3> QED BY <3>1, <3>2 DEF Listed
  <2> QED BY <2>1, <2>2, <2>3
<1>4. Types'
  BY <1>1, <1>3 DEF IInv, Types, sleepers
<1>5. FoundIsBorn'
  BY <1>1, <1>2, <1>3 DEF IInv, FoundIsBorn
<1>6. MakingIsHidden'
  <2>1. ASSUME NEW j \in Drop, making'[j] # "no"
        PROVE  j \in born /\ ~Listed(j)' /\ \A p \in Player : target[p] # j
    <3>1. making[j] # "no"
      BY <1>1, <2>1 DEF IInv, Types
    <3>2. j = i => set' = set
      BY <1>1, <2>1 DEF IInv, Types
    <3> QED BY <1>3, <3>1, <3>2 DEF IInv, MakingIsHidden
  <2> QED BY <1>1, <2>1 DEF MakingIsHidden
<1>7. NeverLost'
  BY <1>1, <1>3 DEF IInv, NeverLost, Pickers, sleepers
<1>8. PrivateToOwner'
  <2>1. \A j \in Item : j # i => owner'[j] = owner[j]
    BY <1>1, <1>2 DEF IInv, Types
  <2> QED BY <1>1, <1>2, <2>1 DEF IInv, PrivateToOwner
<1> QED BY <1>4, <1>5, <1>6, <1>7, <1>8 DEF IInv

-----------------------------------------------------------------------------
(* A pickup finds an item its player may see, *)
LEMMA LookIInv ==
  ASSUME IInv, NEW p \in Player, Look(p)
  PROVE  IInv'
<1> DEFINE i == Head(set)
<1>1. /\ UNCHANGED <<set, vis, owner, sleepers, born, making>>
      /\ pc[p] = "idle" /\ set # <<>> /\ VisibleTo(i, p)
      /\ pc' = [pc EXCEPT ![p] = "sure"] /\ target' = [target EXCEPT ![p] = i]
  BY DEF Look, life
<1>2. i \in Item /\ Listed(i)
  <2>1. set \in Seq(Item) /\ Len(set) \in Nat \ {0}
    BY <1>1, EmptySeq DEF IInv, Types
  <2>2. Head(set) = set[1] /\ 1 \in DOMAIN set /\ Head(set) \in Item
    BY <1>1, <2>1, HeadTailProperties, LenProperties
  <2> QED BY <2>2 DEF Listed, Range
<1> HIDE DEF i
<1>3. i \in Spawn \cup born /\ i # Nobody
  BY <1>2, ItemAssumption DEF IInv, FoundIsBorn
<1>4. Types'
  BY <1>1, <1>2 DEF IInv, Types, sleepers
<1>5. FoundIsBorn'
  BY <1>1, <1>3 DEF IInv, FoundIsBorn, Listed, Types
<1>6. MakingIsHidden'
  BY <1>1, <1>2 DEF IInv, MakingIsHidden, Listed, Types
<1>7. NeverLost'
  <2>1. \A q \in Player : pc[q] = "hid" => pc'[q] = "hid" /\ target'[q] = target[q]
    BY <1>1 DEF IInv, Types
  <2> QED BY <1>1, <2>1 DEF IInv, NeverLost, Pickers, Listed, sleepers
<1>8. PrivateToOwner'
  BY <1>1 DEF IInv, PrivateToOwner, VisibleTo, Types
<1> QED BY <1>4, <1>5, <1>6, <1>7, <1>8 DEF IInv

(* ... hides it, *)
LEMMA HideIInv ==
  ASSUME IInv, NEW p \in Player, Hide(p)
  PROVE  IInv'
<1>1. /\ UNCHANGED <<set, owner, sleepers, target, born, making>>
      /\ pc[p] = "sure" /\ pc' = [pc EXCEPT ![p] = "hid"]
      /\ vis' = [vis EXCEPT ![target[p]] = 0]
  BY DEF Hide, life
<1>2. target[p] \in Item
  BY <1>1 DEF IInv, FoundIsBorn, Types, Item
<1>3. Types'
  BY <1>1, <1>2 DEF IInv, Types, sleepers
<1>4. FoundIsBorn' /\ MakingIsHidden'
  BY <1>1 DEF IInv, FoundIsBorn, MakingIsHidden, Listed, Types
<1>5. NeverLost'
  <2>1. \A q \in Player : pc[q] = "hid" => pc'[q] = "hid"
    BY <1>1 DEF IInv, Types
  <2>2. pc'[p] = "hid" /\ \A j \in Item : j # target[p] => vis'[j] = vis[j]
    BY <1>1, <1>2 DEF IInv, Types
  <2> QED BY <1>1, <2>1, <2>2 DEF IInv, NeverLost, Pickers, Listed, sleepers, Item
<1>6. PrivateToOwner'
  <2>1. \A j \in Item : vis'[j] = 1 => vis[j] = 1
    BY <1>1, <1>2 DEF IInv, Types
  <2> QED BY <1>1, <2>1 DEF IInv, PrivateToOwner
<1> QED BY <1>3, <1>4, <1>5, <1>6 DEF IInv

(* ... takes it out of the list, and leaves a sleeper if it was a spawned one. *)
LEMMA GrabIInv ==
  ASSUME IInv, NEW p \in Player, Grab(p)
  PROVE  IInv'
<1> DEFINE i == target[p]
<1>1. /\ UNCHANGED <<vis, owner, awake, born, making>>
      /\ pc[p] = "hid" /\ pc' = [pc EXCEPT ![p] = "idle"]
      /\ set' = Removed(set, i)
      /\ asleep' = Sleeping(i)
      /\ target' = [target EXCEPT ![p] = Nobody]
  BY DEF Grab, life
<1>2. i \in Item
  BY <1>1 DEF IInv, FoundIsBorn, Types, Item
<1>3. /\ set' \in Seq(Item)
      /\ \A j : Listed(j)' => Listed(j)
      /\ \A j : j # i /\ Listed(j) => Listed(j)'
  BY <1>1, RemovedIsShorter DEF IInv, Types, Listed
<1> HIDE DEF i
<1>4. /\ asleep' \in [Item -> Nat]
      /\ \A j \in Item : asleep[j] > 0 => asleep'[j] > 0
      /\ i \in Spawn => asleep'[i] > 0
  BY <1>1, <1>2 DEF Sleeping, IInv, Types
<1>5. Types'
  BY <1>1, <1>3, <1>4 DEF IInv, Types
<1>6. FoundIsBorn'
  BY <1>1, <1>3 DEF IInv, FoundIsBorn, Types
<1>7. MakingIsHidden'
  <2>1. \A q \in Player : target'[q] \in {target[q], Nobody}
    BY <1>1 DEF IInv, Types
  <2>2. \A j \in Drop : j # Nobody
    BY ItemAssumption DEF Item
  <2> QED BY <1>1, <1>3, <2>1, <2>2 DEF IInv, MakingIsHidden
<1>8. NeverLost'
  <2>1. ASSUME NEW j \in Spawn, j # i
        PROVE  \/ vis'[j] = 2 /\ (Listed(j)' \/ awake'[j] > 0)
               \/ asleep'[j] > 0
               \/ \E q \in Pickers(j)' : pc'[q] = "hid"
    <3>1. j \in Item
      BY DEF Item
    <3>2. \A q \in Player : target[q] = j => pc'[q] = pc[q] /\ target'[q] = target[q]
      BY <1>1, <2>1 DEF IInv, Types, i
    <3>3. vis'[j] = vis[j] /\ awake' = awake
      BY <1>1, <2>1, <3>1 DEF IInv, Types, sleepers
    <3>4. CASE vis[j] = 2 /\ (Listed(j) \/ awake[j] > 0)
      BY <1>3, <2>1, <3>3, <3>4
    <3>5. CASE asleep[j] > 0
      BY <1>4, <3>1, <3>5
    <3>6. CASE \E q \in Pickers(j) : pc[q] = "hid"
      BY <3>2, <3>6 DEF Pickers
    <3> QED BY <3>4, <3>5, <3>6 DEF IInv, NeverLost
  <2> QED BY <1>4, <2>1 DEF NeverLost
<1>9. PrivateToOwner'
  <2>1. Nobody \notin Item
    BY ItemAssumption
  <2> QED BY <1>1, <2>1 DEF IInv, PrivateToOwner, Types
<1> QED BY <1>5, <1>6, <1>7, <1>8, <1>9 DEF IInv

-----------------------------------------------------------------------------
(* A ticker never makes an item private that was not. *)
LEMMA TickerIInv ==
  ASSUME IInv, Ticker
  PROVE  IInv'
<1>1. PICK i \in Drop : ShowAtFirstPass(i) \/ ExpireItem(i) \/ Wait(i)
  BY DEF Ticker
<1>2. i \in Item /\ i \notin Spawn
  BY ItemAssumption DEF Item
<1>3. /\ UNCHANGED <<owner, sleepers, pc, target, born, making>>
      /\ set' \in {set, Removed(set, i)}
  BY <1>1 DEF ShowAtFirstPass, ExpireItem, Wait, life
<1>4. PICK v \in 0..2 : vis' = [vis EXCEPT ![i] = v] /\ (v = 1 => vis[i] = 1)
  <2>1. CASE ShowAtFirstPass(i)
    <3>1. vis[i] = 1
      BY <2>1 DEF ShowAtFirstPass, Seen
    <3>2. vis' = [vis EXCEPT ![i] = 1] \/ vis' = [vis EXCEPT ![i] = 2]
      BY <2>1 DEF ShowAtFirstPass
    <3> QED BY <3>1, <3>2
  <2>2. CASE ExpireItem(i)
    BY <2>2 DEF ExpireItem
  <2>3. CASE Wait(i)
    <3>1. Seen(i) \in 0..2 /\ (Seen(i) = 1 => vis[i] = 1)
      BY <1>2 DEF Seen, IInv, Types
    <3> QED BY <2>3, <3>1 DEF Wait
  <2> QED BY <1>1, <2>1, <2>2, <2>3
<1>5. /\ set' \in Seq(Item)
      /\ \A j : Listed(j)' => Listed(j)
      /\ \A j : j # i /\ Listed(j) => Listed(j)'
  BY <1>3, RemovedIsShorter DEF IInv, Types, Listed
<1>6. \A j \in Item : (j # i => vis'[j] = vis[j]) /\ (vis'[j] = 1 => vis[j] = 1)
  BY <1>2, <1>4 DEF IInv, Types
<1>7. Types'
  BY <1>2, <1>3, <1>4, <1>5 DEF IInv, Types, sleepers
<1>8. FoundIsBorn' /\ MakingIsHidden'
  BY <1>3, <1>5 DEF IInv, FoundIsBorn, MakingIsHidden
<1>9. NeverLost'
  <2>1. \A j \in Spawn : j \in Item /\ j # i
    BY <1>2 DEF Item
  <2> QED BY <1>3, <1>5, <1>6, <2>1 DEF IInv, NeverLost, Pickers, sleepers
<1>10. PrivateToOwner'
  BY <1>3, <1>6 DEF IInv, PrivateToOwner
<1> QED BY <1>7, <1>8, <1>9, <1>10 DEF IInv

(* A sleeper wakes up and shows its item, then lists it. *)
LEMMA RespawnIInv ==
  ASSUME IInv, NEW i \in Spawn, Respawn(i)
  PROVE  IInv'
<1>1. i \in Item /\ i \notin Drop
  BY ItemAssumption DEF Item
<1>2. UNCHANGED <<owner, pc, target, born, making>>
  BY DEF Respawn, Reappear, Relist, life
<1>3. CASE Reappear(i)
  <2>1. /\ set' = set /\ asleep[i] > 0
        /\ asleep' = [asleep EXCEPT ![i] = @ - 1] /\ awake' = [awake EXCEPT ![i] = @ + 1]
        /\ vis' = [vis EXCEPT ![i] = 2]
    BY <1>3 DEF Reappear
  <2>2. Types'
    BY <1>1, <1>2, <2>1 DEF IInv, Types
  <2>3. FoundIsBorn' /\ MakingIsHidden'
    BY <1>2, <2>1 DEF IInv, FoundIsBorn, MakingIsHidden, Listed
  <2>4. /\ vis'[i] = 2 /\ awake'[i] > 0
        /\ \A j \in Item : j # i => vis'[j] = vis[j] /\ awake'[j] = awake[j] /\ asleep'[j] = asleep[j]
    BY <1>1, <2>1 DEF IInv, Types
  <2>5. NeverLost'
    BY <1>2, <2>1, <2>4 DEF IInv, NeverLost, Pickers, Listed, Item
  <2>6. PrivateToOwner'
    <3>1. \A j \in Item : vis'[j] = 1 => vis[j] = 1
      BY <2>4
    <3> QED BY <1>2, <3>1 DEF IInv, PrivateToOwner
  <2> QED BY <2>2, <2>3, <2>5, <2>6 DEF IInv
<1>4. CASE Relist(i)
  <2>1. /\ vis' = vis /\ asleep' = asleep
        /\ awake[i] > 0 /\ awake' = [awake EXCEPT ![i] = @ - 1]
        /\ set' = Append(set, i)
    BY <1>4 DEF Relist
  <2>2. set' \in Seq(Item) /\ \A j : Listed(j)' <=> Listed(j) \/ j = i
    BY <1>1, <2>1, AppendedIsFound DEF IInv, Types, Listed
  <2>3. Types'
    BY <1>1, <1>2, <2>1, <2>2 DEF IInv, Types
  <2>4. FoundIsBorn' /\ MakingIsHidden'
    BY <1>1, <1>2, <2>2 DEF IInv, FoundIsBorn, MakingIsHidden
  <2>5. \A j \in Item : j # i => awake'[j] = awake[j]
    BY <2>1 DEF IInv, Types
  <2>6. NeverLost'
    BY <1>2, <2>1, <2>2, <2>5 DEF IInv, NeverLost, Pickers, Item
  <2>7. PrivateToOwner'
    BY <1>2, <2>1 DEF IInv, PrivateToOwner
  <2> QED BY <2>3, <2>4, <2>6, <2>7 DEF IInv
<1> QED BY <1>3, <1>4 DEF Respawn

(* No step of any goroutine breaks the invariant. *)
LEMMA NextIInv == IInv /\ [Next]_vars => IInv'
<1> SUFFICES ASSUME IInv, [Next]_vars PROVE IInv' OBVIOUS
<1>1. CASE UNCHANGED vars \/ StartTasks \/ StartPackets
  <2>1. UNCHANGED <<set, vis, owner, sleepers, pc, target, born, making>>
    BY <1>1 DEF vars, StartTasks, StartPackets, life, sleepers
  <2> QED BY <2>1, QuietIInv
<1>2. CASE \E i \in Drop : \/ \E p \in Player : DropItem(p, i)
                          \/ \E o \in Player \cup {Nobody} : PlayerDies(i, o)
                          \/ NpcDies(i)
  BY <1>2, NewItemIInv
<1>3. CASE \E p \in Player : Look(p) \/ Pickup(p)
  BY <1>3, LookIInv, HideIInv, GrabIInv DEF Pickup
<1>4. CASE \E i \in Drop : MakeLoot(i)
  BY <1>4, MakeLootIInv
<1>5. CASE Ticker \/ \E i \in Spawn : Respawn(i)
  BY <1>5, TickerIInv, RespawnIInv
<1> QED BY <1>1, <1>2, <1>3, <1>4, <1>5 DEF Next

-----------------------------------------------------------------------------
(* The invariant of pickups, tickers, deaths and sleepers, for any instance. *)
THEOREM GroundItemInvariant == Spec => []IInv
BY InitIInv, NextIInv, PTL DEF Spec

(* A spawned item is there for everybody, or about to be brought back. *)
THEOREM SpawnsNeverLost == Spec => []NeverLost
<1>1. IInv => NeverLost BY DEF IInv
<1> QED BY <1>1, GroundItemInvariant, PTL

(* Whoever is about to take a private item is its owner or an administrator. *)
THEOREM PrivateStaysPrivate == Spec => []PrivateToOwner
<1>1. IInv => PrivateToOwner BY DEF IInv
<1> QED BY <1>1, GroundItemInvariant, PTL
=============================================================================
