----------------------------- MODULE PlayerList -----------------------------
(***************************************************************************)
(* The registry of online players and their server indices: PlayerList,    *)
(* AddPlayer and RemovePlayer of pkg/game/world/world.go.                  *)
(*                                                                         *)
(* AddPlayer runs on the login goroutine of each player, RemovePlayer on   *)
(* the goroutine of its Destroy, so the steps of different players          *)
(* interleave; the list's mutex is taken three separate times.  Destroy    *)
(* runs once per player object and removes only a listed player, and a     *)
(* player object is used for one login: coming back from "out" is a new    *)
(* object.  A listed player can be kicked before its AddPlayer is over.    *)
(***************************************************************************)
EXTENDS Integers, Sequences, FiniteSets

CONSTANT Player

VARIABLES
  pc,      \* where the player's AddPlayer or RemovePlayer is
  index,   \* p.ServerIndex()
  slot,    \* the local `slot` of Remove
  listed,  \* m.PlayersList
  free,    \* m.free, the head of the queue first
  curIdx,  \* m.curIdx
  region,  \* the players in the region of their location
  adding   \* players whose AddPlayer has yet to add them to their region

vars == <<pc, index, slot, listed, free, curIdx, region, adding>>

Steps == {"out", "indexed", "in", "leaving", "unindexed"}

-----------------------------------------------------------------------------
Init ==
  /\ pc = [p \in Player |-> "out"]
  /\ index = [p \in Player |-> 0]
  /\ slot = [p \in Player |-> -1]
  /\ listed = {}
  /\ free = <<>>
  /\ curIdx = 0
  /\ region = {}
  /\ adding = {}

(* indexQueue.Push puts the index in front. *)
Push(i) == <<i>> \o free

Unpopped == free                   \* mutant
Popped == Tail(free)

(* Put's first half: nextSlot, under the lock, and SetServerIndex. *)
NextSlot(p) ==
  /\ pc[p] = "out" /\ p \notin adding \cup region
  /\ pc' = [pc EXCEPT ![p] = "indexed"]
  /\ adding' = adding \cup {p}
  /\ \/ /\ free # <<>>
        /\ index' = [index EXCEPT ![p] = Head(free)]
        /\ free' = Popped
        /\ UNCHANGED curIdx
     \/ /\ free = <<>>
        /\ index' = [index EXCEPT ![p] = curIdx]
        /\ curIdx' = curIdx + 1
        /\ UNCHANGED free
  /\ UNCHANGED <<slot, listed, region>>

(* Put's second half, under the lock again. *)
Insert(p) ==
  /\ pc[p] = "indexed"
  /\ pc' = [pc EXCEPT ![p] = "in"]
  /\ listed' = listed \cup {p}
  /\ UNCHANGED <<index, slot, free, curIdx, region, adding>>

(* AddPlayer's second call.  Destroy may have been and gone by now. *)
EnterRegion(p) ==
  /\ p \in adding /\ pc[p] # "indexed"
  /\ region' = region \cup {p}
  /\ adding' = adding \ {p}
  /\ UNCHANGED <<pc, index, slot, listed, free, curIdx>>

(* RemovePlayer's first call. *)
LeaveRegion(p) ==
  /\ pc[p] = "in"
  /\ pc' = [pc EXCEPT ![p] = "leaving"]
  /\ region' = region \ {p}
  /\ UNCHANGED <<index, slot, listed, free, curIdx, adding>>

(* Remove reads the slot and unsets the index before it takes the lock. *)
Unindex(p) ==
  /\ pc[p] = "leaving"
  /\ pc' = [pc EXCEPT ![p] = "unindexed"]
  /\ slot' = [slot EXCEPT ![p] = index[p]]
  /\ index' = [index EXCEPT ![p] = -1]
  /\ UNCHANGED <<listed, free, curIdx, region, adding>>

Deleted(p) == listed \ {p}

Freed(p) == slot[p]

(* The deletion and the Push, under the lock. *)
Delete(p) ==
  /\ pc[p] = "unindexed"
  /\ pc' = [pc EXCEPT ![p] = "out"]
  /\ listed' = Deleted(p)
  /\ free' = Push(Freed(p))
  /\ slot' = [slot EXCEPT ![p] = -1]
  /\ UNCHANGED <<index, curIdx, region, adding>>

Next == \E p \in Player : NextSlot(p) \/ Insert(p) \/ EnterRegion(p)
                          \/ LeaveRegion(p) \/ Unindex(p) \/ Delete(p)

Spec == Init /\ [][Next]_vars

-----------------------------------------------------------------------------
(* Properties *)

TypeOK ==
  /\ pc \in [Player -> Steps]
  /\ index \in [Player -> Int]
  /\ slot \in [Player -> Int]
  /\ listed \subseteq Player
  /\ free \in Seq(Nat)
  /\ curIdx \in Nat
  /\ region \subseteq Player
  /\ adding \subseteq Player

(* The logins holding an index, between nextSlot and Remove's Push, and which. *)
Holders == {p \in Player : pc[p] # "out"}
Held(p) == IF pc[p] = "unindexed" THEN slot[p] ELSE index[p]

(* FindIndex: at most one listed player answers to an index that clients use to
   name the other party of a trade, a duel or an attack. *)
UniqueIndex ==
  \A p, q \in listed : index[p] >= 0 /\ index[p] = index[q] => p = q

(* Each index is held by one login at most, and is not free, once or twice,
   meanwhile. *)
HeldOnce ==
  /\ \A p \in Holders : Held(p) \in 0 .. curIdx - 1
  /\ \A p, q \in Holders : Held(p) = Held(q) => p = q
  /\ \A j \in 1..Len(free) : free[j] < curIdx /\ \A p \in Holders : Held(p) # free[j]
  /\ \A j, k \in 1..Len(free) : free[j] = free[k] => j = k

(* One that was ever created is held or free. *)
NoIndexLeak ==
  \A i \in 0 .. curIdx - 1 :
    (\E j \in 1..Len(free) : free[j] = i) \/ \E p \in Holders : Held(p) = i

(* Whatever logins and logouts interleave, in the middle of Put and Remove too:
   no index is given out twice, and none is lost. *)
IndexAccounting == HeldOnce /\ NoIndexLeak

(* The indices stay as few as the peak load: a new one is created only when
   every existing one is held. *)
IndexOnlyWhenFull == [][curIdx' # curIdx => Cardinality(Holders) = curIdx]_vars

(* A player can be found, for packets and ticks, exactly between Insert and
   Delete; the inductive invariant of the proofs. *)
ListedIffIn == listed = {p \in Player : pc[p] \in {"in", "leaving", "unindexed"}}

IInv == TypeOK /\ ListedIffIn /\ HeldOnce
        /\ \A p \in Player : pc[p] = "unindexed" => index[p] = -1

-----------------------------------------------------------------------------
(* Promised by comments, not kept by the code. *)

InUse == {Held(p) : p \in Holders}

(* Put's comment: the player gets the lowest available slot. *)
LowestSlot ==
  [][\A p \in Player : NextSlot(p) =>
       \A i \in 0 .. curIdx : i \notin InUse => index'[p] <= i]_vars

(* RemovePlayer's comment: the player is removed from the game world. *)
GoneFromWorld == \A p \in region : pc[p] # "out"
=============================================================================
