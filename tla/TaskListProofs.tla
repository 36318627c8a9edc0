--------------------------- MODULE TaskListProofs ---------------------------
(* Proofs about TaskList: the in-place filter of ForEach is safe although
   other goroutines append to the slice it is filtering. *)
EXTENDS TaskList, SequenceTheorems, TLAPS

(* An empty or written prefix of an array has room for one more cell. *)
LEMMA RoomInside ==
  ASSUME TypeOK, HeadersFit, NEW h \in {calls, list}, RoomFor(h)
  PROVE  /\ h \in Header
         /\ h.len + 1 \in 1..MaxCap
         /\ IsFull(h) => Grown(cap[h.arr]) \in 0..MaxCap /\ h.len + 1 <= Grown(cap[h.arr])
         /\ ~IsFull(h) => h.len + 1 <= cap[h.arr]
<1>1. h \in Header /\ cap[h.arr] \in 0..MaxCap /\ h.len <= cap[h.arr]
  BY DEF TypeOK, HeadersFit, Header
<1>2. h.len \in Nat /\ MaxCap \in Nat
  BY <1>1, TaskAssumption DEF Header
<1>3. CASE IsFull(h)
  BY <1>1, <1>2, <1>3 DEF RoomFor, IsFull, Grown
<1>4. CASE ~IsFull(h)
  BY <1>1, <1>2, <1>4 DEF IsFull
<1> QED BY <1>1, <1>3, <1>4

(* The array append allocates is referenced by no header. *)
LEMMA SpareIsFree ==
  ASSUME TypeOK
  PROVE  Spare \in Array /\ Spare \notin {calls.arr, list.arr, rng.arr}
BY ArrayAssumption DEF TypeOK, Header, Spare

(* What append(h, t) does: the result holds h's scripts and then t, every array
   but the target is untouched, and so are the target's cells before t unless
   the target is new. *)
LEMMA Appending ==
  ASSUME TypeOK, HeadersFit, NEW h \in {calls, list}, NEW t \in Task, AppendTo(h, t)
  PROVE  /\ Target(h) \in Array
         /\ AppendedHeader(h) \in Header
         /\ store' \in [Array -> [1..MaxCap -> Task \cup {NoTask}]]
         /\ cap' \in [Array -> 0..MaxCap]
         /\ h.len + 1 <= cap'[Target(h)]
         /\ \A i \in 1..h.len : store'[Target(h)][i] = store[h.arr][i]
         /\ store'[Target(h)][h.len + 1] = t
         /\ \A a \in Array : a # Target(h) => store'[a] = store[a] /\ cap'[a] = cap[a]
         /\ IsFull(h) => Target(h) \notin {calls.arr, list.arr, rng.arr}
         /\ ~IsFull(h) => /\ Target(h) = h.arr
                          /\ cap' = cap
                          /\ \A i \in 1..MaxCap : i # h.len + 1 => store'[h.arr][i] = store[h.arr][i]
<1>1. RoomFor(h) BY DEF AppendTo
<1>2. /\ h \in Header
      /\ h.len + 1 \in 1..MaxCap
      /\ IsFull(h) => Grown(cap[h.arr]) \in 0..MaxCap /\ h.len + 1 <= Grown(cap[h.arr])
      /\ ~IsFull(h) => h.len + 1 <= cap[h.arr]
  BY <1>1, RoomInside
<1>3. h.arr \in Array /\ h.len \in Nat /\ MaxCap \in Nat
  BY <1>2, TaskAssumption DEF Header
<1>4. Target(h) \in Array /\ (IsFull(h) => Target(h) \notin {calls.arr, list.arr, rng.arr})
  BY <1>3, SpareIsFree DEF Target
<1>5. CellsBefore(h) \in [1..MaxCap -> Task \cup {NoTask}]
      /\ \A i \in 1..h.len : CellsBefore(h)[i] = store[h.arr][i]
  BY <1>2, <1>3 DEF CellsBefore, TypeOK
<1>6. /\ store'[Target(h)] = [CellsBefore(h) EXCEPT ![h.len + 1] = t]
      /\ \A a \in Array : a # Target(h) => store'[a] = store[a] /\ cap'[a] = cap[a]
      /\ cap'[Target(h)] = IF IsFull(h) THEN Grown(cap[h.arr]) ELSE cap[Target(h)]
  BY <1>4 DEF AppendTo, TypeOK
<1>7. store' \in [Array -> [1..MaxCap -> Task \cup {NoTask}]]
  BY <1>4, <1>5 DEF AppendTo, TypeOK
<1>8. cap' \in [Array -> 0..MaxCap] /\ (~IsFull(h) => cap' = cap)
  BY <1>2, <1>4 DEF AppendTo, TypeOK
<1>9. AppendedHeader(h) \in Header
  BY <1>2, <1>3, <1>4 DEF AppendedHeader, Header
<1>10. h.len + 1 <= cap'[Target(h)]
  BY <1>2, <1>6 DEF Target
<1>11. /\ \A i \in 1..h.len : store'[Target(h)][i] = store[h.arr][i]
       /\ store'[Target(h)][h.len + 1] = t
  BY <1>2, <1>3, <1>5, <1>6
<1>12. ~IsFull(h) => /\ Target(h) = h.arr
                     /\ \A i \in 1..MaxCap : i # h.len + 1 => store'[h.arr][i] = store[h.arr][i]
  BY <1>3, <1>5, <1>6 DEF Target, CellsBefore
<1> QED BY <1>4, <1>6, <1>7, <1>8, <1>9, <1>10, <1>11, <1>12

-----------------------------------------------------------------------------
(* IInv holds initially and every action preserves it. *)

LEMMA InitIInv == Init => IInv
<1> SUFFICES ASSUME Init PROVE IInv OBVIOUS
<1>1. MaxCap \in Nat /\ 0 \in 0..MaxCap
  BY TaskAssumption
<1>2. calls.arr \in Array /\ calls.len = 0 /\ calls \in Header
  BY <1>1, ArrayAssumption DEF Init, Header
<1>3. TypeOK
  <2>1. <<>> \in Seq(Task)
    BY EmptySeq
  <2>2. store \in [Array -> [1..MaxCap -> Task \cup {NoTask}]] /\ cap \in [Array -> 0..MaxCap]
    BY <1>1 DEF Init
  <2>3. reg \in [Task -> {"new", "calling", "listed"}] /\ left \in [Task -> Nat]
    BY DEF Init
  <2> QED BY <1>1, <1>2, <2>1, <2>2, <2>3 DEF Init, TypeOK, EngineStates
<1>4. HeadersFit
  BY <1>1, <1>2 DEF Init, HeadersFit
<1> QED BY <1>2, <1>3, <1>4 DEF Init, IInv, ListBehind, Sharing, UnvisitedIntact,
           RunningIsNext, KeptExactly, InCycle

(* The steps that touch no slice and stay out of an iteration. *)
LEMMA QuietIInv ==
  ASSUME IInv,
         \/ \E t \in Task : ReadStart(t)
         \/ Expire \/ RunnerDone \/ RunnerQuits
  PROVE  IInv'
<1>1. /\ UNCHANGED <<slices, idx, snap, kept>>
      /\ \/ engine' = engine
         \/ engine = "loop" /\ engine' = "done"
         \/ engine = "loop" /\ engine' = "hung"
  BY DEF ReadStart, Expire, RunnerDone, RunnerQuits, history
<1>2. TypeOK'
  <2> USE DEF IInv, TypeOK, slices, history, EngineStates
  <2>1. CASE Expire \/ RunnerDone \/ RunnerQuits
    BY <2>1 DEF Expire, RunnerDone, RunnerQuits, Header
  <2>2. ASSUME NEW t \in Task, ReadStart(t) PROVE TypeOK'
    <3>1. (IF How[t] = "add" THEN 0 ELSE Delay[t]) \in Nat
      BY TaskAssumption
    <3>2. left' \in [Task -> Nat] /\ reg' \in [Task -> {"new", "calling", "listed"}]
      BY <2>2, <3>1 DEF ReadStart
    <3> QED BY <2>2, <3>2 DEF ReadStart, Header
  <2> QED BY <2>1, <2>2
<1>3. HeadersFit'
  BY <1>1 DEF IInv, HeadersFit, slices
<1>4. ListBehind' /\ Sharing' /\ UnvisitedIntact' /\ RunningIsNext' /\ KeptExactly'
  BY <1>1 DEF IInv, ListBehind, Sharing, UnvisitedIntact, RunningIsNext, KeptExactly,
     InCycle, Running, slices
<1> QED BY <1>2, <1>3, <1>4 DEF IInv

(* An append to ScriptCalls by any goroutine, at any point of a cycle. *)
LEMMA RegisterIInv ==
  ASSUME IInv, NEW t \in Task, Register(t)
  PROVE  IInv'
<1>1. /\ AppendTo(calls, t)
      /\ calls' = AppendedHeader(calls)
      /\ UNCHANGED <<list, rng, idx, engine, expired, left, ended, failed, snap, kept>>
  BY DEF Register
<1>2. TypeOK /\ HeadersFit /\ calls \in Header /\ list \in Header /\ rng \in Header
  BY DEF IInv, TypeOK
<1>3. /\ Target(calls) \in Array
      /\ AppendedHeader(calls) \in Header
      /\ store' \in [Array -> [1..MaxCap -> Task \cup {NoTask}]]
      /\ cap' \in [Array -> 0..MaxCap]
      /\ calls.len + 1 <= cap'[Target(calls)]
      /\ \A i \in 1..calls.len : store'[Target(calls)][i] = store[calls.arr][i]
      /\ store'[Target(calls)][calls.len + 1] = t
      /\ \A a \in Array : a # Target(calls) => store'[a] = store[a] /\ cap'[a] = cap[a]
      /\ IsFull(calls) => Target(calls) \notin {calls.arr, list.arr, rng.arr}
      /\ ~IsFull(calls) => /\ Target(calls) = calls.arr
                           /\ cap' = cap
                           /\ \A i \in 1..MaxCap : i # calls.len + 1 =>
                                store'[calls.arr][i] = store[calls.arr][i]
  BY <1>1, <1>2, Appending
<1>4. /\ calls.len \in Nat /\ list.len \in 0..MaxCap /\ rng.len \in 0..MaxCap /\ MaxCap \in Nat
      /\ list.arr \in Array /\ rng.arr \in Array
      /\ calls'.arr = Target(calls) /\ calls'.len = calls.len + 1
  BY <1>1, <1>2, TaskAssumption DEF Header, AppendedHeader
<1>5. TypeOK'
  BY <1>1, <1>2, <1>3 DEF TypeOK, Register
<1>6. ASSUME NEW h \in {list, rng}
      PROVE  /\ h.len <= cap'[h.arr]
             /\ \A i \in 1..h.len : store'[h.arr][i] \in Task
             /\ h.arr # calls.arr \/ IsFull(calls) => store'[h.arr] = store[h.arr]
  <2>1. h.len <= cap[h.arr] /\ (\A i \in 1..h.len : store[h.arr][i] \in Task)
        /\ h.arr \in Array /\ h.len \in 0..MaxCap
    BY <1>2, <1>4 DEF HeadersFit
  <2>2. CASE h.arr = Target(calls)
    <3>1. ~IsFull(calls) /\ h.arr = calls.arr
      BY <1>3, <2>2
    <3>2. ASSUME NEW i \in 1..h.len PROVE store'[h.arr][i] \in Task
      <4>1. i \in 1..MaxCap /\ store[h.arr][i] \in Task
        BY <1>4, <2>1
      <4> QED BY <1>3, <1>4, <2>1, <2>2, <3>1, <4>1
    <3> QED BY <1>3, <2>1, <3>1, <3>2
  <2>3. CASE h.arr # Target(calls)
    BY <1>3, <2>1, <2>3
  <2> QED BY <2>2, <2>3
<1>7. HeadersFit'
  <2>1. calls'.len <= cap'[calls'.arr]
    BY <1>3, <1>4
  <2>2. ASSUME NEW i \in 1..calls'.len PROVE store'[calls'.arr][i] \in Task
    BY <1>2, <1>3, <1>4 DEF HeadersFit
  <2> QED BY <1>1, <1>6, <2>1, <2>2 DEF HeadersFit
<1>8. ListBehind'
  BY <1>1 DEF IInv, ListBehind
<1>9. Sharing'
  BY <1>1, <1>3, <1>4 DEF IInv, Sharing, InCycle
<1>10. ASSUME InCycle, NEW i \in 1..rng.len PROVE store'[rng.arr][i] = store[rng.arr][i]
  <2>1. CASE rng.arr # calls.arr \/ IsFull(calls)
    BY <1>6, <2>1
  <2>2. CASE rng.arr = calls.arr /\ ~IsFull(calls)
    BY <1>3, <1>4, <1>10, <2>2 DEF IInv, Sharing
  <2> QED BY <2>1, <2>2
<1>11. ASSUME InCycle, NEW i \in 1..list.len PROVE store'[list.arr][i] = store[list.arr][i]
  <2>1. CASE list.arr # calls.arr \/ IsFull(calls)
    BY <1>6, <2>1
  <2>2. CASE list.arr = calls.arr /\ ~IsFull(calls)
    <3>1. rng.arr = calls.arr /\ rng.len <= calls.len
      BY <1>11, <2>2 DEF IInv, Sharing
    <3>2. list.len <= rng.len
      BY <1>4, <1>11 DEF IInv, ListBehind, InCycle, TypeOK
    <3> QED BY <1>3, <1>4, <2>2, <3>1, <3>2
  <2> QED BY <2>1, <2>2
<1>12. UnvisitedIntact'
  BY <1>1, <1>4, <1>10 DEF IInv, UnvisitedIntact, InCycle, TypeOK
<1>13. KeptExactly' /\ RunningIsNext'
  <2>1. KeptExactly'
    BY <1>1, <1>4, <1>11, LenProperties DEF IInv, KeptExactly, InCycle, TypeOK
  <2>2. ASSUME engine = "call" PROVE Running' = Running
    <3>1. InCycle /\ list.len \in 1..list.len
      BY <1>4, <2>2 DEF IInv, ListBehind, InCycle
    <3> QED BY <1>1, <1>11, <3>1 DEF Running
  <2>3. RunningIsNext'
    BY <1>1, <2>2 DEF IInv, RunningIsNext
  <2> QED BY <2>1, <2>3
<1> QED BY <1>5, <1>7, <1>8, <1>9, <1>12, <1>13 DEF IInv

LEMMA OpenIInv ==
  ASSUME IInv, Open
  PROVE  IInv'
<1>1. /\ UNCHANGED <<store, cap, calls, idx, expired, reg, left, ended, failed, snap, kept, late>>
      /\ engine' = "opened"
      /\ list'.arr = calls.arr /\ list'.len = 0 /\ list' \in Header
      /\ rng'.arr = calls.arr /\ rng'.len = 0 /\ rng' \in Header
  <2>1. calls \in [arr : Array, len : 0..MaxCap] /\ 0 \in 0..MaxCap
    BY TaskAssumption DEF IInv, TypeOK, Header
  <2> DEFINE empty == [calls EXCEPT !.len = 0]
  <2>2. empty.arr = calls.arr /\ empty.len = 0 /\ empty \in [arr : Array, len : 0..MaxCap]
    BY <2>1
  <2>3. list' = empty /\ rng' = empty
    BY DEF Open, EmptyList
  <2> QED BY <2>2, <2>3 DEF Open, Header, history
<1>2. TypeOK'
  BY <1>1 DEF IInv, TypeOK, EngineStates
<1>3. HeadersFit'
  <2>1. cap[calls.arr] \in Nat
    BY TaskAssumption DEF IInv, TypeOK, Header
  <2> QED BY <1>1, <2>1 DEF IInv, HeadersFit
<1> QED BY <1>1, <1>2, <1>3 DEF IInv, ListBehind, Sharing, UnvisitedIntact, RunningIsNext,
           KeptExactly, InCycle

(* What a header reaches is a sequence of tasks. *)
LEMMA ContentsIsSeq ==
  ASSUME TypeOK, HeadersFit, NEW h \in {calls, list, rng}
  PROVE  /\ h.len \in Nat
         /\ Contents(h) \in Seq(Task)
         /\ Len(Contents(h)) = h.len
         /\ \A i \in 1..h.len : Contents(h)[i] = store[h.arr][i]
<1>1. h.len \in Nat
  BY TaskAssumption DEF TypeOK, Header
<1>2. Contents(h) \in [1..h.len -> Task]
  BY DEF HeadersFit, Contents
<1>3. Contents(h) \in Seq(Task)
  BY <1>1, <1>2, SeqDef
<1> QED BY <1>1, <1>2, <1>3, LenProperties DEF Contents

LEMMA RunnerStartsIInv ==
  ASSUME IInv, RunnerStarts
  PROVE  IInv'
<1>1. /\ UNCHANGED <<store, cap, calls, list, expired, reg, left, ended, failed, late>>
      /\ engine = "opened" /\ engine' = "loop"
      /\ rng' = calls /\ idx' = 0
      /\ snap' = Contents(calls) /\ kept' = <<>>
  BY DEF RunnerStarts
<1>2. /\ calls.len \in Nat
      /\ snap' \in Seq(Task)
      /\ Len(snap') = calls.len
      /\ \A i \in 1..calls.len : snap'[i] = store[calls.arr][i]
  BY <1>1, ContentsIsSeq DEF IInv
<1>3. kept' \in Seq(Task) /\ Len(kept') = 0
  BY <1>1, EmptySeq
<1>4. TypeOK'
  BY <1>1, <1>2, <1>3, TaskAssumption DEF IInv, TypeOK, EngineStates
<1>5. HeadersFit' /\ Sharing' /\ ListBehind'
  BY <1>1, <1>2 DEF IInv, HeadersFit, Sharing, ListBehind, InCycle
<1> QED BY <1>1, <1>2, <1>3, <1>4, <1>5 DEF IInv, UnvisitedIntact, RunningIsNext, KeptExactly,
           InCycle, ListBehind

(* The script is appended to list: its cell lies at or before the position the
   runner has just read. *)
LEMMA CallIInv ==
  ASSUME IInv, Call
  PROVE  IInv'
<1>1. /\ AppendTo(list, Current)
      /\ list' = AppendedHeader(list)
      /\ engine = "loop" /\ engine' = "call" /\ idx < rng.len
      /\ UNCHANGED <<calls, rng, idx, expired, reg, left, ended, failed, snap, kept, late>>
  BY DEF Call, history
<1>2. /\ TypeOK /\ HeadersFit /\ calls \in Header /\ list \in Header /\ rng \in Header
      /\ idx \in Nat /\ MaxCap \in Nat
  BY TaskAssumption DEF IInv, TypeOK
<1>3. /\ calls.len \in Nat /\ list.len \in Nat /\ rng.len \in Nat
      /\ list.arr \in Array /\ rng.arr \in Array /\ calls.arr \in Array
      /\ rng.len <= MaxCap
      /\ list.len <= idx
  BY <1>1, <1>2 DEF Header, IInv, ListBehind
<1>4. Current \in Task /\ Current = snap[idx + 1]
  BY <1>1, <1>2, <1>3 DEF Current, HeadersFit, IInv, UnvisitedIntact
<1>5. /\ Target(list) \in Array
      /\ AppendedHeader(list) \in Header
      /\ store' \in [Array -> [1..MaxCap -> Task \cup {NoTask}]]
      /\ cap' \in [Array -> 0..MaxCap]
      /\ list.len + 1 <= cap'[Target(list)]
      /\ \A i \in 1..list.len : store'[Target(list)][i] = store[list.arr][i]
      /\ store'[Target(list)][list.len + 1] = Current
      /\ \A a \in Array : a # Target(list) => store'[a] = store[a] /\ cap'[a] = cap[a]
      /\ IsFull(list) => Target(list) \notin {calls.arr, list.arr, rng.arr}
      /\ ~IsFull(list) => /\ Target(list) = list.arr
                          /\ cap' = cap
                          /\ \A i \in 1..MaxCap : i # list.len + 1 =>
                               store'[list.arr][i] = store[list.arr][i]
  BY <1>1, <1>2, <1>4, Appending
<1>6. list'.arr = Target(list) /\ list'.len = list.len + 1
  BY <1>1 DEF AppendedHeader
<1>7. TypeOK'
  BY <1>1, <1>2, <1>5 DEF TypeOK, EngineStates
<1>8. ASSUME NEW h \in {calls, rng}, NEW i \in 1..h.len
      PROVE  /\ store'[h.arr][i] \in Task
             /\ i # list.len + 1 => store'[h.arr][i] = store[h.arr][i]
  <2>1. /\ store[h.arr][i] \in Task
        /\ h.arr \in Array /\ h.len \in 0..MaxCap /\ i \in 1..MaxCap
    BY <1>2, <1>3 DEF HeadersFit, Header
  <2>2. CASE h.arr = Target(list)
    <3>1. ~IsFull(list) /\ h.arr = list.arr
      BY <1>5, <2>2
    <3> QED BY <1>4, <1>5, <2>1, <2>2, <3>1
  <2>3. CASE h.arr # Target(list)
    BY <1>5, <2>1, <2>3
  <2> QED BY <2>2, <2>3
<1>9. ASSUME NEW h \in {calls, rng} PROVE h.len <= cap'[h.arr]
  BY <1>2, <1>3, <1>5 DEF HeadersFit
<1>10. HeadersFit'
  <2>1. ASSUME NEW i \in 1..list'.len PROVE store'[list'.arr][i] \in Task
    <3>1. CASE i = list.len + 1
      BY <1>4, <1>5, <1>6, <3>1
    <3>2. CASE i # list.len + 1
      <4>1. i \in 1..list.len
        BY <1>3, <1>6, <3>2
      <4>2. store[list.arr][i] \in Task
        BY <1>2, <4>1 DEF HeadersFit
      <4> QED BY <1>5, <1>6, <4>1, <4>2
    <3> QED BY <3>1, <3>2
  <2> QED BY <1>1, <1>5, <1>6, <1>8, <1>9, <2>1 DEF HeadersFit
<1>11. ListBehind'
  BY <1>1, <1>2, <1>3, <1>6 DEF ListBehind
<1>12. Sharing'
  BY <1>1, <1>5, <1>6 DEF IInv, Sharing, InCycle
<1>13. RunningIsNext'
  BY <1>1, <1>4, <1>5, <1>6 DEF RunningIsNext, Running
<1>14. UnvisitedIntact'
  <2>1. Len(snap) = rng.len /\ \A i \in idx + 1 .. rng.len : store[rng.arr][i] = snap[i]
    BY <1>1 DEF IInv, UnvisitedIntact
  <2>2. ASSUME NEW i \in idx + 1 .. rng.len PROVE store'[rng.arr][i] = snap[i]
    <3>1. i \in 1..rng.len
      BY <1>2, <1>3
    <3>2. CASE i # list.len + 1
      BY <1>8, <2>1, <3>1, <3>2
    <3>3. CASE i = list.len + 1
      <4>1. i = idx + 1
        BY <1>2, <1>3, <3>3
      <4>2. CASE rng.arr = Target(list)
        BY <1>4, <1>5, <3>3, <4>1, <4>2
      <4>3. CASE rng.arr # Target(list)
        BY <1>3, <1>5, <2>1, <4>3
      <4> QED BY <4>2, <4>3
    <3> QED BY <3>2, <3>3
  <2> QED BY <1>1, <2>1, <2>2 DEF UnvisitedIntact
<1>15. KeptExactly'
  <2>1. list.len = Len(kept) /\ \A i \in 1..Len(kept) : store[list.arr][i] = kept[i]
    BY <1>1 DEF IInv, KeptExactly, InCycle
  <2> QED BY <1>1, <1>5, <1>6, <2>1 DEF KeptExactly, InCycle
<1> QED BY <1>7, <1>10, <1>11, <1>12, <1>13, <1>14, <1>15 DEF IInv

(* The call has returned, and list keeps the script or drops it. *)
LEMMA FinishIInv ==
  ASSUME IInv, engine = "call", NEW drop \in BOOLEAN, Finish(drop),
         left' \in [Task -> Nat], failed' \subseteq Task
  PROVE  IInv'
<1>1. /\ engine' = "loop" /\ idx' = idx + 1
      /\ list' = IF drop THEN [list EXCEPT !.len = @ - 1] ELSE list
      /\ ended' = IF drop THEN ended \cup {Running} ELSE ended
      /\ kept' = IF drop THEN kept ELSE Append(kept, Running)
      /\ UNCHANGED <<store, cap, calls, rng, expired, reg, snap, late>>
  BY DEF Finish, ListAfter, Truncated
<1>2. /\ TypeOK /\ HeadersFit /\ calls \in Header /\ list \in Header /\ rng \in Header
      /\ idx \in Nat /\ MaxCap \in Nat /\ kept \in Seq(Task) /\ idx < rng.len
      /\ list.len \in 1..idx + 1
  BY TaskAssumption DEF IInv, TypeOK, ListBehind
<1>3. /\ list.len \in Nat /\ rng.len \in 0..MaxCap
      /\ list'.arr = list.arr
      /\ list'.len = IF drop THEN list.len - 1 ELSE list.len
      /\ list' \in Header
  BY <1>1, <1>2 DEF Header
<1>4. Running \in Task
  BY <1>2 DEF Running, HeadersFit
<1>5. /\ kept' \in Seq(Task)
      /\ Len(kept) \in Nat
      /\ Len(kept') = IF drop THEN Len(kept) ELSE Len(kept) + 1
      /\ \A i \in 1..Len(kept) : kept'[i] = kept[i]
      /\ ~drop => kept'[Len(kept) + 1] = Running
  BY <1>1, <1>2, <1>4, LenProperties
<1>6. TypeOK'
  <2>1. idx' \in 0..MaxCap
    BY <1>1, <1>2, <1>3
  <2> QED BY <1>1, <1>2, <1>3, <1>4, <1>5, <2>1 DEF TypeOK, EngineStates
<1>7. HeadersFit'
  <2>1. list'.len <= cap[list.arr] /\ \A i \in 1..list'.len : i \in 1..list.len
    <3>1. cap[list.arr] \in Nat /\ list.len <= cap[list.arr]
      BY <1>2, TaskAssumption DEF HeadersFit, TypeOK, Header
    <3> QED BY <1>3, <3>1
  <2> QED BY <1>1, <1>2, <1>3, <2>1 DEF HeadersFit
<1>8. ListBehind'
  BY <1>1, <1>2, <1>3 DEF ListBehind
<1>9. Sharing'
  BY <1>1, <1>3 DEF IInv, Sharing, InCycle
<1>10. UnvisitedIntact' /\ RunningIsNext'
  BY <1>1, <1>2, <1>3 DEF IInv, UnvisitedIntact, RunningIsNext
<1>11. KeptExactly'
  <2>1. list.len = Len(kept) + 1 /\ \A i \in 1..Len(kept) : store[list.arr][i] = kept[i]
    BY DEF IInv, KeptExactly, InCycle
  <2>2. store[list.arr][Len(kept) + 1] = Running
    BY <2>1 DEF Running
  <2> QED BY <1>1, <1>3, <1>5, <2>1, <2>2 DEF KeptExactly, InCycle
<1> QED BY <1>6, <1>7, <1>8, <1>9, <1>10, <1>11 DEF IInv

LEMMA IterationIInv ==
  ASSUME IInv, NotDue \/ Return \/ ReturnError
  PROVE  IInv'
<1>1. /\ engine = "call"
      /\ left \in [Task -> Nat] /\ failed \subseteq Task
      /\ Running \in Task
  <2>1. engine = "call"
    BY DEF NotDue, Return, ReturnError
  <2>2. list.len \in 1..list.len
    BY <2>1, TaskAssumption DEF IInv, TypeOK, ListBehind, Header
  <2> QED BY <2>1, <2>2 DEF IInv, TypeOK, HeadersFit, Running
<1>2. /\ [left EXCEPT ![Running] = Delay[Running]] \in [Task -> Nat]
      /\ \A t \in Task : Verdicts(t) \subseteq BOOLEAN
  BY <1>1, TaskAssumption DEF Verdicts
<1>3. CASE NotDue
  BY <1>1, <1>3, FinishIInv DEF NotDue
<1>4. CASE Return
  <2>1. PICK drop \in BOOLEAN : Finish(drop)
    BY <1>1, <1>2, <1>4 DEF Return
  <2> QED BY <1>1, <1>2, <1>4, <2>1, FinishIInv DEF Return
<1>5. CASE ReturnError
  BY <1>1, <1>2, <1>5, FinishIInv DEF ReturnError
<1> QED BY <1>3, <1>4, <1>5

LEMMA CloseIInv ==
  ASSUME IInv, Close
  PROVE  IInv'
<1>1. /\ UNCHANGED <<store, cap, list, reg, ended, failed, late>>
      /\ engine' = "idle" /\ expired' = FALSE
      /\ calls' = list /\ rng' = list /\ idx' = 0
      /\ snap' = <<>> /\ kept' = <<>>
  BY DEF Close, Filtered
<1>2. left' \in [Task -> Nat]
  BY DEF Close, Elapsed, IInv, TypeOK
<1>3. TypeOK'
  <2>1. <<>> \in Seq(Task) /\ 0 \in 0..MaxCap
    BY EmptySeq, TaskAssumption
  <2> QED BY <1>1, <1>2, <2>1 DEF IInv, TypeOK, EngineStates
<1> QED BY <1>1, <1>3 DEF IInv, HeadersFit, ListBehind, Sharing, UnvisitedIntact, RunningIsNext,
           KeptExactly, InCycle

LEMMA NextIInv == IInv /\ [Next]_vars => IInv'
<1> SUFFICES ASSUME IInv, [Next]_vars PROVE IInv' OBVIOUS
<1>1. CASE UNCHANGED vars
  BY <1>1 DEF vars, slices, history, IInv, TypeOK, HeadersFit, ListBehind, Sharing, UnvisitedIntact,
     RunningIsNext, KeptExactly, InCycle, Running, Header
<1>2. CASE \E t \in Task : Register(t)
  BY <1>2, RegisterIInv
<1>3. CASE (\E t \in Task : ReadStart(t)) \/ Expire \/ RunnerDone \/ RunnerQuits
  BY <1>3, QuietIInv
<1>4. CASE Open \/ RunnerStarts \/ Call \/ Close
  BY <1>4, OpenIInv, RunnerStartsIInv, CallIInv, CloseIInv
<1>5. CASE NotDue \/ Return \/ ReturnError
  BY <1>5, IterationIInv
<1> QED BY <1>1, <1>2, <1>3, <1>4, <1>5 DEF Next, Engine

-----------------------------------------------------------------------------
(* Accounted is inductive relative to IInv: no registration outside the window
   of OnlyLateLost gets lost in any phase of a cycle. *)

(* The steps that move no registration from one place to another. *)
LEMMA QuietAccounted ==
  ASSUME IInv, Accounted,
         \/ \E t \in Task : ReadStart(t)
         \/ Expire \/ RunnerDone \/ RunnerQuits \/ Open \/ UNCHANGED vars
  PROVE  Accounted'
<1>1. /\ UNCHANGED <<store, calls, idx, snap, kept, ended, late>>
      /\ \A t \in Task : reg'[t] = "listed" => reg[t] = "listed"
  BY DEF ReadStart, Expire, RunnerDone, RunnerQuits, Open, vars, slices, history, IInv, TypeOK
<1>2. \/ engine' = engine /\ UNCHANGED rng
      \/ engine = "loop" /\ engine' = "done" /\ idx = rng.len /\ UNCHANGED rng
      \/ engine' = "hung"
      \/ engine = "idle" /\ engine' = "opened"
  BY DEF ReadStart, Expire, RunnerDone, RunnerQuits, Open, vars, slices
<1>3. idx \in Nat /\ \A i \in idx + 1 .. idx : FALSE
  BY TaskAssumption DEF IInv, TypeOK
<1> QED BY <1>1, <1>2, <1>3 DEF Accounted, InCycle

(* A registration joins ScriptCalls, or is late. *)
LEMMA RegisterAccounted ==
  ASSUME IInv, Accounted, NEW t \in Task, Register(t)
  PROVE  Accounted'
<1>1. /\ AppendTo(calls, t)
      /\ calls' = AppendedHeader(calls)
      /\ UNCHANGED <<rng, idx, engine, ended, snap, kept>>
      /\ late' = IF engine \in {"idle", "opened"} THEN late ELSE late \cup {t}
      /\ \A u \in Task : u # t => reg'[u] = reg[u]
  BY DEF Register, IInv, TypeOK
<1>2. TypeOK /\ HeadersFit /\ calls.len \in Nat
  BY TaskAssumption DEF IInv, TypeOK, Header
<1>3. /\ calls'.len = calls.len + 1
      /\ \A i \in 1..calls.len : store'[calls'.arr][i] = store[calls.arr][i]
      /\ store'[calls'.arr][calls.len + 1] = t
  BY <1>1, <1>2, Appending DEF AppendedHeader
<1>4. ASSUME NEW u \in Task, reg'[u] = "listed", u \notin (ended \cup late)',
             engine \in {"idle", "opened"}
      PROVE  \E i \in 1..calls'.len : store'[calls'.arr][i] = u
  <2>1. CASE u = t
    BY <1>2, <1>3, <2>1
  <2>2. CASE u # t
    <3>1. PICK i \in 1..calls.len : store[calls.arr][i] = u
      BY <1>1, <1>4, <2>2 DEF Accounted
    <3> QED BY <1>2, <1>3, <3>1
  <2> QED BY <2>1, <2>2
<1>5. ASSUME NEW u \in Task, reg'[u] = "listed", u \notin (ended \cup late)', InCycle
      PROVE  reg[u] = "listed" /\ u \notin ended \cup late
  BY <1>1, <1>5 DEF InCycle
<1> QED BY <1>1, <1>4, <1>5 DEF Accounted, InCycle

(* What the runner ranges over is all of ScriptCalls. *)
LEMMA RunnerStartsAccounted ==
  ASSUME IInv, Accounted, RunnerStarts
  PROVE  Accounted'
<1>1. /\ UNCHANGED <<reg, ended, late>>
      /\ engine = "opened" /\ engine' = "loop"
      /\ rng' = calls /\ idx' = 0 /\ snap' = Contents(calls)
  BY DEF RunnerStarts
<1>2. /\ calls.len \in Nat
      /\ \A i \in 1..calls.len : snap'[i] = store[calls.arr][i]
  BY <1>1, ContentsIsSeq DEF IInv
<1> QED BY <1>1, <1>2 DEF Accounted, InCycle

(* A script that is done with is ended or kept. *)
LEMMA FinishAccounted ==
  ASSUME IInv, Accounted, engine = "call", NEW drop \in BOOLEAN, Finish(drop)
  PROVE  Accounted'
<1>1. /\ engine' = "loop" /\ idx' = idx + 1
      /\ ended' = IF drop THEN ended \cup {Running} ELSE ended
      /\ kept' = IF drop THEN kept ELSE Append(kept, Running)
      /\ UNCHANGED <<rng, reg, snap, late>>
  BY DEF Finish
<1>2. /\ idx \in Nat /\ kept \in Seq(Task) /\ Running = snap[idx + 1]
      /\ rng.len \in Nat /\ list.len \in 1..list.len
  BY TaskAssumption DEF IInv, TypeOK, RunningIsNext, Header, ListBehind
<1>3. Running \in Task
  BY <1>2 DEF Running, IInv, HeadersFit
<1>4. /\ Len(kept) \in Nat
      /\ \A i \in 1..Len(kept) : i \in 1..Len(kept') /\ kept'[i] = kept[i]
      /\ ~drop => Len(kept) + 1 \in 1..Len(kept') /\ kept'[Len(kept) + 1] = Running
  BY <1>1, <1>2, <1>3, LenProperties
<1>5. ASSUME NEW u \in Task, reg[u] = "listed", u \notin ended' \cup late
      PROVE  \/ \E i \in 1..Len(kept') : kept'[i] = u
             \/ \E i \in idx + 2 .. rng.len : snap[i] = u
  <2>1. \/ \E i \in 1..Len(kept) : kept[i] = u
        \/ \E i \in idx + 1 .. rng.len : snap[i] = u
    BY <1>1, <1>5 DEF Accounted, InCycle
  <2>2. CASE \E i \in 1..Len(kept) : kept[i] = u
    BY <1>4, <2>2
  <2>3. ASSUME NEW i \in idx + 1 .. rng.len, snap[i] = u
        PROVE  \/ \E j \in 1..Len(kept') : kept'[j] = u
               \/ \E j \in idx + 2 .. rng.len : snap[j] = u
    <3>1. CASE i = idx + 1
      <4>1. u = Running /\ ~drop
        BY <1>1, <1>2, <1>5, <2>3, <3>1
      <4> QED BY <1>4, <4>1
    <3>2. CASE i # idx + 1
      <4>1. i \in idx + 2 .. rng.len
        BY <1>2, <3>2
      <4> QED BY <2>3, <4>1
    <3> QED BY <3>1, <3>2
  <2> QED BY <2>1, <2>2, <2>3
<1>6. idx + 1 + 1 = idx + 2
  BY <1>2
<1> QED BY <1>1, <1>5, <1>6 DEF Accounted, InCycle

(* Beginning a call moves nothing: the script is still the one at idx + 1. *)
LEMMA CallAccounted ==
  ASSUME IInv, Accounted, Call
  PROVE  Accounted'
BY DEF Call, Accounted, InCycle, history

(* What a cycle kept is what the next one will find. *)
LEMMA CloseAccounted ==
  ASSUME IInv, Accounted, Close
  PROVE  Accounted'
<1>1. /\ UNCHANGED <<store, reg, ended, late>>
      /\ engine = "done" /\ engine' = "idle" /\ calls' = list
  BY DEF Close, Filtered
<1>2. list.len = Len(kept) /\ \A i \in 1..Len(kept) : store[list.arr][i] = kept[i]
  BY <1>1 DEF IInv, KeptExactly, InCycle
<1> QED BY <1>1, <1>2 DEF Accounted, InCycle

LEMMA NextAccounted == IInv /\ Accounted /\ [Next]_vars => Accounted'
<1> SUFFICES ASSUME IInv, Accounted, [Next]_vars PROVE Accounted' OBVIOUS
<1>1. CASE \E t \in Task : Register(t)
  BY <1>1, RegisterAccounted
<1>2. CASE (\E t \in Task : ReadStart(t)) \/ Expire \/ RunnerDone \/ RunnerQuits \/ Open \/ UNCHANGED vars
  BY <1>2, QuietAccounted
<1>3. CASE RunnerStarts \/ Call \/ Close
  BY <1>3, RunnerStartsAccounted, CallAccounted, CloseAccounted
<1>4. CASE NotDue \/ Return \/ ReturnError
  <2>1. PICK drop \in BOOLEAN : Finish(drop)
    <3>1. \A t \in Task : Verdicts(t) \subseteq BOOLEAN
      BY DEF Verdicts
    <3>2. engine = "call" /\ list.len \in 1..list.len
      <4>1. engine = "call"
        BY <1>4 DEF NotDue, Return, ReturnError
      <4> QED BY <4>1, TaskAssumption DEF IInv, TypeOK, ListBehind, Header
    <3>3. Running \in Task
      BY <3>2 DEF Running, IInv, HeadersFit
    <3> QED BY <1>4, <3>1, <3>3 DEF NotDue, Return, ReturnError
  <2> QED BY <1>4, <2>1, FinishAccounted DEF NotDue, Return, ReturnError
<1> QED BY <1>1, <1>2, <1>3, <1>4 DEF Next, Engine

-----------------------------------------------------------------------------
(* The results. *)

(* The invariant of ForEach's in-place filter holds for any set of tasks, any
   array growth and any interleaving of appends. *)
THEOREM InductiveInvariant == Spec => []IInv
BY InitIInv, NextIInv, PTL DEF Spec

(* Headers, arrays and the runner's position keep their types. *)
THEOREM TypeCorrect == Spec => []TypeOK
<1>1. IInv => TypeOK BY DEF IInv
<1> QED BY <1>1, InductiveInvariant, PTL

(* No append, by the runner or by another goroutine, overwrites a script that
   the runner has yet to visit. *)
THEOREM UnvisitedStayIntact == Spec => []UnvisitedIntact
<1>1. IInv => UnvisitedIntact BY DEF IInv
<1> QED BY <1>1, InductiveInvariant, PTL

(* Whatever was registered outside the window between the runner's start and the
   end of its cycle is listed until it has ended: for any number of tasks, any
   growth of the arrays and however the appends fall into ForEach, only the late
   registrations can be lost. *)
THEOREM NothingElseLost == Spec => []OnlyLateLost
<1>1. Init => Accounted
  BY DEF Init, Accounted
<1>2. IInv /\ Accounted => OnlyLateLost
  <2> SUFFICES ASSUME IInv, Accounted, engine = "idle",
                      NEW t \in Task, reg[t] = "listed", t \notin ended \cup late
               PROVE  t \in Range(Contents(calls))
    BY DEF OnlyLateLost
  <2>1. PICK i \in 1..calls.len : store[calls.arr][i] = t
    BY DEF Accounted
  <2> QED BY <2>1 DEF Contents, Range
<1> QED BY <1>1, <1>2, InitIInv, NextIInv, NextAccounted, PTL DEF Spec

(* The list a cycle leaves behind is exactly what asked to be kept, in order. *)
THEOREM ListIsWhatWasKept == Spec => []KeptExactly
<1>1. IInv => KeptExactly BY DEF IInv
<1> QED BY <1>1, InductiveInvariant, PTL

-----------------------------------------------------------------------------
(* The cycle on shared arrays implements the abstract cycle of TickContract:
   every step of TaskList is one of its steps or leaves its variables alone. *)

(* What the mapped variables are worth, in terms of the sequences the runner
   found (snap) and has kept: no array is mentioned. *)
Mapped ==
  /\ engine \in {"loop", "call"} =>
       /\ Todo \in Seq(Task)
       /\ Len(Todo) = Len(snap) - Begun
       /\ \A i \in 1..Len(Todo) : Todo[i] = snap[Begun + i]
  /\ InCycle => Again = kept
  /\ engine = "call" => Running \in Task

(* The invariant of the filter is what makes the mapping meaningful. *)
LEMMA MappingHolds == IInv => Mapped
<1> SUFFICES ASSUME IInv PROVE Mapped OBVIOUS
<1>1. /\ TypeOK /\ HeadersFit /\ ListBehind /\ UnvisitedIntact /\ KeptExactly
      /\ idx \in Nat /\ kept \in Seq(Task) /\ snap \in Seq(Task)
  BY TaskAssumption DEF IInv, TypeOK
<1>2. /\ rng.len \in Nat /\ Contents(rng) \in Seq(Task) /\ Len(Contents(rng)) = rng.len
      /\ \A i \in 1..rng.len : Contents(rng)[i] = store[rng.arr][i]
      /\ list.len \in Nat /\ Contents(list) \in Seq(Task) /\ Len(Contents(list)) = list.len
      /\ \A i \in 1..list.len : Contents(list)[i] = store[list.arr][i]
  BY <1>1, ContentsIsSeq
<1>3. Len(kept) \in Nat /\ Len(<<>>) = 0 /\ kept \in [1..Len(kept) -> Task]
  BY <1>1, LenProperties
<1>4. ASSUME engine \in {"loop", "call"}
      PROVE  /\ Todo \in Seq(Task)
             /\ Len(Todo) = Len(snap) - Begun
             /\ \A i \in 1..Len(Todo) : Todo[i] = snap[Begun + i]
  <2>1. Begun \in Nat /\ Begun <= rng.len /\ Begun >= idx /\ Len(snap) = rng.len
    BY <1>1, <1>2, <1>4 DEF Begun, ListBehind, UnvisitedIntact
  <2>2. ASSUME NEW i \in Begun + 1 .. rng.len
        PROVE  Contents(rng)[i] \in Task /\ Contents(rng)[i] = snap[i]
    <3>1. i \in 1..rng.len /\ i \in idx + 1 .. rng.len
      BY <1>1, <1>2, <2>1
    <3> QED BY <1>1, <1>2, <1>4, <3>1 DEF HeadersFit, UnvisitedIntact
  <2>3. Todo = SubSeq(Contents(rng), Begun + 1, rng.len)
    BY <1>4 DEF Todo
  <2>4. /\ Todo \in Seq(Task)
        /\ Len(Todo) = IF Begun + 1 <= rng.len THEN rng.len - (Begun + 1) + 1 ELSE 0
        /\ \A i \in 1 .. rng.len - (Begun + 1) + 1 : Todo[i] = Contents(rng)[Begun + 1 + i - 1]
    <3>1. Begun + 1 \in Int /\ rng.len \in Int
      BY <1>2, <2>1
    <3> QED BY <2>2, <2>3, <3>1, SubSeqProperties
  <2>5. Len(Todo) = rng.len - Begun
    BY <1>2, <2>1, <2>4
  <2>6. ASSUME NEW i \in 1..Len(Todo) PROVE Todo[i] = snap[Begun + i]
    <3>1. Begun + i \in Begun + 1 .. rng.len /\ Begun + 1 + i - 1 = Begun + i
          /\ i \in 1 .. rng.len - (Begun + 1) + 1
      BY <1>2, <2>1, <2>5
    <3> QED BY <2>2, <2>4, <3>1
  <2> QED BY <2>1, <2>4, <2>5, <2>6
<1>5. ASSUME InCycle PROVE Again = kept
  <2>0. /\ list.len = IF engine = "call" THEN Len(kept) + 1 ELSE Len(kept)
        /\ \A i \in 1..Len(kept) : store[list.arr][i] = kept[i]
    BY <1>1, <1>5 DEF KeptExactly
  <2>1. list.len >= Len(kept) /\ \A i \in 1..Len(kept) : Contents(list)[i] = kept[i]
    <3>1. list.len >= Len(kept) /\ 1..Len(kept) \subseteq 1..list.len
      BY <1>3, <2>0
    <3> QED BY <1>2, <2>0, <3>1
  <2>2. CASE engine = "call"
    <3>1. Again = SubSeq(Contents(list), 1, Len(kept))
      BY <1>3, <2>0, <2>2 DEF Again
    <3>2. ASSUME NEW i \in 1..Len(kept) PROVE Contents(list)[i] \in Task
      BY <1>3, <2>1
    <3>3. /\ Again \in Seq(Task)
          /\ Len(Again) = IF 1 <= Len(kept) THEN Len(kept) - 1 + 1 ELSE 0
          /\ \A i \in 1 .. Len(kept) - 1 + 1 : Again[i] = Contents(list)[1 + i - 1]
      <4>1. 1 \in Int /\ Len(kept) \in Int
        BY <1>3
      <4> QED BY <3>1, <3>2, <4>1, SubSeqProperties
    <3>4. Len(Again) = Len(kept) /\ \A i \in 1..Len(kept) : Again[i] = kept[i]
      BY <1>3, <2>1, <3>3
    <3> QED BY <1>1, <3>3, <3>4, SeqEqual
  <2>3. CASE engine # "call"
    <3>1. Again = Contents(list)
      BY <1>5, <2>3 DEF Again, InCycle
    <3>2. Len(Contents(list)) = Len(kept)
      BY <1>2, <2>0, <2>3
    <3> QED BY <1>1, <1>2, <2>1, <3>1, <3>2, SeqEqual
  <2> QED BY <2>2, <2>3
<1>6. ASSUME engine = "call" PROVE Running \in Task
  BY <1>1, <1>2, <1>6 DEF Running, ListBehind, HeadersFit
<1> QED BY <1>4, <1>5, <1>6 DEF Mapped

-----------------------------------------------------------------------------
(* The mapped variables, step by step. *)

LEMMA ContractInit == Init => Contract!Init
<1> SUFFICES ASSUME Init PROVE Contract!Init OBVIOUS
<1>1. Contents(calls) = <<>>
  BY DEF Init, Contents
<1> QED BY <1>1 DEF Init, Contract!Init, Phase, Queue, Todo, Again, NowRunning

(* Outside ForEach a registration is accepted; inside, it does not show. *)
LEMMA RegisterMaps ==
  ASSUME IInv, IInv', Mapped, Mapped', NEW t \in Task, Register(t)
  PROVE  Contract!Accept(t) \/ UNCHANGED Contract!vars
<1>1. /\ engine' = engine /\ list' = list /\ rng' = rng /\ idx' = idx
      /\ snap' = snap /\ kept' = kept
      /\ calls' = AppendedHeader(calls) /\ AppendTo(calls, t)
      /\ TypeOK /\ HeadersFit
  BY DEF Register, IInv
<1>2. CASE engine \in {"idle", "opened"}
  <2>1. /\ calls.len \in Nat /\ Contents(calls) \in Seq(Task) /\ Len(Contents(calls)) = calls.len
        /\ \A i \in 1..calls.len : Contents(calls)[i] = store[calls.arr][i]
    BY <1>1, ContentsIsSeq
  <2>2. /\ \A i \in 1..calls.len : store'[Target(calls)][i] = store[calls.arr][i]
        /\ store'[Target(calls)][calls.len + 1] = t
    BY <1>1, Appending
  <2>3. Contents(calls)' = [i \in 1..calls.len + 1 |-> store'[Target(calls)][i]]
    BY <1>1 DEF Contents, AppendedHeader
  <2>4. /\ Append(Contents(calls), t) \in Seq(Task)
        /\ Len(Append(Contents(calls), t)) = calls.len + 1
        /\ \A i \in 1..calls.len : Append(Contents(calls), t)[i] = store[calls.arr][i]
        /\ Append(Contents(calls), t)[calls.len + 1] = t
    BY <2>1, AppendProperties
  <2>5. Append(Contents(calls), t) \in [1..calls.len + 1 -> Task]
    BY <2>4, LenProperties
  <2>6. \A i \in 1..calls.len + 1 : Append(Contents(calls), t)[i] = store'[Target(calls)][i]
    <3> SUFFICES ASSUME NEW i \in 1..calls.len + 1
                 PROVE  Append(Contents(calls), t)[i] = store'[Target(calls)][i]
      OBVIOUS
    <3>1. i \in 1..calls.len \/ i = calls.len + 1
      BY <2>1
    <3> QED BY <2>2, <2>4, <3>1
  <2>7. Contents(calls)' = Append(Contents(calls), t)
    BY <2>3, <2>5, <2>6
  <2>8. Queue = Contents(calls) /\ Queue' = Contents(calls)'
    BY <1>1, <1>2 DEF Queue
  <2>9. Phase = "idle" /\ UNCHANGED <<Phase, Todo, Again, NowRunning>>
    BY <1>1, <1>2 DEF Phase, Todo, Again, NowRunning
  <2> QED BY <2>7, <2>8, <2>9 DEF Contract!Accept
<1>3. CASE engine \notin {"idle", "opened"}
  <2>1. Phase' = Phase /\ Queue' = Queue
    BY <1>1, <1>3 DEF Phase, Queue
  <2>2. Again' = Again
    BY <1>1, <1>3 DEF Mapped, InCycle, Again
  <2>3. Todo' = Todo
    <3>1. CASE engine \in {"loop", "call"}
      <4>1. /\ Todo \in Seq(Task) /\ Todo' \in Seq(Task) /\ Len(Todo) = Len(Todo')
            /\ \A i \in 1..Len(Todo) : Todo[i] = Todo'[i]
        BY <1>1, <3>1 DEF Mapped, Begun
      <4> QED BY <4>1, SeqEqual
    <3>2. CASE engine \notin {"loop", "call"}
      BY <1>1, <3>2 DEF Todo
    <3> QED BY <3>1, <3>2
  <2>4. NowRunning' = NowRunning
    BY <1>1 DEF IInv, RunningIsNext, NowRunning
  <2> QED BY <2>1, <2>2, <2>3, <2>4 DEF Contract!vars
<1> QED BY <1>2, <1>3

(* Entering ForEach does not show: the cycle begins when the runner reads the list. *)
LEMMA OpenMaps ==
  ASSUME Open
  PROVE  UNCHANGED Contract!vars
<1>1. engine = "idle" /\ engine' = "opened" /\ calls' = calls /\ store' = store
  BY DEF Open
<1> QED BY <1>1 DEF Contract!vars, Phase, Queue, Todo, Again, NowRunning, Contents

LEMMA RunnerStartsMaps ==
  ASSUME IInv, IInv', Mapped', RunnerStarts
  PROVE  Contract!StartCycle
<1>1. /\ engine = "opened" /\ engine' = "loop" /\ rng' = calls /\ idx' = 0
      /\ snap' = Contents(calls) /\ kept' = <<>>
  BY DEF RunnerStarts
<1>2. /\ Contents(calls) \in Seq(Task) /\ Len(Contents(calls)) \in Nat
  BY ContentsIsSeq DEF IInv
<1>3. Todo' = Contents(calls)
  <2>1. /\ Todo' \in Seq(Task) /\ Len(Todo') = Len(Contents(calls)) - 0
        /\ \A i \in 1..Len(Todo') : Todo'[i] = Contents(calls)[0 + i]
    BY <1>1 DEF Mapped, Begun
  <2>2. Len(Todo') = Len(Contents(calls)) /\ \A i \in 1..Len(Todo') : Todo'[i] = Contents(calls)[i]
    BY <1>2, <2>1
  <2> QED BY <1>2, <2>1, <2>2, SeqEqual
<1>4. Again = <<>> /\ Again' = <<>>
  BY <1>1 DEF Mapped, InCycle, Again
<1> QED BY <1>1, <1>3, <1>4 DEF Contract!StartCycle, Phase, Queue, NowRunning

(* The script appended to list shows only as the one being called. *)
LEMMA CallMaps ==
  ASSUME IInv, IInv', Mapped, Mapped', Call
  PROVE  Contract!CallNext
<1>1. /\ engine = "loop" /\ engine' = "call" /\ idx < rng.len
      /\ snap' = snap /\ kept' = kept /\ idx' = idx
  BY DEF Call, history
<1>2. /\ idx \in Nat /\ Len(snap) = rng.len /\ rng.len \in Nat
  BY <1>1, TaskAssumption DEF IInv, TypeOK, UnvisitedIntact, Header
<1>3. /\ Todo \in Seq(Task) /\ Len(Todo) = Len(snap) - idx
      /\ \A i \in 1..Len(Todo) : Todo[i] = snap[idx + i]
      /\ Todo' \in Seq(Task) /\ Len(Todo') = Len(snap) - (idx + 1)
      /\ \A i \in 1..Len(Todo') : Todo'[i] = snap[idx + 1 + i]
  BY <1>1 DEF Mapped, Begun
<1>4. Todo # <<>>
  <2>1. Len(Todo) # 0 /\ Len(<<>>) = 0
    BY <1>1, <1>2, <1>3, EmptySeq
  <2> QED BY <2>1
<1>5. Head(Todo) = snap[idx + 1]
  <2>1. 1 \in 1..Len(Todo) /\ Head(Todo) = Todo[1]
    BY <1>1, <1>2, <1>3, <1>4
  <2> QED BY <1>3, <2>1
<1>6. Todo' = Tail(Todo)
  <2>1. /\ Tail(Todo) \in Seq(Task) /\ Len(Tail(Todo)) = Len(Todo) - 1
        /\ \A i \in 1..Len(Tail(Todo)) : Tail(Todo)[i] = Todo[i + 1]
    BY <1>3, <1>4, HeadTailProperties
  <2>2. Len(Tail(Todo)) = Len(Todo')
    BY <1>2, <1>3, <2>1
  <2>3. ASSUME NEW i \in 1..Len(Todo') PROVE Todo'[i] = Tail(Todo)[i]
    <3>1. i + 1 \in 1..Len(Todo) /\ idx + (i + 1) = idx + 1 + i
      BY <1>2, <1>3
    <3> QED BY <1>3, <2>1, <2>2, <3>1
  <2> QED BY <1>3, <2>1, <2>2, <2>3, SeqEqual
<1>7. Again' = Again
  BY <1>1 DEF Mapped, InCycle
<1>8. NowRunning' = snap[idx + 1] /\ NowRunning = NoTask
  BY <1>1 DEF IInv, RunningIsNext, NowRunning
<1> QED BY <1>1, <1>4, <1>5, <1>6, <1>7, <1>8 DEF Contract!CallNext, Phase, Queue

(* A call that comes back, in time or not, with or without an error. *)
LEMMA IterationMaps ==
  ASSUME IInv, IInv', Mapped, Mapped', NotDue \/ Return \/ ReturnError
  PROVE  Contract!Answer
<1>1. PICK drop : engine = "call" /\ Finish(drop)
  BY DEF NotDue, Return, ReturnError
<1>2. /\ engine' = "loop" /\ idx' = idx + 1 /\ snap' = snap
      /\ kept' \in {kept, Append(kept, Running)}
  BY <1>1 DEF Finish
<1>3. Again = kept /\ Again' = kept' /\ Running \in Task
  BY <1>1, <1>2 DEF Mapped, InCycle
<1>4. Todo' = Todo
  <2>1. /\ Todo \in Seq(Task) /\ Todo' \in Seq(Task) /\ Len(Todo) = Len(Todo')
        /\ \A i \in 1..Len(Todo) : Todo[i] = Todo'[i]
    BY <1>1, <1>2 DEF Mapped, Begun
  <2> QED BY <2>1, SeqEqual
<1>5. NowRunning = Running /\ NowRunning # NoTask /\ NowRunning' = NoTask
  BY <1>1, <1>2, <1>3, TaskAssumption DEF NowRunning
<1> QED BY <1>1, <1>2, <1>3, <1>4, <1>5 DEF Contract!Answer, Phase, Queue

LEMMA RunnerEndsMaps ==
  ASSUME IInv, IInv', Mapped, Mapped', RunnerDone \/ RunnerQuits
  PROVE  Contract!EndCalls \/ Contract!GiveUp
<1>1. /\ engine = "loop" /\ kept' = kept
      /\ Phase = "loop" /\ Queue = <<>> /\ Queue' = <<>> /\ NowRunning = NoTask /\ NowRunning' = NoTask
  BY DEF RunnerDone, RunnerQuits, Phase, Queue, NowRunning, history
<1>2. CASE RunnerDone
  <2>1. engine' = "done" /\ idx = rng.len
    BY <1>2 DEF RunnerDone
  <2>2. Todo = <<>>
    <3>1. /\ Todo \in Seq(Task) /\ Len(Todo) = 0
      <4>1. Todo \in Seq(Task) /\ Len(Todo) = Len(snap) - idx /\ Len(snap) = rng.len /\ idx \in Nat
        BY <1>1, TaskAssumption DEF Mapped, Begun, IInv, UnvisitedIntact, TypeOK
      <4> QED BY <2>1, <4>1
    <3> QED BY <3>1, EmptySeq
  <2>3. Todo' = <<>> /\ Again' = Again /\ Phase' = "done"
    BY <1>1, <2>1 DEF Todo, Mapped, InCycle, Phase
  <2> QED BY <1>1, <2>2, <2>3 DEF Contract!EndCalls
<1>3. CASE RunnerQuits
  <2>1. engine' = "hung"
    BY <1>3 DEF RunnerQuits
  <2> QED BY <1>1, <2>1 DEF Contract!GiveUp, Todo, Again, Phase
<1> QED BY <1>2, <1>3

LEMMA CloseMaps ==
  ASSUME Close
  PROVE  Contract!EndCycle
<1>1. engine = "done" /\ engine' = "idle" /\ calls' = list /\ store' = store
  BY DEF Close, Filtered
<1>2. Contents(calls)' = Contents(list)
  BY <1>1 DEF Contents
<1> QED BY <1>1, <1>2 DEF Contract!EndCycle, Phase, Queue, Todo, Again, NowRunning

LEMMA NextMaps ==
  IInv /\ IInv' /\ Mapped /\ Mapped' /\ [Next]_vars => [Contract!Next]_(Contract!vars)
<1> SUFFICES ASSUME IInv, IInv', Mapped, Mapped', [Next]_vars
             PROVE  Contract!Next \/ UNCHANGED Contract!vars
  OBVIOUS
<1>1. CASE \/ UNCHANGED vars
           \/ \E t \in Task : ReadStart(t)
           \/ Expire
  <2>1. UNCHANGED <<store, calls, list, rng, idx, engine>>
    BY <1>1 DEF ReadStart, Expire, vars, slices
  <2> QED BY <2>1 DEF Contract!vars, Phase, Queue, Todo, Again, NowRunning, Begun, Running, Contents
<1>2. CASE \E t \in Task : Register(t)
  BY <1>2, RegisterMaps DEF Contract!Next
<1>3. CASE Open \/ RunnerStarts \/ Call \/ Close
  BY <1>3, OpenMaps, RunnerStartsMaps, CallMaps, CloseMaps DEF Contract!Next
<1>4. CASE NotDue \/ Return \/ ReturnError
  BY <1>4, IterationMaps DEF Contract!Next
<1>5. CASE RunnerDone \/ RunnerQuits
  BY <1>5, RunnerEndsMaps DEF Contract!Next
<1> QED BY <1>1, <1>2, <1>3, <1>4, <1>5 DEF Next, Engine

-----------------------------------------------------------------------------
(* For any tasks, arrays and capacities, and however other goroutines register
   tasks meanwhile, ForEach's cycle is the cycle TickContract describes: each
   task once per cycle, in order, and those that ask to run again in order. *)
THEOREM CycleImplementsContract == Spec => ImplementsContract
<1>1. Spec => []Mapped
  BY InductiveInvariant, MappingHolds, PTL
<1> QED BY <1>1, InductiveInvariant, ContractInit, NextMaps, PTL
    DEF Spec, ImplementsContract, Contract!Spec
=============================================================================
