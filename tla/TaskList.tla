------------------------------ MODULE TaskList ------------------------------
(***************************************************************************)
(* The tick-task list of the game engine, pkg/tasks/tasks.go.              *)
(*                                                                         *)
(* Any goroutine may register a task (Schedule, DoOnce, DoOnceSync, Stall, *)
(* Add); once per game tick the engine goroutine calls ForEach, which      *)
(* hands the list to a runner goroutine and waits for it.  The runner      *)
(* filters the list IN PLACE: `list` starts as ScriptCalls[:0], on the     *)
(* same backing array it is ranging over, while other goroutines keep      *)
(* appending to ScriptCalls.  Slices are therefore modelled as Go has      *)
(* them: headers (array, length) into a store of arrays with a capacity.   *)
(*                                                                         *)
(* A Task is one registration: a closure is appended at most once.  Nobody *)
(* registers nil, which the runner would skip and leave out of `list`.     *)
(***************************************************************************)
EXTENDS Integers, Sequences, Functions

CONSTANTS Task,    \* registrations
          NoTask,  \* the content of an array cell nobody has written
          Array,   \* identities of backing arrays; an unreferenced one is reused
          MaxCap,  \* bound: largest capacity of a backing array
          How,     \* How[t]: the function that registers t
          Kind,    \* Kind[t]: the Go type of the function registered
          Delay    \* Delay[t]: ticks to wait, for every How except "add"

Hows  == {"add", "schedule", "once", "sync"}
Kinds == {"call", "status", "dual", "single", "playerCall", "playerStatus"}

ASSUME TaskAssumption ==
  /\ NoTask \notin Task
  /\ MaxCap \in Nat \ {0}
  /\ How \in [Task -> Hows]
  /\ Kind \in [Task -> Kinds]
  /\ Delay \in [Task -> Nat]

(* Tick gives ForEach no argument: a function of a player that has been added as
   it is would be called with none, and panic.  The wrappers give it nil. *)
ASSUME NobodyAddsPlayerCalls ==
  \A t \in Task : How[t] = "add" => Kind[t] \notin {"playerCall", "playerStatus"}

(* calls, list and range are the only references to backing arrays. *)
ASSUME ArrayAssumption ==
  /\ Array # {}
  /\ \A x, y, z \in Array : \E a \in Array : a \notin {x, y, z}

VARIABLES
  store,    \* backing arrays: Array -> cells
  cap,      \* their capacities
  calls,    \* s.ScriptCalls, a slice header
  list,     \* the local `list` of ForEach
  rng,      \* the slice the runner's `for range` evaluated once
  idx,      \* scripts of rng the runner has finished with
  engine,   \* where ForEach and its runner are
  expired,  \* tickCtx is past its 640ms deadline
  reg,      \* progress of each registering call
  left,     \* ticks until CurrentTick().since(start) >= ticks
  ended,    \* tasks that returned true and were dropped from the list
  failed,   \* tasks whose call returned a non-nil error value
  \* history, read by no action
  snap,     \* the scripts rng held when the runner started
  kept,     \* those of this cycle that asked to be run again, in order
  late      \* tasks appended after the runner had taken its range

slices  == <<store, cap, calls, list, rng>>
history == <<snap, kept, late>>
vars == <<slices, idx, engine, expired, reg, left, ended, failed, history>>

-----------------------------------------------------------------------------
(* Slices *)

Header == [arr : Array, len : 0..MaxCap]

Contents(h) == [i \in 1..h.len |-> store[h.arr][i]]

IsFull(h) == h.len = cap[h.arr]

Spare == CHOOSE a \in Array : a \notin {calls.arr, list.arr, rng.arr}

(* append's growth of a small slice: 0, 1, 2, 4, ... *)
Grown(c) == IF c = 0 THEN 1 ELSE 2 * c

RoomFor(h) == IsFull(h) => Grown(cap[h.arr]) <= MaxCap

Target(h) == IF IsFull(h) THEN Spare ELSE h.arr

CellsBefore(h) ==
  IF IsFull(h) THEN [i \in 1..MaxCap |-> IF i <= h.len THEN store[h.arr][i] ELSE NoTask]
               ELSE store[h.arr]

(* append(h, t): the header it returns and what it does to memory. *)
AppendedHeader(h) == [arr |-> Target(h), len |-> h.len + 1]

AppendTo(h, t) ==
  /\ RoomFor(h)
  /\ store' = [store EXCEPT ![Target(h)] = [CellsBefore(h) EXCEPT ![h.len + 1] = t]]
  /\ cap' = [cap EXCEPT ![Target(h)] = IF IsFull(h) THEN Grown(cap[h.arr]) ELSE @]

-----------------------------------------------------------------------------
(* Registration *)

(* start := CurrentTick(), before the lock is taken. *)
ReadStart(t) ==
  /\ reg[t] = "new"
  /\ reg' = [reg EXCEPT ![t] = "calling"]
  /\ left' = [left EXCEPT ![t] = IF How[t] = "add" THEN 0 ELSE Delay[t]]
  /\ UNCHANGED <<slices, idx, engine, expired, ended, failed, history>>

(* The append under s.Lock(); the caller of a "sync" task then blocks on c
   until the task has ended. *)
Register(t) ==
  /\ reg[t] = "calling"
  /\ reg' = [reg EXCEPT ![t] = "listed"]
  /\ AppendTo(calls, t)
  /\ calls' = AppendedHeader(calls)
  /\ late' = IF engine \in {"idle", "opened"} THEN late ELSE late \cup {t}
  /\ UNCHANGED <<list, rng, idx, engine, expired, left, ended, failed, snap, kept>>

Blocked(t) == How[t] = "sync" /\ reg[t] = "listed" /\ t \notin ended

-----------------------------------------------------------------------------
(* ForEach *)

(* list = s.ScriptCalls[:0]: empty, on the array being ranged over. *)
WholeList == calls                          \* mutant
EmptyList == [calls EXCEPT !.len = 0]

(* Entry of ForEach, up to `<-done`: list is taken, the runner spawned. *)
Open ==
  /\ engine = "idle"
  /\ engine' = "opened"
  /\ list' = EmptyList
  /\ rng' = [calls EXCEPT !.len = 0]
  /\ UNCHANGED <<store, cap, calls, idx, expired, reg, left, ended, failed, history>>

(* The runner is scheduled, perhaps after s.RUnlock(), and evaluates its range. *)
RunnerStarts ==
  /\ engine = "opened"
  /\ engine' = "loop"
  /\ rng' = calls
  /\ idx' = 0
  /\ snap' = Contents(calls)
  /\ kept' = <<>>
  /\ UNCHANGED <<store, cap, calls, list, expired, reg, left, ended, failed, late>>

(* The deadline of tickCtx passes. *)
Expire ==
  /\ engine \in {"opened", "loop", "call"}
  /\ ~expired
  /\ expired' = TRUE
  /\ UNCHANGED <<slices, idx, engine, reg, left, ended, failed, history>>

Current == store[rng.arr][idx + 1]

(* One iteration up to the call: the script is appended to list first. *)
Call ==
  /\ engine = "loop"
  /\ ~expired
  /\ idx < rng.len
  /\ engine' = "call"
  /\ AppendTo(list, Current)
  /\ list' = AppendedHeader(list)
  /\ UNCHANGED <<calls, rng, idx, expired, reg, left, ended, failed, history>>

Running == store[list.arr][list.len]

(* list[:len(list)-1] for a script that is finished, list for the others. *)
Truncated == [list EXCEPT !.len = @ - 1]
KeepsNone(drop) == Truncated      \* mutant
ListAfter(drop) == IF drop THEN Truncated ELSE list

(* The iteration's end. *)
Finish(drop) ==
  /\ engine' = "loop"
  /\ idx' = idx + 1
  /\ list' = ListAfter(drop)
  /\ ended' = IF drop THEN ended \cup {Running} ELSE ended
  /\ kept' = IF drop THEN kept ELSE Append(kept, Running)
  /\ UNCHANGED <<store, cap, calls, rng, expired, reg, snap, late>>

(* A wrapper made by Schedule, DoOnce, DoOnceSync or Stall, before its time. *)
NotDue ==
  /\ engine = "call"
  /\ How[Running] # "add" /\ left[Running] > 0
  /\ Finish(FALSE)
  /\ UNCHANGED <<left, failed>>

(* Whether a due task that returns without an error may ask to be removed. *)
Verdicts(t) ==
  CASE How[t] \in {"once", "sync"}                       -> {TRUE}
    [] How[t] = "schedule" /\ Kind[t] \in {"call", "single", "playerCall"} -> {TRUE}
    [] How[t] = "add"      /\ Kind[t] = "call"            -> {FALSE}
    [] OTHER                                              -> BOOLEAN

(* A call that comes back without an error; Schedule's wrapper restarts its
   clock before it calls the function. *)
Return ==
  /\ engine = "call"
  /\ left[Running] = 0
  /\ \E drop \in Verdicts(Running) : Finish(drop)
  /\ left' = IF How[Running] = "schedule" THEN [left EXCEPT ![Running] = Delay[Running]] ELSE left
  /\ UNCHANGED failed

(* A script function that fails: Schedule's wrapper returns true on a non-nil
   error, ForEach itself logs it and goes on to the next script. *)
ReturnError ==
  /\ engine = "call"
  /\ left[Running] = 0
  /\ Kind[Running] \in {"dual", "single"}
  /\ How[Running] = "add" \/ (How[Running] = "schedule" /\ Kind[Running] = "dual")
  /\ Finish(How[Running] = "schedule")
  /\ failed' = failed \cup {Running}
  /\ left' = IF How[Running] = "schedule" THEN [left EXCEPT ![Running] = Delay[Running]] ELSE left

(* The range is exhausted: close(done). *)
RunnerDoneSilently ==             \* mutant
  /\ engine = "loop"
  /\ idx = rng.len
  /\ engine' = "hung"
  /\ UNCHANGED <<slices, idx, expired, reg, left, ended, failed, history>>
RunnerDone ==
  /\ engine = "loop"
  /\ idx = rng.len
  /\ engine' = "done"
  /\ UNCHANGED <<slices, idx, expired, reg, left, ended, failed, history>>

(* <-ctx.Done() at the head of an iteration: the runner returns and leaves
   done open, so that ForEach waits on it for good. *)
RunnerQuits ==
  /\ engine = "loop"
  /\ expired
  /\ idx < rng.len
  /\ engine' = "hung"
  /\ UNCHANGED <<slices, idx, expired, reg, left, ended, failed, history>>

(* Ticks.Inc(), as the wrappers' clocks see it. *)
Frozen == left                                     \* mutant
Elapsed ==
  [t \in Task |-> IF left[t] > 0 /\ reg[t] # "new" THEN left[t] - 1 ELSE left[t]]

Filtered == list

(* s.ScriptCalls = list; Ticks.Inc(). *)
Close ==
  /\ engine = "done"
  /\ engine' = "idle"
  /\ calls' = Filtered
  /\ rng' = Filtered
  /\ idx' = 0
  /\ expired' = FALSE
  /\ left' = Elapsed
  /\ snap' = <<>>
  /\ kept' = <<>>
  /\ UNCHANGED <<store, cap, list, reg, ended, failed, late>>

-----------------------------------------------------------------------------
Init ==
  /\ store = [a \in Array |-> [i \in 1..MaxCap |-> NoTask]]
  /\ cap = [a \in Array |-> 0]
  /\ calls = [arr |-> CHOOSE a \in Array : TRUE, len |-> 0]
  /\ list = calls
  /\ rng = calls
  /\ idx = 0
  /\ engine = "idle"
  /\ expired = FALSE
  /\ reg = [t \in Task |-> "new"]
  /\ left = [t \in Task |-> 0]
  /\ ended = {}
  /\ failed = {}
  /\ snap = <<>>
  /\ kept = <<>>
  /\ late = {}

Engine == \/ Open \/ RunnerStarts \/ Call \/ NotDue \/ Return \/ ReturnError
          \/ RunnerDone \/ RunnerQuits \/ Close

Next ==
  \/ \E t \in Task : ReadStart(t) \/ Register(t)
  \/ Expire
  \/ Engine

Spec == Init /\ [][Next]_vars

(* The ticker keeps firing, goroutines are scheduled and every task's function
   returns.  Nobody has to register anything, and no deadline has to pass. *)
FairSpec == Spec /\ WF_vars(Engine)

-----------------------------------------------------------------------------
(* Properties *)

InCycle == engine \in {"loop", "call", "done"}

EngineStates == {"idle", "opened", "loop", "call", "done", "hung"}

(* Every variable stays in its type: headers never exceed their array. *)
TypeOK ==
  /\ store \in [Array -> [1..MaxCap -> Task \cup {NoTask}]]
  /\ cap \in [Array -> 0..MaxCap]
  /\ calls \in Header /\ list \in Header /\ rng \in Header
  /\ idx \in 0..MaxCap
  /\ engine \in EngineStates
  /\ expired \in BOOLEAN
  /\ reg \in [Task -> {"new", "calling", "listed"}]
  /\ left \in [Task -> Nat]
  /\ ended \subseteq Task /\ failed \subseteq Task /\ late \subseteq Task
  /\ snap \in Seq(Task) /\ kept \in Seq(Task)

(* The runner still finds, in the cells it has not reached, the scripts that
   were there when it started: neither its own in-place filtering nor an
   append from another goroutine overwrites an unvisited cell. *)
UnvisitedIntact ==
  engine \in {"loop", "call"} =>
    /\ Len(snap) = rng.len
    /\ \A i \in idx + 1 .. rng.len : store[rng.arr][i] = snap[i]

(* list holds exactly the scripts of this cycle that asked to run again, in
   their order, plus the one being called: concurrent appends to the shared
   array never write into it. *)
KeptExactly ==
  InCycle => /\ list.len = IF engine = "call" THEN Len(kept) + 1 ELSE Len(kept)
             /\ \A i \in 1..Len(kept) : store[list.arr][i] = kept[i]

(* A task that has returned true is never called again. *)
EndedStaysEnded == engine = "call" => Running \notin ended

(* Registrations are lost only in the window between the runner's start and the
   end of the cycle: whatever was appended outside it is listed until it ends. *)
OnlyLateLost ==
  engine = "idle" =>
    \A t \in Task : reg[t] = "listed" /\ t \notin ended \cup late => t \in Range(Contents(calls))

(* As long as no cycle overruns its deadline, the caller of Stall or DoOnceSync
   whose task got into the list is woken up. *)
StallReturns ==
  []~expired =>
    \A t \in Task : (engine = "idle" /\ Blocked(t) /\ t \notin late) ~> ~Blocked(t)

(* A tick ends or its deadline passes: nothing else can stop the engine. *)
TickEndsUnlessExpired == (engine = "opened") ~> (engine = "idle" \/ expired)

-----------------------------------------------------------------------------
(* The inductive invariant behind UnvisitedIntact and KeptExactly. *)

(* Headers fit their arrays, and the cells they reach have been written. *)
HeadersFit ==
  \A h \in {calls, list, rng} :
    /\ h.len <= cap[h.arr]
    /\ \A i \in 1..h.len : store[h.arr][i] \in Task

(* The runner's own position: list never overtakes the scripts it has read. *)
ListBehind ==
  /\ engine \in {"loop", "done"} => list.len <= idx /\ idx <= rng.len
  /\ engine = "call" => list.len \in 1 .. idx + 1 /\ idx < rng.len
  /\ engine = "opened" => list.len = 0

(* Who shares an array with whom: an append to ScriptCalls lands beyond the
   range, and beyond list too, for list shares its array only through rng. *)
Sharing ==
  InCycle => /\ calls.arr = rng.arr => rng.len <= calls.len
             /\ calls.arr = list.arr => rng.arr = list.arr

RunningIsNext == engine = "call" => Running = snap[idx + 1]

IInv == TypeOK /\ HeadersFit /\ ListBehind /\ Sharing
        /\ UnvisitedIntact /\ RunningIsNext /\ KeptExactly

(* Behind OnlyLateLost, on top of IInv: a registration that is neither ended nor
   late sits in ScriptCalls between cycles and, during one, among what the
   runner has kept or has yet to finish with. *)
Accounted ==
  \A t \in Task : reg[t] = "listed" /\ t \notin ended \cup late =>
    /\ engine \in {"idle", "opened"} => \E i \in 1..calls.len : store[calls.arr][i] = t
    /\ InCycle => \/ \E i \in 1..Len(kept) : kept[i] = t
                  \/ engine # "done" /\ \E i \in idx + 1 .. rng.len : snap[i] = t

-----------------------------------------------------------------------------
(* The in-place filter of ForEach implements the cycle of TickContract, which knows nothing
   of arrays.  The script being called sits at list's end only provisionally. *)
Phase == CASE engine = "opened" -> "idle" [] engine = "call" -> "loop" [] OTHER -> engine

Queue == IF engine \in {"idle", "opened"} THEN Contents(calls) ELSE <<>>

Begun == IF engine = "call" THEN idx + 1 ELSE idx

Todo == IF engine \in {"loop", "call"} THEN SubSeq(Contents(rng), Begun + 1, rng.len) ELSE <<>>

Again == CASE engine \in {"loop", "done"} -> Contents(list)
           [] engine = "call"           -> SubSeq(Contents(list), 1, list.len - 1)
           [] OTHER                     -> <<>>

NowRunning == IF engine = "call" THEN Running ELSE NoTask

Contract == INSTANCE TickContract WITH
  phase <- Phase, queue <- Queue, todo <- Todo, again <- Again, current <- NowRunning

ImplementsContract == Contract!Spec

-----------------------------------------------------------------------------
(* What the comments of tasks.go promise, and the code does not keep. *)

(* TickList's comment: a task that did not return true is run again on the next
   engine cycle, hence still listed between cycles. *)
RunAgainNextCycle ==
  engine = "idle" =>
    \A t \in Task : reg[t] = "listed" /\ t \notin ended => t \in Range(Contents(calls))

(* TickList's comment: tasks run once per game engine tick, so ticks go on. *)
TicksGoOn == []<>(engine = "idle")

(* ForEach's comment: a non-nil error value removes the task from the list. *)
ErrorRemoves == engine = "idle" => failed \cap Range(Contents(calls)) = {}
=============================================================================
