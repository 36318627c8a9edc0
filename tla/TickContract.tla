---------------------------- MODULE TickContract ----------------------------
(***************************************************************************)
(* What one cycle of the tick-task list promises to those who registered   *)
(* tasks: a queue of tasks is called in registration order, each task once *)
(* per cycle; the tasks that asked to run again form the next queue in the *)
(* same order.  A registration is heeded between cycles only; a cycle may  *)
(* be given up at its deadline, and then nothing runs any more.            *)
(***************************************************************************)
EXTENDS Integers, Sequences

CONSTANTS Task, NoTask

VARIABLES phase,    \* "idle", "loop", "done" or "hung"
          queue,    \* tasks that the next cycle will call
          todo,     \* tasks that this cycle has not called yet
          again,    \* tasks of this cycle that asked to run again
          current   \* the task being called, if any

vars == <<phase, queue, todo, again, current>>

Init ==
  /\ phase = "idle"
  /\ queue = <<>> /\ todo = <<>> /\ again = <<>>
  /\ current = NoTask

Accept(t) ==
  /\ phase = "idle"
  /\ queue' = Append(queue, t)
  /\ UNCHANGED <<phase, todo, again, current>>

StartCycle ==
  /\ phase = "idle"
  /\ phase' = "loop"
  /\ todo' = queue
  /\ queue' = <<>>
  /\ UNCHANGED <<again, current>>

CallNext ==
  /\ phase = "loop" /\ current = NoTask /\ todo # <<>>
  /\ current' = Head(todo)
  /\ todo' = Tail(todo)
  /\ UNCHANGED <<phase, queue, again>>

Answer ==
  /\ phase = "loop" /\ current # NoTask
  /\ again' \in {again, Append(again, current)}
  /\ current' = NoTask
  /\ UNCHANGED <<phase, queue, todo>>

EndCalls ==
  /\ phase = "loop" /\ current = NoTask /\ todo = <<>>
  /\ phase' = "done"
  /\ UNCHANGED <<queue, todo, again, current>>

EndCycle ==
  /\ phase = "done"
  /\ phase' = "idle"
  /\ queue' = again
  /\ again' = <<>>
  /\ UNCHANGED <<todo, current>>

GiveUp ==
  /\ phase = "loop" /\ current = NoTask
  /\ phase' = "hung"
  /\ todo' = <<>> /\ again' = <<>>
  /\ UNCHANGED <<queue, current>>

Next == (\E t \in Task : Accept(t)) \/ StartCycle \/ CallNext \/ Answer
        \/ EndCalls \/ EndCycle \/ GiveUp

Spec == Init /\ [][Next]_vars
=============================================================================
