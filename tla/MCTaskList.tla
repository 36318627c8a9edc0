----------------------------- MODULE MCTaskList -----------------------------
(* A small instance of TaskList: a raw ticker, a Schedule'd task and a Stall. *)
EXTENDS TaskList, TLC

CONSTANTS raw, periodic, stall, array1, array2, array3, array4

MCTask  == {raw, periodic, stall}
MCArray == {array1, array2, array3, array4}
MCHow   == raw :> "add" @@ periodic :> "schedule" @@ stall :> "sync"
MCKind  == raw :> "single" @@ periodic :> "dual" @@ stall :> "call"
MCDelay == raw :> 0 @@ periodic :> 2 @@ stall :> 1
=============================================================================
