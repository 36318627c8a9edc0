------------------------------- MODULE Session -------------------------------
(***************************************************************************)
(* The life of a connection: accepted, queued, logged in by the engine,    *)
(* read by its own goroutine, logged out through a queue and destroyed by  *)
(* a goroutine of its own.  pkg/server.go and the session part of          *)
(* pkg/game/world/player.go.                                               *)
(*                                                                         *)
(* One engine goroutine runs the phases of a tick in order.  loginQ and    *)
(* logoutQ are bounded channels; the engine is the only receiver of both,  *)
(* and it is also one of the senders of logoutQ.  A panic on any goroutine *)
(* ends the process.                                                       *)
(***************************************************************************)
EXTENDS Integers, Sequences, FiniteSets

CONSTANTS Conn,        \* connections; each one carries at most one login
          Account,     \* usernames
          account,     \* account[c]: the username that c logs in with
          QueueCap,    \* capacity of loginQ and of logoutQ
          Batch,       \* logins and logouts the engine takes per tick
          InCap,       \* capacity of a player's InQueue
          MaxPlayers,  \* config.MaxPlayers()
          Updates      \* bound: whether the update command may be given

ASSUME SessionAssumption ==
  /\ account \in [Conn -> Account]
  /\ QueueCap \in Nat \ {0} /\ Batch \in Nat \ {0} /\ InCap \in Nat \ {0}
  /\ MaxPlayers \in Nat /\ Updates \in BOOLEAN

VARIABLES
  loginQ, logoutQ,  \* the server's two channels
  phase,            \* what the engine is doing in this tick
  budget,           \* receives left to it in this phase
  todo,             \* players the phase has yet to visit
  writing,          \* players whose WritePacket has seen Connected() and not sent yet
  pc,               \* where the connection's own goroutine is
  sends,            \* sends on logoutQ that some goroutine has begun
  inQ,              \* packets in each InQueue
  cancelled,        \* players whose context is done
  connected,        \* the "connected" attribute
  listed,           \* world.Players
  destroy,          \* progress of the killer.Do of each player
  closed,           \* players whose InQueue and OutQueue are closed
  saves,            \* PlayerSave calls begun for each player
  update,           \* a system update: "no", "set", "due", "kicking" or "exited"
  crash             \* what panicked, if anything

vars == <<loginQ, logoutQ, phase, budget, todo, writing, pc, sends, inQ, cancelled,
          connected, listed, destroy, closed, saves, update, crash>>

tick    == <<phase, budget, todo, writing>>
queues  == <<loginQ, logoutQ>>
teardown == <<destroy, closed, saves>>

Alive == crash = "none" /\ update # "exited"

(* A goroutine that sends on logoutQ for c: the engine while it handles a login,
   a packet or the update task, or c's reader inside ReadPacket or on return. *)
Send(by, c) == [by |-> by, conn |-> c]
Senders == {"login", "packet", "update", "read", "return"}
EngineSends == {s \in sends : s.by \in {"login", "packet", "update"}}
EngineFree  == EngineSends = {}

HasRoom(q) == Len(q) < QueueCap

(* Players.Range of the update task holds the list's read lock while it sends,
   so nobody can be added or removed meanwhile. *)
Ranging == update = "kicking" /\ (todo # {} \/ ~EngineFree)

-----------------------------------------------------------------------------
Init ==
  /\ loginQ = <<>> /\ logoutQ = <<>>
  /\ phase = "logins" /\ budget = Batch
  /\ todo = {} /\ writing = {}
  /\ pc = [c \in Conn |-> "off"]
  /\ sends = {}
  /\ inQ = [c \in Conn |-> 0]
  /\ cancelled = {} /\ connected = {} /\ listed = {}
  /\ destroy = [c \in Conn |-> "no"]
  /\ closed = {}
  /\ saves = [c \in Conn |-> 0]
  /\ update = "no"
  /\ crash = "none"

(* accept, then SubmitLogin, which waits for room in loginQ. *)
Accept(c) ==
  /\ Alive
  /\ pc[c] = "off" /\ HasRoom(loginQ)
  /\ pc' = [pc EXCEPT ![c] = "queued"]
  /\ loginQ' = Append(loginQ, c)
  /\ UNCHANGED <<logoutQ, tick, sends, inQ, cancelled, connected, listed, teardown, update, crash>>

(* Unregister is Cancel and a send; the send ends here, when logoutQ has room.
   A reader whose ReadPacket unregistered goes on to its deferred Unregister. *)
SubmitLogout(s) ==
  /\ Alive
  /\ s \in sends /\ HasRoom(logoutQ)
  /\ logoutQ' = Append(logoutQ, s.conn)
  /\ sends' = (sends \ {s}) \cup (IF s.by = "read" THEN {Send("return", s.conn)} ELSE {})
  /\ pc' = IF s.by = "return" THEN [pc EXCEPT ![s.conn] = "over"] ELSE pc
  /\ UNCHANGED <<loginQ, tick, inQ, cancelled, connected, listed, teardown, update, crash>>

-----------------------------------------------------------------------------
(* The engine: logins *)

(* ContainsHash looks among the listed players only. *)
SameName(c) == {d \in listed : account[d] = account[c]}

(* handleLogin up to the reply; c has left loginQ. *)
LoginAbandoned(c) ==   \* no packet, wrong opcode, short or garbled RSA block
  /\ pc' = [pc EXCEPT ![c] = "abandoned"]
  /\ UNCHANGED <<sends, cancelled>>

RefusedButSpawned(c) ==                                     \* mutant
  /\ pc' = [pc EXCEPT ![c] = "spawned"]
  /\ cancelled' = cancelled \cup {c}
  /\ sends' = sends \cup {Send("login", c)}

LoginRefused(c) ==     \* ReadPacket's own Unregister, or an invalid reply's
  /\ pc' = [pc EXCEPT ![c] = "refused"]
  /\ cancelled' = cancelled \cup {c}
  /\ sends' = sends \cup {Send("login", c)}

LoginAccepted(c) ==    \* a valid reply: the session goroutine is spawned
  /\ update = "no"
  /\ Cardinality(listed) < MaxPlayers
  /\ SameName(c) = {}
  /\ pc' = [pc EXCEPT ![c] = "spawned"]
  /\ UNCHANGED <<sends, cancelled>>

Stuck == budget' = budget                                   \* mutant
Looked == budget' = budget - 1

(* One of the looks at loginQ that the tick affords; the engine's. *)
HandleLogin ==
  /\ Alive /\ EngineFree
  /\ phase = "logins" /\ budget > 0
  /\ Looked
  /\ \/ /\ loginQ = <<>>
        /\ UNCHANGED <<loginQ, pc, sends, cancelled>>
     \/ /\ loginQ # <<>>
        /\ loginQ' = Tail(loginQ)
        /\ LET c == Head(loginQ) IN LoginAbandoned(c) \/ LoginRefused(c) \/ LoginAccepted(c)
  /\ UNCHANGED <<logoutQ, phase, todo, writing, inQ, connected, listed, teardown, update, crash>>

LoginsDone ==
  /\ Alive /\ EngineFree
  /\ phase = "logins" /\ budget = 0
  /\ phase' = "packets"
  /\ todo' = listed
  /\ UNCHANGED <<queues, budget, writing, pc, sends, inQ, cancelled, connected, listed, teardown,
                 update, crash>>

-----------------------------------------------------------------------------
(* The engine: packets, tasks and updates of every listed player *)

(* One player's goroutine of AsyncRange: ProcPacketsIn empties InQueue, or stops
   early at Done(); the logout handler unregisters a connected player; a player
   who is not connected, even a destroyed one, is initialized. *)
HandlePackets(c) ==
  /\ Alive
  /\ phase = "packets" /\ c \in todo
  /\ todo' = todo \ {c}
  /\ connected' = connected \cup {c}
  /\ writing' = writing \cup {c}
  /\ \/ inQ' = [inQ EXCEPT ![c] = 0]
     \/ c \in cancelled /\ UNCHANGED inQ
  /\ \/ UNCHANGED <<sends, cancelled>>
     \/ /\ inQ'[c] < inQ[c] /\ c \in connected
        /\ cancelled' = cancelled \cup {c}
        /\ sends' = sends \cup {Send("packet", c)}
  /\ UNCHANGED <<queues, phase, budget, pc, listed, teardown, update, crash>>

(* WritePacket sends on OutQueue after it has seen Connected(). *)
WritePacket(c) ==
  /\ Alive
  /\ c \in writing
  /\ writing' = writing \ {c}
  /\ crash' = IF c \in closed THEN "OutQueue" ELSE crash
  /\ UNCHANGED <<queues, phase, budget, todo, pc, sends, inQ, cancelled, connected, listed,
                 teardown, update>>

PacketsDone ==
  /\ Alive /\ EngineFree
  /\ phase = "packets" /\ todo = {} /\ writing = {}
  /\ phase' = "tasks"
  /\ UNCHANGED <<queues, budget, todo, writing, pc, sends, inQ, cancelled, connected, listed,
                 teardown, update, crash>>

(* The update command sets UpdateTime, and the time comes. *)
SystemUpdate ==
  /\ Alive
  /\ \/ Updates /\ update = "no" /\ update' = "set"
     \/ update = "set" /\ update' = "due"
  /\ UNCHANGED <<queues, tick, pc, sends, inQ, cancelled, connected, listed, teardown, crash>>

(* The task of systemUpdate, once it is due, ranges over Players and
   unregisters them one after the other, inside the engine's tick. *)
UpdateTask ==
  /\ Alive /\ phase = "tasks" /\ EngineFree
  /\ update = "due"
  /\ update' = "kicking"
  /\ todo' = listed
  /\ UNCHANGED <<queues, phase, budget, writing, pc, sends, inQ, cancelled, connected, listed,
                 teardown, crash>>

KickForUpdate(c) ==
  /\ Alive /\ phase = "tasks" /\ EngineFree
  /\ update = "kicking" /\ c \in todo
  /\ todo' = todo \ {c}
  /\ cancelled' = cancelled \cup {c}
  /\ sends' = sends \cup {Send("update", c)}
  /\ UNCHANGED <<queues, phase, budget, writing, pc, inQ, connected, listed, teardown, update, crash>>

(* os.Exit(200), after two seconds of sleep. *)
Exit ==
  /\ Alive /\ phase = "tasks" /\ EngineFree
  /\ update = "kicking" /\ todo = {}
  /\ update' = "exited"
  /\ UNCHANGED <<queues, tick, pc, sends, inQ, cancelled, connected, listed, teardown, crash>>

TasksDone ==
  /\ Alive /\ phase = "tasks"
  /\ update \in {"no", "set"}
  /\ phase' = "logouts"
  /\ budget' = Batch
  /\ UNCHANGED <<queues, todo, writing, pc, sends, inQ, cancelled, connected, listed, teardown,
                 update, crash>>

-----------------------------------------------------------------------------
(* The engine: logouts *)

(* runLogout spawns a Destroy for every entry; killer.Do lets the first in. *)
Called(c) == IF destroy[c] = "no" THEN [destroy EXCEPT ![c] = "called"] ELSE destroy

RunLogout ==
  /\ Alive
  /\ phase = "logouts" /\ budget > 0
  /\ Looked
  /\ \/ /\ logoutQ = <<>>
        /\ UNCHANGED <<logoutQ, destroy>>
     \/ /\ logoutQ # <<>>
        /\ logoutQ' = Tail(logoutQ)
        /\ destroy' = Called(Head(logoutQ))
  /\ UNCHANGED <<loginQ, phase, todo, writing, pc, sends, inQ, cancelled, connected, listed, closed,
                 saves, update, crash>>

LogoutsDone ==
  /\ Alive
  /\ phase = "logouts" /\ budget = 0
  /\ phase' = "logins"
  /\ budget' = Batch
  /\ UNCHANGED <<queues, todo, writing, pc, sends, inQ, cancelled, connected, listed, teardown,
                 update, crash>>

-----------------------------------------------------------------------------
(* The session goroutine *)

AddPlayer(c) ==
  /\ Alive
  /\ pc[c] = "spawned" /\ ~Ranging
  /\ pc' = [pc EXCEPT ![c] = "reading"]
  /\ listed' = listed \cup {c}
  /\ UNCHANGED <<queues, tick, sends, inQ, cancelled, connected, teardown, update, crash>>

(* ReadPacket returns a packet. *)
ReadPacket(c) ==
  /\ Alive
  /\ pc[c] = "reading" /\ c \notin closed
  /\ pc' = [pc EXCEPT ![c] = "holding"]
  /\ UNCHANGED <<queues, tick, sends, inQ, cancelled, connected, listed, teardown, update, crash>>

LeaveUnqueued(c, by) ==                                     \* mutant
  /\ pc' = [pc EXCEPT ![c] = "leaving"]
  /\ cancelled' = cancelled \cup {c}
  /\ UNCHANGED sends

(* The reader returns, by way of a deferred Unregister; ReadPacket may have
   called Unregister too. *)
Leave(c, by) ==
  /\ pc' = [pc EXCEPT ![c] = "leaving"]
  /\ cancelled' = cancelled \cup {c}
  /\ sends' = sends \cup {Send(by, c)}

(* p.InQueue <- packet, and the look at Done() that follows. *)
Deliver(c) ==
  /\ Alive
  /\ pc[c] = "holding"
  /\ \/ /\ c \in closed
        /\ crash' = "InQueue"
        /\ UNCHANGED <<pc, inQ, sends, cancelled>>
     \/ /\ c \notin closed /\ inQ[c] < InCap
        /\ inQ' = [inQ EXCEPT ![c] = @ + 1]
        /\ IF c \in cancelled THEN Leave(c, "return")
           ELSE pc' = [pc EXCEPT ![c] = "reading"] /\ UNCHANGED <<sends, cancelled>>
        /\ UNCHANGED crash
  /\ UNCHANGED <<queues, tick, connected, listed, teardown, update>>

(* ReadPacket fails: in the header, after an Unregister of its own or without,
   or in the frame. *)
StopReading(c) ==
  /\ Alive
  /\ pc[c] = "reading"
  /\ \E by \in {"read", "return"} : Leave(c, by)
  /\ UNCHANGED <<queues, tick, inQ, connected, listed, teardown, update, crash>>

(* A frame cut short: ReadPacket hands on an error that is no NetError, and the
   reader's type assertion on it panics. *)
BrokenFrame(c) ==
  /\ Alive
  /\ pc[c] = "reading" /\ c \notin closed
  /\ crash' = "NetError"
  /\ UNCHANGED <<queues, tick, pc, sends, inQ, cancelled, connected, listed, teardown, update>>

-----------------------------------------------------------------------------
(* Destroy, on a goroutine of its own *)

Disconnect(c) ==
  /\ Alive
  /\ destroy[c] = "called"
  /\ destroy' = [destroy EXCEPT ![c] = "disconnected"]
  /\ connected' = connected \ {c}
  /\ UNCHANGED <<queues, tick, pc, sends, inQ, cancelled, listed, closed, saves, update, crash>>

CloseQueues(c) ==
  /\ Alive
  /\ destroy[c] = "disconnected"
  /\ destroy' = [destroy EXCEPT ![c] = "closed"]
  /\ closed' = closed \cup {c}
  /\ crash' = IF c \in closed THEN "close" ELSE crash
  /\ UNCHANGED <<queues, tick, pc, sends, inQ, cancelled, connected, listed, saves, update>>

Unsaved(c) == saves                                         \* mutant
SaveBegun(c) == IF c \in listed THEN [saves EXCEPT ![c] = @ + 1] ELSE saves

(* A listed player is saved in the background and removed. *)
Remove(c) ==
  /\ Alive
  /\ destroy[c] = "closed" /\ ~Ranging
  /\ destroy' = [destroy EXCEPT ![c] = "gone"]
  /\ saves' = SaveBegun(c)
  /\ listed' = listed \ {c}
  /\ cancelled' = cancelled \cup {c}
  /\ UNCHANGED <<queues, tick, pc, sends, inQ, connected, closed, update, crash>>

-----------------------------------------------------------------------------
Engine == \/ HandleLogin \/ LoginsDone \/ PacketsDone \/ UpdateTask \/ Exit \/ TasksDone
          \/ RunLogout \/ LogoutsDone
          \/ \E c \in Conn : HandlePackets(c) \/ WritePacket(c) \/ KickForUpdate(c)

Reader(c) == AddPlayer(c) \/ ReadPacket(c) \/ Deliver(c) \/ StopReading(c)

Destroyer(c) == Disconnect(c) \/ CloseQueues(c) \/ Remove(c)

Next ==
  \/ Engine
  \/ SystemUpdate
  \/ \E s \in sends : SubmitLogout(s)
  \/ \E c \in Conn : Accept(c) \/ Reader(c) \/ BrokenFrame(c) \/ Destroyer(c)

Spec == Init /\ [][Next]_vars

(* Goroutines are scheduled: the engine ticks, sends on logoutQ complete while
   it has room, Destroys run to their end.  A client need not send, disconnect
   or connect, a session goroutine may be held up, and no update need come. *)
FairSpec ==
  /\ Spec
  /\ WF_vars(Engine)
  /\ WF_vars(\E s \in sends : SubmitLogout(s))
  /\ WF_vars(\E c \in Conn : Destroyer(c))

-----------------------------------------------------------------------------
(* Properties *)

Causes == {"none", "InQueue", "OutQueue", "NetError", "close"}

TypeOK ==
  /\ loginQ \in Seq(Conn) /\ logoutQ \in Seq(Conn)
  /\ Len(loginQ) <= QueueCap /\ Len(logoutQ) <= QueueCap
  /\ phase \in {"logins", "packets", "tasks", "logouts"}
  /\ budget \in 0..Batch
  /\ todo \subseteq Conn /\ writing \subseteq Conn
  /\ pc \in [Conn -> {"off", "queued", "abandoned", "refused", "spawned", "reading", "holding",
                      "leaving", "over"}]
  /\ sends \subseteq [by : Senders, conn : Conn]
  /\ inQ \in [Conn -> 0..InCap]
  /\ cancelled \subseteq Conn /\ connected \subseteq Conn /\ listed \subseteq Conn
  /\ destroy \in [Conn -> {"no", "called", "disconnected", "closed", "gone"}]
  /\ closed \subseteq Conn
  /\ saves \in [Conn -> Nat]
  /\ update \in {"no", "set", "due", "kicking", "exited"}
  /\ crash \in Causes

(* A player may reach logoutQ three times, from a packet handler, from
   ReadPacket and from the deferred Unregister; its queues are closed once. *)
NoDoubleClose == crash # "close"

(* A destroyed player is out of world.Players for good: no Destroy can overtake
   the AddPlayer of its own session. *)
NoZombie == \A c \in Conn : destroy[c] = "gone" => c \notin listed /\ pc[c] # "spawned"

(* Every session that was in the world is saved when it ends, and once only. *)
SavedOnce ==
  \A c \in Conn : saves[c] = IF destroy[c] = "gone" /\ pc[c] # "refused" THEN 1 ELSE 0

(* Unless the process dies, each session that was told to end is destroyed and
   off the list.  (With room in logoutQ for all.) *)
LogoutCompletes ==
  \A c \in Conn : (c \in cancelled) ~> (destroy[c] = "gone" \/ ~Alive)

(* Unless the process dies, ticks go on. (With room in logoutQ for all.) *)
TicksGoOn == []<>(phase = "logins" \/ ~Alive) /\ []<>(phase = "tasks" \/ ~Alive)

-----------------------------------------------------------------------------
(* The inductive invariant behind NoZombie and SavedOnce: what the engine, the
   queues and the senders hold has been logged in, or refused, before. *)

InWorld == {"reading", "holding", "leaving", "over"}
Answered == InWorld \cup {"refused"}

(* A connection waits in loginQ once. *)
QueuedOnce ==
  \A i \in 1..Len(loginQ) :
    /\ pc[loginQ[i]] = "queued"
    /\ \A j \in 1..Len(loginQ) : loginQ[i] = loginQ[j] => i = j

(* Nothing is on its way to logoutQ or to Destroy for a session not yet in the
   world, and nobody ranges over it. *)
NothingEarly ==
  /\ \A s \in sends : /\ pc[s.conn] \in Answered
                      /\ s.by \in {"read", "return"} => pc[s.conn] \in {"leaving", "over"}
  /\ \A i \in 1..Len(logoutQ) : pc[logoutQ[i]] \in Answered
  /\ \A c \in Conn : destroy[c] # "no" => pc[c] \in Answered
  /\ \A c \in todo : pc[c] \in InWorld

ListedWhileHere ==
  \A c \in Conn : c \in listed <=> pc[c] \in InWorld /\ destroy[c] # "gone"

ClosedByDestroy == \A c \in Conn : c \in closed <=> destroy[c] \in {"closed", "gone"}

IInv == TypeOK /\ QueuedOnce /\ NothingEarly /\ ListedWhileHere /\ ClosedByDestroy
        /\ SavedOnce /\ NoDoubleClose

-----------------------------------------------------------------------------
(* What comments promise and the code does not keep. *)

(* ResponseLoggedIn: a login for an account that is logged in is refused. *)
OneSessionPerAccount == \A c, d \in listed : account[c] = account[d] => c = d

(* max_players: the number of players that the server can support. *)
WithinMaxPlayers == Cardinality(listed) <= MaxPlayers

(* UpdateTime: all active players are logged out and the game is shut down. *)
UpdateShutsDown == (update = "due") ~> ~Alive
=============================================================================
