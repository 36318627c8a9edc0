------------------------------- MODULE Profile -------------------------------
(***************************************************************************)
(* Accounts between database and memory: PlayerLoad and PlayerSave of      *)
(* pkg/db/player.go, called from Server.handleLogin and Player.Destroy.    *)
(*                                                                         *)
(* A login loads on the engine's goroutine, one query after another, each  *)
(* on a connection of its own.  A logout saves on a goroutine of its own,  *)
(* in one transaction, reading the player's inventory and bank when it     *)
(* comes to them, while the engine goes on, may still run a handler of the *)
(* player, and may let the account in again.  Items are unique here and    *)
(* either carried or banked; how they are stacked is Kit's matter.         *)
(*                                                                         *)
(* The database is external: a transaction shows what it wrote only once   *)
(* committed, and one transaction writes at a time.                        *)
(***************************************************************************)
EXTENDS Naturals, FiniteSets

CONSTANTS Account, Item,
          Visit,        \* one Player object each, of the account in its first component
          FirstStored   \* account -> the items in its tables at first

Tables == [inv : SUBSET Item, bank : SUBSET Item]
Empty == [inv |-> {}, bank |-> {}]
account(v) == v[1]

ASSUME ProfileAssumption ==
  /\ Visit \in SUBSET (Account \X Nat)
  /\ FirstStored \in [Account -> Tables]

VARIABLES
  stored,     \* account -> the committed rows of its inventory and bank tables
  phase,      \* where a Player object is between its login and its end
  mem,        \* ... and what it holds
  save,       \* where its PlayerSave is
  staged,     \* ... and the rows that has inserted
  ground,
  disturbed,  \* history: what Disturbing names has happened
  broken      \* history: a save failed, or the process ended

profileVars == <<stored, phase, mem, save, staged, ground, disturbed, broken>>

Listed == {"in", "leaving", "saving"}
Having == {"loaded", "gone"} \cup Listed         \* from the load to the end
Phases == {"none", "profile", "items"} \cup Having
Reading == {"inv", "bank"}                       \* in the transaction, once the inventory was read
Writing == {"open"} \cup Reading
Ended == {"done", "failed", "lost"}              \* "lost": with the process
Saves == {"none", "begun"} \cup Ended \cup Writing

EngineFree == \A v \in Visit : phase[v] \notin {"profile", "items"}

(* A player's items are in its object from the load to the end of the save. *)
Holding(v) == phase[v] \in Having /\ save[v] \notin Ended
Away(a) == \A v \in Visit : account(v) = a => ~Holding(v)

Disturbing(happens) == disturbed' = (disturbed \/ happens) /\ UNCHANGED broken

-----------------------------------------------------------------------------
(* handleLogin: no listed player has the name.  One that is not listed yet, or
   not any more, is not looked for, saved or not. *)
Login(v) ==
  /\ phase[v] = "none" /\ EngineFree
  /\ \A w \in Visit : account(w) = account(v) => phase[w] \notin Listed
  /\ phase' = [phase EXCEPT ![v] = "profile"]
  /\ Disturbing(~Away(account(v)))
  /\ UNCHANGED <<stored, mem, save, staged, ground>>

LoadInventory(v) ==
  /\ phase[v] = "profile" /\ phase' = [phase EXCEPT ![v] = "items"]
  /\ mem' = [mem EXCEPT ![v].inv = stored[account(v)].inv]
  /\ UNCHANGED <<stored, save, staged, ground, disturbed, broken>>

LoadBank(v) ==
  /\ phase[v] = "items" /\ phase' = [phase EXCEPT ![v] = "loaded"]
  /\ mem' = [mem EXCEPT ![v].bank = stored[account(v)].bank]
  /\ UNCHANGED <<stored, save, staged, ground, disturbed, broken>>

(* The goroutine that reads the player's packets lists it first. *)
AddPlayer(v) ==
  /\ phase[v] = "loaded" /\ phase' = [phase EXCEPT ![v] = "in"]
  /\ UNCHANGED <<stored, mem, save, staged, ground, disturbed, broken>>

-----------------------------------------------------------------------------
(* Handlers, on the engine.  ResetAll, before the save, closes the bank, but a
   listed player's tick actions still run. *)
Handling(v, phases) ==
  /\ phase[v] \in phases /\ EngineFree
  /\ Disturbing(save[v] \in Reading \cup Ended)
  /\ UNCHANGED <<stored, phase, save, staged>>

Deposit(v, i) ==
  /\ i \in mem[v].inv /\ Handling(v, {"in", "leaving"})
  /\ mem' = [mem EXCEPT ![v] = [inv |-> @.inv \ {i}, bank |-> @.bank \cup {i}]]
  /\ UNCHANGED ground

Withdraw(v, i) ==
  /\ i \in mem[v].bank /\ Handling(v, {"in", "leaving"})
  /\ mem' = [mem EXCEPT ![v] = [inv |-> @.inv \cup {i}, bank |-> @.bank \ {i}]]
  /\ UNCHANGED ground

Drop(v, i) ==
  /\ i \in mem[v].inv /\ Handling(v, Listed)
  /\ mem' = [mem EXCEPT ![v].inv = @ \ {i}]
  /\ ground' = ground \cup {i}

Pickup(v, i) ==
  /\ i \in ground /\ Handling(v, Listed)
  /\ mem' = [mem EXCEPT ![v].inv = @ \cup {i}]
  /\ ground' = ground \ {i}

-----------------------------------------------------------------------------
(* Destroy, on a goroutine of its own. *)
Disconnect(v) ==
  /\ phase[v] = "in" /\ phase' = [phase EXCEPT ![v] = "leaving"]
  /\ UNCHANGED <<stored, mem, save, staged, ground, disturbed, broken>>

StartNoSave(v) ==                                                    \* mutant
  /\ phase[v] = "leaving" /\ phase' = [phase EXCEPT ![v] = "saving"]
  /\ UNCHANGED <<stored, mem, save, staged, ground, disturbed, broken>>
StartSave(v) ==
  /\ phase[v] = "leaving" /\ phase' = [phase EXCEPT ![v] = "saving"]
  /\ save' = [save EXCEPT ![v] = "begun"]
  /\ UNCHANGED <<stored, mem, staged, ground, disturbed, broken>>

Delist(v) ==
  /\ phase[v] = "saving" /\ phase' = [phase EXCEPT ![v] = "gone"]
  /\ UNCHANGED <<stored, mem, save, staged, ground, disturbed, broken>>

(* PlayerSave.  The transaction deletes the account's rows, then inserts. *)
OpenTx(v) ==
  /\ save[v] = "begun" /\ \A w \in Visit : save[w] \notin Writing
  /\ save' = [save EXCEPT ![v] = "open"] /\ staged' = [staged EXCEPT ![v] = Empty]
  /\ UNCHANGED <<stored, phase, mem, ground, disturbed, broken>>

InsertAtOnce(v) ==                                                   \* mutant
  /\ save[v] = "open" /\ save' = [save EXCEPT ![v] = "inv"]
  /\ staged' = [staged EXCEPT ![v].inv = mem[v].inv]
  /\ stored' = [stored EXCEPT ![account(v)].inv = mem[v].inv]
  /\ UNCHANGED <<phase, mem, ground, disturbed, broken>>
InsertItems(v) ==
  /\ save[v] = "open" /\ save' = [save EXCEPT ![v] = "inv"]
  /\ staged' = [staged EXCEPT ![v].inv = mem[v].inv]
  /\ UNCHANGED <<stored, phase, mem, ground, disturbed, broken>>

InsertBank(v) ==
  /\ save[v] = "inv" /\ save' = [save EXCEPT ![v] = "bank"]
  /\ staged' = [staged EXCEPT ![v].bank = mem[v].bank]
  /\ UNCHANGED <<stored, phase, mem, ground, disturbed, broken>>

Commit(v) ==
  /\ save[v] = "bank" /\ save' = [save EXCEPT ![v] = "done"]
  /\ stored' = [stored EXCEPT ![account(v)] = staged[v]] /\ staged' = [staged EXCEPT ![v] = Empty]
  /\ UNCHANGED <<phase, mem, ground, disturbed, broken>>

(* BeginTx or Commit fails: the save is logged as such and forgotten. *)
GiveUp(v) ==
  /\ save[v] \in {"begun", "bank"} /\ save' = [save EXCEPT ![v] = "failed"]
  /\ staged' = [staged EXCEPT ![v] = Empty] /\ broken' = TRUE
  /\ UNCHANGED <<stored, phase, mem, ground, disturbed>>

(* Another statement fails: the result, nil, is asked for its row count, on a
   goroutine that recovers from nothing, and the process ends like in any
   crash.  What was not committed is lost; the next process starts anew. *)
Crash ==
  /\ \E v \in Visit : phase[v] # "none"
  /\ phase' = [v \in Visit |-> IF phase[v] = "none" THEN "none" ELSE "gone"]
  /\ save' = [v \in Visit |-> IF phase[v] = "none" \/ save[v] \in Ended THEN save[v] ELSE "lost"]
  /\ mem' = [v \in Visit |-> IF save[v] = "done" THEN mem[v] ELSE Empty]
  /\ staged' = [v \in Visit |-> Empty] /\ ground' = {} /\ broken' = TRUE
  /\ UNCHANGED <<stored, disturbed>>

-----------------------------------------------------------------------------
ProfileInit ==
  /\ stored = FirstStored
  /\ phase = [v \in Visit |-> "none"] /\ save = [v \in Visit |-> "none"]
  /\ mem = [v \in Visit |-> Empty] /\ staged = [v \in Visit |-> Empty]
  /\ ground = {} /\ disturbed = FALSE /\ broken = FALSE

Loader(v) == LoadInventory(v) \/ LoadBank(v) \/ AddPlayer(v)
Handler(v) == \E i \in Item : Deposit(v, i) \/ Withdraw(v, i) \/ Drop(v, i) \/ Pickup(v, i)
Destroyer(v) == StartSave(v) \/ Delist(v)
Saver(v) == OpenTx(v) \/ InsertItems(v) \/ InsertBank(v) \/ Commit(v)

ProfileNext ==
  \/ \E v \in Visit : Login(v) \/ Loader(v) \/ Handler(v) \/ Disconnect(v) \/ Destroyer(v) \/ Saver(v) \/ GiveUp(v)
  \/ Crash

ProfileSpec == ProfileInit /\ [][ProfileNext]_profileVars

(* The goroutines of Destroy and PlayerSave go on, and the database's writer
   lock is granted in turn. *)
ProfileFairSpec ==
  /\ ProfileSpec
  /\ \A v \in Visit :
       WF_profileVars(Destroyer(v)) /\ SF_profileVars(OpenTx(v)) /\ WF_profileVars(Saver(v))

-----------------------------------------------------------------------------
ProfileTypeOK ==
  /\ stored \in [Account -> Tables] /\ ground \in SUBSET Item /\ {disturbed, broken} \subseteq BOOLEAN
  /\ phase \in [Visit -> Phases] /\ save \in [Visit -> Saves]
  /\ mem \in [Visit -> Tables] /\ staged \in [Visit -> Tables]

(* Every item is in one place, on one side of it: on the ground, with a player
   until its save ends, or in the tables of an account that is away - unless an
   account came back before its save was done, or a handler ran after the save
   had read.  When a save fails or the process ends, what was not saved is lost or
   doubled; but also then the tables of an account, pack and bank together, are
   what one of its players held when it was saved, or what they were at first. *)
Whole(t) == t.inv \cap t.bank = {}
Of(t) == t.inv \cup t.bank
Carried(v) == IF Holding(v) THEN Of(mem[v]) ELSE {}
Kept(a) == IF Away(a) THEN Of(stored[a]) ELSE {}

WholeTables ==
  /\ \A v \in Visit : Holding(v) => Whole(mem[v])
  /\ \A a \in Account : Away(a) => Whole(stored[a])
NoTwoPlaces ==
  /\ \A v \in Visit : Carried(v) \cap ground = {}
  /\ \A a \in Account : Kept(a) \cap ground = {}
  /\ \A v, w \in Visit : v # w => Carried(v) \cap Carried(w) = {}
  /\ \A a, b \in Account : a # b => Kept(a) \cap Kept(b) = {}
  /\ \A v \in Visit, a \in Account : Carried(v) \cap Kept(a) = {}
NoneMissing ==
  \A i \in UNION {Of(FirstStored[a]) : a \in Account} :
    \/ i \in ground
    \/ \E v \in Visit : i \in Carried(v)
    \/ \E a \in Account : i \in Kept(a)
SavedTogether ==
  \A a \in Account :
    \/ stored[a] = FirstStored[a]
    \/ \E v \in Visit : account(v) = a /\ save[v] = "done" /\ stored[a] = mem[v]
ExactlyOnce ==
  ~disturbed => SavedTogether /\ (~broken => WholeTables /\ NoTwoPlaces /\ NoneMissing)

(* Every player that leaves is saved in the end, however many transactions wait
   for one another, unless its own failed or the process ended before it was
   done. *)
LeaversAreSaved == \A v \in Visit : phase[v] = "leaving" ~> save[v] \in Ended
=============================================================================
