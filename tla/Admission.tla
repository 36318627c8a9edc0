------------------------------ MODULE Admission ------------------------------
(***************************************************************************)
(* Logins from one IP address: handleLogin of pkg/server.go, which asks the *)
(* throttle and looks at the registry, and the goroutine it spawns for each *)
(* player it lets in, which AddPlayer is the first call of.  handleLogin    *)
(* runs on the engine's goroutine, one login after the other; the spawned   *)
(* goroutines, and those of Destroy, run beside it.                         *)
(*                                                                         *)
(* Which accounts exist, and with which passwords, is not modelled: a login *)
(* may turn out either way.                                                 *)
(***************************************************************************)
EXTENDS PlayerList, LoginThrottle

CONSTANT MaxPlayers

ASSUME AdmissionAssumption == MaxPlayers \in Nat

VARIABLE admitted   \* players let in whose goroutine has yet to start

listVars == vars
admissionVars == <<listVars, throttleVars, admitted>>

AdmissionInit == Init /\ ThrottleInit /\ admitted = {}

-----------------------------------------------------------------------------
Size == Cardinality(listed)

(* The world is not full, and the address is not held up. *)
MayAsk == Size < MaxPlayers /\ MayTry(attempts)

(* A login that is refused because the address has too many failures, or once
   the throttle has been asked: for its version, its account or its profile. *)
Refused ==
  /\ Size < MaxPlayers
  /\ NotCounted
  /\ UNCHANGED <<listVars, admitted>>

WrongPassword ==
  /\ MayAsk
  /\ BadPassword
  /\ UNCHANGED <<listVars, admitted>>

Unlisted(p) == pc[p] = "out" /\ p \notin adding \cup region

Admitted(p) ==
  /\ MayAsk
  /\ Unlisted(p) /\ p \notin admitted
  /\ NotCounted
  /\ admitted' = admitted \cup {p}
  /\ UNCHANGED listVars

(* The goroutine starts. *)
Started(p) ==
  /\ p \in admitted
  /\ NextSlot(p)
  /\ admitted' = admitted \ {p}
  /\ UNCHANGED throttleVars

InList(p) ==
  /\ Insert(p) \/ EnterRegion(p) \/ LeaveRegion(p) \/ Unindex(p) \/ Delete(p)
  /\ UNCHANGED <<throttleVars, admitted>>

Later == Pass /\ UNCHANGED <<listVars, admitted>>

AdmissionNext ==
  \/ Refused \/ WrongPassword \/ Later
  \/ \E p \in Player : Admitted(p) \/ Started(p) \/ InList(p)

AdmissionSpec == AdmissionInit /\ [][AdmissionNext]_admissionVars
=============================================================================
