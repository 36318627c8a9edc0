---------------------------- MODULE LoginThrottle ----------------------------
(***************************************************************************)
(* The throttle on failed logins of one IP address: pkg/throttle and its   *)
(* use by handleLogin in pkg/server.go.  Addresses do not share anything,  *)
(* and only the engine goroutine uses the throttle.                        *)
(*                                                                         *)
(* An entry is the time of a failed login.  Recent counts the young        *)
(* entries and takes old ones out of the slice while it is at it.          *)
(***************************************************************************)
EXTENDS Integers, Sequences, FiniteSets

CONSTANTS Window,   \* timeFrame, 10 seconds in handleLogin
          Limit,    \* Recent() at which logins are refused, 5 in handleLogin
          MaxTime   \* bound: how long the clock runs

ASSUME ThrottleAssumption ==
  Window \in Nat \ {0} /\ Limit \in Nat \ {0} /\ MaxTime \in Nat

VARIABLES
  now,       \* time.Now()
  attempts,  \* the slice of the address
  failures   \* history: the time of every failed login

throttleVars == <<now, attempts, failures>>

-----------------------------------------------------------------------------
Young(v) == now - v < Window

OldEntries(s) == {j \in DOMAIN s : ~Young(s[j])}
Recent(s) == Cardinality(DOMAIN s \ OldEntries(s))

LesserOf(a, b) == IF a < b THEN a ELSE b

(* The removal loop takes index i out of the slice for i = 0 .. k - 1, k being
   the number of old entries; but each time it shifts the same n cells, attempts
   is not reassigned, and the slice it stores has n - 1 cells.  Cell j is
   shifted by the iterations that come before it reaches j: k or j of them. *)
Shifted(s, k) == [j \in 1 .. Len(s) - 1 |-> s[LesserOf(Len(s), j + LesserOf(k, j))]]

DropsOneMore(s) ==                                           \* mutant
  LET k == Cardinality(OldEntries(s)) IN IF k = 0 THEN s ELSE SubSeq(s, k + 2, Len(s))
Trimmed(s) ==
  LET k == Cardinality(OldEntries(s)) IN IF k = 0 THEN s ELSE Shifted(s, k)

-----------------------------------------------------------------------------
ThrottleInit ==
  /\ now = 0
  /\ attempts = <<>>
  /\ failures = <<>>

(* A login that is refused for its address, or that has a good password, or
   that fails for another reason. *)
NotCounted ==
  /\ attempts' = Trimmed(attempts)
  /\ UNCHANGED <<now, failures>>

(* A login that gets as far as its password, and has a bad one. *)
AnyNumber(s) == TRUE                                         \* mutant
MayTry(s) == Recent(s) < Limit

Stamp == now

BadPassword ==
  /\ MayTry(attempts)
  /\ attempts' = Append(Trimmed(attempts), Stamp)
  /\ failures' = Append(failures, now)
  /\ UNCHANGED now

Pass ==
  /\ now < MaxTime
  /\ now' = now + 1
  /\ UNCHANGED <<attempts, failures>>

ThrottleNext == NotCounted \/ BadPassword \/ Pass

ThrottleSpec == ThrottleInit /\ [][ThrottleNext]_throttleVars

-----------------------------------------------------------------------------
(* Properties *)

(* Times are times, and the slice is as old as the clock allows. *)
ThrottleTypeOK ==
  /\ now \in Nat
  /\ attempts \in Seq(0..now)
  /\ failures \in Seq(0..now)

(* However the removal loop mangles the slice, it never forgets a failure that
   still counts: the i-th last failure, while young, has an i-th last entry that
   is at least as young.  (Recent can only be too high.) *)
NoneForgotten ==
  \A i \in 0 .. Len(failures) - 1 :
    Young(failures[Len(failures) - i]) =>
      /\ i < Len(attempts)
      /\ attempts[Len(attempts) - i] >= failures[Len(failures) - i]

(* What the throttle is for: no Limit + 1 passwords are tried in one Window. *)
AtMostLimit ==
  \A i \in 1 .. Len(failures) - Limit : failures[i + Limit] - failures[i] >= Window

(* One entry leaves per call at most, yet the slice does not outgrow Limit. *)
StaysShort == Len(attempts) <= Limit

(* The slice stays in the order of time. *)
Sorted(s) == \A i, j \in DOMAIN s : i <= j => s[i] <= s[j]

ThrottleIInv == ThrottleTypeOK /\ Sorted(attempts) /\ Sorted(failures) /\ NoneForgotten /\ AtMostLimit /\ StaysShort

-----------------------------------------------------------------------------
(* Recent's comment: it returns the number of entries that were added within
   the past timeFrame. *)
RecentIsExact ==
  Recent(attempts) = Cardinality({j \in DOMAIN failures : Young(failures[j])})
=============================================================================
