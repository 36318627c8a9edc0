----------------------------- MODULE MCAdmission -----------------------------
(* Players, who are interchangeable, from one address; and the removal loop of
   Recent as the code has it, to compare. *)
EXTENDS Admission, TLC

Symmetry == Permutations(Player)

(* append(attempts[:i], attempts[i+1:]...): cells i+1 .. n-1 (from 1) take their
   successors' values, in place; the last cell keeps its own. *)
OutOfPlace(s, i) == [j \in DOMAIN s |-> IF j > i /\ j < Len(s) THEN s[j + 1] ELSE s[j]]

Loop(s, k) ==
  LET step[i \in 0..k] == IF i = 0 THEN s ELSE OutOfPlace(step[i - 1], i - 1)
  IN SubSeq(step[k], 1, Len(s) - 1)

(* Shifted computes what the loop computes. *)
ASSUME ShiftedIsLoop ==
  \A n \in 1..5 : \A s \in [1..n -> 0..3] : \A k \in 1..n : Shifted(s, k) = Loop(s, k)
=============================================================================
