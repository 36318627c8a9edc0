-------------------------------- MODULE Skills --------------------------------
(***************************************************************************)
(* Levels and experience: pkg/game/entity/skilltable.go, Player.IncExp and *)
(* SetStat, and the rows in which db.PlayerSave leaves a skill.  A skill   *)
(* table locks each of its accessors and IncExp calls several: awards from *)
(* a dying NPC's goroutine, from another's and from the player's own       *)
(* handlers may overlap between any two.                                   *)
(***************************************************************************)
EXTENDS Integers, SequencesExt

(* 300 * 2^(k/7) in units of 2^-15: exact floors of what init adds up. *)
Octave == <<9830400, 10853641, 11983391, 13230737, 14607918, 16128449, 17807251>>
Gain(lvl) == lvl + Octave[(lvl % 7) + 1] \div 2^(15 - lvl \div 7)
Accumulated[lvl \in 0..105] == IF lvl = 0 THEN 0 ELSE Accumulated[lvl - 1] + Gain(lvl)
experienceLevels == [i \in 0..104 |-> Accumulated[i + 1] - (Accumulated[i + 1] % 4)]

LevelToExperience(lvl) ==
  CASE lvl < 2   -> 0
    [] lvl > 103 -> experienceLevels[104]
    [] OTHER     -> experienceLevels[lvl - 2]

Short(exp) == {lvl \in 1..103 : exp < experienceLevels[lvl - 1]}
ExperienceToLevel(exp) == Min(Short(exp) \cup {104})

(* In eighths of a level: two for each melee skill of the better pair and for
   defense and hits, one for prayer and for magic, three for ranged. *)
Skill == {"attack", "defense", "strength", "hits", "ranged", "prayer", "magic"}
CombatLevel(maximum) ==
  (2 * (maximum["defense"] + maximum["hits"]) + maximum["prayer"] + maximum["magic"]
     + Max({2 * (maximum["attack"] + maximum["strength"]), 3 * maximum["ranged"]})) \div 8

-----------------------------------------------------------------------------
(* A player's table, and whether others were told of a new combat level. *)
SetStat(t, s, lvl) ==
  [t EXCEPT !.current[s] = lvl, !.maximum[s] = lvl, !.experience[s] = LevelToExperience(lvl)]

(* IncExp(s, amt) under way: its next call, and what the last ones returned. *)
Award(s, amt) == [skill |-> s, amt |-> amt, at |-> "earn", due |-> 0, delta |-> 0, oldCombat |-> 0]

Earn(t, a) == <<[t EXCEPT !.experience[a.skill] = @ + (20 * a.amt) \div 4], [a EXCEPT !.at = "level"]>>
Level(t, a) == <<t, [a EXCEPT !.at = "compare", !.due = ExperienceToLevel(t.experience[a.skill])]>>

Lead(a, had) == [a EXCEPT !.delta = a.due - had, !.at = IF a.due > had THEN "combat" ELSE "over"]
CompareCurrent(t, a) == <<t, Lead(a, t.current[a.skill])>>               \* mutant
Compare(t, a) == <<t, Lead(a, t.maximum[a.skill])>>

Combat(t, a) == <<t, [a EXCEPT !.at = "current", !.oldCombat = CombatLevel(t.maximum)]>>
Current(t, a) == <<[t EXCEPT !.current[a.skill] = @ + a.delta], [a EXCEPT !.at = "maximum"]>>

Raised(t, a) == [t EXCEPT !.maximum[a.skill] = @ + a.delta]
Maximum(t, a) == <<Raised(t, a), [a EXCEPT !.at = "announce"]>>

Announce(t, a) ==
  <<[t EXCEPT !.announced = @ \/ a.oldCombat # CombatLevel(t.maximum)], [a EXCEPT !.at = "over"]>>

IncExp(t, a) ==
  CASE a.at = "earn"     -> Earn(t, a)
    [] a.at = "level"    -> Level(t, a)
    [] a.at = "compare"  -> Compare(t, a)
    [] a.at = "combat"   -> Combat(t, a)
    [] a.at = "current"  -> Current(t, a)
    [] a.at = "maximum"  -> Maximum(t, a)
    [] a.at = "announce" -> Announce(t, a)

DistributeMeleeExp(mode, exp) ==
  <<Award("hits", exp)>> \o
  CASE mode = 0 -> <<Award("attack", exp), Award("defense", exp), Award("strength", exp)>>
    [] mode = 1 -> <<Award("strength", 3 * exp)>>
    [] mode = 2 -> <<Award("attack", 3 * exp)>>
    [] mode = 3 -> <<Award("defense", 3 * exp)>>

-----------------------------------------------------------------------------
(* Goroutines, each with the awards it still has to make, in every order of
   their calls: the tables they may leave. *)
Turn(st, p) ==
  LET done == IncExp(st.table, Head(st.todo[p]))
      rest == IF done[2].at = "over" THEN <<>> ELSE <<done[2]>>
  IN  [table |-> done[1], todo |-> [st.todo EXCEPT ![p] = rest \o Tail(@)]]

Turns(st) ==
  LET busy == {p \in DOMAIN st.todo : st.todo[p] # <<>>}
  IN  IF busy = {} THEN {st} ELSE {Turn(st, p) : p \in busy}

Calls == 7
Left(t, todo) ==
  LET many == Calls * Len(FlattenSeq(todo))
      After[n \in 0..many] ==
        IF n = 0 THEN {[table |-> t, todo |-> todo]} ELSE UNION {Turns(st) : st \in After[n - 1]}
  IN  {st.table : st \in After[many]}

(* db: insertStat and loadStats. *)
StatRow(t, s) == [cur |-> t.current[s], exp |-> t.experience[s]]
LoadStat(row) == [current |-> row.cur, maximum |-> ExperienceToLevel(row.exp), experience |-> row.exp]

-----------------------------------------------------------------------------
(* ExperienceToLevel turns LevelToExperience back for every level there is, and
   one point less is one level less, up to the last but one. *)
LevelsMatch ==
  /\ \A lvl \in 1..104 : ExperienceToLevel(LevelToExperience(lvl)) = lvl
  /\ \A lvl \in 2..103 : ExperienceToLevel(LevelToExperience(lvl) - 1) = lvl - 1
=============================================================================
