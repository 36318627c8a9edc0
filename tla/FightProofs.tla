---------------------------- MODULE FightProofs ----------------------------
(* Proofs about Fight, for any players, tasks, hits and delays: who is left
   marked as fighting with no task to free him, that a player and the NPC fight
   in one task, and that an NPC hunted alone drops once per life. *)
EXTENDS Fight, FiniteSetTheorems, TLAPS

Running == [by : Mob, attacker : Mob, defender : Mob, due : 0..FightTicks]
Types ==
  /\ fighting \in [Mob -> BOOLEAN] /\ rest \in [Mob -> Nat] /\ winners \subseteq Mob
  /\ hits \in [Mob -> Int] /\ at \in [Mob -> Place \cup {"grave"}]
  /\ fights \in [Task -> Running \cup {NoFight}]
  /\ todo \subseteq Task /\ phase \in {"packets", "npcs", "tasks"}
  /\ respawns \in [0..RespawnTicks -> Nat] /\ dying \in [Player \X Steps -> Nat]
  /\ pc \in [Player -> {"idle", "near", "aimed", "struck", "done"}]
  /\ prey \in [Player -> Mob \cup {Nobody}] /\ seen \in [Player -> Int]
  /\ drops \in Nat /\ hunters \subseteq Player \X {"melee", "magic"}

(* Tasks run in their phase, handlers in theirs. *)
Queue ==
  /\ phase # "tasks" => todo = {}
  /\ \A f \in todo : fights[f] # NoFight
  /\ \A f \in Task : fights[f] # NoFight => fights[f].attacker # fights[f].defender

Handlers ==
  /\ phase # "packets" => \A p \in Player : pc[p] \in {"idle", "done"}
  /\ \A p \in Player :
       IF pc[p] \in {"idle", "done"} THEN prey[p] = Nobody ELSE prey[p] \in Mob \ {p}

Engine == Queue /\ Handlers

(* How long a task waits yet, this tick's tasks phase included. *)
Left(f) == IF phase = "tasks" /\ f \notin todo THEN fights[f].due + 1 ELSE fights[f].due

(* Of the fight that somebody in a task is not in any more: the task finds that
   out before the rest after the fight is over. *)
Ending ==
  \A f \in Task : fights[f] # NoFight =>
    /\ Left(f) <= FightTicks
    /\ \A m \in Fighters(f) : fighting[m] \/ Left(f) < rest[m]

(* Whoever is about to attack the NPC has no task with it yet, and whoever has
   one attacked it in the same phase. *)
Closing ==
  \A p \in Player : pc[p] = "near" /\ prey[p] = npc =>
    \A f \in Task : npc \in Fighters(f) => fights[f].defender = npc /\ fights[f].attacker # p

(* Who has no task is waiting for the goroutine of the death that ended it. *)
Freeing ==
  \A m \in Mob : fighting[m] =>
    InFight(m) \/ m \in winners \/ \E x \in Player \X Steps : dying[x] > 0 /\ m \in {npc, x[1]}

FInv == Types /\ Engine /\ Ending /\ Closing /\ OneTaskPerNpcFight /\ Freeing

-----------------------------------------------------------------------------
(* The NPC's lives, with one player who casts spells. *)
Dying == \E x \in Player \X Steps : dying[x] > 0
Casting(p) == pc[p] \in {"aimed", "struck"}

(* Between its death and its return the NPC has no hits left, and nobody is
   casting at it. *)
Doomed ==
  /\ at[npc] \in {"field", "grave"}
  /\ \A p \in Player : Casting(p) => p \in Caster
  /\ at[npc] = "grave" \/ Dying => hits[npc] <= 0 /\ \A p \in Player : Casting(p) => prey[p] # npc
  /\ phase = "packets" /\ Dying => \A c \in Caster : pc[c] = "done"

(* Outside the tasks phase it dies of a spell only, once. *)
DiesOnce ==
  phase # "tasks" /\ Dying =>
    /\ \A x, y \in Player \X Steps : dying[x] > 0 /\ dying[y] > 0 => x = y /\ dying[x] = 1
    /\ \A k \in 0..RespawnTicks : respawns[k] = 0

(* Until it is back, whoever still attacked it has had his turn. *)
Returning ==
  /\ \A k, l \in 0..RespawnTicks : respawns[k] > 0 /\ respawns[l] > 0 => k = l /\ respawns[k] = 1
  /\ \A k \in 0..RespawnTicks : respawns[k] > 0 =>
       /\ at[npc] = "grave"
       /\ k < RespawnTicks => \A p \in Player : prey[p] # npc
       /\ \A f \in Task : npc \in Fighters(f) => Left(f) < k
  /\ respawns[0] > 0 => ~Dying
  /\ at[npc] = "grave" /\ fighting[npc] =>
       \A f \in Task : npc \in Fighters(f) => fights[f].defender = npc

(* Who hunts it is known. *)
Hunted ==
  /\ \A f \in Task, x \in Player : Fighters(f) = {npc, x} => <<x, "melee">> \in hunters
  /\ \A p \in Player : Casting(p) /\ prey[p] = npc => <<p, "magic">> \in hunters
  /\ (phase # "tasks" /\ Dying) \/ (at[npc] = "grave" /\ \E p \in Player : prey[p] = npc)
       => \E q \in Player : <<q, "magic">> \in hunters

(* Hunted alone, it has died once at most, and is then in no fight. *)
Lone == \A g, h \in hunters : g = h
Killed == drops > 0 \/ \E p \in Player : dying[<<p, "reward">>] > 0
OneDeath ==
  Lone =>
    /\ drops <= 1
    /\ \A p \in Player : dying[<<p, "reward">>] > 0 =>
         /\ drops = 0 /\ dying[<<p, "reward">>] = 1
         /\ \A q \in Player : dying[<<q, "reward">>] > 0 => p = q
    /\ Killed => /\ at[npc] = "grave" \/ Dying
                 /\ \A f \in Task : npc \notin Fighters(f)

LInv == Doomed /\ DiesOnce /\ Returning /\ Hunted /\ OneDeath
OneCaster == \A p, q \in Caster : p = q
-----------------------------------------------------------------------------
(* What the operators of Fight do. *)

LEMMA Constants ==
  /\ FightTicks \in Nat \ {0} /\ RespawnTicks \in Nat \ {0} /\ RestTicks \in Nat /\ MaxHits \in Nat
  /\ FightTicks < RestTicks /\ FightTicks < RespawnTicks
  /\ npc \in Mob /\ npc \notin Player /\ Player \subseteq Mob /\ Nobody \notin Mob
  /\ NoFight \notin Running
<1>1. Running \subseteq [by : Mob, attacker : Mob, defender : Mob, due : Nat]
  BY FightAssumption DEF Running
<1> QED BY <1>1, FightAssumption DEF Mob

LEMMA StartCombatGives ==
  ASSUME Types, NEW a \in Mob, NEW d \in Mob, StartCombat(a, d)
  PROVE  /\ fighting' \in [Mob -> BOOLEAN] /\ fighting'[a] /\ fighting'[d]
         /\ \A m \in Mob \ {a, d} : fighting'[m] = fighting[m]
         /\ rest' = rest /\ winners' = winners \ {a, d}
         /\ at' \in [Mob -> Place \cup {"grave"}] /\ at'[a] = at[d]
         /\ \A m \in Mob \ {a} : at'[m] = at[m]
         /\ fights' \in [Task -> Running \cup {NoFight}]
         /\ \E f \in Task :
              /\ fights[f] = NoFight /\ \A g \in Task \ {f} : fights'[g] = fights[g]
              /\ fights'[f] = [by |-> a, attacker |-> a, defender |-> d, due |-> FightTicks]
<1>1. fighting' \in [Mob -> BOOLEAN] /\ fighting'[a] /\ fighting'[d]
      /\ \A m \in Mob \ {a, d} : fighting'[m] = fighting[m]
  BY DEF StartCombat, Types
<1>2. at' \in [Mob -> Place \cup {"grave"}] /\ at'[a] = at[d] /\ \A m \in Mob \ {a} : at'[m] = at[m]
  BY DEF StartCombat, Types
<1>3. PICK f \in Task :
        /\ fights[f] = NoFight
        /\ fights' = [fights EXCEPT ![f] = [by |-> a, attacker |-> a, defender |-> d, due |-> FightTicks]]
  BY DEF StartCombat
<1>4. [by |-> a, attacker |-> a, defender |-> d, due |-> FightTicks] \in Running
  BY Constants DEF Running
<1>5. fights \in [Task -> Running \cup {NoFight}]
  BY DEF Types
<1>6. fights' \in [Task -> Running \cup {NoFight}]
  BY <1>3, <1>4, <1>5
<1>7. /\ fights'[f] = [by |-> a, attacker |-> a, defender |-> d, due |-> FightTicks]
      /\ \A g \in Task \ {f} : fights'[g] = fights[g]
  BY <1>3, <1>5
<1> QED BY <1>1, <1>2, <1>3, <1>6, <1>7 DEF StartCombat

(* Who attacks the NPC, or is attacked by it, is one of its hunters. *)
LEMMA HuntersGrow ==
  ASSUME Types, NEW p \in Player, NEW how \in {"melee", "magic"}
  PROVE  /\ HuntedBy(<<p, how>>) \subseteq Player \X {"melee", "magic"}
         /\ hunters \subseteq HuntedBy(<<p, how>>) /\ <<p, how>> \in HuntedBy(<<p, how>>)
BY DEF HuntedBy, Types

LEMMA ReleaseGives ==
  ASSUME Types, NEW S, Release(S)
  PROVE  /\ fighting' \in [Mob -> BOOLEAN] /\ rest' \in [Mob -> Nat]
         /\ \A m \in Mob : /\ fighting'[m] <=> fighting[m] /\ m \notin S
                           /\ rest'[m] = IF m \in S THEN RestTicks ELSE rest[m]
BY Constants DEF Release, Types

LEMMA FreedGives ==
  ASSUME Types, NEW m \in Mob
  PROVE  /\ Freed(m) \subseteq Mob
         /\ \A S : m \in S \/ ~fighting[m] \/ ~(Freed(m) \subseteq S)
BY DEF Freed, Types

LEMMA FightersAre ==
  ASSUME Types, NEW f \in Task
  PROVE  /\ fights[f] = NoFight => Fighters(f) = {}
         /\ fights[f] # NoFight =>
              /\ fights[f] \in Running /\ fights[f].due \in 0..FightTicks
              /\ fights[f].attacker \in Mob /\ fights[f].defender \in Mob
              /\ Fighters(f) = {fights[f].attacker, fights[f].defender}
         /\ Fighters(f) \subseteq Mob
         /\ Left(f) \in Nat \/ fights[f] = NoFight
<1>1. fights[f] \in Running \cup {NoFight}
  BY DEF Types
<1>2. CASE fights[f] = NoFight
  BY <1>2 DEF Fighters
<1>3. CASE fights[f] # NoFight
  <2>1. fights[f] \in Running /\ fights[f].due \in 0..FightTicks
        /\ fights[f].attacker \in Mob /\ fights[f].defender \in Mob
    BY <1>1, <1>3 DEF Running
  <2>2. fights[f].due \in Nat
    BY <2>1, Constants
  <2> QED BY <1>3, <2>1, <2>2 DEF Fighters, Left
<1> QED BY <1>2, <1>3

(* The smaller of two numbers. *)
LEMMA MinOfTwo ==
  ASSUME NEW a \in Int, NEW b \in Int
  PROVE  Min({a, b}) = IF a <= b THEN a ELSE b
<1> DEFINE c == IF a <= b THEN a ELSE b
<1>1. c \in {a, b} /\ \A y \in {a, b} : c =< y
  OBVIOUS
<1>2. \A x \in {a, b} : (\A y \in {a, b} : x =< y) => x = c
  OBVIOUS
<1> HIDE DEF c
<1>3. Min({a, b}) \in {a, b} /\ \A y \in {a, b} : Min({a, b}) =< y
  BY <1>1 DEF Min
<1> QED BY <1>2, <1>3 DEF c

-----------------------------------------------------------------------------
(* Types. *)

LEMMA DamageType == \A h \in Int : \A d \in Damage(h) : d \in Int /\ h - d \in Int /\ (h <= 0 => h - d <= 0)
BY DEF Damage

LEMMA KilledTypes ==
  ASSUME Types, NEW v \in Player, NEW won \in SUBSET Mob, NEW rounds, KilledPlayer(v, won, rounds)
  PROVE  /\ fighting' \in [Mob -> BOOLEAN] /\ rest' \in [Mob -> Nat] /\ winners' \subseteq Mob
         /\ hits' \in [Mob -> Int] /\ at' \in [Mob -> Place \cup {"grave"}]
         /\ at'[npc] = at[npc] /\ hits'[npc] = hits[npc]
<1>1. v \in Mob /\ v # npc /\ MaxHits \in Int
  BY Constants
<1>2. fighting' \in [Mob -> BOOLEAN] /\ rest' \in [Mob -> Nat]
  BY ReleaseGives DEF KilledPlayer
<1>3. hits' \in [Mob -> Int] /\ hits'[npc] = hits[npc]
  BY <1>1, Constants DEF KilledPlayer, Types
<1>4. at' \in [Mob -> Place \cup {"grave"}] /\ at'[npc] = at[npc]
  BY <1>1, Constants DEF KilledPlayer, Types, Place
<1>5. winners' \subseteq Mob
  BY DEF KilledPlayer, Types
<1> QED BY <1>2, <1>3, <1>4, <1>5

LEMMA HandlerTypes ==
  ASSUME Types, Engine, NEW p \in Player,
         \/ \E m \in Mob : See(p, m) \/ Aim(p, m)
         \/ Engage(p) \/ Strike(p) \/ Judge(p)
  PROVE  Types'
<1>0. p \in Mob /\ Nobody \notin Mob /\ prey \in [Player -> Mob \cup {Nobody}]
      /\ pc \in [Player -> {"idle", "near", "aimed", "struck", "done"}]
  BY Constants DEF Types
<1>1. ASSUME NEW m \in Mob, See(p, m) PROVE Types'
  BY <1>1 DEF See, Goto, Types, mobs, body, life, engine
<1>2. ASSUME NEW m \in Mob, Aim(p, m) PROVE Types'
  <2>0. pc' = [pc EXCEPT ![p] = "aimed"] /\ prey' = [prey EXCEPT ![p] = m]
        /\ seen' = [seen EXCEPT ![p] = hits[m]]
        /\ hunters' = IF m = npc THEN HuntedBy(<<p, "magic">>) ELSE hunters
    BY <1>2 DEF Aim, Goto
  <2>1. pc' \in [Player -> {"idle", "near", "aimed", "struck", "done"}]
        /\ prey' \in [Player -> Mob \cup {Nobody}]
    BY <1>0, <2>0
  <2>2. seen' \in [Player -> Int]
    BY <2>0 DEF Types
  <2>3. hunters' \subseteq Player \X {"melee", "magic"}
    BY <2>0, HuntersGrow DEF Types
  <2>4. UNCHANGED <<mobs, body, noticed, respawns, dying, drops, engine>>
    BY <1>2 DEF Aim
  <2> QED BY <2>1, <2>2, <2>3, <2>4 DEF Types, mobs, body, engine
<1>3. CASE Engage(p)
  <2>1. prey[p] \in Mob
    BY <1>3 DEF Engage, Engine, Queue, Handlers
  <2>2. StartCombat(p, prey[p])
    BY <1>3 DEF Engage
  <2>3. hunters' \subseteq Player \X {"melee", "magic"}
    <3>1. hunters' = IF npc \in {p, prey[p]} THEN HuntedBy(<<IF p = npc THEN prey[p] ELSE p, "melee">>) ELSE hunters
      BY <2>2 DEF StartCombat
    <3>2. p # npc
      BY Constants
    <3> QED BY <3>1, <3>2, HuntersGrow DEF Types
  <2>4. /\ pc' \in [Player -> {"idle", "near", "aimed", "struck", "done"}]
        /\ prey' \in [Player -> Mob \cup {Nobody}] /\ seen' = seen
    BY <1>0, <1>3 DEF Engage, Done, Goto
  <2>5. /\ fighting' \in [Mob -> BOOLEAN] /\ rest' = rest /\ winners' \subseteq winners
        /\ at' \in [Mob -> Place \cup {"grave"}] /\ fights' \in [Task -> Running \cup {NoFight}]
    <3> DEFINE m == prey[p]
    <3>1. m \in Mob /\ StartCombat(p, m)
      BY <2>1, <2>2
    <3> HIDE DEF m
    <3>2. /\ fighting' \in [Mob -> BOOLEAN] /\ rest' = rest /\ winners' = winners \ {p, m}
          /\ at' \in [Mob -> Place \cup {"grave"}] /\ fights' \in [Task -> Running \cup {NoFight}]
      BY <1>0, <3>1, StartCombatGives
    <3> QED BY <3>2
  <2>6. hits' = hits /\ todo' = todo /\ phase' = phase /\ respawns' = respawns /\ dying' = dying /\ drops' = drops
    BY <1>3 DEF Engage
  <2> QED BY <2>3, <2>4, <2>5, <2>6 DEF Types
<1>4. CASE Strike(p)
  <2>1. \A d \in Damage(seen[p]) : d \in Int
    BY DamageType DEF Types
  <2>2. PICK d \in Damage(seen[p]), now \in {seen[p], hits[prey[p]]} : hits' = [hits EXCEPT ![prey[p]] = now - d]
    BY <1>4 DEF Strike
  <2>5. prey[p] \in Mob
    BY <1>4 DEF Strike, Engine, Queue, Handlers
  <2>6. seen[p] \in Int /\ hits \in [Mob -> Int] /\ hits[prey[p]] \in Int
    BY <2>5 DEF Types
  <2>7. now - d \in Int
    BY <2>1, <2>6
  <2>3. hits' \in [Mob -> Int]
    BY <2>2, <2>5, <2>6, <2>7
  <2>4. seen' \in [Player -> Int] /\ pc' \in [Player -> {"idle", "near", "aimed", "struck", "done"}]
    BY <1>0, <1>4 DEF Strike, Goto, Types
  <2> QED BY <1>4, <2>3, <2>4 DEF Strike, Types, mobs, life, engine
<1>5. CASE Judge(p)
  <2>1. prey[p] \in Mob /\ (prey[p] # npc => prey[p] \in Player)
    BY <1>5 DEF Judge, Engine, Queue, Handlers, Mob
  <2>2. /\ pc' \in [Player -> {"idle", "near", "aimed", "struck", "done"}]
        /\ prey' \in [Player -> Mob \cup {Nobody}] /\ seen' = seen
    BY <1>0, <1>5 DEF Judge, Done, Goto
  <2>3. dying' \in [Player \X Steps -> Nat]
    <3>1. <<p, "reward">> \in Player \X Steps
      BY DEF Steps
    <3>2. dying' = dying \/ dying' = [dying EXCEPT ![<<p, "reward">>] = @ + 1]
      BY <1>5 DEF Judge
    <3>3. dying \in [Player \X Steps -> Nat]
      BY DEF Types
    <3> QED BY <3>1, <3>2, <3>3
  <2>4. /\ fighting' \in [Mob -> BOOLEAN] /\ rest' \in [Mob -> Nat] /\ winners' \subseteq Mob
        /\ hits' \in [Mob -> Int] /\ at' \in [Mob -> Place \cup {"grave"}]
    <3>1. CASE prey[p] # npc /\ hits[prey[p]] <= 0
      <4>1. KilledPlayer(prey[p], {}, Rounds(Freed(prey[p])))
        BY <1>5, <3>1 DEF Judge
      <4> QED BY <2>1, <3>1, <4>1, KilledTypes
    <3>2. CASE ~(prey[p] # npc /\ hits[prey[p]] <= 0)
      <4>1. UNCHANGED <<mobs, hits, at>>
        BY <1>5, <3>2 DEF Judge
      <4> QED BY <4>1 DEF Types, mobs
    <3> QED BY <3>1, <3>2
  <2>5. UNCHANGED <<fled, connected, noticed, respawns, drops, hunters, engine>>
    BY <1>5 DEF Judge
  <2> QED BY <2>2, <2>3, <2>4, <2>5 DEF Types, engine
<1> QED BY <1>1, <1>2, <1>3, <1>4, <1>5

(* A goroutine of NPC.Killed goes a step on. *)
LEMMA DyingStep ==
  ASSUME Types, NEW p \in Player
  PROVE  /\ Reward(p) => dying' \in [Player \X Steps -> Nat] /\ drops' \in Nat
         /\ Leave(p) => dying' \in [Player \X Steps -> Nat]
<1>1. <<p, "reward">> \in Player \X Steps /\ <<p, "leave">> \in Player \X Steps
  BY DEF Steps
<1>2. dying \in [Player \X Steps -> Nat] /\ drops + 1 \in Nat /\ drops + 1 \in Int /\ 2 \in Int
  BY DEF Types
<1>3. ASSUME Reward(p) PROVE dying' \in [Player \X Steps -> Nat] /\ drops' \in Nat
  <2>1. dying[<<p, "reward">>] > 0 /\ dying[<<p, "reward">>] - 1 \in Nat /\ dying[<<p, "leave">>] + 1 \in Nat
    BY <1>1, <1>2, <1>3 DEF Reward
  <2>2. dying' = [dying EXCEPT ![<<p, "reward">>] = @ - 1, ![<<p, "leave">>] = @ + 1]
    BY <1>3 DEF Reward
  <2>3. dying' \in [Player \X Steps -> Nat]
    BY <1>1, <1>2, <2>1, <2>2
  <2>4. drops' = Min({drops + 1, 2})
    BY <1>3 DEF Reward
  <2>5. drops' \in Nat
    BY <1>2, <2>4, MinOfTwo
  <2> QED BY <2>3, <2>5
<1>4. ASSUME Leave(p) PROVE dying' \in [Player \X Steps -> Nat]
  <2>1. dying[<<p, "leave">>] > 0 /\ dying[<<p, "leave">>] - 1 \in Nat
    BY <1>1, <1>2, <1>4 DEF Leave
  <2>2. dying' = [dying EXCEPT ![<<p, "leave">>] = @ - 1]
    BY <1>4 DEF Leave
  <2> QED BY <1>1, <1>2, <2>1, <2>2
<1> QED BY <1>3, <1>4

LEMMA MoverTypes ==
  ASSUME Types, Engine, NEW p \in Player,
         Retreat(p) \/ Move(p) \/ Disconnect(p) \/ Notices(p) \/ Reward(p) \/ Leave(p)
  PROVE  Types'
<1>0. p \in Mob /\ npc \in Mob /\ Place \subseteq Place \cup {"grave"} /\ "grave" \in Place \cup {"grave"}
  BY Constants
<1>1. CASE Retreat(p)
  <2>1. PICK S : Release(S) /\ winners' = winners \ S
    BY <1>1 DEF Retreat
  <2>2. at' \in [Mob -> Place \cup {"grave"}]
    BY <1>0, <1>1 DEF Retreat, Types
  <2>3. fighting' \in [Mob -> BOOLEAN] /\ rest' \in [Mob -> Nat] /\ winners' \subseteq Mob
    BY <2>1, ReleaseGives DEF Types
  <2>4. UNCHANGED <<hits, connected, life, engine, hands>>
    BY <1>1 DEF Retreat
  <2> QED BY <2>2, <2>3, <2>4 DEF Types, life, engine, hands
<1>2. CASE Move(p)
  <2>1. at' \in [Mob -> Place \cup {"grave"}]
    BY <1>0, <1>2 DEF Move, Types
  <2>2. UNCHANGED <<mobs, hits, fled, connected, life, engine, hands>>
    BY <1>2 DEF Move
  <2> QED BY <2>1, <2>2 DEF Types, mobs, life, engine, hands
<1>3. CASE Disconnect(p)
  <2>1. Release(Freed(p)) /\ winners' = winners \ Freed(p)
    BY <1>3 DEF Disconnect
  <2>2. fighting' \in [Mob -> BOOLEAN] /\ rest' \in [Mob -> Nat] /\ winners' \subseteq Mob
    BY <2>1, ReleaseGives DEF Types
  <2>3. UNCHANGED <<hits, at, fled, life, engine, hands>>
    BY <1>3 DEF Disconnect
  <2> QED BY <2>2, <2>3 DEF Types, life, engine, hands
<1>4. CASE Notices(p)
  <2>1. UNCHANGED <<hits, fled, connected, respawns, dying, drops, phase, todo, hands>>
    BY <1>4 DEF Notices
  <2>2. CASE UNCHANGED <<mobs, at, fights, hunters>>
    BY <2>1, <2>2 DEF Types, mobs, hands
  <2>3. CASE StartCombat(npc, p)
    <3>1. hunters' = HuntedBy(<<p, "melee">>)
      BY <2>3 DEF StartCombat
    <3>2. hunters' \subseteq Player \X {"melee", "magic"}
      BY <3>1, HuntersGrow
    <3>3. /\ fighting' \in [Mob -> BOOLEAN] /\ rest' = rest /\ winners' = winners \ {npc, p}
          /\ at' \in [Mob -> Place \cup {"grave"}] /\ fights' \in [Task -> Running \cup {NoFight}]
      BY <1>0, <2>3, StartCombatGives
    <3> QED BY <2>1, <3>2, <3>3 DEF Types, hands
  <2> QED BY <1>4, <2>2, <2>3 DEF Notices
<1>5. CASE Reward(p)
  <2>1. UNCHANGED <<mobs, body, noticed, respawns, hunters, engine, hands>>
    BY <1>5 DEF Reward
  <2>2. dying' \in [Player \X Steps -> Nat] /\ drops' \in Nat
    BY <1>5, DyingStep
  <2> QED BY <2>1, <2>2 DEF Types, mobs, body, engine, hands
<1>6. CASE Leave(p)
  <2>1. PICK S : Release(S) /\ winners' = winners \ S
    BY <1>6 DEF Leave
  <2>2. fighting' \in [Mob -> BOOLEAN] /\ rest' \in [Mob -> Nat] /\ winners' \subseteq Mob
    BY <2>1, ReleaseGives DEF Types
  <2>3. dying' \in [Player \X Steps -> Nat]
    BY <1>6, DyingStep
  <2>4. at' \in [Mob -> Place \cup {"grave"}]
    BY <1>0, <1>6 DEF Leave, Removed, Types
  <2>5. respawns' \in [0..RespawnTicks -> Nat]
    <3>1. RespawnTicks \in 0..RespawnTicks
      BY Constants
    <3> QED BY <1>6, <3>1 DEF Leave, Types
  <2>6. UNCHANGED <<hits, fled, connected, noticed, drops, hunters, engine, hands>>
    BY <1>6 DEF Leave
  <2> QED BY <2>2, <2>3, <2>4, <2>5, <2>6 DEF Types, engine, hands
<1> QED BY <1>1, <1>2, <1>3, <1>4, <1>5, <1>6

LEMMA TickTypes ==
  ASSUME Types, Engine,
         \/ StartNpcs \/ StartTasks \/ Respawn \/ EndTasks
         \/ \E f \in Task : FightWaits(f) \/ FightEnds(f) \/ Hit(f)
  PROVE  Types'
<1>1. CASE StartNpcs
  BY <1>1 DEF StartNpcs, Types, mobs, body, life, hands
<1>2. CASE StartTasks
  BY <1>2 DEF StartTasks, Types, mobs, body, life, hands
<1>3. CASE Respawn
  <2>1. 0 \in 0..RespawnTicks /\ MaxHits \in Int /\ npc \in Mob /\ "field" \in Place \cup {"grave"}
    BY Constants DEF Place
  <2>2. respawns' = [respawns EXCEPT ![0] = @ - 1] /\ respawns[0] > 0
    BY <1>3 DEF Respawn
  <2>3. respawns' \in [0..RespawnTicks -> Nat]
    BY <2>1, <2>2 DEF Types
  <2>4. hits' \in [Mob -> Int] /\ at' \in [Mob -> Place \cup {"grave"}]
    BY <1>3, <2>1 DEF Respawn, Types
  <2>5. drops' \in Nat /\ hunters' \subseteq Player \X {"melee", "magic"}
    BY <1>3 DEF Respawn
  <2>6. UNCHANGED <<mobs, fled, connected, noticed, dying, engine, hands>>
    BY <1>3 DEF Respawn
  <2> QED BY <2>3, <2>4, <2>5, <2>6 DEF Types, mobs, engine, hands
<1>4. CASE EndTasks
  <2>1. rest' = [m \in Mob |-> Less(rest[m])] /\ phase' = "packets" /\ pc' = [p \in Player |-> "idle"]
        /\ respawns' = [k \in 0..RespawnTicks |-> IF k < RespawnTicks THEN respawns[k + 1] ELSE 0]
    BY <1>4 DEF EndTasks
  <2>2. \A n \in Nat : Less(n) \in Nat
    BY DEF Less
  <2>3. rest' \in [Mob -> Nat]
    BY <2>1, <2>2 DEF Types
  <2>4. \A k \in 0..RespawnTicks : k < RespawnTicks => k + 1 \in 0..RespawnTicks
    BY Constants
  <2>5. respawns' \in [0..RespawnTicks -> Nat]
    BY <2>1, <2>4 DEF Types
  <2>6. UNCHANGED <<fighting, winners, hits, at, dying, drops, hunters, fights, todo, prey, seen>>
    BY <1>4 DEF EndTasks
  <2> QED BY <2>1, <2>3, <2>5, <2>6 DEF Types
<1>5. ASSUME NEW f \in Task, FightWaits(f) \/ FightEnds(f) \/ Hit(f) PROVE Types'
  <2>0. f \in todo /\ todo' = todo \ {f} /\ fights \in [Task -> Running \cup {NoFight}]
    BY <1>5 DEF FightWaits, FightEnds, Hit, Ran, Types
  <2>1. fights[f] # NoFight
    BY <2>0 DEF Engine, Queue, Handlers
  <2>2. fights[f] \in Running /\ fights[f].due \in 0..FightTicks
        /\ fights[f].attacker \in Mob /\ fights[f].defender \in Mob
    BY <2>1, FightersAre
  <2>3. CASE FightWaits(f)
    <3>1. fights[f].due - 1 \in 0..FightTicks
      BY <2>2, <2>3, Constants DEF FightWaits
    <3>2. fights' = [fights EXCEPT ![f] = [fights[f] EXCEPT !.due = @ - 1]]
      BY <2>3 DEF FightWaits
    <3>3. [fights[f] EXCEPT !.due = @ - 1] \in Running
      BY <2>2, <3>1 DEF Running
    <3>4. fights' \in [Task -> Running \cup {NoFight}]
      BY <2>0, <3>2, <3>3
    <3>5. UNCHANGED <<mobs, body, life, phase, hands>>
      BY <2>3 DEF FightWaits
    <3>6. todo' \subseteq Task
      BY <2>0 DEF Types
    <3> QED BY <3>4, <3>5, <3>6 DEF Types, mobs, body, life, hands
  <2>4. CASE FightEnds(f)
    <3>1. Release(Both(f)) /\ winners' = winners \ Both(f) /\ fights' = [fights EXCEPT ![f] = NoFight]
      BY <2>4 DEF FightEnds
    <3>2. fighting' \in [Mob -> BOOLEAN] /\ rest' \in [Mob -> Nat] /\ winners' \subseteq Mob
      BY <3>1, ReleaseGives DEF Types
    <3>3. fights' \in [Task -> Running \cup {NoFight}]
      BY <2>0, <3>1
    <3>4. UNCHANGED <<body, life, phase, hands>>
      BY <2>4 DEF FightEnds
    <3>5. todo' \subseteq Task
      BY <2>0 DEF Types
    <3> QED BY <3>2, <3>3, <3>4, <3>5 DEF Types, body, life, hands
  <2>5. CASE Hit(f)
    <3> DEFINE a == fights[f].attacker
               v == fights[f].defender
    <3>1. PICK d \in Damage(hits[v]) :
            /\ IF hits[v] <= d /\ v \in Player
               THEN KilledPlayer(v, {a}, Counted(Rounds(Freed(v)), a))
               ELSE hits' = [hits EXCEPT ![v] = @ - d] /\ UNCHANGED <<fighting, target, rest, winners, at>>
            /\ dying' = IF v = npc /\ hits[v] <= d THEN [dying EXCEPT ![<<a, "reward">>] = @ + 1] ELSE dying
            /\ fights' = [fights EXCEPT ![f] = After(f, hits[v] <= d)]
      BY <2>5 DEF Hit
    <3>2. UNCHANGED <<fled, connected, noticed, respawns, drops, hunters, phase, hands>>
      BY <2>5 DEF Hit
    <3>3. a \in Mob /\ v \in Mob /\ (v = npc => a \in Player)
      BY <2>0, <2>1, <2>2 DEF Engine, Queue, Handlers, Types, Mob
    <3>4. dying' \in [Player \X Steps -> Nat]
      <4>1. v = npc => <<a, "reward">> \in Player \X Steps
        BY <3>3 DEF Steps
      <4>2. dying' = dying \/ (v = npc /\ dying' = [dying EXCEPT ![<<a, "reward">>] = @ + 1])
        <5>1. dying' = IF v = npc /\ hits[v] <= d THEN [dying EXCEPT ![<<a, "reward">>] = @ + 1] ELSE dying
          BY <3>1
        <5> HIDE DEF a, v
        <5> QED BY <5>1
      <4>3. dying \in [Player \X Steps -> Nat]
        BY DEF Types
      <4> HIDE DEF a, v
      <4> QED BY <4>1, <4>2, <4>3
    <3>5. fights' \in [Task -> Running \cup {NoFight}]
      <4>1. FightTicks - 1 \in 0..FightTicks
        BY Constants
      <4>2. Swapped(f) \in Running
        BY <2>2, <4>1 DEF Swapped, Running
      <4>3. \A b : After(f, b) \in Running \cup {NoFight}
        BY <4>2 DEF After
      <4> QED BY <2>0, <3>1, <4>3
    <3>6. /\ fighting' \in [Mob -> BOOLEAN] /\ rest' \in [Mob -> Nat] /\ winners' \subseteq Mob
          /\ hits' \in [Mob -> Int] /\ at' \in [Mob -> Place \cup {"grave"}]
      <4>1. CASE hits[v] <= d /\ v \in Player
        <5>1. KilledPlayer(v, {a}, Counted(Rounds(Freed(v)), a)) /\ {a} \in SUBSET Mob
          BY <3>1, <3>3, <4>1
        <5> HIDE DEF a, v
        <5> QED BY <4>1, <5>1, KilledTypes
      <4>2. CASE ~(hits[v] <= d /\ v \in Player)
        <5>1. hits \in [Mob -> Int] /\ hits[v] \in Int
          BY <3>3 DEF Types
        <5>2. hits[v] - d \in Int
          BY <5>1, DamageType
        <5>3. hits' = [hits EXCEPT ![v] = @ - d] /\ UNCHANGED <<fighting, target, rest, winners, at>>
          BY <3>1, <4>2
        <5> QED BY <3>3, <5>1, <5>2, <5>3 DEF Types
      <4> QED BY <4>1, <4>2
    <3>7. todo' \subseteq Task
      BY <2>0 DEF Types
    <3> HIDE DEF a, v
    <3> QED BY <3>2, <3>4, <3>5, <3>6, <3>7 DEF Types, hands
  <2> QED BY <1>5, <2>3, <2>4, <2>5
<1> QED BY <1>1, <1>2, <1>3, <1>4, <1>5

-----------------------------------------------------------------------------
(* Fights: what starting, ending and resetting one keeps. *)

Fights == Queue /\ Ending /\ OneTaskPerNpcFight /\ Freeing

LEMMA StartCombatKeeps ==
  ASSUME Types, Fights, NEW a \in Mob, NEW d \in Mob, a # d, StartCombat(a, d),
         phase # "tasks", phase' = phase, todo' = todo, dying' = dying,
         npc \in {a, d} => \A f \in Task : Fighters(f) # {a, d}
  PROVE  Fights'
<1>0. fights \in [Task -> Running \cup {NoFight}] /\ fighting \in [Mob -> BOOLEAN] /\ FightTicks \in Nat
  BY Constants DEF Types
<1>1. PICK f \in Task :
        /\ fights[f] = NoFight /\ \A g \in Task \ {f} : fights'[g] = fights[g]
        /\ fights'[f] = [by |-> a, attacker |-> a, defender |-> d, due |-> FightTicks]
  BY StartCombatGives
<1>2. [by |-> a, attacker |-> a, defender |-> d, due |-> FightTicks] \in Running
  BY Constants DEF Running
<1>3. fights'[f] # NoFight /\ fights'[f].attacker = a /\ fights'[f].defender = d /\ fights'[f].due = FightTicks
  BY <1>1, <1>2, Constants
<1>4. Fighters(f)' = {a, d} /\ Fighters(f) = {} /\ \A g \in Task \ {f} : Fighters(g)' = Fighters(g)
  BY <1>1, <1>3 DEF Fighters
<1>5. /\ fighting'[a] /\ fighting'[d] /\ \A m \in Mob \ {a, d} : fighting'[m] = fighting[m]
      /\ rest' = rest /\ winners' = winners \ {a, d}
  BY StartCombatGives
<1>6. Queue'
  BY <1>1, <1>3 DEF Fights, Queue
<1>7. Ending'
  <2>1. Left(f)' = FightTicks /\ \A g \in Task \ {f} : Left(g)' = Left(g)
    BY <1>1, <1>3 DEF Left
  <2>2. ASSUME NEW g \in Task, fights'[g] # NoFight
        PROVE  Left(g)' <= FightTicks /\ \A m \in Fighters(g)' : fighting'[m] \/ Left(g)' < rest'[m]
    <3>1. CASE g = f
      BY <1>0, <1>4, <1>5, <2>1, <3>1
    <3>2. CASE g # f
      <4>1. fights[g] # NoFight
        BY <1>1, <2>2, <3>2
      <4>2. Left(g) <= FightTicks /\ \A m \in Fighters(g) : fighting[m] \/ Left(g) < rest[m]
        BY <4>1 DEF Fights, Ending
      <4>3. Left(g)' = Left(g) /\ Fighters(g)' = Fighters(g) /\ Fighters(g) \subseteq Mob
        BY <1>4, <2>1, <3>2, FightersAre
      <4>4. \A m \in Mob : fighting[m] => fighting'[m]
        BY <1>5
      <4> QED BY <1>5, <4>2, <4>3, <4>4
    <3> QED BY <3>1, <3>2
  <2> QED BY <2>2 DEF Ending
<1>8. OneTaskPerNpcFight'
  <2>1. ASSUME NEW g \in Task, NEW h \in Task, npc \in Fighters(g)', Fighters(g)' = Fighters(h)' PROVE g = h
    <3>1. CASE g # f /\ h # f
      BY <1>4, <2>1, <3>1 DEF Fights, OneTaskPerNpcFight
    <3>2. CASE (g = f) # (h = f)
      BY <1>4, <2>1, <3>2
    <3> QED BY <3>1, <3>2
  <2> QED BY <2>1 DEF OneTaskPerNpcFight
<1>9. Freeing'
  <2>1. ASSUME NEW m \in Mob, fighting'[m]
        PROVE  InFight(m)' \/ m \in winners' \/ \E x \in Player \X Steps : dying'[x] > 0 /\ m \in {npc, x[1]}
    <3>1. CASE m \in {a, d}
      BY <1>4, <3>1 DEF InFight
    <3>2. CASE m \notin {a, d}
      <4>1. fighting[m]
        BY <1>5, <2>1, <3>2
      <4>2. InFight(m) => InFight(m)'
        BY <1>4 DEF InFight
      <4> QED BY <1>5, <3>2, <4>1, <4>2 DEF Fights, Freeing
    <3> QED BY <3>1, <3>2
  <2> QED BY <2>1 DEF Freeing
<1> QED BY <1>6, <1>7, <1>8, <1>9 DEF Fights

LEMMA ReleaseKeeps ==
  ASSUME Types, Fights, NEW S, Release(S), winners \ S \subseteq winners',
         fights' = fights, todo' = todo, phase' = phase,
         \A m \in Mob \ S, x \in Player \X Steps :
            fighting[m] /\ dying[x] > 0 /\ m \in {npc, x[1]} => \E y \in Player \X Steps : dying'[y] > 0 /\ m \in {npc, y[1]}
  PROVE  Fights'
<1>1. /\ \A m \in Mob : /\ fighting'[m] <=> fighting[m] /\ m \notin S
                        /\ rest'[m] = IF m \in S THEN RestTicks ELSE rest[m]
  BY ReleaseGives
<1>2. \A f \in Task : Fighters(f)' = Fighters(f) /\ Left(f)' = Left(f) /\ fights'[f] = fights[f]
  BY DEF Fighters, Left
<1>3. Queue'
  BY DEF Fights, Queue
<1>4. Ending'
  <2>1. ASSUME NEW f \in Task, fights[f] # NoFight, NEW m \in Fighters(f)
        PROVE  Left(f) <= FightTicks /\ (fighting'[m] \/ Left(f) < rest'[m])
    <3>1. Left(f) <= FightTicks /\ (fighting[m] \/ Left(f) < rest[m]) /\ m \in Mob
      BY <2>1, FightersAre DEF Fights, Ending
    <3>2. CASE m \in S
      <4>1. rest'[m] = RestTicks /\ Left(f) \in Nat
        BY <1>1, <2>1, <3>1, <3>2, FightersAre
      <4> QED BY <3>1, <4>1, Constants
    <3> QED BY <1>1, <3>1, <3>2
  <2>2. \A f \in Task : fights[f] # NoFight => Left(f) <= FightTicks
    BY DEF Fights, Ending
  <2> QED BY <1>2, <2>1, <2>2 DEF Ending
<1>5. OneTaskPerNpcFight'
  BY <1>2 DEF Fights, OneTaskPerNpcFight
<1>6. Freeing'
  <2>1. ASSUME NEW m \in Mob, fighting'[m]
        PROVE  InFight(m)' \/ m \in winners' \/ \E x \in Player \X Steps : dying'[x] > 0 /\ m \in {npc, x[1]}
    <3>1. fighting[m] /\ m \notin S
      BY <1>1, <2>1
    <3>2. InFight(m) => InFight(m)'
      BY <1>2 DEF InFight
    <3> QED BY <3>1, <3>2 DEF Fights, Freeing
  <2> QED BY <2>1 DEF Freeing
<1> QED BY <1>3, <1>4, <1>5, <1>6 DEF Fights

(* A step that starts and ends no fight, but may bring the tasks closer. *)
LEMMA IdleKeeps ==
  ASSUME Types, Fights, fighting' = fighting, rest' = rest, winners' = winners, Queue',
         \A f \in Task : Fighters(f)' = Fighters(f) /\ (fights'[f] # NoFight <=> fights[f] # NoFight)
                         /\ (fights[f] # NoFight => Left(f)' = Left(f)),
         \A x \in Player \X Steps :
            dying[x] > 0 => \E y \in Player \X Steps : dying'[y] > 0 /\ y[1] = x[1]
  PROVE  Fights'
<1>1. Ending'
  BY DEF Fights, Ending
<1>2. OneTaskPerNpcFight'
  BY DEF Fights, OneTaskPerNpcFight
<1>3. \A m : InFight(m) => InFight(m)'
  BY DEF InFight
<1>4. Freeing'
  BY <1>3 DEF Fights, Freeing
<1> QED BY <1>1, <1>2, <1>4 DEF Fights

(* Another goroutine begins. *)
Begins(p) == dying' = [dying EXCEPT ![<<p, "reward">>] = @ + 1]

LEMMA DyingAdds ==
  ASSUME Types, NEW p \in Player, Begins(p)
  PROVE  /\ <<p, "reward">> \in Player \X Steps /\ dying'[<<p, "reward">>] = dying[<<p, "reward">>] + 1
         /\ dying'[<<p, "reward">>] > 0
         /\ \A x \in Player \X Steps :
              /\ x # <<p, "reward">> => dying'[x] = dying[x]
              /\ dying[x] > 0 => dying'[x] > 0
<1>1. <<p, "reward">> \in Player \X Steps /\ dying \in [Player \X Steps -> Nat]
  BY DEF Steps, Types
<1>2. dying'[<<p, "reward">>] = dying[<<p, "reward">>] + 1 /\ dying[<<p, "reward">>] \in Nat
  BY <1>1 DEF Begins
<1>3. \A x \in Player \X Steps : x # <<p, "reward">> => dying'[x] = dying[x]
  BY <1>1 DEF Begins
<1>4. dying'[<<p, "reward">>] > 0
  BY <1>2
<1> QED BY <1>1, <1>2, <1>3, <1>4

(* Two deaths by the same hand are told apart by their step. *)
LEMMA DyingGoesOn ==
  ASSUME Types, NEW p \in Player
  PROVE  /\ Reward(p) => \A x \in Player \X Steps : dying[x] > 0 =>
                           \E y \in Player \X Steps : dying'[y] > 0 /\ y[1] = x[1]
         /\ Leave(p) => \A x \in Player \X Steps : dying[x] > 0 /\ x[1] # p => dying'[x] > 0
<1>1. /\ <<p, "reward">> \in Player \X Steps /\ <<p, "leave">> \in Player \X Steps
      /\ <<p, "reward">> # <<p, "leave">> /\ dying \in [Player \X Steps -> Nat]
  BY DEF Steps, Types
<1>2. ASSUME Reward(p), NEW x \in Player \X Steps, dying[x] > 0
      PROVE  \E y \in Player \X Steps : dying'[y] > 0 /\ y[1] = x[1]
  <2>1. dying' = [dying EXCEPT ![<<p, "reward">>] = @ - 1, ![<<p, "leave">>] = @ + 1]
    BY <1>2 DEF Reward
  <2>2. dying'[<<p, "leave">>] = dying[<<p, "leave">>] + 1
    BY <1>1, <2>1
  <2>3. dying'[<<p, "leave">>] > 0
    BY <1>1, <2>2
  <2>4. CASE x = <<p, "reward">> \/ x = <<p, "leave">>
    <3>1. x[1] = p
      BY <2>4
    <3>2. <<p, "leave">>[1] = p
      OBVIOUS
    <3> QED BY <1>1, <2>3, <3>1, <3>2
  <2>5. CASE x # <<p, "reward">> /\ x # <<p, "leave">>
    <3>1. dying'[x] = dying[x]
      BY <1>1, <2>1, <2>5
    <3> QED BY <1>2, <3>1
  <2> QED BY <2>4, <2>5
<1>3. ASSUME Leave(p), NEW x \in Player \X Steps, dying[x] > 0, x[1] # p PROVE dying'[x] > 0
  <2>1. dying' = [dying EXCEPT ![<<p, "leave">>] = @ - 1]
    BY <1>3 DEF Leave
  <2>2. x # <<p, "leave">>
    BY <1>3
  <2> QED BY <1>1, <1>3, <2>1, <2>2
<1> QED BY <1>2, <1>3

(* A task runs: what becomes of it, and that the others wait as before. *)
LEMMA RanGives ==
  ASSUME Types, Queue, NEW f \in Task, FightWaits(f) \/ FightEnds(f) \/ Hit(f)
  PROVE  /\ phase = "tasks" /\ phase' = phase /\ f \in todo /\ todo' = todo \ {f} /\ fights[f] # NoFight
         /\ todo \subseteq Task
         /\ \A g \in Task \ {f} : fights'[g] = fights[g] /\ Fighters(g)' = Fighters(g) /\ Left(g)' = Left(g)
         /\ Left(f) = fights[f].due
<1>1. phase' = phase /\ f \in todo /\ todo' = todo \ {f} /\ fights \in [Task -> Running \cup {NoFight}]
  BY DEF FightWaits, FightEnds, Hit, Ran, Types
<1>2. PICK r : fights' = [fights EXCEPT ![f] = r]
  <2>1. ASSUME FightWaits(f) PROVE \E r : fights' = [fights EXCEPT ![f] = r]
    BY <2>1 DEF FightWaits
  <2>2. ASSUME FightEnds(f) PROVE \E r : fights' = [fights EXCEPT ![f] = r]
    BY <2>2 DEF FightEnds
  <2>3. ASSUME Hit(f) PROVE \E r : fights' = [fights EXCEPT ![f] = r]
    BY <2>3 DEF Hit
  <2> QED BY <2>1, <2>2, <2>3
<1>3. \A g \in Task \ {f} : fights'[g] = fights[g]
  BY <1>1, <1>2
<1>4. \A g \in Task \ {f} : Fighters(g)' = Fighters(g) /\ Left(g)' = Left(g)
  BY <1>1, <1>3 DEF Fighters, Left
<1> QED BY <1>1, <1>3, <1>4 DEF Queue, Left, Types

(* A fight goes on: waiting, or with the fighters in each other's place. *)
LEMMA GoesOnKeeps ==
  ASSUME Types, Fights, NEW f \in Task, FightWaits(f) \/ Hit(f),
         fights'[f] # NoFight, fighting' = fighting, rest' = rest, winners' = winners, dying' = dying
  PROVE  Fights'
<1>0. Queue
  BY DEF Fights
<1>1. /\ phase = "tasks" /\ phase' = phase /\ f \in todo /\ todo' = todo \ {f} /\ fights[f] # NoFight
      /\ todo \subseteq Task
      /\ \A g \in Task \ {f} : fights'[g] = fights[g] /\ Fighters(g)' = Fighters(g) /\ Left(g)' = Left(g)
      /\ Left(f) = fights[f].due
  BY <1>0, RanGives
<1>2. /\ fights \in [Task -> Running \cup {NoFight}] /\ fights[f] \in Running /\ fights[f].due \in 0..FightTicks
      /\ Fighters(f) = {fights[f].attacker, fights[f].defender} /\ Fighters(f) \subseteq Mob
  BY <1>1, FightersAre DEF Types
<1>3. fights[f].attacker # fights[f].defender /\ FightTicks \in Nat
  BY <1>0, <1>1, Constants DEF Queue
<1>4. CASE FightWaits(f)
  <2>1. fights' = [fights EXCEPT ![f] = [fights[f] EXCEPT !.due = @ - 1]]
    BY <1>4 DEF FightWaits
  <2>2. fights'[f] = [fights[f] EXCEPT !.due = @ - 1]
    BY <1>2, <2>1
  <2>3. /\ fights'[f].due = fights[f].due - 1 /\ fights'[f].attacker = fights[f].attacker
        /\ fights'[f].defender = fights[f].defender
    BY <1>2, <2>2 DEF Running
  <2>4. Fighters(f)' = Fighters(f)
    BY <1>2, <2>3, fights'[f] # NoFight DEF Fighters
  <2>5. Left(f)' = Left(f)
    <3>1. Left(f)' = fights'[f].due + 1
      BY <1>1 DEF Left
    <3> QED BY <1>1, <1>2, <2>3, <3>1
  <2>6. Queue'
    BY <1>0, <1>1, <1>3, <2>3 DEF Queue
  <2>7. \A g \in Task : Fighters(g)' = Fighters(g) /\ (fights'[g] # NoFight <=> fights[g] # NoFight)
                        /\ (fights[g] # NoFight => Left(g)' = Left(g))
    BY <1>1, <2>4, <2>5, fights'[f] # NoFight
  <2> QED BY <2>6, <2>7, IdleKeeps
<1>5. CASE Hit(f)
  <2>1. PICK b : fights' = [fights EXCEPT ![f] = After(f, b)]
    BY <1>5 DEF Hit
  <2>2. fights'[f] = Swapped(f)
    BY <1>2, <2>1, fights'[f] # NoFight DEF After
  <2>3. /\ fights'[f].due = FightTicks - 1 /\ fights'[f].attacker = fights[f].defender
        /\ fights'[f].defender = fights[f].attacker
    BY <1>2, <2>2 DEF Running, Swapped
  <2>4. Fighters(f)' = Fighters(f)
    <3>1. Fighters(f)' = {fights[f].defender, fights[f].attacker}
      BY <2>3, fights'[f] # NoFight DEF Fighters
    <3> QED BY <1>2, <3>1
  <2>5. Left(f)' = FightTicks
    <3>1. Left(f)' = fights'[f].due + 1
      BY <1>1 DEF Left
    <3> QED BY <1>3, <2>3, <3>1
  <2>6. Queue'
    BY <1>0, <1>1, <1>3, <2>3 DEF Queue
  <2>7. \A m \in Fighters(f) : fighting'[m]
    BY <1>2, <1>5 DEF Hit, Over
  <2>8. Ending'
    <3>1. ASSUME NEW g \in Task, fights'[g] # NoFight
          PROVE  Left(g)' <= FightTicks /\ \A m \in Fighters(g)' : fighting'[m] \/ Left(g)' < rest'[m]
      <4>1. CASE g = f
        BY <1>3, <2>4, <2>5, <2>7, <4>1
      <4>2. CASE g # f
        BY <1>1, <3>1, <4>2 DEF Fights, Ending
      <4> QED BY <4>1, <4>2
    <3> QED BY <3>1 DEF Ending
  <2>9. \A g \in Task : Fighters(g)' = Fighters(g)
    BY <1>1, <2>4
  <2>10. OneTaskPerNpcFight'
    BY <2>9 DEF Fights, OneTaskPerNpcFight
  <2>11. \A m : InFight(m) => InFight(m)'
    BY <2>9 DEF InFight
  <2>12. Freeing'
    BY <2>11 DEF Fights, Freeing
  <2> QED BY <2>6, <2>8, <2>10, <2>12 DEF Fights
<1> QED BY <1>4, <1>5

(* A fight is over: whoever was in it is free, or its winner, or waits for the
   goroutine of the NPC's death. *)
LEMMA OverKeeps ==
  ASSUME Types, Fights, NEW f \in Task, FightEnds(f) \/ Hit(f), fights'[f] = NoFight,
         NEW S, \A m \in Mob : /\ fighting'[m] <=> fighting[m] /\ m \notin S
                               /\ rest'[m] = IF m \in S THEN RestTicks ELSE rest[m],
         winners \ S \subseteq winners',
         \A x \in Player \X Steps : dying[x] > 0 => dying'[x] > 0,
         \A m \in Fighters(f) : \/ ~fighting'[m] \/ m \in winners'
                                \/ \E x \in Player \X Steps : dying'[x] > 0 /\ m \in {npc, x[1]}
  PROVE  Fights'
<1>0. Queue
  BY DEF Fights
<1>1. /\ phase = "tasks" /\ phase' = phase /\ f \in todo /\ todo' = todo \ {f} /\ fights[f] # NoFight
      /\ todo \subseteq Task
      /\ \A g \in Task \ {f} : fights'[g] = fights[g] /\ Fighters(g)' = Fighters(g) /\ Left(g)' = Left(g)
  BY <1>0, RanGives
<1>2. Queue'
  BY <1>0, <1>1 DEF Queue
<1>3. Fighters(f)' = {}
  BY DEF Fighters
<1>4. Ending'
  <2>1. ASSUME NEW g \in Task, fights'[g] # NoFight, NEW m \in Fighters(g)'
        PROVE  Left(g)' <= FightTicks /\ (fighting'[m] \/ Left(g)' < rest'[m])
    <3>1. g # f /\ fights[g] # NoFight /\ m \in Fighters(g) /\ Left(g)' = Left(g)
      BY <1>1, <2>1
    <3>2. Left(g) <= FightTicks /\ (fighting[m] \/ Left(g) < rest[m]) /\ m \in Mob /\ Left(g) \in Nat
      BY <3>1, FightersAre DEF Fights, Ending
    <3>3. CASE m \in S
      <4>1. rest'[m] = RestTicks
        BY <3>2, <3>3
      <4>2. Left(g)' \in Nat /\ Left(g)' <= FightTicks
        BY <3>1, <3>2
      <4> QED BY <4>1, <4>2, Constants
    <3>4. CASE m \notin S
      BY <3>1, <3>2, <3>4
    <3> QED BY <3>3, <3>4
  <2>2. \A g \in Task : fights'[g] # NoFight => Left(g)' <= FightTicks
    BY <1>1 DEF Fights, Ending
  <2> QED BY <2>1, <2>2 DEF Ending
<1>5. OneTaskPerNpcFight'
  <2>1. ASSUME NEW g \in Task, NEW h \in Task, npc \in Fighters(g)', Fighters(g)' = Fighters(h)' PROVE g = h
    <3>1. g # f /\ h # f
      BY <1>3, <2>1
    <3> QED BY <1>1, <2>1, <3>1 DEF Fights, OneTaskPerNpcFight
  <2> QED BY <2>1 DEF OneTaskPerNpcFight
<1>6. Freeing'
  <2>1. ASSUME NEW m \in Mob, fighting'[m]
        PROVE  InFight(m)' \/ m \in winners' \/ \E x \in Player \X Steps : dying'[x] > 0 /\ m \in {npc, x[1]}
    <3>1. fighting[m] /\ m \notin S
      BY <2>1
    <3>2. CASE m \in Fighters(f)
      BY <2>1, <3>2
    <3>3. CASE m \notin Fighters(f)
      <4>1. InFight(m) => InFight(m)'
        BY <1>1, <3>3 DEF InFight
      <4> QED BY <3>1, <4>1 DEF Fights, Freeing
    <3> QED BY <3>2, <3>3
  <2> QED BY <2>1 DEF Freeing
<1> QED BY <1>2, <1>4, <1>5, <1>6 DEF Fights

-----------------------------------------------------------------------------
(* The steps of the general invariant. *)

LEMMA HandlerKeepsHandlers ==
  ASSUME Types, Handlers, NEW p \in Player,
         \/ \E m \in Mob : See(p, m) \/ Aim(p, m)
         \/ Engage(p) \/ Strike(p) \/ Judge(p)
  PROVE  Handlers' /\ phase = "packets" /\ phase' = "packets"
<1>0. /\ pc \in [Player -> {"idle", "near", "aimed", "struck", "done"}]
      /\ prey \in [Player -> Mob \cup {Nobody}] /\ p \in Mob
  BY Constants DEF Types
<1>1. ASSUME NEW m \in Mob \ {p}, NEW q \in {"near", "aimed"}, pc' = [pc EXCEPT ![p] = q],
             prey' = [prey EXCEPT ![p] = m], phase = "packets", phase' = phase
      PROVE  Handlers'
  BY <1>0, <1>1 DEF Handlers
<1>2. ASSUME pc' = [pc EXCEPT ![p] = "done"], prey' = [prey EXCEPT ![p] = Nobody], phase = "packets", phase' = phase
      PROVE  Handlers'
  BY <1>0, <1>2 DEF Handlers
<1>3. ASSUME NEW m \in Mob, See(p, m) \/ Aim(p, m) PROVE Handlers' /\ phase = "packets" /\ phase' = "packets"
  <2>1. PICK q \in {"near", "aimed"} : pc' = [pc EXCEPT ![p] = q]
    BY <1>3 DEF See, Aim, Goto
  <2>2. m \in Mob \ {p} /\ prey' = [prey EXCEPT ![p] = m] /\ phase = "packets" /\ phase' = phase
    BY <1>3 DEF See, Aim, Acts, engine
  <2> QED BY <1>1, <2>1, <2>2
<1>4. CASE Engage(p) \/ Judge(p)
  <2>1. phase = "packets" /\ phase' = phase
    BY <1>4 DEF Engage, Judge, engine, Handlers
  <2>2. pc' = [pc EXCEPT ![p] = "done"] /\ prey' = [prey EXCEPT ![p] = Nobody]
    BY <1>4 DEF Engage, Judge, Done, Goto
  <2> QED BY <1>2, <2>1, <2>2
<1>5. CASE Strike(p)
  <2>1. phase = "packets" /\ phase' = phase
    BY <1>5 DEF Strike, engine, Handlers
  <2>2. pc' = [pc EXCEPT ![p] = "struck"] /\ prey' = prey /\ pc[p] = "aimed"
    BY <1>5 DEF Strike, Goto
  <2> QED BY <1>0, <2>1, <2>2 DEF Handlers
<1> QED BY <1>3, <1>4, <1>5

LEMMA HandlerKeepsFights ==
  ASSUME Types, Fights, Handlers, Closing, NEW p \in Player,
         \/ \E m \in Mob : See(p, m) \/ Aim(p, m)
         \/ Engage(p) \/ Strike(p) \/ Judge(p) \/ Retreat(p) \/ Move(p) \/ Disconnect(p) \/ Notices(p)
         \/ Reward(p) \/ Leave(p)
  PROVE  Fights'
<1>0. p \in Mob /\ npc \in Mob /\ p # npc
  BY Constants
<1>i. ASSUME UNCHANGED <<fighting, rest, winners, fights, todo, phase>>,
             \A x \in Player \X Steps : dying[x] > 0 => \E y \in Player \X Steps : dying'[y] > 0 /\ y[1] = x[1]
      PROVE  Fights'
  <2>1. \A f : Fighters(f)' = Fighters(f) /\ Left(f)' = Left(f) /\ fights'[f] = fights[f]
    BY <1>i DEF Fighters, Left
  <2>2. Queue'
    BY <1>i DEF Fights, Queue
  <2> QED BY <1>i, <2>1, <2>2, IdleKeeps
<1>1. ASSUME \/ \E m \in Mob : See(p, m) \/ Aim(p, m)
             \/ Strike(p) \/ Move(p)
      PROVE  Fights'
  <2>1. UNCHANGED <<fighting, rest, winners, fights, todo, phase, dying>>
    BY <1>1 DEF See, Aim, Strike, Move, mobs, life, engine
  <2> QED BY <1>i, <2>1
<1>2. CASE Engage(p)
  <2> DEFINE m == prey[p]
  <2>1. m \in Mob /\ m # p /\ StartCombat(p, m) /\ phase = "packets" /\ pc[p] = "near"
    BY <1>2 DEF Engage, Handlers
  <2>2. phase' = phase /\ todo' = todo /\ dying' = dying
    BY <1>2 DEF Engage
  <2>3. ASSUME npc \in {p, m}, NEW f \in Task PROVE Fighters(f) # {p, m}
    <3>1. npc \in Fighters(f) => Fighters(f) = {fights[f].attacker, npc} /\ fights[f].attacker # p
      BY <1>0, <2>1, <2>3 DEF Closing, Fighters
    <3> QED BY <1>0, <2>3, <3>1
  <2> HIDE DEF m
  <2> QED BY <1>0, <2>1, <2>2, <2>3, StartCombatKeeps
<1>3. CASE Judge(p)
  <2>1. prey[p] \in Mob /\ (prey[p] # npc => prey[p] \in Player)
    BY <1>3 DEF Judge, Handlers, Mob
  <2>2. fights' = fights /\ todo' = todo /\ phase' = phase
    BY <1>3 DEF Judge, engine
  <2>3. CASE prey[p] # npc /\ hits[prey[p]] <= 0
    <3>1. KilledPlayer(prey[p], {}, Rounds(Freed(prey[p]))) /\ dying' = dying
      BY <1>3, <2>3 DEF Judge
    <3>2. PICK S : Release(S) /\ winners \ S \subseteq winners'
      BY <3>1 DEF KilledPlayer
    <3> QED BY <2>2, <3>1, <3>2, ReleaseKeeps
  <2>4. CASE ~(prey[p] # npc /\ hits[prey[p]] <= 0)
    <3>1. UNCHANGED mobs
      BY <1>3, <2>4 DEF Judge
    <3>2. dying' = dying \/ Begins(p)
      BY <1>3 DEF Judge, Begins
    <3>3. \A x \in Player \X Steps : dying[x] > 0 => dying'[x] > 0
      <4>1. CASE dying' = dying
        BY <4>1
      <4>2. CASE Begins(p)
        BY <4>2, DyingAdds
      <4> QED BY <3>2, <4>1, <4>2
    <3> QED BY <1>i, <2>2, <3>1, <3>3 DEF mobs
  <2> QED BY <2>3, <2>4
<1>4. CASE Retreat(p) \/ Disconnect(p)
  <2>1. PICK S : Release(S) /\ winners' = winners \ S
    BY <1>4 DEF Retreat, Disconnect
  <2>2. fights' = fights /\ todo' = todo /\ phase' = phase /\ dying' = dying
    BY <1>4 DEF Retreat, Disconnect, engine, life
  <2> QED BY <2>1, <2>2, ReleaseKeeps
<1>5. CASE Notices(p)
  <2>1. phase = "npcs" /\ phase' = phase /\ todo' = todo /\ dying' = dying
    BY <1>5 DEF Notices
  <2>2. CASE UNCHANGED <<mobs, at, fights, hunters>>
    BY <1>i, <2>1, <2>2 DEF mobs
  <2>3. CASE MayAttack(p) /\ StartCombat(npc, p)
    <3>1. ASSUME NEW f \in Task PROVE p \notin Fighters(f)
      <4>1. SUFFICES ASSUME p \in Fighters(f) PROVE FALSE
        OBVIOUS
      <4>2. fights[f] # NoFight /\ ~fighting[p] /\ rest[p] = 0
        BY <2>3, <4>1 DEF Fighters, MayAttack
      <4>3. Left(f) < rest[p] /\ Left(f) \in Nat
        BY <4>1, <4>2, FightersAre DEF Fights, Ending
      <4> QED BY <4>2, <4>3
    <3> QED BY <1>0, <2>1, <2>3, <3>1, StartCombatKeeps
  <2> QED BY <1>5, <2>2, <2>3 DEF Notices
<1>6. CASE Reward(p)
  <2>1. UNCHANGED <<fighting, rest, winners, fights, todo, phase>>
    BY <1>6 DEF Reward, mobs, engine
  <2> QED BY <1>6, <1>i, <2>1, DyingGoesOn
<1>7. CASE Leave(p)
  <2> DEFINE S == Freed(p) \cup Freed(npc)
  <2>1. Release(S) /\ winners' = winners \ S /\ fights' = fights /\ todo' = todo /\ phase' = phase
    BY <1>7 DEF Leave, engine
  <2>2. \A x \in Player \X Steps : dying[x] > 0 /\ x[1] # p => dying'[x] > 0
    BY <1>7, DyingGoesOn
  <2>3. \A m \in {p, npc} : m \in S \/ ~fighting[m]
    BY <1>0, FreedGives
  <2> HIDE DEF S
  <2>4. ASSUME NEW m \in Mob \ S, NEW x \in Player \X Steps, fighting[m], dying[x] > 0, m \in {npc, x[1]}
        PROVE  \E y \in Player \X Steps : dying'[y] > 0 /\ m \in {npc, y[1]}
    <3>1. x[1] # p /\ dying'[x] > 0
      BY <2>2, <2>3, <2>4
    <3> QED BY <2>4, <3>1
  <2> QED BY <2>1, <2>4, ReleaseKeeps
<1> QED BY <1>1, <1>2, <1>3, <1>4, <1>5, <1>6, <1>7

LEMMA TickKeepsFights ==
  ASSUME Types, Fights,
         \/ StartNpcs \/ StartTasks \/ Respawn \/ EndTasks
         \/ \E f \in Task : FightWaits(f) \/ FightEnds(f) \/ Hit(f)
  PROVE  Fights'
<1>0. Queue /\ fights \in [Task -> Running \cup {NoFight}]
  BY DEF Fights, Types
<1>1. CASE StartNpcs
  <2>1. UNCHANGED <<fighting, rest, winners, fights, todo, dying>> /\ phase = "packets" /\ phase' = "npcs"
    BY <1>1 DEF StartNpcs, mobs, life
  <2>2. \A f : Fighters(f)' = Fighters(f) /\ Left(f)' = Left(f) /\ fights'[f] = fights[f]
    BY <2>1 DEF Fighters, Left
  <2>3. Queue'
    BY <1>0, <2>1 DEF Queue
  <2> QED BY <2>1, <2>2, <2>3, IdleKeeps
<1>2. CASE StartTasks
  <2>1. /\ UNCHANGED <<fighting, rest, winners, fights, dying>> /\ phase = "npcs" /\ phase' = "tasks"
        /\ todo' = {f \in Task : fights[f] # NoFight}
    BY <1>2 DEF StartTasks, mobs, life
  <2>2. \A f \in Task : /\ Fighters(f)' = Fighters(f) /\ fights'[f] = fights[f]
                        /\ fights[f] # NoFight => Left(f)' = Left(f)
    BY <2>1 DEF Fighters, Left
  <2>3. Queue'
    BY <1>0, <2>1 DEF Queue
  <2> QED BY <2>1, <2>2, <2>3, IdleKeeps
<1>3. CASE Respawn
  <2>1. UNCHANGED <<fighting, rest, winners, fights, todo, dying, phase>>
    BY <1>3 DEF Respawn, mobs, engine
  <2>2. \A f : Fighters(f)' = Fighters(f) /\ Left(f)' = Left(f) /\ fights'[f] = fights[f]
    BY <2>1 DEF Fighters, Left
  <2>3. Queue'
    BY <1>0, <2>1 DEF Queue
  <2> QED BY <2>1, <2>2, <2>3, IdleKeeps
<1>4. CASE EndTasks
  <2>1. /\ UNCHANGED <<fighting, winners, fights, todo, dying>> /\ phase = "tasks" /\ phase' = "packets" /\ todo = {}
        /\ rest' = [m \in Mob |-> Less(rest[m])]
    BY <1>4 DEF EndTasks
  <2>2. \A f : Fighters(f)' = Fighters(f) /\ fights'[f] = fights[f]
    BY <2>1 DEF Fighters
  <2>3. \A f : Left(f) = fights[f].due + 1 /\ Left(f)' = fights[f].due
    BY <2>1 DEF Left
  <2>4. Ending'
    <3>1. ASSUME NEW f \in Task, fights[f] # NoFight
          PROVE  /\ Left(f)' <= FightTicks
                 /\ \A m \in Fighters(f) : fighting[m] \/ Left(f)' < rest'[m]
      <4>1. fights[f].due \in Nat /\ FightTicks \in Nat
        BY <3>1, FightersAre, Constants
      <4>2. Left(f) <= FightTicks /\ \A m \in Fighters(f) : fighting[m] \/ Left(f) < rest[m]
        BY <3>1 DEF Fights, Ending
      <4>3. ASSUME NEW m \in Fighters(f), Left(f) < rest[m] PROVE Left(f)' < rest'[m]
        <5>1. m \in Mob /\ rest[m] \in Nat
          BY FightersAre DEF Types
        <5>2. rest'[m] = Less(rest[m])
          BY <2>1, <5>1
        <5> QED BY <2>3, <4>1, <4>3, <5>1, <5>2 DEF Less
      <4> QED BY <2>3, <4>1, <4>2, <4>3
    <3> QED BY <2>1, <2>2, <3>1 DEF Ending
  <2>5. Queue'
    BY <1>0, <2>1 DEF Queue
  <2>6. OneTaskPerNpcFight'
    BY <2>2 DEF Fights, OneTaskPerNpcFight
  <2>7. \A m : InFight(m)' <=> InFight(m)
    BY <2>2 DEF InFight
  <2>8. Freeing'
    BY <2>1, <2>7 DEF Fights, Freeing
  <2> QED BY <2>4, <2>5, <2>6, <2>8 DEF Fights
<1>5. ASSUME NEW f \in Task, FightWaits(f) PROVE Fights'
  <2>1. UNCHANGED <<fighting, rest, winners, dying>>
    BY <1>5 DEF FightWaits, mobs, life
  <2>2. fights[f] \in Running /\ fights' = [fights EXCEPT ![f] = [fights[f] EXCEPT !.due = @ - 1]]
    BY <1>0, <1>5, RanGives, FightersAre DEF FightWaits
  <2>3. fights[f].due - 1 \in 0..FightTicks
    <3>1. fights[f].due \in 0..FightTicks /\ fights[f].due > 0 /\ FightTicks \in Nat
      BY <1>5, <2>2, Constants DEF FightWaits, Running
    <3> QED BY <3>1
  <2>4. [fights[f] EXCEPT !.due = @ - 1] \in Running
    BY <2>2, <2>3 DEF Running
  <2>5. fights'[f] # NoFight
    BY <1>0, <2>2, <2>4, Constants
  <2> QED BY <1>5, <2>1, <2>5, GoesOnKeeps
<1>6. ASSUME NEW f \in Task, FightEnds(f) PROVE Fights'
  <2> DEFINE S == Both(f)
  <2>1. /\ Release(S) /\ winners' = winners \ S /\ fights' = [fights EXCEPT ![f] = NoFight]
        /\ dying' = dying
    BY <1>6 DEF FightEnds, life
  <2>2. fights'[f] = NoFight /\ fights[f] # NoFight
    BY <1>0, <1>6, <2>1, RanGives
  <2>3. \A m \in Fighters(f) : m \in Mob /\ (m \in S \/ ~fighting[m])
    <3>1. fights[f].attacker \in Mob /\ fights[f].defender \in Mob
          /\ Fighters(f) = {fights[f].attacker, fights[f].defender}
      BY <2>2, FightersAre
    <3> QED BY <3>1, FreedGives DEF Both
  <2> HIDE DEF S
  <2>4. \A m \in Mob : /\ fighting'[m] <=> fighting[m] /\ m \notin S
                       /\ rest'[m] = IF m \in S THEN RestTicks ELSE rest[m]
    BY <2>1, ReleaseGives
  <2>5. \A m \in Fighters(f) : ~fighting'[m]
    BY <2>3, <2>4
  <2> QED BY <1>6, <2>1, <2>2, <2>4, <2>5, OverKeeps
<1>7. ASSUME NEW f \in Task, Hit(f) PROVE Fights'
  <2> DEFINE a == fights[f].attacker
             v == fights[f].defender
  <2>0. fights[f] # NoFight /\ a \in Mob /\ v \in Mob /\ a # v /\ Fighters(f) = {a, v} /\ fights[f] \in Running
        /\ (v = npc => a \in Player)
    BY <1>0, <1>7, RanGives, FightersAre DEF Queue, Mob
  <2>1. PICK d \in Damage(hits[v]) :
          /\ IF hits[v] <= d /\ v \in Player
             THEN KilledPlayer(v, {a}, Counted(Rounds(Freed(v)), a))
             ELSE hits' = [hits EXCEPT ![v] = @ - d] /\ UNCHANGED <<fighting, target, rest, winners, at>>
          /\ dying' = IF v = npc /\ hits[v] <= d THEN [dying EXCEPT ![<<a, "reward">>] = @ + 1] ELSE dying
          /\ fights' = [fights EXCEPT ![f] = After(f, hits[v] <= d)]
    BY <1>7 DEF Hit
  <2>2. fighting[a] /\ fighting[v]
    BY <1>7 DEF Hit, Over
  <2>3. fights'[f] = After(f, hits[v] <= d)
    BY <1>0, <2>1
  <2>4. CASE ~(hits[v] <= d)
    <3>1. UNCHANGED <<fighting, rest, winners, dying>>
      BY <2>1, <2>4
    <3>2. FightTicks - 1 \in 0..FightTicks
      BY Constants
    <3>3. Swapped(f) \in Running
      BY <2>0, <3>2 DEF Swapped, Running
    <3>4. fights'[f] # NoFight
      BY <2>3, <2>4, <3>3, Constants DEF After
    <3> QED BY <1>7, <3>1, <3>4, GoesOnKeeps
  <2>5. CASE hits[v] <= d /\ v \in Player
    <3>1. fights'[f] = NoFight
      BY <2>3, <2>5 DEF After
    <3>2. KilledPlayer(v, {a}, Counted(Rounds(Freed(v)), a)) /\ v # npc
      BY <2>1, <2>5, Constants
    <3>3. dying' = dying
      BY <2>1, <3>2
    <3>4. Freed(v) = {v}
      BY <2>2 DEF Freed
    <3>5. Release({v}) /\ winners' = (winners \cup {a}) \ {v}
      BY <3>2, <3>4 DEF KilledPlayer
    <3> HIDE DEF a, v
    <3>6. \A m \in Mob : /\ fighting'[m] <=> fighting[m] /\ m \notin {v}
                         /\ rest'[m] = IF m \in {v} THEN RestTicks ELSE rest[m]
      BY <3>5, ReleaseGives
    <3>7. winners \ {v} \subseteq winners'
      BY <3>5
    <3>8. \A m \in Fighters(f) : ~fighting'[m] \/ m \in winners'
      BY <2>0, <3>5, <3>6
    <3> QED BY <1>7, <3>1, <3>3, <3>6, <3>7, <3>8, OverKeeps
  <2>6. CASE hits[v] <= d /\ v = npc
    <3>1. fights'[f] = NoFight
      BY <2>3, <2>6 DEF After
    <3>2. Begins(a)
      BY <2>1, <2>6 DEF Begins
    <3>3. UNCHANGED <<fighting, rest, winners>>
      BY <2>1, <2>6, Constants
    <3> HIDE DEF a, v
    <3>4. /\ <<a, "reward">> \in Player \X Steps /\ dying'[<<a, "reward">>] > 0
          /\ \A x \in Player \X Steps : dying[x] > 0 => dying'[x] > 0
      BY <2>0, <2>6, <3>2, DyingAdds
    <3>5. \A m \in Fighters(f) : \E x \in Player \X Steps : dying'[x] > 0 /\ m \in {npc, x[1]}
      <4>1. \A m \in Fighters(f) : m \in {npc, <<a, "reward">>[1]}
        BY <2>0, <2>6
      <4> QED BY <3>4, <4>1
    <3>6. PICK S : S = {}
      OBVIOUS
    <3>7. \A m \in Mob : /\ fighting'[m] <=> fighting[m] /\ m \notin S
                         /\ rest'[m] = IF m \in S THEN RestTicks ELSE rest[m]
      BY <3>3, <3>6
    <3>8. winners \ S \subseteq winners'
      BY <3>3
    <3> QED BY <1>7, <3>1, <3>4, <3>5, <3>7, <3>8, OverKeeps
  <2> QED BY <2>0, <2>4, <2>5, <2>6 DEF Mob
<1> QED BY <1>1, <1>2, <1>3, <1>4, <1>5, <1>6, <1>7

LEMMA KeepsClosing ==
  ASSUME Types, Fights, Handlers, Closing, Next
  PROVE  Handlers' /\ Closing'
<1>0. /\ pc \in [Player -> {"idle", "near", "aimed", "struck", "done"}]
      /\ prey \in [Player -> Mob \cup {Nobody}] /\ npc \in Mob /\ npc \notin Player
  BY Constants DEF Types
<1>i. ASSUME UNCHANGED <<pc, prey, fights, phase>> PROVE Handlers' /\ Closing'
  BY <1>i DEF Handlers, Closing, Fighters
<1>t. ASSUME phase' # "packets", UNCHANGED <<pc, prey>>, \A p \in Player : pc[p] \in {"idle", "done"}
      PROVE  Handlers' /\ Closing'
  BY <1>t DEF Handlers, Closing
<1>1. ASSUME NEW p \in Player, NEW m \in Mob, See(p, m) PROVE Handlers' /\ Closing'
  <2>1. Handlers'
    BY <1>1, HandlerKeepsHandlers
  <2>2. /\ pc' = [pc EXCEPT ![p] = "near"] /\ prey' = [prey EXCEPT ![p] = m] /\ fights' = fights
        /\ ~fighting[m] /\ Rested(m)
    BY <1>1 DEF See, Goto, engine
  <2>3. \A f : Fighters(f)' = Fighters(f)
    BY <2>2 DEF Fighters
  <2>4. ASSUME m = npc, NEW f \in Task PROVE npc \notin Fighters(f)
    <3>1. SUFFICES ASSUME npc \in Fighters(f) PROVE FALSE
      OBVIOUS
    <3>2. fights[f] # NoFight /\ rest[npc] = 0 /\ ~fighting[npc]
      BY <2>2, <2>4, <3>1 DEF Fighters, Rested
    <3>3. Left(f) < rest[npc] /\ Left(f) \in Nat
      BY <3>1, <3>2, FightersAre DEF Fights, Ending
    <3> QED BY <3>2, <3>3
  <2>5. ASSUME NEW q \in Player, pc'[q] = "near", prey'[q] = npc, NEW f \in Task, npc \in Fighters(f)'
        PROVE  fights'[f].defender = npc /\ fights'[f].attacker # q
    <3>1. q # p
      BY <1>0, <2>2, <2>3, <2>4, <2>5
    <3>2. pc[q] = "near" /\ prey[q] = npc
      BY <1>0, <2>2, <2>5, <3>1
    <3> QED BY <2>2, <2>3, <2>5, <3>2 DEF Closing
  <2> QED BY <2>1, <2>5 DEF Closing
<1>2. ASSUME NEW p \in Player, (\E m \in Mob : Aim(p, m)) \/ Strike(p) \/ Judge(p) PROVE Handlers' /\ Closing'
  <2>1. Handlers'
    BY <1>2, HandlerKeepsHandlers
  <2>2. fights' = fights
    BY <1>2 DEF Aim, Strike, Judge, engine
  <2>3. \E m \in Mob \cup {Nobody}, l \in {"aimed", "struck", "done"} :
          pc' = [pc EXCEPT ![p] = l] /\ (prey' = prey \/ prey' = [prey EXCEPT ![p] = m])
    BY <1>2 DEF Aim, Strike, Judge, Done, Goto
  <2>4. \A q \in Player : pc'[q] = "near" => pc[q] = "near" /\ prey'[q] = prey[q]
    BY <1>0, <2>3
  <2>5. \A f : Fighters(f)' = Fighters(f)
    BY <2>2 DEF Fighters
  <2> QED BY <2>1, <2>2, <2>4, <2>5 DEF Closing
<1>3. ASSUME NEW p \in Player, Engage(p) PROVE Handlers' /\ Closing'
  <2>1. Handlers'
    BY <1>3, HandlerKeepsHandlers
  <2> DEFINE m == prey[p]
  <2>2. pc' = [pc EXCEPT ![p] = "done"] /\ prey' = [prey EXCEPT ![p] = Nobody] /\ StartCombat(p, m) /\ m \in Mob
    BY <1>3 DEF Engage, Done, Goto, Handlers
  <2> HIDE DEF m
  <2>3. p \in Mob
    BY Constants
  <2>4. PICK f \in Task :
          /\ fights[f] = NoFight /\ \A g \in Task \ {f} : fights'[g] = fights[g]
          /\ fights'[f] = [by |-> p, attacker |-> p, defender |-> m, due |-> FightTicks]
    BY <2>2, <2>3, StartCombatGives
  <2>5. fights'[f].attacker = p /\ fights'[f].defender = m
    BY <2>4
  <2>6. \A g \in Task \ {f} : Fighters(g)' = Fighters(g)
    BY <2>4 DEF Fighters
  <2>7. Fighters(f)' \subseteq {p, m}
    BY <2>5 DEF Fighters
  <2>8. ASSUME NEW q \in Player, pc'[q] = "near", prey'[q] = npc, NEW g \in Task, npc \in Fighters(g)'
        PROVE  fights'[g].defender = npc /\ fights'[g].attacker # q
    <3>1. q # p /\ pc[q] = "near" /\ prey[q] = npc
      BY <1>0, <2>2, <2>8
    <3>2. CASE g = f
      BY <1>0, <2>5, <2>7, <2>8, <3>1, <3>2
    <3>3. CASE g # f
      BY <2>4, <2>6, <2>8, <3>1, <3>3 DEF Closing
    <3> QED BY <3>2, <3>3
  <2> QED BY <2>1, <2>8 DEF Closing
<1>4. ASSUME NEW p \in Player,
             \/ Retreat(p) \/ Move(p) \/ Disconnect(p) \/ Reward(p) \/ Leave(p)
      PROVE  Handlers' /\ Closing'
  <2>1. UNCHANGED <<pc, prey, fights, phase>>
    BY <1>4 DEF Retreat, Move, Disconnect, Reward, Leave, hands, engine
  <2> QED BY <1>i, <2>1
<1>5. ASSUME NEW p \in Player, Notices(p) PROVE Handlers' /\ Closing'
  <2>1. phase = "npcs" /\ UNCHANGED <<pc, prey, phase>>
    BY <1>5 DEF Notices, hands
  <2> QED BY <1>t, <2>1 DEF Handlers
<1>6. ASSUME NEW f \in Task, RunFight(f) PROVE Handlers' /\ Closing'
  <2>1. phase = "tasks" /\ phase' = "tasks"
    BY <1>6, RanGives DEF RunFight, Fights
  <2>2. UNCHANGED <<pc, prey>>
    BY <1>6 DEF RunFight, FightWaits, FightEnds, Hit, hands
  <2> QED BY <1>t, <2>1, <2>2 DEF Handlers
<1>7. CASE StartNpcs \/ StartTasks
  <2>1. UNCHANGED <<pc, prey>> /\ phase' # "packets" /\ \A p \in Player : pc[p] \in {"idle", "done"}
    BY <1>7 DEF StartNpcs, StartTasks, hands, Handlers
  <2> QED BY <1>t, <2>1
<1>8. CASE Respawn
  <2>1. UNCHANGED <<pc, prey, fights, phase>>
    BY <1>8 DEF Respawn, hands, engine
  <2> QED BY <1>i, <2>1
<1>9. CASE EndTasks
  <2>1. phase = "tasks" /\ phase' = "packets" /\ pc' = [p \in Player |-> "idle"] /\ prey' = prey
    BY <1>9 DEF EndTasks
  <2> QED BY <2>1 DEF Handlers, Closing
<1> QED BY <1>1, <1>2, <1>3, <1>4, <1>5, <1>6, <1>7, <1>8, <1>9 DEF Next, Handler, Continue, Dies, Tick

LEMMA FightStart == Init => FInv
<1> SUFFICES ASSUME Init PROVE FInv
  OBVIOUS
<1>1. Types
  BY Constants DEF Init, Types, Place
<1>2. \A f \in Task : Fighters(f) = {}
  BY DEF Init, Fighters
<1>3. Queue /\ Handlers /\ Ending /\ Closing /\ OneTaskPerNpcFight /\ Freeing
  BY <1>2 DEF Init, Queue, Handlers, Ending, Closing, OneTaskPerNpcFight, Freeing
<1> QED BY <1>1, <1>3 DEF FInv, Engine

LEMMA FightStep == FInv /\ [Next]_vars => FInv'
<1> SUFFICES ASSUME FInv, [Next]_vars PROVE FInv'
  OBVIOUS
<1>1. Types /\ Engine /\ Fights /\ Handlers /\ Closing
  BY DEF FInv, Engine, Fights
<1>2. CASE UNCHANGED vars
  <2>1. UNCHANGED <<fighting, rest, winners, hits, at, respawns, dying, drops, hunters, fights, phase, todo,
                    pc, prey, seen>>
    BY <1>2 DEF vars, mobs, body, life, engine, hands
  <2>2. \A f : Fighters(f)' = Fighters(f) /\ Left(f)' = Left(f)
    BY <2>1 DEF Fighters, Left
  <2>3. Types'
    BY <1>1, <2>1 DEF Types
  <2>4. Engine'
    BY <1>1, <2>1 DEF Engine, Queue, Handlers
  <2>5. Ending' /\ Closing' /\ OneTaskPerNpcFight'
    BY <2>1, <2>2 DEF FInv, Ending, Closing, OneTaskPerNpcFight
  <2>6. Freeing'
    BY <2>1, <2>2 DEF FInv, Freeing, InFight
  <2> QED BY <2>3, <2>4, <2>5, <2>6 DEF FInv
<1>3. CASE Next
  <2>1. Types'
    BY <1>1, <1>3, HandlerTypes, MoverTypes, TickTypes DEF Next, Handler, Continue, Dies, Tick, RunFight
  <2>2. Fights'
    BY <1>1, <1>3, HandlerKeepsFights, TickKeepsFights DEF Next, Handler, Continue, Dies, Tick, RunFight
  <2>3. Handlers' /\ Closing'
    BY <1>1, <1>3, KeepsClosing
  <2> QED BY <2>1, <2>2, <2>3 DEF FInv, Engine, Fights
<1> QED BY <1>2, <1>3

(* Every behaviour keeps the invariant of the fights and their tasks. *)
THEOREM FightInvariant == Spec => []FInv
BY FightStart, FightStep, PTL DEF Spec

(* Whatever else ends a fight, no mob is left in StateFighting with no task to
   reset it, but for the winner over a player and while an NPC is dying: every
   step that takes a task from the list frees both, makes the attacker a winner or
   starts Killed, and every reset outlasts what is left of the task. *)
THEOREM NobodyIsStranded == Spec => []OnlyWinnersStranded
<1>1. FInv => OnlyWinnersStranded
  <2> SUFFICES ASSUME FInv, NEW m \in Mob, fighting[m] PROVE InFight(m) \/ m \in winners \/ ~Prompt
    BY DEF OnlyWinnersStranded
  <2>1. InFight(m) \/ m \in winners \/ \E x \in Player \X Steps : dying[x] > 0
    BY DEF FInv, Freeing
  <2> QED BY <2>1 DEF Prompt, FInv, Types
<1> QED BY <1>1, FightInvariant, PTL

(* A player and the NPC are in one fight task at most: the rest after a fight,
   which attacking the NPC and its attack both wait for, outlasts its task. *)
THEOREM NpcFightsOnce == Spec => []OneTaskPerNpcFight
<1>1. FInv => OneTaskPerNpcFight
  BY DEF FInv
<1> QED BY <1>1, FightInvariant, PTL

-----------------------------------------------------------------------------
(* The lives of an NPC: what every step but its death and return keeps. *)

LEMMA WithNpc ==
  ASSUME Types, Queue, NEW f \in Task, npc \in Fighters(f)
  PROVE  /\ fights[f] # NoFight /\ Left(f) \in Nat
         /\ \E x \in Player : Fighters(f) = {npc, x}
<1>1. fights[f] # NoFight /\ Left(f) \in Nat /\ Fighters(f) = {fights[f].attacker, fights[f].defender}
      /\ fights[f].attacker \in Mob /\ fights[f].defender \in Mob
  BY FightersAre DEF Fighters
<1>2. fights[f].attacker # fights[f].defender
  BY <1>1 DEF Queue
<1>3. CASE fights[f].attacker = npc
  <2>1. fights[f].defender \in Player
    BY <1>1, <1>2, <1>3 DEF Mob
  <2> QED BY <1>1, <1>3, <2>1
<1>4. CASE fights[f].attacker # npc
  <2>1. fights[f].defender = npc /\ fights[f].attacker \in Player
    BY <1>1, <1>4 DEF Mob
  <2> QED BY <1>1, <2>1
<1> QED BY <1>3, <1>4

LEMMA QuietKeeps ==
  ASSUME Types, Queue, LInv, UNCHANGED <<respawns, dying, drops>>, at'[npc] = at[npc], hunters \subseteq hunters',
         phase' = phase \/ (phase # "tasks" /\ phase' # "packets"),
         (at[npc] = "grave" \/ Dying) /\ hits[npc] <= 0 => hits'[npc] <= 0,
         fighting'[npc] => fighting[npc],
         \A f \in Task : npc \in Fighters(f)' =>
           /\ Fighters(f)' = Fighters(f)
           /\ at[npc] = "grave" => Left(f)' = Left(f) /\ fights'[f].defender = fights[f].defender,
         \A p \in Player : Casting(p)' =>
           p \in Caster /\ (prey'[p] = npc => <<p, "magic">> \in hunters' /\ ~(at[npc] = "grave" \/ Dying)),
         \A p \in Player : prey'[p] = npc => prey[p] = npc \/ at[npc] = "field",
         \A c \in Caster : pc[c] = "done" => pc'[c] = "done"
  PROVE  LInv'
<1>1. Dying' = Dying /\ (phase' # "tasks" => phase # "tasks") /\ (phase' = "packets" => phase = "packets")
  BY DEF Dying
<1>2. Doomed'
  BY <1>1 DEF LInv, Doomed
<1>3. DiesOnce'
  BY <1>1 DEF LInv, DiesOnce
<1>4. Returning'
  <2>1. \A f \in Task : npc \in Fighters(f)' => npc \in Fighters(f)
    OBVIOUS
  <2>2. ASSUME NEW k \in 0..RespawnTicks, respawns[k] > 0
        PROVE  /\ at'[npc] = "grave"
               /\ k < RespawnTicks => \A p \in Player : prey'[p] # npc
               /\ \A f \in Task : npc \in Fighters(f)' => Left(f)' < k
    <3>1. /\ at[npc] = "grave" /\ (k < RespawnTicks => \A p \in Player : prey[p] # npc)
          /\ \A f \in Task : npc \in Fighters(f) => Left(f) < k
      BY <2>2 DEF LInv, Returning
    <3> QED BY <2>1, <3>1
  <2>3. at'[npc] = "grave" /\ fighting'[npc] => \A f \in Task : npc \in Fighters(f)' => fights'[f].defender = npc
    BY <2>1 DEF LInv, Returning
  <2>4. /\ \A k, l \in 0..RespawnTicks : respawns[k] > 0 /\ respawns[l] > 0 => k = l /\ respawns[k] = 1
        /\ respawns[0] > 0 => ~Dying
    BY DEF LInv, Returning
  <2> QED BY <1>1, <2>2, <2>3, <2>4 DEF Returning
<1>5. Hunted'
  <2>1. \A f \in Task, x \in Player : Fighters(f)' = {npc, x} => <<x, "melee">> \in hunters'
    BY DEF LInv, Hunted
  <2>2. (phase' # "tasks" /\ Dying) \/ (at'[npc] = "grave" /\ \E p \in Player : prey'[p] = npc)
        => \E q \in Player : <<q, "magic">> \in hunters'
    BY <1>1 DEF LInv, Hunted
  <2> QED BY <1>1, <2>1, <2>2 DEF Hunted
<1>6. OneDeath'
  <2>1. Lone' => Lone
    BY DEF Lone
  <2>2. Killed' = Killed
    BY DEF Killed
  <2> QED BY <1>1, <2>1, <2>2 DEF LInv, OneDeath
<1> QED BY <1>2, <1>3, <1>4, <1>5, <1>6 DEF LInv

LEMMA NotKilled ==
  ASSUME Types, ~Killed
  PROVE  drops = 0 /\ drops <= 1 /\ \A q \in Player : ~(dying[<<q, "reward">>] > 0)
<1>1. drops \in Nat /\ ~(drops > 0)
  BY DEF Killed, Types
<1>2. drops = 0
  BY <1>1
<1> QED BY <1>2 DEF Killed

(* The NPC attacks or is attacked. *)
LEMMA AttackKeeps ==
  ASSUME Types, Fights, LInv, NEW p \in Player, NEW a \in Mob, NEW d \in Mob, {a, d} = {p, npc},
         StartCombat(a, d), phase # "tasks", phase' = phase, todo' = todo,
         UNCHANGED <<hits, respawns, dying, drops>>, at'[npc] = at[npc],
         \A q \in Player : Casting(q)' => Casting(q) /\ prey'[q] = prey[q],
         \A q \in Player : prey'[q] = npc => prey[q] = npc,
         \A c \in Caster : pc[c] = "done" => pc'[c] = "done",
         \A k \in 0..RespawnTicks : respawns[k] > 0 => k = RespawnTicks,
         at[npc] = "grave" => d = npc /\ \A f \in Task : npc \in Fighters(f) => fights[f].defender = npc,
         at[npc] = "grave" \/ Dying => \E q \in Player : <<q, "magic">> \in hunters
  PROVE  LInv'
<1>0. a # d /\ p # npc /\ npc \in Mob /\ FightTicks < RespawnTicks /\ p \in Mob
  BY Constants
<1>1. PICK f \in Task :
        /\ fights[f] = NoFight /\ \A g \in Task \ {f} : fights'[g] = fights[g]
        /\ fights'[f] = [by |-> a, attacker |-> a, defender |-> d, due |-> FightTicks]
  BY StartCombatGives
<1>2. [by |-> a, attacker |-> a, defender |-> d, due |-> FightTicks] \in Running
  BY Constants DEF Running
<1>3. fights'[f] # NoFight /\ fights'[f].attacker = a /\ fights'[f].defender = d /\ fights'[f].due = FightTicks
  BY <1>1, <1>2, Constants
<1>4. /\ Fighters(f)' = {p, npc} /\ Left(f)' = FightTicks
      /\ \A g \in Task \ {f} : Fighters(g)' = Fighters(g) /\ Left(g)' = Left(g)
  BY <1>1, <1>3 DEF Fighters, Left
<1>5. hunters' = HuntedBy(<<p, "melee">>)
  BY <1>0 DEF StartCombat
<1>6. hunters \subseteq hunters' /\ <<p, "melee">> \in hunters'
  BY <1>5, HuntersGrow
<1>7. Dying' = Dying
  BY DEF Dying
<1>8. Doomed'
  BY <1>7 DEF LInv, Doomed
<1>9. DiesOnce'
  BY <1>7 DEF LInv, DiesOnce
<1>10. Returning'
  <2>1. ASSUME NEW k \in 0..RespawnTicks, respawns[k] > 0, NEW g \in Task, npc \in Fighters(g)' PROVE Left(g)' < k
    <3>1. k = RespawnTicks
      BY <2>1
    <3>2. CASE g = f
      BY <1>0, <1>4, <3>1, <3>2
    <3>3. CASE g # f
      BY <1>4, <2>1, <3>3 DEF LInv, Returning
    <3> QED BY <3>2, <3>3
  <2>2. ASSUME at[npc] = "grave", NEW g \in Task, npc \in Fighters(g)' PROVE fights'[g].defender = npc
    BY <1>1, <1>3, <1>4, <2>2
  <2>3. /\ \A k, l \in 0..RespawnTicks : respawns[k] > 0 /\ respawns[l] > 0 => k = l /\ respawns[k] = 1
        /\ \A k \in 0..RespawnTicks : respawns[k] > 0 =>
             at[npc] = "grave" /\ (k < RespawnTicks => \A q \in Player : prey[q] # npc)
        /\ respawns[0] > 0 => ~Dying
    BY DEF LInv, Returning
  <2> QED BY <1>7, <2>1, <2>2, <2>3 DEF Returning
<1>11. Hunted'
  <2>1. ASSUME NEW g \in Task, NEW x \in Player, Fighters(g)' = {npc, x} PROVE <<x, "melee">> \in hunters'
    <3>1. CASE g = f
      <4>1. x = p
        BY <1>0, <1>4, <2>1, <3>1
      <4> QED BY <1>6, <4>1
    <3>2. CASE g # f
      BY <1>4, <1>6, <2>1, <3>2 DEF LInv, Hunted
    <3> QED BY <3>1, <3>2
  <2>2. \A q \in Player : Casting(q)' /\ prey'[q] = npc => <<q, "magic">> \in hunters'
    BY <1>6 DEF LInv, Hunted
  <2>3. at[npc] = "grave" \/ Dying => \E q \in Player : <<q, "magic">> \in hunters'
    BY <1>6
  <2> QED BY <1>7, <2>1, <2>2, <2>3 DEF Hunted
<1>12. OneDeath'
  <2> SUFFICES ASSUME Lone' PROVE OneDeath'
    BY DEF OneDeath
  <2>1. Lone
    BY <1>6 DEF Lone
  <2>2. ~(at[npc] = "grave" \/ Dying)
    <3>1. \A q : <<q, "magic">> # <<p, "melee">>
      OBVIOUS
    <3> QED BY <1>6, <3>1 DEF Lone
  <2>3. ~Killed
    BY <2>1, <2>2 DEF LInv, OneDeath
  <2>4. ~Killed'
    BY <2>3 DEF Killed
  <2>5. drops' <= 1 /\ \A q \in Player : ~(dying'[<<q, "reward">>] > 0)
    BY <2>3, NotKilled
  <2> QED BY <2>4, <2>5 DEF OneDeath
<1> QED BY <1>8, <1>9, <1>10, <1>11, <1>12 DEF LInv

(* The NPC is killed: a goroutine of NPC.Killed begins. *)
LEMMA BeginsKeeps ==
  ASSUME Types, LInv, NEW a \in Player, Begins(a), UNCHANGED <<respawns, drops, hunters, phase>>,
         at'[npc] = at[npc], hits'[npc] <= 0, fighting'[npc] => fighting[npc], ~(respawns[0] > 0),
         Lone => ~Killed /\ \A f \in Task : npc \notin Fighters(f)',
         \A f \in Task : npc \in Fighters(f)' =>
           Fighters(f)' = Fighters(f) /\ Left(f)' = Left(f) /\ fights'[f].defender = fights[f].defender,
         \A q \in Player : ~Casting(q)',
         \A q \in Player : prey'[q] = npc => prey[q] = npc,
         phase # "tasks" =>
           /\ ~Dying /\ <<a, "magic">> \in hunters
           /\ \A k \in 0..RespawnTicks : respawns[k] = 0
           /\ \A c \in Caster : pc'[c] = "done"
  PROVE  LInv'
<1>1. /\ <<a, "reward">> \in Player \X Steps /\ dying'[<<a, "reward">>] = dying[<<a, "reward">>] + 1
      /\ dying'[<<a, "reward">>] > 0
      /\ \A x \in Player \X Steps : x # <<a, "reward">> => dying'[x] = dying[x]
  BY DyingAdds
<1>2. Dying' /\ dying \in [Player \X Steps -> Nat]
  BY <1>1 DEF Dying, Types
<1>3. Doomed'
  BY DEF LInv, Doomed
<1>4. DiesOnce'
  <2> SUFFICES ASSUME phase # "tasks" PROVE DiesOnce'
    BY DEF DiesOnce
  <2>1. \A x \in Player \X Steps : dying[x] = 0
    BY <1>2 DEF Dying
  <2>2. \A x \in Player \X Steps : dying'[x] > 0 => x = <<a, "reward">> /\ dying'[x] = 1
    BY <1>1, <2>1
  <2> QED BY <2>2 DEF DiesOnce
<1>5. Returning'
  <2>1. ASSUME NEW k \in 0..RespawnTicks, respawns[k] > 0
        PROVE  /\ at'[npc] = "grave"
               /\ k < RespawnTicks => \A p \in Player : prey'[p] # npc
               /\ \A f \in Task : npc \in Fighters(f)' => Left(f)' < k
    <3>1. /\ at[npc] = "grave" /\ (k < RespawnTicks => \A p \in Player : prey[p] # npc)
          /\ \A f \in Task : npc \in Fighters(f) => Left(f) < k
      BY <2>1 DEF LInv, Returning
    <3> QED BY <3>1
  <2>2. at'[npc] = "grave" /\ fighting'[npc] => \A f \in Task : npc \in Fighters(f)' => fights'[f].defender = npc
    BY DEF LInv, Returning
  <2>3. \A k, l \in 0..RespawnTicks : respawns[k] > 0 /\ respawns[l] > 0 => k = l /\ respawns[k] = 1
    BY DEF LInv, Returning
  <2> QED BY <2>1, <2>2, <2>3 DEF Returning
<1>6. Hunted'
  <2>1. \A f \in Task, x \in Player : Fighters(f)' = {npc, x} => <<x, "melee">> \in hunters'
    BY DEF LInv, Hunted
  <2>2. at'[npc] = "grave" /\ (\E p \in Player : prey'[p] = npc) => \E q \in Player : <<q, "magic">> \in hunters'
    BY DEF LInv, Hunted
  <2> QED BY <2>1, <2>2 DEF Hunted
<1>7. OneDeath'
  <2> SUFFICES ASSUME Lone' PROVE OneDeath'
    BY DEF OneDeath
  <2>1. Lone
    BY DEF Lone
  <2>2. drops = 0 /\ \A q \in Player : ~(dying[<<q, "reward">>] > 0)
    BY <2>1, NotKilled
  <2>3. \A q \in Player : <<q, "reward">> \in Player \X Steps
    BY DEF Steps
  <2>4. dying'[<<a, "reward">>] = 1
    BY <1>1, <1>2, <2>2, <2>3
  <2>5. \A q \in Player : dying'[<<q, "reward">>] > 0 => q = a
    BY <1>1, <2>2, <2>3
  <2>6. drops' <= 1 /\ drops' = 0
    BY <2>2
  <2> QED BY <1>2, <2>1, <2>4, <2>5, <2>6 DEF OneDeath
<1> QED BY <1>3, <1>4, <1>5, <1>6, <1>7 DEF LInv

LEMMA RewardKeeps ==
  ASSUME Types, LInv, NEW p \in Player, Reward(p)
  PROVE  LInv'
<1>0. UNCHANGED <<mobs, body, noticed, respawns, hunters, engine, hands>>
  BY DEF Reward
<1>1. UNCHANGED <<fighting, hits, at, respawns, hunters, phase, fights, todo, pc, prey>>
  BY <1>0 DEF mobs, body, engine, hands
<1>2. /\ <<p, "reward">> \in Player \X Steps /\ <<p, "leave">> \in Player \X Steps
      /\ <<p, "reward">> # <<p, "leave">> /\ dying \in [Player \X Steps -> Nat]
  BY DEF Steps, Types
<1>3. dying' = [dying EXCEPT ![<<p, "reward">>] = @ - 1, ![<<p, "leave">>] = @ + 1] /\ dying[<<p, "reward">>] > 0
  BY DEF Reward
<1>4. /\ dying'[<<p, "reward">>] = dying[<<p, "reward">>] - 1
      /\ dying'[<<p, "leave">>] = dying[<<p, "leave">>] + 1
      /\ \A x \in Player \X Steps : x # <<p, "reward">> /\ x # <<p, "leave">> => dying'[x] = dying[x]
  BY <1>2, <1>3
<1>5. dying'[<<p, "leave">>] > 0
  BY <1>2, <1>4
<1>6. Dying /\ Dying'
  BY <1>2, <1>3, <1>5 DEF Dying
<1>7. \A f : Fighters(f)' = Fighters(f) /\ Left(f)' = Left(f)
  BY <1>1 DEF Fighters, Left
<1>8. \A q : Casting(q)' <=> Casting(q)
  BY <1>1 DEF Casting
<1>9. Doomed'
  BY <1>1, <1>6, <1>8 DEF LInv, Doomed
<1>10. DiesOnce'
  <2> SUFFICES ASSUME phase # "tasks" PROVE DiesOnce'
    BY <1>1 DEF DiesOnce
  <2>1. /\ \A x, y \in Player \X Steps : dying[x] > 0 /\ dying[y] > 0 => x = y /\ dying[x] = 1
        /\ \A k \in 0..RespawnTicks : respawns[k] = 0
    BY <1>6 DEF LInv, DiesOnce
  <2>2. dying[<<p, "reward">>] = 1 /\ \A x \in Player \X Steps : dying[x] > 0 => x = <<p, "reward">>
    BY <1>2, <1>3, <2>1
  <2>3. dying[<<p, "leave">>] = 0
    BY <1>2, <2>2
  <2>4. \A x \in Player \X Steps : dying'[x] > 0 => x = <<p, "leave">> /\ dying'[x] = 1
    BY <1>2, <1>4, <2>2, <2>3
  <2> QED BY <1>1, <2>1, <2>4 DEF DiesOnce
<1>11. Returning'
  BY <1>1, <1>6, <1>7 DEF LInv, Returning
<1>12. Hunted'
  BY <1>1, <1>6, <1>7, <1>8 DEF LInv, Hunted
<1>13. OneDeath'
  <2> SUFFICES ASSUME Lone' PROVE OneDeath'
    BY DEF OneDeath
  <2>1. Lone
    BY <1>1 DEF Lone
  <2>2. /\ drops = 0 /\ dying[<<p, "reward">>] = 1
        /\ \A q \in Player : dying[<<q, "reward">>] > 0 => p = q
    BY <1>3, <2>1 DEF LInv, OneDeath
  <2>3. \A f \in Task : npc \notin Fighters(f)
    BY <1>3, <2>1 DEF LInv, OneDeath, Killed
  <2>4. drops' <= 1
    <3>1. drops' = Min({drops + 1, 2})
      BY DEF Reward
    <3>2. drops + 1 = 1 /\ 1 \in Int /\ 2 \in Int
      BY <2>2
    <3>3. drops' = 1
      BY <3>1, <3>2, MinOfTwo
    <3> QED BY <3>3
  <2>5. ASSUME NEW q \in Player PROVE ~(dying'[<<q, "reward">>] > 0)
    <3>1. <<q, "reward">> \in Player \X Steps /\ <<q, "reward">> # <<p, "leave">>
      BY DEF Steps
    <3>2. CASE q = p
      BY <1>4, <2>2, <3>2
    <3>3. CASE q # p
      BY <1>4, <2>2, <3>1, <3>3
    <3> QED BY <3>2, <3>3
  <2> QED BY <1>6, <1>7, <2>3, <2>4, <2>5 DEF OneDeath
<1> QED BY <1>9, <1>10, <1>11, <1>12, <1>13 DEF LInv

LEMMA LeaveKeeps ==
  ASSUME Types, Fights, Handlers, LInv, NEW p \in Player, Leave(p)
  PROVE  LInv'
<1>0. UNCHANGED <<hits, fled, connected, noticed, drops, hunters, engine, hands>>
  BY DEF Leave
<1>1. UNCHANGED <<hits, drops, hunters, phase, fights, todo, pc, prey>> /\ npc \in Mob /\ p # npc
  BY <1>0, Constants DEF engine, hands
<1>2. <<p, "leave">> \in Player \X Steps /\ dying \in [Player \X Steps -> Nat]
  BY DEF Steps, Types
<1>3. dying' = [dying EXCEPT ![<<p, "leave">>] = @ - 1] /\ dying[<<p, "leave">>] > 0
  BY DEF Leave
<1>4. dying'[<<p, "leave">>] = dying[<<p, "leave">>] - 1
      /\ \A x \in Player \X Steps : x # <<p, "leave">> => dying'[x] = dying[x]
  BY <1>2, <1>3
<1>5. Dying /\ at'[npc] = "grave"
  BY <1>1, <1>2, <1>3 DEF Dying, Leave, Removed, Types
<1>6. ~fighting'[npc]
  <2> DEFINE S == Freed(p) \cup Freed(npc)
  <2>1. Release(S)
    BY DEF Leave
  <2>2. npc \in S \/ ~fighting[npc]
    BY <1>1, FreedGives
  <2> HIDE DEF S
  <2> QED BY <1>1, <2>1, <2>2, ReleaseGives
<1>7. \A f : Fighters(f)' = Fighters(f) /\ Left(f)' = Left(f)
  BY <1>1 DEF Fighters, Left
<1>8. \A q : Casting(q)' <=> Casting(q)
  BY <1>1 DEF Casting
<1>9. phase # "tasks" => ~Dying' /\ \A k \in 0..RespawnTicks : respawns[k] = 0
  <2> SUFFICES ASSUME phase # "tasks" PROVE ~Dying' /\ \A k \in 0..RespawnTicks : respawns[k] = 0
    OBVIOUS
  <2>1. /\ \A x, y \in Player \X Steps : dying[x] > 0 /\ dying[y] > 0 => x = y /\ dying[x] = 1
        /\ \A k \in 0..RespawnTicks : respawns[k] = 0
    BY <1>5 DEF LInv, DiesOnce
  <2>2. dying[<<p, "leave">>] = 1 /\ \A x \in Player \X Steps : dying[x] > 0 => x = <<p, "leave">>
    BY <1>2, <1>3, <2>1
  <2>3. \A x \in Player \X Steps : ~(dying'[x] > 0)
    BY <1>2, <1>4, <2>2
  <2> QED BY <2>1, <2>3 DEF Dying
<1>10. Doomed'
  BY <1>1, <1>5, <1>8, <1>9 DEF LInv, Doomed
<1>11. DiesOnce'
  BY <1>1, <1>9 DEF DiesOnce
<1>12. Returning'
  <2>1. 0 \in 0..RespawnTicks /\ RespawnTicks \in 0..RespawnTicks /\ RespawnTicks # 0 /\ FightTicks \in Nat
        /\ RespawnTicks \in Nat /\ FightTicks < RespawnTicks
    BY Constants
  <2>2. CASE phase = "tasks"
    <3>1. respawns' = respawns
      BY <2>2 DEF Leave
    <3>2. respawns[0] > 0 => ~Dying
      BY DEF LInv, Returning
    <3>3. /\ \A k, l \in 0..RespawnTicks : respawns[k] > 0 /\ respawns[l] > 0 => k = l /\ respawns[k] = 1
          /\ \A k \in 0..RespawnTicks : respawns[k] > 0 =>
               /\ k < RespawnTicks => \A q \in Player : prey[q] # npc
               /\ \A f \in Task : npc \in Fighters(f) => Left(f) < k
      BY DEF LInv, Returning
    <3> QED BY <1>1, <1>5, <1>6, <1>7, <3>1, <3>2, <3>3 DEF Returning
  <2>3. CASE phase # "tasks"
    <3>1. respawns' = [respawns EXCEPT ![RespawnTicks] = @ + 1] /\ respawns \in [0..RespawnTicks -> Nat]
      BY <2>3 DEF Leave, Types
    <3>2. respawns'[RespawnTicks] = 1 /\ \A k \in 0..RespawnTicks : k # RespawnTicks => respawns'[k] = 0
      BY <1>9, <2>1, <2>3, <3>1
    <3>3. \A f \in Task : npc \in Fighters(f) => Left(f) < RespawnTicks
      <4>1. ASSUME NEW f \in Task, npc \in Fighters(f) PROVE Left(f) < RespawnTicks
        <5>1. fights[f] # NoFight /\ Left(f) \in Nat
          BY <4>1, WithNpc DEF Fights
        <5>2. Left(f) <= FightTicks
          BY <5>1 DEF Fights, Ending
        <5> QED BY <2>1, <5>1, <5>2
      <4> QED BY <4>1
    <3>4. \A k \in 0..RespawnTicks : respawns'[k] > 0 => k = RespawnTicks /\ respawns'[k] = 1
      BY <3>2
    <3>5. ~(respawns'[0] > 0)
      BY <2>1, <3>4
    <3> QED BY <1>5, <1>6, <1>7, <2>1, <3>3, <3>4, <3>5 DEF Returning
  <2> QED BY <2>2, <2>3
<1>13. Hunted'
  <2>1. ASSUME \E q \in Player : prey[q] = npc PROVE \E q \in Player : <<q, "magic">> \in hunters
    <3>1. phase # "tasks"
      BY <2>1, Constants DEF Handlers
    <3> QED BY <1>5, <3>1 DEF LInv, Hunted
  <2> QED BY <1>1, <1>7, <1>8, <1>9, <2>1 DEF LInv, Hunted
<1>14. OneDeath'
  <2> SUFFICES ASSUME Lone' PROVE OneDeath'
    BY DEF OneDeath
  <2>1. Lone
    BY <1>1 DEF Lone
  <2>2. \A q \in Player : dying'[<<q, "reward">>] = dying[<<q, "reward">>]
    BY <1>4 DEF Steps
  <2>3. Killed' => Killed
    BY <1>1, <2>2 DEF Killed
  <2> QED BY <1>1, <1>5, <1>7, <2>1, <2>2, <2>3 DEF LInv, OneDeath
<1> QED BY <1>10, <1>11, <1>12, <1>13, <1>14 DEF LInv

LEMMA RespawnKeeps ==
  ASSUME Types, Fights, Handlers, LInv, Respawn
  PROVE  LInv'
<1>1. /\ phase = "tasks" /\ respawns[0] > 0 /\ respawns' = [respawns EXCEPT ![0] = @ - 1]
      /\ drops' = 0 /\ hunters' = {}
      /\ UNCHANGED <<fighting, dying, phase, fights, todo, pc, prey>>
  BY DEF Respawn, mobs, engine, hands
<1>2. 0 \in 0..RespawnTicks /\ npc \in Mob /\ Nobody # npc
  BY Constants
<1>3. at'[npc] = "field"
  BY <1>2 DEF Respawn, Types
<1>4. ~Dying /\ ~Dying'
  BY <1>1 DEF LInv, Returning, Dying
<1>5. \A k \in 0..RespawnTicks : ~(respawns'[k] > 0)
  <2>1. respawns[0] = 1 /\ \A k \in 0..RespawnTicks : respawns[k] > 0 => k = 0
    BY <1>1, <1>2 DEF LInv, Returning
  <2>2. respawns \in [0..RespawnTicks -> Nat]
    BY DEF Types
  <2> QED BY <1>1, <1>2, <2>1, <2>2
<1>6. \A f \in Task : npc \notin Fighters(f)
  <2>1. ASSUME NEW f \in Task, npc \in Fighters(f) PROVE FALSE
    <3>1. Left(f) < 0
      BY <1>1, <1>2, <2>1 DEF LInv, Returning
    <3>2. Left(f) \in Nat
      BY <2>1, WithNpc DEF Fights
    <3> QED BY <3>1, <3>2
  <2> QED BY <2>1
<1>7. \A f : Fighters(f)' = Fighters(f)
  BY <1>1 DEF Fighters
<1>8. \A q \in Player : ~Casting(q)' /\ prey'[q] # npc
  BY <1>1, <1>2 DEF Handlers, Casting
<1>9. Doomed'
  BY <1>1, <1>3, <1>4, <1>8 DEF Doomed
<1>10. DiesOnce'
  BY <1>4 DEF DiesOnce
<1>11. Returning'
  BY <1>2, <1>3, <1>5 DEF Returning
<1>12. Hunted'
  BY <1>3, <1>4, <1>6, <1>7, <1>8 DEF Hunted
<1>13. OneDeath'
  <2>1. \A q \in Player : <<q, "reward">> \in Player \X Steps
    BY DEF Steps
  <2>2. \A q \in Player : ~(dying[<<q, "reward">>] > 0)
    BY <1>4, <2>1 DEF Dying
  <2>3. \A q \in Player : ~(dying'[<<q, "reward">>] > 0)
    BY <1>1, <2>2
  <2>4. drops' <= 1 /\ ~(drops' > 0)
    BY <1>1
  <2>5. ~Killed'
    BY <2>3, <2>4 DEF Killed
  <2> QED BY <2>3, <2>4, <2>5 DEF OneDeath
<1> QED BY <1>9, <1>10, <1>11, <1>12, <1>13 DEF LInv

LEMMA EndTasksKeeps ==
  ASSUME Types, Fights, Handlers, LInv, EndTasks
  PROVE  LInv'
<1>1. /\ phase = "tasks" /\ todo = {} /\ phase' = "packets" /\ Prompt
      /\ respawns' = [k \in 0..RespawnTicks |-> IF k < RespawnTicks THEN respawns[k + 1] ELSE 0]
      /\ pc' = [p \in Player |-> "idle"]
      /\ UNCHANGED <<fighting, hits, at, dying, drops, hunters, fights, todo, prey>>
  BY DEF EndTasks
<1>2. RespawnTicks \in Nat /\ Nobody # npc
  BY Constants
<1>3. ~Dying /\ ~Dying'
  BY <1>1 DEF Prompt, Dying
<1>4. \A f : Fighters(f)' = Fighters(f) /\ fights'[f] = fights[f] /\ Left(f)' = fights[f].due /\ Left(f) = fights[f].due + 1
  BY <1>1 DEF Fighters, Left
<1>5. \A q \in Player : ~Casting(q)' /\ prey'[q] # npc
  BY <1>1, <1>2 DEF Handlers, Casting
<1>6. \A k \in 0..RespawnTicks : respawns'[k] > 0 =>
        k < RespawnTicks /\ k + 1 \in 0..RespawnTicks /\ respawns'[k] = respawns[k + 1]
  BY <1>1, <1>2
<1>7. Doomed'
  BY <1>1, <1>3, <1>5 DEF LInv, Doomed
<1>8. DiesOnce'
  BY <1>3 DEF DiesOnce
<1>9. Returning'
  <2>1. ASSUME NEW k \in 0..RespawnTicks, respawns'[k] > 0, NEW l \in 0..RespawnTicks, respawns'[l] > 0
        PROVE  k = l /\ respawns'[k] = 1
    <3> DEFINE i == k + 1
               j == l + 1
    <3>1. i \in 0..RespawnTicks /\ j \in 0..RespawnTicks /\ respawns[i] > 0 /\ respawns[j] > 0
          /\ respawns'[k] = respawns[i]
      BY <1>6, <2>1
    <3>2. i = j => k = l
      BY <1>2, <2>1
    <3> HIDE DEF i, j
    <3>3. i = j /\ respawns[i] = 1
      BY <3>1 DEF LInv, Returning
    <3> QED BY <3>1, <3>2, <3>3
  <2>2. ASSUME NEW k \in 0..RespawnTicks, respawns'[k] > 0
        PROVE  at'[npc] = "grave" /\ \A f \in Task : npc \in Fighters(f)' => Left(f)' < k
    <3>1. at[npc] = "grave" /\ \A f \in Task : npc \in Fighters(f) => Left(f) < k + 1
      BY <1>6, <2>2 DEF LInv, Returning
    <3>2. ASSUME NEW f \in Task, npc \in Fighters(f) PROVE fights[f].due < k
      <4>1. fights[f].due \in 0..FightTicks /\ FightTicks \in Nat
        BY <3>2, FightersAre, Constants DEF Fighters
      <4>2. fights[f].due + 1 < k + 1
        BY <1>4, <3>1, <3>2
      <4> QED BY <4>1, <4>2
    <3> QED BY <1>1, <1>4, <3>1, <3>2
  <2>3. at'[npc] = "grave" /\ fighting'[npc] => \A f \in Task : npc \in Fighters(f)' => fights'[f].defender = npc
    BY <1>1, <1>4 DEF LInv, Returning
  <2> QED BY <1>3, <1>5, <2>1, <2>2, <2>3 DEF Returning
<1>10. Hunted'
  BY <1>1, <1>3, <1>4, <1>5 DEF LInv, Hunted
<1>11. OneDeath'
  <2>1. Lone' = Lone /\ Killed' = Killed
    BY <1>1 DEF Lone, Killed
  <2> QED BY <1>1, <1>3, <1>4, <2>1 DEF LInv, OneDeath
<1> QED BY <1>7, <1>8, <1>9, <1>10, <1>11 DEF LInv

LEMMA HitKeeps ==
  ASSUME Types, Fights, Handlers, LInv, NEW f \in Task, Hit(f)
  PROVE  LInv'
<1> DEFINE a == fights[f].attacker
           v == fights[f].defender
<1>0. Queue
  BY DEF Fights
<1>1. /\ phase = "tasks" /\ phase' = phase /\ f \in todo /\ fights[f] # NoFight /\ Left(f) = fights[f].due
      /\ \A g \in Task \ {f} : fights'[g] = fights[g] /\ Fighters(g)' = Fighters(g) /\ Left(g)' = Left(g)
  BY <1>0, RanGives
<1>2. /\ a \in Mob /\ v \in Mob /\ a # v /\ Fighters(f) = {a, v} /\ fights[f] \in Running /\ npc \in Mob
      /\ (v # npc => v \in Player) /\ (a # npc => a \in Player) /\ Nobody # npc
  BY <1>0, <1>1, FightersAre, Constants DEF Queue, Mob
<1>3. PICK d \in Damage(hits[v]) :
        /\ IF hits[v] <= d /\ v \in Player
           THEN KilledPlayer(v, {a}, Counted(Rounds(Freed(v)), a))
           ELSE hits' = [hits EXCEPT ![v] = @ - d] /\ UNCHANGED <<fighting, target, rest, winners, at>>
        /\ dying' = IF v = npc /\ hits[v] <= d THEN [dying EXCEPT ![<<a, "reward">>] = @ + 1] ELSE dying
        /\ fights' = [fights EXCEPT ![f] = After(f, hits[v] <= d)]
  BY DEF Hit
<1>4. hits[v] \in Int /\ d \in Int /\ hits[v] - d \in Int /\ (hits[v] <= 0 => hits[v] - d <= 0 /\ hits[v] <= d)
  <2>1. hits[v] \in Int
    BY <1>2 DEF Types
  <2> HIDE DEF v
  <2>2. d \in Int /\ hits[v] - d \in Int /\ (hits[v] <= 0 => hits[v] - d <= 0)
    BY <2>1, DamageType
  <2>3. hits[v] <= 0 => hits[v] <= d
    BY <2>1 DEF Damage
  <2> QED BY <2>1, <2>2, <2>3
<1>5. fighting[a] /\ fighting[v] /\ fights[f].due = 0
  BY DEF Hit, Over
<1>6. fights'[f] = After(f, hits[v] <= d)
  BY <1>3 DEF Types
<1>7. UNCHANGED <<respawns, drops, hunters, pc, prey>>
  BY DEF Hit, hands
<1>8. \A q \in Player : ~Casting(q)' /\ prey'[q] # npc
  BY <1>1, <1>2, <1>7 DEF Handlers, Casting
<1>9. at[npc] = "grave" /\ npc \in {a, v} => v = npc /\ hits[v] <= d
  <2>1. ASSUME at[npc] = "grave", npc \in {a, v} PROVE v = npc /\ hits[v] <= d
    <3>1. v = npc
      BY <1>2, <1>5, <2>1 DEF LInv, Returning
    <3>2. hits[npc] <= 0
      BY <2>1 DEF LInv, Doomed
    <3> QED BY <1>4, <3>1, <3>2
  <2> QED BY <2>1
<1>10. hits[v] <= d => Fighters(f)' = {}
  <2>1. hits[v] <= d => fights'[f] = NoFight
    BY <1>6 DEF After
  <2> QED BY <2>1 DEF Fighters
<1>11. ~(hits[v] <= d) => Fighters(f)' = Fighters(f)
  <2> SUFFICES ASSUME ~(hits[v] <= d) PROVE Fighters(f)' = Fighters(f)
    OBVIOUS
  <2>1. FightTicks - 1 \in 0..FightTicks
    BY Constants
  <2>2. Swapped(f) \in Running /\ Swapped(f).attacker = v /\ Swapped(f).defender = a
    BY <1>2, <2>1 DEF Swapped, Running
  <2>3. fights'[f] = Swapped(f)
    BY <1>6 DEF After
  <2>4. fights'[f] # NoFight /\ fights'[f].attacker = v /\ fights'[f].defender = a
    BY <2>2, <2>3, Constants
  <2> QED BY <1>2, <2>4 DEF Fighters
<1> HIDE DEF a, v
<1>12. CASE v = npc /\ hits[v] <= d
  <2>1. Begins(a) /\ a \in Player
    BY <1>2, <1>3, <1>12 DEF Begins
  <2>2. /\ at' = at /\ fighting' = fighting /\ hits' = [hits EXCEPT ![v] = @ - d]
    BY <1>3, <1>12, Constants
  <2>3. hits'[npc] <= 0
    <3>1. hits'[npc] = hits[v] - d
      BY <1>2, <1>12, <2>2 DEF Types
    <3>2. hits[v] - d <= 0
      BY <1>4, <1>12
    <3> QED BY <3>1, <3>2
  <2>4. npc \in Fighters(f)
    BY <1>2, <1>12
  <2>5. ~(respawns[0] > 0)
    <3>1. 0 \in 0..RespawnTicks
      BY Constants
    <3>2. respawns[0] > 0 => Left(f) < 0
      BY <2>4, <3>1 DEF LInv, Returning
    <3> QED BY <1>1, <1>5, <3>2
  <2>6. Fighters(f)' = {}
    BY <1>10, <1>12
  <2>7. ASSUME Lone PROVE ~Killed /\ \A g \in Task : npc \notin Fighters(g)'
    <3>1. ~Killed
      BY <2>4, <2>7 DEF LInv, OneDeath
    <3>2. ASSUME NEW g \in Task, npc \in Fighters(g)' PROVE FALSE
      <4>1. g # f /\ npc \in Fighters(g)
        BY <1>1, <2>6, <3>2
      <4>2. PICK x \in Player : Fighters(g) = {npc, x}
        BY <1>0, <4>1, WithNpc
      <4>3. PICK y \in Player : Fighters(f) = {npc, y}
        BY <1>0, <2>4, WithNpc
      <4>4. <<x, "melee">> \in hunters /\ <<y, "melee">> \in hunters
        BY <4>2, <4>3 DEF LInv, Hunted
      <4>5. <<x, "melee">> = <<y, "melee">>
        BY <2>7, <4>4 DEF Lone
      <4>6. x = y
        BY <4>5
      <4>7. f = g
        BY <2>4, <4>2, <4>3, <4>6 DEF Fights, OneTaskPerNpcFight
      <4> QED BY <4>1, <4>7
    <3> QED BY <3>1, <3>2
  <2>8. \A g \in Task : npc \in Fighters(g)' =>
          Fighters(g)' = Fighters(g) /\ Left(g)' = Left(g) /\ fights'[g].defender = fights[g].defender
    BY <1>1, <2>6
  <2> QED BY <1>1, <1>7, <1>8, <2>1, <2>2, <2>3, <2>5, <2>7, <2>8, BeginsKeeps
<1>13. CASE ~(v = npc /\ hits[v] <= d)
  <2>1. dying' = dying
    BY <1>3, <1>13
  <2>2. /\ at'[npc] = at[npc] /\ (hits[npc] <= 0 => hits'[npc] <= 0) /\ (fighting'[npc] => fighting[npc])
    <3>1. CASE hits[v] <= d /\ v \in Player
      <4>1. KilledPlayer(v, {a}, Counted(Rounds(Freed(v)), a)) /\ {a} \in SUBSET Mob
        BY <1>2, <1>3, <3>1
      <4>2. at'[npc] = at[npc] /\ hits'[npc] = hits[npc]
        BY <3>1, <4>1, KilledTypes
      <4>3. PICK S : Release(S)
        BY <4>1 DEF KilledPlayer
      <4>4. fighting'[npc] => fighting[npc]
        BY <1>2, <4>3, ReleaseGives
      <4> QED BY <4>2, <4>4
    <3>2. CASE ~(hits[v] <= d /\ v \in Player)
      <4>1. at' = at /\ fighting' = fighting /\ hits' = [hits EXCEPT ![v] = @ - d]
        BY <1>3, <3>2
      <4>2. CASE v = npc
        <5>1. hits'[npc] = hits[npc] - d
          BY <1>2, <4>1, <4>2 DEF Types
        <5> QED BY <1>4, <4>1, <4>2, <5>1
      <4>3. CASE v # npc
        BY <1>2, <4>1, <4>3 DEF Types
      <4> QED BY <4>1, <4>2, <4>3
    <3> QED BY <3>1, <3>2
  <2>3. ASSUME NEW g \in Task, npc \in Fighters(g)'
        PROVE  /\ Fighters(g)' = Fighters(g)
               /\ at[npc] = "grave" => Left(g)' = Left(g) /\ fights'[g].defender = fights[g].defender
    <3>1. CASE g = f
      <4>1. Fighters(f)' = Fighters(f) /\ npc \in {a, v}
        BY <1>2, <1>10, <1>11, <2>3, <3>1
      <4>2. at[npc] # "grave"
        BY <1>9, <1>13, <4>1
      <4> QED BY <3>1, <4>1, <4>2
    <3>2. CASE g # f
      BY <1>1, <3>2
    <3> QED BY <3>1, <3>2
  <2> QED BY <1>0, <1>1, <1>7, <1>8, <2>1, <2>2, <2>3, QuietKeeps
<1> QED BY <1>12, <1>13

LEMMA CastersKnown ==
  ASSUME LInv
  PROVE  \A p \in Player : Casting(p) =>
           p \in Caster /\ (prey[p] = npc => <<p, "magic">> \in hunters /\ ~(at[npc] = "grave" \/ Dying))
BY DEF LInv, Doomed, Hunted

LEMMA LifeStep ==
  ASSUME OneCaster, FInv, LInv, [Next]_vars
  PROVE  LInv'
<1>0. Types /\ Engine /\ Queue /\ Handlers /\ Fights /\ Closing
  BY DEF FInv, Engine, Fights
<1>k. /\ pc \in [Player -> {"idle", "near", "aimed", "struck", "done"}]
      /\ prey \in [Player -> Mob \cup {Nobody}]
      /\ at \in [Mob -> Place \cup {"grave"}] /\ hits \in [Mob -> Int]
      /\ npc \in Mob /\ npc \notin Player /\ Player \subseteq Mob /\ Nobody # npc /\ Caster \subseteq Player
  BY <1>0, Constants, FightAssumption DEF Types
(* A step of neither the NPC nor its fights. *)
<1>q. ASSUME UNCHANGED <<respawns, dying, drops, fights>>, at'[npc] = at[npc], hunters \subseteq hunters',
             \A f \in Task : fights[f] # NoFight => Left(f)' = Left(f),
             phase' = phase \/ (phase # "tasks" /\ phase' # "packets"),
             (at[npc] = "grave" \/ Dying) /\ hits[npc] <= 0 => hits'[npc] <= 0,
             fighting'[npc] => fighting[npc],
             \A p \in Player : Casting(p)' =>
               p \in Caster /\ (prey'[p] = npc => <<p, "magic">> \in hunters' /\ ~(at[npc] = "grave" \/ Dying)),
             \A p \in Player : prey'[p] = npc => prey[p] = npc \/ at[npc] = "field",
             \A c \in Caster : pc[c] = "done" => pc'[c] = "done"
      PROVE  LInv'
  <2>1. \A f \in Task : /\ Fighters(f)' = Fighters(f) /\ fights'[f] = fights[f]
                        /\ npc \in Fighters(f) => fights[f] # NoFight
    BY <1>q DEF Fighters
  <2>2. \A f \in Task : npc \in Fighters(f)' =>
           /\ Fighters(f)' = Fighters(f)
           /\ at[npc] = "grave" => Left(f)' = Left(f) /\ fights'[f].defender = fights[f].defender
    BY <1>q, <2>1
  <2> QED BY <1>0, <1>q, <2>2, QuietKeeps
(* ... and no handler's either. *)
<1>h. ASSUME UNCHANGED <<respawns, dying, drops, hunters, pc, prey>>, at'[npc] = at[npc], hits'[npc] = hits[npc],
             phase' = phase \/ (phase # "tasks" /\ phase' # "packets"),
             fighting'[npc] => fighting[npc],
             \A f \in Task : npc \in Fighters(f)' =>
               Fighters(f)' = Fighters(f) /\ Left(f)' = Left(f) /\ fights'[f].defender = fights[f].defender
      PROVE  LInv'
  <2>1. \A q \in Player : Casting(q)' <=> Casting(q)
    BY <1>h DEF Casting
  <2> QED BY <1>0, <1>h, <2>1, CastersKnown, QuietKeeps
<1>l. fights' = fights /\ todo' = todo /\ phase' = phase => \A f \in Task : Left(f)' = Left(f) /\ Fighters(f)' = Fighters(f)
  BY DEF Left, Fighters
<1>1. ASSUME NEW p \in Player, NEW m \in Mob, See(p, m) PROVE LInv'
  <2>1. /\ UNCHANGED <<respawns, dying, drops, fights, todo, phase, at, hits, fighting, hunters>>
        /\ pc' = [pc EXCEPT ![p] = "near"] /\ prey' = [prey EXCEPT ![p] = m] /\ pc[p] = "idle"
        /\ at[m] = "field"
    BY <1>1 DEF See, Goto, Acts, mobs, body, life, engine
  <2>2. \A q \in Player : Casting(q)' => Casting(q) /\ prey'[q] = prey[q]
    BY <1>k, <2>1 DEF Casting
  <2>3. /\ \A q \in Player : prey'[q] = npc => prey[q] = npc \/ at[npc] = "field"
        /\ \A c \in Caster : pc[c] = "done" => pc'[c] = "done"
    BY <1>k, <2>1
  <2> QED BY <1>l, <1>q, <2>1, <2>2, <2>3, CastersKnown
<1>2. ASSUME NEW p \in Player, NEW m \in Mob, Aim(p, m) PROVE LInv'
  <2>1. /\ UNCHANGED <<respawns, dying, drops, fights, todo, phase, at, hits, fighting>>
        /\ pc' = [pc EXCEPT ![p] = "aimed"] /\ prey' = [prey EXCEPT ![p] = m] /\ pc[p] = "idle"
        /\ at[m] = "field" /\ p \in Caster /\ phase = "packets"
        /\ hunters' = IF m = npc THEN HuntedBy(<<p, "magic">>) ELSE hunters
    BY <1>2 DEF Aim, Goto, Acts, mobs, body, engine
  <2>2. hunters \subseteq hunters' /\ (m = npc => <<p, "magic">> \in hunters')
    BY <1>0, <2>1, HuntersGrow
  <2>3. ~Dying
    BY <2>1 DEF LInv, Doomed
  <2>4. ASSUME NEW q \in Player, Casting(q)'
        PROVE  q \in Caster /\ (prey'[q] = npc => <<q, "magic">> \in hunters' /\ ~(at[npc] = "grave" \/ Dying))
    <3>1. CASE q = p
      BY <1>k, <2>1, <2>2, <2>3, <3>1
    <3>2. CASE q # p
      <4>1. Casting(q) /\ prey'[q] = prey[q]
        BY <1>k, <2>1, <2>4, <3>2 DEF Casting
      <4> QED BY <2>2, <4>1, CastersKnown
    <3> QED BY <3>1, <3>2
  <2>5. /\ \A q \in Player : prey'[q] = npc => prey[q] = npc \/ at[npc] = "field"
        /\ \A c \in Caster : pc[c] = "done" => pc'[c] = "done"
    BY <1>k, <2>1
  <2> QED BY <1>l, <1>q, <2>1, <2>2, <2>4, <2>5
<1>3. ASSUME NEW p \in Player, Engage(p) PROVE LInv'
  <2> DEFINE m == prey[p]
  <2>1. /\ UNCHANGED <<respawns, dying, drops, todo, phase, hits>>
        /\ pc' = [pc EXCEPT ![p] = "done"] /\ prey' = [prey EXCEPT ![p] = Nobody] /\ pc[p] = "near"
        /\ StartCombat(p, m) /\ m \in Mob \ {p} /\ phase = "packets"
    BY <1>0, <1>3 DEF Engage, Done, Goto, Handlers
  <2>2. \A q \in Player : Casting(q)' => Casting(q) /\ prey'[q] = prey[q]
    BY <1>k, <2>1 DEF Casting
  <2>3. /\ \A q \in Player : prey'[q] = npc => prey[q] = npc
        /\ \A c \in Caster : pc[c] = "done" => pc'[c] = "done"
    BY <1>k, <2>1
  <2>4. at'[npc] = at[npc] /\ p \in Mob /\ p # npc
    <3>1. p \in Mob /\ p # npc /\ m \in Mob /\ StartCombat(p, m)
      BY <1>k, <2>1
    <3> HIDE DEF m
    <3>2. \A n \in Mob \ {p} : at'[n] = at[n]
      BY <1>0, <3>1, StartCombatGives
    <3> QED BY <1>k, <3>1, <3>2
  <2>5. CASE m = npc
    <3>1. \A k \in 0..RespawnTicks : respawns[k] > 0 => k = RespawnTicks
      <4>1. \A k \in 0..RespawnTicks : respawns[k] > 0 => ~(k < RespawnTicks)
        BY <2>5 DEF LInv, Returning
      <4> QED BY <4>1, Constants
    <3>2. \A f \in Task : npc \in Fighters(f) => fights[f].defender = npc
      BY <1>0, <2>1, <2>5 DEF Closing
    <3>3. at[npc] = "grave" \/ Dying => \E q \in Player : <<q, "magic">> \in hunters
      BY <2>1, <2>5 DEF LInv, Hunted
    <3>4. {p, m} = {p, npc} /\ phase # "tasks" /\ m = npc
      BY <2>1, <2>5
    <3> HIDE DEF m
    <3> QED BY <1>0, <1>k, <2>1, <2>2, <2>3, <2>4, <3>1, <3>2, <3>3, <3>4, AttackKeeps
  <2>6. CASE m # npc
    <3> HIDE DEF m
    <3>1. PICK f \in Task :
            /\ fights[f] = NoFight /\ \A g \in Task \ {f} : fights'[g] = fights[g]
            /\ fights'[f] = [by |-> p, attacker |-> p, defender |-> m, due |-> FightTicks]
      BY <1>0, <2>1, <2>4, StartCombatGives
    <3>2. npc \notin Fighters(f)'
      BY <2>4, <2>6, <3>1 DEF Fighters
    <3>3. \A g \in Task \ {f} : Fighters(g)' = Fighters(g) /\ Left(g)' = Left(g) /\ fights'[g] = fights[g]
      BY <2>1, <3>1 DEF Fighters, Left
    <3>4. fighting'[npc] = fighting[npc] /\ hunters' = hunters
      <4>1. \A n \in Mob \ {p, m} : fighting'[n] = fighting[n]
        BY <1>0, <2>1, <2>4, StartCombatGives
      <4>2. hunters' = hunters
        BY <2>1, <2>4, <2>6 DEF StartCombat
      <4> QED BY <1>k, <2>4, <2>6, <4>1, <4>2
    <3>5. \A g \in Task : npc \in Fighters(g)' =>
            /\ Fighters(g)' = Fighters(g)
            /\ at[npc] = "grave" => Left(g)' = Left(g) /\ fights'[g].defender = fights[g].defender
      BY <3>2, <3>3
    <3> QED BY <1>0, <2>1, <2>2, <2>3, <2>4, <3>4, <3>5, CastersKnown, QuietKeeps
  <2> QED BY <2>5, <2>6
<1>4. ASSUME NEW p \in Player, Strike(p) PROVE LInv'
  <2>1. /\ UNCHANGED <<respawns, dying, drops, fights, todo, phase, at, fighting, hunters, prey>>
        /\ pc' = [pc EXCEPT ![p] = "struck"] /\ pc[p] = "aimed"
    BY <1>4 DEF Strike, Goto, mobs, life, engine
  <2>2. \A q \in Player : Casting(q)' <=> Casting(q)
    BY <1>k, <2>1 DEF Casting
  <2>3. (at[npc] = "grave" \/ Dying) /\ hits[npc] <= 0 => hits'[npc] <= 0
    <3>1. CASE prey[p] = npc
      <4>1. Casting(p)
        BY <2>1 DEF Casting
      <4> QED BY <3>1, <4>1, CastersKnown
    <3>2. CASE prey[p] # npc
      <4>1. PICK n : hits' = [hits EXCEPT ![prey[p]] = n]
        BY <1>4 DEF Strike
      <4> QED BY <1>k, <3>2, <4>1
    <3> QED BY <3>1, <3>2
  <2>4. \A c \in Caster : pc[c] = "done" => pc'[c] = "done"
    BY <1>k, <2>1
  <2> QED BY <1>l, <1>q, <2>1, <2>2, <2>3, <2>4, CastersKnown
<1>5. ASSUME NEW p \in Player, Judge(p) PROVE LInv'
  <2>1. /\ UNCHANGED <<respawns, drops, fights, todo, phase, hunters>> /\ phase = "packets"
        /\ pc' = [pc EXCEPT ![p] = "done"] /\ prey' = [prey EXCEPT ![p] = Nobody] /\ pc[p] = "struck"
        /\ prey[p] \in Mob
    BY <1>0, <1>5 DEF Judge, Done, Goto, engine, Handlers
  <2>2. p \in Caster /\ Casting(p)
    BY <2>1 DEF LInv, Doomed, Casting
  <2>3. \A q \in Player : ~Casting(q)'
    <3>1. ASSUME NEW q \in Player, Casting(q)' PROVE FALSE
      <4>1. q # p /\ Casting(q)
        BY <1>k, <2>1, <3>1 DEF Casting
      <4>2. q = p
        BY <2>2, <4>1, CastersKnown DEF OneCaster
      <4> QED BY <4>1, <4>2
    <3> QED BY <3>1
  <2>4. /\ \A q \in Player : prey'[q] = npc => prey[q] = npc
        /\ \A c \in Caster : pc'[c] = "done"
    <3>1. \A c \in Caster : c = p
      BY <2>2 DEF OneCaster
    <3> QED BY <1>k, <2>1, <3>1
  <2>5. CASE prey[p] = npc /\ hits[npc] <= 0
    <3>1. Begins(p) /\ UNCHANGED <<mobs, hits, at>>
      BY <1>5, <2>5 DEF Judge, Begins
    <3>2. <<p, "magic">> \in hunters /\ ~(at[npc] = "grave" \/ Dying)
      BY <2>2, <2>5, CastersKnown
    <3>3. \A k \in 0..RespawnTicks : respawns[k] = 0
      <4>1. \A k \in 0..RespawnTicks : ~(respawns[k] > 0)
        BY <3>2 DEF LInv, Returning
      <4>2. respawns \in [0..RespawnTicks -> Nat]
        BY <1>0 DEF Types
      <4> QED BY <4>1, <4>2
    <3>4. ~(respawns[0] > 0)
      BY <3>3, Constants
    <3>5. \A f \in Task : Fighters(f)' = Fighters(f) /\ Left(f)' = Left(f) /\ fights'[f] = fights[f]
      BY <1>l, <2>1
    <3>6. ASSUME Lone PROVE ~Killed /\ \A f \in Task : npc \notin Fighters(f)'
      <4>1. ~Killed
        BY <3>2, <3>6 DEF LInv, OneDeath
      <4>2. ASSUME NEW f \in Task, npc \in Fighters(f) PROVE FALSE
        <5>1. PICK x \in Player : Fighters(f) = {npc, x}
          BY <1>0, <4>2, WithNpc
        <5>2. <<x, "melee">> \in hunters
          BY <5>1 DEF LInv, Hunted
        <5>3. <<x, "melee">> = <<p, "magic">>
          BY <3>2, <3>6, <5>2 DEF Lone
        <5> QED BY <5>3
      <4> QED BY <3>5, <4>1, <4>2
    <3>7. fighting' = fighting /\ at'[npc] = at[npc] /\ hits'[npc] <= 0
      BY <2>5, <3>1 DEF mobs
    <3> QED BY <1>0, <2>1, <2>3, <2>4, <3>1, <3>2, <3>3, <3>4, <3>5, <3>6, <3>7, BeginsKeeps
  <2>6. CASE ~(prey[p] = npc /\ hits[npc] <= 0)
    <3>1. dying' = dying
      BY <1>5, <2>6 DEF Judge
    <3>2. at'[npc] = at[npc] /\ hits'[npc] = hits[npc] /\ (fighting'[npc] => fighting[npc])
      <4>1. CASE prey[p] # npc /\ hits[prey[p]] <= 0
        <5>1. KilledPlayer(prey[p], {}, Rounds(Freed(prey[p]))) /\ prey[p] \in Player
          BY <1>5, <2>1, <4>1 DEF Judge, Mob
        <5>2. PICK S : Release(S)
          BY <5>1 DEF KilledPlayer
        <5>3. fighting'[npc] => fighting[npc]
          BY <1>0, <1>k, <5>2, ReleaseGives
        <5> QED BY <1>0, <5>1, <5>3, KilledTypes
      <4>2. CASE ~(prey[p] # npc /\ hits[prey[p]] <= 0)
        <5>1. UNCHANGED <<mobs, hits, at>>
          BY <1>5, <4>2 DEF Judge
        <5> QED BY <5>1 DEF mobs
      <4> QED BY <4>1, <4>2
    <3> QED BY <1>l, <1>q, <2>1, <2>3, <2>4, <3>1, <3>2
  <2> QED BY <2>5, <2>6
<1>6. ASSUME NEW p \in Player, Retreat(p) \/ Move(p) \/ Disconnect(p) PROVE LInv'
  <2>1. UNCHANGED <<respawns, dying, drops, hunters, pc, prey, fights, todo, phase, hits>>
    BY <1>6 DEF Retreat, Move, Disconnect, life, engine, hands
  <2>2. at'[npc] = at[npc]
    <3>1. at' = at \/ \E q \in Place : at' = [at EXCEPT ![p] = q]
      BY <1>6 DEF Retreat, Move, Disconnect
    <3> QED BY <1>k, <3>1
  <2>3. fighting'[npc] => fighting[npc]
    <3>1. fighting' = fighting \/ \E S : Release(S)
      BY <1>6 DEF Retreat, Move, Disconnect, mobs
    <3> QED BY <1>0, <1>k, <3>1, ReleaseGives
  <2> QED BY <1>h, <1>l, <2>1, <2>2, <2>3
<1>7. ASSUME NEW p \in Player, Notices(p) PROVE LInv'
  <2>1. UNCHANGED <<respawns, dying, drops, todo, phase, pc, prey, hits>> /\ phase = "npcs" /\ at[npc] = "field"
    BY <1>7 DEF Notices, hands
  <2>2. CASE UNCHANGED <<mobs, at, fights, hunters>>
    BY <1>h, <1>l, <2>1, <2>2 DEF mobs
  <2>3. CASE MayAttack(p) /\ StartCombat(npc, p)
    <3>1. at'[npc] = at[npc]
      BY <1>0, <1>k, <2>3, StartCombatGives DEF MayAttack
    <3>2. \A q \in Player : Casting(q)' <=> Casting(q)
      BY <2>1 DEF Casting
    <3>3. \A k \in 0..RespawnTicks : ~(respawns[k] > 0)
      BY <2>1 DEF LInv, Returning
    <3>4. at[npc] = "grave" \/ Dying => \E q \in Player : <<q, "magic">> \in hunters
      BY <2>1 DEF LInv, Hunted
    <3>5. {npc, p} = {p, npc} /\ p \in Mob /\ at[npc] # "grave" /\ phase # "tasks"
      BY <1>k, <2>1
    <3> QED BY <1>0, <1>k, <2>1, <2>3, <3>1, <3>2, <3>3, <3>4, <3>5, AttackKeeps
  <2> QED BY <1>7, <2>2, <2>3 DEF Notices
<1>8. ASSUME NEW p \in Player, Reward(p) \/ Leave(p) PROVE LInv'
  BY <1>0, <1>8, RewardKeeps, LeaveKeeps
<1>9. CASE StartNpcs
  <2>1. UNCHANGED <<respawns, dying, drops, hunters, pc, prey, hits, at, fighting, fights, todo>>
        /\ phase = "packets" /\ phase' = "npcs"
    BY <1>9 DEF StartNpcs, mobs, body, life, hands
  <2>2. \A f \in Task : Left(f)' = Left(f) /\ Fighters(f)' = Fighters(f)
    BY <2>1 DEF Left, Fighters
  <2> QED BY <1>h, <2>1, <2>2
<1>10. CASE StartTasks
  <2>1. UNCHANGED <<respawns, dying, drops, hunters, pc, prey, hits, at, fighting, fights>>
        /\ phase = "npcs" /\ phase' = "tasks" /\ todo' = {f \in Task : fights[f] # NoFight}
    BY <1>10 DEF StartTasks, mobs, body, life, hands
  <2>2. \A f \in Task : Fighters(f)' = Fighters(f) /\ (npc \in Fighters(f) => Left(f)' = Left(f))
    BY <2>1 DEF Left, Fighters
  <2> QED BY <1>h, <2>1, <2>2
<1>11. ASSUME NEW f \in Task, FightWaits(f) \/ FightEnds(f) PROVE LInv'
  <2>1. UNCHANGED <<respawns, dying, drops, hunters, pc, prey, hits, at, phase>>
    BY <1>11 DEF FightWaits, FightEnds, body, life, hands
  <2>2. fighting'[npc] => fighting[npc]
    <3>1. fighting' = fighting \/ \E S : Release(S)
      BY <1>11 DEF FightWaits, FightEnds, mobs
    <3> QED BY <1>0, <1>k, <3>1, ReleaseGives
  <2>3. /\ phase = "tasks" /\ f \in todo /\ todo' = todo \ {f} /\ fights[f] # NoFight /\ Left(f) = fights[f].due
        /\ \A g \in Task \ {f} : fights'[g] = fights[g] /\ Fighters(g)' = Fighters(g) /\ Left(g)' = Left(g)
    BY <1>0, <1>11, RanGives
  <2>4. fights[f] \in Running /\ fights \in [Task -> Running \cup {NoFight}] /\ fights[f].due \in Int
    <3>1. Types /\ FightTicks \in Nat /\ fights[f] # NoFight
      BY <1>0, <2>3, Constants
    <3>2. fights[f] \in Running /\ fights[f].due \in 0..FightTicks
      BY <3>1, FightersAre
    <3>3. fights \in [Task -> Running \cup {NoFight}]
      BY <3>1 DEF Types
    <3>4. fights[f].due \in Int
      BY <3>1, <3>2
    <3> QED BY <3>2, <3>3, <3>4
  <2>5. npc \in Fighters(f)' =>
          Fighters(f)' = Fighters(f) /\ Left(f)' = Left(f) /\ fights'[f].defender = fights[f].defender
    <3>1. CASE FightWaits(f)
      <4>1. fights' = [fights EXCEPT ![f] = [fights[f] EXCEPT !.due = @ - 1]]
        BY <3>1 DEF FightWaits
      <4>2. fights'[f] = [fights[f] EXCEPT !.due = @ - 1]
        BY <2>4, <4>1
      <4>3. /\ fights'[f].due = fights[f].due - 1 /\ fights'[f].attacker = fights[f].attacker
            /\ fights'[f].defender = fights[f].defender
        BY <2>4, <4>2 DEF Running
      <4>4. Left(f)' = Left(f)
        <5>1. Left(f)' = fights'[f].due + 1
          BY <2>1, <2>3 DEF Left
        <5> QED BY <2>3, <2>4, <4>3, <5>1
      <4>5. npc \in Fighters(f)' => Fighters(f)' = Fighters(f)
        BY <2>3, <4>3 DEF Fighters
      <4> QED BY <4>3, <4>4, <4>5
    <3>2. CASE FightEnds(f)
      <4>1. fights'[f] = NoFight
        BY <2>4, <3>2 DEF FightEnds
      <4> QED BY <4>1 DEF Fighters
    <3> QED BY <1>11, <3>1, <3>2
  <2> QED BY <1>h, <2>1, <2>2, <2>3, <2>5
<1>12. ASSUME NEW f \in Task, Hit(f) PROVE LInv'
  BY <1>0, <1>12, HitKeeps
<1>13. CASE Respawn \/ EndTasks
  BY <1>0, <1>13, RespawnKeeps, EndTasksKeeps
<1>14. CASE UNCHANGED vars
  <2>1. UNCHANGED <<respawns, dying, drops, hunters, pc, prey, hits, at, phase, fighting, fights, todo>>
    BY <1>14 DEF vars, mobs, body, life, engine, hands
  <2> QED BY <1>h, <1>l, <2>1
<1> QED BY <1>1, <1>2, <1>3, <1>4, <1>5, <1>6, <1>7, <1>8, <1>9, <1>10, <1>11, <1>12, <1>13, <1>14
        DEF Next, Handler, Continue, Dies, Tick, RunFight

LEMMA LifeStart == Init => LInv
<1> SUFFICES ASSUME Init PROVE LInv
  OBVIOUS
<1>1. /\ at[npc] = "field" /\ drops = 0 /\ hunters = {}
      /\ \A x \in Player \X Steps : ~(dying[x] > 0)
      /\ \A k \in 0..RespawnTicks : ~(respawns[k] > 0)
      /\ \A f \in Task : Fighters(f) = {}
      /\ \A p \in Player : ~Casting(p)
  BY Constants DEF Init, Fighters, Casting
<1>2. ~Dying /\ 0 \in 0..RespawnTicks
  BY <1>1, Constants DEF Dying
<1>3. \A p \in Player : ~(dying[<<p, "reward">>] > 0)
  BY <1>1 DEF Steps
<1>4. Doomed /\ DiesOnce
  BY <1>1, <1>2 DEF Doomed, DiesOnce
<1>5. Returning /\ Hunted
  <2>1. \A f \in Task : npc \notin Fighters(f) /\ \A x : Fighters(f) # {npc, x}
    BY <1>1
  <2>2. at[npc] # "grave"
    BY <1>1
  <2>3. Returning
    BY <1>1, <1>2, <2>2 DEF Returning
  <2>4. Hunted
    BY <1>1, <1>2, <2>1, <2>2 DEF Hunted
  <2> QED BY <2>3, <2>4
<1>6. OneDeath
  <2>1. drops = 0
    BY <1>1
  <2>2. ~(drops > 0) /\ drops <= 1
    BY <2>1
  <2>3. ~Killed
    BY <1>3, <2>2 DEF Killed
  <2> QED BY <1>3, <2>2, <2>3 DEF OneDeath
<1> QED BY <1>4, <1>5, <1>6 DEF LInv

(* Nothing is bigger than one that no two differ in. *)
LEMMA LoneSet ==
  ASSUME Types, Cardinality(hunters) <= 1
  PROVE  Lone
<1>1. IsFiniteSet(Player \X {"melee", "magic"})
  <2>1. IsFiniteSet({"melee"})
    BY FS_Singleton
  <2>2. IsFiniteSet({"melee"} \cup {"magic"})
    BY <2>1, FS_AddElement
  <2>3. {"melee"} \cup {"magic"} = {"melee", "magic"}
    OBVIOUS
  <2>4. IsFiniteSet({"melee", "magic"}) /\ IsFiniteSet(Player)
    BY <2>2, <2>3, FightAssumption
  <2> QED BY <2>4, FS_Product
<1>2. IsFiniteSet(hunters)
  BY <1>1, FS_Subset DEF Types
<1> SUFFICES ASSUME NEW g \in hunters, NEW h \in hunters, g # h PROVE FALSE
  BY DEF Lone
<1>3. IsFiniteSet({g}) /\ Cardinality({g}) = 1
  BY FS_Singleton
<1>4. Cardinality({g} \cup {h}) = 2
  BY <1>3, FS_AddElement
<1>5. Cardinality({g} \cup {h}) <= Cardinality(hunters)
  BY <1>2, FS_Subset
<1>6. Cardinality(hunters) \in Nat
  BY <1>2, FS_CardinalityType
<1> QED BY <1>4, <1>5, <1>6

(* With one player at most who casts spells, as in the run: an NPC that one player
   hunts in one way drops once in a life.  Killed runs in a goroutine of its own,
   which races the next tick; but the fight is gone from the task list with the
   blow that started it, and any other attack would be another hunter's. *)
THEOREM HuntedAloneDropsOnce ==
  ASSUME OneCaster
  PROVE  Spec => []LoneHunterOneDrop
<1>1. FInv /\ LInv /\ [Next]_vars => LInv'
  BY LifeStep
<1>2. FInv /\ LInv => LoneHunterOneDrop
  BY LoneSet DEF FInv, LInv, OneDeath, LoneHunterOneDrop
<1> QED BY <1>1, <1>2, LifeStart, FightInvariant, PTL DEF Spec
=============================================================================
