-------------------------------- MODULE Fight --------------------------------
(***************************************************************************)
(* Fights between players and with an NPC, and the NPC's death and return. *)
(* pkg/game/world: StartCombat and the fight's task (player.go, mob.go),   *)
(* damage.go, Killed and Respawn (player.go, npc.go); the handlers that    *)
(* attack, cast and retreat (scripts/packets/combat.ank, walking.ank,      *)
(* scripts/def/magic.ank); the engine's order of work (pkg/server.go).     *)
(*                                                                         *)
(* A tick has three phases: "packets", the players' handlers in goroutines *)
(* of their own; "npcs", the engine moving NPCs; "tasks", the engine       *)
(* running the tick tasks, fights and respawns among them.  An NPC dies in *)
(* a goroutine of its own.  Nothing is locked across two of their steps.   *)
(***************************************************************************)
EXTENDS Integers, FiniteSets, FiniteSetsExt

CONSTANTS Player, npc,
          Caster,         \* bound: the players who cast spells
          Leaver,         \* bound: the players whose connection ends
          Nobody,         \* nil
          Task,           \* bound: fight tasks in the task list at once
          NoFight,        \* an unused Task
          MaxHits,        \* of every mob
          FightTicks,     \* 2 in the code
          RestTicks,      \* 3: the 1.92 or 2 seconds after a fight
          FledTicks,      \* 5: the 3 seconds after a retreat
          RetreatRound,   \* 3
          RespawnTicks    \* 16

Mob == Player \cup {npc}

ASSUME FightAssumption ==
  /\ IsFiniteSet(Player) /\ IsFiniteSet(Task) /\ npc \notin Player /\ Nobody \notin Mob
  /\ Caster \subseteq Player /\ Leaver \subseteq Player
  /\ {MaxHits, FightTicks, RespawnTicks, RetreatRound} \subseteq Nat \ {0}
  /\ {RestTicks, FledTicks} \subseteq Nat
  /\ FightTicks < RestTicks /\ FightTicks < RespawnTicks
  /\ NoFight \notin [by : Mob, attacker : Mob, defender : Mob, due : Nat]

VARIABLES
  \* of each mob: StateFighting, and the attributes fightTarget, fightRound
  \* (up to RetreatRound) and lastFight (ticks until it no longer matters)
  fighting, target, round, rest,
  hits,        \* the current level of StatHits
  at,          \* where it is
  fled,        \* ticks until a player's lastRetreat no longer matters
  connected,   \* players who are
  noticed,     \* the NPC's targetPlayer
  fights,      \* the fight tasks in the task list
  respawns,    \* how many Respawn tasks are due in so many ticks
  dying,       \* goroutines in NPC.Killed, by killer and step
  phase,
  todo,        \* fight tasks this tasks phase has not run yet
  pc, prey,    \* where a player's handler is, and at whom
  seen,        \* the hits a spell has read
  \* history
  drops,       \* deaths of the NPC in this life
  hunters,     \* who attacked it in this life, and how
  winners      \* mobs whose own blow killed a player, until they are freed

mobs == <<fighting, target, round, rest, winners>>
body == <<hits, at, fled, connected>>
life == <<noticed, respawns, dying, drops, hunters>>
engine == <<fights, phase, todo>>
hands == <<pc, prey, seen>>
vars == <<mobs, body, life, engine, hands>>

-----------------------------------------------------------------------------
Place == {"field", "home"}
Steps == {"reward", "leave"}
Goto(p, label) == pc' = [pc EXCEPT ![p] = label]
Done(p) ==
  /\ Goto(p, "done")
  /\ prey' = [prey EXCEPT ![p] = Nobody] /\ UNCHANGED seen

(* Mob.ResetFighting: the mob's own fight; its target's only if it has none
   itself, for fightTarget is unset before it is read. *)
Freed(m) == IF fighting[m] THEN {m} ELSE {t \in Mob : target[m] = t /\ fighting[t]}

Rounds(S) == [m \in Mob |-> IF m \in S THEN 0 ELSE round[m]]
Counted(rounds, a) == [rounds EXCEPT ![a] = Min({@ + 1, RetreatRound})]

Release(S) ==
  /\ fighting' = [m \in Mob |-> fighting[m] /\ m \notin S]
  /\ target' = [m \in Mob |-> IF m \in S THEN Nobody ELSE target[m]]
  /\ rest' = [m \in Mob |-> IF m \in S THEN RestTicks ELSE rest[m]]

(* Who hunts the NPC, a player and how: one, or several. *)
HuntedBy(h) == IF hunters \subseteq {h} THEN {h} ELSE Player \X {"melee", "magic"}

(* StartCombat; Schedule(2, ...) takes a fight task. *)
StartCombat(a, d) ==
  /\ fighting' = [fighting EXCEPT ![a] = TRUE, ![d] = TRUE]
  /\ target' = [target EXCEPT ![a] = d, ![d] = a]
  /\ at' = [at EXCEPT ![a] = at[d]]
  /\ \E f \in Task :
       /\ fights[f] = NoFight
       /\ fights' = [fights EXCEPT ![f] = [by |-> a, attacker |-> a, defender |-> d, due |-> FightTicks]]
  /\ hunters' = IF npc \in {a, d} THEN HuntedBy(<<IF a = npc THEN d ELSE a, "melee">>) ELSE hunters
  /\ winners' = winners \ {a, d}
  /\ UNCHANGED <<round, rest>>

(* Player.Killed: all levels restored, the dead player's own fight reset and
   not its killer's, and back to the SpawnPoint. *)
KilledPlayer(v, won, rounds) ==
  /\ Release(Freed(v))
  /\ round' = rounds
  /\ hits' = [hits EXCEPT ![v] = MaxHits]
  /\ at' = [at EXCEPT ![v] = "home"]
  /\ winners' = (winners \cup won) \ Freed(v)

-----------------------------------------------------------------------------
(* Packets phase.  A player's tick action runs once a tick; here it has found
   a mob to attack within reach, and read its state. *)
AtOnce(m) == TRUE                                   \* mutant
Rested(m) == IF m = npc THEN rest[m] = 0 ELSE fled[m] = 0

Acts(p) == phase = "packets" /\ pc[p] = "idle" /\ p \in connected

See(p, m) ==
  /\ Acts(p)
  /\ m # p /\ at[m] = "field" /\ at[p] = "field"
  /\ ~fighting[p] /\ ~fighting[m] /\ Rested(m)
  /\ Cardinality({q \in Player : pc[q] = "near"}) < Cardinality({f \in Task : fights[f] = NoFight})  \* bound
  /\ Goto(p, "near")
  /\ prey' = [prey EXCEPT ![p] = m]
  /\ UNCHANGED <<mobs, body, life, engine, seen>>

Engage(p) ==
  /\ pc[p] = "near"
  /\ StartCombat(p, prey[p])
  /\ Done(p)
  /\ UNCHANGED <<hits, fled, connected, noticed, respawns, dying, drops, phase, todo>>

(* A spell: the target's hits are read, *)
Aim(p, m) ==
  /\ Acts(p) /\ p \in Caster
  /\ m # p /\ at[m] = "field" /\ at[p] = "field"
  /\ Goto(p, "aimed")
  /\ prey' = [prey EXCEPT ![p] = m]
  /\ seen' = [seen EXCEPT ![p] = hits[m]]
  /\ hunters' = IF m = npc THEN HuntedBy(<<p, "magic">>) ELSE hunters
  /\ UNCHANGED <<mobs, body, noticed, respawns, dying, drops, engine>>

(* ... damage is at most what was read, and the hits, read again as they are or
   still as they were, are written back less the damage; *)
Damage(h) == IF h < 0 THEN {h} ELSE 0..h

Strike(p) ==
  /\ pc[p] = "aimed"
  /\ \E d \in Damage(seen[p]), now \in {seen[p], hits[prey[p]]} :
       hits' = [hits EXCEPT ![prey[p]] = now - d]
  /\ seen' = [seen EXCEPT ![p] = 0]
  /\ Goto(p, "struck")
  /\ UNCHANGED <<mobs, at, fled, connected, life, engine, prey>>

(* ... then the hits are read again. *)
Judge(p) ==
  /\ pc[p] = "struck"
  /\ LET v == prey[p] IN
       IF v = npc
       THEN /\ dying' = IF hits[npc] <= 0 THEN [dying EXCEPT ![<<p, "reward">>] = @ + 1] ELSE dying
            /\ UNCHANGED <<mobs, hits, at>>
       ELSE /\ IF hits[v] <= 0 THEN KilledPlayer(v, {}, Rounds(Freed(v)))
                              ELSE UNCHANGED <<mobs, hits, at>>
            /\ UNCHANGED dying
  /\ Done(p)
  /\ UNCHANGED <<fled, connected, noticed, respawns, drops, hunters, engine>>

(* walkRequest in a fight: the target's fight is reset, then the player's. *)
Retreat(p) ==
  /\ Acts(p)
  /\ fighting[p] /\ round[p] >= RetreatRound
  /\ LET S == Freed(p) \cup UNION {Freed(t) : t \in Mob \cap {target[p]}}
     IN Release(S) /\ round' = Rounds(S) /\ winners' = winners \ S
  /\ fled' = [fled EXCEPT ![p] = FledTicks]
  /\ \E q \in Place : at' = [at EXCEPT ![p] = q]
  /\ UNCHANGED <<hits, connected, life, engine, hands>>

(* A walk back to the field, or a teleport out of a fight. *)
Move(p) ==
  /\ Acts(p)
  /\ \E q \in Place : (q = "field" \/ fighting[p]) /\ at[p] # q /\ at' = [at EXCEPT ![p] = q]
  /\ UNCHANGED <<mobs, hits, fled, connected, life, engine, hands>>

(* Destroy, in the goroutine of the connection: SetConnected(false), ResetAll. *)
Disconnect(p) ==
  /\ p \in connected \cap Leaver
  /\ connected' = connected \ {p}
  /\ Release(Freed(p)) /\ round' = Rounds(Freed(p)) /\ winners' = winners \ Freed(p)
  /\ UNCHANGED <<hits, at, fled, life, engine, hands>>

-----------------------------------------------------------------------------
StartNpcs ==
  /\ phase = "packets"
  /\ \A p \in Player : pc[p] \in {"idle", "done"}
  /\ phase' = "npcs"
  /\ UNCHANGED <<mobs, body, life, fights, todo, hands>>

(* The aggressive NPC, in no fight and with no targetPlayer, takes the closest
   player for one: at its side it attacks if that player may be, which unsets
   targetPlayer; else targetPlayer stays, and it does not act again. *)
MayAttack(p) == at[p] = at[npc] /\ ~fighting[p] /\ rest[p] = 0

Notices(p) ==
  /\ phase = "npcs"
  /\ ~fighting[npc] /\ noticed = Nobody
  /\ at[npc] = "field" /\ p \in connected
  /\ \/ MayAttack(p) /\ StartCombat(npc, p) /\ UNCHANGED noticed
     \/ noticed' = p /\ UNCHANGED <<mobs, at, fights, hunters>>
  /\ UNCHANGED <<hits, fled, connected, respawns, dying, drops, phase, todo, hands>>

StartTasks ==
  /\ phase = "npcs"
  /\ phase' = "tasks"
  /\ todo' = {f \in Task : fights[f] # NoFight}
  /\ UNCHANGED <<mobs, body, life, fights, hands>>

-----------------------------------------------------------------------------
(* The fight's task: nothing until it is due. *)
Ran(f) == f \in todo /\ todo' = todo \ {f}

FightWaits(f) ==
  /\ Ran(f)
  /\ fights[f].due > 0
  /\ fights' = [fights EXCEPT ![f].due = @ - 1]
  /\ UNCHANGED <<mobs, body, life, phase, hands>>

Over(f) ==
  LET a == fights[f].attacker d == fights[f].defender IN
  \/ {a, d} \cap (Player \ connected) # {}
  \/ ~fighting[a] \/ ~fighting[d]
  \/ at[a] # at[d]

(* One of them is not there to fight: both are reset.  The deferred function of
   a fight that a player began still counts a round for the attacker. *)
AttackerOnly(f) == Freed(fights[f].attacker)        \* mutant
Both(f) == Freed(fights[f].attacker) \cup Freed(fights[f].defender)

FightEnds(f) ==
  /\ Ran(f)
  /\ fights[f].due = 0 /\ Over(f)
  /\ Release(Both(f)) /\ winners' = winners \ Both(f)
  /\ round' = IF fights[f].by \in Player THEN Counted(Rounds(Both(f)), fights[f].attacker)
                                         ELSE Rounds(Both(f))
  /\ fights' = [fights EXCEPT ![f] = NoFight]
  /\ UNCHANGED <<body, life, phase, hands>>

(* The attacker's turn; then they change places, unless the defender died. *)
Swapped(f) == [fights[f] EXCEPT !.attacker = fights[f].defender,
                                !.defender = fights[f].attacker, !.due = FightTicks - 1]
After(f, dead) == IF dead THEN NoFight ELSE Swapped(f)

Hit(f) ==
  /\ Ran(f)
  /\ fights[f].due = 0 /\ ~Over(f)
  /\ \E d \in Damage(hits[fights[f].defender]) :
       LET a == fights[f].attacker
           v == fights[f].defender
           dead == hits[v] <= d
       IN /\ IF dead /\ v \in Player
             THEN KilledPlayer(v, {a}, Counted(Rounds(Freed(v)), a))
             ELSE /\ hits' = [hits EXCEPT ![v] = @ - d]
                  /\ round' = Counted(round, a)
                  /\ UNCHANGED <<fighting, target, rest, winners, at>>
          /\ dying' = IF v = npc /\ dead THEN [dying EXCEPT ![<<a, "reward">>] = @ + 1] ELSE dying
          /\ fights' = [fights EXCEPT ![f] = After(f, dead)]
  /\ UNCHANGED <<fled, connected, noticed, respawns, drops, hunters, phase, hands>>

-----------------------------------------------------------------------------
(* NPC.Killed: the experience and the drop; *)
Reward(p) ==
  /\ dying[<<p, "reward">>] > 0
  /\ dying' = [dying EXCEPT ![<<p, "reward">>] = @ - 1, ![<<p, "leave">>] = @ + 1]
  /\ drops' = Min({drops + 1, 2})
  /\ UNCHANGED <<mobs, body, noticed, respawns, hunters, engine, hands>>

LeftLying == at                                     \* mutant
Removed == [at EXCEPT ![npc] = "grave"]

(* ... then the two ResetFightings, Remove, and a Schedule which is in vain
   while the task list is being filtered. *)
Leave(p) ==
  /\ dying[<<p, "leave">>] > 0
  /\ dying' = [dying EXCEPT ![<<p, "leave">>] = @ - 1]
  /\ LET S == Freed(p) \cup Freed(npc)
     IN Release(S) /\ round' = Rounds(S) /\ winners' = winners \ S
  /\ at' = Removed
  /\ respawns' = IF phase = "tasks" THEN respawns ELSE [respawns EXCEPT ![RespawnTicks] = @ + 1]
  /\ UNCHANGED <<hits, fled, connected, noticed, drops, hunters, engine, hands>>

Respawn ==
  /\ phase = "tasks"
  /\ respawns[0] > 0
  /\ respawns' = [respawns EXCEPT ![0] = @ - 1]
  /\ hits' = [hits EXCEPT ![npc] = MaxHits]
  /\ at' = [at EXCEPT ![npc] = "field"]
  /\ drops' = 0 /\ hunters' = {}
  /\ UNCHANGED <<mobs, fled, connected, noticed, dying, engine, hands>>

(* Bound: an NPC's death takes no longer than a tick. *)
Prompt == \A x \in Player \X Steps : dying[x] = 0
Less(n) == IF n > 0 THEN n - 1 ELSE 0

EndTasks ==
  /\ phase = "tasks" /\ todo = {} /\ respawns[0] = 0 /\ Prompt
  /\ phase' = "packets"
  /\ rest' = [m \in Mob |-> Less(rest[m])]
  /\ fled' = [p \in Player |-> Less(fled[p])]
  /\ respawns' = [k \in 0..RespawnTicks |-> IF k < RespawnTicks THEN respawns[k + 1] ELSE 0]
  /\ pc' = [p \in Player |-> "idle"]
  /\ UNCHANGED <<fighting, target, round, winners, hits, at, connected,
                 noticed, dying, drops, hunters, fights, todo, prey, seen>>

-----------------------------------------------------------------------------
Init ==
  /\ fighting = [m \in Mob |-> FALSE] /\ target = [m \in Mob |-> Nobody]
  /\ round = [m \in Mob |-> 0] /\ rest = [m \in Mob |-> 0]
  /\ hits = [m \in Mob |-> MaxHits]
  /\ at = [m \in Mob |-> "field"] /\ fled = [p \in Player |-> 0]
  /\ connected = Player
  /\ noticed = Nobody
  /\ fights = [f \in Task |-> NoFight]
  /\ respawns = [k \in 0..RespawnTicks |-> 0]
  /\ dying = [x \in Player \X Steps |-> 0]
  /\ phase = "packets" /\ todo = {}
  /\ pc = [p \in Player |-> "idle"] /\ prey = [p \in Player |-> Nobody] /\ seen = [p \in Player |-> 0]
  /\ drops = 0 /\ hunters = {} /\ winners = {}

Continue(p) == Engage(p) \/ Strike(p) \/ Judge(p)
Handler(p) == (\E m \in Mob : See(p, m) \/ Aim(p, m)) \/ Retreat(p) \/ Move(p)
RunFight(f) == FightWaits(f) \/ FightEnds(f) \/ Hit(f)
Dies(p) == Reward(p) \/ Leave(p)
Tick == StartNpcs \/ StartTasks \/ (\E f \in Task : RunFight(f)) \/ Respawn \/ EndTasks

Next ==
  \/ \E p \in Player : Handler(p) \/ Continue(p) \/ Disconnect(p) \/ Notices(p) \/ Dies(p)
  \/ Tick

Spec == Init /\ [][Next]_vars
FairSpec ==
  /\ Spec
  /\ \A p \in Player : WF_vars(Continue(p)) /\ WF_vars(Dies(p))
  /\ WF_vars(Tick)

-----------------------------------------------------------------------------
(* Types.  Hits are not negative as long as one player at most casts spells: only
   another spell can come between the two reads of a spell's target. *)
TypeOK ==
  /\ fighting \in [Mob -> BOOLEAN] /\ target \in [Mob -> Mob \cup {Nobody}]
  /\ round \in [Mob -> 0..RetreatRound] /\ rest \in [Mob -> 0..RestTicks]
  /\ hits \in [Mob -> (IF Cardinality(Caster) <= 1 THEN 0 ELSE -(Cardinality(Caster) * MaxHits))..MaxHits]
  /\ at \in [Mob -> Place \cup {"grave"}] /\ fled \in [Player -> 0..FledTicks]
  /\ connected \subseteq Player /\ noticed \in Player \cup {Nobody}
  /\ phase \in {"packets", "npcs", "tasks"} /\ todo \subseteq Task
  /\ \A m \in Mob : fighting[m] <=> target[m] # Nobody

Fighters(f) == IF fights[f] = NoFight THEN {} ELSE {fights[f].attacker, fights[f].defender}
InFight(m) == \E f \in Task : m \in Fighters(f)

(* Who is marked as fighting is in a fight task of the task list, or its blow
   killed a player, or an NPC is dying: whatever else ends a fight (a retreat,
   a teleport, a lost connection, a spell, two attackers at once, a task that
   outlived its fight), no one is left in StateFighting with no task to reset it. *)
OnlyWinnersStranded == \A m \in Mob : fighting[m] => InFight(m) \/ m \in winners \/ ~Prompt

(* The 2 seconds after a fight outlast its task (every 2 ticks), so a player and
   the NPC never fight in two tasks at once, each hitting in its turn. *)
OneTaskPerNpcFight ==
  \A f, g \in Task : npc \in Fighters(f) /\ Fighters(f) = Fighters(g) => f = g

(* An NPC that only one player hunts, in one way, drops once per life: its death
   goroutine races the next tick, but finds nobody else to kill it again. *)
LoneHunterOneDrop == Cardinality(hunters) <= 1 => drops <= 1

(* A player whose opponent lost the connection is not kept in the fight, also if
   the opponent left between being found attackable and being attacked. *)
LeftAlone ==
  \A p \in Player :
    fighting[p] /\ p \notin winners /\ target[p] \in Player \ connected
      ~> ~fighting[p] \/ p \in winners

-----------------------------------------------------------------------------
(* Refuted.  StateFighting means "The mob is fighting." (mob.go:24): between
   ticks, who has it is in a fight task.  After a player's death the killer is not. *)
FightersFight == phase = "packets" /\ Prompt => \A m \in Mob : fighting[m] => InFight(m)

(* Refuted.  However many hunt an NPC, it drops once per life. *)
OneDropPerLife == drops <= 1

(* Refuted.  A dead NPC comes back: its Respawn is lost when Killed's goroutine
   schedules it while the tick's tasks are being filtered. *)
ComesBack == at[npc] = "grave" ~> at[npc] = "field"
=============================================================================
