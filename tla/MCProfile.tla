------------------------------ MODULE MCProfile ------------------------------
(* Two accounts, one of which may come twice and has a coin.  The skills
   and attributes that go with a profile are pure, and looked at once, in the
   initial state. *)
EXTENDS Profile, Skills, Record, TLC
CONSTANTS alice, bob, coin

MCVisit == {<<alice, 1>>, <<alice, 2>>, <<bob, 1>>}
MCStored == (alice :> [inv |-> {coin}, bank |-> {}]) @@ (bob :> Empty)

(* The table of experience and its inverse agree. *)
ASSUME LevelsMatch

(* A new player, its hits healed, poisoned or as they should be, and two
   goroutines that award it experience. *)
Tables0(hits) ==
  LET new == [current |-> [s \in Skill |-> 1], maximum |-> [s \in Skill |-> 1], announced |-> FALSE,
              experience |-> [s \in Skill |-> 0]]
  IN  [SetStat(new, "hits", 10) EXCEPT !.current["hits"] = hits]
MCTable == {Tables0(hits) : hits \in {7, 10, 14}}
MCAwards == {DistributeMeleeExp(mode, exp) : mode \in {0, 2}, exp \in {20, 60}}

AwardsAdd ==
  \A t \in MCTable, one, two \in MCAwards :
    LET gains(s) == LET Sum[i \in 0..Len(one \o two)] ==
                          IF i = 0 THEN 0
                          ELSE Sum[i - 1] + (IF (one \o two)[i].skill = s THEN 5 * (one \o two)[i].amt ELSE 0)
                    IN  Sum[Len(one \o two)]
        worth(u, s) == ExperienceToLevel(u.experience[s])
    IN  /\ \A u \in Left(t, <<one, two>>) :
             /\ u.announced <=> CombatLevel(u.maximum) # CombatLevel(t.maximum)
             /\ \A s \in Skill :
                  /\ u.experience[s] = t.experience[s] + gains(s)
                  /\ u.maximum[s] >= worth(u, s)
                  /\ u.current[s] - u.maximum[s] = t.current[s] - t.maximum[s]
                  /\ LoadStat(StatRow(u, s)).maximum = worth(u, s)
        /\ \A u \in Left(t, <<one \o two>>), s \in Skill : u.maximum[s] = worth(u, s)

(* However awards overlap, no experience is lost, each skill's maximum is at
   least what its experience is worth - exactly that when one followed the
   other, and after the next login - and others are told of a new combat level,
   and of that only. *)
AwardsCatchUp == ProfileInit => AwardsAdd

(* What a logout stores of attributes is what a later login reads: numbers,
   settings and names as they were, times no further away than they were, and
   early by less than a minute. *)
RecordReturns == ProfileInit => AttributesReturn
=============================================================================
