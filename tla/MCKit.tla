-------------------------------- MODULE MCKit --------------------------------
(* A two-handed axe, which covers what a shield covers too, bones, bananas and
   runes, with three slots, a bank of two, and stacks of three. *)
EXTENDS Kit
CONSTANTS rune, bones, banana, axe, shield

MCId == {rune, bones, banana, axe, shield}
MCType == (axe :> {"hand", "arm"}) @@ (shield :> {"arm"}) @@ [id \in {rune, bones, banana} |-> {}]
MCPos == (shield :> 3) @@ [id \in MCId |-> 4]
MCBonus == [id \in MCId |-> IF id \in {axe, shield} THEN 1 ELSE 0]
MCUnlike == [id \in MCId |-> IF id = axe THEN 2 ELSE 1]
MCPrice == (axe :> 50) @@ (shield :> 20) @@ [id \in MCId |-> 1]
MCFirst == <<NewItem(shield, 1), NewItem(axe, 1), NewItem(rune, 1)>>
MCNew == {<<bones, 1>>, <<rune, 3>>}
MCNewTwo == {<<bones, 2>>}

ASSUME DefinitionsFit == OneByOne /\ Alike
=============================================================================
