----------------------------- MODULE MCSession -----------------------------
(* Small instances of Session: one connection, two of different accounts, or
   two of the same account. *)
EXTENDS Session, TLC

CONSTANTS c1, c2, alice, bob

MCConn1    == {c1}
MCConn2    == {c1, c2}
MCAccount  == {alice, bob}
MCOneName  == c1 :> alice
MCTwoNames == c1 :> alice @@ c2 :> bob
MCSameName == c1 :> alice @@ c2 :> alice
=============================================================================
