---------------------------- MODULE SessionProofs ----------------------------
(* Proofs about Session: for any number of connections and any capacities, a
   session that was in the world is saved once, and a destroyed one stays out. *)
EXTENDS Session, SequenceTheorems, TLAPS

LEMMA InitIInv == Init => IInv
<1> SUFFICES ASSUME Init PROVE IInv OBVIOUS
<1>1. <<>> \in Seq(Conn) /\ Len(<<>>) = 0 /\ QueueCap \in Nat /\ Batch \in 0..Batch /\ 0 \in 0..InCap
  BY EmptySeq, SessionAssumption
<1>2. TypeOK
  BY <1>1 DEF Init, TypeOK, Causes
<1>3. QueuedOnce /\ NothingEarly
  BY <1>1 DEF Init, QueuedOnce, NothingEarly
<1>4. ListedWhileHere /\ ClosedByDestroy /\ SavedOnce /\ NoDoubleClose
  BY DEF Init, ListedWhileHere, ClosedByDestroy, SavedOnce, NoDoubleClose, InWorld
<1> QED BY <1>2, <1>3, <1>4 DEF IInv

(* Receiving from the front of a channel, and sending at its end. *)
LEMMA Received ==
  ASSUME NEW q \in Seq(Conn), q # <<>>
  PROVE  /\ Head(q) \in Conn /\ Head(q) = q[1] /\ 1 \in 1..Len(q)
         /\ Tail(q) \in Seq(Conn) /\ Len(Tail(q)) = Len(q) - 1 /\ Len(q) \in Nat
         /\ \A i \in 1..Len(Tail(q)) : Tail(q)[i] = q[i + 1] /\ i + 1 \in 1..Len(q) /\ i + 1 # 1
<1>1. Len(q) \in Nat \ {0}
  BY EmptySeq
<1> QED BY <1>1, HeadTailProperties

LEMMA Sent ==
  ASSUME NEW q \in Seq(Conn), NEW c \in Conn, Len(q) <= QueueCap, HasRoom(q)
  PROVE  /\ Append(q, c) \in Seq(Conn) /\ Len(Append(q, c)) <= QueueCap
         /\ \A i \in 1..Len(Append(q, c)) :
              \/ i \in 1..Len(q) /\ Append(q, c)[i] = q[i]
              \/ i \notin 1..Len(q) /\ i = Len(q) + 1 /\ Append(q, c)[i] = c
<1>1. Len(q) \in Nat /\ QueueCap \in Nat
  BY LenProperties, SessionAssumption
<1>2. /\ Append(q, c) \in Seq(Conn) /\ Len(Append(q, c)) = Len(q) + 1
      /\ \A i \in 1..Len(q) : Append(q, c)[i] = q[i]
      /\ Append(q, c)[Len(q) + 1] = c
  BY AppendProperties
<1> QED BY <1>1, <1>2 DEF HasRoom

-----------------------------------------------------------------------------
(* What the properties are about has not changed. *)
Same == UNCHANGED <<loginQ, logoutQ, pc, sends, listed, destroy, closed, saves>>

LEMMA SameIInv ==
  ASSUME IInv, TypeOK', Same, NoDoubleClose', todo' \subseteq listed \cup todo
  PROVE  IInv'
<1>1. QueuedOnce' /\ ListedWhileHere' /\ ClosedByDestroy' /\ SavedOnce'
  BY DEF IInv, Same, QueuedOnce, ListedWhileHere, ClosedByDestroy, SavedOnce
<1>2. NothingEarly'
  BY DEF IInv, Same, NothingEarly, ListedWhileHere, TypeOK
<1> QED BY <1>1, <1>2 DEF IInv

(* The engine changes phase, an update comes nearer, a write or a frame fails. *)
LEMMA QuietIInv ==
  ASSUME IInv,
         \/ LoginsDone \/ PacketsDone \/ SystemUpdate \/ UpdateTask \/ Exit \/ TasksDone \/ LogoutsDone
         \/ \E c \in Conn : WritePacket(c) \/ BrokenFrame(c)
  PROVE  IInv'
<1>1. Same
  BY DEF LoginsDone, PacketsDone, SystemUpdate, UpdateTask, Exit, TasksDone, LogoutsDone, WritePacket,
         BrokenFrame, Same, queues, teardown
<1>2. todo' \in {todo, listed} /\ budget' \in {budget, Batch} /\ writing' \subseteq writing
  BY DEF LoginsDone, PacketsDone, SystemUpdate, UpdateTask, Exit, TasksDone, LogoutsDone, WritePacket,
         BrokenFrame, tick
<1>3. /\ UNCHANGED <<inQ, cancelled, connected>>
      /\ phase' \in {phase, "logins", "packets", "tasks", "logouts"}
      /\ update' \in {update, "set", "due", "kicking", "exited"}
      /\ crash' \in {crash, "OutQueue", "NetError"}
  BY DEF LoginsDone, PacketsDone, SystemUpdate, UpdateTask, Exit, TasksDone, LogoutsDone, WritePacket,
         BrokenFrame, tick
<1>4. Batch \in 0..Batch
  BY SessionAssumption
<1>5. TypeOK'
  BY <1>1, <1>2, <1>3, <1>4 DEF IInv, TypeOK, Same, Causes
<1>6. NoDoubleClose'
  BY <1>3 DEF IInv, NoDoubleClose
<1> QED BY <1>1, <1>2, <1>5, <1>6, SameIInv

(* The engine tells the reader of a player it visits to end. *)
LEMMA VisitIInv ==
  ASSUME IInv, NEW c \in Conn, HandlePackets(c) \/ KickForUpdate(c)
  PROVE  IInv'
<1>1. /\ UNCHANGED <<loginQ, logoutQ, phase, budget, pc, listed, destroy, closed, saves, update, crash>>
      /\ c \in todo /\ todo' = todo \ {c}
      /\ \E by \in {"packet", "update"} : sends' \in {sends, sends \cup {Send(by, c)}}
  BY DEF HandlePackets, KickForUpdate, queues, teardown
<1>2. /\ cancelled' \subseteq Conn /\ connected' \subseteq Conn /\ writing' \subseteq Conn
      /\ inQ' \in [Conn -> 0..InCap]
  <2>1. 0 \in 0..InCap
    BY SessionAssumption
  <2>2. inQ' \in {inQ, [inQ EXCEPT ![c] = 0]}
    BY DEF HandlePackets, KickForUpdate
  <2>3. inQ' \in [Conn -> 0..InCap]
    BY <2>1, <2>2 DEF IInv, TypeOK
  <2> QED BY <2>3 DEF HandlePackets, KickForUpdate, IInv, TypeOK
<1>3. PICK by \in {"packet", "update"} : sends' \in {sends, sends \cup {Send(by, c)}}
  BY <1>1
<1>4. Send(by, c) \in [by : Senders, conn : Conn] /\ Send(by, c).conn = c
      /\ Send(by, c).by \notin {"read", "return"}
  BY DEF Send, Senders
<1>5. TypeOK'
  BY <1>1, <1>2, <1>3, <1>4 DEF IInv, TypeOK
<1>6. NothingEarly'
  <2>1. pc[c] \in InWorld
    BY <1>1 DEF IInv, NothingEarly
  <2>2. ASSUME NEW s \in sends'
        PROVE  /\ pc[s.conn] \in Answered
               /\ s.by \in {"read", "return"} => pc[s.conn] \in {"leaving", "over"}
    <3>1. s \in sends \/ s = Send(by, c)
      BY <1>3
    <3> QED BY <1>4, <2>1, <3>1 DEF IInv, NothingEarly, Answered
  <2> QED BY <1>1, <2>2 DEF IInv, NothingEarly
<1>7. QueuedOnce' /\ ListedWhileHere' /\ ClosedByDestroy' /\ SavedOnce' /\ NoDoubleClose'
  BY <1>1 DEF IInv, QueuedOnce, ListedWhileHere, ClosedByDestroy, SavedOnce, NoDoubleClose
<1> QED BY <1>5, <1>6, <1>7 DEF IInv

LEMMA AcceptIInv ==
  ASSUME IInv, NEW c \in Conn, Accept(c)
  PROVE  IInv'
<1>1. /\ UNCHANGED <<logoutQ, phase, budget, todo, writing, sends, inQ, cancelled, connected, listed,
                     destroy, closed, saves, update, crash>>
      /\ pc[c] = "off" /\ HasRoom(loginQ)
      /\ pc' = [pc EXCEPT ![c] = "queued"] /\ loginQ' = Append(loginQ, c)
  BY DEF Accept, tick, teardown
<1>2. loginQ \in Seq(Conn) /\ Len(loginQ) <= QueueCap /\ Len(loginQ) \in Nat
  BY LenProperties DEF IInv, TypeOK
<1>3. /\ loginQ' \in Seq(Conn) /\ Len(loginQ') <= QueueCap
      /\ \A i \in 1..Len(loginQ') :
              \/ i \in 1..Len(loginQ) /\ loginQ'[i] = loginQ[i]
              \/ i \notin 1..Len(loginQ) /\ i = Len(loginQ) + 1 /\ loginQ'[i] = c
  BY <1>1, <1>2, Sent
<1>4. TypeOK'
  BY <1>1, <1>3 DEF IInv, TypeOK
<1>5. pc'[c] = "queued" /\ \A d \in Conn : d # c => pc'[d] = pc[d]
  BY <1>1 DEF IInv, TypeOK
<1>6. QueuedOnce'
  <2>1. \A i \in 1..Len(loginQ) : loginQ[i] \in Conn /\ pc[loginQ[i]] = "queued" /\ loginQ[i] # c
    BY <1>1, <1>2, LenProperties DEF IInv, QueuedOnce
  <2>2. \A i, j \in 1..Len(loginQ) : loginQ[i] = loginQ[j] => i = j
    BY DEF IInv, QueuedOnce
  <2>3. ASSUME NEW i \in 1..Len(loginQ') PROVE pc'[loginQ'[i]] = "queued"
    BY <1>3, <1>5, <2>1
  <2>4. ASSUME NEW i \in 1..Len(loginQ'), NEW j \in 1..Len(loginQ'), loginQ'[i] = loginQ'[j] PROVE i = j
    BY <1>3, <2>1, <2>2, <2>4
  <2> QED BY <2>3, <2>4 DEF QueuedOnce
<1>7. \A d \in Conn : pc[d] \in Answered => pc'[d] = pc[d]
  BY <1>1, <1>5 DEF Answered, InWorld
<1>8. NothingEarly'
  <2>1. \A s \in sends : s.conn \in Conn
    BY DEF IInv, TypeOK
  <2>2. \A i \in 1..Len(logoutQ) : logoutQ[i] \in Conn
    BY LenProperties DEF IInv, TypeOK
  <2>3. \A d \in todo : d \in Conn
    BY DEF IInv, TypeOK
  <2> QED BY <1>1, <1>7, <2>1, <2>2, <2>3 DEF IInv, NothingEarly, Answered
<1>9. ListedWhileHere'
  BY <1>1, <1>5 DEF IInv, ListedWhileHere, InWorld
<1>10. ClosedByDestroy' /\ NoDoubleClose'
  BY <1>1 DEF IInv, ClosedByDestroy, NoDoubleClose
<1>11. SavedOnce'
  <2>1. destroy[c] = "no"
    BY <1>1 DEF IInv, NothingEarly, TypeOK, Answered, InWorld
  <2> QED BY <1>1, <1>5, <2>1 DEF IInv, SavedOnce
<1> QED BY <1>4, <1>6, <1>8, <1>9, <1>10, <1>11 DEF IInv

(* A send on logoutQ is completed. *)
LEMMA SubmitLogoutIInv ==
  ASSUME IInv, NEW s \in sends, SubmitLogout(s)
  PROVE  IInv'
<1>1. /\ UNCHANGED <<loginQ, phase, budget, todo, writing, inQ, cancelled, connected, listed,
                     destroy, closed, saves, update, crash>>
      /\ HasRoom(logoutQ) /\ logoutQ' = Append(logoutQ, s.conn)
      /\ sends' = (sends \ {s}) \cup (IF s.by = "read" THEN {Send("return", s.conn)} ELSE {})
      /\ pc' = IF s.by = "return" THEN [pc EXCEPT ![s.conn] = "over"] ELSE pc
  BY DEF SubmitLogout, tick, teardown
<1>2. /\ s.conn \in Conn /\ pc[s.conn] \in Answered
      /\ s.by \in {"read", "return"} => pc[s.conn] \in {"leaving", "over"}
      /\ Send("return", s.conn) \in [by : Senders, conn : Conn]
      /\ Send("return", s.conn).conn = s.conn
  BY DEF IInv, NothingEarly, TypeOK, Send, Senders
<1>3. /\ logoutQ' \in Seq(Conn) /\ Len(logoutQ') <= QueueCap
      /\ \A i \in 1..Len(logoutQ') :
              \/ i \in 1..Len(logoutQ) /\ logoutQ'[i] = logoutQ[i]
              \/ i \notin 1..Len(logoutQ) /\ i = Len(logoutQ) + 1 /\ logoutQ'[i] = s.conn
  BY <1>1, <1>2, Sent DEF IInv, TypeOK
<1>4. pc' \in [Conn -> {"off", "queued", "abandoned", "refused", "spawned", "reading", "holding",
                        "leaving", "over"}]
  BY <1>1, <1>2 DEF IInv, TypeOK
<1>5. TypeOK'
  BY <1>1, <1>2, <1>3, <1>4 DEF IInv, TypeOK
<1>6. /\ \A d \in Conn : pc'[d] = pc[d] \/ (pc[d] \in {"leaving", "over"} /\ pc'[d] = "over")
  BY <1>1, <1>2 DEF IInv, TypeOK
<1>7. \A d \in Conn : /\ pc[d] \in Answered => pc'[d] \in Answered
                      /\ pc[d] \in InWorld <=> pc'[d] \in InWorld
                      /\ pc[d] \in {"leaving", "over"} => pc'[d] \in {"leaving", "over"}
                      /\ pc[d] = "refused" <=> pc'[d] = "refused"
                      /\ pc[d] = "queued" => pc'[d] = "queued"
  BY <1>6 DEF Answered, InWorld
<1>8. QueuedOnce'
  <2>1. \A i \in 1..Len(loginQ) : loginQ[i] \in Conn
    BY LenProperties DEF IInv, TypeOK
  <2> QED BY <1>1, <1>7, <2>1 DEF IInv, QueuedOnce
<1>9. NothingEarly'
  <2>1. ASSUME NEW t \in sends'
        PROVE  /\ pc'[t.conn] \in Answered
               /\ t.by \in {"read", "return"} => pc'[t.conn] \in {"leaving", "over"}
    <3>1. CASE t \in sends
      <4>1. t.conn \in Conn
        BY <3>1 DEF IInv, TypeOK
      <4> QED BY <1>7, <3>1, <4>1 DEF IInv, NothingEarly
    <3>2. CASE t \notin sends
      <4>1. t.conn = s.conn /\ s.by = "read"
        BY <1>1, <1>2, <3>2
      <4> QED BY <1>2, <1>7, <4>1
    <3> QED BY <3>1, <3>2
  <2>2. ASSUME NEW i \in 1..Len(logoutQ') PROVE pc'[logoutQ'[i]] \in Answered
    <3>1. \A j \in 1..Len(logoutQ) : logoutQ[j] \in Conn /\ pc[logoutQ[j]] \in Answered
      BY LenProperties DEF IInv, TypeOK, NothingEarly
    <3> QED BY <1>2, <1>3, <1>7, <3>1
  <2>3. ASSUME NEW d \in Conn, destroy'[d] # "no" PROVE pc'[d] \in Answered
    BY <1>1, <1>7, <2>3 DEF IInv, NothingEarly
  <2>4. ASSUME NEW d \in todo' PROVE pc'[d] \in InWorld
    BY <1>1, <1>7 DEF IInv, NothingEarly, TypeOK
  <2> QED BY <2>1, <2>2, <2>3, <2>4 DEF NothingEarly
<1>10. ListedWhileHere' /\ ClosedByDestroy' /\ SavedOnce' /\ NoDoubleClose'
  BY <1>1, <1>7 DEF IInv, ListedWhileHere, ClosedByDestroy, SavedOnce, NoDoubleClose
<1> QED BY <1>5, <1>8, <1>9, <1>10 DEF IInv

(* One look at loginQ: the connection taken is abandoned, refused or accepted,
   and was in the queue only once. *)
LEMMA HandleLoginIInv ==
  ASSUME IInv, HandleLogin
  PROVE  IInv'
<1>1. /\ UNCHANGED <<logoutQ, phase, todo, writing, inQ, connected, listed, destroy, closed, saves,
                     update, crash>>
      /\ budget > 0 /\ budget' = budget - 1
  BY DEF HandleLogin, Looked, teardown
<1>2. budget' \in 0..Batch
  BY <1>1, SessionAssumption DEF IInv, TypeOK
<1>3. CASE loginQ = <<>>
  <2>1. UNCHANGED <<loginQ, pc, sends, cancelled>>
    BY <1>3 DEF HandleLogin
  <2>2. TypeOK'
    BY <1>1, <1>2, <2>1 DEF IInv, TypeOK
  <2>3. Same /\ NoDoubleClose'
    BY <1>1, <2>1 DEF Same, IInv, NoDoubleClose
  <2> QED BY <1>1, <2>2, <2>3, SameIInv
<1>4. CASE loginQ # <<>>
  <2> DEFINE c == Head(loginQ)
  <2>1. loginQ \in Seq(Conn) /\ Len(loginQ) <= QueueCap /\ QueueCap \in Nat
    BY SessionAssumption DEF IInv, TypeOK
  <2>2. /\ c \in Conn /\ c = loginQ[1] /\ 1 \in 1..Len(loginQ)
        /\ Tail(loginQ) \in Seq(Conn) /\ Len(Tail(loginQ)) = Len(loginQ) - 1 /\ Len(loginQ) \in Nat
        /\ \A i \in 1..Len(Tail(loginQ)) : /\ Tail(loginQ)[i] = loginQ[i + 1]
                                          /\ i + 1 \in 1..Len(loginQ) /\ i + 1 # 1
    BY <1>4, <2>1, Received
  <2>3. loginQ' = Tail(loginQ)
    BY <1>4 DEF HandleLogin
  <2>4. pc[c] = "queued" /\ \A i \in 1..Len(Tail(loginQ)) : loginQ[i + 1] # c
    BY <2>2 DEF IInv, QueuedOnce
  <2>5. PICK label \in {"abandoned", "refused", "spawned"} :
          /\ pc' = [pc EXCEPT ![c] = label]
          /\ label = "refused" \/ sends' = sends
          /\ sends' \in {sends, sends \cup {Send("login", c)}}
          /\ cancelled' \in {cancelled, cancelled \cup {c}}
    BY <1>4 DEF HandleLogin, LoginAbandoned, LoginRefused, LoginAccepted
  <2> HIDE DEF c
  <2>6. pc'[c] = label /\ \A d \in Conn : d # c => pc'[d] = pc[d]
    BY <2>2, <2>5 DEF IInv, TypeOK
  <2>7. /\ Send("login", c) \in [by : Senders, conn : Conn]
        /\ Send("login", c).conn = c /\ Send("login", c).by = "login"
    BY <2>2 DEF Send, Senders
  <2>8. TypeOK'
    <3>1. Len(loginQ') <= QueueCap
      BY <2>1, <2>2, <2>3
    <3> QED BY <1>1, <1>2, <2>2, <2>3, <2>5, <2>7, <3>1 DEF IInv, TypeOK
  <2>9. QueuedOnce'
    <3>1. ASSUME NEW i \in 1..Len(loginQ') PROVE pc'[loginQ'[i]] = "queued"
      <4>1. i + 1 \in 1..Len(loginQ) /\ loginQ'[i] = loginQ[i + 1] /\ loginQ[i + 1] # c
        BY <2>2, <2>3, <2>4
      <4>2. loginQ[i + 1] \in Conn /\ pc[loginQ[i + 1]] = "queued"
        BY <2>1, <4>1, LenProperties DEF IInv, QueuedOnce
      <4> QED BY <2>6, <4>1, <4>2
    <3>2. ASSUME NEW i \in 1..Len(loginQ'), NEW j \in 1..Len(loginQ'), loginQ'[i] = loginQ'[j] PROVE i = j
      <4>1. /\ i + 1 \in 1..Len(loginQ) /\ j + 1 \in 1..Len(loginQ)
            /\ loginQ[i + 1] = loginQ[j + 1]
        BY <2>2, <2>3, <3>2
      <4>2. i + 1 = j + 1
        BY <4>1 DEF IInv, QueuedOnce
      <4> QED BY <4>2
    <3> QED BY <3>1, <3>2 DEF QueuedOnce
  <2>10. /\ pc[c] \notin Answered /\ pc[c] \notin InWorld /\ pc'[c] \notin InWorld
         /\ label = "refused" => pc'[c] \in Answered
    BY <2>4, <2>6 DEF Answered, InWorld
  <2>11. destroy[c] = "no"
    BY <2>2, <2>10 DEF IInv, NothingEarly
  <2>12. NothingEarly'
    <3>1. ASSUME NEW s \in sends'
          PROVE  /\ pc'[s.conn] \in Answered
                 /\ s.by \in {"read", "return"} => pc'[s.conn] \in {"leaving", "over"}
      <4>1. CASE s \in sends
        <5>1. s.conn \in Conn /\ pc[s.conn] \in Answered /\ s.conn # c
          BY <2>10, <4>1 DEF IInv, TypeOK, NothingEarly
        <5> QED BY <2>6, <4>1, <5>1 DEF IInv, NothingEarly
      <4>2. CASE s \notin sends
        BY <2>5, <2>7, <2>10, <4>2
      <4> QED BY <4>1, <4>2
    <3>2. ASSUME NEW i \in 1..Len(logoutQ') PROVE pc'[logoutQ'[i]] \in Answered
      <4>1. logoutQ[i] \in Conn /\ pc[logoutQ[i]] \in Answered
        BY <1>1, LenProperties DEF IInv, TypeOK, NothingEarly
      <4> QED BY <1>1, <2>6, <2>10, <4>1
    <3>3. ASSUME NEW d \in Conn, destroy'[d] # "no" PROVE pc'[d] \in Answered
      BY <1>1, <2>6, <2>11, <3>3 DEF IInv, NothingEarly
    <3>4. ASSUME NEW d \in todo' PROVE pc'[d] \in InWorld
      BY <1>1, <2>6, <2>10 DEF IInv, NothingEarly, TypeOK
    <3> QED BY <3>1, <3>2, <3>3, <3>4 DEF NothingEarly
  <2>13. ListedWhileHere' /\ ClosedByDestroy' /\ NoDoubleClose'
    BY <1>1, <2>6, <2>10 DEF IInv, ListedWhileHere, ClosedByDestroy, NoDoubleClose
  <2>14. SavedOnce'
    BY <1>1, <2>6, <2>11 DEF IInv, SavedOnce
  <2> QED BY <2>8, <2>9, <2>12, <2>13, <2>14 DEF IInv
<1> QED BY <1>3, <1>4

(* One look at logoutQ: whoever is in it has been answered. *)
LEMMA RunLogoutIInv ==
  ASSUME IInv, RunLogout
  PROVE  IInv'
<1>1. /\ UNCHANGED <<loginQ, phase, todo, writing, pc, sends, inQ, cancelled, connected, listed, closed,
                     saves, update, crash>>
      /\ budget > 0 /\ budget' = budget - 1
  BY DEF RunLogout, Looked
<1>2. budget' \in 0..Batch
  BY <1>1, SessionAssumption DEF IInv, TypeOK
<1>3. CASE logoutQ = <<>>
  <2>1. UNCHANGED <<logoutQ, destroy>>
    BY <1>3 DEF RunLogout
  <2>2. TypeOK'
    BY <1>1, <1>2, <2>1 DEF IInv, TypeOK
  <2>3. Same /\ NoDoubleClose'
    BY <1>1, <2>1 DEF Same, IInv, NoDoubleClose
  <2> QED BY <1>1, <2>2, <2>3, SameIInv
<1>4. CASE logoutQ # <<>>
  <2> DEFINE c == Head(logoutQ)
  <2>1. logoutQ \in Seq(Conn) /\ Len(logoutQ) <= QueueCap /\ QueueCap \in Nat
    BY SessionAssumption DEF IInv, TypeOK
  <2>2. /\ c \in Conn /\ c = logoutQ[1] /\ 1 \in 1..Len(logoutQ)
        /\ Tail(logoutQ) \in Seq(Conn) /\ Len(Tail(logoutQ)) = Len(logoutQ) - 1 /\ Len(logoutQ) \in Nat
        /\ \A i \in 1..Len(Tail(logoutQ)) : /\ Tail(logoutQ)[i] = logoutQ[i + 1]
                                           /\ i + 1 \in 1..Len(logoutQ) /\ i + 1 # 1
    BY <1>4, <2>1, Received
  <2>3. logoutQ' = Tail(logoutQ) /\ destroy' = Called(c)
    BY <1>4 DEF RunLogout
  <2>4. pc[c] \in Answered
    BY <2>2 DEF IInv, NothingEarly
  <2> HIDE DEF c
  <2>5. /\ destroy' \in [Conn -> {"no", "called", "disconnected", "closed", "gone"}]
        /\ \A d \in Conn : destroy'[d] = destroy[d] \/ (d = c /\ destroy[d] = "no" /\ destroy'[d] = "called")
    BY <2>2, <2>3 DEF Called, IInv, TypeOK
  <2>6. TypeOK'
    <3>1. Len(logoutQ') <= QueueCap
      BY <2>1, <2>2, <2>3
    <3> QED BY <1>1, <1>2, <2>2, <2>3, <2>5, <3>1 DEF IInv, TypeOK
  <2>7. NothingEarly'
    <3>1. ASSUME NEW i \in 1..Len(logoutQ') PROVE pc[logoutQ'[i]] \in Answered
      BY <2>2, <2>3 DEF IInv, NothingEarly
    <3>2. ASSUME NEW d \in Conn, destroy'[d] # "no" PROVE pc[d] \in Answered
      BY <2>4, <2>5, <3>2 DEF IInv, NothingEarly
    <3> QED BY <1>1, <3>1, <3>2 DEF IInv, NothingEarly
  <2>8. QueuedOnce' /\ NoDoubleClose'
    BY <1>1 DEF IInv, QueuedOnce, NoDoubleClose
  <2>9. ListedWhileHere' /\ ClosedByDestroy' /\ SavedOnce'
    BY <1>1, <2>5 DEF IInv, ListedWhileHere, ClosedByDestroy, SavedOnce
  <2> QED BY <2>6, <2>7, <2>8, <2>9 DEF IInv
<1> QED BY <1>3, <1>4

-----------------------------------------------------------------------------
(* The session's own goroutine enters the world and reads on, until it leaves. *)
LEMMA ReaderIInv ==
  ASSUME IInv, NEW c \in Conn, Reader(c)
  PROVE  IInv'
<1>1. /\ UNCHANGED <<loginQ, logoutQ, phase, budget, todo, writing, connected, destroy, closed, saves, update>>
      /\ cancelled' \in {cancelled, cancelled \cup {c}}
      /\ crash' \in {crash, "InQueue"}
  BY DEF Reader, AddPlayer, ReadPacket, Deliver, StopReading, Leave, queues, tick, teardown
<1>2. /\ pc[c] \in {"spawned", "reading", "holding"}
      /\ \/ pc[c] = "holding" /\ pc' = pc
         \/ \E label \in {"reading", "holding", "leaving"} : pc' = [pc EXCEPT ![c] = label]
      /\ pc[c] = "spawned" => pc' # pc /\ listed' = listed \cup {c}
      /\ pc[c] # "spawned" => listed' = listed
      /\ sends' = sends \/ /\ pc' = [pc EXCEPT ![c] = "leaving"]
                           /\ \E by \in {"read", "return"} : sends' = sends \cup {Send(by, c)}
  <2>1. CASE AddPlayer(c)
    <3>1. [pc EXCEPT ![c] = "reading"] # pc
      <4>1. pc[c] = "spawned" /\ [pc EXCEPT ![c] = "reading"][c] = "reading"
        BY <2>1 DEF AddPlayer, IInv, TypeOK
      <4> QED BY <4>1
    <3> QED BY <2>1, <3>1 DEF AddPlayer
  <2>2. CASE ReadPacket(c)
    BY <2>2 DEF ReadPacket
  <2>3. CASE Deliver(c)
    <3>1. pc[c] = "holding" /\ listed' = listed
      BY <2>3 DEF Deliver
    <3>2. \/ pc' = pc /\ sends' = sends
          \/ Leave(c, "return")
          \/ pc' = [pc EXCEPT ![c] = "reading"] /\ sends' = sends
      BY <2>3 DEF Deliver
    <3> QED BY <3>1, <3>2 DEF Leave
  <2>4. CASE StopReading(c)
    <3>1. pc[c] = "reading" /\ listed' = listed
      BY <2>4 DEF StopReading
    <3>2. PICK by \in {"read", "return"} : Leave(c, by)
      BY <2>4 DEF StopReading
    <3> QED BY <3>1, <3>2 DEF Leave
  <2> QED BY <2>1, <2>2, <2>3, <2>4 DEF Reader
<1>3. inQ' \in [Conn -> 0..InCap]
  <2>1. CASE inQ' = inQ
    BY <2>1 DEF IInv, TypeOK
  <2>2. CASE inQ[c] < InCap /\ inQ' = [inQ EXCEPT ![c] = @ + 1]
    <3>1. inQ[c] + 1 \in 0..InCap
      BY <2>2, SessionAssumption DEF IInv, TypeOK
    <3> QED BY <2>2, <3>1 DEF IInv, TypeOK
  <2> QED BY <2>1, <2>2 DEF Reader, AddPlayer, ReadPacket, Deliver, StopReading
<1>4. /\ \A by \in {"read", "return"} : /\ Send(by, c) \in [by : Senders, conn : Conn]
                                        /\ Send(by, c).conn = c
  BY DEF Send, Senders
<1>5. TypeOK'
  <2>1. pc' \in [Conn -> {"off", "queued", "abandoned", "refused", "spawned", "reading", "holding",
                          "leaving", "over"}]
    BY <1>2 DEF IInv, TypeOK, InWorld
  <2>2. sends' \subseteq [by : Senders, conn : Conn] /\ listed' \subseteq Conn
    BY <1>2, <1>4 DEF IInv, TypeOK
  <2> QED BY <1>1, <1>3, <2>1, <2>2 DEF IInv, TypeOK, Causes
<1>6. pc'[c] \in InWorld /\ \A d \in Conn : d # c => pc'[d] = pc[d]
  <2>1. CASE pc' = pc
    BY <1>2, <2>1 DEF InWorld
  <2>2. ASSUME NEW label \in {"reading", "holding", "leaving"}, pc' = [pc EXCEPT ![c] = label]
        PROVE  pc'[c] \in InWorld /\ \A d \in Conn : d # c => pc'[d] = pc[d]
    BY <2>2 DEF IInv, TypeOK, InWorld
  <2> QED BY <1>2, <2>1, <2>2
<1>7. \A d \in Conn : /\ pc[d] \in Answered => pc'[d] \in Answered
                      /\ pc[d] \in InWorld => pc'[d] \in InWorld
                      /\ pc[d] \in {"leaving", "over"} => pc'[d] \in {"leaving", "over"}
                      /\ pc[d] = "queued" => pc'[d] = "queued"
                      /\ pc[d] = "refused" <=> pc'[d] = "refused"
  BY <1>2, <1>6 DEF Answered, InWorld
<1>8. QueuedOnce'
  <2>1. \A i \in 1..Len(loginQ) : loginQ[i] \in Conn
    BY LenProperties DEF IInv, TypeOK
  <2> QED BY <1>1, <1>7, <2>1 DEF IInv, QueuedOnce
<1>9. NothingEarly'
  <2>1. ASSUME NEW s \in sends'
        PROVE  /\ pc'[s.conn] \in Answered
               /\ s.by \in {"read", "return"} => pc'[s.conn] \in {"leaving", "over"}
    <3>1. CASE s \in sends
      <4>1. s.conn \in Conn
        BY <3>1 DEF IInv, TypeOK
      <4> QED BY <1>7, <3>1, <4>1 DEF IInv, NothingEarly
    <3>2. CASE s \notin sends
      <4>1. s.conn = c /\ pc'[c] = "leaving"
        BY <1>2, <1>4, <3>2 DEF IInv, TypeOK
      <4> QED BY <4>1 DEF Answered, InWorld
    <3> QED BY <3>1, <3>2
  <2>2. \A i \in 1..Len(logoutQ) : logoutQ[i] \in Conn
    BY LenProperties DEF IInv, TypeOK
  <2>3. \A d \in todo : d \in Conn
    BY DEF IInv, TypeOK
  <2> QED BY <1>1, <1>7, <2>1, <2>2, <2>3 DEF IInv, NothingEarly
<1>10. ListedWhileHere'
  <2>1. CASE pc[c] = "spawned"
    <3>1. destroy[c] = "no"
      BY <2>1 DEF IInv, NothingEarly, Answered, InWorld
    <3> QED BY <1>1, <1>2, <1>6, <2>1, <3>1 DEF IInv, ListedWhileHere
  <2>2. CASE pc[c] # "spawned"
    <3>1. pc[c] \in InWorld
      BY <1>2, <2>2 DEF InWorld
    <3> QED BY <1>1, <1>2, <1>6, <2>2, <3>1 DEF IInv, ListedWhileHere
  <2> QED BY <2>1, <2>2
<1>11. ClosedByDestroy' /\ SavedOnce' /\ NoDoubleClose'
  BY <1>1, <1>7 DEF IInv, ClosedByDestroy, SavedOnce, NoDoubleClose
<1> QED BY <1>5, <1>8, <1>9, <1>10, <1>11 DEF IInv

(* Destroy goes from one step to the next, and saves who is listed. *)
LEMMA DestroyerIInv ==
  ASSUME IInv, NEW c \in Conn, Destroyer(c)
  PROVE  IInv'
<1>1. /\ UNCHANGED <<loginQ, logoutQ, phase, budget, todo, writing, pc, sends, inQ, update>>
      /\ cancelled' \in {cancelled, cancelled \cup {c}} /\ connected' \subseteq connected
  BY DEF Destroyer, Disconnect, CloseQueues, Remove, queues, tick
<1>2. /\ destroy[c] # "no" /\ destroy[c] # "gone" /\ pc[c] \in Answered
      /\ destroy' \in [Conn -> {"no", "called", "disconnected", "closed", "gone"}]
      /\ destroy'[c] \in {"disconnected", "closed", "gone"}
      /\ \A d \in Conn : d # c => destroy'[d] = destroy[d]
  BY DEF Destroyer, Disconnect, CloseQueues, Remove, IInv, TypeOK, NothingEarly
<1>3. QueuedOnce'
  BY <1>1 DEF IInv, QueuedOnce
<1>4. NothingEarly'
  <2>1. \A d \in Conn : destroy'[d] # "no" => pc[d] \in Answered
    BY <1>2 DEF IInv, NothingEarly
  <2> QED BY <1>1, <2>1 DEF IInv, NothingEarly
<1>5. CASE Disconnect(c)
  <2>1. /\ UNCHANGED <<listed, closed, saves, crash>>
        /\ destroy[c] = "called" /\ destroy'[c] = "disconnected"
    BY <1>5 DEF Disconnect, IInv, TypeOK
  <2>2. TypeOK'
    BY <1>1, <1>2, <2>1 DEF IInv, TypeOK
  <2>3. ListedWhileHere' /\ ClosedByDestroy' /\ SavedOnce' /\ NoDoubleClose'
    BY <1>1, <1>2, <2>1 DEF IInv, ListedWhileHere, ClosedByDestroy, SavedOnce, NoDoubleClose
  <2> QED BY <1>3, <1>4, <2>2, <2>3 DEF IInv
<1>6. CASE CloseQueues(c)
  <2>1. /\ UNCHANGED <<listed, saves>>
        /\ destroy[c] = "disconnected" /\ destroy'[c] = "closed" /\ closed' = closed \cup {c}
        /\ crash' = IF c \in closed THEN "close" ELSE crash
    BY <1>6 DEF CloseQueues, IInv, TypeOK
  <2>2. crash' = crash
    BY <2>1 DEF IInv, ClosedByDestroy
  <2>3. TypeOK'
    BY <1>1, <1>2, <2>1, <2>2 DEF IInv, TypeOK
  <2>4. ListedWhileHere' /\ ClosedByDestroy' /\ SavedOnce' /\ NoDoubleClose'
    BY <1>1, <1>2, <2>1, <2>2 DEF IInv, ListedWhileHere, ClosedByDestroy, SavedOnce, NoDoubleClose
  <2> QED BY <1>3, <1>4, <2>3, <2>4 DEF IInv
<1>7. CASE Remove(c)
  <2>1. /\ UNCHANGED <<closed, crash>>
        /\ destroy[c] = "closed" /\ destroy'[c] = "gone"
        /\ saves' = SaveBegun(c) /\ listed' = listed \ {c}
    BY <1>7 DEF Remove, IInv, TypeOK
  <2>2. saves[c] = 0 /\ (c \in listed <=> pc[c] # "refused")
    BY <1>2, <2>1 DEF IInv, SavedOnce, ListedWhileHere, Answered, InWorld
  <2>3. /\ saves' \in [Conn -> Nat]
        /\ saves'[c] = IF pc[c] # "refused" THEN 1 ELSE 0
        /\ \A d \in Conn : d # c => saves'[d] = saves[d]
    BY <2>1, <2>2 DEF SaveBegun, IInv, TypeOK
  <2>4. TypeOK'
    BY <1>1, <1>2, <2>1, <2>3 DEF IInv, TypeOK
  <2>5. SavedOnce'
    BY <1>1, <1>2, <2>1, <2>3 DEF IInv, SavedOnce
  <2>6. ListedWhileHere' /\ ClosedByDestroy' /\ NoDoubleClose'
    BY <1>1, <1>2, <2>1 DEF IInv, ListedWhileHere, ClosedByDestroy, NoDoubleClose
  <2> QED BY <1>3, <1>4, <2>4, <2>5, <2>6 DEF IInv
<1> QED BY <1>5, <1>6, <1>7 DEF Destroyer

LEMMA NextIInv == IInv /\ [Next]_vars => IInv'
<1> SUFFICES ASSUME IInv, [Next]_vars PROVE IInv' OBVIOUS
<1>1. CASE UNCHANGED vars
  <2>1. /\ Same /\ UNCHANGED <<phase, budget, todo, writing, inQ, cancelled, connected, update, crash>>
    BY <1>1 DEF vars, Same
  <2>2. TypeOK'
    BY <2>1 DEF IInv, TypeOK, Same
  <2> QED BY <2>1, <2>2, SameIInv DEF IInv, NoDoubleClose
<1>2. CASE \/ LoginsDone \/ PacketsDone \/ SystemUpdate \/ UpdateTask \/ Exit \/ TasksDone \/ LogoutsDone
           \/ \E c \in Conn : WritePacket(c) \/ BrokenFrame(c)
  BY <1>2, QuietIInv
<1>3. CASE \E c \in Conn : HandlePackets(c) \/ KickForUpdate(c)
  BY <1>3, VisitIInv
<1>4. CASE HandleLogin \/ RunLogout
  BY <1>4, HandleLoginIInv, RunLogoutIInv
<1>5. CASE \E s \in sends : SubmitLogout(s)
  BY <1>5, SubmitLogoutIInv
<1>6. CASE \E c \in Conn : Accept(c) \/ Reader(c) \/ Destroyer(c)
  BY <1>6, AcceptIInv, ReaderIInv, DestroyerIInv
<1> QED BY <1>1, <1>2, <1>3, <1>4, <1>5, <1>6 DEF Next, Engine

-----------------------------------------------------------------------------
(* For any connections and capacities, under every interleaving of the engine,
   the readers, the senders of logoutQ and the Destroys. *)
THEOREM SessionInvariant == Spec => []IInv
BY InitIInv, NextIInv, PTL DEF Spec

(* A session that was in the world is saved when it ends, exactly once, however
   many goroutines ask for its end. *)
THEOREM SessionsSavedOnce == Spec => []SavedOnce
<1>1. IInv => SavedOnce BY DEF IInv
<1> QED BY <1>1, SessionInvariant, PTL

(* A destroyed player is out of world.Players for good: no Destroy overtakes
   the AddPlayer of its own session. *)
THEOREM NoZombies == Spec => []NoZombie
<1>1. IInv => NoZombie
  BY DEF IInv, NoZombie, ListedWhileHere, NothingEarly, Answered, InWorld
<1> QED BY <1>1, SessionInvariant, PTL

(* The queues of a player are closed once, though he may be in logoutQ often. *)
THEOREM QueuesClosedOnce == Spec => []NoDoubleClose
<1>1. IInv => NoDoubleClose BY DEF IInv
<1> QED BY <1>1, SessionInvariant, PTL
=============================================================================
