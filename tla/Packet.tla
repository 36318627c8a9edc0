-------------------------------- MODULE Packet -------------------------------
(***************************************************************************)
(* Writing and reading packets, pkg/game/net/packet.go.                    *)
(*                                                                         *)
(* A byte is the set of the places of its one bits, 7 the highest.  A      *)
(* packet is its FrameBuffer, of which ReadIndex bytes were read, and      *)
(* after an opcode bitIndex bits were packed.                              *)
(***************************************************************************)
EXTENDS Integers, Sequences

Byte(i) == {k \in 0..7 : (i \div 2^k) % 2 = 1}        \* byte(i), the low eight bits
Number(byte) ==
  LET Upto[k \in 0..8] == IF k = 0 THEN 0 ELSE Upto[k - 1] + (IF k - 1 \in byte THEN 2^(k - 1) ELSE 0)
  IN Upto[8]

NewPacket(payload) == [FrameBuffer |-> payload, ReadIndex |-> 0, bitIndex |-> 0]
NewEmptyPacket(opcode) == NewPacket(<<Byte(opcode)>>)

-----------------------------------------------------------------------------
AddBytes(packet, bytes) == [packet EXCEPT !.FrameBuffer = @ \o bytes]
AddUint(packet, i, size) == AddBytes(packet, [k \in 1..size |-> Byte(i \div 256^(size - k))])

(* The short form, or the long one with its first bit set, of numbers below 2^31. *)
AddSmart(packet, i, short, long) ==
  IF i < 2^(8 * short - 1) THEN AddUint(packet, i, short)
  ELSE [AddUint(packet, i, long) EXCEPT !.FrameBuffer[Len(packet.FrameBuffer) + 1] = @ \cup {7}]
AddSmart0832(packet, i) == AddSmart(packet, i, 1, 4)
AddSmart1632(packet, i) == AddSmart(packet, i, 2, 4)

(* The bytes from the first not full one on take the value's bits, the highest
   first: w.left of them to go, w.room of the byte's to fill.  Only the last
   byte's part is cut to its bits. *)
Grown(buffer, size) == buffer \o [k \in 1..(size - Len(buffer)) |-> {}]
FillByte(w, i) ==
  [w EXCEPT !.buffer[w.at] = (@ \ (0..(w.room - 1))) \cup Byte(i \div 2^(w.left - w.room)),
            !.at = @ + 1, !.left = @ - w.room, !.room = 8]
FinishByte(w, i) ==
  [w.buffer EXCEPT ![w.at] =
     LET Field == (w.room - w.left)..(w.room - 1)
     IN (@ \ Field) \cup (Byte((i % 2^w.left) * 2^(w.room - w.left)) \cap Field)]
AddBitmask(packet, i, numBits) ==
  LET bits == packet.bitIndex + numBits
      Filled[k \in 0..(numBits \div 8 + 1)] ==
        IF k = 0
        THEN [buffer |-> Grown(packet.FrameBuffer, (bits + 7) \div 8 + 1),
              at |-> packet.bitIndex \div 8 + 2, room |-> 8 - (packet.bitIndex % 8), left |-> numBits]
        ELSE IF Filled[k - 1].left > Filled[k - 1].room THEN FillByte(Filled[k - 1], i) ELSE Filled[k - 1]
  IN [packet EXCEPT !.bitIndex = bits, !.FrameBuffer = FinishByte(Filled[numBits \div 8 + 1], i)]
AddSignedBits(packet, i, numBits) == AddBitmask(packet, i % 2^numBits, numBits)

-----------------------------------------------------------------------------
Available(packet) == Len(packet.FrameBuffer) - packet.ReadIndex
(* Skipping past the end uses up the packet; rewinding past the start goes there. *)
Skip(packet, n) ==
  IF n < 0 THEN packet
  ELSE [packet EXCEPT !.ReadIndex = IF Available(packet) < n THEN Len(packet.FrameBuffer) ELSE @ + n]
Rewind(packet, n) ==
  IF n < 0 THEN packet ELSE [packet EXCEPT !.ReadIndex = IF n > @ THEN 0 ELSE @ - n]

Upcoming(packet, n) == SubSeq(packet.FrameBuffer, packet.ReadIndex + 1, packet.ReadIndex + n)
ReadUint(packet, size) ==
  LET Upto[k \in 0..size] == IF k = 0 THEN 0 ELSE 256 * Upto[k - 1] + Number(Upcoming(packet, size)[k])
  IN IF Available(packet) < size THEN 0 ELSE Upto[size]

(* A string ends before a NUL, or else before a line feed, but not where it
   starts; without either it is what is left. *)
EndsAt(packet, separator) ==
  LET Ends == {n \in 0..(Available(packet) - 1) : packet.FrameBuffer[packet.ReadIndex + n + 1] = separator}
  IN IF Ends = {} THEN 0 ELSE CHOOSE n \in Ends : \A k \in Ends : n <= k
StringLength(packet) ==
  IF EndsAt(packet, {}) > 0 THEN EndsAt(packet, {})
  ELSE IF EndsAt(packet, Byte(10)) > 0 THEN EndsAt(packet, Byte(10))
  ELSE Available(packet)
ReadString(packet) == Upcoming(packet, StringLength(packet))
StringRead(packet) == Skip(packet, StringLength(packet) + 1)
=============================================================================
