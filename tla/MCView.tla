------------------------------- MODULE MCView -------------------------------
(* Two players and an NPC on four tiles of two regions; who is two tiles away
   stays in view, who is one tile away comes into it.  And what chat messages,
   packets and names are to the one who reads them. *)
EXTENDS View, ChatCipher, Packet, Base37
CONSTANTS ann, ben, rat
MCStart == (ann :> 1) @@ (ben :> 2) @@ (rat :> 2)

Short == {<<c>> : c \in Charset} \cup {<<c, d>> : c \in Charset, d \in Charset}
Bytes(bits) == [i \in 1..(Len(bits) \div 8) |-> {j \in 0..7 : bits[8 * i - j]}]
BitsOf(bytes) == [i \in 1..(8 * Len(bytes)) |-> (-i) % 8 \in bytes[(i + 7) \div 8]]
Cuts(bytes) == {i \in 2..Len(bytes) : bytes[i] \in {{}, {1, 3}}}      \* NUL and line feed
Heard(bytes, size) == Decipher(BitsOf(ReadString(NewPacket(bytes))), size)
AllReturn ==
  \A msg \in Short :
    LET bits == Encipher(msg) IN
    /\ SubSeq(Decipher(bits, Size(msg)), 1, Len(msg)) = msg
    /\ Cuts(Bytes(bits)) = {} => SubSeq(Heard(Bytes(bits), Size(msg)), 1, Len(msg)) = msg

(* A message of one or two symbols of the chat's charset is read as it was
   written: the tables init builds from the lengths of the codes give every
   symbol a code of its own, to which the dictionary leads.  So it is when the
   handler has taken it out of a packet as a string, unless one of its bytes
   after the first ends a string. *)
ChatReturns == Init => AllReturn

(* What AddBitmask packs, three fields of the widths in use at any offset, is
   what is at those bits, whatever else shares their bytes; AddSignedBits keeps
   negative numbers that fit. *)
Widths == {1, 2, 3, 4, 5, 8, 11, 13}
Samples(n) == {0, 1, 2^(n - 1), 2^n - 1}
Field(packet, from, n) ==
  LET bits == BitsOf(Tail(packet.FrameBuffer))
      Upto[k \in 0..n] == IF k = 0 THEN 0 ELSE 2 * Upto[k - 1] + (IF bits[from + k] THEN 1 ELSE 0)
  IN Upto[n]
ASSUME FieldsReturn ==
  \A l \in Widths, m \in Widths, n \in Widths :
    \A i \in Samples(l), j \in Samples(m), k \in Samples(n) \cup {-1, -2^(n - 1)} :
      LET packet == AddSignedBits(AddBitmask(AddBitmask(NewEmptyPacket(1), i, l), j, m), k, n) IN
      /\ Field(packet, 0, l) = i /\ Field(packet, l, m) = j /\ Field(packet, l + m, n) = k % 2^n
      /\ Len(packet.FrameBuffer) = 1 + (l + m + n + 7) \div 8

(* Amounts and numbers come back, and a reader that the packet is too short for
   gets 0 and uses it up. *)
ASSUME NumbersReturn ==
  \A i \in {0, 1, 127, 128, 255, 256, 32767, 32768, 65535, 65536, 2147483647} :
    LET smart == AddSmart1632(NewPacket(<<>>), i)
        plain == AddUint(NewPacket(<<>>), i % 65536, 2)
        long  == 7 \in smart.FrameBuffer[1]
    IN /\ ReadUint(plain, 2) = i % 65536 /\ ReadUint(Skip(plain, 1), 2) = 0
       /\ Available(Skip(plain, 3)) = 0 /\ Available(Rewind(Skip(plain, 3), 1)) = 1
       /\ long = (Available(smart) = 4) /\ (~long => ReadUint(smart, 2) = i)
       /\ long => ReadUint([smart EXCEPT !.FrameBuffer[1] = @ \ {7}], 4) = i

(* Strings that are not empty and end in a NUL are read one after the other,
   line feeds within them included. *)
Strings == UNION {[1..n -> {Byte(65), Byte(10)}] : n \in 1..3}
ASSUME StringsReturn ==
  \A old \in Strings, new \in Strings :
    LET packet == NewPacket(old \o <<{}>> \o new \o <<{}>>) IN
    ReadString(packet) = old /\ ReadString(StringRead(packet)) = new

(* A name's hash stands for it: its player is shown under the name he gave,
   trimmed, and what is looked up by the shown name is found under the hash.
   Names longer than Encode takes are left out: cut after a space they keep it. *)
Letters37 == {Space, 1, 26, 27, 36}
ASSUME NamesReturn ==
  \A name \in UNION {[1..n -> Letters37] : n \in 0..MaxName} :
    /\ Decode(Encode(name)) = TrimSpace(name)
    /\ Encode(Decode(Encode(name))) = Encode(name)
=============================================================================
