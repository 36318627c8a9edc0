------------------------------ MODULE ChatCipher -----------------------------
(***************************************************************************)
(* The variable-length code of chat messages, pkg/strutil/conversion.go:   *)
(* the tables init builds from the lengths of the codes, Encipher and      *)
(* Decipher.                                                               *)
(*                                                                         *)
(* A code is the set of the places of its one bits, 1 the first; a block   *)
(* is the next free code of each length.  In the dictionary the entry      *)
(* after a node's own is where its 0 bit leads, its own entry where its 1  *)
(* bit leads, or the complement of the symbol whose code ends there.       *)
(***************************************************************************)
EXTENDS Integers, Sequences, TLC

Letters == 65..90 \cup 97..122 \cup 48..57
Punctuation == {32, 33, 34, 35, 36, 37, 38, 39, 40, 41, 42, 43, 44, 45, 46, 58, 59, 61, 63, 64, 91, 92, 93, 163}
Charset == Letters \cup Punctuation      \* what ChatFilter.Format lets through

(* The symbols with a code of n bits; the others have one of 22. *)
OfLength ==
  <<{},
    {},
    {32, 101},
    {97, 105, 110, 111, 115, 116},
    {100, 104, 108, 114, 117},
    {46, 99, 102, 103, 109, 112, 119, 121},
    {39, 44, 73, 98, 107, 118},
    {33, 63, 84, 89},
    {65, 72, 78, 83, 87},
    66..69 \cup {45, 48, 71, 76, 77, 79, 80, 82, 106, 113, 120, 122},
    {49, 58, 64, 70, 75},
    50..53 \cup {74, 81, 85, 86, 90},
    {40, 41, 42, 54, 55, 95},
    {56, 57, 59, 88, 126},
    {61},
    {35, 37, 43, 47, 92},
    {38, 62, 91, 93},
    {},
    {60, 124},
    {9},
    {6, 13, 96, 247, 249, 253}>>
shiftCounts ==
  [c \in 0..255 |-> IF \E n \in 1..21 : c \in OfLength[n] THEN CHOOSE n \in 1..21 : c \in OfLength[n]
                    ELSE 22]
Length(symbol) == shiftCounts[symbol]

-----------------------------------------------------------------------------
ShorterNone(blocks, n) == {}                                          \* mutant
(* The shorter lengths whose next code was the one now given to length n. *)
Shorter(blocks, n) ==
  {k \in 1..(n - 1) : \A j \in k..(n - 1) : blocks[j] = blocks[n] /\ (j > k => j \notin blocks[n])}

(* What the blocks become once length n has given away its code: *)
NextBlocks(blocks, n) ==
  LET code == blocks[n]
      next == IF n \in code THEN blocks[n - 1] ELSE code \cup {n}
      shorter == IF n \in code THEN {} ELSE Shorter(blocks, n)
      longer == {k \in (n + 1)..32 : blocks[k] = code}
  IN [k \in shorter |-> IF k \in code THEN blocks[k - 1] ELSE code \cup {k}]
       @@ [k \in longer \cup {n} |-> next] @@ blocks

(* ... and the dictionary, [entry, free], with a symbol's code added. *)
Entry(dictionary, place) ==
  IF place \in DOMAIN dictionary.entry THEN dictionary.entry[place] ELSE 0
Descend(walk, one) ==
  IF ~one THEN [walk EXCEPT !.at = @ + 1]
  ELSE IF Entry(walk, walk.at) # 0 THEN [walk EXCEPT !.at = Entry(walk, walk.at)]
  ELSE [walk EXCEPT !.entry = walk.at :> walk.free @@ @, !.at = walk.free]
Descended(dictionary, bits) ==
  LET After[i \in 0..Len(bits)] ==
        IF i = 0 THEN [dictionary EXCEPT !.at = 0] ELSE Descend(After[i - 1], bits[i])
  IN After[Len(bits)]
AddLeaf(dictionary, code, symbol) ==
  LET walk == Descended(dictionary, [i \in 1..Length(symbol) |-> i \in code])
  IN [entry |-> walk.at :> -(symbol + 1) @@ walk.entry, at |-> 0,
      free |-> IF walk.at >= walk.free THEN walk.at + 1 ELSE walk.free]

AddSymbol(tables, symbol) ==
  LET code == tables.blocks[Length(symbol)] IN
  [blocks |-> NextBlocks(tables.blocks, Length(symbol)),
   codes  |-> Append(tables.codes, code),
   dictionary |-> AddLeaf(tables.dictionary, code, symbol)]

(* The 256 symbols in order, sixteen at a time. *)
Sixteen(tables) ==
  LET first == Len(tables.codes)
      After[n \in first..(first + 16)] ==
        IF n = first THEN tables ELSE AddSymbol(After[n - 1], n - 1)
  IN After[first + 16]
Tables ==
  LET Rows[n \in 0..16] ==
        IF n = 0 THEN [blocks |-> [k \in 0..32 |-> {}], codes |-> <<>>,
                       dictionary |-> [entry |-> <<>>, at |-> 0, free |-> 0]]
        ELSE Sixteen(Rows[n - 1])
  IN Rows[16]
cipherData == Tables.codes
cipherDictionary == Tables.dictionary

-----------------------------------------------------------------------------
Bits(symbol) == [i \in 1..Length(symbol) |-> i \in cipherData[symbol + 1]]
Padded(bits) == bits \o [i \in 1..((-Len(bits)) % 8) |-> FALSE]       \* to whole bytes
Encipher(msg) ==
  LET Joined[i \in 0..Len(msg)] == IF i = 0 THEN <<>> ELSE Joined[i - 1] \o Bits(msg[i])
  IN Padded(Joined[Len(msg)])

Size(msg) == Len(msg) + Len(SelectSeq(msg, LAMBDA symbol : symbol >= 128))   \* in UTF-8

(* The map from 128..159 is keyed by other characters: these come out as 0. *)
Letter(symbol) == IF symbol \in 128..159 THEN 0 ELSE symbol

Read(reading, one) ==
  LET to == IF one THEN Entry(cipherDictionary, reading.at) ELSE reading.at + 1
      found == Entry(cipherDictionary, to)
  IN IF Len(reading.text) >= reading.want THEN reading
     ELSE IF found < 0
     THEN [reading EXCEPT !.text = Append(@, Letter(-found - 1)), !.at = 0]
     ELSE [reading EXCEPT !.at = to]
Decipher(bits, want) ==
  LET After[i \in 0..Len(bits)] ==
        IF i = 0 THEN [text |-> <<>>, at |-> 0, want |-> want] ELSE Read(After[i - 1], bits[i])
  IN After[Len(bits)].text
=============================================================================
