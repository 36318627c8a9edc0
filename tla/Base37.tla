-------------------------------- MODULE Base37 -------------------------------
(***************************************************************************)
(* Account names as numbers, pkg/strutil/conversion.go: Base37.Encode and  *)
(* Base37.Decode.                                                          *)
(*                                                                         *)
(* A character is what base 37 makes of it: 1..26 a letter, 27..36 a       *)
(* digit, 0 anything else, which becomes a space; capitals, which Decode   *)
(* puts where words begin, are the same letters.  With twelve characters   *)
(* or fewer the hash stays below MaxBase37 and 64 bits.                    *)
(***************************************************************************)
EXTENDS Integers, Sequences

CONSTANT MaxName     \* how many characters Encode takes: 12 in the code
ASSUME MaxNameAssumption == MaxName \in Nat \ {0}

Space == 0
TrimSpace(name) ==
  LET Visible == {i \in 1..Len(name) : name[i] # Space} IN
  IF Visible = {} THEN <<>>
  ELSE SubSeq(name, CHOOSE i \in Visible : \A j \in Visible : i <= j,
                    CHOOSE i \in Visible : \A j \in Visible : i >= j)

Hash(name) ==
  LET Upto[i \in 0..Len(name)] == IF i = 0 THEN 0 ELSE 37 * Upto[i - 1] + name[i]
  IN Upto[Len(name)]
(* Trimmed first and cut then: a name may end in a space again. *)
Cut(name) == IF Len(name) > MaxName THEN SubSeq(name, 1, MaxName) ELSE name
Encode(name) == Hash(Cut(TrimSpace(name)))

(* A hash's name, from its last character to its first. *)
Decode(hash) ==
  LET Before[h \in 0..hash] == IF h = 0 THEN <<>> ELSE Append(Before[h \div 37], h % 37)
  IN Before[hash]
=============================================================================
