-------------------------------- MODULE Record --------------------------------
(***************************************************************************)
(* A player's attributes as rows of text: insertAttribute of db.PlayerSave *)
(* and loadAttributes of db.PlayerLoad.  A value is a Go type and what it  *)
(* holds, a time counting seconds from midnight.  The first letter of a    *)
(* row says how to read it; a type insertAttribute does not know leaves an *)
(* empty row, and loadAttributes panics at its first letter.               *)
(***************************************************************************)
EXTENDS Integers

Value(type, val) == [type |-> type, val |-> val]
Row(letter, text) == [letter |-> letter, text |-> text]

(* time.RFC822 has no seconds. *)
RFC822(t) == t - (t % 60)

StoredPaused(name, t, now) == Row("d", t - now)                        \* mutant
StoredTime(name, t, now) ==
  IF name = "Timer" THEN Row("d", t - now) ELSE Row("t", RFC822(t))

Stored(name, v, now) ==
  CASE v.type \in {"int", "int64"} -> Row("i", v.val)
    [] v.type = "uint" -> Row("l", v.val)
    [] v.type = "bool" -> Row("b", v.val)
    [] v.type = "string" -> Row("s", v.val)
    [] v.type = "time" -> StoredTime(name, v.val, now)
    [] OTHER -> Row("none", 0)

Loaded(row, now) ==
  CASE row.letter = "i" -> Value("int", row.text)
    [] row.letter = "l" -> Value("uint", row.text)
    [] row.letter = "b" -> Value("bool", row.text)
    [] row.letter = "s" -> Value("string", row.text)
    [] row.letter = "d" -> Value("time", now + row.text)
    [] row.letter = "t" -> Value("time", row.text)
    [] OTHER -> Value("panic", 0)

VarTime(v) == IF v.type = "time" THEN v.val ELSE 0

Relogged(name, v, out, in) == Loaded(Stored(name, v, out), in)

(* What is stored at one logout and read at a later login: numbers, settings
   and names are what they were; the time an effect ends has come nearer by the
   time spent away, and is early by less than a minute, or, for a Timer, is as
   far away as it was.  No effect gains from logging out. *)
AttributesReturn ==
  \A out \in 90..95, away \in 0..130 :
    LET in == out + away IN
    /\ \A type \in {"int", "int64", "bool", "string"}, val \in 0..1, name \in {"Timer", "other"} :
         LET v == Value(type, val)
             w == Relogged(name, v, out, in)
         IN  w.val = val /\ w.type = (IF type = "int64" THEN "int" ELSE type)
    /\ \A end \in 60..480 :
         /\ VarTime(Relogged("Timer", Value("time", end), out, in)) - in = end - out
         /\ VarTime(Relogged("other", Value("time", end), out, in)) \in (end - 59)..end
=============================================================================
