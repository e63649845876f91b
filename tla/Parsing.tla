------------------------------ MODULE Parsing ------------------------------
(***************************************************************************)
(* How CruddXwebb.cpp takes the session token out of a Cookie header and   *)
(* the id out of a target.  Text is a sequence of characters, a character  *)
(* a string of length one; the types are those of the code's standard      *)
(* library calls, with MaxInt for the largest int.                         *)
(***************************************************************************)
EXTENDS Integers, Sequences, FiniteSetsExt

CONSTANTS
  Chars,   \* the characters
  MaxInt,  \* bound: the largest int, 2^31 - 1 in the program
  NotInt   \* std::stoi throws

\* The characters that separate others.
Space == " "
Semicolon == ";"

\* The first place at or after i where text holds c, or the place after its end.
Find(text, c, i) == Min({j \in i..Len(text) : text[j] = c} \cup {Len(text) + 1})

TrimLeft(text) ==
  LET kept == {j \in DOMAIN text : text[j] # Space}
  IN IF kept = {} THEN text ELSE SubSeq(text, Min(kept), Len(text))

(***************************************************************************)
(* get_cookie: std::getline cuts the header at every ';'; a piece without  *)
(* '=' is passed over; the first whose key, without its leading spaces, is *)
(* the name gives the value, as it stands, and no match gives "".          *)
(***************************************************************************)
Pieces(header) ==
  LET starts == {1} \cup {i + 1 : i \in {j \in DOMAIN header : header[j] = Semicolon}}
  IN [i \in starts |-> SubSeq(header, i, Find(header, Semicolon, i) - 1)]

\* Mutated form: the key keeps its leading spaces.
KeyUntrimmed(piece) == SubSeq(piece, 1, Find(piece, "=", 1) - 1)

Key(piece) == TrimLeft(SubSeq(piece, 1, Find(piece, "=", 1) - 1))

\* The pieces that are a cookie of this name, by the places where they begin.
Hits(header, name) ==
  LET piece == Pieces(header)
  IN {i \in DOMAIN piece : (\E j \in DOMAIN piece[i] : piece[i][j] = "=") /\ Key(piece[i]) = name}

GetCookie(header, name) ==
  LET hits  == Hits(header, name)
      first == Pieces(header)[Min(hits)]
  IN IF hits = {} THEN << >> ELSE SubSeq(first, Find(first, "=", 1) + 1, Len(first))

(***************************************************************************)
(* route: what follows /api/items/ in the target, up to '?', goes through  *)
(* std::stoi: spaces, a sign, then as many digits as there are.            *)
(***************************************************************************)
DigitOf == [ch \in {"0", "1", "2", "3", "4", "5", "6", "7", "8", "9"} |->
  CASE ch = "0" -> 0 [] ch = "1" -> 1 [] ch = "2" -> 2 [] ch = "3" -> 3 [] ch = "4" -> 4
    [] ch = "5" -> 5 [] ch = "6" -> 6 [] ch = "7" -> 7 [] ch = "8" -> 8 [] ch = "9" -> 9]

\* What digits say.
Numeral(digits) ==
  LET n[k \in 0..Len(digits)] == IF k = 0 THEN 0 ELSE 10 * n[k - 1] + DigitOf[digits[k]]
  IN n[Len(digits)]

\* The digits at the head of a text.
Digits(text) ==
  SubSeq(text, 1, Min({j \in DOMAIN text : text[j] \notin DOMAIN DigitOf} \cup {Len(text) + 1}) - 1)

\* The number at the head of a text, NotInt when there is none.
Number(text) ==
  LET trimmed == TrimLeft(text)
      signed  == trimmed # << >> /\ trimmed[1] \in {"-", "+"}
      digits  == Digits(IF signed THEN Tail(trimmed) ELSE trimmed)
  IN IF digits = << >> THEN NotInt
     ELSE IF signed /\ trimmed[1] = "-" THEN -Numeral(digits) ELSE Numeral(digits)

\* Mutated form: a number past the range of int wraps around.
StoiWrapping(text) ==
  LET n == Number(text)
  IN IF n = NotInt THEN n ELSE ((n + MaxInt + 1) % (2 * MaxInt + 2)) - (MaxInt + 1)

\* std::stoi throws on what is no number and on what is out of range.
Stoi(text) ==
  LET n == Number(text)
  IN IF n = NotInt \/ n \in (-MaxInt - 1)..MaxInt THEN n ELSE NotInt

\* The id a target names, from the character after "/api/items/" on.
IdOf(target) == Stoi(SubSeq(target, 1, Find(target, "?", 1) - 1))
=============================================================================
