--------------------------- MODULE RequestsProofs ---------------------------
(***************************************************************************)
(* What Parsing reads of what clients write, for any cookies, ids and      *)
(* tails: get_cookie by appending one cookie to the header, std::stoi by   *)
(* appending one digit.                                                    *)
(***************************************************************************)
EXTENDS Requests, SequenceTheorems, WellFoundedInduction, NaturalsInduction, TLAPS

-----------------------------------------------------------------------------
(* Text: its length, joined and cut. *)

LEMMA TextShape ==
  ASSUME NEW text \in Text
  PROVE  /\ Len(text) \in Nat /\ DOMAIN text = 1..Len(text)
         /\ \A i \in 1..Len(text) : text[i] \in Chars
         /\ text = << >> <=> Len(text) = 0
  BY LenProperties, EmptySeq DEF Text

LEMMA SameText ==
  ASSUME NEW a \in Text, NEW b \in Text, Len(a) = Len(b), \A i \in 1..Len(a) : a[i] = b[i]
  PROVE  a = b
  BY SeqEqual DEF Text

LEMMA Joined ==
  ASSUME NEW a \in Text, NEW b \in Text
  PROVE  /\ a \o b \in Text
         /\ Len(a \o b) = Len(a) + Len(b)
         /\ DOMAIN (a \o b) = 1..(Len(a) + Len(b))
         /\ \A i \in 1..Len(a) : (a \o b)[i] = a[i]
         /\ \A i \in 1..Len(b) : (a \o b)[Len(a) + i] = b[i]
<1>1. Len(a) \in Nat /\ Len(b) \in Nat
  BY TextShape
<1>2. a \o b \in Text /\ Len(a \o b) = Len(a) + Len(b)
  BY ConcatProperties DEF Text
<1>3. \A i \in 1..(Len(a) + Len(b)) : (a \o b)[i] = IF i <= Len(a) THEN a[i] ELSE b[i - Len(a)]
  BY ConcatProperties DEF Text
<1>4. DOMAIN (a \o b) = 1..(Len(a) + Len(b))
  BY <1>2, TextShape
<1>5. \A i \in 1..Len(a) : (a \o b)[i] = a[i]
  BY <1>1, <1>3
<1>6. ASSUME NEW i \in 1..Len(b) PROVE (a \o b)[Len(a) + i] = b[i]
  <2>1. Len(a) + i \in 1..(Len(a) + Len(b)) /\ ~ (Len(a) + i <= Len(a)) /\ Len(a) + i - Len(a) = i
    BY <1>1
  <2> QED
    BY <1>3, <2>1
<1> QED
  BY <1>2, <1>4, <1>5, <1>6

LEMMA Part ==
  ASSUME NEW text \in Text, NEW m \in 1..(Len(text) + 1), NEW n \in (m - 1)..Len(text)
  PROVE  /\ SubSeq(text, m, n) \in Text
         /\ Len(SubSeq(text, m, n)) = n - m + 1
         /\ DOMAIN SubSeq(text, m, n) = 1..(n - m + 1)
         /\ \A i \in 1..(n - m + 1) : SubSeq(text, m, n)[i] = text[m + i - 1]
<1>1. /\ Len(text) \in Nat
      /\ \A i \in m..n : text[i] \in Chars
  BY TextShape
<1>2. /\ SubSeq(text, m, n) \in Text
      /\ Len(SubSeq(text, m, n)) = IF m <= n THEN n - m + 1 ELSE 0
      /\ \A i \in 1..(n - m + 1) : SubSeq(text, m, n)[i] = text[m + i - 1]
  BY <1>1, SubSeqProperties DEF Text
<1>3. Len(SubSeq(text, m, n)) = n - m + 1
  BY <1>1, <1>2
<1> QED
  BY <1>2, <1>3, TextShape

\* One character, two characters.
LEMMA FewChars ==
  ASSUME NEW a \in Chars, NEW b \in Chars
  PROVE  /\ <<a>> \in Text /\ Len(<<a>>) = 1 /\ <<a>>[1] = a
         /\ <<a, b>> \in Text /\ Len(<<a, b>>) = 2 /\ <<a, b>>[1] = a /\ <<a, b>>[2] = b
         /\ << >> \in Text /\ Len(<< >>) = 0
<1>1. <<a>> \in Text /\ <<a, b>> \in Text /\ << >> \in Text
  BY DEF Text
<1>2. Len(<<a>>) = 1 /\ Len(<<a, b>>) = 2 /\ Len(<< >>) = 0
  OBVIOUS
<1>3. <<a>>[1] = a /\ <<a, b>>[1] = a /\ <<a, b>>[2] = b
  OBVIOUS
<1> QED
  BY <1>1, <1>2, <1>3

-----------------------------------------------------------------------------
(* The helpers of Parsing. *)

\* A set of naturals that is not empty has a least element, and Min is it.
LEMMA MinIsLeast ==
  ASSUME NEW S \in SUBSET Nat, S # {}
  PROVE  Min(S) \in S /\ \A j \in S : Min(S) <= j
<1>1. S \subseteq Nat
  OBVIOUS
<1>2. PICK i \in S : \A j \in S : <<j, i>> \notin OpToRel(<, Nat)
  BY <1>1, NatLessThanWellFounded, WFMin
<1>3. \A j \in S : ~ (j < i)
  BY <1>1, <1>2 DEF OpToRel
<1>4. \A j \in S : i <= j
  BY <1>1, <1>3
<1> QED
  BY <1>4 DEF Min

LEMMA MinIs ==
  ASSUME NEW S, NEW m \in Nat, m \in S, \A j \in S : j \in Nat /\ m <= j
  PROVE  Min(S) = m
<1>1. \A i \in S : (\A j \in S : i <= j) => i = m
  OBVIOUS
<1> QED
  BY <1>1 DEF Min

\* A new largest element leaves the least one.
LEMMA MinStays ==
  ASSUME NEW S \in SUBSET Nat, S # {}, NEW T, S \subseteq T, NEW m \in Nat,
         T \subseteq S \cup {m}, \A j \in S : j <= m
  PROVE  Min(T) = Min(S)
<1>1. Min(S) \in S /\ \A j \in S : Min(S) <= j
  BY MinIsLeast
<1>2. Min(S) \in Nat /\ Min(S) \in T /\ \A j \in T : j \in Nat /\ Min(S) <= j
  BY <1>1
<1> QED
  BY <1>2, MinIs

\* find stops at the first place that holds c, or behind the end.
LEMMA FindFirst ==
  ASSUME NEW text \in Text, NEW c, NEW i \in 1..(Len(text) + 1)
  PROVE  /\ Find(text, c, i) \in i..(Len(text) + 1)
         /\ Find(text, c, i) # Len(text) + 1 => text[Find(text, c, i)] = c
         /\ \A j \in i..(Find(text, c, i) - 1) : text[j] # c
<1> DEFINE S == {j \in i..Len(text) : text[j] = c} \cup {Len(text) + 1}
<1>0. Len(text) \in Nat
  BY TextShape
<1>1. S \in SUBSET Nat /\ S # {}
  BY <1>0
<1>2. Min(S) \in S /\ \A j \in S : Min(S) <= j
  BY <1>1, MinIsLeast
<1>3. Find(text, c, i) = Min(S)
  BY DEF Find
<1>4. \A j \in i..(Min(S) - 1) : j \in i..Len(text) /\ j \notin S
  BY <1>0, <1>2
<1>5. Min(S) \in i..(Len(text) + 1)
  BY <1>0, <1>2
<1> QED
  BY <1>0, <1>2, <1>3, <1>4, <1>5

\* find stops at the one place that is the first.
LEMMA FindIs ==
  ASSUME NEW text \in Text, NEW c, NEW i \in 1..(Len(text) + 1), NEW k \in i..(Len(text) + 1),
         k # Len(text) + 1 => text[k] = c, \A j \in i..(k - 1) : text[j] # c
  PROVE  Find(text, c, i) = k
<1>0. Len(text) \in Nat
  BY TextShape
<1> QED
  BY <1>0, FindFirst

\* Text that does not start with a space is not trimmed.
LEMMA TrimNothing ==
  ASSUME NEW text \in Text, text # << >> => text[1] # Space
  PROVE  TrimLeft(text) = text
<1> DEFINE kept == {j \in DOMAIN text : text[j] # Space}
<1>0. Len(text) \in Nat /\ DOMAIN text = 1..Len(text) /\ (text = << >> <=> Len(text) = 0)
  BY TextShape
<1>1. CASE text = << >>
  BY <1>0, <1>1 DEF TrimLeft
<1>2. CASE text # << >>
  <2>1. 1 \in kept
    BY <1>0, <1>2
  <2>2. \A j \in kept : j \in Nat /\ 1 <= j
    BY <1>0
  <2>3. Min(kept) = 1
    BY <2>1, <2>2, MinIs
  <2>4. SubSeq(text, 1, Len(text)) = text
    BY SubSeqFull DEF Text
  <2> QED
    BY <2>1, <2>3, <2>4 DEF TrimLeft
<1> QED
  BY <1>1, <1>2

\* The space that stands before all cookies but the first is trimmed.
LEMMA TrimOne ==
  ASSUME NEW text \in Text, text # << >>, text[1] # Space
  PROVE  TrimLeft(<<Space>> \o text) = text
<1> DEFINE long == <<Space>> \o text
           kept == {j \in DOMAIN long : long[j] # Space}
<1>0. Len(text) \in Nat \ {0}
  BY TextShape
<1>1. /\ long \in Text /\ Len(long) = Len(text) + 1 /\ DOMAIN long = 1..(Len(text) + 1)
      /\ long[1] = Space /\ \A j \in 1..Len(text) : long[1 + j] = text[j]
  <2>1. <<Space>> \in Text /\ Len(<<Space>>) = 1 /\ <<Space>>[1] = Space
    BY FewChars, CharsTyped
  <2>2. /\ long \in Text /\ Len(long) = 1 + Len(text) /\ DOMAIN long = 1..(1 + Len(text))
        /\ \A j \in 1..1 : long[j] = <<Space>>[j]
        /\ \A j \in 1..Len(text) : long[1 + j] = text[j]
    BY <2>1, Joined
  <2> QED
    BY <1>0, <2>1, <2>2
<1> HIDE DEF long
<1>2. 2 \in kept /\ \A j \in kept : j \in Nat /\ 2 <= j
  <2>1. long[2] = text[1]
    <3>1. 1 \in 1..Len(text) /\ 1 + 1 = 2
      BY <1>0
    <3> QED
      BY <1>1, <3>1
  <2>2. 2 \in DOMAIN long
    BY <1>0, <1>1
  <2>3. 2 \in kept
    BY <2>1, <2>2
  <2>4. ASSUME NEW j \in kept PROVE j \in Nat /\ 2 <= j
    <3>1. j \in 1..(Len(text) + 1) /\ long[j] # Space
      BY <1>1
    <3>2. j # 1
      BY <1>1, <3>1
    <3> QED
      BY <1>0, <3>1, <3>2
  <2> QED
    BY <2>3, <2>4
<1>3. Min(kept) = 2
  BY <1>2, MinIs
<1>4. SubSeq(long, 2, Len(long)) = text
  <2> DEFINE part == SubSeq(long, 2, Len(long))
  <2>0. 2 \in 1..(Len(long) + 1) /\ Len(long) \in (2 - 1)..Len(long) /\ Len(long) - 2 + 1 = Len(text)
    BY <1>0, <1>1
  <2>1. part \in Text /\ Len(part) = Len(text) /\ \A i \in 1..Len(text) : part[i] = long[2 + i - 1]
    <3> HIDE DEF part
    <3>1. /\ SubSeq(long, 2, Len(long)) \in Text
          /\ Len(SubSeq(long, 2, Len(long))) = Len(long) - 2 + 1
          /\ \A i \in 1..(Len(long) - 2 + 1) : SubSeq(long, 2, Len(long))[i] = long[2 + i - 1]
      BY <1>1, <2>0, Part
    <3> QED
      BY <2>0, <3>1 DEF part
  <2> HIDE DEF part
  <2>2. ASSUME NEW i \in 1..Len(text) PROVE part[i] = text[i]
    <3>1. 2 + i - 1 = 1 + i
      BY <1>0
    <3> QED
      BY <1>1, <2>1, <3>1
  <2> QED
    BY <2>1, <2>2, SameText DEF part
<1>5. TrimLeft(long) = SubSeq(long, 2, Len(long))
  BY <1>2, <1>3 DEF TrimLeft
<1> QED
  BY <1>4, <1>5 DEF long

-----------------------------------------------------------------------------
(* get_cookie. *)

Starts(text) == {1} \cup {i + 1 : i \in {j \in DOMAIN text : text[j] = Semicolon}}

IsHit(piece, name) == (\E j \in DOMAIN piece : piece[j] = "=") /\ Key(piece) = name

ValueIn(piece) == SubSeq(piece, Find(piece, "=", 1) + 1, Len(piece))

LEMMA CookiePieces ==
  ASSUME NEW text \in Text
  PROVE  /\ DOMAIN Pieces(text) = Starts(text)
         /\ \A i \in Starts(text) :
              /\ i \in 1..(Len(text) + 1)
              /\ Pieces(text)[i] = SubSeq(text, i, Find(text, Semicolon, i) - 1)
         /\ \A name : Hits(text, name) = {i \in Starts(text) : IsHit(Pieces(text)[i], name)}
         /\ \A name : GetCookie(text, name) =
              IF Hits(text, name) = {} THEN << >> ELSE ValueIn(Pieces(text)[Min(Hits(text, name))])
<1>1. Len(text) \in Nat /\ DOMAIN text = 1..Len(text)
  BY TextShape
<1>2. \A i \in Starts(text) : i \in 1..(Len(text) + 1)
  BY <1>1 DEF Starts
<1>3. DOMAIN Pieces(text) = Starts(text)
  BY DEF Pieces, Starts
<1>4. \A i \in Starts(text) : Pieces(text)[i] = SubSeq(text, i, Find(text, Semicolon, i) - 1)
  BY DEF Pieces, Starts
<1>5. \A name : Hits(text, name) = {i \in Starts(text) : IsHit(Pieces(text)[i], name)}
  BY <1>3 DEF Hits, IsHit
<1>6. \A name : GetCookie(text, name) =
        IF Hits(text, name) = {} THEN << >> ELSE ValueIn(Pieces(text)[Min(Hits(text, name))])
  BY DEF GetCookie, ValueIn
<1> QED
  BY <1>2, <1>3, <1>4, <1>5, <1>6

\* The pieces of a header stay when a ';' and more is written behind it.
LEMMA PiecesStay ==
  ASSUME NEW text \in Text, NEW more \in Text, more # << >>, more[1] = Semicolon,
         NEW i \in Starts(text)
  PROVE  /\ i \in Starts(text \o more)
         /\ Pieces(text \o more)[i] = Pieces(text)[i]
<1> DEFINE long == text \o more
           k == Find(text, Semicolon, i)
<1>1. Len(text) \in Nat /\ Len(more) \in Nat \ {0} /\ DOMAIN text = 1..Len(text)
  BY TextShape
<1>2. /\ long \in Text /\ Len(long) = Len(text) + Len(more)
      /\ DOMAIN long = 1..(Len(text) + Len(more))
      /\ \A j \in 1..Len(text) : long[j] = text[j]
      /\ \A j \in 1..Len(more) : long[Len(text) + j] = more[j]
  BY Joined
<1>3. i \in 1..(Len(text) + 1)
  BY CookiePieces
<1>4. /\ k \in i..(Len(text) + 1)
      /\ k # Len(text) + 1 => text[k] = Semicolon
      /\ \A j \in i..(k - 1) : text[j] # Semicolon
  BY <1>3, FindFirst
<1> HIDE DEF long, k
<1>5. long[Len(text) + 1] = Semicolon
  BY <1>1, <1>2
<1>6. Find(long, Semicolon, i) = k
  <2>1. i \in 1..(Len(long) + 1) /\ k \in i..(Len(long) + 1)
    BY <1>1, <1>2, <1>3, <1>4
  <2>2. long[k] = Semicolon
    BY <1>1, <1>2, <1>3, <1>4, <1>5
  <2>3. \A j \in i..(k - 1) : long[j] # Semicolon
    BY <1>1, <1>2, <1>3, <1>4
  <2> QED
    BY <1>2, <2>1, <2>2, <2>3, FindIs
<1>7. SubSeq(long, i, k - 1) = SubSeq(text, i, k - 1)
  <2>1. i \in 1..(Len(long) + 1) /\ k - 1 \in (i - 1)..Len(long) /\ k - 1 \in (i - 1)..Len(text)
    BY <1>1, <1>2, <1>3, <1>4
  <2>2. /\ SubSeq(text, i, k - 1) \in Text
        /\ Len(SubSeq(text, i, k - 1)) = k - 1 - i + 1
        /\ \A j \in 1..(k - 1 - i + 1) : SubSeq(text, i, k - 1)[j] = text[i + j - 1]
    BY <1>3, <2>1, Part
  <2>3. /\ SubSeq(long, i, k - 1) \in Text
        /\ Len(SubSeq(long, i, k - 1)) = k - 1 - i + 1
        /\ \A j \in 1..(k - 1 - i + 1) : SubSeq(long, i, k - 1)[j] = long[i + j - 1]
    BY <1>2, <2>1, Part
  <2>4. \A j \in 1..(k - 1 - i + 1) : i + j - 1 \in 1..Len(text)
    BY <1>1, <1>3, <1>4
  <2>5. \A j \in 1..(k - 1 - i + 1) : SubSeq(long, i, k - 1)[j] = SubSeq(text, i, k - 1)[j]
    BY <1>2, <2>2, <2>3, <2>4
  <2> QED
    BY <2>2, <2>3, <2>5, SameText
<1>8. i \in Starts(long)
  BY <1>1, <1>2 DEF Starts
<1> QED
  BY <1>2, <1>6, <1>7, <1>8, CookiePieces DEF k, long

\* A header of one cookie is one piece.
LEMMA OnePiece ==
  ASSUME NEW cookie \in Text, Without(cookie, {Semicolon})
  PROVE  Starts(cookie) = {1} /\ Pieces(cookie)[1] = cookie
<1>1. Len(cookie) \in Nat /\ DOMAIN cookie = 1..Len(cookie)
  BY TextShape
<1>2. \A j \in 1..Len(cookie) : cookie[j] # Semicolon
  BY <1>1 DEF Without
<1>3. Starts(cookie) = {1}
  BY <1>1, <1>2 DEF Starts
<1>4. Find(cookie, Semicolon, 1) = Len(cookie) + 1
  <2>1. 1 \in 1..(Len(cookie) + 1) /\ Len(cookie) + 1 \in 1..(Len(cookie) + 1)
    BY <1>1
  <2>2. \A j \in 1..(Len(cookie) + 1 - 1) : cookie[j] # Semicolon
    BY <1>1, <1>2
  <2> QED
    BY <2>1, <2>2, FindIs
<1>5. SubSeq(cookie, 1, Len(cookie)) = cookie
  BY SubSeqFull DEF Text
<1>6. Len(cookie) + 1 - 1 = Len(cookie)
  BY <1>1
<1> QED
  BY <1>3, <1>4, <1>5, <1>6, CookiePieces

\* A cookie written behind a header is a piece of its own, with a space before it.
LEMMA NewPiece ==
  ASSUME NEW text \in Text, NEW cookie \in Text, Without(cookie, {Semicolon})
  PROVE  LET long == (text \o <<Semicolon, Space>>) \o cookie
         IN /\ long \in Text
            /\ Starts(long) = Starts(text) \cup {Len(text) + 2}
            /\ \A i \in Starts(text) : i < Len(text) + 2 /\ Pieces(long)[i] = Pieces(text)[i]
            /\ Pieces(long)[Len(text) + 2] = <<Space>> \o cookie
<1> DEFINE sep == <<Semicolon, Space>>
           long == (text \o sep) \o cookie
           more == sep \o cookie
           piece == <<Space>> \o cookie
           s == Len(text) + 2
<1>1. Len(text) \in Nat /\ Len(cookie) \in Nat /\ DOMAIN text = 1..Len(text) /\ DOMAIN cookie = 1..Len(cookie)
  BY TextShape
<1>2. sep \in Text /\ Len(sep) = 2 /\ sep[1] = Semicolon /\ sep[2] = Space
  BY FewChars, CharsTyped
<1>3. <<Space>> \in Text /\ Len(<<Space>>) = 1 /\ <<Space>>[1] = Space
  BY FewChars, CharsTyped
<1>4. Semicolon # Space
  BY DEF Semicolon, Space
<1>5. long = text \o more
  BY <1>2, ConcatAssociative DEF Text
<1> HIDE DEF sep
<1>6. /\ more \in Text /\ Len(more) = 2 + Len(cookie)
      /\ more[1] = Semicolon /\ more[2] = Space
      /\ \A j \in 1..Len(cookie) : more[2 + j] = cookie[j]
  <2>1. /\ more \in Text /\ Len(more) = Len(sep) + Len(cookie)
        /\ \A j \in 1..Len(sep) : more[j] = sep[j]
        /\ \A j \in 1..Len(cookie) : more[Len(sep) + j] = cookie[j]
    BY <1>2, Joined
  <2> HIDE DEF more
  <2> QED
    BY <1>2, <2>1
<1>7. /\ piece \in Text /\ Len(piece) = 1 + Len(cookie)
      /\ piece[1] = Space
      /\ \A j \in 1..Len(cookie) : piece[1 + j] = cookie[j]
  <2>1. /\ piece \in Text /\ Len(piece) = 1 + Len(cookie)
        /\ \A j \in 1..1 : piece[j] = <<Space>>[j]
        /\ \A j \in 1..Len(cookie) : piece[1 + j] = cookie[j]
    BY <1>3, Joined
  <2> QED
    BY <1>3, <2>1
<1> HIDE DEF more, piece
<1> HIDE DEF long
<1>8. /\ long \in Text /\ Len(long) = Len(text) + Len(more)
      /\ DOMAIN long = 1..(Len(text) + Len(more))
      /\ \A j \in 1..Len(text) : long[j] = text[j]
      /\ \A j \in 1..Len(more) : long[Len(text) + j] = more[j]
  <2>1. /\ text \o more \in Text /\ Len(text \o more) = Len(text) + Len(more)
        /\ DOMAIN (text \o more) = 1..(Len(text) + Len(more))
        /\ \A j \in 1..Len(text) : (text \o more)[j] = text[j]
        /\ \A j \in 1..Len(more) : (text \o more)[Len(text) + j] = more[j]
    BY <1>6, Joined
  <2> QED
    BY <1>5, <2>1
<1>9. /\ long[Len(text) + 1] = Semicolon /\ long[Len(text) + 2] = Space
      /\ \A j \in 1..Len(cookie) : long[Len(text) + 2 + j] = cookie[j]
  <2>1. ASSUME NEW j \in 1..Len(cookie) PROVE long[Len(text) + 2 + j] = cookie[j]
    <3>1. 2 + j \in 1..Len(more) /\ Len(text) + 2 + j = Len(text) + (2 + j)
      BY <1>1, <1>6
    <3> QED
      BY <1>6, <1>8, <3>1
  <2>2. 1 \in 1..Len(more) /\ 2 \in 1..Len(more)
    BY <1>1, <1>6
  <2> QED
    BY <1>6, <1>8, <2>1, <2>2
<1>10. \A j \in 1..Len(cookie) : cookie[j] # Semicolon
  BY <1>1 DEF Without
<1>11. \A j \in (Len(text) + 2)..Len(long) : long[j] # Semicolon
  <2>1. SUFFICES ASSUME NEW j \in (Len(text) + 2)..Len(long) PROVE long[j] # Semicolon
    OBVIOUS
  <2>2. CASE j = Len(text) + 2
    BY <1>4, <1>9, <2>2
  <2>3. CASE j # Len(text) + 2
    <3>1. j - (Len(text) + 2) \in 1..Len(cookie) /\ j = Len(text) + 2 + (j - (Len(text) + 2))
      BY <1>1, <1>6, <1>8, <2>3
    <3> QED
      BY <1>9, <1>10, <3>1
  <2> QED
    BY <2>2, <2>3
<1>12. Starts(long) = Starts(text) \cup {s}
  <2>1. {j \in DOMAIN long : long[j] = Semicolon} = {j \in DOMAIN text : text[j] = Semicolon} \cup {Len(text) + 1}
    <3>1. ASSUME NEW j \in DOMAIN long, long[j] = Semicolon
          PROVE  j \in {i \in DOMAIN text : text[i] = Semicolon} \cup {Len(text) + 1}
      BY <1>1, <1>6, <1>8, <1>11, <3>1
    <3>2. ASSUME NEW j \in DOMAIN text, text[j] = Semicolon
          PROVE  j \in DOMAIN long /\ long[j] = Semicolon
      BY <1>1, <1>6, <1>8, <3>2
    <3>3. Len(text) + 1 \in DOMAIN long
      BY <1>1, <1>6, <1>8
    <3> QED
      BY <1>9, <3>1, <3>2, <3>3
  <2>2. Len(text) + 1 + 1 = s
    BY <1>1
  <2> QED
    BY <2>1, <2>2 DEF Starts
<1>13. ASSUME NEW i \in Starts(text)
       PROVE  i < s /\ Pieces(long)[i] = Pieces(text)[i]
  <2>1. i \in 1..(Len(text) + 1)
    BY CookiePieces
  <2>2. more # << >>
    BY <1>1, <1>6, TextShape
  <2> QED
    BY <1>1, <1>5, <1>6, <2>1, <2>2, PiecesStay
<1>14. Pieces(long)[s] = piece
  <2>1. s \in Starts(long) /\ s \in 1..(Len(long) + 1) /\ Len(long) + 1 \in s..(Len(long) + 1)
    BY <1>1, <1>6, <1>8, <1>12
  <2>2. \A j \in s..(Len(long) + 1 - 1) : long[j] # Semicolon
    BY <1>1, <1>6, <1>8, <1>11
  <2>3. Find(long, Semicolon, s) = Len(long) + 1
    BY <1>8, <2>1, <2>2, FindIs
  <2>4. Pieces(long)[s] = SubSeq(long, s, Len(long))
    <3>1. Len(long) + 1 - 1 = Len(long)
      BY <1>1, <1>6, <1>8
    <3> QED
      BY <1>8, <2>1, <2>3, <3>1, CookiePieces
  <2>5. Len(long) \in (s - 1)..Len(long) /\ Len(long) - s + 1 = Len(piece)
    BY <1>1, <1>6, <1>7, <1>8
  <2>6. /\ SubSeq(long, s, Len(long)) \in Text
        /\ Len(SubSeq(long, s, Len(long))) = Len(piece)
        /\ \A j \in 1..Len(piece) : SubSeq(long, s, Len(long))[j] = long[s + j - 1]
    BY <1>8, <2>1, <2>5, Part
  <2>7. ASSUME NEW j \in 1..Len(piece) PROVE SubSeq(long, s, Len(long))[j] = piece[j]
    <3>1. CASE j = 1
      <4>1. s + j - 1 = Len(text) + 2
        BY <1>1, <3>1
      <4> QED
        BY <1>7, <1>9, <2>6, <3>1, <4>1
    <3>2. CASE j # 1
      <4>1. j - 1 \in 1..Len(cookie) /\ s + j - 1 = Len(text) + 2 + (j - 1) /\ 1 + (j - 1) = j
        BY <1>1, <1>7, <3>2
      <4> QED
        BY <1>7, <1>9, <2>6, <4>1
    <3> QED
      BY <3>1, <3>2
  <2>8. SubSeq(long, s, Len(long)) = piece
    BY <1>7, <2>6, <2>7, SameText
  <2> QED
    BY <2>4, <2>8
<1> QED
  BY <1>8, <1>12, <1>13, <1>14 DEF long, piece, sep

\* Of a piece with '=', key and value are what stands before and behind the first.
LEMMA Divided ==
  ASSUME NEW key \in Text, Without(key, {"="}), NEW value \in Text
  PROVE  LET piece == (key \o <<"=">>) \o value
         IN /\ piece \in Text
            /\ \A name : IsHit(piece, name) <=> TrimLeft(key) = name
            /\ ValueIn(piece) = value
<1> DEFINE eq == <<"=">>
           front == key \o eq
           piece == front \o value
           k == Len(key) + 1
<1>1. Len(key) \in Nat /\ Len(value) \in Nat /\ DOMAIN key = 1..Len(key)
  BY TextShape
<1>2. eq \in Text /\ Len(eq) = 1 /\ eq[1] = "="
  BY FewChars, CharsTyped
<1> HIDE DEF eq
<1>3. /\ front \in Text /\ Len(front) = k
      /\ \A j \in 1..Len(key) : front[j] = key[j]
      /\ front[k] = "="
  <2>1. /\ front \in Text /\ Len(front) = Len(key) + 1
        /\ \A j \in 1..Len(key) : front[j] = key[j]
        /\ \A j \in 1..Len(eq) : front[Len(key) + j] = eq[j]
    <3>1. /\ front \in Text /\ Len(front) = Len(key) + Len(eq)
          /\ \A j \in 1..Len(key) : front[j] = key[j]
          /\ \A j \in 1..Len(eq) : front[Len(key) + j] = eq[j]
      BY <1>2, Joined
    <3> HIDE DEF front
    <3> QED
      BY <1>2, <3>1
  <2> HIDE DEF front
  <2> QED
    BY <1>2, <2>1
<1> HIDE DEF front
<1>4. /\ piece \in Text /\ Len(piece) = k + Len(value) /\ DOMAIN piece = 1..(k + Len(value))
      /\ \A j \in 1..k : piece[j] = front[j]
      /\ \A j \in 1..Len(value) : piece[k + j] = value[j]
  <2>1. /\ piece \in Text /\ Len(piece) = Len(front) + Len(value)
        /\ DOMAIN piece = 1..(Len(front) + Len(value))
        /\ \A j \in 1..Len(front) : piece[j] = front[j]
        /\ \A j \in 1..Len(value) : piece[Len(front) + j] = value[j]
    BY <1>3, Joined
  <2> HIDE DEF piece, k
  <2> QED
    BY <1>3, <2>1
<1> HIDE DEF piece
<1>5. Find(piece, "=", 1) = k
  <2>1. 1 \in 1..(Len(piece) + 1) /\ k \in 1..(Len(piece) + 1) /\ k \in 1..k
    BY <1>1, <1>4
  <2>2. piece[k] = "="
    BY <1>3, <1>4, <2>1
  <2>3. \A j \in 1..(k - 1) : piece[j] # "="
    <3>1. \A j \in 1..(k - 1) : j \in DOMAIN key /\ j \in 1..k /\ key[j] # "="
      BY <1>1 DEF Without
    <3> QED
      BY <1>1, <1>3, <1>4, <3>1
  <2> QED
    BY <1>4, <2>1, <2>2, <2>3, FindIs
<1>6. SubSeq(piece, 1, k - 1) = key
  <2>1. 1 \in 1..(Len(piece) + 1) /\ k - 1 \in (1 - 1)..Len(piece) /\ k - 1 - 1 + 1 = Len(key)
    BY <1>1, <1>4
  <2>2. /\ SubSeq(piece, 1, k - 1) \in Text
        /\ Len(SubSeq(piece, 1, k - 1)) = Len(key)
        /\ \A j \in 1..Len(key) : SubSeq(piece, 1, k - 1)[j] = piece[1 + j - 1]
    BY <1>4, <2>1, Part
  <2>3. \A j \in 1..Len(key) : 1 + j - 1 = j /\ j \in 1..k
    BY <1>1
  <2>4. \A j \in 1..Len(key) : SubSeq(piece, 1, k - 1)[j] = key[j]
    BY <1>3, <1>4, <2>2, <2>3
  <2> HIDE DEF k
  <2> QED
    BY <2>2, <2>4, SameText
<1>7. SubSeq(piece, k + 1, Len(piece)) = value
  <2>1. k + 1 \in 1..(Len(piece) + 1) /\ Len(piece) \in (k + 1 - 1)..Len(piece) /\ Len(piece) - (k + 1) + 1 = Len(value)
    BY <1>1, <1>4
  <2>2. /\ SubSeq(piece, k + 1, Len(piece)) \in Text
        /\ Len(SubSeq(piece, k + 1, Len(piece))) = Len(value)
        /\ \A j \in 1..Len(value) : SubSeq(piece, k + 1, Len(piece))[j] = piece[k + 1 + j - 1]
    BY <1>4, <2>1, Part
  <2>3. \A j \in 1..Len(value) : k + 1 + j - 1 = k + j
    BY <1>1
  <2> QED
    BY <1>4, <2>2, <2>3, SameText
<1>8. \E j \in DOMAIN piece : piece[j] = "="
  <2>1. k \in DOMAIN piece /\ k \in 1..k
    BY <1>1, <1>4
  <2> QED
    BY <1>3, <1>4, <2>1
<1>9. /\ \A name : IsHit(piece, name) <=> TrimLeft(key) = name
      /\ ValueIn(piece) = value
  BY <1>5, <1>6, <1>7, <1>8 DEF IsHit, Key, ValueIn
<1> QED
  BY <1>4, <1>9 DEF piece, front, eq

\* The piece of a cookie, first in the header or not, is a hit for its name and no
\* other, and gives its value.
LEMMA NamedPiece ==
  ASSUME NEW name \in Names, NEW value \in Values, NEW piece,
         LET sent == (name \o <<"=">>) \o value IN piece = sent \/ piece = <<Space>> \o sent
  PROVE  (\A n : IsHit(piece, n) <=> name = n) /\ ValueIn(piece) = value
<1>1. /\ name \in Text /\ name # << >> /\ name[1] # Space /\ Without(name, {"="})
      /\ value \in Text
  BY NamesTyped, ValuesTyped DEF Without
<1>2. <<"=">> \in Text /\ <<Space>> \in Text /\ Len(<<Space>>) = 1 /\ <<Space>>[1] = Space
  BY FewChars, CharsTyped
<1>3. CASE piece = (name \o <<"=">>) \o value
  <2>1. TrimLeft(name) = name
    BY <1>1, TrimNothing
  <2> QED
    BY <1>1, <1>3, <2>1, Divided
<1>4. CASE piece = <<Space>> \o ((name \o <<"=">>) \o value)
  <2> DEFINE key == <<Space>> \o name
  <2>1. TrimLeft(key) = name
    BY <1>1, TrimOne
  <2>2. key \in Text /\ Without(key, {"="})
    <3>1. /\ key \in Text /\ DOMAIN key = 1..(1 + Len(name))
          /\ \A i \in 1..1 : key[i] = <<Space>>[i]
          /\ \A i \in 1..Len(name) : key[1 + i] = name[i]
      BY <1>1, <1>2, Joined
    <3>2. Space # "="
      BY DEF Space
    <3>3. Len(name) \in Nat /\ \A i \in 1..Len(name) : name[i] # "="
      BY <1>1, TextShape DEF Without
    <3> HIDE DEF key
    <3>4. ASSUME NEW i \in 1..(1 + Len(name)) PROVE key[i] # "="
      <4>1. CASE i = 1
        BY <1>2, <3>1, <3>2, <4>1
      <4>2. CASE i # 1
        <5>1. i - 1 \in 1..Len(name) /\ 1 + (i - 1) = i
          BY <3>3, <4>2
        <5> QED
          BY <3>1, <3>3, <5>1
      <4> QED
        BY <4>1, <4>2
    <3> QED
      BY <3>1, <3>4 DEF Without
  <2>3. piece = (key \o <<"=">>) \o value
    <3>1. name \o <<"=">> \in Text
      BY <1>1, <1>2, Joined
    <3>2. <<Space>> \o ((name \o <<"=">>) \o value) = (<<Space>> \o (name \o <<"=">>)) \o value
      BY <1>1, <1>2, <3>1, ConcatAssociative DEF Text
    <3>3. <<Space>> \o (name \o <<"=">>) = (<<Space>> \o name) \o <<"=">>
      BY <1>1, <1>2, ConcatAssociative DEF Text
    <3> QED
      BY <1>4, <3>2, <3>3
  <2> HIDE DEF key
  <2> QED
    BY <1>1, <2>1, <2>2, <2>3, Divided
<1> QED
  BY <1>3, <1>4

\* A value without a name is a hit for no name: there is no '=' in its piece.
LEMMA NamelessPiece ==
  ASSUME NEW value \in Nameless, NEW piece, piece = value \/ piece = <<Space>> \o value, NEW name
  PROVE  ~ IsHit(piece, name)
<1>1. value \in Text /\ Len(value) \in Nat /\ DOMAIN value = 1..Len(value)
  BY NamelessTyped, TextShape
<1>2. \A i \in 1..Len(value) : value[i] # "="
  BY <1>1, NamelessTyped DEF Without
<1>3. <<Space>> \in Text /\ Len(<<Space>>) = 1 /\ <<Space>>[1] = Space
  BY FewChars, CharsTyped
<1>4. Space # "="
  BY DEF Space
<1>5. CASE piece = value
  BY <1>1, <1>2, <1>5 DEF IsHit
<1>6. CASE piece = <<Space>> \o value
  <2>1. /\ DOMAIN piece = 1..(1 + Len(value))
        /\ \A i \in 1..1 : piece[i] = <<Space>>[i]
        /\ \A i \in 1..Len(value) : piece[1 + i] = value[i]
    <3>1. LET long == <<Space>> \o value
          IN  /\ DOMAIN long = 1..(1 + Len(value))
              /\ \A i \in 1..1 : long[i] = <<Space>>[i]
              /\ \A i \in 1..Len(value) : long[1 + i] = value[i]
      BY <1>1, <1>3, Joined
    <3> QED
      BY <1>6, <3>1
  <2>2. ASSUME NEW i \in 1..(1 + Len(value)) PROVE piece[i] # "="
    <3>1. CASE i = 1
      BY <1>3, <1>4, <2>1, <3>1
    <3>2. CASE i # 1
      <4>1. i - 1 \in 1..Len(value) /\ 1 + (i - 1) = i
        BY <1>1, <3>2
      <4> QED
        BY <1>2, <2>1, <4>1
    <3> QED
      BY <3>1, <3>2
  <2> QED
    BY <2>1, <2>2 DEF IsHit
<1> QED
  BY <1>5, <1>6

\* What a browser sends for a cookie is text without ';'.
LEMMA SentText ==
  ASSUME NEW cookie \in Cookies
  PROVE  /\ Sent(cookie) \in Text /\ Without(Sent(cookie), {Semicolon})
         /\ cookie.name \in Names => cookie.name # << >>
         /\ \/ /\ cookie.name \in Names /\ cookie.value \in Values
               /\ Sent(cookie) = (cookie.name \o <<"=">>) \o cookie.value
            \/ cookie.name = << >> /\ cookie.value \in Nameless /\ Sent(cookie) = cookie.value
<1>1. cookie.name \in Names => cookie.name # << >>
  BY NamesTyped
<1>2. CASE cookie \in [name : Names, value : Values]
  <2> DEFINE name == cookie.name
             value == cookie.value
             front == name \o <<"=">>
             sent == front \o value
  <2>1. name \in Names /\ value \in Values
    BY <1>2
  <2>2. Sent(cookie) = sent
    BY <1>1, <2>1 DEF Sent
  <2>3. /\ name \in Text /\ Without(name, {Semicolon}) /\ value \in Text /\ Without(value, {Semicolon})
        /\ Len(name) \in Nat /\ DOMAIN name = 1..Len(name)
        /\ Len(value) \in Nat /\ DOMAIN value = 1..Len(value)
    <3>1. name \in Text /\ Without(name, {Semicolon}) /\ value \in Text /\ Without(value, {Semicolon})
      BY <2>1, NamesTyped, ValuesTyped DEF Without
    <3> QED
      BY <3>1, TextShape
  <2>4. <<"=">> \in Text /\ Len(<<"=">>) = 1 /\ <<"=">>[1] = "="
    BY FewChars, CharsTyped
  <2>5. "=" # Semicolon
    BY DEF Semicolon
  <2> HIDE DEF name, value
  <2>6. /\ front \in Text /\ Len(front) = Len(name) + 1
        /\ \A i \in 1..Len(front) : front[i] # Semicolon
    <3>1. /\ front \in Text /\ Len(front) = Len(name) + 1
          /\ \A i \in 1..Len(name) : front[i] = name[i]
          /\ \A i \in 1..1 : front[Len(name) + i] = <<"=">>[i]
      BY <2>3, <2>4, Joined
    <3> HIDE DEF front
    <3>2. ASSUME NEW i \in 1..Len(front) PROVE front[i] # Semicolon
      <4>1. CASE i \in 1..Len(name)
        BY <2>3, <3>1, <4>1 DEF Without
      <4>2. CASE i = Len(name) + 1
        BY <2>4, <2>5, <3>1, <4>2
      <4> QED
        BY <2>3, <3>1, <4>1, <4>2
    <3> QED
      BY <3>1, <3>2
  <2> HIDE DEF front
  <2>7. sent \in Text /\ Without(sent, {Semicolon})
    <3>1. /\ sent \in Text /\ DOMAIN sent = 1..(Len(front) + Len(value))
          /\ \A i \in 1..Len(front) : sent[i] = front[i]
          /\ \A i \in 1..Len(value) : sent[Len(front) + i] = value[i]
      BY <2>3, <2>6, Joined
    <3> HIDE DEF sent
    <3>2. ASSUME NEW i \in 1..(Len(front) + Len(value)) PROVE sent[i] # Semicolon
      <4>1. CASE i \in 1..Len(front)
        BY <2>6, <3>1, <4>1
      <4>2. CASE i \notin 1..Len(front)
        <5>1. i - Len(front) \in 1..Len(value) /\ Len(front) + (i - Len(front)) = i
          BY <2>3, <2>6, <4>2
        <5> QED
          BY <2>3, <3>1, <5>1 DEF Without
      <4> QED
        BY <4>1, <4>2
    <3> QED
      BY <3>1, <3>2 DEF Without
  <2> QED
    BY <1>1, <2>1, <2>2, <2>7 DEF sent, front, name, value
<1>3. CASE cookie \in [name : {<< >>}, value : Nameless]
  <2>1. cookie.name = << >> /\ cookie.value \in Nameless /\ Sent(cookie) = cookie.value
    BY <1>3 DEF Sent
  <2>2. cookie.value \in Text /\ Without(cookie.value, {Semicolon})
    BY <2>1, NamelessTyped DEF Without
  <2> QED
    BY <1>1, <2>1, <2>2
<1> QED
  BY <1>2, <1>3 DEF Cookies

LEMMA CookiePiece ==
  ASSUME NEW cookie \in Cookies, NEW piece,
         piece = Sent(cookie) \/ piece = <<Space>> \o Sent(cookie), NEW name \in Names
  PROVE  /\ IsHit(piece, name) <=> cookie.name = name
         /\ cookie.name = name => ValueIn(piece) = cookie.value
<1>1. name # << >>
  BY NamesTyped
<1>2. CASE /\ cookie.name \in Names /\ cookie.value \in Values
           /\ Sent(cookie) = (cookie.name \o <<"=">>) \o cookie.value
  <2>1. (\A n : IsHit(piece, n) <=> cookie.name = n) /\ ValueIn(piece) = cookie.value
    BY <1>2, NamedPiece
  <2> QED
    BY <2>1
<1>3. CASE cookie.name = << >> /\ cookie.value \in Nameless /\ Sent(cookie) = cookie.value
  <2>1. ~ IsHit(piece, name)
    BY <1>3, NamelessPiece
  <2> QED
    BY <1>1, <1>3, <2>1
<1> QED
  BY <1>2, <1>3, SentText

\* The header is what the cookies make it: the first hit is the first cookie held.
Held(name) == {i \in DOMAIN cookies : cookies[i].name = name}

HeaderRead ==
  /\ cookies \in Seq(Cookies)
  /\ header \in Text
  /\ cookies = << >> => header = << >>
  /\ \A name \in Names :
       /\ Hits(header, name) = {} <=> Held(name) = {}
       /\ Held(name) # {} => ValueIn(Pieces(header)[Min(Hits(header, name))]) = cookies[Min(Held(name))].value

LEMMA FirstCookie ==
  ASSUME HeaderRead, NEW cookie \in Cookies, AddCookie(cookie), cookies = << >>
  PROVE  HeaderRead'
<1> DEFINE sent == Sent(cookie)
<1>1. sent \in Text /\ Without(sent, {Semicolon})
  BY SentText
<1>2. header' = sent
  <2>1. header' = (<< >> \o << >>) \o sent
    BY DEF AddCookie, HeaderRead
  <2>2. << >> \o << >> = << >> /\ << >> \o sent = sent
    BY <1>1, FewChars, CharsTyped, ConcatEmptySeq DEF Text
  <2> QED
    BY <2>1, <2>2
<1>3. cookies' = <<cookie>> /\ <<cookie>> \in Seq(Cookies) /\ <<cookie>>[1] = cookie /\ DOMAIN <<cookie>> = {1}
  <2>1. cookies' = Append(<< >>, cookie)
    BY DEF AddCookie
  <2> QED
    BY <2>1
<1>4. Starts(sent) = {1} /\ Pieces(sent)[1] = sent
  BY <1>1, OnePiece
<1>5. ASSUME NEW name \in Names
      PROVE  /\ (Hits(header, name) = {} <=> Held(name) = {})'
             /\ (Held(name) # {} => ValueIn(Pieces(header)[Min(Hits(header, name))]) = cookies[Min(Held(name))].value)'
  <2>1. Hits(sent, name) = IF cookie.name = name THEN {1} ELSE {}
    BY <1>1, <1>4, CookiePieces, CookiePiece
  <2>2. Held(name)' = IF cookie.name = name THEN {1} ELSE {}
    BY <1>3 DEF Held
  <2>3. Min({1}) = 1
    BY MinIs
  <2>4. cookie.name = name => ValueIn(sent) = cookie.value
    BY CookiePiece
  <2> QED
    BY <1>2, <1>3, <1>4, <2>1, <2>2, <2>3, <2>4
<1>6. cookies' # << >>
  BY <1>3
<1> QED
  BY <1>1, <1>2, <1>3, <1>5, <1>6 DEF HeaderRead

LEMMA NextCookie ==
  ASSUME HeaderRead, NEW cookie \in Cookies, AddCookie(cookie), cookies # << >>
  PROVE  HeaderRead'
<1> DEFINE sent == Sent(cookie)
           s == Len(header) + 2
           n == Len(cookies) + 1
<1>1. header \in Text /\ sent \in Text /\ Without(sent, {Semicolon})
  BY SentText DEF HeaderRead
<1>2. header' = (header \o <<Semicolon, Space>>) \o sent
  BY DEF AddCookie
<1>3. /\ cookies \in Seq(Cookies) /\ Len(cookies) \in Nat /\ DOMAIN cookies = 1..Len(cookies)
      /\ cookies' \in Seq(Cookies) /\ cookies' # << >> /\ DOMAIN cookies' = 1..n
      /\ \A i \in 1..Len(cookies) : cookies'[i] = cookies[i]
      /\ cookies'[n] = cookie
  <2>1. cookies' = Append(cookies, cookie)
    BY DEF AddCookie
  <2>2. cookies \in Seq(Cookies)
    BY DEF HeaderRead
  <2> QED
    BY <2>1, <2>2, AppendProperties, LenProperties
<1>4. /\ header' \in Text
      /\ Starts(header') = Starts(header) \cup {s}
      /\ \A i \in Starts(header) : i < s /\ Pieces(header')[i] = Pieces(header)[i]
      /\ Pieces(header')[s] = <<Space>> \o sent
  BY <1>1, <1>2, NewPiece
<1>5. Len(header) \in Nat /\ \A i \in Starts(header) : i \in Nat
  BY <1>1, TextShape, CookiePieces
<1> HIDE DEF sent, s
<1>6. s \in Nat /\ n \in Nat
  BY <1>3, <1>5 DEF s
<1>7. ASSUME NEW name \in Names
      PROVE  /\ (Hits(header, name) = {} <=> Held(name) = {})'
             /\ (Held(name) # {} => ValueIn(Pieces(header)[Min(Hits(header, name))]) = cookies[Min(Held(name))].value)'
  <2> DEFINE hits == Hits(header, name)
             held == Held(name)
             hits2 == Hits(header', name)
             held2 == Held(name)'
  <2>1. hits = {i \in Starts(header) : IsHit(Pieces(header)[i], name)}
    BY <1>1, CookiePieces
  <2>2. hits2 = {i \in Starts(header') : IsHit(Pieces(header')[i], name)}
    BY <1>4, CookiePieces
  <2>3. /\ IsHit(Pieces(header')[s], name) <=> cookie.name = name
        /\ cookie.name = name => ValueIn(Pieces(header')[s]) = cookie.value
    BY <1>4, CookiePiece DEF sent
  <2>4. /\ hits = {} <=> held = {}
        /\ held # {} => ValueIn(Pieces(header)[Min(hits)]) = cookies[Min(held)].value
    BY DEF HeaderRead
  <2>5. held \in SUBSET Nat /\ \A i \in held : i <= n /\ i \in 1..Len(cookies)
    BY <1>3 DEF Held
  <2>6. hits \in SUBSET Nat /\ \A i \in hits : i <= s /\ i \in Starts(header)
    <3>1. \A i \in hits : i \in Starts(header)
      BY <2>1
    <3> HIDE DEF hits
    <3>2. \A i \in Starts(header) : i \in Nat /\ i < s
      BY <1>4, <1>5
    <3>3. \A i \in hits : i \in Nat /\ i <= s
      BY <1>6, <3>1, <3>2
    <3> QED
      BY <3>1, <3>3
  <2>7. hits2 = hits \cup (IF cookie.name = name THEN {s} ELSE {})
    BY <1>4, <2>1, <2>2, <2>3
  <2>8. held2 = held \cup (IF cookie.name = name THEN {n} ELSE {})
    <3>1. held2 = {i \in 1..n : cookies'[i].name = name}
      BY <1>3 DEF Held
    <3>2. held = {i \in 1..Len(cookies) : cookies[i].name = name}
      BY <1>3 DEF Held
    <3>3. 1..n = 1..Len(cookies) \cup {n}
      BY <1>3
    <3> HIDE DEF held, held2, n
    <3> QED
      BY <1>3, <3>1, <3>2, <3>3
  <2> HIDE DEF hits, held, hits2, held2
  <2>9. /\ hits2 = {} <=> held2 = {}
        /\ held2 # {} => ValueIn(Pieces(header')[Min(hits2)]) = cookies'[Min(held2)].value
    <3>1. CASE held = {}
      <4>1. CASE cookie.name = name
        <5>1. hits2 = {s} /\ held2 = {n}
          BY <2>4, <2>7, <2>8, <3>1, <4>1
        <5>2. \A m \in Nat : Min({m}) = m
          <6> TAKE m \in Nat
          <6>1. m \in {m} /\ \A j \in {m} : j \in Nat /\ m <= j
            OBVIOUS
          <6> QED
            BY <6>1, MinIs
        <5> QED
          BY <1>3, <1>6, <2>3, <4>1, <5>1, <5>2
      <4>2. CASE cookie.name # name
        BY <2>4, <2>7, <2>8, <3>1, <4>2
      <4> QED
        BY <4>1, <4>2
    <3>2. CASE held # {}
      <4>1. hits # {}
        BY <2>4, <3>2
      <4>2. Min(hits2) = Min(hits) /\ Min(held2) = Min(held)
        <5>1. hits \subseteq hits2 /\ hits2 \subseteq hits \cup {s}
          BY <2>7
        <5>2. held \subseteq held2 /\ held2 \subseteq held \cup {n}
          BY <2>8
        <5>3. Min(hits2) = Min(hits)
          BY <1>6, <2>6, <4>1, <5>1, MinStays
        <5>4. Min(held2) = Min(held)
          BY <1>6, <2>5, <3>2, <5>2, MinStays
        <5> QED
          BY <5>3, <5>4
      <4>3. Min(hits) \in hits /\ Min(held) \in held
        BY <2>5, <2>6, <3>2, <4>1, MinIsLeast
      <4>4. Pieces(header')[Min(hits)] = Pieces(header)[Min(hits)]
        BY <1>4, <2>6, <4>3
      <4>5. cookies'[Min(held)] = cookies[Min(held)]
        BY <1>3, <2>5, <4>3
      <4> QED
        BY <2>4, <2>7, <2>8, <3>2, <4>1, <4>2, <4>4, <4>5
    <3> QED
      BY <3>1, <3>2
  <2> QED
    BY <2>9 DEF hits2, held2
<1> QED
  BY <1>3, <1>4, <1>7 DEF HeaderRead

LEMMA HeaderNext == HeaderRead /\ [Next]_vars => HeaderRead'
<1> SUFFICES ASSUME HeaderRead, [Next]_vars PROVE HeaderRead'
  OBVIOUS
<1>1. ASSUME NEW cookie \in Cookies, AddCookie(cookie) PROVE HeaderRead'
  BY <1>1, FirstCookie, NextCookie
<1>2. CASE UNCHANGED <<cookies, header>>
  BY <1>2 DEF HeaderRead, Held
<1> QED
  BY <1>1, <1>2 DEF Next, AddDigit, vars

LEMMA HeaderInit == Init => HeaderRead
<1> SUFFICES ASSUME Init PROVE HeaderRead
  OBVIOUS
<1>1. cookies = << >> /\ header = << >> /\ header \in Text /\ cookies \in Seq(Cookies)
  <2>1. cookies = << >> /\ header = << >>
    BY DEF Init
  <2>2. << >> \in Seq(Chars) /\ << >> \in Seq(Cookies)
    BY EmptySeq
  <2> QED
    BY <2>1, <2>2 DEF Text
<1>2. Without(header, {Semicolon})
  BY <1>1 DEF Without
<1>3. Starts(header) = {1} /\ Pieces(header)[1] = header
  BY <1>1, <1>2, OnePiece
<1>4. \A name : ~ IsHit(header, name)
  BY <1>1 DEF IsHit
<1>5. \A name : Hits(header, name) = {} /\ Held(name) = {}
  BY <1>1, <1>3, <1>4, CookiePieces DEF Held
<1> QED
  BY <1>1, <1>5 DEF HeaderRead

\* get_cookie finds of every header that a browser writes what the browser holds under
\* the name, the first of two, and nothing of other cookies (CruddXwebb.cpp:62-78).
THEOREM CookieFoundAlways == Spec => []CookieFound
<1>1. HeaderRead => CookieFound
  <2> SUFFICES ASSUME HeaderRead, NEW name \in Names
               PROVE  GetCookie(header, name) = IF Held(name) = {} THEN << >> ELSE cookies[Min(Held(name))].value
    BY DEF CookieFound, Held
  <2>1. GetCookie(header, name) =
          IF Hits(header, name) = {} THEN << >> ELSE ValueIn(Pieces(header)[Min(Hits(header, name))])
    BY CookiePieces DEF HeaderRead
  <2> QED
    BY <2>1 DEF HeaderRead
<1> QED
  BY <1>1, HeaderInit, HeaderNext, PTL DEF Spec

-----------------------------------------------------------------------------
(* std::stoi. *)

DigitText == {text \in Text : \A i \in DOMAIN text : text[i] \in DOMAIN DigitOf}

\* What a number's digits may stand before.
Ended(text) == text # << >> => text[1] \notin DOMAIN DigitOf

\* The function that Numeral chooses satisfies f = Summed(text, f).
Summed(text, f) ==
  [k \in 0..Len(text) |-> IF k = 0 THEN 0 ELSE 10 * f[k - 1] + DigitOf[text[k]]]

LEMMA DigitDomain ==
  DOMAIN DigitOf = {"0", "1", "2", "3", "4", "5", "6", "7", "8", "9"}
  BY DEF DigitOf

\* No digit is a character that stands for something else in a target.
LEMMA DigitsApart == \A ch \in DOMAIN DigitOf : ch # "?" /\ ch # "-" /\ ch # "+" /\ ch # Space
<1>1. \A ch \in DOMAIN DigitOf : ch # "?" /\ ch # "-" /\ ch # "+"
  BY DigitDomain
<1>2. \A ch \in DOMAIN DigitOf : ch # Space
  BY DigitDomain, Zenon DEF Space
<1> QED
  BY <1>1, <1>2

LEMMA SignsApart == "-" # "?" /\ "-" # Space /\ "+" # Space
<1>1. "-" # "?"
  OBVIOUS
<1>2. "-" # Space /\ "+" # Space
  BY Zenon DEF Space
<1> QED
  BY <1>1, <1>2

\* The digit that AddDigit writes is read as the number it stands for.
LEMMA DigitRead ==
  ASSUME NEW d \in 0..9
  PROVE  DigitChars[d + 1] \in DOMAIN DigitOf /\ DigitOf[DigitChars[d + 1]] = d
<1>1. d \in {0, 1, 2, 3, 4, 5, 6, 7, 8, 9}
  OBVIOUS
<1>2. CASE d = 0
  BY <1>2 DEF DigitChars, DigitOf
<1>3. CASE d = 1
  BY <1>3 DEF DigitChars, DigitOf
<1>4. CASE d = 2
  BY <1>4 DEF DigitChars, DigitOf
<1>5. CASE d = 3
  BY <1>5 DEF DigitChars, DigitOf
<1>6. CASE d = 4
  BY <1>6 DEF DigitChars, DigitOf
<1>7. CASE d = 5
  BY <1>7 DEF DigitChars, DigitOf
<1>8. CASE d = 6
  BY <1>8 DEF DigitChars, DigitOf
<1>9. CASE d = 7
  BY <1>9 DEF DigitChars, DigitOf
<1>10. CASE d = 8
  BY <1>10 DEF DigitChars, DigitOf
<1>11. CASE d = 9
  BY <1>11 DEF DigitChars, DigitOf
<1> QED
  BY <1>1, <1>2, <1>3, <1>4, <1>5, <1>6, <1>7, <1>8, <1>9, <1>10, <1>11

LEMMA SummedAt ==
  ASSUME NEW text \in Text, NEW f
  PROVE  /\ Summed(text, f)[0] = 0
         /\ \A k \in 1..Len(text) : Summed(text, f)[k] = 10 * f[k - 1] + DigitOf[text[k]]
<1>1. Len(text) \in Nat
  BY TextShape
<1> QED
  BY <1>1 DEF Summed

\* Two functions that Numeral may choose end alike: there is no first place at which
\* they differ.
LEMMA SummedOnce ==
  ASSUME NEW text \in Text, NEW f, f = Summed(text, f), NEW g, g = Summed(text, g)
  PROVE  f[Len(text)] = g[Len(text)]
<1> DEFINE apart == {k \in 0..Len(text) : f[k] # g[k]}
<1>1. Len(text) \in Nat
  BY TextShape
<1>2. /\ f[0] = 0 /\ \A k \in 1..Len(text) : f[k] = 10 * f[k - 1] + DigitOf[text[k]]
      /\ g[0] = 0 /\ \A k \in 1..Len(text) : g[k] = 10 * g[k - 1] + DigitOf[text[k]]
  BY <1>1, SummedAt
<1>3. ASSUME apart # {} PROVE FALSE
  <2>1. apart \in SUBSET Nat
    BY <1>1
  <2>2. Min(apart) \in apart /\ \A k \in apart : Min(apart) <= k
    BY <1>3, <2>1, MinIsLeast
  <2> DEFINE k == Min(apart)
  <2>3. k \in 1..Len(text) /\ f[k] # g[k] /\ k - 1 \in 0..Len(text) /\ k - 1 \notin apart
    BY <1>1, <1>2, <2>2
  <2>4. f[k - 1] = g[k - 1]
    BY <2>3
  <2> QED
    BY <1>2, <2>3, <2>4
<1> QED
  BY <1>1, <1>3

LEMMA NumeralIs ==
  ASSUME NEW text \in Text, NEW f, f = Summed(text, f)
  PROVE  Numeral(text) = f[Len(text)]
<1> DEFINE n == CHOOSE g : g = Summed(text, g)
<1>1. n = Summed(text, n)
  OBVIOUS
<1>2. Numeral(text) = n[Len(text)]
  BY DEF Numeral, Summed
<1> HIDE DEF n
<1>3. n[Len(text)] = f[Len(text)]
  BY <1>1, SummedOnce
<1> QED
  BY <1>2, <1>3

\* The digits at the head of a text are all there are.
LEMMA DigitsAhead ==
  ASSUME NEW a \in DigitText, NEW b \in Text, Ended(b)
  PROVE  Digits(a \o b) = a
<1> DEFINE long == a \o b
           S == {j \in DOMAIN long : long[j] \notin DOMAIN DigitOf} \cup {Len(long) + 1}
<1>1. /\ a \in Text /\ Len(a) \in Nat /\ DOMAIN a = 1..Len(a) /\ Len(b) \in Nat
      /\ b = << >> <=> Len(b) = 0
      /\ \A i \in 1..Len(a) : a[i] \in DOMAIN DigitOf
  BY TextShape DEF DigitText
<1>2. /\ long \in Text /\ Len(long) = Len(a) + Len(b) /\ DOMAIN long = 1..(Len(a) + Len(b))
      /\ \A i \in 1..Len(a) : long[i] = a[i]
      /\ \A i \in 1..Len(b) : long[Len(a) + i] = b[i]
  BY <1>1, Joined
<1>3. b # << >> => long[Len(a) + 1] \notin DOMAIN DigitOf
  <2>1. b # << >> => 1 \in 1..Len(b)
    BY <1>1
  <2> QED
    BY <1>2, <2>1 DEF Ended
<1> HIDE DEF long
<1>4. Len(a) + 1 \in S
  BY <1>1, <1>2, <1>3
<1>5. \A j \in S : j \in Nat /\ Len(a) + 1 <= j
  BY <1>1, <1>2
<1>6. Min(S) = Len(a) + 1
  BY <1>1, <1>4, <1>5, MinIs
<1>7. Digits(long) = SubSeq(long, 1, Len(a))
  <2>1. Digits(long) = SubSeq(long, 1, Min(S) - 1)
    BY Zenon DEF Digits
  <2> HIDE DEF S
  <2>2. Min(S) - 1 = Len(a)
    BY <1>1, <1>6
  <2> QED
    BY <2>1, <2>2
<1>8. SubSeq(long, 1, Len(a)) = a
  <2>1. 1 \in 1..(Len(long) + 1) /\ Len(a) \in (1 - 1)..Len(long)
    BY <1>1, <1>2
  <2>2. /\ SubSeq(long, 1, Len(a)) \in Text
        /\ Len(SubSeq(long, 1, Len(a))) = Len(a) - 1 + 1
        /\ \A j \in 1..(Len(a) - 1 + 1) : SubSeq(long, 1, Len(a))[j] = long[1 + j - 1]
    BY <1>2, <2>1, Part
  <2>3. Len(a) - 1 + 1 = Len(a)
    BY <1>1
  <2> DEFINE part == SubSeq(long, 1, Len(a))
  <2>4. part \in Text /\ Len(part) = Len(a)
    BY <2>2, <2>3
  <2>5. \A j \in 1..Len(a) : part[j] = long[1 + j - 1]
    BY <2>2, <2>3
  <2> HIDE DEF part
  <2>6. ASSUME NEW j \in 1..Len(a) PROVE part[j] = a[j]
    <3>1. 1 + j - 1 = j
      BY <1>1
    <3> QED
      BY <1>2, <2>5, <3>1
  <2> QED
    BY <1>1, <2>4, <2>6, SameText DEF part
<1> QED
  BY <1>7, <1>8 DEF long

\* A '?' cuts off part of what stands behind an id, and what is left of that begins as
\* it did.
LEMMA TargetCut ==
  ASSUME NEW a \in Text, Without(a, {"?"}), NEW tail \in Text
  PROVE  \E rest \in Text :
           /\ rest = SubSeq(tail, 1, Find(tail, "?", 1) - 1)
           /\ rest # << >> => tail # << >> /\ rest[1] = tail[1]
           /\ IdOf(a \o tail) = Stoi(a \o rest)
<1> DEFINE long == a \o tail
           k == Find(tail, "?", 1)
           rest == SubSeq(tail, 1, k - 1)
<1>1. /\ Len(a) \in Nat /\ DOMAIN a = 1..Len(a) /\ Len(tail) \in Nat
      /\ tail = << >> <=> Len(tail) = 0
  BY TextShape
<1>2. /\ long \in Text /\ Len(long) = Len(a) + Len(tail)
      /\ \A i \in 1..Len(a) : long[i] = a[i]
      /\ \A i \in 1..Len(tail) : long[Len(a) + i] = tail[i]
  BY Joined
<1>3. /\ k \in 1..(Len(tail) + 1)
      /\ k # Len(tail) + 1 => tail[k] = "?"
      /\ \A j \in 1..(k - 1) : tail[j] # "?"
  BY <1>1, FindFirst
<1>4. rest \in Text /\ Len(rest) = k - 1 /\ \A i \in 1..(k - 1) : rest[i] = tail[i]
  <2>1. 1 \in 1..(Len(tail) + 1) /\ k - 1 \in (1 - 1)..Len(tail) /\ k - 1 - 1 + 1 = k - 1
    BY <1>1, <1>3
  <2>2. /\ rest \in Text /\ Len(rest) = k - 1 - 1 + 1
        /\ \A i \in 1..(k - 1 - 1 + 1) : rest[i] = tail[1 + i - 1]
    <3> HIDE DEF k
    <3> QED
      BY <2>1, Part
  <2>3. \A i \in 1..(k - 1) : 1 + i - 1 = i
    BY <1>1, <1>3
  <2> HIDE DEF rest, k
  <2> QED
    BY <2>1, <2>2, <2>3
<1> HIDE DEF long, k, rest
<1>5. Find(long, "?", 1) = Len(a) + k
  <2>1. 1 \in 1..(Len(long) + 1) /\ Len(a) + k \in 1..(Len(long) + 1)
    BY <1>1, <1>2, <1>3
  <2>2. Len(a) + k # Len(long) + 1 => long[Len(a) + k] = "?"
    BY <1>1, <1>2, <1>3
  <2>3. ASSUME NEW j \in 1..(Len(a) + k - 1) PROVE long[j] # "?"
    <3>1. CASE j <= Len(a)
      BY <1>1, <1>2, <3>1 DEF Without
    <3>2. CASE ~ (j <= Len(a))
      <4>1. j - Len(a) \in 1..(k - 1) /\ j - Len(a) \in 1..Len(tail) /\ Len(a) + (j - Len(a)) = j
        BY <1>1, <1>3, <3>2
      <4> QED
        BY <1>2, <1>3, <4>1
    <3> QED
      BY <3>1, <3>2
  <2> QED
    <3> DEFINE m == Len(a) + k
    <3>1. 1 \in 1..(Len(long) + 1) /\ m \in 1..(Len(long) + 1)
      BY <2>1
    <3>2. m # Len(long) + 1 => long[m] = "?"
      BY <2>2
    <3>3. \A j \in 1..(m - 1) : long[j] # "?"
      <4>1. m - 1 = Len(a) + k - 1
        BY <1>1, <1>3
      <4> HIDE DEF m
      <4> QED
        BY <2>3, <4>1
    <3> HIDE DEF m
    <3>4. Find(long, "?", 1) = m
      BY <1>2, <3>1, <3>2, <3>3, FindIs
    <3> QED
      BY <3>4 DEF m
<1>6. SubSeq(long, 1, Len(a) + k - 1) = a \o rest
  <2> DEFINE part == SubSeq(long, 1, Len(a) + k - 1)
             both == a \o rest
  <2>1. /\ 1 \in 1..(Len(long) + 1) /\ Len(a) + k - 1 \in (1 - 1)..Len(long)
        /\ Len(a) + k - 1 - 1 + 1 = Len(a) + k - 1
    BY <1>1, <1>2, <1>3
  <2>2. /\ part \in Text /\ Len(part) = Len(a) + k - 1 - 1 + 1
        /\ \A i \in 1..(Len(a) + k - 1 - 1 + 1) : part[i] = long[1 + i - 1]
    BY <1>2, <2>1, Part
  <2>3. /\ both \in Text /\ Len(both) = Len(a) + Len(rest)
        /\ \A i \in 1..Len(a) : both[i] = a[i]
        /\ \A i \in 1..Len(rest) : both[Len(a) + i] = rest[i]
    BY <1>4, Joined
  <2> HIDE DEF part, both
  <2>4. ASSUME NEW i \in 1..(Len(a) + k - 1) PROVE part[i] = both[i]
    <3>1. part[i] = long[i]
      <4>1. 1 + i - 1 = i
        BY <1>1, <1>3
      <4> QED
        BY <2>1, <2>2, <4>1
    <3>2. CASE i <= Len(a)
      BY <1>1, <1>2, <2>3, <3>1, <3>2
    <3>3. CASE ~ (i <= Len(a))
      <4>1. i - Len(a) \in 1..(k - 1) /\ i - Len(a) \in 1..Len(tail) /\ Len(a) + (i - Len(a)) = i
        BY <1>1, <1>3, <3>3
      <4> QED
        BY <1>2, <1>4, <2>3, <3>1, <4>1
    <3> QED
      BY <3>2, <3>3
  <2>5. Len(part) = Len(both) /\ Len(part) = Len(a) + k - 1
    BY <1>1, <1>3, <1>4, <2>1, <2>2, <2>3
  <2> QED
    BY <2>2, <2>3, <2>4, <2>5, SameText DEF part, both
<1>7. IdOf(long) = Stoi(a \o rest)
  <2>1. IdOf(long) = Stoi(SubSeq(long, 1, Find(long, "?", 1) - 1))
    BY Zenon DEF IdOf
  <2>2. Find(long, "?", 1) - 1 = Len(a) + k - 1
    BY <1>1, <1>3, <1>5
  <2> QED
    BY <1>6, <2>1, <2>2
<1>8. rest # << >> => tail # << >> /\ rest[1] = tail[1]
  <2>1. rest # << >> => Len(rest) \in Nat /\ Len(rest) # 0
    BY <1>4, TextShape
  <2> QED
    BY <1>1, <1>3, <1>4, <2>1
<1> QED
  BY <1>4, <1>7, <1>8 DEF long, rest, k

\* What is no space, no sign and no digit at its head is no number.
LEMMA NoNumber ==
  ASSUME NEW b \in Text, b # << >> => b[1] \notin {Space, "+", "-"} \cup DOMAIN DigitOf
  PROVE  Number(b) = NotInt
<1>1. TrimLeft(b) = b
  BY TrimNothing
<1>2. ~ (b # << >> /\ b[1] \in {"-", "+"})
  OBVIOUS
<1>3. << >> \in DigitText /\ << >> \o b = b
  <2>1. << >> \in Seq(Chars) /\ DOMAIN << >> = {}
    BY EmptySeq
  <2> QED
    BY <2>1, ConcatEmptySeq DEF Text, DigitText
<1>4. Digits(b) = << >>
  <2>1. Ended(b)
    BY DEF Ended
  <2> QED
    BY <1>3, <2>1, DigitsAhead
<1> QED
  BY <1>1, <1>2, <1>4 DEF Number

LEMMA PlainNumber ==
  ASSUME NEW a \in DigitText, a # << >>, NEW b \in Text, Ended(b)
  PROVE  Number(a \o b) = Numeral(a)
<1> DEFINE long == a \o b
<1>1. long \in Text /\ long # << >> /\ long[1] \in DOMAIN DigitOf
  <2>1. a \in Text /\ DOMAIN a = 1..Len(a) /\ Len(a) \in Nat \ {0} /\ a[1] \in DOMAIN DigitOf
    BY TextShape DEF DigitText
  <2>2. /\ long \in Text /\ Len(long) = Len(a) + Len(b) /\ Len(b) \in Nat
        /\ \A i \in 1..Len(a) : long[i] = a[i]
    BY <2>1, Joined, TextShape
  <2> HIDE DEF long
  <2>3. 1 \in 1..Len(a) /\ Len(long) # 0
    BY <2>1, <2>2
  <2> QED
    BY <2>1, <2>2, <2>3, TextShape
<1>2. Digits(long) = a
  BY DigitsAhead
<1> HIDE DEF long
<1>3. TrimLeft(long) = long
  BY <1>1, DigitsApart, TrimNothing
<1>4. ~ (long # << >> /\ long[1] \in {"-", "+"})
  BY <1>1, DigitsApart
<1> QED
  BY <1>2, <1>3, <1>4 DEF Number, long

LEMMA NegativeNumber ==
  ASSUME NEW a \in DigitText, a # << >>, NEW b \in Text, Ended(b)
  PROVE  Number((<<"-">> \o a) \o b) = -Numeral(a)
<1> DEFINE plain == a \o b
           long == <<"-">> \o plain
<1>0. a \in Text /\ <<"-">> \in Text /\ Len(<<"-">>) = 1 /\ <<"-">>[1] = "-"
  BY FewChars, CharsTyped DEF DigitText
<1>1. plain \in Text
  BY <1>0, Joined
<1>2. (<<"-">> \o a) \o b = long
  BY <1>0, ConcatAssociative DEF Text
<1>3. Digits(plain) = a
  BY DigitsAhead
<1> HIDE DEF plain
<1>4. long \in Text /\ Len(long) = 1 + Len(plain) /\ Len(plain) \in Nat /\ long # << >>
  <2>1. long \in Text /\ Len(long) = Len(<<"-">>) + Len(plain) /\ Len(plain) \in Nat
    BY <1>0, <1>1, Joined, TextShape
  <2> HIDE DEF long
  <2>2. Len(long) = 1 + Len(plain) /\ Len(long) # 0
    BY <1>0, <2>1
  <2> QED
    BY <2>1, <2>2, TextShape
<1>5. long[1] = "-" /\ \A i \in 1..Len(plain) : long[1 + i] = plain[i]
  <2> DEFINE minus == <<"-">>
  <2>1. minus \in Text /\ Len(minus) = 1 /\ minus[1] = "-"
    BY <1>0
  <2> HIDE DEF minus
  <2>2. /\ \A i \in 1..Len(minus) : (minus \o plain)[i] = minus[i]
        /\ \A i \in 1..Len(plain) : (minus \o plain)[Len(minus) + i] = plain[i]
    BY <1>1, <2>1, Joined
  <2>3. (minus \o plain)[1] = "-" /\ \A i \in 1..Len(plain) : (minus \o plain)[1 + i] = plain[i]
    BY <2>1, <2>2
  <2> QED
    BY <2>3 DEF minus
<1> HIDE DEF long
<1>6. Tail(long) = plain
  <2>1. Tail(long) \in Text /\ Len(Tail(long)) = Len(long) - 1
        /\ \A i \in 1..Len(Tail(long)) : Tail(long)[i] = long[i + 1]
    BY <1>4, HeadTailProperties DEF Text
  <2>2. Len(Tail(long)) = Len(plain) /\ \A i \in 1..Len(plain) : i + 1 = 1 + i
    BY <1>4, <2>1
  <2>3. \A i \in 1..Len(plain) : Tail(long)[i] = plain[i]
    BY <1>5, <2>1, <2>2
  <2> QED
    BY <1>1, <2>1, <2>2, <2>3, SameText
<1>7. TrimLeft(long) = long
  BY <1>4, <1>5, SignsApart, TrimNothing
<1>8. Number(long) = -Numeral(a)
  BY <1>3, <1>4, <1>5, <1>6, <1>7 DEF Number
<1> QED
  BY <1>2, <1>8

\* The digits that are written say the id.
NumberWritten ==
  /\ id \in Nat
  /\ digits \in DigitText
  /\ \E f : f = Summed(digits, f) /\ f[Len(digits)] = id

LEMMA NumberInit == Init => NumberWritten
<1> SUFFICES ASSUME Init PROVE NumberWritten
  OBVIOUS
<1>1. id = 0 /\ digits = << >>
  BY DEF Init
<1>2. << >> \in DigitText
  <2>1. << >> \in Seq(Chars) /\ DOMAIN << >> = {}
    BY EmptySeq
  <2> QED
    BY <2>1 DEF Text, DigitText
<1> DEFINE f == [k \in 0..0 |-> 0]
<1>3. f = Summed(digits, f) /\ f[Len(digits)] = id
  <2>1. Len(digits) = 0
    BY <1>1
  <2>2. Summed(digits, f) = [k \in 0..0 |-> IF k = 0 THEN 0 ELSE 10 * f[k - 1] + DigitOf[digits[k]]]
    BY <2>1 DEF Summed
  <2>3. \A k \in 0..0 : k = 0
    OBVIOUS
  <2> QED
    BY <1>1, <2>1, <2>2, <2>3
<1> QED
  BY <1>1, <1>2, <1>3 DEF NumberWritten

LEMMA NumberNext == NumberWritten /\ [Next]_vars => NumberWritten'
<1> SUFFICES ASSUME NumberWritten, [Next]_vars PROVE NumberWritten'
  OBVIOUS
<1>1. ASSUME NEW d \in 0..9, AddDigit(d) PROVE NumberWritten'
  <2> DEFINE ch == DigitChars[d + 1]
             n  == Len(digits) + 1
  <2>1. id' = 10 * id + d /\ digits' = Append(digits, ch)
    BY <1>1 DEF AddDigit
  <2>2. ch \in DOMAIN DigitOf /\ DigitOf[ch] = d /\ ch \in Chars
    BY DigitRead, CharsTyped
  <2>3. /\ digits \in Text /\ Len(digits) \in Nat /\ DOMAIN digits = 1..Len(digits)
        /\ \A i \in 1..Len(digits) : digits[i] \in DOMAIN DigitOf
    BY TextShape DEF NumberWritten, DigitText
  <2> HIDE DEF ch
  <2>4. /\ digits' \in Text /\ Len(digits') = n /\ DOMAIN digits' = 1..n
        /\ \A i \in 1..Len(digits) : digits'[i] = digits[i]
        /\ digits'[n] = ch
    <3>1. Append(digits, ch) \in Seq(Chars) /\ Len(Append(digits, ch)) = Len(digits) + 1
          /\ (\A i \in 1..Len(digits) : Append(digits, ch)[i] = digits[i])
          /\ Append(digits, ch)[Len(digits) + 1] = ch
      BY <2>2, <2>3, AppendProperties DEF Text
    <3> QED
      BY <2>1, <3>1, TextShape DEF Text
  <2>5. digits' \in DigitText
    <3>1. \A i \in 1..n : digits'[i] \in DOMAIN DigitOf
      BY <2>2, <2>3, <2>4
    <3> QED
      BY <2>4, <3>1 DEF DigitText
  <2>6. PICK f : f = Summed(digits, f) /\ f[Len(digits)] = id
    BY DEF NumberWritten
  <2>7. f[0] = 0 /\ \A k \in 1..Len(digits) : f[k] = 10 * f[k - 1] + DigitOf[digits[k]]
    BY <2>3, <2>6, SummedAt
  <2> DEFINE g == [k \in 0..n |-> IF k = n THEN id' ELSE f[k]]
  <2>8. g = Summed(digits', g) /\ g[n] = id'
    <3>0. g[n] = id' /\ g[0] = 0 /\ \A k \in 0..Len(digits) : g[k] = f[k]
      BY <2>3, <2>7
    <3>1. ASSUME NEW k \in 0..n
          PROVE  g[k] = IF k = 0 THEN 0 ELSE 10 * g[k - 1] + DigitOf[digits'[k]]
      <4>1. CASE k = 0
        BY <3>0, <4>1
      <4>2. CASE k \in 1..Len(digits)
        <5>1. k \in 0..Len(digits) /\ k - 1 \in 0..Len(digits) /\ k # 0
          BY <2>3, <4>2
        <5> HIDE DEF g
        <5> QED
          BY <2>4, <2>7, <3>0, <4>2, <5>1
      <4>3. CASE k = n
        <5>1. k - 1 = Len(digits) /\ k # 0 /\ Len(digits) \in 0..Len(digits)
          BY <2>3, <4>3
        <5>2. g[k - 1] = id
          BY <2>6, <3>0, <5>1
        <5> HIDE DEF g, n
        <5> QED
          BY <2>1, <2>2, <2>4, <3>0, <4>3, <5>1, <5>2
      <4> QED
        BY <2>3, <4>1, <4>2, <4>3
    <3>2. Summed(digits', g) = [k \in 0..n |-> IF k = 0 THEN 0 ELSE 10 * g[k - 1] + DigitOf[digits'[k]]]
      BY <2>4 DEF Summed
    <3>3. g = [k \in 0..n |-> g[k]]
      OBVIOUS
    <3> HIDE DEF g, n
    <3>4. [k \in 0..n |-> g[k]] = [k \in 0..n |-> IF k = 0 THEN 0 ELSE 10 * g[k - 1] + DigitOf[digits'[k]]]
      BY <3>1
    <3> QED
      BY <3>0, <3>2, <3>3, <3>4
  <2>9. id' \in Nat
    BY <2>1 DEF NumberWritten
  <2>10. \E h : h = Summed(digits', h) /\ h[Len(digits')] = id'
    <3> HIDE DEF g, n
    <3> QED
      BY <2>4, <2>8
  <2> QED
    BY <2>5, <2>9, <2>10 DEF NumberWritten
<1>2. CASE UNCHANGED <<id, digits>>
  BY <1>2 DEF NumberWritten
<1> QED
  BY <1>1, <1>2 DEF Next, AddCookie, vars

\* An id that went out as a number comes back from a target as that number, negated
\* behind a '-', whatever tail or query stands behind it; one that an int cannot hold
\* is refused, and so is a target without a number (CruddXwebb.cpp:327-330).
THEOREM IdRoundTripsAlways == Spec => []IdRoundTrips
<1>1. NumberWritten => IdRoundTrips
  <2> SUFFICES ASSUME NumberWritten, NEW tail \in Tails
               PROVE  /\ IdOf(tail) = NotInt
                      /\ digits # << >> =>
                           /\ IdOf(digits \o tail) = IF id <= MaxInt THEN id ELSE NotInt
                           /\ IdOf((<<"-">> \o digits) \o tail) = IF id <= MaxInt + 1 THEN -id ELSE NotInt
    <3>1. \A tail \in Tails : (<<"-">> \o digits) \o tail = <<"-">> \o digits \o tail
      OBVIOUS
    <3> QED
      BY <3>1 DEF IdRoundTrips
  <2>1. tail \in Text /\ (tail # << >> => tail[1] \notin {Space, "+", "-"} \cup DOMAIN DigitOf)
    BY TailsTyped
  <2>2. digits \in DigitText /\ digits \in Text /\ id \in Nat /\ Numeral(digits) = id
    BY NumeralIs DEF NumberWritten, DigitText
  <2> DEFINE rest == SubSeq(tail, 1, Find(tail, "?", 1) - 1)
  <2>3. \A a \in Text : Without(a, {"?"}) =>
          /\ rest \in Text /\ (rest # << >> => tail # << >> /\ rest[1] = tail[1])
          /\ IdOf(a \o tail) = Stoi(a \o rest)
    BY <2>1, TargetCut
  <2> HIDE DEF rest
  <2>4. << >> \in Text /\ Without(<< >>, {"?"}) /\ << >> \o tail = tail
    <3>1. << >> \in Seq(Chars) /\ DOMAIN << >> = {}
      BY EmptySeq
    <3> QED
      BY <2>1, <3>1, ConcatEmptySeq DEF Text, Without
  <2>5. rest \in Text /\ (rest # << >> => rest[1] \notin {Space, "+", "-"} \cup DOMAIN DigitOf)
    BY <2>1, <2>3, <2>4
  <2>6. Ended(rest)
    BY <2>5 DEF Ended
  <2>7. IdOf(tail) = NotInt
    <3>1. IdOf(tail) = Stoi(<< >> \o rest) /\ << >> \o rest = rest
      BY <2>3, <2>4, <2>5, ConcatEmptySeq DEF Text
    <3>2. Number(rest) = NotInt
      BY <2>5, NoNumber
    <3> QED
      BY <3>1, <3>2 DEF Stoi
  <2>8. ASSUME digits # << >>
        PROVE  IdOf(digits \o tail) = IF id <= MaxInt THEN id ELSE NotInt
    <3>1. Without(digits, {"?"})
      BY <2>2, DigitsApart DEF Without, DigitText
    <3>2. IdOf(digits \o tail) = Stoi(digits \o rest)
      BY <2>2, <2>3, <3>1
    <3>3. Number(digits \o rest) = id
      BY <2>2, <2>5, <2>6, <2>8, PlainNumber
    <3>4. Stoi(digits \o rest) = IF id = NotInt \/ id \in (-MaxInt - 1)..MaxInt THEN id ELSE NotInt
      BY <3>3 DEF Stoi
    <3> QED
      BY <2>2, <3>2, <3>4, IntsTyped
  <2>9. ASSUME digits # << >>
        PROVE  IdOf((<<"-">> \o digits) \o tail) = IF id <= MaxInt + 1 THEN -id ELSE NotInt
    <3> DEFINE signed == <<"-">> \o digits
    <3>1. signed \in Text /\ Without(signed, {"?"})
      <4> DEFINE minus == <<"-">>
      <4>1. minus \in Text /\ Len(minus) = 1 /\ minus[1] = "-"
        BY FewChars, CharsTyped
      <4>2. DOMAIN digits = 1..Len(digits) /\ Len(digits) \in Nat
        BY <2>2, TextShape
      <4> HIDE DEF minus
      <4>3. /\ minus \o digits \in Text /\ DOMAIN (minus \o digits) = 1..(Len(minus) + Len(digits))
            /\ \A i \in 1..Len(minus) : (minus \o digits)[i] = minus[i]
            /\ \A i \in 1..Len(digits) : (minus \o digits)[Len(minus) + i] = digits[i]
        BY <2>2, <4>1, Joined
      <4>4. \A i \in 1..Len(digits) : digits[i] # "?"
        BY <2>2, <4>2, DigitsApart DEF DigitText
      <4>5. ASSUME NEW i \in 1..(Len(minus) + Len(digits)) PROVE (minus \o digits)[i] # "?"
        <5>1. CASE i = 1
          BY <4>1, <4>3, <5>1, SignsApart
        <5>2. CASE i # 1
          <6>1. i - 1 \in 1..Len(digits) /\ Len(minus) + (i - 1) = i
            BY <4>1, <4>2, <5>2
          <6> QED
            BY <4>3, <4>4, <6>1
        <5> QED
          BY <5>1, <5>2
      <4>6. minus \o digits \in Text /\ Without(minus \o digits, {"?"})
        BY <4>3, <4>5 DEF Without
      <4> QED
        BY <4>6 DEF minus
    <3>2. IdOf(signed \o tail) = Stoi(signed \o rest)
      BY <2>3, <3>1
    <3>3. Number(signed \o rest) = -id
      BY <2>2, <2>5, <2>6, <2>9, NegativeNumber
    <3> HIDE DEF signed
    <3>4. Stoi(signed \o rest) = IF -id = NotInt \/ -id \in (-MaxInt - 1)..MaxInt THEN -id ELSE NotInt
      BY <3>3 DEF Stoi
    <3>5. IdOf(signed \o tail) = IF id <= MaxInt + 1 THEN -id ELSE NotInt
      BY <2>2, <3>2, <3>4, IntsTyped
    <3> QED
      BY <3>5 DEF signed
  <2> QED
    BY <2>7, <2>8, <2>9
<1> QED
  BY <1>1, NumberInit, NumberNext, PTL DEF Spec
=============================================================================
