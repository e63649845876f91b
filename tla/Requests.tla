------------------------------ MODULE Requests ------------------------------
(***************************************************************************)
(* The text that clients send and Parsing reads, beside what they mean by  *)
(* it: the Cookie header that a browser makes of the cookies it holds for  *)
(* the site, and the id in a target, digit by digit (app.js).              *)
(***************************************************************************)
EXTENDS Parsing

CONSTANTS
  Names, Values,         \* of cookies
  Nameless,              \* the values of cookies without a name
  Tails,                 \* what stands behind an id in a target
  MaxCookies, MaxDigits  \* bounds

ASSUME CharsTyped == {Space, Semicolon, "=", "?", "+", "-"} \cup DOMAIN DigitOf \subseteq Chars

Text == Seq(Chars)

Without(text, chars) == \A j \in DOMAIN text : text[j] \notin chars

\* What a browser sends for a cookie can be told from the next one, and a name from
\* its value; a value without a name is sent without '=', and has none itself.
ASSUME NamesTyped ==
  \A name \in Names :
    name \in Text /\ name # << >> /\ name[1] # Space /\ Without(name, {"=", Semicolon})
ASSUME ValuesTyped == \A value \in Values : value \in Text /\ Without(value, {Semicolon})
ASSUME NamelessTyped ==
  \A value \in Nameless : value \in Text /\ Without(value, {"=", Semicolon})

\* What stands behind an id does not go on with it, and is no number itself.
ASSUME TailsTyped ==
  \A tail \in Tails :
    /\ tail \in Text
    /\ tail # << >> => tail[1] \notin {Space, "+", "-"} \cup DOMAIN DigitOf

ASSUME IntsTyped == MaxInt \in Nat /\ NotInt \notin Int

Cookies == [name : Names, value : Values] \cup [name : {<< >>}, value : Nameless]

VARIABLES
  cookies,  \* the cookies a browser holds, in the order it sends them
  header,   \* the Cookie header it sends
  id,       \* the id that app.js puts into `/api/items/${id}`
  digits    \* how it is written

vars == <<cookies, header, id, digits>>

Init ==
  /\ cookies = << >> /\ header = << >>
  /\ id = 0 /\ digits = << >>

Sent(cookie) == IF cookie.name = << >> THEN cookie.value ELSE cookie.name \o <<"=">> \o cookie.value

\* Browsers write "; " between two cookies.
AddCookie(cookie) ==
  /\ Len(cookies) < MaxCookies
  /\ cookies' = Append(cookies, cookie)
  /\ header' = header \o (IF cookies = << >> THEN << >> ELSE <<Semicolon, Space>>) \o Sent(cookie)
  /\ UNCHANGED <<id, digits>>

DigitChars == <<"0", "1", "2", "3", "4", "5", "6", "7", "8", "9">>

\* As JavaScript writes a number: nothing follows a zero at the head.
AddDigit(d) ==
  /\ Len(digits) < MaxDigits
  /\ digits # <<"0">>
  /\ id' = 10 * id + d
  /\ digits' = Append(digits, DigitChars[d + 1])
  /\ UNCHANGED <<cookies, header>>

Next == (\E cookie \in Cookies : AddCookie(cookie)) \/ (\E d \in 0..9 : AddDigit(d))

Spec == Init /\ [][Next]_vars

-----------------------------------------------------------------------------
(* Properties *)

\* current_user finds the value the browser holds for the session's name, wherever
\* in the header it stands, whatever other cookies the site has; among two of the
\* name (of different paths) the first (CruddXwebb.cpp:62-78).
CookieFound ==
  \A name \in Names :
    LET held == {i \in DOMAIN cookies : cookies[i].name = name}
    IN GetCookie(header, name) = IF held = {} THEN << >> ELSE cookies[Min(held)].value

\* An id that went out as a number comes back from a target as that number, with a
\* query or a tail behind it, and no id that an int cannot hold is taken for another
\* (CruddXwebb.cpp:327-330).
IdRoundTrips ==
  \A tail \in Tails :
    /\ IdOf(tail) = NotInt
    /\ digits # << >> =>
         /\ IdOf(digits \o tail) = IF id <= MaxInt THEN id ELSE NotInt
         /\ IdOf(<<"-">> \o digits \o tail) = IF id <= MaxInt + 1 THEN -id ELSE NotInt
=============================================================================
