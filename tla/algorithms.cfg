SPECIFICATION MCSpec
CONSTANTS
  NotInt = NotInt
  Chars <- UsedChars
  MaxInt = 127
  MaxCookies = 3
  MaxDigits = 3
  Names <- TwoNames
  Values <- ThreeValues
  Nameless <- OneNameless
  Tails <- ThreeTails
  Messages <- MCMessages
INVARIANTS
  DigestMatches
  CookieFound
  IdRoundTrips
CHECK_DEADLOCK FALSE
