------------------------------ MODULE Sha256 ------------------------------
(***************************************************************************)
(* The hash of sha256.h, which turns passwords into what users.json keeps: *)
(* a SHA256 object from its constructor to its hexdigest, one action per   *)
(* pass of a loop.  A uint32_t is a pair of 16-bit halves, high half       *)
(* first, so that every intermediate value fits TLC's integers; a byte is  *)
(* in 0..255.  The digest's hex digits are left out: it is the words h.    *)
(***************************************************************************)
EXTENDS Integers, Sequences, Bitwise

CONSTANT Messages   \* what is hashed: sequences of bytes

H0 == <<
  <<\h6a09, \he667>>, <<\hbb67, \hae85>>, <<\h3c6e, \hf372>>, <<\ha54f, \hf53a>>,
  <<\h510e, \h527f>>, <<\h9b05, \h688c>>, <<\h1f83, \hd9ab>>, <<\h5be0, \hcd19>>>>

K == <<
  <<\h428a, \h2f98>>, <<\h7137, \h4491>>, <<\hb5c0, \hfbcf>>, <<\he9b5, \hdba5>>,
  <<\h3956, \hc25b>>, <<\h59f1, \h11f1>>, <<\h923f, \h82a4>>, <<\hab1c, \h5ed5>>,
  <<\hd807, \haa98>>, <<\h1283, \h5b01>>, <<\h2431, \h85be>>, <<\h550c, \h7dc3>>,
  <<\h72be, \h5d74>>, <<\h80de, \hb1fe>>, <<\h9bdc, \h06a7>>, <<\hc19b, \hf174>>,
  <<\he49b, \h69c1>>, <<\hefbe, \h4786>>, <<\h0fc1, \h9dc6>>, <<\h240c, \ha1cc>>,
  <<\h2de9, \h2c6f>>, <<\h4a74, \h84aa>>, <<\h5cb0, \ha9dc>>, <<\h76f9, \h88da>>,
  <<\h983e, \h5152>>, <<\ha831, \hc66d>>, <<\hb003, \h27c8>>, <<\hbf59, \h7fc7>>,
  <<\hc6e0, \h0bf3>>, <<\hd5a7, \h9147>>, <<\h06ca, \h6351>>, <<\h1429, \h2967>>,
  <<\h27b7, \h0a85>>, <<\h2e1b, \h2138>>, <<\h4d2c, \h6dfc>>, <<\h5338, \h0d13>>,
  <<\h650a, \h7354>>, <<\h766a, \h0abb>>, <<\h81c2, \hc92e>>, <<\h9272, \h2c85>>,
  <<\ha2bf, \he8a1>>, <<\ha81a, \h664b>>, <<\hc24b, \h8b70>>, <<\hc76c, \h51a3>>,
  <<\hd192, \he819>>, <<\hd699, \h0624>>, <<\hf40e, \h3585>>, <<\h106a, \ha070>>,
  <<\h19a4, \hc116>>, <<\h1e37, \h6c08>>, <<\h2748, \h774c>>, <<\h34b0, \hbcb5>>,
  <<\h391c, \h0cb3>>, <<\h4ed8, \haa4a>>, <<\h5b9c, \hca4f>>, <<\h682e, \h6ff3>>,
  <<\h748f, \h82ee>>, <<\h78a5, \h636f>>, <<\h84c8, \h7814>>, <<\h8cc7, \h0208>>,
  <<\h90be, \hfffa>>, <<\ha450, \h6ceb>>, <<\hbef9, \ha3f7>>, <<\hc671, \h78f2>>>>

Half == 65536

XorWord(x, y) == <<x[1] ^^ y[1], x[2] ^^ y[2]>>
AndWord(x, y) == <<x[1] & y[1], x[2] & y[2]>>
NotWord(x) == <<Half - 1 - x[1], Half - 1 - x[2]>>

\* + on uint32_t: modulo 2^32.
Add(x, y) ==
  LET low == x[2] + y[2] IN <<(x[1] + y[1] + low \div Half) % Half, low % Half>>

\* x >> n, the bits that leave the high half entering the low one (0 < n < 16).
Shr(x, n) ==
  <<x[1] \div 2^n, x[2] \div 2^n + (x[1] % 2^n) * 2^(16 - n)>>

Rotr(x, n) ==
  LET y == IF n < 16 THEN x ELSE <<x[2], x[1]>>
      m == n % 16
  IN IF m = 0 THEN y ELSE <<y[1] \div 2^m + (y[2] % 2^m) * 2^(16 - m), Shr(y, m)[2]>>

Sigma(x, r1, r2, r3) == XorWord(XorWord(Rotr(x, r1), Rotr(x, r2)), Rotr(x, r3))

Word(chunk, i) ==
  <<chunk[4*i - 3] * 256 + chunk[4*i - 2], chunk[4*i - 1] * 256 + chunk[4*i]>>

-----------------------------------------------------------------------------
VARIABLES
  message,  \* the input
  buffer,   \* the bytes of it, and of its padding, that are not yet transformed
  padded,   \* hexdigest has padded the buffer
  h,        \* the state: eight words
  w,        \* the message schedule of the chunk in work, empty between chunks
  v,        \* the working variables a, b, c, d, e, f, g, hh
  round     \* how many rounds the chunk has had

vars == <<message, buffer, padded, h, w, v, round>>

Init ==
  /\ message \in Messages
  /\ buffer = message
  /\ padded = FALSE
  /\ h = H0
  /\ w = << >>
  /\ v = << >>
  /\ round = 0

\* transform begins: the chunk's words; the buffer goes on behind it.
Chunk ==
  /\ w = << >> /\ Len(buffer) >= 64
  /\ w' = [i \in 1..16 |-> Word(buffer, i)]
  /\ buffer' = SubSeq(buffer, 65, Len(buffer))
  /\ v' = h
  /\ UNCHANGED <<message, padded, h, round>>

\* The low half of the bit length, for messages of less than 2^13 bytes.
LengthBytes(n) == <<0, 0, 0, 0, 0, 0, (8 * n) \div 256, (8 * n) % 256>>

Zeros(n) == [i \in 1..n |-> 0]

\* Mutated form: the length of what update has left in the buffer.
PadBuffer ==
  /\ w = << >> /\ Len(buffer) < 64 /\ ~ padded
  /\ buffer' = buffer \o <<128>> \o Zeros((119 - Len(buffer)) % 64) \o LengthBytes(Len(buffer))
  /\ padded' = TRUE
  /\ UNCHANGED <<message, h, w, v, round>>

\* hexdigest, when update has transformed every full chunk: 0x80, zeros until the
\* buffer has 56 bytes modulo 64, and the length.
Pad ==
  /\ w = << >> /\ Len(buffer) < 64 /\ ~ padded
  /\ buffer' = buffer \o <<128>> \o Zeros((119 - Len(buffer)) % 64) \o LengthBytes(Len(message))
  /\ padded' = TRUE
  /\ UNCHANGED <<message, h, w, v, round>>

\* w[i], of the words 2, 7, 15 and 16 before it.
Extend ==
  /\ Len(w) \in 16..63
  /\ LET i  == Len(w) + 1
         s0 == XorWord(XorWord(Rotr(w[i - 15], 7), Rotr(w[i - 15], 18)), Shr(w[i - 15], 3))
         s1 == XorWord(XorWord(Rotr(w[i - 2], 17), Rotr(w[i - 2], 19)), Shr(w[i - 2], 10))
     IN w' = Append(w, Add(Add(w[i - 16], s0), Add(w[i - 7], s1)))
  /\ UNCHANGED <<message, buffer, padded, h, v, round>>

Round ==
  /\ Len(w) = 64 /\ round < 64
  /\ LET a == v[1]  b == v[2]  c == v[3]  e == v[5]  f == v[6]  g == v[7]
         ch    == XorWord(AndWord(e, f), AndWord(NotWord(e), g))
         maj   == XorWord(XorWord(AndWord(a, b), AndWord(a, c)), AndWord(b, c))
         temp1 == Add(Add(v[8], Sigma(e, 6, 11, 25)), Add(ch, Add(K[round + 1], w[round + 1])))
         temp2 == Add(Sigma(a, 2, 13, 22), maj)
     IN v' = <<Add(temp1, temp2), a, b, c, Add(v[4], temp1), e, f, g>>
  /\ round' = round + 1
  /\ UNCHANGED <<message, buffer, padded, h, w>>

\* The end of transform.
Accumulate ==
  /\ round = 64
  /\ h' = [i \in 1..8 |-> Add(h[i], v[i])]
  /\ w' = << >>
  /\ v' = << >>
  /\ round' = 0
  /\ UNCHANGED <<message, buffer, padded>>

Next == Chunk \/ Pad \/ Extend \/ Round \/ Accumulate

Done == padded /\ buffer = << >> /\ w = << >>

Spec == Init /\ [][Next]_vars
=============================================================================
