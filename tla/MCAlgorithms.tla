---------------------------- MODULE MCAlgorithms ----------------------------
(***************************************************************************)
(* Sha256 and Requests for TLC.  A behaviour either hashes one message, or *)
(* grows what a client sends: its Cookie header or the id in a target.     *)
(***************************************************************************)
EXTENDS Requests

CONSTANT Messages

VARIABLES message, buffer, padded, h, w, v, round

Hash == INSTANCE Sha256

allVars == <<vars, message, buffer, padded, h, w, v, round>>

(***************************************************************************)
(* Digests of other implementations.  The lengths lie about the places     *)
(* where the padding starts another chunk (56 and 120 bytes) and where a   *)
(* chunk is full (64); the last is the password of data/users.json.        *)
(***************************************************************************)
Repeated(byte, n) == [i \in 1..n |-> byte]

Vectors ==
  {[message |-> Repeated(97, 0),
    digest |->
     <<<<\he3b0, \hc442>>, <<\h98fc, \h1c14>>, <<\h9afb, \hf4c8>>, <<\h996f, \hb924>>,
       <<\h27ae, \h41e4>>, <<\h649b, \h934c>>, <<\ha495, \h991b>>, <<\h7852, \hb855>>>>],
   [message |-> Repeated(97, 1),
    digest |->
     <<<<\hca97, \h8112>>, <<\hca1b, \hbdca>>, <<\hfac2, \h31b3>>, <<\h9a23, \hdc4d>>,
       <<\ha786, \heff8>>, <<\h147c, \h4e72>>, <<\hb980, \h7785>>, <<\hafee, \h48bb>>>>],
   [message |-> Repeated(97, 55),
    digest |->
     <<<<\h9f43, \h90f8>>, <<\hd30c, \h2dd9>>, <<\h2ec9, \hf095>>, <<\hb65e, \h2b9a>>,
       <<\he9b0, \ha925>>, <<\ha525, \h8e24>>, <<\h1c9f, \h1e91>>, <<\h0f73, \h4318>>>>],
   [message |-> Repeated(97, 56),
    digest |->
     <<<<\hb354, \h39a4>>, <<\hac6f, \h0948>>, <<\hb6d6, \hf9e3>>, <<\hc6af, \h0f5f>>,
       <<\h590c, \he20f>>, <<\h1bde, \h7090>>, <<\hef79, \h7068>>, <<\h6ec6, \h738a>>>>],
   [message |-> Repeated(97, 63),
    digest |->
     <<<<\h7d3e, \h74a0>>, <<\h5d7d, \hb15b>>, <<\hce4a, \hd9ec>>, <<\h0658, \hea98>>,
       <<\he3f0, \h6eee>>, <<\hcf16, \hb4c6>>, <<\hfff2, \hda45>>, <<\h7ddc, \h2f34>>>>],
   [message |-> Repeated(97, 64),
    digest |->
     <<<<\hffe0, \h54fe>>, <<\h7ae0, \hcb6d>>, <<\hc65c, \h3af9>>, <<\hb61d, \h5209>>,
       <<\hf439, \h851d>>, <<\hb43d, \h0ba5>>, <<\h9973, \h37df>>, <<\h1546, \h68eb>>>>],
   [message |-> Repeated(97, 65),
    digest |->
     <<<<\h6353, \h61c4>>, <<\h8bb9, \heab1>>, <<\h4198, \he76e>>, <<\ha8ab, \h7f1a>>,
       <<\h4168, \h5d6a>>, <<\hd62a, \ha914>>, <<\h6d30, \h1d4f>>, <<\h17eb, \h0ae0>>>>],
   [message |-> Repeated(97, 119),
    digest |->
     <<<<\h31eb, \ha51c>>, <<\h313a, \h5c08>>, <<\h226a, \hdf18>>, <<\hd4a3, \h59cf>>,
       <<\hdfd8, \hd2e8>>, <<\h16b1, \h3f4a>>, <<\hf952, \hf7ea>>, <<\h6584, \hdcfb>>>>],
   [message |-> Repeated(97, 120),
    digest |->
     <<<<\h2f3d, \h3354>>, <<\h32c7, \h0b58>>, <<\h0af0, \he8e1>>, <<\hb367, \h4a7c>>,
       <<\h020d, \h683a>>, <<\ha5f7, \h3aaa>>, <<\hedfd, \hc55a>>, <<\hf904, \hc21c>>>>],
   [message |-> <<49, 50, 51, 52, 53>>,
    digest |->
     <<<<\h5994, \h471a>>, <<\hbb01, \h112a>>, <<\hfcc1, \h8159>>, <<\hf6cc, \h74b4>>,
       <<\hf511, \hb998>>, <<\h06da, \h59b3>>, <<\hcaf5, \ha9c1>>, <<\h73ca, \hcfc5>>>>]}

MCMessages == {vector.message : vector \in Vectors}

UsedChars == {Space, Semicolon, "=", "?", "+", "-", "a", "s", "x"} \cup DOMAIN DigitOf

\* Names of which one is the end of another, and values with and without '='.
Session == <<"s">>
TwoNames == {Session, <<"a", "s">>}
ThreeValues == {<<"1">>, <<"2", "=", "3">>, << >>}
OneNameless == {Session}
ThreeTails == {<< >>, <<"?", "7">>, <<"x">>}

-----------------------------------------------------------------------------
MCInit == Init /\ Hash!Init

Hashing == Hash!Next /\ cookies = << >> /\ digits = << >> /\ UNCHANGED vars

\* Clients write while the hash stays at the start of its first message.
Writing ==
  /\ message = << >> /\ ~ padded
  /\ \/ digits = << >> /\ \E cookie \in Cookies : AddCookie(cookie)
     \/ cookies = << >> /\ \E d \in 0..9 : AddDigit(d)
  /\ UNCHANGED <<message, buffer, padded, h, w, v, round>>

MCNext == Hashing \/ Writing

MCSpec == MCInit /\ [][MCNext]_allVars

-----------------------------------------------------------------------------
(* Properties *)

\* The hash computes SHA-256: what it leaves in h agrees with other implementations,
\* on either side of every length where the padding changes its shape, and on a
\* password hash that the repository ships (data/users.json).
DigestMatches == Hash!Done => [message |-> message, digest |-> h] \in Vectors
=============================================================================
