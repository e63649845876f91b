-------------------------- MODULE MCSessionManager --------------------------
(* A small instance of SessionManager for TLC. *)
EXTENDS SessionManager

CONSTANTS ann, bob, k1, k2, k3, t1, t2

MCThreads == {t1, t2}
MCTokens == {k1, k2, k3}
MCUsernames == {ann, bob}
=============================================================================
