--------------------------- MODULE MCTokenManager ---------------------------
(* A small deployment for TokenManager: sessions s1 and s2, one profile, request *)
(* slots a and b in s1 and c in s2.                                             *)
EXTENDS TokenManager

CONSTANTS s1, s2, work, a, b, c

TwoHomes == [r \in Requests |-> IF r = c THEN s2 ELSE s1]
OneProfile == [r \in Requests |-> work]
=============================================================================
