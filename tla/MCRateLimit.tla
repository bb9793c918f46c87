------------------------------ MODULE MCRateLimit ------------------------------
(***************************************************************************)
(* An instance of RateLimit for TLC.                                       *)
(***************************************************************************)
EXTENDS RateLimit, TLC

CONSTANTS a1, a2, a3, a4, p1, p2

\* Most attempts are for one identity.
MCPairOf == [a \in Attempts |-> IF a = a4 THEN p2 ELSE p1]

OneIdentity == Permutations({a1, a2, a3})
=============================================================================
