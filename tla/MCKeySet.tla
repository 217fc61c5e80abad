------------------------------ MODULE MCKeySet ------------------------------
(***************************************************************************)
(* Small instances of KeySet.  The issuer signs with k1 or k2; kx is a key *)
(* it never published.  Whatever document is cached, some parsing token    *)
(* misses it.                                                              *)
(***************************************************************************)
EXTENDS KeySet

CONSTANTS k1, k2, kx, kid1, kid2, c1, c2, r1, r2

Jwk1 == [kid |-> kid1, key |-> k1]
Jwk2 == [kid |-> kid2, key |-> k2]

\* One rotation that publishes a key or retires it; a genuine token of that
\* key, a forged one without a kid and one that does not parse.
LiveDocs == {{Jwk1}, {Jwk1, Jwk2}}
LiveTokens ==
  { [parses |-> TRUE, kid |-> kid2, key |-> k2],
    [parses |-> TRUE, kid |-> NoKid, key |-> kx],
    [parses |-> FALSE, kid |-> NoKid, key |-> kx] }

\* For the run that ends at a violation: more ways to rotate.
MCDocs == {{Jwk1}, {Jwk2}, {}}
MCTokens ==
  { [parses |-> TRUE, kid |-> kid1, key |-> k1],
    [parses |-> TRUE, kid |-> NoKid, key |-> k2],
    [parses |-> FALSE, kid |-> NoKid, key |-> kx] }
=============================================================================
