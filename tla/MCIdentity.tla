----------------------------- MODULE MCIdentity -----------------------------
(***************************************************************************)
(* Payloads of up to three members, at depth one to three, whose names     *)
(* include the AWS object, a claim called aws, a dotted name that spells   *)
(* out a nested key, and a registered claim at the top and below it.       *)
(***************************************************************************)
EXTENDS Identity, FiniteSets

NS == <<"https://sts", "amazonaws", "com/">>
Sub == <<"sub">>
X == <<"x">>
AwsX == <<"aws", "x">>

MCReserved == {Sub, <<"iss">>}

Paths ==
  {<<n>> : n \in {NS, awsPrefix, AwsX, X, Sub}}
  \cup {<<n, k>> : n \in {NS, awsPrefix, X, Sub}, k \in {X, Sub}}
  \cup {<<NS, X, Sub>>, <<AwsX, Sub>>}

\* A member is not an object, so no path begins with another.
Shapes ==
  {s \in SUBSET Paths :
     /\ Cardinality(s) \in 1..3
     /\ \A p, q \in s : Len(p) < Len(q) => SubSeq(q, 1, Len(p)) # p}

Values == {[kind |-> "string", text |-> "v"], [kind |-> "number", text |-> "1"],
           [kind |-> "array", text |-> "v"]}

MCPayloads == UNION {[s -> Values] : s \in Shapes}

MCRequires == {[k \in {AwsX} |-> "v"], [k \in {X, AwsX} |-> IF k = X THEN "1" ELSE ""]}
=============================================================================
