------------------------------ MODULE MCPolicy ------------------------------
(***************************************************************************)
(* Policies of up to two rules.  In a policy of one rule, matches range    *)
(* over every combination of conditions with one grant, and grants over    *)
(* every combination of directions with one match; in a policy of two,     *)
(* both come from a smaller set of rules whose matches overlap.            *)
(***************************************************************************)
EXTENDS Policy

CONSTANTS d1, d2, x   \* two digits and a letter

\* arn:1:... is <<x, Colon, d1, Colon, x>> with the account in the second field.
Arn(acct) == <<x, Colon, acct, Colon, x>>
Shifted == <<x, Colon, d2, Colon, d1>>

MCSub ==
  { NoSub,
    [kind |-> "glob", pat |-> Arn(d1)],                       \* exact
    [kind |-> "glob", pat |-> <<x, Colon, d1, Colon, Star>>], \* pinned
    [kind |-> "glob", pat |-> <<Star, Colon, d1, Star>>],     \* may shift
    [kind |-> "re", anchored |-> TRUE, compiles |-> TRUE, spans |-> {Arn(d1), Arn(d2)}],
    [kind |-> "re", anchored |-> FALSE, compiles |-> TRUE, spans |-> {Arn(d2)}] }

Claims ==
  { [k \in {} |-> <<>>],
    [k \in {AwsAccount} |-> <<d1>>],
    [k \in {AwsAccount} |-> <<x>>],
    [k \in {"repository"} |-> <<x>>] }

MCIdentity ==
  [issuer : {"i1", "i2"}, sub : {Arn(d1), Arn(d2), Shifted}, claims : Claims]

Match ==
  [issuer : {NoIssuer, "i1"}, sub : MCSub, claims : Claims,
   expr : {"none", "bool", "other"}, broad : BOOLEAN]

Perm == {Omitted} \cup [given : {TRUE}, allow : SUBSET Subject, deny : {{}, {"s1"}}]

Grant == [account |-> "APP", publish |-> Omitted,
          subscribe |-> [given |-> TRUE, allow |-> {"s1"}, deny |-> {}]]

PinnedMatch ==
  [issuer |-> "i1", sub |-> [kind |-> "glob", pat |-> Arn(d1)],
   claims |-> [k \in {} |-> <<>>], expr |-> "none", broad |-> FALSE]

Rule ==
  [match : Match, grant : {Grant}]
  \cup [match : {PinnedMatch},
        grant : [account : {"APP", NoAccount}, publish : Perm, subscribe : Perm]]

\* Rules that can hide one another, or fail after an earlier one compiled.
Overlapping ==
  {r \in Rule : /\ r.grant = Grant
               /\ r.match.expr # "other"
               /\ r.match.sub \in {NoSub, PinnedMatch.sub}
               /\ r.match.claims \in {[k \in {} |-> <<>>], [k \in {"repository"} |-> <<x>>]}}

MCRules == {<<>>} \cup [1..1 -> Rule] \cup [1..2 -> Overlapping]
=============================================================================
