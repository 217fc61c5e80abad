---------------------------- MODULE MCAuthorizer ----------------------------
(***************************************************************************)
(* A small instance of Authorizer.  Two rulesets that trust different      *)
(* issuers' claims and grant different accounts, so that a grant mixed     *)
(* from both is one neither would give; tokens that pass every check or    *)
(* fail exactly one.  The new ruleset has two rules that come into force   *)
(* at the same time, so that the clock can pass it between their tests.    *)
(***************************************************************************)
EXTENDS Authorizer, TLC

CONSTANTS w1, w2, issA, issB, alice, bob, audN, audX, owner, team

Good == [form |-> "jwt", iss |-> issA, sub |-> alice, aud |-> {audN, audX},
         claims |-> {owner, team}, exp |-> 2, genuine |-> TRUE]

MCTokens ==
  { Good,
    [Good EXCEPT !.sub = bob, !.exp = 1],
    [Good EXCEPT !.genuine = FALSE],
    [Good EXCEPT !.aud = {audX}],
    [Good EXCEPT !.claims = {team}],
    [Good EXCEPT !.iss = issB],
    [Good EXCEPT !.form = "malformed"],
    [Good EXCEPT !.form = "empty"] }

MCRule(iss, subs, claims, expr, account, cap) ==
  [issuer |-> iss, subs |-> subs, claims |-> claims, expr |-> expr,
   account |-> account, maxExpiry |-> cap]

\* The old ruleset requires the owner claim and lets everybody into APP, alice
\* with a short cap; the new one requires no claim, accepts another audience,
\* and lets only those of the team in, from time 1 on.
OldRules ==
  [issuers |-> [i \in {issA} |-> {owner}], audiences |-> {audN},
   rules |-> << MCRule(issA, {alice}, {}, Time, "ADMIN", 1),
                MCRule(AnyIssuer, {alice, bob}, {}, Time, "APP", 0) >>]
NewRules ==
  [issuers |-> [i \in {issA, issB} |-> {}], audiences |-> {audX},
   rules |-> << MCRule(AnyIssuer, {bob}, {team}, {1, 2}, "TEAM", -1),
                MCRule(issA, {alice, bob}, {team, owner}, {1, 2}, "NEW", 2) >>]

MCRulesets == {OldRules, NewRules}

Sym == Permutations(Workers)
=============================================================================
