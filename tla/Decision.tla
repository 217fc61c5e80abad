------------------------------ MODULE Decision ------------------------------
(***************************************************************************)
(* What the authorization function promises, without its steps.  A request *)
(* is bound to the ruleset in force when it arrives.  It ends with a       *)
(* refusal, which needs no reason, or with a grant of this one ruleset,    *)
(* verifier and policy together.  The rules are judged in order, each at a *)
(* moment of its own between the arrival and the decision, so the rule     *)
(* granted need not have been the first to apply at any single moment.     *)
(* Authorizer implements it (DecidesInOrder).                              *)
(***************************************************************************)
EXTENDS Integers

CONSTANTS
  Workers, Token, Ruleset,  \* as in Authorizer
  AnyIssuer,
  NoRequest, NoGrant,
  MaxTime

VARIABLES
  ruleset,     \* the ruleset in force
  now,
  request,     \* per worker: [tok, rs, began], or NoRequest
  grant        \* per worker: what was decided, or NoGrant

vars == <<ruleset, now, request, grant>>

\* The token is genuine, of a trusted issuer with the claims it has to have, and
\* for an accepted audience.
Trusts(rs, t) ==
  /\ t.form = "jwt" /\ t.genuine
  /\ t.iss \in DOMAIN rs.issuers /\ rs.issuers[t.iss] \subseteq t.claims
  /\ t.aud \cap rs.audiences # {}

Applies(r, t, at) ==
  /\ r.issuer \in {AnyIssuer, t.iss} /\ t.sub \in r.subs
  /\ r.claims \subseteq t.claims /\ at \in r.expr

\* Until the token expires, or the rule's cap does if that is earlier.
Until(r, t, at) ==
  LET cap == IF r.maxExpiry > 0 THEN at + r.maxExpiry ELSE t.exp
  IN  IF cap < t.exp THEN cap ELSE t.exp

\* Rule i is the first to apply, judged at ever later moments tm.
Chosen(rs, t, i, tm) ==
  /\ Applies(rs.rules[i], t, tm[i])
  /\ \A j \in 1..(i - 1) : ~Applies(rs.rules[j], t, tm[j])
  /\ \A j, k \in 1..i : j <= k => tm[j] <= tm[k]

\* The grants of a ruleset to a token that came at began, decided at at.
Grants(rs, t, began, at) ==
  {[account |-> rs.rules[i].account, expires |-> Until(rs.rules[i], t, at), at |-> at] :
     i \in {i \in DOMAIN rs.rules :
              /\ Trusts(rs, t)
              /\ \E tm \in [1..i -> began..at] : Chosen(rs, t, i, tm)}}

-----------------------------------------------------------------------------
Init ==
  /\ ruleset \in Ruleset /\ now = 0
  /\ request = [w \in Workers |-> NoRequest]
  /\ grant = [w \in Workers |-> NoGrant]

Arrive(w, t) ==
  /\ request[w] = NoRequest
  /\ request' = [request EXCEPT ![w] = [tok |-> t, rs |-> ruleset, began |-> now]]
  /\ UNCHANGED <<ruleset, now, grant>>

\* The token had not expired when the request arrived.
Decide(w) ==
  /\ request[w] # NoRequest /\ grant[w] = NoGrant
  /\ request[w].began <= request[w].tok.exp
  /\ \E g \in Grants(request[w].rs, request[w].tok, request[w].began, now) :
       grant' = [grant EXCEPT ![w] = g]
  /\ UNCHANGED <<ruleset, now, request>>

\* The grant, or a refusal, is the answer.
Answer(w) ==
  /\ request[w] # NoRequest
  /\ request' = [request EXCEPT ![w] = NoRequest]
  /\ grant' = [grant EXCEPT ![w] = NoGrant]
  /\ UNCHANGED <<ruleset, now>>

Install(rs) == ruleset' = rs /\ UNCHANGED <<now, request, grant>>

Tick == now < MaxTime /\ now' = now + 1 /\ UNCHANGED <<ruleset, request, grant>>

Next ==
  \/ \E w \in Workers : (\E t \in Token : Arrive(w, t)) \/ Decide(w) \/ Answer(w)
  \/ \E rs \in Ruleset : Install(rs)
  \/ Tick

Spec == Init /\ [][Next]_vars
=============================================================================
