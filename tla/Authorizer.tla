----------------------------- MODULE Authorizer -----------------------------
(***************************************************************************)
(* One NATS connection attempt after another through the authorization     *)
(* function: internal/callout/callout.go with the order of checks of       *)
(* internal/verifier/verifier.go and the ordered policy of                 *)
(* internal/authz/authz.go.  Requests run on several workers of the        *)
(* callout library; Reload swaps the verifier and the policy under them;   *)
(* time passes while a request waits for its issuer's keys, and between    *)
(* the readings of the clock that its policy and its expiry depend on.     *)
(*                                                                         *)
(* A token is a record of what the checks look at.  Whether an issuer's    *)
(* key set verifies a signature is the subject of KeySet; here a genuine   *)
(* token may pass or fail (throttled, deadline, endpoint down) and no      *)
(* other token passes.  A rule carries the set of subjects its pattern     *)
(* matches and the set of times at which its expression is true.           *)
(***************************************************************************)
EXTENDS Integers, Sequences

CONSTANTS
  Workers,     \* workers of the callout service, each runs Authorize
  Token,       \* [form, iss, sub, aud, claims, exp, genuine]
  Ruleset,     \* [issuers, audiences, rules]: a loaded verifier and policy
  NoToken,     \* no request in progress
  AnyIssuer,   \* Match.Issuer left empty
  MaxTime,     \* bound: the clock stops here
  MaxReloads,  \* bound: reloads in a behaviour
  MaxRequests  \* bound: requests in a behaviour

Time == 0..MaxTime

\* issuers maps a trusted issuer to the claims it requires; rules is the policy.
ASSUME AuthorizerAssumption ==
  /\ MaxTime \in Nat /\ MaxReloads \in Nat /\ MaxRequests \in Nat
  /\ NoToken \notin Token /\ NoToken \notin [tok : Token, rs : Ruleset, began : Time]
  /\ \A t \in Token : t.exp \in Int
  /\ \A rs \in Ruleset : DOMAIN rs.rules = 1..Len(rs.rules) /\ Len(rs.rules) \in Nat
  /\ \A rs \in Ruleset : \A i \in DOMAIN rs.rules : rs.rules[i].maxExpiry \in Int

VARIABLES
  state,       \* a.state
  now,         \* the clock
  pc, tok,     \* per worker: control and the token of the request
  st,          \* per worker: the ruleset it loaded
  seen,        \* per worker: the clock as each rule tested so far read it
  jwt,         \* per worker: the user claims being issued
  requests,    \* authorization_requests_total by result
  denials,     \* authorization_denials_total by reason
  log,         \* history: every ruleset installed, in order
  since,       \* history: per worker, Len(log) when its request began
  began,       \* history: per worker, the time its request began
  answered     \* history: requests answered

workerVars == <<tok, st, seen, jwt>>
counterVars == <<requests, denials>>
ghostVars == <<log, since, began, answered>>
vars == <<state, now, pc, workerVars, counterVars, ghostVars>>

PC ==
  {"idle", "verify", "signature", "identify", "evaluate", "cap", "sign", "granted"}
Reason == {"no_token", "verification_failed", "policy_no_match", "signing_failed"}
Account ==
  {"none"} \cup UNION {{rs.rules[i].account : i \in DOMAIN rs.rules} : rs \in Ruleset}
NoGrant == [account |-> "none", expires |-> 0, at |-> 0]

-----------------------------------------------------------------------------
\* unverifiedIssuer and the lookup in v.issuers, then what go-oidc checks before
\* it asks the key set: the token has not expired.
Screened(rs, t) ==
  /\ t.form = "jwt"
  /\ t.iss \in DOMAIN rs.issuers
  /\ t.exp >= now

\* The checks of Verify that follow the signature: an allowed audience, and the
\* claims this issuer requires.
Identified(rs, t) ==
  /\ t.aud \cap rs.audiences # {}
  /\ rs.issuers[t.iss] \subseteq t.claims

\* Rule.matches: every condition the rule sets.  The expression reads the clock
\* for itself; a rule without one has Time for expr.
Matches(r, t) ==
  /\ r.issuer \in {AnyIssuer, t.iss}
  /\ t.sub \in r.subs
  /\ r.claims \subseteq t.claims
  /\ now \in r.expr

\* Mutant of cappedExpiry: a cap replaces the token's own expiry.
cappedOnly(tokenExpiry, maxExpiry) ==
  IF maxExpiry > 0 THEN now + maxExpiry ELSE tokenExpiry

\* A cap counts only when positive and earlier than the token's own expiry.
cappedExpiry(tokenExpiry, maxExpiry) ==
  IF maxExpiry > 0 /\ now + maxExpiry < tokenExpiry
  THEN now + maxExpiry ELSE tokenExpiry

-----------------------------------------------------------------------------
Init ==
  /\ state \in Ruleset
  /\ now = 0
  /\ pc = [w \in Workers |-> "idle"]
  /\ tok = [w \in Workers |-> NoToken]
  /\ st = [w \in Workers |-> state]
  /\ seen = [w \in Workers |-> <<>>]
  /\ jwt = [w \in Workers |-> NoGrant]
  /\ requests = [r \in {"allowed", "denied"} |-> 0]
  /\ denials = [r \in Reason |-> 0]
  /\ log = <<state>>
  /\ since = [w \in Workers |-> 1] /\ began = [w \in Workers |-> 0]
  /\ answered = 0

Goto(w, l) == pc' = [pc EXCEPT ![w] = l]

\* RecordDenied and RecordAllowed, the counters only.
RecordDenied(reason) ==
  /\ requests' = [requests EXCEPT !["denied"] = @ + 1]
  /\ denials' = [denials EXCEPT ![reason] = @ + 1]

RecordAllowed ==
  /\ requests' = [requests EXCEPT !["allowed"] = @ + 1]
  /\ UNCHANGED denials

\* The answer is out; the request's locals are gone.
Answer(w) ==
  /\ Goto(w, "idle")
  /\ tok' = [tok EXCEPT ![w] = NoToken]
  /\ st' = [st EXCEPT ![w] = log[1]]
  /\ seen' = [seen EXCEPT ![w] = <<>>]
  /\ jwt' = [jwt EXCEPT ![w] = NoGrant]
  /\ since' = [since EXCEPT ![w] = 1] /\ began' = [began EXCEPT ![w] = 0]
  /\ answered' = answered + 1
  /\ UNCHANGED <<state, now, log>>

\* errDenied, on any failed check.
Deny(w, reason) == Answer(w) /\ RecordDenied(reason)

Advance(w, l) ==
  /\ Goto(w, l)
  /\ UNCHANGED <<state, now, workerVars, counterVars, ghostVars>>

-----------------------------------------------------------------------------
\* A request arrives and the ruleset is loaded once for all of it.
Begin(w, t) ==
  /\ pc[w] = "idle"
  /\ answered < MaxRequests
  /\ Goto(w, "verify")
  /\ tok' = [tok EXCEPT ![w] = t]
  /\ st' = [st EXCEPT ![w] = state]
  /\ since' = [since EXCEPT ![w] = Len(log)]
  /\ began' = [began EXCEPT ![w] = now]
  /\ UNCHANGED <<state, now, seen, jwt, counterVars, log, answered>>

\* Mutant of Screen: a token is not checked for expiry.
ScreenAnyTime(w) ==
  /\ pc[w] = "verify"
  /\ tok[w].form = "jwt" /\ tok[w].iss \in DOMAIN st[w].issuers
  /\ Advance(w, "signature")

\* The token is present and passes everything before its signature.
Screen(w) ==
  /\ pc[w] = "verify"
  /\ Screened(st[w], tok[w])
  /\ Advance(w, "signature")

DenyNoToken(w) ==
  /\ pc[w] = "verify"
  /\ tok[w].form = "empty"
  /\ Deny(w, "no_token")

DenyScreened(w) ==
  /\ pc[w] = "verify"
  /\ tok[w].form # "empty"
  /\ ~Screened(st[w], tok[w])
  /\ Deny(w, "verification_failed")

\* keySet.VerifySignature, after however long it waited.
SignatureOk(w) ==
  /\ pc[w] = "signature"
  /\ tok[w].genuine
  /\ Advance(w, "identify")

DenySignature(w) ==
  /\ pc[w] = "signature"
  /\ Deny(w, "verification_failed")

\* The rest of Verify.
Identify(w) ==
  /\ pc[w] = "identify"
  /\ Identified(st[w], tok[w])
  /\ Advance(w, "evaluate")

DenyIdentify(w) ==
  /\ pc[w] = "identify"
  /\ ~Identified(st[w], tok[w])
  /\ Deny(w, "verification_failed")

-----------------------------------------------------------------------------
\* Policy.Evaluate looks at one rule after the other, and the clock may move on
\* between two of them: Len(seen[w]) of them have been tested.
Tested(w) ==
  /\ seen' = [seen EXCEPT ![w] = Append(@, now)]
  /\ UNCHANGED <<state, now, tok, st, jwt, counterVars, ghostVars>>

Rule(w, i) == st[w].rules[i]

Untested(w) == pc[w] = "evaluate" /\ Len(seen[w]) < Len(st[w].rules)

RuleFails(w) ==
  /\ Untested(w)
  /\ ~Matches(Rule(w, Len(seen[w]) + 1), tok[w])
  /\ Tested(w)
  /\ UNCHANGED pc

\* Mutant of RuleMatches: the policy is read from a.state again.
ReloadedRuleMatches(w) ==
  /\ Untested(w)
  /\ Matches(state.rules[Len(seen[w]) + 1], tok[w])
  /\ Tested(w)
  /\ Goto(w, "cap")

RuleMatches(w) ==
  /\ Untested(w)
  /\ Matches(Rule(w, Len(seen[w]) + 1), tok[w])
  /\ Tested(w)
  /\ Goto(w, "cap")

\* Mutant of DenyPolicy: only a policy without rules denies.
DenyEmptyPolicy(w) ==
  /\ pc[w] = "evaluate"
  /\ st[w].rules = <<>>
  /\ Deny(w, "policy_no_match")

DenyPolicy(w) ==
  /\ pc[w] = "evaluate"
  /\ Len(seen[w]) = Len(st[w].rules)
  /\ Deny(w, "policy_no_match")

\* The user claims are filled in from the rule that matched; the cap counts from
\* yet another reading of the clock.
Fill(w) ==
  /\ pc[w] = "cap"
  /\ Goto(w, "sign")
  /\ jwt' = [jwt EXCEPT ![w] =
       [account |-> Rule(w, Len(seen[w])).account, at |-> now,
        expires |-> cappedExpiry(tok[w].exp, Rule(w, Len(seen[w])).maxExpiry)]]
  /\ UNCHANGED <<state, now, tok, st, seen, counterVars, ghostVars>>

\* uc.Encode signs the claims; RecordAllowed and the answer follow.
Sign(w) ==
  /\ pc[w] = "sign"
  /\ Advance(w, "granted")

Grant(w) ==
  /\ pc[w] = "granted"
  /\ Answer(w) /\ RecordAllowed

\* Signing fails: denied, and nothing is recorded.
SignFails(w) ==
  /\ pc[w] = "sign"
  /\ Answer(w) /\ UNCHANGED counterVars

\* Reload stores another ruleset.
Reload(rs) ==
  /\ Len(log) <= MaxReloads
  /\ state' = rs
  /\ log' = Append(log, rs)
  /\ UNCHANGED <<now, pc, workerVars, counterVars, since, began, answered>>

Tick ==
  /\ now' = IF now < MaxTime THEN now + 1 ELSE now
  /\ UNCHANGED <<state, pc, workerVars, counterVars, ghostVars>>

\* Authorize, once it has begun.
Authorize(w) ==
  \/ Screen(w) \/ DenyNoToken(w) \/ DenyScreened(w)
  \/ SignatureOk(w) \/ DenySignature(w)
  \/ Identify(w) \/ DenyIdentify(w)
  \/ RuleFails(w) \/ RuleMatches(w) \/ DenyPolicy(w) \/ Fill(w)
  \/ Sign(w) \/ SignFails(w) \/ Grant(w)

Next ==
  \/ \E w \in Workers : (\E t \in Token : Begin(w, t)) \/ Authorize(w)
  \/ \E rs \in Ruleset : Reload(rs)
  \/ Tick

Spec == Init /\ [][Next]_vars

\* Every worker's goroutine runs, and the wait for a signature ends at the
\* latest with the request's context (KeySet, CallReturns).
FairSpec == Spec /\ \A w \in Workers : WF_vars(Authorize(w))

-----------------------------------------------------------------------------
TypeOK ==
  /\ state \in Ruleset /\ now \in Time
  /\ pc \in [Workers -> PC]
  /\ tok \in [Workers -> Token \cup {NoToken}]
  /\ st \in [Workers -> Ruleset]
  /\ seen \in [Workers -> Seq(Time)]
  /\ jwt \in [Workers -> [account : Account, expires : Int, at : Time]]
  /\ requests \in [{"allowed", "denied"} -> Nat]
  /\ denials \in [Reason -> Nat]
  /\ log \in Seq(Ruleset)
  /\ since \in [Workers -> Nat] /\ began \in [Workers -> Time]
  /\ answered \in Nat

\* The readings tm of the clock were taken in order, none before b or after e.
InOrder(tm, b, e) ==
  \A k \in DOMAIN tm : b <= tm[k] /\ tm[k] <= e /\ \A j \in 1..k : tm[j] <= tm[k]

Fits(r, t, at) ==
  /\ r.issuer \in {AnyIssuer, t.iss} /\ t.sub \in r.subs
  /\ r.claims \subseteq t.claims /\ at \in r.expr

\* rule i is the first that fitted, each rule taken at its own reading.
First(rs, t, i, tm) ==
  /\ i \in DOMAIN rs.rules /\ Fits(rs.rules[i], t, tm[i])
  /\ \A j \in 1..(i - 1) : ~Fits(rs.rules[j], t, tm[j])

\* What a grant g must rest on, written as one statement about one ruleset rs:
\* its verifier trusts the issuer and accepts the audience and the claims, and
\* the first of its rules that fitted, when it was tested, names this account
\* and allows this expiry.  tm are the readings, all taken after b.
Entitles(rs, t, g, tm, b) ==
  /\ t.form = "jwt" /\ t.genuine
  /\ t.iss \in DOMAIN rs.issuers
  /\ rs.issuers[t.iss] \subseteq t.claims
  /\ t.aud \cap rs.audiences # {}
  /\ First(rs, t, Len(tm), tm) /\ InOrder(tm, b, g.at)
  /\ rs.rules[Len(tm)].account = g.account
  /\ rs.rules[Len(tm)].maxExpiry > 0 =>
       g.expires <= g.at + rs.rules[Len(tm)].maxExpiry

\* Every grant about to be answered is one that a SINGLE ruleset gives, verifier
\* and policy together, and that ruleset was installed when the request began or
\* later: "a concurrent Reload can't swap them mid-evaluation", and a request
\* that begins after a reload is never decided by what the reload replaced.
GrantFromOneRuleset ==
  \A w \in Workers : pc[w] \in {"sign", "granted"} =>
    \E i \in since[w]..Len(log) : Entitles(log[i], tok[w], jwt[w], seen[w], began[w])

\* The user JWT never outlives the token it was issued for, and it was not yet
\* expired when the request arrived, although the token's expiry is checked
\* before the wait for its keys and the JWT's is computed after it.
LifetimeWithinToken ==
  \A w \in Workers : pc[w] \in {"sign", "granted"} =>
    began[w] <= jwt[w].expires /\ jwt[w].expires <= tok[w].exp

-----------------------------------------------------------------------------
\* What the proofs add to make the two properties above inductive.

\* The snapshot of a request is the ruleset that was current when it began.
Snapshot ==
  /\ log # <<>> /\ state = log[Len(log)]
  /\ \A w \in Workers :
       /\ since[w] \in 1..Len(log) /\ began[w] <= now
       /\ pc[w] # "idle" => tok[w] \in Token /\ st[w] = log[since[w]]

\* The clock was read in order, since the request began.
Readings == \A w \in Workers : InOrder(seen[w], began[w], now)

\* How far a request has come (l) tells which checks its token t has passed
\* under the snapshot rs; g is the grant, tm the readings of the rules tested, b
\* when the request began.
PassedAt(l, t, rs, g, tm, b) ==
  /\ l \in {"idle", "verify", "signature", "identify"} => tm = <<>>
  /\ l \in {"signature", "identify", "evaluate", "cap", "sign", "granted"} =>
       t.form = "jwt" /\ t.iss \in DOMAIN rs.issuers /\ b <= t.exp
  /\ l \in {"identify", "evaluate", "cap", "sign", "granted"} => t.genuine
  /\ l \in {"evaluate", "cap", "sign", "granted"} => Identified(rs, t)
  /\ l = "evaluate" =>
       Len(tm) <= Len(rs.rules) /\ \A j \in 1..Len(tm) : ~Fits(rs.rules[j], t, tm[j])
  /\ l = "cap" => First(rs, t, Len(tm), tm)
  /\ l \in {"sign", "granted"} => Entitles(rs, t, g, tm, b)

Passed ==
  \A w \in Workers : PassedAt(pc[w], tok[w], st[w], jwt[w], seen[w], began[w])

IInv == TypeOK /\ Snapshot /\ Readings /\ Passed /\ LifetimeWithinToken

\* Nothing is granted before the policy has decided.
Undecided == \A w \in Workers : pc[w] \notin {"sign", "granted"} => jwt[w] = NoGrant

-----------------------------------------------------------------------------
\* Fail closed, and never silently: whatever the token, the ruleset and the
\* reloads meanwhile, some check answers every request.
EveryRequestAnswered == \A w \in Workers : []<>(pc[w] = "idle")

\* The requests under way, as the clients see them: the token, the ruleset that
\* was in force and the time of arrival.
Asking ==
  [w \in Workers |-> IF pc[w] = "idle" THEN NoToken
                     ELSE [tok |-> tok[w], rs |-> st[w], began |-> began[w]]]

Promise ==
  INSTANCE Decision WITH
    ruleset <- state, request <- Asking, grant <- jwt, NoRequest <- NoToken

\* Authorize takes many steps, some of them long, while rulesets are swapped and
\* time passes between its readings of the clock; to its clients it is the
\* specification Decision, with a request pending from its arrival to its answer
\* and decided where the expiry is computed: one ruleset, its rules in order.
DecidesInOrder == Promise!Spec

\* metrics.go: authorization_requests_total is the "Total authorization requests
\* handled, by result": every answered request is counted.
EveryRequestCounted == requests["allowed"] + requests["denied"] = answered
=============================================================================
