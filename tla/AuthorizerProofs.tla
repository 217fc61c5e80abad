-------------------------- MODULE AuthorizerProofs --------------------------
(***************************************************************************)
(* The safety of Authorizer for every set of workers, tokens and rulesets: *)
(* a grant always comes from one ruleset that was current while the        *)
(* request ran, and never outlives the token.                              *)
(***************************************************************************)
EXTENDS Authorizer, TLAPS

\* One ruleset loaded, no request running.
LEMMA InitInvariant == Init => IInv
<1> SUFFICES ASSUME Init PROVE IInv
  OBVIOUS
<1> USE AuthorizerAssumption DEF Init
<1>1. NoGrant \in [account : Account, expires : Int, at : Time]
  BY DEF NoGrant, Account, Time
<1>2. log \in Seq(Ruleset) /\ Len(log) = 1 /\ log[1] = state /\ log # <<>>
  OBVIOUS
<1>3. TypeOK
  BY <1>1, <1>2 DEF TypeOK, PC, Time
<1>4. Snapshot
  BY <1>2 DEF Snapshot
<1>5. Passed /\ LifetimeWithinToken
  BY DEF Passed, PassedAt, LifetimeWithinToken
<1>6. Readings
  BY DEF Readings, InOrder
<1> QED
  BY <1>3, <1>4, <1>5, <1>6 DEF IInv

\* The bounds are numbers.
LEMMA NatBounds == MaxTime \in Nat /\ MaxReloads \in Nat /\ MaxRequests \in Nat
BY AuthorizerAssumption

\* Answering a request leaves its worker idle and touches no other.
LEMMA AnswerStep ==
  ASSUME IInv, NEW w \in Workers, Answer(w),
         requests' \in [{"allowed", "denied"} -> Nat], denials' \in [Reason -> Nat]
  PROVE  IInv'
<1> USE DEF IInv, TypeOK, Answer, Goto
<1> USE NatBounds
<1>1. NoGrant \in [account : Account, expires : Int, at : Time]
  BY DEF NoGrant, Account, Time
<1>2. log[1] \in Ruleset /\ 1 \in 1..Len(log)
  BY DEF Snapshot
<1>3. TypeOK'
  BY <1>1, <1>2 DEF PC, Time
<1>4. Snapshot'
  BY <1>2 DEF Snapshot, Time
<1>5. \A v \in Workers : v # w =>
        /\ pc'[v] = pc[v] /\ tok'[v] = tok[v] /\ st'[v] = st[v] /\ jwt'[v] = jwt[v]
        /\ seen'[v] = seen[v] /\ began'[v] = began[v]
  OBVIOUS
<1>6. pc'[w] = "idle" /\ seen'[w] = <<>>
  OBVIOUS
<1>7. Passed'
  <2> SUFFICES ASSUME NEW v \in Workers
               PROVE  PassedAt(pc'[v], tok'[v], st'[v], jwt'[v], seen'[v], began'[v])
    BY DEF Passed
  <2>1. CASE v = w
    BY <1>6, <2>1 DEF PassedAt
  <2>2. CASE v # w
    BY <1>5, <2>2 DEF Passed
  <2> QED
    BY <2>1, <2>2
<1>8. LifetimeWithinToken'
  BY <1>5, <1>6 DEF LifetimeWithinToken
<1>9. Readings'
  BY <1>5, <1>6 DEF Readings, InOrder
<1> QED
  BY <1>3, <1>4, <1>7, <1>8, <1>9

\* Passing a check moves one worker forward and changes nothing else.
LEMMA AdvanceStep ==
  ASSUME IInv, NEW w \in Workers, NEW l \in PC \ {"idle"}, Advance(w, l),
         pc[w] # "idle",
         PassedAt(l, tok[w], st[w], jwt[w], seen[w], began[w]),
         l \in {"sign", "granted"} => pc[w] = "sign"
  PROVE  IInv'
<1> USE DEF IInv, TypeOK, Advance, Goto, workerVars, counterVars, ghostVars
<1>1. TypeOK'
  OBVIOUS
<1>2. Snapshot'
  BY DEF Snapshot
<1>3. \A v \in Workers : pc'[v] = IF v = w THEN l ELSE pc[v]
  OBVIOUS
<1>4. UNCHANGED <<now, tok, st, seen, jwt, began>>
  OBVIOUS
<1>5. Passed'
  BY <1>3, <1>4 DEF Passed
<1>6. LifetimeWithinToken'
  BY <1>3, <1>4 DEF LifetimeWithinToken
<1>7. Readings'
  BY <1>4 DEF Readings
<1> QED
  BY <1>1, <1>2, <1>5, <1>6, <1>7

\* A capped expiry is the token's own or an earlier, still future one.
LEMMA CappedExpiry ==
  ASSUME NEW e \in Int, NEW m \in Int, now \in Nat
  PROVE  /\ cappedExpiry(e, m) \in Int /\ cappedExpiry(e, m) <= e
         /\ \A b \in Nat : b <= e /\ b <= now => b <= cappedExpiry(e, m)
         /\ m > 0 => cappedExpiry(e, m) <= now + m
BY DEF cappedExpiry

\* A reading of the clock now comes after all the earlier ones.
LEMMA OneMoreReading ==
  ASSUME NEW tm \in Seq(Time), NEW b \in Time, now \in Time, b <= now, InOrder(tm, b, now)
  PROVE  /\ Append(tm, now) \in Seq(Time) /\ Len(Append(tm, now)) = Len(tm) + 1
         /\ Append(tm, now)[Len(tm) + 1] = now
         /\ \A j \in 1..Len(tm) : Append(tm, now)[j] = tm[j]
         /\ InOrder(Append(tm, now), b, now)
<1> DEFINE tn == Append(tm, now)
           n == Len(tm)
<1>1. /\ tn \in Seq(Time) /\ Len(tn) = n + 1 /\ n \in Nat /\ tn[n + 1] = now
      /\ DOMAIN tn = 1..(n + 1) /\ DOMAIN tm = 1..n
      /\ \A j \in 1..n : tn[j] = tm[j]
  OBVIOUS
<1> HIDE DEF tn, n
<1>2. \A k \in 1..n : b <= tm[k] /\ tm[k] <= now /\ \A j \in 1..k : tm[j] <= tm[k]
  BY <1>1 DEF InOrder
<1>3. now \in Int /\ b \in Int
  BY AuthorizerAssumption DEF Time
<1>4. ASSUME NEW k \in 1..(n + 1)
      PROVE  b <= tn[k] /\ tn[k] <= now /\ \A j \in 1..k : tn[j] <= tn[k]
  <2>1. CASE k \in 1..n
    <3>1. \A j \in 1..k : j \in 1..n
      BY <1>1, <2>1
    <3> QED
      BY <1>1, <1>2, <2>1, <3>1
  <2>2. CASE k = n + 1
    <3>1. \A j \in 1..k : j \in 1..n \/ j = n + 1
      BY <1>1, <2>2
    <3> QED
      BY <1>1, <1>2, <1>3, <2>2, <3>1
  <2> QED
    BY <1>1, <1>4, <2>1, <2>2
<1>5. InOrder(tn, b, now)
  BY <1>1, <1>4 DEF InOrder
<1> QED
  BY <1>1, <1>5 DEF tn, n

\* One rule is tested: it joins those that failed, or is the first to match.
LEMMA RuleStep ==
  ASSUME IInv, NEW w \in Workers, RuleFails(w) \/ RuleMatches(w) PROVE IInv'
<1> USE DEF IInv, TypeOK
<1> DEFINE n == Len(seen[w])
           rules == st[w].rules
<1>1. /\ pc[w] = "evaluate" /\ n < Len(rules)
      /\ seen' = [seen EXCEPT ![w] = Append(@, now)]
      /\ UNCHANGED <<state, now, tok, st, jwt, requests, denials, log, since, began, answered>>
  BY DEF RuleFails, RuleMatches, Untested, Tested, counterVars, ghostVars
<1>2. \/ pc' = pc /\ ~Fits(rules[n + 1], tok[w], now)
      \/ pc' = [pc EXCEPT ![w] = "cap"] /\ Fits(rules[n + 1], tok[w], now)
  BY DEF RuleFails, RuleMatches, Rule, Matches, Fits, Goto
<1>3. /\ st[w] \in Ruleset /\ DOMAIN rules = 1..Len(rules) /\ Len(rules) \in Nat /\ n \in Nat
      /\ began[w] \in Time /\ now \in Time /\ began[w] <= now /\ seen[w] \in Seq(Time)
      /\ InOrder(seen[w], began[w], now)
  BY AuthorizerAssumption DEF Snapshot, Readings
<1>4. /\ seen'[w] \in Seq(Time) /\ Len(seen'[w]) = n + 1 /\ seen'[w][n + 1] = now
      /\ \A j \in 1..n : seen'[w][j] = seen[w][j]
      /\ InOrder(seen'[w], began[w], now)
  <2>1. seen'[w] = Append(seen[w], now)
    BY <1>1
  <2> QED
    BY <1>3, <2>1, OneMoreReading
<1>5. \A v \in Workers : v # w => pc'[v] = pc[v] /\ seen'[v] = seen[v]
  BY <1>1, <1>2
<1>6. TypeOK'
  <2>1. seen' \in [Workers -> Seq(Time)]
    BY <1>1, <1>4
  <2> QED
    BY <1>1, <1>2, <2>1 DEF PC
<1>7. Snapshot' /\ LifetimeWithinToken'
  BY <1>1, <1>2 DEF Snapshot, LifetimeWithinToken
<1>8. Readings'
  BY <1>1, <1>4, <1>5 DEF Readings
<1>9. Passed'
  <2> SUFFICES ASSUME NEW v \in Workers
               PROVE  PassedAt(pc'[v], tok'[v], st'[v], jwt'[v], seen'[v], began'[v])
    BY DEF Passed
  <2>1. CASE v = w
    <3> DEFINE tm == seen'[w]
    <3>1. PassedAt("evaluate", tok[w], st[w], jwt[w], seen[w], began[w])
      BY <1>1 DEF Passed
    <3>2. \A j \in 1..n : ~Fits(rules[j], tok[w], tm[j])
      BY <1>4, <3>1 DEF PassedAt
    <3>3. CASE pc' = pc /\ ~Fits(rules[n + 1], tok[w], now)
      <4>1. \A j \in 1..(n + 1) : ~Fits(rules[j], tok[w], tm[j])
        <5>1. \A j \in 1..(n + 1) : j \in 1..n \/ j = n + 1
          BY <1>3
        <5> QED
          BY <1>4, <3>2, <3>3, <5>1
      <4>2. Len(tm) <= Len(rules)
        BY <1>1, <1>3, <1>4
      <4> HIDE DEF tm
      <4>3. PassedAt("evaluate", tok[w], st[w], jwt[w], tm, began[w])
        BY <1>4, <3>1, <4>1, <4>2 DEF PassedAt, tm
      <4> QED
        BY <1>1, <2>1, <3>3, <4>3 DEF tm
    <3>4. CASE pc' = [pc EXCEPT ![w] = "cap"] /\ Fits(rules[n + 1], tok[w], now)
      <4>1. n + 1 \in DOMAIN rules /\ (n + 1) - 1 = n
        BY <1>1, <1>3
      <4>2. First(st[w], tok[w], Len(tm), tm)
        BY <1>4, <3>2, <3>4, <4>1 DEF First
      <4> HIDE DEF tm
      <4>3. PassedAt("cap", tok[w], st[w], jwt[w], tm, began[w])
        BY <3>1, <4>2 DEF PassedAt
      <4> QED
        BY <1>1, <2>1, <3>4, <4>3 DEF tm
    <3> QED
      BY <1>2, <3>3, <3>4
  <2>2. CASE v # w
    BY <1>1, <1>5, <2>2 DEF Passed
  <2> QED
    BY <2>1, <2>2
<1> QED
  BY <1>6, <1>7, <1>8, <1>9

\* The rule that matched entitles the token to its account until then.
LEMMA FillStep == ASSUME IInv, NEW w \in Workers, Fill(w) PROVE IInv'
<1> USE DEF IInv, TypeOK
<1> DEFINE i == Len(seen[w])
           cap == st[w].rules[i].maxExpiry
           exp == cappedExpiry(tok[w].exp, cap)
<1>1. /\ pc[w] = "cap" /\ pc' = [pc EXCEPT ![w] = "sign"]
      /\ jwt' = [jwt EXCEPT ![w] = [account |-> st[w].rules[i].account, at |-> now, expires |-> exp]]
      /\ UNCHANGED <<state, now, tok, st, seen, requests, denials, log, since, began, answered>>
  BY DEF Fill, Rule, Goto, counterVars, ghostVars
<1>2. PassedAt("cap", tok[w], st[w], jwt[w], seen[w], began[w])
  BY <1>1 DEF Passed
<1>3. First(st[w], tok[w], i, seen[w]) /\ i \in DOMAIN st[w].rules
  BY <1>2 DEF PassedAt, First
<1>4. /\ tok[w] \in Token /\ tok[w].exp \in Int /\ now \in Nat /\ began[w] \in Nat
      /\ began[w] <= now /\ began[w] <= tok[w].exp
  BY <1>1, <1>2, AuthorizerAssumption DEF Snapshot, Time, PassedAt
<1>5. st[w] \in Ruleset /\ cap \in Int /\ st[w].rules[i].account \in Account
  BY <1>3, AuthorizerAssumption DEF Account
<1>6. exp \in Int /\ exp <= tok[w].exp /\ began[w] <= exp /\ (cap > 0 => exp <= now + cap)
  BY <1>4, <1>5, CappedExpiry
<1> HIDE DEF exp, cap, i
<1>7. jwt'[w] = [account |-> st[w].rules[i].account, at |-> now, expires |-> exp]
  BY <1>1
<1>8. \A v \in Workers : v # w => pc'[v] = pc[v] /\ jwt'[v] = jwt[v]
  BY <1>1
<1>9. TypeOK'
  <2>1. jwt'[w] \in [account : Account, expires : Int, at : Time]
    BY <1>5, <1>6, <1>7
  <2>2. jwt' \in [Workers -> [account : Account, expires : Int, at : Time]]
    BY <1>1, <2>1
  <2> QED
    BY <1>1, <2>2 DEF PC
<1>10. Snapshot' /\ Readings'
  BY <1>1 DEF Snapshot, Readings
<1>11. Entitles(st[w], tok[w], jwt'[w], seen[w], began[w])
  <2>1. Identified(st[w], tok[w]) /\ tok[w].form = "jwt" /\ tok[w].genuine
        /\ tok[w].iss \in DOMAIN st[w].issuers
    BY <1>2 DEF PassedAt
  <2> DEFINE g == jwt'[w]
  <2>2. g.at = now /\ g.account = st[w].rules[i].account /\ g.expires = exp
    BY <1>7
  <2>3. cap > 0 => g.expires <= g.at + cap
    BY <1>6, <2>2
  <2>4. InOrder(seen[w], began[w], g.at)
    BY <2>2 DEF Readings
  <2> HIDE DEF g
  <2>5. Entitles(st[w], tok[w], g, seen[w], began[w])
    BY <1>3, <2>1, <2>2, <2>3, <2>4 DEF Entitles, Identified, cap, i
  <2> QED
    BY <2>5 DEF g
<1>12. Passed'
  <2>1. PassedAt("sign", tok[w], st[w], jwt'[w], seen[w], began[w])
    BY <1>2, <1>11 DEF PassedAt
  <2> QED
    BY <1>1, <1>8, <2>1 DEF Passed
<1>13. LifetimeWithinToken'
  BY <1>1, <1>6, <1>7, <1>8 DEF LifetimeWithinToken
<1> QED
  BY <1>9, <1>10, <1>12, <1>13

\* A request begins with the ruleset of that moment.
LEMMA BeginStep ==
  ASSUME IInv, NEW w \in Workers, NEW t \in Token, Begin(w, t) PROVE IInv'
<1> USE AuthorizerAssumption DEF IInv, TypeOK
<1>1. /\ pc' = [pc EXCEPT ![w] = "verify"]
      /\ tok' = [tok EXCEPT ![w] = t] /\ st' = [st EXCEPT ![w] = state]
      /\ since' = [since EXCEPT ![w] = Len(log)] /\ began' = [began EXCEPT ![w] = now]
      /\ UNCHANGED <<state, now, seen, jwt, requests, denials, log, answered>>
  BY DEF Begin, Goto, counterVars
<1>2. Len(log) \in 1..Len(log) /\ state = log[Len(log)]
  BY DEF Snapshot
<1>3. TypeOK'
  BY <1>1 DEF PC
<1>4. Snapshot'
  BY <1>1, <1>2 DEF Snapshot, Time
<1>5. \A v \in Workers : v # w =>
        /\ pc'[v] = pc[v] /\ tok'[v] = tok[v] /\ st'[v] = st[v] /\ jwt'[v] = jwt[v]
        /\ seen'[v] = seen[v] /\ began'[v] = began[v]
  BY <1>1
<1>6. pc'[w] = "verify" /\ seen'[w] = <<>>
  BY <1>1 DEF Begin, Passed, PassedAt
<1>7. Passed'
  <2> SUFFICES ASSUME NEW v \in Workers
               PROVE  PassedAt(pc'[v], tok'[v], st'[v], jwt'[v], seen'[v], began'[v])
    BY DEF Passed
  <2>1. CASE v = w
    BY <1>6, <2>1 DEF PassedAt
  <2>2. CASE v # w
    BY <1>5, <2>2 DEF Passed
  <2> QED
    BY <2>1, <2>2
<1>8. LifetimeWithinToken'
  BY <1>5, <1>6 DEF LifetimeWithinToken
<1>9. Readings'
  BY <1>1, <1>5, <1>6 DEF Readings, InOrder
<1> QED
  BY <1>3, <1>4, <1>7, <1>8, <1>9

\* A denial counts one request and its reason, and answers.
LEMMA DenyStep ==
  ASSUME IInv, NEW w \in Workers, NEW reason \in Reason, Deny(w, reason) PROVE IInv'
<1>1. requests' \in [{"allowed", "denied"} -> Nat] /\ denials' \in [Reason -> Nat]
  BY DEF Deny, RecordDenied, IInv, TypeOK
<1> QED
  BY <1>1, AnswerStep DEF Deny

\* Every step of Authorize keeps the invariant.
LEMMA AuthorizeStep == ASSUME IInv, NEW w \in Workers, Authorize(w) PROVE IInv'
<1> USE DEF IInv
<1>1. PassedAt(pc[w], tok[w], st[w], jwt[w], seen[w], began[w])
  BY DEF Passed
<1>2. CASE Screen(w)
  <2>1. tok[w].form = "jwt" /\ tok[w].iss \in DOMAIN st[w].issuers /\ tok[w].exp >= now
    BY <1>2 DEF Screen, Screened
  <2>2. tok[w].exp \in Int /\ now \in Int /\ began[w] \in Int /\ began[w] <= now
    BY <1>2, AuthorizerAssumption DEF Screen, Snapshot, TypeOK, Time
  <2>3. began[w] <= tok[w].exp
    BY <2>1, <2>2
  <2>4. PassedAt("signature", tok[w], st[w], jwt[w], seen[w], began[w])
    BY <1>1, <1>2, <2>1, <2>3 DEF Screen, PassedAt
  <2> QED
    BY <1>2, <2>4, AdvanceStep DEF Screen, PC
<1>3. CASE SignatureOk(w)
  <2>1. PassedAt("identify", tok[w], st[w], jwt[w], seen[w], began[w])
    BY <1>1, <1>3 DEF SignatureOk, PassedAt
  <2> QED
    BY <1>3, <2>1, AdvanceStep DEF SignatureOk, PC
<1>4. CASE Identify(w)
  <2>1. PassedAt("evaluate", tok[w], st[w], jwt[w], seen[w], began[w])
    <3>1. seen[w] = <<>> /\ Len(seen[w]) = 0
      BY <1>1, <1>4 DEF Identify, PassedAt
    <3>2. 0 <= Len(st[w].rules)
      BY AuthorizerAssumption DEF TypeOK
    <3> QED
      BY <1>1, <1>4, <3>1, <3>2 DEF Identify, PassedAt
  <2> QED
    BY <1>4, <2>1, AdvanceStep DEF Identify, PC
<1>5. CASE Sign(w)
  <2>1. PassedAt("granted", tok[w], st[w], jwt[w], seen[w], began[w])
    BY <1>1, <1>5 DEF Sign, PassedAt
  <2> QED
    BY <1>5, <2>1, AdvanceStep DEF Sign, PC
<1>6. CASE RuleFails(w) \/ RuleMatches(w) \/ Fill(w)
  BY <1>6, RuleStep, FillStep
<1>7. CASE \/ DenyNoToken(w) \/ DenyScreened(w) \/ DenySignature(w)
           \/ DenyIdentify(w) \/ DenyPolicy(w)
  BY <1>7, DenyStep DEF DenyNoToken, DenyScreened, DenySignature, DenyIdentify,
     DenyPolicy, Reason
<1>8. CASE SignFails(w)
  BY <1>8, AnswerStep DEF SignFails, counterVars, TypeOK
<1>9. CASE Grant(w)
  <2>1. requests' \in [{"allowed", "denied"} -> Nat] /\ denials' \in [Reason -> Nat]
    BY <1>9 DEF Grant, RecordAllowed, TypeOK
  <2> QED
    BY <1>9, <2>1, AnswerStep DEF Grant
<1> QED
  BY <1>2, <1>3, <1>4, <1>5, <1>6, <1>7, <1>8, <1>9 DEF Authorize

\* A reload appends to the history and leaves every snapshot alone.
LEMMA ReloadStep == ASSUME IInv, NEW rs \in Ruleset, Reload(rs) PROVE IInv'
<1> USE DEF IInv, TypeOK
<1>1. /\ state' = rs /\ log' = Append(log, rs)
      /\ UNCHANGED <<now, pc, tok, st, seen, jwt, requests, denials, since, began, answered>>
  BY DEF Reload, workerVars, counterVars
<1>2. /\ log' \in Seq(Ruleset) /\ Len(log') = Len(log) + 1 /\ log'[Len(log')] = rs
      /\ \A i \in 1..Len(log) : log'[i] = log[i]
  BY <1>1
<1>3. TypeOK'
  BY <1>1, <1>2
<1>4. Snapshot'
  BY <1>1, <1>2 DEF Snapshot
<1>5. Passed' /\ LifetimeWithinToken' /\ Readings'
  BY <1>1 DEF Passed, LifetimeWithinToken, Readings
<1> QED
  BY <1>3, <1>4, <1>5

\* The clock only moves forward.
LEMMA TickStep == ASSUME IInv, Tick PROVE IInv'
<1> USE AuthorizerAssumption DEF IInv, TypeOK
<1>1. /\ now' \in Time /\ now' >= now /\ now \in Nat
      /\ UNCHANGED <<state, pc, tok, st, seen, jwt, requests, denials, log, since, began, answered>>
  BY DEF Tick, Time, workerVars, counterVars, ghostVars
<1>2. TypeOK'
  BY <1>1
<1>3. Snapshot'
  BY <1>1 DEF Snapshot, Time
<1>4. Passed' /\ LifetimeWithinToken'
  BY <1>1 DEF Passed, LifetimeWithinToken
<1>5. Readings'
  <2> SUFFICES ASSUME NEW w \in Workers, NEW k \in DOMAIN seen[w]
               PROVE  began[w] <= seen[w][k] /\ seen[w][k] <= now'
                      /\ \A j \in 1..k : seen[w][j] <= seen[w][k]
    BY <1>1 DEF Readings, InOrder
  <2>1. /\ began[w] <= seen[w][k] /\ seen[w][k] <= now
        /\ \A j \in 1..k : seen[w][j] <= seen[w][k]
    BY DEF Readings, InOrder
  <2>2. seen[w][k] \in Int /\ now \in Int /\ now' \in Int
    BY <1>1 DEF Time
  <2> QED
    BY <1>1, <2>1, <2>2
<1> QED
  BY <1>2, <1>3, <1>4, <1>5

\* A step that changes nothing preserves everything.
LEMMA StutterStep == ASSUME IInv, UNCHANGED vars PROVE IInv'
BY DEF IInv, TypeOK, Snapshot, Readings, Passed, LifetimeWithinToken, vars, workerVars,
   counterVars, ghostVars

\* The inductive invariant holds in every reachable state.
THEOREM Invariance == Spec => []IInv
<1>1. IInv /\ [Next]_vars => IInv'
  BY BeginStep, AuthorizeStep, ReloadStep, TickStep, StutterStep DEF Next
<1> QED
  BY InitInvariant, <1>1, PTL DEF Spec

\* Every variable keeps its type.
THEOREM TypeCorrect == Spec => []TypeOK
<1>1. IInv => TypeOK
  BY DEF IInv
<1> QED
  BY <1>1, Invariance, PTL

\* Authorize never mixes two rulesets and never uses one that was replaced
\* before the request began (a.state is loaded once).
THEOREM OneRulesetPerGrant == Spec => []GrantFromOneRuleset
<1>1. IInv => GrantFromOneRuleset
  <2> SUFFICES ASSUME IInv, NEW w \in Workers, pc[w] \in {"sign", "granted"}
               PROVE  \E i \in since[w]..Len(log) : Entitles(log[i], tok[w], jwt[w], seen[w], began[w])
    BY DEF GrantFromOneRuleset
  <2>1. Entitles(st[w], tok[w], jwt[w], seen[w], began[w])
    BY DEF IInv, Passed, PassedAt
  <2>2. st[w] = log[since[w]] /\ since[w] \in since[w]..Len(log)
    BY DEF IInv, TypeOK, Snapshot
  <2> QED
    BY <2>1, <2>2
<1> QED
  BY <1>1, Invariance, PTL

\* The user JWT's expiry lies between the request's arrival and the token's own
\* expiry (cappedExpiry, and the order of the checks in Verify).
THEOREM GrantLifetime == Spec => []LifetimeWithinToken
<1>1. IInv => LifetimeWithinToken
  BY DEF IInv
<1> QED
  BY <1>1, Invariance, PTL

-----------------------------------------------------------------------------
\* Only Fill fills in a grant, and every answer takes it back.
THEOREM NoEarlyGrant == Spec => []Undecided
<1> USE DEF Goto, workerVars, counterVars, ghostVars
<1>1. Init => Undecided
  BY DEF Init, Undecided
<1>2. ASSUME IInv, Undecided, [Next]_vars
      PROVE  Undecided'
  <2> USE DEF IInv, TypeOK, Undecided
  <2>1. ASSUME NEW w \in Workers, Answer(w)
        PROVE  Undecided'
    BY <1>2, <2>1 DEF Answer
  <2>2. ASSUME NEW w \in Workers, NEW l \in PC, Advance(w, l),
               l \in {"sign", "granted"} \/ pc[w] \notin {"sign", "granted"}
        PROVE  Undecided'
    BY <1>2, <2>2 DEF Advance
  <2>3. ASSUME NEW w \in Workers, Authorize(w)
        PROVE  Undecided'
    <3>1. CASE Screen(w) \/ SignatureOk(w) \/ Identify(w) \/ Sign(w)
      BY <2>2, <3>1 DEF Screen, SignatureOk, Identify, Sign, PC
    <3>2. CASE RuleFails(w) \/ RuleMatches(w) \/ Fill(w)
      BY <1>2, <3>2 DEF RuleFails, RuleMatches, Untested, Tested, Fill
    <3>3. CASE \/ DenyNoToken(w) \/ DenyScreened(w) \/ DenySignature(w) \/ DenyIdentify(w)
               \/ DenyPolicy(w) \/ SignFails(w) \/ Grant(w)
      BY <2>1, <3>3 DEF DenyNoToken, DenyScreened, DenySignature, DenyIdentify, DenyPolicy,
         SignFails, Grant, Deny
    <3> QED
      BY <2>3, <3>1, <3>2, <3>3 DEF Authorize
  <2>4. ASSUME NEW w \in Workers, NEW t \in Token, Begin(w, t)
        PROVE  Undecided'
    BY <1>2, <2>4 DEF Begin
  <2>5. CASE (\E rs \in Ruleset : Reload(rs)) \/ Tick \/ UNCHANGED vars
    BY <1>2, <2>5 DEF Reload, Tick, vars
  <2> QED
    BY <1>2, <2>3, <2>4, <2>5 DEF Next
<1> QED
  BY <1>1, <1>2, Invariance, PTL DEF Spec

\* What the clients see of a worker that is busy is not the sentinel.
LEMMA AskingBusy ==
  ASSUME IInv, NEW w \in Workers, pc[w] # "idle"
  PROVE  Asking[w] = [tok |-> tok[w], rs |-> st[w], began |-> began[w]] /\ Asking[w] # NoToken
<1>1. Asking[w] = [tok |-> tok[w], rs |-> st[w], began |-> began[w]]
  BY DEF Asking
<1>2. tok[w] \in Token /\ st[w] \in Ruleset /\ began[w] \in Time
  BY DEF IInv, TypeOK, Snapshot
<1> QED
  BY <1>1, <1>2, AuthorizerAssumption

\* cappedExpiry computes the end that Decision states.
LEMMA CapIsUntil ==
  ASSUME NEW t, NEW r, t.exp \in Int, r.maxExpiry \in Int, now \in Int
  PROVE  cappedExpiry(t.exp, r.maxExpiry) = Promise!Until(r, t, now)
BY DEF cappedExpiry, Promise!Until

\* Whatever ends a request, its clients see one answer.
LEMMA AnswerAnswers ==
  ASSUME IInv, NEW w \in Workers, pc[w] # "idle", Answer(w)
  PROVE  Promise!Answer(w)
<1> USE DEF IInv, TypeOK
<1>1. Asking[w] # NoToken
  BY AskingBusy
<1>2. Asking' = [Asking EXCEPT ![w] = NoToken]
  BY DEF Asking, Answer, Goto
<1>3. jwt' = [jwt EXCEPT ![w] = NoGrant] /\ UNCHANGED <<state, now>>
  BY DEF Answer
<1> QED
  BY <1>1, <1>2, <1>3 DEF Promise!Answer

\* Passing a check is not seen by the clients.
LEMMA AdvanceStutters ==
  ASSUME IInv, NEW w \in Workers, NEW l \in PC \ {"idle"}, pc[w] # "idle", Advance(w, l)
  PROVE  UNCHANGED Promise!vars
<1>1. UNCHANGED <<state, now, tok, st, jwt, began>>
  BY DEF Advance, workerVars, ghostVars
<1>2. \A v \in Workers : pc'[v] = "idle" <=> pc[v] = "idle"
  BY DEF Advance, Goto, IInv, TypeOK
<1>3. UNCHANGED Asking
  BY <1>1, <1>2 DEF Asking
<1> QED
  BY <1>1, <1>3 DEF Promise!vars

\* Nor is the test of a rule.
LEMMA RuleStutters ==
  ASSUME IInv, NEW w \in Workers, RuleFails(w) \/ RuleMatches(w)
  PROVE  UNCHANGED Promise!vars
<1>1. UNCHANGED <<state, now, tok, st, jwt, began>>
  BY DEF RuleFails, RuleMatches, Tested, ghostVars
<1>2. \A v \in Workers : pc'[v] = "idle" <=> pc[v] = "idle"
  BY DEF RuleFails, RuleMatches, Untested, Goto, IInv, TypeOK
<1>3. UNCHANGED Asking
  BY <1>1, <1>2 DEF Asking
<1> QED
  BY <1>1, <1>3 DEF Promise!vars

\* The readings a request took are the moments Decision asks for.
LEMMA ReadingsChoose ==
  ASSUME IInv, NEW w \in Workers, pc[w] = "cap"
  PROVE  \E tm \in [1..Len(seen[w]) -> began[w]..now] :
           Promise!Chosen(st[w], tok[w], Len(seen[w]), tm)
<1> USE DEF IInv, TypeOK
<1> DEFINE tm == seen[w]
           i == Len(tm)
<1>1. tm \in Seq(Time) /\ i \in Nat /\ DOMAIN tm = 1..i /\ tm = [k \in 1..i |-> tm[k]]
  OBVIOUS
<1>2. First(st[w], tok[w], i, tm) /\ InOrder(tm, began[w], now)
  BY DEF Passed, PassedAt, Readings
<1>3. now \in Int /\ began[w] \in Int /\ \A k \in 1..i : tm[k] \in Int
  BY <1>1, AuthorizerAssumption DEF Time
<1> HIDE DEF tm, i
<1>4. \A k \in 1..i : tm[k] \in began[w]..now
  BY <1>1, <1>2, <1>3 DEF InOrder
<1>5. tm \in [1..i -> began[w]..now]
  BY <1>1, <1>4
<1>6. \A j, k \in 1..i : j <= k => tm[j] <= tm[k]
  <2>1. \A j, k \in 1..i : j <= k => j \in 1..k
    BY <1>1
  <2> QED
    BY <1>1, <1>2, <2>1 DEF InOrder
<1>7. Promise!Chosen(st[w], tok[w], i, tm)
  BY <1>2, <1>6 DEF First, Fits, Promise!Chosen, Promise!Applies
<1> QED
  BY <1>5, <1>7 DEF tm, i

\* The decision, where the expiry is computed.
LEMMA FillDecides ==
  ASSUME IInv, Undecided, NEW w \in Workers, Fill(w)
  PROVE  Promise!Decide(w)
<1> USE DEF IInv, TypeOK
<1> DEFINE i == Len(seen[w])
<1>1. /\ pc[w] = "cap" /\ pc' = [pc EXCEPT ![w] = "sign"]
      /\ jwt' = [jwt EXCEPT ![w] =
            [account |-> st[w].rules[i].account, at |-> now,
             expires |-> cappedExpiry(tok[w].exp, st[w].rules[i].maxExpiry)]]
      /\ UNCHANGED <<state, now, tok, st, began>>
  BY DEF Fill, Rule, Goto, ghostVars
<1>2. /\ Asking[w] = [tok |-> tok[w], rs |-> st[w], began |-> began[w]]
      /\ Asking[w] # NoToken /\ jwt[w] = NoGrant
  BY <1>1, AskingBusy DEF Undecided
<1>3. UNCHANGED Asking
  BY <1>1 DEF Asking
<1>4. /\ tok[w].form = "jwt" /\ tok[w].genuine /\ tok[w].iss \in DOMAIN st[w].issuers
      /\ Identified(st[w], tok[w]) /\ began[w] <= tok[w].exp /\ i \in DOMAIN st[w].rules
  BY <1>1 DEF Passed, PassedAt, First
<1>5. Promise!Trusts(st[w], tok[w])
  BY <1>4 DEF Promise!Trusts, Identified
<1>6. \E tm \in [1..i -> began[w]..now] : Promise!Chosen(st[w], tok[w], i, tm)
  BY <1>1, ReadingsChoose
<1>7. cappedExpiry(tok[w].exp, st[w].rules[i].maxExpiry)
        = Promise!Until(st[w].rules[i], tok[w], now)
  <2>1. tok[w].exp \in Int /\ st[w].rules[i].maxExpiry \in Int /\ now \in Int
    BY <1>1, <1>4, AuthorizerAssumption DEF Snapshot, Time
  <2> QED
    BY <2>1, CapIsUntil
<1> HIDE DEF i
<1> DEFINE g == [account |-> st[w].rules[i].account,
                 expires |-> Promise!Until(st[w].rules[i], tok[w], now), at |-> now]
<1>8. g \in Promise!Grants(st[w], tok[w], began[w], now)
  BY <1>4, <1>5, <1>6 DEF Promise!Grants
<1>9. jwt' = [jwt EXCEPT ![w] = g]
  BY <1>1, <1>7
<1> HIDE DEF g
<1>10. /\ Asking[w].tok = tok[w] /\ Asking[w].rs = st[w] /\ Asking[w].began = began[w]
       /\ Asking[w].began <= Asking[w].tok.exp
  BY <1>2, <1>4
<1>11. \E h \in Promise!Grants(Asking[w].rs, Asking[w].tok, Asking[w].began, now) :
         jwt' = [jwt EXCEPT ![w] = h]
  BY <1>8, <1>9, <1>10, Zenon
<1>12. UNCHANGED <<state, now, Asking>>
  BY <1>1, <1>3
<1> QED
  BY ONLY <1>2, <1>10, <1>11, <1>12 DEF Promise!Decide

\* A request is bound to the ruleset of its arrival.
LEMMA BeginArrives ==
  ASSUME IInv, NEW w \in Workers, NEW t \in Token, Begin(w, t)
  PROVE  Promise!Arrive(w, t)
<1> USE DEF IInv, TypeOK
<1>1. /\ pc[w] = "idle" /\ pc' = [pc EXCEPT ![w] = "verify"]
      /\ tok' = [tok EXCEPT ![w] = t] /\ st' = [st EXCEPT ![w] = state]
      /\ began' = [began EXCEPT ![w] = now] /\ UNCHANGED <<state, now, jwt>>
  BY DEF Begin, Goto
<1>2. Asking[w] = NoToken
  BY <1>1 DEF Asking
<1>3. Asking' = [Asking EXCEPT ![w] = [tok |-> t, rs |-> state, began |-> now]]
  BY <1>1 DEF Asking
<1> QED
  BY <1>1, <1>2, <1>3 DEF Promise!Arrive

\* Every step of Authorize is an answer, the decision, or invisible.
LEMMA AuthorizeImplements ==
  ASSUME IInv, Undecided, NEW w \in Workers, Authorize(w)
  PROVE  Promise!Decide(w) \/ Promise!Answer(w) \/ UNCHANGED Promise!vars
<1>1. CASE Screen(w) \/ SignatureOk(w) \/ Identify(w) \/ Sign(w)
  BY <1>1, AdvanceStutters DEF Screen, SignatureOk, Identify, Sign, PC
<1>2. CASE RuleFails(w) \/ RuleMatches(w) \/ Fill(w)
  BY <1>2, RuleStutters, FillDecides
<1>3. CASE \/ DenyNoToken(w) \/ DenyScreened(w) \/ DenySignature(w) \/ DenyIdentify(w)
           \/ DenyPolicy(w) \/ SignFails(w) \/ Grant(w)
  BY <1>3, AnswerAnswers DEF DenyNoToken, DenyScreened, DenySignature, DenyIdentify,
     DenyPolicy, SignFails, Grant, Deny
<1> QED
  BY <1>1, <1>2, <1>3 DEF Authorize

\* Authorize, with its checks in order, its waits, the reloads between them and a
\* reading of the clock for every rule and for the cap, implements a decision
\* under the ruleset of the arrival that takes the rules in order.
THEOREM DecisionImplemented == Spec => DecidesInOrder
<1>1. Init => Promise!Init
  <2> SUFFICES ASSUME Init PROVE Promise!Init
    OBVIOUS
  <2>1. Asking = [w \in Workers |-> NoToken]
    BY DEF Init, Asking
  <2> QED
    BY <2>1 DEF Init, Promise!Init
<1>2. ASSUME IInv, Undecided, [Next]_vars
      PROVE  [Promise!Next]_(Promise!vars)
  <2>1. ASSUME NEW w \in Workers, NEW t \in Token, Begin(w, t)
        PROVE  Promise!Next
    BY <1>2, <2>1, BeginArrives DEF Promise!Next
  <2>2. ASSUME NEW w \in Workers, Authorize(w)
        PROVE  [Promise!Next]_(Promise!vars)
    BY <1>2, <2>2, AuthorizeImplements DEF Promise!Next
  <2>3. ASSUME NEW rs \in Ruleset, Reload(rs)
        PROVE  Promise!Next
    <3>1. state' = rs /\ UNCHANGED <<now, pc, tok, st, jwt, began>>
      BY <2>3 DEF Reload, workerVars
    <3>2. UNCHANGED Asking
      BY <3>1 DEF Asking
    <3> QED
      BY <3>1, <3>2 DEF Promise!Next, Promise!Install
  <2>4. CASE Tick
    <3>1. UNCHANGED <<state, pc, tok, st, jwt, began>>
      BY <2>4 DEF Tick, workerVars, ghostVars
    <3>2. UNCHANGED Asking
      BY <3>1 DEF Asking
    <3>3. (now < MaxTime /\ now' = now + 1) \/ UNCHANGED now
      BY <2>4 DEF Tick
    <3> QED
      BY <3>1, <3>2, <3>3 DEF Promise!Next, Promise!Tick, Promise!vars
  <2>5. CASE UNCHANGED vars
    BY <2>5 DEF vars, workerVars, ghostVars, Asking, Promise!vars
  <2> QED
    BY <1>2, <2>1, <2>2, <2>3, <2>4, <2>5 DEF Next
<1> QED
  BY <1>1, <1>2, Invariance, NoEarlyGrant, PTL DEF Spec, DecidesInOrder, Promise!Spec
=============================================================================
