---------------------------- MODULE KeySetProofs ----------------------------
(***************************************************************************)
(* The safety properties of KeySet, proved for every number of calls and   *)
(* results, every set of tokens and documents, every interval and timeout. *)
(* IInv is inductive; the properties follow from it.                       *)
(***************************************************************************)
EXTENDS KeySet, TLAPS

\* The cache starts cold: nothing fetched, nothing in flight, no call running.
LEMMA InitInvariant == Init => IInv
<1> SUFFICES ASSUME Init PROVE IInv
  OBVIOUS
<1> USE KeySetAssumption DEF Init, Zero
<1>1. TypeOK
  <2>1. PICK d \in Docs : served = <<d>>
    OBVIOUS
  <2>2. served \in Seq(Docs) /\ Len(served) = 1
    BY <2>1
  <2> QED
    BY <2>2 DEF TypeOK, PC, Stage, Done
<1>2. OneRefresh
  BY DEF OneRefresh
<1>3. FetchClock /\ CacheIsPublished /\ CallsBegan /\ NoRetiredKey
  BY DEF FetchClock, CacheIsPublished, CallsBegan, NoRetiredKey
<1> QED
  BY <1>1, <1>2, <1>3 DEF IInv

\* The types survive every step.
LEMMA TypeStep == ASSUME IInv, Next PROVE TypeOK'
<1> USE KeySetAssumption DEF IInv, TypeOK, PC, Verdict, Stage, Done, Goto, Zero,
        cacheVars, fetchVars, callVars, ghostVars
<1>1. ASSUME NEW c \in Calls, NEW t \in Token, Begin(c, t) PROVE TypeOK'
  BY <1>1 DEF Begin
<1>2. ASSUME NEW c \in Calls, Lookup(c) \/ Refuse(c) \/ Relookup(c) PROVE TypeOK'
  BY <1>2 DEF Lookup, Refuse, Relookup
<1>3. ASSUME NEW c \in Calls, Join(c) PROVE TypeOK'
  BY <1>3 DEF Join
<1>4. ASSUME NEW c \in Calls, NEW f \in Results, Start(c, f) PROVE TypeOK'
  BY <1>4 DEF Start
<1>5. ASSUME NEW c \in Calls, AwaitResult(c) \/ AwaitDeadline(c) PROVE TypeOK'
  BY <1>5 DEF AwaitResult, AwaitDeadline
<1>6. ASSUME NEW c \in Calls, Return(c) PROVE TypeOK'
  BY <1>6 DEF Return
<1>7. ASSUME NEW f \in Results, Fetch(f) PROVE TypeOK'
  <2>1. CASE FetchOk(f)
    BY <2>1 DEF FetchOk
  <2>2. CASE FetchErr(f)
    BY <2>2 DEF FetchErr
  <2> QED
    BY <1>7, <2>1, <2>2 DEF Fetch
<1>8. ASSUME NEW f \in Results, Install(f) PROVE TypeOK'
  <2>1. got[f] # 0 => served[got[f]] \in Docs
    OBVIOUS
  <2>2. keys' \subseteq UNION Docs
    BY <1>8, <2>1 DEF Install
  <2> QED
    BY <1>8, <2>2 DEF Install
<1>9. ASSUME NEW d \in Docs, Rotate(d) PROVE TypeOK'
  <2>1. served' \in Seq(Docs) /\ Len(served') = Len(served) + 1
    BY <1>9 DEF Rotate
  <2> QED
    BY <1>9, <2>1 DEF Rotate
<1>10. ASSUME Tick PROVE TypeOK'
  BY <1>10 DEF Tick, Older
<1> QED
  BY <1>1, <1>2, <1>3, <1>4, <1>5, <1>6, <1>7, <1>8, <1>9, <1>10 DEF Next, Progress

\* One refresh: Start needs inflight to be nil, Install clears it.
LEMMA OneRefreshStep == ASSUME IInv, Next PROVE OneRefresh'
<1> USE KeySetAssumption DEF IInv, TypeOK, OneRefresh, Stage, Done,
        cacheVars, fetchVars
<1>1. CASE UNCHANGED <<inflight, stage>>
  BY <1>1
<1>2. ASSUME NEW c \in Calls, NEW f \in Results, Start(c, f) PROVE OneRefresh'
  BY <1>2 DEF Start, Unused
<1>3. ASSUME NEW f \in Results, Fetch(f) \/ Install(f) PROVE OneRefresh'
  BY <1>3 DEF Fetch, FetchOk, FetchErr, Install
<1> QED
  BY <1>1, <1>2, <1>3 DEF Next, Progress, Begin, Lookup, Refuse, Join, AwaitResult,
     AwaitDeadline, Relookup, Return, Rotate, Tick

\* The history of fetch starts stays the age of lastFetch.
LEMMA FetchClockStep == ASSUME IInv, Next PROVE FetchClock'
<1> USE KeySetAssumption DEF IInv, TypeOK, FetchClock, Zero, cacheVars, ghostVars
<1>1. CASE UNCHANGED <<lastFetch, gap>>
  BY <1>1
<1>2. ASSUME NEW c \in Calls, NEW f \in Results, Start(c, f) PROVE FetchClock'
  BY <1>2 DEF Start
<1>3. CASE Tick
  BY <1>3 DEF Tick, Older
<1> QED
  BY <1>1, <1>2, <1>3 DEF Next, Progress, Begin, Lookup, Refuse, Join, AwaitResult,
     AwaitDeadline, Relookup, Return, Fetch, FetchOk, FetchErr, Install, Rotate

\* A goroutine returns the document served when it was answered, and no other
\* goroutine installs one in between.
LEMMA CacheStep == ASSUME IInv, Next PROVE CacheIsPublished'
<1> USE KeySetAssumption DEF IInv, TypeOK, CacheIsPublished, Stage, Done,
        cacheVars, fetchVars, ghostVars
<1>1. CASE UNCHANGED <<served, keys, ver, stage, got>>
  BY <1>1
<1>2. ASSUME NEW c \in Calls, NEW f \in Results, Start(c, f) PROVE CacheIsPublished'
  BY <1>2 DEF Start, Unused
<1>3. ASSUME NEW f \in Results, Fetch(f) PROVE CacheIsPublished'
  <2>1. CASE FetchOk(f)
    BY <2>1 DEF FetchOk
  <2>2. CASE FetchErr(f)
    BY <2>2 DEF FetchErr
  <2> QED
    BY <1>3, <2>1, <2>2 DEF Fetch
<1>4. ASSUME NEW f \in Results, Install(f) PROVE CacheIsPublished'
  <2>1. \A g \in Results : g # f => stage[g] \in Done
    BY <1>4 DEF OneRefresh, Install
  <2> QED
    BY <1>4, <2>1 DEF Install
<1>5. ASSUME NEW d \in Docs, Rotate(d) PROVE CacheIsPublished'
  <2>1. \A i \in 1..Len(served) : served'[i] = served[i]
    BY <1>5 DEF Rotate
  <2> QED
    BY <1>5, <2>1 DEF Rotate
<1> QED
  BY <1>1, <1>2, <1>3, <1>4, <1>5 DEF Next, Progress, Begin, Lookup, Refuse, Join,
     AwaitResult, AwaitDeadline, Relookup, Return, Tick

\* The cached document never moves back.
LEMMA VersionStep == ASSUME IInv, Next PROVE ver' >= ver
<1> USE DEF IInv, TypeOK, CacheIsPublished, ghostVars
<1>1. ASSUME NEW f \in Results, Install(f) PROVE ver' >= ver
  BY <1>1 DEF Install
<1> QED
  BY <1>1 DEF Next, Progress, Begin, Lookup, Refuse, Join, Start, AwaitResult,
     AwaitDeadline, Relookup, Return, Fetch, FetchOk, FetchErr, Rotate, Tick

\* What is known of a call in progress survives every step.
LEMMA CallsStep == ASSUME IInv, Next PROVE CallsBegan'
<1> USE KeySetAssumption DEF IInv, TypeOK, CallsBegan, PC, Verdict, Goto,
        cacheVars, fetchVars, callVars, ghostVars
<1>1. ASSUME NEW c \in Calls, NEW t \in Token, Begin(c, t) PROVE CallsBegan'
  BY <1>1 DEF Begin
<1>2. ASSUME NEW c \in Calls, Progress(c) PROVE CallsBegan'
  <2>1. CASE Lookup(c) \/ Refuse(c) \/ Relookup(c)
    BY <2>1 DEF Lookup, Refuse, Relookup
  <2>2. CASE Join(c)
    BY <2>2 DEF Join
  <2>3. ASSUME NEW f \in Results, Start(c, f) PROVE CallsBegan'
    BY <2>3 DEF Start
  <2>4. CASE AwaitResult(c) \/ AwaitDeadline(c)
    BY <2>4 DEF AwaitResult, AwaitDeadline
  <2> QED
    BY <1>2, <2>1, <2>2, <2>3, <2>4 DEF Progress
<1>3. ASSUME NEW c \in Calls, Return(c) PROVE CallsBegan'
  BY <1>3 DEF Return
<1>4. CASE UNCHANGED <<pc, tok, res, since>>
  <2>1. ver \in Nat /\ ver' \in Nat /\ ver' >= ver /\ since \in [Calls -> Nat]
    BY VersionStep, TypeStep
  <2> QED
    BY <1>4, <2>1
<1> QED
  BY <1>1, <1>2, <1>3, <1>4 DEF Next, Fetch, FetchOk, FetchErr, Install, Rotate, Tick

\* A call accepts a token only in Lookup and Relookup, with the cached document,
\* which is at least as recent as the one cached when the call began.
LEMMA NoRetiredKeyStep == ASSUME IInv, Next PROVE NoRetiredKey'
<1> USE KeySetAssumption DEF IInv, TypeOK, cacheVars, fetchVars, callVars, ghostVars
<1>1. ASSUME NEW c \in Calls, VerifyWith(tok[c], keys)
      PROVE \E i \in 1..Len(served) : i >= since[c] /\ VerifyWith(tok[c], served[i])
  <2>1. ver # 0 /\ keys = served[ver]
    BY <1>1 DEF CacheIsPublished, VerifyWith
  <2> QED
    BY <1>1, <2>1 DEF CallsBegan
<1>2. ASSUME NEW c \in Calls, Lookup(c) \/ Relookup(c) PROVE NoRetiredKey'
  <2>1. UNCHANGED <<served, tok, since>>
    BY <1>2 DEF Lookup, Relookup
  <2>2. ASSUME NEW e \in Calls, pc'[e] = "accepted"
        PROVE \E i \in 1..Len(served) : i >= since[e] /\ VerifyWith(tok[e], served[i])
    <3>1. CASE e = c
      BY <1>1, <1>2, <2>2, <3>1 DEF Lookup, Relookup, Goto
    <3>2. CASE e # c
      BY <1>2, <2>2, <3>2 DEF Lookup, Relookup, Goto, NoRetiredKey
    <3> QED
      BY <3>1, <3>2
  <2> QED
    BY <2>1, <2>2 DEF NoRetiredKey, VerifyWith
<1>3. ASSUME NEW d \in Docs, Rotate(d) PROVE NoRetiredKey'
  <2>1. \A i \in 1..Len(served) : i \in 1..Len(served') /\ served'[i] = served[i]
    BY <1>3 DEF Rotate
  <2>2. UNCHANGED <<pc, tok, since>>
    BY <1>3 DEF Rotate
  <2> QED
    BY <2>1, <2>2 DEF NoRetiredKey, VerifyWith
<1>4. ASSUME UNCHANGED served,
             \A c \in Calls : pc'[c] = "accepted" =>
                pc[c] = "accepted" /\ tok'[c] = tok[c] /\ since'[c] = since[c]
      PROVE NoRetiredKey'
  BY <1>4 DEF NoRetiredKey, VerifyWith
<1>5. ASSUME NEW c \in Calls, NEW t \in Token, Begin(c, t) PROVE NoRetiredKey'
  BY <1>4, <1>5 DEF Begin, Goto
<1>6. ASSUME NEW c \in Calls,
             Refuse(c) \/ Join(c) \/ (\E f \in Results : Start(c, f))
               \/ AwaitResult(c) \/ AwaitDeadline(c)
      PROVE NoRetiredKey'
  BY <1>4, <1>6 DEF Refuse, Join, Start, AwaitResult, AwaitDeadline, Goto
<1>7. ASSUME NEW c \in Calls, Return(c) PROVE NoRetiredKey'
  BY <1>4, <1>7 DEF Return, Goto
<1>8. ASSUME NEW f \in Results, Fetch(f) \/ Install(f) PROVE NoRetiredKey'
  BY <1>4, <1>8 DEF Fetch, FetchOk, FetchErr, Install
<1>9. ASSUME Tick PROVE NoRetiredKey'
  BY <1>4, <1>9 DEF Tick
<1> QED
  BY <1>2, <1>3, <1>5, <1>6, <1>7, <1>8, <1>9 DEF Next, Progress

\* A step that changes nothing preserves everything.
LEMMA StutterStep == ASSUME IInv, UNCHANGED vars PROVE IInv'
BY DEF IInv, TypeOK, OneRefresh, FetchClock, CacheIsPublished, CallsBegan,
   NoRetiredKey, VerifyWith, vars, cacheVars, fetchVars, callVars, ghostVars

\* The inductive invariant holds in every reachable state.
THEOREM Invariance == Spec => []IInv
<1>1. IInv /\ [Next]_vars => IInv'
  BY StutterStep, TypeStep, OneRefreshStep, FetchClockStep, CacheStep, CallsStep,
     NoRetiredKeyStep DEF IInv
<1> QED
  BY InitInvariant, <1>1, PTL DEF Spec

\* Every variable keeps its type, whatever the calls and the issuer do.
THEOREM TypeCorrect == Spec => []TypeOK
<1>1. IInv => TypeOK
  BY DEF IInv
<1> QED
  BY <1>1, Invariance, PTL

\* At most one refresh runs at a time, and none is left registered in inflight
\* once it ended (keyset.go, the critical sections of refresh).
THEOREM OneRefreshAtATime == Spec => []OneRefresh
<1>1. IInv => OneRefresh
  BY DEF IInv
<1> QED
  BY <1>1, Invariance, PTL

\* A key that a refresh dropped verifies no call that begins later
\* (VerifySignature reads k.keys in both of its lookups).
THEOREM RetiredKeysRejected == Spec => []NoRetiredKey
<1>1. IInv => NoRetiredKey
  BY DEF IInv
<1> QED
  BY <1>1, Invariance, PTL

\* Two outbound JWKS requests start at least Interval apart, however the first
\* one ended (the throttling case of refresh).
THEOREM Spacing == Spec => RefreshesSpaced
<1> DEFINE Spaced == \A f \in Results :
       stage[f] # "fetching" /\ stage'[f] = "fetching" => gap = Interval
<1>1. ASSUME IInv, Next PROVE Spaced
  <2> USE <1>1, KeySetAssumption DEF Spaced, IInv, TypeOK, Stage, Done, cacheVars, fetchVars
  <2>1. CASE UNCHANGED stage
    BY <2>1
  <2>2. ASSUME NEW c \in Calls, NEW f \in Results, Start(c, f) PROVE Spaced
    BY <2>2 DEF Start, RefreshThrottled, FetchClock, Zero
  <2>3. ASSUME NEW f \in Results, Fetch(f) \/ Install(f) PROVE Spaced
    BY <2>3 DEF Fetch, FetchOk, FetchErr, Install
  <2> QED
    BY <2>1, <2>2, <2>3 DEF Next, Progress, Begin, Lookup, Refuse, Join, AwaitResult,
       AwaitDeadline, Relookup, Return, Rotate, Tick
<1>2. IInv /\ [Next]_vars => [Spaced]_vars
  BY <1>1
<1> QED
  BY <1>2, Invariance, PTL DEF Spec, RefreshesSpaced

\* A slow response never overwrites a later one (Install, in the order the
\* goroutines publish).
THEOREM CacheMonotone == Spec => CacheNeverRegresses
<1>1. IInv /\ [Next]_vars => [ver' >= ver]_vars
  BY VersionStep
<1> QED
  BY <1>1, Invariance, PTL DEF Spec, CacheNeverRegresses
=============================================================================
