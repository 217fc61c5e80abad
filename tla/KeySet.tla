------------------------------- MODULE KeySet -------------------------------
(***************************************************************************)
(* The throttled JWKS cache of one trusted issuer, internal/verifier/      *)
(* keyset.go.  Any number of VerifySignature calls share the cached keys   *)
(* and at most one detached fetch goroutine, under one mutex.  Every       *)
(* critical section of the code is one action here; what happens between   *)
(* two critical sections of one call interleaves with the other calls, the *)
(* fetch goroutine, the issuer rotating its keys and the clock.            *)
(*                                                                         *)
(* Time is kept as elapsed ticks that saturate (the age of lastFetch, the  *)
(* remaining budget of a context), so no run needs a bound on the clock.   *)
(***************************************************************************)
EXTENDS Integers, Sequences

CONSTANTS
  Calls,      \* concurrent VerifySignature calls (one per callout worker)
  Results,    \* refreshResult objects; as many as Calls, so that one is always free
  Token,      \* tokens: [parses, kid, key]; key is the key that really signed it
  Docs,       \* JWKS documents the issuer may publish: sets of [kid, key]
  NoKid,      \* a token without a "kid" header
  NoResult,   \* nil *refreshResult
  NoToken,    \* no call in progress
  Interval,   \* JWKSRefreshInterval, in ticks
  Timeout,    \* budget of a call's context (verify_timeout), in ticks
  MaxDocs     \* bound: documents the issuer publishes in a behaviour

ASSUME KeySetAssumption ==
  /\ Interval \in Nat \ {0}
  /\ Timeout \in Nat
  /\ MaxDocs \in Nat \ {0}
  /\ NoResult \notin Results
  /\ NoToken \notin Token

VARIABLES
  served,     \* documents published so far, the current one last (the issuer)
  keys,       \* k.keys
  lastFetch,  \* ticks since k.lastFetch, saturating at Interval; Zero when unset
  inflight,   \* k.inflight
  stage,      \* progress of the goroutine that owns a result
  got,        \* index in served of the document fetch returned, 0 for an error
  pc, tok, left, res,  \* per call: control, token, context budget, awaited result
  ver,        \* history: index in served of the cached document, 0 for none
  gap,        \* history: ticks since a fetch last started, saturating
  since       \* history: per call, ver when the call began

cacheVars == <<keys, lastFetch, inflight>>
fetchVars == <<stage, got>>
callVars  == <<tok, left, res>>
ghostVars == <<ver, gap, since>>
vars == <<served, cacheVars, fetchVars, pc, callVars, ghostVars>>

Zero == -1    \* lastFetch.IsZero()

\* How a call ends: with the payload, or with one of the errors of the code.
Verdict == {"accepted", "malformed", "throttled", "deadline", "fetcherr", "badsig"}
PC == {"idle", "lookup", "miss", "wait", "relookup"} \cup Verdict
Done == {"ok", "failed"}    \* done is closed; r.err is nil, or not
Stage == {"fetching", "fetched"} \cup Done

\* verifyWith: some key of the document matches the kid (any key when the token
\* has none) and verifies the signature.
VerifyWith(t, doc) == \E k \in doc : t.kid \in {NoKid, k.kid} /\ k.key = t.key

\* The two throttling cases of the switch in refresh.
RefreshThrottled ==
  \/ inflight # NoResult /\ keys # {}
  \/ inflight = NoResult /\ lastFetch # Zero /\ lastFetch < Interval

\* A result no goroutine and no call refers to.
Unused(f) == stage[f] \in Done /\ \A c \in Calls : res[c] # f

Goto(c, l) == pc' = [pc EXCEPT ![c] = l]

-----------------------------------------------------------------------------
Init ==
  /\ served \in {<<d>> : d \in Docs}
  /\ keys = {} /\ lastFetch = Zero /\ inflight = NoResult
  /\ stage = [f \in Results |-> "ok"] /\ got = [f \in Results |-> 0]
  /\ pc = [c \in Calls |-> "idle"]
  /\ tok = [c \in Calls |-> NoToken]
  /\ left = [c \in Calls |-> 0] /\ res = [c \in Calls |-> NoResult]
  /\ ver = 0 /\ gap = Interval /\ since = [c \in Calls |-> 0]

\* VerifySignature is called and parses the token.
Begin(c, t) ==
  /\ pc[c] = "idle"
  /\ Goto(c, IF t.parses THEN "lookup" ELSE "malformed")
  /\ tok' = [tok EXCEPT ![c] = t]
  /\ left' = [left EXCEPT ![c] = Timeout]
  /\ since' = [since EXCEPT ![c] = ver]
  /\ UNCHANGED <<served, cacheVars, fetchVars, res, ver, gap>>

\* First critical section: snapshot the keys and verify with them.
Lookup(c) ==
  /\ pc[c] = "lookup"
  /\ Goto(c, IF VerifyWith(tok[c], keys) THEN "accepted" ELSE "miss")
  /\ UNCHANGED <<served, cacheVars, fetchVars, callVars, ghostVars>>

\* refresh, its critical section: refuse, join the first fetch, or start one.
Refuse(c) ==
  /\ pc[c] = "miss"
  /\ RefreshThrottled
  /\ Goto(c, "throttled")
  /\ UNCHANGED <<served, cacheVars, fetchVars, callVars, ghostVars>>

Join(c) ==
  /\ pc[c] = "miss"
  /\ ~RefreshThrottled
  /\ inflight # NoResult
  /\ res' = [res EXCEPT ![c] = inflight]
  /\ Goto(c, "wait")
  /\ UNCHANGED <<served, cacheVars, fetchVars, tok, left, ghostVars>>

\* Mutant of Start: the in-flight refresh is not looked at.
StartConcurrent(c, f) ==
  /\ pc[c] = "miss"
  /\ lastFetch = Zero \/ lastFetch = Interval
  /\ Unused(f)
  /\ inflight' = f /\ lastFetch' = 0 /\ gap' = 0
  /\ stage' = [stage EXCEPT ![f] = "fetching"]
  /\ res' = [res EXCEPT ![c] = f]
  /\ Goto(c, "wait")
  /\ UNCHANGED <<served, keys, got, tok, left, ver, since>>

\* Mutant of Start: the attempt itself is not recorded in lastFetch.
StartUnrecorded(c, f) ==
  /\ pc[c] = "miss"
  /\ ~RefreshThrottled
  /\ inflight = NoResult
  /\ Unused(f)
  /\ inflight' = f /\ gap' = 0
  /\ stage' = [stage EXCEPT ![f] = "fetching"]
  /\ res' = [res EXCEPT ![c] = f]
  /\ Goto(c, "wait")
  /\ UNCHANGED <<served, keys, lastFetch, got, tok, left, ver, since>>

Start(c, f) ==
  /\ pc[c] = "miss"
  /\ ~RefreshThrottled
  /\ inflight = NoResult
  /\ Unused(f)
  /\ inflight' = f /\ lastFetch' = 0 /\ gap' = 0
  /\ stage' = [stage EXCEPT ![f] = "fetching"]
  /\ res' = [res EXCEPT ![c] = f]
  /\ Goto(c, "wait")
  /\ UNCHANGED <<served, keys, got, tok, left, ver, since>>

\* refresh, its select: the result is in, or the context is done.  With both
\* ready Go picks either.
AwaitResult(c) ==
  /\ pc[c] = "wait"
  /\ stage[res[c]] \in Done
  /\ Goto(c, IF stage[res[c]] = "ok" THEN "relookup" ELSE "fetcherr")
  /\ res' = [res EXCEPT ![c] = NoResult]
  /\ UNCHANGED <<served, cacheVars, fetchVars, tok, left, ghostVars>>

\* Mutant of AwaitDeadline: the context is looked at only once the fetch ended.
AwaitDeadlineLate(c) ==
  /\ pc[c] = "wait"
  /\ left[c] = 0 /\ stage[res[c]] \in Done
  /\ Goto(c, "deadline")
  /\ res' = [res EXCEPT ![c] = NoResult]
  /\ UNCHANGED <<served, cacheVars, fetchVars, tok, left, ghostVars>>

AwaitDeadline(c) ==
  /\ pc[c] = "wait"
  /\ left[c] = 0
  /\ Goto(c, "deadline")
  /\ res' = [res EXCEPT ![c] = NoResult]
  /\ UNCHANGED <<served, cacheVars, fetchVars, tok, left, ghostVars>>

\* Last critical section: verify once more with what the cache holds now.
Relookup(c) ==
  /\ pc[c] = "relookup"
  /\ Goto(c, IF VerifyWith(tok[c], keys) THEN "accepted" ELSE "badsig")
  /\ UNCHANGED <<served, cacheVars, fetchVars, callVars, ghostVars>>

\* The caller has the outcome; the call's locals are gone.
Return(c) ==
  /\ pc[c] \in Verdict
  /\ Goto(c, "idle")
  /\ tok' = [tok EXCEPT ![c] = NoToken]
  /\ left' = [left EXCEPT ![c] = 0]
  /\ since' = [since EXCEPT ![c] = 0]
  /\ UNCHANGED <<served, cacheVars, fetchVars, res, ver, gap>>

-----------------------------------------------------------------------------
\* Mutant of FetchOk: a shared HTTP cache answers with any earlier document.
FetchOkFromCache(f) ==
  /\ stage[f] = "fetching"
  /\ stage' = [stage EXCEPT ![f] = "fetched"]
  /\ \E i \in 1..Len(served) : got' = [got EXCEPT ![f] = i]
  /\ UNCHANGED <<served, cacheVars, pc, callVars, ghostVars>>

\* The goroutine of result f.  fetch() returns the document the endpoint serves
\* at that moment, or an error (transport, status, body, client timeout).
FetchOk(f) ==
  /\ stage[f] = "fetching"
  /\ stage' = [stage EXCEPT ![f] = "fetched"]
  /\ got' = [got EXCEPT ![f] = Len(served)]
  /\ UNCHANGED <<served, cacheVars, pc, callVars, ghostVars>>

FetchErr(f) ==
  /\ stage[f] = "fetching"
  /\ stage' = [stage EXCEPT ![f] = "fetched"]
  /\ got' = [got EXCEPT ![f] = 0]
  /\ UNCHANGED <<served, cacheVars, pc, callVars, ghostVars>>

\* Mutant of Install: fetched keys are added to the cached ones.
InstallMerging(f) ==
  /\ stage[f] = "fetched"
  /\ stage' = [stage EXCEPT ![f] = IF got[f] = 0 THEN "failed" ELSE "ok"]
  /\ keys' = IF got[f] = 0 THEN keys ELSE keys \cup served[got[f]]
  /\ ver' = IF got[f] = 0 THEN ver ELSE got[f]
  /\ inflight' = NoResult
  /\ got' = [got EXCEPT ![f] = 0]
  /\ UNCHANGED <<served, lastFetch, pc, callVars, gap, since>>

\* Mutant of Install: a failed fetch returns before clearing inflight.
InstallEarlyReturn(f) ==
  /\ stage[f] = "fetched"
  /\ stage' = [stage EXCEPT ![f] = IF got[f] = 0 THEN "failed" ELSE "ok"]
  /\ keys' = IF got[f] = 0 THEN keys ELSE served[got[f]]
  /\ ver' = IF got[f] = 0 THEN ver ELSE got[f]
  /\ inflight' = IF got[f] = 0 THEN inflight ELSE NoResult
  /\ got' = [got EXCEPT ![f] = 0]
  /\ UNCHANGED <<served, lastFetch, pc, callVars, gap, since>>

\* Its critical section: replace the keys on success, clear inflight always;
\* then r.err = err and close(r.done).  The close follows the unlock, but only
\* waiters see it, and a waiter may be late to notice it anyway (AwaitResult),
\* so one step gives the same behaviours.
Install(f) ==
  /\ stage[f] = "fetched"
  /\ stage' = [stage EXCEPT ![f] = IF got[f] = 0 THEN "failed" ELSE "ok"]
  /\ keys' = IF got[f] = 0 THEN keys ELSE served[got[f]]
  /\ ver' = IF got[f] = 0 THEN ver ELSE got[f]
  /\ inflight' = NoResult
  /\ got' = [got EXCEPT ![f] = 0]
  /\ UNCHANGED <<served, lastFetch, pc, callVars, gap, since>>

-----------------------------------------------------------------------------
\* The issuer publishes another document.
Rotate(d) ==
  /\ Len(served) < MaxDocs
  /\ served' = Append(served, d)
  /\ UNCHANGED <<cacheVars, fetchVars, pc, callVars, ghostVars>>

\* Time passes for lastFetch and for every context.
Older(n) == IF n < Interval THEN n + 1 ELSE n

Tick ==
  /\ lastFetch' = IF lastFetch = Zero THEN Zero ELSE Older(lastFetch)
  /\ gap' = Older(gap)
  /\ left' = [c \in Calls |-> IF left[c] > 0 THEN left[c] - 1 ELSE 0]
  /\ UNCHANGED <<served, keys, inflight, fetchVars, pc, tok, res, ver, since>>

\* What a call does by itself once it has begun.
Progress(c) ==
  \/ Lookup(c) \/ Refuse(c) \/ Join(c) \/ \E f \in Results : Start(c, f)
  \/ AwaitResult(c) \/ AwaitDeadline(c) \/ Relookup(c)

Fetch(f) == FetchOk(f) \/ FetchErr(f)

Next ==
  \/ \E c \in Calls : (\E t \in Token : Begin(c, t)) \/ Progress(c) \/ Return(c)
  \/ \E f \in Results : Fetch(f) \/ Install(f)
  \/ \E d \in Docs : Rotate(d)
  \/ Tick

Spec == Init /\ [][Next]_vars

\* The Go scheduler runs every runnable goroutine and time passes.  Nothing is
\* assumed of the issuer's endpoint: a fetch may hang.  At most one goroutine
\* fetches at a time (OneRefresh), so it needs no fairness per result.
Scheduling ==
  /\ \A c \in Calls : WF_vars(Progress(c))
  /\ WF_vars(\E f \in Results : Install(f))
  /\ WF_vars(Tick)

FairSpec == Spec /\ Scheduling

-----------------------------------------------------------------------------
TypeOK ==
  /\ served \in Seq(Docs) /\ Len(served) \in 1..MaxDocs
  /\ keys \subseteq UNION Docs
  /\ lastFetch \in 0..Interval \cup {Zero}
  /\ inflight \in Results \cup {NoResult}
  /\ stage \in [Results -> Stage]
  /\ got \in [Results -> 0..Len(served)]
  /\ pc \in [Calls -> PC]
  /\ tok \in [Calls -> Token \cup {NoToken}]
  /\ left \in [Calls -> 0..Timeout]
  /\ res \in [Calls -> Results \cup {NoResult}]
  /\ ver \in 0..Len(served)
  /\ gap \in 0..Interval
  /\ since \in [Calls -> 0..Len(served)]

\* "at most one refresh runs at a time": no two goroutines are between starting
\* and publishing a fetch, and the one that is is the one k.inflight names, so
\* a finished or failed fetch never leaves the cache locked out of refreshing.
OneRefresh ==
  \A f \in Results : stage[f] \in {"fetching", "fetched"} <=> inflight = f

\* "refreshes start at most once per interval (counted from the previous
\* attempt, successful or not)": whatever calls miss, and however the earlier
\* fetches ended, two outbound requests start at least Interval apart.
RefreshesSpaced ==
  [][\A f \in Results :
       stage[f] # "fetching" /\ stage'[f] = "fetching" => gap = Interval]_vars

\* A slow response never overwrites a later one: the cached document only moves
\* forward through the documents the issuer published.
CacheNeverRegresses == [][ver' >= ver]_vars

\* A token is accepted only under a document the issuer published, and none
\* older than the one cached when the call began: a key that a refresh dropped
\* verifies no later call.
NoRetiredKey ==
  \A c \in Calls : pc[c] = "accepted" =>
    \E i \in 1..Len(served) : i >= since[c] /\ VerifyWith(tok[c], served[i])

-----------------------------------------------------------------------------
\* What the proofs add to the properties above to make them inductive.

\* lastFetch records every attempt, so it and the history agree.
FetchClock == gap = IF lastFetch = Zero THEN Interval ELSE lastFetch

\* The cached keys are exactly one published document, and what a goroutine is
\* about to install is at least as recent.
CacheIsPublished ==
  /\ keys = IF ver = 0 THEN {} ELSE served[ver]
  /\ \A f \in Results : got[f] # 0 => stage[f] = "fetched"
  /\ \A f \in Results : stage[f] = "fetched" /\ got[f] # 0 => got[f] >= ver

\* A call in progress holds a token, began no later than now, and waits on a
\* result.
CallsBegan ==
  \A c \in Calls :
    /\ pc[c] # "idle" => tok[c] \in Token
    /\ since[c] <= ver
    /\ pc[c] = "wait" => res[c] \in Results

IInv ==
  /\ TypeOK /\ OneRefresh /\ FetchClock /\ CacheIsPublished /\ CallsBegan
  /\ NoRetiredKey

-----------------------------------------------------------------------------
\* Every call returns, even when the JWKS endpoint never answers: a waiter is
\* bounded by its context.
CallReturns == \A c \in Calls : []<>(pc[c] \in Verdict \cup {"idle"})

\* The client timeout ends every fetch, and an endpoint that is asked again and
\* again answers again and again.
EndpointAnswers ==
  WF_vars(\E f \in Results : Fetch(f)) /\ SF_vars(\E f \in Results : FetchOk(f))

\* "a legitimate key rotation is picked up": a token the current document
\* verifies, presented again and again, is in the end always verified from the
\* cache, whatever other tokens spend the refresh budget meanwhile.
RotationPickedUp ==
  EndpointAnswers =>
    \A t \in {u \in Token : u.parses} :
      /\ <>[]VerifyWith(t, served[Len(served)])
      /\ []<>(\E c \in Calls : pc[c] = "lookup" /\ tok[c] = t)
      => <>[]VerifyWith(t, keys)

\* keyset.go: errRefreshThrottled "is returned when a token's key is not cached
\* and a JWKS refresh is not allowed right now".
ThrottledMeansNotCached ==
  \A c \in Calls : pc[c] = "miss" /\ RefreshThrottled => ~VerifyWith(tok[c], keys)
=============================================================================
