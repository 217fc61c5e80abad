# nats-oidc-callout: TLA+ models, checks and proofs

nats-oidc-callout is a NATS auth-callout service. For every client that
connects, the broker asks it to turn an OIDC token into a signed user JWT: the
service verifies the token against its issuer's JWKS, matches it against an
ordered policy and signs a grant. This directory holds TLA+ modules for the
parts of it where order, concurrency or failure decide what happens, TLC
configurations that check them on small instances, and TLAPS proofs.

Paths below are relative to `src/`.

## The system

| Component | State | Operations | What makes it correct |
|---|---|---|---|
| JWKS key set (`internal/verifier/keyset.go`) | cached keys, time of the last attempt, in-flight refresh, one mutex | `VerifySignature`, `refresh`, a detached fetch goroutine | one refresh at a time, spaced, never going back; every call returns; rotations get through |
| Token verifier (`internal/verifier/verifier.go`) | none once built | `Verify` | the order of the checks; no unverified claim is used |
| Authorizer (`internal/callout/callout.go`, `internal/metrics/metrics.go`) | an atomic pointer to verifier and policy; counters | `Authorize` on N workers, `Reload` | a grant comes from one ruleset and lives within its token; every request is answered and counted |
| Policy (`internal/authz/`) | rules, compiled matchers, `validated` | `Validate`, `Evaluate` | first match wins; unvalidated never grants; a rule that is not narrow says so; an omitted permission denies |
| Reload (`cmd/.../main.go`, `internal/config/config.go`) | the SIGHUP channel, the installed config | `watchReloads`, `reloadConfig`, `config.Load` | no SIGHUP is lost; only valid configs are installed; none comes back |
| Process life (`cmd/.../main.go`) | connection, service, `started`, two failure channels | `run`, `connectNATS`, `stopService` | no nil probe, no panic, a process that cannot serve ends, shutdown completes |
| Settings (`internal/config/config.go`, `cmd/.../main.go`) | the startup config, what runs | `Load`, `Validate`, `verifier.New`, `connectNATS`, `warnUnreloadable` | what runs is what the file says, or is reported; never weaker than the file asks |
| Metrics and probes (`internal/metrics/server.go`) | an HTTP server, `errCh` | `Serve`, `/readyz` | readiness tells the truth; metrics clients do not hold up the process |
| Identity (`internal/identity/`) | none | `Parse`, `flatten` | a claim is matched under the key its issuer gave it |
| AWS client (`lib/awsauth/`) | a cache file shared by processes, `refreshing`, `lastErr` | `Token`, `refreshAsync`, `readCache`, `writeCache` | no expired token, none of other credentials, one refresh at a time |
| Kubernetes client (`lib/k8sauth/`) | a token file, `lastErr` | `Token` | the current token is read |

How they interact. The callout library runs `Authorize` on its workers.
`Authorize` loads the ruleset pointer once, calls `Verify`, which calls the
issuer's key set and may wait there for a fetch that other calls share, then
`Evaluate`, then signs. `watchReloads` runs on a goroutine of its own and swaps
the pointer. `run` waits for the signal context and for two channels of
capacity one which the NATS client's callbacks and the library's error callback
fill. The HTTP probes read the connection and the service from yet another
goroutine, guarded by `started`.

The hard behaviours are the interleavings of these goroutines, fetches that
fail, hang or arrive late, deadlines racing results, signals that coalesce,
files edited while they are read, and failures before anyone waits for them.
`PROJECT.json` lists them as hazards, each at its line.

## Modules

Every action is one atomic step of the code: a critical section, a channel
operation, an atomic load or store, or a stretch without shared state. Each
module defines next to an action the *mutants* of it: variants with a plausible
mistake, under which a property must fail.

**KeySet** (MCKeySet, KeySetProofs). `Begin`, `Lookup`, then `Refuse`, `Join` or
`Start`, `AwaitResult` or `AwaitDeadline`, `Relookup`, `Return` follow one
`VerifySignature`; `FetchOk`/`FetchErr` and `Install` follow the fetch
goroutine. A token is its parse result, its `kid` and the key that really signed
it; a JWKS document is a set of keys. `served` is the list of documents the
issuer has published, so positions in it are versions. Time is kept as elapsed
ticks that saturate, so the clock needs no bound. `Install` also closes `done`,
which the code does right after the unlock: only waiters see the close, and a
waiter may be late to notice it in either case.

**Authorizer** (MCAuthorizer, AuthorizerProofs). One request per worker through
the checks in their order, with a deny action per early return. The clock runs
between any two steps, and the code reads it more than once: each rule is tested
in a step of its own (`RuleFails`, `RuleMatches`), because its expression asks
for the time itself (`cel.go:62`), and `cappedExpiry` asks again (`Fill`). `seen`
has a reading for each rule tested; its length is how far the loop of
`Policy.Evaluate` has come. Whether a genuine signature verifies is open (`KeySet`
decides it); a signature that is not genuine never does. `nbf` and its leeway
are left to go-oidc, and so is the moment of the expiry check, before the
signature. Expiries are in seconds, the unit of the JWT.

**SubPattern** (MCSubPattern; its proofs are in PolicyProofs). Subject patterns as sequences of characters:
what a glob matches, part by part as in the expression `compileSub` builds, and
which globs pin an account or are exact. Pure operators, with a reference
meaning in the properties; MCSubPattern grows a pattern a character at a time.

**Policy** (MCPolicy, PolicyProofs). Extends SubPattern. `Validate` rule by rule
with what it has compiled so far, `Evaluate` at any time, before and after. CEL
and regular expressions are opaque: a CEL evaluation yields true, false or an
error at will, a regular expression has the set of subjects it spans. The
response permission is passed through unchanged and left out.

**Reload** (ReloadProofs). The operator edits two files and sends SIGHUP; the
watcher takes a signal, reads the config, then the policy, discovers and
installs. File contents are versions that load or not.

**Service** (ServiceProofs). `run` from loading the config to exit, with the
NATS client, the broker and the callout library as environment. These three are
not part of the repository; their actions say what `main.go` and its tests rely
on.

**Probes** (ServiceProofs). Extends Service with the metrics server: `Serve`'s select, its accept
goroutine with `errCh`, shutdown with its timeout, clients that hold connections,
and a readiness handler that evaluates the three conjuncts of `ready` one at a
time. `ReadyAnswerHonest` is about these three, as `README.md:448` promises them;
a revoked subscription is not among them (see the disagreements below). The step of `run` past the listener starts it, when metrics are enabled;
every other step of Service leaves it alone.

**Settings** (MCSettings, SettingsProofs). Configuration files as records: `Defaults` and
`Validate`, what `verifier.New` and `connectNATS` make of them (`Effect`), and
reloads that apply one part and compare the rest with the startup config. The
history `source` is what the file last put in effect says of trust: a reload
that fails, even after loading its file, leaves it as it was. A
start and a reload are single steps; Service and Reload have their steps.
Whether a seed, a PEM file, a path or a policy is well-formed is a constant.

**Identity** (MCIdentity, IdentityProofs). `Parse` and `flatten` as a stack of members left to
visit, because Go visits a map in any order and two members may have the same
dotted key; then the check of `require_claims`. A name is the sequence of its
dot-separated parts, so joining with a dot is concatenation.

**TokenCache** (MCTokenCache, TokenCacheProofs). `Token` of callers and the goroutine of
`refreshAsync` of several processes on one cache file. Both pin, mint and write;
only callers read. A token is the key that signed for it, its audience and the
ticks it has left. Credentials change, STS and the disk fail, processes exit in
the middle of a step, the user deletes the file.

**Decision** is the abstract specification of the authorization function: a
request is bound to the ruleset in force when it arrives, and is refused or gets
a grant of that ruleset, whose rules are judged in order, each at a moment of
its own between the arrival and the decision. Authorizer implements it
(`DecidesInOrder`): a request is pending while its worker is busy, and `Fill`,
where the expiry is computed, is the decision. A decision at one moment would be
too much to promise: of two rules that both say `now >= T`, the first may be
tested just before T and the second just after, and the second is granted
although at no time is it the first that matches. The `authorizer` run has such
rules. What holds whatever the clock does is that one ruleset decides, that no
rule is skipped that matched when it was tested, and that the cap counts from
the decision.

Authorizer uses KeySet's promise (a call returns, and accepts only genuine
signatures) and Policy's (`FirstMatch`) in abstract form; Reload's `Install` is
Authorizer's `Reload`.

## Runs

| Run | Checks | Instance |
|---|---|---|
| `keyset` | `OneRefresh`, `RefreshesSpaced`, `CacheNeverRegresses`, `NoRetiredKey`; `CallReturns` with an endpoint that may hang; `RotationPickedUp` while forged tokens spend the budget | two calls, an interval of 1 tick, a deadline that may fall at any moment, a key that is published or retired; a genuine, a forged and an unparsable token |
| `authorizer` | `GrantFromOneRuleset`, `LifetimeWithinToken`, `EveryRequestAnswered`, and the refinement `DecidesInOrder` | two workers with a request each, a reload between rulesets that differ in every part, one with two rules that come into force at the same time, tokens failing one check each |
| `sub_pattern` | `PinSound`, `ExactOnlyItself`, `PinComplete` | every pattern up to 5 and subject up to 6 characters over two digits, colon, star and newline; the account is one digit in the third field |
| `policy` | `GrantMatchesRule`, `NarrowUnlessBroad`, `PermissionsAsWritten` | every one-rule policy over all combinations of conditions or permissions, every two-rule policy over 32 overlapping rules, 24 identities |
| `reload` | `LastHangupHonoured`, `ServesValid`, `ReloadsOnlyAdvance`, `HangupLeadsToReload` | two edits of each file, valid and not |
| `service` (module Probes) | `ProbeSafe`, `NoSendOnClosed`, `ExitTellsFailure`, `ReadyAnswerHonest`, `DeadInstanceExits`, `ShutdownCompletes` | all event orders, two deliveries, one metrics connection and one probe at a time |
| `settings` | `AppliedOrReported`, `ConnectsAsConfigured`, `VerifierAsConfigured` | files that differ from a plain one in up to two settings at the start, in one at each reload, with a value for every case the code tells apart |
| `identity` | `FlattenedAsNamed`, `NoRegisteredCopy`, `BareNamesKept`, `BoundByToken` | payloads of up to three members with nested, dotted, registered and clashing names, every order of visits |
| `token_cache` | `BindingTrue`, `HitUsable`, `OneRefreshPerSource`, `RefreshAllowedAgain`, `LastErrorClears`, `OutageReported`, `CacheRecovers` | two processes with one caller each, room for two refreshes in the first, different audiences and refresh windows, credentials that change, tokens of 2 ticks |

Bounds. Two calls or workers are enough for every pairwise race, and the code
has no rule that counts them; the safety properties are proved for any number.
Two documents cover before and after a rotation. In `keyset` a call's deadline is
0 ticks, so that it may strike at any moment after the wait began, and the
interval is 1, so that a refresh is refused, allowed and overdue in turn. A pattern of
five characters has a star before, in or after a pinned third field, and
subjects are one longer so that a star can shift fields; patterns and subjects of
any length are left to the proofs. Files change twice, so
that a reload can be overtaken by an edit and again by a signal. In `settings` one
unusual setting meets another at the start, where the checks of `Validate`
depend on pairs; three reloads already show drift from the startup config and
from the previous one apart, and the state space closes without a bound. A token
of two ticks is fresh, close to expiry and expired in turn. `reload`,
`service`, `policy`, `sub_pattern` and `identity` allow deadlock because a
process ends, and an evaluation, the longest pattern or the verdict ends a
behaviour.

Fairness. Goroutines that can run do run (weak fairness of each call, worker,
watcher and callback) and time passes. Nothing is assumed of the network:
`CallReturns` holds with fetches that never end and `ShutdownCompletes` with
drains that never do. `RotationPickedUp` alone assumes that the HTTP client's
timeout ends a fetch and that an endpoint asked infinitely often answers
infinitely often (`EndpointAnswers`); without that no cache could
pick up anything. `HangupLeadsToReload` assumes that a discovery ends, which the
HTTP client's timeout ensures. In `token_cache` every call to STS ends, at the
latest with its context. Its three other temporal properties are about processes
that keep connecting: `LastErrorClears` once no call to STS fails any more,
`OutageReported` while STS stays down, `CacheRecovers` once nothing fails or
interferes and no token expires between its mint and its rename (a token lives
at least a minute, a rename takes no time; without that condition TLC shows a
loop in which every entry is expired when it is written).

## Disagreements with the documentation

Three runs expect a violation; each states one sentence of a comment or document.

- `keyset_stale_miss`: a call can be refused as throttled when its key is
  already cached, because `refresh` does not look at the keys again.
- `authorizer_uncounted`: a denial because signing failed is not counted.
- `reload_early_hangup`: SIGHUP just after the process reports ready, before the
  handler is registered, ends it.

Others were met and have no run:

- SIGTERM during the startup discovery makes `run` return an error
  (`DiscoveryCancelled` in Service), where `main.go:67` promises nil.
- After a failed first fetch, misses are throttled although no keys were ever
  fetched (`keyset.go:38` excepts that case from failing immediately).
- `/readyz` answers 200 between the revocation of the subscription and the exit
  that follows it (`server.go:24`), and `/healthz` is closed while the process
  drains, although it "answers 200 while the process is up" (`server.go:21`).
- `Validate` rejects negative `workers`, `verify_timeout` and
  `jwks_refresh_interval` but not a negative `http_timeout`, which net/http
  takes as none; `config.go:40` says it bounds discovery and fetches. A fetch
  that never ends then keeps `inflight` set and every later miss waits for it.
- `jwks_refresh_interval` is kept by each key set; a reload builds new ones, so
  fetches of an issuer may be closer together (`config.go:53`).
- A slow mint's rename may replace a newer cached token by an older one. Nothing
  promises otherwise, and the older one is replaced in turn (`CacheRecovers`).

## Proofs

Each `*Proofs` module proves `Init => IInv`, `IInv /\ [Next]_vars => IInv'` and
from `[]IInv` the properties, for all values of the constants that satisfy the
module's named assumption (positive intervals and bounds, sentinels outside the
sets they extend, sequences with the domain of a sequence, characters that
differ). Every invariant and action property of the runs is proved, and so is
the refinement of Decision.

- **KeySetProofs**: `OneRefresh`, `NoRetiredKey`, `RefreshesSpaced`,
  `CacheNeverRegresses`. The properties are about history, so `IInv` ties the
  history to the code's state: `lastFetch` is the age of the last start
  (`FetchClock`); the cache is exactly one published document, and what is about
  to be installed is no older (`CacheIsPublished`), which needs `OneRefresh`,
  since two fetches could overtake one another.
- **AuthorizerProofs**: `GrantFromOneRuleset`, `LifetimeWithinToken`,
  `DecidesInOrder`. `Snapshot` says that a request's ruleset is the one that was
  current when it began; `Passed` records per stage which checks the token has
  passed under it, and which rules have failed, each at its reading of the
  clock; `Readings` that these readings are in order and since the arrival. The
  refinement maps a busy worker to a pending request (`Asking`); it needs
  `Passed` and `Readings`, so that the readings are the moments Decision asks
  for (`ReadingsChoose`) and `Fill` is a decision it allows, and `Undecided`, so
  that a denial at any stage has no grant to take back. Every action is then a
  step of Decision or leaves `Asking`, the grants and the ruleset alone.
- **PolicyProofs**: `GrantMatchesRule`, `PermissionsAsWritten`,
  `NarrowUnlessBroad`, and of MCSubPattern `PinSound`, `ExactOnlyItself`,
  `PinComplete`. `OnlyDeclared` and `Compiled` say that matchers exist only for
  conditions a rule declares, and for all of them once `Validate` is past the
  rule, so that the test the code makes is the condition as written; and that
  such a rule passed the guardrail. That the guardrail's pins are pins rests on
  what globs match: `Ends` says how far each prefix of a pattern can match, up
  to the first star that is its own length (`LiteralEnds`), so a matched subject
  begins like the pattern (`GlobLiteral`), and strings that begin alike are cut
  into fields alike (`CutSame`). `PinComplete` goes the other way: a star before
  the account matches enough colons to make the account field empty (`Escape`).
  It is false if subjects are too short to hold these colons, so its theorem
  supposes `MaxSubject >= MaxPattern + AccountField - 1`.
- **ReloadProofs**: `LastHangupHonoured`, `ServesValid`, `ReloadsOnlyAdvance`.
  `Honoured` says that until the files of the last SIGHUP have been seen, a
  signal is buffered or a reload that has yet to read them is under way;
  `Pending` that what a reload holds loaded and is no older than what is
  installed.
- **ServiceProofs**: `ProbeSafe`, `NoSendOnClosed`, `ExitTellsFailure`, and of
  Probes `ReadyAnswerHonest`. `Lifecycle` says what exists in each phase and that
  a reported failure, before shutdown, is a real one. `ProbesInv` says what the
  reads of the handler so far have shown: after the second, the instance was
  ready at that moment or its service has stopped, and a stopped service stays
  stopped, so the third read decides between the two.
- **SettingsProofs**: `AppliedOrReported`, `ConnectsAsConfigured`,
  `VerifierAsConfigured`. `Up` says that both configs the process remembers are
  `Complete` (defaults applied, checked), that the four groups a reload does not
  touch are still the effect of the startup config, that the warnings are those
  of the last file, and that verifier and policy are those of one file that
  passed every check (`InForce`), the last loaded one unless a reload failed.
  That the map of trusted issuers is the list of that file, no more and no less,
  is `TrustedAsListed`, which needs the list to be free of duplicates.
- **IdentityProofs**: `FlattenedAsNamed`, `NoRegisteredCopy`, `BareNamesKept`,
  `BoundByToken`. `Called` says that every pending call of `flatten` has the key
  of its member as prefix and lies outside the registered claims; `Sourced` that
  a claim written has the value of a member with its key; `Covered` that a
  member not written yet lies below one that is still to be visited.
- **TokenCacheProofs**: `BindingTrue`, `HitUsable`, `OneRefreshPerSource`. `Held`
  carries what connects an entry to its minter through the steps between the
  pin, the mint and the rename: a token about to be written was signed for with
  the credentials its actor pinned.

`TypeCorrect` is the type invariant of its module; the runs check the properties
that say more. Facts about recursive functions (the ends of a glob, the key of a
path) are by the least counterexample: a set of naturals that is not empty has a
least element (`LeastNat`), where the fact would have to fail for the first time.

Only model-checked: the liveness properties, which depend on fairness
(`CallReturns`, `RotationPickedUp`, `EveryRequestAnswered`,
`HangupLeadsToReload`, `DeadInstanceExits`, `ShutdownCompletes`,
`RefreshAllowedAgain`, `LastErrorClears`, `OutageReported`, `CacheRecovers`).

## Not modelled

- The Kubernetes client reads a file on every connect and keeps only the error of
  the last read, recorded as the AWS client's handler records it. It shares no
  state between calls that an interleaving could disturb.
- The mock issuer is test support; the charts and the systemd unit configure the
  supervisor.
- The queue of the callout library, go-oidc, nats.go and net/http are outside
  the repository; what the code relies on is stated by external actions.
- Policy evaluation of CEL and of regular expressions, and the contents of
  certificates and seeds, are opaque.
- Key sets across reloads: the code promises nothing there (see above).

## Plan

1. Done: KeySet, Authorizer, SubPattern, Policy, Reload, Service, their runs and
   the proofs above.
2. Done: TokenCache, Identity, Settings and Probes; Decision and its refinement.
3. Done: the proofs of TokenCache, Settings, Identity and Probes, of the subject
   patterns and the guardrail, and the refinement of Decision.
4. A versioned register that Reload implements, and an issuer's key oracle that
   KeySet implements, as further abstract specifications, with their refinements
   proved as that of Decision is.
