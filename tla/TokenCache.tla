----------------------------- MODULE TokenCache -----------------------------
(***************************************************************************)
(* The AWS token client, lib/awsauth/awsauth.go.  Processes that each own  *)
(* a TokenSource share one cache file without a lock.  Callers run Token,  *)
(* and a hit close to expiry starts a background refresh; meanwhile the    *)
(* credentials of a process change, STS and the file system fail,          *)
(* processes end, tokens expire, and somebody deletes the file.            *)
(*                                                                         *)
(* A token is who signed for it, its audience and the ticks it has left.   *)
(* Callers and refresh goroutines go through the same steps (pin, mint,    *)
(* write), so both are actors.  A file that is missing, of another format  *)
(* or does not parse reads as NoEntry.  The temporary file of writeCache   *)
(* has a name of its own, so a write is visible at its rename only, and a  *)
(* process that ends before leaves the cache as it was.                    *)
(***************************************************************************)
EXTENDS Integers

CONSTANTS
  Process,        \* each with one TokenSource
  Caller,         \* goroutines that call Token, directly or through NATSOption
  Refresher,      \* goroutines refreshAsync may start
  Owner,          \* the process of a caller or refresher
  Aud,            \* the audience of a process's TokenSource
  Keys,           \* fingerprints of the access keys a process may resolve
  NoKey,          \* no credentials pinned: the cache is bypassed
  NoToken, NoEntry,
  Life,           \* Duration, in ticks
  RefreshBefore   \* CacheRefreshBefore of a process's TokenSource, in ticks

Actor == Caller \cup Refresher
AccessKey == UNION {Keys[p] : p \in Process}
Token == [by : AccessKey, aud : {Aud[p] : p \in Process}, left : 0..Life]
Entry == [credential : AccessKey, token : Token]

ASSUME TokenCacheAssumption ==
  /\ Life \in Nat \ {0} /\ RefreshBefore \in [Process -> Nat \ {0}]
  /\ Caller \cap Refresher = {}
  /\ Owner \in [Actor -> Process]
  /\ NoKey \notin AccessKey /\ NoToken \notin Token /\ NoEntry \notin Entry

VARIABLES
  file,           \* the entry at cachePath
  creds,          \* per process: what credentials.Retrieve yields now
  up,             \* per process: it runs
  refreshing,     \* per process: ts.refreshing
  lastErr,        \* per process: ts.lastErr # nil
  pc, key, tok    \* per actor: control, pinned credentials, token in hand

sourceVars == <<refreshing, lastErr>>
actorVars == <<pc, key, tok>>
worldVars == <<creds, up>>
vars == <<file, worldVars, sourceVars, actorVars>>

\* A caller ends in "hit" or "minted" with a token, or in "failed".
CallerPC == {"idle", "pin", "read", "near", "mint", "write", "hit", "minted", "failed"}
RefresherPC == {"idle", "pin", "mint", "write", "clear"}

Goto(a, l) == pc' = [pc EXCEPT ![a] = l]

\* setLastError
setLastError(p, failed) == lastErr' = [lastErr EXCEPT ![p] = failed]

\* An actor is at l and has no more use for its credentials and its token.
Leave(a, l) ==
  /\ Goto(a, l)
  /\ key' = [key EXCEPT ![a] = NoKey]
  /\ tok' = [tok EXCEPT ![a] = NoToken]

\* With nothing more to write, or without a token.
Finish(a) == Leave(a, IF a \in Caller THEN "minted" ELSE "clear")
Fail(a) == Leave(a, IF a \in Caller THEN "failed" ELSE "clear")

\* Mutant of Usable: the audience is not compared.
UsableAnyAudience(p, k) ==
  file # NoEntry /\ file.credential = k /\ file.token.left > 0

\* readCache returns a token to process p with credentials k.
Usable(p, k) ==
  /\ file # NoEntry
  /\ file.credential = k
  /\ file.token.left > 0
  /\ file.token.aud = Aud[p]

-----------------------------------------------------------------------------
Init ==
  /\ file = NoEntry
  /\ creds \in [Process -> AccessKey] /\ \A p \in Process : creds[p] \in Keys[p]
  /\ up = [p \in Process |-> TRUE]
  /\ refreshing = [p \in Process |-> FALSE] /\ lastErr = [p \in Process |-> FALSE]
  /\ pc = [a \in Actor |-> "idle"]
  /\ key = [a \in Actor |-> NoKey] /\ tok = [a \in Actor |-> NoToken]

\* Token is called.
Call(c) ==
  /\ pc[c] = "idle" /\ up[Owner[c]]
  /\ Goto(c, "pin")
  /\ UNCHANGED <<file, worldVars, sourceVars, key, tok>>

\* pinCredentials: the credentials as they are now, for the lookup, for the
\* signature and for the entry.
Pin(a) ==
  /\ pc[a] = "pin"
  /\ key' = [key EXCEPT ![a] = creds[Owner[a]]]
  /\ Goto(a, IF a \in Caller THEN "read" ELSE "mint")
  /\ UNCHANGED <<file, worldVars, sourceVars, tok>>

\* They cannot be resolved, or there is no cache: a caller bypasses it.
PinFails(c) ==
  /\ c \in Caller /\ pc[c] = "pin"
  /\ Goto(c, "mint")
  /\ UNCHANGED <<file, worldVars, sourceVars, key, tok>>

\* readCache, and the look at how close to expiry the token is.
ReadHit(c) ==
  /\ pc[c] = "read"
  /\ Usable(Owner[c], key[c])
  /\ tok' = [tok EXCEPT ![c] = file.token]
  /\ Goto(c, IF file.token.left < RefreshBefore[Owner[c]] THEN "near" ELSE "hit")
  /\ UNCHANGED <<file, worldVars, sourceVars, key>>

ReadMiss(c) ==
  /\ pc[c] = "read"
  /\ ~Usable(Owner[c], key[c])
  /\ Goto(c, "mint")
  /\ UNCHANGED <<file, worldVars, sourceVars, key, tok>>

\* The go statement: any goroutine of the process that is not running.
Spawn(c) ==
  LET free == {g \in Refresher : Owner[g] = Owner[c] /\ pc[g] = "idle"}
  IN  /\ free # {}
      /\ pc' = [pc EXCEPT ![c] = "hit", ![CHOOSE g \in free : TRUE] = "pin"]

\* Mutant of refreshAsync: the flag is not looked at.
RefreshAsyncAlways(c) ==
  /\ pc[c] = "near"
  /\ refreshing' = [refreshing EXCEPT ![Owner[c]] = TRUE]
  /\ Spawn(c)
  /\ UNCHANGED <<file, worldVars, lastErr, key, tok>>

\* refreshAsync, its critical section: start a goroutine unless one runs.
refreshAsync(c) ==
  /\ pc[c] = "near"
  /\ ~refreshing[Owner[c]]
  /\ refreshing' = [refreshing EXCEPT ![Owner[c]] = TRUE]
  /\ Spawn(c)
  /\ UNCHANGED <<file, worldVars, lastErr, key, tok>>

RefreshRuns(c) ==
  /\ pc[c] = "near"
  /\ refreshing[Owner[c]]
  /\ Goto(c, "hit")
  /\ UNCHANGED <<file, worldVars, sourceVars, key, tok>>

-----------------------------------------------------------------------------
\* A fresh token signed for by k.
Fresh(a, k) == [by |-> k, aud |-> Aud[Owner[a]], left |-> Life]

\* Mutant of MintOk: the client signs with what the provider yields by now.
MintUnpinned(a) ==
  /\ pc[a] = "mint" /\ key[a] # NoKey
  /\ tok' = [tok EXCEPT ![a] = Fresh(a, creds[Owner[a]])]
  /\ Goto(a, "write")
  /\ IF a \in Refresher THEN setLastError(Owner[a], FALSE) ELSE UNCHANGED lastErr
  /\ UNCHANGED <<file, worldVars, refreshing, key>>

\* Mutant of MintOk: a minted token is returned without writing it.
MintUncached(a) ==
  /\ pc[a] = "mint" /\ key[a] # NoKey
  /\ Finish(a)
  /\ IF a \in Refresher THEN setLastError(Owner[a], FALSE) ELSE UNCHANGED lastErr
  /\ UNCHANGED <<file, worldVars, refreshing>>

\* mint: STS answers, for the pinned credentials.  A refresher records the
\* outcome right away; nobody sees the answer before that.
MintOk(a) ==
  /\ pc[a] = "mint" /\ key[a] # NoKey
  /\ tok' = [tok EXCEPT ![a] = Fresh(a, key[a])]
  /\ Goto(a, "write")
  /\ IF a \in Refresher THEN setLastError(Owner[a], FALSE) ELSE UNCHANGED lastErr
  /\ UNCHANGED <<file, worldVars, refreshing, key>>

\* mint without a pin, signed with the credentials of that moment: the token
\* goes to the caller and not to the file.
MintBypass(c) ==
  /\ pc[c] = "mint" /\ key[c] = NoKey
  /\ Finish(c)
  /\ UNCHANGED <<file, worldVars, sourceVars>>

\* Mutant of MintFails: a failed refresh returns with the flag still set.
MintFailsLocked(a) ==
  /\ pc[a] = "mint" \/ (pc[a] = "pin" /\ a \in Refresher)
  /\ IF a \in Refresher
     THEN Leave(a, "idle") /\ setLastError(Owner[a], TRUE)
     ELSE Fail(a) /\ UNCHANGED lastErr
  /\ UNCHANGED <<file, worldVars, refreshing>>

\* STS refuses, returns nothing, or the context ends the call; for a refresher
\* it is the same when its credentials cannot be resolved.
MintFails(a) ==
  /\ pc[a] = "mint" \/ (pc[a] = "pin" /\ a \in Refresher)
  /\ Fail(a)
  /\ IF a \in Refresher THEN setLastError(Owner[a], TRUE) ELSE UNCHANGED lastErr
  /\ UNCHANGED <<file, worldVars, refreshing>>

\* writeCache renames the new entry into place, whatever is there; or something
\* in it fails, which is ignored.
Rename(a) ==
  /\ pc[a] = "write"
  /\ file' = [credential |-> key[a], token |-> tok[a]]
  /\ Finish(a)
  /\ UNCHANGED <<worldVars, sourceVars>>

WriteFails(a) ==
  /\ pc[a] = "write"
  /\ Finish(a)
  /\ UNCHANGED <<file, worldVars, sourceVars>>

\* The deferred function of a refresher.
ClearRefreshing(g) ==
  /\ pc[g] = "clear"
  /\ refreshing' = [refreshing EXCEPT ![Owner[g]] = FALSE]
  /\ Leave(g, "idle")
  /\ UNCHANGED <<file, worldVars, lastErr>>

\* Token returns to its caller.
TokenReturns(c) ==
  /\ pc[c] \in {"hit", "minted", "failed"}
  /\ Leave(c, "idle")
  /\ UNCHANGED <<file, worldVars, sourceVars>>

\* Mutant of HandlerReturns: only errors are recorded.
HandlerRecordsErrors(c) ==
  /\ pc[c] \in {"hit", "minted", "failed"}
  /\ setLastError(Owner[c], lastErr[Owner[c]] \/ pc[c] = "failed")
  /\ Leave(c, "idle")
  /\ UNCHANGED <<file, worldVars, refreshing>>

\* Mutant of HandlerReturns: the handler clears lastErr whatever happened.
HandlerClears(c) ==
  /\ pc[c] \in {"hit", "minted", "failed"}
  /\ setLastError(Owner[c], FALSE)
  /\ Leave(c, "idle")
  /\ UNCHANGED <<file, worldVars, refreshing>>

\* Token returns to the handler of NATSOption, which records the outcome.
HandlerReturns(c) ==
  /\ pc[c] \in {"hit", "minted", "failed"}
  /\ setLastError(Owner[c], pc[c] = "failed")
  /\ Leave(c, "idle")
  /\ UNCHANGED <<file, worldVars, refreshing>>

-----------------------------------------------------------------------------
\* The user switches profile, or the credentials of a process rotate.
SwitchCredentials(p, k) ==
  /\ creds' = [creds EXCEPT ![p] = k]
  /\ UNCHANGED <<file, up, sourceVars, actorVars>>

\* A process ends, in the middle of anything, and may be started again.
Exit(p) ==
  /\ up[p] /\ up' = [up EXCEPT ![p] = FALSE]
  /\ refreshing' = [refreshing EXCEPT ![p] = FALSE]
  /\ lastErr' = [lastErr EXCEPT ![p] = FALSE]
  /\ pc' = [a \in Actor |-> IF Owner[a] = p THEN "idle" ELSE pc[a]]
  /\ key' = [a \in Actor |-> IF Owner[a] = p THEN NoKey ELSE key[a]]
  /\ tok' = [a \in Actor |-> IF Owner[a] = p THEN NoToken ELSE tok[a]]
  /\ UNCHANGED <<file, creds>>

Enter(p) ==
  /\ ~up[p] /\ up' = [up EXCEPT ![p] = TRUE]
  /\ UNCHANGED <<file, creds, sourceVars, actorVars>>

\* "Delete the cache file to invalidate it manually."
Delete ==
  /\ file' = NoEntry
  /\ UNCHANGED <<worldVars, sourceVars, actorVars>>

\* Time passes for the token on disk and for tokens yet to be written.  What a
\* call found in the cache keeps the lifetime it had when it was read.
Older(t) == [t EXCEPT !.left = IF @ > 0 THEN @ - 1 ELSE 0]

Tick ==
  /\ file' = IF file = NoEntry THEN NoEntry ELSE [file EXCEPT !.token = Older(@)]
  /\ tok' = [a \in Actor |-> IF pc[a] = "write" THEN Older(tok[a]) ELSE tok[a]]
  /\ UNCHANGED <<worldVars, sourceVars, pc, key>>

CallerStep(c) ==
  \/ Pin(c) \/ PinFails(c) \/ ReadHit(c) \/ ReadMiss(c)
  \/ refreshAsync(c) \/ RefreshRuns(c)
  \/ MintOk(c) \/ MintBypass(c) \/ MintFails(c) \/ Rename(c) \/ WriteFails(c)

Return(c) == TokenReturns(c) \/ HandlerReturns(c)

RefresherStep(g) ==
  Pin(g) \/ MintOk(g) \/ MintFails(g) \/ Rename(g) \/ WriteFails(g) \/ ClearRefreshing(g)

Next ==
  \/ \E c \in Caller : Call(c) \/ CallerStep(c) \/ Return(c)
  \/ \E g \in Refresher : RefresherStep(g)
  \/ \E p \in Process : Exit(p) \/ Enter(p) \/ \E k \in Keys[p] : SwitchCredentials(p, k)
  \/ Delete
  \/ Tick

Spec == Init /\ [][Next]_vars

\* Goroutines run, a context of DefaultFetchTimeout or less ends every call to
\* STS, and time passes.
FairSpec ==
  /\ Spec
  /\ \A c \in Caller : WF_vars(CallerStep(c)) /\ WF_vars(Return(c))
  /\ \A g \in Refresher : WF_vars(RefresherStep(g))
  /\ WF_vars(Tick)

-----------------------------------------------------------------------------
TypeOK ==
  /\ file \in Entry \cup {NoEntry}
  /\ creds \in [Process -> AccessKey] /\ up \in [Process -> BOOLEAN]
  /\ refreshing \in [Process -> BOOLEAN] /\ lastErr \in [Process -> BOOLEAN]
  /\ pc \in [Actor -> CallerPC \cup RefresherPC]
  /\ \A c \in Caller : pc[c] \in CallerPC
  /\ \A g \in Refresher : pc[g] \in RefresherPC
  /\ key \in [Actor -> AccessKey \cup {NoKey}]
  /\ tok \in [Actor -> Token \cup {NoToken}]

\* "the recorded binding always matches the principal that minted the token":
\* however the credentials change between fingerprint, signature and write.
BindingTrue == file # NoEntry => file.credential = file.token.by

\* What a call gets from the file was signed for with the credentials it
\* resolved itself, is for its audience and had not expired when it was read,
\* whichever process wrote it and however late ("never reuses the previous
\* principal's token").
HitUsable ==
  \A c \in Caller : pc[c] \in {"near", "hit"} =>
    /\ tok[c].by = key[c]
    /\ tok[c].aud = Aud[Owner[c]]
    /\ tok[c].left > 0

\* "At most one refresh runs per TokenSource at a time", and the flag tells.
OneRefreshPerSource ==
  \A p \in Process :
    LET running == {g \in Refresher : Owner[g] = p /\ pc[g] # "idle"}
    IN  /\ refreshing[p] <=> running # {}
        /\ \A g, h \in running : g = h

-----------------------------------------------------------------------------
\* What the proofs add: a token about to be written was signed for with the
\* credentials its actor pinned.
Held ==
  \A a \in Actor : pc[a] = "write" =>
    key[a] \in AccessKey /\ tok[a] \in Token /\ tok[a].by = key[a]

IInv == TypeOK /\ BindingTrue /\ Held /\ HitUsable /\ OneRefreshPerSource

-----------------------------------------------------------------------------
\* A refresh that fails, hangs or loses its credentials does not keep the next
\* near-expiry call from starting another.
RefreshAllowedAgain == \A p \in Process : []<>(~refreshing[p])

\* Connects go on through NATSOption.
KeepsConnecting(p) ==
  []<><<\E c \in Caller : Owner[c] = p /\ HandlerReturns(c)>>_vars

\* "a successful fetch clears LastError": once STS answers for good, an error of
\* an earlier fetch or refresh does not stay, whatever order the outcomes are
\* recorded in.
LastErrorClears ==
  \A p \in Process :
    /\ <>[][\A a \in Actor : ~MintFails(a)]_vars
    /\ KeepsConnecting(p)
    => <>[](~lastErr[p])

\* An outage of STS does not go unnoticed: once the cached token has expired,
\* LastError reports it and no late success hides it.
OutageReported ==
  \A p \in Process :
    /\ <>[][\A a \in Actor : ~MintOk(a) /\ ~MintBypass(a)]_vars
    /\ <>[](up[p])
    /\ KeepsConnecting(p)
    => <>[](lastErr[p])

\* From some time on nothing fails, nobody interferes, and a token does not
\* expire between its mint and its rename.
Undisturbed ==
  /\ <>[][/\ \A a \in Actor : ~MintFails(a) /\ ~WriteFails(a)
          /\ \A c \in Caller : ~PinFails(c)
          /\ UNCHANGED worldVars
          /\ ~Delete]_vars
  /\ <>[](\A a \in Actor : pc[a] = "write" => tok[a].left > 0)

\* With STS and the file system back, processes that connect keep a token on
\* disk that one of them can use: expired, foreign and late entries are replaced.
CacheRecovers ==
  Undisturbed /\ (\A p \in Process : KeepsConnecting(p)) =>
    []<>(\E p \in Process : Usable(p, creds[p]))
=============================================================================
