-------------------------- MODULE TokenCacheProofs --------------------------
(***************************************************************************)
(* The safety of TokenCache for any number of processes, callers and keys: *)
(* an entry of the shared file names the credentials that minted it, a hit *)
(* is a token of the caller's own credentials and audience that had not    *)
(* expired, and each source runs at most one refresh.                      *)
(***************************************************************************)
EXTENDS TokenCache, TLAPS

USE DEF worldVars, sourceVars, actorVars

\* Where an actor can be.
Labels(a) == IF a \in Caller THEN CallerPC ELSE RefresherPC

\* An actor that moves to a label of its kind keeps the control typed.
LEMMA GotoType ==
  ASSUME TypeOK, NEW a \in Actor, NEW l \in Labels(a), Goto(a, l)
  PROVE  /\ pc' \in [Actor -> CallerPC \cup RefresherPC]
         /\ \A c \in Caller : pc'[c] \in CallerPC
         /\ \A g \in Refresher : pc'[g] \in RefresherPC
<1> USE DEF TypeOK, Goto, Labels, Actor
<1>1. l \in CallerPC \cup RefresherPC
  OBVIOUS
<1>2. \A b \in Actor : pc'[b] = IF b = a THEN l ELSE pc[b]
  OBVIOUS
<1>3. a \in Caller => a \notin Refresher
  BY TokenCacheAssumption
<1> QED
  BY <1>1, <1>2, <1>3

\* What an actor leaves behind.
LEMMA LeaveType ==
  ASSUME TypeOK, NEW a \in Actor, NEW l \in Labels(a), Leave(a, l)
  PROVE  /\ pc' \in [Actor -> CallerPC \cup RefresherPC]
         /\ \A c \in Caller : pc'[c] \in CallerPC
         /\ \A g \in Refresher : pc'[g] \in RefresherPC
         /\ key' \in [Actor -> AccessKey \cup {NoKey}]
         /\ tok' \in [Actor -> Token \cup {NoToken}]
<1>1. Goto(a, l)
  BY DEF Leave
<1>2. key' \in [Actor -> AccessKey \cup {NoKey}] /\ tok' \in [Actor -> Token \cup {NoToken}]
  BY DEF Leave, TypeOK
<1> QED
  BY <1>1, <1>2, GotoType

\* What setLastError writes.
LEMMA LastErrorType ==
  ASSUME TypeOK, NEW p \in Process, NEW b \in BOOLEAN, setLastError(p, b)
  PROVE  lastErr' \in [Process -> BOOLEAN]
BY DEF setLastError, TypeOK

\* A minted token is typed and carries who signed for it.
LEMMA FreshToken ==
  ASSUME NEW a \in Actor, NEW k \in AccessKey
  PROVE  Fresh(a, k) \in Token /\ Fresh(a, k).by = k /\ Fresh(a, k).aud = Aud[Owner[a]]
BY TokenCacheAssumption DEF Fresh, Token

\* Growing older changes nothing but the time left.
LEMMA OlderToken ==
  ASSUME NEW t \in Token
  PROVE  Older(t) \in Token /\ Older(t).by = t.by
BY TokenCacheAssumption DEF Older, Token

\* No file, nobody calling.
LEMMA InitInvariant == Init => IInv
<1> SUFFICES ASSUME Init PROVE IInv
  OBVIOUS
<1> USE TokenCacheAssumption DEF Init
<1>1. TypeOK
  BY DEF TypeOK, Actor, CallerPC, RefresherPC
<1>2. BindingTrue /\ Held /\ HitUsable
  BY DEF BindingTrue, Held, HitUsable, Actor
<1>3. OneRefreshPerSource
  BY DEF OneRefreshPerSource, Actor
<1> QED
  BY <1>1, <1>2, <1>3 DEF IInv

\* Every step keeps the types; a rename needs what Held says of its actor.
LEMMA TypeStep == ASSUME TypeOK, Held, [Next]_vars PROVE TypeOK'
<1>0. \A a \in Actor : Owner[a] \in Process
  BY TokenCacheAssumption
<1> USE DEF Labels, CallerPC, RefresherPC
<1>1. ASSUME NEW c \in Caller, Call(c) \/ PinFails(c) \/ ReadMiss(c) \/ RefreshRuns(c)
      PROVE  TypeOK'
  <2>1. \E l \in Labels(c) : Goto(c, l)
    BY <1>1 DEF Call, PinFails, ReadMiss, RefreshRuns
  <2>2. UNCHANGED <<file, creds, up, refreshing, lastErr, key, tok>>
    BY <1>1 DEF Call, PinFails, ReadMiss, RefreshRuns
  <2> QED
    BY <2>1, <2>2, GotoType DEF TypeOK, Actor
<1>2. ASSUME NEW a \in Actor, Pin(a)
      PROVE  TypeOK'
  <2>1. \E l \in Labels(a) : Goto(a, l)
    BY <1>2 DEF Pin
  <2>2. key' \in [Actor -> AccessKey \cup {NoKey}]
    BY <1>0, <1>2 DEF Pin, TypeOK
  <2> QED
    BY <1>2, <2>1, <2>2, GotoType DEF TypeOK, Pin
<1>3. ASSUME NEW c \in Caller, ReadHit(c)
      PROVE  TypeOK'
  <2>1. \E l \in Labels(c) : Goto(c, l)
    BY <1>3 DEF ReadHit
  <2>2. file.token \in Token
    BY <1>3 DEF ReadHit, Usable, TypeOK, Entry
  <2>3. tok' \in [Actor -> Token \cup {NoToken}]
    BY <1>3, <2>2 DEF ReadHit, TypeOK
  <2> QED
    BY <1>3, <2>1, <2>3, GotoType DEF TypeOK, ReadHit, Actor
<1>4. ASSUME NEW c \in Caller, refreshAsync(c)
      PROVE  TypeOK'
  <2>1. PICK g \in Refresher : pc' = [pc EXCEPT ![c] = "hit", ![g] = "pin"]
    BY <1>4 DEF refreshAsync, Spawn
  <2>2. /\ pc' \in [Actor -> CallerPC \cup RefresherPC]
        /\ \A b \in Caller : pc'[b] \in CallerPC
        /\ \A b \in Refresher : pc'[b] \in RefresherPC
    BY <2>1, TokenCacheAssumption DEF TypeOK, Actor
  <2>3. refreshing' \in [Process -> BOOLEAN]
    BY <1>0, <1>4 DEF refreshAsync, TypeOK, Actor
  <2> QED
    BY <1>4, <2>2, <2>3 DEF TypeOK, refreshAsync
<1>5. ASSUME NEW a \in Actor, MintOk(a)
      PROVE  TypeOK'
  <2>1. Goto(a, "write") /\ "write" \in Labels(a)
    BY <1>5 DEF MintOk
  <2>2. Fresh(a, key[a]) \in Token
    BY <1>5, FreshToken DEF MintOk, TypeOK
  <2>3. tok' \in [Actor -> Token \cup {NoToken}]
    BY <1>5, <2>2 DEF MintOk, TypeOK
  <2>4. lastErr' \in [Process -> BOOLEAN]
    BY <1>0, <1>5, LastErrorType DEF MintOk, TypeOK
  <2> QED
    BY <1>5, <2>1, <2>3, <2>4, GotoType DEF TypeOK, MintOk
<1>6. ASSUME NEW a \in Actor, MintFails(a)
      PROVE  TypeOK'
  <2>1. \E l \in Labels(a) : Leave(a, l)
    BY <1>6 DEF MintFails, Fail
  <2>2. lastErr' \in [Process -> BOOLEAN]
    BY <1>0, <1>6, LastErrorType DEF MintFails, TypeOK
  <2> QED
    BY <1>6, <2>1, <2>2, LeaveType DEF TypeOK, MintFails
<1>7. ASSUME NEW a \in Actor, MintBypass(a) \/ WriteFails(a) \/ Rename(a)
      PROVE  TypeOK'
  <2>1. \E l \in Labels(a) : Leave(a, l)
    BY <1>7 DEF MintBypass, WriteFails, Rename, Finish
  <2>2. file' \in Entry \cup {NoEntry}
    BY <1>7 DEF MintBypass, WriteFails, Rename, TypeOK, Held, Entry
  <2>3. UNCHANGED <<creds, up, refreshing, lastErr>>
    BY <1>7 DEF MintBypass, WriteFails, Rename
  <2> QED
    BY <2>1, <2>2, <2>3, LeaveType DEF TypeOK
<1>8. ASSUME NEW g \in Refresher, ClearRefreshing(g)
      PROVE  TypeOK'
  <2>1. \E l \in Labels(g) : Leave(g, l)
    BY <1>8 DEF ClearRefreshing
  <2>2. refreshing' \in [Process -> BOOLEAN]
    BY <1>0, <1>8 DEF ClearRefreshing, TypeOK, Actor
  <2> QED
    BY <1>8, <2>1, <2>2, LeaveType DEF TypeOK, ClearRefreshing, Actor
<1>9. ASSUME NEW c \in Caller, Return(c)
      PROVE  TypeOK'
  <2>1. Leave(c, "idle") /\ "idle" \in Labels(c)
    BY <1>9 DEF Return, TokenReturns, HandlerReturns
  <2>2. lastErr' \in [Process -> BOOLEAN]
    <3>1. CASE TokenReturns(c)
      BY <3>1 DEF TokenReturns, TypeOK
    <3>2. CASE HandlerReturns(c)
      BY <1>0, <3>2, LastErrorType DEF HandlerReturns, Actor
    <3> QED
      BY <1>9, <3>1, <3>2 DEF Return
  <2>3. UNCHANGED <<file, creds, up, refreshing>>
    BY <1>9 DEF Return, TokenReturns, HandlerReturns
  <2> QED
    BY <2>1, <2>2, <2>3, LeaveType DEF TypeOK, Actor
<1>10. ASSUME NEW p \in Process, Exit(p)
       PROVE  TypeOK'
  <2>1. /\ refreshing' \in [Process -> BOOLEAN] /\ lastErr' \in [Process -> BOOLEAN]
        /\ up' \in [Process -> BOOLEAN]
    BY <1>10 DEF Exit, TypeOK
  <2>2. /\ pc' \in [Actor -> CallerPC \cup RefresherPC]
        /\ \A b \in Caller : pc'[b] \in CallerPC
        /\ \A b \in Refresher : pc'[b] \in RefresherPC
    BY <1>10 DEF Exit, TypeOK, Actor
  <2>3. /\ key' \in [Actor -> AccessKey \cup {NoKey}]
        /\ tok' \in [Actor -> Token \cup {NoToken}]
    BY <1>10 DEF Exit, TypeOK
  <2> QED
    BY <1>10, <2>1, <2>2, <2>3 DEF TypeOK, Exit
<1>11. ASSUME NEW p \in Process, Enter(p) \/ \E k \in Keys[p] : SwitchCredentials(p, k)
       PROVE  TypeOK'
  <2>1. CASE Enter(p)
    BY <2>1 DEF TypeOK, Enter
  <2>2. ASSUME NEW k \in Keys[p], SwitchCredentials(p, k)
        PROVE  TypeOK'
    <3>1. k \in AccessKey
      BY DEF AccessKey
    <3> QED
      BY <2>2, <3>1 DEF TypeOK, SwitchCredentials
  <2> QED
    BY <1>11, <2>1, <2>2
<1>12. CASE Delete
  BY <1>12 DEF TypeOK, Delete
<1>13. CASE Tick
  <2>1. file' \in Entry \cup {NoEntry}
    <3>1. CASE file = NoEntry
      BY <1>13, <3>1 DEF Tick
    <3>2. CASE file # NoEntry
      <4>1. file \in Entry /\ file.token \in Token
        BY <3>2 DEF TypeOK, Entry
      <4> QED
        BY <1>13, <3>2, <4>1, OlderToken DEF Tick, Entry
    <3> QED
      BY <3>1, <3>2
  <2>2. tok' \in [Actor -> Token \cup {NoToken}]
    BY <1>13, OlderToken DEF Tick, TypeOK, Held
  <2> QED
    BY <1>13, <2>1, <2>2 DEF TypeOK, Tick
<1>14. CASE UNCHANGED vars
  BY <1>14 DEF TypeOK, vars
<1> QED
  BY <1>1, <1>2, <1>3, <1>4, <1>5, <1>6, <1>7, <1>8, <1>9, <1>10, <1>11, <1>12, <1>13, <1>14
  DEF Next, CallerStep, RefresherStep, Actor

\* Only a rename writes an entry, of what its actor holds; only a mint puts a
\* token in hand to be written, and only a read one to be returned as a hit.
LEMMA HoldingStep ==
  ASSUME TypeOK, BindingTrue, Held, HitUsable, [Next]_vars
  PROVE  BindingTrue' /\ Held' /\ HitUsable'
<1> USE DEF Goto
<1>0. \A c \in Caller : c \in Actor /\ c \notin Refresher
  BY TokenCacheAssumption DEF Actor
<1>1. ASSUME NEW c \in Caller, Call(c) \/ PinFails(c) \/ ReadMiss(c) \/ RefreshRuns(c)
      PROVE  BindingTrue' /\ Held' /\ HitUsable'
  BY <1>0, <1>1 DEF Call, PinFails, ReadMiss, RefreshRuns, TypeOK, BindingTrue, Held, HitUsable
<1>2. ASSUME NEW a \in Actor, Pin(a)
      PROVE  BindingTrue' /\ Held' /\ HitUsable'
  BY <1>0, <1>2 DEF Pin, TypeOK, BindingTrue, Held, HitUsable
<1>3. ASSUME NEW c \in Caller, ReadHit(c)
      PROVE  BindingTrue' /\ Held' /\ HitUsable'
  <2>1. /\ file.token.by = key[c] /\ file.token.left > 0
        /\ file.token.aud = Aud[Owner[c]]
    BY <1>3 DEF ReadHit, Usable, BindingTrue
  <2>2. pc' = [pc EXCEPT ![c] = "near"] \/ pc' = [pc EXCEPT ![c] = "hit"]
    BY <1>3 DEF ReadHit
  <2> QED
    BY <1>0, <1>3, <2>1, <2>2 DEF ReadHit, TypeOK, BindingTrue, Held, HitUsable
<1>4. ASSUME NEW c \in Caller, refreshAsync(c)
      PROVE  BindingTrue' /\ Held' /\ HitUsable'
  <2>1. PICK g \in Refresher : pc' = [pc EXCEPT ![c] = "hit", ![g] = "pin"]
    BY <1>4 DEF refreshAsync, Spawn
  <2> QED
    BY <1>0, <1>4, <2>1 DEF refreshAsync, TypeOK, BindingTrue, Held, HitUsable, Actor
<1>5. ASSUME NEW a \in Actor, MintOk(a)
      PROVE  BindingTrue' /\ Held' /\ HitUsable'
  <2>1. key[a] \in AccessKey /\ Fresh(a, key[a]) \in Token /\ Fresh(a, key[a]).by = key[a]
    BY <1>5, FreshToken DEF MintOk, TypeOK
  <2> QED
    BY <1>0, <1>5, <2>1 DEF MintOk, TypeOK, BindingTrue, Held, HitUsable
<1>6. ASSUME NEW a \in Actor, MintFails(a) \/ MintBypass(a) \/ WriteFails(a)
      PROVE  BindingTrue' /\ Held' /\ HitUsable'
  BY <1>0, <1>6 DEF MintFails, MintBypass, WriteFails, Fail, Finish, Leave, TypeOK,
     BindingTrue, Held, HitUsable
<1>7. ASSUME NEW a \in Actor, Rename(a)
      PROVE  BindingTrue' /\ Held' /\ HitUsable'
  <2>1. BindingTrue'
    BY <1>7 DEF Rename, BindingTrue, Held
  <2>2. Held' /\ HitUsable'
    BY <1>0, <1>7 DEF Rename, Finish, Leave, TypeOK, Held, HitUsable
  <2> QED
    BY <2>1, <2>2
<1>8. ASSUME NEW g \in Refresher, ClearRefreshing(g)
      PROVE  BindingTrue' /\ Held' /\ HitUsable'
  BY <1>0, <1>8 DEF ClearRefreshing, Leave, TypeOK, BindingTrue, Held, HitUsable, Actor
<1>9. ASSUME NEW c \in Caller, Return(c)
      PROVE  BindingTrue' /\ Held' /\ HitUsable'
  BY <1>0, <1>9 DEF Return, TokenReturns, HandlerReturns, Leave, TypeOK, BindingTrue, Held,
     HitUsable
<1>10. ASSUME NEW p \in Process, Exit(p)
       PROVE  BindingTrue' /\ Held' /\ HitUsable'
  BY <1>0, <1>10 DEF Exit, BindingTrue, Held, HitUsable
<1>11. ASSUME NEW p \in Process, Enter(p) \/ \E k \in Keys[p] : SwitchCredentials(p, k)
       PROVE  BindingTrue' /\ Held' /\ HitUsable'
  BY <1>11 DEF Enter, SwitchCredentials, BindingTrue, Held, HitUsable
<1>12. CASE Delete
  BY <1>12 DEF Delete, BindingTrue, Held, HitUsable
<1>13. CASE Tick
  <2>1. BindingTrue'
    <3>1. CASE file = NoEntry
      BY <1>13, <3>1 DEF Tick, BindingTrue
    <3>2. CASE file # NoEntry
      <4>1. file \in Entry /\ file.token \in Token
        BY <3>2 DEF TypeOK, Entry
      <4>2. /\ file' = [file EXCEPT !.token = Older(file.token)]
            /\ Older(file.token).by = file.token.by
        BY <1>13, <3>2, <4>1, OlderToken DEF Tick
      <4> QED
        BY <3>2, <4>1, <4>2 DEF BindingTrue, Entry
    <3> QED
      BY <3>1, <3>2
  <2>2. Held'
    BY <1>13, OlderToken DEF Tick, Held
  <2>3. HitUsable'
    BY <1>0, <1>13 DEF Tick, HitUsable
  <2> QED
    BY <2>1, <2>2, <2>3
<1>14. CASE UNCHANGED vars
  BY <1>14 DEF vars, BindingTrue, Held, HitUsable
<1> QED
  BY <1>1, <1>2, <1>3, <1>4, <1>5, <1>6, <1>7, <1>8, <1>9, <1>10, <1>11, <1>12, <1>13, <1>14
  DEF Next, CallerStep, RefresherStep, Actor

\* OneRefreshPerSource without its set.
LEMMA OneRefreshFlat ==
  OneRefreshPerSource <=>
    \A p \in Process :
      /\ refreshing[p] <=> \E g \in Refresher : Owner[g] = p /\ pc[g] # "idle"
      /\ \A g, h \in Refresher :
           Owner[g] = p /\ pc[g] # "idle" /\ Owner[h] = p /\ pc[h] # "idle" => g = h
BY DEF OneRefreshPerSource

\* The same of the state after a step.
LEMMA OneRefreshFlatNext ==
  OneRefreshPerSource' <=>
    \A p \in Process :
      /\ refreshing'[p] <=> \E g \in Refresher : Owner[g] = p /\ pc'[g] # "idle"
      /\ \A g, h \in Refresher :
           Owner[g] = p /\ pc'[g] # "idle" /\ Owner[h] = p /\ pc'[h] # "idle" => g = h
BY DEF OneRefreshPerSource

\* A step that leaves the flags alone and neither starts nor ends a refresh.
LEMMA SameRefreshes ==
  ASSUME OneRefreshPerSource, UNCHANGED refreshing,
         \A g \in Refresher : pc'[g] = "idle" <=> pc[g] = "idle"
  PROVE  OneRefreshPerSource'
BY DEF OneRefreshPerSource

\* The flag is set by the call that starts the goroutine and reset by its last
\* step, whatever happened to it in between.
LEMMA RefreshStep == ASSUME TypeOK, OneRefreshPerSource, [Next]_vars PROVE OneRefreshPerSource'
<1> USE DEF Goto
<1>0. \A c \in Caller : c \in Actor /\ c \notin Refresher
  BY TokenCacheAssumption DEF Actor
<1>1. ASSUME NEW c \in Caller,
             \/ Call(c) \/ Pin(c) \/ PinFails(c) \/ ReadHit(c) \/ ReadMiss(c) \/ RefreshRuns(c)
             \/ MintOk(c) \/ MintBypass(c) \/ MintFails(c) \/ Rename(c) \/ WriteFails(c)
             \/ Return(c)
      PROVE  OneRefreshPerSource'
  <2>1. UNCHANGED refreshing
    BY <1>1 DEF Call, Pin, PinFails, ReadHit, ReadMiss, RefreshRuns, MintOk, MintBypass,
       MintFails, Rename, WriteFails, Return, TokenReturns, HandlerReturns
  <2>2. \E l : pc' = [pc EXCEPT ![c] = l]
    BY <1>1 DEF Call, Pin, PinFails, ReadHit, ReadMiss, RefreshRuns, MintOk, MintBypass,
       MintFails, Rename, WriteFails, Return, TokenReturns, HandlerReturns, Leave, Finish, Fail
  <2> QED
    BY <1>0, <2>1, <2>2, SameRefreshes DEF TypeOK
<1>2. ASSUME NEW c \in Caller, refreshAsync(c)
      PROVE  OneRefreshPerSource'
  <2>1. PICK g \in Refresher : /\ Owner[g] = Owner[c]
                              /\ pc' = [pc EXCEPT ![c] = "hit", ![g] = "pin"]
    BY <1>2 DEF refreshAsync, Spawn
  <2>2. /\ ~refreshing[Owner[c]]
        /\ refreshing' = [refreshing EXCEPT ![Owner[c]] = TRUE]
    BY <1>2 DEF refreshAsync
  <2>3. Owner[c] \in Process /\ g \in Actor
    BY TokenCacheAssumption DEF Actor
  <2>4. /\ Owner[g] = Owner[c] /\ pc'[g] # "idle"
        /\ \A h \in Refresher : h # g => pc'[h] = pc[h]
    BY <1>0, <2>1 DEF TypeOK, Actor
  <2>5. /\ refreshing'[Owner[c]]
        /\ \A p \in Process : p # Owner[c] => (refreshing'[p] <=> refreshing[p])
    BY <2>2, <2>3 DEF TypeOK
  <2>6. \A h \in Refresher : Owner[h] = Owner[c] => pc[h] = "idle"
    BY <2>2, <2>3 DEF OneRefreshPerSource
  <2>7. ASSUME NEW p \in Process
        PROVE  /\ refreshing'[p] <=> \E h \in Refresher : Owner[h] = p /\ pc'[h] # "idle"
               /\ \A h, k \in Refresher :
                    Owner[h] = p /\ pc'[h] # "idle" /\ Owner[k] = p /\ pc'[k] # "idle" => h = k
    <3>1. CASE p = Owner[c]
      BY <2>4, <2>5, <2>6, <3>1
    <3>2. CASE p # Owner[c]
      BY <2>4, <2>5, <3>2, OneRefreshFlat
    <3> QED
      BY <3>1, <3>2
  <2> QED
    BY <2>7, OneRefreshFlatNext
<1>3. ASSUME NEW g \in Refresher, Pin(g) \/ MintOk(g) \/ MintFails(g) \/ Rename(g) \/ WriteFails(g)
      PROVE  OneRefreshPerSource'
  <2>1. UNCHANGED refreshing /\ pc[g] # "idle"
    BY <1>3 DEF Pin, MintOk, MintFails, Rename, WriteFails
  <2>2. \E l \in {"mint", "write", "clear"} : pc' = [pc EXCEPT ![g] = l]
    BY <1>0, <1>3 DEF Pin, MintOk, MintFails, Rename, WriteFails, Leave, Finish, Fail
  <2> QED
    BY <2>1, <2>2, SameRefreshes DEF TypeOK
<1>4. ASSUME NEW g \in Refresher, ClearRefreshing(g)
      PROVE  OneRefreshPerSource'
  <2>1. /\ pc[g] = "clear" /\ pc' = [pc EXCEPT ![g] = "idle"]
        /\ refreshing' = [refreshing EXCEPT ![Owner[g]] = FALSE]
    BY <1>4 DEF ClearRefreshing, Leave
  <2>2. \A h \in Refresher : pc'[h] = IF h = g THEN "idle" ELSE pc[h]
    BY <2>1 DEF TypeOK, Actor
  <2>3. /\ ~refreshing'[Owner[g]]
        /\ \A p \in Process : p # Owner[g] => (refreshing'[p] <=> refreshing[p])
    BY <2>1, TokenCacheAssumption DEF TypeOK, Actor
  <2>4. \A h \in Refresher : Owner[h] = Owner[g] /\ pc[h] # "idle" => h = g
    BY <2>1, TokenCacheAssumption DEF OneRefreshPerSource, Actor
  <2> QED
    BY <2>2, <2>3, <2>4, OneRefreshFlat, OneRefreshFlatNext
<1>5. ASSUME NEW p \in Process, Exit(p)
      PROVE  OneRefreshPerSource'
  <2>1. \A g \in Refresher : pc'[g] = IF Owner[g] = p THEN "idle" ELSE pc[g]
    BY <1>5 DEF Exit, Actor
  <2>2. /\ ~refreshing'[p]
        /\ \A q \in Process : q # p => (refreshing'[q] <=> refreshing[q])
    BY <1>5 DEF Exit, TypeOK
  <2> QED
    BY <2>1, <2>2, OneRefreshFlat, OneRefreshFlatNext
<1>6. CASE \/ \E p \in Process : Enter(p) \/ \E k \in Keys[p] : SwitchCredentials(p, k)
           \/ Delete \/ Tick \/ UNCHANGED vars
  <2>1. UNCHANGED <<refreshing, pc>>
    BY <1>6 DEF Enter, SwitchCredentials, Delete, Tick, vars
  <2> QED
    BY <2>1, SameRefreshes
<1> QED
  BY <1>1, <1>2, <1>3, <1>4, <1>5, <1>6 DEF Next, CallerStep, RefresherStep

\* The inductive invariant holds in every reachable state.
THEOREM Invariance == Spec => []IInv
<1>1. IInv /\ [Next]_vars => IInv'
  BY TypeStep, HoldingStep, RefreshStep DEF IInv
<1> QED
  BY InitInvariant, <1>1, PTL DEF Spec

\* Every variable keeps its type.
THEOREM TypeCorrect == Spec => []TypeOK
<1>1. IInv => TypeOK
  BY DEF IInv
<1> QED
  BY <1>1, Invariance, PTL

\* The fingerprint in the cache file is that of the credentials that signed for
\* the token, for any interleaving of processes, mints, renames and changes of
\* credentials: pinCredentials fixes both at once.
THEOREM EntriesNameTheirMinter == Spec => []BindingTrue
<1>1. IInv => BindingTrue
  BY DEF IInv
<1> QED
  BY <1>1, Invariance, PTL

\* A call served from the file (readCache) gets a token of the credentials it
\* resolved, for its audience, unexpired when read, whoever wrote it.
THEOREM HitsAreOwn == Spec => []HitUsable
<1>1. IInv => HitUsable
  BY DEF IInv
<1> QED
  BY <1>1, Invariance, PTL

\* refreshAsync: at most one background refresh per TokenSource, and the flag is
\* set exactly while it runs, whatever fails and whichever process ends.
THEOREM SingleRefresh == Spec => []OneRefreshPerSource
<1>1. IInv => OneRefreshPerSource
  BY DEF IInv
<1> QED
  BY <1>1, Invariance, PTL
=============================================================================
