---------------------------- MODULE ReloadProofs ----------------------------
(***************************************************************************)
(* The safety of Reload for any number of edits: no SIGHUP is lost, what   *)
(* serves always loaded, and reloads only advance.                         *)
(***************************************************************************)
EXTENDS Reload, TLAPS

\* The startup config is valid and nothing was asked for yet.
LEMMA InitInvariant == Init => IInv
<1> SUFFICES ASSUME Init PROVE IInv
  OBVIOUS
<1> USE ReloadAssumption DEF Init
<1>1. /\ cfgs \in Seq(Content) /\ Len(cfgs) = 1 /\ cfgs[1] = "ok"
      /\ pols \in Seq(Content) /\ Len(pols) = 1 /\ pols[1] = "ok"
  BY DEF Content
<1>2. TypeOK
  <2>1. started \in BOOLEAN /\ cancelled \in BOOLEAN /\ alive \in BOOLEAN
    OBVIOUS
  <2>2. watcher \in Watcher /\ hup \in {0, 1}
    BY DEF Watcher
  <2>3. 1 \in 1..Len(cfgs) /\ 1 \in 1..Len(pols) /\ 1 \in 1..(MaxEdits + 1)
    BY <1>1
  <2>4. 0 \in 0..Len(cfgs) /\ 0 \in 0..Len(pols)
    BY <1>1
  <2> HIDE DEF Init
  <2>5. /\ readC = 1 /\ readP = 1 /\ instC = 1 /\ instP = 1
        /\ seenC = 1 /\ seenP = 1 /\ askedC = 0 /\ askedP = 0
    BY DEF Init
  <2> QED
    BY <1>1, <2>1, <2>2, <2>3, <2>4, <2>5 DEF TypeOK
<1>3. Pending /\ Honoured /\ ServesValid
  BY <1>1 DEF Pending, Honoured, ServesValid
<1> QED
  BY <1>2, <1>3 DEF IInv

\* An edit appends: what was read, installed or seen keeps its content.
LEMMA EditStep ==
  ASSUME IInv, NEW c \in Content, EditConfig(c) \/ EditPolicy(c)
  PROVE  IInv'
<1> USE ReloadAssumption DEF IInv, TypeOK
<1>1. CASE EditConfig(c)
  <2>1. /\ cfgs' \in Seq(Content) /\ Len(cfgs') = Len(cfgs) + 1
        /\ Len(cfgs') \in 1..(MaxEdits + 1)
        /\ \A i \in 1..Len(cfgs) : cfgs'[i] = cfgs[i]
    BY <1>1 DEF EditConfig
  <2>2. UNCHANGED <<pols, started, watcher, hup, readC, readP, instC, instP, cancelled,
                    alive, askedC, askedP, seenC, seenP>>
    BY <1>1 DEF EditConfig, readVars, instVars, askedVars, seenVars
  <2>3. TypeOK'
    BY <2>1, <2>2
  <2>4. Pending' /\ ServesValid'
    BY <2>1, <2>2 DEF Pending, ServesValid
  <2>5. Honoured'
    BY <2>1, <2>2 DEF Honoured
  <2> QED
    BY <2>3, <2>4, <2>5
<1>2. CASE EditPolicy(c)
  <2>1. /\ pols' \in Seq(Content) /\ Len(pols') = Len(pols) + 1
        /\ Len(pols') \in 1..(MaxEdits + 1)
        /\ \A i \in 1..Len(pols) : pols'[i] = pols[i]
    BY <1>2 DEF EditPolicy
  <2>2. UNCHANGED <<cfgs, started, watcher, hup, readC, readP, instC, instP, cancelled,
                    alive, askedC, askedP, seenC, seenP>>
    BY <1>2 DEF EditPolicy, readVars, instVars, askedVars, seenVars
  <2>3. TypeOK'
    BY <2>1, <2>2
  <2>4. Pending' /\ ServesValid'
    BY <2>1, <2>2 DEF Pending, ServesValid
  <2>5. Honoured'
    BY <2>2 DEF Honoured
  <2> QED
    BY <2>3, <2>4, <2>5
<1> QED
  BY <1>1, <1>2

\* A handled SIGHUP leaves a signal buffered.
LEMMA HangupStep == ASSUME IInv, Hangup \/ HangupKills PROVE IInv'
<1> USE DEF IInv, TypeOK, Watcher, fileVars, readVars, instVars, askedVars, seenVars
<1>1. CASE Hangup
  BY <1>1 DEF Hangup, Pending, Honoured, ServesValid
<1>2. CASE HangupKills
  <2>1. TypeOK'
    BY <1>2 DEF HangupKills
  <2> QED
    BY <1>2, <2>1 DEF HangupKills, Pending, Honoured, ServesValid
<1> QED
  BY <1>1, <1>2

\* A reload reads the files after it took the signal, installs only what it
\* validated, and reads no earlier version than the one installed.
LEMMA WatchStep == ASSUME IInv, Watch PROVE IInv'
<1> USE ReloadAssumption DEF IInv, TypeOK, Watcher, fileVars, readVars, instVars,
        askedVars, seenVars
<1>1. CASE Start \/ Register \/ Take \/ WatcherReturns
  <2>1. TypeOK'
    BY <1>1 DEF Start, Register, Take, WatcherReturns
  <2>2. UNCHANGED <<cfgs, pols, readC, readP, instC, instP, askedC, askedP, seenC, seenP>>
    BY <1>1 DEF Start, Register, Take, WatcherReturns
  <2>3. Pending' /\ ServesValid'
    BY <1>1, <2>2 DEF Start, Register, Take, WatcherReturns, Pending, ServesValid
  <2>4. Honoured'
    BY <1>1, <2>2 DEF Start, Register, Take, WatcherReturns, Honoured
  <2> QED
    BY <2>1, <2>3, <2>4
<1>2. CASE LoadConfig
  <2>1. CASE cfgs[Len(cfgs)] = "ok"
    BY <1>2, <2>1 DEF LoadConfig, Pending, Honoured, ServesValid
  <2>2. CASE cfgs[Len(cfgs)] # "ok"
    <3>1. cfgs[Len(cfgs)] = "bad"
      BY <2>2 DEF Content
    <3> QED
      BY <1>2, <2>2, <3>1 DEF LoadConfig, Idle, Pending, Honoured, ServesValid
  <2> QED
    BY <2>1, <2>2
<1>3. CASE LoadPolicy
  <2>1. CASE pols[Len(pols)] = "ok"
    BY <1>3, <2>1 DEF LoadPolicy, Pending, Honoured, ServesValid
  <2>2. CASE pols[Len(pols)] # "ok"
    BY <1>3, <2>2 DEF LoadPolicy, Idle, Pending, Honoured, ServesValid
  <2> QED
    BY <2>1, <2>2
<1>4. CASE Install
  BY <1>4 DEF Install, Idle, Pending, Honoured, ServesValid
<1>5. CASE BuildFails
  BY <1>5 DEF BuildFails, Idle, Pending, Honoured, ServesValid
<1> QED
  BY <1>1, <1>2, <1>3, <1>4, <1>5 DEF Watch

\* Cancellation and stuttering touch nothing the invariant reads.
LEMMA OtherStep == ASSUME IInv, Cancel \/ UNCHANGED vars PROVE IInv'
BY DEF IInv, TypeOK, Pending, Honoured, ServesValid, Cancel, vars, fileVars, readVars,
   instVars, askedVars, seenVars

\* The inductive invariant holds in every reachable state.
THEOREM Invariance == Spec => []IInv
<1>1. IInv /\ [Next]_vars => IInv'
  BY EditStep, HangupStep, WatchStep, OtherStep DEF Next
<1> QED
  BY InitInvariant, <1>1, PTL DEF Spec

\* Every variable keeps its type.
THEOREM TypeCorrect == Spec => []TypeOK
<1>1. IInv => TypeOK
  BY DEF IInv
<1> QED
  BY <1>1, Invariance, PTL

\* A channel of capacity one loses no request to reload (watchReloads).
THEOREM NoHangupLost == Spec => []LastHangupHonoured
<1>1. IInv => LastHangupHonoured
  BY DEF IInv, TypeOK, Honoured, LastHangupHonoured
<1> QED
  BY <1>1, Invariance, PTL

\* reloadConfig installs nothing that did not load and validate.
THEOREM AlwaysValid == Spec => []ServesValid
<1>1. IInv => ServesValid
  BY DEF IInv
<1> QED
  BY <1>1, Invariance, PTL

\* Reloads run one at a time and read the files at their start, so an installed
\* version is never replaced by an earlier one.
THEOREM Advance == Spec => ReloadsOnlyAdvance
<1>1. IInv /\ [Next]_vars => [instC' >= instC /\ instP' >= instP]_vars
  <2> SUFFICES ASSUME IInv, Next PROVE instC' >= instC /\ instP' >= instP
    OBVIOUS
  <2> USE DEF IInv, TypeOK, instVars
  <2>1. CASE Install
    BY <2>1 DEF Install, Pending
  <2>2. CASE ~Install
    BY <2>2 DEF Next, Watch, EditConfig, EditPolicy, Hangup, HangupKills, Start, Register,
       Take, LoadConfig, LoadPolicy, BuildFails, WatcherReturns, Cancel
  <2> QED
    BY <2>1, <2>2
<1> QED
  BY <1>1, Invariance, PTL DEF Spec, ReloadsOnlyAdvance
=============================================================================
