------------------------------- MODULE Reload -------------------------------
(***************************************************************************)
(* Configuration reload: watchReloads and reloadConfig of                  *)
(* cmd/nats-oidc-callout/main.go with config.Load, which reads the config  *)
(* file and then, separately, the policy file it names.  The operator      *)
(* edits either file and sends SIGHUP at any moment; signals that arrive   *)
(* while one is buffered are dropped by the runtime; discovery takes time  *)
(* and may fail; shutdown cancels the context under a running reload.      *)
(***************************************************************************)
EXTENDS Integers, Sequences

CONSTANTS
  MaxEdits     \* bound: edits of each file in a behaviour

ASSUME ReloadAssumption == MaxEdits \in Nat

\* Content of a file as far as loading it goes: strict decoding and validation
\* succeed, or not.
Content == {"ok", "bad"}

VARIABLES
  cfgs, pols,  \* the contents each file has had, the current one last
  started,     \* started.Load(): the readiness probe may answer 200
  watcher,     \* control of the watchReloads goroutine
  hup,         \* signals in the hup channel, capacity 1
  readC, readP,  \* versions the running reload has read
  instC, instP,  \* versions of the installed config and policy
  cancelled,   \* ctx.Done()
  alive,       \* the process runs (SIGHUP kills it while nothing is notified)
  askedC, askedP, \* history: versions on disk when SIGHUP was last sent
  seenC, seenP    \* history: versions the last reload got to see

fileVars == <<cfgs, pols>>
readVars == <<readC, readP>>
instVars == <<instC, instP>>
askedVars == <<askedC, askedP>>
seenVars == <<seenC, seenP>>
vars == <<fileVars, started, watcher, hup, readVars, instVars, cancelled, alive,
          askedVars, seenVars>>

Watcher == {"unregistered", "select", "load", "policy", "build", "returned"}

\* The process has loaded its startup config and is about to report ready.
Init ==
  /\ cfgs = <<"ok">> /\ pols = <<"ok">>
  /\ started = FALSE
  /\ watcher = "unregistered" /\ hup = 0
  /\ readC = 1 /\ readP = 1
  /\ instC = 1 /\ instP = 1
  /\ cancelled = FALSE /\ alive = TRUE
  /\ askedC = 0 /\ askedP = 0
  /\ seenC = 1 /\ seenP = 1

\* Back to the select of watchReloads.
Idle == watcher' = "select" /\ readC' = 1 /\ readP' = 1

-----------------------------------------------------------------------------
\* The operator.
EditConfig(c) ==
  /\ Len(cfgs) <= MaxEdits
  /\ cfgs' = Append(cfgs, c)
  /\ UNCHANGED <<pols, started, watcher, hup, readVars, instVars, cancelled, alive,
                 askedVars, seenVars>>

EditPolicy(c) ==
  /\ Len(pols) <= MaxEdits
  /\ pols' = Append(pols, c)
  /\ UNCHANGED <<cfgs, started, watcher, hup, readVars, instVars, cancelled, alive,
                 askedVars, seenVars>>

\* Mutant of Hangup: an unbuffered channel takes a signal only in the select.
HangupUnbuffered ==
  /\ alive /\ watcher \notin {"unregistered", "returned"}
  /\ hup' = IF watcher = "select" THEN 1 ELSE hup
  /\ askedC' = Len(cfgs) /\ askedP' = Len(pols)
  /\ UNCHANGED <<fileVars, started, watcher, readVars, instVars, cancelled, alive, seenVars>>

\* SIGHUP once signal.Notify is in place: a full channel drops it.
Hangup ==
  /\ alive /\ watcher \notin {"unregistered", "returned"}
  /\ hup' = 1
  /\ askedC' = Len(cfgs) /\ askedP' = Len(pols)
  /\ UNCHANGED <<fileVars, started, watcher, readVars, instVars, cancelled, alive, seenVars>>

\* SIGHUP before signal.Notify, or after signal.Stop: its default action ends
\* the process.
HangupKills ==
  /\ alive /\ watcher \in {"unregistered", "returned"}
  /\ alive' = FALSE
  /\ UNCHANGED <<fileVars, started, watcher, hup, readVars, instVars, cancelled,
                 askedVars, seenVars>>

-----------------------------------------------------------------------------
\* run stores started, then starts watchReloads as a goroutine.
Start ==
  /\ alive /\ ~started
  /\ started' = TRUE
  /\ UNCHANGED <<fileVars, watcher, hup, readVars, instVars, cancelled, alive,
                 askedVars, seenVars>>

\* The goroutine gets to signal.Notify.
Register ==
  /\ alive /\ started /\ watcher = "unregistered"
  /\ watcher' = "select"
  /\ UNCHANGED <<fileVars, started, hup, readVars, instVars, cancelled, alive,
                 askedVars, seenVars>>

\* The select takes a signal and a reload begins.
Take ==
  /\ alive /\ watcher = "select" /\ hup = 1
  /\ hup' = 0
  /\ watcher' = "load"
  /\ UNCHANGED <<fileVars, started, readVars, instVars, cancelled, alive,
                 askedVars, seenVars>>

\* config.Load reads and decodes the config file; an error ends the reload.
LoadConfig ==
  /\ alive /\ watcher = "load"
  /\ seenC' = Len(cfgs)
  /\ IF cfgs[Len(cfgs)] = "ok"
     THEN watcher' = "policy" /\ readC' = Len(cfgs) /\ UNCHANGED readP
     ELSE Idle
  /\ UNCHANGED <<fileVars, started, hup, instVars, cancelled, alive, askedVars, seenP>>

\* Mutant of LoadPolicy: a policy that fails to load is taken as it is.
LoadPolicyLenient ==
  /\ alive /\ watcher = "policy"
  /\ seenP' = Len(pols)
  /\ watcher' = "build" /\ readP' = Len(pols) /\ UNCHANGED readC
  /\ UNCHANGED <<fileVars, started, hup, instVars, cancelled, alive, askedVars, seenC>>

\* It then reads the policy file, and validates the whole.
LoadPolicy ==
  /\ alive /\ watcher = "policy"
  /\ seenP' = Len(pols)
  /\ IF pols[Len(pols)] = "ok"
     THEN watcher' = "build" /\ readP' = Len(pols) /\ UNCHANGED readC
     ELSE Idle
  /\ UNCHANGED <<fileVars, started, hup, instVars, cancelled, alive, askedVars, seenC>>

\* buildVerifier discovers every issuer and a.Reload swaps the ruleset.  A
\* discovery that already has its answers succeeds even if ctx is cancelled.
Install ==
  /\ alive /\ watcher = "build"
  /\ instC' = readC /\ instP' = readP
  /\ Idle
  /\ UNCHANGED <<fileVars, started, hup, cancelled, alive, askedVars, seenVars>>

\* Mutant of BuildFails: the config of the start of the process comes back.
BuildFallsBack ==
  /\ alive /\ watcher = "build"
  /\ instC' = 1 /\ instP' = 1
  /\ Idle
  /\ UNCHANGED <<fileVars, started, hup, cancelled, alive, askedVars, seenVars>>

\* Discovery fails, or ctx ends it: the previous config keeps serving.
BuildFails ==
  /\ alive /\ watcher = "build"
  /\ Idle
  /\ UNCHANGED <<fileVars, started, hup, instVars, cancelled, alive, askedVars, seenVars>>

\* SIGTERM; the watcher's select notices it, and may take a signal first.
Cancel ==
  /\ alive /\ ~cancelled
  /\ cancelled' = TRUE
  /\ UNCHANGED <<fileVars, started, watcher, hup, readVars, instVars, alive,
                 askedVars, seenVars>>

WatcherReturns ==
  /\ alive /\ watcher = "select" /\ cancelled
  /\ watcher' = "returned"
  /\ UNCHANGED <<fileVars, started, hup, readVars, instVars, cancelled, alive,
                 askedVars, seenVars>>

Watch ==
  \/ Start \/ Register \/ Take \/ LoadConfig \/ LoadPolicy \/ Install \/ BuildFails
  \/ WatcherReturns

Next ==
  \/ \E c \in Content : EditConfig(c) \/ EditPolicy(c)
  \/ Hangup \/ HangupKills
  \/ Watch
  \/ Cancel

Spec == Init /\ [][Next]_vars

\* The watcher goroutine runs; every discovery ends, at the latest with the
\* HTTP client's timeout.
FairSpec == Spec /\ WF_vars(Watch)

-----------------------------------------------------------------------------
TypeOK ==
  /\ cfgs \in Seq(Content) /\ pols \in Seq(Content)
  /\ Len(cfgs) \in 1..(MaxEdits + 1) /\ Len(pols) \in 1..(MaxEdits + 1)
  /\ started \in BOOLEAN /\ cancelled \in BOOLEAN /\ alive \in BOOLEAN
  /\ watcher \in Watcher /\ hup \in {0, 1}
  /\ readC \in 1..Len(cfgs) /\ instC \in 1..Len(cfgs)
  /\ readP \in 1..Len(pols) /\ instP \in 1..Len(pols)
  /\ seenC \in 1..Len(cfgs) /\ seenP \in 1..Len(pols)
  /\ askedC \in 0..Len(cfgs) /\ askedP \in 0..Len(pols)

\* A SIGHUP is never lost, although the channel holds only one and a reload in
\* progress may have read the files already: once the watcher waits again with
\* nothing buffered, its last reload read both files as they were when the last
\* SIGHUP was sent, or later (the policy only if the config loads).
LastHangupHonoured ==
  watcher = "select" /\ hup = 0 =>
    /\ seenC >= askedC
    /\ seenP >= askedP \/ cfgs[seenC] = "bad"

\* "If the new config is invalid ..., the previous config keeps serving": what
\* is installed always loaded, both files of it.
ServesValid == cfgs[instC] = "ok" /\ pols[instP] = "ok"

\* Reloads never bring back an earlier version of either file, however long one
\* takes and whatever fails.
ReloadsOnlyAdvance == [][instC' >= instC /\ instP' >= instP]_vars

\* Every SIGHUP the process handles leads to a reload that reads a config file
\* at least as recent, unless shutdown comes first.
HangupLeadsToReload ==
  \A n \in 1..(MaxEdits + 1) : (alive /\ askedC = n) ~> (seenC >= n \/ cancelled \/ ~alive)

-----------------------------------------------------------------------------
\* What the proofs add to make the properties above inductive: what a reload
\* holds is valid and no older than what is installed, and until the select
\* waits with an empty channel a reload that will see the files is under way.
Pending ==
  /\ watcher \in {"policy", "build"} => cfgs[readC] = "ok" /\ readC >= instC /\ readC = seenC
  /\ watcher = "build" => pols[readP] = "ok" /\ readP >= instP /\ readP = seenP
  /\ instC <= seenC /\ instP <= seenP

Honoured ==
  \/ hup = 1
  \/ watcher = "load"
  \/ watcher = "unregistered" /\ askedC = 0 /\ askedP = 0
  \/ watcher = "policy" /\ seenC >= askedC
  \/ seenC >= askedC /\ (seenP >= askedP \/ cfgs[seenC] = "bad")

IInv == TypeOK /\ Pending /\ Honoured /\ ServesValid

-----------------------------------------------------------------------------
\* README: SIGHUP reloads the config "without dropping the NATS connection or
\* restarting the callout service": a process that reports ready survives it.
ReadySurvivesHangup == started /\ ~cancelled => alive
=============================================================================
