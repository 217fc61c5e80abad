------------------------------ MODULE Settings ------------------------------
(***************************************************************************)
(* What a configuration file puts in effect: the defaults and checks of    *)
(* internal/config/config.go, ValidatePath of internal/metrics/server.go,  *)
(* the construction of the verifier and of the NATS connection, and        *)
(* warnUnreloadable of cmd/nats-oidc-callout/main.go.  The process starts  *)
(* with one file and meets others on SIGHUP; some settings follow, the     *)
(* rest wait for a restart.                                                *)
(*                                                                         *)
(* A start and a reload are one step each here: how they interleave with   *)
(* signals, edits and requests is the subject of Service and Reload.  A    *)
(* file is a record with the structure of config.Config after decoding;    *)
(* Unset is the empty string, and durations are in ticks.                  *)
(***************************************************************************)
EXTENDS Integers, Sequences

CONSTANTS
  StartFiles,    \* files the process may start with
  ReloadFiles,   \* files it may find on SIGHUP
  BrokenSeeds,   \* texts nkeys.FromSeed rejects
  UserSeeds,     \* seeds of user nkeys
  PEMFiles,      \* paths of readable PEM files that hold what they should
  BadPolicies,   \* policies that Policy.Validate rejects (module Policy)
  Denotes        \* literal absolute path -> what it is once decoded and cleaned

Unset == ""
DefaultTimeout == 10
DefaultWorkers == 8
DefaultVerifyTimeout == 2
DefaultInterval == 30

\* The settings.  A required claim and its value are one element of require.
NATSConfig == [url : STRING, creds : STRING, user : STRING, pass : STRING, nkey : STRING,
               cert : STRING, key : STRING, ca : STRING]
IssuerConfig == [url : STRING, require : SUBSET STRING]
MetricsConfig == [enabled : BOOLEAN, address : STRING, path : STRING]
Config == [nats : NATSConfig, seed : STRING, xkey : STRING,
           audiences : SUBSET STRING, algs : SUBSET STRING, issuers : Seq(IssuerConfig),
           http : Int, workers : Int, verify : Int, interval : Int, oidcCA : STRING,
           metrics : MetricsConfig, policy : STRING]

ASSUME SettingsAssumption ==
  /\ StartFiles \subseteq Config /\ ReloadFiles \subseteq Config
  /\ Unset \notin BrokenSeeds /\ "/metrics" \in DOMAIN Denotes

VARIABLES
  status,        \* "down", "up", or "refused" after a start that failed
  startup,       \* the config run loaded
  running,       \* what is in effect
  loaded,        \* the config last loaded
  warned,        \* restart-only groups warned about when it was loaded
  outcome,       \* of the last reload
  source         \* history: what the file now in effect says of trust

vars == <<status, startup, running, loaded, warned, outcome, source>>

\* The part of a file that the verifier and the policy are made from.
TrustPart(c) ==
  [issuers |-> c.issuers, audiences |-> c.audiences, algs |-> c.algs, oidcCA |-> c.oidcCA,
   interval |-> c.interval, policy |-> c.policy]

Or(v, unset, default) == IF v = unset THEN default ELSE v

-----------------------------------------------------------------------------
\* config.Load fills in what the file leaves out.
Defaults(c) ==
  [c EXCEPT
     !.http = Or(@, 0, DefaultTimeout),
     !.workers = Or(@, 0, DefaultWorkers),
     !.verify = Or(@, 0, DefaultVerifyTimeout),
     !.interval = Or(@, 0, DefaultInterval),
     !.metrics = IF @.enabled
                 THEN [enabled |-> TRUE, address |-> Or(@.address, Unset, ":9090"),
                       path |-> Or(@.path, Unset, "/metrics")]
                 ELSE @]

\* ValidatePath: a literal absolute path that decodes, that ServeMux takes, and
\* that is none of the health endpoints in disguise.
ValidatePath(p) == p \in DOMAIN Denotes /\ Denotes[p] \notin {"/healthz", "/readyz"}

\* Mutant of NATSValid: a password alone is accepted.
NATSValidPasswordAlone(n) ==
  /\ n.url # Unset
  /\ \A f, g \in {"creds", "user", "nkey"} : n[f] # Unset /\ n[g] # Unset => f = g

\* At most one way to authenticate, and no password without its username.
NATSValid(n) ==
  /\ n.url # Unset
  /\ \A f, g \in {"creds", "user", "nkey"} : n[f] # Unset /\ n[g] # Unset => f = g
  /\ n.pass # Unset => n.user # Unset

Validate(c) ==
  /\ NATSValid(c.nats)
  /\ c.seed # Unset
  /\ c.audiences # {} /\ c.algs # {} /\ c.issuers # <<>>
  /\ \A i \in DOMAIN c.issuers : c.issuers[i].url # Unset
  /\ c.metrics.enabled /\ c.metrics.path # Unset => ValidatePath(c.metrics.path)
  /\ c.workers >= 0 /\ c.verify >= 0 /\ c.interval >= 0
  /\ c.policy \notin BadPolicies

Loads(c) == Validate(Defaults(c))

-----------------------------------------------------------------------------
\* Mutant of Unique: an issuer may be listed twice.
UniqueUnchecked(issuers) == TRUE

\* verifier.New refuses an issuer that is listed twice.
Unique(issuers) ==
  \A i, j \in DOMAIN issuers : issuers[i].url = issuers[j].url => i = j

\* buildVerifier succeeds once discovery does.
Builds(c) ==
  /\ c.oidcCA # Unset => c.oidcCA \in PEMFiles
  /\ c.issuers # <<>> /\ c.audiences # {} /\ c.algs # {}
  /\ Unique(c.issuers)

\* The map New fills in the order of the list, an entry per URL.
Trusted(issuers) ==
  LET last(u) == CHOOSE i \in DOMAIN issuers :
                   /\ issuers[i].url = u
                   /\ \A j \in DOMAIN issuers : issuers[j].url = u => j <= i
  IN  [u \in {issuers[i].url : i \in DOMAIN issuers} |-> issuers[last(u)].require]

\* verifier.New and newKeySet, whose own defaults never apply after Load's.
Verifier(c) ==
  [issuers |-> Trusted(c.issuers), audiences |-> c.audiences, algs |-> c.algs,
   timeout |-> Or(c.http, 0, DefaultTimeout), roots |-> c.oidcCA,
   interval |-> IF c.interval <= 0 THEN DefaultInterval ELSE c.interval]

\* The switch of connectNATS.
Auth(n) ==
  CASE n.creds # Unset -> <<"credentials", n.creds>>
    [] n.creds = Unset /\ n.user # Unset -> <<"user", n.user, n.pass>>
    [] n.creds = Unset /\ n.user = Unset /\ n.nkey # Unset -> <<"nkey", n.nkey>>
    [] OTHER -> <<"anonymous">>

\* nkeyOption and tlsConfig do not fail.
Dials(n) ==
  /\ Auth(n)[1] = "nkey" => n.nkey \in UserSeeds
  /\ (n.cert = Unset) = (n.key = Unset)
  /\ {n.cert, n.key, n.ca} \ {Unset} \subseteq PEMFiles

\* What connectNATS dials with.
Connection(n) ==
  [url |-> n.url, auth |-> Auth(n),
   tls |-> IF n.cert = Unset /\ n.key = Unset /\ n.ca = Unset THEN <<>>
           ELSE <<IF n.cert # Unset /\ n.key # Unset THEN <<n.cert, n.key>> ELSE <<>>, n.ca>>]

\* What run sets up from a config.
Effect(c) ==
  [nats |-> Connection(c.nats), seeds |-> <<c.seed, c.xkey>>,
   metrics |-> IF c.metrics.enabled THEN <<c.metrics.address, c.metrics.path>> ELSE <<>>,
   limits |-> <<c.workers, c.verify>>,
   verifier |-> Verifier(c), policy |-> c.policy]

Starts(c) ==
  /\ Loads(c)
  /\ c.seed \notin BrokenSeeds /\ c.xkey \notin BrokenSeeds
  /\ Builds(c)
  /\ Dials(c.nats)

-----------------------------------------------------------------------------
Init ==
  /\ status = "down"
  /\ startup = <<>> /\ running = <<>> /\ loaded = <<>> /\ source = <<>>
  /\ warned = {} /\ outcome = "none"

Start(c) ==
  /\ status # "up" /\ Starts(c)
  /\ status' = "up"
  /\ startup' = Defaults(c) /\ loaded' = Defaults(c)
  /\ running' = Effect(Defaults(c)) /\ source' = TrustPart(c)
  /\ UNCHANGED <<warned, outcome>>

\* The config is refused, or discovery, the listener or the broker fails.
StartFails ==
  /\ status # "up"
  /\ status' = "refused"
  /\ UNCHANGED <<startup, running, loaded, warned, outcome, source>>

\* warnUnreloadable: the groups whose settings differ.
warnUnreloadable(old, new) ==
  {g \in {"nats", "seeds", "metrics", "limits"} :
     CASE g = "nats" -> old.nats # new.nats
       [] g = "seeds" -> old.seed # new.seed \/ old.xkey # new.xkey
       [] g = "metrics" -> old.metrics # new.metrics
       [] g = "limits" -> old.workers # new.workers \/ old.verify # new.verify}

\* Mutant of Warn: the new config is compared with the one loaded before it.
WarnSinceLast(c) == warned' = warnUnreloadable(loaded, c) /\ loaded' = c

\* reloadConfig warns as soon as the new config has loaded.
Warn(c) == warned' = warnUnreloadable(startup, c) /\ loaded' = c

Reload(c) ==
  /\ status = "up" /\ Loads(c) /\ Builds(Defaults(c))
  /\ Warn(Defaults(c))
  /\ running' = [running EXCEPT !.verifier = Verifier(Defaults(c)), !.policy = c.policy]
  /\ outcome' = "reloaded" /\ source' = TrustPart(c)
  /\ UNCHANGED <<status, startup>>

\* Loading fails; or building the verifier does, after the warnings.
ReloadFails(c) ==
  /\ status = "up"
  /\ IF Loads(c) THEN Warn(Defaults(c)) ELSE UNCHANGED <<warned, loaded>>
  /\ outcome' = "failed"
  /\ UNCHANGED <<status, startup, running, source>>

Next ==
  \/ \E c \in StartFiles : Start(c)
  \/ StartFails
  \/ \E c \in ReloadFiles : Reload(c) \/ ReloadFails(c)

Spec == Init /\ [][Next]_vars

-----------------------------------------------------------------------------
\* "a change to these is ignored until restart, and every reload logs a warning
\* while they differ": after a successful reload the process is what a restart
\* with the file would make it, except for what the reload warned about, however
\* many reloads, failed ones among them, came before.
AppliedOrReported ==
  status = "up" /\ outcome = "reloaded" =>
    \A g \in DOMAIN running : running[g] = Effect(loaded)[g] \/ g \in warned

\* The service never connects with less than the file asks for: it presents
\* every credential given, so that it is anonymous only if none is, and uses TLS
\* with every certificate given.
ConnectsAsConfigured ==
  status = "up" =>
    LET n == startup.nats
        conn == running.nats
        Presented == {conn.auth[i] : i \in 2..Len(conn.auth)}
    IN  /\ {n.creds, n.user, n.pass, n.nkey} \ {Unset} \subseteq Presented
        /\ {n.cert, n.key, n.ca} # {Unset} => conn.tls = <<
             IF n.cert = Unset /\ n.key = Unset THEN <<>> ELSE <<n.cert, n.key>>, n.ca>>

\* Fail closed, at the start, after every reload and after every reload that
\* failed: one file, the last that was put in effect, says which issuers are
\* trusted, these and no others, with which claims, audiences, algorithms, roots
\* and policy; requests have workers and a deadline, refreshes an interval, and
\* the probes their paths.
VerifierAsConfigured ==
  status = "up" =>
    LET v == running.verifier
        list == source.issuers
    IN  /\ list # <<>> /\ DOMAIN v.issuers = {list[i].url : i \in DOMAIN list}
        /\ \A i \in DOMAIN list : v.issuers[list[i].url] = list[i].require
        /\ v.audiences = source.audiences /\ v.audiences # {}
        /\ v.algs = source.algs /\ v.algs # {}
        /\ v.roots = source.oidcCA
        /\ v.interval > 0 /\ (source.interval # 0 => v.interval = source.interval)
        /\ running.policy = source.policy /\ running.policy \notin BadPolicies
        /\ running.limits[1] > 0 /\ running.limits[2] > 0
        /\ running.metrics # <<>> => Denotes[running.metrics[2]] \notin {"/healthz", "/readyz"}

-----------------------------------------------------------------------------
\* What the proofs add to make the three properties above inductive.

\* A config as Load returns it: checked, and with no setting left at zero.
Complete(c) ==
  /\ Validate(c) /\ c.nats \in NATSConfig /\ c.issuers \in Seq(IssuerConfig)
  /\ {c.workers, c.verify, c.interval} \subseteq Nat \ {0}
  /\ c.metrics.enabled => c.metrics.path # Unset

\* Until a restart the first four groups are those of the config of the start.
Fixed == {"nats", "seeds", "metrics", "limits"}

\* The file c in effect passed every check; the config last loaded is another
\* one only after a reload that failed.
InForce(c) ==
  /\ Loads(c) /\ Unique(c.issuers) /\ source = TrustPart(c)
  /\ running.verifier = Verifier(Defaults(c)) /\ running.policy = c.policy
  /\ outcome # "failed" => loaded = Defaults(c)

Up ==
  /\ Complete(startup) /\ Dials(startup.nats) /\ Complete(loaded)
  /\ DOMAIN running = Fixed \cup {"verifier", "policy"}
  /\ \A g \in Fixed : running[g] = Effect(startup)[g]
  /\ warned = warnUnreloadable(startup, loaded)
  /\ \E c \in Config : InForce(c)

IInv == IF status = "up" THEN Up ELSE warned = {} /\ outcome = "none"
=============================================================================
