--------------------------- MODULE SettingsProofs ---------------------------
(***************************************************************************)
(* For every file the process may start with and every file it may find on *)
(* SIGHUP: what is in effect is what the files ask for, or is warned       *)
(* about, and it never fails open.                                         *)
(***************************************************************************)
EXTENDS Settings, TLAPS

\* What Load leaves alone.
LEMMA DefaultsKeep ==
  ASSUME NEW c \in Config
  PROVE  \A f \in {"nats", "seed", "xkey", "audiences", "algs", "issuers", "oidcCA", "policy"} :
           Defaults(c)[f] = c[f]
BY DEF Defaults, Config

\* What Load returns is complete: the zeros are gone and Validate has seen it.
LEMMA LoadCompletes ==
  ASSUME NEW c \in Config, Loads(c)
  PROVE  Complete(Defaults(c))
<1> DEFINE d == Defaults(c)
<1>1. Validate(d) /\ d.nats \in NATSConfig /\ d.issuers \in Seq(IssuerConfig)
  BY DefaultsKeep DEF Loads, Config
<1>2. /\ d.workers \in Int \ {0} /\ d.verify \in Int \ {0} /\ d.interval \in Int \ {0}
  BY DEF Defaults, Or, Config, DefaultWorkers, DefaultVerifyTimeout, DefaultInterval
<1>3. {d.workers, d.verify, d.interval} \subseteq Nat \ {0}
  BY <1>1, <1>2 DEF Validate
<1>4. d.metrics.enabled => d.metrics.path # Unset
  <2>1. CASE c.metrics.enabled
    BY <2>1 DEF Defaults, Or, Config, Unset
  <2>2. CASE ~c.metrics.enabled
    BY <2>2 DEF Defaults, Config
  <2> QED
    BY <2>1, <2>2
<1> QED
  BY <1>1, <1>3, <1>4 DEF Complete

\* verifier.New: an entry for every issuer of the list and for no other, with
\* the claims listed for it when no issuer is listed twice.
LEMMA TrustedAsListed ==
  ASSUME NEW list \in Seq(IssuerConfig), Unique(list)
  PROVE  /\ DOMAIN Trusted(list) = {list[i].url : i \in DOMAIN list}
         /\ \A i \in DOMAIN list : Trusted(list)[list[i].url] = list[i].require
<1>1. DOMAIN Trusted(list) = {list[i].url : i \in DOMAIN list}
  BY DEF Trusted
<1>2. ASSUME NEW i \in DOMAIN list
      PROVE  Trusted(list)[list[i].url] = list[i].require
  <2> DEFINE u == list[i].url
             P(k) == list[k].url = u /\ \A j \in DOMAIN list : list[j].url = u => j <= k
             l == CHOOSE k \in DOMAIN list : P(k)
  <2>1. P(i)
    BY DEF Unique
  <2>2. l \in DOMAIN list /\ P(l)
    BY <2>1
  <2>3. l = i
    BY <2>2 DEF Unique
  <2>4. u \in {list[k].url : k \in DOMAIN list}
    OBVIOUS
  <2> QED
    BY <2>3, <2>4 DEF Trusted
<1> QED
  BY <1>1, <1>2

\* buildVerifier takes what it is given from the config Load returned, and never
\* makes a verifier that trusts everyone or no one.
LEMMA BuiltAsGiven ==
  ASSUME NEW c \in Config, Loads(c)
  PROVE  LET v == Verifier(Defaults(c))
         IN  /\ v.issuers = Trusted(c.issuers) /\ c.issuers # <<>>
             /\ v.audiences = c.audiences /\ v.audiences # {}
             /\ v.algs = c.algs /\ v.algs # {} /\ v.roots = c.oidcCA
             /\ v.interval > 0 /\ (c.interval # 0 => v.interval = c.interval)
             /\ c.policy \notin BadPolicies
<1> DEFINE d == Defaults(c)
           v == Verifier(d)
<1>1. /\ d.issuers = c.issuers /\ d.audiences = c.audiences /\ d.algs = c.algs
      /\ d.oidcCA = c.oidcCA /\ d.policy = c.policy
  BY DefaultsKeep
<1>2. Complete(d)
  BY LoadCompletes
<1>3. d.interval \in Nat \ {0} /\ Validate(d)
  BY <1>2 DEF Complete
<1>4. c.interval # 0 => d.interval = c.interval
  BY DEF Defaults, Or, Config
<1> HIDE DEF d
<1>5. /\ v.issuers = Trusted(d.issuers) /\ v.audiences = d.audiences /\ v.algs = d.algs
      /\ v.roots = d.oidcCA /\ v.interval = d.interval
  BY <1>3 DEF Verifier
<1>6. d.issuers # <<>> /\ d.audiences # {} /\ d.algs # {} /\ d.policy \notin BadPolicies
  BY <1>3 DEF Validate
<1> HIDE DEF v
<1>7. v.interval > 0
  BY <1>3, <1>5
<1> QED
  BY <1>1, <1>4, <1>5, <1>6, <1>7 DEF v, d

\* warnUnreloadable names a group exactly when its settings differ.
LEMMA WarnedIffDiffers ==
  ASSUME NEW old, NEW new
  PROVE  /\ "nats" \in warnUnreloadable(old, new) <=> old.nats # new.nats
         /\ "seeds" \in warnUnreloadable(old, new) <=> (old.seed # new.seed \/ old.xkey # new.xkey)
         /\ "metrics" \in warnUnreloadable(old, new) <=> old.metrics # new.metrics
         /\ "limits" \in warnUnreloadable(old, new) <=>
              (old.workers # new.workers \/ old.verify # new.verify)
         /\ warnUnreloadable(old, new) \subseteq Fixed
BY DEF warnUnreloadable, Fixed

\* There is nothing to warn about when nothing differs.
LEMMA NothingToWarn == ASSUME NEW c PROVE warnUnreloadable(c, c) = {}
BY WarnedIffDiffers DEF Fixed

-----------------------------------------------------------------------------
\* The process comes up with a config that passed every check of run.
LEMMA StartUp == ASSUME IInv, NEW c \in StartFiles, Start(c) PROVE IInv'
<1> DEFINE d == Defaults(c)
<1>1. c \in Config /\ Loads(c)
  BY SettingsAssumption DEF Start, Starts
<1>2. Complete(d)
  BY <1>1, LoadCompletes
<1>3. d.nats = c.nats /\ d.issuers = c.issuers /\ d.policy = c.policy
  BY <1>1, DefaultsKeep
<1>4. Dials(d.nats) /\ Unique(c.issuers)
  BY <1>3 DEF Start, Starts, Builds
<1>5. status' = "up" /\ startup' = d /\ loaded' = d /\ running' = Effect(d) /\ source' = TrustPart(c)
  BY DEF Start
<1>6. warned' = {} /\ outcome' = "none"
  BY DEF Start, IInv
<1>7. /\ DOMAIN Effect(d) = Fixed \cup {"verifier", "policy"}
      /\ Effect(d).verifier = Verifier(d) /\ Effect(d).policy = c.policy
  BY <1>3 DEF Effect, Fixed
<1>8. warnUnreloadable(d, d) = {}
  BY NothingToWarn
<1>9. \E f \in Config : InForce(f)'
  BY <1>1, <1>4, <1>5, <1>7 DEF InForce
<1> HIDE DEF d
<1>10. Up'
  BY <1>2, <1>4, <1>5, <1>6, <1>7, <1>8, <1>9 DEF Up
<1> QED
  BY <1>5, <1>10 DEF IInv

\* A reload replaces the verifier and the policy, and warns about the rest.
LEMMA ReloadUp == ASSUME IInv, NEW c \in ReloadFiles, Reload(c) PROVE IInv'
<1> DEFINE d == Defaults(c)
<1>1. c \in Config /\ Loads(c)
  BY SettingsAssumption DEF Reload
<1>2. Complete(d) /\ d.issuers = c.issuers
  BY <1>1, LoadCompletes, DefaultsKeep
<1>3. Unique(c.issuers)
  BY <1>2 DEF Reload, Builds
<1>4. Up
  BY DEF Reload, IInv
<1>5. /\ status' = "up" /\ startup' = startup /\ loaded' = d /\ outcome' = "reloaded"
      /\ warned' = warnUnreloadable(startup, d)
      /\ running' = [running EXCEPT !.verifier = Verifier(d), !.policy = c.policy]
      /\ source' = TrustPart(c)
  BY DEF Reload, Warn
<1>6. /\ DOMAIN running' = Fixed \cup {"verifier", "policy"}
      /\ \A g \in Fixed : running'[g] = running[g]
      /\ running'.verifier = Verifier(d) /\ running'.policy = c.policy
  BY <1>4, <1>5 DEF Up, Fixed
<1>7. \E f \in Config : InForce(f)'
  BY <1>1, <1>3, <1>5, <1>6 DEF InForce
<1> HIDE DEF d
<1>8. \A g \in Fixed : running'[g] = Effect(startup')[g]
  BY <1>4, <1>5, <1>6 DEF Up
<1>9. Up'
  BY <1>2, <1>4, <1>5, <1>6, <1>7, <1>8 DEF Up
<1> QED
  BY <1>5, <1>9 DEF IInv

\* A failed reload changes nothing in effect, even when it has warned.
LEMMA ReloadFailsUp == ASSUME IInv, NEW c \in ReloadFiles, ReloadFails(c) PROVE IInv'
<1>1. Up /\ c \in Config
  BY SettingsAssumption DEF ReloadFails, IInv
<1>2. status' = "up" /\ startup' = startup /\ running' = running /\ outcome' = "failed"
      /\ source' = source
  BY DEF ReloadFails
<1>3. Complete(loaded') /\ warned' = warnUnreloadable(startup, loaded')
  BY <1>1, LoadCompletes DEF ReloadFails, Warn, Up
<1>4. \E f \in Config : InForce(f)'
  BY <1>1, <1>2 DEF Up, InForce
<1>5. Up'
  BY <1>1, <1>2, <1>3, <1>4 DEF Up
<1> QED
  BY <1>2, <1>5 DEF IInv

\* The inductive invariant holds in every reachable state.
THEOREM Invariance == Spec => []IInv
<1>1. Init => IInv
  BY DEF Init, IInv
<1>2. IInv /\ StartFails => IInv'
  BY DEF IInv, StartFails
<1>3. IInv /\ UNCHANGED vars => IInv'
  BY DEF IInv, Up, InForce, vars
<1>4. IInv /\ [Next]_vars => IInv'
  BY <1>2, <1>3, StartUp, ReloadUp, ReloadFailsUp DEF Next
<1> QED
  BY <1>1, <1>4, PTL DEF Spec

-----------------------------------------------------------------------------
\* Two configs that do not differ in a group have the same effect in it.
LEMMA SameEffect ==
  ASSUME NEW a, NEW b, NEW g \in Fixed, g \notin warnUnreloadable(a, b)
  PROVE  Effect(a)[g] = Effect(b)[g]
<1>1. CASE g = "nats"
  BY <1>1, WarnedIffDiffers DEF Effect
<1>2. CASE g = "seeds"
  BY <1>2, WarnedIffDiffers DEF Effect
<1>3. CASE g = "metrics"
  BY <1>3, WarnedIffDiffers DEF Effect
<1>4. CASE g = "limits"
  BY <1>4, WarnedIffDiffers DEF Effect
<1> QED
  BY <1>1, <1>2, <1>3, <1>4 DEF Fixed

\* After any number of reloads, what is in effect is what a restart with the
\* file would bring, or was warned about by the last of them (warnUnreloadable
\* compares with the config of the start, not with the one before).
THEOREM ReloadsAppliedOrReported == Spec => []AppliedOrReported
<1>1. IInv => AppliedOrReported
  <2> SUFFICES ASSUME IInv, status = "up", outcome = "reloaded", NEW g \in DOMAIN running,
                      g \notin warned
               PROVE  running[g] = Effect(loaded)[g]
    BY DEF AppliedOrReported
  <2>1. Up
    BY DEF IInv
  <2>2. CASE g \in Fixed
    <3>1. g \notin warnUnreloadable(startup, loaded)
      BY <2>1 DEF Up
    <3>2. running[g] = Effect(startup)[g]
      BY <2>1, <2>2 DEF Up
    <3> QED
      BY <2>2, <3>1, <3>2, SameEffect
  <2>3. CASE g \in {"verifier", "policy"}
    <3>1. PICK c \in Config : InForce(c)
      BY <2>1 DEF Up
    <3>2. loaded = Defaults(c) /\ loaded.policy = c.policy
      BY <3>1, DefaultsKeep DEF InForce
    <3> QED
      BY <2>3, <3>1, <3>2 DEF InForce, Effect
  <2> QED
    BY <2>1, <2>2, <2>3 DEF Up
<1> QED
  BY <1>1, Invariance, PTL

\* connectNATS presents every credential of a config that Validate accepts.
LEMMA CredentialsPresented ==
  ASSUME NEW n \in NATSConfig, NATSValid(n)
  PROVE  {n.creds, n.user, n.pass, n.nkey} \ {Unset}
           \subseteq {Auth(n)[i] : i \in 2..Len(Auth(n))}
<1>1. /\ n.creds = Unset \/ n.user = Unset
      /\ n.creds = Unset \/ n.nkey = Unset
      /\ n.user = Unset \/ n.nkey = Unset
      /\ n.pass # Unset => n.user # Unset
  BY DEF NATSValid
<1>2. CASE n.creds # Unset
  <2>1. Auth(n) = <<"credentials", n.creds>>
    BY <1>2 DEF Auth
  <2>2. 2 \in 2..Len(Auth(n)) /\ Auth(n)[2] = n.creds
    BY <2>1
  <2> QED
    BY <1>1, <1>2, <2>2
<1>3. CASE n.creds = Unset /\ n.user # Unset
  <2>1. Auth(n) = <<"user", n.user, n.pass>>
    BY <1>3 DEF Auth
  <2>2. 2 \in 2..Len(Auth(n)) /\ Auth(n)[2] = n.user /\ 3 \in 2..Len(Auth(n)) /\ Auth(n)[3] = n.pass
    BY <2>1
  <2> QED
    BY <1>1, <1>3, <2>2
<1>4. CASE n.creds = Unset /\ n.user = Unset /\ n.nkey # Unset
  <2>1. Auth(n) = <<"nkey", n.nkey>>
    BY <1>4 DEF Auth
  <2>2. 2 \in 2..Len(Auth(n)) /\ Auth(n)[2] = n.nkey
    BY <2>1
  <2> QED
    BY <1>1, <1>4, <2>2
<1>5. CASE n.creds = Unset /\ n.user = Unset /\ n.nkey = Unset
  BY <1>1, <1>5
<1> QED
  BY <1>2, <1>3, <1>4, <1>5

\* The broker is never dialled with less than the file asks for: no credential
\* is dropped and no certificate (Validate, tlsConfig and connectNATS together).
THEOREM NeverConnectsWithLess == Spec => []ConnectsAsConfigured
<1>1. IInv => ConnectsAsConfigured
  <2> SUFFICES ASSUME IInv, status = "up" PROVE ConnectsAsConfigured
    BY DEF ConnectsAsConfigured
  <2> DEFINE n == startup.nats
  <2>1. Up
    BY DEF IInv
  <2>2. n \in NATSConfig /\ NATSValid(n) /\ Dials(n)
    BY <2>1 DEF Up, Complete, Validate, Config
  <2>3. running.nats = Connection(n)
    BY <2>1 DEF Up, Fixed, Effect
  <2>4. running.nats.auth = Auth(n)
    BY <2>3 DEF Connection
  <2>5. (n.cert = Unset) <=> (n.key = Unset)
    BY <2>2 DEF Dials
  <2>6. {n.cert, n.key, n.ca} # {Unset} => running.nats.tls = <<
          IF n.cert = Unset /\ n.key = Unset THEN <<>> ELSE <<n.cert, n.key>>, n.ca>>
    BY <2>3, <2>5 DEF Connection
  <2>7. {n.creds, n.user, n.pass, n.nkey} \ {Unset}
          \subseteq {running.nats.auth[i] : i \in 2..Len(running.nats.auth)}
    BY <2>2, <2>4, CredentialsPresented
  <2> QED
    BY <2>6, <2>7 DEF ConnectsAsConfigured
<1> QED
  BY <1>1, Invariance, PTL

\* What is in effect is what one file asks for, the last that was put in effect:
\* its issuers and no others are trusted, under its restrictions, and nothing is
\* unlimited, empty or in the way of a probe.
THEOREM NeverFailsOpen == Spec => []VerifierAsConfigured
<1>1. IInv => VerifierAsConfigured
  <2> SUFFICES ASSUME IInv, status = "up" PROVE VerifierAsConfigured
    BY DEF VerifierAsConfigured
  <2> DEFINE v == running.verifier
             list == source.issuers
  <2>1. Up
    BY DEF IInv
  <2> PICK c \in Config : InForce(c)
    BY <2>1 DEF Up
  <2>2. /\ Loads(c) /\ source = TrustPart(c) /\ v = Verifier(Defaults(c))
        /\ running.policy = c.policy
        /\ list = c.issuers /\ Unique(list) /\ list \in Seq(IssuerConfig)
    BY DEF InForce, TrustPart, Config
  <2>3. /\ v.issuers = Trusted(list) /\ list # <<>>
        /\ v.audiences = source.audiences /\ v.audiences # {}
        /\ v.algs = source.algs /\ v.algs # {} /\ v.roots = source.oidcCA
        /\ v.interval > 0 /\ (source.interval # 0 => v.interval = source.interval)
        /\ running.policy = source.policy /\ source.policy \notin BadPolicies
    BY <2>2, BuiltAsGiven DEF TrustPart
  <2>4. /\ DOMAIN v.issuers = {list[i].url : i \in DOMAIN list}
        /\ \A i \in DOMAIN list : v.issuers[list[i].url] = list[i].require
    <3> HIDE DEF list
    <3> QED
      BY <2>2, <2>3, TrustedAsListed
  <2>5. running.limits[1] > 0 /\ running.limits[2] > 0
    <3>1. running.limits = <<startup.workers, startup.verify>>
      BY <2>1 DEF Up, Fixed, Effect
    <3> QED
      BY <2>1, <3>1 DEF Up, Complete
  <2>6. running.metrics # <<>> => Denotes[running.metrics[2]] \notin {"/healthz", "/readyz"}
    <3>1. running.metrics = IF startup.metrics.enabled
                            THEN <<startup.metrics.address, startup.metrics.path>> ELSE <<>>
      BY <2>1 DEF Up, Fixed, Effect
    <3>2. startup.metrics.enabled => ValidatePath(startup.metrics.path)
      BY <2>1 DEF Up, Complete, Validate
    <3> QED
      BY <3>1, <3>2 DEF ValidatePath
  <2> QED
    BY <2>3, <2>4, <2>5, <2>6 DEF VerifierAsConfigured
<1> QED
  BY <1>1, Invariance, PTL
=============================================================================
