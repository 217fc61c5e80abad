----------------------------- MODULE MCSettings -----------------------------
(***************************************************************************)
(* Files that differ from a plain one in up to two settings at the start,  *)
(* and in one at a reload, each setting with a value for every case the    *)
(* code tells apart.                                                       *)
(***************************************************************************)
EXTENDS Settings

Plain ==
  [nats |-> [url |-> "nats", creds |-> "", user |-> "", pass |-> "", nkey |-> "",
             cert |-> "", key |-> "", ca |-> ""],
   seed |-> "SA1", xkey |-> "",
   audiences |-> {"nats"}, algs |-> {"RS256"},
   issuers |-> <<[url |-> "aws", require |-> {"account"}]>>,
   http |-> 0, workers |-> 0, verify |-> 0, interval |-> 0, oidcCA |-> "",
   metrics |-> [enabled |-> FALSE, address |-> "", path |-> ""],
   policy |-> "good"]

Aws(require) == [url |-> "aws", require |-> require]

Variants(c) ==
  {[c EXCEPT !.nats.url = v] : v \in {"", "elsewhere"}}
  \cup {[c EXCEPT !.nats[f] = f] : f \in {"creds", "user", "pass"}}
  \cup {[c EXCEPT !.nats.nkey = v] : v \in {"SU1", "SA1", "junk"}}
  \cup {[c EXCEPT !.nats[f] = v] : f \in {"cert", "key", "ca"}, v \in {"pem", "empty"}}
  \cup {[c EXCEPT !.seed = v] : v \in {"", "junk", "SA2"}}
  \cup {[c EXCEPT !.xkey = v] : v \in {"junk", "SX1"}}
  \cup {[c EXCEPT !.audiences = v] : v \in {{}, {"other"}}}
  \cup {[c EXCEPT !.algs = {}]}
  \cup {[c EXCEPT !.issuers = v] :
          v \in {<<>>, <<[url |-> "", require |-> {}]>>, <<Aws({"account"}), Aws({})>>,
                 <<Aws({}), [url |-> "github", require |-> {"owner"}]>>}}
  \cup {[c EXCEPT ![f] = v] : f \in {"http", "workers", "verify", "interval"}, v \in {-1, 3}}
  \cup {[c EXCEPT !.oidcCA = v] : v \in {"pem", "empty"}}
  \cup {[c EXCEPT !.metrics = [enabled |-> e, address |-> "", path |-> p]] :
          e \in BOOLEAN, p \in {"", "/m", "relative", "/x/../readyz", "/%68ealthz"}}
  \cup {[c EXCEPT !.policy = "bad"]}

MCReloadFiles == Variants(Plain)
MCStartFiles == UNION {Variants(c) : c \in Variants(Plain)}
MCDenotes == [p \in {"/metrics", "/m", "/x/../readyz", "/%68ealthz"} |->
                CASE p = "/x/../readyz" -> "/readyz"
                  [] p = "/%68ealthz" -> "/healthz"
                  [] OTHER -> p]
=============================================================================
