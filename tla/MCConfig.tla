------------------------------ MODULE MCConfig ------------------------------
(***************************************************************************)
(* Instances of Config for TLC.                                            *)
(***************************************************************************)
EXTENDS Config, TLC

CONSTANTS a, b, n1, n2  \* model values

TwoThreads == {a, b}
TwoNames   == {n1, n2}

Cfg(type, options, format, formatOptions, size) ==
    [type |-> type, options |-> options, format |-> format, formatOptions |-> formatOptions,
     maxQueueSize |-> size]

Console == Cfg("console", "missing", "json", "valid", 0)

\* Configurations that are right, leave a target out, fail at one of their
\* entries in each of the ways there are, or panic.
AllConfigs ==
    { (n1 :> Console),
      (n1 :> Console @@ n2 :> Cfg("tcp", "valid", "plain", "missing", 5)),
      (n1 :> Cfg("none", "missing", "plain", "invalid", 0) @@ n2 :> Cfg("custom", "missing", "gelf", "missing", 0)),
      (n1 :> Cfg("file", "invalid", "json", "missing", 0) @@ n2 :> Console),
      (n1 :> Console @@ n2 :> Cfg("syslog", "valid", "gelf", "malformed", 0)),
      (n1 :> Cfg("console", "valid", "custom", "missing", 0) @@ n2 :> Console),
      (n1 :> Console @@ n2 :> Cfg("file", "valid", "plain", "valid", -1)) }

GoodConfigs == { (n1 :> Console) }
HalfConfigs == { (n1 :> Console @@ n2 :> Cfg("file", "missing", "plain", "valid", 0)) }

ThreadSymmetry == Permutations(Threads)
=============================================================================
