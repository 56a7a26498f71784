------------------------------- MODULE Config -------------------------------
(***************************************************************************)
(* config.ConfigureTargets (config/config.go), which removes all targets   *)
(* of a Logr and adds those of a configuration one by one, against other   *)
(* calls of itself and against Logr.Shutdown.                              *)
(*                                                                         *)
(* AddTarget and RemoveTargets are cut where they take tmux, create, list  *)
(* or close a host.  What happens inside a host, and the flush that begins *)
(* Shutdown, do not touch the list and are in the modules TargetHost and   *)
(* Logr.                                                                   *)
(***************************************************************************)
EXTENDS Integers

CONSTANTS
    Threads,
    Names,          \* the keys of configurations
    Configs,        \* the configurations: functions from sets of names to TargetCfgs
    TargetFactory, FormatterFactory,    \* "nil", or what the factory returns: "ok", "error"
    DefaultMaxQueueSize,
    MaxCalls,       \* bounds the calls of ConfigureTargets
    ConfigFaults,   \* "initError": Target.Init or the metrics collector fails;
                    \* "closeError": Target.Shutdown fails
    nil

\* Raw JSON, by what becomes of it: absent, not decoded, decoded and refused by
\* CheckValid, accepted.
Options == {"missing", "malformed", "invalid", "valid"}

TargetCfg == [type : {"console", "file", "tcp", "syslog", "none", "custom"}, options : Options,
              format : {"json", "plain", "gelf", "custom"}, formatOptions : Options,
              maxQueueSize : Int]

ASSUME ConfigAssumption ==
    /\ \A c \in Configs : DOMAIN c \subseteq Names /\ \A n \in DOMAIN c : c[n] \in TargetCfg
    /\ {TargetFactory, FormatterFactory} \subseteq {"nil", "ok", "error"}
    /\ DefaultMaxQueueSize \in Nat \ {0}
    /\ MaxCalls \in Nat
    /\ ConfigFaults \subseteq {"initError", "closeError"}
    /\ nil \notin Threads \cup Names

\* newTarget: a target, none at all, or an error.
NewTarget(tcfg) ==
    CASE tcfg.type = "console" -> IF tcfg.options \in {"missing", "valid"} THEN "ok" ELSE "error"
      [] tcfg.type \in {"file", "tcp", "syslog"} -> IF tcfg.options = "valid" THEN "ok" ELSE "error"
      [] tcfg.type = "none" -> "none"
      [] tcfg.type = "custom" -> IF TargetFactory = "ok" THEN "ok" ELSE "error"

\* newFormatter: a formatter or an error.  Of the CheckValid methods only that
\* of Plain ever refuses its options.
NewFormatter(tcfg) ==
    IF tcfg.format = "custom" THEN IF FormatterFactory = "ok" THEN "ok" ELSE "error"
    ELSE IF tcfg.formatOptions \in {"missing", "valid"} THEN "ok" ELSE "error"

\* Mutant: a queue size of 0 is passed on.
Mut_QueueSize(tcfg) == tcfg.maxQueueSize

QueueSize(tcfg) == IF tcfg.maxQueueSize = 0 THEN DefaultMaxQueueSize ELSE tcfg.maxQueueSize

VARIABLES
    targetHosts,    \* lgr.targetHosts; their order plays no part here
    tmux,           \* the goroutine that holds lgr.tmux, for writing or in Shutdown
    shutdown,       \* lgr.shutdown
    opened, closed, \* hosts whose target was initialized, shut down
    calls,          \* calls of ConfigureTargets so far
    pc,             \* per thread: its place
    call, config,   \* per thread: the number and the argument of its call
    todo, name,     \* per thread: the entries left and the one in hand
    failed,         \* per thread: a host reported an error when it was closed
    before,         \* history, per thread: the hosts listed when it was called
    late            \* history: the hosts that were on their way into the list when
                    \* Shutdown set the flag, and whether Shutdown has returned

lgrVars    == <<targetHosts, tmux, shutdown, opened, closed>>
argVars    == <<calls, call, config, before>>
configVars == <<lgrVars, argVars, pc, todo, name, failed, late>>

\* A host is known by the call that made it, its name and the size of its queue.
Host == [call : 1 .. MaxCalls, name : Names, size : Nat \ {0}]

Pcs == {"idle", "lock", "close", "next", "add", "init", "append", "ok", "error", "panic",
        "rlock", "closeAll"}

\* Every variable keeps its type; in particular a host that was created has a
\* queue with room for at least one record.
ConfigTypeOK ==
    /\ \A h \in targetHosts \cup opened \cup closed : h \in Host
    /\ tmux \in Threads \cup {nil}
    /\ shutdown \in BOOLEAN
    /\ calls \in 0 .. MaxCalls
    /\ \A t \in Threads :
        /\ pc[t] \in Pcs
        /\ call[t] \in 0 .. MaxCalls
        /\ todo[t] \subseteq Names
        /\ name[t] \in Names \cup {nil}
        /\ failed[t] \in BOOLEAN
    /\ late.returned \in BOOLEAN /\ \A h \in late.hosts : h \in Host

NoTargets == [n \in {} |-> nil]

ConfigInit ==
    /\ targetHosts = {} /\ tmux = nil /\ shutdown = FALSE /\ opened = {} /\ closed = {}
    /\ calls = 0
    /\ pc = [t \in Threads |-> "idle"]
    /\ call = [t \in Threads |-> 0]
    /\ config = [t \in Threads |-> NoTargets]
    /\ todo = [t \in Threads |-> {}]
    /\ name = [t \in Threads |-> nil]
    /\ failed = [t \in Threads |-> FALSE]
    /\ before = [t \in Threads |-> {}]
    /\ late = [hosts |-> {}, returned |-> FALSE]

Goto(t, p) == pc' = [pc EXCEPT ![t] = p]

-----------------------------------------------------------------------------
(***************************************************************************)
(* RemoveTargets with removeAll and a context that never ends.             *)
(***************************************************************************)

ConfigureTargets(t, c) ==
    /\ pc[t] = "idle"
    /\ calls < MaxCalls
    /\ calls' = calls + 1
    /\ call' = [call EXCEPT ![t] = calls']
    /\ config' = [config EXCEPT ![t] = c]
    /\ before' = [before EXCEPT ![t] = targetHosts]
    /\ todo' = [todo EXCEPT ![t] = DOMAIN c]
    /\ failed' = [failed EXCEPT ![t] = FALSE]
    /\ Goto(t, "lock")
    /\ UNCHANGED <<lgrVars, name, late>>

\* The loop gets the lock.  host.Shutdown answers with an error for every listed
\* host that was shut down before, by Logr.Shutdown; as nobody else can close a
\* host while tmux is held, that these errors will be among the collected ones
\* is known here.
RemoveLock(t) ==
    /\ pc[t] = "lock"
    /\ tmux = nil
    /\ tmux' = t
    /\ failed' = [failed EXCEPT ![t] = targetHosts \cap closed # {}]
    /\ Goto(t, "close")
    /\ UNCHANGED <<targetHosts, shutdown, opened, closed, argVars, todo, name, late>>

\* host.Shutdown for one after another of the other hosts; errors are collected.
RemoveClose(t) ==
    /\ pc[t] = "close"
    /\ \E h \in targetHosts \ closed : closed' = closed \cup {h}
    /\ failed' \in {failed} \cup {[failed EXCEPT ![t] = TRUE] : f \in ConfigFaults \cap {"closeError"}}
    /\ UNCHANGED <<targetHosts, tmux, shutdown, opened, argVars, pc, todo, name, late>>

\* Mutant: the loop runs over the list as it was when RemoveTargets was called.
Mut_RemoveReturn(t) ==
    /\ pc[t] = "close"
    /\ targetHosts \cap before[t] \subseteq closed
    /\ targetHosts' = {}
    /\ tmux' = nil
    /\ Goto(t, IF failed[t] THEN "error" ELSE "next")
    /\ UNCHANGED <<shutdown, opened, closed, argVars, todo, name, failed, late>>

\* Mutant: the first error ends the loop.
Mut_RemoveReturnEarly(t) ==
    /\ pc[t] = "close"
    /\ failed[t] \/ targetHosts \subseteq closed
    /\ targetHosts' = {}
    /\ tmux' = nil
    /\ Goto(t, IF failed[t] THEN "error" ELSE "next")
    /\ UNCHANGED <<shutdown, opened, closed, argVars, todo, name, failed, late>>

\* Mutant: the list is not assigned when a host reported an error, but it is
\* closed.
Mut_RemoveReturnKeeps(t) ==
    /\ pc[t] = "close"
    /\ targetHosts \subseteq closed
    /\ targetHosts' = IF failed[t] THEN targetHosts ELSE {}
    /\ tmux' = nil
    /\ Goto(t, IF failed[t] THEN "error" ELSE "next")
    /\ UNCHANGED <<shutdown, opened, closed, argVars, todo, name, failed, late>>

\* The list is empty now.  Any error, that of a host shut down before included,
\* ends ConfigureTargets, and the list stays empty.
RemoveReturn(t) ==
    /\ pc[t] = "close"
    /\ targetHosts \subseteq closed
    /\ targetHosts' = {}
    /\ tmux' = nil
    /\ Goto(t, IF failed[t] THEN "error" ELSE "next")
    /\ UNCHANGED <<shutdown, opened, closed, argVars, todo, name, failed, late>>

-----------------------------------------------------------------------------
(***************************************************************************)
(* The loop over the map, in any order, and AddTarget.                     *)
(***************************************************************************)

\* Mutant: an entry without a target ends the loop.
Mut_NextEntry(t) ==
    /\ pc[t] = "next"
    /\ \E n \in todo[t] :
        LET tcfg == config[t][n] IN
        /\ todo' = [todo EXCEPT ![t] = IF NewTarget(tcfg) = "none" THEN {} ELSE @ \ {n}]
        /\ name' = [name EXCEPT ![t] = n]
        /\ Goto(t, CASE NewTarget(tcfg) = "error" -> "error"
                     [] NewTarget(tcfg) = "none" -> "next"
                     [] OTHER -> IF NewFormatter(tcfg) = "error" THEN "error" ELSE "add")
    /\ UNCHANGED <<lgrVars, argVars, failed, late>>

\* The next entry: any error ends the call, an entry without a target is
\* skipped.
NextEntry(t) ==
    /\ pc[t] = "next"
    /\ \E n \in todo[t] :
        LET tcfg == config[t][n] IN
        /\ todo' = [todo EXCEPT ![t] = @ \ {n}]
        /\ name' = [name EXCEPT ![t] = n]
        /\ Goto(t, CASE NewTarget(tcfg) = "error" -> "error"
                     [] NewTarget(tcfg) = "none" -> "next"
                     [] OTHER -> IF NewFormatter(tcfg) = "error" THEN "error" ELSE "add")
    /\ UNCHANGED <<lgrVars, argVars, failed, late>>

NoEntryLeft(t) ==
    /\ pc[t] = "next"
    /\ todo[t] = {}
    /\ Goto(t, "ok")
    /\ UNCHANGED <<lgrVars, argVars, todo, name, failed, late>>

\* Mutant: the test of the flag is left out.
Mut_AddTarget(t) ==
    /\ pc[t] = "add"
    /\ Goto(t, IF QueueSize(config[t][name[t]]) < 0 THEN "panic" ELSE "init")
    /\ UNCHANGED <<lgrVars, argVars, todo, name, failed, late>>

\* AddTarget tests the flag; make(chan) panics when the size is negative, before
\* any lock is taken.
AddTarget(t) ==
    /\ pc[t] = "add"
    /\ Goto(t, IF shutdown THEN "error"
               ELSE IF QueueSize(config[t][name[t]]) < 0 THEN "panic" ELSE "init")
    /\ UNCHANGED <<lgrVars, argVars, todo, name, failed, late>>

NewHost(t) == [call |-> call[t], name |-> name[t], size |-> QueueSize(config[t][name[t]])]

\* newTargetHost: the collector or Target.Init may fail.
TargetInit(t) ==
    /\ pc[t] = "init"
    /\ \/ /\ opened' = opened \cup {NewHost(t)}
          /\ Goto(t, "append")
       \/ /\ "initError" \in ConfigFaults
          /\ Goto(t, "error")
          /\ UNCHANGED opened
    /\ UNCHANGED <<targetHosts, tmux, shutdown, closed, argVars, todo, name, failed, late>>

AddTargetAppend(t) ==
    /\ pc[t] = "append"
    /\ tmux = nil
    /\ targetHosts' = targetHosts \cup {NewHost(t)}
    /\ Goto(t, "next")
    /\ UNCHANGED <<tmux, shutdown, opened, closed, argVars, todo, name, failed, late>>

\* ConfigureTargets returns to its caller.
Return(t) ==
    /\ pc[t] \in {"ok", "error"}
    /\ Goto(t, "idle")
    /\ call' = [call EXCEPT ![t] = 0]
    /\ config' = [config EXCEPT ![t] = NoTargets]
    /\ before' = [before EXCEPT ![t] = {}]
    /\ todo' = [todo EXCEPT ![t] = {}]
    /\ name' = [name EXCEPT ![t] = nil]
    /\ failed' = [failed EXCEPT ![t] = FALSE]
    /\ UNCHANGED <<lgrVars, calls, late>>

-----------------------------------------------------------------------------
(***************************************************************************)
(* Logr.Shutdown: the flag, then every listed host, with tmux held.        *)
(***************************************************************************)

Shutdown(t) ==
    /\ pc[t] = "idle"
    /\ ~shutdown
    /\ shutdown' = TRUE
    /\ late' = [late EXCEPT !.hosts = {NewHost(u) : u \in {u \in Threads : pc[u] \in {"init", "append"}}}]
    /\ Goto(t, "rlock")
    /\ UNCHANGED <<targetHosts, tmux, opened, closed, argVars, todo, name, failed>>

ShutdownRLock(t) ==
    /\ pc[t] = "rlock"
    /\ tmux = nil
    /\ tmux' = t
    /\ Goto(t, "closeAll")
    /\ UNCHANGED <<targetHosts, shutdown, opened, closed, argVars, todo, name, failed, late>>

ShutdownClose(t) ==
    /\ pc[t] = "closeAll"
    /\ \/ \E h \in targetHosts \ closed :
            closed' = closed \cup {h} /\ UNCHANGED <<tmux, pc, late>>
       \/ /\ targetHosts \subseteq closed
          /\ tmux' = nil
          /\ Goto(t, "idle")
          /\ late' = [late EXCEPT !.returned = TRUE]
          /\ UNCHANGED closed
    /\ UNCHANGED <<targetHosts, shutdown, opened, argVars, todo, name, failed>>

-----------------------------------------------------------------------------

ConfigStep(t) ==
    \/ RemoveLock(t) \/ RemoveClose(t) \/ RemoveReturn(t)
    \/ NextEntry(t) \/ NoEntryLeft(t) \/ AddTarget(t) \/ TargetInit(t) \/ AddTargetAppend(t)
    \/ Return(t) \/ ShutdownRLock(t) \/ ShutdownClose(t)

ConfigNext ==
    \E t \in Threads : ConfigStep(t) \/ Shutdown(t) \/ \E c \in Configs : ConfigureTargets(t, c)

ConfigSpec == ConfigInit /\ [][ConfigNext]_configVars

-----------------------------------------------------------------------------
(***************************************************************************)
(* Properties.                                                             *)
(***************************************************************************)

\* A target that was initialized is shut down, or it can still be reached: it
\* is in the list, or in the hands of the call of AddTarget that will list it.
\* However calls overlap and fail, no goroutine and no connection is left that
\* nobody can close (logr.go:104-116, 208-226, config.go:50-80).
NoOrphan ==
    \A h \in opened \ closed :
        h \in targetHosts \/ \E t \in Threads : pc[t] = "append" /\ h = NewHost(t)

\* The places of a call of ConfigureTargets after its removal of targets.
Removed == {"next", "add", "init", "append", "ok", "error", "panic"}

\* Once ConfigureTargets has passed its removal, and however it ends, every
\* target that was listed when it was called is shut down, although one of them
\* may fail to and other calls add and remove targets meanwhile
\* (config.go:50-52, logr.go:211-229).
OldTargetsClosed == \A t \in Threads : pc[t] \in Removed => before[t] \subseteq closed

\* Whoever can take tmux finds no target in the list that was shut down, until
\* Logr.Shutdown: fanout and flush never run into one (logr.go:208-226).
ListedAreOpen == tmux = nil /\ ~shutdown => targetHosts \cap closed = {}

\* A call that returns nil has created a host for every entry that asks for a
\* target, and such a host is in the list unless another call has removed it
\* (config.go:58-82).
SuccessIsComplete ==
    \A t \in Threads : pc[t] = "ok" =>
        \A n \in DOMAIN config[t] : NewTarget(config[t][n]) # "none" =>
            \E h \in targetHosts \cup closed : h.call = call[t] /\ h.name = n

\* Shutdown closes every target of the list.  The test of the flag in AddTarget
\* is stale when the host is appended (logr.go:89-113), but the targets that are
\* open when Shutdown has returned are only those that had passed the test
\* when the flag was set: the race leaves at most one per goroutine.
OnlyLateTargetsLeft ==
    late.returned => \A h \in opened \ closed : h \in late.hosts

-----------------------------------------------------------------------------
(***************************************************************************)
(* What a comment of the code says and the code does not do.               *)
(***************************************************************************)

\* ConfigureTargets "replaces the current list of log targets with a new one"
\* (config.go:40): the new list holds nothing else.
Replaces ==
    \A t \in Threads : pc[t] = "ok" => \A h \in targetHosts : h.call = call[t]

\* The same for a call that fails: the list is the old one, or it is empty.
AllOrNothing ==
    \A t \in Threads : pc[t] = "error" => \A h \in targetHosts : h.call # call[t]

=============================================================================
