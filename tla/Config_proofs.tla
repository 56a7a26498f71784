--------------------------- MODULE Config_proofs ----------------------------
(***************************************************************************)
(* Proofs of the safety properties of Config, for any number of goroutines *)
(* and calls, any configurations and any faults.                           *)
(***************************************************************************)
EXTENDS Config, TLAPS

\* The types of the variables as functions; only hosts that were opened are ever
\* listed or closed.
ConfigTypes ==
    /\ opened \in SUBSET Host /\ targetHosts \in SUBSET opened /\ closed \in SUBSET opened
    /\ tmux \in Threads \cup {nil} /\ shutdown \in BOOLEAN
    /\ calls \in 0 .. MaxCalls
    /\ pc \in [Threads -> Pcs]
    /\ call \in [Threads -> 0 .. MaxCalls]
    /\ config \in [Threads -> Configs \cup {NoTargets}]
    /\ todo \in [Threads -> SUBSET Names]
    /\ name \in [Threads -> Names \cup {nil}]
    /\ failed \in [Threads -> BOOLEAN]
    /\ before \in [Threads -> SUBSET Host]
    /\ late \in [hosts : SUBSET Host, returned : BOOLEAN]

\* The places inside a call of ConfigureTargets, and inside its AddTarget.
Working == {"lock", "close"} \cup Removed
Adding == {"add", "init", "append"}

\* A call under way has a number and a configuration, and the entry in hand is
\* one of it that is no longer to be done.
Active ==
    \A t \in Threads : pc[t] \in Working =>
        /\ call[t] # 0
        /\ config[t] \in Configs
        /\ todo[t] \subseteq DOMAIN config[t]
        /\ pc[t] \in {"lock", "close"} => todo[t] = DOMAIN config[t]
        /\ pc[t] \in Adding => name[t] \in DOMAIN config[t] \ todo[t]
        /\ pc[t] \in {"init", "append"} => QueueSize(config[t][name[t]]) > 0
        /\ pc[t] = "append" => NewHost(t) \in opened

\* The numbers of calls, and of the hosts they made, are not used twice.
Numbered ==
    /\ \A t \in Threads : call[t] <= calls
    /\ \A t, u \in Threads : t # u /\ call[t] = call[u] => call[t] = 0
    /\ \A h \in opened : h.call <= calls

\* A call makes one host for an entry: none for what is to be done, and the one
\* it is about to append is neither listed nor closed.
Fresh ==
    \A t \in Threads : \A h \in opened : h.call = call[t] =>
        /\ h.name \notin todo[t]
        /\ pc[t] \in {"add", "init"} => h.name # name[t]
        /\ pc[t] = "append" /\ h.name = name[t] => h \notin targetHosts \cup closed

\* Who closes hosts holds tmux; the flag is set before Shutdown gets there.
Holder ==
    /\ \A t \in Threads : /\ pc[t] \in {"close", "closeAll"} => tmux = t
                          /\ pc[t] \in {"rlock", "closeAll"} => shutdown
    /\ late.returned => shutdown

\* Until the removal, the targets a call found are listed or closed.
OldKnown ==
    \A t \in Threads : pc[t] \in {"lock", "close"} => before[t] \subseteq targetHosts \cup closed

\* The entries that are done have a host, which is listed or closed.
Done(t, n) == \E h \in targetHosts \cup closed : h.call = call[t] /\ h.name = n
Progress ==
    \A t \in Threads : pc[t] \in {"next", "ok"} \cup Adding =>
        /\ pc[t] = "ok" => todo[t] = {}
        /\ \A n \in DOMAIN config[t] \ todo[t] :
             NewTarget(config[t][n]) # "none" /\ (pc[t] \in Adding => n # name[t]) => Done(t, n)

\* A host that is made after the flag was set was on its way before.
LateKnown ==
    shutdown => \A t \in Threads : pc[t] \in {"init", "append"} => NewHost(t) \in late.hosts

ConfigInv ==
    /\ ConfigTypes /\ Active /\ Numbered /\ Fresh /\ Holder
    /\ NoOrphan /\ OldKnown /\ OldTargetsClosed /\ ListedAreOpen /\ Progress
    /\ LateKnown /\ OnlyLateTargetsLeft

-----------------------------------------------------------------------------

\* What a call is about to make is a host: its queue has room.
LEMMA QueueSizeInt ==
    ASSUME NEW c \in Configs, NEW n \in DOMAIN c
    PROVE  QueueSize(c[n]) \in Int /\ QueueSize(c[n]) # 0 /\ n \in Names
BY ConfigAssumption DEF QueueSize, TargetCfg

LEMMA NewHostType ==
    ASSUME ConfigTypes, Active, NEW t \in Threads, pc[t] \in {"init", "append"}
    PROVE  NewHost(t) \in Host
<1>1. /\ call[t] \in 1 .. MaxCalls /\ config[t] \in Configs /\ name[t] \in DOMAIN config[t]
      /\ QueueSize(config[t][name[t]]) > 0
    BY DEF ConfigTypes, Active, Working, Removed, Adding
<1>2. QueueSize(config[t][name[t]]) \in Nat \ {0} /\ name[t] \in Names
    BY <1>1, QueueSizeInt
<1> QED BY <1>1, <1>2 DEF NewHost, Host

LEMMA ConfigInvInit == ConfigInit => ConfigInv
<1> SUFFICES ASSUME ConfigInit PROVE ConfigInv
    OBVIOUS
<1> USE ConfigAssumption DEF ConfigInit
<1>1. ConfigTypes
    <2>1. late \in [hosts : SUBSET Host, returned : BOOLEAN]
        OBVIOUS
    <2>2. calls \in 0 .. MaxCalls /\ call \in [Threads -> 0 .. MaxCalls]
        OBVIOUS
    <2>3. pc \in [Threads -> Pcs] /\ config \in [Threads -> Configs \cup {NoTargets}]
        BY DEF Pcs
    <2>4. todo \in [Threads -> SUBSET Names] /\ before \in [Threads -> SUBSET Host]
        OBVIOUS
    <2>5. name \in [Threads -> Names \cup {nil}] /\ failed \in [Threads -> BOOLEAN]
        OBVIOUS
    <2> QED BY <2>1, <2>2, <2>3, <2>4, <2>5 DEF ConfigTypes
<1>2. Active /\ Numbered /\ Fresh /\ Holder /\ OldKnown /\ Progress /\ LateKnown
    BY DEF Active, Numbered, Fresh, Holder, OldKnown, Progress, LateKnown, Working, Removed, Adding
<1>3. NoOrphan /\ OldTargetsClosed /\ ListedAreOpen /\ OnlyLateTargetsLeft
    BY DEF NoOrphan, OldTargetsClosed, ListedAreOpen, OnlyLateTargetsLeft, Removed
<1> QED BY <1>1, <1>2, <1>3 DEF ConfigInv

LEMMA ConfigInvStep == ConfigInv /\ [ConfigNext]_configVars => ConfigInv'
<1> SUFFICES ASSUME ConfigInv, [ConfigNext]_configVars PROVE ConfigInv'
    OBVIOUS
<1> USE ConfigAssumption DEF ConfigInv, Goto, lgrVars, argVars
<1>1. ASSUME NEW t \in Threads, NEW c \in Configs, ConfigureTargets(t, c) PROVE ConfigInv'
    <2> USE DEF ConfigureTargets
    <2>1. ConfigTypes'
        BY <1>1 DEF ConfigTypes, Pcs
    <2>2. Active'
        BY <1>1 DEF ConfigTypes, Active, Working, Removed, Adding, NewHost
    <2>3. Numbered' /\ Holder'
        <3>1. calls' = calls + 1 /\ call' = [call EXCEPT ![t] = calls + 1] /\ opened' = opened
            BY <1>1
        <3>2. Numbered'
            BY <3>1 DEF ConfigTypes, Host, Numbered
        <3>3. Holder'
            BY <1>1 DEF ConfigTypes, Holder
        <3> QED BY <3>2, <3>3
    <2>4. Fresh'
        BY <1>1 DEF ConfigTypes, Active, Working, Removed, Adding, Numbered, Fresh, Holder
    <2>5. NoOrphan'
        BY <1>1 DEF ConfigTypes, NoOrphan, NewHost
    <2>6. OldKnown' /\ OldTargetsClosed' /\ ListedAreOpen'
        BY <1>1 DEF ConfigTypes, OldKnown, OldTargetsClosed, ListedAreOpen, Removed, Holder
    <2>7. Progress'
        BY <1>1 DEF ConfigTypes, Active, Working, Removed, Progress, Done, Adding
    <2>8. LateKnown' /\ OnlyLateTargetsLeft'
        BY <1>1 DEF ConfigTypes, LateKnown, OnlyLateTargetsLeft, NoOrphan, Holder, NewHost
    <2> QED BY <2>1, <2>2, <2>3, <2>4, <2>5, <2>6, <2>7, <2>8
<1>2. ASSUME NEW t \in Threads, RemoveLock(t) PROVE ConfigInv'
    <2> USE DEF RemoveLock
    <2>1. ConfigTypes'
        BY <1>2 DEF ConfigTypes, Pcs
    <2>2. Active'
        BY <1>2 DEF ConfigTypes, Active, Working, Removed, Adding, NewHost
    <2>3. Numbered' /\ Holder'
        BY <1>2 DEF ConfigTypes, Active, Working, Numbered, Holder
    <2>4. Fresh'
        BY <1>2 DEF ConfigTypes, Active, Working, Removed, Adding, Numbered, Fresh, Holder
    <2>5. NoOrphan'
        BY <1>2 DEF ConfigTypes, NoOrphan, NewHost
    <2>6. OldKnown' /\ OldTargetsClosed' /\ ListedAreOpen'
        BY <1>2 DEF ConfigTypes, OldKnown, OldTargetsClosed, ListedAreOpen, Removed, Holder
    <2>7. Progress'
        BY <1>2 DEF ConfigTypes, Active, Working, Removed, Progress, Done, Adding
    <2>8. LateKnown' /\ OnlyLateTargetsLeft'
        BY <1>2 DEF ConfigTypes, LateKnown, OnlyLateTargetsLeft, NoOrphan, Holder, NewHost
    <2> QED BY <2>1, <2>2, <2>3, <2>4, <2>5, <2>6, <2>7, <2>8
<1>3. ASSUME NEW t \in Threads, RemoveClose(t) PROVE ConfigInv'
    <2> USE DEF RemoveClose
    <2>1. ConfigTypes'
        <3>1. failed' = failed \/ failed' = [failed EXCEPT ![t] = TRUE]
            BY <1>3
        <3>2. failed' \in [Threads -> BOOLEAN]
            BY <3>1 DEF ConfigTypes
        <3> QED BY <1>3, <3>2 DEF ConfigTypes, Pcs
    <2>2. Active'
        BY <1>3 DEF ConfigTypes, Active, Working, Removed, Adding, NewHost
    <2>3. Numbered' /\ Holder'
        BY <1>3 DEF ConfigTypes, Active, Working, Numbered, Holder
    <2>4. Fresh'
        BY <1>3 DEF ConfigTypes, Active, Working, Removed, Adding, Numbered, Fresh, Holder
    <2>5. NoOrphan'
        BY <1>3 DEF ConfigTypes, NoOrphan, NewHost
    <2>6. OldKnown' /\ OldTargetsClosed' /\ ListedAreOpen'
        BY <1>3 DEF ConfigTypes, OldKnown, OldTargetsClosed, ListedAreOpen, Removed, Holder
    <2>7. Progress'
        BY <1>3 DEF ConfigTypes, Active, Working, Removed, Progress, Done, Adding
    <2>8. LateKnown' /\ OnlyLateTargetsLeft'
        BY <1>3 DEF ConfigTypes, LateKnown, OnlyLateTargetsLeft, NoOrphan, Holder, NewHost
    <2> QED BY <2>1, <2>2, <2>3, <2>4, <2>5, <2>6, <2>7, <2>8
<1>4. ASSUME NEW t \in Threads, RemoveReturn(t) PROVE ConfigInv'
    <2> USE DEF RemoveReturn
    <2>1. ConfigTypes'
        BY <1>4 DEF ConfigTypes, Pcs
    <2>2. Active'
        BY <1>4 DEF ConfigTypes, Active, Working, Removed, Adding, NewHost
    <2>3. Numbered' /\ Holder'
        BY <1>4 DEF ConfigTypes, Active, Working, Numbered, Holder
    <2>4. Fresh'
        BY <1>4 DEF ConfigTypes, Active, Working, Removed, Adding, Numbered, Fresh, Holder
    <2>5. NoOrphan'
        BY <1>4 DEF ConfigTypes, NoOrphan, NewHost
    <2>6. OldKnown' /\ OldTargetsClosed' /\ ListedAreOpen'
        BY <1>4 DEF ConfigTypes, OldKnown, OldTargetsClosed, ListedAreOpen, Removed, Holder
    <2>7. Progress'
        <3>1. \A u \in Threads : \A n : Done(u, n) => Done(u, n)'
            BY <1>4 DEF Done
        <3>2. todo' = todo /\ config' = config /\ name' = name
            BY <1>4
        <3>3. \A u \in Threads \ {t} : pc'[u] = pc[u]
            BY <1>4 DEF ConfigTypes
        <3>4. pc'[t] \in {"next", "error"} /\ DOMAIN config[t] = todo[t]
            BY <1>4 DEF ConfigTypes, Active, Working
        <3> QED BY <3>1, <3>2, <3>3, <3>4 DEF Progress, Adding
    <2>8. LateKnown' /\ OnlyLateTargetsLeft'
        BY <1>4 DEF ConfigTypes, LateKnown, OnlyLateTargetsLeft, NoOrphan, Holder, NewHost
    <2> QED BY <2>1, <2>2, <2>3, <2>4, <2>5, <2>6, <2>7, <2>8
<1>5. ASSUME NEW t \in Threads, NextEntry(t) PROVE ConfigInv'
    <2> USE DEF NextEntry
    <2>1. ConfigTypes'
        BY <1>5 DEF ConfigTypes, Pcs
    <2>2. Active'
        BY <1>5 DEF ConfigTypes, Active, Working, Removed, Adding, NewHost
    <2>3. Numbered' /\ Holder'
        BY <1>5 DEF ConfigTypes, Active, Working, Numbered, Holder
    <2>4. Fresh'
        BY <1>5 DEF ConfigTypes, Active, Working, Removed, Adding, Numbered, Fresh, Holder
    <2>5. NoOrphan'
        BY <1>5 DEF ConfigTypes, NoOrphan, NewHost
    <2>6. OldKnown' /\ OldTargetsClosed' /\ ListedAreOpen'
        BY <1>5 DEF ConfigTypes, OldKnown, OldTargetsClosed, ListedAreOpen, Removed, Holder
    <2>7. Progress'
        BY <1>5 DEF ConfigTypes, Active, Working, Removed, Progress, Done, Adding
    <2>8. LateKnown' /\ OnlyLateTargetsLeft'
        BY <1>5 DEF ConfigTypes, LateKnown, OnlyLateTargetsLeft, NoOrphan, Holder, NewHost
    <2> QED BY <2>1, <2>2, <2>3, <2>4, <2>5, <2>6, <2>7, <2>8
<1>6. ASSUME NEW t \in Threads, NoEntryLeft(t) PROVE ConfigInv'
    <2> USE DEF NoEntryLeft
    <2>1. ConfigTypes'
        BY <1>6 DEF ConfigTypes, Pcs
    <2>2. Active'
        BY <1>6 DEF ConfigTypes, Active, Working, Removed, Adding, NewHost
    <2>3. Numbered' /\ Holder'
        BY <1>6 DEF ConfigTypes, Active, Working, Numbered, Holder
    <2>4. Fresh'
        BY <1>6 DEF ConfigTypes, Active, Working, Removed, Adding, Numbered, Fresh, Holder
    <2>5. NoOrphan'
        BY <1>6 DEF ConfigTypes, NoOrphan, NewHost
    <2>6. OldKnown' /\ OldTargetsClosed' /\ ListedAreOpen'
        BY <1>6 DEF ConfigTypes, OldKnown, OldTargetsClosed, ListedAreOpen, Removed, Holder
    <2>7. Progress'
        BY <1>6 DEF ConfigTypes, Active, Working, Removed, Progress, Done, Adding
    <2>8. LateKnown' /\ OnlyLateTargetsLeft'
        BY <1>6 DEF ConfigTypes, LateKnown, OnlyLateTargetsLeft, NoOrphan, Holder, NewHost
    <2> QED BY <2>1, <2>2, <2>3, <2>4, <2>5, <2>6, <2>7, <2>8
<1>7. ASSUME NEW t \in Threads, AddTarget(t) PROVE ConfigInv'
    <2> USE DEF AddTarget
    <2>1. ConfigTypes'
        BY <1>7 DEF ConfigTypes, Pcs
    <2>2. Active'
        <3>1. config[t] \in Configs /\ name[t] \in DOMAIN config[t]
            BY <1>7 DEF Active, Working, Removed, Adding
        <3>2. QueueSize(config[t][name[t]]) \in Int /\ QueueSize(config[t][name[t]]) # 0
            BY <3>1, QueueSizeInt
        <3> QED BY <1>7, <3>1, <3>2 DEF ConfigTypes, Active, Working, Removed, Adding, NewHost
    <2>3. Numbered' /\ Holder'
        BY <1>7 DEF ConfigTypes, Active, Working, Numbered, Holder
    <2>4. Fresh'
        BY <1>7 DEF ConfigTypes, Active, Working, Removed, Adding, Numbered, Fresh, Holder
    <2>5. NoOrphan'
        BY <1>7 DEF ConfigTypes, NoOrphan, NewHost
    <2>6. OldKnown' /\ OldTargetsClosed' /\ ListedAreOpen'
        BY <1>7 DEF ConfigTypes, OldKnown, OldTargetsClosed, ListedAreOpen, Removed, Holder
    <2>7. Progress'
        BY <1>7 DEF ConfigTypes, Active, Working, Removed, Progress, Done, Adding
    <2>8. LateKnown' /\ OnlyLateTargetsLeft'
        BY <1>7 DEF ConfigTypes, LateKnown, OnlyLateTargetsLeft, NoOrphan, Holder, NewHost
    <2> QED BY <2>1, <2>2, <2>3, <2>4, <2>5, <2>6, <2>7, <2>8
<1>8. ASSUME NEW t \in Threads, TargetInit(t) PROVE ConfigInv'
    <2> USE DEF TargetInit
    <2>1. ConfigTypes'
        <3>1. NewHost(t) \in Host
            BY <1>8, NewHostType
        <3> QED BY <1>8, <3>1 DEF ConfigTypes, Pcs
    <2>2. Active'
        BY <1>8 DEF ConfigTypes, Active, Working, Removed, Adding, NewHost
    <2>3. Numbered' /\ Holder'
        <3>1. NewHost(t).call = call[t]
            BY DEF NewHost
        <3>2. Numbered'
            BY <1>8, <3>1 DEF Numbered
        <3> QED BY <1>8, <3>2 DEF ConfigTypes, Holder
    <2>4. Fresh'
        <3>1. NewHost(t).call = call[t] /\ NewHost(t).name = name[t] /\ call[t] # 0
            BY <1>8 DEF NewHost, Active, Working, Removed
        <3>2. name[t] \notin todo[t]
            BY <1>8 DEF Active, Working, Removed, Adding
        <3>3. NewHost(t) \in Host
            BY <1>8, NewHostType
        <3>4. NewHost(t) \notin opened
            BY <1>8, <3>1 DEF Fresh
        <3>5. \A u \in Threads \ {t} : pc'[u] = pc[u] /\ call[u] # call[t]
            BY <1>8, <3>1 DEF ConfigTypes, Numbered
        <3>6. opened' \subseteq opened \cup {NewHost(t)} /\ pc'[t] \in {"append", "error"}
            BY <1>8 DEF ConfigTypes
        <3>7. /\ targetHosts' = targetHosts /\ closed' = closed /\ todo' = todo /\ name' = name /\ call' = call
              /\ targetHosts \subseteq opened /\ closed \subseteq opened
            BY <1>8 DEF ConfigTypes
        <3>8. \A h \in opened : h.call = call[t] => h.name # name[t]
            BY <1>8 DEF Fresh
        <3>9. ASSUME NEW u \in Threads, NEW h \in opened', h.call = call[u] 
              PROVE  /\ h.name \notin todo[u]
                     /\ pc'[u] \in {"add", "init"} => h.name # name[u]
                     /\ pc'[u] = "append" /\ h.name = name[u] => h \notin targetHosts \cup closed
            <4>1. CASE u = t
                BY <4>1, <3>1, <3>2, <3>4, <3>6, <3>7, <3>8, <3>9 DEF Fresh
            <4>2. CASE u # t
                BY <4>2, <3>1, <3>5, <3>6, <3>9 DEF Fresh
            <4> QED BY <4>1, <4>2
        <3> QED BY <3>7, <3>9 DEF Fresh
    <2>5. NoOrphan'
        BY <1>8 DEF ConfigTypes, NoOrphan, NewHost
    <2>6. OldKnown' /\ OldTargetsClosed' /\ ListedAreOpen'
        BY <1>8 DEF ConfigTypes, OldKnown, OldTargetsClosed, ListedAreOpen, Removed, Holder
    <2>7. Progress'
        BY <1>8 DEF ConfigTypes, Active, Working, Removed, Progress, Done, Adding
    <2>8. LateKnown' /\ OnlyLateTargetsLeft'
        BY <1>8 DEF ConfigTypes, LateKnown, OnlyLateTargetsLeft, NoOrphan, Holder, NewHost
    <2> QED BY <2>1, <2>2, <2>3, <2>4, <2>5, <2>6, <2>7, <2>8
<1>9. ASSUME NEW t \in Threads, AddTargetAppend(t) PROVE ConfigInv'
    <2> USE DEF AddTargetAppend
    <2>1. ConfigTypes'
        <3>1. NewHost(t) \in opened
            BY <1>9 DEF Active, Working, Removed
        <3> QED BY <1>9, <3>1 DEF ConfigTypes, Pcs
    <2>2. Active'
        BY <1>9 DEF ConfigTypes, Active, Working, Removed, Adding, NewHost
    <2>3. Numbered' /\ Holder'
        BY <1>9 DEF ConfigTypes, Active, Working, Numbered, Holder
    <2>4. Fresh'
        <3>1. NewHost(t).call = call[t] /\ call[t] # 0
            BY <1>9 DEF NewHost, Active, Working, Removed
        <3>2. \A u \in Threads \ {t} : pc'[u] = pc[u] /\ call[u] # call[t]
            BY <1>9, <3>1 DEF ConfigTypes, Numbered
        <3>3. pc'[t] = "next" /\ targetHosts' = targetHosts \cup {NewHost(t)}
            BY <1>9 DEF ConfigTypes
        <3>4. closed' = closed /\ todo' = todo /\ name' = name /\ call' = call /\ opened' = opened
            BY <1>9
        <3> QED BY <3>1, <3>2, <3>3, <3>4 DEF Fresh
    <2>5. NoOrphan'
        BY <1>9 DEF ConfigTypes, NoOrphan, NewHost
    <2>6. OldKnown' /\ OldTargetsClosed' /\ ListedAreOpen'
        <3>1. NewHost(t) \in opened /\ NewHost(t).call = call[t] /\ NewHost(t).name = name[t]
            BY <1>9 DEF NewHost, Active, Working, Removed
        <3>2. NewHost(t) \notin closed
            BY <1>9, <3>1 DEF Fresh
        <3> QED BY <1>9, <3>2 DEF ConfigTypes, OldKnown, OldTargetsClosed, ListedAreOpen, Removed, Holder
    <2>7. Progress'
        <3>1. \A u \in Threads : \A n : Done(u, n) => Done(u, n)'
            BY <1>9 DEF Done
        <3>2. Done(t, name[t])'
            <4>1. NewHost(t).call = call[t] /\ NewHost(t).name = name[t]
                BY DEF NewHost
            <4>2. NewHost(t) \in targetHosts' /\ call' = call /\ name' = name
                BY <1>9
            <4> QED BY <4>1, <4>2 DEF Done
        <3>3. pc'[t] = "next" /\ \A u \in Threads \ {t} : pc'[u] = pc[u]
            BY <1>9 DEF ConfigTypes
        <3>4. todo' = todo /\ config' = config /\ name' = name
            BY <1>9
        <3> QED BY <1>9, <3>1, <3>2, <3>3, <3>4 DEF Progress, Adding
    <2>8. LateKnown' /\ OnlyLateTargetsLeft'
        BY <1>9 DEF ConfigTypes, LateKnown, OnlyLateTargetsLeft, NoOrphan, Holder, NewHost
    <2> QED BY <2>1, <2>2, <2>3, <2>4, <2>5, <2>6, <2>7, <2>8
<1>10. ASSUME NEW t \in Threads, Return(t) PROVE ConfigInv'
    <2> USE DEF Return
    <2>1. ConfigTypes'
        BY <1>10 DEF ConfigTypes, Pcs
    <2>2. Active'
        BY <1>10 DEF ConfigTypes, Active, Working, Removed, Adding, NewHost
    <2>3. Numbered' /\ Holder'
        BY <1>10 DEF ConfigTypes, Active, Working, Numbered, Holder
    <2>4. Fresh'
        BY <1>10 DEF ConfigTypes, Active, Working, Removed, Adding, Numbered, Fresh, Holder
    <2>5. NoOrphan'
        BY <1>10 DEF ConfigTypes, NoOrphan, NewHost
    <2>6. OldKnown' /\ OldTargetsClosed' /\ ListedAreOpen'
        BY <1>10 DEF ConfigTypes, OldKnown, OldTargetsClosed, ListedAreOpen, Removed, Holder
    <2>7. Progress'
        BY <1>10 DEF ConfigTypes, Active, Working, Removed, Progress, Done, Adding
    <2>8. LateKnown' /\ OnlyLateTargetsLeft'
        BY <1>10 DEF ConfigTypes, LateKnown, OnlyLateTargetsLeft, NoOrphan, Holder, NewHost
    <2> QED BY <2>1, <2>2, <2>3, <2>4, <2>5, <2>6, <2>7, <2>8
<1>11. ASSUME NEW t \in Threads, Shutdown(t) PROVE ConfigInv'
    <2> USE DEF Shutdown
    <2>1. ConfigTypes'
        <3>1. {NewHost(u) : u \in {u \in Threads : pc[u] \in {"init", "append"}}} \in SUBSET Host
            BY NewHostType
        <3>2. late' \in [hosts : SUBSET Host, returned : BOOLEAN]
            BY <1>11, <3>1 DEF ConfigTypes
        <3> QED BY <1>11, <3>2 DEF ConfigTypes, Pcs
    <2>2. Active'
        BY <1>11 DEF ConfigTypes, Active, Working, Removed, Adding, NewHost
    <2>3. Numbered' /\ Holder'
        BY <1>11 DEF ConfigTypes, Active, Working, Numbered, Holder
    <2>4. Fresh'
        BY <1>11 DEF ConfigTypes, Active, Working, Removed, Adding, Numbered, Fresh, Holder
    <2>5. NoOrphan'
        BY <1>11 DEF ConfigTypes, NoOrphan, NewHost
    <2>6. OldKnown' /\ OldTargetsClosed' /\ ListedAreOpen'
        BY <1>11 DEF ConfigTypes, OldKnown, OldTargetsClosed, ListedAreOpen, Removed, Holder
    <2>7. Progress'
        BY <1>11 DEF ConfigTypes, Active, Working, Removed, Progress, Done, Adding
    <2>8. LateKnown' /\ OnlyLateTargetsLeft'
        BY <1>11 DEF ConfigTypes, LateKnown, OnlyLateTargetsLeft, NoOrphan, Holder, NewHost
    <2> QED BY <2>1, <2>2, <2>3, <2>4, <2>5, <2>6, <2>7, <2>8
<1>12. ASSUME NEW t \in Threads, ShutdownRLock(t) PROVE ConfigInv'
    <2> USE DEF ShutdownRLock
    <2>1. ConfigTypes'
        BY <1>12 DEF ConfigTypes, Pcs
    <2>2. Active'
        BY <1>12 DEF ConfigTypes, Active, Working, Removed, Adding, NewHost
    <2>3. Numbered' /\ Holder'
        BY <1>12 DEF ConfigTypes, Active, Working, Numbered, Holder
    <2>4. Fresh'
        BY <1>12 DEF ConfigTypes, Active, Working, Removed, Adding, Numbered, Fresh, Holder
    <2>5. NoOrphan'
        BY <1>12 DEF ConfigTypes, NoOrphan, NewHost
    <2>6. OldKnown' /\ OldTargetsClosed' /\ ListedAreOpen'
        BY <1>12 DEF ConfigTypes, OldKnown, OldTargetsClosed, ListedAreOpen, Removed, Holder
    <2>7. Progress'
        BY <1>12 DEF ConfigTypes, Active, Working, Removed, Progress, Done, Adding
    <2>8. LateKnown' /\ OnlyLateTargetsLeft'
        BY <1>12 DEF ConfigTypes, LateKnown, OnlyLateTargetsLeft, NoOrphan, Holder, NewHost
    <2> QED BY <2>1, <2>2, <2>3, <2>4, <2>5, <2>6, <2>7, <2>8
<1>13. ASSUME NEW t \in Threads, ShutdownClose(t) PROVE ConfigInv'
    <2> USE DEF ShutdownClose
    <2>1. ConfigTypes'
        <3>1. late' \in [hosts : SUBSET Host, returned : BOOLEAN]
            BY <1>13 DEF ConfigTypes
        <3> QED BY <1>13, <3>1 DEF ConfigTypes, Pcs
    <2>2. Active'
        BY <1>13 DEF ConfigTypes, Active, Working, Removed, Adding, NewHost
    <2>3. Numbered' /\ Holder'
        BY <1>13 DEF ConfigTypes, Active, Working, Numbered, Holder
    <2>4. Fresh'
        BY <1>13 DEF ConfigTypes, Active, Working, Removed, Adding, Numbered, Fresh, Holder
    <2>5. NoOrphan'
        BY <1>13 DEF ConfigTypes, NoOrphan, NewHost
    <2>6. OldKnown' /\ OldTargetsClosed' /\ ListedAreOpen'
        BY <1>13 DEF ConfigTypes, OldKnown, OldTargetsClosed, ListedAreOpen, Removed, Holder
    <2>7. Progress'
        BY <1>13 DEF ConfigTypes, Active, Working, Removed, Progress, Done, Adding
    <2>8. LateKnown' /\ OnlyLateTargetsLeft'
        BY <1>13 DEF ConfigTypes, LateKnown, OnlyLateTargetsLeft, NoOrphan, Holder, NewHost
    <2> QED BY <2>1, <2>2, <2>3, <2>4, <2>5, <2>6, <2>7, <2>8
<1>14. CASE UNCHANGED configVars
    BY <1>14 DEF configVars, ConfigTypes, Active, Numbered, Fresh, Holder, NoOrphan, OldKnown, OldTargetsClosed, ListedAreOpen,
        Progress, Done, LateKnown, OnlyLateTargetsLeft, NewHost
<1> QED BY <1>1, <1>2, <1>3, <1>4, <1>5, <1>6, <1>7, <1>8, <1>9, <1>10, <1>11, <1>12, <1>13, <1>14 DEF ConfigNext, ConfigStep

LEMMA ConfigInvariant == ConfigSpec => []ConfigInv
BY ConfigInvInit, ConfigInvStep, PTL DEF ConfigSpec

-----------------------------------------------------------------------------

\* Every variable of the configuration keeps its type; a host that was created
\* has a queue with room (config.go:74-77).
THEOREM ConfigTypeCorrect == ConfigSpec => []ConfigTypeOK
<1>1. ConfigInv => ConfigTypeOK
    <2> SUFFICES ASSUME ConfigTypes PROVE ConfigTypeOK
        BY DEF ConfigInv
    <2>1. late.returned \in BOOLEAN /\ late.hosts \subseteq Host
        BY DEF ConfigTypes
    <2> QED BY <2>1 DEF ConfigTypes, ConfigTypeOK
<1> QED BY <1>1, ConfigInvariant, PTL

\* However many calls of ConfigureTargets overlap, fail and race Shutdown, no
\* target that was initialized is out of everyone's reach while it is open
\* (logr.go:104-116, 208-226, config.go:50-80).
THEOREM NoTargetIsOrphaned == ConfigSpec => []NoOrphan
<1>1. ConfigInv => NoOrphan
    BY DEF ConfigInv
<1> QED BY <1>1, ConfigInvariant, PTL

\* The targets that a call of ConfigureTargets found are closed when its
\* RemoveTargets has returned, whoever closed them and whatever failed
\* (config.go:50-52, logr.go:211-229).
THEOREM OldTargetsAreClosed == ConfigSpec => []OldTargetsClosed
<1>1. ConfigInv => OldTargetsClosed
    BY DEF ConfigInv
<1> QED BY <1>1, ConfigInvariant, PTL

\* Until Shutdown, the list holds no closed target whenever tmux is free
\* (logr.go:208-226).
THEOREM ListHoldsOpenTargets == ConfigSpec => []ListedAreOpen
<1>1. ConfigInv => ListedAreOpen
    BY DEF ConfigInv
<1> QED BY <1>1, ConfigInvariant, PTL

\* A call of ConfigureTargets that returns nil has made every target of its
\* argument (config.go:58-82).
THEOREM SuccessMeansComplete == ConfigSpec => []SuccessIsComplete
<1>1. ConfigInv => SuccessIsComplete
    BY DEF ConfigInv, Progress, Done, Adding, SuccessIsComplete
<1> QED BY <1>1, ConfigInvariant, PTL

\* The targets that are open after Shutdown are those whose AddTarget had passed
\* its test of the flag when Shutdown set it (logr.go:89-113, 375-380).
THEOREM OnlyRacingTargetsSurvive == ConfigSpec => []OnlyLateTargetsLeft
<1>1. ConfigInv => OnlyLateTargetsLeft
    BY DEF ConfigInv
<1> QED BY <1>1, ConfigInvariant, PTL

=============================================================================
