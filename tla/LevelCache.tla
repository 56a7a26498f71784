----------------------------- MODULE LevelCache -----------------------------
(***************************************************************************)
(* Logr.IsLevelEnabled and the cache before it (logr.go:130-166,           *)
(* levelcache.go), against the operations that change its answer:          *)
(* AddTarget, RemoveTargets, Shutdown, CustomFilter.Add, ResetLevelCache.  *)
(*                                                                         *)
(* The answer is computed and cached under the read lock of tmux, lists    *)
(* are changed and the cache is cleared under the write lock; but the      *)
(* cache is read under no lock, Shutdown and ResetLevelCache clear it      *)
(* under none, and the sync.Map cache is cleared entry by entry.           *)
(***************************************************************************)
EXTENDS Integers

CONSTANTS
    Threads,        \* goroutines of the application
    Targets,        \* target hosts
    LevelIDs,       \* the level ids in use
    MaxLevelID,
    CacheKinds,     \* the caches to consider: "array", "syncMap"
    Custom,         \* the targets with a CustomFilter, the others have a StdFilter
    InitFilter,     \* the filters at first: InitFilter[h][id] is a status
    Calls,          \* what the application calls, a subset of CallNames
    nil

CallNames == {"check", "add", "remove", "shutdown", "reset", "filterAdd", "filterReset"}

\* A LevelStatus: off, enabled, or enabled with stack trace.  In a filter it is
\* what one host answers (its level or its formatter may want a stack trace).
Status == {"off", "on", "stack"}

ASSUME CacheAssumption ==
    /\ MaxLevelID \in Nat \ {0}
    /\ LevelIDs \subseteq Nat
    /\ CacheKinds \subseteq {"array", "syncMap"}
    /\ InitFilter \in [Targets -> [LevelIDs -> Status]]
    /\ Custom \subseteq Targets
    /\ Calls \subseteq CallNames
    /\ nil \notin Threads \cup Targets

\* An entry of the cache: a status, the marker LevelStatus{empty: true}, or
\* no entry at all, which only a sync.Map has.
Entry == Status \cup {"empty", "absent"}
CacheIDs == 0 .. MaxLevelID

\* StdFilter.GetEnabledLevel for the levels lvl and stacktrace.
StdFilter(lvl, stacktrace) ==
    [id \in LevelIDs |-> IF id > lvl THEN "off" ELSE IF id <= stacktrace THEN "stack" ELSE "on"]

\* The loop of IsLevelEnabled over the hosts in ts, whose filters are fs.
Computed(ts, fs, id) ==
    CASE \E h \in ts : fs[h][id] = "stack" -> "stack"
      [] \E h \in ts : fs[h][id] = "on" /\ \A g \in ts : fs[g][id] # "stack" -> "on"
      [] OTHER -> "off"

VARIABLES
    kind,       \* the type of lgr.lvlCache (option UseSyncMapLevelCache)
    cache,      \* lgr.lvlCache
    targets,    \* the hosts in lgr.targetHosts
    filter,     \* the filters of the hosts
    shutdown,
    readers, writer,    \* the holders of tmux
    pc, op, arg,        \* per thread: its place, its call and the argument
    status,     \* per thread: the status computed or returned
    next,       \* per thread: the next entry to clear
    \* history: the list and the filters as the last call that changed them
    \* left them when it returned, and the answers these gave in the course of
    \* each call of IsLevelEnabled; the levels added to a filter in use
    pubTargets, pubFilter, seen, touched

lgrVars    == <<kind, cache, targets, filter, shutdown, readers, writer>>
threadVars == <<pc, op, arg, status, next>>
pubVars    == <<pubTargets, pubFilter, seen, touched>>
cacheVars  == <<lgrVars, threadVars, pubVars>>

Pcs == {"idle", "get", "rlock", "put", "panic", "lock", "clear", "unlock", "return"}

\* Every variable keeps its type.
CacheTypeOK ==
    /\ kind \in CacheKinds
    /\ cache \in [CacheIDs -> Entry]
    /\ targets \in SUBSET Targets
    /\ filter \in [Targets -> [LevelIDs -> Status]]
    /\ shutdown \in BOOLEAN
    /\ readers \in SUBSET Threads
    /\ writer \in Threads \cup {nil}
    /\ pc \in [Threads -> Pcs]
    /\ op \in [Threads -> CallNames \cup {nil}]
    /\ arg \in [Threads -> LevelIDs \cup Targets \cup {nil}]
    /\ status \in [Threads -> Status]
    /\ next \in [Threads -> CacheIDs]
    /\ pubTargets \in SUBSET Targets
    /\ pubFilter \in [Targets -> [LevelIDs -> Status]]
    /\ seen \in [Threads -> SUBSET Status]
    /\ touched \in SUBSET LevelIDs

\* setup() is clear(): every entry of the array, all but the last of the map.
CacheInit ==
    /\ kind \in CacheKinds
    /\ cache = [id \in CacheIDs |-> IF kind = "syncMap" /\ id = MaxLevelID
                                    THEN "absent" ELSE "empty"]
    /\ targets = {}
    /\ filter = InitFilter
    /\ shutdown = FALSE
    /\ readers = {}
    /\ writer = nil
    /\ pc = [t \in Threads |-> "idle"]
    /\ op = [t \in Threads |-> nil]
    /\ arg = [t \in Threads |-> nil]
    /\ status = [t \in Threads |-> "off"]
    /\ next = [t \in Threads |-> 0]
    /\ pubTargets = {}
    /\ pubFilter = InitFilter
    /\ seen = [t \in Threads |-> {}]
    /\ touched = {}

\* What IsLevelEnabled may answer for id when the list is ts: an id the cache
\* refuses is off.
Answer(ts, fs, id) == IF id > MaxLevelID THEN "off" ELSE Computed(ts, fs, id)

\* A change of the list or of the filters becomes visible to the application.
Publish(ts, fs) ==
    /\ pubTargets' = ts
    /\ pubFilter' = fs
    /\ seen' = [t \in Threads |-> IF op[t] = "check" THEN seen[t] \cup {Answer(ts, fs, arg[t])}
                                  ELSE seen[t]]

\* t calls operation o with argument x and goes to the place p.
Begin(t, o, x, p) ==
    /\ o \in Calls
    /\ pc[t] = "idle"
    /\ pc' = [pc EXCEPT ![t] = p]
    /\ op' = [op EXCEPT ![t] = o]
    /\ arg' = [arg EXCEPT ![t] = x]

-----------------------------------------------------------------------------
(***************************************************************************)
(* IsLevelEnabled.                                                         *)
(***************************************************************************)

\* The flag is tested; after shutdown every level is off.
IsLevelEnabled(t, id) ==
    /\ Begin(t, "check", id, IF shutdown THEN "return" ELSE "get")
    /\ status' = [status EXCEPT ![t] = "off"]
    /\ seen' = [seen EXCEPT ![t] = {Answer(pubTargets, pubFilter, id)}
                                   \cup IF shutdown THEN {"off"} ELSE {}]
    /\ UNCHANGED <<lgrVars, next, pubTargets, pubFilter, touched>>

\* levelCache.get: an id out of range is a miss, an entry is a hit unless it is
\* the empty marker, and the type assertion on a missing entry panics.
CacheGet(t) ==
    LET id == arg[t]
        entry == IF id > MaxLevelID THEN "empty" ELSE cache[id]
    IN
    /\ pc[t] = "get"
    /\ \/ /\ entry = "absent"
          /\ pc' = [pc EXCEPT ![t] = "panic"]
          /\ UNCHANGED status
       \/ /\ entry = "empty"
          /\ pc' = [pc EXCEPT ![t] = "rlock"]
          /\ UNCHANGED status
       \/ /\ entry \in Status
          /\ pc' = [pc EXCEPT ![t] = "return"]
          /\ status' = [status EXCEPT ![t] = entry]
    /\ UNCHANGED <<lgrVars, op, arg, next, pubVars>>

\* Mutant: the result is cached after the read lock is released.
Mut_CheckTargets(t) ==
    /\ pc[t] = "rlock"
    /\ writer = nil
    /\ status' = [status EXCEPT ![t] = Computed(targets, filter, arg[t])]
    /\ pc' = [pc EXCEPT ![t] = "put"]
    /\ UNCHANGED <<lgrVars, op, arg, next, pubVars>>

\* A miss: take the read lock and ask every host.
CheckTargets(t) ==
    /\ pc[t] = "rlock"
    /\ writer = nil
    /\ readers' = readers \cup {t}
    /\ status' = [status EXCEPT ![t] = Computed(targets, filter, arg[t])]
    /\ pc' = [pc EXCEPT ![t] = "put"]
    /\ UNCHANGED <<kind, cache, targets, filter, shutdown, writer, op, arg, next, pubVars>>

\* Mutant: no bounds check.
Mut_CachePut(t) ==
    /\ pc[t] = "put"
    /\ cache' = [id \in CacheIDs \cup {arg[t]} |-> IF id = arg[t] THEN status[t] ELSE cache[id]]
    /\ readers' = readers \ {t}
    /\ pc' = [pc EXCEPT ![t] = "return"]
    /\ UNCHANGED <<kind, targets, filter, shutdown, writer, op, arg, status, next, pubVars>>

\* levelCache.put and the return; an id out of range is an error, which is
\* reported, and the level counts as off.
CachePut(t) ==
    LET id == arg[t] IN
    /\ pc[t] = "put"
    /\ \/ /\ id > MaxLevelID
          /\ status' = [status EXCEPT ![t] = "off"]
          /\ UNCHANGED cache
       \/ /\ id <= MaxLevelID
          /\ cache' = [cache EXCEPT ![id] = status[t]]
          /\ UNCHANGED status
    /\ readers' = readers \ {t}
    /\ pc' = [pc EXCEPT ![t] = "return"]
    /\ UNCHANGED <<kind, targets, filter, shutdown, writer, op, arg, next, pubVars>>

\* A call is over.
Return(t) ==
    /\ pc[t] = "return"
    /\ pc' = [pc EXCEPT ![t] = "idle"]
    /\ op' = [op EXCEPT ![t] = nil]
    /\ arg' = [arg EXCEPT ![t] = nil]
    /\ status' = [status EXCEPT ![t] = "off"]
    /\ seen' = [seen EXCEPT ![t] = {}]
    /\ UNCHANGED <<lgrVars, next, pubTargets, pubFilter, touched>>

-----------------------------------------------------------------------------
(***************************************************************************)
(* The operations that change the answer.                                  *)
(***************************************************************************)

\* AddTarget of a host that is not in the list, RemoveTargets of one that is.
AddTarget(t, h) ==
    /\ ~shutdown
    /\ Begin(t, "add", h, "lock")
    /\ UNCHANGED <<lgrVars, status, next, pubVars>>

RemoveTargets(t, h) ==
    /\ Begin(t, "remove", h, "lock")
    /\ UNCHANGED <<lgrVars, status, next, pubVars>>

\* Mutant: the list is changed and the cache is cleared without the lock.
Mut_Assign(t) ==
    /\ pc[t] = "lock"
    /\ targets' = IF op[t] = "add" THEN targets \cup {arg[t]} ELSE targets \ {arg[t]}
    /\ pc' = [pc EXCEPT ![t] = "clear"]
    /\ next' = [next EXCEPT ![t] = 0]
    /\ UNCHANGED <<kind, cache, filter, shutdown, readers, writer, op, arg, status, pubVars>>

\* Under the write lock: assign the list, then clear the cache, then unlock.
Assign(t) ==
    /\ pc[t] = "lock"
    /\ writer = nil /\ readers = {}
    /\ writer' = t
    /\ targets' = IF op[t] = "add" THEN targets \cup {arg[t]} ELSE targets \ {arg[t]}
    /\ pc' = [pc EXCEPT ![t] = "clear"]
    /\ next' = [next EXCEPT ![t] = 0]
    /\ UNCHANGED <<kind, cache, filter, shutdown, readers, op, arg, status, pubVars>>

\* The swap in Shutdown, and the call of ResetLevelCache that follows.
Shutdown(t) ==
    /\ ~shutdown
    /\ Begin(t, "shutdown", nil, "clear")
    /\ shutdown' = TRUE
    /\ next' = [next EXCEPT ![t] = 0]
    /\ UNCHANGED <<kind, cache, targets, filter, readers, writer, status, pubVars>>

ResetLevelCache(t) ==
    /\ Begin(t, "reset", nil, "clear")
    /\ next' = [next EXCEPT ![t] = 0]
    /\ UNCHANGED <<lgrVars, status, pubVars>>

\* CustomFilter.Add, by itself or followed by ResetLevelCache.
FilterAdd(t, h, id, v) ==
    /\ filter' = [filter EXCEPT ![h][id] = v]
    /\ touched' = touched \cup {id}
    /\ \/ /\ Begin(t, "filterAdd", h, "return")
          /\ Publish(pubTargets, [pubFilter EXCEPT ![h][id] = v])
          /\ UNCHANGED next
       \/ /\ Begin(t, "filterReset", h, "clear")
          /\ next' = [next EXCEPT ![t] = 0]
          /\ UNCHANGED <<pubTargets, pubFilter, seen>>
    /\ UNCHANGED <<kind, cache, targets, shutdown, readers, writer, status>>

\* Mutant: clear stops one entry early, as that of the map does, but for the
\* array, where the entry exists.
Mut_CacheClear(t) ==
    /\ pc[t] = "clear"
    /\ cache' = [id \in CacheIDs |-> IF id = MaxLevelID THEN cache[id] ELSE "empty"]
    /\ pc' = [pc EXCEPT ![t] = "unlock"]
    /\ UNCHANGED <<kind, targets, filter, shutdown, readers, writer, op, arg, status, next, pubVars>>

\* Mutant: the map is cleared by deleting its entries.
Mut_ClearDeletes(t) ==
    /\ pc[t] = "clear"
    /\ cache' = [id \in CacheIDs |-> "absent"]
    /\ pc' = [pc EXCEPT ![t] = "unlock"]
    /\ UNCHANGED <<kind, targets, filter, shutdown, readers, writer, op, arg, status, next, pubVars>>

\* levelCache.clear: the array at once under its mutex, the map entry by entry.
CacheClear(t) ==
    /\ pc[t] = "clear"
    /\ IF kind = "array"
         THEN /\ cache' = [id \in CacheIDs |-> "empty"]
              /\ pc' = [pc EXCEPT ![t] = "unlock"]
              /\ UNCHANGED next
         ELSE IF next[t] < MaxLevelID
         THEN /\ cache' = [cache EXCEPT ![next[t]] = "empty"]
              /\ next' = [next EXCEPT ![t] = @ + 1]
              /\ UNCHANGED pc
         ELSE /\ pc' = [pc EXCEPT ![t] = "unlock"]
              /\ UNCHANGED <<cache, next>>
    /\ UNCHANGED <<kind, targets, filter, shutdown, readers, writer, op, arg, status, pubVars>>

\* The call that cleared the cache releases what it holds and returns.
AfterClear(t) ==
    /\ pc[t] = "unlock"
    /\ pc' = [pc EXCEPT ![t] = "return"]
    /\ writer' = IF op[t] \in {"add", "remove"} THEN nil ELSE writer
    /\ CASE op[t] \in {"add", "remove"} -> Publish(targets, pubFilter)
         [] op[t] = "filterReset" -> Publish(pubTargets, filter)
         [] OTHER -> UNCHANGED <<pubTargets, pubFilter, seen>>
    /\ UNCHANGED <<kind, cache, targets, filter, shutdown, readers, op, arg, status, next,
                   touched>>

-----------------------------------------------------------------------------

CacheStep(t) ==
    \/ CacheGet(t) \/ CheckTargets(t) \/ CachePut(t) \/ Return(t)
    \/ Assign(t) \/ CacheClear(t) \/ AfterClear(t)

CacheCall(t) ==
    \/ \E id \in LevelIDs : IsLevelEnabled(t, id)
    \/ \E h \in Targets \ targets : AddTarget(t, h)
    \/ \E h \in targets : RemoveTargets(t, h)
    \/ Shutdown(t)
    \/ ResetLevelCache(t)
    \/ \E h \in Custom, id \in LevelIDs, v \in {"on", "stack"} : FilterAdd(t, h, id, v)

CacheNext == \E t \in Threads : CacheStep(t) \/ CacheCall(t)

CacheSpec == CacheInit /\ [][CacheNext]_cacheVars

-----------------------------------------------------------------------------
(***************************************************************************)
(* Properties.                                                             *)
(***************************************************************************)

\* What the cache holds is what the hosts of the list would answer, where the
\* list is the one left by the last AddTarget or RemoveTargets that returned:
\* no check that started before a change puts its result behind the change's
\* back (logr.go:113-115, 147-161, 225-226).  Levels that the application adds
\* to a CustomFilter in use are exempt.
Coherent ==
    \A id \in (CacheIDs \cap LevelIDs) \ touched :
        cache[id] \in Status => cache[id] = Computed(pubTargets, pubFilter, id)

\* The status that a call of IsLevelEnabled by t is about to return was the
\* right one at some time in the course of the call.
Fresh(t) == op[t] = "check" /\ pc[t] = "return" => status[t] \in seen[t]

\* IsLevelEnabled answers what was true at some time between its call and its
\* return; in particular it never answers from a list that a call of AddTarget
\* or RemoveTargets had replaced before it was called.  Levels that the
\* application adds to a CustomFilter in use are exempt.
FreshAnswer == \A t \in Threads : arg[t] \notin touched => Fresh(t)

\* A level that is cached as enabled is enabled: a filter that changes without
\* a reset of the cache can only make a level look disabled, so no record is
\* made that every target must refuse (target.go:255: "how did we get here?").
NoFalseEnable ==
    \A id \in CacheIDs \cap LevelIDs :
        cache[id] \in {"on", "stack"} => Computed(pubTargets, filter, id) # "off"

\* Checking a level panics only in the cache that keeps no entry for the last
\* id (levelcache.go:33, 52); ids beyond it are refused by both.
OnlyLastPanics == \A t \in Threads : pc[t] = "panic" => kind = "syncMap" /\ arg[t] = MaxLevelID

-----------------------------------------------------------------------------
(***************************************************************************)
(* What comments of the code say and the code does not do.                 *)
(***************************************************************************)

\* Every id up to "the maximum value of a level ID" (const.go:14) is valid.
NoPanic == \A t \in Threads : pc[t] # "panic"

\* "Adding a level enables logging for that level" (filtercustom.go:34-35).
AddEnables == \A t \in Threads : Fresh(t)

====
