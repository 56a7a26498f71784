-------------------------- MODULE LevelCache_proofs --------------------------
(***************************************************************************)
(* Proofs of the safety properties of LevelCache, for any goroutines,      *)
(* targets, filters and levels and for both caches.                        *)
(***************************************************************************)
EXTENDS LevelCache, TLAPS

\* t is in a call of IsLevelEnabled.
Checking(t) == pc[t] \in {"get", "rlock", "put", "panic"} \/ (pc[t] = "return" /\ op[t] = "check")

\* t has changed the list and not yet published it: it holds tmux for writing.
Replacing(t) == pc[t] \in {"clear", "unlock"} /\ op[t] \in {"add", "remove"}

\* Which call is where, and who holds tmux.
Control ==
    \A t \in Threads :
        /\ Checking(t) => op[t] = "check" /\ arg[t] \in LevelIDs
        /\ pc[t] = "lock" => op[t] \in {"add", "remove"} /\ arg[t] \in Targets
        /\ pc[t] \in {"clear", "unlock"} => op[t] # "check"
        /\ Replacing(t) <=> writer = t
        /\ pc[t] = "put" <=> t \in readers

\* Writers exclude readers; without a writer the list is the published one.
Exclusion ==
    /\ writer # nil => readers = {}
    /\ writer = nil => targets = pubTargets

\* A filter changes at the levels added to it only.
Untouched ==
    \A h \in Targets : \A id \in LevelIDs \ touched : filter[h][id] = pubFilter[h][id]

\* The map has no entry for the last id, and no check gets past that.
NoLastEntry ==
    kind = "syncMap" =>
        /\ cache[MaxLevelID] = "absent"
        /\ \A t \in Threads : pc[t] \in {"rlock", "put"} => arg[t] # MaxLevelID
OthersHaveEntry ==
    \A id \in CacheIDs : cache[id] = "absent" => kind = "syncMap" /\ id = MaxLevelID

\* What a writer has cleared stays cleared until it releases tmux.
Cleared ==
    \A t \in Threads : Replacing(t) =>
        \A id \in CacheIDs : pc[t] = "unlock" \/ id < next[t] => cache[id] \notin Status

\* What a check is about to cache is what the hosts answer, and enabled only if
\* one of them still enables the level.
Pending ==
    \A t \in Threads : pc[t] = "put" =>
        /\ arg[t] \notin touched => status[t] = Computed(targets, filter, arg[t])
        /\ status[t] # "off" => Computed(targets, filter, arg[t]) # "off"

\* A check has seen the answer of the published list.
SeenNow ==
    \A t \in Threads : Checking(t) => Answer(pubTargets, pubFilter, arg[t]) \in seen[t]

CacheInv ==
    /\ CacheTypeOK /\ Control /\ Exclusion /\ Untouched
    /\ NoLastEntry /\ OthersHaveEntry /\ Cleared /\ Pending /\ SeenNow
    /\ Coherent /\ FreshAnswer /\ NoFalseEnable /\ OnlyLastPanics

-----------------------------------------------------------------------------

\* The loop over the hosts: what it answers, when it answers "off", and that it
\* looks at nothing but the hosts of the list and the level asked for.
LEMMA ComputedStatus ==
    ASSUME NEW ts, NEW fs, NEW id
    PROVE  Computed(ts, fs, id) \in Status /\ Answer(ts, fs, id) \in Status
BY DEF Computed, Answer, Status

LEMMA ComputedOff ==
    ASSUME NEW ts \in SUBSET Targets, NEW id \in LevelIDs,
           NEW fs \in [Targets -> [LevelIDs -> Status]]
    PROVE  Computed(ts, fs, id) = "off" <=> \A h \in ts : fs[h][id] = "off"
<1>1. \A h \in ts : fs[h][id] \in {"off", "on", "stack"}
    BY DEF Status
<1> QED BY <1>1 DEF Computed

LEMMA ComputedSame ==
    ASSUME NEW ts, NEW fs, NEW gs, NEW id, \A h \in ts : fs[h][id] = gs[h][id]
    PROVE  Computed(ts, fs, id) = Computed(ts, gs, id) /\ Answer(ts, fs, id) = Answer(ts, gs, id)
BY DEF Computed, Answer

LEMMA CacheRange ==
    ASSUME NEW id \in LevelIDs
    PROVE  (id <= MaxLevelID <=> id \in CacheIDs) /\ (id > MaxLevelID <=> id \notin CacheIDs)
BY CacheAssumption DEF CacheIDs

LEMMA FilterChange ==
    ASSUME NEW f \in [Targets -> [LevelIDs -> Status]],
           NEW h \in Targets, NEW id \in LevelIDs, NEW v \in Status
    PROVE  /\ [f EXCEPT ![h][id] = v] \in [Targets -> [LevelIDs -> Status]]
           /\ \A k \in Targets, i \in LevelIDs :
                [f EXCEPT ![h][id] = v][k][i] = IF k = h /\ i = id THEN v ELSE f[k][i]
OBVIOUS

LEMMA CacheInvInit == CacheInit => CacheInv
<1> SUFFICES ASSUME CacheInit PROVE CacheInv
    OBVIOUS
<1> USE CacheAssumption DEF CacheInit
<1>1. CacheTypeOK
    <2>1. cache \in [CacheIDs -> Entry] /\ next \in [Threads -> CacheIDs]
        BY DEF Entry, CacheIDs
    <2>2. pc \in [Threads -> Pcs] /\ status \in [Threads -> Status]
        BY DEF Pcs, Status
    <2>3. op \in [Threads -> CallNames \cup {nil}] /\ arg \in [Threads -> LevelIDs \cup Targets \cup {nil}]
        OBVIOUS
    <2>4. seen \in [Threads -> SUBSET Status]
        OBVIOUS
    <2> QED BY <2>1, <2>2, <2>3, <2>4 DEF CacheTypeOK
<1>2. Control /\ Exclusion /\ Untouched
    BY DEF Control, Exclusion, Untouched, Checking, Replacing
<1>3. NoLastEntry /\ OthersHaveEntry
    BY DEF NoLastEntry, OthersHaveEntry, CacheIDs
<1>4. Cleared /\ Pending /\ SeenNow
    BY DEF Cleared, Pending, SeenNow, Checking, Replacing
<1>5. Coherent /\ NoFalseEnable
    BY DEF Coherent, NoFalseEnable, Status, CacheIDs
<1>6. FreshAnswer /\ OnlyLastPanics
    BY DEF FreshAnswer, Fresh, OnlyLastPanics
<1> QED BY <1>1, <1>2, <1>3, <1>4, <1>5, <1>6 DEF CacheInv

LEMMA CacheInvStep == CacheInv /\ [CacheNext]_cacheVars => CacheInv'
<1> SUFFICES ASSUME CacheInv, [CacheNext]_cacheVars PROVE CacheInv'
    OBVIOUS
<1> USE CacheAssumption DEF CacheInv, Begin, lgrVars, pubVars
<1>1. ASSUME NEW t \in Threads, NEW id \in LevelIDs, IsLevelEnabled(t, id) PROVE CacheInv'
    <2> USE DEF IsLevelEnabled
    <2>1. CacheTypeOK'
        <3>1. pc' \in [Threads -> Pcs] /\ status' \in [Threads -> Status]
            BY <1>1 DEF CacheTypeOK, Pcs, Status
        <3>2. op' \in [Threads -> CallNames \cup {nil}] /\ arg' \in [Threads -> LevelIDs \cup Targets \cup {nil}]
            BY <1>1 DEF CacheTypeOK, CallNames
        <3>3. seen' \in [Threads -> SUBSET Status]
            <4>1. {Answer(pubTargets, pubFilter, id)} \cup (IF shutdown THEN {"off"} ELSE {}) \in SUBSET Status
                BY ComputedStatus DEF Status
            <4> QED BY <1>1, <4>1 DEF CacheTypeOK
        <3> QED BY <1>1, <3>1, <3>2, <3>3 DEF CacheTypeOK
    <2>2. Control'
        BY <1>1 DEF Control, CacheTypeOK, Checking, Replacing
    <2>3. Exclusion'
        BY <1>1 DEF Exclusion, CacheTypeOK, Control, Replacing
    <2>4. Untouched'
        BY <1>1 DEF Untouched, CacheTypeOK
    <2>5. NoLastEntry'
        BY <1>1 DEF NoLastEntry, CacheTypeOK, CacheIDs
    <2>6. OthersHaveEntry'
        BY <1>1 DEF OthersHaveEntry, CacheTypeOK, CacheIDs, Status
    <2>7. Cleared'
        BY <1>1 DEF Cleared, CacheTypeOK, Control, Exclusion, Replacing, CacheIDs, Status
    <2>8. Pending'
        BY <1>1 DEF Pending, CacheTypeOK, Control, Exclusion, Replacing
    <2>9. SeenNow'
        BY <1>1 DEF SeenNow, CacheTypeOK, Control, Checking
    <2>10. Coherent'
        BY <1>1 DEF Coherent, CacheTypeOK, CacheIDs, Status
    <2>11. FreshAnswer'
        BY <1>1 DEF FreshAnswer, CacheTypeOK, Fresh, Control, Checking
    <2>12. NoFalseEnable'
        BY <1>1 DEF NoFalseEnable, CacheTypeOK, CacheIDs, Status
    <2>13. OnlyLastPanics'
        BY <1>1 DEF OnlyLastPanics, CacheTypeOK, Control, Checking
    <2> QED BY <2>1, <2>2, <2>3, <2>4, <2>5, <2>6, <2>7, <2>8, <2>9, <2>10, <2>11, <2>12, <2>13
<1>2. ASSUME NEW t \in Threads, CacheGet(t) PROVE CacheInv'
    <2> USE DEF CacheGet
    <2>1. /\ pc'[t] \in {"panic", "rlock", "return"} /\ \A u \in Threads \ {t} : pc'[u] = pc[u]
          /\ \A u \in Threads : Replacing(u)' <=> Replacing(u)
        BY <1>2 DEF CacheTypeOK, Replacing
    <2>2. arg[t] \in LevelIDs
        BY <1>2 DEF Control, Checking
    <2>3. pc'[t] = "return" => arg[t] \in CacheIDs /\ cache[arg[t]] \in Status /\ status' = [status EXCEPT ![t] = cache[arg[t]]]
        <3>1. CASE arg[t] \in CacheIDs
            BY <1>2, <2>2, <3>1, CacheRange DEF CacheTypeOK, Status
        <3>2. CASE arg[t] \notin CacheIDs
            BY <1>2, <2>2, <3>2, CacheRange DEF CacheTypeOK, Status
        <3> QED BY <3>1, <3>2
    <2>4. pc'[t] # "return" => status' = status
        BY <1>2, <2>2 DEF CacheTypeOK
    <2>5. CacheTypeOK'
        <3>1. pc' \in [Threads -> Pcs]
            BY <1>2 DEF CacheTypeOK, Pcs
        <3>2. status' \in [Threads -> Status]
            BY <2>1, <2>3, <2>4 DEF CacheTypeOK
        <3> QED BY <1>2, <3>1, <3>2 DEF CacheTypeOK
    <2>6. Control'
        BY <1>2 DEF Control, CacheTypeOK, Checking, Replacing
    <2>7. Exclusion'
        BY <1>2 DEF Exclusion, CacheTypeOK, Control, Replacing
    <2>8. Untouched'
        BY <1>2 DEF Untouched, CacheTypeOK
    <2>9. NoLastEntry'
        BY <1>2 DEF NoLastEntry, CacheTypeOK, CacheIDs
    <2>10. OthersHaveEntry'
        BY <1>2 DEF OthersHaveEntry, CacheTypeOK, CacheIDs, Status
    <2>11. Cleared'
        <3>1. cache' = cache /\ next' = next
            BY <1>2
        <3> QED BY <3>1, <2>1 DEF Cleared, Replacing
    <2>12. Pending'
        BY <1>2 DEF Pending, CacheTypeOK, Control, Exclusion, Replacing
    <2>13. SeenNow'
        BY <1>2 DEF SeenNow, CacheTypeOK, Control, Checking
    <2>14. Coherent'
        BY <1>2 DEF Coherent, CacheTypeOK, CacheIDs, Status
    <2>15. FreshAnswer'
        <3>1. op' = op /\ arg' = arg /\ touched' = touched /\ seen' = seen
            BY <1>2
        <3>2. ASSUME arg[t] \notin touched, pc'[t] = "return" PROVE status'[t] \in seen[t]
            <4>1. status'[t] = cache[arg[t]]
                BY <3>2, <2>3 DEF CacheTypeOK
            <4>2. cache[arg[t]] = Answer(pubTargets, pubFilter, arg[t])
                BY <3>2, <2>2, <2>3, CacheRange DEF Coherent, Answer
            <4> QED BY <1>2, <4>1, <4>2 DEF SeenNow, Checking
        <3>3. \A u \in Threads \ {t} : pc'[u] = pc[u] /\ status'[u] = status[u]
            BY <2>1, <2>3, <2>4 DEF CacheTypeOK
        <3> QED BY <3>1, <3>2, <3>3 DEF FreshAnswer, Fresh
    <2>16. NoFalseEnable'
        BY <1>2 DEF NoFalseEnable, CacheTypeOK, CacheIDs, Status
    <2>17. OnlyLastPanics'
        <3>1. pc'[t] = "panic" => kind = "syncMap" /\ arg[t] = MaxLevelID
            BY <1>2, <2>2, CacheRange DEF CacheTypeOK, OthersHaveEntry
        <3> QED BY <1>2, <3>1, <2>1 DEF OnlyLastPanics
    <2> QED BY <2>5, <2>6, <2>7, <2>8, <2>9, <2>10, <2>11, <2>12, <2>13, <2>14, <2>15, <2>16, <2>17
<1>3. ASSUME NEW t \in Threads, CheckTargets(t) PROVE CacheInv'
    <2> USE DEF CheckTargets
    <2>1. CacheTypeOK'
        <3>1. pc' \in [Threads -> Pcs]
            BY <1>3 DEF CacheTypeOK, Pcs
        <3>2. status' \in [Threads -> Status]
            BY <1>3, ComputedStatus DEF CacheTypeOK
        <3> QED BY <1>3, <3>1, <3>2 DEF CacheTypeOK
    <2>2. Control'
        BY <1>3 DEF Control, CacheTypeOK, Checking, Replacing
    <2>3. Exclusion'
        BY <1>3 DEF Exclusion, CacheTypeOK, Control, Replacing
    <2>4. Untouched'
        BY <1>3 DEF Untouched, CacheTypeOK
    <2>5. NoLastEntry'
        BY <1>3 DEF NoLastEntry, CacheTypeOK, CacheIDs
    <2>6. OthersHaveEntry'
        BY <1>3 DEF OthersHaveEntry, CacheTypeOK, CacheIDs, Status
    <2>7. Cleared'
        BY <1>3 DEF Cleared, CacheTypeOK, Control, Exclusion, Replacing, CacheIDs, Status
    <2>8. Pending'
        BY <1>3 DEF Pending, CacheTypeOK, Control, Exclusion, Replacing
    <2>9. SeenNow'
        BY <1>3 DEF SeenNow, CacheTypeOK, Control, Checking
    <2>10. Coherent'
        BY <1>3 DEF Coherent, CacheTypeOK, CacheIDs, Status
    <2>11. FreshAnswer'
        BY <1>3 DEF FreshAnswer, CacheTypeOK, Fresh, Control, Checking
    <2>12. NoFalseEnable'
        BY <1>3 DEF NoFalseEnable, CacheTypeOK, CacheIDs, Status
    <2>13. OnlyLastPanics'
        BY <1>3 DEF OnlyLastPanics, CacheTypeOK, Control, Checking
    <2> QED BY <2>1, <2>2, <2>3, <2>4, <2>5, <2>6, <2>7, <2>8, <2>9, <2>10, <2>11, <2>12, <2>13
<1>4. ASSUME NEW t \in Threads, CachePut(t) PROVE CacheInv'
    <2> USE DEF CachePut
    <2>1. /\ pc'[t] = "return" /\ \A u \in Threads \ {t} : pc'[u] = pc[u]
          /\ op' = op /\ arg' = arg /\ seen' = seen /\ touched' = touched /\ filter' = filter
          /\ pubTargets' = pubTargets /\ pubFilter' = pubFilter
        BY <1>4 DEF CacheTypeOK
    <2>2. targets = pubTargets /\ arg[t] \in LevelIDs
        BY <1>4 DEF Control, Checking, Exclusion
    <2>3. arg[t] \in CacheIDs => status' = status /\ cache' = [cache EXCEPT ![arg[t]] = status[t]]
        BY <1>4, <2>2, CacheRange
    <2>4. arg[t] \notin CacheIDs => cache' = cache /\ status' = [status EXCEPT ![t] = "off"]
        BY <1>4, <2>2, CacheRange
    <2>5. arg[t] \notin touched => status[t] = Computed(pubTargets, pubFilter, arg[t])
        <3>1. \A h \in targets : arg[t] \notin touched => filter[h][arg[t]] = pubFilter[h][arg[t]]
            BY <2>2 DEF Untouched, CacheTypeOK
        <3> QED BY <1>4, <2>2, <3>1, ComputedSame DEF Pending
    <2>6. CacheTypeOK'
        <3>1. pc' \in [Threads -> Pcs]
            BY <1>4 DEF CacheTypeOK, Pcs
        <3>2. status' \in [Threads -> Status] /\ cache' \in [CacheIDs -> Entry]
            BY <2>3, <2>4 DEF CacheTypeOK, Entry, Status
        <3> QED BY <1>4, <3>1, <3>2 DEF CacheTypeOK
    <2>7. Control'
        BY <1>4 DEF Control, CacheTypeOK, Checking, Replacing
    <2>8. Exclusion'
        BY <1>4 DEF Exclusion, CacheTypeOK, Control, Replacing
    <2>9. Untouched'
        BY <1>4 DEF Untouched, CacheTypeOK
    <2>10. NoLastEntry'
        BY <1>4 DEF NoLastEntry, CacheTypeOK, CacheIDs
    <2>11. OthersHaveEntry'
        <3>1. status[t] # "absent"
            BY DEF CacheTypeOK, Status
        <3>2. \A id \in CacheIDs : cache'[id] = cache[id] \/ cache'[id] = status[t]
            BY <2>3, <2>4 DEF CacheTypeOK
        <3> QED BY <1>4, <3>1, <3>2 DEF OthersHaveEntry
    <2>12. Cleared'
        BY <1>4 DEF Cleared, CacheTypeOK, Control, Exclusion, Replacing, CacheIDs, Status
    <2>13. Pending'
        BY <1>4 DEF Pending, CacheTypeOK, Control, Exclusion, Replacing
    <2>14. SeenNow'
        BY <1>4 DEF SeenNow, CacheTypeOK, Control, Checking
    <2>15. Coherent'
        <3>1. \A id \in CacheIDs : cache'[id] = cache[id] \/ (id = arg[t] /\ cache'[id] = status[t])
            BY <2>3, <2>4 DEF CacheTypeOK
        <3> QED BY <3>1, <2>1, <2>5 DEF Coherent
    <2>16. FreshAnswer'
        <3>1. ASSUME arg[t] \notin touched PROVE status'[t] \in seen[t]
            <4>1. status'[t] = Answer(pubTargets, pubFilter, arg[t])
                BY <3>1, <2>2, <2>3, <2>4, <2>5, CacheRange DEF Answer, CacheTypeOK
            <4> QED BY <1>4, <4>1 DEF SeenNow, Checking
        <3>2. \A u \in Threads \ {t} : status'[u] = status[u]
            BY <2>3, <2>4 DEF CacheTypeOK
        <3> QED BY <3>1, <3>2, <2>1 DEF FreshAnswer, Fresh
    <2>17. NoFalseEnable'
        <3>1. \A id \in CacheIDs : cache'[id] = cache[id] \/ (id = arg[t] /\ cache'[id] = status[t])
            BY <2>3, <2>4 DEF CacheTypeOK
        <3>2. status[t] # "off" => Computed(pubTargets, filter, arg[t]) # "off"
            BY <1>4, <2>2 DEF Pending
        <3> QED BY <3>1, <3>2, <2>1 DEF NoFalseEnable
    <2>18. OnlyLastPanics'
        BY <1>4 DEF OnlyLastPanics, CacheTypeOK, Control, Checking
    <2> QED BY <2>6, <2>7, <2>8, <2>9, <2>10, <2>11, <2>12, <2>13, <2>14, <2>15, <2>16, <2>17, <2>18
<1>5. ASSUME NEW t \in Threads, Return(t) PROVE CacheInv'
    <2> USE DEF Return
    <2>1. CacheTypeOK'
        BY <1>5 DEF CacheTypeOK, Pcs, CacheIDs, Entry, Status, CallNames
    <2>2. Control'
        BY <1>5 DEF Control, CacheTypeOK, Checking, Replacing
    <2>3. Exclusion'
        BY <1>5 DEF Exclusion, CacheTypeOK, Control, Replacing
    <2>4. Untouched'
        BY <1>5 DEF Untouched, CacheTypeOK
    <2>5. NoLastEntry'
        BY <1>5 DEF NoLastEntry, CacheTypeOK, CacheIDs
    <2>6. OthersHaveEntry'
        BY <1>5 DEF OthersHaveEntry, CacheTypeOK, CacheIDs, Status
    <2>7. Cleared'
        BY <1>5 DEF Cleared, CacheTypeOK, Control, Exclusion, Replacing, CacheIDs, Status
    <2>8. Pending'
        BY <1>5 DEF Pending, CacheTypeOK, Control, Exclusion, Replacing
    <2>9. SeenNow'
        BY <1>5 DEF SeenNow, CacheTypeOK, Control, Checking
    <2>10. Coherent'
        BY <1>5 DEF Coherent, CacheTypeOK, CacheIDs, Status
    <2>11. FreshAnswer'
        BY <1>5 DEF FreshAnswer, CacheTypeOK, Fresh, Control, Checking
    <2>12. NoFalseEnable'
        BY <1>5 DEF NoFalseEnable, CacheTypeOK, CacheIDs, Status
    <2>13. OnlyLastPanics'
        BY <1>5 DEF OnlyLastPanics, CacheTypeOK, Control, Checking
    <2> QED BY <2>1, <2>2, <2>3, <2>4, <2>5, <2>6, <2>7, <2>8, <2>9, <2>10, <2>11, <2>12, <2>13
<1>6. ASSUME NEW t \in Threads, NEW h \in Targets, AddTarget(t, h) PROVE CacheInv'
    <2> USE DEF AddTarget
    <2>1. CacheTypeOK'
        BY <1>6 DEF CacheTypeOK, Pcs, CacheIDs, Entry, Status, CallNames
    <2>2. Control'
        BY <1>6 DEF Control, CacheTypeOK, Checking, Replacing
    <2>3. Exclusion'
        BY <1>6 DEF Exclusion, CacheTypeOK, Control, Replacing
    <2>4. Untouched'
        BY <1>6 DEF Untouched, CacheTypeOK
    <2>5. NoLastEntry'
        BY <1>6 DEF NoLastEntry, CacheTypeOK, CacheIDs
    <2>6. OthersHaveEntry'
        BY <1>6 DEF OthersHaveEntry, CacheTypeOK, CacheIDs, Status
    <2>7. Cleared'
        BY <1>6 DEF Cleared, CacheTypeOK, Control, Exclusion, Replacing, CacheIDs, Status
    <2>8. Pending'
        BY <1>6 DEF Pending, CacheTypeOK, Control, Exclusion, Replacing
    <2>9. SeenNow'
        BY <1>6 DEF SeenNow, CacheTypeOK, Control, Checking
    <2>10. Coherent'
        BY <1>6 DEF Coherent, CacheTypeOK, CacheIDs, Status
    <2>11. FreshAnswer'
        BY <1>6 DEF FreshAnswer, CacheTypeOK, Fresh, Control, Checking
    <2>12. NoFalseEnable'
        BY <1>6 DEF NoFalseEnable, CacheTypeOK, CacheIDs, Status
    <2>13. OnlyLastPanics'
        BY <1>6 DEF OnlyLastPanics, CacheTypeOK, Control, Checking
    <2> QED BY <2>1, <2>2, <2>3, <2>4, <2>5, <2>6, <2>7, <2>8, <2>9, <2>10, <2>11, <2>12, <2>13
<1>7. ASSUME NEW t \in Threads, NEW h \in Targets, RemoveTargets(t, h) PROVE CacheInv'
    <2> USE DEF RemoveTargets
    <2>1. CacheTypeOK'
        BY <1>7 DEF CacheTypeOK, Pcs, CacheIDs, Entry, Status, CallNames
    <2>2. Control'
        BY <1>7 DEF Control, CacheTypeOK, Checking, Replacing
    <2>3. Exclusion'
        BY <1>7 DEF Exclusion, CacheTypeOK, Control, Replacing
    <2>4. Untouched'
        BY <1>7 DEF Untouched, CacheTypeOK
    <2>5. NoLastEntry'
        BY <1>7 DEF NoLastEntry, CacheTypeOK, CacheIDs
    <2>6. OthersHaveEntry'
        BY <1>7 DEF OthersHaveEntry, CacheTypeOK, CacheIDs, Status
    <2>7. Cleared'
        BY <1>7 DEF Cleared, CacheTypeOK, Control, Exclusion, Replacing, CacheIDs, Status
    <2>8. Pending'
        BY <1>7 DEF Pending, CacheTypeOK, Control, Exclusion, Replacing
    <2>9. SeenNow'
        BY <1>7 DEF SeenNow, CacheTypeOK, Control, Checking
    <2>10. Coherent'
        BY <1>7 DEF Coherent, CacheTypeOK, CacheIDs, Status
    <2>11. FreshAnswer'
        BY <1>7 DEF FreshAnswer, CacheTypeOK, Fresh, Control, Checking
    <2>12. NoFalseEnable'
        BY <1>7 DEF NoFalseEnable, CacheTypeOK, CacheIDs, Status
    <2>13. OnlyLastPanics'
        BY <1>7 DEF OnlyLastPanics, CacheTypeOK, Control, Checking
    <2> QED BY <2>1, <2>2, <2>3, <2>4, <2>5, <2>6, <2>7, <2>8, <2>9, <2>10, <2>11, <2>12, <2>13
<1>8. ASSUME NEW t \in Threads, Assign(t) PROVE CacheInv'
    <2> USE DEF Assign
    <2>1. CacheTypeOK'
        <3>1. pc' \in [Threads -> Pcs] /\ next' \in [Threads -> CacheIDs]
            BY <1>8 DEF CacheTypeOK, Pcs, CacheIDs
        <3>2. targets' \in SUBSET Targets
            BY <1>8 DEF CacheTypeOK, Control
        <3> QED BY <1>8, <3>1, <3>2 DEF CacheTypeOK
    <2>2. Control'
        BY <1>8 DEF Control, CacheTypeOK, Checking, Replacing
    <2>3. Exclusion'
        BY <1>8 DEF Exclusion, CacheTypeOK, Control, Replacing
    <2>4. Untouched'
        BY <1>8 DEF Untouched, CacheTypeOK
    <2>5. NoLastEntry'
        BY <1>8 DEF NoLastEntry, CacheTypeOK, CacheIDs
    <2>6. OthersHaveEntry'
        BY <1>8 DEF OthersHaveEntry, CacheTypeOK, CacheIDs, Status
    <2>7. Cleared'
        BY <1>8 DEF Cleared, CacheTypeOK, Control, Exclusion, Replacing, CacheIDs, Status
    <2>8. Pending'
        BY <1>8 DEF Pending, CacheTypeOK, Control, Exclusion, Replacing
    <2>9. SeenNow'
        BY <1>8 DEF SeenNow, CacheTypeOK, Control, Checking
    <2>10. Coherent'
        BY <1>8 DEF Coherent, CacheTypeOK, CacheIDs, Status
    <2>11. FreshAnswer'
        BY <1>8 DEF FreshAnswer, CacheTypeOK, Fresh, Control, Checking
    <2>12. NoFalseEnable'
        BY <1>8 DEF NoFalseEnable, CacheTypeOK, CacheIDs, Status
    <2>13. OnlyLastPanics'
        BY <1>8 DEF OnlyLastPanics, CacheTypeOK, Control, Checking
    <2> QED BY <2>1, <2>2, <2>3, <2>4, <2>5, <2>6, <2>7, <2>8, <2>9, <2>10, <2>11, <2>12, <2>13
<1>9. ASSUME NEW t \in Threads, Shutdown(t) PROVE CacheInv'
    <2> USE DEF Shutdown
    <2>1. CacheTypeOK'
        BY <1>9 DEF CacheTypeOK, Pcs, CacheIDs, Entry, Status, CallNames
    <2>2. Control'
        BY <1>9 DEF Control, CacheTypeOK, Checking, Replacing
    <2>3. Exclusion'
        BY <1>9 DEF Exclusion, CacheTypeOK, Control, Replacing
    <2>4. Untouched'
        BY <1>9 DEF Untouched, CacheTypeOK
    <2>5. NoLastEntry'
        BY <1>9 DEF NoLastEntry, CacheTypeOK, CacheIDs
    <2>6. OthersHaveEntry'
        BY <1>9 DEF OthersHaveEntry, CacheTypeOK, CacheIDs, Status
    <2>7. Cleared'
        BY <1>9 DEF Cleared, CacheTypeOK, Control, Exclusion, Replacing, CacheIDs, Status
    <2>8. Pending'
        BY <1>9 DEF Pending, CacheTypeOK, Control, Exclusion, Replacing
    <2>9. SeenNow'
        BY <1>9 DEF SeenNow, CacheTypeOK, Control, Checking
    <2>10. Coherent'
        BY <1>9 DEF Coherent, CacheTypeOK, CacheIDs, Status
    <2>11. FreshAnswer'
        BY <1>9 DEF FreshAnswer, CacheTypeOK, Fresh, Control, Checking
    <2>12. NoFalseEnable'
        BY <1>9 DEF NoFalseEnable, CacheTypeOK, CacheIDs, Status
    <2>13. OnlyLastPanics'
        BY <1>9 DEF OnlyLastPanics, CacheTypeOK, Control, Checking
    <2> QED BY <2>1, <2>2, <2>3, <2>4, <2>5, <2>6, <2>7, <2>8, <2>9, <2>10, <2>11, <2>12, <2>13
<1>10. ASSUME NEW t \in Threads, ResetLevelCache(t) PROVE CacheInv'
    <2> USE DEF ResetLevelCache
    <2>1. CacheTypeOK'
        BY <1>10 DEF CacheTypeOK, Pcs, CacheIDs, Entry, Status, CallNames
    <2>2. Control'
        BY <1>10 DEF Control, CacheTypeOK, Checking, Replacing
    <2>3. Exclusion'
        BY <1>10 DEF Exclusion, CacheTypeOK, Control, Replacing
    <2>4. Untouched'
        BY <1>10 DEF Untouched, CacheTypeOK
    <2>5. NoLastEntry'
        BY <1>10 DEF NoLastEntry, CacheTypeOK, CacheIDs
    <2>6. OthersHaveEntry'
        BY <1>10 DEF OthersHaveEntry, CacheTypeOK, CacheIDs, Status
    <2>7. Cleared'
        BY <1>10 DEF Cleared, CacheTypeOK, Control, Exclusion, Replacing, CacheIDs, Status
    <2>8. Pending'
        BY <1>10 DEF Pending, CacheTypeOK, Control, Exclusion, Replacing
    <2>9. SeenNow'
        BY <1>10 DEF SeenNow, CacheTypeOK, Control, Checking
    <2>10. Coherent'
        BY <1>10 DEF Coherent, CacheTypeOK, CacheIDs, Status
    <2>11. FreshAnswer'
        BY <1>10 DEF FreshAnswer, CacheTypeOK, Fresh, Control, Checking
    <2>12. NoFalseEnable'
        BY <1>10 DEF NoFalseEnable, CacheTypeOK, CacheIDs, Status
    <2>13. OnlyLastPanics'
        BY <1>10 DEF OnlyLastPanics, CacheTypeOK, Control, Checking
    <2> QED BY <2>1, <2>2, <2>3, <2>4, <2>5, <2>6, <2>7, <2>8, <2>9, <2>10, <2>11, <2>12, <2>13
<1>11. ASSUME NEW t \in Threads, NEW h \in Custom, NEW id \in LevelIDs, NEW v \in {"on", "stack"}, FilterAdd(t, h, id, v) PROVE CacheInv'
    <2> USE DEF FilterAdd
    <2>1. h \in Targets /\ v \in Status /\ v # "off"
        BY DEF Status
    <2>2. /\ filter' \in [Targets -> [LevelIDs -> Status]]
          /\ \A k \in Targets, i \in LevelIDs : filter'[k][i] = IF k = h /\ i = id THEN v ELSE filter[k][i]
        <3>1. filter' = [filter EXCEPT ![h][id] = v] /\ filter \in [Targets -> [LevelIDs -> Status]]
            BY <1>11 DEF CacheTypeOK
        <3> QED BY <3>1, <2>1, FilterChange
    <2>3. /\ pubFilter' \in [Targets -> [LevelIDs -> Status]]
          /\ \A k \in Targets, i \in LevelIDs \ {id} : pubFilter'[k][i] = pubFilter[k][i]
        <3>1. /\ pubFilter' = [pubFilter EXCEPT ![h][id] = v] \/ pubFilter' = pubFilter
              /\ pubFilter \in [Targets -> [LevelIDs -> Status]]
            BY <1>11 DEF CacheTypeOK, Publish
        <3>2. CASE pubFilter' = [pubFilter EXCEPT ![h][id] = v]
            BY <3>1, <3>2, <2>1, FilterChange
        <3>3. CASE pubFilter' = pubFilter
            BY <3>1, <3>3
        <3> QED BY <3>1, <3>2, <3>3
    <2>4. /\ touched' = touched \cup {id} /\ pubTargets' = pubTargets /\ cache' = cache /\ targets' = targets
          /\ kind' = kind /\ readers' = readers /\ writer' = writer /\ status' = status /\ shutdown' = shutdown
        BY <1>11 DEF Publish
    <2>5. /\ pc[t] = "idle" /\ pc'[t] \in {"return", "clear"} /\ op'[t] \in {"filterAdd", "filterReset"}
          /\ \A u \in Threads \ {t} : /\ pc'[u] = pc[u] /\ op'[u] = op[u] /\ arg'[u] = arg[u]
                                      /\ next'[u] = next[u]
        BY <1>11 DEF CacheTypeOK
    <2>6. ~Checking(t)' /\ \A u \in Threads \ {t} : Checking(u)' <=> Checking(u)
        BY <2>5 DEF Checking
    <2>7. \A u \in Threads \ {t} : Checking(u) =>
              seen[u] \subseteq seen'[u] /\ Answer(pubTargets, pubFilter', arg[u]) \in seen'[u]
        <3>1. \A u \in Threads : Checking(u) => op[u] = "check" /\ Answer(pubTargets, pubFilter, arg[u]) \in seen[u]
            BY DEF Control, SeenNow
        <3>2. \/ seen' = seen /\ pubFilter' = pubFilter
              \/ seen' = [u \in Threads |-> IF op[u] = "check"
                            THEN seen[u] \cup {Answer(pubTargets, pubFilter', arg[u])} ELSE seen[u]]
            BY <1>11 DEF Publish
        <3> QED BY <3>1, <3>2
    <2>8. CacheTypeOK'
        <3>1. /\ pc' = [pc EXCEPT ![t] = pc'[t]] /\ op' = [op EXCEPT ![t] = op'[t]]
              /\ arg' = [arg EXCEPT ![t] = h] /\ next' = [next EXCEPT ![t] = next'[t]] /\ next'[t] \in {next[t], 0}
            BY <1>11 DEF CacheTypeOK
        <3>2. pc' \in [Threads -> Pcs]
            BY <3>1, <2>5 DEF CacheTypeOK, Pcs
        <3>3. op' \in [Threads -> CallNames \cup {nil}] /\ arg' \in [Threads -> LevelIDs \cup Targets \cup {nil}]
            <4>1. op'[t] \in CallNames
                BY <2>5 DEF CallNames
            <4> QED BY <3>1, <4>1, <2>1 DEF CacheTypeOK
        <3>4. next' \in [Threads -> CacheIDs]
            <4>1. 0 \in CacheIDs
                BY DEF CacheIDs
            <4> QED BY <3>1, <4>1 DEF CacheTypeOK
        <3>5. seen' \in [Threads -> SUBSET Status]
            <4>1. CASE seen' = seen
                BY <4>1 DEF CacheTypeOK
            <4>2. CASE seen' # seen
                <5>1. Publish(pubTargets, [pubFilter EXCEPT ![h][id] = v])
                    BY <1>11, <4>2
                <5> QED BY <5>1, ComputedStatus DEF CacheTypeOK, Publish
            <4> QED BY <4>1, <4>2
        <3> QED BY <3>2, <3>3, <3>4, <3>5, <2>2, <2>3, <2>4 DEF CacheTypeOK
    <2>9. Control'
        BY <1>11 DEF Control, CacheTypeOK, Checking, Replacing
    <2>10. Exclusion'
        BY <2>4 DEF Exclusion
    <2>11. Untouched'
        BY <2>2, <2>3, <2>4 DEF Untouched
    <2>12. NoLastEntry'
        BY <1>11 DEF NoLastEntry, CacheTypeOK, CacheIDs
    <2>13. OthersHaveEntry'
        BY <1>11 DEF OthersHaveEntry, CacheTypeOK, CacheIDs, Status
    <2>14. Cleared'
        <3>1. \A u \in Threads : Replacing(u)' => u # t /\ Replacing(u)
            BY <2>5 DEF Replacing
        <3> QED BY <3>1, <2>4, <2>5 DEF Cleared
    <2>15. Pending'
        <3> SUFFICES ASSUME NEW u \in Threads, pc'[u] = "put"
                     PROVE  /\ arg[u] \notin touched \cup {id} => status[u] = Computed(targets, filter', arg[u])
                            /\ status[u] # "off" => Computed(targets, filter', arg[u]) # "off"
            BY <2>4, <2>5 DEF Pending
        <3>1. u # t /\ pc[u] = "put" /\ arg[u] \in LevelIDs
            BY <2>5 DEF Control, Checking
        <3>2. targets \in SUBSET Targets /\ filter \in [Targets -> [LevelIDs -> Status]]
            BY DEF CacheTypeOK
        <3>3. arg[u] # id => Computed(targets, filter', arg[u]) = Computed(targets, filter, arg[u])
            <4>1. arg[u] # id => \A k \in targets : filter'[k][arg[u]] = filter[k][arg[u]]
                BY <3>1, <3>2, <2>2
            <4> QED BY <4>1, ComputedSame
        <3>4. \A i \in LevelIDs : Computed(targets, filter', i) = "off" => Computed(targets, filter, i) = "off"
            BY <3>2, <2>1, <2>2, ComputedOff
        <3> QED BY <3>1, <3>3, <3>4 DEF Pending
    <2>16. SeenNow'
        BY <2>4, <2>5, <2>6, <2>7 DEF SeenNow
    <2>17. Coherent'
        <3>1. \A i \in LevelIDs \ {id} : Computed(pubTargets, pubFilter', i) = Computed(pubTargets, pubFilter, i)
            BY <2>3, ComputedSame DEF CacheTypeOK
        <3> QED BY <3>1, <2>4 DEF Coherent
    <2>18. FreshAnswer'
        <3>1. \A u \in Threads : Fresh(u)' \/ (u # t /\ Checking(u) /\ pc'[u] = pc[u] /\ arg'[u] = arg[u] /\ op'[u] = op[u])
            BY <2>5 DEF Fresh, Checking
        <3> QED BY <3>1, <2>4, <2>7 DEF FreshAnswer, Fresh
    <2>19. NoFalseEnable'
        <3>1. pubTargets \in SUBSET Targets /\ filter \in [Targets -> [LevelIDs -> Status]]
            BY DEF CacheTypeOK
        <3>2. \A i \in LevelIDs : Computed(pubTargets, filter', i) = "off" => Computed(pubTargets, filter, i) = "off"
            BY <3>1, <2>1, <2>2, ComputedOff
        <3> QED BY <3>2, <2>4 DEF NoFalseEnable
    <2>20. OnlyLastPanics'
        BY <1>11 DEF OnlyLastPanics, CacheTypeOK, Control, Checking
    <2> QED BY <2>8, <2>9, <2>10, <2>11, <2>12, <2>13, <2>14, <2>15, <2>16, <2>17, <2>18, <2>19, <2>20
<1>12. ASSUME NEW t \in Threads, CacheClear(t) PROVE CacheInv'
    <2> USE DEF CacheClear
    <2>1. CacheTypeOK'
        <3>1. pc' \in [Threads -> Pcs]
            BY <1>12 DEF CacheTypeOK, Pcs
        <3>2. cache' \in [CacheIDs -> Entry]
            <4>1. "empty" \in Entry
                BY DEF Entry
            <4> QED BY <1>12, <4>1 DEF CacheTypeOK
        <3>3. next' \in [Threads -> CacheIDs]
            BY <1>12 DEF CacheTypeOK, CacheIDs
        <3> QED BY <1>12, <3>1, <3>2, <3>3 DEF CacheTypeOK
    <2>2. Control'
        BY <1>12 DEF Control, CacheTypeOK, Checking, Replacing
    <2>3. Exclusion'
        BY <1>12 DEF Exclusion, CacheTypeOK, Control, Replacing
    <2>4. Untouched'
        BY <1>12 DEF Untouched, CacheTypeOK
    <2>5. NoLastEntry'
        BY <1>12 DEF NoLastEntry, CacheTypeOK, CacheIDs
    <2>6. OthersHaveEntry'
        BY <1>12 DEF OthersHaveEntry, CacheTypeOK, CacheIDs, Status
    <2>7. Cleared'
        <3>1. \A u \in Threads : Replacing(u)' <=> Replacing(u)
            BY <1>12 DEF Replacing, CacheTypeOK
        <3>2. \A id \in CacheIDs : cache[id] \notin Status => cache'[id] \notin Status
            BY <1>12 DEF CacheTypeOK, Status
        <3>3. \A u \in Threads \ {t} : pc'[u] = pc[u] /\ next'[u] = next[u]
            BY <1>12 DEF CacheTypeOK
        <3>4. ASSUME Replacing(t) PROVE \A id \in CacheIDs : pc'[t] = "unlock" \/ id < next'[t] => cache'[id] \notin Status
            <4>1. CASE kind = "array"
                BY <1>12, <4>1 DEF CacheTypeOK, Status
            <4>2. CASE kind # "array" /\ next[t] < MaxLevelID
                BY <1>12, <4>2, <3>2, <3>4 DEF CacheTypeOK, CacheIDs, Cleared, Status
            <4>3. CASE kind # "array" /\ ~(next[t] < MaxLevelID)
                <5>1. kind = "syncMap" /\ cache' = cache /\ next[t] = MaxLevelID /\ next' = next
                    BY <1>12, <4>3 DEF CacheTypeOK, CacheIDs
                <5> QED BY <5>1, <3>4 DEF Cleared, NoLastEntry, CacheIDs, Status
            <4> QED BY <4>1, <4>2, <4>3
        <3> QED BY <3>1, <3>2, <3>3, <3>4 DEF Cleared
    <2>8. Pending'
        BY <1>12 DEF Pending, CacheTypeOK, Control, Exclusion, Replacing
    <2>9. SeenNow'
        BY <1>12 DEF SeenNow, CacheTypeOK, Control, Checking
    <2>10. Coherent'
        BY <1>12 DEF Coherent, CacheTypeOK, CacheIDs, Status
    <2>11. FreshAnswer'
        BY <1>12 DEF FreshAnswer, CacheTypeOK, Fresh, Control, Checking
    <2>12. NoFalseEnable'
        BY <1>12 DEF NoFalseEnable, CacheTypeOK, CacheIDs, Status
    <2>13. OnlyLastPanics'
        BY <1>12 DEF OnlyLastPanics, CacheTypeOK, Control, Checking
    <2> QED BY <2>1, <2>2, <2>3, <2>4, <2>5, <2>6, <2>7, <2>8, <2>9, <2>10, <2>11, <2>12, <2>13
<1>13. ASSUME NEW t \in Threads, AfterClear(t) PROVE CacheInv'
    <2> USE DEF AfterClear
    <2>1. /\ pc'[t] = "return" /\ \A u \in Threads \ {t} : pc'[u] = pc[u]
          /\ op' = op /\ arg' = arg /\ status' = status /\ touched' = touched /\ cache' = cache
          /\ filter' = filter /\ targets' = targets /\ readers' = readers
        BY <1>13 DEF CacheTypeOK
    <2>2. op[t] # "check" /\ ~Checking(t)' /\ \A u \in Threads \ {t} : Checking(u)' <=> Checking(u)
        BY <1>13, <2>1 DEF Checking, Control
    <2>3. op[t] \in {"add", "remove"} =>
              /\ writer = t /\ writer' = nil /\ pubTargets' = targets /\ pubFilter' = pubFilter
              /\ \A id \in CacheIDs : cache[id] \notin Status
        BY <1>13 DEF Publish, Control, Cleared, Replacing
    <2>4. op[t] \notin {"add", "remove"} =>
              writer' = writer /\ pubTargets' = pubTargets /\ pubFilter' \in {pubFilter, filter}
        BY <1>13 DEF Publish
    <2>5. \A u \in Threads : Checking(u) =>
              seen[u] \subseteq seen'[u] /\ Answer(pubTargets', pubFilter', arg[u]) \in seen'[u]
        <3>1. \A u \in Threads : Checking(u) => op[u] = "check" /\ Answer(pubTargets, pubFilter, arg[u]) \in seen[u]
            BY DEF Control, SeenNow
        <3>2. \/ seen' = seen /\ pubFilter' = pubFilter /\ pubTargets' = pubTargets
              \/ seen' = [u \in Threads |-> IF op[u] = "check"
                            THEN seen[u] \cup {Answer(pubTargets', pubFilter', arg[u])} ELSE seen[u]]
            BY <1>13 DEF Publish
        <3> QED BY <3>1, <3>2
    <2>6. CacheTypeOK'
        <3>1. pc' \in [Threads -> Pcs] /\ writer' \in Threads \cup {nil}
            BY <1>13 DEF CacheTypeOK, Pcs
        <3>2. seen' \in [Threads -> SUBSET Status]
            BY <1>13, ComputedStatus DEF CacheTypeOK, Publish
        <3>3. pubTargets' \in SUBSET Targets /\ pubFilter' \in [Targets -> [LevelIDs -> Status]]
            BY <2>3, <2>4 DEF CacheTypeOK
        <3> QED BY <1>13, <3>1, <3>2, <3>3 DEF CacheTypeOK
    <2>7. Control'
        BY <1>13 DEF Control, CacheTypeOK, Checking, Replacing
    <2>8. Exclusion'
        BY <2>1, <2>3, <2>4 DEF Exclusion
    <2>9. Untouched'
        BY <2>1, <2>3, <2>4 DEF Untouched
    <2>10. NoLastEntry'
        BY <1>13 DEF NoLastEntry, CacheTypeOK, CacheIDs
    <2>11. OthersHaveEntry'
        BY <1>13 DEF OthersHaveEntry, CacheTypeOK, CacheIDs, Status
    <2>12. Cleared'
        BY <1>13 DEF Cleared, CacheTypeOK, Control, Exclusion, Replacing, CacheIDs, Status
    <2>13. Pending'
        BY <1>13 DEF Pending, CacheTypeOK, Control, Exclusion, Replacing
    <2>14. SeenNow'
        BY <2>1, <2>2, <2>5 DEF SeenNow
    <2>15. Coherent'
        <3>1. CASE op[t] \in {"add", "remove"}
            BY <3>1, <2>1, <2>3 DEF Coherent
        <3>2. CASE op[t] \notin {"add", "remove"}
            <4>1. \A id \in LevelIDs \ touched : Computed(pubTargets, pubFilter', id) = Computed(pubTargets, pubFilter, id)
                BY <3>2, <2>4, ComputedSame DEF Untouched, CacheTypeOK
            <4> QED BY <3>2, <4>1, <2>1, <2>4 DEF Coherent
        <3> QED BY <3>1, <3>2
    <2>16. FreshAnswer'
        <3>1. \A u \in Threads : Fresh(u)' \/ (u # t /\ Checking(u) /\ pc'[u] = pc[u])
            BY <2>1, <2>2 DEF Fresh, Checking
        <3> QED BY <3>1, <2>1, <2>5 DEF FreshAnswer, Fresh
    <2>17. NoFalseEnable'
        <3>1. CASE op[t] \in {"add", "remove"}
            BY <3>1, <2>1, <2>3 DEF NoFalseEnable, Status
        <3>2. CASE op[t] \notin {"add", "remove"}
            BY <3>2, <2>1, <2>4 DEF NoFalseEnable
        <3> QED BY <3>1, <3>2
    <2>18. OnlyLastPanics'
        BY <1>13 DEF OnlyLastPanics, CacheTypeOK, Control, Checking
    <2> QED BY <2>6, <2>7, <2>8, <2>9, <2>10, <2>11, <2>12, <2>13, <2>14, <2>15, <2>16, <2>17, <2>18
<1>14. CASE UNCHANGED cacheVars
    BY <1>14 DEF cacheVars, threadVars, CacheTypeOK, Control, Exclusion, Untouched, NoLastEntry, OthersHaveEntry,
        Cleared, Pending, SeenNow, Coherent, FreshAnswer, NoFalseEnable, OnlyLastPanics, Checking, Replacing, Fresh
<1>15. targets \subseteq Targets /\ Custom \subseteq Targets
    BY DEF CacheTypeOK
<1> HIDE DEF CacheInv
<1> QED BY <1>1, <1>2, <1>3, <1>4, <1>5, <1>6, <1>7, <1>8, <1>9, <1>10, <1>11, <1>12, <1>13, <1>14, <1>15 DEF CacheNext, CacheStep, CacheCall

LEMMA CacheInvariant == CacheSpec => []CacheInv
BY CacheInvInit, CacheInvStep, PTL DEF CacheSpec

-----------------------------------------------------------------------------

\* Every variable keeps its type; in particular an id out of range never makes
\* an entry of the cache (levelcache.go:33-98).
THEOREM CacheTypeCorrect == CacheSpec => []CacheTypeOK
<1>1. CacheInv => CacheTypeOK
    BY DEF CacheInv
<1> QED BY <1>1, CacheInvariant, PTL

\* The cache agrees with the published list at every level that was not added
\* to a filter in use: the read lock around the computation and the put, and the
\* write lock around the assignment and the clear, are enough, although get,
\* Shutdown and ResetLevelCache take neither (logr.go:113-115, 147-161, 225-226).
THEOREM CacheIsCoherent == CacheSpec => []Coherent
<1>1. CacheInv => Coherent
    BY DEF CacheInv
<1> QED BY <1>1, CacheInvariant, PTL

\* IsLevelEnabled answers what was true at some time in the course of the call
\* (logr.go:132-165).
THEOREM AnswersAreFresh == CacheSpec => []FreshAnswer
<1>1. CacheInv => FreshAnswer
    BY DEF CacheInv
<1> QED BY <1>1, CacheInvariant, PTL

\* A level that is cached as enabled is enabled by a host of the list, even
\* where filters were changed behind the cache's back (target.go:253-256).
THEOREM EnabledIsEnabled == CacheSpec => []NoFalseEnable
<1>1. CacheInv => NoFalseEnable
    BY DEF CacheInv
<1> QED BY <1>1, CacheInvariant, PTL

\* The type assertion in get fails at the last id of the sync.Map cache only
\* (levelcache.go:33, 52).
THEOREM OnlyLastLevelPanics == CacheSpec => []OnlyLastPanics
<1>1. CacheInv => OnlyLastPanics
    BY DEF CacheInv
<1> QED BY <1>1, CacheInvariant, PTL

=============================================================================
