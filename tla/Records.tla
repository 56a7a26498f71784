------------------------------ MODULE Records -------------------------------
(***************************************************************************)
(* What becomes of the data of a log record: from the arguments of a call  *)
(* (logger.go, sugar.go) through enqueue, which shortens fields in place   *)
(* in the caller's slice, and prep (logrec.go), which copies them, to the  *)
(* formatters of several hosts, which share the record, and the buffers,   *)
(* which they take from a pool.                                            *)
(*                                                                         *)
(* One goroutine makes one call; the read loop of the Logr and those of    *)
(* its hosts run beside it.  Queues that are full, timeouts, flushing and  *)
(* targets that come and go are in Logr and TargetHost, cached levels in   *)
(* LevelCache.  Two goroutines that pass one slice to logr at a time race  *)
(* for it and are left out.                                                *)
(***************************************************************************)
EXTENDS Formatters, SequencesExt

CONSTANT Scenarios  \* the calls, loggers, options and hosts to consider

\* No record; a record that is worked on is at a place from 1.
nil == [at |-> 0]

(***************************************************************************)
(* A scenario has                                                          *)
(*   call    "LogM"; "Info", "Logf", "Infow" of Sugar and their like; or   *)
(*           "With", which is Sugar.With and then Log.  A standard logger  *)
(*           (stdlogger.go) logs like "Logf"                               *)
(*   args    its arguments; those of LogM are fields                       *)
(*   levels  the levels that are logged                                    *)
(*   msg, with, limit, frames   the message, the fields of the logger,     *)
(*           maxFieldLen and the call stack                                *)
(*   hosts   a sequence of [fm, on, retimes]: the formatter, what the      *)
(*           filter says of each level ("off", "on", or "stack" with a     *)
(*           stack trace) and whether the formatter replaces the time      *)
(* A frame has a package: "app", one that is "filtered" or "" when the     *)
(* name cannot be resolved; and a file, which may be "".                   *)
(***************************************************************************)

\* A field as the functions of fieldapi.go make it; encoding/json is given values of
\* four types only, and values of six may have a marshaller of their own.
IsNew(f) ==
    /\ IsField(f) /\ f.val.wraps = 0 /\ f.val.text.dots = 0
    /\ "marshal" \in f.val.bad => f.type \in {"Struct", "Array", "Map", "Unknown"}
    /\ f.val.bad \cap {"gojay", "gojayPanic"} # {}
         => f.type \in {"Stringer", "Error", "Struct", "Array", "Map", "Unknown"}

ASSUME RecordsAssumption ==
    \A s \in Scenarios :
      /\ s.call \in {"LogM", "Info", "Logf", "Infow", "With"}
      /\ IsSequence(s.args) /\ IsSequence(s.levels) /\ IsSequence(s.with) /\ IsSequence(s.frames)
      /\ \A i \in DOMAIN s.args :
           /\ s.args[i].is \in {"field", "string", "other"} /\ IsNew(s.args[i].field)
           /\ s.args[i].is = "string" => IsKey(s.args[i].key)
      /\ \A i \in DOMAIN s.with : IsNew(s.with[i])
      /\ IsText(s.msg) /\ s.msg.dots = 0 /\ s.limit \in Int
      /\ \A h \in DOMAIN s.hosts : IsFormatter(s.hosts[h].fm)

VARIABLES
    env,     \* the scenario
    slices,  \* the slices of fields that are passed to Log; none before the call
    todo,    \* the calls of Log that are left
    cur,     \* the record in enqueue
    queue,   \* lgr.in
    loop,    \* the record in prep
    recs,    \* the records that were prepared, in order
    hosts,   \* the read loops of the hosts and their queues
    pool,    \* what the buffers of the pool hold
    out      \* what each target was given: [rec, entries]

recordsVars == <<env, slices, todo, cur, queue, loop, recs, hosts, pool, out>>

Hosts == DOMAIN env.hosts
Enabled(h, lvl) == env.hosts[h].on[lvl] # "off"

RecordsInit ==
    /\ env \in Scenarios
    /\ slices = <<>> /\ todo = <<>> /\ cur = nil
    /\ queue = <<>> /\ loop = nil /\ recs = <<>>
    /\ hosts = [h \in DOMAIN env.hosts |->
                  [in |-> <<>>, pc |-> "select", rec |-> 0, at |-> 0, tmp |-> nil, buf |-> <<>>]]
    /\ pool = <<>>
    /\ out = [h \in DOMAIN env.hosts |-> <<>>]

-----------------------------------------------------------------------------
(***************************************************************************)
(* The call.                                                               *)
(***************************************************************************)

\* A call of Log: the level, the fields of the logger, the slice and the message.
LogCall(lvl, with, slice, msg) == [level |-> lvl, with |-> with, slice |-> slice, msg |-> msg]

ErrorMsg == Text("invalid key", 1)

\* argsToFields logs an error for each argument it cannot use, with the fields the
\* logger has so far.
ErrorCalls(errors) == [i \in DOMAIN errors |-> LogCall("error", env.with, i, ErrorMsg)]

\* IsLevelEnabled on a cache miss, whatever the order of the hosts.
LevelEnabled(lvl) == \E h \in Hosts : Enabled(h, lvl)

Call ==
    /\ slices = <<>>
    /\ LET fields == [i \in DOMAIN env.args |-> env.args[i].field]
           conv == ArgsToFields(env.args)
           n == Len(conv.errors)
       IN  CASE env.call = "LogM" ->
                  /\ slices' = <<fields>>
                  /\ todo' = [i \in DOMAIN env.levels |-> LogCall(env.levels[i], env.with, 1, env.msg)]
             [] env.call = "Info" ->
                  /\ slices' = <<SugarFields(env.args)>>
                  /\ todo' = IF LevelEnabled(env.levels[1])
                               THEN <<LogCall(env.levels[1], env.with, 1, env.msg)>> ELSE <<>>
             [] env.call = "Logf" ->
                  /\ slices' = << <<>> >>
                  /\ todo' = <<LogCall(env.levels[1], env.with, 1, env.msg)>>
             [] env.call = "Infow" ->
                  /\ slices' = conv.errors \o <<conv.fields>>
                  /\ todo' = ErrorCalls(conv.errors) \o <<LogCall(env.levels[1], env.with, n + 1, env.msg)>>
             [] env.call = "With" ->
                  /\ slices' = conv.errors \o << <<>> >>
                  /\ todo' = ErrorCalls(conv.errors)
                             \o <<LogCall(env.levels[1], env.with \o conv.fields, n + 1, env.msg)>>
    /\ UNCHANGED <<env, cur, queue, loop, recs, hosts, pool, out>>

\* Mutant: the search ends at the first host that has the level enabled.
Mut_StackStatus(lvl) ==
    LET on == {h \in Hosts : Enabled(h, lvl)}
        h == CHOOSE h \in on : \A g \in on : h <= g
    IN  on # {} /\ (env.hosts[h].on[lvl] = "stack" \/ IsStacktraceNeeded(env.hosts[h].fm))

\* LevelStatus.Stacktrace: some host needs the stack.
StackStatus(lvl) ==
    \E h \in Hosts : /\ Enabled(h, lvl)
                     /\ env.hosts[h].on[lvl] = "stack" \/ IsStacktraceNeeded(env.hosts[h].fm)

\* Log, and the message in enqueue.
Log ==
    /\ cur = nil
    /\ todo # <<>>
    /\ todo' = Tail(todo)
    /\ cur' = LET call == Head(todo)
              IN  IF ~LevelEnabled(call.level) THEN nil
                  ELSE [level |-> call.level, with |-> call.with, slice |-> call.slice,
                        msg |-> LimitString(call.msg, env.limit), stack |-> StackStatus(call.level),
                        at |-> 1]
    /\ UNCHANGED <<env, slices, queue, loop, recs, hosts, pool, out>>

\* One field of the loop in enqueue.
Limit ==
    /\ cur # nil
    /\ env.limit > 0 /\ cur.at <= Len(slices[cur.slice])
    /\ slices' = [slices EXCEPT ![cur.slice][cur.at] = LimitField(@, env.limit)]
    /\ cur' = [cur EXCEPT !.at = @ + 1]
    /\ UNCHANGED <<env, todo, queue, loop, recs, hosts, pool, out>>

Enqueue ==
    /\ cur # nil
    /\ env.limit > 0 => cur.at > Len(slices[cur.slice])
    /\ queue' = Append(queue, cur)
    /\ cur' = nil
    /\ UNCHANGED <<env, slices, todo, loop, recs, hosts, pool, out>>

-----------------------------------------------------------------------------
(***************************************************************************)
(* The read loop of the Logr: prep and fanout.                             *)
(***************************************************************************)
CalcCaller(frames) ==
    LET named == {i \in DOMAIN frames : frames[i].file # ""}
    IN  IF named = {} THEN NoText ELSE Text(frames[CHOOSE i \in named : \A j \in named : i <= j].file, 1)

Frames(rec) ==
    IF rec.stack THEN ElementsAt(env.frames, {i \in DOMAIN env.frames : env.frames[i].pkg = "app"}) ELSE <<>>

\* The fields of the logger never change, so they are copied in one step.
Prep ==
    /\ loop = nil
    /\ queue # <<>>
    /\ queue' = Tail(queue)
    /\ loop' = [rec |-> Head(queue), all |-> Head(queue).with, at |-> 1]
    /\ UNCHANGED <<env, slices, todo, cur, recs, hosts, pool, out>>

\* A field is copied while the caller may be shortening the same slice for its
\* next record.  What it overwrites was shortened before, by a value of the same
\* length and type, so that a torn read makes no difference.
PrepCopy ==
    /\ loop # nil
    /\ loop.at <= Len(slices[loop.rec.slice])
    /\ loop' = [loop EXCEPT !.all = Append(@, slices[loop.rec.slice][loop.at]), !.at = @ + 1]
    /\ UNCHANGED <<env, slices, todo, cur, queue, recs, hosts, pool, out>>

\* The rest of prep, and fanout.
Fanout ==
    /\ loop # nil
    /\ loop.at > Len(slices[loop.rec.slice])
    /\ LET frames == Frames(loop.rec)
       IN  recs' = Append(recs, [level |-> loop.rec.level, msg |-> loop.rec.msg, fieldsAll |-> loop.all,
                                 frames |-> frames, caller |-> CalcCaller(frames)])
    /\ hosts' = [h \in Hosts |-> IF Enabled(h, loop.rec.level)
                                   THEN [hosts[h] EXCEPT !.in = Append(@, Len(recs'))] ELSE hosts[h]]
    /\ loop' = nil
    /\ UNCHANGED <<env, slices, todo, cur, queue, pool, out>>

-----------------------------------------------------------------------------
(***************************************************************************)
(* The read loop of a host.                                                *)
(***************************************************************************)

\* BorrowBuffer: one of the pool or a new one.
BorrowBuffer(h) ==
    /\ hosts[h].pc = "select"
    /\ hosts[h].in # <<>>
    /\ \E i \in 0 .. Len(pool) :
         /\ pool' = IF i = 0 THEN pool ELSE RemoveAt(pool, i)
         /\ hosts' = [hosts EXCEPT ![h].in = Tail(@), ![h].rec = Head(hosts[h].in), ![h].at = 1,
                                   ![h].buf = IF i = 0 THEN <<>> ELSE pool[i],
                                   ![h].pc = IF env.hosts[h].fm.kind = "json" /\ env.hosts[h].fm.sorter = "inplace"
                                               THEN "sort" ELSE "format"]
    /\ UNCHANGED <<env, slices, todo, cur, queue, loop, recs, out>>

\* A FieldSorter that sorts the slice it is given swaps neighbours, with a load
\* of both and a store of each, until it has passed all of them.
SortStep(h) ==
    LET rec == hosts[h].rec
        all == recs[rec].fieldsAll
        at == hosts[h].at
        tmp == hosts[h].tmp
        unordered == at < Len(all) /\ Less(all[at + 1], all[at])
    IN  /\ hosts[h].pc = "sort"
        /\ \/ /\ tmp # nil
              /\ recs' = [recs EXCEPT ![rec].fieldsAll[at + 1] = tmp]
              /\ hosts' = [hosts EXCEPT ![h].tmp = nil, ![h].at = IF at > 1 THEN at - 1 ELSE at + 1]
           \/ /\ tmp = nil
              /\ unordered
              /\ recs' = [recs EXCEPT ![rec].fieldsAll[at] = all[at + 1]]
              /\ hosts' = [hosts EXCEPT ![h].tmp = all[at]]
           \/ /\ tmp = nil
              /\ ~unordered
              /\ hosts' = IF at < Len(all) THEN [hosts EXCEPT ![h].at = at + 1]
                          ELSE [hosts EXCEPT ![h].pc = "format"]
              /\ UNCHANGED recs
        /\ UNCHANGED <<env, slices, todo, cur, queue, loop, pool, out>>

\* WithTime copies neither fieldsAll nor caller.
WithTime(rec) == [rec EXCEPT !.fieldsAll = <<>>, !.caller = NoText]

\* Format appends to the buffer.  When it fails or panics nothing is written.
Format(h) ==
    LET host == env.hosts[h]
        prepared == recs[hosts[h].rec]
        rec == IF host.retimes THEN WithTime(prepared) ELSE prepared
    IN  /\ hosts[h].pc = "format"
        /\ hosts' = IF FormatResult(host.fm, rec) = "written"
                      THEN [hosts EXCEPT ![h].pc = "write",
                              ![h].buf = @ \o FormatEntries(host.fm, rec, host.on[rec.level] = "stack", env.limit)]
                      ELSE [hosts EXCEPT ![h].pc = "release", ![h].buf = Append(@, Entry("rest", NoName, NoText))]
        /\ UNCHANGED <<env, slices, todo, cur, queue, loop, recs, pool, out>>

Write(h) ==
    /\ hosts[h].pc = "write"
    /\ out' = [out EXCEPT ![h] = Append(@, [rec |-> hosts[h].rec, entries |-> hosts[h].buf])]
    /\ hosts' = [hosts EXCEPT ![h].pc = "release"]
    /\ UNCHANGED <<env, slices, todo, cur, queue, loop, recs, pool>>

\* Mutant: the buffer is not reset.
Mut_ReleaseBuffer(h) ==
    /\ hosts[h].pc = "release"
    /\ pool' = Append(pool, hosts[h].buf)
    /\ hosts' = [hosts EXCEPT ![h].pc = "select", ![h].rec = 0, ![h].at = 0, ![h].buf = <<>>]
    /\ UNCHANGED <<env, slices, todo, cur, queue, loop, recs, out>>

\* The deferred ReleaseBuffer of writeRec: the buffer is kept unless it is too large.
ReleaseBuffer(h) ==
    /\ hosts[h].pc = "release"
    /\ pool' \in {pool, Append(pool, <<>>)}
    /\ hosts' = [hosts EXCEPT ![h].pc = "select", ![h].rec = 0, ![h].at = 0, ![h].buf = <<>>]
    /\ UNCHANGED <<env, slices, todo, cur, queue, loop, recs, out>>

-----------------------------------------------------------------------------

Done ==
    /\ slices # <<>> /\ todo = <<>> /\ cur = nil /\ queue = <<>> /\ loop = nil
    /\ \A h \in Hosts : hosts[h].in = <<>> /\ hosts[h].pc = "select"

Idle == Done /\ UNCHANGED recordsVars

HostLoop(h) == BorrowBuffer(h) \/ SortStep(h) \/ Format(h) \/ Write(h) \/ ReleaseBuffer(h)

RecordsNext ==
    \/ Call \/ Log \/ Limit \/ Enqueue
    \/ Prep \/ PrepCopy \/ Fanout
    \/ \E h \in Hosts : HostLoop(h)
    \/ Idle

RecordsSpec == RecordsInit /\ [][RecordsNext]_recordsVars

-----------------------------------------------------------------------------
(***************************************************************************)
(* Properties.  What a call means is stated from the scenario alone, and   *)
(* without going through the arguments in order.                           *)
(***************************************************************************)

\* The arguments at which a field begins: an argument is the value of the one
\* before it when that one begins a pair.
Heads(args) ==
    CHOOSE H \in SUBSET DOMAIN args :
      \A i \in DOMAIN args : i \in H <=> (i = 1 \/ (i - 1 \in H => args[i - 1].is = "field"))

Rejected(args, i) == args[i].is # "field" /\ (i = Len(args) \/ args[i].is = "other")

HeadSeq(args, rejected) == InOrder({i \in Heads(args) : Rejected(args, i) = rejected})

PairFields(args) ==
    LET at == HeadSeq(args, FALSE)
    IN  [j \in DOMAIN at |-> IF args[at[j]].is = "field" THEN args[at[j]].field
                             ELSE AnyArg(args[at[j]].key, args[at[j] + 1])]

\* The records a call should produce.
Meant(lvl, with, fields, msg) == [level |-> lvl, with |-> with, fields |-> fields, msg |-> msg]
Rejections ==
    LET at == HeadSeq(env.args, TRUE)
    IN  [j \in DOMAIN at |-> Meant("error", env.with,
           IF at[j] = Len(env.args) THEN InvalidPair(env.args[at[j]]) ELSE InvalidKey, ErrorMsg)]
AllMeant ==
    CASE env.call = "LogM" ->
           [i \in DOMAIN env.levels |->
              Meant(env.levels[i], env.with, [j \in DOMAIN env.args |-> env.args[j].field], env.msg)]
      [] env.call = "Info" ->
           <<Meant(env.levels[1], env.with, [j \in DOMAIN env.args |-> AnyArg(EmptyKey, env.args[j])], env.msg)>>
      [] env.call = "Logf" ->
           <<Meant(env.levels[1], env.with, <<>>, env.msg)>>
      [] env.call = "Infow" ->
           Append(Rejections, Meant(env.levels[1], env.with, PairFields(env.args), env.msg))
      [] env.call = "With" ->
           Append(Rejections, Meant(env.levels[1], env.with \o PairFields(env.args), <<>>, env.msg))
Logged == ElementsAt(AllMeant, {i \in DOMAIN AllMeant : \E h \in Hosts : Enabled(h, AllMeant[i].level)})

Cut(t) == IF env.limit > 0 /\ t.len > env.limit THEN [t EXCEPT !.len = env.limit, !.dots = 3] ELSE t

\* The caller: the first frame of the application that has a file.
AppFrames == {i \in DOMAIN env.frames : env.frames[i].pkg = "app"}
CallerText ==
    LET named == {i \in AppFrames : env.frames[i].file # ""}
    IN  IF named = {} THEN NoText ELSE Text(env.frames[CHOOSE i \in named : \A j \in named : i <= j].file, 1)

\* The keys and texts a formatter should put out for a record, in some order.
Unencodable(fm, f) ==
    /\ fm.kind \in {"json", "gelf"}
    /\ f.type = "Invalid" \/ ("marshal" \in f.val.bad /\ f.val.bad \cap {"gojay", "gojayPanic"} = {})
Shown(fm, f, cut) ==
    [key |-> f.key, text |-> IF Unencodable(fm, f) THEN EncodingError
                             ELSE IF cut /\ f.type \in {"String", "Stringer"} THEN Cut(f.val.text)
                             ELSE f.val.text]
ShownFields(fm, m) ==
    Optional(fm.caller /\ fm.kind \in {"gelf", "plain"},
             [key |-> Key(IF fm.kind = "gelf" THEN 1 ELSE 0, "caller"), text |-> CallerText])
    \o (IF "fields" \in fm.disabled THEN <<>>
        ELSE [i \in DOMAIN m.with |-> Shown(fm, m.with[i], FALSE)]
             \o [i \in DOMAIN m.fields |-> Shown(fm, m.fields[i], TRUE)])

Orders(fm, want) ==
    IF fm.sorter = "none" THEN {want}
    ELSE {s \in {[i \in DOMAIN want |-> want[p[i]]] : p \in Bijection(DOMAIN want, DOMAIN want)} :
            \A i \in 1 .. Len(s) - 1 : ~Less(s[i + 1], s[i])}

Matches(entry, f) ==
    /\ entry.key[2] = f.key[2] /\ entry.key[1] >= f.key[1]
    /\ entry.text = f.text

Parts(entries, part) == ElementsAt(entries, {i \in DOMAIN entries : entries[i].part = part})

\* The buffers of the pool are empty, at most the records of the call are
\* prepared, and a read loop has a record while it works on one.
RecordsTypeOK ==
    /\ Len(recs) <= Len(AllMeant)
    /\ \A i \in DOMAIN pool : pool[i] = <<>>
    /\ \A h \in Hosts :
         /\ hosts[h].pc \in {"select", "sort", "format", "write", "release"}
         /\ hosts[h].rec \in 0 .. Len(recs) /\ (hosts[h].pc = "select" <=> hosts[h].rec = 0)
         /\ hosts[h].tmp # nil => hosts[h].pc = "sort"

\* Every line a target is given shows the message and the fields of one record of
\* the call, those of the logger first, each once and with its own value,
\* shortened at most once however often its slice was logged, and nothing that a
\* buffer held before.
LineFaithful(h, o) ==
    LET fm == env.hosts[h].fm
        m == Logged[o.rec]
        shown == Parts(o.entries, "field")
        msgs == Parts(o.entries, "msg")
    IN  /\ \E want \in Orders(fm, ShownFields(fm, m)) :
             Len(shown) = Len(want) /\ \A i \in DOMAIN want : Matches(shown[i], want[i])
        /\ Len(msgs) = IF "msg" \in fm.disabled THEN 0 ELSE 1
        /\ \A i \in DOMAIN msgs :
             msgs[i].text = IF fm.kind = "gelf" /\ m.msg.len = 0 THEN Text("-", 1) ELSE Cut(m.msg)
        /\ \A p \in {"timestamp", "level", "caller", "stacktrace", "version", "host", "group"} :
             Len(Parts(o.entries, p)) <= 1
        /\ Parts(o.entries, "rest") = <<>>

\* When all is quiet a target has the records its filter lets through, in order,
\* but for those with a field that cannot be rendered.
Spoilt(m) ==
    \E i \in 1 .. Len(m.with) + Len(m.fields) :
      LET f == (m.with \o m.fields)[i] IN f.val.bad \ {"gojay"} # {} \/ f.type = "Invalid"
OutputComplete(h) ==
    LET ids == [i \in DOMAIN out[h] |-> out[h][i].rec]
    IN  /\ \A i, j \in DOMAIN ids : i < j => ids[i] < ids[j]
        /\ \A i \in DOMAIN Logged :
             i \in ToSet(ids) <=> Enabled(h, Logged[i].level) /\ (i \in ToSet(ids) \/ ~Spoilt(Logged[i]))

OutputFaithful ==
    \A h \in Hosts :
      /\ \A i \in DOMAIN out[h] : LineFaithful(h, out[h][i])
      /\ Done => OutputComplete(h)

\* A JSON or GELF object never has one key twice, when the keys of the formatter are
\* different and so are those of the fields, none of the fields' begins with an
\* underscore and none is the key of the caller in JSON, which has no underscore
\* either: prefixCollision and the underscore of GELF keep them apart.
KeysDistinct ==
    \A h \in Hosts : \A o \in ToSet(out[h]) :
      LET fm == env.hosts[h].fm
          m == Logged[o.rec]
          all == m.with \o m.fields
      IN  /\ fm.kind \in {"json", "gelf"}
          /\ fm.kind = "json" =>
               /\ \A n, k \in NameOf : n # k => KeyName(fm, n) # KeyName(fm, k)
               /\ KeyName(fm, "caller")[1] = 0
          /\ \A i, j \in DOMAIN all : i # j => all[i].key # all[j].key
          /\ \A i \in DOMAIN all : /\ all[i].key[1] = 0
                                   /\ fm.kind = "json" /\ fm.caller => all[i].key # KeyName(fm, "caller")
          => \A i, j \in DOMAIN o.entries :
               i # j => <<o.entries[i].in, o.entries[i].key>> # <<o.entries[j].in, o.entries[j].key>>

\* A host whose formatter names the caller, or whose level asks for a stack trace,
\* gets it whatever the other hosts need: IsLevelEnabled asks all of them before
\* the stack is captured.
CallerKnown ==
    \A h \in Hosts : \A o \in ToSet(out[h]) :
      LET fm == env.hosts[h].fm
          callers == Parts(o.entries, "caller")
          stack == env.hosts[h].on[Logged[o.rec].level] = "stack"
      IN  /\ fm.kind = "json" => /\ Len(callers) = IF fm.caller THEN 1 ELSE 0
                                 /\ \A i \in DOMAIN callers : callers[i].text = CallerText
          /\ Len(Parts(o.entries, "stacktrace"))
               = IF stack /\ AppFrames # {} /\ "stacktrace" \notin fm.disabled THEN 1 ELSE 0

-----------------------------------------------------------------------------
(***************************************************************************)
(* What the comments say and the code does not do.                         *)
(***************************************************************************)

\* options.go: "MaxFieldLen is the maximum number of characters for a field".
\* The fields that With adds to a logger are not shortened.
FieldsLimited ==
    \A h \in Hosts : \A o \in ToSet(out[h]) : \A e \in ToSet(Parts(o.entries, "field")) :
      env.limit > 0 => e.text.len <= env.limit

\* prefixCollision is there to keep keys apart, but it does not know the key of
\* the caller, nor the keys of other fields.
NoKeyTwice ==
    \A h \in Hosts : \A o \in ToSet(out[h]) : \A i, j \in DOMAIN o.entries :
      i # j /\ env.hosts[h].fm.kind = "json" => o.entries[i].key # o.entries[j].key

=============================================================================
