----------------------------- MODULE Formatters -----------------------------
(***************************************************************************)
(* The formatters (formatter.go, formatters/*.go) as operators from a      *)
(* record to what is written: a sequence of entries.  The text between     *)
(* them (delimiters, quotes, colours, padding) is left out.                *)
(***************************************************************************)
EXTENDS Fields

\* A formatter: its kind, the names given for the keys of JSON (NoName: the
\* default), the parts that are disabled, whether it puts out the caller, and
\* its FieldSorter.
NoName == Key(0, "")
NameOf == {"timestamp", "level", "msg", "stacktrace", "caller", "group"}
Kinds == {"json", "gelf", "plain", "default"}
Formatter(kind, names, disabled, caller, sorter) ==
    [kind |-> kind, names |-> [n \in NameOf |-> IF n \in DOMAIN names THEN names[n] ELSE NoName],
     disabled |-> disabled, caller |-> caller, sorter |-> sorter]
IsFormatter(fm) ==
    /\ fm.kind \in Kinds /\ fm.caller \in BOOLEAN /\ fm.sorter \in {"none", "copy", "inplace"}
    /\ \A n \in NameOf : IsKey(fm.names[n])
    /\ fm.kind \in {"plain", "default"} => fm.sorter = "none"
    /\ fm.kind = "gelf" => fm.disabled = {}

IsStacktraceNeeded(fm) == fm.kind # "default" /\ fm.caller

\* applyDefaultKeyNames; fields are not grouped by default.
KeyName(fm, n) ==
    IF fm.names[n] # NoName \/ n = "group" THEN fm.names[n] ELSE Key(0, n)

\* An entry: the part of the record it is, its key, the object it is in, its text.
Entry(part, key, text) == [part |-> part, key |-> key, in |-> "top", text |-> text]
FieldEntry(f, text) == Entry("field", f.key, text)
EncodingError == Text("error encoding field", 1)

Optional(emit, entry) == IF emit THEN <<entry>> ELSE <<>>

-----------------------------------------------------------------------------
(***************************************************************************)
(* FieldSorter of field.go: by key.  An underscore sorts before any letter.*)
(***************************************************************************)
Rank(base) == CHOOSE i \in DOMAIN Bases : Bases[i] = base

Less(f, g) ==
    IF f.key[1] = g.key[1] THEN Rank(f.key[2]) < Rank(g.key[2])
    ELSE IF f.key[1] > g.key[1] THEN g.key[2] # "" ELSE f.key[2] = ""

\* A sorter that returns a sorted copy, like those of the tests: a field is behind
\* those that come before it.
Before(fields, i, j) ==
    Less(fields[i], fields[j]) \/ (i < j /\ ~Less(fields[j], fields[i]))
Sorted(fields) ==
    [k \in DOMAIN fields |->
       fields[CHOOSE i \in DOMAIN fields : Cardinality({j \in DOMAIN fields : Before(fields, j, i)}) = k - 1]]

-----------------------------------------------------------------------------
(***************************************************************************)
(* JSON and GELF.                                                          *)
(***************************************************************************)

\* The first case of encodeField: a value with a marshaller of its own is encoded
\* by that, whatever its type and the limit.  The LimitedStringer that enqueue
\* puts around a Stringer hides it.
OwnMarshaller(f) ==
    f.val.bad \cap {"gojay", "gojayPanic"} # {} /\ (f.type = "Stringer" => f.val.wraps = 0)

\* Does a panic come out of encodeField?  Otherwise there is an entry: errors of
\* encoding/json become its text, errors of ValueString are ignored.
EncodePanics(f) ==
    IF OwnMarshaller(f) THEN "gojayPanic" \in f.val.bad
    ELSE f.type \in {"Stringer", "Error", "Timestamp", "Time", "Duration", "Binary"} /\ ValueString(f) = "panic"

EncodeField(f, limit) ==
    IF OwnMarshaller(f) THEN FieldEntry(f, f.val.text)
    ELSE IF f.type = "Invalid" \/ (f.type \in {"Struct", "Array", "Map", "Unknown"} /\ "marshal" \in f.val.bad)
      THEN FieldEntry(f, EncodingError)
    ELSE IF f.type = "Float32" THEN FieldEntry(f, f.val.text)
    ELSE FieldEntry(f, ValueText(f, limit))

\* Mutant: one underscore is taken to be enough.
Mut_PrefixCollision(fm, f) ==
    IF f.key \in {KeyName(fm, n) : n \in {"timestamp", "level", "msg", "stacktrace"}}
      THEN [f EXCEPT !.key = Underscore(@)] ELSE f

\* prefixCollision: underscores until the key is none of four names.
PrefixCollision(fm, f) ==
    LET names == {KeyName(fm, n) : n \in {"timestamp", "level", "msg", "stacktrace"}}
        from[u \in Nat] == IF Key(u, f.key[2]) \in names THEN from[u + 1] ELSE Key(u, f.key[2])
    IN  [f EXCEPT !.key = from[f.key[1]]]

\* The level of the host asks for a stack trace and the record has one.
HasStack(rec, stack) == stack /\ rec.frames # <<>>

JSONFormat(fm, rec, stack, limit) ==
    LET fields == IF fm.sorter = "copy" THEN Sorted(rec.fieldsAll) ELSE rec.fieldsAll
        group == KeyName(fm, "group")
        on(part) == part \notin fm.disabled
    IN  Optional(on("timestamp"), Entry("timestamp", KeyName(fm, "timestamp"), NoText))
        \o Optional(on("level"), Entry("level", KeyName(fm, "level"), NoText))
        \o Optional(on("msg"), Entry("msg", KeyName(fm, "msg"), rec.msg))
        \o Optional(fm.caller, Entry("caller", KeyName(fm, "caller"), rec.caller))
        \o Optional(on("fields") /\ group # NoName, Entry("group", group, NoText))
        \o (IF ~on("fields") THEN <<>>
            ELSE IF group # NoName
              THEN [i \in DOMAIN fields |-> [EncodeField(fields[i], limit) EXCEPT !.in = "group"]]
            ELSE [i \in DOMAIN fields |-> EncodeField(PrefixCollision(fm, fields[i]), limit)])
        \o Optional(on("stacktrace") /\ HasStack(rec, stack),
                    Entry("stacktrace", KeyName(fm, "stacktrace"), NoText))

\* The test strings.HasPrefix("_", key) asks whether the key is a prefix of "_".
GelfKey(k) == IF k \in {EmptyKey, Key(1, "")} THEN k ELSE Underscore(k)

CallerField(key, rec) == Field(key, "String", Value(rec.caller, {}))

GelfFormat(fm, rec, stack, limit) ==
    LET all == Optional(fm.caller, CallerField(Key(1, "caller"), rec)) \o rec.fieldsAll
        fields == IF fm.sorter = "none" THEN all ELSE Sorted(all)
    IN  <<Entry("version", Key(0, "version"), NoText),
          Entry("host", Key(0, "host"), NoText),
          Entry("msg", Key(0, "short_message"), IF Size(rec.msg) = 0 THEN Text("-", 1) ELSE rec.msg)>>
        \o Optional(HasStack(rec, stack), Entry("stacktrace", Key(0, "full_message"), NoText))
        \o <<Entry("timestamp", Key(0, "timestamp"), NoText),
             Entry("level", Key(0, "level"), NoText)>>
        \o [i \in DOMAIN fields |->
              EncodeField([fields[i] EXCEPT !.key = GelfKey(@)], limit)]

-----------------------------------------------------------------------------
(***************************************************************************)
(* Plain and DefaultFormatter: keys are text like any other, so two fields *)
(* may have the same one.  WriteFields stops at the first error, and so    *)
(* does Format.                                                            *)
(***************************************************************************)
WriteFields(fields, limit) == [i \in DOMAIN fields |-> FieldEntry(fields[i], ValueText(fields[i], limit))]

PlainFields(fm, rec) ==
    Optional(fm.kind = "plain" /\ fm.caller, CallerField(Key(0, "caller"), rec))
    \o (IF "fields" \in fm.disabled THEN <<>> ELSE rec.fieldsAll)

PlainFormat(fm, rec, stack, limit) ==
    LET part(p) == Optional(p \notin fm.disabled, Entry(p, NoName, IF p = "msg" THEN rec.msg ELSE NoText))
    IN  (IF fm.kind = "plain" THEN part("level") \o part("timestamp") ELSE part("timestamp") \o part("level"))
        \o part("msg")
        \o WriteFields(PlainFields(fm, rec), limit)
        \o Optional("stacktrace" \notin fm.disabled /\ HasStack(rec, stack), Entry("stacktrace", NoName, NoText))

-----------------------------------------------------------------------------

\* Format fails or panics, or this is what it puts into the buffer.
FormatResult(fm, rec) ==
    IF fm.kind \in {"json", "gelf"}
      THEN IF "fields" \notin fm.disabled /\ \E i \in DOMAIN rec.fieldsAll : EncodePanics(rec.fieldsAll[i])
             THEN "panic" ELSE "written"
      ELSE LET results == {ValueString(PlainFields(fm, rec)[i]) : i \in DOMAIN PlainFields(fm, rec)}
           IN  IF results \subseteq {"written"} THEN "written"
               ELSE IF results \subseteq {"written", "error"} THEN "error" ELSE "panic"

FormatEntries(fm, rec, stack, limit) ==
    CASE fm.kind = "json" -> JSONFormat(fm, rec, stack, limit)
      [] fm.kind = "gelf" -> GelfFormat(fm, rec, stack, limit)
      [] OTHER -> PlainFormat(fm, rec, stack, limit)

=============================================================================
