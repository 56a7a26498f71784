----------------------------- MODULE MCRecords ------------------------------
(***************************************************************************)
(* Instances of Records for TLC: texts have 1 or 5 bytes and the limit is 2.*)
(***************************************************************************)
EXTENDS Records

KeyBases ==
    <<"", "a", "arg", "b", "caller", "host", "level", "msg", "pos", "stacktrace", "timestamp", "version">>

K(base) == Key(0, base)
Str(base, len) == Field(K(base), "String", Value(Text("str " \o base, len), {}))
Stringer(base, len, bad) == Field(K(base), "Stringer", Value(Text("stringer " \o base, len), bad))
Num(base) == Field(K(base), "Int", Value(Text("int " \o base, 5), {}))
Struct(base, bad) == Field(K(base), "Struct", Value(Text("struct " \o base, 1), bad))
Unknown(base, bad) == Field(K(base), "Unknown", Value(Text("value " \o base, 5), bad))
Invalid(base) == Field(K(base), "Invalid", Value(NoText, {}))
Float(base, len) == FieldForAny(K(base), GoValue("float64", {}, FALSE, Value(Text("float", len), {})))

Args(fields) == [i \in DOMAIN fields |-> FieldArg(fields[i])]

Json(names, disabled, caller, sorter) == Formatter("json", names, disabled, caller, sorter)
Gelf(caller, sorter) == Formatter("gelf", <<>>, {}, caller, sorter)
Plain(disabled, caller) == Formatter("plain", <<>>, disabled, caller, "none")
Default == Formatter("default", <<>>, {}, FALSE, "none")

On(error, info, warn) == [error |-> error, info |-> info, warn |-> warn]
Host(fm, on) == [fm |-> fm, on |-> on, retimes |-> FALSE]

Frame(pkg, file) == [pkg |-> pkg, file |-> file]
Stack == <<Frame("filtered", "logr.go"), Frame("", "?"), Frame("app", ""), Frame("app", "main.go"), Frame("app", "up.go")>>

Scenario(call, args, levels, msg, with, limit, frames, targets) ==
    [call |-> call, args |-> args, levels |-> levels, msg |-> msg, with |-> with,
     limit |-> limit, frames |-> frames, hosts |-> targets]

Msg == Text("hello", 5)

\* One slice logged at two levels, for two hosts that need different things, with
\* fields that are too long and fields that spoil a line.
Shared ==
    { Scenario("LogM", Args(fields), <<"info", "warn">>, Msg, <<Str("host", 5)>>, limit, Stack,
               <<Host(Default, On("off", "on", warn)), Host(fm, On("off", info, "on"))>>) :
        fields \in { <<Str("a", 5), Stringer("b", 5, {})>>, <<Stringer("a", 5, {"panic"})>>, <<Struct("a", {"write"})>>,
                    <<Stringer("a", 5, {"gojay"}), Unknown("b", {"gojayPanic"})>> },
        limit \in {0, 2}, warn \in {"on", "off", "stack"}, info \in {"on", "stack"},
        fm \in {Json(<<>>, {}, TRUE, "none"), Plain({}, FALSE), Plain({}, TRUE)} }

\* One record, every formatter, and keys that collide with those of the formatter.
Names == { <<>>, [msg |-> K("a"), level |-> Key(1, "a"), timestamp |-> Key(2, "a")], [group |-> K("host")] }
Forms ==
    { Json(names, disabled, caller, sorter) :
        names \in Names, disabled \in {{}, {"msg", "level"}, {"fields"}, {"timestamp", "stacktrace"}},
        caller \in BOOLEAN, sorter \in {"none", "copy", "inplace"} }
    \cup { Gelf(caller, sorter) : caller \in BOOLEAN, sorter \in {"none", "copy"} }
    \cup { Plain(disabled, caller) : disabled \in {{}, {"timestamp", "msg"}, {"fields", "level"}, {"stacktrace"}}, caller \in BOOLEAN }
    \cup { Default }

Single1 ==
    { Scenario("LogM", Args(fields), <<"info">>, msg, with, 2, frames, <<Host(fm, On("off", on, "off"))>>) :
        fields \in { <<Str("msg", 5), Num("a")>>, <<Stringer("timestamp", 1, {}), Num("caller"), Str("", 5)>>,
                     <<Float("stacktrace", 5), Struct("level", {"marshal"}), Invalid("b")>>,
                     <<Stringer("level", 5, {"gojay", "panic"}), Unknown("a", {"gojay", "marshal"})>> },
        msg \in {Msg, NoText}, with \in {<<>>, <<Str("version", 5)>>},
        frames \in {Stack, SubSeq(Stack, 1, 3), SubSeq(Stack, 1, 2)}, fm \in Forms, on \in {"on", "stack"} }

\* Loosely typed arguments in every order.
Kinds3 == { FieldArg(Str("a", 5)), StringArg(K("b")),
            OtherArg(GoValue("int", {}, FALSE, Value(Text("int", 5), {}))),
            OtherArg(GoValue("named", {"Stringer", "error"}, FALSE, Value(Text("error", 5), {}))),
            OtherArg(GoValue("named", {"Stringer"}, FALSE, Value(Text("any", 5), {}))) }
Loose ==
    { Scenario(call, args, <<"info">>, Msg, <<Str("host", 1)>>, 2, Stack, <<Host(Plain({}, FALSE), on)>>) :
        call \in {"Info", "Logf", "Infow", "With"}, args \in SeqOf(Kinds3, 3),
        on \in {On("on", "on", "off"), On("off", "on", "off"), On("on", "off", "off")} }

AllScenarios == Shared \cup Single1 \cup Loose

\* The scenarios of the counterexamples.
TwoLines(fields, with, fm1, fm2) ==
    { Scenario("LogM", Args(fields), <<"info">>, Msg, with, 2, Stack,
               <<Host(fm1, On("off", "on", "off")), Host(fm2, On("off", "on", "off"))>>) }
SortedInPlace == TwoLines(<<Str("b", 1), Str("a", 1)>>, <<>>, Json(<<>>, {}, FALSE, "inplace"), Plain({}, FALSE))
LongWith == TwoLines(<<>>, <<Str("a", 5)>>, Default, Plain({}, FALSE))
CallerKey == TwoLines(<<Str("caller", 1)>>, <<>>, Json(<<>>, {}, TRUE, "none"), Default)
LongFloat == TwoLines(<<Float("a", 9)>>, <<>>, Plain({}, FALSE), Default)
Retimed ==
    { [s EXCEPT !.hosts[1].retimes = TRUE] :
        s \in TwoLines(<<Str("a", 1)>>, <<>>, Json(<<>>, {}, TRUE, "none"), Default) }
=============================================================================
