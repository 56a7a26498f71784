------------------------------- MODULE Fields -------------------------------
(***************************************************************************)
(* Fields (field.go, fieldapi.go), the limit on their length (formatter.go,*)
(* enqueue in logr.go) and the conversion of loosely typed arguments to    *)
(* fields (sugar.go), as operators.                                        *)
(*                                                                         *)
(* A text is known by the value it renders: how many bytes of that value   *)
(* it holds and how many dots follow them.  A key is a pair: the number of *)
(* underscores in front and the rest.                                      *)
(***************************************************************************)
EXTENDS Integers, Sequences, FiniteSets

CONSTANT Bases  \* what keys are without the underscores, in the order of strings

IsSequence(s) == Len(s) \in Nat /\ s = [i \in 1 .. Len(s) |-> s[i]]
BaseSet == {Bases[i] : i \in DOMAIN Bases}

\* The empty string and the names the code uses are among them.
ASSUME BasesAssumption ==
    /\ IsSequence(Bases) /\ \A i \in DOMAIN Bases : Bases[i] = "" => i = 1
    /\ {"", "arg", "pos", "timestamp", "level", "msg", "stacktrace", "caller"} \subseteq BaseSet

\* The members of a finite set of numbers, the smallest first, and the elements of
\* a sequence at those places.
InOrder(S) ==
    [j \in 1 .. Cardinality(S) |-> CHOOSE i \in S : Cardinality({k \in S : k < i}) = j - 1]
ElementsAt(s, S) ==
    LET at == InOrder(S) IN [j \in DOMAIN at |-> s[at[j]]]

Key(underscores, base) == <<underscores, base>>
EmptyKey == Key(0, "")
Underscore(k) == Key(k[1] + 1, k[2])

Text(value, len) == [of |-> value, len |-> len, dots |-> 0]
NoText == Text("", 0)
Size(t) == t.len + t.dots

\* Mutant: the length is not tested.
Mut_LimitString(t, limit) ==
    IF limit > 0
      THEN [t EXCEPT !.len = IF @ < limit THEN @ ELSE limit, !.dots = @ + 3]
      ELSE t

\* LimitByteSlice: the first bytes, and "..." behind them.
LimitString(t, limit) ==
    IF limit > 0 /\ limit < Size(t)
      THEN [t EXCEPT !.len = IF @ < limit THEN @ ELSE limit,
                     !.dots = 3 + (IF t.len < limit THEN limit - t.len ELSE 0)]
      ELSE t

-----------------------------------------------------------------------------
(***************************************************************************)
(* The value of a field: its text, how many LimitedStringers are wrapped   *)
(* around it, and what goes wrong when it is rendered:                     *)
(*   "write"    its LogWrite, or that of an element, returns an error      *)
(*   "panic"    its String or LogWrite method panics                       *)
(*   "marshal"  encoding/json cannot encode it                             *)
(* or who renders it:                                                      *)
(*   "gojay"    it has a marshaller of its own for JSON, MarshalJSONObject *)
(*              or MarshalJSONArray                                        *)
(*   "gojayPanic"  it has one that panics                                  *)
(***************************************************************************)
Value(text, bad) == [text |-> text, wraps |-> 0, bad |-> bad]

Field(key, type, val) == [key |-> key, type |-> type, val |-> val]

\* Any text, value, key and field.
IsText(t) == t = [of |-> t.of, len |-> t.len, dots |-> t.dots] /\ t.len \in Nat /\ t.dots \in Nat
IsValue(v) == v = [text |-> v.text, wraps |-> v.wraps, bad |-> v.bad] /\ IsText(v.text) /\ v.wraps \in Nat
IsKey(k) == k = <<k[1], k[2]>> /\ k[1] \in Nat /\ k[2] \in BaseSet
IsField(f) == f = [key |-> f.key, type |-> f.type, val |-> f.val] /\ IsKey(f.key) /\ IsValue(f.val)

\* What Any makes of a Go type that is not an interface; a float of either size
\* becomes a Float32.
TypeOf ==
    [bool |-> "Bool", float64 |-> "Float32", float32 |-> "Float32", int |-> "Int", uint |-> "Uint",
     string |-> "String", bytes |-> "Binary", time |-> "Time", duration |-> "Duration"]

\* A Go value: its type or "named" for a type that Any does not know, the
\* interfaces it implements, whether it is a nil pointer or slice, and what it
\* is rendered as.  A pointer to a known type is treated like what it points to.
GoValue(type, impl, isNil, val) == [type |-> type, impl |-> impl, isNil |-> isNil, val |-> val]

\* Any: the first case that matches.  The tests for nil see a nil pointer to a
\* known type, not one inside an interface.
FieldForAny(key, x) ==
    IF x.impl \cap {"LogCloner", "LogWriter"} # {} THEN Field(key, "Struct", x.val)
    ELSE IF x.type \in DOMAIN TypeOf
      THEN IF x.isNil THEN Field(key, "String", Value(NoText, {})) ELSE Field(key, TypeOf[x.type], x.val)
    ELSE IF "error" \in x.impl THEN Field(key, "Error", x.val)
    ELSE IF "Stringer" \in x.impl THEN Field(key, "Stringer", x.val)
    ELSE Field(key, "Unknown", x.val)

-----------------------------------------------------------------------------
(***************************************************************************)
(* Rendering a value.                                                      *)
(***************************************************************************)

\* The decimal places that are left of a float when it is formatted with 32 bits.
Single == 7

\* The text of a Stringer inside some LimitedStringers, each of which limits
\* what the next one returns.
Stringed(val, limit) ==
    LET inside[n \in 0 .. val.wraps] ==
          IF n = 0 THEN val.text ELSE LimitString(inside[n - 1], limit)
    IN  inside[val.wraps]

\* ValueString: what is written, an error or a panic.  Printf recovers from the
\* panics of the values it formats.
ValueString(f) ==
    CASE f.type \in {"Stringer", "Struct", "Array", "Map"} /\ "panic" \in f.val.bad -> "panic"
      [] f.type \in {"Struct", "Array", "Map"} /\ "write" \in f.val.bad -> "error"
      [] f.type = "Invalid" -> "error"
      [] OTHER -> "written"

ValueText(f, limit) ==
    CASE f.type = "Stringer" -> Stringed(f.val, limit)
      [] f.type = "Float32" /\ f.val.text.len > Single -> [f.val.text EXCEPT !.len = Single]
      [] OTHER -> f.val.text

\* The part of enqueue that limits a field.  The field is changed in place.
LimitField(f, limit) ==
    CASE f.type = "String" -> [f EXCEPT !.val.text = LimitString(@, limit)]
      [] f.type = "Stringer" -> [f EXCEPT !.val.wraps = @ + 1]
      [] OTHER -> f

-----------------------------------------------------------------------------
(***************************************************************************)
(* Sugar.argsToFields.  An argument is a field, a string, which may be a   *)
(* key, or another Go value.                                               *)
(***************************************************************************)
FieldArg(f) == [is |-> "field", field |-> f]
StringArg(k) == [is |-> "string", key |-> k, field |-> Field(EmptyKey, "String", Value(Text(k[2], 1), {}))]
OtherArg(x) == [is |-> "other", go |-> x, field |-> FieldForAny(EmptyKey, x)]

\* Any(key, arg), for an argument of each kind; a Field is a struct like others,
\* without the marshaller that its value may have.
AnyArg(key, arg) ==
    IF arg.is = "field"
      THEN Field(key, "Unknown", [arg.field.val EXCEPT !.bad = @ \ {"gojay", "gojayPanic"}])
      ELSE [arg.field EXCEPT !.key = key]

InvalidPair(arg) == <<AnyArg(Key(0, "arg"), arg)>>
InvalidKey == <<Field(Key(0, "pos"), "Int", Value(Text("pos", 1), {}))>>

\* Sugar.Info and its like: every argument is the value of a field without a key.
SugarFields(args) == [i \in DOMAIN args |-> AnyArg(EmptyKey, args[i])]

\* Mutant: a key that is not a string is skipped without its value.
Mut_ArgsToFields(args) ==
    LET n == Len(args)
        from[i \in 1 .. n + 1] ==
          IF i = n + 1 THEN [fields |-> <<>>, errors |-> <<>>]
          ELSE IF args[i].is = "field"
            THEN [from[i + 1] EXCEPT !.fields = <<args[i].field>> \o @]
          ELSE IF i = n THEN [fields |-> <<>>, errors |-> <<InvalidPair(args[i])>>]
          ELSE IF args[i].is = "string"
            THEN [from[i + 2] EXCEPT !.fields = <<AnyArg(args[i].key, args[i + 1])>> \o @]
          ELSE [from[i + 1] EXCEPT !.errors = <<InvalidKey>> \o @]
    IN  from[1]

\* The fields, and the fields of the error records that are logged on the way.
ArgsToFields(args) ==
    LET n == Len(args)
        from[i \in 1 .. n + 1] ==
          IF i = n + 1 THEN [fields |-> <<>>, errors |-> <<>>]
          ELSE IF args[i].is = "field"
            THEN [from[i + 1] EXCEPT !.fields = <<args[i].field>> \o @]
          ELSE IF i = n THEN [fields |-> <<>>, errors |-> <<InvalidPair(args[i])>>]
          ELSE IF args[i].is = "string"
            THEN [from[i + 2] EXCEPT !.fields = <<AnyArg(args[i].key, args[i + 1])>> \o @]
          ELSE [from[i + 2] EXCEPT !.errors = <<InvalidKey>> \o @]
    IN  from[1]

=============================================================================
