--------------------------- MODULE Records_proofs ---------------------------
(***************************************************************************)
(* Proofs about the data of log records: what shortening a field, keeping  *)
(* its key apart and converting loosely typed arguments yield for every    *)
(* input, and the invariants of module Records, whatever the call, the     *)
(* loggers, the formatters and the hosts.                                  *)
(*                                                                         *)
(* The inductive invariant is LinesInv, of three parts:                    *)
(*   RecordsInv  the shape of the pipeline, the hosts and the pool, which  *)
(*               also holds when two formatters sort the same fields;      *)
(*   FlowOK      each stage, from the call to prep, holds of every record  *)
(*               what the call means for it, shortened or yet to be;       *)
(*   LinesOK     a record on its way to a host, in its buffer or written   *)
(*               by it is one that the host's filter lets through, and the *)
(*               line is what formatting that record yields.               *)
(* Its consequences are CallerKnown, KeysDistinct and, with CompleteOK (no *)
(* record that is due gets lost), OutputFaithful.                          *)
(*                                                                         *)
(* The recursive functions of Fields and Formatters are CHOSEN by their    *)
(* equations, so each needs two facts: some function satisfies the         *)
(* equations, and all that do have the value that is claimed.  Both follow *)
(* by induction, which is taken from the well-foundedness of < on Nat: a   *)
(* set that lacks a number lacks a least one.                              *)
(***************************************************************************)
EXTENDS Records, TLAPS, WellFoundedInduction, SequenceTheorems, FiniteSetTheorems

\* A set of numbers has a least one.
LEMMA LeastNatural ==
  ASSUME NEW T, T \subseteq Nat, T # {}
  PROVE  \E x \in T : \A y \in T : x <= y
<1>1. \E x \in T : \A y \in T : <<y, x>> \notin OpToRel(<, Nat)
  BY WFMin, NatLessThanWellFounded
<1>2. PICK x \in T : \A y \in T : <<y, x>> \notin OpToRel(<, Nat)
  BY <1>1
<1>3. \A y \in T : ~ (y < x)
  BY <1>2 DEF OpToRel
<1> QED
  BY <1>3

\* Induction, over a set instead of a predicate.
LEMMA Induction ==
  ASSUME NEW T, 0 \in T, \A n \in Nat : n \in T => n + 1 \in T
  PROVE  Nat \subseteq T
<1>1. SUFFICES ASSUME Nat \ T # {}
              PROVE  FALSE
  OBVIOUS
<1>2. PICK x \in Nat \ T : \A y \in Nat \ T : x <= y
  BY <1>1, LeastNatural
<1>3. x # 0 /\ x - 1 \in Nat /\ x = (x - 1) + 1
  BY <1>2
<1>4. x - 1 \in T
  BY <1>2, <1>3
<1> QED
  BY <1>2, <1>3, <1>4

-----------------------------------------------------------------------------
(***************************************************************************)
(* Shortening: LimitByteSlice, LimitedStringer (formatter.go:32-57) and the*)
(* loop over the fields in enqueue (logr.go:250-272).                      *)
(***************************************************************************)

\* LimitString (formatter.go:32-45) for every text and every limit.
LEMMA Limited ==
  ASSUME NEW t, IsText(t), NEW limit \in Int
  PROVE  LimitString(t, limit) =
           IF limit > 0 /\ limit < Size(t)
             THEN [of |-> t.of, len |-> IF t.len < limit THEN t.len ELSE limit,
                   dots |-> 3 + (IF t.len < limit THEN limit - t.len ELSE 0)]
             ELSE t
<1> DEFINE len == IF t.len < limit THEN t.len ELSE limit
           dots == 3 + (IF t.len < limit THEN limit - t.len ELSE 0)
           u == [t EXCEPT !.len = len]
           v == [u EXCEPT !.dots = dots]
<1>1. LimitString(t, limit) = IF limit > 0 /\ limit < Size(t) THEN v ELSE t
  BY DEF LimitString
<1>2. CASE limit > 0 /\ limit < Size(t)
  <2>1. len \in Nat /\ dots \in Nat
    BY <1>2 DEF IsText
  <2> HIDE DEF len, dots
  <2>2. u = [of |-> t.of, len |-> len, dots |-> t.dots]
    BY <2>1 DEF IsText
  <2> HIDE DEF u
  <2>3. v = [of |-> t.of, len |-> len, dots |-> dots]
    BY <2>1, <2>2
  <2> HIDE DEF v
  <2> QED
    BY <1>1, <1>2, <2>3 DEF len, dots
<1> QED
  BY <1>1, <1>2

\* A shortened text is a text.
LEMMA LimitType ==
  ASSUME NEW t, IsText(t), NEW limit \in Int
  PROVE  IsText(LimitString(t, limit))
  BY Limited DEF IsText, Size

\* LimitByteSlice (formatter.go:32) cuts at most once: the text it cut is longer
\* than the limit by its dots alone, and a second call gives the same bytes.
LEMMA LimitOnce ==
  ASSUME NEW t, IsText(t), NEW limit \in Int
  PROVE  LimitString(LimitString(t, limit), limit) = LimitString(t, limit)
<1> DEFINE s == LimitString(t, limit)
<1>1. IsText(s)
  BY LimitType
<1> t.len \in Nat /\ t.dots \in Nat
  BY DEF IsText
<1>2. CASE limit > 0 /\ limit < Size(t)
  <2>1. s.of = t.of /\ s.len = (IF t.len < limit THEN t.len ELSE limit)
        /\ s.dots = 3 + (IF t.len < limit THEN limit - t.len ELSE 0)
    BY <1>2, Limited
  <2>2. LimitString(s, limit)
          = [of |-> s.of, len |-> s.len, dots |-> s.dots]
    BY <1>1, <1>2, <2>1, Limited DEF Size
  <2> QED
    BY <1>1, <2>2 DEF IsText
<1>3. CASE ~(limit > 0 /\ limit < Size(t))
  BY <1>3, Limited
<1> QED
  BY <1>2, <1>3

\* However many LimitedStringers (formatter.go:47-57) enqueue wrapped around a
\* Stringer, its text is shortened once.
LEMMA StringedOnce ==
  ASSUME NEW val, IsValue(val), NEW limit \in Int
  PROVE  Stringed(val, limit) = IF val.wraps = 0 THEN val.text ELSE LimitString(val.text, limit)
<1> DEFINE Eq(f) == f = [n \in 0 .. val.wraps |-> IF n = 0 THEN val.text ELSE LimitString(f[n - 1], limit)]
           g == [n \in 0 .. val.wraps |-> IF n = 0 THEN val.text ELSE LimitString(val.text, limit)]
           inside == CHOOSE f : Eq(f)
           T == {n \in Nat : n \in 0 .. val.wraps => inside[n] = g[n]}
<1> IsText(val.text) /\ val.wraps \in Nat
  BY DEF IsValue
<1>1. \A n \in 0 .. val.wraps : n # 0 => LimitString(g[n - 1], limit) = LimitString(val.text, limit)
  <2> SUFFICES ASSUME NEW n \in 0 .. val.wraps, n # 0
               PROVE  LimitString(g[n - 1], limit) = LimitString(val.text, limit)
    OBVIOUS
  <2>1. n - 1 \in 0 .. val.wraps
    OBVIOUS
  <2>2. g[n - 1] = val.text \/ g[n - 1] = LimitString(val.text, limit)
    BY <2>1
  <2> QED
    BY <2>2, LimitOnce
<1>2. Eq(g)
  BY <1>1
<1>3. Eq(inside)
  BY <1>2
<1> HIDE DEF inside
<1>4. 0 \in T
  BY <1>3
<1>5. ASSUME NEW n \in Nat, n \in T
      PROVE  n + 1 \in T
  <2> SUFFICES ASSUME n + 1 \in 0 .. val.wraps
               PROVE  inside[n + 1] = g[n + 1]
    OBVIOUS
  <2>1. inside[n] = g[n]
    BY <1>5
  <2>2. inside[n + 1] = LimitString(inside[n], limit)
    BY <1>3
  <2>3. g[n + 1] = LimitString(g[n], limit)
    BY <1>1
  <2> QED
    BY <2>1, <2>2, <2>3
<1> HIDE DEF T
<1>6. Nat \subseteq T
  BY <1>4, <1>5, Induction
<1> USE DEF T
<1>7. inside[val.wraps] = g[val.wraps]
  <2>1. val.wraps \in T
    BY <1>6
  <2> QED
    BY <2>1
<1>8. Stringed(val, limit) = inside[val.wraps]
  BY DEF Stringed, inside
<1> QED
  BY <1>7, <1>8

\* enqueue shortened this field, perhaps for an earlier record.
Shortened(f, limit) ==
    /\ f.type = "String" => LimitString(f.val.text, limit) = f.val.text
    /\ f.type = "Stringer" => f.val.wraps # 0

\* What one turn of the loop in enqueue changes: the text of a String, the wrapping
\* of a Stringer, and nothing else (logr.go:256-270).
LEMMA LimitedField ==
  ASSUME NEW f, IsField(f), NEW limit \in Int
  PROVE  /\ IsField(LimitField(f, limit)) /\ LimitField(f, limit).key = f.key
         /\ LimitField(f, limit).val.bad = f.val.bad
         /\ LimitField(f, limit).type = f.type
         /\ LimitField(f, limit).val.text = IF f.type = "String" THEN LimitString(f.val.text, limit) ELSE f.val.text
         /\ LimitField(f, limit).val.wraps = IF f.type = "Stringer" THEN f.val.wraps + 1 ELSE f.val.wraps
<1> IsValue(f.val) /\ IsText(f.val.text) /\ f.val.wraps \in Nat
  BY DEF IsField, IsValue
<1>1. CASE f.type = "String"
  <2> DEFINE v == [f.val EXCEPT !.text = LimitString(f.val.text, limit)]
             g == [f EXCEPT !.val = v]
  <2>1. LimitField(f, limit) = g
    BY <1>1 DEF LimitField
  <2>2. IsValue(v) /\ v.text = LimitString(f.val.text, limit) /\ v.wraps = f.val.wraps /\ v.bad = f.val.bad
    BY LimitType DEF IsValue
  <2> HIDE DEF v
  <2>3. IsField(g) /\ g.key = f.key /\ g.type = f.type /\ g.val = v
    BY <2>2 DEF IsField
  <2> QED
    BY <1>1, <2>1, <2>2, <2>3
<1>2. CASE f.type = "Stringer"
  <2> DEFINE v == [f.val EXCEPT !.wraps = f.val.wraps + 1]
             g == [f EXCEPT !.val = v]
  <2>1. LimitField(f, limit) = g
    BY <1>2 DEF LimitField
  <2>2. IsValue(v) /\ v.text = f.val.text /\ v.wraps = f.val.wraps + 1 /\ v.bad = f.val.bad
    BY DEF IsValue
  <2> HIDE DEF v
  <2>3. IsField(g) /\ g.key = f.key /\ g.type = f.type /\ g.val = v
    BY <2>2 DEF IsField
  <2> QED
    BY <1>2, <2>1, <2>2, <2>3
<1>3. CASE f.type \notin {"String", "Stringer"}
  BY <1>3 DEF LimitField
<1> QED
  BY <1>1, <1>2, <1>3

\* enqueue shortens fields in place in a slice that LogM and callers pass to several
\* records (logr.go:250-272).  The first time makes the field Shortened; every later
\* time leaves what is rendered unchanged, which is why prep may copy the field
\* (logrec.go:61) while enqueue is at it for the next record.
THEOREM ShortenedOnce ==
  ASSUME NEW f, IsField(f), NEW limit \in Int
  PROVE  /\ Shortened(LimitField(f, limit), limit)
         /\ Shortened(f, limit) => ValueText(LimitField(f, limit), limit) = ValueText(f, limit)
<1> DEFINE g == LimitField(f, limit)
<1>1. /\ IsField(g)
      /\ g.type = f.type
      /\ g.val.text = IF f.type = "String" THEN LimitString(f.val.text, limit) ELSE f.val.text
      /\ g.val.wraps = IF f.type = "Stringer" THEN f.val.wraps + 1 ELSE f.val.wraps
  BY LimitedField
<1>2. IsValue(f.val) /\ IsText(f.val.text) /\ f.val.wraps \in Nat /\ IsValue(g.val)
  BY <1>1 DEF IsField, IsValue
<1> HIDE DEF g
<1>3. Shortened(g, limit)
  BY <1>1, <1>2, LimitOnce DEF Shortened
<1>4. ASSUME Shortened(f, limit)
      PROVE  ValueText(g, limit) = ValueText(f, limit)
  <2>1. CASE f.type = "Stringer"
    <3>1. Stringed(g.val, limit) = LimitString(g.val.text, limit)
      BY <1>1, <1>2, <2>1, StringedOnce
    <3>2. Stringed(f.val, limit) = LimitString(f.val.text, limit)
      BY <1>2, <1>4, <2>1, StringedOnce DEF Shortened
    <3> QED
      BY <1>1, <2>1, <3>1, <3>2 DEF ValueText
  <2>2. CASE f.type # "Stringer" /\ f.type # "String"
    <3>1. g = f
      BY <2>2 DEF g, LimitField
    <3> QED
      BY <3>1
  <2>3. CASE f.type = "String"
    BY <1>1, <1>4, <2>3 DEF Shortened, ValueText
  <2> QED
    BY <2>1, <2>2, <2>3
<1> QED
  BY <1>3, <1>4 DEF g

\* At most maxFieldLen bytes of a shortened String or Stringer are rendered, the dots
\* of LimitByteSlice not counted (formatter.go:32-41).
THEOREM ShortenedFits ==
  ASSUME NEW f, IsField(f), NEW limit \in Nat \ {0}, f.type \in {"String", "Stringer"}, Shortened(f, limit)
  PROVE  ValueText(f, limit).len <= limit
<1> IsValue(f.val) /\ IsText(f.val.text) /\ f.val.wraps \in Nat
  BY DEF IsField, IsValue
<1>1. ValueText(f, limit) = LimitString(f.val.text, limit)
  BY StringedOnce DEF ValueText, Shortened
<1>2. LimitString(f.val.text, limit).len <= limit
  BY Limited DEF IsText, Size
<1> QED
  BY <1>1, <1>2

-----------------------------------------------------------------------------
(***************************************************************************)
(* The keys of fields: prefixCollision (formatters/json.go:172-180), which *)
(* calls itself until the key is none of the four it avoids.               *)
(***************************************************************************)

\* A function that goes on from w while w is in K.
Seeks(from, K, val) == from = [w \in Nat |-> IF w \in K THEN from[w + 1] ELSE val[w]]

\* A search that has a number outside K ahead of it ends there or before.
LEMMA SeekEnds ==
  ASSUME NEW K, NEW val, NEW u \in Nat, NEW v \in Nat, u <= v, v \notin K,
         NEW from, Seeks(from, K, val)
  PROVE  \E x \in Nat : u <= x /\ x \notin K /\ from[u] = val[x]
<1> USE DEF Seeks
<1> DEFINE Good(w) == \E x \in Nat : w <= x /\ x \notin K /\ from[w] = val[x]
           T == {n \in Nat : \A w \in Nat : w + n = v => Good(w)}
<1>2. 0 \in T
  <2> SUFFICES ASSUME NEW w \in Nat, w + 0 = v
               PROVE  Good(w)
    OBVIOUS
  <2>1. w = v /\ from[w] = val[v]
    OBVIOUS
  <2> QED
    BY <2>1
<1>3. ASSUME NEW n \in Nat, n \in T
      PROVE  n + 1 \in T
  <2> SUFFICES ASSUME NEW w \in Nat, w + (n + 1) = v
               PROVE  Good(w)
    OBVIOUS
  <2>1. w + 1 \in Nat /\ (w + 1) + n = v
    OBVIOUS
  <2>2. Good(w + 1)
    <3> HIDE DEF Good
    <3> QED
      BY <1>3, <2>1
  <2>3. CASE w \in K
    <3>1. from[w] = from[w + 1]
      BY <2>3
    <3>2. PICK x \in Nat : w + 1 <= x /\ x \notin K /\ from[w + 1] = val[x]
      BY <2>2
    <3> QED
      BY <3>1, <3>2
  <2>4. CASE w \notin K
    BY <2>4
  <2> QED
    BY <2>3, <2>4
<1> HIDE DEF T
<1>4. Nat \subseteq T
  BY <1>2, <1>3, Induction
<1>5. v - u \in Nat /\ u + (v - u) = v
  OBVIOUS
<1>6. v - u \in T
  BY <1>4, <1>5
<1> USE DEF T
<1> HIDE DEF Good
<1>7. Good(u)
  BY <1>5, <1>6
<1> QED
  BY <1>7 DEF Good

\* There is such a function when the search ends from everywhere.
LEMMA SeekExists ==
  ASSUME NEW K, NEW val, \A w \in Nat : \E v \in Nat : w <= v /\ v \notin K
  PROVE  \E from : Seeks(from, K, val)
<1> DEFINE Free(w) == {v \in Nat : w <= v /\ v \notin K}
           Least(w) == CHOOSE v \in Free(w) : \A x \in Free(w) : v <= x
           from == [w \in Nat |-> val[Least(w)]]
<1>1. ASSUME NEW w \in Nat
      PROVE  Least(w) \in Free(w) /\ \A x \in Free(w) : Least(w) <= x
  <2>1. Free(w) \subseteq Nat /\ Free(w) # {}
    OBVIOUS
  <2> HIDE DEF Free
  <2>2. \E v \in Free(w) : \A x \in Free(w) : v <= x
    BY <2>1, LeastNatural
  <2> QED
    BY <2>2
<1>2. ASSUME NEW w \in Nat
      PROVE  val[Least(w)] = IF w \in K THEN from[w + 1] ELSE val[w]
  <2>1. CASE w \in K
    <3>1. Free(w) = Free(w + 1)
      <4>1. \A v \in Nat : w <= v /\ v \notin K <=> w + 1 <= v /\ v \notin K
        BY <2>1
      <4> QED
        BY <4>1
    <3> HIDE DEF Free
    <3>2. Least(w) = Least(w + 1)
      BY <3>1
    <3> HIDE DEF Least
    <3> QED
      BY <2>1, <3>2
  <2>2. CASE w \notin K
    <3>1. w \in Free(w)
      BY <2>2
    <3> HIDE DEF Least
    <3>2. Least(w) = w
      BY <1>1, <3>1
    <3> QED
      BY <2>2, <3>2
  <2> QED
    BY <2>1, <2>2
<1> HIDE DEF Least
<1>3. Seeks(from, K, val)
  BY <1>2 DEF Seeks
<1> QED
  BY <1>3

\* The four keys prefixCollision compares with are keys.
LEMMA KeyNames ==
  ASSUME NEW fm, IsFormatter(fm), NEW n \in {"timestamp", "level", "msg", "stacktrace"}
  PROVE  IsKey(KeyName(fm, n))
<1>1. n \in NameOf
  BY DEF NameOf
<1>2. IsKey(fm.names[n])
  BY <1>1 DEF IsFormatter
<1>3. IsKey(Key(0, n))
  BY <1>1, BasesAssumption DEF Key, IsKey
<1> QED
  BY <1>2, <1>3 DEF KeyName

\* The recursion of prefixCollision (formatters/json.go:172-180) ends for every key
\* and every four names, the names with underscores among them; it adds nothing but
\* underscores to the key, leaves the rest of the field alone, and the result is
\* none of the four.
THEOREM CollisionAvoided ==
  ASSUME NEW fm, IsFormatter(fm), NEW f, IsField(f)
  PROVE  LET g == PrefixCollision(fm, f)
         IN  /\ g.key \notin {KeyName(fm, n) : n \in {"timestamp", "level", "msg", "stacktrace"}}
             /\ g.key[1] \in Nat /\ g.key[1] >= f.key[1]
             /\ g = [f EXCEPT !.key = <<g.key[1], f.key[2]>>]
<1> DEFINE names == {KeyName(fm, n) : n \in {"timestamp", "level", "msg", "stacktrace"}}
           base == f.key[2]
           u == f.key[1]
           Eq(h) == h = [w \in Nat |-> IF Key(w, base) \in names THEN h[w + 1] ELSE Key(w, base)]
           from == CHOOSE h : Eq(h)
           g == PrefixCollision(fm, f)
           K == {w \in Nat : Key(w, base) \in names}
           val == [w \in Nat |-> Key(w, base)]
<1>1. IsKey(f.key) /\ u \in Nat
  BY DEF IsField, IsKey
<1>2. \A k \in names : IsKey(k)
  BY KeyNames
<1>3. names = {KeyName(fm, "timestamp"), KeyName(fm, "level"), KeyName(fm, "msg"), KeyName(fm, "stacktrace")}
  OBVIOUS
<1>4. g = [f EXCEPT !.key = from[u]]
  BY DEF PrefixCollision
<1> HIDE DEF names, base, u, g
<1>5. ASSUME NEW w \in Nat
      PROVE  \E v \in Nat : w <= v /\ v \notin K
  <2>1. PICK k1, k2, k3, k4 :
         names = {k1, k2, k3, k4} /\ IsKey(k1) /\ IsKey(k2) /\ IsKey(k3) /\ IsKey(k4)
    BY <1>2, <1>3
  <2> DEFINE v == w + k1[1] + k2[1] + k3[1] + k4[1] + 1
  <2>2. k1[1] \in Nat /\ k2[1] \in Nat /\ k3[1] \in Nat /\ k4[1] \in Nat
    BY <2>1 DEF IsKey
  <2>3. v \in Nat /\ w <= v /\ v # k1[1] /\ v # k2[1] /\ v # k3[1] /\ v # k4[1]
    BY <2>2
  <2> HIDE DEF v
  <2>4. Key(v, base)[1] = v
    BY DEF Key
  <2>5. v \notin K
    BY <2>1, <2>3, <2>4
  <2> QED
    BY <2>3, <2>5
<1>6. ASSUME NEW h
      PROVE  Eq(h) <=> Seeks(h, K, val)
  <2>1. [w \in Nat |-> IF Key(w, base) \in names THEN h[w + 1] ELSE Key(w, base)]
          = [w \in Nat |-> IF w \in K THEN h[w + 1] ELSE val[w]]
    OBVIOUS
  <2> QED
    BY <2>1 DEF Seeks
<1> HIDE DEF Eq, K, val
<1>7. Eq(from)
  <2>3. \A w \in Nat : \E v \in Nat : w <= v /\ v \notin K
    BY <1>5
  <2>1. \E h : Seeks(h, K, val)
    BY <2>3, SeekExists
  <2>2. \E h : Eq(h)
    BY <1>6, <2>1
  <2> QED
    BY <2>2
<1> HIDE DEF from
<1>8. PICK v \in Nat : u <= v /\ v \notin K /\ from[u] = val[v]
  <2>1. Seeks(from, K, val)
    BY <1>6, <1>7
  <2>2. PICK x \in Nat : u <= x /\ x \notin K
    BY <1>1, <1>5
  <2>3. u \in Nat
    BY <1>1
  <2>4. x \in Nat /\ u <= x /\ x \notin K
    BY <2>2
  <2> HIDE DEF u
  <2>5. \E z \in Nat : u <= z /\ z \notin K /\ from[u] = val[z]
    BY <2>1, <2>3, <2>4, SeekEnds DEF Seeks
  <2> QED
    BY <2>5
<1>9. from[u] = <<v, base>> /\ <<v, base>> \notin names
  BY <1>8 DEF val, K, Key
<1>10. g.key = <<v, base>> /\ g = [f EXCEPT !.key = <<v, base>>]
  BY <1>4, <1>9 DEF IsField
<1>11. g.key[1] = v
  BY <1>10
<1> QED
  BY <1>1, <1>8, <1>9, <1>10, <1>11 DEF names, base, g, u

-----------------------------------------------------------------------------
(***************************************************************************)
(* Sequences of whatever elements.                                         *)
(***************************************************************************)

\* IsSequence and Seq.
LEMMA SequenceIn ==
  ASSUME NEW s, IsSequence(s), NEW S, \A i \in 1 .. Len(s) : s[i] \in S
  PROVE  s \in Seq(S)
<1>1. s \in [1 .. Len(s) -> S]
  BY DEF IsSequence
<1> QED
  BY <1>1, SeqDef DEF IsSequence

\* What is in Seq is a sequence with elements of the set.
LEMMA SequenceOf ==
  ASSUME NEW S, NEW s \in Seq(S)
  PROVE  IsSequence(s) /\ DOMAIN s = 1 .. Len(s) /\ \A i \in 1 .. Len(s) : s[i] \in S
  BY LenProperties DEF IsSequence

\* The empty sequence.
LEMMA EmptySequence == IsSequence(<<>>) /\ Len(<<>>) = 0
  BY EmptySeq, SequenceOf

\* A function on 1 .. n is a sequence of length n.
LEMMA SequenceNew ==
  ASSUME NEW n \in Nat, NEW s, DOMAIN s = 1 .. n, s = [i \in 1 .. n |-> s[i]]
  PROVE  IsSequence(s) /\ Len(s) = n
<1> DEFINE S == {s[i] : i \in 1 .. n}
<1>1. s \in [1 .. n -> S]
  OBVIOUS
<1>2. s \in Seq(S)
  BY <1>1, SeqDef
<1>3. DOMAIN s = 1 .. Len(s) /\ Len(s) \in Nat
  BY <1>2, LenProperties
<1> HIDE DEF S
<1> QED
  BY <1>2, <1>3, SequenceOf

\* Append, Tail, \o and <<e>> of sequences, by their elements.
LEMMA AppendSequence ==
  ASSUME NEW s, IsSequence(s), NEW e
  PROVE  /\ IsSequence(Append(s, e)) /\ Len(Append(s, e)) = Len(s) + 1
         /\ \A i \in 1 .. Len(s) : Append(s, e)[i] = s[i]
         /\ Append(s, e)[Len(s) + 1] = e
<1> DEFINE S == {s[i] : i \in 1 .. Len(s)} \cup {e}
<1>1. s \in Seq(S)
  BY SequenceIn
<1>2. e \in S
  OBVIOUS
<1> HIDE DEF S
<1>3. Append(s, e) \in Seq(S)
  BY <1>1, <1>2, AppendProperties
<1>4. IsSequence(Append(s, e))
  BY <1>3, SequenceOf
<1> QED
  BY <1>1, <1>2, <1>4, AppendProperties

\* The head and the tail of a sequence, element by element.
LEMMA TailSequence ==
  ASSUME NEW s, IsSequence(s), s # <<>>
  PROVE  /\ Len(s) > 0 /\ Head(s) = s[1]
         /\ IsSequence(Tail(s)) /\ Len(Tail(s)) = Len(s) - 1
         /\ \A i \in 1 .. Len(s) - 1 : Tail(s)[i] = s[i + 1]
<1> DEFINE S == {s[i] : i \in 1 .. Len(s)}
<1>1. s \in Seq(S)
  BY SequenceIn
<1> HIDE DEF S
<1>2. Tail(s) \in Seq(S)
  BY <1>1, HeadTailProperties
<1>3. IsSequence(Tail(s))
  BY <1>2, SequenceOf
<1> QED
  BY <1>1, <1>3, HeadTailProperties, EmptySeq

\* The elements of a concatenation.
LEMMA ConcatSequence ==
  ASSUME NEW s, IsSequence(s), NEW t, IsSequence(t)
  PROVE  /\ IsSequence(s \o t) /\ Len(s \o t) = Len(s) + Len(t)
         /\ \A i \in 1 .. Len(s) : (s \o t)[i] = s[i]
         /\ \A i \in 1 .. Len(t) : (s \o t)[Len(s) + i] = t[i]
<1> DEFINE S == {s[i] : i \in 1 .. Len(s)} \cup {t[i] : i \in 1 .. Len(t)}
<1>1. s \in Seq(S) /\ t \in Seq(S)
  BY SequenceIn
<1> HIDE DEF S
<1>2. IsSequence(s \o t)
  BY <1>1, ConcatProperties, SequenceOf
<1>3. Len(s \o t) = Len(s) + Len(t)
      /\ \A i \in 1 .. Len(s) + Len(t) : (s \o t)[i] = IF i <= Len(s) THEN s[i] ELSE t[i - Len(s)]
  BY <1>1, ConcatProperties
<1>4. Len(s) \in Nat /\ Len(t) \in Nat
  BY DEF IsSequence
<1> QED
  BY <1>2, <1>3, <1>4

\* A sequence of one element.
LEMMA OneSequence ==
  ASSUME NEW e
  PROVE  IsSequence(<<e>>) /\ Len(<<e>>) = 1 /\ <<e>>[1] = e
<1>1. <<e>> \in Seq({e})
  OBVIOUS
<1> QED
  BY <1>1, SequenceOf

\* Sequences with the same elements are the same.
LEMMA SequenceEqual ==
  ASSUME NEW s, IsSequence(s), NEW t, IsSequence(t), Len(s) = Len(t),
         \A i \in 1 .. Len(s) : s[i] = t[i]
  PROVE  s = t
  BY DEF IsSequence

-----------------------------------------------------------------------------
(***************************************************************************)
(* InOrder: the members of a set of numbers as a sequence.                 *)
(***************************************************************************)

Below(S, i) == {k \in S : k < i}

\* Every place of the order is taken.
Ranked(S) ==
    /\ S \subseteq Nat /\ IsFiniteSet(S)
    /\ \A j \in 1 .. Cardinality(S) : \E i \in S : Cardinality(Below(S, i)) = j - 1

\* The member with j - 1 smaller ones is at place j.
LEMMA InOrderAt ==
  ASSUME NEW S, S \subseteq Nat, IsFiniteSet(S), NEW j \in 1 .. Cardinality(S),
         NEW i \in S, Cardinality(Below(S, i)) = j - 1
  PROVE  InOrder(S)[j] = i
<1>1. ASSUME NEW a \in S, NEW b \in S, a < b
      PROVE  Cardinality(Below(S, a)) < Cardinality(Below(S, b))
  <2>1. Below(S, b) \in SUBSET S /\ Below(S, a) \in SUBSET Below(S, b)
    <3>1. \A k \in S : k < a => k < b
      BY <1>1
    <3> QED
      BY <3>1 DEF Below
  <2>2. a \in Below(S, b) /\ a \notin Below(S, a)
    BY <1>1 DEF Below
  <2>3. IsFiniteSet(Below(S, b))
    BY <2>1, FS_Subset
  <2>4. IsFiniteSet(Below(S, a)) /\ Cardinality(Below(S, a)) <= Cardinality(Below(S, b))
        /\ (Cardinality(Below(S, b)) = Cardinality(Below(S, a)) => Below(S, b) = Below(S, a))
    BY <2>1, <2>3, FS_Subset
  <2>5. Cardinality(Below(S, a)) \in Nat /\ Cardinality(Below(S, b)) \in Nat
    BY <2>3, <2>4, FS_CardinalityType
  <2> QED
    BY <2>2, <2>4, <2>5
<1>2. ASSUME NEW a \in S, Cardinality(Below(S, a)) = j - 1
      PROVE  a = i
  <2>1. a \in Nat /\ i \in Nat /\ j \in Int
    OBVIOUS
  <2>2. ~ (a < i)
    BY <1>1, <1>2, <2>1
  <2>3. ~ (i < a)
    BY <1>1, <1>2, <2>1
  <2> QED
    BY <2>1, <2>2, <2>3
<1> DEFINE x == CHOOSE a \in S : Cardinality({k \in S : k < a}) = j - 1
<1>3. \E a \in S : Cardinality({k \in S : k < a}) = j - 1
  BY DEF Below
<1>4. x \in S /\ Cardinality({k \in S : k < x}) = j - 1
  BY <1>3
<1>5. InOrder(S)[j] = x
  BY DEF InOrder
<1> HIDE DEF x
<1>6. x = i
  BY <1>2, <1>4 DEF Below
<1> QED
  BY <1>5, <1>6

\* InOrder is a sequence with a place for each member.
LEMMA InOrderSequence ==
  ASSUME NEW S, IsFiniteSet(S)
  PROVE  IsSequence(InOrder(S)) /\ Len(InOrder(S)) = Cardinality(S) /\ DOMAIN InOrder(S) = 1 .. Cardinality(S)
<1>1. Cardinality(S) \in Nat
  BY FS_CardinalityType
<1>2. \A n, f : f = [j \in 1 .. n |-> f[j]] => DOMAIN f = 1 .. n
  OBVIOUS
<1>3. InOrder(S) = [i \in 1 .. Cardinality(S) |-> InOrder(S)[i]]
  <2> DEFINE At(j) == CHOOSE i \in S : Cardinality({k \in S : k < i}) = j - 1
             c == Cardinality(S)
             v == InOrder(S)
  <2>1. v = [j \in 1 .. c |-> At(j)]
    BY DEF InOrder
  <2> HIDE DEF At, c, v
  <2>2. v = [j \in 1 .. c |-> v[j]]
    BY <2>1
  <2> QED
    BY <2>2 DEF c, v
<1> QED
  BY <1>1, <1>2, <1>3, SequenceNew

\* The empty set in order.
LEMMA InOrderEmpty == Ranked({}) /\ InOrder({}) = <<>> /\ Cardinality({}) = 0
<1>1. IsFiniteSet({}) /\ Cardinality({}) = 0
  BY FS_EmptySet
<1>2. IsSequence(InOrder({})) /\ Len(InOrder({})) = 0
  BY <1>1, InOrderSequence
<1>3. InOrder({}) = <<>>
  BY <1>2, EmptySequence, SequenceEqual
<1> QED
  BY <1>1, <1>3 DEF Ranked

\* A smallest member is the first.
LEMMA InOrderFirst ==
  ASSUME NEW S, Ranked(S), NEW x \in Nat, \A i \in S : x < i
  PROVE  /\ Ranked(S \cup {x})
         /\ Cardinality(S \cup {x}) = Cardinality(S) + 1
         /\ InOrder(S \cup {x})[1] = x
         /\ \A j \in 1 .. Cardinality(S) : InOrder(S)[j] \in S /\ InOrder(S \cup {x})[j + 1] = InOrder(S)[j]
<1> DEFINE T == S \cup {x}
<1> S \subseteq Nat /\ IsFiniteSet(S)
  BY DEF Ranked
<1>1. x \notin S
  <2> SUFFICES ASSUME x \in S PROVE FALSE
    OBVIOUS
  <2> QED
    OBVIOUS
<1>2. T \subseteq Nat /\ IsFiniteSet(T) /\ Cardinality(T) = Cardinality(S) + 1 /\ Cardinality(S) \in Nat
  BY <1>1, FS_AddElement, FS_CardinalityType
<1>3. Cardinality(Below(T, x)) = 0
  <2>1. Below(T, x) = {}
    <3>1. \A k \in T : ~ (k < x)
      OBVIOUS
    <3> QED
      BY <3>1 DEF Below
  <2> QED
    BY <2>1, FS_EmptySet
<1>4. ASSUME NEW i \in S
      PROVE  Cardinality(Below(T, i)) = Cardinality(Below(S, i)) + 1
  <2>1. Below(T, i) = Below(S, i) \cup {x} /\ x \notin Below(S, i)
    BY <1>1 DEF Below
  <2>2. IsFiniteSet(Below(S, i))
    <3>1. Below(S, i) \in SUBSET S
      BY DEF Below
    <3> QED
      BY <3>1, FS_Subset
  <2> QED
    BY <2>1, <2>2, FS_AddElement
<1>5. ASSUME NEW j \in 1 .. Cardinality(S)
      PROVE  \E i \in S : /\ Cardinality(Below(S, i)) = j - 1 /\ InOrder(S)[j] = i
                          /\ Cardinality(Below(T, i)) = (j + 1) - 1 /\ InOrder(T)[j + 1] = i
  <2>1. PICK i \in S : Cardinality(Below(S, i)) = j - 1
    BY DEF Ranked
  <2>2. Cardinality(Below(T, i)) = (j + 1) - 1
    BY <1>4, <2>1
  <2>3. InOrder(S)[j] = i
    BY <2>1, InOrderAt
  <2>4. j + 1 \in 1 .. Cardinality(T) /\ i \in T
    BY <1>2
  <2> HIDE DEF T
  <2>5. InOrder(T)[j + 1] = i
    BY <1>2, <2>2, <2>4, InOrderAt
  <2> QED
    BY <2>1, <2>2, <2>3, <2>5
<1>6. InOrder(T)[1] = x
  <2>1. 1 \in 1 .. Cardinality(T) /\ x \in T /\ Cardinality(Below(T, x)) = 1 - 1
    BY <1>2, <1>3
  <2> HIDE DEF T
  <2> QED
    BY <1>2, <2>1, InOrderAt
<1>7. Ranked(T)
  <2> SUFFICES ASSUME NEW j \in 1 .. Cardinality(T)
               PROVE  \E i \in T : Cardinality(Below(T, i)) = j - 1
    BY <1>2 DEF Ranked
  <2>1. CASE j = 1
    BY <1>3, <2>1
  <2>2. CASE j # 1
    <3>1. j - 1 \in 1 .. Cardinality(S) /\ (j - 1) + 1 = j
      BY <1>2, <2>2
    <3> QED
      BY <1>5, <3>1
  <2> QED
    BY <2>1, <2>2
<1> QED
  BY <1>2, <1>5, <1>6, <1>7

\* What InOrder lists are members.
LEMMA InOrderMember ==
  ASSUME NEW S, Ranked(S), NEW j \in DOMAIN InOrder(S)
  PROVE  InOrder(S)[j] \in S
<1>1. S \subseteq Nat /\ IsFiniteSet(S) /\ j \in 1 .. Cardinality(S)
  BY InOrderSequence DEF Ranked
<1>2. PICK i \in S : Cardinality(Below(S, i)) = j - 1
  BY <1>1 DEF Ranked
<1> QED
  BY <1>1, <1>2, InOrderAt

-----------------------------------------------------------------------------
(***************************************************************************)
(* The arguments of Infow, With and the like: argsToFields (sugar.go:166-197)*)
(* goes through them in order; Heads, Rejected and PairFields say without  *)
(* order which of them begin a field, which are rejected and what is meant.*)
(***************************************************************************)

\* Arguments of any number.
Arguments(args) ==
    IsSequence(args) /\ \A i \in DOMAIN args : args[i].is \in {"field", "string", "other"}

\* The equation that Heads solves.
IsHead(args, H, i) == i = 1 \/ (i - 1 \in H => args[i - 1].is = "field")

\* The equation has a solution: whether an argument begins a field follows from the
\* argument before it.
LEMMA HeadsExist ==
  ASSUME NEW args, Arguments(args)
  PROVE  /\ Heads(args) \subseteq 1 .. Len(args)
         /\ \A i \in 1 .. Len(args) : i \in Heads(args) <=> IsHead(args, Heads(args), i)
<1> DEFINE n == Len(args)
           T == {m \in Nat : m <= n => \E H \in SUBSET (1 .. m) : \A i \in 1 .. m : i \in H <=> IsHead(args, H, i)}
<1>1. n \in Nat /\ DOMAIN args = 1 .. n
  BY DEF Arguments, IsSequence
<1> HIDE DEF n
<1>2. 0 \in T
  <2>1. 1 .. 0 = {} /\ {} \in SUBSET (1 .. 0)
    OBVIOUS
  <2>2. \A i \in 1 .. 0 : i \in {} <=> IsHead(args, {}, i)
    BY <2>1
  <2> QED
    BY <2>1, <2>2
<1>3. ASSUME NEW m \in Nat, m \in T
      PROVE  m + 1 \in T
  <2> SUFFICES ASSUME m + 1 <= n
               PROVE  \E H \in SUBSET (1 .. m + 1) : \A i \in 1 .. m + 1 : i \in H <=> IsHead(args, H, i)
    OBVIOUS
  <2>1. PICK H \in SUBSET (1 .. m) : \A i \in 1 .. m : i \in H <=> IsHead(args, H, i)
    BY <1>1, <1>3
  <2> DEFINE G == IF IsHead(args, H, m + 1) THEN H \cup {m + 1} ELSE H
  <2>2. G \in SUBSET (1 .. m + 1)
    OBVIOUS
  <2>3. \A i \in 1 .. m : i \in G <=> i \in H
    OBVIOUS
  <2>4. m + 1 \in G <=> IsHead(args, H, m + 1)
    OBVIOUS
  <2> HIDE DEF G
  <2>5. ASSUME NEW i \in 1 .. m + 1
        PROVE  IsHead(args, G, i) <=> IsHead(args, H, i)
    <3>1. CASE i = 1
      BY <3>1 DEF IsHead
    <3>2. CASE i # 1
      <4>1. i - 1 \in 1 .. m
        BY <3>2
      <4> QED
        BY <2>3, <4>1 DEF IsHead
    <3> QED
      BY <3>1, <3>2
  <2>6. ASSUME NEW i \in 1 .. m + 1
        PROVE  i \in G <=> IsHead(args, G, i)
    <3>1. CASE i = m + 1
      BY <2>4, <2>5, <3>1
    <3>2. CASE i # m + 1
      <4>1. i \in 1 .. m
        BY <3>2
      <4> QED
        BY <2>1, <2>3, <2>5, <4>1
    <3> QED
      BY <3>1, <3>2
  <2> QED
    BY <2>2, <2>6
<1> HIDE DEF T
<1>4. Nat \subseteq T
  BY <1>2, <1>3, Induction
<1>5. n \in T
  BY <1>1, <1>4
<1> USE DEF T
<1>6. \E H \in SUBSET DOMAIN args : \A i \in DOMAIN args : i \in H <=> (i = 1 \/ (i - 1 \in H => args[i - 1].is = "field"))
  <2>1. PICK H \in SUBSET (1 .. n) : \A i \in 1 .. n : i \in H <=> IsHead(args, H, i)
    BY <1>1, <1>5
  <2>2. \A i \in 1 .. n : i \in H <=> (i = 1 \/ (i - 1 \in H => args[i - 1].is = "field"))
    BY <2>1 DEF IsHead
  <2> QED
    BY <1>1, <2>2
<1> DEFINE H == Heads(args)
<1>7. H \in SUBSET DOMAIN args /\ \A i \in DOMAIN args : i \in H <=> (i = 1 \/ (i - 1 \in H => args[i - 1].is = "field"))
  BY <1>6 DEF Heads
<1> HIDE DEF H
<1>8. \A i \in DOMAIN args : i \in H <=> IsHead(args, H, i)
  BY <1>7 DEF IsHead
<1> QED
  BY <1>1, <1>7, <1>8 DEF H, n

\* What ArgsToFields does at one argument.
ArgsStep(args, from, i) ==
    IF i = Len(args) + 1 THEN [fields |-> <<>>, errors |-> <<>>]
    ELSE IF args[i].is = "field"
      THEN [from[i + 1] EXCEPT !.fields = <<args[i].field>> \o @]
    ELSE IF i = Len(args) THEN [fields |-> <<>>, errors |-> <<InvalidPair(args[i])>>]
    ELSE IF args[i].is = "string"
      THEN [from[i + 2] EXCEPT !.fields = <<AnyArg(args[i].key, args[i + 1])>> \o @]
    ELSE [from[i + 2] EXCEPT !.errors = <<InvalidKey>> \o @]

\* The recursion of ArgsToFields defines a function.
LEMMA ArgsFromExists ==
  ASSUME NEW args, Len(args) \in Nat
  PROVE  \E from : from = [i \in 1 .. Len(args) + 1 |-> ArgsStep(args, from, i)]
<1> DEFINE n == Len(args)
           Part(m, f) == /\ f = [i \in m .. n + 1 |-> f[i]]
                         /\ \A i \in m .. n + 1 : f[i] = ArgsStep(args, f, i)
           T == {k \in Nat : k <= n + 1 => \E f : Part(n + 2 - k, f)}
<1>1. n \in Nat
  OBVIOUS
<1> HIDE DEF n
<1>2. 0 \in T
  <2> DEFINE f == [i \in n + 2 .. n + 1 |-> 0]
  <2>1. n + 2 .. n + 1 = {}
    BY <1>1
  <2>2. Part(n + 2, f)
    BY <2>1
  <2>3. n + 2 - 0 = n + 2
    BY <1>1
  <2> HIDE DEF Part
  <2> QED
    BY <2>2, <2>3
<1>3. ASSUME NEW k \in Nat, k \in T
      PROVE  k + 1 \in T
  <2> SUFFICES ASSUME k + 1 <= n + 1
               PROVE  \E f : Part(n + 2 - (k + 1), f)
    OBVIOUS
  <2> DEFINE m == n + 2 - (k + 1)
  <2>1. m \in 1 .. n + 1 /\ n + 2 - k = m + 1
    BY <1>1
  <2>2. PICK f : Part(m + 1, f)
    <3> HIDE DEF Part, m
    <3> QED
      BY <1>1, <1>3, <2>1
  <2> HIDE DEF m
  <2> DEFINE g == [i \in m .. n + 1 |-> IF i = m THEN ArgsStep(args, f, m) ELSE f[i]]
  <2>3. \A i \in m + 1 .. n + 1 : i \in m .. n + 1 /\ i # m
    BY <1>1, <2>1
  <2>4. \A i \in m + 1 .. n + 1 : g[i] = f[i]
    BY <2>3
  <2>5. g[m] = ArgsStep(args, f, m)
    BY <1>1, <2>1
  <2>6. g = [i \in m .. n + 1 |-> g[i]]
    OBVIOUS
  <2> HIDE DEF g
  <2>7. ASSUME NEW i \in m .. n + 1
        PROVE  ArgsStep(args, g, i) = ArgsStep(args, f, i)
    <3>1. i \in Int /\ m \in Int
      BY <1>1, <2>1
    <3>2. CASE i = n + 1
      BY <3>2 DEF ArgsStep, n
    <3>3. CASE i = n
      <4>1. g[i + 1] = f[i + 1]
        BY <1>1, <2>1, <2>4, <3>1, <3>3
      <4> QED
        BY <3>3, <4>1 DEF ArgsStep, n
    <3>4. CASE i # n /\ i # n + 1
      <4>1. g[i + 1] = f[i + 1] /\ g[i + 2] = f[i + 2]
        BY <1>1, <2>1, <2>4, <3>1, <3>4
      <4> QED
        BY <4>1 DEF ArgsStep
    <3> QED
      BY <3>2, <3>3, <3>4
  <2>8. ASSUME NEW i \in m .. n + 1
        PROVE  g[i] = ArgsStep(args, g, i)
    <3>1. CASE i = m
      BY <2>5, <2>7, <3>1
    <3>2. CASE i # m
      <4>1. i \in m + 1 .. n + 1
        BY <1>1, <2>1, <3>2
      <4> QED
        BY <2>2, <2>4, <2>7, <4>1
    <3> QED
      BY <3>1, <3>2
  <2>9. Part(m, g)
    BY <2>6, <2>8
  <2> HIDE DEF Part
  <2> QED
    BY <2>9 DEF m
<1> HIDE DEF T, Part
<1>4. Nat \subseteq T
  BY <1>2, <1>3, Induction
<1>5. n + 1 \in T /\ n + 2 - (n + 1) = 1
  BY <1>1, <1>4
<1> USE DEF T
<1>6. PICK f : Part(1, f)
  BY <1>1, <1>5
<1>7. f = [i \in 1 .. n + 1 |-> ArgsStep(args, f, i)]
  BY <1>6 DEF Part
<1> QED
  BY <1>7 DEF n

\* ElementsAt: its length, its first element and the others.
LEMMA ElementsSequence ==
  ASSUME NEW S, IsFiniteSet(S), NEW v
  PROVE  IsSequence(ElementsAt(v, S)) /\ Len(ElementsAt(v, S)) = Cardinality(S)
<1>1. DOMAIN InOrder(S) = 1 .. Cardinality(S) /\ Cardinality(S) \in Nat
  BY InOrderSequence, FS_CardinalityType
<1>2. DOMAIN ElementsAt(v, S) = 1 .. Cardinality(S)
      /\ ElementsAt(v, S) = [j \in 1 .. Cardinality(S) |-> ElementsAt(v, S)[j]]
  BY <1>1 DEF ElementsAt
<1> QED
  BY <1>1, <1>2, SequenceNew

\* A place before all others gives the first element.
LEMMA ElementsFirst ==
  ASSUME NEW S, Ranked(S), NEW x \in Nat, \A i \in S : x < i, NEW v
  PROVE  ElementsAt(v, S \cup {x}) = <<v[x]>> \o ElementsAt(v, S)
<1> DEFINE T == S \cup {x}
<1>1. IsFiniteSet(S) /\ Cardinality(S) \in Nat /\ Ranked(T) /\ IsFiniteSet(T) /\ Cardinality(T) = Cardinality(S) + 1
  <2>1. Ranked(T) /\ Cardinality(T) = Cardinality(S) + 1
    BY InOrderFirst
  <2>2. IsFiniteSet(S) /\ IsFiniteSet(T)
    BY <2>1 DEF Ranked
  <2> HIDE DEF T
  <2> QED
    BY <2>1, <2>2, FS_CardinalityType
<1>2. /\ InOrder(T)[1] = x
      /\ \A j \in 1 .. Cardinality(S) : InOrder(T)[j + 1] = InOrder(S)[j]
  BY InOrderFirst
<1> HIDE DEF T
<1> DEFINE s == ElementsAt(v, T)
           r == ElementsAt(v, S)
           t == <<v[x]>> \o r
<1>3. IsSequence(s) /\ Len(s) = Cardinality(S) + 1 /\ IsSequence(r) /\ Len(r) = Cardinality(S)
  BY <1>1, ElementsSequence
<1>4. /\ \A j \in 1 .. Cardinality(S) + 1 : s[j] = v[InOrder(T)[j]]
      /\ \A j \in 1 .. Cardinality(S) : r[j] = v[InOrder(S)[j]]
  BY <1>1, InOrderSequence DEF ElementsAt
<1> HIDE DEF s, r
<1>5. /\ IsSequence(t) /\ Len(t) = Cardinality(S) + 1 /\ t[1] = v[x]
      /\ \A j \in 1 .. Cardinality(S) : t[1 + j] = r[j]
  <2>1. IsSequence(<<v[x]>>) /\ Len(<<v[x]>>) = 1 /\ <<v[x]>>[1] = v[x]
    BY OneSequence
  <2>2. 1 \in 1 .. Len(<<v[x]>>)
    BY <2>1
  <2> QED
    BY <1>1, <1>3, <2>1, <2>2, ConcatSequence
<1> HIDE DEF t
<1>6. ASSUME NEW j \in 1 .. Cardinality(S) + 1
      PROVE  s[j] = t[j]
  <2>1. CASE j = 1
    BY <1>2, <1>4, <1>5, <2>1
  <2>2. CASE j # 1
    <3>1. j - 1 \in 1 .. Cardinality(S) /\ (j - 1) + 1 = j /\ 1 + (j - 1) = j
      BY <1>1, <2>2
    <3>2. s[j] = v[InOrder(S)[j - 1]]
      BY <1>2, <1>4, <3>1
    <3>3. t[j] = r[j - 1]
      BY <1>5, <3>1
    <3> QED
      BY <1>4, <3>1, <3>2, <3>3
  <2> QED
    BY <2>1, <2>2
<1>7. s = t
  BY <1>3, <1>5, <1>6, SequenceEqual
<1> QED
  BY <1>7 DEF s, t, r, T

\* No places, no elements.
LEMMA ElementsEmpty == ASSUME NEW v PROVE ElementsAt(v, {}) = <<>>
<1>1. IsSequence(ElementsAt(v, {})) /\ Len(ElementsAt(v, {})) = 0
  BY InOrderEmpty, ElementsSequence, FS_EmptySet
<1> QED
  BY <1>1, EmptySequence, SequenceEqual

\* The field that begins at an argument, and the one that is logged with the error.
PairAt(args) ==
    [k \in 1 .. Len(args) |-> IF args[k].is = "field" THEN args[k].field ELSE AnyArg(args[k].key, args[k + 1])]
ErrorAt(args) ==
    [k \in 1 .. Len(args) |-> IF k = Len(args) THEN InvalidPair(args[k]) ELSE InvalidKey]

\* argsToFields (sugar.go:166-197) yields the fields that the arguments mean and one
\* error for each argument that is neither a field nor the key of a pair, for every
\* number and mixture of fields, keys, values and strays: what is rejected, and a
\* field between pairs, does not shift the meaning of what follows.
THEOREM ArgsMeant ==
  ASSUME NEW args, Arguments(args)
  PROVE  /\ ArgsToFields(args).fields = PairFields(args)
         /\ ArgsToFields(args).errors
              = [j \in DOMAIN HeadSeq(args, TRUE) |-> ErrorAt(args)[HeadSeq(args, TRUE)[j]]]
<1> DEFINE n == Len(args)
           H == Heads(args)
           Rest(r, i) == {k \in H : k >= i /\ Rejected(args, k) = r}
           Eq(f) == f = [i \in 1 .. n + 1 |-> ArgsStep(args, f, i)]
           from == CHOOSE f : Eq(f)
           Good(i) ==
             /\ Ranked(Rest(FALSE, i)) /\ Ranked(Rest(TRUE, i))
             /\ from[i] = [fields |-> ElementsAt(PairAt(args), Rest(FALSE, i)), errors |-> ElementsAt(ErrorAt(args), Rest(TRUE, i))]
           T == {m \in Nat : \A i \in 1 .. n + 1 : i + m >= n + 1 /\ (i \in H \/ i = n + 1) => Good(i)}
<1>1. n \in Nat /\ DOMAIN args = 1 .. n /\ \A i \in 1 .. n : args[i].is \in {"field", "string", "other"}
  BY DEF Arguments, IsSequence
<1>2. H \subseteq 1 .. n /\ \A i \in 1 .. n : i \in H <=> IsHead(args, H, i)
  BY HeadsExist
<1>3. ArgsToFields(args) = from[1]
  BY DEF ArgsToFields, ArgsStep
<1>4. Eq(from)
  <2>1. \E f : Eq(f)
    BY <1>1, ArgsFromExists
  <2> QED
    BY <2>1
<1> HIDE DEF from, H
<1>5. ASSUME NEW i \in 1 .. n + 1
      PROVE  from[i] = ArgsStep(args, from, i)
  BY <1>4
<1> HIDE DEF n, Eq
<1>6. Good(n + 1)
  <2>1. Rest(FALSE, n + 1) = {} /\ Rest(TRUE, n + 1) = {}
    <3>1. \A k \in H : ~ (k >= n + 1)
      BY <1>1, <1>2
    <3> QED
      BY <3>1
  <2>2. from[n + 1] = [fields |-> <<>>, errors |-> <<>>]
    <3>1. n + 1 \in 1 .. n + 1
      BY <1>1
    <3>2. from[n + 1] = ArgsStep(args, from, n + 1)
      BY <1>5, <3>1
    <3> QED
      BY <3>2 DEF ArgsStep, n
  <2> HIDE DEF Rest
  <2> QED
    BY <2>1, <2>2, ElementsEmpty, InOrderEmpty
<1>7. ASSUME NEW i \in H, NEW m \in 1 .. n + 1, i < m,
             Ranked(Rest(FALSE, m)), Ranked(Rest(TRUE, m)),
             \A k \in H : i < k => m <= k
      PROVE  /\ Rejected(args, i) => /\ Rest(FALSE, i) = Rest(FALSE, m) /\ Ranked(Rest(TRUE, i))
                                     /\ ElementsAt(ErrorAt(args), Rest(TRUE, i)) = <<ErrorAt(args)[i]>> \o ElementsAt(ErrorAt(args), Rest(TRUE, m))
             /\ ~Rejected(args, i) => /\ Rest(TRUE, i) = Rest(TRUE, m) /\ Ranked(Rest(FALSE, i))
                                      /\ ElementsAt(PairAt(args), Rest(FALSE, i)) = <<PairAt(args)[i]>> \o ElementsAt(PairAt(args), Rest(FALSE, m))
  <2>1. \A k \in H : k >= i <=> k = i \/ k >= m
    BY <1>1, <1>2, <1>7
  <2>2. i \in Nat /\ \A k \in Rest(TRUE, m) \cup Rest(FALSE, m) : i < k
    BY <1>1, <1>2, <1>7
  <2>3. CASE Rejected(args, i)
    <3>1. Rest(FALSE, i) = Rest(FALSE, m) /\ Rest(TRUE, i) = Rest(TRUE, m) \cup {i}
      BY <2>1, <2>3
    <3>2. \A k \in Rest(TRUE, m) : i < k
      BY <2>2
    <3> HIDE DEF Rest
    <3>3. Ranked(Rest(TRUE, i))
      <4>1. Ranked(Rest(TRUE, m) \cup {i})
        BY <1>7, <2>2, <3>2, InOrderFirst
      <4> QED
        BY <3>1, <4>1
    <3>4. ElementsAt(ErrorAt(args), Rest(TRUE, i)) = <<ErrorAt(args)[i]>> \o ElementsAt(ErrorAt(args), Rest(TRUE, m))
      BY <1>7, <2>2, <3>1, <3>2, ElementsFirst
    <3> QED
      BY <2>3, <3>1, <3>3, <3>4
  <2>4. CASE ~Rejected(args, i)
    <3>1. Rest(TRUE, i) = Rest(TRUE, m) /\ Rest(FALSE, i) = Rest(FALSE, m) \cup {i}
      BY <2>1, <2>4
    <3>2. \A k \in Rest(FALSE, m) : i < k
      BY <2>2
    <3> HIDE DEF Rest
    <3>3. Ranked(Rest(FALSE, i))
      <4>1. Ranked(Rest(FALSE, m) \cup {i})
        BY <1>7, <2>2, <3>2, InOrderFirst
      <4> QED
        BY <3>1, <4>1
    <3>4. ElementsAt(PairAt(args), Rest(FALSE, i)) = <<PairAt(args)[i]>> \o ElementsAt(PairAt(args), Rest(FALSE, m))
      BY <1>7, <2>2, <3>1, <3>2, ElementsFirst
    <3> QED
      BY <2>4, <3>1, <3>3, <3>4
  <2> QED
    BY <2>3, <2>4
<1> HIDE DEF Rest, Good
<1>8. 0 \in T
  <2> SUFFICES ASSUME NEW i \in 1 .. n + 1, i + 0 >= n + 1
               PROVE  Good(i)
    OBVIOUS
  <2>1. i = n + 1
    BY <1>1
  <2> QED
    BY <1>6, <2>1
<1>9. ASSUME NEW m \in Nat, m \in T
      PROVE  m + 1 \in T
  <2> SUFFICES ASSUME NEW i \in 1 .. n + 1, i + (m + 1) >= n + 1, i \in H
               PROVE  Good(i)
    BY <1>6
  <2>1. i \in H /\ i \in 1 .. n /\ i \in Nat /\ i + 1 \in 1 .. n + 1 /\ (i + 1) + m >= n + 1
    BY <1>1, <1>2
  <2>2. IsHead(args, H, i)
    BY <1>2, <2>1
  <2>3. i + 1 \in 1 .. n => (i + 1 \in H <=> args[i].is = "field")
    <3> SUFFICES ASSUME i + 1 \in 1 .. n
                 PROVE  i + 1 \in H <=> args[i].is = "field"
      OBVIOUS
    <3>1. (i + 1) - 1 = i /\ i + 1 # 1
      BY <2>1
    <3> QED
      BY <1>2, <3>1 DEF IsHead
  <2>4. \A j \in 1 .. n + 1 : j + m >= n + 1 /\ (j \in H \/ j = n + 1) => Good(j)
    BY <1>9
  <2>5. from[i] = ArgsStep(args, from, i) /\ i # Len(args) + 1
    <3>1. i # n + 1
      BY <1>1, <2>1
    <3> QED
      BY <1>5, <3>1 DEF n
  <2>6. CASE args[i].is = "field"
    <3>1. ~Rejected(args, i)
      BY <2>6 DEF Rejected
    <3>2. Good(i + 1)
      <4>1. i + 1 \in H \/ i + 1 = n + 1
        BY <1>1, <2>1, <2>3, <2>6
      <4> QED
        BY <2>1, <2>4, <4>1
    <3>3. \A k \in H : i < k => i + 1 <= k
      BY <1>1, <1>2, <2>1
    <3>4. /\ Rest(TRUE, i) = Rest(TRUE, i + 1) /\ Ranked(Rest(FALSE, i))
          /\ ElementsAt(PairAt(args), Rest(FALSE, i)) = <<PairAt(args)[i]>> \o ElementsAt(PairAt(args), Rest(FALSE, i + 1))
      <4>1. Ranked(Rest(FALSE, i + 1)) /\ Ranked(Rest(TRUE, i + 1))
        BY <3>2 DEF Good
      <4>2. i < i + 1
        BY <2>1
      <4> QED
        BY <1>7, <2>1, <4>2, <3>1, <3>3, <4>1
    <3>5. PairAt(args)[i] = args[i].field
      BY <2>1, <2>6 DEF PairAt, n
    <3>6. from[i] = [fields |-> <<args[i].field>> \o from[i + 1].fields, errors |-> from[i + 1].errors]
      BY <2>5, <2>6, <3>2 DEF ArgsStep, Good
    <3>10. Ranked(Rest(TRUE, i + 1))
      BY <3>2 DEF Good
    <3>7. /\ from[i + 1].fields = ElementsAt(PairAt(args), Rest(FALSE, i + 1))
          /\ from[i + 1].errors = ElementsAt(ErrorAt(args), Rest(TRUE, i + 1))
      BY <3>2 DEF Good
    <3>8. Ranked(Rest(TRUE, i)) /\ Ranked(Rest(FALSE, i))
      BY <3>4, <3>10
    <3>9. from[i] = [fields |-> ElementsAt(PairAt(args), Rest(FALSE, i)), errors |-> ElementsAt(ErrorAt(args), Rest(TRUE, i))]
      BY <3>4, <3>5, <3>6, <3>7
    <3> QED
      BY <3>8, <3>9 DEF Good
  <2>7. CASE args[i].is # "field" /\ i = n
    <3>1. Rejected(args, i) /\ Good(i + 1)
      BY <1>6, <2>7 DEF Rejected, n
    <3>2. \A k \in H : i < k => i + 1 <= k
      BY <1>1, <1>2, <2>1
    <3>3. /\ Rest(FALSE, i) = Rest(FALSE, i + 1) /\ Ranked(Rest(TRUE, i))
          /\ ElementsAt(ErrorAt(args), Rest(TRUE, i)) = <<ErrorAt(args)[i]>> \o ElementsAt(ErrorAt(args), Rest(TRUE, i + 1))
      <4>1. Ranked(Rest(FALSE, i + 1)) /\ Ranked(Rest(TRUE, i + 1))
        BY <3>1 DEF Good
      <4>2. i < i + 1
        BY <2>1
      <4> QED
        BY <1>7, <2>1, <4>2, <3>1, <3>2, <4>1
    <3>4. ErrorAt(args)[i] = InvalidPair(args[i])
      BY <2>1, <2>7 DEF ErrorAt, n
    <3>5. from[i] = [fields |-> <<>>, errors |-> <<InvalidPair(args[i])>>]
      BY <2>5, <2>7 DEF ArgsStep, n
    <3>6. Rest(FALSE, i + 1) = {} /\ Rest(TRUE, i + 1) = {}
      <4>1. \A k \in H : ~ (k >= i + 1)
        BY <1>1, <1>2, <2>7
      <4> QED
        BY <4>1 DEF Rest
    <3>7. <<InvalidPair(args[i])>> \o <<>> = <<InvalidPair(args[i])>>
      OBVIOUS
    <3> QED
      BY <3>1, <3>3, <3>4, <3>5, <3>6, <3>7, ElementsEmpty DEF Good
  <2>8. CASE args[i].is # "field" /\ i # n
    <3>1. i + 2 \in 1 .. n + 1 /\ i + 1 \in 1 .. n /\ (i + 2) + m >= n + 1 /\ i < i + 2
      BY <1>1, <2>1, <2>8
    <3>2. i + 1 \notin H
      BY <2>3, <2>8, <3>1
    <3>3. i + 2 \in H \/ i + 2 = n + 1
      <4> SUFFICES ASSUME i + 2 # n + 1
                   PROVE  i + 2 \in H
        OBVIOUS
      <4>1. i + 2 \in 1 .. n /\ (i + 2) - 1 = i + 1
        BY <1>1, <3>1
      <4> QED
        BY <1>2, <3>2, <4>1 DEF IsHead
    <3>4. Good(i + 2)
      <4> QED
        BY <2>4, <3>1, <3>3
    <3>8. Ranked(Rest(FALSE, i + 2)) /\ Ranked(Rest(TRUE, i + 2))
      BY <3>4 DEF Good
    <3>9. /\ from[i + 2].fields = ElementsAt(PairAt(args), Rest(FALSE, i + 2))
          /\ from[i + 2].errors = ElementsAt(ErrorAt(args), Rest(TRUE, i + 2))
      BY <3>4 DEF Good
    <3>5. \A k \in H : i < k => i + 2 <= k
      BY <1>1, <1>2, <2>1, <3>2
    <3>6. CASE args[i].is = "string"
      <4>1. ~Rejected(args, i)
        BY <2>8, <3>6 DEF Rejected, n
      <4>2. /\ Rest(TRUE, i) = Rest(TRUE, i + 2) /\ Ranked(Rest(FALSE, i))
            /\ ElementsAt(PairAt(args), Rest(FALSE, i)) = <<PairAt(args)[i]>> \o ElementsAt(PairAt(args), Rest(FALSE, i + 2))
        BY <1>7, <2>1, <3>1, <3>5, <3>8, <4>1
      <4>3. PairAt(args)[i] = AnyArg(args[i].key, args[i + 1])
        BY <2>1, <3>6 DEF PairAt, n
      <4>4. from[i] = [fields |-> <<AnyArg(args[i].key, args[i + 1])>> \o from[i + 2].fields, errors |-> from[i + 2].errors]
        BY <2>5, <2>8, <3>4, <3>6 DEF ArgsStep, n, Good
      <4>5. from[i] = [fields |-> ElementsAt(PairAt(args), Rest(FALSE, i)), errors |-> ElementsAt(ErrorAt(args), Rest(TRUE, i))]
        BY <3>9, <4>2, <4>3, <4>4
      <4>6. Ranked(Rest(TRUE, i)) /\ Ranked(Rest(FALSE, i))
        BY <3>8, <4>2
      <4> QED
        BY <4>5, <4>6 DEF Good
    <3>7. CASE args[i].is = "other"
      <4>1. Rejected(args, i)
        BY <2>8, <3>7 DEF Rejected, n
      <4>2. /\ Rest(FALSE, i) = Rest(FALSE, i + 2) /\ Ranked(Rest(TRUE, i))
            /\ ElementsAt(ErrorAt(args), Rest(TRUE, i)) = <<ErrorAt(args)[i]>> \o ElementsAt(ErrorAt(args), Rest(TRUE, i + 2))
        BY <1>7, <2>1, <3>1, <3>5, <3>8, <4>1
      <4>3. ErrorAt(args)[i] = InvalidKey
        BY <2>1, <2>8 DEF ErrorAt, n
      <4>4. from[i] = [fields |-> from[i + 2].fields, errors |-> <<InvalidKey>> \o from[i + 2].errors]
        BY <2>5, <2>8, <3>4, <3>7 DEF ArgsStep, n, Good
      <4>5. from[i] = [fields |-> ElementsAt(PairAt(args), Rest(FALSE, i)), errors |-> ElementsAt(ErrorAt(args), Rest(TRUE, i))]
        BY <3>9, <4>2, <4>3, <4>4
      <4>6. Ranked(Rest(TRUE, i)) /\ Ranked(Rest(FALSE, i))
        BY <3>8, <4>2
      <4> QED
        BY <4>5, <4>6 DEF Good
    <3> QED
      BY <1>1, <2>1, <2>8, <3>6, <3>7
  <2> QED
    BY <2>6, <2>7, <2>8
<1> HIDE DEF T
<1>10. Nat \subseteq T
  BY <1>8, <1>9, Induction
<1>11. n \in T /\ 1 \in 1 .. n + 1 /\ 1 + n >= n + 1 /\ (1 \in H \/ 1 = n + 1)
  <2>1. 1 \in 1 .. n => 1 \in H
    BY <1>2 DEF IsHead
  <2> QED
    BY <1>1, <1>10, <2>1
<1> USE DEF T
<1>12. Good(1)
  BY <1>11
<1> HIDE DEF T
<1>13. Rest(TRUE, 1) = {k \in H : Rejected(args, k) = TRUE} /\ Rest(FALSE, 1) = {k \in H : Rejected(args, k) = FALSE}
  <2>1. \A k \in H : k >= 1
    BY <1>1, <1>2
  <2> QED
    BY <2>1 DEF Rest
<1>14. HeadSeq(args, TRUE) = InOrder(Rest(TRUE, 1)) /\ HeadSeq(args, FALSE) = InOrder(Rest(FALSE, 1))
  BY <1>13 DEF HeadSeq, H
<1>15. ArgsToFields(args).errors = ElementsAt(ErrorAt(args), Rest(TRUE, 1))
       /\ ArgsToFields(args).fields = ElementsAt(PairAt(args), Rest(FALSE, 1))
  BY <1>3, <1>12 DEF Good
<1>16. PairFields(args) = ElementsAt(PairAt(args), Rest(FALSE, 1))
  <2>1. Rest(FALSE, 1) \subseteq 1 .. n /\ Ranked(Rest(FALSE, 1)) /\ IsFiniteSet(Rest(FALSE, 1))
    BY <1>2, <1>12, <1>13 DEF Good, Ranked
  <2>2. \A j \in DOMAIN InOrder(Rest(FALSE, 1)) : InOrder(Rest(FALSE, 1))[j] \in 1 .. n
    BY <2>1, InOrderMember
  <2> QED
    BY <1>14, <2>2 DEF PairFields, ElementsAt, PairAt, n
<1> QED
  BY <1>14, <1>15, <1>16 DEF ElementsAt

-----------------------------------------------------------------------------
(***************************************************************************)
(* The type invariant.  The pipeline never holds more records than the call*)
(* means: each step of it passes one on.  The pool holds empty buffers only,*)
(* and a read loop refers to records that were prepared.                   *)
(***************************************************************************)

\* The read loop of a host, when n records were prepared.
HostOK(host, n) ==
    /\ host = [in |-> host.in, pc |-> host.pc, rec |-> host.rec, at |-> host.at, tmp |-> host.tmp, buf |-> host.buf]
    /\ IsSequence(host.in)
    /\ \A i \in DOMAIN host.in : host.in[i] \in 1 .. n
    /\ host.pc \in {"select", "sort", "format", "write", "release"}
    /\ host.rec \in 0 .. n /\ (host.pc = "select" <=> host.rec = 0)
    /\ host.tmp # nil => host.pc = "sort"

\* A place of the pipeline holds a record or none.
One(x) == IF x = nil THEN 0 ELSE 1

\* The records that are made or still to be made.
Known == Len(todo) + One(cur) + Len(queue) + One(loop) + Len(recs)

\* The records on their way (logr.go:249-285, logrec.go:54), before and after the call.
PipeOK ==
    /\ env \in Scenarios
    /\ IsSequence(todo) /\ IsSequence(queue) /\ IsSequence(recs)
    /\ Known <= Len(AllMeant)
    /\ DOMAIN slices = {} => todo = <<>> /\ cur = nil /\ queue = <<>> /\ loop = nil /\ recs = <<>>

\* ReleaseBuffer resets what it puts into the pool (logr.go:407-412).
PoolOK == pool \in Seq({<<>>})

\* The read loops (target.go:221-269).
HostsOK == hosts = [h \in Hosts |-> hosts[h]] /\ \A h \in Hosts : HostOK(hosts[h], Len(recs))

\* The inductive invariant.
RecordsInv == PipeOK /\ PoolOK /\ HostsOK

-----------------------------------------------------------------------------

\* What applies a function to the elements of a sequence is a sequence.
LEMMA MapSequence ==
  ASSUME NEW s, IsSequence(s), NEW f, f = [i \in DOMAIN s |-> f[i]]
  PROVE  IsSequence(f) /\ Len(f) = Len(s)
<1>1. Len(s) \in Nat /\ DOMAIN s = 1 .. Len(s)
  BY DEF IsSequence
<1> QED
  BY <1>1, SequenceNew

\* What the assumption says of the scenario in force.
LEMMA ScenarioArguments ==
  ASSUME env \in Scenarios
  PROVE  Arguments(env.args) /\ IsSequence(env.levels) /\ env.call \in {"LogM", "Info", "Logf", "Infow", "With"}
  BY RecordsAssumption DEF Arguments

\* There are as many calls of Log for errors as there are rejections (ArgsMeant).
LEMMA CallsMeant ==
  ASSUME env \in Scenarios, NEW c, c = ArgsToFields(env.args)
  PROVE  /\ IsSequence(c.errors) /\ IsSequence(ErrorCalls(c.errors))
         /\ Len(ErrorCalls(c.errors)) = Len(c.errors)
         /\ IsSequence(Rejections) /\ Len(Rejections) = Len(c.errors)
<1> DEFINE at == HeadSeq(env.args, TRUE)
<1>1. Arguments(env.args)
  BY ScenarioArguments
<1>2. c.errors = [j \in DOMAIN at |-> ErrorAt(env.args)[at[j]]]
  BY <1>1, ArgsMeant
<1>3. IsSequence(at)
  <2>1. Heads(env.args) \subseteq 1 .. Len(env.args) /\ Len(env.args) \in Nat
    BY <1>1, HeadsExist DEF Arguments, IsSequence
  <2> DEFINE S == {i \in Heads(env.args) : Rejected(env.args, i) = TRUE}
  <2>2. S \in SUBSET (1 .. Len(env.args)) /\ IsFiniteSet(1 .. Len(env.args))
    BY <2>1, FS_Interval
  <2>3. IsFiniteSet(S) /\ at = InOrder(S)
    BY <2>2, FS_Subset DEF HeadSeq
  <2> HIDE DEF S, at
  <2> QED
    BY <2>3, InOrderSequence
<1> HIDE DEF at
<1>4. IsSequence(c.errors) /\ Len(c.errors) = Len(at)
  BY <1>2, <1>3, MapSequence
<1>5. IsSequence(ErrorCalls(c.errors)) /\ Len(ErrorCalls(c.errors)) = Len(c.errors)
  <2> DEFINE f == ErrorCalls(c.errors)
  <2>1. f = [i \in DOMAIN c.errors |-> f[i]]
    BY DEF ErrorCalls
  <2> HIDE DEF f
  <2> QED
    BY <1>4, <2>1, MapSequence DEF f
<1>6. IsSequence(Rejections) /\ Len(Rejections) = Len(at)
  <2> DEFINE f == Rejections
  <2>1. f = [i \in DOMAIN at |-> f[i]]
    BY DEF Rejections, at
  <2> HIDE DEF f
  <2> QED
    BY <1>3, <2>1, MapSequence DEF f
<1> QED
  BY <1>4, <1>5, <1>6

\* The call makes as many records as it means.
LEMMA PipeCall ==
  ASSUME PipeOK, Call
  PROVE  PipeOK'
<1> DEFINE conv == ArgsToFields(env.args)
           n == Len(conv.errors)
<1> USE DEF PipeOK
<1>1. /\ env' = env /\ cur' = cur /\ queue' = queue /\ loop' = loop /\ recs' = recs
      /\ todo = <<>> /\ cur = nil /\ queue = <<>> /\ loop = nil /\ recs = <<>>
  <2>1. slices = <<>> /\ DOMAIN slices = {}
    BY DEF Call
  <2> QED
    BY <2>1 DEF Call
<1>2. /\ IsSequence(conv.errors) /\ IsSequence(ErrorCalls(conv.errors))
      /\ Len(ErrorCalls(conv.errors)) = n
      /\ IsSequence(Rejections) /\ Len(Rejections) = n
  BY CallsMeant
<1>3. n \in Nat
  BY <1>2 DEF IsSequence
<1>4. AllMeant' = AllMeant
  BY <1>1 DEF AllMeant, Rejections, PairFields, Meant
<1>5. SUFFICES IsSequence(todo') /\ Len(todo') <= Len(AllMeant) /\ DOMAIN slices' # {}
  BY <1>1, <1>4, EmptySequence DEF Known, One, IsSequence
<1>6. \A e : DOMAIN <<e>> = 1 .. 1 /\ 1 \in 1 .. 1
  OBVIOUS
<1>7. ASSUME NEW e
      PROVE  DOMAIN (conv.errors \o <<e>>) # {}
  <2>1. IsSequence(conv.errors \o <<e>>) /\ Len(conv.errors \o <<e>>) = n + 1
    BY <1>2, OneSequence, ConcatSequence
  <2> HIDE DEF conv
  <2>2. DOMAIN (conv.errors \o <<e>>) = 1 .. n + 1
    BY <2>1 DEF IsSequence
  <2>3. 1 \in 1 .. n + 1
    BY <1>3
  <2> QED
    BY <2>2, <2>3
<1>8. ASSUME NEW e
      PROVE  IsSequence(ErrorCalls(conv.errors) \o <<e>>) /\ Len(ErrorCalls(conv.errors) \o <<e>>) = n + 1
  <2> DEFINE s == ErrorCalls(conv.errors)
             t == <<e>>
  <2>1. IsSequence(s) /\ Len(s) = n /\ IsSequence(t) /\ Len(t) = 1
    BY <1>2, OneSequence
  <2> HIDE DEF s, t, n
  <2>2. IsSequence(s \o t) /\ Len(s \o t) = Len(s) + Len(t)
    <3>1. IsSequence(s) /\ IsSequence(t)
      BY <2>1
    <3> QED
      BY <3>1, ConcatSequence
  <2>3. IsSequence(s \o t) /\ Len(s \o t) = n + 1
    BY <2>1, <2>2
  <2> QED
    BY <2>3 DEF s, t
<1>9. ASSUME NEW e
      PROVE  Len(Append(Rejections, e)) = n + 1
  BY <1>2, AppendSequence
<1>10. CASE env.call = "LogM"
  <2>1. todo' = [i \in DOMAIN env.levels |-> LogCall(env.levels[i], env.with, 1, env.msg)]
        /\ DOMAIN slices' # {}
    BY <1>6, <1>10 DEF Call
  <2>2. AllMeant = [i \in DOMAIN env.levels |->
              Meant(env.levels[i], env.with, [j \in DOMAIN env.args |-> env.args[j].field], env.msg)]
    BY <1>10 DEF AllMeant
  <2>3. IsSequence(env.levels) /\ Len(env.levels) \in Nat
    BY ScenarioArguments DEF IsSequence
  <2>4. IsSequence(todo') /\ Len(todo') = Len(env.levels)
    BY <2>1, <2>3, MapSequence
  <2>5. Len(AllMeant) = Len(env.levels)
    BY <2>2, <2>3, MapSequence
  <2> QED
    BY <2>1, <2>3, <2>4, <2>5
<1>11. CASE env.call = "Info"
  <2>1. /\ todo' = <<>> \/ \E e : todo' = <<e>>
        /\ \E e : slices' = <<e>>
    BY <1>11 DEF Call
  <2>2. \E e : AllMeant = <<e>>
    BY <1>11 DEF AllMeant
  <2>3. PICK e : AllMeant = <<e>>
    BY <2>2
  <2>4. Len(AllMeant) = 1
    BY <2>3, OneSequence
  <2>5. IsSequence(todo') /\ Len(todo') <= 1
    <3>1. CASE todo' = <<>>
      BY <3>1, EmptySequence
    <3>2. CASE \E d : todo' = <<d>>
      BY <3>2, OneSequence
    <3> QED
      BY <2>1, <3>1, <3>2
  <2>6. DOMAIN slices' # {}
    BY <1>6, <2>1
  <2> QED
    BY <2>4, <2>5, <2>6
<1>12. CASE env.call = "Logf"
  <2>1. /\ \E e : todo' = <<e>>
        /\ \E e : slices' = <<e>>
    BY <1>12 DEF Call
  <2>2. \E e : AllMeant = <<e>>
    BY <1>12 DEF AllMeant
  <2> QED
    BY <1>6, <2>1, <2>2, OneSequence
<1>13. CASE env.call \in {"Infow", "With"}
  <2>1. /\ \E e : todo' = ErrorCalls(conv.errors) \o <<e>>
        /\ \E e : slices' = conv.errors \o <<e>>
    BY <1>13 DEF Call
  <2>2. \E e : AllMeant = Append(Rejections, e)
    BY <1>13 DEF AllMeant
  <2> QED
    BY <1>3, <1>7, <1>8, <1>9, <2>1, <2>2
<1> QED
  BY <1>10, <1>11, <1>12, <1>13, ScenarioArguments

\* The records a call means are finitely many, and depend on the scenario alone.
LEMMA MeantSequence ==
  ASSUME env \in Scenarios
  PROVE  Len(AllMeant) \in Nat
<1> DEFINE conv == ArgsToFields(env.args)
<1>1. IsSequence(Rejections)
  BY CallsMeant
<1>2. \A e : Len(<<e>>) = 1
  BY OneSequence
<1>3. \A e : Len(Append(Rejections, e)) \in Nat
  BY <1>1, AppendSequence DEF IsSequence
<1>4. CASE env.call = "LogM"
  <2>1. AllMeant = [i \in DOMAIN env.levels |->
              Meant(env.levels[i], env.with, [j \in DOMAIN env.args |-> env.args[j].field], env.msg)]
    BY <1>4 DEF AllMeant
  <2>2. IsSequence(env.levels)
    BY ScenarioArguments
  <2> QED
    BY <2>1, <2>2, MapSequence DEF IsSequence
<1>5. CASE env.call \in {"Info", "Logf"}
  <2>1. \E e : AllMeant = <<e>>
    BY <1>5 DEF AllMeant
  <2> QED
    BY <1>2, <2>1
<1>6. CASE env.call \in {"Infow", "With"}
  <2>1. \E e : AllMeant = Append(Rejections, e)
    BY <1>6 DEF AllMeant
  <2> QED
    BY <1>3, <2>1
<1> QED
  BY <1>4, <1>5, <1>6, ScenarioArguments

\* What a call means is settled when it is made: it depends on the scenario alone.
LEMMA SameMeant == ASSUME env' = env PROVE AllMeant' = AllMeant
  BY DEF AllMeant, Rejections, PairFields, Meant

\* A stage of the pipeline holds one record at most.
LEMMA OneBounds == \A x : One(x) \in 0 .. 1
  BY DEF One

\* A read loop of a host changes no record but in place.
LEMMA HostKeepsRecs ==
  ASSUME IsSequence(recs), NEW h \in Hosts, HostLoop(h)
  PROVE  /\ env' = env /\ todo' = todo /\ slices' = slices /\ cur' = cur /\ queue' = queue /\ loop' = loop
         /\ IsSequence(recs') /\ Len(recs') = Len(recs) /\ (recs = <<>> => recs' = recs)
<1>1. /\ env' = env /\ todo' = todo /\ slices' = slices /\ cur' = cur /\ queue' = queue /\ loop' = loop
      /\ recs' = recs \/ SortStep(h)
  BY DEF HostLoop, BorrowBuffer, SortStep, Format, Write, ReleaseBuffer
<1>2. DOMAIN recs' = DOMAIN recs /\ recs' = [i \in DOMAIN recs |-> recs'[i]]
  <2>1. CASE recs' = recs
    BY <2>1 DEF IsSequence
  <2>2. CASE SortStep(h)
    <3> DEFINE at == hosts[h].at
               rec == hosts[h].rec
    <3>1. \/ recs' = [recs EXCEPT ![rec].fieldsAll[at + 1] = hosts[h].tmp]
          \/ recs' = [recs EXCEPT ![rec].fieldsAll[at] = recs[rec].fieldsAll[at + 1]]
          \/ recs' = recs
      BY <2>2 DEF SortStep
    <3> QED
      BY <3>1 DEF IsSequence
  <2> QED
    BY <1>1, <2>1, <2>2
<1>3. DOMAIN recs = 1 .. Len(recs) /\ Len(recs) \in Nat
  BY DEF IsSequence
<1>4. IsSequence(recs') /\ Len(recs') = Len(recs)
  BY <1>2, <1>3, SequenceNew
<1>5. recs = <<>> => recs' = recs
  BY <1>4, EmptySequence, SequenceEqual
<1> QED
  BY <1>1, <1>4, <1>5

\* Every step passes a record on, drops it, or keeps it.
LEMMA PipeStep ==
  ASSUME PipeOK, PoolOK, HostsOK, RecordsNext
  PROVE  PipeOK'
<1> USE DEF PipeOK
<1>1. /\ Len(todo) \in Nat /\ Len(queue) \in Nat /\ Len(recs) \in Nat
      /\ One(cur) \in 0 .. 1 /\ One(loop) \in 0 .. 1 /\ One(cur') \in 0 .. 1 /\ One(loop') \in 0 .. 1
  BY OneBounds DEF IsSequence
<1>2. CASE Call
  BY <1>2, PipeCall
<1>3. CASE Log
  <2>1. /\ env' = env /\ slices' = slices /\ queue' = queue /\ loop' = loop /\ recs' = recs
        /\ cur = nil /\ todo # <<>> /\ todo' = Tail(todo)
    BY <1>3 DEF Log
  <2>2. IsSequence(todo') /\ Len(todo') = Len(todo) - 1
    BY <2>1, TailSequence
  <2>3. One(cur) = 0
    BY <2>1 DEF One
  <2>4. Known' <= Known
    BY <1>1, <2>1, <2>2, <2>3 DEF Known
  <2>5. Known \in Int /\ Known' \in Int
    BY <1>1, <2>1, <2>2 DEF Known
  <2>6. AllMeant' = AllMeant
    BY <2>1, SameMeant
  <2>7. Known' <= Len(AllMeant)
    BY <1>1, <2>1, <2>2, <2>3, <2>6 DEF Known
  <2> QED
    BY <2>1, <2>2, <2>6, <2>7
<1>4. CASE Limit
  <2>1. /\ env' = env /\ todo' = todo /\ queue' = queue /\ loop' = loop /\ recs' = recs
        /\ cur # nil /\ DOMAIN slices' = DOMAIN slices
    BY <1>4 DEF Limit
  <2>2. One(cur) = 1 /\ DOMAIN slices # {}
    BY <2>1 DEF One
  <2>3. AllMeant' = AllMeant
    BY <2>1, SameMeant
  <2>4. Known' <= Len(AllMeant)
    BY <1>1, <2>1, <2>2 DEF Known
  <2> QED
    BY <2>1, <2>2, <2>3, <2>4
<1>5. CASE Enqueue
  <2>1. /\ env' = env /\ todo' = todo /\ slices' = slices /\ loop' = loop /\ recs' = recs
        /\ cur # nil /\ cur' = nil /\ queue' = Append(queue, cur)
    BY <1>5 DEF Enqueue
  <2>2. One(cur) = 1 /\ One(cur') = 0 /\ DOMAIN slices # {}
    BY <2>1 DEF One
  <2>3. IsSequence(queue') /\ Len(queue') = Len(queue) + 1
    BY <2>1, AppendSequence
  <2>4. AllMeant' = AllMeant
    BY <2>1, SameMeant
  <2>5. Known' <= Len(AllMeant)
    BY <1>1, <2>1, <2>2, <2>3 DEF Known
  <2> QED
    BY <2>1, <2>2, <2>3, <2>4, <2>5
<1>6. CASE Prep
  <2>1. /\ env' = env /\ todo' = todo /\ slices' = slices /\ cur' = cur /\ recs' = recs
        /\ loop = nil /\ queue # <<>> /\ queue' = Tail(queue)
    BY <1>6 DEF Prep
  <2>2. One(loop) = 0 /\ DOMAIN slices # {}
    BY <2>1 DEF One
  <2>3. IsSequence(queue') /\ Len(queue') = Len(queue) - 1
    BY <2>1, TailSequence
  <2>4. AllMeant' = AllMeant
    BY <2>1, SameMeant
  <2>5. Known' <= Len(AllMeant)
    BY <1>1, <2>1, <2>2, <2>3 DEF Known
  <2> QED
    BY <2>1, <2>2, <2>3, <2>4, <2>5
<1>7. CASE PrepCopy
  <2>1. /\ env' = env /\ todo' = todo /\ slices' = slices /\ cur' = cur /\ recs' = recs
        /\ loop # nil /\ queue' = queue
    BY <1>7 DEF PrepCopy
  <2>2. One(loop) = 1 /\ DOMAIN slices # {}
    BY <2>1 DEF One
  <2>3. AllMeant' = AllMeant
    BY <2>1, SameMeant
  <2>4. Known' <= Len(AllMeant)
    BY <1>1, <2>1, <2>2 DEF Known
  <2> QED
    BY <2>1, <2>2, <2>3, <2>4
<1>8. CASE Fanout
  <2>1. /\ env' = env /\ todo' = todo /\ slices' = slices /\ cur' = cur /\ queue' = queue
        /\ loop # nil /\ loop' = nil /\ \E e : recs' = Append(recs, e)
    BY <1>8 DEF Fanout
  <2>2. One(loop) = 1 /\ One(loop') = 0 /\ DOMAIN slices # {}
    BY <2>1 DEF One
  <2>3. IsSequence(recs') /\ Len(recs') = Len(recs) + 1
    BY <2>1, AppendSequence
  <2>4. AllMeant' = AllMeant
    BY <2>1, SameMeant
  <2>5. Known' <= Len(AllMeant)
    BY <1>1, <2>1, <2>2, <2>3 DEF Known
  <2> QED
    BY <2>1, <2>2, <2>3, <2>4, <2>5
<1>9. CASE \E h \in Hosts : HostLoop(h)
  <2>1. PICK h \in Hosts : HostLoop(h)
    BY <1>9
  <2>2. /\ env' = env /\ todo' = todo /\ slices' = slices /\ cur' = cur /\ queue' = queue /\ loop' = loop
        /\ IsSequence(recs') /\ Len(recs') = Len(recs) /\ (recs = <<>> => recs' = recs)
    BY <2>1, HostKeepsRecs
  <2>3. AllMeant' = AllMeant
    BY <2>2, SameMeant
  <2>4. Known' <= Len(AllMeant)
    BY <1>1, <2>2 DEF Known
  <2> QED
    BY <2>2, <2>3, <2>4
<1>10. CASE Idle
  <2>1. /\ env' = env /\ todo' = todo /\ slices' = slices /\ cur' = cur /\ queue' = queue /\ loop' = loop
        /\ recs' = recs
    BY <1>10 DEF Idle, recordsVars
  <2>2. AllMeant' = AllMeant
    BY <2>1, SameMeant
  <2> QED
    BY <2>1, <2>2 DEF Known
<1> QED
  BY <1>2, <1>3, <1>4, <1>5, <1>6, <1>7, <1>8, <1>9, <1>10 DEF RecordsNext

\* Every step keeps the pool clean.
LEMMA PoolStep ==
  ASSUME PoolOK, RecordsNext
  PROVE  PoolOK'
<1> USE DEF PoolOK
<1>1. CASE \E h \in Hosts : BorrowBuffer(h)
  <2>1. PICK i \in 0 .. Len(pool) : pool' = IF i = 0 THEN pool ELSE RemoveAt(pool, i)
    BY <1>1 DEF BorrowBuffer
  <2>2. CASE i # 0
    <3>1. pool' = SubSeq(pool, 1, i - 1) \o SubSeq(pool, i + 1, Len(pool))
      BY <2>1, <2>2 DEF RemoveAt
    <3>2. Len(pool) \in Nat /\ i \in 1 .. Len(pool)
      BY <2>2
    <3>3. \A j \in 1 .. Len(pool) : pool[j] \in {<<>>}
      BY ElementOfSeq
    <3>4. SubSeq(pool, 1, i - 1) \in Seq({<<>>})
      BY <3>2, <3>3, SubSeqProperties
    <3>5. SubSeq(pool, i + 1, Len(pool)) \in Seq({<<>>})
      BY <3>2, <3>3, SubSeqProperties
    <3> QED
      BY <3>1, <3>4, <3>5, ConcatProperties
  <2> QED
    BY <2>1, <2>2
<1>2. CASE \E h \in Hosts : ReleaseBuffer(h)
  <2>1. pool' = pool \/ pool' = Append(pool, <<>>)
    BY <1>2 DEF ReleaseBuffer
  <2> QED
    BY <2>1, AppendProperties
<1>3. CASE pool' = pool
  BY <1>3
<1>4. Call \/ Log \/ Limit \/ Enqueue \/ Prep \/ PrepCopy \/ Fanout \/ Idle => pool' = pool
  BY DEF Call, Log, Limit, Enqueue, Prep, PrepCopy, Fanout, Idle, recordsVars
<1>5. \A h \in Hosts : SortStep(h) \/ Format(h) \/ Write(h) => pool' = pool
  BY DEF SortStep, Format, Write
<1> QED
  BY <1>1, <1>2, <1>3, <1>4, <1>5 DEF RecordsNext, HostLoop

\* More prepared records do no harm to a host.
LEMMA HostOKMonotone ==
  ASSUME NEW host, NEW m \in Nat, NEW n \in Nat, m <= n, HostOK(host, m)
  PROVE  HostOK(host, n)
<1>1. \A i \in 1 .. m : i \in 1 .. n
  OBVIOUS
<1>2. \A i \in 0 .. m : i \in 0 .. n
  OBVIOUS
<1> QED
  BY <1>1, <1>2 DEF HostOK

\* A record more in the queue of a host.
LEMMA HostFed ==
  ASSUME NEW host, NEW m \in Nat, HostOK(host, m)
  PROVE  HostOK([host EXCEPT !.in = Append(host.in, m + 1)], m + 1)
<1> DEFINE new == [host EXCEPT !.in = Append(host.in, m + 1)]
<1>1. HostOK(host, m + 1)
  BY HostOKMonotone
<1>2. /\ new = [in |-> Append(host.in, m + 1), pc |-> host.pc, rec |-> host.rec, at |-> host.at, tmp |-> host.tmp, buf |-> host.buf]
      /\ new.in = Append(host.in, m + 1)
      /\ new.pc = host.pc /\ new.rec = host.rec /\ new.at = host.at /\ new.tmp = host.tmp /\ new.buf = host.buf
  BY DEF HostOK
<1> HIDE DEF new
<1>3. IsSequence(host.in) /\ Len(host.in) \in Nat /\ DOMAIN host.in = 1 .. Len(host.in)
  BY DEF HostOK, IsSequence
<1>4. IsSequence(new.in) /\ Len(new.in) = Len(host.in) + 1 /\ DOMAIN new.in = 1 .. Len(host.in) + 1
  BY <1>2, <1>3, AppendSequence DEF IsSequence
<1>5. ASSUME NEW i \in DOMAIN new.in
      PROVE  new.in[i] \in 1 .. m + 1
  <2>1. CASE i = Len(host.in) + 1
    BY <1>2, <1>3, <2>1, AppendSequence
  <2>2. CASE i # Len(host.in) + 1
    <3>1. i \in 1 .. Len(host.in)
      BY <1>3, <1>4, <2>2
    <3>2. new.in[i] = host.in[i]
      BY <1>2, <1>3, <3>1, AppendSequence
    <3> QED
      BY <1>1, <1>3, <3>1, <3>2 DEF HostOK
  <2> QED
    BY <2>1, <2>2
<1> QED
  BY <1>1, <1>2, <1>4, <1>5 DEF HostOK, new

\* Every step keeps the read loops consistent, the records they refer to included.
LEMMA HostsStep ==
  ASSUME PipeOK, HostsOK, RecordsNext
  PROVE  HostsOK'
<1> DEFINE n == Len(recs)
<1>1. n \in Nat /\ IsSequence(recs)
  BY DEF PipeOK, IsSequence
<1>2. CASE hosts' = hosts /\ env' = env /\ recs' = recs
  BY <1>2 DEF HostsOK, Hosts
<1>3. Call \/ Log \/ Limit \/ Enqueue \/ Prep \/ PrepCopy \/ Idle => hosts' = hosts /\ env' = env /\ recs' = recs
  BY DEF Call, Log, Limit, Enqueue, Prep, PrepCopy, Idle, recordsVars
<1>4. CASE Fanout
  <2>1. /\ env' = env /\ \E e : recs' = Append(recs, e)
        /\ hosts' = [h \in Hosts |-> IF Enabled(h, loop.rec.level)
                                        THEN [hosts[h] EXCEPT !.in = Append(hosts[h].in, Len(recs'))] ELSE hosts[h]]
    BY <1>4 DEF Fanout
  <2>2. Len(recs') = n + 1
    BY <1>1, <2>1, AppendSequence
  <2>3. Hosts' = Hosts /\ hosts' = [h \in Hosts |-> hosts'[h]]
    BY <2>1 DEF Hosts
  <2> SUFFICES ASSUME NEW h \in Hosts
               PROVE  HostOK(hosts'[h], n + 1)
    BY <2>2, <2>3 DEF HostsOK
  <2>4. HostOK(hosts[h], n)
    BY DEF HostsOK
  <2> HIDE DEF n
  <2>5. hosts'[h] = [hosts[h] EXCEPT !.in = Append(hosts[h].in, n + 1)] \/ hosts'[h] = hosts[h]
    BY <2>1, <2>2
  <2> QED
    BY <1>1, <2>4, <2>5, HostFed, HostOKMonotone
<1>5. ASSUME NEW h \in Hosts, HostLoop(h)
      PROVE  HostsOK'
  <2> DEFINE host == hosts[h]
             new == hosts'[h]
  <2>1. env' = env /\ Len(recs') = n /\ Hosts' = Hosts
    BY <1>1, <1>5, HostKeepsRecs DEF Hosts
  <2>2. /\ hosts' = [g \in Hosts |-> hosts'[g]]
        /\ \A g \in Hosts : g # h => hosts'[g] = hosts[g]
    BY <1>5 DEF HostsOK, HostLoop, BorrowBuffer, SortStep, Format, Write, ReleaseBuffer
  <2>3. SUFFICES HostOK(new, n)
    BY <2>1, <2>2 DEF HostsOK
  <2>4. HostOK(host, n)
    BY DEF HostsOK
  <2>5. CASE BorrowBuffer(h)
    <3>1. /\ host.pc = "select" /\ host.in # <<>>
          /\ new.in = Tail(host.in) /\ new.rec = Head(host.in) /\ new.tmp = host.tmp
          /\ new.pc \in {"sort", "format"}
          /\ new = [in |-> new.in, pc |-> new.pc, rec |-> new.rec, at |-> new.at, tmp |-> new.tmp, buf |-> new.buf]
      <4>1. PICK i \in 0 .. Len(pool) :
              hosts' = [hosts EXCEPT ![h].in = Tail(@), ![h].rec = Head(hosts[h].in), ![h].at = 1,
                                     ![h].buf = IF i = 0 THEN <<>> ELSE pool[i],
                                     ![h].pc = IF env.hosts[h].fm.kind = "json" /\ env.hosts[h].fm.sorter = "inplace"
                                                 THEN "sort" ELSE "format"]
        BY <2>5 DEF BorrowBuffer
      <4> DEFINE buf == IF i = 0 THEN <<>> ELSE pool[i]
                 pc == IF env.hosts[h].fm.kind = "json" /\ env.hosts[h].fm.sorter = "inplace" THEN "sort" ELSE "format"
      <4>2. new = [host EXCEPT !.in = Tail(host.in), !.rec = Head(host.in), !.at = 1, !.buf = buf, !.pc = pc]
        BY <4>1 DEF HostsOK
      <4>3. pc \in {"sort", "format"}
        OBVIOUS
      <4>4. host.pc = "select" /\ host.in # <<>>
        BY <2>5 DEF BorrowBuffer
      <4> HIDE DEF new, host, buf, pc
      <4>5. new = [in |-> Tail(host.in), pc |-> pc, rec |-> Head(host.in), at |-> 1, tmp |-> host.tmp, buf |-> buf]
        BY <2>4, <4>2 DEF HostOK
      <4> QED
        BY <4>3, <4>4, <4>5
    <3> HIDE DEF new, host
    <3>2. IsSequence(host.in) /\ Len(host.in) \in Nat /\ DOMAIN host.in = 1 .. Len(host.in)
      BY <2>4 DEF HostOK, IsSequence
    <3>3. /\ Len(host.in) > 0 /\ new.rec = host.in[1]
          /\ IsSequence(new.in) /\ Len(new.in) = Len(host.in) - 1
          /\ \A i \in 1 .. Len(host.in) - 1 : new.in[i] = host.in[i + 1]
      BY <3>1, <3>2, TailSequence
    <3>4. DOMAIN new.in = 1 .. Len(host.in) - 1
      BY <3>3 DEF IsSequence
    <3>5. new.rec \in 1 .. n
      BY <2>4, <3>2, <3>3 DEF HostOK
    <3>6. \A i \in 1 .. Len(host.in) - 1 : i + 1 \in DOMAIN host.in
      BY <3>2
    <3>7. \A i \in DOMAIN new.in : new.in[i] \in 1 .. n
      BY <2>4, <3>3, <3>4, <3>6 DEF HostOK
    <3>8. host.tmp = nil
      BY <2>4, <3>1 DEF HostOK
    <3>9. new.rec \in 0 .. n /\ new.rec # 0
      BY <1>1, <3>5
    <3> QED
      BY <3>1, <3>3, <3>7, <3>8, <3>9 DEF HostOK
  <2>6. CASE SortStep(h)
    <3>1. host.pc = "sort" /\ hosts = [g \in Hosts |-> hosts[g]]
      BY <2>6 DEF SortStep, HostsOK
    <3>2. \/ new = [host EXCEPT !.tmp = nil, !.at = IF host.at > 1 THEN host.at - 1 ELSE host.at + 1]
          \/ \E x : new = [host EXCEPT !.tmp = x]
          \/ new = [host EXCEPT !.at = host.at + 1]
          \/ host.tmp = nil /\ new = [host EXCEPT !.pc = "format"]
      BY <2>6, <3>1 DEF SortStep
    <3> HIDE DEF new, host
    <3>3. host = [in |-> host.in, pc |-> host.pc, rec |-> host.rec, at |-> host.at, tmp |-> host.tmp, buf |-> host.buf]
      BY <2>4 DEF HostOK
    <3>4. /\ new.in = host.in /\ new.rec = host.rec
          /\ new.pc \in {"sort", "format"} /\ (new.pc = "format" => new.tmp = nil)
          /\ new = [in |-> new.in, pc |-> new.pc, rec |-> new.rec, at |-> new.at, tmp |-> new.tmp, buf |-> new.buf]
      <4>1. CASE new = [host EXCEPT !.tmp = nil, !.at = IF host.at > 1 THEN host.at - 1 ELSE host.at + 1]
        BY <3>1, <3>3, <4>1
      <4>2. ASSUME NEW x, new = [host EXCEPT !.tmp = x]
            PROVE  /\ new.in = host.in /\ new.rec = host.rec
                   /\ new.pc \in {"sort", "format"} /\ (new.pc = "format" => new.tmp = nil)
                   /\ new = [in |-> new.in, pc |-> new.pc, rec |-> new.rec, at |-> new.at, tmp |-> new.tmp, buf |-> new.buf]
        BY <3>1, <3>3, <4>2
      <4>3. CASE new = [host EXCEPT !.at = host.at + 1]
        BY <3>1, <3>3, <4>3
      <4>4. CASE host.tmp = nil /\ new = [host EXCEPT !.pc = "format"]
        BY <3>1, <3>3, <4>4
      <4> QED
        BY <3>2, <4>1, <4>2, <4>3, <4>4
    <3> QED
      BY <2>4, <3>1, <3>4 DEF HostOK
  <2>7. CASE Format(h)
    <3>1. /\ host.pc = "format" /\ new.in = host.in /\ new.rec = host.rec /\ new.tmp = host.tmp
          /\ new.pc \in {"write", "release"}
          /\ new = [in |-> new.in, pc |-> new.pc, rec |-> new.rec, at |-> new.at, tmp |-> new.tmp, buf |-> new.buf]
      BY <2>4, <2>7 DEF Format, HostOK, HostsOK
    <3> HIDE DEF new, host
    <3> QED
      BY <2>4, <3>1 DEF HostOK
  <2>8. CASE Write(h)
    <3>1. /\ host.pc = "write" /\ new.in = host.in /\ new.rec = host.rec /\ new.tmp = host.tmp /\ new.pc = "release"
          /\ new = [in |-> new.in, pc |-> new.pc, rec |-> new.rec, at |-> new.at, tmp |-> new.tmp, buf |-> new.buf]
      BY <2>4, <2>8 DEF Write, HostOK, HostsOK
    <3> HIDE DEF new, host
    <3> QED
      BY <2>4, <3>1 DEF HostOK
  <2>9. CASE ReleaseBuffer(h)
    <3>1. /\ host.pc = "release" /\ new.in = host.in /\ new.rec = 0 /\ new.tmp = host.tmp /\ new.pc = "select"
          /\ new = [in |-> new.in, pc |-> new.pc, rec |-> new.rec, at |-> new.at, tmp |-> new.tmp, buf |-> new.buf]
      BY <2>4, <2>9 DEF ReleaseBuffer, HostOK, HostsOK
    <3> HIDE DEF new, host
    <3> QED
      BY <1>1, <2>4, <3>1 DEF HostOK
  <2> QED
    BY <1>5, <2>5, <2>6, <2>7, <2>8, <2>9 DEF HostLoop
<1> QED
  BY <1>2, <1>3, <1>4, <1>5 DEF RecordsNext

\* The invariant holds at first, is kept by every step and implies the types.
LEMMA RecordsInvInit == RecordsInit => RecordsInv
<1> SUFFICES ASSUME RecordsInit
             PROVE  RecordsInv
  OBVIOUS
<1>1. /\ env \in Scenarios /\ slices = <<>> /\ todo = <<>> /\ cur = nil /\ queue = <<>> /\ loop = nil /\ recs = <<>>
      /\ pool = <<>>
      /\ hosts = [h \in Hosts |-> [in |-> <<>>, pc |-> "select", rec |-> 0, at |-> 0, tmp |-> nil, buf |-> <<>>]]
  BY DEF RecordsInit, Hosts
<1>2. Len(AllMeant) \in Nat
  BY <1>1, MeantSequence
<1>3. PipeOK
  BY <1>1, <1>2, EmptySequence DEF PipeOK, Known, One
<1>4. PoolOK
  BY <1>1 DEF PoolOK
<1>5. HostsOK
  <2>1. hosts = [h \in Hosts |-> hosts[h]]
    BY <1>1
  <2> SUFFICES ASSUME NEW h \in Hosts
               PROVE  HostOK(hosts[h], Len(recs))
    BY <2>1 DEF HostsOK
  <2>2. hosts[h] = [in |-> <<>>, pc |-> "select", rec |-> 0, at |-> 0, tmp |-> nil, buf |-> <<>>]
    BY <1>1
  <2>3. Len(recs) = 0 /\ DOMAIN <<>> = {}
    BY <1>1, EmptySequence
  <2> QED
    BY <2>2, <2>3, EmptySequence DEF HostOK
<1> QED
  BY <1>3, <1>4, <1>5 DEF RecordsInv

\* Every step, from the arguments of the call to the return of the buffer, keeps the
\* invariant.
LEMMA RecordsInvStep == RecordsInv /\ [RecordsNext]_recordsVars => RecordsInv'
<1> SUFFICES ASSUME RecordsInv, [RecordsNext]_recordsVars
             PROVE  RecordsInv'
  OBVIOUS
<1>1. CASE RecordsNext
  BY <1>1, PipeStep, PoolStep, HostsStep DEF RecordsInv
<1>2. CASE UNCHANGED recordsVars
  <2>1. RecordsNext \/ ~RecordsNext
    OBVIOUS
  <2>2. env' = env /\ slices' = slices /\ todo' = todo /\ cur' = cur /\ queue' = queue /\ loop' = loop
        /\ recs' = recs /\ hosts' = hosts /\ pool' = pool
    BY <1>2 DEF recordsVars
  <2>3. AllMeant' = AllMeant
    BY <2>2, SameMeant
  <2> QED
    BY <2>2, <2>3 DEF RecordsInv, PipeOK, PoolOK, HostsOK, Known, Hosts
<1> QED
  BY <1>1, <1>2

\* The invariant implies the type invariant.
LEMMA RecordsInvTypes == RecordsInv => RecordsTypeOK
<1> SUFFICES ASSUME RecordsInv
             PROVE  RecordsTypeOK
  OBVIOUS
<1>1. Len(recs) <= Len(AllMeant)
  <2>1. Len(todo) \in Nat /\ Len(queue) \in Nat /\ Len(recs) \in Nat /\ One(cur) \in 0 .. 1 /\ One(loop) \in 0 .. 1
    BY OneBounds DEF RecordsInv, PipeOK, IsSequence
  <2>2. Len(AllMeant) \in Nat
    BY MeantSequence DEF RecordsInv, PipeOK
  <2> QED
    BY <2>1, <2>2 DEF RecordsInv, PipeOK, Known
<1>2. \A i \in DOMAIN pool : pool[i] = <<>>
  BY ElementOfSeq, LenProperties DEF RecordsInv, PoolOK
<1>3. \A h \in Hosts : HostOK(hosts[h], Len(recs))
  BY DEF RecordsInv, HostsOK
<1> QED
  BY <1>1, <1>2, <1>3 DEF RecordsTypeOK, HostOK

\* RecordsTypeOK: at most the records that the call means are prepared (enqueue and
\* prep pass each on once, logr.go:249, logrec.go:54), what comes out
\* of the pool is empty (target.go:259-260), and a read loop that sorts, formats or
\* writes has a record that was prepared.
THEOREM RecordsTypeCorrect == RecordsSpec => []RecordsTypeOK
<1>1. RecordsInit => RecordsInv
  BY RecordsInvInit
<1>2. RecordsInv /\ [RecordsNext]_recordsVars => RecordsInv'
  BY RecordsInvStep
<1>3. RecordsInv => RecordsTypeOK
  BY RecordsInvTypes
<1> QED
  BY <1>1, <1>2, <1>3, PTL DEF RecordsSpec

-----------------------------------------------------------------------------
(***************************************************************************)
(* Sequences chosen by their places, joined together.                      *)
(***************************************************************************)

\* A set of numbers up to n is in order.
LEMMA RankedBounded ==
  ASSUME NEW n \in Nat, NEW S \in SUBSET (1 .. n)
  PROVE  Ranked(S)
<1> DEFINE Top(k) == {i \in S : i > n - k}
           T == {k \in Nat : k <= n => Ranked(Top(k))}
<1>5. \A i \in S : i \in Nat /\ 1 <= i /\ i <= n
  OBVIOUS
<1>1. 0 \in T
  <2>1. Top(0) = {}
    <3>1. \A i \in S : ~ (i > n - 0)
      BY <1>5
    <3> QED
      BY <3>1
  <2> HIDE DEF Top
  <2> QED
    BY <2>1, InOrderEmpty
<1>2. ASSUME NEW k \in Nat, k \in T
      PROVE  k + 1 \in T
  <2> SUFFICES ASSUME k + 1 <= n
               PROVE  Ranked(Top(k + 1))
    OBVIOUS
  <2>1. Ranked(Top(k))
    <3> HIDE DEF Top
    <3> QED
      BY <1>2
  <2>2. CASE n - k \in S
    <3>1. Top(k + 1) = Top(k) \cup {n - k}
      <4>1. \A i \in S : i > n - (k + 1) <=> i > n - k \/ i = n - k
        BY <1>5
      <4> QED
        BY <2>2, <4>1
    <3>2. n - k \in Nat
      OBVIOUS
    <3>3. \A i \in Top(k) : n - k < i
      BY <1>5
    <3> HIDE DEF Top
    <3>4. Ranked(Top(k) \cup {n - k})
      BY <2>1, <3>2, <3>3, InOrderFirst
    <3> QED
      BY <3>1, <3>4
  <2>3. CASE n - k \notin S
    <3>1. Top(k + 1) = Top(k)
      <4>1. \A i \in S : i > n - (k + 1) <=> i > n - k
        BY <1>5, <2>3
      <4> QED
        BY <4>1
    <3> HIDE DEF Top
    <3> QED
      BY <2>1, <3>1
  <2> QED
    BY <2>2, <2>3
<1> HIDE DEF T
<1>3. n \in T
  BY <1>1, <1>2, Induction
<1>4. Top(n) = S
  <2>1. \A i \in S : i > n - n
    BY <1>5
  <2> QED
    BY <2>1
<1> HIDE DEF Top
<1> QED
  BY <1>3, <1>4 DEF T

\* Fewer members are below a smaller one.
LEMMA BelowLess ==
  ASSUME NEW S, S \subseteq Nat, IsFiniteSet(S), NEW a \in S, NEW b \in S, a < b
  PROVE  Cardinality(Below(S, a)) < Cardinality(Below(S, b))
<1>1. Below(S, b) \in SUBSET S /\ Below(S, a) \in SUBSET Below(S, b)
  <2>1. \A k \in S : k < a => k < b
    OBVIOUS
  <2> QED
    BY <2>1 DEF Below
<1>2. a \in Below(S, b) /\ a \notin Below(S, a)
  BY DEF Below
<1>3. IsFiniteSet(Below(S, b))
  BY <1>1, FS_Subset
<1>4. IsFiniteSet(Below(S, a)) /\ Cardinality(Below(S, a)) <= Cardinality(Below(S, b))
      /\ (Cardinality(Below(S, b)) = Cardinality(Below(S, a)) => Below(S, b) = Below(S, a))
  BY <1>1, <1>3, FS_Subset
<1>5. Cardinality(Below(S, a)) \in Nat /\ Cardinality(Below(S, b)) \in Nat
  BY <1>3, <1>4, FS_CardinalityType
<1> QED
  BY <1>2, <1>4, <1>5

\* InOrder lists every member, the smaller before the larger.
LEMMA InOrderLists ==
  ASSUME NEW n \in Nat, NEW S \in SUBSET (1 .. n)
  PROVE  /\ IsFiniteSet(S) /\ Cardinality(S) \in Nat
         /\ DOMAIN InOrder(S) = 1 .. Cardinality(S)
         /\ \A j \in 1 .. Cardinality(S) : InOrder(S)[j] \in S
         /\ \A i \in S : \E j \in 1 .. Cardinality(S) : InOrder(S)[j] = i
         /\ \A j, k \in 1 .. Cardinality(S) : j < k => InOrder(S)[j] < InOrder(S)[k]
<1>1. Ranked(S)
  BY RankedBounded
<1>2. IsFiniteSet(S) /\ S \subseteq Nat
  BY <1>1 DEF Ranked
<1>3. Cardinality(S) \in Nat /\ DOMAIN InOrder(S) = 1 .. Cardinality(S)
  BY <1>2, FS_CardinalityType, InOrderSequence
<1>4. ASSUME NEW j \in 1 .. Cardinality(S)
      PROVE  InOrder(S)[j] \in S /\ Cardinality(Below(S, InOrder(S)[j])) = j - 1
  <2>1. PICK i \in S : Cardinality(Below(S, i)) = j - 1
    BY <1>1 DEF Ranked
  <2>2. InOrder(S)[j] = i
    BY <1>2, <2>1, InOrderAt
  <2> QED
    BY <2>1, <2>2
<1>5. ASSUME NEW i \in S
      PROVE  \E j \in 1 .. Cardinality(S) : InOrder(S)[j] = i
  <2>1. Below(S, i) \in SUBSET S /\ i \notin Below(S, i)
    BY <1>2 DEF Below
  <2>2. IsFiniteSet(Below(S, i)) /\ Cardinality(Below(S, i)) <= Cardinality(S) /\ Cardinality(Below(S, i)) # Cardinality(S)
    BY <1>2, <2>1, FS_Subset
  <2>3. Cardinality(Below(S, i)) \in Nat
    BY <2>2, FS_CardinalityType
  <2> DEFINE j == Cardinality(Below(S, i)) + 1
  <2>4. j \in 1 .. Cardinality(S) /\ Cardinality(Below(S, i)) = j - 1
    BY <1>3, <2>2, <2>3
  <2> HIDE DEF j
  <2>5. InOrder(S)[j] = i
    BY <1>2, <2>4, InOrderAt
  <2> QED
    BY <2>4, <2>5
<1>6. ASSUME NEW j \in 1 .. Cardinality(S), NEW k \in 1 .. Cardinality(S), j < k
      PROVE  InOrder(S)[j] < InOrder(S)[k]
  <2> DEFINE a == InOrder(S)[j]
             b == InOrder(S)[k]
  <2>1. a \in S /\ b \in S /\ Cardinality(Below(S, a)) = j - 1 /\ Cardinality(Below(S, b)) = k - 1
    BY <1>4
  <2> HIDE DEF a, b
  <2>2. a \in Nat /\ b \in Nat
    BY <1>2, <2>1
  <2>3. ~ (b < a)
    <3> SUFFICES ASSUME b < a
                 PROVE  FALSE
      OBVIOUS
    <3>1. Cardinality(Below(S, b)) < Cardinality(Below(S, a))
      BY <1>2, <2>1, BelowLess
    <3> QED
      BY <1>3, <1>6, <2>1, <3>1
  <2>4. a # b
    BY <1>3, <1>6, <2>1
  <2> QED
    BY <2>2, <2>3, <2>4 DEF a, b
<1> QED
  BY <1>2, <1>3, <1>4, <1>5, <1>6

\* An ascending sequence is its members in order.
LEMMA InOrderUnique ==
  ASSUME NEW m \in Nat, NEW q \in [1 .. m -> Nat], \A i, j \in 1 .. m : i < j => q[i] < q[j],
         NEW S, S = {q[i] : i \in 1 .. m}
  PROVE  /\ IsFiniteSet(S) /\ Cardinality(S) = m
         /\ DOMAIN InOrder(S) = 1 .. m
         /\ \A j \in 1 .. m : InOrder(S)[j] = q[j]
<1>1. ASSUME NEW n \in 0 .. m
      PROVE  IsFiniteSet({q[i] : i \in 1 .. n}) /\ Cardinality({q[i] : i \in 1 .. n}) = n
  <2> DEFINE D == 1 .. n
             R == {q[i] : i \in D}
             f == [i \in D |-> q[i]]
  <2>1. n \in Int /\ D \subseteq 1 .. m
    OBVIOUS
  <2>2. IsFiniteSet(D) /\ Cardinality(D) = n
    BY <2>1, FS_Interval
  <2>3. ASSUME NEW a \in D, NEW b \in D, f[a] = f[b]
        PROVE  a = b
    <3>1. q[a] = q[b] /\ a \in 1 .. m /\ b \in 1 .. m /\ q[a] \in Nat /\ q[b] \in Nat
      BY <2>3
    <3>2. ~ (a < b) /\ ~ (b < a)
      BY <3>1
    <3> QED
      BY <3>1, <3>2
  <2>4. f \in [D -> R] /\ DOMAIN f = D
    OBVIOUS
  <2>5. f \in Injection(D, R)
    BY <2>3, <2>4 DEF Injection, IsInjective
  <2>6. f \in Surjection(D, R)
    BY <2>4 DEF Surjection
  <2> HIDE DEF D, R, f
  <2>7. ExistsBijection(D, R)
    BY <2>5, <2>6 DEF ExistsBijection, Bijection
  <2>8. IsFiniteSet(R) /\ Cardinality(R) = n
    BY <2>2, <2>7, FS_Bijection
  <2> QED
    BY <2>8 DEF R, D
<1>2. IsFiniteSet(S) /\ Cardinality(S) = m /\ S \subseteq Nat
  BY <1>1
<1>3. DOMAIN InOrder(S) = 1 .. m
  BY <1>2, InOrderSequence
<1>4. ASSUME NEW j \in 1 .. m
      PROVE  InOrder(S)[j] = q[j]
  <2>1. Below(S, q[j]) = {q[i] : i \in 1 .. j - 1}
    <3>1. \A i \in 1 .. m : q[i] < q[j] <=> i < j
      <4> SUFFICES ASSUME NEW i \in 1 .. m
                   PROVE  q[i] < q[j] <=> i < j
        OBVIOUS
      <4>1. q[i] \in Nat /\ q[j] \in Nat
        OBVIOUS
      <4>2. i < j \/ i = j \/ j < i
        OBVIOUS
      <4> QED
        BY <4>1, <4>2
    <3>2. \A i \in 1 .. m : i < j <=> i \in 1 .. j - 1
      OBVIOUS
    <3>3. \A i \in 1 .. j - 1 : i \in 1 .. m
      OBVIOUS
    <3> QED
      BY <3>1, <3>2, <3>3 DEF Below
  <2>2. j - 1 \in 0 .. m
    OBVIOUS
  <2>3. Cardinality(Below(S, q[j])) = j - 1
    BY <1>1, <2>1, <2>2
  <2>4. q[j] \in S
    OBVIOUS
  <2> QED
    BY <1>2, <2>3, <2>4, InOrderAt
<1> QED
  BY <1>2, <1>3, <1>4

\* Some places behind n others.
Behind(n, T) == {n + i : i \in T}

\* The places chosen in two sequences are those chosen in their concatenation.
Places(s, t, S, T) == /\ IsSequence(s) /\ IsSequence(t)
                      /\ S \in SUBSET (1 .. Len(s)) /\ T \in SUBSET (1 .. Len(t))
Joined(s, t, S, T) == ElementsAt(s \o t, S \cup Behind(Len(s), T)) = ElementsAt(s, S) \o ElementsAt(t, T)

\* What is chosen in a concatenation is what is chosen in its two parts.
LEMMA ElementsConcat ==
  ASSUME NEW s, NEW t, NEW S, NEW T, Places(s, t, S, T)
  PROVE  Joined(s, t, S, T)
<1> IsSequence(s) /\ IsSequence(t) /\ S \in SUBSET (1 .. Len(s)) /\ T \in SUBSET (1 .. Len(t))
  BY DEF Places
<1> DEFINE U == S \cup Behind(Len(s), T)
           a == Len(s)
           b == Len(t)
           c == Cardinality(S)
           d == Cardinality(T)
           q == [j \in 1 .. c + d |-> IF j <= c THEN InOrder(S)[j] ELSE a + InOrder(T)[j - c]]
<1>1. a \in Nat /\ b \in Nat
  BY DEF IsSequence
<1>2. /\ IsFiniteSet(S) /\ c \in Nat
      /\ DOMAIN InOrder(S) = 1 .. c
      /\ \A j \in 1 .. c : InOrder(S)[j] \in S
      /\ \A i \in S : \E j \in 1 .. c : InOrder(S)[j] = i
      /\ \A j, k \in 1 .. c : j < k => InOrder(S)[j] < InOrder(S)[k]
  BY <1>1, InOrderLists
<1>3. /\ IsFiniteSet(T) /\ d \in Nat
      /\ DOMAIN InOrder(T) = 1 .. d
      /\ \A j \in 1 .. d : InOrder(T)[j] \in T
      /\ \A i \in T : \E j \in 1 .. d : InOrder(T)[j] = i
      /\ \A j, k \in 1 .. d : j < k => InOrder(T)[j] < InOrder(T)[k]
  BY <1>1, InOrderLists
<1> HIDE DEF c, d
<1>4. ASSUME NEW j \in 1 .. c
      PROVE  q[j] = InOrder(S)[j] /\ q[j] \in 1 .. a
  <2>1. j \in 1 .. c + d /\ j <= c
    BY <1>2, <1>3
  <2>2. q[j] = InOrder(S)[j]
    BY <2>1
  <2> QED
    BY <1>2, <2>2
<1>5. ASSUME NEW k \in 1 .. d
      PROVE  c + k \in 1 .. c + d /\ q[c + k] = a + InOrder(T)[k] /\ q[c + k] \in a + 1 .. a + b
  <2>1. c + k \in 1 .. c + d /\ ~ (c + k <= c) /\ (c + k) - c = k
    BY <1>2, <1>3
  <2>2. q[c + k] = a + InOrder(T)[k]
    BY <2>1
  <2>3. InOrder(T)[k] \in 1 .. b
    BY <1>3
  <2> QED
    BY <1>1, <2>1, <2>2, <2>3
<1>6. \A j \in 1 .. c + d : j \in 1 .. c \/ \E k \in 1 .. d : j = c + k
  <2> SUFFICES ASSUME NEW j \in 1 .. c + d, j \notin 1 .. c
               PROVE  \E k \in 1 .. d : j = c + k
    OBVIOUS
  <2>1. j - c \in 1 .. d /\ j = c + (j - c)
    BY <1>2, <1>3
  <2> QED
    BY <2>1
<1>7. DOMAIN q = 1 .. c + d /\ q = [j \in 1 .. c + d |-> q[j]]
  OBVIOUS
<1> HIDE DEF q, U
<1>8. q \in [1 .. c + d -> Nat]
  <2>1. \A j \in 1 .. c + d : q[j] \in Nat
    BY <1>1, <1>4, <1>5, <1>6
  <2> QED
    BY <1>7, <2>1
<1>9. ASSUME NEW i \in 1 .. c + d, NEW j \in 1 .. c + d, i < j
      PROVE  q[i] < q[j]
  <2>1. CASE i \in 1 .. c /\ j \in 1 .. c
    BY <1>2, <1>4, <1>9, <2>1
  <2>2. CASE i \in 1 .. c /\ j \notin 1 .. c
    <3>1. q[i] \in 1 .. a /\ q[j] \in a + 1 .. a + b
      BY <1>4, <1>5, <1>6, <2>2
    <3> QED
      BY <1>1, <3>1
  <2>3. CASE i \notin 1 .. c
    <3>1. PICK k \in 1 .. d : i = c + k
      BY <1>6, <2>3
    <3>2. j \notin 1 .. c
      BY <1>2, <1>9, <3>1
    <3>3. PICK l \in 1 .. d : j = c + l
      BY <1>6, <3>2
    <3>4. k < l
      BY <1>2, <1>3, <1>9, <3>1, <3>3
    <3>5. InOrder(T)[k] < InOrder(T)[l] /\ InOrder(T)[k] \in 1 .. b /\ InOrder(T)[l] \in 1 .. b
      BY <1>3, <3>4
    <3>6. q[i] = a + InOrder(T)[k] /\ q[j] = a + InOrder(T)[l]
      BY <1>5, <3>1, <3>3
    <3> QED
      BY <1>1, <3>5, <3>6
  <2> QED
    BY <2>1, <2>2, <2>3
<1>10. U = {q[j] : j \in 1 .. c + d}
  <2> USE DEF U, Behind
  <2>1. ASSUME NEW x \in U
        PROVE  \E j \in 1 .. c + d : q[j] = x
    <3>1. CASE x \in S
      <4>1. PICK j \in 1 .. c : InOrder(S)[j] = x
        BY <1>2, <3>1
      <4>2. j \in 1 .. c + d /\ q[j] = x
        BY <1>2, <1>3, <1>4, <4>1
      <4> QED
        BY <4>2
    <3>2. CASE \E i \in T : x = a + i
      <4>1. PICK i \in T : x = a + i
        BY <3>2
      <4>2. PICK k \in 1 .. d : InOrder(T)[k] = i
        BY <1>3
      <4> QED
        BY <1>5, <4>1, <4>2
    <3> QED
      BY <2>1, <3>1, <3>2
  <2>2. ASSUME NEW j \in 1 .. c + d
        PROVE  q[j] \in U
    <3>1. CASE j \in 1 .. c
      BY <1>2, <1>4, <3>1
    <3>2. CASE j \notin 1 .. c
      <4>1. PICK k \in 1 .. d : j = c + k
        BY <1>6, <3>2
      <4>2. q[j] = a + InOrder(T)[k] /\ InOrder(T)[k] \in T
        BY <1>3, <1>5, <4>1
      <4> QED
        BY <4>2
    <3> QED
      BY <3>1, <3>2
  <2> QED
    BY <2>1, <2>2
<1>11. c + d \in Nat
  BY <1>2, <1>3
<1>12. /\ IsFiniteSet(U) /\ Cardinality(U) = c + d
       /\ DOMAIN InOrder(U) = 1 .. c + d
       /\ \A j \in 1 .. c + d : InOrder(U)[j] = q[j]
  <2>1. \A i, j \in 1 .. c + d : i < j => q[i] < q[j]
    BY <1>9
  <2> QED
    BY <1>8, <1>10, <1>11, <2>1, InOrderUnique
<1>13. \A i \in 1 .. a : (s \o t)[i] = s[i]
  BY ConcatSequence
<1>14. \A i \in 1 .. b : (s \o t)[a + i] = t[i]
  BY ConcatSequence
<1> DEFINE e == ElementsAt(s \o t, U)
           x == ElementsAt(s, S)
           y == ElementsAt(t, T)
<1>15. IsSequence(e) /\ Len(e) = c + d /\ IsSequence(x) /\ Len(x) = c /\ IsSequence(y) /\ Len(y) = d
  BY <1>2, <1>3, <1>12, ElementsSequence DEF c, d
<1>16. /\ \A j \in 1 .. c + d : e[j] = (s \o t)[q[j]]
       /\ \A j \in 1 .. c : x[j] = s[InOrder(S)[j]]
       /\ \A j \in 1 .. d : y[j] = t[InOrder(T)[j]]
  BY <1>2, <1>3, <1>12 DEF ElementsAt
<1> HIDE DEF e, x, y
<1>17. IsSequence(x \o y) /\ Len(x \o y) = c + d
       /\ (\A i \in 1 .. c : (x \o y)[i] = x[i]) /\ \A i \in 1 .. d : (x \o y)[c + i] = y[i]
  BY <1>15, ConcatSequence
<1>18. ASSUME NEW j \in 1 .. c + d
       PROVE  e[j] = (x \o y)[j]
  <2>1. CASE j \in 1 .. c
    BY <1>4, <1>13, <1>16, <1>17, <2>1
  <2>2. CASE j \notin 1 .. c
    <3>1. PICK k \in 1 .. d : j = c + k
      BY <1>6, <2>2
    <3>2. q[j] = a + InOrder(T)[k] /\ InOrder(T)[k] \in 1 .. b
      BY <1>3, <1>5, <3>1
    <3>3. e[j] = t[InOrder(T)[k]]
      BY <1>14, <1>16, <3>2
    <3> QED
      BY <1>16, <1>17, <3>1, <3>3
  <2> QED
    BY <2>1, <2>2
<1>19. e = x \o y
  BY <1>15, <1>17, <1>18, SequenceEqual
<1> QED
  BY <1>19 DEF e, x, y, U, Joined

-----------------------------------------------------------------------------
(***************************************************************************)
(* The arguments of a call: which fields a scenario means, and that fields *)
(* made by fieldapi.go, or out of loosely typed arguments, are new ones.   *)
(***************************************************************************)

\* A float that is written with all of its places (field.go:155-160).
Fits(f) == f.type = "Float32" => f.val.text.len <= Single
FloatsFit ==
    \A s \in Scenarios : /\ \A i \in DOMAIN s.with : Fits(s.with[i])
                         /\ \A i \in DOMAIN s.args : Fits(s.args[i].field)

\* Fields as fieldapi.go makes them, and what a theorem may assume of them.
IsMeant(f) == IsNew(f) /\ (FloatsFit => Fits(f))
NewFields(s) == IsSequence(s) /\ \A i \in 1 .. Len(s) : IsMeant(s[i])

\* The slice of a call: all levels of LogM share one.
SliceOf(call, i) == IF call = "LogM" THEN 1 ELSE i

\* A call of Log asks for a record that is meant, with the fields of a slice.
Asks(c, m, slice) ==
    c.level = m.level /\ c.with = m.with /\ c.msg = m.msg /\ c.slice = slice

\* What the assumption says of the scenario in force.
LEMMA ScenarioTypes ==
  ASSUME env \in Scenarios
  PROVE  /\ IsSequence(env.args) /\ IsSequence(env.levels) /\ IsSequence(env.with) /\ IsSequence(env.frames)
         /\ NewFields(env.with)
         /\ \A i \in 1 .. Len(env.args) :
              /\ env.args[i].is \in {"field", "string", "other"} /\ IsMeant(env.args[i].field)
              /\ env.args[i].is = "string" => IsKey(env.args[i].key)
         /\ IsText(env.msg) /\ env.msg.dots = 0 /\ env.limit \in Int
         /\ \A h \in Hosts : IsFormatter(env.hosts[h].fm)
<1>1. /\ IsSequence(env.args) /\ IsSequence(env.with)
      /\ \A i \in DOMAIN env.with : IsMeant(env.with[i])
      /\ \A i \in DOMAIN env.args :
              /\ env.args[i].is \in {"field", "string", "other"} /\ IsMeant(env.args[i].field)
              /\ env.args[i].is = "string" => IsKey(env.args[i].key)
  <2>1. /\ IsSequence(env.args) /\ IsSequence(env.with)
        /\ \A i \in DOMAIN env.with : IsNew(env.with[i])
        /\ \A i \in DOMAIN env.args :
              /\ env.args[i].is \in {"field", "string", "other"} /\ IsNew(env.args[i].field)
              /\ env.args[i].is = "string" => IsKey(env.args[i].key)
    BY RecordsAssumption
  <2>2. FloatsFit => /\ \A i \in DOMAIN env.with : Fits(env.with[i])
                     /\ \A i \in DOMAIN env.args : Fits(env.args[i].field)
    BY DEF FloatsFit
  <2> QED
    BY <2>1, <2>2 DEF IsMeant
<1>2. DOMAIN env.args = 1 .. Len(env.args) /\ DOMAIN env.with = 1 .. Len(env.with)
  BY <1>1 DEF IsSequence
<1>3. /\ IsSequence(env.levels) /\ IsSequence(env.frames) /\ IsText(env.msg) /\ env.msg.dots = 0 /\ env.limit \in Int
      /\ \A h \in Hosts : IsFormatter(env.hosts[h].fm)
  BY RecordsAssumption DEF Hosts
<1> QED
  BY <1>1, <1>2, <1>3 DEF NewFields

\* Any (fieldapi.go) makes a field of a key and an argument.
LEMMA AnyArgNew ==
  ASSUME NEW key, IsKey(key), NEW arg, IsMeant(arg.field)
  PROVE  IsMeant(AnyArg(key, arg))
<1>1. /\ arg.field = [key |-> arg.field.key, type |-> arg.field.type, val |-> arg.field.val]
      /\ IsValue(arg.field.val) /\ arg.field.val.wraps = 0
  BY DEF IsMeant, IsNew, IsField
<1>2. CASE arg.is = "field"
  <2> DEFINE v == [arg.field.val EXCEPT !.bad = @ \ {"gojay", "gojayPanic"}]
  <2>1. AnyArg(key, arg) = [key |-> key, type |-> "Unknown", val |-> v]
    BY <1>2 DEF AnyArg, Field
  <2>2. v = [text |-> arg.field.val.text, wraps |-> 0, bad |-> arg.field.val.bad \ {"gojay", "gojayPanic"}]
    BY <1>1 DEF IsValue
  <2> QED
    BY <1>1, <2>1, <2>2 DEF IsMeant, IsNew, IsField, IsValue, Fits
<1>3. CASE arg.is # "field"
  <2>1. AnyArg(key, arg) = [key |-> key, type |-> arg.field.type, val |-> arg.field.val]
    BY <1>1, <1>3 DEF AnyArg
  <2> QED
    BY <1>1, <2>1 DEF IsMeant, IsNew, IsField, Fits
<1> QED
  BY <1>2, <1>3

\* The fields of the error records are fields.
LEMMA ErrorFieldsNew ==
  ASSUME NEW arg, IsMeant(arg.field)
  PROVE  NewFields(InvalidPair(arg)) /\ NewFields(InvalidKey)
<1>1. \A e : IsMeant(e) => NewFields(<<e>>)
  BY OneSequence DEF NewFields
<1>2. IsKey(Key(0, "arg"))
  BY BasesAssumption DEF IsKey, Key
<1>3. IsMeant(AnyArg(Key(0, "arg"), arg))
  BY <1>2, AnyArgNew
<1>4. IsMeant(Field(Key(0, "pos"), "Int", Value(Text("pos", 1), {})))
  BY BasesAssumption DEF IsMeant, Fits, IsNew, IsField, IsKey, IsValue, IsText, Key, Field, Value, Text
<1> QED
  BY <1>1, <1>3, <1>4 DEF InvalidPair, InvalidKey

\* The places that HeadSeq lists.
LEMMA HeadSeqPlaces ==
  ASSUME env \in Scenarios, NEW r \in BOOLEAN
  PROVE  /\ IsSequence(HeadSeq(env.args, r))
         /\ DOMAIN HeadSeq(env.args, r) = 1 .. Len(HeadSeq(env.args, r))
         /\ \A j \in 1 .. Len(HeadSeq(env.args, r)) :
              /\ HeadSeq(env.args, r)[j] \in 1 .. Len(env.args)
              /\ Rejected(env.args, HeadSeq(env.args, r)[j]) = r
<1> DEFINE S == {i \in Heads(env.args) : Rejected(env.args, i) = r}
           n == Len(env.args)
<1>1. Arguments(env.args)
  BY ScenarioArguments
<1>2. n \in Nat /\ Heads(env.args) \subseteq 1 .. n
  BY <1>1, HeadsExist DEF Arguments, IsSequence
<1>3. S \in SUBSET (1 .. n)
  BY <1>2
<1>4. \A i \in S : Rejected(env.args, i) = r
  OBVIOUS
<1>5. HeadSeq(env.args, r) = InOrder(S)
  BY DEF HeadSeq
<1> HIDE DEF S, n
<1>6. /\ IsFiniteSet(S)
      /\ DOMAIN InOrder(S) = 1 .. Cardinality(S)
      /\ \A j \in 1 .. Cardinality(S) : InOrder(S)[j] \in S
  BY <1>2, <1>3, InOrderLists
<1>7. IsSequence(InOrder(S)) /\ Len(InOrder(S)) = Cardinality(S)
  BY <1>6, InOrderSequence
<1> QED
  BY <1>3, <1>4, <1>5, <1>6, <1>7 DEF n

\* The fields that Infow and With are given.
LEMMA PairFieldsNew ==
  ASSUME env \in Scenarios
  PROVE  NewFields(PairFields(env.args))
<1> DEFINE at == HeadSeq(env.args, FALSE)
           args == env.args
           f == PairFields(env.args)
<1>1. /\ IsSequence(at) /\ DOMAIN at = 1 .. Len(at)
      /\ \A j \in 1 .. Len(at) : at[j] \in 1 .. Len(args) /\ Rejected(args, at[j]) = FALSE
  BY HeadSeqPlaces
<1>2. f = [j \in DOMAIN at |-> IF args[at[j]].is = "field" THEN args[at[j]].field
                                ELSE AnyArg(args[at[j]].key, args[at[j] + 1])]
  BY DEF PairFields
<1>3. /\ IsSequence(args)
      /\ \A i \in 1 .. Len(args) :
              /\ args[i].is \in {"field", "string", "other"} /\ IsMeant(args[i].field)
              /\ args[i].is = "string" => IsKey(args[i].key)
  BY ScenarioTypes
<1>4. Len(args) \in Nat
  BY <1>3 DEF IsSequence
<1> HIDE DEF at, args, f
<1>5. IsSequence(f) /\ Len(f) = Len(at)
  BY <1>1, <1>2, MapSequence
<1>6. ASSUME NEW j \in 1 .. Len(at)
      PROVE  IsMeant(f[j])
  <2>1. at[j] \in 1 .. Len(args) /\ Rejected(args, at[j]) = FALSE
    BY <1>1
  <2>2. CASE args[at[j]].is = "field"
    BY <1>1, <1>2, <1>3, <2>1, <2>2
  <2>3. CASE args[at[j]].is # "field"
    <3>1. args[at[j]].is = "string" /\ at[j] # Len(args)
      BY <1>3, <2>1, <2>3 DEF Rejected
    <3>2. at[j] + 1 \in 1 .. Len(args)
      BY <1>4, <2>1, <3>1
    <3>3. IsMeant(AnyArg(args[at[j]].key, args[at[j] + 1]))
      BY <1>3, <2>1, <3>1, <3>2, AnyArgNew
    <3>4. f[j] = AnyArg(args[at[j]].key, args[at[j] + 1])
      BY <1>1, <1>2, <2>3
    <3> QED
      BY <3>3, <3>4
  <2> QED
    BY <2>2, <2>3
<1> QED
  BY <1>5, <1>6 DEF NewFields, f

\* Fields that are put together are fields.
LEMMA ConcatNew ==
  ASSUME NEW s, NewFields(s), NEW t, NewFields(t)
  PROVE  NewFields(s \o t)
<1>1. IsSequence(s) /\ IsSequence(t) /\ Len(s) \in Nat /\ Len(t) \in Nat
  BY DEF NewFields, IsSequence
<1>2. /\ IsSequence(s \o t) /\ Len(s \o t) = Len(s) + Len(t)
      /\ \A i \in 1 .. Len(s) : (s \o t)[i] = s[i]
      /\ \A i \in 1 .. Len(t) : (s \o t)[Len(s) + i] = t[i]
  BY <1>1, ConcatSequence
<1>3. ASSUME NEW i \in 1 .. Len(s) + Len(t)
      PROVE  IsMeant((s \o t)[i])
  <2>1. CASE i <= Len(s)
    BY <1>1, <1>2, <2>1 DEF NewFields
  <2>2. CASE ~ (i <= Len(s))
    <3>1. i - Len(s) \in 1 .. Len(t) /\ Len(s) + (i - Len(s)) = i
      BY <1>1, <2>2
    <3> QED
      BY <1>2, <3>1 DEF NewFields
  <2> QED
    BY <2>1, <2>2
<1> QED
  BY <1>2, <1>3 DEF NewFields

-----------------------------------------------------------------------------
(***************************************************************************)
(* The records a call means, and the slices of fields that the call makes  *)
(* for them (sugar.go, logger.go:51-64).  MeantOK describes the former,    *)
(* Holds what a slice may hold for a record while enqueue shortens it.     *)
(***************************************************************************)

\* A record that is meant, in all its parts.
MeantOK(m) ==
    /\ m = Meant(m.level, m.with, m.fields, m.msg)
    /\ IsText(m.msg) /\ m.msg.dots = 0 /\ NewFields(m.with) /\ NewFields(m.fields)

\* What Meant builds from fields and a text.
LEMMA MeantBuilt ==
  ASSUME NEW lvl, NEW with, NEW fields, NEW msg, NewFields(with), NewFields(fields), IsText(msg), msg.dots = 0
  PROVE  /\ MeantOK(Meant(lvl, with, fields, msg))
         /\ Meant(lvl, with, fields, msg).level = lvl /\ Meant(lvl, with, fields, msg).with = with
         /\ Meant(lvl, with, fields, msg).fields = fields /\ Meant(lvl, with, fields, msg).msg = msg
  BY DEF MeantOK, Meant

\* The errors that argsToFields logs (sugar.go:184, 190).
LEMMA RejectionsMeant ==
  ASSUME env \in Scenarios
  PROVE  LET c == ArgsToFields(env.args) IN
         /\ IsSequence(Rejections) /\ IsSequence(c.errors) /\ Len(Rejections) = Len(c.errors)
         /\ \A i \in 1 .. Len(c.errors) :
              Rejections[i] = Meant("error", env.with, c.errors[i], ErrorMsg) /\ NewFields(c.errors[i])
<1> DEFINE c == ArgsToFields(env.args)
           at == HeadSeq(env.args, TRUE)
           args == env.args
<1>1. IsSequence(c.errors) /\ IsSequence(Rejections) /\ Len(Rejections) = Len(c.errors)
  BY CallsMeant
<1>2. c.errors = [j \in DOMAIN at |-> ErrorAt(args)[at[j]]]
  BY ScenarioArguments, ArgsMeant
<1>3. /\ IsSequence(at) /\ DOMAIN at = 1 .. Len(at)
      /\ \A j \in 1 .. Len(at) : at[j] \in 1 .. Len(args)
  BY HeadSeqPlaces
<1>4. /\ IsSequence(args)
      /\ \A i \in 1 .. Len(args) : IsMeant(args[i].field)
  BY ScenarioTypes
<1>5. Len(c.errors) = Len(at)
  <2> HIDE DEF at, c
  <2> QED
    BY <1>2, <1>3, MapSequence
<1>6. ASSUME NEW i \in 1 .. Len(at)
      PROVE  Rejections[i] = Meant("error", env.with, c.errors[i], ErrorMsg) /\ NewFields(c.errors[i])
  <2>1. Rejections = [j \in DOMAIN at |-> Meant("error", env.with,
           IF at[j] = Len(args) THEN InvalidPair(args[at[j]]) ELSE InvalidKey, ErrorMsg)]
    BY DEF Rejections
  <2> HIDE DEF at, c
  <2>2. at[i] \in 1 .. Len(args)
    BY <1>3
  <2>3. c.errors[i] = IF at[i] = Len(args) THEN InvalidPair(args[at[i]]) ELSE InvalidKey
    BY <1>2, <1>3, <2>2 DEF ErrorAt
  <2>4. Rejections[i] = Meant("error", env.with, c.errors[i], ErrorMsg)
    BY <1>3, <2>1, <2>3
  <2>5. NewFields(InvalidPair(args[at[i]])) /\ NewFields(InvalidKey)
    BY <1>4, <2>2, ErrorFieldsNew
  <2> QED
    BY <2>3, <2>4, <2>5
<1> QED
  BY <1>1, <1>5, <1>6

\* The records that are meant, whatever the call.
LEMMA AllMeantOK ==
  ASSUME env \in Scenarios
  PROVE  /\ IsSequence(AllMeant) /\ Len(AllMeant) \in Nat /\ DOMAIN AllMeant = 1 .. Len(AllMeant)
         /\ \A i \in 1 .. Len(AllMeant) : MeantOK(AllMeant[i])
<1> DEFINE c == ArgsToFields(env.args)
           n == Len(env.args)
<1>1. /\ IsSequence(env.args) /\ IsSequence(env.levels) /\ IsText(env.msg) /\ env.msg.dots = 0 /\ NewFields(env.with)
      /\ \A i \in 1 .. n : IsMeant(env.args[i].field)
  BY ScenarioTypes
<1>2. DOMAIN env.args = 1 .. n
  BY <1>1 DEF IsSequence
<1>3. NewFields(<<>>) /\ IsText(ErrorMsg) /\ ErrorMsg.dots = 0
  BY EmptySequence DEF NewFields, ErrorMsg, Text, IsText
<1>4. NewFields(PairFields(env.args))
  BY PairFieldsNew
<1>5. NewFields([j \in DOMAIN env.args |-> env.args[j].field])
  <2> DEFINE f == [j \in DOMAIN env.args |-> env.args[j].field]
  <2>1. IsSequence(f) /\ Len(f) = n
    BY <1>1, MapSequence
  <2>2. \A j \in 1 .. n : IsMeant(f[j])
    BY <1>1, <1>2
  <2> QED
    BY <2>1, <2>2 DEF NewFields
<1>6. NewFields([j \in DOMAIN env.args |-> AnyArg(EmptyKey, env.args[j])])
  <2> DEFINE f == [j \in DOMAIN env.args |-> AnyArg(EmptyKey, env.args[j])]
  <2>1. IsSequence(f) /\ Len(f) = n
    BY <1>1, MapSequence
  <2>2. IsKey(EmptyKey)
    BY BasesAssumption DEF IsKey, EmptyKey, Key
  <2>3. \A j \in 1 .. n : IsMeant(AnyArg(EmptyKey, env.args[j]))
    BY <1>1, <2>2, AnyArgNew
  <2>4. \A j \in 1 .. n : f[j] = AnyArg(EmptyKey, env.args[j])
    BY <1>2
  <2> QED
    BY <2>1, <2>3, <2>4 DEF NewFields
<1>7. NewFields(env.with \o PairFields(env.args))
  BY <1>1, <1>4, ConcatNew
<1>8. /\ IsSequence(Rejections)
      /\ \A i \in 1 .. Len(Rejections) : MeantOK(Rejections[i])
  <2>1. /\ IsSequence(Rejections) /\ IsSequence(c.errors) /\ Len(Rejections) = Len(c.errors)
         /\ \A i \in 1 .. Len(c.errors) :
              Rejections[i] = Meant("error", env.with, c.errors[i], ErrorMsg) /\ NewFields(c.errors[i])
    BY RejectionsMeant
  <2> QED
    BY <1>1, <1>3, <2>1, MeantBuilt
<1>9. IsSequence(AllMeant) /\ \A i \in 1 .. Len(AllMeant) : MeantOK(AllMeant[i])
  <2>1. \A e : MeantOK(e) => IsSequence(<<e>>) /\ \A i \in 1 .. Len(<<e>>) : MeantOK(<<e>>[i])
    BY OneSequence
  <2>2. ASSUME NEW e, MeantOK(e)
        PROVE  IsSequence(Append(Rejections, e)) /\ \A i \in 1 .. Len(Append(Rejections, e)) : MeantOK(Append(Rejections, e)[i])
    <3>1. /\ IsSequence(Append(Rejections, e)) /\ Len(Append(Rejections, e)) = Len(Rejections) + 1
          /\ \A i \in 1 .. Len(Rejections) : Append(Rejections, e)[i] = Rejections[i]
          /\ Append(Rejections, e)[Len(Rejections) + 1] = e
      BY <1>8, AppendSequence
    <3>2. Len(Rejections) \in Nat
      BY <1>8 DEF IsSequence
    <3>3. \A i \in 1 .. Len(Rejections) + 1 : i \in 1 .. Len(Rejections) \/ i = Len(Rejections) + 1
      BY <3>2
    <3> QED
      BY <1>8, <2>2, <3>1, <3>3
  <2>3. CASE env.call = "LogM"
    <3> DEFINE f == [j \in DOMAIN env.args |-> env.args[j].field]
    <3>1. AllMeant = [i \in DOMAIN env.levels |-> Meant(env.levels[i], env.with, f, env.msg)]
      BY <2>3 DEF AllMeant
    <3> HIDE DEF f
    <3>2. IsSequence(AllMeant) /\ Len(AllMeant) = Len(env.levels) /\ DOMAIN env.levels = 1 .. Len(env.levels)
      BY <1>1, <3>1, MapSequence DEF IsSequence
    <3>3. \A i \in 1 .. Len(env.levels) : AllMeant[i] = Meant(env.levels[i], env.with, f, env.msg)
      BY <3>1, <3>2
    <3>4. \A lvl : MeantOK(Meant(lvl, env.with, f, env.msg))
      BY <1>1, <1>5, MeantBuilt DEF f
    <3> QED
      BY <3>2, <3>3, <3>4
  <2>4. CASE env.call = "Info"
    <3>1. AllMeant = <<Meant(env.levels[1], env.with, [j \in DOMAIN env.args |-> AnyArg(EmptyKey, env.args[j])], env.msg)>>
      BY <2>4 DEF AllMeant
    <3> QED
      BY <1>1, <1>6, <2>1, <3>1, MeantBuilt
  <2>5. CASE env.call = "Logf"
    <3>1. AllMeant = <<Meant(env.levels[1], env.with, <<>>, env.msg)>>
      BY <2>5 DEF AllMeant
    <3> QED
      BY <1>1, <1>3, <2>1, <3>1, MeantBuilt
  <2>6. CASE env.call = "Infow"
    <3>1. AllMeant = Append(Rejections, Meant(env.levels[1], env.with, PairFields(env.args), env.msg))
      BY <2>6 DEF AllMeant
    <3> QED
      BY <1>1, <1>4, <2>2, <3>1, MeantBuilt
  <2>7. CASE env.call = "With"
    <3>1. AllMeant = Append(Rejections, Meant(env.levels[1], env.with \o PairFields(env.args), <<>>, env.msg))
      BY <2>7 DEF AllMeant
    <3> QED
      BY <1>1, <1>3, <1>7, <2>2, <3>1, MeantBuilt
  <2> QED
    BY <2>3, <2>4, <2>5, <2>6, <2>7, ScenarioArguments
<1> QED
  BY <1>9 DEF IsSequence

\* The calls of Log that are left, and the slices they are given, when all of what is
\* meant is still to be logged.
Starts(calls, given) ==
    /\ Len(calls) = Len(AllMeant)
    /\ \A i \in 1 .. Len(AllMeant) :
         /\ Asks(calls[i], AllMeant[i], SliceOf(env.call, i))
         /\ SliceOf(env.call, i) \in 1 .. Len(given) /\ given[SliceOf(env.call, i)] = AllMeant[i].fields

\* One call of Log with one slice.
LEMMA StartsOne ==
  ASSUME env.call # "LogM", NEW lvl, NEW with, NEW fields, NEW msg,
         AllMeant = <<Meant(lvl, with, fields, msg)>>
  PROVE  Starts(<<LogCall(lvl, with, 1, msg)>>, <<fields>>) /\ Len(AllMeant) = 1 /\ AllMeant[1].level = lvl
<1> DEFINE m == Meant(lvl, with, fields, msg)
           c == LogCall(lvl, with, 1, msg)
<1>1. m.level = lvl /\ m.with = with /\ m.fields = fields /\ m.msg = msg
  BY DEF Meant
<1>2. c.level = lvl /\ c.with = with /\ c.slice = 1 /\ c.msg = msg
  BY DEF LogCall
<1>3. AllMeant = <<m>>
  OBVIOUS
<1> HIDE DEF m, c
<1>4. Len(AllMeant) = 1 /\ AllMeant[1] = m /\ Len(<<c>>) = 1 /\ <<c>>[1] = c /\ Len(<<fields>>) = 1 /\ <<fields>>[1] = fields
  BY <1>3, OneSequence
<1>5. \A i \in 1 .. 1 : SliceOf(env.call, i) = 1 /\ i = 1
  BY DEF SliceOf
<1>6. Starts(<<c>>, <<fields>>)
  BY <1>1, <1>2, <1>4, <1>5 DEF Starts, Asks
<1> QED
  BY <1>1, <1>4, <1>6 DEF c

\* The errors and then the call itself, each with a slice of its own.
LEMMA StartsErrors ==
  ASSUME env \in Scenarios, env.call # "LogM", NEW lvl, NEW with, NEW fields, NEW msg,
         AllMeant = Append(Rejections, Meant(lvl, with, fields, msg)),
         NEW c, c = ArgsToFields(env.args)
  PROVE  /\ Starts(ErrorCalls(c.errors) \o <<LogCall(lvl, with, Len(c.errors) + 1, msg)>>, c.errors \o <<fields>>)
         /\ IsSequence(ErrorCalls(c.errors) \o <<LogCall(lvl, with, Len(c.errors) + 1, msg)>>)
         /\ IsSequence(c.errors \o <<fields>>)
<1> DEFINE m == Meant(lvl, with, fields, msg)
           n == Len(c.errors)
           d == LogCall(lvl, with, n + 1, msg)
           ec == ErrorCalls(c.errors)
           t == ec \o <<d>>
           g == c.errors \o <<fields>>
<1>1. m.level = lvl /\ m.with = with /\ m.fields = fields /\ m.msg = msg
  BY DEF Meant
<1>2. d.level = lvl /\ d.with = with /\ d.slice = n + 1 /\ d.msg = msg
  BY DEF LogCall
<1>3. /\ IsSequence(Rejections) /\ IsSequence(c.errors) /\ Len(Rejections) = n
      /\ \A i \in 1 .. n : Rejections[i] = Meant("error", env.with, c.errors[i], ErrorMsg)
  BY RejectionsMeant
<1>4. IsSequence(ec) /\ Len(ec) = n
  BY CallsMeant
<1>5. n \in Nat /\ DOMAIN c.errors = 1 .. n
  BY <1>3 DEF IsSequence
<1>6. \A i \in 1 .. n : ec[i] = LogCall("error", env.with, i, ErrorMsg)
  BY <1>5 DEF ErrorCalls
<1>7. AllMeant = Append(Rejections, m)
  OBVIOUS
<1> HIDE DEF m, d, n, ec
<1>8. /\ Len(AllMeant) = n + 1 /\ AllMeant[n + 1] = m
      /\ \A i \in 1 .. n : AllMeant[i] = Meant("error", env.with, c.errors[i], ErrorMsg)
  BY <1>3, <1>7, AppendSequence
<1>9. IsSequence(<<d>>) /\ Len(<<d>>) = 1 /\ <<d>>[1] = d /\ IsSequence(<<fields>>) /\ Len(<<fields>>) = 1 /\ <<fields>>[1] = fields
      /\ 1 \in 1 .. 1
  BY OneSequence
<1>10. /\ IsSequence(t) /\ Len(t) = n + 1 /\ t[n + 1] = d /\ \A i \in 1 .. n : t[i] = ec[i]
  BY <1>4, <1>9, ConcatSequence
<1>11. /\ IsSequence(g) /\ Len(g) = n + 1 /\ g[n + 1] = fields /\ \A i \in 1 .. n : g[i] = c.errors[i]
  BY <1>3, <1>9, ConcatSequence DEF n
<1> HIDE DEF t, g
<1>12. ASSUME NEW i \in 1 .. n + 1
       PROVE  /\ Asks(t[i], AllMeant[i], SliceOf(env.call, i))
              /\ SliceOf(env.call, i) \in 1 .. Len(g) /\ g[SliceOf(env.call, i)] = AllMeant[i].fields
  <2>1. SliceOf(env.call, i) = i
    BY DEF SliceOf
  <2>2. CASE i = n + 1
    BY <1>1, <1>2, <1>8, <1>10, <1>11, <2>1, <2>2 DEF Asks
  <2>3. CASE i # n + 1
    <3>1. i \in 1 .. n
      BY <1>5, <2>3
    <3>2. t[i] = LogCall("error", env.with, i, ErrorMsg) /\ AllMeant[i] = Meant("error", env.with, c.errors[i], ErrorMsg)
          /\ g[i] = c.errors[i]
      BY <1>6, <1>8, <1>10, <1>11, <3>1
    <3> DEFINE a == Meant("error", env.with, c.errors[i], ErrorMsg)
               b == LogCall("error", env.with, i, ErrorMsg)
    <3>3. a.level = "error" /\ a.with = env.with /\ a.fields = c.errors[i] /\ a.msg = ErrorMsg
      BY DEF Meant
    <3>4. b.level = "error" /\ b.with = env.with /\ b.slice = i /\ b.msg = ErrorMsg
      BY DEF LogCall
    <3>5. t[i] = b /\ AllMeant[i] = a
      BY <3>2
    <3> HIDE DEF a, b
    <3>6. Asks(t[i], AllMeant[i], SliceOf(env.call, i))
      BY <2>1, <3>3, <3>4, <3>5 DEF Asks
    <3> QED
      BY <1>11, <2>1, <3>2, <3>3, <3>5, <3>6
  <2> QED
    BY <2>2, <2>3
<1>13. Starts(t, g)
  BY <1>8, <1>10, <1>12 DEF Starts
<1> QED
  BY <1>10, <1>11, <1>13 DEF t, g, ec, d, n

\* What is meant is what is logged: Call leaves one call of Log for each record that is
\* meant, with its level, message and fields, or none when Info finds its level
\* disabled (logger.go:51-98, sugar.go:12-197).
LEMMA CallStarts ==
  ASSUME env \in Scenarios, Call
  PROVE  /\ IsSequence(todo') /\ IsSequence(slices') /\ DOMAIN slices' # {}
         /\ \E t : /\ Starts(t, slices')
                   /\ todo' = t \/ (todo' = <<>> /\ \A i \in 1 .. Len(AllMeant) : ~ LevelEnabled(AllMeant[i].level))
<1> DEFINE c == ArgsToFields(env.args)
           n == Len(c.errors)
<1>1. IsSequence(env.args) /\ IsSequence(env.levels)
  BY ScenarioTypes
<1>2. \A e : IsSequence(<<e>>) /\ DOMAIN <<e>> # {}
  <2>1. \A e : IsSequence(<<e>>) /\ Len(<<e>>) = 1
    BY OneSequence
  <2>2. 1 \in 1 .. 1
    OBVIOUS
  <2> QED
    BY <2>1, <2>2 DEF IsSequence
<1>3. CASE env.call = "LogM"
  <2> DEFINE f == [i \in DOMAIN env.args |-> env.args[i].field]
             g == <<f>>
             t == [i \in DOMAIN env.levels |-> LogCall(env.levels[i], env.with, 1, env.msg)]
  <2>1. slices' = g /\ todo' = t
    BY <1>3 DEF Call
  <2>2. AllMeant = [i \in DOMAIN env.levels |-> Meant(env.levels[i], env.with, f, env.msg)]
    BY <1>3 DEF AllMeant
  <2>3. t = [i \in DOMAIN env.levels |-> t[i]]
    OBVIOUS
  <2>4. \A i \in DOMAIN env.levels : t[i] = LogCall(env.levels[i], env.with, 1, env.msg)
    OBVIOUS
  <2> HIDE DEF f, t
  <2>5. Len(g) = 1 /\ g[1] = f
    BY OneSequence
  <2> HIDE DEF g
  <2>6. /\ IsSequence(t) /\ Len(t) = Len(env.levels) /\ Len(AllMeant) = Len(env.levels)
        /\ DOMAIN env.levels = 1 .. Len(env.levels)
    BY <1>1, <2>2, <2>3, MapSequence DEF IsSequence
  <2>7. ASSUME NEW i \in 1 .. Len(AllMeant)
        PROVE  /\ Asks(t[i], AllMeant[i], SliceOf(env.call, i))
               /\ SliceOf(env.call, i) \in 1 .. Len(g) /\ g[SliceOf(env.call, i)] = AllMeant[i].fields
    <3>1. SliceOf(env.call, i) = 1
      BY <1>3 DEF SliceOf
    <3>2. AllMeant[i] = Meant(env.levels[i], env.with, f, env.msg) /\ t[i] = LogCall(env.levels[i], env.with, 1, env.msg)
      BY <2>2, <2>4, <2>6
    <3> QED
      BY <2>5, <3>1, <3>2 DEF Asks, Meant, LogCall
  <2>8. Starts(t, g)
    BY <2>6, <2>7 DEF Starts
  <2> QED
    BY <1>2, <2>1, <2>6, <2>8 DEF g
<1>4. CASE env.call = "Info"
  <2> DEFINE f == [j \in DOMAIN env.args |-> AnyArg(EmptyKey, env.args[j])]
             t == <<LogCall(env.levels[1], env.with, 1, env.msg)>>
  <2>1. slices' = <<f>> /\ todo' = IF LevelEnabled(env.levels[1]) THEN t ELSE <<>>
    BY <1>4 DEF Call, SugarFields
  <2>2. AllMeant = <<Meant(env.levels[1], env.with, f, env.msg)>>
    BY <1>4 DEF AllMeant
  <2>3. IsSequence(t)
    BY OneSequence
  <2> HIDE DEF f
  <2>4. Starts(t, <<f>>) /\ Len(AllMeant) = 1 /\ AllMeant[1].level = env.levels[1]
    BY <1>4, <2>2, StartsOne
  <2>5. ~ LevelEnabled(env.levels[1]) => \A i \in 1 .. Len(AllMeant) : ~ LevelEnabled(AllMeant[i].level)
    <3>1. \A i \in 1 .. Len(AllMeant) : i = 1
      BY <2>4
    <3> QED
      BY <2>4, <3>1
  <2> HIDE DEF t
  <2> QED
    BY <1>2, <2>1, <2>3, <2>4, <2>5, EmptySequence
<1>5. CASE env.call = "Logf"
  <2> DEFINE t == <<LogCall(env.levels[1], env.with, 1, env.msg)>>
  <2>1. slices' = << <<>> >> /\ todo' = t
    BY <1>5 DEF Call
  <2>2. AllMeant = <<Meant(env.levels[1], env.with, <<>>, env.msg)>>
    BY <1>5 DEF AllMeant
  <2>3. Starts(t, << <<>> >>)
    BY <1>5, <2>2, StartsOne
  <2>4. IsSequence(t)
    BY OneSequence
  <2> HIDE DEF t
  <2> QED
    BY <1>2, <2>1, <2>3, <2>4
<1>6. IsSequence(c.errors)
  BY CallsMeant
<1>7. \A e : DOMAIN (c.errors \o <<e>>) # {}
  <2> SUFFICES ASSUME NEW e
               PROVE  DOMAIN (c.errors \o <<e>>) # {}
    OBVIOUS
  <2>1. IsSequence(c.errors \o <<e>>) /\ Len(c.errors \o <<e>>) = n + 1
    BY <1>6, OneSequence, ConcatSequence
  <2>2. n \in Nat
    BY <1>6 DEF IsSequence
  <2>3. DOMAIN (c.errors \o <<e>>) = 1 .. n + 1
    BY <2>1 DEF IsSequence
  <2>4. 1 \in 1 .. n + 1
    BY <2>2
  <2> QED
    BY <2>3, <2>4
<1>8. CASE env.call = "Infow"
  <2>1. /\ slices' = c.errors \o <<c.fields>>
        /\ todo' = ErrorCalls(c.errors) \o <<LogCall(env.levels[1], env.with, n + 1, env.msg)>>
    BY <1>8 DEF Call
  <2>2. AllMeant = Append(Rejections, Meant(env.levels[1], env.with, PairFields(env.args), env.msg))
    BY <1>8 DEF AllMeant
  <2>3. c.fields = PairFields(env.args)
    BY ScenarioArguments, ArgsMeant
  <2>4. Starts(todo', slices') /\ IsSequence(todo') /\ IsSequence(slices')
    BY <1>8, <2>1, <2>2, <2>3, StartsErrors
  <2> QED
    BY <1>7, <2>1, <2>4
<1>9. CASE env.call = "With"
  <2>1. /\ slices' = c.errors \o << <<>> >>
        /\ todo' = ErrorCalls(c.errors) \o <<LogCall(env.levels[1], env.with \o c.fields, n + 1, env.msg)>>
    BY <1>9 DEF Call
  <2>2. AllMeant = Append(Rejections, Meant(env.levels[1], env.with \o PairFields(env.args), <<>>, env.msg))
    BY <1>9 DEF AllMeant
  <2>3. c.fields = PairFields(env.args)
    BY ScenarioArguments, ArgsMeant
  <2>4. Starts(todo', slices') /\ IsSequence(todo') /\ IsSequence(slices')
    BY <1>9, <2>1, <2>2, <2>3, StartsErrors
  <2> QED
    BY <1>7, <2>1, <2>4
<1> QED
  BY <1>3, <1>4, <1>5, <1>8, <1>9, ScenarioArguments

-----------------------------------------------------------------------------
(***************************************************************************)
(* The flow of the records: FlowOK says what each stage of the pipeline,   *)
(* from the call to the hosts, holds of the record it passes on.           *)
(***************************************************************************)

\* The records that some host has enabled, in order, with the slice of their fields
\* and what IsLevelEnabled says of the stack.
Wanted == {i \in DOMAIN AllMeant : \E h \in Hosts : Enabled(h, AllMeant[i].level)}
Tasks ==
    [k \in 1 .. Cardinality(Wanted) |->
       [m |-> AllMeant[InOrder(Wanted)[k]], slice |-> SliceOf(env.call, InOrder(Wanted)[k]),
        stack |-> StackStatus(AllMeant[InOrder(Wanted)[k]].level)]]

\* A field that enqueue may have shortened already, or has.
Derived(f, o, limit) ==
    /\ IsField(f) /\ f.key = o.key /\ f.type = o.type /\ f.val.bad = o.val.bad
    /\ f.type = "String" => f.val.text \in {o.val.text, LimitString(o.val.text, limit)}
    /\ f.type # "String" => f.val.text = o.val.text
Settled(f, o, limit) ==
    /\ Derived(f, o, limit)
    /\ limit > 0 => /\ f.type = "String" => f.val.text = LimitString(o.val.text, limit)
                    /\ f.type = "Stringer" => f.val.wraps # 0

\* The slice of a task, and its first fields when they are shortened.
Holds(ss, t, limit) ==
    /\ t.slice \in 1 .. Len(ss)
    /\ IsSequence(ss[t.slice]) /\ Len(ss[t.slice]) = Len(t.m.fields)
    /\ \A p \in 1 .. Len(t.m.fields) : Derived(ss[t.slice][p], t.m.fields[p], limit)
SettledTo(ss, t, n, limit) ==
    \A p \in 1 .. Len(t.m.fields) : p < n => Settled(ss[t.slice][p], t.m.fields[p], limit)
SettledAll(ss, t, limit) ==
    \A p \in 1 .. Len(t.m.fields) : Settled(ss[t.slice][p], t.m.fields[p], limit)

\* What prep gathered when it has copied n fields.
Gathers(all, m, n, limit) ==
    /\ IsSequence(all) /\ Len(all) = Len(m.with) + n
    /\ \A p \in 1 .. Len(m.with) : all[p] = m.with[p]
    /\ \A p \in 1 .. n : Settled(all[Len(m.with) + p], m.fields[p], limit)

\* A record on its way to prep, and one that prep is done with.
Carries(r, t, limit) ==
    /\ r = [level |-> r.level, with |-> r.with, slice |-> r.slice, msg |-> r.msg, stack |-> r.stack, at |-> r.at]
    /\ r.at \in Nat \ {0}
    /\ r.level = t.m.level /\ r.with = t.m.with /\ r.msg = LimitString(t.m.msg, limit)
    /\ r.slice = t.slice /\ r.stack = t.stack
FramesOf(t, frames) ==
    IF t.stack THEN ElementsAt(frames, {i \in DOMAIN frames : frames[i].pkg = "app"}) ELSE <<>>
Prepared(r, t, frames, limit) ==
    /\ r = [level |-> r.level, msg |-> r.msg, fieldsAll |-> r.fieldsAll, frames |-> r.frames, caller |-> r.caller]
    /\ r.level = t.m.level /\ r.msg = LimitString(t.m.msg, limit)
    /\ r.frames = FramesOf(t, frames) /\ r.caller = CalcCaller(FramesOf(t, frames))
    /\ IsSequence(r.fieldsAll)

\* Does some host sort the fields of a record in place?
SortsInPlace == \E h \in Hosts : env.hosts[h].fm.kind = "json" /\ env.hosts[h].fm.sorter = "inplace"

\* What is left to log, and how far the records that were made got.
Sent == Len(AllMeant) - Len(todo)
Made == Len(recs) + One(loop) + Len(queue) + One(cur)

TodoOK ==
    /\ Len(todo) <= Len(AllMeant)
    /\ \A j \in 1 .. Len(todo) : Asks(todo[j], AllMeant[Sent + j], SliceOf(env.call, Sent + j))
    /\ Made = Cardinality(Below(Wanted, Sent + 1))
SlicesOK == IsSequence(slices) /\ \A k \in DOMAIN Tasks : Holds(slices, Tasks[k], env.limit)
CurOK ==
    cur # nil => /\ Carries(cur, Tasks[Made], env.limit)
                 /\ SettledTo(slices, Tasks[Made], cur.at, env.limit)
QueueOK ==
    \A i \in 1 .. Len(queue) :
      LET t == Tasks[Len(recs) + One(loop) + i]
      IN  Carries(queue[i], t, env.limit) /\ SettledAll(slices, t, env.limit)
LoopOK ==
    loop # nil =>
      LET t == Tasks[Len(recs) + 1]
      IN  /\ loop = [rec |-> loop.rec, all |-> loop.all, at |-> loop.at]
          /\ Carries(loop.rec, t, env.limit) /\ SettledAll(slices, t, env.limit)
          /\ loop.at \in 1 .. Len(t.m.fields) + 1
          /\ Gathers(loop.all, t.m, loop.at - 1, env.limit)
RecsOK ==
    \A k \in 1 .. Len(recs) :
      /\ Prepared(recs[k], Tasks[k], env.frames, env.limit)
      /\ ~ SortsInPlace => Gathers(recs[k].fieldsAll, Tasks[k].m, Len(Tasks[k].m.fields), env.limit)

\* The records of the call, from the call to the hosts.
FlowOK == DOMAIN slices # {} => TodoOK /\ SlicesOK /\ CurOK /\ QueueOK /\ LoopOK /\ RecsOK

-----------------------------------------------------------------------------

\* One turn of the loop in enqueue, whether an earlier record shortened the field or not.
LEMMA LimitSettles ==
  ASSUME NEW f, NEW o, IsText(o.val.text), NEW limit \in Int, Derived(f, o, limit)
  PROVE  Settled(LimitField(f, limit), o, limit)
<1>1. IsField(f) /\ IsText(f.val.text) /\ f.val.wraps \in Nat
  BY DEF Derived, IsField, IsValue
<1>2. /\ IsField(LimitField(f, limit)) /\ LimitField(f, limit).key = f.key
      /\ LimitField(f, limit).val.bad = f.val.bad
      /\ LimitField(f, limit).type = f.type
      /\ LimitField(f, limit).val.text = IF f.type = "String" THEN LimitString(f.val.text, limit) ELSE f.val.text
      /\ LimitField(f, limit).val.wraps = IF f.type = "Stringer" THEN f.val.wraps + 1 ELSE f.val.wraps
  BY <1>1, LimitedField
<1>3. LimitString(LimitString(o.val.text, limit), limit) = LimitString(o.val.text, limit)
  BY LimitOnce
<1> DEFINE g == LimitField(f, limit)
<1> HIDE DEF g
<1>4. f.type = "String" => g.val.text = LimitString(o.val.text, limit)
  BY <1>2, <1>3 DEF Derived, g
<1>5. f.type = "Stringer" => g.val.wraps # 0
  BY <1>1, <1>2 DEF g
<1>6. IsField(g) /\ g.key = f.key /\ g.val.bad = f.val.bad /\ g.type = f.type /\ (f.type # "String" => g.val.text = f.val.text)
  BY <1>2 DEF g
<1>7. Derived(g, o, limit)
  BY <1>4, <1>6 DEF Derived
<1> QED
  BY <1>4, <1>5, <1>6, <1>7 DEF Settled, g

\* A field as it was given.
LEMMA DerivedNew ==
  ASSUME NEW o, IsMeant(o), NEW limit
  PROVE  Derived(o, o, limit)
  BY DEF Derived, IsMeant, IsNew

\* The tasks: what they are, whatever the step.
LEMMA TasksMeant ==
  ASSUME env \in Scenarios
  PROVE  /\ Wanted \in SUBSET (1 .. Len(AllMeant)) /\ IsFiniteSet(Wanted) /\ Cardinality(Wanted) \in Nat
         /\ IsSequence(Tasks) /\ Len(Tasks) = Cardinality(Wanted) /\ DOMAIN Tasks = 1 .. Cardinality(Wanted)
         /\ IsSequence(Logged) /\ Len(Logged) = Cardinality(Wanted) /\ DOMAIN Logged = 1 .. Cardinality(Wanted)
         /\ \A k \in 1 .. Cardinality(Wanted) :
              /\ \E i \in Wanted : Tasks[k].m = AllMeant[i] /\ Tasks[k].slice = SliceOf(env.call, i)
              /\ Tasks[k].m = Logged[k] /\ Tasks[k].stack = StackStatus(Tasks[k].m.level)
              /\ MeantOK(Tasks[k].m)
<1>1. /\ Len(AllMeant) \in Nat /\ DOMAIN AllMeant = 1 .. Len(AllMeant)
      /\ \A i \in 1 .. Len(AllMeant) : MeantOK(AllMeant[i])
  BY AllMeantOK
<1>2. Wanted \in SUBSET (1 .. Len(AllMeant))
  BY <1>1 DEF Wanted
<1>3. /\ IsFiniteSet(Wanted) /\ Cardinality(Wanted) \in Nat
      /\ DOMAIN InOrder(Wanted) = 1 .. Cardinality(Wanted)
      /\ \A j \in 1 .. Cardinality(Wanted) : InOrder(Wanted)[j] \in Wanted
  BY <1>1, <1>2, InOrderLists
<1>4. Logged = ElementsAt(AllMeant, Wanted)
  BY DEF Logged, Wanted
<1>5. IsSequence(Logged) /\ Len(Logged) = Cardinality(Wanted) /\ DOMAIN Logged = 1 .. Cardinality(Wanted)
  BY <1>3, <1>4, ElementsSequence DEF IsSequence
<1>6. \A k \in 1 .. Cardinality(Wanted) : Logged[k] = AllMeant[InOrder(Wanted)[k]]
  BY <1>3, <1>4 DEF ElementsAt
<1>7. DOMAIN Tasks = 1 .. Cardinality(Wanted) /\ Tasks = [k \in 1 .. Cardinality(Wanted) |-> Tasks[k]]
  BY DEF Tasks
<1>8. IsSequence(Tasks) /\ Len(Tasks) = Cardinality(Wanted)
  BY <1>3, <1>7, SequenceNew
<1>9. ASSUME NEW k \in 1 .. Cardinality(Wanted)
      PROVE  /\ Tasks[k].m = AllMeant[InOrder(Wanted)[k]]
             /\ Tasks[k].slice = SliceOf(env.call, InOrder(Wanted)[k])
             /\ Tasks[k].stack = StackStatus(AllMeant[InOrder(Wanted)[k]].level)
  BY DEF Tasks
<1>10. ASSUME NEW k \in 1 .. Cardinality(Wanted)
       PROVE  /\ \E i \in Wanted : Tasks[k].m = AllMeant[i] /\ Tasks[k].slice = SliceOf(env.call, i)
              /\ Tasks[k].m = Logged[k] /\ Tasks[k].stack = StackStatus(Tasks[k].m.level)
              /\ MeantOK(Tasks[k].m)
  BY <1>1, <1>2, <1>3, <1>6, <1>9
<1> QED
  BY <1>2, <1>3, <1>5, <1>7, <1>8, <1>10

\* The task of a record that is next.
LEMMA TaskNext ==
  ASSUME env \in Scenarios, NEW i \in Wanted, NEW k \in Nat, Cardinality(Below(Wanted, i)) = k - 1
  PROVE  /\ k \in 1 .. Cardinality(Wanted)
         /\ Tasks[k].m = AllMeant[i] /\ Tasks[k].slice = SliceOf(env.call, i) /\ Tasks[k].stack = StackStatus(AllMeant[i].level)
         /\ Cardinality(Below(Wanted, i + 1)) = k
<1>1. Wanted \in SUBSET (1 .. Len(AllMeant)) /\ IsFiniteSet(Wanted) /\ Cardinality(Wanted) \in Nat
  BY TasksMeant
<1>2. Len(AllMeant) \in Nat
  BY AllMeantOK
<1>3. Wanted \subseteq Nat /\ i \in Nat
  BY <1>1, <1>2
<1>4. Below(Wanted, i + 1) = Below(Wanted, i) \cup {i}
  <2>1. \A j \in Wanted : j < i + 1 <=> j < i \/ j = i
    BY <1>3
  <2> QED
    BY <2>1 DEF Below
<1>5. Below(Wanted, i) \in SUBSET Wanted /\ i \notin Below(Wanted, i) /\ Below(Wanted, i + 1) \in SUBSET Wanted
  BY <1>3 DEF Below
<1>6. IsFiniteSet(Below(Wanted, i)) /\ IsFiniteSet(Below(Wanted, i + 1))
  BY <1>1, <1>5, FS_Subset
<1>7. Cardinality(Below(Wanted, i + 1)) = Cardinality(Below(Wanted, i)) + 1
  BY <1>4, <1>5, <1>6, FS_AddElement
<1>8. Cardinality(Below(Wanted, i)) \in Nat
  BY <1>6, FS_CardinalityType
<1>9. Cardinality(Below(Wanted, i + 1)) <= Cardinality(Wanted)
  BY <1>1, <1>5, FS_Subset
<1>10. k \in 1 .. Cardinality(Wanted) /\ Cardinality(Below(Wanted, i + 1)) = k
  BY <1>1, <1>7, <1>8, <1>9
<1>11. InOrder(Wanted)[k] = i
  BY <1>1, <1>3, <1>10, InOrderAt
<1>12. /\ Tasks[k].m = AllMeant[InOrder(Wanted)[k]]
       /\ Tasks[k].slice = SliceOf(env.call, InOrder(Wanted)[k])
       /\ Tasks[k].stack = StackStatus(AllMeant[InOrder(Wanted)[k]].level)
  BY <1>10 DEF Tasks
<1> QED
  BY <1>10, <1>11, <1>12

\* No step changes the scenario, or what it means.
LEMMA SameTasks ==
  ASSUME env' = env
  PROVE  AllMeant' = AllMeant /\ Wanted' = Wanted /\ Tasks' = Tasks /\ Logged' = Logged /\ Hosts' = Hosts
         /\ SortsInPlace' = SortsInPlace
<1>1. AllMeant' = AllMeant
  BY SameMeant
<1>2. Wanted' = Wanted /\ Hosts' = Hosts
  BY <1>1 DEF Wanted, Hosts, Enabled
<1>3. Tasks' = Tasks
  BY <1>1, <1>2 DEF Tasks, StackStatus, Enabled
<1>4. Logged' = Logged
  BY <1>1, <1>2 DEF Logged, Enabled
<1>5. SortsInPlace' = SortsInPlace
  BY <1>2 DEF SortsInPlace
<1> QED
  BY <1>1, <1>2, <1>3, <1>4, <1>5

\* The slices when one field of one of them is shortened.
Shorten(ss, s, p, limit) == [ss EXCEPT ![s] = [ss[s] EXCEPT ![p] = LimitField(ss[s][p], limit)]]

\* Shortening one field of one slice in place (logr.go:256-270) keeps every slice what
\* the records it was given for may hold, and what is settled stays so.
LEMMA LimitKeeps ==
  ASSUME NEW ss, IsSequence(ss), NEW s \in 1 .. Len(ss), NEW p \in 1 .. Len(ss[s]), NEW limit \in Int,
         NEW t, MeantOK(t.m), Holds(ss, t, limit)
  PROVE  /\ IsSequence(Shorten(ss, s, p, limit)) /\ Len(Shorten(ss, s, p, limit)) = Len(ss)
         /\ Holds(Shorten(ss, s, p, limit), t, limit)
         /\ \A q \in 1 .. Len(t.m.fields) :
              \/ Settled(ss[t.slice][q], t.m.fields[q], limit)
              \/ t.slice = s /\ q = p
              => Settled(Shorten(ss, s, p, limit)[t.slice][q], t.m.fields[q], limit)
<1> DEFINE new == Shorten(ss, s, p, limit)
           row == [ss[s] EXCEPT ![p] = LimitField(ss[s][p], limit)]
           o == t.m.fields
<1>1. DOMAIN ss = 1 .. Len(ss) /\ Len(ss) \in Nat /\ ss = [i \in 1 .. Len(ss) |-> ss[i]]
  BY DEF IsSequence
<1>2. new = [ss EXCEPT ![s] = row]
  BY DEF Shorten
<1> HIDE DEF new
<1>3. /\ new[s] = row /\ DOMAIN new = 1 .. Len(ss)
      /\ \A i \in 1 .. Len(ss) : i # s => new[i] = ss[i]
      /\ new = [i \in 1 .. Len(ss) |-> new[i]]
  BY <1>1, <1>2
<1>4. IsSequence(new) /\ Len(new) = Len(ss)
  BY <1>1, <1>3, SequenceNew
<1>5. /\ t.slice \in 1 .. Len(ss)
      /\ IsSequence(ss[t.slice]) /\ Len(ss[t.slice]) = Len(o)
      /\ \A q \in 1 .. Len(o) : Derived(ss[t.slice][q], o[q], limit)
  BY DEF Holds
<1>6. \A q \in 1 .. Len(o) : IsText(o[q].val.text)
  BY DEF MeantOK, NewFields, IsMeant, IsNew, IsField, IsValue
<1> HIDE DEF row, o
<1>7. CASE t.slice = s
  <2>1. IsSequence(ss[s]) /\ Len(ss[s]) = Len(o) /\ Len(o) \in Nat /\ DOMAIN ss[s] = 1 .. Len(o)
        /\ ss[s] = [i \in 1 .. Len(o) |-> ss[s][i]]
    BY <1>5, <1>7 DEF IsSequence
  <2>2. /\ DOMAIN row = 1 .. Len(o) /\ row = [i \in 1 .. Len(o) |-> row[i]]
        /\ row[p] = LimitField(ss[s][p], limit)
        /\ \A q \in 1 .. Len(o) : q # p => row[q] = ss[s][q]
    BY <2>1 DEF row
  <2>3. IsSequence(row) /\ Len(row) = Len(o)
    BY <2>1, <2>2, SequenceNew
  <2>4. Settled(row[p], o[p], limit)
    BY <1>5, <1>6, <1>7, <2>1, <2>2, LimitSettles
  <2>5. \A q \in 1 .. Len(o) : Derived(row[q], o[q], limit)
    BY <1>5, <1>7, <2>2, <2>4 DEF Settled
  <2>6. \A q \in 1 .. Len(o) : Settled(ss[s][q], o[q], limit) \/ q = p => Settled(row[q], o[q], limit)
    BY <2>2, <2>4
  <2>7. Holds(new, t, limit)
    BY <1>3, <1>4, <1>5, <1>7, <2>3, <2>5 DEF Holds, o
  <2> QED
    BY <1>3, <1>4, <1>7, <2>6, <2>7 DEF o, new
<1>8. CASE t.slice # s
  <2>1. new[t.slice] = ss[t.slice]
    BY <1>3, <1>5, <1>8
  <2>2. Holds(new, t, limit)
    BY <1>4, <1>5, <2>1 DEF Holds, o
  <2> QED
    BY <1>4, <1>8, <2>1, <2>2 DEF o, new
<1> QED
  BY <1>7, <1>8

\* The parts of the pipeline before and after a step that makes no record.
LEMMA MadeBounds ==
  ASSUME PipeOK, TodoOK
  PROVE  /\ Made \in 0 .. Cardinality(Wanted) /\ Cardinality(Wanted) \in Nat /\ Sent \in 0 .. Len(AllMeant)
         /\ Len(recs) \in Nat /\ Len(queue) \in Nat /\ Len(todo) \in Nat /\ Len(AllMeant) \in Nat
         /\ One(cur) \in 0 .. 1 /\ One(loop) \in 0 .. 1
<1>1. /\ Len(recs) \in Nat /\ Len(queue) \in Nat /\ Len(todo) \in Nat /\ Len(AllMeant) \in Nat
      /\ One(cur) \in 0 .. 1 /\ One(loop) \in 0 .. 1
  BY AllMeantOK, OneBounds DEF PipeOK, IsSequence
<1>2. Sent \in 0 .. Len(AllMeant)
  BY <1>1 DEF TodoOK, Sent
<1>3. Wanted \in SUBSET (1 .. Len(AllMeant)) /\ IsFiniteSet(Wanted) /\ Cardinality(Wanted) \in Nat
  BY TasksMeant DEF PipeOK
<1>4. Below(Wanted, Sent + 1) \in SUBSET Wanted
  BY DEF Below
<1>5. IsFiniteSet(Below(Wanted, Sent + 1)) /\ Cardinality(Below(Wanted, Sent + 1)) <= Cardinality(Wanted)
  BY <1>3, <1>4, FS_Subset
<1>6. Cardinality(Below(Wanted, Sent + 1)) \in Nat
  BY <1>5, FS_CardinalityType
<1>7. Made \in 0 .. Cardinality(Wanted)
  BY <1>1, <1>3, <1>5, <1>6 DEF TodoOK
<1> QED
  BY <1>1, <1>2, <1>3, <1>7

\* The call (logger.go:51-98, sugar.go:12-197).
LEMMA FlowCall ==
  ASSUME PipeOK, Call
  PROVE  FlowOK'
<1>1. /\ env' = env /\ cur' = cur /\ queue' = queue /\ loop' = loop /\ recs' = recs
      /\ cur = nil /\ queue = <<>> /\ loop = nil /\ recs = <<>> /\ env \in Scenarios
  <2>1. slices = <<>> /\ DOMAIN slices = {}
    BY DEF Call
  <2> QED
    BY <2>1 DEF Call, PipeOK
<1>2. AllMeant' = AllMeant /\ Wanted' = Wanted /\ Tasks' = Tasks /\ SortsInPlace' = SortsInPlace
  BY <1>1, SameTasks
<1>3. IsSequence(todo') /\ IsSequence(slices')
  BY <1>1, CallStarts
<1>4. PICK t : /\ Starts(t, slices')
               /\ todo' = t \/ (todo' = <<>> /\ \A i \in 1 .. Len(AllMeant) : ~ LevelEnabled(AllMeant[i].level))
  BY <1>1, CallStarts
<1>5. /\ Wanted \in SUBSET (1 .. Len(AllMeant)) /\ DOMAIN Tasks = 1 .. Cardinality(Wanted)
      /\ \A k \in 1 .. Cardinality(Wanted) :
           /\ \E i \in Wanted : Tasks[k].m = AllMeant[i] /\ Tasks[k].slice = SliceOf(env.call, i)
           /\ MeantOK(Tasks[k].m)
  BY <1>1, TasksMeant
<1>6. Len(AllMeant) \in Nat
  BY <1>1, AllMeantOK
<1>7. Len(queue) = 0 /\ Len(recs) = 0 /\ One(cur) = 0 /\ One(loop) = 0
  BY <1>1, EmptySequence DEF One
<1>8. Made' = 0
  BY <1>1, <1>7 DEF Made
<1>9. TodoOK'
  <2>1. CASE todo' = t
    <3>1. Len(todo') = Len(AllMeant) /\ \A i \in 1 .. Len(AllMeant) : Asks(todo'[i], AllMeant[i], SliceOf(env.call, i))
      BY <1>4, <2>1 DEF Starts
    <3>2. Sent' = 0
      BY <1>2, <1>6, <3>1 DEF Sent
    <3>3. Below(Wanted, 1) = {}
      <4>1. \A i \in Wanted : ~ (i < 1)
        BY <1>5
      <4> QED
        BY <4>1 DEF Below
    <3>4. Cardinality(Below(Wanted', Sent' + 1)) = 0
      BY <1>2, <3>2, <3>3, FS_EmptySet
    <3>5. \A j \in 1 .. Len(todo') : Asks(todo'[j], AllMeant'[Sent' + j], SliceOf(env'.call, Sent' + j))
      BY <1>1, <1>2, <3>1, <3>2
    <3> QED
      BY <1>2, <1>6, <1>8, <3>1, <3>4, <3>5 DEF TodoOK
  <2>2. CASE todo' = <<>> /\ \A i \in 1 .. Len(AllMeant) : ~ LevelEnabled(AllMeant[i].level)
    <3>1. Wanted = {}
      BY <1>6, <2>2, <1>1, AllMeantOK DEF Wanted, LevelEnabled
    <3>2. Len(todo') = 0
      BY <2>2, EmptySequence
    <3>3. Cardinality(Below(Wanted', Sent' + 1)) = 0
      BY <1>2, <3>1, FS_EmptySet DEF Below
    <3> QED
      BY <1>2, <1>6, <1>8, <3>2, <3>3 DEF TodoOK
  <2> QED
    BY <1>4, <2>1, <2>2
<1>10. SlicesOK'
  <2> SUFFICES ASSUME NEW k \in 1 .. Cardinality(Wanted)
               PROVE  Holds(slices', Tasks[k], env.limit)
    BY <1>1, <1>2, <1>3, <1>5 DEF SlicesOK
  <2>1. PICK i \in Wanted : Tasks[k].m = AllMeant[i] /\ Tasks[k].slice = SliceOf(env.call, i)
    BY <1>5
  <2>2. MeantOK(AllMeant[i])
    BY <1>5, <2>1
  <2>3. Tasks[k].slice \in 1 .. Len(slices') /\ slices'[Tasks[k].slice] = Tasks[k].m.fields
    BY <1>4, <1>5, <2>1 DEF Starts
  <2>4. NewFields(Tasks[k].m.fields)
    BY <2>1, <2>2 DEF MeantOK
  <2> QED
    BY <2>3, <2>4, DerivedNew DEF Holds, NewFields
<1>11. CurOK' /\ LoopOK'
  BY <1>1 DEF CurOK, LoopOK
<1>12. QueueOK' /\ RecsOK'
  BY <1>1, <1>7 DEF QueueOK, RecsOK
<1> QED
  BY <1>9, <1>10, <1>11, <1>12 DEF FlowOK

\* Log (logger.go:51-57): a record with what the call asks for, unless no host has its
\* level enabled.
LEMMA FlowLog ==
  ASSUME PipeOK, FlowOK, DOMAIN slices # {}, Log
  PROVE  FlowOK'
<1> USE DEF FlowOK
<1>1. /\ env' = env /\ slices' = slices /\ queue' = queue /\ loop' = loop /\ recs' = recs
      /\ cur = nil /\ todo # <<>> /\ todo' = Tail(todo)
  BY DEF Log
<1>2. AllMeant' = AllMeant /\ Wanted' = Wanted /\ Tasks' = Tasks /\ SortsInPlace' = SortsInPlace
  BY <1>1, SameTasks
<1>3. IsSequence(todo) /\ env \in Scenarios /\ env.limit \in Int
  BY ScenarioTypes DEF PipeOK
<1>4. /\ Len(todo) > 0 /\ Head(todo) = todo[1] /\ IsSequence(todo') /\ Len(todo') = Len(todo) - 1
      /\ \A i \in 1 .. Len(todo) - 1 : todo'[i] = todo[i + 1]
  BY <1>1, <1>3, TailSequence
<1>5. /\ Made \in 0 .. Cardinality(Wanted) /\ Cardinality(Wanted) \in Nat /\ Sent \in 0 .. Len(AllMeant)
      /\ Len(recs) \in Nat /\ Len(queue) \in Nat /\ Len(todo) \in Nat /\ Len(AllMeant) \in Nat
      /\ One(loop) \in 0 .. 1
  BY MadeBounds
<1> DEFINE i == Sent + 1
           call == todo[1]
<1>6. i \in 1 .. Len(AllMeant) /\ Sent' = i
  BY <1>2, <1>4, <1>5 DEF Sent, TodoOK
<1>7. Asks(call, AllMeant[i], SliceOf(env.call, i))
  BY <1>4, <1>5 DEF TodoOK
<1>8. One(cur) = 0
  BY <1>1 DEF One
<1>9. /\ Len(todo') <= Len(AllMeant)
      /\ \A j \in 1 .. Len(todo') : Asks(todo'[j], AllMeant[Sent' + j], SliceOf(env.call, Sent' + j))
  <2> SUFFICES ASSUME NEW j \in 1 .. Len(todo')
               PROVE  Asks(todo'[j], AllMeant[Sent' + j], SliceOf(env.call, Sent' + j))
    BY <1>4, <1>5 DEF TodoOK
  <2>1. j + 1 \in 1 .. Len(todo) /\ Sent + (j + 1) = Sent' + j /\ todo'[j] = todo[j + 1]
    BY <1>4, <1>5, <1>6
  <2> QED
    BY <2>1 DEF TodoOK
<1>10. SlicesOK' /\ QueueOK' /\ LoopOK' /\ RecsOK'
  BY <1>1, <1>2 DEF SlicesOK, QueueOK, LoopOK, RecsOK
<1>11. cur' = IF ~LevelEnabled(call.level) THEN nil
              ELSE [level |-> call.level, with |-> call.with, slice |-> call.slice,
                    msg |-> LimitString(call.msg, env.limit), stack |-> StackStatus(call.level), at |-> 1]
  BY <1>4 DEF Log
<1>12. call.level = AllMeant[i].level /\ call.with = AllMeant[i].with /\ call.msg = AllMeant[i].msg
       /\ call.slice = SliceOf(env.call, i)
  BY <1>7 DEF Asks
<1>13. DOMAIN AllMeant = 1 .. Len(AllMeant)
  BY <1>3, AllMeantOK
<1>14. Made = Cardinality(Below(Wanted, i))
  BY DEF TodoOK
<1> HIDE DEF i, call
<1>15. CASE LevelEnabled(call.level)
  <2>1. i \in Wanted
    BY <1>6, <1>12, <1>13, <1>15 DEF Wanted, LevelEnabled
  <2> DEFINE k == Made + 1
  <2>2. k \in Nat /\ Cardinality(Below(Wanted, i)) = k - 1
    BY <1>5, <1>14
  <2>3. cur' # nil /\ cur'.at = 1
    BY <1>11, <1>15 DEF nil
  <2>4. One(cur') = 1
    BY <2>3 DEF One
  <2>5. Made' = k
    BY <1>1, <1>5, <1>8, <2>4 DEF Made
  <2> HIDE DEF k
  <2>6. /\ Tasks[k].m = AllMeant[i] /\ Tasks[k].slice = SliceOf(env.call, i) /\ Tasks[k].stack = StackStatus(AllMeant[i].level)
        /\ Cardinality(Below(Wanted, i + 1)) = k
    BY <1>3, <2>1, <2>2, TaskNext
  <2>7. TodoOK'
    BY <1>1, <1>2, <1>6, <1>9, <2>5, <2>6 DEF TodoOK
  <2>8. Carries(cur', Tasks[k], env.limit)
    BY <1>11, <1>12, <1>15, <2>6 DEF Carries
  <2>9. SettledTo(slices, Tasks[k], 1, env.limit)
    <3>1. \A p \in 1 .. Len(Tasks[k].m.fields) : ~ (p < 1)
      OBVIOUS
    <3> QED
      BY <3>1 DEF SettledTo
  <2>10. CurOK'
    BY <1>1, <1>2, <2>3, <2>5, <2>8, <2>9 DEF CurOK
  <2> QED
    BY <1>10, <2>7, <2>10
<1>16. CASE ~LevelEnabled(call.level)
  <2>1. i \notin Wanted
    BY <1>12, <1>16 DEF Wanted, LevelEnabled
  <2>2. Below(Wanted, i + 1) = Below(Wanted, i)
    <3>1. Wanted \in SUBSET (1 .. Len(AllMeant))
      BY <1>3, TasksMeant
    <3>2. \A j \in Wanted : j < i + 1 <=> j < i
      BY <1>6, <2>1, <3>1
    <3> QED
      BY <3>2 DEF Below
  <2>3. cur' = nil
    BY <1>11, <1>16
  <2>4. Made' = Made
    BY <1>1, <2>3 DEF Made
  <2>5. TodoOK'
    BY <1>1, <1>2, <1>6, <1>9, <1>14, <2>2, <2>4 DEF TodoOK
  <2>6. CurOK'
    BY <2>3 DEF CurOK
  <2> QED
    BY <1>10, <2>5, <2>6
<1> QED
  BY <1>15, <1>16

-----------------------------------------------------------------------------
(***************************************************************************)
(* FlowOK is kept: enqueue, the engine's loop, prep and fanout.            *)
(***************************************************************************)

\* The tasks of the records on their way are tasks.
LEMMA TaskPlaces ==
  ASSUME PipeOK, TodoOK
  PROVE  /\ env \in Scenarios /\ env.limit \in Int
         /\ DOMAIN Tasks = 1 .. Cardinality(Wanted)
         /\ \A k \in DOMAIN Tasks : MeantOK(Tasks[k].m) /\ Len(Tasks[k].m.fields) \in Nat /\ Len(Tasks[k].m.with) \in Nat
         /\ cur # nil => One(cur) = 1 /\ Made \in DOMAIN Tasks
         /\ \A i \in 1 .. Len(queue) : Len(recs) + One(loop) + i \in DOMAIN Tasks
         /\ loop # nil => One(loop) = 1 /\ Len(recs) + 1 \in DOMAIN Tasks
         /\ \A k \in 1 .. Len(recs) : k \in DOMAIN Tasks
<1>1. env \in Scenarios /\ env.limit \in Int
  BY ScenarioTypes DEF PipeOK
<1>2. /\ Made \in 0 .. Cardinality(Wanted) /\ Cardinality(Wanted) \in Nat
      /\ Len(recs) \in Nat /\ Len(queue) \in Nat /\ Len(todo) \in Nat /\ Len(AllMeant) \in Nat
      /\ One(cur) \in 0 .. 1 /\ One(loop) \in 0 .. 1
  BY MadeBounds
<1>3. Len(recs) + One(loop) + Len(queue) + One(cur) <= Cardinality(Wanted)
  BY <1>2 DEF Made
<1>4. DOMAIN Tasks = 1 .. Cardinality(Wanted) /\ \A k \in 1 .. Cardinality(Wanted) : MeantOK(Tasks[k].m)
  BY <1>1, TasksMeant
<1>5. \A k \in DOMAIN Tasks : MeantOK(Tasks[k].m) /\ Len(Tasks[k].m.fields) \in Nat /\ Len(Tasks[k].m.with) \in Nat
  BY <1>4 DEF MeantOK, NewFields, IsSequence
<1>6. cur # nil => One(cur) = 1 /\ Made \in DOMAIN Tasks
  BY <1>2, <1>4 DEF One, Made
<1>7. \A i \in 1 .. Len(queue) : Len(recs) + One(loop) + i \in DOMAIN Tasks
  BY <1>2, <1>3, <1>4
<1>8. loop # nil => One(loop) = 1 /\ Len(recs) + 1 \in DOMAIN Tasks
  BY <1>2, <1>3, <1>4 DEF One
<1>9. \A k \in 1 .. Len(recs) : k \in DOMAIN Tasks
  BY <1>2, <1>3, <1>4
<1> QED
  BY <1>1, <1>4, <1>5, <1>6, <1>7, <1>8, <1>9

\* The loop of enqueue (logr.go:256-270).
LEMMA FlowLimit ==
  ASSUME PipeOK, FlowOK, DOMAIN slices # {}, Limit
  PROVE  FlowOK'
<1> USE DEF FlowOK
<1> DEFINE s == cur.slice
           p == cur.at
           t == Tasks[Made]
<1>1. /\ env' = env /\ todo' = todo /\ queue' = queue /\ loop' = loop /\ recs' = recs
      /\ cur # nil /\ env.limit > 0 /\ p <= Len(slices[s])
      /\ slices' = [slices EXCEPT ![s][p] = LimitField(@, env.limit)]
      /\ cur' = [cur EXCEPT !.at = cur.at + 1]
  BY DEF Limit
<1>2. AllMeant' = AllMeant /\ Wanted' = Wanted /\ Tasks' = Tasks /\ SortsInPlace' = SortsInPlace
  BY <1>1, SameTasks
<1>3. /\ env \in Scenarios /\ env.limit \in Int
      /\ \A k \in DOMAIN Tasks : MeantOK(Tasks[k].m)
      /\ One(cur) = 1 /\ Made \in DOMAIN Tasks
      /\ \A i \in 1 .. Len(queue) : Len(recs) + One(loop) + i \in DOMAIN Tasks
      /\ loop # nil => Len(recs) + 1 \in DOMAIN Tasks
  BY <1>1, TaskPlaces
<1>4. Carries(cur, t, env.limit) /\ SettledTo(slices, t, p, env.limit)
  BY <1>1 DEF CurOK
<1>5. cur.at \in Nat \ {0} /\ s = t.slice
      /\ cur = [level |-> cur.level, with |-> cur.with, slice |-> cur.slice, msg |-> cur.msg, stack |-> cur.stack, at |-> cur.at]
  BY <1>4 DEF Carries
<1>6. IsSequence(slices) /\ \A k \in DOMAIN Tasks : Holds(slices, Tasks[k], env.limit)
  BY DEF SlicesOK
<1>7. s \in 1 .. Len(slices) /\ p \in 1 .. Len(slices[s])
  <2>1. Holds(slices, t, env.limit)
    BY <1>3, <1>6
  <2>2. s \in 1 .. Len(slices) /\ Len(slices[s]) \in Nat
    BY <1>5, <2>1 DEF Holds, IsSequence
  <2> QED
    BY <1>1, <1>5, <2>2
<1>8. cur' = [level |-> cur.level, with |-> cur.with, slice |-> cur.slice, msg |-> cur.msg, stack |-> cur.stack, at |-> p + 1]
  BY <1>1, <1>5
<1>9. Carries(cur', t, env.limit) /\ cur'.at = p + 1 /\ cur' # nil
  BY <1>4, <1>5, <1>8 DEF Carries, nil
<1>10. Made' = Made
  BY <1>1, <1>3, <1>9 DEF Made, One
<1> HIDE DEF s, p, t
<1>11. ASSUME NEW k \in DOMAIN Tasks
       PROVE  /\ IsSequence(slices') /\ Len(slices') = Len(slices)
              /\ Holds(slices', Tasks[k], env.limit)
              /\ \A q \in 1 .. Len(Tasks[k].m.fields) :
                   \/ Settled(slices[Tasks[k].slice][q], Tasks[k].m.fields[q], env.limit)
                   \/ Tasks[k].slice = s /\ q = p
                   => Settled(slices'[Tasks[k].slice][q], Tasks[k].m.fields[q], env.limit)
  <2> DEFINE new == slices'
             u == Tasks[k]
  <2>1. new = Shorten(slices, s, p, env.limit)
    BY <1>1 DEF Shorten
  <2>2. MeantOK(u.m) /\ Holds(slices, u, env.limit) /\ IsSequence(slices) /\ env.limit \in Int
    BY <1>3, <1>6
  <2> HIDE DEF new, u
  <2>3. /\ IsSequence(new) /\ Len(new) = Len(slices)
        /\ Holds(new, u, env.limit)
        /\ \A q \in 1 .. Len(u.m.fields) :
             \/ Settled(slices[u.slice][q], u.m.fields[q], env.limit)
             \/ u.slice = s /\ q = p
             => Settled(new[u.slice][q], u.m.fields[q], env.limit)
    BY <1>7, <2>1, <2>2, LimitKeeps
  <2> QED
    BY <2>3 DEF new, u
<1>12. SlicesOK'
  BY <1>1, <1>2, <1>3, <1>11 DEF SlicesOK
<1>13. \A k \in DOMAIN Tasks : SettledAll(slices, Tasks[k], env.limit) => SettledAll(slices', Tasks[k], env.limit)
  BY <1>11 DEF SettledAll
<1>14. TodoOK'
  BY <1>1, <1>2, <1>10 DEF TodoOK, Sent
<1>15. QueueOK'
  BY <1>1, <1>2, <1>3, <1>13 DEF QueueOK
<1>16. LoopOK'
  BY <1>1, <1>2, <1>3, <1>13 DEF LoopOK
<1>17. RecsOK'
  BY <1>1, <1>2 DEF RecsOK
<1>18. SettledTo(slices', t, p + 1, env.limit)
  <2> SUFFICES ASSUME NEW q \in 1 .. Len(t.m.fields), q < p + 1
               PROVE  Settled(slices'[t.slice][q], t.m.fields[q], env.limit)
    BY DEF SettledTo
  <2>1. p \in Nat
    BY <1>5 DEF p
  <2>2. q < p \/ q = p
    BY <2>1
  <2>3. Settled(slices[t.slice][q], t.m.fields[q], env.limit) \/ (t.slice = s /\ q = p)
    BY <1>4, <1>5, <2>2 DEF SettledTo, p, s, t
  <2> QED
    BY <1>3, <1>11, <2>3 DEF t
<1>19. CurOK'
  BY <1>1, <1>2, <1>9, <1>10, <1>18 DEF CurOK, t
<1> QED
  BY <1>12, <1>14, <1>15, <1>16, <1>17, <1>19

\* The end of enqueue (logr.go:273-284): every field of the slice was visited.
LEMMA FlowEnqueue ==
  ASSUME PipeOK, FlowOK, DOMAIN slices # {}, Enqueue
  PROVE  FlowOK'
<1> USE DEF FlowOK
<1> DEFINE t == Tasks[Made]
<1>1. /\ env' = env /\ todo' = todo /\ slices' = slices /\ loop' = loop /\ recs' = recs
      /\ cur # nil /\ cur' = nil /\ queue' = Append(queue, cur)
      /\ env.limit > 0 => cur.at > Len(slices[cur.slice])
  BY DEF Enqueue
<1>2. AllMeant' = AllMeant /\ Wanted' = Wanted /\ Tasks' = Tasks /\ SortsInPlace' = SortsInPlace
  BY <1>1, SameTasks
<1>3. /\ env \in Scenarios /\ env.limit \in Int /\ One(cur) = 1 /\ Made \in DOMAIN Tasks
      /\ Len(t.m.fields) \in Nat
  BY <1>1, TaskPlaces
<1>4. /\ IsSequence(queue) /\ Len(queue) \in Nat /\ Len(recs) \in Nat /\ One(loop) \in 0 .. 1
  BY OneBounds DEF PipeOK, IsSequence
<1>5. /\ IsSequence(queue') /\ Len(queue') = Len(queue) + 1
      /\ \A i \in 1 .. Len(queue) : queue'[i] = queue[i]
      /\ queue'[Len(queue) + 1] = cur
  BY <1>1, <1>4, AppendSequence
<1>6. Made' = Made
  <2>1. One(cur') = 0 /\ recs' = recs /\ loop' = loop
    BY <1>1 DEF One
  <2>2. Len(queue') = Len(queue) + 1
    BY <1>5
  <2> QED
    BY <1>3, <1>4, <2>1, <2>2 DEF Made
<1>7. Made = Len(recs) + One(loop) + (Len(queue) + 1)
  BY <1>3, <1>4 DEF Made
<1>8. Carries(cur, t, env.limit) /\ SettledTo(slices, t, cur.at, env.limit) /\ Holds(slices, t, env.limit)
  BY <1>1, <1>3 DEF CurOK, SlicesOK
<1> HIDE DEF t
<1>9. SettledAll(slices, t, env.limit)
  <2> SUFFICES ASSUME NEW p \in 1 .. Len(t.m.fields)
               PROVE  Settled(slices[t.slice][p], t.m.fields[p], env.limit)
    BY DEF SettledAll
  <2>1. Derived(slices[t.slice][p], t.m.fields[p], env.limit) /\ Len(slices[t.slice]) = Len(t.m.fields)
    BY <1>8 DEF Holds
  <2>2. CASE env.limit > 0
    <3>1. cur.at > Len(t.m.fields) /\ cur.at \in Nat
      BY <1>1, <1>8, <2>1, <2>2 DEF Carries
    <3>2. p < cur.at
      BY <1>3, <3>1
    <3> QED
      BY <1>8, <3>2 DEF SettledTo
  <2>3. CASE ~ (env.limit > 0)
    BY <2>1, <2>3 DEF Settled
  <2> QED
    BY <2>2, <2>3
<1>10. TodoOK'
  BY <1>1, <1>2, <1>6 DEF TodoOK, Sent
<1>11. SlicesOK' /\ LoopOK' /\ RecsOK'
  BY <1>1, <1>2 DEF SlicesOK, LoopOK, RecsOK
<1>12. CurOK'
  BY <1>1 DEF CurOK
<1>13. QueueOK'
  <2> SUFFICES ASSUME NEW i \in 1 .. Len(queue')
               PROVE  /\ Carries(queue'[i], Tasks[Len(recs) + One(loop) + i], env.limit)
                      /\ SettledAll(slices, Tasks[Len(recs) + One(loop) + i], env.limit)
    BY <1>1, <1>2 DEF QueueOK
  <2>1. CASE i = Len(queue) + 1
    BY <1>5, <1>7, <1>8, <1>9, <2>1 DEF t
  <2>2. CASE i # Len(queue) + 1
    <3>1. i \in 1 .. Len(queue)
      BY <1>4, <1>5, <2>2
    <3> QED
      BY <1>5, <3>1 DEF QueueOK
  <2> QED
    BY <2>1, <2>2
<1> QED
  BY <1>10, <1>11, <1>12, <1>13

\* prep takes a record from the queue and copies the fields of the logger
\* (logrec.go:54-60).
LEMMA FlowPrep ==
  ASSUME PipeOK, FlowOK, DOMAIN slices # {}, Prep
  PROVE  FlowOK'
<1> USE DEF FlowOK
<1> DEFINE t == Tasks[Len(recs) + 1]
           r == queue[1]
<1>1. /\ env' = env /\ todo' = todo /\ slices' = slices /\ cur' = cur /\ recs' = recs
      /\ loop = nil /\ queue # <<>> /\ queue' = Tail(queue)
      /\ loop' = [rec |-> Head(queue), all |-> Head(queue).with, at |-> 1]
  BY DEF Prep
<1>2. AllMeant' = AllMeant /\ Wanted' = Wanted /\ Tasks' = Tasks /\ SortsInPlace' = SortsInPlace
  BY <1>1, SameTasks
<1>3. /\ IsSequence(queue) /\ Len(queue) \in Nat /\ Len(recs) \in Nat /\ One(loop) = 0 /\ One(cur) \in 0 .. 1
  BY <1>1, OneBounds DEF PipeOK, IsSequence, One
<1>4. /\ Len(queue) > 0 /\ Head(queue) = r /\ IsSequence(queue') /\ Len(queue') = Len(queue) - 1
      /\ \A i \in 1 .. Len(queue) - 1 : queue'[i] = queue[i + 1]
  BY <1>1, <1>3, TailSequence
<1>5. 1 \in 1 .. Len(queue) /\ Len(recs) + One(loop) + 1 = Len(recs) + 1
  BY <1>3, <1>4
<1>6. Carries(r, t, env.limit) /\ SettledAll(slices, t, env.limit)
  BY <1>5 DEF QueueOK
<1>7. MeantOK(t.m) /\ Len(t.m.fields) \in Nat /\ Len(t.m.with) \in Nat
  BY <1>5, TaskPlaces
<1>8. loop' = [rec |-> r, all |-> r.with, at |-> 1]
  BY <1>1, <1>4
<1>9. loop'.at = 1 /\ loop'.rec = r /\ loop'.all = r.with /\ loop' # nil
  BY <1>8 DEF nil
<1> HIDE DEF t, r
<1>10. One(loop') = 1
  BY <1>9 DEF One
<1>11. Made' = Made
  BY <1>1, <1>3, <1>4, <1>10 DEF Made
<1>12. TodoOK' /\ SlicesOK' /\ CurOK' /\ RecsOK'
  BY <1>1, <1>2, <1>11 DEF TodoOK, Sent, SlicesOK, CurOK, RecsOK
<1>13. QueueOK'
  <2> SUFFICES ASSUME NEW i \in 1 .. Len(queue')
               PROVE  /\ Carries(queue'[i], Tasks[Len(recs) + 1 + i], env.limit)
                      /\ SettledAll(slices, Tasks[Len(recs) + 1 + i], env.limit)
    BY <1>1, <1>2, <1>10 DEF QueueOK
  <2>1. i + 1 \in 1 .. Len(queue) /\ queue'[i] = queue[i + 1] /\ Len(recs) + One(loop) + (i + 1) = Len(recs) + 1 + i
    BY <1>3, <1>4
  <2> QED
    BY <2>1 DEF QueueOK
<1>14. Gathers(r.with, t.m, 0, env.limit)
  <2>1. r.with = t.m.with /\ IsSequence(t.m.with)
    BY <1>6, <1>7 DEF Carries, MeantOK, NewFields
  <2>2. \A p \in 1 .. 0 : FALSE
    OBVIOUS
  <2> QED
    BY <1>7, <2>1, <2>2 DEF Gathers
<1>15. LoopOK'
  <2>1. 1 \in 1 .. Len(t.m.fields) + 1 /\ 1 - 1 = 0
    BY <1>7
  <2>2. /\ loop' = [rec |-> loop'.rec, all |-> loop'.all, at |-> loop'.at]
        /\ Carries(loop'.rec, t, env.limit) /\ SettledAll(slices', t, env.limit)
        /\ loop'.at \in 1 .. Len(t.m.fields) + 1
        /\ Gathers(loop'.all, t.m, loop'.at - 1, env.limit)
    BY <1>1, <1>6, <1>8, <1>9, <1>14, <2>1
  <2> QED
    BY <1>1, <1>2, <2>2 DEF LoopOK, t
<1> QED
  BY <1>12, <1>13, <1>15

\* prep copies a field (logrec.go:60-61), which enqueue has settled.
LEMMA FlowPrepCopy ==
  ASSUME PipeOK, FlowOK, DOMAIN slices # {}, PrepCopy
  PROVE  FlowOK'
<1> USE DEF FlowOK
<1> DEFINE t == Tasks[Len(recs) + 1]
           f == slices[loop.rec.slice][loop.at]
<1>1. /\ env' = env /\ todo' = todo /\ slices' = slices /\ cur' = cur /\ queue' = queue /\ recs' = recs
      /\ loop # nil /\ loop.at <= Len(slices[loop.rec.slice])
      /\ loop' = [loop EXCEPT !.all = Append(loop.all, f), !.at = loop.at + 1]
  BY DEF PrepCopy
<1>2. AllMeant' = AllMeant /\ Wanted' = Wanted /\ Tasks' = Tasks /\ SortsInPlace' = SortsInPlace
  BY <1>1, SameTasks
<1>3. /\ Len(recs) + 1 \in DOMAIN Tasks /\ Len(t.m.fields) \in Nat /\ Len(t.m.with) \in Nat /\ One(loop) = 1
  BY <1>1, TaskPlaces
<1>4. /\ loop = [rec |-> loop.rec, all |-> loop.all, at |-> loop.at]
      /\ Carries(loop.rec, t, env.limit) /\ SettledAll(slices, t, env.limit)
      /\ loop.at \in 1 .. Len(t.m.fields) + 1
      /\ Gathers(loop.all, t.m, loop.at - 1, env.limit)
  BY <1>1 DEF LoopOK
<1>5. Holds(slices, t, env.limit)
  BY <1>3 DEF SlicesOK
<1>6. loop.at \in 1 .. Len(t.m.fields) /\ f = slices[t.slice][loop.at]
  BY <1>1, <1>3, <1>4, <1>5 DEF Holds, Carries
<1>7. Settled(f, t.m.fields[loop.at], env.limit)
  BY <1>4, <1>6 DEF SettledAll
<1>8. loop' = [rec |-> loop.rec, all |-> Append(loop.all, f), at |-> loop.at + 1]
  BY <1>1, <1>4
<1>9. loop'.rec = loop.rec /\ loop'.all = Append(loop.all, f) /\ loop'.at = loop.at + 1
  BY <1>8
<1>10. loop' # nil
  BY <1>6, <1>9 DEF nil
<1> HIDE DEF f, t
<1>11. One(loop') = One(loop)
  BY <1>3, <1>10 DEF One
<1>12. Made' = Made
  BY <1>1, <1>11 DEF Made
<1>13. TodoOK' /\ SlicesOK' /\ CurOK' /\ QueueOK' /\ RecsOK'
  BY <1>1, <1>2, <1>11, <1>12 DEF TodoOK, Sent, SlicesOK, CurOK, QueueOK, RecsOK
<1>14. Gathers(Append(loop.all, f), t.m, loop.at, env.limit)
  <2> DEFINE w == Len(t.m.with)
             n == loop.at - 1
             all == loop.all
  <2>1. /\ IsSequence(all) /\ Len(all) = w + n
        /\ \A p \in 1 .. w : all[p] = t.m.with[p]
        /\ \A p \in 1 .. n : Settled(all[w + p], t.m.fields[p], env.limit)
    BY <1>4 DEF Gathers
  <2>2. /\ IsSequence(Append(all, f)) /\ Len(Append(all, f)) = Len(all) + 1
        /\ \A i \in 1 .. Len(all) : Append(all, f)[i] = all[i]
        /\ Append(all, f)[Len(all) + 1] = f
    BY <2>1, AppendSequence
  <2>3. w \in Nat /\ n \in Nat /\ loop.at = n + 1
    BY <1>3, <1>6
  <2> HIDE DEF w, n, all
  <2>4. Len(Append(all, f)) = w + loop.at
    BY <2>1, <2>2, <2>3
  <2>5. \A p \in 1 .. w : Append(all, f)[p] = t.m.with[p]
    BY <2>1, <2>2, <2>3
  <2>6. ASSUME NEW p \in 1 .. loop.at
        PROVE  Settled(Append(all, f)[w + p], t.m.fields[p], env.limit)
    <3>1. CASE p = loop.at
      BY <1>7, <2>1, <2>2, <2>3, <3>1
    <3>2. CASE p # loop.at
      <4>1. p \in 1 .. n /\ w + p \in 1 .. Len(all)
        BY <2>1, <2>3, <3>2
      <4> QED
        BY <2>1, <2>2, <4>1
    <3> QED
      BY <3>1, <3>2
  <2> QED
    BY <2>2, <2>4, <2>5, <2>6 DEF Gathers, w, all
<1>15. LoopOK'
  <2>1. loop'.at \in 1 .. Len(t.m.fields) + 1 /\ loop'.at - 1 = loop.at
    <3>1. \A b, a \in Int : a \in 1 .. b => a + 1 \in 1 .. b + 1 /\ (a + 1) - 1 = a
      OBVIOUS
    <3>2. Len(t.m.fields) \in Int /\ loop.at \in Int
      BY <1>3, <1>6
    <3>3. loop.at \in 1 .. Len(t.m.fields) /\ loop'.at = loop.at + 1
      BY <1>6, <1>9
    <3> HIDE DEF t
    <3> QED
      BY <3>1, <3>2, <3>3
  <2>2. /\ loop' = [rec |-> loop'.rec, all |-> loop'.all, at |-> loop'.at]
        /\ Carries(loop'.rec, t, env.limit) /\ SettledAll(slices', t, env.limit)
        /\ loop'.at \in 1 .. Len(t.m.fields) + 1
        /\ Gathers(loop'.all, t.m, loop'.at - 1, env.limit)
    BY <1>1, <1>4, <1>8, <1>9, <1>14, <2>1
  <2> QED
    BY <1>1, <1>2, <2>2 DEF LoopOK, t
<1> QED
  BY <1>13, <1>15

\* The end of prep, and fanout (logrec.go:63-88, logr.go:443-465).
LEMMA FlowFanout ==
  ASSUME PipeOK, FlowOK, DOMAIN slices # {}, Fanout
  PROVE  FlowOK'
<1> USE DEF FlowOK
<1> DEFINE t == Tasks[Len(recs) + 1]
           frames == Frames(loop.rec)
           r == [level |-> loop.rec.level, msg |-> loop.rec.msg, fieldsAll |-> loop.all,
                 frames |-> frames, caller |-> CalcCaller(frames)]
<1>1. /\ env' = env /\ todo' = todo /\ slices' = slices /\ cur' = cur /\ queue' = queue
      /\ loop # nil /\ loop.at > Len(slices[loop.rec.slice]) /\ loop' = nil
      /\ recs' = Append(recs, r)
  BY DEF Fanout
<1>2. AllMeant' = AllMeant /\ Wanted' = Wanted /\ Tasks' = Tasks /\ SortsInPlace' = SortsInPlace
  BY <1>1, SameTasks
<1>3. /\ Len(recs) + 1 \in DOMAIN Tasks /\ Len(t.m.fields) \in Nat /\ Len(t.m.with) \in Nat /\ One(loop) = 1
  BY <1>1, TaskPlaces
<1>4. /\ Carries(loop.rec, t, env.limit)
      /\ loop.at \in 1 .. Len(t.m.fields) + 1
      /\ Gathers(loop.all, t.m, loop.at - 1, env.limit)
  BY <1>1 DEF LoopOK
<1>5. Holds(slices, t, env.limit)
  BY <1>3 DEF SlicesOK
<1>6. loop.at - 1 = Len(t.m.fields)
  <2>1. loop.rec.slice = t.slice /\ Len(slices[t.slice]) = Len(t.m.fields)
    BY <1>4, <1>5 DEF Holds, Carries
  <2>2. loop.at > Len(t.m.fields)
    BY <1>1, <2>1
  <2> HIDE DEF t
  <2> QED
    BY <1>3, <1>4, <2>2
<1>7. IsSequence(recs) /\ Len(recs) \in Nat /\ Len(queue) \in Nat /\ One(cur) \in 0 .. 1
  BY OneBounds DEF PipeOK, IsSequence
<1>8. frames = FramesOf(t, env.frames)
  BY <1>4 DEF Frames, FramesOf, Carries
<1> HIDE DEF frames
<1>9. Prepared(r, t, env.frames, env.limit) /\ Gathers(r.fieldsAll, t.m, Len(t.m.fields), env.limit)
  BY <1>4, <1>6, <1>8 DEF Prepared, Carries, Gathers
<1> HIDE DEF r, t
<1>10. /\ Len(recs') = Len(recs) + 1 /\ recs'[Len(recs) + 1] = r
       /\ \A k \in 1 .. Len(recs) : recs'[k] = recs[k]
  BY <1>1, <1>7, AppendSequence
<1>11. One(loop') = 0 /\ queue' = queue /\ cur' = cur
  BY <1>1 DEF One
<1>12. Made' = Made
  BY <1>3, <1>7, <1>10, <1>11 DEF Made
<1>13. TodoOK' /\ SlicesOK' /\ CurOK' /\ LoopOK'
  BY <1>1, <1>2, <1>12 DEF TodoOK, Sent, SlicesOK, CurOK, LoopOK
<1>14. QueueOK'
  <2> SUFFICES ASSUME NEW i \in 1 .. Len(queue)
               PROVE  /\ Carries(queue[i], Tasks[Len(recs') + 0 + i], env.limit)
                      /\ SettledAll(slices, Tasks[Len(recs') + 0 + i], env.limit)
    BY <1>1, <1>2, <1>11 DEF QueueOK
  <2>1. Len(recs') + 0 + i = Len(recs) + One(loop) + i
    BY <1>3, <1>7, <1>10
  <2> QED
    BY <2>1 DEF QueueOK
<1>15. RecsOK'
  <2> SUFFICES ASSUME NEW k \in 1 .. Len(recs')
               PROVE  /\ Prepared(recs'[k], Tasks[k], env.frames, env.limit)
                      /\ ~ SortsInPlace => Gathers(recs'[k].fieldsAll, Tasks[k].m, Len(Tasks[k].m.fields), env.limit)
    BY <1>1, <1>2 DEF RecsOK
  <2>1. CASE k = Len(recs) + 1
    BY <1>9, <1>10, <2>1 DEF t
  <2>2. CASE k # Len(recs) + 1
    <3>1. k \in 1 .. Len(recs)
      BY <1>7, <1>10, <2>2
    <3> QED
      BY <1>10, <3>1 DEF RecsOK
  <2> QED
    BY <2>1, <2>2
<1> QED
  BY <1>13, <1>14, <1>15

\* A formatter that has its fields sorted in place (json.go:143-145) changes their order, or
\* loses one to another formatter that does the same, and changes nothing else.
LEMMA FlowSort ==
  ASSUME PipeOK, HostsOK, FlowOK, DOMAIN slices # {}, NEW h \in Hosts, SortStep(h), SortsInPlace
  PROVE  FlowOK'
<1> USE DEF FlowOK
<1> DEFINE n == hosts[h].rec
<1>1. env' = env /\ todo' = todo /\ slices' = slices /\ cur' = cur /\ queue' = queue /\ loop' = loop
  BY DEF SortStep
<1>2. AllMeant' = AllMeant /\ Wanted' = Wanted /\ Tasks' = Tasks /\ SortsInPlace' = SortsInPlace
  BY <1>1, SameTasks
<1>3. IsSequence(recs) /\ Len(recs) \in Nat /\ DOMAIN recs = 1 .. Len(recs)
  BY DEF PipeOK, IsSequence
<1>4. IsSequence(recs') /\ Len(recs') = Len(recs)
  BY <1>3, HostKeepsRecs DEF HostLoop
<1>5. n \in 1 .. Len(recs)
  BY <1>3 DEF HostsOK, HostOK, SortStep
<1>6. \/ recs' = recs
      \/ \E i, x : recs' = [recs EXCEPT ![n].fieldsAll[i] = x]
  BY DEF SortStep
<1>7. ASSUME NEW i, NEW x, recs' = [recs EXCEPT ![n].fieldsAll[i] = x]
      PROVE  RecsOK'
  <2> DEFINE r == recs[n]
             all == r.fieldsAll
             f == [all EXCEPT ![i] = x]
             new == [r EXCEPT !.fieldsAll = f]
  <2>1. recs'[n] = new /\ \A k \in 1 .. Len(recs) : k # n => recs'[k] = recs[k]
    BY <1>3, <1>5, <1>7
  <2>2. Prepared(r, Tasks[n], env.frames, env.limit)
    BY <1>5 DEF RecsOK
  <2>3. IsSequence(f)
    <3>1. IsSequence(all) /\ Len(all) \in Nat /\ DOMAIN all = 1 .. Len(all)
      BY <2>2 DEF Prepared, IsSequence
    <3> HIDE DEF all
    <3>2. DOMAIN f = 1 .. Len(all) /\ f = [k \in 1 .. Len(all) |-> f[k]]
      BY <3>1
    <3> QED
      BY <3>1, <3>2, SequenceNew
  <2> HIDE DEF r, f
  <2>4. Prepared(new, Tasks[n], env.frames, env.limit)
    BY <2>2, <2>3 DEF Prepared
  <2>5. \A k \in 1 .. Len(recs) : Prepared(recs'[k], Tasks[k], env.frames, env.limit)
    BY <2>1, <2>4 DEF RecsOK
  <2> QED
    BY <1>1, <1>2, <1>4, <2>5 DEF RecsOK
<1>8. RecsOK'
  <2>1. CASE recs' = recs
    BY <1>1, <1>2, <2>1 DEF RecsOK
  <2> QED
    BY <1>6, <1>7, <2>1
<1>9. Made' = Made
  BY <1>1, <1>4 DEF Made
<1>10. TodoOK' /\ SlicesOK' /\ CurOK' /\ QueueOK' /\ LoopOK'
  BY <1>1, <1>2, <1>4, <1>9 DEF TodoOK, Sent, SlicesOK, CurOK, QueueOK, LoopOK
<1> QED
  BY <1>8, <1>10

\* A step that touches none of it.
LEMMA FlowSame ==
  ASSUME FlowOK, env' = env, todo' = todo, slices' = slices, cur' = cur, queue' = queue, loop' = loop, recs' = recs
  PROVE  FlowOK'
<1>1. AllMeant' = AllMeant /\ Wanted' = Wanted /\ Tasks' = Tasks /\ SortsInPlace' = SortsInPlace
  BY SameTasks
<1>2. Made' = Made /\ Sent' = Sent
  BY <1>1 DEF Made, Sent
<1>3. CASE DOMAIN slices = {}
  BY <1>3 DEF FlowOK
<1>4. CASE DOMAIN slices # {}
  <2>1. TodoOK' /\ SlicesOK'
    BY <1>1, <1>2, <1>4 DEF FlowOK, TodoOK, SlicesOK
  <2>2. CurOK' /\ QueueOK'
    BY <1>1, <1>2, <1>4 DEF FlowOK, CurOK, QueueOK
  <2>3. LoopOK' /\ RecsOK'
    BY <1>1, <1>2, <1>4 DEF FlowOK, LoopOK, RecsOK
  <2> QED
    BY <2>1, <2>2, <2>3 DEF FlowOK
<1> QED
  BY <1>3, <1>4

-----------------------------------------------------------------------------
(***************************************************************************)
(* What a host writes.                                                     *)
(***************************************************************************)

\* The record a formatter is given, with some fields.
PreparedOf(t, F, frames, limit) ==
    [level |-> t.m.level, msg |-> LimitString(t.m.msg, limit), fieldsAll |-> F,
     frames |-> FramesOf(t, frames), caller |-> CalcCaller(FramesOf(t, frames))]
Given(host, t, F, frames, limit) ==
    IF host.retimes THEN WithTime(PreparedOf(t, F, frames, limit)) ELSE PreparedOf(t, F, frames, limit)

\* A line shows a record and nothing else.
LineOf(host, t, F, frames, limit) ==
    FormatEntries(host.fm, Given(host, t, F, frames, limit), host.on[t.m.level] = "stack", limit)
Written(host, t, entries, frames, limit, moved) ==
    \E F : /\ IsSequence(F)
           /\ ~ moved => Gathers(F, t.m, Len(t.m.fields), limit)
           /\ entries = LineOf(host, t, F, frames, limit)

\* A host gets the records that its filter lets through, and what it is about to write
\* or has written are lines of them.
QueuedOK(h) ==
    /\ \A i \in 1 .. Len(hosts[h].in) : Enabled(h, Tasks[hosts[h].in[i]].m.level)
    /\ hosts[h].rec # 0 => Enabled(h, Tasks[hosts[h].rec].m.level)
    /\ hosts[h].pc = "sort" => SortsInPlace
    /\ hosts[h].pc \in {"select", "sort", "format"} => hosts[h].buf = <<>>
    /\ hosts[h].pc = "write" =>
         Written(env.hosts[h], Tasks[hosts[h].rec], hosts[h].buf, env.frames, env.limit, SortsInPlace)
OutOK(h) ==
    /\ IsSequence(out[h])
    /\ \A i \in 1 .. Len(out[h]) :
         /\ out[h][i].rec \in DOMAIN Tasks
         /\ Enabled(h, Tasks[out[h][i].rec].m.level)
         /\ Written(env.hosts[h], Tasks[out[h][i].rec], out[h][i].entries, env.frames, env.limit, SortsInPlace)
LinesOK == out = [h \in Hosts |-> out[h]] /\ \A h \in Hosts : QueuedOK(h) /\ OutOK(h)

\* A line is a sequence of entries.
LEMMA OptionalSequence ==
  ASSUME NEW b \in BOOLEAN, NEW e
  PROVE  IsSequence(Optional(b, e))
  BY EmptySequence, OneSequence DEF Optional

\* What a sorter returns (json.go:143-145) is a sequence as long as what it was given.
LEMMA SortedSequence ==
  ASSUME NEW s, IsSequence(s)
  PROVE  IsSequence(Sorted(s)) /\ Len(Sorted(s)) = Len(s)
<1>1. DOMAIN s = 1 .. Len(s) /\ Len(s) \in Nat
  BY DEF IsSequence
<1>2. DOMAIN Sorted(s) = 1 .. Len(s) /\ Sorted(s) = [k \in 1 .. Len(s) |-> Sorted(s)[k]]
  BY <1>1 DEF Sorted
<1> QED
  BY <1>1, <1>2, SequenceNew

-----------------------------------------------------------------------------
(***************************************************************************)
(* What the formatters put out, by parts: json.go, gelf.go and plain.go    *)
(* build a line of pieces, and Parts finds each piece again.               *)
(***************************************************************************)

\* What maps the fields of a record is a sequence.
LEMMA MappedFields ==
  ASSUME NEW s, IsSequence(s), NEW f, DOMAIN f = DOMAIN s, f = [i \in DOMAIN s |-> f[i]]
  PROVE  IsSequence(f) /\ Len(f) = Len(s) /\ DOMAIN s = 1 .. Len(s) /\ DOMAIN f = 1 .. Len(s)
  BY MapSequence DEF IsSequence

\* The fields that JSON, GELF and the others put out, in their order.
JSONFields(fm, F) == IF fm.sorter = "copy" THEN Sorted(F) ELSE F
JSONEntries(fm, F, limit) ==
    IF "fields" \in fm.disabled THEN <<>>
    ELSE IF KeyName(fm, "group") # NoName
      THEN [i \in DOMAIN JSONFields(fm, F) |-> [EncodeField(JSONFields(fm, F)[i], limit) EXCEPT !.in = "group"]]
    ELSE [i \in DOMAIN JSONFields(fm, F) |-> EncodeField(PrefixCollision(fm, JSONFields(fm, F)[i]), limit)]
GelfFields(fm, rec) ==
    LET all == Optional(fm.caller, CallerField(Key(1, "caller"), rec)) \o rec.fieldsAll
    IN  IF fm.sorter = "none" THEN all ELSE Sorted(all)
GelfEntries(fm, rec, limit) ==
    [i \in DOMAIN GelfFields(fm, rec) |-> EncodeField([GelfFields(fm, rec)[i] EXCEPT !.key = GelfKey(@)], limit)]

\* An entry that is optional, and one that a field becomes.
PartIs(s, q) == IsSequence(s) /\ \A i \in 1 .. Len(s) : s[i].part = q

\* An entry that a formatter may leave out is of its part.
LEMMA OptionalPart ==
  ASSUME NEW b \in BOOLEAN, NEW part, NEW key, NEW text
  PROVE  PartIs(Optional(b, Entry(part, key, text)), part)
<1> DEFINE e == Entry(part, key, text)
<1>1. e.part = part
  BY DEF Entry
<1> HIDE DEF e
<1>2. IsSequence(<<>>) /\ Len(<<>>) = 0 /\ IsSequence(<<e>>) /\ Len(<<e>>) = 1 /\ <<e>>[1] = e
  BY EmptySequence, OneSequence
<1>3. \A i \in 1 .. 0 : FALSE
  OBVIOUS
<1>4. \A i \in 1 .. 1 : i = 1
  OBVIOUS
<1> QED
  BY <1>1, <1>2, <1>3, <1>4 DEF Optional, PartIs, e

\* An encoded field.
LEMMA Encoded ==
  ASSUME NEW f, NEW limit
  PROVE  /\ EncodeField(f, limit) = [part |-> "field", key |-> f.key, in |-> "top", text |-> EncodeField(f, limit).text]
         /\ EncodeField(f, limit).text =
              IF OwnMarshaller(f) THEN f.val.text
              ELSE IF f.type = "Invalid" \/ (f.type \in {"Struct", "Array", "Map", "Unknown"} /\ "marshal" \in f.val.bad)
                THEN EncodingError
              ELSE IF f.type = "Float32" THEN f.val.text ELSE ValueText(f, limit)
  BY DEF EncodeField, FieldEntry, Entry

\* The field entries of a JSON line (json.go:141-158) are all of their part.
LEMMA JSONEntriesPart ==
  ASSUME NEW fm, NEW F, IsSequence(F), NEW limit
  PROVE  PartIs(JSONEntries(fm, F, limit), "field")
<1> DEFINE G == JSONFields(fm, F)
           a == [i \in DOMAIN G |-> [EncodeField(G[i], limit) EXCEPT !.in = "group"]]
           b == [i \in DOMAIN G |-> EncodeField(PrefixCollision(fm, G[i]), limit)]
<1>1. IsSequence(G)
  BY SortedSequence DEF JSONFields
<1> HIDE DEF G
<1>2. IsSequence(a) /\ Len(a) = Len(G) /\ IsSequence(b) /\ Len(b) = Len(G) /\ DOMAIN G = 1 .. Len(G)
  BY <1>1, MappedFields
<1>3. \A i \in 1 .. Len(G) : a[i].part = "field" /\ b[i].part = "field"
  <2> SUFFICES ASSUME NEW i \in 1 .. Len(G)
               PROVE  a[i].part = "field" /\ b[i].part = "field"
    OBVIOUS
  <2>1. a[i] = [EncodeField(G[i], limit) EXCEPT !.in = "group"] /\ b[i] = EncodeField(PrefixCollision(fm, G[i]), limit)
    BY <1>2
  <2> DEFINE e == EncodeField(G[i], limit)
  <2>2. e = [part |-> "field", key |-> G[i].key, in |-> "top", text |-> e.text]
    BY Encoded
  <2> HIDE DEF e
  <2>3. [e EXCEPT !.in = "group"].part = "field"
    BY <2>2
  <2>4. EncodeField(PrefixCollision(fm, G[i]), limit).part = "field"
    BY Encoded
  <2> QED
    BY <2>1, <2>3, <2>4 DEF e
<1>4. PartIs(a, "field") /\ PartIs(b, "field")
  BY <1>2, <1>3 DEF PartIs
<1>5. PartIs(<<>>, "field")
  <2>1. \A i \in 1 .. 0 : FALSE
    OBVIOUS
  <2> QED
    BY <2>1, EmptySequence DEF PartIs
<1>6. JSONEntries(fm, F, limit) = <<>> \/ JSONEntries(fm, F, limit) = a \/ JSONEntries(fm, F, limit) = b
  BY DEF JSONEntries, G
<1> HIDE DEF a, b
<1> QED
  BY <1>4, <1>5, <1>6

\* The field entries of a GELF line (gelf.go:102-126), the caller among them, one for each
\* field.
LEMMA GelfEntriesPart ==
  ASSUME NEW fm, fm.caller \in BOOLEAN, NEW rec, IsSequence(rec.fieldsAll), NEW limit
  PROVE  /\ PartIs(GelfEntries(fm, rec, limit), "field") /\ IsSequence(GelfFields(fm, rec))
         /\ Len(GelfEntries(fm, rec, limit)) = Len(GelfFields(fm, rec))
<1> DEFINE G == GelfFields(fm, rec)
           a == GelfEntries(fm, rec, limit)
<1>1. IsSequence(G)
  <2>1. IsSequence(Optional(fm.caller, CallerField(Key(1, "caller"), rec)))
    BY OptionalSequence
  <2>2. IsSequence(Optional(fm.caller, CallerField(Key(1, "caller"), rec)) \o rec.fieldsAll)
    BY <2>1, ConcatSequence
  <2> QED
    BY <2>2, SortedSequence DEF GelfFields
<1>2. a = [i \in DOMAIN G |-> EncodeField([G[i] EXCEPT !.key = GelfKey(G[i].key)], limit)]
  BY DEF GelfEntries
<1> HIDE DEF G, a
<1>3. IsSequence(a) /\ Len(a) = Len(G) /\ DOMAIN G = 1 .. Len(G)
  BY <1>1, <1>2, MappedFields
<1>4. \A i \in 1 .. Len(G) : a[i].part = "field"
  <2> SUFFICES ASSUME NEW i \in 1 .. Len(G)
               PROVE  a[i].part = "field"
    OBVIOUS
  <2> DEFINE f == [G[i] EXCEPT !.key = GelfKey(G[i].key)]
  <2>1. a[i] = EncodeField(f, limit)
    BY <1>2, <1>3
  <2> HIDE DEF f
  <2> QED
    BY <2>1, Encoded
<1> QED
  BY <1>1, <1>3, <1>4 DEF PartIs, G, a

\* The field entries of a plain line (plain.go:108-127), the caller among them.
LEMMA PlainEntriesPart ==
  ASSUME NEW fm, fm.caller \in BOOLEAN, NEW rec, IsSequence(rec.fieldsAll), NEW limit
  PROVE  /\ PartIs(WriteFields(PlainFields(fm, rec), limit), "field")
         /\ IsSequence(PlainFields(fm, rec)) /\ Len(WriteFields(PlainFields(fm, rec), limit)) = Len(PlainFields(fm, rec))
<1> DEFINE G == PlainFields(fm, rec)
           a == WriteFields(G, limit)
           c == CallerField(Key(0, "caller"), rec)
           b == fm.kind = "plain" /\ fm.caller
<1>1. IsSequence(G)
  <2>1. IsSequence(Optional(b, c))
    BY OptionalSequence
  <2>2. IsSequence(IF "fields" \in fm.disabled THEN <<>> ELSE rec.fieldsAll)
    BY EmptySequence
  <2> HIDE DEF c
  <2> QED
    BY <2>1, <2>2, ConcatSequence DEF PlainFields, c
<1>2. a = [i \in DOMAIN G |-> FieldEntry(G[i], ValueText(G[i], limit))]
  BY DEF WriteFields
<1> HIDE DEF G, a
<1>3. IsSequence(a) /\ Len(a) = Len(G) /\ DOMAIN G = 1 .. Len(G)
  BY <1>1, <1>2, MappedFields
<1>4. \A i \in 1 .. Len(G) : a[i].part = "field"
  BY <1>2, <1>3 DEF FieldEntry, Entry
<1> QED
  BY <1>1, <1>3, <1>4 DEF PartIs, G, a

\* The parts of entries that are all of one kind.
LEMMA PartsOfKind ==
  ASSUME NEW s, NEW q, PartIs(s, q), NEW p
  PROVE  Parts(s, p) = IF p = q THEN s ELSE <<>>
<1>1. IsSequence(s) /\ Len(s) \in Nat /\ DOMAIN s = 1 .. Len(s) /\ \A i \in 1 .. Len(s) : s[i].part = q
  BY DEF PartIs, IsSequence
<1> DEFINE S == {i \in DOMAIN s : s[i].part = p}
<1>2. Parts(s, p) = ElementsAt(s, S)
  BY DEF Parts
<1>3. CASE p # q
  <2>1. S = {}
    BY <1>1, <1>3
  <2> HIDE DEF S
  <2> QED
    BY <1>2, <1>3, <2>1, ElementsEmpty
<1>4. CASE p = q
  <2>1. S = 1 .. Len(s)
    BY <1>1, <1>4
  <2> HIDE DEF S
  <2> DEFINE n == Len(s)
             id == [i \in 1 .. n |-> i]
  <2>2. S = {id[i] : i \in 1 .. n} /\ id \in [1 .. n -> Nat] /\ \A i, j \in 1 .. n : i < j => id[i] < id[j]
    BY <2>1
  <2> n \in Nat
    BY <1>1
  <2> HIDE DEF id, n
  <2>3. /\ IsFiniteSet(S) /\ Cardinality(S) = n
        /\ DOMAIN InOrder(S) = 1 .. n
        /\ \A j \in 1 .. n : InOrder(S)[j] = id[j]
    BY <2>2, InOrderUnique
  <2>4. IsSequence(ElementsAt(s, S)) /\ Len(ElementsAt(s, S)) = n
    BY <2>3, ElementsSequence
  <2>5. \A j \in 1 .. n : ElementsAt(s, S)[j] = s[j]
    BY <2>3 DEF ElementsAt, id
  <2>6. ElementsAt(s, S) = s
    BY <1>1, <2>4, <2>5, SequenceEqual DEF n
  <2> QED
    BY <1>2, <1>4, <2>6
<1> QED
  BY <1>3, <1>4

\* The parts of two lines put together.
LEMMA PartsConcat ==
  ASSUME NEW s, IsSequence(s), NEW t, IsSequence(t), NEW p
  PROVE  Parts(s \o t, p) = Parts(s, p) \o Parts(t, p)
<1> DEFINE S == {i \in DOMAIN s : s[i].part = p}
           T == {i \in DOMAIN t : t[i].part = p}
           U == {i \in DOMAIN (s \o t) : (s \o t)[i].part = p}
<1>1. /\ DOMAIN s = 1 .. Len(s) /\ DOMAIN t = 1 .. Len(t) /\ Len(s) \in Nat /\ Len(t) \in Nat
  BY DEF IsSequence
<1>2. /\ IsSequence(s \o t) /\ Len(s \o t) = Len(s) + Len(t)
      /\ \A i \in 1 .. Len(s) : (s \o t)[i] = s[i]
      /\ \A i \in 1 .. Len(t) : (s \o t)[Len(s) + i] = t[i]
  BY ConcatSequence
<1> DEFINE w == s \o t
           a == Len(s)
           b == Len(t)
<1>3. DOMAIN w = 1 .. a + b
  BY <1>2 DEF IsSequence
<1> HIDE DEF w, a, b
<1>4. /\ DOMAIN s = 1 .. a /\ DOMAIN t = 1 .. b /\ a \in Nat /\ b \in Nat
      /\ (\A i \in 1 .. a : w[i] = s[i]) /\ \A i \in 1 .. b : w[a + i] = t[i]
  BY <1>1, <1>2 DEF w, a, b
<1>5. {i \in DOMAIN w : w[i].part = p} = S \cup {a + i : i \in T}
  <2>1. ASSUME NEW i \in 1 .. a + b, w[i].part = p
        PROVE  i \in S \/ \E j \in T : i = a + j
    <3>1. CASE i \in 1 .. a
      BY <1>4, <2>1, <3>1
    <3>2. CASE i \notin 1 .. a
      <4>1. i - a \in 1 .. b /\ a + (i - a) = i
        BY <1>4, <3>2
      <4>2. i - a \in T
        BY <1>4, <2>1, <4>1
      <4> QED
        BY <4>1, <4>2
    <3> QED
      BY <3>1, <3>2
  <2>2. ASSUME NEW i \in S
        PROVE  i \in 1 .. a + b /\ w[i].part = p
    BY <1>4
  <2>3. ASSUME NEW j \in T
        PROVE  a + j \in 1 .. a + b /\ w[a + j].part = p
    BY <1>4
  <2> HIDE DEF S, T
  <2> QED
    BY <1>3, <2>1, <2>2, <2>3
<1>6. U = S \cup Behind(Len(s), T)
  BY <1>5 DEF w, a, Behind
<1>7. S \in SUBSET (1 .. Len(s)) /\ T \in SUBSET (1 .. Len(t))
  BY <1>1
<1>8. Parts(s \o t, p) = ElementsAt(s \o t, U) /\ Parts(s, p) = ElementsAt(s, S) /\ Parts(t, p) = ElementsAt(t, T)
  BY DEF Parts
<1> HIDE DEF S, T, U
<1>9. ElementsAt(s \o t, S \cup Behind(Len(s), T)) = ElementsAt(s, S) \o ElementsAt(t, T)
  <2>1. Places(s, t, S, T)
    BY <1>7 DEF Places
  <2>2. Joined(s, t, S, T)
    BY <2>1, ElementsConcat
  <2> QED
    BY <2>2 DEF Joined
<1> QED
  BY <1>6, <1>8, <1>9

\* The empty sequence adds nothing.
LEMMA EmptyConcat ==
  ASSUME NEW s, IsSequence(s)
  PROVE  <<>> \o s = s /\ s \o <<>> = s
<1>1. Len(s) \in Nat
  BY DEF IsSequence
<1>2. IsSequence(<<>>) /\ Len(<<>>) = 0
  BY EmptySequence
<1>3. <<>> \o s = s
  <2> DEFINE t == <<>> \o s
  <2>1. IsSequence(t) /\ Len(t) = 0 + Len(s) /\ \A i \in 1 .. Len(s) : t[0 + i] = s[i]
    BY <1>2, ConcatSequence
  <2> HIDE DEF t
  <2>2. \A i \in 1 .. Len(s) : 0 + i = i
    OBVIOUS
  <2>3. t = s
    BY <1>1, <2>1, <2>2, SequenceEqual
  <2> QED
    BY <2>3 DEF t
<1>4. s \o <<>> = s
  <2> DEFINE t == s \o <<>>
  <2>1. IsSequence(t) /\ Len(t) = Len(s) + 0 /\ \A i \in 1 .. Len(s) : t[i] = s[i]
    BY <1>2, ConcatSequence
  <2> HIDE DEF t
  <2>2. t = s
    BY <1>1, <2>1, SequenceEqual
  <2> QED
    BY <2>2 DEF t
<1> QED
  BY <1>3, <1>4

\* The parts of a line with some more entries of one kind.
LEMMA PartsNext ==
  ASSUME NEW s, IsSequence(s), NEW t, NEW q, PartIs(t, q), NEW p, p = q => Parts(s, p) = <<>>,
         IsSequence(Parts(s, p))
  PROVE  /\ IsSequence(s \o t)
         /\ Parts(s \o t, p) = IF p = q THEN t ELSE Parts(s, p)
         /\ IsSequence(Parts(s \o t, p))
<1>1. IsSequence(t)
  BY DEF PartIs
<1>2. Parts(s \o t, p) = Parts(s, p) \o Parts(t, p)
  BY <1>1, PartsConcat
<1>3. Parts(t, p) = IF p = q THEN t ELSE <<>>
  BY PartsOfKind
<1>4. Parts(s \o t, p) = IF p = q THEN t ELSE Parts(s, p)
  BY <1>1, <1>2, <1>3, EmptyConcat
<1> QED
  BY <1>1, <1>4, ConcatSequence

\* A line of seven kinds of entries.
SevenKinds(a1, a2, a3, a4, a5, a6, a7, q1, q2, q3, q4, q5, q6, q7) ==
    /\ PartIs(a1, q1) /\ PartIs(a2, q2) /\ PartIs(a3, q3) /\ PartIs(a4, q4) /\ PartIs(a5, q5) /\ PartIs(a6, q6)
    /\ PartIs(a7, q7)
    /\ q1 \notin {q2, q3, q4, q5, q6, q7} /\ q2 \notin {q3, q4, q5, q6, q7} /\ q3 \notin {q4, q5, q6, q7}
    /\ q4 \notin {q5, q6, q7} /\ q5 \notin {q6, q7} /\ q6 # q7
KindOf(p, a1, a2, a3, a4, a5, a6, a7, q1, q2, q3, q4, q5, q6, q7) ==
    IF p = q1 THEN a1 ELSE IF p = q2 THEN a2 ELSE IF p = q3 THEN a3 ELSE IF p = q4 THEN a4
    ELSE IF p = q5 THEN a5 ELSE IF p = q6 THEN a6 ELSE IF p = q7 THEN a7 ELSE <<>>

\* A line made of seven pieces of different parts has each of them as that part.
LEMMA PartsSeven ==
  ASSUME NEW a1, NEW a2, NEW a3, NEW a4, NEW a5, NEW a6, NEW a7,
         NEW q1, NEW q2, NEW q3, NEW q4, NEW q5, NEW q6, NEW q7,
         SevenKinds(a1, a2, a3, a4, a5, a6, a7, q1, q2, q3, q4, q5, q6, q7)
  PROVE  /\ IsSequence(a1 \o a2 \o a3 \o a4 \o a5 \o a6 \o a7)
         /\ \A p : Parts(a1 \o a2 \o a3 \o a4 \o a5 \o a6 \o a7, p)
                   = KindOf(p, a1, a2, a3, a4, a5, a6, a7, q1, q2, q3, q4, q5, q6, q7)
<1> PartIs(a1, q1) /\ PartIs(a2, q2) /\ PartIs(a3, q3) /\ PartIs(a4, q4) /\ PartIs(a5, q5) /\ PartIs(a6, q6) /\ PartIs(a7, q7)
  BY DEF SevenKinds
<1> /\ q1 # q2 /\ q1 # q3 /\ q1 # q4 /\ q1 # q5 /\ q1 # q6 /\ q1 # q7 /\ q2 # q3 /\ q2 # q4 /\ q2 # q5 /\ q2 # q6 /\ q2 # q7
    /\ q3 # q4 /\ q3 # q5 /\ q3 # q6 /\ q3 # q7 /\ q4 # q5 /\ q4 # q6 /\ q4 # q7 /\ q5 # q6 /\ q5 # q7 /\ q6 # q7
  BY DEF SevenKinds
<1> SUFFICES ASSUME NEW p
             PROVE  /\ IsSequence(a1 \o a2 \o a3 \o a4 \o a5 \o a6 \o a7)
                    /\ Parts(a1 \o a2 \o a3 \o a4 \o a5 \o a6 \o a7, p)
                         = KindOf(p, a1, a2, a3, a4, a5, a6, a7, q1, q2, q3, q4, q5, q6, q7)
  OBVIOUS
<1> DEFINE j2 == a1 \o a2
           j3 == j2 \o a3
           j4 == j3 \o a4
           j5 == j4 \o a5
           j6 == j5 \o a6
           j7 == j6 \o a7
<1>1. IsSequence(a1) /\ Parts(a1, p) = (IF p = q1 THEN a1 ELSE <<>>) /\ IsSequence(Parts(a1, p))
  <2>1. IsSequence(a1)
    BY DEF PartIs
  <2>2. Parts(a1, p) = IF p = q1 THEN a1 ELSE <<>>
    BY PartsOfKind
  <2> QED
    BY <2>1, <2>2, EmptySequence
<1>2. IsSequence(j2) /\ IsSequence(Parts(j2, p)) /\ Parts(j2, p) = IF p = q1 THEN a1 ELSE IF p = q2 THEN a2 ELSE <<>>
  <2>1. p = q2 => Parts(a1, p) = <<>>
    BY <1>1
  <2>2. IsSequence(j2) /\ Parts(j2, p) = (IF p = q2 THEN a2 ELSE Parts(a1, p)) /\ IsSequence(Parts(j2, p))
    BY <1>1, <2>1, PartsNext
  <2> HIDE DEF j2
  <2> QED
    BY <1>1, <2>2
<1> HIDE DEF j2
<1>3. IsSequence(j3) /\ IsSequence(Parts(j3, p))
      /\ Parts(j3, p) = IF p = q1 THEN a1 ELSE IF p = q2 THEN a2 ELSE IF p = q3 THEN a3 ELSE <<>>
  <2>1. p = q3 => Parts(j2, p) = <<>>
    BY <1>2
  <2>2. IsSequence(j3) /\ Parts(j3, p) = (IF p = q3 THEN a3 ELSE Parts(j2, p)) /\ IsSequence(Parts(j3, p))
    BY <1>2, <2>1, PartsNext
  <2> HIDE DEF j3
  <2> QED
    BY <1>2, <2>2
<1> HIDE DEF j3
<1>4. IsSequence(j4) /\ IsSequence(Parts(j4, p))
      /\ Parts(j4, p) = IF p = q1 THEN a1 ELSE IF p = q2 THEN a2 ELSE IF p = q3 THEN a3 ELSE IF p = q4 THEN a4 ELSE <<>>
  <2>1. p = q4 => Parts(j3, p) = <<>>
    BY <1>3
  <2>2. IsSequence(j4) /\ Parts(j4, p) = (IF p = q4 THEN a4 ELSE Parts(j3, p)) /\ IsSequence(Parts(j4, p))
    BY <1>3, <2>1, PartsNext
  <2> HIDE DEF j4
  <2> QED
    BY <1>3, <2>2
<1> HIDE DEF j4
<1>5. IsSequence(j5) /\ IsSequence(Parts(j5, p))
      /\ Parts(j5, p) = IF p = q1 THEN a1 ELSE IF p = q2 THEN a2 ELSE IF p = q3 THEN a3 ELSE IF p = q4 THEN a4
                        ELSE IF p = q5 THEN a5 ELSE <<>>
  <2>1. p = q5 => Parts(j4, p) = <<>>
    BY <1>4
  <2>2. IsSequence(j5) /\ Parts(j5, p) = (IF p = q5 THEN a5 ELSE Parts(j4, p)) /\ IsSequence(Parts(j5, p))
    BY <1>4, <2>1, PartsNext
  <2> HIDE DEF j5
  <2> QED
    BY <1>4, <2>2
<1> HIDE DEF j5
<1>6. IsSequence(j6) /\ IsSequence(Parts(j6, p))
      /\ Parts(j6, p) = IF p = q1 THEN a1 ELSE IF p = q2 THEN a2 ELSE IF p = q3 THEN a3 ELSE IF p = q4 THEN a4
                        ELSE IF p = q5 THEN a5 ELSE IF p = q6 THEN a6 ELSE <<>>
  <2>1. p = q6 => Parts(j5, p) = <<>>
    BY <1>5
  <2>2. IsSequence(j6) /\ Parts(j6, p) = (IF p = q6 THEN a6 ELSE Parts(j5, p)) /\ IsSequence(Parts(j6, p))
    BY <1>5, <2>1, PartsNext
  <2> HIDE DEF j6
  <2> QED
    BY <1>5, <2>2
<1> HIDE DEF j6
<1>7. IsSequence(j7) /\ Parts(j7, p) = IF p = q1 THEN a1 ELSE IF p = q2 THEN a2 ELSE IF p = q3 THEN a3 ELSE IF p = q4 THEN a4
                        ELSE IF p = q5 THEN a5 ELSE IF p = q6 THEN a6 ELSE IF p = q7 THEN a7 ELSE <<>>
  <2>1. p = q7 => Parts(j6, p) = <<>>
    BY <1>6
  <2>2. IsSequence(j7) /\ Parts(j7, p) = (IF p = q7 THEN a7 ELSE Parts(j6, p)) /\ IsSequence(Parts(j7, p))
    BY <1>6, <2>1, PartsNext
  <2> HIDE DEF j7
  <2> QED
    BY <1>6, <2>2
<1> QED
  BY <1>7 DEF j2, j3, j4, j5, j6, j7, KindOf

\* Every step keeps the records of the call what is meant.
LEMMA FlowStep ==
  ASSUME RecordsInv, FlowOK, LinesOK, [RecordsNext]_recordsVars
  PROVE  FlowOK'
<1>1. PipeOK /\ HostsOK
  BY DEF RecordsInv
<1>2. ASSUME NEW h \in Hosts, HostLoop(h)
      PROVE  FlowOK'
  <2>1. CASE SortStep(h)
    <3>1. SortsInPlace
      BY <2>1 DEF SortStep, LinesOK, QueuedOK
    <3>2. CASE DOMAIN slices # {}
      BY <1>1, <2>1, <3>1, <3>2, FlowSort
    <3>3. CASE DOMAIN slices = {}
      BY <2>1, <3>3 DEF SortStep, FlowOK
    <3> QED
      BY <3>2, <3>3
  <2>2. CASE BorrowBuffer(h)
    BY <2>2, FlowSame DEF BorrowBuffer
  <2>3. CASE Format(h)
    BY <2>3, FlowSame DEF Format
  <2>4. CASE Write(h)
    BY <2>4, FlowSame DEF Write
  <2>5. CASE ReleaseBuffer(h)
    BY <2>5, FlowSame DEF ReleaseBuffer
  <2> QED
    BY <1>2, <2>1, <2>2, <2>3, <2>4, <2>5 DEF HostLoop
<1>3. CASE Call
  BY <1>1, <1>3, FlowCall
<1>4. CASE UNCHANGED recordsVars
  BY <1>4, FlowSame DEF recordsVars
<1>5. CASE Log \/ Limit \/ Enqueue \/ Prep \/ PrepCopy \/ Fanout
  <2>1. DOMAIN slices # {}
    <3>1. ASSUME DOMAIN slices = {}
          PROVE  FALSE
      <4>1. todo = <<>> /\ cur = nil /\ queue = <<>> /\ loop = nil
        BY <1>1, <3>1 DEF PipeOK
      <4> QED
        BY <1>5, <4>1 DEF Log, Limit, Enqueue, Prep, PrepCopy, Fanout
    <3> QED
      BY <3>1
  <2>2. CASE Log
    BY <1>1, <2>1, <2>2, FlowLog
  <2>3. CASE Limit
    BY <1>1, <2>1, <2>3, FlowLimit
  <2>4. CASE Enqueue
    BY <1>1, <2>1, <2>4, FlowEnqueue
  <2>5. CASE Prep
    BY <1>1, <2>1, <2>5, FlowPrep
  <2>6. CASE PrepCopy
    BY <1>1, <2>1, <2>6, FlowPrepCopy
  <2>7. CASE Fanout
    BY <1>1, <2>1, <2>7, FlowFanout
  <2> QED
    BY <1>5, <2>2, <2>3, <2>4, <2>5, <2>6, <2>7
<1> QED
  BY <1>2, <1>3, <1>4, <1>5 DEF RecordsNext, Idle

\* A JSON line (json.go:123-165) by its parts.
LEMMA JSONParts ==
  ASSUME NEW fm, fm.caller \in BOOLEAN, NEW rec, IsSequence(rec.fieldsAll), NEW stack, stack \in BOOLEAN, NEW limit, NEW p
  PROVE  /\ IsSequence(JSONFormat(fm, rec, stack, limit))
         /\ Parts(JSONFormat(fm, rec, stack, limit), p) =
              IF p = "timestamp" THEN Optional("timestamp" \notin fm.disabled, Entry("timestamp", KeyName(fm, "timestamp"), NoText))
              ELSE IF p = "level" THEN Optional("level" \notin fm.disabled, Entry("level", KeyName(fm, "level"), NoText))
              ELSE IF p = "msg" THEN Optional("msg" \notin fm.disabled, Entry("msg", KeyName(fm, "msg"), rec.msg))
              ELSE IF p = "caller" THEN Optional(fm.caller, Entry("caller", KeyName(fm, "caller"), rec.caller))
              ELSE IF p = "group" THEN Optional("fields" \notin fm.disabled /\ KeyName(fm, "group") # NoName, Entry("group", KeyName(fm, "group"), NoText))
              ELSE IF p = "field" THEN JSONEntries(fm, rec.fieldsAll, limit)
              ELSE IF p = "stacktrace"
                THEN Optional("stacktrace" \notin fm.disabled /\ HasStack(rec, stack), Entry("stacktrace", KeyName(fm, "stacktrace"), NoText))
              ELSE <<>>
<1> DEFINE a1 == Optional("timestamp" \notin fm.disabled, Entry("timestamp", KeyName(fm, "timestamp"), NoText))
           a2 == Optional("level" \notin fm.disabled, Entry("level", KeyName(fm, "level"), NoText))
           a3 == Optional("msg" \notin fm.disabled, Entry("msg", KeyName(fm, "msg"), rec.msg))
           a4 == Optional(fm.caller, Entry("caller", KeyName(fm, "caller"), rec.caller))
           a5 == Optional("fields" \notin fm.disabled /\ KeyName(fm, "group") # NoName, Entry("group", KeyName(fm, "group"), NoText))
           a6 == JSONEntries(fm, rec.fieldsAll, limit)
           a7 == Optional("stacktrace" \notin fm.disabled /\ HasStack(rec, stack), Entry("stacktrace", KeyName(fm, "stacktrace"), NoText))
<1>1. JSONFormat(fm, rec, stack, limit) = a1 \o a2 \o a3 \o a4 \o a5 \o a6 \o a7
  BY DEF JSONFormat, JSONEntries, JSONFields
<1>2. /\ PartIs(a1, "timestamp") /\ PartIs(a2, "level") /\ PartIs(a3, "msg") /\ PartIs(a4, "caller")
      /\ PartIs(a5, "group") /\ PartIs(a7, "stacktrace")
  BY OptionalPart
<1>3. PartIs(a6, "field")
  BY JSONEntriesPart
<1> HIDE DEF a1, a2, a3, a4, a5, a6, a7
<1>4. SevenKinds(a1, a2, a3, a4, a5, a6, a7, "timestamp", "level", "msg", "caller", "group", "field", "stacktrace")
  BY <1>2, <1>3 DEF SevenKinds
<1>5. /\ IsSequence(a1 \o a2 \o a3 \o a4 \o a5 \o a6 \o a7)
      /\ Parts(a1 \o a2 \o a3 \o a4 \o a5 \o a6 \o a7, p)
           = KindOf(p, a1, a2, a3, a4, a5, a6, a7, "timestamp", "level", "msg", "caller", "group", "field", "stacktrace")
  BY <1>4, PartsSeven
<1> QED
  BY <1>1, <1>5 DEF a1, a2, a3, a4, a5, a6, a7, KindOf

\* Two elements at the end, and three at the start.
OneByOne(s, d, e) == s \o <<d, e>> = s \o <<d>> \o <<e>>

\* Adding two elements at once is adding them one after the other.
LEMMA TwoBehind ==
  ASSUME NEW s, IsSequence(s), NEW d, NEW e
  PROVE  OneByOne(s, d, e)
<1>1. IsSequence(<<d, e>>) /\ Len(<<d, e>>) = 2 /\ <<d, e>>[1] = d /\ <<d, e>>[2] = e
  BY DEF IsSequence
<1>2. Len(s) \in Nat
  BY DEF IsSequence
<1> DEFINE t == <<d, e>>
           u == s \o <<d>>
           v == s \o <<d, e>>
           w == u \o <<e>>
<1>3. IsSequence(<<d>>) /\ Len(<<d>>) = 1 /\ <<d>>[1] = d /\ IsSequence(<<e>>) /\ Len(<<e>>) = 1 /\ <<e>>[1] = e
  BY OneSequence
<1>4. IsSequence(u) /\ Len(u) = Len(s) + 1 /\ (\A i \in 1 .. Len(s) : u[i] = s[i]) /\ u[Len(s) + 1] = d
  <2>1. \A i \in 1 .. Len(<<d>>) : u[Len(s) + i] = <<d>>[i]
    BY <1>3, ConcatSequence
  <2>2. IsSequence(u) /\ Len(u) = Len(s) + Len(<<d>>) /\ (\A i \in 1 .. Len(s) : u[i] = s[i])
    BY <1>3, ConcatSequence
  <2> HIDE DEF u
  <2> QED
    BY <1>3, <2>1, <2>2
<1> HIDE DEF u
<1>5. IsSequence(w) /\ Len(w) = Len(s) + 2 /\ (\A i \in 1 .. Len(u) : w[i] = u[i]) /\ w[Len(u) + 1] = e
  <2>1. \A i \in 1 .. Len(<<e>>) : w[Len(u) + i] = <<e>>[i]
    BY <1>3, <1>4, ConcatSequence
  <2>2. IsSequence(w) /\ Len(w) = Len(u) + Len(<<e>>) /\ (\A i \in 1 .. Len(u) : w[i] = u[i])
    BY <1>3, <1>4, ConcatSequence
  <2> HIDE DEF w
  <2> QED
    BY <1>2, <1>3, <1>4, <2>1, <2>2
<1>6. IsSequence(v) /\ Len(v) = Len(s) + 2 /\ (\A i \in 1 .. Len(s) : v[i] = s[i]) /\ v[Len(s) + 1] = d /\ v[Len(s) + 2] = e
  <2>1. \A i \in 1 .. Len(t) : v[Len(s) + i] = t[i]
    BY <1>1, ConcatSequence
  <2>2. IsSequence(v) /\ Len(v) = Len(s) + Len(t) /\ (\A i \in 1 .. Len(s) : v[i] = s[i])
    BY <1>1, ConcatSequence
  <2>3. Len(t) = 2 /\ t[1] = d /\ t[2] = e
    BY <1>1
  <2> HIDE DEF v, t
  <2> QED
    BY <1>2, <2>1, <2>2, <2>3
<1> HIDE DEF v, w
<1>7. \A i \in 1 .. Len(s) + 2 : i \in 1 .. Len(s) \/ i = Len(s) + 1 \/ i = Len(s) + 2
  BY <1>2
<1>8. \A i \in 1 .. Len(s) : i \in 1 .. Len(u)
  BY <1>2, <1>4
<1>9. Len(s) + 1 \in 1 .. Len(u) /\ Len(u) + 1 = Len(s) + 2
  BY <1>2, <1>4
<1>10. \A i \in 1 .. Len(s) + 2 : v[i] = w[i]
  BY <1>4, <1>5, <1>6, <1>7, <1>8, <1>9
<1>11. v = w
  BY <1>5, <1>6, <1>10, SequenceEqual
<1> QED
  BY <1>11 DEF u, v, w, OneByOne

\* A sequence of three elements as a concatenation.
LEMMA ThreeSequence ==
  ASSUME NEW c, NEW d, NEW e
  PROVE  <<c, d, e>> = <<c>> \o <<d>> \o <<e>>
<1>1. <<c>> \o <<d, e>> = <<c>> \o <<d>> \o <<e>>
  <2>1. OneByOne(<<c>>, d, e)
    BY OneSequence, TwoBehind
  <2> QED
    BY <2>1 DEF OneByOne
<1> DEFINE w == <<c, d, e>>
           x == <<c>>
           y == <<d, e>>
<1>2. IsSequence(w) /\ Len(w) = 3 /\ w[1] = c /\ w[2] = d /\ w[3] = e
  BY DEF IsSequence
<1>3. IsSequence(x) /\ IsSequence(y) /\ Len(x) = 1 /\ Len(y) = 2 /\ x[1] = c /\ y[1] = d /\ y[2] = e
  BY DEF IsSequence
<1> HIDE DEF x, y
<1> DEFINE v == x \o y
<1>4. IsSequence(v) /\ Len(v) = 3 /\ v[1] = c /\ v[1 + 1] = d /\ v[1 + 2] = e
  <2>2. IsSequence(x) /\ IsSequence(y)
    BY <1>3
  <2>3. \A i \in 1 .. Len(y) : v[Len(x) + i] = y[i]
    BY <2>2, ConcatSequence
  <2>1. IsSequence(v) /\ Len(v) = Len(x) + Len(y) /\ (\A i \in 1 .. Len(x) : v[i] = x[i])
    BY <1>3, ConcatSequence
  <2> HIDE DEF v
  <2> QED
    BY <1>3, <2>1, <2>3
<1> HIDE DEF v, w
<1>5. \A i \in 1 .. 3 : v[i] = w[i]
  BY <1>2, <1>4
<1>6. v = w
  BY <1>2, <1>4, <1>5, SequenceEqual
<1> QED
  BY <1>1, <1>6 DEF v, w, x, y

\* One entry of a kind.
LEMMA OnePart ==
  ASSUME NEW part, NEW key, NEW text
  PROVE  PartIs(<<Entry(part, key, text)>>, part)
  BY OptionalPart DEF Optional

\* The message of GELF.
GelfMsg(msg) == IF Size(msg) = 0 THEN Text("-", 1) ELSE msg

\* A GELF line (gelf.go:79-127) by its parts.
LEMMA GelfParts ==
  ASSUME NEW fm, fm.caller \in BOOLEAN, NEW rec, IsSequence(rec.fieldsAll), NEW stack, stack \in BOOLEAN, NEW limit, NEW p
  PROVE  /\ IsSequence(GelfFormat(fm, rec, stack, limit))
         /\ Parts(GelfFormat(fm, rec, stack, limit), p) =
              IF p = "version" THEN <<Entry("version", Key(0, "version"), NoText)>>
              ELSE IF p = "host" THEN <<Entry("host", Key(0, "host"), NoText)>>
              ELSE IF p = "msg" THEN <<Entry("msg", Key(0, "short_message"), GelfMsg(rec.msg))>>
              ELSE IF p = "stacktrace" THEN Optional(HasStack(rec, stack), Entry("stacktrace", Key(0, "full_message"), NoText))
              ELSE IF p = "timestamp" THEN <<Entry("timestamp", Key(0, "timestamp"), NoText)>>
              ELSE IF p = "level" THEN <<Entry("level", Key(0, "level"), NoText)>>
              ELSE IF p = "field" THEN GelfEntries(fm, rec, limit)
              ELSE <<>>
<1> DEFINE e1 == Entry("version", Key(0, "version"), NoText)
           e2 == Entry("host", Key(0, "host"), NoText)
           e3 == Entry("msg", Key(0, "short_message"), GelfMsg(rec.msg))
           e5 == Entry("timestamp", Key(0, "timestamp"), NoText)
           e6 == Entry("level", Key(0, "level"), NoText)
           a1 == <<e1>>
           a2 == <<e2>>
           a3 == <<e3>>
           a4 == Optional(HasStack(rec, stack), Entry("stacktrace", Key(0, "full_message"), NoText))
           a5 == <<e5>>
           a6 == <<e6>>
           a7 == GelfEntries(fm, rec, limit)
<1>1. GelfFormat(fm, rec, stack, limit) = <<e1, e2, e3>> \o a4 \o <<e5, e6>> \o a7
  BY DEF GelfFormat, GelfEntries, GelfFields, GelfMsg
<1>2. /\ PartIs(a1, "version") /\ PartIs(a2, "host") /\ PartIs(a3, "msg")
      /\ PartIs(a5, "timestamp") /\ PartIs(a6, "level")
  BY OnePart
<1>3. PartIs(a4, "stacktrace")
  <2>1. HasStack(rec, stack) \in BOOLEAN
    BY DEF HasStack
  <2> QED
    BY <2>1, OptionalPart
<1>4. PartIs(a7, "field")
  BY GelfEntriesPart
<1> HIDE DEF a4, a7, e1, e2, e3, e5, e6
<1>5. <<e1, e2, e3>> = a1 \o a2 \o a3
  BY ThreeSequence
<1>6. IsSequence(a1 \o a2 \o a3 \o a4)
  <2>1. IsSequence(a1) /\ IsSequence(a2) /\ IsSequence(a3) /\ IsSequence(a4)
    BY <1>2, <1>3 DEF PartIs
  <2> HIDE DEF a1, a2, a3
  <2>2. IsSequence(a1 \o a2)
    BY <2>1, ConcatSequence
  <2>3. IsSequence(a1 \o a2 \o a3)
    BY <2>1, <2>2, ConcatSequence
  <2> QED
    BY <2>1, <2>3, ConcatSequence
<1>7. (a1 \o a2 \o a3 \o a4) \o <<e5, e6>> = a1 \o a2 \o a3 \o a4 \o a5 \o a6
  <2>1. OneByOne(a1 \o a2 \o a3 \o a4, e5, e6)
    BY <1>6, TwoBehind
  <2> QED
    BY <2>1 DEF OneByOne
<1>8. GelfFormat(fm, rec, stack, limit) = a1 \o a2 \o a3 \o a4 \o a5 \o a6 \o a7
  <2> HIDE DEF a1, a2, a3, a5, a6
  <2> QED
    BY <1>1, <1>5, <1>7
<1> HIDE DEF a1, a2, a3, a5, a6
<1>9. SevenKinds(a1, a2, a3, a4, a5, a6, a7, "version", "host", "msg", "stacktrace", "timestamp", "level", "field")
  BY <1>2, <1>3, <1>4 DEF SevenKinds
<1>10. /\ IsSequence(a1 \o a2 \o a3 \o a4 \o a5 \o a6 \o a7)
       /\ Parts(a1 \o a2 \o a3 \o a4 \o a5 \o a6 \o a7, p)
            = KindOf(p, a1, a2, a3, a4, a5, a6, a7, "version", "host", "msg", "stacktrace", "timestamp", "level", "field")
  BY <1>9, PartsSeven
<1> QED
  BY <1>8, <1>10 DEF a1, a2, a3, a4, a5, a6, a7, e1, e2, e3, e5, e6, KindOf

\* A part of a plain line.
PlainPart(fm, rec, p) == Optional(p \notin fm.disabled, Entry(p, NoName, IF p = "msg" THEN rec.msg ELSE NoText))

\* A plain line (plain.go:82-137, formatter.go:84-117) by its parts.
LEMMA PlainParts ==
  ASSUME NEW fm, fm.caller \in BOOLEAN, NEW rec, IsSequence(rec.fieldsAll), NEW stack, stack \in BOOLEAN, NEW limit, NEW p
  PROVE  /\ IsSequence(PlainFormat(fm, rec, stack, limit))
         /\ Parts(PlainFormat(fm, rec, stack, limit), p) =
              IF p = "timestamp" \/ p = "level" \/ p = "msg" THEN PlainPart(fm, rec, p)
              ELSE IF p = "field" THEN WriteFields(PlainFields(fm, rec), limit)
              ELSE IF p = "stacktrace"
                THEN Optional("stacktrace" \notin fm.disabled /\ HasStack(rec, stack), Entry("stacktrace", NoName, NoText))
              ELSE <<>>
<1> DEFINE l == PlainPart(fm, rec, "level")
           t == PlainPart(fm, rec, "timestamp")
           m == PlainPart(fm, rec, "msg")
           f == WriteFields(PlainFields(fm, rec), limit)
           s == Optional("stacktrace" \notin fm.disabled /\ HasStack(rec, stack), Entry("stacktrace", NoName, NoText))
           n == <<>>
<1>1. PlainFormat(fm, rec, stack, limit) = (IF fm.kind = "plain" THEN l \o t ELSE t \o l) \o m \o f \o s
  BY DEF PlainFormat, PlainPart
<1>2. /\ PartIs(l, "level") /\ PartIs(t, "timestamp") /\ PartIs(m, "msg") /\ PartIs(s, "stacktrace")
  BY OptionalPart DEF PlainPart
<1>3. PartIs(f, "field")
  BY PlainEntriesPart
<1>4. PartIs(n, "rest") /\ PartIs(n, "group")
  BY EmptySequence DEF PartIs
<1> HIDE DEF l, t, m, f, s
<1>5. ASSUME NEW a, NEW b, NEW q, NEW r, PartIs(a, q), PartIs(b, r), q # r, {q, r} = {"level", "timestamp"}
      PROVE  /\ IsSequence(a \o b \o m \o f \o s)
             /\ Parts(a \o b \o m \o f \o s, p) = IF p = q THEN a ELSE IF p = r THEN b ELSE IF p = "msg" THEN m
                                                  ELSE IF p = "field" THEN f ELSE IF p = "stacktrace" THEN s ELSE <<>>
  <2> DEFINE w == a \o b \o m \o f \o s
  <2>1. IsSequence(w)
    <3>1. IsSequence(a) /\ IsSequence(b) /\ IsSequence(m) /\ IsSequence(f) /\ IsSequence(s)
      BY <1>2, <1>3, <1>5 DEF PartIs
    <3>2. IsSequence(a \o b)
      BY <3>1, ConcatSequence
    <3>3. IsSequence(a \o b \o m)
      BY <3>1, <3>2, ConcatSequence
    <3>4. IsSequence(a \o b \o m \o f)
      BY <3>1, <3>3, ConcatSequence
    <3> QED
      BY <3>1, <3>4, ConcatSequence
  <2>2. SevenKinds(a, b, m, f, s, n, n, q, r, "msg", "field", "stacktrace", "rest", "group")
    BY <1>2, <1>3, <1>4, <1>5 DEF SevenKinds
  <2>3. Parts(w \o n \o n, p) = KindOf(p, a, b, m, f, s, n, n, q, r, "msg", "field", "stacktrace", "rest", "group")
    <3> HIDE DEF n
    <3> QED
      BY <2>2, PartsSeven
  <2> HIDE DEF w
  <2>4. w \o n \o n = w
    BY <2>1, EmptyConcat
  <2>5. Parts(w, p) = KindOf(p, a, b, m, f, s, n, n, q, r, "msg", "field", "stacktrace", "rest", "group")
    BY <2>3, <2>4
  <2>6. Parts(w, p) = IF p = q THEN a ELSE IF p = r THEN b ELSE IF p = "msg" THEN m
                      ELSE IF p = "field" THEN f ELSE IF p = "stacktrace" THEN s ELSE <<>>
    BY <2>5 DEF KindOf
  <2> QED
    BY <2>1, <2>6 DEF w
<1>6. CASE fm.kind = "plain"
  <2>1. /\ IsSequence(l \o t \o m \o f \o s)
        /\ Parts(l \o t \o m \o f \o s, p) = IF p = "level" THEN l ELSE IF p = "timestamp" THEN t ELSE IF p = "msg" THEN m
                                             ELSE IF p = "field" THEN f ELSE IF p = "stacktrace" THEN s ELSE <<>>
    BY <1>2, <1>5
  <2> QED
    BY <1>1, <1>6, <2>1 DEF l, t, m, f, s
<1>7. CASE fm.kind # "plain"
  <2>1. /\ IsSequence(t \o l \o m \o f \o s)
        /\ Parts(t \o l \o m \o f \o s, p) = IF p = "timestamp" THEN t ELSE IF p = "level" THEN l ELSE IF p = "msg" THEN m
                                             ELSE IF p = "field" THEN f ELSE IF p = "stacktrace" THEN s ELSE <<>>
    BY <1>2, <1>5
  <2> QED
    BY <1>1, <1>7, <2>1 DEF l, t, m, f, s
<1> QED
  BY <1>6, <1>7

-----------------------------------------------------------------------------
(***************************************************************************)
(* The lines: LinesOK says that what is in a buffer, or was written, is    *)
(* the line that formatting the record yields.  With RecordsInv and FlowOK *)
(* it is inductive.                                                        *)
(***************************************************************************)

\* What is formatted is a sequence of entries.
LEMMA FormatSequence ==
  ASSUME NEW fm, fm.caller \in BOOLEAN, NEW rec, IsSequence(rec.fieldsAll), NEW stack, stack \in BOOLEAN, NEW limit
  PROVE  IsSequence(FormatEntries(fm, rec, stack, limit))
<1>1. /\ IsSequence(JSONFormat(fm, rec, stack, limit))
      /\ IsSequence(GelfFormat(fm, rec, stack, limit))
      /\ IsSequence(PlainFormat(fm, rec, stack, limit))
  BY JSONParts, GelfParts, PlainParts
<1> QED
  BY <1>1 DEF FormatEntries

\* Hosts and targets that a step leaves alone.
LEMMA QueuedSame ==
  ASSUME env' = env, NEW h, hosts'[h] = hosts[h], QueuedOK(h)
  PROVE  QueuedOK(h)'
<1>1. Tasks' = Tasks /\ SortsInPlace' = SortsInPlace
  BY SameTasks
<1> QED
  BY <1>1 DEF QueuedOK, Enabled

\* What a target was given stays right while the target is given nothing.
LEMMA OutSame ==
  ASSUME env' = env, NEW h, out'[h] = out[h], OutOK(h)
  PROVE  OutOK(h)'
<1>1. Tasks' = Tasks /\ SortsInPlace' = SortsInPlace
  BY SameTasks
<1> QED
  BY <1>1 DEF OutOK, Enabled

\* LinesOK looks at the hosts and at what they wrote, and at nothing else.
LEMMA LinesSame ==
  ASSUME LinesOK, env' = env, hosts' = hosts, out' = out
  PROVE  LinesOK'
<1>1. Hosts' = Hosts
  BY SameTasks
<1>2. \A h \in Hosts : QueuedOK(h)' /\ OutOK(h)'
  BY QueuedSame, OutSame DEF LinesOK
<1> QED
  BY <1>1, <1>2 DEF LinesOK

\* fanout (logr.go:453-460) gives a record to the hosts whose filter lets it through.
LEMMA LinesFanout ==
  ASSUME RecordsInv, FlowOK, LinesOK, Fanout
  PROVE  LinesOK'
<1>1. /\ env' = env /\ out' = out /\ loop # nil /\ Hosts' = Hosts /\ Tasks' = Tasks
      /\ SortsInPlace' = SortsInPlace
  BY SameTasks DEF Fanout
<1>2. DOMAIN slices # {}
  BY <1>1 DEF RecordsInv, PipeOK
<1> DEFINE n == Len(recs) + 1
           lvl == loop.rec.level
<1>3. lvl = Tasks[n].m.level
  BY <1>1, <1>2 DEF FlowOK, LoopOK, Carries
<1>4. Len(recs') = n
  BY AppendSequence DEF Fanout, RecordsInv, PipeOK
<1>5. ASSUME NEW h \in Hosts
      PROVE  QueuedOK(h)'
  <2>1. HostOK(hosts[h], Len(recs)) /\ QueuedOK(h)
    BY DEF RecordsInv, HostsOK, LinesOK
  <2>2. hosts'[h] = IF Enabled(h, lvl) THEN [hosts[h] EXCEPT !.in = Append(hosts[h].in, n)] ELSE hosts[h]
    BY <1>4 DEF Fanout
  <2>3. CASE ~ Enabled(h, lvl)
    BY <1>1, <2>1, <2>2, <2>3, QueuedSame
  <2>4. CASE Enabled(h, lvl)
    <3>1. /\ hosts'[h].in = Append(hosts[h].in, n)
          /\ hosts'[h].rec = hosts[h].rec /\ hosts'[h].pc = hosts[h].pc /\ hosts'[h].buf = hosts[h].buf
      BY <2>1, <2>2, <2>4 DEF HostOK
    <3>2. /\ IsSequence(hosts[h].in) /\ Len(hosts'[h].in) = Len(hosts[h].in) + 1
          /\ \A i \in 1 .. Len(hosts[h].in) : hosts'[h].in[i] = hosts[h].in[i]
          /\ hosts'[h].in[Len(hosts[h].in) + 1] = n
      BY <2>1, <3>1, AppendSequence DEF HostOK
    <3>3. ASSUME NEW i \in 1 .. Len(hosts'[h].in)
          PROVE  Enabled(h, Tasks[hosts'[h].in[i]].m.level)
      <4>1. i \in 1 .. Len(hosts[h].in) \/ i = Len(hosts[h].in) + 1
        BY <3>2 DEF IsSequence
      <4>2. CASE i \in 1 .. Len(hosts[h].in)
        BY <2>1, <3>2, <4>2 DEF QueuedOK
      <4>3. CASE i = Len(hosts[h].in) + 1
        BY <1>3, <2>4, <3>2, <4>3
      <4> QED
        BY <4>1, <4>2, <4>3
    <3>4. \A l : Enabled(h, l)' <=> Enabled(h, l)
      BY <1>1 DEF Enabled
    <3> QED
      BY <1>1, <2>1, <3>1, <3>3, <3>4 DEF QueuedOK
  <2> QED
    BY <2>3, <2>4
<1>6. \A h \in Hosts : OutOK(h)'
  BY <1>1, OutSame DEF LinesOK
<1> QED
  BY <1>1, <1>5, <1>6 DEF LinesOK

\* A step of one read loop that changes neither what the target was given nor other
\* loops.
LEMMA LinesHost ==
  ASSUME HostsOK, LinesOK, env' = env, out' = out, NEW h \in Hosts, NEW x, hosts' = [hosts EXCEPT ![h] = x], QueuedOK(h)'
  PROVE  LinesOK'
<1>1. Hosts' = Hosts
  BY SameTasks
<1>2. \A g \in Hosts : g # h => hosts'[g] = hosts[g]
  BY DEF HostsOK
<1>3. \A g \in Hosts : QueuedOK(g)' /\ OutOK(g)'
  BY <1>2, QueuedSame, OutSame DEF LinesOK
<1> QED
  BY <1>1, <1>3 DEF LinesOK

\* BorrowBuffer (target.go:259, logr.go:398): the buffer is empty, whoever had it.
LEMMA LinesBorrow ==
  ASSUME RecordsInv, LinesOK, NEW h \in Hosts, BorrowBuffer(h)
  PROVE  LinesOK'
<1> DEFINE host == hosts[h]
<1>1. HostsOK /\ HostOK(host, Len(recs)) /\ QueuedOK(h) /\ PoolOK
  BY DEF RecordsInv, HostsOK, LinesOK
<1>2. env' = env /\ out' = out /\ host.in # <<>>
  BY DEF BorrowBuffer
<1>3. PICK i \in 0 .. Len(pool) :
        hosts' = [hosts EXCEPT ![h].in = Tail(@), ![h].rec = Head(hosts[h].in), ![h].at = 1,
                               ![h].buf = IF i = 0 THEN <<>> ELSE pool[i],
                               ![h].pc = IF env.hosts[h].fm.kind = "json" /\ env.hosts[h].fm.sorter = "inplace"
                                           THEN "sort" ELSE "format"]
  BY DEF BorrowBuffer
<1>4. (IF i = 0 THEN <<>> ELSE pool[i]) = <<>>
  BY <1>1 DEF PoolOK
<1> DEFINE inplace == env.hosts[h].fm.kind = "json" /\ env.hosts[h].fm.sorter = "inplace"
           x == [host EXCEPT !.in = Tail(host.in), !.rec = Head(host.in), !.at = 1, !.buf = <<>>,
                             !.pc = IF inplace THEN "sort" ELSE "format"]
<1>5. /\ hosts' = [hosts EXCEPT ![h] = x]
      /\ x.in = Tail(host.in) /\ x.rec = Head(host.in) /\ x.buf = <<>> /\ x.pc = IF inplace THEN "sort" ELSE "format"
  <2>1. host = [in |-> host.in, pc |-> host.pc, rec |-> host.rec, at |-> host.at, tmp |-> host.tmp, buf |-> host.buf]
    BY <1>1 DEF HostOK
  <2>2. x.in = Tail(host.in) /\ x.rec = Head(host.in) /\ x.buf = <<>> /\ x.pc = IF inplace THEN "sort" ELSE "format"
    BY <2>1
  <2>3. hosts' = [hosts EXCEPT ![h] = x]
    BY <1>1, <1>3, <1>4 DEF HostsOK
  <2> QED
    BY <2>2, <2>3
<1> HIDE DEF x
<1>6. hosts'[h] = x
  BY <1>1, <1>5 DEF HostsOK
<1>7. Len(host.in) > 0 /\ Head(host.in) = host.in[1] /\ Len(Tail(host.in)) = Len(host.in) - 1 /\ Len(host.in) \in Nat
      /\ \A k \in 1 .. Len(host.in) - 1 : Tail(host.in)[k] = host.in[k + 1]
  BY <1>1, <1>2, TailSequence DEF HostOK, IsSequence
<1>8. \A k \in 1 .. Len(Tail(host.in)) : Enabled(h, Tasks[Tail(host.in)[k]].m.level)
  <2>1. \A k \in 1 .. Len(host.in) - 1 : k + 1 \in 1 .. Len(host.in)
    BY <1>7
  <2> QED
    BY <1>1, <1>7, <2>1 DEF QueuedOK
<1>9. Enabled(h, Tasks[Head(host.in)].m.level)
  BY <1>1, <1>7 DEF QueuedOK
<1>10. inplace => SortsInPlace
  BY DEF SortsInPlace
<1>11. Tasks' = Tasks /\ SortsInPlace' = SortsInPlace
  BY <1>2, SameTasks
<1>12. \A l : Enabled(h, l)' <=> Enabled(h, l)
  BY <1>2 DEF Enabled
<1>13. QueuedOK(h)'
  BY <1>5, <1>6, <1>8, <1>9, <1>10, <1>11, <1>12 DEF QueuedOK
<1> QED
  BY <1>1, <1>2, <1>5, <1>13, LinesHost

\* A sorter in place keeps the buffer and the queue of its host.
LEMMA LinesSort ==
  ASSUME RecordsInv, LinesOK, NEW h \in Hosts, SortStep(h)
  PROVE  LinesOK'
<1> DEFINE host == hosts[h]
<1>1. HostsOK /\ HostOK(host, Len(recs)) /\ QueuedOK(h)
  BY DEF RecordsInv, HostsOK, LinesOK
<1>2. env' = env /\ out' = out /\ host.pc = "sort"
  BY DEF SortStep
<1>3. PICK x : /\ hosts' = [hosts EXCEPT ![h] = x]
               /\ x.in = host.in /\ x.rec = host.rec /\ x.buf = host.buf /\ x.pc \in {"sort", "format"}
  <2>1. host = [in |-> host.in, pc |-> host.pc, rec |-> host.rec, at |-> host.at, tmp |-> host.tmp, buf |-> host.buf]
    BY <1>1 DEF HostOK
  <2> DEFINE at == host.at
             all == recs[host.rec].fieldsAll
             y(a) == [host EXCEPT !.tmp = nil, !.at = a]
             z(t) == [host EXCEPT !.tmp = t]
             u(a) == [host EXCEPT !.at = a]
             v == [host EXCEPT !.pc = "format"]
  <2>2. \/ \E a : hosts' = [hosts EXCEPT ![h] = y(a)]
        \/ \E t : hosts' = [hosts EXCEPT ![h] = z(t)]
        \/ \E a : hosts' = [hosts EXCEPT ![h] = u(a)]
        \/ hosts' = [hosts EXCEPT ![h] = v]
    BY <1>1 DEF SortStep, HostsOK
  <2>3. \A a : y(a).in = host.in /\ y(a).rec = host.rec /\ y(a).buf = host.buf /\ y(a).pc = "sort"
    BY <1>2, <2>1
  <2>4. \A a : z(a).in = host.in /\ z(a).rec = host.rec /\ z(a).buf = host.buf /\ z(a).pc = "sort"
    BY <1>2, <2>1
  <2>5. \A a : u(a).in = host.in /\ u(a).rec = host.rec /\ u(a).buf = host.buf /\ u(a).pc = "sort"
    BY <1>2, <2>1
  <2>6. v.in = host.in /\ v.rec = host.rec /\ v.buf = host.buf /\ v.pc = "format"
    BY <2>1
  <2> HIDE DEF y, z, u, v
  <2> QED
    BY <2>2, <2>3, <2>4, <2>5, <2>6
<1>4. hosts'[h] = x
  BY <1>1, <1>3 DEF HostsOK
<1>5. Tasks' = Tasks /\ SortsInPlace' = SortsInPlace
  BY <1>2, SameTasks
<1>6. \A l : Enabled(h, l)' <=> Enabled(h, l)
  BY <1>2 DEF Enabled
<1>7. QueuedOK(h)'
  BY <1>1, <1>2, <1>3, <1>4, <1>5, <1>6 DEF QueuedOK
<1> QED
  BY <1>1, <1>2, <1>3, <1>7, LinesHost

\* Format (formatter.go, formatters/*.go) puts the line of the record into the empty
\* buffer.
LEMMA LinesFormat ==
  ASSUME RecordsInv, FlowOK, LinesOK, NEW h \in Hosts, Format(h)
  PROVE  LinesOK'
<1> DEFINE host == hosts[h]
           cfg == env.hosts[h]
           k == host.rec
           prepared == recs[k]
           rec == IF cfg.retimes THEN WithTime(prepared) ELSE prepared
           line == FormatEntries(cfg.fm, rec, cfg.on[rec.level] = "stack", env.limit)
           good == [host EXCEPT !.pc = "write", !.buf = host.buf \o line]
           bad == [host EXCEPT !.pc = "release", !.buf = Append(@, Entry("rest", NoName, NoText))]
<1>1. HostsOK /\ HostOK(host, Len(recs)) /\ QueuedOK(h) /\ PipeOK
  BY DEF RecordsInv, HostsOK, LinesOK
<1>2. env' = env /\ out' = out /\ host.pc = "format"
  BY DEF Format
<1>3. host = [in |-> host.in, pc |-> host.pc, rec |-> host.rec, at |-> host.at, tmp |-> host.tmp, buf |-> host.buf]
      /\ k \in 1 .. Len(recs) /\ host.buf = <<>>
  BY <1>1, <1>2 DEF HostOK, PipeOK, IsSequence, QueuedOK
<1>4. hosts' = [hosts EXCEPT ![h] = good] \/ hosts' = [hosts EXCEPT ![h] = bad]
  BY <1>1 DEF Format, HostsOK
<1>5. /\ good.in = host.in /\ good.rec = host.rec /\ good.pc = "write" /\ good.buf = host.buf \o line
      /\ bad.in = host.in /\ bad.rec = host.rec /\ bad.pc = "release"
  BY <1>3
<1>6. Tasks' = Tasks /\ SortsInPlace' = SortsInPlace
  BY <1>2, SameTasks
<1>7. \A l : Enabled(h, l)' <=> Enabled(h, l)
  BY <1>2 DEF Enabled
<1>8. CASE hosts' = [hosts EXCEPT ![h] = bad]
  <2> HIDE DEF bad
  <2>1. hosts'[h] = bad
    BY <1>1, <1>8 DEF HostsOK
  <2>2. QueuedOK(h)'
    BY <1>1, <1>2, <1>5, <1>6, <1>7, <2>1 DEF QueuedOK
  <2> QED
    BY <1>1, <1>2, <1>8, <2>2, LinesHost
<1>9. CASE hosts' = [hosts EXCEPT ![h] = good]
  <2>1. DOMAIN slices # {}
    <3>1. recs # <<>>
      BY <1>3, EmptySequence
    <3> QED
      BY <1>1, <3>1 DEF PipeOK
  <2> DEFINE t == Tasks[k]
             F == prepared.fieldsAll
  <2>2. /\ Prepared(prepared, t, env.frames, env.limit)
        /\ ~ SortsInPlace => Gathers(F, t.m, Len(t.m.fields), env.limit)
    BY <1>3, <2>1 DEF FlowOK, RecsOK
  <2>3. prepared = PreparedOf(t, F, env.frames, env.limit) /\ IsSequence(F) /\ prepared.level = t.m.level
    BY <2>2 DEF Prepared, PreparedOf
  <2>4. rec = Given(cfg, t, F, env.frames, env.limit) /\ rec.level = t.m.level /\ IsSequence(rec.fieldsAll)
    <3>1. WithTime(prepared).level = prepared.level /\ WithTime(prepared).fieldsAll = <<>>
      BY <2>3 DEF WithTime, PreparedOf
    <3> QED
      BY <2>3, <3>1, EmptySequence DEF Given
  <2>5. line = LineOf(cfg, t, F, env.frames, env.limit)
    BY <2>4 DEF LineOf
  <2>6. IsSequence(line)
    <3>1. cfg.fm.caller \in BOOLEAN
      BY <1>1, ScenarioTypes DEF PipeOK, IsFormatter
    <3>2. (cfg.on[rec.level] = "stack") \in BOOLEAN
      OBVIOUS
    <3>3. \A b : b \in BOOLEAN => IsSequence(FormatEntries(cfg.fm, rec, b, env.limit))
      <4> HIDE DEF rec, cfg
      <4> QED
        BY <2>4, <3>1, FormatSequence
    <3> QED
      BY <3>2, <3>3
  <2> HIDE DEF good, line
  <2>7. good.buf = line
    BY <1>3, <1>5, <2>6, EmptyConcat
  <2>8. Written(cfg, t, good.buf, env.frames, env.limit, SortsInPlace)
    <3> HIDE DEF F, t, cfg
    <3> QED
      BY <2>2, <2>3, <2>5, <2>7 DEF Written
  <2>9. hosts'[h] = good
    BY <1>1, <1>9 DEF HostsOK
  <2>10. QueuedOK(h)'
    BY <1>1, <1>2, <1>5, <1>6, <1>7, <2>8, <2>9 DEF QueuedOK
  <2> QED
    BY <1>1, <1>2, <1>9, <2>10, LinesHost
<1> QED
  BY <1>4, <1>8, <1>9

\* Write (target.go:267) gives the target the line that is in the buffer.
LEMMA LinesWrite ==
  ASSUME RecordsInv, FlowOK, LinesOK, NEW h \in Hosts, Write(h)
  PROVE  LinesOK'
<1> DEFINE host == hosts[h]
           x == [host EXCEPT !.pc = "release"]
           o == [rec |-> host.rec, entries |-> host.buf]
<1>1. HostsOK /\ HostOK(host, Len(recs)) /\ QueuedOK(h) /\ OutOK(h) /\ PipeOK /\ out = [g \in Hosts |-> out[g]]
  BY DEF RecordsInv, HostsOK, LinesOK
<1>2. env' = env /\ host.pc = "write" /\ hosts' = [hosts EXCEPT ![h] = x] /\ out' = [out EXCEPT ![h] = Append(out[h], o)]
  BY <1>1 DEF Write, HostsOK
<1>3. x.in = host.in /\ x.rec = host.rec /\ x.pc = "release"
  BY <1>1 DEF HostOK
<1>4. Tasks' = Tasks /\ SortsInPlace' = SortsInPlace /\ Hosts' = Hosts
  BY <1>2, SameTasks
<1>5. \A g, l : Enabled(g, l)' <=> Enabled(g, l)
  BY <1>2 DEF Enabled
<1> HIDE DEF x
<1>6. hosts'[h] = x /\ \A g \in Hosts : g # h => hosts'[g] = hosts[g]
  BY <1>1, <1>2 DEF HostsOK
<1>7. out'[h] = Append(out[h], o) /\ (\A g \in Hosts : g # h => out'[g] = out[g]) /\ out' = [g \in Hosts |-> out'[g]]
  <2> HIDE DEF o
  <2> QED
    BY <1>1, <1>2
<1>8. QueuedOK(h)'
  BY <1>1, <1>2, <1>3, <1>4, <1>5, <1>6 DEF QueuedOK
<1>9. OutOK(h)'
  <2>1. /\ IsSequence(out'[h]) /\ Len(out'[h]) = Len(out[h]) + 1
        /\ \A i \in 1 .. Len(out[h]) : out'[h][i] = out[h][i]
        /\ out'[h][Len(out[h]) + 1] = o
    <3> HIDE DEF o
    <3> QED
      BY <1>1, <1>7, AppendSequence DEF OutOK
  <2>2. ASSUME NEW i \in 1 .. Len(out'[h])
        PROVE  i \in 1 .. Len(out[h]) \/ i = Len(out[h]) + 1
    BY <1>1, <2>1 DEF OutOK, IsSequence
  <2>3. o.rec = host.rec /\ o.entries = host.buf
    OBVIOUS
  <2>4. host.rec \in DOMAIN Tasks
    <3>1. host.rec \in 1 .. Len(recs)
      BY <1>1, <1>2 DEF HostOK, PipeOK, IsSequence
    <3>2. recs # <<>>
      BY <3>1, EmptySequence
    <3>3. DOMAIN slices # {}
      BY <1>1, <3>2 DEF PipeOK
    <3>4. TodoOK
      BY <3>3 DEF FlowOK
    <3> QED
      BY <1>1, <3>1, <3>4, TaskPlaces
  <2> DEFINE Fine(e) == /\ e.rec \in DOMAIN Tasks
                        /\ Enabled(h, Tasks[e.rec].m.level)
                        /\ Written(env.hosts[h], Tasks[e.rec], e.entries, env.frames, env.limit, SortsInPlace)
  <2>5. Fine(o)
    <3>1. host.rec # 0
      BY <1>1, <1>2 DEF HostOK
    <3> QED
      BY <1>1, <1>2, <2>3, <2>4, <3>1 DEF QueuedOK
  <2>6. \A i \in 1 .. Len(out[h]) : Fine(out[h][i])
    BY <1>1 DEF OutOK
  <2> HIDE DEF Fine, o
  <2>7. \A i \in 1 .. Len(out'[h]) : Fine(out'[h][i])
    BY <2>1, <2>2, <2>5, <2>6
  <2> QED
    BY <1>2, <1>4, <1>5, <2>1, <2>7 DEF OutOK, Fine
<1>10. \A g \in Hosts : g # h => QueuedOK(g)' /\ OutOK(g)'
  BY <1>2, <1>6, <1>7, QueuedSame, OutSame DEF LinesOK
<1> QED
  BY <1>4, <1>7, <1>8, <1>9, <1>10 DEF LinesOK

\* ReleaseBuffer (target.go:260) leaves a read loop that has nothing.
LEMMA LinesRelease ==
  ASSUME RecordsInv, LinesOK, NEW h \in Hosts, ReleaseBuffer(h)
  PROVE  LinesOK'
<1> DEFINE host == hosts[h]
           x == [host EXCEPT !.pc = "select", !.rec = 0, !.at = 0, !.buf = <<>>]
<1>1. HostsOK /\ HostOK(host, Len(recs)) /\ QueuedOK(h)
  BY DEF RecordsInv, HostsOK, LinesOK
<1>2. env' = env /\ out' = out /\ hosts' = [hosts EXCEPT ![h] = x]
  BY <1>1 DEF ReleaseBuffer, HostsOK
<1>3. x.in = host.in /\ x.rec = 0 /\ x.pc = "select" /\ x.buf = <<>>
  BY <1>1 DEF HostOK
<1> HIDE DEF x
<1>4. hosts'[h] = x
  BY <1>1, <1>2 DEF HostsOK
<1>5. Tasks' = Tasks /\ SortsInPlace' = SortsInPlace
  BY <1>2, SameTasks
<1>6. \A l : Enabled(h, l)' <=> Enabled(h, l)
  BY <1>2 DEF Enabled
<1>7. QueuedOK(h)'
  BY <1>1, <1>3, <1>4, <1>5, <1>6 DEF QueuedOK
<1> QED
  BY <1>1, <1>2, <1>7, LinesHost

\* Every step keeps what the hosts have and the targets were given.
LEMMA LinesStep ==
  ASSUME RecordsInv, FlowOK, LinesOK, [RecordsNext]_recordsVars
  PROVE  LinesOK'
<1>1. CASE Fanout
  BY <1>1, LinesFanout
<1>2. CASE Call \/ Log \/ Limit \/ Enqueue \/ Prep \/ PrepCopy \/ UNCHANGED recordsVars
  <2>1. env' = env /\ hosts' = hosts /\ out' = out
    BY <1>2 DEF Call, Log, Limit, Enqueue, Prep, PrepCopy, recordsVars
  <2> QED
    BY <2>1, LinesSame
<1>3. ASSUME NEW h \in Hosts, HostLoop(h)
      PROVE  LinesOK'
  BY <1>3, LinesBorrow, LinesSort, LinesFormat, LinesWrite, LinesRelease DEF HostLoop
<1> QED
  BY <1>1, <1>2, <1>3 DEF RecordsNext, Idle

\* The whole invariant.
LinesInv == RecordsInv /\ FlowOK /\ LinesOK

\* It holds before the call.
LEMMA LinesInvInit == RecordsInit => LinesInv
<1> SUFFICES ASSUME RecordsInit
             PROVE  LinesInv
  OBVIOUS
<1>1. RecordsInv
  BY RecordsInvInit
<1>2. FlowOK
  BY DEF RecordsInit, FlowOK
<1>3. \A h \in Hosts : /\ hosts[h].in = <<>> /\ hosts[h].rec = 0 /\ hosts[h].pc = "select" /\ hosts[h].buf = <<>>
                       /\ out[h] = <<>>
  BY DEF RecordsInit, Hosts
<1>4. out = [h \in Hosts |-> out[h]]
  BY DEF RecordsInit, Hosts
<1>5. LinesOK
  BY <1>3, <1>4, EmptySequence DEF LinesOK, QueuedOK, OutOK
<1> QED
  BY <1>1, <1>2, <1>5 DEF LinesInv

\* And every step keeps it.
LEMMA LinesInvStep == LinesInv /\ [RecordsNext]_recordsVars => LinesInv'
  BY RecordsInvStep, FlowStep, LinesStep DEF LinesInv

-----------------------------------------------------------------------------
(***************************************************************************)
(* The caller and the stack trace on a line (CallerKnown).                 *)
(***************************************************************************)

\* The first of some places.
LEMMA FirstPlace ==
  ASSUME NEW S, S \subseteq Nat, NEW i \in S, \A j \in S : i <= j
  PROVE  (CHOOSE k \in S : \A j \in S : k <= j) = i
<1> DEFINE c == CHOOSE k \in S : \A j \in S : k <= j
<1>1. c \in S /\ \A j \in S : c <= j
  OBVIOUS
<1> HIDE DEF c
<1>2. c = i
  BY <1>1
<1> QED
  BY <1>2 DEF c

\* calcCaller (logrec.go:170-182) looks for the first frame with a file among those of
\* the application, which is the one the scenario means.
AppOf(frames) == {i \in DOMAIN frames : frames[i].pkg = "app"}

\* calcCaller on the frames that the stack package left is calcCaller on those of the
\* application (logrec.go:66-87).
LEMMA CallerOf ==
  ASSUME NEW frames, IsSequence(frames)
  PROVE  /\ CalcCaller(ElementsAt(frames, AppOf(frames)))
              = LET named == {i \in AppOf(frames) : frames[i].file # ""}
                IN  IF named = {} THEN NoText ELSE Text(frames[CHOOSE i \in named : \A j \in named : i <= j].file, 1)
         /\ ElementsAt(frames, AppOf(frames)) # <<>> <=> AppOf(frames) # {}
<1> DEFINE A == AppOf(frames)
           q == InOrder(A)
           n == Cardinality(A)
           e == ElementsAt(frames, A)
           named == {i \in A : frames[i].file # ""}
           M == {j \in DOMAIN e : e[j].file # ""}
<1>1. Len(frames) \in Nat /\ A \in SUBSET (1 .. Len(frames))
  BY DEF IsSequence, AppOf
<1>2. /\ IsFiniteSet(A) /\ n \in Nat
      /\ DOMAIN q = 1 .. n
      /\ \A j \in 1 .. n : q[j] \in A
      /\ \A i \in A : \E j \in 1 .. n : q[j] = i
      /\ \A j, k \in 1 .. n : j < k => q[j] < q[k]
  <2> HIDE DEF A
  <2> QED
    BY <1>1, InOrderLists
<1>3. DOMAIN e = 1 .. n /\ \A j \in 1 .. n : e[j] = frames[q[j]]
  BY <1>2 DEF ElementsAt
<1>4. IsSequence(e) /\ Len(e) = n
  <2> HIDE DEF A
  <2> QED
    BY <1>2, ElementsSequence
<1> HIDE DEF A, q, n, e
<1>5. e # <<>> <=> A # {}
  <2>1. CASE A = {}
    BY <2>1, ElementsEmpty DEF e
  <2>2. CASE A # {}
    <3>1. PICK i \in A : TRUE
      BY <2>2
    <3>2. PICK j \in 1 .. n : q[j] = i
      BY <1>2
    <3>3. n # 0
      BY <1>2, <3>2
    <3> QED
      BY <1>4, <2>2, <3>3, EmptySequence
  <2> QED
    BY <2>1, <2>2
<1>6. CalcCaller(e) = IF named = {} THEN NoText ELSE Text(frames[CHOOSE i \in named : \A j \in named : i <= j].file, 1)
  <2>1. named = {q[j] : j \in M} /\ M \subseteq Nat /\ named \subseteq Nat
    <3>1. ASSUME NEW i \in named
          PROVE  \E j \in M : i = q[j]
      <4>1. PICK j \in 1 .. n : q[j] = i
        BY <1>2
      <4> QED
        BY <1>3, <4>1
    <3>2. \A j \in M : q[j] \in named
      BY <1>2, <1>3
    <3>3. M \subseteq Nat
      <4>1. M \subseteq 1 .. n
        BY <1>3
      <4> HIDE DEF M
      <4> QED
        BY <1>2, <4>1
    <3>4. named \subseteq Nat
      <4>1. named \subseteq A
        OBVIOUS
      <4> HIDE DEF named
      <4> QED
        BY <1>1, <4>1
    <3> HIDE DEF M, named
    <3> QED
      BY <3>1, <3>2, <3>3, <3>4
  <2>2. CalcCaller(e) = IF M = {} THEN NoText ELSE Text(e[CHOOSE i \in M : \A j \in M : i <= j].file, 1)
    BY DEF CalcCaller
  <2>3. M \subseteq 1 .. n
    BY <1>3
  <2> HIDE DEF M, named
  <2>4. CASE M = {}
    BY <2>1, <2>2, <2>4
  <2>5. CASE M # {}
    <3>1. PICK x \in M : \A y \in M : x <= y
      BY <2>1, <2>5, LeastNatural
    <3>2. (CHOOSE i \in M : \A j \in M : i <= j) = x
      BY <2>1, <3>1, FirstPlace
    <3>3. q[x] \in named /\ \A i \in named : q[x] <= i
      <4>1. q[x] \in named
        BY <2>1
      <4>2. ASSUME NEW i \in named
            PROVE  q[x] <= i
        <5>1. PICK y \in M : i = q[y]
          BY <2>1
        <5>2. x = y \/ x < y
          BY <2>1, <3>1
        <5>3. q[x] \in Nat /\ q[y] \in Nat
          BY <2>1
        <5>4. x \in 1 .. n /\ y \in 1 .. n
          BY <2>3
        <5>5. x < y => q[x] < q[y]
          BY <1>2, <5>4
        <5> QED
          BY <5>1, <5>2, <5>3, <5>5
      <4> QED
        BY <4>1, <4>2
    <3>4. (CHOOSE i \in named : \A j \in named : i <= j) = q[x]
      BY <2>1, <3>3, FirstPlace
    <3>5. e[x] = frames[q[x]]
      BY <1>3, <2>3
    <3> QED
      BY <2>2, <2>5, <3>2, <3>3, <3>4, <3>5
  <2> QED
    BY <2>4, <2>5
<1> QED
  BY <1>5, <1>6 DEF e, A

\* Optional entries.
LEMMA OptionalLen ==
  ASSUME NEW b \in BOOLEAN, NEW e
  PROVE  /\ Len(Optional(b, e)) = IF b THEN 1 ELSE 0
         /\ DOMAIN Optional(b, e) = 1 .. Len(Optional(b, e))
         /\ \A i \in DOMAIN Optional(b, e) : b /\ Optional(b, e)[i] = e
<1>1. CASE b
  <2> DEFINE s == Optional(b, e)
  <2>1. s = <<e>>
    BY <1>1 DEF Optional
  <2>2. IsSequence(s) /\ Len(s) = 1 /\ s[1] = e
    BY <2>1, OneSequence
  <2> HIDE DEF s
  <2>3. DOMAIN s = 1 .. 1 /\ \A i \in 1 .. 1 : i = 1
    BY <2>2 DEF IsSequence
  <2> QED
    BY <1>1, <2>2, <2>3 DEF s
<1>2. CASE ~ b
  <2> DEFINE s == Optional(b, e)
  <2>1. s = <<>>
    BY <1>2 DEF Optional
  <2>2. IsSequence(s) /\ Len(s) = 0
    BY <2>1, EmptySequence
  <2> HIDE DEF s
  <2>3. DOMAIN s = 1 .. 0
    BY <2>2 DEF IsSequence
  <2> QED
    BY <1>2, <2>2, <2>3 DEF s
<1> QED
  BY <1>1, <1>2

\* The entries of one record by their part, whatever the formatter.
ShowsTask(h, t, F, entries) ==
    /\ env \in Scenarios /\ h \in Hosts /\ ~ env.hosts[h].retimes /\ t.stack = StackStatus(t.m.level)
    /\ Enabled(h, t.m.level) /\ IsSequence(F) /\ entries = LineOf(env.hosts[h], t, F, env.frames, env.limit)

\* A line shows the caller and the stack trace that it should (json.go:138-140, 159-164).
LEMMA LineCaller ==
  ASSUME NEW h, NEW t, NEW F, NEW entries, ShowsTask(h, t, F, entries)
  PROVE  LET fm == env.hosts[h].fm
             callers == Parts(entries, "caller")
             stack == env.hosts[h].on[t.m.level] = "stack"
         IN  /\ fm.kind = "json" => /\ Len(callers) = IF fm.caller THEN 1 ELSE 0
                                    /\ \A i \in DOMAIN callers : callers[i].text = CallerText
             /\ Len(Parts(entries, "stacktrace"))
                  = IF stack /\ AppFrames # {} /\ "stacktrace" \notin fm.disabled THEN 1 ELSE 0
<1> DEFINE fm == env.hosts[h].fm
           stack == env.hosts[h].on[t.m.level] = "stack"
           rec == PreparedOf(t, F, env.frames, env.limit)
           emit == "stacktrace" \notin fm.disabled /\ HasStack(rec, stack)
<1> /\ env \in Scenarios /\ h \in Hosts /\ ~ env.hosts[h].retimes /\ t.stack = StackStatus(t.m.level)
    /\ Enabled(h, t.m.level) /\ IsSequence(F) /\ entries = LineOf(env.hosts[h], t, F, env.frames, env.limit)
  BY DEF ShowsTask
<1>1. IsFormatter(fm) /\ IsSequence(env.frames) /\ fm.caller \in BOOLEAN /\ stack \in BOOLEAN
      /\ (fm.kind = "gelf" => fm.disabled = {})
  BY ScenarioTypes DEF IsFormatter
<1>2. entries = FormatEntries(fm, rec, stack, env.limit)
  BY DEF LineOf, Given
<1>3. AppOf(env.frames) = AppFrames
  BY DEF AppOf, AppFrames
<1>4. rec.frames = FramesOf(t, env.frames) /\ rec.caller = CalcCaller(FramesOf(t, env.frames)) /\ rec.fieldsAll = F
  BY DEF PreparedOf
<1>5. t.stack => /\ FramesOf(t, env.frames) = ElementsAt(env.frames, AppOf(env.frames))
  BY DEF FramesOf, AppOf
<1>6. t.stack => rec.caller = CallerText /\ (rec.frames # <<>> <=> AppFrames # {})
  BY <1>1, <1>3, <1>4, <1>5, CallerOf DEF CallerText
<1>7. stack => t.stack
  BY DEF StackStatus
<1>8. fm.kind = "json" /\ fm.caller => t.stack
  BY DEF StackStatus, IsStacktraceNeeded
<1>9. emit \in BOOLEAN /\ (emit <=> stack /\ AppFrames # {} /\ "stacktrace" \notin fm.disabled)
  BY <1>6, <1>7 DEF HasStack
<1>10. CASE fm.kind = "json"
  <2>1. entries = JSONFormat(fm, rec, stack, env.limit)
    BY <1>2, <1>10 DEF FormatEntries
  <2> DEFINE c == Entry("caller", KeyName(fm, "caller"), rec.caller)
             s == Entry("stacktrace", KeyName(fm, "stacktrace"), NoText)
  <2>2. Parts(entries, "caller") = Optional(fm.caller, c) /\ Parts(entries, "stacktrace") = Optional(emit, s)
    <3> HIDE DEF fm, rec, stack
    <3> QED
      BY <1>1, <1>4, <2>1, JSONParts
  <2>3. c.text = rec.caller
    BY DEF Entry
  <2> HIDE DEF c, s, emit, rec, stack, fm
  <2>4. Len(Optional(emit, s)) = IF emit THEN 1 ELSE 0
    BY <1>9, OptionalLen
  <2>5. /\ Len(Optional(fm.caller, c)) = IF fm.caller THEN 1 ELSE 0
        /\ \A i \in DOMAIN Optional(fm.caller, c) : fm.caller /\ Optional(fm.caller, c)[i] = c
    BY <1>1, OptionalLen
  <2>6. \A i \in DOMAIN Parts(entries, "caller") : Parts(entries, "caller")[i].text = CallerText
    BY <1>6, <1>8, <1>10, <2>2, <2>3, <2>5
  <2> QED
    BY <1>9, <2>2, <2>4, <2>5, <2>6 DEF fm, stack
<1>11. CASE fm.kind = "gelf"
  <2>1. entries = GelfFormat(fm, rec, stack, env.limit)
    BY <1>2, <1>11 DEF FormatEntries
  <2> DEFINE s == Entry("stacktrace", Key(0, "full_message"), NoText)
  <2>2. Parts(entries, "stacktrace") = Optional(HasStack(rec, stack), s)
    <3> HIDE DEF fm, rec, stack
    <3> QED
      BY <1>1, <1>4, <2>1, GelfParts
  <2>3. HasStack(rec, stack) <=> emit
    BY <1>1, <1>11
  <2>4. HasStack(rec, stack) \in BOOLEAN
    BY DEF HasStack
  <2> HIDE DEF s
  <2>5. Len(Optional(HasStack(rec, stack), s)) = IF HasStack(rec, stack) THEN 1 ELSE 0
    <3> HIDE DEF rec, stack
    <3> QED
      BY <2>4, OptionalLen
  <2>6. fm.kind # "json"
    BY <1>11
  <2> HIDE DEF emit, rec
  <2> QED
    BY <1>9, <2>2, <2>3, <2>5, <2>6
<1>12. CASE fm.kind \notin {"json", "gelf"}
  <2>1. entries = PlainFormat(fm, rec, stack, env.limit)
    BY <1>2, <1>12 DEF FormatEntries
  <2> DEFINE s == Entry("stacktrace", NoName, NoText)
  <2>2. Parts(entries, "stacktrace") = Optional(emit, s)
    <3> HIDE DEF fm, rec, stack
    <3> QED
      BY <1>1, <1>4, <2>1, PlainParts
  <2> HIDE DEF s, emit
  <2>3. Len(Optional(emit, s)) = IF emit THEN 1 ELSE 0
    BY <1>9, OptionalLen
  <2>4. fm.kind # "json"
    BY <1>12
  <2> QED
    BY <1>9, <2>2, <2>3, <2>4
<1> QED
  BY <1>10, <1>11, <1>12

\* Every line shows a record.
LEMMA LineShown ==
  ASSUME LinesInv, NEW h \in Hosts, NEW o \in ToSet(out[h])
  PROVE  LET t == Tasks[o.rec] IN
         /\ env \in Scenarios /\ o.rec \in DOMAIN Tasks /\ t.m = Logged[o.rec] /\ MeantOK(t.m)
         /\ t.stack = StackStatus(t.m.level) /\ Enabled(h, t.m.level)
         /\ Written(env.hosts[h], t, o.entries, env.frames, env.limit, SortsInPlace)
<1>1. env \in Scenarios
  BY DEF LinesInv, RecordsInv, PipeOK
<1>2. PICK i \in DOMAIN out[h] : o = out[h][i]
  BY DEF ToSet
<1>3. OutOK(h)
  BY DEF LinesInv, LinesOK
<1>4. i \in 1 .. Len(out[h])
  BY <1>3 DEF OutOK, IsSequence
<1>5. /\ o.rec \in DOMAIN Tasks /\ Enabled(h, Tasks[o.rec].m.level)
      /\ Written(env.hosts[h], Tasks[o.rec], o.entries, env.frames, env.limit, SortsInPlace)
  BY <1>2, <1>3, <1>4 DEF OutOK
<1>6. o.rec \in 1 .. Cardinality(Wanted)
  BY <1>1, <1>5, TasksMeant
<1>7. /\ Tasks[o.rec].m = Logged[o.rec] /\ Tasks[o.rec].stack = StackStatus(Tasks[o.rec].m.level)
      /\ MeantOK(Tasks[o.rec].m)
  BY <1>1, <1>6, TasksMeant
<1> QED
  BY <1>1, <1>5, <1>7

\* No formatter replaces the time: GetFormatter configures none that does.
KeepsTime == \A s \in Scenarios : \A h \in DOMAIN s.hosts : ~ s.hosts[h].retimes

\* Every line written shows the caller and the stack trace that the scenario means.
LEMMA LinesInvCaller ==
  ASSUME KeepsTime, LinesInv
  PROVE  CallerKnown
<1> SUFFICES ASSUME NEW h \in Hosts, NEW o \in ToSet(out[h])
             PROVE  LET fm == env.hosts[h].fm
                        callers == Parts(o.entries, "caller")
                        stack == env.hosts[h].on[Logged[o.rec].level] = "stack"
                    IN  /\ fm.kind = "json" => /\ Len(callers) = IF fm.caller THEN 1 ELSE 0
                                               /\ \A i \in DOMAIN callers : callers[i].text = CallerText
                        /\ Len(Parts(o.entries, "stacktrace"))
                             = IF stack /\ AppFrames # {} /\ "stacktrace" \notin fm.disabled THEN 1 ELSE 0
  BY DEF CallerKnown
<1> DEFINE t == Tasks[o.rec]
<1>1. /\ env \in Scenarios /\ o.rec \in DOMAIN Tasks /\ t.m = Logged[o.rec] /\ MeantOK(t.m)
      /\ t.stack = StackStatus(t.m.level) /\ Enabled(h, t.m.level)
      /\ Written(env.hosts[h], t, o.entries, env.frames, env.limit, SortsInPlace)
  BY LineShown
<1>2. PICK F : IsSequence(F) /\ o.entries = LineOf(env.hosts[h], t, F, env.frames, env.limit)
  BY <1>1 DEF Written
<1>3. ~ env.hosts[h].retimes
  BY <1>1 DEF KeepsTime, Hosts
<1>4. ShowsTask(h, t, F, o.entries)
  BY <1>1, <1>2, <1>3 DEF ShowsTask
<1>5. t.m.level = Logged[o.rec].level
  BY <1>1
<1> HIDE DEF t
<1>6. LET fm == env.hosts[h].fm
          callers == Parts(o.entries, "caller")
          stack == env.hosts[h].on[t.m.level] = "stack"
      IN  /\ fm.kind = "json" => /\ Len(callers) = IF fm.caller THEN 1 ELSE 0
                                 /\ \A i \in DOMAIN callers : callers[i].text = CallerText
          /\ Len(Parts(o.entries, "stacktrace"))
               = IF stack /\ AppFrames # {} /\ "stacktrace" \notin fm.disabled THEN 1 ELSE 0
  BY <1>4, LineCaller
<1> QED
  BY <1>5, <1>6

\* CallerKnown: a host whose JSON formatter puts out the caller names the first frame
\* of the application that has a file, and a host whose level asks for a stack trace
\* gets one whenever the application is on the stack, whatever the other hosts need
\* (logger.go:51-57, logr.go:132-166, logrec.go:63-88) -- provided that no formatter
\* replaces the time, since WithTime (logrec.go:97) loses the caller.
THEOREM CallerKnownAlways ==
  ASSUME KeepsTime
  PROVE  RecordsSpec => []CallerKnown
<1>1. RecordsInit => LinesInv
  BY LinesInvInit
<1>2. LinesInv /\ [RecordsNext]_recordsVars => LinesInv'
  BY LinesInvStep
<1>3. LinesInv => CallerKnown
  BY LinesInvCaller
<1> QED
  BY <1>1, <1>2, <1>3, PTL DEF RecordsSpec

-----------------------------------------------------------------------------
(***************************************************************************)
(* Sorting: the formatters' order of keys is a strict total order on them, *)
(* and ranking the fields by it yields each of them once, in order.        *)
(***************************************************************************)

\* The place of a base.
LEMMA Ranks ==
  ASSUME NEW b \in BaseSet
  PROVE  Rank(b) \in Nat /\ Rank(b) \in DOMAIN Bases /\ Bases[Rank(b)] = b /\ Rank(b) >= 1 /\ (b = "" <=> Rank(b) = 1)
<1>1. \E i \in DOMAIN Bases : Bases[i] = b
  BY DEF BaseSet
<1>2. Rank(b) \in DOMAIN Bases /\ Bases[Rank(b)] = b
  BY <1>1 DEF Rank
<1>3. DOMAIN Bases = 1 .. Len(Bases) /\ Len(Bases) \in Nat /\ \A i \in DOMAIN Bases : Bases[i] = "" => i = 1
  BY BasesAssumption DEF IsSequence
<1>4. Bases[1] = ""
  <2>1. "" \in BaseSet
    BY BasesAssumption
  <2>2. PICK i \in DOMAIN Bases : Bases[i] = ""
    BY <2>1 DEF BaseSet
  <2> QED
    BY <1>3, <2>2
<1> DEFINE r == Rank(b)
<1> HIDE DEF r
<1>5. r \in 1 .. Len(Bases) /\ Bases[r] = b
  BY <1>2, <1>3 DEF r
<1>6. r \in Nat /\ r >= 1
  <2>1. \A n \in Nat : \A k \in 1 .. n : k \in Nat /\ k >= 1
    OBVIOUS
  <2>2. Len(Bases) \in Nat
    BY <1>3
  <2> QED
    BY <1>5, <2>1, <2>2
<1>7. b = "" <=> r = 1
  BY <1>3, <1>4, <1>5
<1> QED
  BY <1>2, <1>6, <1>7 DEF r

\* Keys compared by their underscores and the places of their bases.
KeyLess(u, r, v, q) == IF u = v THEN r < q ELSE IF u > v THEN q # 1 ELSE r = 1

\* The order of the sorters (FieldSorter, field.go:410-415) compares names by their
\* prefix first, then by their base; only the same key is neither before nor after.
LEMMA LessKeys ==
  ASSUME NEW f, IsKey(f.key), NEW g, IsKey(g.key)
  PROVE  /\ Less(f, g) <=> KeyLess(f.key[1], Rank(f.key[2]), g.key[1], Rank(g.key[2]))
         /\ f.key[1] = g.key[1] /\ Rank(f.key[2]) = Rank(g.key[2]) => f.key = g.key
<1>1. /\ f.key[2] = "" <=> Rank(f.key[2]) = 1
      /\ g.key[2] = "" <=> Rank(g.key[2]) = 1
      /\ Bases[Rank(f.key[2])] = f.key[2] /\ Bases[Rank(g.key[2])] = g.key[2]
  BY Ranks DEF IsKey
<1>2. Less(f, g) <=> KeyLess(f.key[1], Rank(f.key[2]), g.key[1], Rank(g.key[2]))
  BY <1>1 DEF Less, KeyLess
<1>3. f.key[1] = g.key[1] /\ Rank(f.key[2]) = Rank(g.key[2]) => f.key = g.key
  <2> SUFFICES ASSUME f.key[1] = g.key[1], Rank(f.key[2]) = Rank(g.key[2])
               PROVE  f.key = g.key
    OBVIOUS
  <2>1. f.key[2] = g.key[2]
    BY <1>1
  <2> QED
    BY <2>1 DEF IsKey
<1> QED
  BY <1>2, <1>3

\* Less orders keys: no key is less than itself, one of two different keys is less, and
\* the order is transitive.
LEMMA LessOrders ==
  ASSUME NEW f, IsKey(f.key), NEW g, IsKey(g.key)
  PROVE  /\ f.key = g.key => ~ Less(f, g)
         /\ Less(f, g) => ~ Less(g, f)
         /\ f.key = g.key \/ Less(f, g) \/ Less(g, f)
<1>1. /\ Less(f, g) <=> KeyLess(f.key[1], Rank(f.key[2]), g.key[1], Rank(g.key[2]))
      /\ f.key[1] = g.key[1] /\ Rank(f.key[2]) = Rank(g.key[2]) => f.key = g.key
      /\ Less(g, f) <=> KeyLess(g.key[1], Rank(g.key[2]), f.key[1], Rank(f.key[2]))
  BY LessKeys
<1>2. Rank(f.key[2]) \in Nat /\ Rank(g.key[2]) \in Nat /\ f.key[1] \in Nat /\ g.key[1] \in Nat
  BY Ranks DEF IsKey
<1> DEFINE u == f.key[1]
           r == Rank(f.key[2])
           v == g.key[1]
           q == Rank(g.key[2])
           same == f.key = g.key
<1>3. same => u = v /\ r = q
  OBVIOUS
<1> HIDE DEF u, r, v, q, same
<1>4. KeyLess(u, r, v, q) => ~ KeyLess(v, q, u, r)
  BY <1>2 DEF KeyLess, u, r, v, q
<1>5. KeyLess(u, r, v, q) \/ KeyLess(v, q, u, r) \/ (u = v /\ r = q)
  BY <1>2 DEF KeyLess, u, r, v, q
<1>6. u = v /\ r = q => ~ KeyLess(u, r, v, q)
  BY <1>2 DEF KeyLess, u, r, v, q
<1> QED
  BY <1>1, <1>3, <1>4, <1>5, <1>6 DEF u, r, v, q, same

\* The order of keys is transitive.
LEMMA LessTransitive ==
  ASSUME NEW f, IsKey(f.key), NEW g, IsKey(g.key), NEW e, IsKey(e.key), Less(f, g), Less(g, e)
  PROVE  Less(f, e)
<1> DEFINE u == f.key[1]
           r == Rank(f.key[2])
           v == g.key[1]
           q == Rank(g.key[2])
           w == e.key[1]
           x == Rank(e.key[2])
<1>1. /\ Less(f, g) <=> KeyLess(u, r, v, q)
      /\ Less(g, e) <=> KeyLess(v, q, w, x)
      /\ Less(f, e) <=> KeyLess(u, r, w, x)
  BY LessKeys
<1>2. u \in Nat /\ r \in Nat /\ v \in Nat /\ q \in Nat /\ w \in Nat /\ x \in Nat /\ r >= 1 /\ q >= 1 /\ x >= 1
  BY Ranks DEF IsKey
<1> HIDE DEF u, r, v, q, w, x
<1>3. KeyLess(u, r, v, q) /\ KeyLess(v, q, w, x) => KeyLess(u, r, w, x)
  BY <1>2 DEF KeyLess
<1> QED
  BY <1>1, <1>3

\* Fields with keys.
Keyed(fields) == IsSequence(fields) /\ \A i \in 1 .. Len(fields) : IsKey(fields[i].key)

\* Before orders the fields: by their keys and then by their places.
LEMMA BeforeOrders ==
  ASSUME NEW s, Keyed(s), NEW i \in 1 .. Len(s), NEW j \in 1 .. Len(s)
  PROVE  /\ ~ Before(s, i, i)
         /\ i # j => Before(s, i, j) \/ Before(s, j, i)
         /\ \A k \in 1 .. Len(s) : Before(s, i, j) /\ Before(s, j, k) => Before(s, i, k)
<1>1. IsKey(s[i].key) /\ IsKey(s[j].key)
  BY DEF Keyed
<1>2. ~ Less(s[i], s[i])
  BY <1>1, LessOrders
<1>3. Less(s[i], s[j]) => ~ Less(s[j], s[i])
  BY <1>1, LessOrders
<1>4. ~ Before(s, i, i)
  BY <1>2 DEF Before
<1>5. i # j => Before(s, i, j) \/ Before(s, j, i)
  <2>1. i # j => i < j \/ j < i
    OBVIOUS
  <2> QED
    BY <2>1 DEF Before
<1>6. ASSUME NEW k \in 1 .. Len(s), Before(s, i, j), Before(s, j, k)
      PROVE  Before(s, i, k)
  <2>1. IsKey(s[k].key)
    BY DEF Keyed
  <2>2. /\ s[i].key = s[j].key \/ Less(s[i], s[j]) \/ Less(s[j], s[i])
        /\ s[j].key = s[k].key \/ Less(s[j], s[k]) \/ Less(s[k], s[j])
    BY <1>1, <2>1, LessOrders
  <2>3. Less(s[i], s[j]) \/ (s[i].key = s[j].key /\ i < j)
    BY <1>6, <2>2 DEF Before
  <2>4. Less(s[j], s[k]) \/ (s[j].key = s[k].key /\ j < k)
    BY <1>6, <2>2 DEF Before
  <2>5. CASE Less(s[i], s[j]) /\ Less(s[j], s[k])
    BY <1>1, <2>1, <2>5, LessTransitive DEF Before
  <2>6. CASE Less(s[i], s[j]) /\ s[j].key = s[k].key
    <3>1. Less(s[i], s[k])
      <4>1. Less(s[i], s[j]) <=> KeyLess(s[i].key[1], Rank(s[i].key[2]), s[j].key[1], Rank(s[j].key[2]))
        BY <1>1, LessKeys
      <4>2. Less(s[j], s[k]) <=> KeyLess(s[j].key[1], Rank(s[j].key[2]), s[k].key[1], Rank(s[k].key[2]))
        BY <1>1, <2>1, LessKeys
      <4>3. Less(s[i], s[k]) <=> KeyLess(s[i].key[1], Rank(s[i].key[2]), s[k].key[1], Rank(s[k].key[2]))
        BY <1>1, <2>1, LessKeys
      <4> QED
        BY <2>6, <4>1, <4>2, <4>3
    <3> QED
      BY <3>1 DEF Before
  <2>7. CASE s[i].key = s[j].key /\ Less(s[j], s[k])
    <3>1. Less(s[i], s[k])
      <4>1. Less(s[i], s[j]) <=> KeyLess(s[i].key[1], Rank(s[i].key[2]), s[j].key[1], Rank(s[j].key[2]))
        BY <1>1, LessKeys
      <4>2. Less(s[j], s[k]) <=> KeyLess(s[j].key[1], Rank(s[j].key[2]), s[k].key[1], Rank(s[k].key[2]))
        BY <1>1, <2>1, LessKeys
      <4>3. Less(s[i], s[k]) <=> KeyLess(s[i].key[1], Rank(s[i].key[2]), s[k].key[1], Rank(s[k].key[2]))
        BY <1>1, <2>1, LessKeys
      <4> QED
        BY <2>7, <4>1, <4>2, <4>3
    <3> QED
      BY <3>1 DEF Before
  <2>8. CASE s[i].key = s[j].key /\ s[j].key = s[k].key /\ i < j /\ j < k
    <3>1. ~ Less(s[k], s[i])
      BY <1>1, <2>1, <2>8, LessOrders
    <3>2. i < k
      BY <2>8
    <3> QED
      BY <3>1, <3>2 DEF Before
  <2> QED
    BY <2>3, <2>4, <2>5, <2>6, <2>7, <2>8
<1> QED
  BY <1>4, <1>5, <1>6

\* How many fields come before one.
Ahead(s, i) == Cardinality({j \in DOMAIN s : Before(s, j, i)})

\* Fewer fields come before one than before those behind it.
LEMMA AheadLess ==
  ASSUME NEW s, Keyed(s), NEW i \in 1 .. Len(s), NEW k \in 1 .. Len(s)
  PROVE  /\ Ahead(s, i) \in 0 .. Len(s) - 1
         /\ Before(s, i, k) => Ahead(s, i) < Ahead(s, k)
<1>1. DOMAIN s = 1 .. Len(s) /\ Len(s) \in Nat
  BY DEF Keyed, IsSequence
<1> DEFINE n == Len(s)
           R(x) == {j \in 1 .. n : Before(s, j, x)}
<1>2. Ahead(s, i) = Cardinality(R(i)) /\ Ahead(s, k) = Cardinality(R(k))
  BY <1>1 DEF Ahead
<1>3. IsFiniteSet(1 .. n) /\ Cardinality(1 .. n) = n
  <2> HIDE DEF n
  <2>1. n \in Nat
    BY <1>1 DEF n
  <2>2. IsFiniteSet(1 .. n) /\ Cardinality(1 .. n) = IF 1 > n THEN 0 ELSE n - 1 + 1
    BY <2>1, FS_Interval
  <2> QED
    BY <2>1, <2>2
<1>4. i \notin R(i) /\ k \notin R(k)
  BY BeforeOrders
<1>5. R(i) \in SUBSET (1 .. n) /\ R(k) \in SUBSET (1 .. n) /\ i \in 1 .. n
  OBVIOUS
<1>6. Before(s, i, k) => i \in R(k) /\ R(i) \in SUBSET R(k)
  <2> SUFFICES ASSUME Before(s, i, k), NEW j \in 1 .. n, Before(s, j, i)
               PROVE  Before(s, j, k)
    BY <1>5
  <2> QED
    BY BeforeOrders
<1> HIDE DEF R, n
<1>7. IsFiniteSet(R(i)) /\ IsFiniteSet(R(k)) /\ Cardinality(R(i)) <= n
      /\ (Cardinality(1 .. n) = Cardinality(R(i)) => 1 .. n = R(i))
  BY <1>3, <1>5, FS_Subset
<1>8. Cardinality(R(i)) \in Nat /\ Cardinality(R(k)) \in Nat
  BY <1>7, FS_CardinalityType
<1>9. Cardinality(R(i)) # n
  BY <1>3, <1>4, <1>5, <1>7
<1>10. Ahead(s, i) \in 0 .. n - 1
  BY <1>1, <1>2, <1>7, <1>8, <1>9 DEF n
<1>11. Before(s, i, k) => Ahead(s, i) < Ahead(s, k)
  <2> SUFFICES ASSUME Before(s, i, k)
               PROVE  Cardinality(R(i)) < Cardinality(R(k))
    BY <1>2
  <2>1. Cardinality(R(i)) <= Cardinality(R(k)) /\ (Cardinality(R(k)) = Cardinality(R(i)) => R(k) = R(i))
    BY <1>6, <1>7, FS_Subset
  <2> QED
    BY <1>4, <1>6, <1>8, <2>1
<1> QED
  BY <1>10, <1>11 DEF n

\* What the sorters of json.go:143 and gelf.go:113 return: all the fields, each once, none behind
\* one with a larger key.
THEOREM SortedOrder ==
  ASSUME NEW s, Keyed(s)
  PROVE  \E p \in Bijection(1 .. Len(s), 1 .. Len(s)) :
           /\ Sorted(s) = [k \in 1 .. Len(s) |-> s[p[k]]]
           /\ \A k \in 1 .. Len(s) - 1 : ~ Less(s[p[k + 1]], s[p[k]])
<1> DEFINE n == Len(s)
           D == 1 .. n
           f == [i \in D |-> Ahead(s, i) + 1]
           p == [k \in D |-> CHOOSE i \in D : Ahead(s, i) = k - 1]
<1>1. DOMAIN s = D /\ n \in Nat
  BY DEF Keyed, IsSequence
<1>2. \A i \in D : Ahead(s, i) \in 0 .. n - 1
  BY AheadLess
<1>3. \A i, j \in D : i # j => Ahead(s, i) # Ahead(s, j)
  <2> SUFFICES ASSUME NEW i \in D, NEW j \in D, i # j
               PROVE  Ahead(s, i) # Ahead(s, j)
    OBVIOUS
  <2>1. Before(s, i, j) \/ Before(s, j, i)
    BY BeforeOrders
  <2>2. Before(s, i, j) => Ahead(s, i) < Ahead(s, j)
    BY AheadLess
  <2>3. Before(s, j, i) => Ahead(s, j) < Ahead(s, i)
    BY AheadLess
  <2>4. Ahead(s, i) \in Nat /\ Ahead(s, j) \in Nat
    BY <1>1, <1>2
  <2> QED
    BY <2>1, <2>2, <2>3, <2>4
<1>4. f \in Injection(D, D)
  <2>1. \A i \in D : f[i] \in D
    <3> SUFFICES ASSUME NEW i \in D
                 PROVE  Ahead(s, i) + 1 \in 1 .. n
      OBVIOUS
    <3>1. Ahead(s, i) \in 0 .. n - 1
      BY <1>2
    <3> QED
      BY <1>1, <3>1
  <2>2. \A i, j \in D : f[i] = f[j] => i = j
    <3> SUFFICES ASSUME NEW i \in D, NEW j \in D, Ahead(s, i) + 1 = Ahead(s, j) + 1
                 PROVE  i = j
      OBVIOUS
    <3>1. Ahead(s, i) \in 0 .. n - 1 /\ Ahead(s, j) \in 0 .. n - 1
      BY <1>2
    <3>2. Ahead(s, i) = Ahead(s, j)
      BY <1>1, <3>1
    <3> QED
      BY <1>3, <3>2
  <2>3. f \in [D -> D] /\ DOMAIN f = D
    BY <2>1
  <2> HIDE DEF f
  <2> QED
    BY <2>2, <2>3 DEF Injection, IsInjective
<1>5. \A k \in D : \E i \in D : f[i] = k
  <2>1. IsFiniteSet(D)
    BY <1>1, FS_Interval
  <2> HIDE DEF f, D
  <2>2. f \in Surjection(D, D)
    BY <1>4, <2>1, FS_Injection
  <2> QED
    BY <2>2 DEF Surjection
<1>6. \A k \in D : p[k] \in D /\ Ahead(s, p[k]) = k - 1
  <2> SUFFICES ASSUME NEW k \in D
               PROVE  \E i \in D : Ahead(s, i) = k - 1
    BY DEF p
  <2>1. PICK i \in D : f[i] = k
    BY <1>5
  <2>2. Ahead(s, i) \in 0 .. n - 1 /\ Ahead(s, i) + 1 = k
    BY <1>2, <2>1
  <2> QED
    BY <1>1, <2>2
<1>7. Sorted(s) = [k \in D |-> s[p[k]]]
  <2>1. Sorted(s) = [k \in D |-> s[CHOOSE i \in D : Ahead(s, i) = k - 1]]
    BY <1>1 DEF Sorted, Ahead
  <2> QED
    BY <2>1 DEF p
<1> HIDE DEF p
<1>8. p \in Bijection(D, D)
  <2>1. p \in [D -> D] /\ DOMAIN p = D
    BY <1>6 DEF p
  <2>2. \A k, l \in D : p[k] = p[l] => k = l
    BY <1>1, <1>6
  <2>3. \A i \in D : \E k \in D : p[k] = i
    <3> SUFFICES ASSUME NEW i \in D
                 PROVE  \E k \in D : p[k] = i
      OBVIOUS
    <3> DEFINE k == Ahead(s, i) + 1
    <3>1. Ahead(s, i) \in 0 .. n - 1
      BY <1>2
    <3>2. k \in D /\ k - 1 = Ahead(s, i)
      BY <1>1, <3>1
    <3>3. Ahead(s, p[k]) = Ahead(s, i) /\ p[k] \in D
      BY <1>6, <3>2
    <3>4. p[k] = i
      BY <1>3, <3>3
    <3> QED
      BY <3>2, <3>4
  <2> HIDE DEF D
  <2> QED
    BY <2>1, <2>2, <2>3 DEF Bijection, Injection, Surjection, IsInjective
<1>9. ASSUME NEW k \in 1 .. n - 1
      PROVE  ~ Less(s[p[k + 1]], s[p[k]])
  <2>1. k \in D /\ k + 1 \in D
    BY <1>1
  <2>2. p[k] \in D /\ p[k + 1] \in D /\ Ahead(s, p[k]) = k - 1 /\ Ahead(s, p[k + 1]) = (k + 1) - 1
    BY <1>6, <2>1
  <2>3. Before(s, p[k + 1], p[k]) => Ahead(s, p[k + 1]) < Ahead(s, p[k])
    BY <2>2, AheadLess
  <2>4. ~ ((k + 1) - 1 < k - 1)
    OBVIOUS
  <2>5. ~ Before(s, p[k + 1], p[k])
    BY <2>2, <2>3, <2>4
  <2> QED
    BY <2>5 DEF Before
<1> QED
  BY <1>7, <1>8, <1>9

-----------------------------------------------------------------------------
(***************************************************************************)
(* The keys on a line (KeysDistinct).                                      *)
(***************************************************************************)

\* Where an entry is among those of its part.
PlacesOf(s, p, at) ==
    /\ \A i \in 1 .. Len(s) : s[i].part = p => at[i] \in DOMAIN Parts(s, p) /\ Parts(s, p)[at[i]] = s[i]
    /\ \A i, j \in 1 .. Len(s) : s[i].part = p /\ s[j].part = p /\ i # j => at[i] # at[j]

\* An entry of a line is in the part it belongs to, at a place of its own.
LEMMA PartsElements ==
  ASSUME NEW s, IsSequence(s), NEW p
  PROVE  /\ IsSequence(Parts(s, p))
         /\ \E at \in [1 .. Len(s) -> Nat] : PlacesOf(s, p, at)
<1> DEFINE S == {i \in DOMAIN s : s[i].part = p}
           n == Len(s)
           c == Cardinality(S)
           q == InOrder(S)
<1>1. DOMAIN s = 1 .. n /\ n \in Nat /\ S \in SUBSET (1 .. n)
  BY DEF IsSequence
<1>2. Parts(s, p) = ElementsAt(s, S)
  BY DEF Parts
<1>3. \A i \in 1 .. n : i \in S <=> s[i].part = p
  BY <1>1
<1> HIDE DEF S
<1>4. /\ IsFiniteSet(S) /\ c \in Nat /\ DOMAIN q = 1 .. c
      /\ \A j \in 1 .. c : q[j] \in S
      /\ \A i \in S : \E j \in 1 .. c : q[j] = i
  BY <1>1, InOrderLists
<1>5. IsSequence(Parts(s, p)) /\ DOMAIN Parts(s, p) = 1 .. c /\ \A j \in 1 .. c : Parts(s, p)[j] = s[q[j]]
  <2>1. IsSequence(Parts(s, p))
    BY <1>2, <1>4, ElementsSequence
  <2>2. Parts(s, p) = [j \in DOMAIN q |-> s[q[j]]]
    BY <1>2 DEF ElementsAt
  <2> HIDE DEF q, c
  <2>3. DOMAIN Parts(s, p) = 1 .. c /\ \A j \in 1 .. c : Parts(s, p)[j] = s[q[j]]
    BY <1>4, <2>2
  <2> QED
    BY <2>1, <2>3
<1> HIDE DEF q, c, n
<1> DEFINE at == [i \in 1 .. n |-> IF i \in S THEN CHOOSE j \in 1 .. c : q[j] = i ELSE 0]
<1>6. \A i \in 1 .. n : i \in S => at[i] \in 1 .. c /\ q[at[i]] = i
  BY <1>4
<1>7. at \in [1 .. n -> Nat]
  <2> SUFFICES ASSUME NEW i \in 1 .. n
               PROVE  at[i] \in Nat
    OBVIOUS
  <2>1. i \notin S => at[i] = 0
    OBVIOUS
  <2>2. 1 .. c \subseteq Nat
    BY <1>4
  <2> HIDE DEF at
  <2> QED
    BY <1>6, <2>1, <2>2
<1> HIDE DEF at
<1>8. \A i \in 1 .. n : s[i].part = p => at[i] \in DOMAIN Parts(s, p) /\ Parts(s, p)[at[i]] = s[i]
  BY <1>3, <1>5, <1>6
<1>9. \A i, j \in 1 .. n : s[i].part = p /\ s[j].part = p /\ i # j => at[i] # at[j]
  BY <1>3, <1>6
<1> QED
  BY <1>5, <1>7, <1>8, <1>9 DEF n, PlacesOf

\* Entries that do not have the same key in the same object.
Unlike(d, e) == d.in # e.in \/ d.key # e.key
Apart(s) == \A a, b \in DOMAIN s : a # b => Unlike(s[a], s[b])

\* Entries are apart when those of one part are, and those of different parts.
LEMMA PartsApart ==
  ASSUME NEW s, IsSequence(s), \A p : Apart(Parts(s, p)),
         \A p, q : p # q => \A a \in DOMAIN Parts(s, p), b \in DOMAIN Parts(s, q) : Unlike(Parts(s, p)[a], Parts(s, q)[b])
  PROVE  Apart(s)
<1> SUFFICES ASSUME NEW i \in DOMAIN s, NEW j \in DOMAIN s, i # j
             PROVE  Unlike(s[i], s[j])
  BY DEF Apart
<1> DEFINE p == s[i].part
           q == s[j].part
<1>1. i \in 1 .. Len(s) /\ j \in 1 .. Len(s)
  BY DEF IsSequence
<1> HIDE DEF p, q
<1>2. PICK at \in [1 .. Len(s) -> Nat] : PlacesOf(s, p, at)
  BY PartsElements
<1>3. PICK bt \in [1 .. Len(s) -> Nat] : PlacesOf(s, q, bt)
  BY PartsElements
<1>4. CASE p = q
  <2>1. at[i] \in DOMAIN Parts(s, p) /\ Parts(s, p)[at[i]] = s[i] /\ at[j] \in DOMAIN Parts(s, p) /\ Parts(s, p)[at[j]] = s[j]
        /\ at[i] # at[j]
    BY <1>1, <1>2, <1>4 DEF p, q, PlacesOf
  <2> QED
    BY <2>1 DEF Apart
<1>5. CASE p # q
  <2>1. at[i] \in DOMAIN Parts(s, p) /\ Parts(s, p)[at[i]] = s[i]
    BY <1>1, <1>2 DEF p, PlacesOf
  <2>2. bt[j] \in DOMAIN Parts(s, q) /\ Parts(s, q)[bt[j]] = s[j]
    BY <1>1, <1>3 DEF q, PlacesOf
  <2>3. Unlike(Parts(s, p)[at[i]], Parts(s, q)[bt[j]])
    BY <1>5, <2>1, <2>2
  <2> QED
    BY <2>1, <2>2, <2>3
<1> QED
  BY <1>4, <1>5

\* The fields of a record as one formatter puts them out: all of them, each once.
Shuffled(s, all) ==
    /\ IsSequence(s) /\ Len(s) = Len(all)
    /\ \E p \in Bijection(1 .. Len(all), 1 .. Len(all)) : \A k \in 1 .. Len(all) : s[k] = all[p[k]]

\* Fields that are not sorted are all there.
LEMMA ShuffledSame ==
  ASSUME NEW all, IsSequence(all)
  PROVE  Shuffled(all, all)
<1> DEFINE D == 1 .. Len(all)
           p == [k \in D |-> k]
<1>1. p \in Bijection(D, D)
  <2> HIDE DEF D
  <2>1. p \in [D -> D] /\ \A k \in D : p[k] = k
    OBVIOUS
  <2> HIDE DEF p
  <2> QED
    BY <2>1 DEF Bijection, Injection, Surjection, IsInjective
<1>2. \A k \in D : all[k] = all[p[k]]
  OBVIOUS
<1> HIDE DEF p
<1> QED
  BY <1>1, <1>2 DEF Shuffled

\* Sorting loses no field and doubles none.
LEMMA ShuffledSorted ==
  ASSUME NEW all, Keyed(all)
  PROVE  Shuffled(Sorted(all), all)
<1>1. PICK p \in Bijection(1 .. Len(all), 1 .. Len(all)) : Sorted(all) = [k \in 1 .. Len(all) |-> all[p[k]]]
  BY SortedOrder
<1>2. IsSequence(Sorted(all)) /\ Len(Sorted(all)) = Len(all)
  BY SortedSequence DEF Keyed
<1>3. \A k \in 1 .. Len(all) : Sorted(all)[k] = all[p[k]]
  BY <1>1
<1> QED
  BY <1>2, <1>3 DEF Shuffled

\* What prep gathered: the fields of the logger and those of the call, with their keys
\* and types.
GatheredAs(F, all, a, limit) ==
    /\ IsSequence(F) /\ IsSequence(all) /\ Len(F) = Len(all) /\ DOMAIN all = 1 .. Len(all) /\ DOMAIN F = 1 .. Len(all)
    /\ Keyed(F)
    /\ \A i \in 1 .. Len(F) : /\ IsField(F[i]) /\ IsMeant(all[i])
                              /\ F[i].key = all[i].key /\ F[i].type = all[i].type /\ F[i].val.bad = all[i].val.bad
    /\ \A i \in 1 .. Len(F) : (i <= a => F[i] = all[i]) /\ (i > a => Settled(F[i], all[i], limit))

\* What prep gathered (logrec.go:58-61) are the fields of the logger, then those of the call
\* as enqueue left them (logr.go:256-270).
LEMMA Gathered ==
  ASSUME NEW m, MeantOK(m), NEW F, NEW limit \in Int, Gathers(F, m, Len(m.fields), limit)
  PROVE  GatheredAs(F, m.with \o m.fields, Len(m.with), limit)
<1> DEFINE a == Len(m.with)
           b == Len(m.fields)
           all == m.with \o m.fields
<1>1. IsSequence(m.with) /\ IsSequence(m.fields) /\ a \in Nat /\ b \in Nat
      /\ (\A i \in 1 .. a : IsMeant(m.with[i])) /\ \A i \in 1 .. b : IsMeant(m.fields[i])
  BY DEF MeantOK, NewFields, IsSequence
<1>2. IsSequence(all) /\ Len(all) = a + b
      /\ (\A i \in 1 .. a : all[i] = m.with[i])
  BY <1>1, ConcatSequence
<1>3. \A i \in 1 .. b : all[a + i] = m.fields[i]
  <2>1. \A s, t : IsSequence(s) /\ IsSequence(t) => \A i \in 1 .. Len(t) : (s \o t)[Len(s) + i] = t[i]
    BY ConcatSequence
  <2>2. IsSequence(m.with) /\ IsSequence(m.fields)
    BY <1>1
  <2> QED
    BY <2>1, <2>2
<1>4. IsSequence(F) /\ Len(F) = a + b
      /\ (\A i \in 1 .. a : F[i] = m.with[i]) /\ \A i \in 1 .. b : Settled(F[a + i], m.fields[i], limit)
  BY DEF Gathers
<1> HIDE DEF all, a, b
<1>5. ASSUME NEW i \in 1 .. a + b
      PROVE  /\ IsField(F[i]) /\ IsMeant(all[i])
             /\ F[i].key = all[i].key /\ F[i].type = all[i].type /\ F[i].val.bad = all[i].val.bad
             /\ (i <= a => F[i] = all[i]) /\ (i > a => Settled(F[i], all[i], limit))
  <2>1. CASE i \in 1 .. a
    <3>1. F[i] = all[i] /\ IsMeant(all[i]) /\ ~ (i > a)
      BY <1>1, <1>2, <1>4, <2>1
    <3> QED
      BY <3>1 DEF IsMeant, IsNew
  <2>2. CASE i \notin 1 .. a
    <3>1. i - a \in 1 .. b /\ a + (i - a) = i
      BY <1>1, <2>2
    <3>2. all[i] = m.fields[i - a] /\ IsMeant(m.fields[i - a])
      BY <1>1, <1>3, <3>1
    <3>3. Settled(F[i], m.fields[i - a], limit)
      BY <1>4, <3>1
    <3>4. Settled(F[i], all[i], limit) /\ ~ (i <= a)
      BY <1>1, <2>2, <3>2, <3>3
    <3> QED
      BY <3>2, <3>4 DEF Settled, Derived
  <2> QED
    BY <2>1, <2>2
<1>6. DOMAIN all = 1 .. a + b /\ DOMAIN F = 1 .. a + b
  BY <1>2, <1>4 DEF IsSequence
<1>7. Keyed(F)
  BY <1>4, <1>5 DEF Keyed, IsField
<1> QED
  BY <1>2, <1>4, <1>5, <1>6, <1>7 DEF GatheredAs, all, a

\* The only entry of a part.
LEMMA OptionalEntry ==
  ASSUME NEW b \in BOOLEAN, NEW part, NEW key, NEW text, NEW s, s = Optional(b, Entry(part, key, text)), NEW a \in DOMAIN s
  PROVE  b /\ a = 1 /\ s[a].key = key /\ s[a].in = "top" /\ s[a].text = text
<1> DEFINE e == Entry(part, key, text)
<1>1. e.key = key /\ e.in = "top" /\ e.text = text
  BY DEF Entry
<1> HIDE DEF e
<1>2. s = Optional(b, e)
  BY DEF e
<1>3. /\ Len(s) = IF b THEN 1 ELSE 0
      /\ DOMAIN s = 1 .. Len(s)
      /\ \A i \in DOMAIN s : b /\ s[i] = e
  BY <1>2, OptionalLen
<1>4. b /\ s[a] = e
  BY <1>3
<1>5. a = 1
  BY <1>3, <1>4
<1> QED
  BY <1>1, <1>4, <1>5

\* Fields whose keys are different and begin with no underscore.
OwnKeys(F) ==
    /\ IsSequence(F)
    /\ \A i \in 1 .. Len(F) : IsField(F[i]) /\ F[i].key[1] = 0
    /\ \A i, j \in 1 .. Len(F) : i # j => F[i].key # F[j].key

\* Reordering fields keeps their keys apart.
LEMMA ShuffledKeys ==
  ASSUME NEW F, OwnKeys(F), NEW G, Shuffled(G, F)
  PROVE  OwnKeys(G) /\ \A k \in 1 .. Len(G) : \E i \in 1 .. Len(F) : G[k] = F[i]
<1> DEFINE D == 1 .. Len(F)
<1>1. PICK p \in Bijection(D, D) : \A k \in D : G[k] = F[p[k]]
  BY DEF Shuffled
<1>2. IsSequence(G) /\ Len(G) = Len(F)
  BY DEF Shuffled
<1> HIDE DEF D
<1>3. (\A k \in D : p[k] \in D) /\ \A k, l \in D : p[k] = p[l] => k = l
  BY DEF Bijection, Injection, IsInjective
<1>4. (\A i \in D : IsField(F[i]) /\ F[i].key[1] = 0) /\ \A i, j \in D : i # j => F[i].key # F[j].key
  BY DEF OwnKeys, D
<1>5. \A k \in D : IsField(G[k]) /\ G[k].key[1] = 0
  BY <1>1, <1>3, <1>4
<1>6. ASSUME NEW k \in D, NEW l \in D, k # l
      PROVE  G[k].key # G[l].key
  <2>1. p[k] \in D /\ p[l] \in D /\ p[k] # p[l]
    BY <1>3, <1>6
  <2> QED
    BY <1>1, <1>4, <2>1
<1> QED
  BY <1>1, <1>2, <1>3, <1>5, <1>6 DEF OwnKeys, D

\* The order of the fields in JSON.
LEMMA JSONShuffled ==
  ASSUME NEW fm, NEW F, Keyed(F)
  PROVE  Shuffled(JSONFields(fm, F), F)
  BY ShuffledSame, ShuffledSorted DEF JSONFields, Keyed

\* prefixCollision (json.go:172-180) keeps apart what was apart.
LEMMA CollisionApart ==
  ASSUME NEW fm, IsFormatter(fm), NEW f, IsField(f), f.key[1] = 0
  PROVE  /\ PrefixCollision(fm, f).key \notin {KeyName(fm, n) : n \in {"timestamp", "level", "msg", "stacktrace"}}
         /\ PrefixCollision(fm, f).key[2] = f.key[2]
         /\ PrefixCollision(fm, f).key[1] = 0 => PrefixCollision(fm, f).key = f.key
<1> DEFINE g == PrefixCollision(fm, f)
<1>1. /\ g.key \notin {KeyName(fm, n) : n \in {"timestamp", "level", "msg", "stacktrace"}}
      /\ g = [f EXCEPT !.key = <<g.key[1], f.key[2]>>]
  BY CollisionAvoided
<1>2. f = [key |-> f.key, type |-> f.type, val |-> f.val] /\ f.key = <<f.key[1], f.key[2]>>
  BY DEF IsField, IsKey
<1> DEFINE k == <<g.key[1], f.key[2]>>
<1>3. g.key = k
  <2> HIDE DEF k, g
  <2>1. g = [f EXCEPT !.key = k]
    BY <1>1 DEF k
  <2> QED
    BY <1>2, <2>1
<1> HIDE DEF g
<1>4. g.key[2] = f.key[2] /\ (g.key[1] = 0 => g.key = f.key)
  BY <1>2, <1>3
<1> QED
  BY <1>1, <1>4 DEF g

\* The keys of the fields in JSON.
LEMMA JSONFieldKeys ==
  ASSUME NEW fm, NEW F, IsSequence(F), NEW limit, NEW G, G = JSONFields(fm, F), IsSequence(G),
         NEW a \in DOMAIN JSONEntries(fm, F, limit)
  PROVE  LET e == JSONEntries(fm, F, limit)[a] IN
         /\ a \in 1 .. Len(G)
         /\ KeyName(fm, "group") # NoName => e.in = "group" /\ e.key = G[a].key /\ e.text = EncodeField(G[a], limit).text
         /\ KeyName(fm, "group") = NoName =>
              /\ e.in = "top" /\ e.key = PrefixCollision(fm, G[a]).key
              /\ e.text = EncodeField(PrefixCollision(fm, G[a]), limit).text
<1>1. DOMAIN G = 1 .. Len(G)
  BY DEF IsSequence
<1>2. "fields" \notin fm.disabled
  BY DEF JSONEntries
<1>3. CASE KeyName(fm, "group") # NoName
  <2>1. JSONEntries(fm, F, limit) = [i \in DOMAIN G |-> [EncodeField(G[i], limit) EXCEPT !.in = "group"]]
    BY <1>2, <1>3 DEF JSONEntries
  <2>2. a \in 1 .. Len(G) /\ JSONEntries(fm, F, limit)[a] = [EncodeField(G[a], limit) EXCEPT !.in = "group"]
    BY <1>1, <2>1
  <2>3. EncodeField(G[a], limit) = [part |-> "field", key |-> G[a].key, in |-> "top", text |-> EncodeField(G[a], limit).text]
    BY Encoded
  <2> DEFINE x == EncodeField(G[a], limit)
  <2>4. x = [part |-> "field", key |-> G[a].key, in |-> "top", text |-> x.text]
    BY <2>3
  <2> HIDE DEF x
  <2>5. [x EXCEPT !.in = "group"].in = "group" /\ [x EXCEPT !.in = "group"].key = G[a].key /\ [x EXCEPT !.in = "group"].text = x.text
    BY <2>4
  <2> QED
    BY <1>3, <2>2, <2>5 DEF x
<1>4. CASE KeyName(fm, "group") = NoName
  <2>1. JSONEntries(fm, F, limit) = [i \in DOMAIN G |-> EncodeField(PrefixCollision(fm, G[i]), limit)]
    BY <1>2, <1>4 DEF JSONEntries
  <2>2. a \in 1 .. Len(G) /\ JSONEntries(fm, F, limit)[a] = EncodeField(PrefixCollision(fm, G[a]), limit)
    BY <1>1, <2>1
  <2> DEFINE f == PrefixCollision(fm, G[a])
             x == EncodeField(f, limit)
  <2> HIDE DEF f
  <2>3. x = [part |-> "field", key |-> f.key, in |-> "top", text |-> x.text]
    BY Encoded
  <2> HIDE DEF x
  <2>4. x.in = "top" /\ x.key = f.key
    BY <2>3
  <2> QED
    BY <1>4, <2>2, <2>4 DEF x, f
<1> QED
  BY <1>3, <1>4

\* What keeps the keys of JSON apart: names that are different, and a caller that no
\* field is called like.
OwnNames(fm, F) ==
    /\ \A n, k \in NameOf : n # k => KeyName(fm, n) # KeyName(fm, k)
    /\ KeyName(fm, "caller")[1] = 0
    /\ fm.caller => \A i \in 1 .. Len(F) : F[i].key # KeyName(fm, "caller")

\* No JSON object has a key twice (json.go:123-180).
LEMMA JSONApart ==
  ASSUME NEW fm, IsFormatter(fm), NEW rec, OwnKeys(rec.fieldsAll), OwnNames(fm, rec.fieldsAll),
         NEW stack \in BOOLEAN, NEW limit
  PROVE  Apart(JSONFormat(fm, rec, stack, limit))
<1> DEFINE F == rec.fieldsAll
           G == JSONFields(fm, F)
           e == JSONFormat(fm, rec, stack, limit)
           b1 == "timestamp" \notin fm.disabled
           b2 == "level" \notin fm.disabled
           b3 == "msg" \notin fm.disabled
           b5 == "fields" \notin fm.disabled /\ KeyName(fm, "group") # NoName
           b7 == "stacktrace" \notin fm.disabled /\ HasStack(rec, stack)
<1>1. fm.caller \in BOOLEAN /\ IsSequence(F) /\ b1 \in BOOLEAN /\ b2 \in BOOLEAN /\ b3 \in BOOLEAN /\ b5 \in BOOLEAN /\ b7 \in BOOLEAN
  BY DEF IsFormatter, OwnKeys, HasStack
<1>2. /\ IsSequence(e)
      /\ \A p : Parts(e, p) =
              IF p = "timestamp" THEN Optional(b1, Entry("timestamp", KeyName(fm, "timestamp"), NoText))
              ELSE IF p = "level" THEN Optional(b2, Entry("level", KeyName(fm, "level"), NoText))
              ELSE IF p = "msg" THEN Optional(b3, Entry("msg", KeyName(fm, "msg"), rec.msg))
              ELSE IF p = "caller" THEN Optional(fm.caller, Entry("caller", KeyName(fm, "caller"), rec.caller))
              ELSE IF p = "group" THEN Optional(b5, Entry("group", KeyName(fm, "group"), NoText))
              ELSE IF p = "field" THEN JSONEntries(fm, F, limit)
              ELSE IF p = "stacktrace" THEN Optional(b7, Entry("stacktrace", KeyName(fm, "stacktrace"), NoText))
              ELSE <<>>
  BY <1>1, JSONParts
<1>3. OwnKeys(G) /\ IsSequence(G) /\ \A k \in 1 .. Len(G) : \E i \in 1 .. Len(F) : G[k] = F[i]
  <2>1. Keyed(F)
    BY DEF OwnKeys, Keyed, IsField
  <2>2. Shuffled(G, F)
    BY <2>1, JSONShuffled
  <2>3. OwnKeys(F)
    OBVIOUS
  <2> HIDE DEF F, G
  <2>4. \A x, y : OwnKeys(x) /\ Shuffled(y, x) =>
          OwnKeys(y) /\ \A k \in 1 .. Len(y) : \E i \in 1 .. Len(x) : y[k] = x[i]
    BY ShuffledKeys
  <2>5. OwnKeys(G) /\ \A k \in 1 .. Len(G) : \E i \in 1 .. Len(F) : G[k] = F[i]
    BY <2>2, <2>3, <2>4
  <2> QED
    BY <2>5 DEF OwnKeys
<1> HIDE DEF e, b1, b2, b3, b5, b7
<1>4. ASSUME NEW p \in NameOf, NEW a \in DOMAIN Parts(e, p)
      PROVE  /\ a = 1 /\ Parts(e, p)[a].in = "top" /\ Parts(e, p)[a].key = KeyName(fm, p)
             /\ p = "caller" => fm.caller
             /\ p = "group" => KeyName(fm, "group") # NoName
  <2> DEFINE s == Parts(e, p)
  <2>1. CASE p = "timestamp"
    <3>1. s = Optional(b1, Entry("timestamp", KeyName(fm, "timestamp"), NoText)) /\ a \in DOMAIN s
      BY <1>2, <2>1
    <3> HIDE DEF s
    <3>2. a = 1 /\ s[a].key = KeyName(fm, "timestamp") /\ s[a].in = "top"
      BY <1>1, <3>1, OptionalEntry
    <3> QED
      BY <2>1, <3>2 DEF s
  <2>2. CASE p = "level"
    <3>1. s = Optional(b2, Entry("level", KeyName(fm, "level"), NoText)) /\ a \in DOMAIN s
      BY <1>2, <2>2
    <3> HIDE DEF s
    <3>2. a = 1 /\ s[a].key = KeyName(fm, "level") /\ s[a].in = "top"
      BY <1>1, <3>1, OptionalEntry
    <3> QED
      BY <2>2, <3>2 DEF s
  <2>3. CASE p = "msg"
    <3>1. s = Optional(b3, Entry("msg", KeyName(fm, "msg"), rec.msg)) /\ a \in DOMAIN s
      BY <1>2, <2>3
    <3> HIDE DEF s
    <3>2. a = 1 /\ s[a].key = KeyName(fm, "msg") /\ s[a].in = "top"
      BY <1>1, <3>1, OptionalEntry
    <3> QED
      BY <2>3, <3>2 DEF s
  <2>4. CASE p = "caller"
    <3>1. s = Optional(fm.caller, Entry("caller", KeyName(fm, "caller"), rec.caller)) /\ a \in DOMAIN s
      BY <1>2, <2>4
    <3> HIDE DEF s
    <3>2. fm.caller /\ a = 1 /\ s[a].key = KeyName(fm, "caller") /\ s[a].in = "top"
      BY <1>1, <3>1, OptionalEntry
    <3> QED
      BY <2>4, <3>2 DEF s
  <2>5. CASE p = "group"
    <3>1. s = Optional(b5, Entry("group", KeyName(fm, "group"), NoText)) /\ a \in DOMAIN s
      BY <1>2, <2>5
    <3> HIDE DEF s
    <3>2. b5 /\ a = 1 /\ s[a].key = KeyName(fm, "group") /\ s[a].in = "top"
      BY <1>1, <3>1, OptionalEntry
    <3> QED
      BY <2>5, <3>2 DEF s, b5
  <2>6. CASE p = "stacktrace"
    <3>1. s = Optional(b7, Entry("stacktrace", KeyName(fm, "stacktrace"), NoText)) /\ a \in DOMAIN s
      BY <1>2, <2>6
    <3> HIDE DEF s
    <3>2. a = 1 /\ s[a].key = KeyName(fm, "stacktrace") /\ s[a].in = "top"
      BY <1>1, <3>1, OptionalEntry
    <3> QED
      BY <2>6, <3>2 DEF s
  <2> QED
    BY <2>1, <2>2, <2>3, <2>4, <2>5, <2>6 DEF NameOf
<1>5. Parts(e, "field") = JSONEntries(fm, F, limit)
  BY <1>2
<1> DEFINE x(a) == Parts(e, "field")[a]
<1>6. ASSUME NEW a \in DOMAIN Parts(e, "field")
      PROVE  /\ a \in 1 .. Len(G)
             /\ KeyName(fm, "group") # NoName => x(a).in = "group" /\ x(a).key = G[a].key
             /\ KeyName(fm, "group") = NoName => x(a).in = "top" /\ x(a).key = PrefixCollision(fm, G[a]).key
  BY <1>1, <1>3, <1>5, JSONFieldKeys
<1> HIDE DEF G
<1>7. \A k \in 1 .. Len(G) : /\ IsField(G[k]) /\ G[k].key[1] = 0
                             /\ fm.caller => G[k].key # KeyName(fm, "caller")
  BY <1>3 DEF OwnKeys, OwnNames
<1>8. \A k, l \in 1 .. Len(G) : k # l => G[k].key # G[l].key
  BY <1>3 DEF OwnKeys
<1>9. ASSUME NEW k \in 1 .. Len(G)
      PROVE  /\ PrefixCollision(fm, G[k]).key \notin {KeyName(fm, n) : n \in {"timestamp", "level", "msg", "stacktrace"}}
             /\ PrefixCollision(fm, G[k]).key[2] = G[k].key[2]
             /\ PrefixCollision(fm, G[k]).key[1] = 0 => PrefixCollision(fm, G[k]).key = G[k].key
  BY <1>7, CollisionApart
<1>10. \A k, l \in 1 .. Len(G) : k # l => PrefixCollision(fm, G[k]).key # PrefixCollision(fm, G[l]).key
  <2> SUFFICES ASSUME NEW k \in 1 .. Len(G), NEW l \in 1 .. Len(G), k # l,
                      PrefixCollision(fm, G[k]).key = PrefixCollision(fm, G[l]).key
               PROVE  FALSE
    OBVIOUS
  <2>1. G[k].key[2] = G[l].key[2]
    BY <1>9
  <2>2. /\ G[k].key = <<G[k].key[1], G[k].key[2]>> /\ G[k].key[1] = 0
        /\ G[l].key = <<G[l].key[1], G[l].key[2]>> /\ G[l].key[1] = 0
    BY <1>7 DEF IsField, IsKey
  <2>3. G[k].key = G[l].key
    BY <2>1, <2>2
  <2> QED
    BY <1>8, <2>3
<1>11. \A a, b \in DOMAIN Parts(e, "field") : a # b => Unlike(x(a), x(b))
  BY <1>6, <1>8, <1>10 DEF Unlike
<1>12. ASSUME NEW p \in NameOf, NEW a \in DOMAIN Parts(e, p), NEW b \in DOMAIN Parts(e, "field")
       PROVE  Unlike(Parts(e, p)[a], x(b)) /\ Unlike(x(b), Parts(e, p)[a])
  <2>1. CASE KeyName(fm, "group") # NoName
    BY <1>4, <1>6, <2>1 DEF Unlike
  <2>2. CASE KeyName(fm, "group") = NoName
    <3>1. x(b).key = PrefixCollision(fm, G[b]).key /\ b \in 1 .. Len(G)
      BY <1>6, <2>2
    <3>2. Parts(e, p)[a].key = KeyName(fm, p) /\ p # "group" /\ (p = "caller" => fm.caller)
      BY <1>4, <2>2
    <3>3. CASE p \in {"timestamp", "level", "msg", "stacktrace"}
      BY <1>9, <3>1, <3>2, <3>3 DEF Unlike
    <3>4. CASE p = "caller"
      <4>1. KeyName(fm, "caller")[1] = 0
        BY DEF OwnNames
      <4>2. x(b).key # KeyName(fm, "caller")
        BY <1>7, <1>9, <3>1, <3>2, <3>4, <4>1
      <4> QED
        BY <3>2, <3>4, <4>2 DEF Unlike
    <3> QED
      BY <3>2, <3>3, <3>4 DEF NameOf
  <2> QED
    BY <2>1, <2>2
<1>13. \A p : Apart(Parts(e, p))
  <2> SUFFICES ASSUME NEW p, NEW a \in DOMAIN Parts(e, p), NEW b \in DOMAIN Parts(e, p), a # b
               PROVE  Unlike(Parts(e, p)[a], Parts(e, p)[b])
    BY DEF Apart
  <2>1. CASE p \in NameOf
    BY <1>4, <2>1
  <2>2. CASE p = "field"
    BY <1>11, <2>2
  <2>3. CASE p \notin NameOf /\ p # "field"
    <3>1. Parts(e, p) = <<>>
      BY <1>2, <2>3 DEF NameOf
    <3> QED
      BY <3>1
  <2> QED
    BY <2>1, <2>2, <2>3
<1>14. \A p, q : p # q => \A a \in DOMAIN Parts(e, p), b \in DOMAIN Parts(e, q) : Unlike(Parts(e, p)[a], Parts(e, q)[b])
  <2> SUFFICES ASSUME NEW p, NEW q, p # q, NEW a \in DOMAIN Parts(e, p), NEW b \in DOMAIN Parts(e, q)
               PROVE  Unlike(Parts(e, p)[a], Parts(e, q)[b])
    OBVIOUS
  <2>1. (p \in NameOf \/ p = "field") /\ (q \in NameOf \/ q = "field")
    <3>1. \A r : r \notin NameOf /\ r # "field" => Parts(e, r) = <<>>
      BY <1>2 DEF NameOf
    <3>2. DOMAIN <<>> = {}
      OBVIOUS
    <3> QED
      BY <3>1, <3>2
  <2>2. CASE p \in NameOf /\ q \in NameOf
    BY <1>4, <2>2 DEF Unlike, OwnNames
  <2>3. CASE p = "field" \/ q = "field"
    BY <1>12, <2>1, <2>3
  <2> QED
    BY <2>1, <2>2, <2>3
<1> QED
  BY <1>2, <1>13, <1>14, PartsApart DEF e

\* The fields of GELF and the caller's, in the order of the formatter.
LEMMA GelfShuffled ==
  ASSUME NEW fm, NEW rec, NEW all, all = Optional(fm.caller, CallerField(Key(1, "caller"), rec)) \o rec.fieldsAll, Keyed(all)
  PROVE  Shuffled(GelfFields(fm, rec), all)
<1>1. CASE fm.sorter = "none"
  <2>1. GelfFields(fm, rec) = all
    BY <1>1 DEF GelfFields
  <2> QED
    BY <2>1, ShuffledSame DEF Keyed
<1>2. CASE fm.sorter # "none"
  <2>1. GelfFields(fm, rec) = Sorted(all)
    BY <1>2 DEF GelfFields
  <2> QED
    BY <2>1, ShuffledSorted
<1> QED
  BY <1>1, <1>2

\* A field in all its parts.
Shaped(f) == f = [key |-> f.key, type |-> f.type, val |-> f.val]

\* The fields that GELF puts out and their entries.
GelfSource(fm, rec, G) == G = GelfFields(fm, rec) /\ IsSequence(G) /\ \A k \in 1 .. Len(G) : Shaped(G[k])
GelfEntriesOf(entries, G, limit) ==
    \A a \in DOMAIN entries :
      /\ a \in 1 .. Len(G) /\ entries[a].in = "top" /\ entries[a].key = GelfKey(G[a].key)
      /\ entries[a].text = EncodeField([key |-> GelfKey(G[a].key), type |-> G[a].type, val |-> G[a].val], limit).text

\* A field of a GELF line is written under its key, with the underscore that the formatter
\* adds (gelf.go:117-125).
LEMMA GelfFieldKeys ==
  ASSUME NEW fm, NEW rec, NEW limit, NEW G, GelfSource(fm, rec, G)
  PROVE  GelfEntriesOf(GelfEntries(fm, rec, limit), G, limit)
<1> SUFFICES ASSUME NEW a \in DOMAIN GelfEntries(fm, rec, limit)
             PROVE  LET e == GelfEntries(fm, rec, limit)[a] IN
                    /\ a \in 1 .. Len(G)
                    /\ e.in = "top" /\ e.key = GelfKey(G[a].key)
                    /\ e.text = EncodeField([key |-> GelfKey(G[a].key), type |-> G[a].type, val |-> G[a].val], limit).text
  BY DEF GelfEntriesOf
<1> G = GelfFields(fm, rec) /\ IsSequence(G) /\ \A k \in 1 .. Len(G) : Shaped(G[k])
  BY DEF GelfSource
<1>1. DOMAIN G = 1 .. Len(G)
  BY DEF IsSequence
<1>2. GelfEntries(fm, rec, limit) = [i \in DOMAIN G |-> EncodeField([G[i] EXCEPT !.key = GelfKey(G[i].key)], limit)]
  BY DEF GelfEntries
<1> DEFINE f == [key |-> GelfKey(G[a].key), type |-> G[a].type, val |-> G[a].val]
           x == EncodeField(f, limit)
<1>3. a \in 1 .. Len(G) /\ Shaped(G[a])
  BY <1>1, <1>2
<1>4. [G[a] EXCEPT !.key = GelfKey(G[a].key)] = f
  BY <1>3 DEF Shaped
<1>5. GelfEntries(fm, rec, limit)[a] = x
  BY <1>1, <1>2, <1>3, <1>4
<1>6. f.key = GelfKey(G[a].key)
  OBVIOUS
<1> HIDE DEF f
<1>7. x = [part |-> "field", key |-> f.key, in |-> "top", text |-> x.text]
  BY Encoded
<1> HIDE DEF x
<1>8. x.in = "top" /\ x.key = f.key
  BY <1>7
<1> QED
  BY <1>3, <1>5, <1>6, <1>8 DEF x, f

\* The underscore of GELF (gelf.go:119-121).
LEMMA GelfKeyOf ==
  ASSUME NEW k, IsKey(k)
  PROVE  /\ GelfKey(k)[2] = k[2]
         /\ GelfKey(k)[1] = IF k[2] = "" /\ k[1] \in {0, 1} THEN k[1] ELSE k[1] + 1
<1>1. k = <<k[1], k[2]>> /\ k[1] \in Nat
  BY DEF IsKey
<1>2. k = <<0, "">> <=> k[1] = 0 /\ k[2] = ""
  <2>1. ASSUME k = <<0, "">>
        PROVE  k[1] = 0 /\ k[2] = ""
    BY <2>1
  <2>2. k[1] = 0 /\ k[2] = "" => k = <<0, "">>
    BY <1>1, Zenon
  <2> QED
    BY <2>1, <2>2
<1>3. k = <<1, "">> <=> k[1] = 1 /\ k[2] = ""
  <2>1. ASSUME k = <<1, "">>
        PROVE  k[1] = 1 /\ k[2] = ""
    BY <2>1
  <2>2. k[1] = 1 /\ k[2] = "" => k = <<1, "">>
    BY <1>1, Zenon
  <2> QED
    BY <2>1, <2>2
<1>4. GelfKey(k) = IF k = <<0, "">> \/ k = <<1, "">> THEN k ELSE <<k[1] + 1, k[2]>>
  BY DEF GelfKey, EmptyKey, Key, Underscore
<1>5. CASE k = <<0, "">> \/ k = <<1, "">>
  BY <1>2, <1>3, <1>4, <1>5
<1>6. CASE ~ (k = <<0, "">> \/ k = <<1, "">>)
  <2>1. GelfKey(k) = <<k[1] + 1, k[2]>>
    BY <1>4, <1>6
  <2>2. GelfKey(k)[1] = k[1] + 1 /\ GelfKey(k)[2] = k[2]
    BY <2>1
  <2>3. ~ (k[2] = "" /\ k[1] \in {0, 1})
    BY <1>2, <1>3, <1>6
  <2> QED
    BY <2>2, <2>3
<1> QED
  BY <1>5, <1>6

\* The keys that GELF makes of the fields' and of the caller's are neither each
\* other's nor those of the other entries.
GelfNames == {"version", "host", "short_message", "full_message", "timestamp", "level"}
GelfDistinct(all) ==
    /\ Keyed(all)
    /\ \A i \in 1 .. Len(all) : Shaped(all[i])
    /\ \A i \in 1 .. Len(all) : \A n \in GelfNames : GelfKey(all[i].key) # Key(0, n)
    /\ \A i, j \in 1 .. Len(all) : i # j => GelfKey(all[i].key) # GelfKey(all[j].key)

\* With the underscore no field is called like another one or like an entry of the formatter.
LEMMA GelfKeys ==
  ASSUME NEW fm, fm.caller \in BOOLEAN, NEW rec, OwnKeys(rec.fieldsAll)
  PROVE  GelfDistinct(Optional(fm.caller, CallerField(Key(1, "caller"), rec)) \o rec.fieldsAll)
<1> DEFINE F == rec.fieldsAll
           c == CallerField(Key(1, "caller"), rec)
           o == Optional(fm.caller, c)
           all == o \o F
<1>1. IsSequence(F) /\ IsSequence(o)
  BY OptionalSequence DEF OwnKeys
<1>2. Len(o) = (IF fm.caller THEN 1 ELSE 0) /\ \A i \in DOMAIN o : o[i] = c
  <2> HIDE DEF c
  <2> QED
    BY OptionalLen
<1>3. c.key = <<1, "caller">> /\ Shaped(c)
  BY DEF CallerField, Field, Key, Shaped
<1>4. \A i \in 1 .. Len(F) : IsField(F[i]) /\ F[i].key[1] = 0
  BY DEF OwnKeys
<1>5. \A i, j \in 1 .. Len(F) : i # j => F[i].key # F[j].key
  BY DEF OwnKeys
<1>6. \A i \in 1 .. Len(F) : F[i].key = <<0, F[i].key[2]>> /\ IsKey(F[i].key) /\ Shaped(F[i])
  BY <1>4 DEF IsField, IsKey, Shaped
<1> HIDE DEF F, c, o
<1>7. Len(F) \in Nat /\ Len(o) \in {0, 1} /\ DOMAIN o = 1 .. Len(o)
  BY <1>1, <1>2 DEF IsSequence
<1>8. /\ IsSequence(all) /\ Len(all) = Len(o) + Len(F)
      /\ \A i \in 1 .. Len(o) : all[i] = o[i]
      /\ \A i \in 1 .. Len(F) : all[Len(o) + i] = F[i]
  BY <1>1, ConcatSequence
<1> HIDE DEF all
<1>9. ASSUME NEW i \in 1 .. Len(all)
      PROVE  \/ all[i] = c /\ i = 1 /\ Len(o) = 1
             \/ i - Len(o) \in 1 .. Len(F) /\ all[i] = F[i - Len(o)]
  <2>1. CASE i <= Len(o)
    BY <1>2, <1>7, <1>8, <2>1
  <2>2. CASE i > Len(o)
    <3>1. i - Len(o) \in 1 .. Len(F) /\ i = Len(o) + (i - Len(o))
      BY <1>7, <1>8, <2>2
    <3> QED
      BY <1>8, <3>1
  <2> QED
    BY <1>7, <2>1, <2>2
<1>10. IsKey(c.key) /\ GelfKey(c.key)[1] = 2
  <2>1. IsKey(c.key)
    <3>1. c.key[1] = 1 /\ c.key[2] = "caller"
      BY <1>3
    <3>2. c.key = <<c.key[1], c.key[2]>>
      BY <1>3, <3>1, Zenon
    <3>3. "caller" \in BaseSet
      BY BasesAssumption
    <3> QED
      BY <3>1, <3>2, <3>3 DEF IsKey
  <2>2. GelfKey(c.key)[1] = IF c.key[2] = "" /\ c.key[1] \in {0, 1} THEN c.key[1] ELSE c.key[1] + 1
    BY <2>1, GelfKeyOf
  <2>3. c.key[1] = 1 /\ c.key[2] = "caller"
    BY <1>3
  <2> QED
    BY <2>1, <2>2, <2>3
<1>11. ASSUME NEW k \in 1 .. Len(F)
       PROVE  /\ GelfKey(F[k].key)[2] = F[k].key[2]
              /\ GelfKey(F[k].key)[1] = IF F[k].key[2] = "" THEN 0 ELSE 1
  <2>1. /\ GelfKey(F[k].key)[2] = F[k].key[2]
        /\ GelfKey(F[k].key)[1] = IF F[k].key[2] = "" /\ F[k].key[1] \in {0, 1} THEN F[k].key[1] ELSE F[k].key[1] + 1
    BY <1>6, GelfKeyOf
  <2>2. F[k].key[1] = 0
    BY <1>4
  <2>3. CASE F[k].key[2] = ""
    BY <2>1, <2>2, <2>3
  <2>4. CASE F[k].key[2] # ""
    <3>1. GelfKey(F[k].key)[1] = F[k].key[1] + 1
      BY <2>1, <2>4
    <3>2. GelfKey(F[k].key)[1] = 1
      BY <2>2, <3>1
    <3> QED
      BY <2>1, <2>4, <3>2, Zenon
  <2> QED
    BY <2>3, <2>4
<1>12. \A i \in 1 .. Len(all) : IsKey(all[i].key) /\ Shaped(all[i])
  BY <1>3, <1>6, <1>9, <1>10
<1>13. ASSUME NEW i \in 1 .. Len(all), NEW n \in GelfNames
       PROVE  GelfKey(all[i].key) # Key(0, n)
  <2>1. Key(0, n)[1] = 0
    BY DEF Key
  <2>4. Key(0, n)[2] = n /\ n # ""
    BY DEF Key, GelfNames
  <2>2. CASE all[i] = c
    <3>1. all[i].key = c.key
      BY <2>2
    <3>2. GelfKey(all[i].key)[1] = 2
      BY <1>10, <3>1
    <3>3. GelfKey(all[i].key)[1] # Key(0, n)[1]
      BY <2>1, <3>2
    <3> QED
      BY <3>3, Zenon
  <2>3. CASE i - Len(o) \in 1 .. Len(F) /\ all[i] = F[i - Len(o)]
    <3> DEFINE k == i - Len(o)
    <3>1. GelfKey(F[k].key)[2] = F[k].key[2] /\ GelfKey(F[k].key)[1] = IF F[k].key[2] = "" THEN 0 ELSE 1
      BY <1>11, <2>3
    <3>2. all[i] = F[k]
      BY <2>3
    <3>3. all[i].key = F[k].key
      BY <3>2
    <3> HIDE DEF k
    <3>4. CASE F[k].key[2] = ""
      <4>1. GelfKey(all[i].key)[2] = ""
        BY <3>1, <3>3, <3>4
      <4> QED
        BY <2>4, <4>1
    <3>5. CASE F[k].key[2] # ""
      <4>1. GelfKey(all[i].key)[1] = 1
        BY <3>1, <3>3, <3>5
      <4>2. GelfKey(all[i].key)[1] # Key(0, n)[1]
        BY <2>1, <4>1
      <4> QED
        BY <4>2, Zenon
    <3> QED
      BY <3>4, <3>5
  <2> QED
    BY <1>9, <2>2, <2>3
<1>14. ASSUME NEW i \in 1 .. Len(all), NEW j \in 1 .. Len(all), i # j
       PROVE  GelfKey(all[i].key) # GelfKey(all[j].key)
  <2>1. ASSUME NEW k \in 1 .. Len(F), NEW l \in 1 .. Len(F), k # l
        PROVE  GelfKey(F[k].key) # GelfKey(F[l].key)
    <3>1. F[k].key[2] # F[l].key[2]
      BY <1>5, <1>6, <2>1
    <3> QED
      BY <1>11, <3>1
  <2>2. \A k \in 1 .. Len(F) : GelfKey(F[k].key) # GelfKey(c.key)
    <3> SUFFICES ASSUME NEW k \in 1 .. Len(F)
                 PROVE  GelfKey(F[k].key) # GelfKey(c.key)
      OBVIOUS
    <3>1. GelfKey(F[k].key)[1] = IF F[k].key[2] = "" THEN 0 ELSE 1
      BY <1>11
    <3>2. GelfKey(F[k].key)[1] # 2
      <4>1. GelfKey(F[k].key)[1] = 0 \/ GelfKey(F[k].key)[1] = 1
        BY <3>1, Zenon
      <4> QED
        BY <4>1
    <3> QED
      BY <1>10, <3>2
  <2>3. i - Len(o) # j - Len(o)
    BY <1>7, <1>8, <1>14
  <2> QED
    BY <1>9, <1>14, <2>1, <2>2, <2>3
<1> QED
  BY <1>8, <1>12, <1>13, <1>14 DEF GelfDistinct, Keyed, all, o, c, F

\* The entries of GELF that are no fields (gelf.go:80-100).
GelfEntryKey(p) ==
    Key(0, IF p = "msg" THEN "short_message" ELSE IF p = "stacktrace" THEN "full_message" ELSE p)
GelfOthers == {"version", "host", "msg", "stacktrace", "timestamp", "level"}

\* Each of these entries is there once at most, under the name GELF gives it.
LEMMA GelfEntry ==
  ASSUME NEW fm, fm.caller \in BOOLEAN, NEW rec, IsSequence(rec.fieldsAll), NEW stack \in BOOLEAN, NEW limit,
         NEW p \in GelfOthers, NEW a \in DOMAIN Parts(GelfFormat(fm, rec, stack, limit), p)
  PROVE  LET x == Parts(GelfFormat(fm, rec, stack, limit), p)[a]
         IN  a = 1 /\ x.in = "top" /\ x.key = GelfEntryKey(p)
<1> DEFINE e == GelfFormat(fm, rec, stack, limit)
           s == Parts(e, p)
           b == IF p = "stacktrace" THEN HasStack(rec, stack) ELSE TRUE
           text == IF p = "msg" THEN GelfMsg(rec.msg) ELSE NoText
<1>1. s = IF p = "version" THEN <<Entry("version", Key(0, "version"), NoText)>>
              ELSE IF p = "host" THEN <<Entry("host", Key(0, "host"), NoText)>>
              ELSE IF p = "msg" THEN <<Entry("msg", Key(0, "short_message"), GelfMsg(rec.msg))>>
              ELSE IF p = "stacktrace" THEN Optional(HasStack(rec, stack), Entry("stacktrace", Key(0, "full_message"), NoText))
              ELSE IF p = "timestamp" THEN <<Entry("timestamp", Key(0, "timestamp"), NoText)>>
              ELSE IF p = "level" THEN <<Entry("level", Key(0, "level"), NoText)>>
              ELSE IF p = "field" THEN GelfEntries(fm, rec, limit)
              ELSE <<>>
  BY GelfParts
<1>2. b \in BOOLEAN
  BY DEF HasStack
<1>3. s = Optional(b, Entry(p, GelfEntryKey(p), text))
  <2>1. CASE p = "stacktrace"
    BY <1>1, <2>1 DEF GelfEntryKey
  <2>2. CASE p = "msg"
    BY <1>1, <2>2 DEF GelfEntryKey, Optional
  <2>3. CASE p \notin {"stacktrace", "msg"}
    <3>1. s = <<Entry(p, Key(0, p), NoText)>>
      BY <1>1, <2>3 DEF GelfOthers
    <3> QED
      BY <2>3, <3>1 DEF GelfEntryKey, Optional
  <2> QED
    BY <2>1, <2>2, <2>3
<1>4. a \in DOMAIN s
  OBVIOUS
<1> HIDE DEF s, b, text, e
<1>5. a = 1 /\ s[a].in = "top" /\ s[a].key = GelfEntryKey(p)
  BY <1>2, <1>3, <1>4, OptionalEntry
<1> QED
  BY <1>5 DEF s, e

\* No GELF object has a key twice (gelf.go:79-127).
LEMMA GelfApart ==
  ASSUME NEW fm, fm.caller \in BOOLEAN, NEW rec, OwnKeys(rec.fieldsAll), NEW stack \in BOOLEAN, NEW limit
  PROVE  Apart(GelfFormat(fm, rec, stack, limit))
<1> DEFINE all == Optional(fm.caller, CallerField(Key(1, "caller"), rec)) \o rec.fieldsAll
           G == GelfFields(fm, rec)
           e == GelfFormat(fm, rec, stack, limit)
           x(a) == Parts(e, "field")[a]
<1>1. GelfDistinct(all)
  BY GelfKeys
<1>2. Shuffled(G, all)
  <2>1. Keyed(all)
    BY <1>1 DEF GelfDistinct
  <2>2. \A y : y = all => Shuffled(G, y)
    BY <2>1, GelfShuffled
  <2> QED
    BY <2>2
<1>3. IsSequence(rec.fieldsAll)
  BY DEF OwnKeys
<1>4. IsSequence(e) /\ Parts(e, "field") = GelfEntries(fm, rec, limit)
      /\ \A p : p \notin GelfOthers /\ p # "field" => Parts(e, p) = <<>>
  <2>1. IsSequence(e) /\ Parts(e, "field") = GelfEntries(fm, rec, limit)
    BY <1>3, GelfParts
  <2>2. ASSUME NEW p, p \notin GelfOthers /\ p # "field"
        PROVE  Parts(e, p) = <<>>
    <3>1. p # "version" /\ p # "host" /\ p # "msg" /\ p # "stacktrace" /\ p # "timestamp" /\ p # "level" /\ p # "field"
      BY <2>2 DEF GelfOthers
    <3> QED
      BY <1>3, <3>1, GelfParts
  <2> QED
    BY <2>1, <2>2
<1>5. ASSUME NEW p \in GelfOthers, NEW a \in DOMAIN Parts(e, p)
      PROVE  a = 1 /\ Parts(e, p)[a].in = "top" /\ Parts(e, p)[a].key = GelfEntryKey(p)
  BY <1>3, GelfEntry
<1> HIDE DEF all, G
<1>6. /\ \A k \in 1 .. Len(G) : Shaped(G[k]) /\ \A n \in GelfNames : GelfKey(G[k].key) # Key(0, n)
      /\ \A k, l \in 1 .. Len(G) : k # l => GelfKey(G[k].key) # GelfKey(G[l].key)
      /\ IsSequence(G)
  <2> DEFINE D == 1 .. Len(all)
  <2>1. PICK p \in Bijection(D, D) : \A k \in D : G[k] = all[p[k]]
    BY <1>2 DEF Shuffled
  <2>2. IsSequence(G) /\ Len(G) = Len(all)
    BY <1>2 DEF Shuffled
  <2>3. /\ \A i \in D : Shaped(all[i]) /\ \A n \in GelfNames : GelfKey(all[i].key) # Key(0, n)
        /\ \A i, j \in D : i # j => GelfKey(all[i].key) # GelfKey(all[j].key)
    BY <1>1 DEF GelfDistinct
  <2> HIDE DEF D
  <2>4. (\A k \in D : p[k] \in D) /\ \A k, l \in D : p[k] = p[l] => k = l
    BY DEF Bijection, Injection, IsInjective
  <2>5. \A k \in D : Shaped(G[k]) /\ \A n \in GelfNames : GelfKey(G[k].key) # Key(0, n)
    BY <2>1, <2>3, <2>4
  <2>6. ASSUME NEW k \in D, NEW l \in D, k # l
        PROVE  GelfKey(G[k].key) # GelfKey(G[l].key)
    <3>1. p[k] \in D /\ p[l] \in D /\ p[k] # p[l]
      BY <2>4, <2>6
    <3> QED
      BY <2>1, <2>3, <3>1
  <2> QED
    BY <2>2, <2>5, <2>6 DEF D
<1>7. ASSUME NEW a \in DOMAIN Parts(e, "field")
      PROVE  a \in 1 .. Len(G) /\ x(a).in = "top" /\ x(a).key = GelfKey(G[a].key)
  <2>2. GelfSource(fm, rec, G)
    BY <1>6 DEF GelfSource, G
  <2>3. GelfEntriesOf(GelfEntries(fm, rec, limit), G, limit)
    BY <2>2, GelfFieldKeys
  <2>4. a \in DOMAIN GelfEntries(fm, rec, limit)
    BY <1>4
  <2>5. /\ a \in 1 .. Len(G)
        /\ GelfEntries(fm, rec, limit)[a].in = "top"
        /\ GelfEntries(fm, rec, limit)[a].key = GelfKey(G[a].key)
    BY <2>3, <2>4 DEF GelfEntriesOf
  <2> QED
    BY <1>4, <2>5
<1> HIDE DEF e
<1>8. \A p \in GelfOthers : \E n \in GelfNames : GelfEntryKey(p) = Key(0, n)
  BY DEF GelfOthers, GelfNames, GelfEntryKey
<1>9. \A p, q \in GelfOthers : p # q => GelfEntryKey(p) # GelfEntryKey(q)
  <2>1. \A p \in GelfOthers : GelfEntryKey(p)[2] = IF p = "msg" THEN "short_message" ELSE IF p = "stacktrace" THEN "full_message" ELSE p
    BY DEF GelfEntryKey, Key
  <2> QED
    BY <2>1 DEF GelfOthers
<1>10. ASSUME NEW p \in GelfOthers, NEW a \in DOMAIN Parts(e, p), NEW b \in DOMAIN Parts(e, "field")
       PROVE  Unlike(Parts(e, p)[a], x(b)) /\ Unlike(x(b), Parts(e, p)[a])
  <2>1. PICK n \in GelfNames : GelfEntryKey(p) = Key(0, n)
    BY <1>8
  <2>2. x(b).key # Key(0, n)
    BY <1>6, <1>7
  <2>3. Parts(e, p)[a].key = Key(0, n)
    BY <1>5, <2>1
  <2> QED
    BY <2>2, <2>3 DEF Unlike
<1>11. \A p : Apart(Parts(e, p))
  <2> SUFFICES ASSUME NEW p, NEW a \in DOMAIN Parts(e, p), NEW b \in DOMAIN Parts(e, p), a # b
               PROVE  Unlike(Parts(e, p)[a], Parts(e, p)[b])
    BY DEF Apart
  <2>1. CASE p \in GelfOthers
    BY <1>5, <2>1
  <2>2. CASE p = "field"
    <3>1. x(a).key # x(b).key
      BY <1>6, <1>7, <2>2
    <3> QED
      BY <2>2, <3>1 DEF Unlike
  <2>3. CASE p \notin GelfOthers /\ p # "field"
    BY <1>4, <2>3
  <2> QED
    BY <2>1, <2>2, <2>3
<1>12. \A p, q : p # q => \A a \in DOMAIN Parts(e, p), b \in DOMAIN Parts(e, q) : Unlike(Parts(e, p)[a], Parts(e, q)[b])
  <2> SUFFICES ASSUME NEW p, NEW q, p # q, NEW a \in DOMAIN Parts(e, p), NEW b \in DOMAIN Parts(e, q)
               PROVE  Unlike(Parts(e, p)[a], Parts(e, q)[b])
    OBVIOUS
  <2>1. (p \in GelfOthers \/ p = "field") /\ (q \in GelfOthers \/ q = "field")
    <3>1. DOMAIN <<>> = {}
      OBVIOUS
    <3> QED
      BY <1>4, <3>1
  <2>2. CASE p \in GelfOthers /\ q \in GelfOthers
    <3>1. Parts(e, p)[a].key # Parts(e, q)[b].key
      BY <1>5, <1>9, <2>2
    <3> QED
      BY <3>1 DEF Unlike
  <2>3. CASE p = "field" \/ q = "field"
    BY <1>10, <2>1, <2>3
  <2> QED
    BY <2>1, <2>2, <2>3
<1>13. IsSequence(e)
  BY <1>4
<1> QED
  BY <1>11, <1>12, <1>13, PartsApart DEF e

\* No JSON formatter has its fields sorted in place.
SortsCopies ==
    \A s \in Scenarios : \A h \in DOMAIN s.hosts : ~ (s.hosts[h].fm.kind = "json" /\ s.hosts[h].fm.sorter = "inplace")

\* What a formatter is given (logrec.go:97): the fields of the record or, when it
\* replaces the time, none.
LEMMA GivenFields ==
  ASSUME NEW host, NEW t, NEW F, NEW frames, NEW limit
  PROVE  Given(host, t, F, frames, limit).fieldsAll = IF host.retimes THEN <<>> ELSE F
<1> DEFINE rec == PreparedOf(t, F, frames, limit)
<1>1. rec = [level |-> rec.level, msg |-> rec.msg, fieldsAll |-> F, frames |-> rec.frames, caller |-> rec.caller]
  BY DEF PreparedOf
<1>2. rec.fieldsAll = F
  BY DEF PreparedOf
<1> HIDE DEF rec
<1>3. WithTime(rec).fieldsAll = <<>>
  BY <1>1 DEF WithTime
<1> QED
  BY <1>2, <1>3 DEF Given, rec

\* The conditions that KeysDistinct names.
KeysApart(fm, m, all) ==
    /\ all = m.with \o m.fields
    /\ fm.kind \in {"json", "gelf"}
    /\ fm.kind = "json" =>
         /\ \A n, k \in NameOf : n # k => KeyName(fm, n) # KeyName(fm, k)
         /\ KeyName(fm, "caller")[1] = 0
    /\ \A i, j \in DOMAIN all : i # j => all[i].key # all[j].key
    /\ \A i \in DOMAIN all : /\ all[i].key[1] = 0
                             /\ fm.kind = "json" /\ fm.caller => all[i].key # KeyName(fm, "caller")

\* No line written has a key twice.
LEMMA LinesInvKeys ==
  ASSUME SortsCopies, LinesInv
  PROVE  KeysDistinct
<1> SUFFICES ASSUME NEW h \in Hosts, NEW o \in ToSet(out[h]),
                    NEW all, KeysApart(env.hosts[h].fm, Logged[o.rec], all)
             PROVE  Apart(o.entries)
  <2>1. ASSUME NEW h \in Hosts, NEW o \in ToSet(out[h]),
               NEW all, KeysApart(env.hosts[h].fm, Logged[o.rec], all) => Apart(o.entries)
        PROVE  KeysApart(env.hosts[h].fm, Logged[o.rec], all) =>
                 \A i, j \in DOMAIN o.entries :
                   i # j => <<o.entries[i].in, o.entries[i].key>> # <<o.entries[j].in, o.entries[j].key>>
    BY <2>1 DEF Apart, Unlike
  <2> SUFFICES ASSUME NEW h \in Hosts, NEW o \in ToSet(out[h]),
                      KeysApart(env.hosts[h].fm, Logged[o.rec], Logged[o.rec].with \o Logged[o.rec].fields)
               PROVE  \A i, j \in DOMAIN o.entries :
                        i # j => <<o.entries[i].in, o.entries[i].key>> # <<o.entries[j].in, o.entries[j].key>>
    BY DEF KeysDistinct, KeysApart
  <2> QED
    BY <2>1
<1> DEFINE fm == env.hosts[h].fm
           t == Tasks[o.rec]
           stack == env.hosts[h].on[t.m.level] = "stack"
<1>1. /\ env \in Scenarios /\ t.m = Logged[o.rec] /\ MeantOK(t.m)
      /\ Written(env.hosts[h], t, o.entries, env.frames, env.limit, SortsInPlace)
  BY LineShown
<1>2. ~ SortsInPlace
  BY <1>1 DEF SortsCopies, SortsInPlace, Hosts
<1>3. PICK F : /\ IsSequence(F) /\ Gathers(F, t.m, Len(t.m.fields), env.limit)
               /\ o.entries = LineOf(env.hosts[h], t, F, env.frames, env.limit)
  BY <1>1, <1>2 DEF Written
<1>4. IsFormatter(fm) /\ env.limit \in Int /\ fm.caller \in BOOLEAN /\ stack \in BOOLEAN
  BY <1>1, ScenarioTypes DEF IsFormatter
<1>5. all = t.m.with \o t.m.fields
  BY <1>1 DEF KeysApart
<1> DEFINE m == t.m
           rec == Given(env.hosts[h], t, F, env.frames, env.limit)
<1>6. o.entries = FormatEntries(fm, rec, stack, env.limit)
  BY <1>3 DEF LineOf
<1>7. rec.fieldsAll = <<>> \/ rec.fieldsAll = F
  BY GivenFields
<1>8. MeantOK(m) /\ Gathers(F, m, Len(m.fields), env.limit) /\ all = m.with \o m.fields
  BY <1>1, <1>3, <1>5
<1> HIDE DEF m, rec, stack, t, fm
<1>9. /\ DOMAIN all = 1 .. Len(all) /\ Len(F) = Len(all)
      /\ \A i \in 1 .. Len(F) : IsField(F[i]) /\ F[i].key = all[i].key
  <2>1. MeantOK(m) /\ Gathers(F, m, Len(m.fields), env.limit) /\ env.limit \in Int
    BY <1>4, <1>8
  <2>2. GatheredAs(F, m.with \o m.fields, Len(m.with), env.limit)
    BY <2>1, Gathered
  <2>3. GatheredAs(F, all, Len(m.with), env.limit)
    BY <1>8, <2>2, Zenon
  <2> QED
    BY <2>3 DEF GatheredAs
<1>10. OwnKeys(F)
  <2>1. \A i \in 1 .. Len(F) : IsField(F[i]) /\ F[i].key[1] = 0
    BY <1>9 DEF KeysApart
  <2>2. \A i, j \in 1 .. Len(F) : i # j => F[i].key # F[j].key
    <3>1. \A i, j \in DOMAIN all : i # j => all[i].key # all[j].key
      BY DEF KeysApart
    <3> QED
      BY <1>9, <3>1
  <2> QED
    BY <1>3, <2>1, <2>2 DEF OwnKeys
<1>11. OwnKeys(rec.fieldsAll)
  <2>1. CASE rec.fieldsAll = F
    BY <1>10, <2>1
  <2>2. CASE rec.fieldsAll = <<>>
    <3>1. IsSequence(<<>>) /\ 1 .. Len(<<>>) = {}
      BY EmptySequence
    <3> QED
      BY <2>2, <3>1 DEF OwnKeys
  <2> QED
    BY <1>7, <2>1, <2>2
<1>12. CASE fm.kind = "json"
  <2>1. OwnNames(fm, rec.fieldsAll)
    <3>1. /\ \A n, k \in NameOf : n # k => KeyName(fm, n) # KeyName(fm, k)
          /\ KeyName(fm, "caller")[1] = 0
      BY <1>12 DEF KeysApart, fm
    <3>2. fm.caller => \A i \in 1 .. Len(F) : F[i].key # KeyName(fm, "caller")
      BY <1>9, <1>12 DEF KeysApart, fm
    <3>3. Len(<<>>) = 0
      BY EmptySequence
    <3>4. fm.caller => \A i \in 1 .. Len(rec.fieldsAll) : rec.fieldsAll[i].key # KeyName(fm, "caller")
      <4>1. CASE rec.fieldsAll = F
        BY <3>2, <4>1
      <4>2. CASE rec.fieldsAll = <<>>
        <5>1. 1 .. Len(rec.fieldsAll) = {}
          BY <3>3, <4>2
        <5> QED
          BY <5>1
      <4> QED
        BY <1>7, <4>1, <4>2
    <3> QED
      BY <3>1, <3>4 DEF OwnNames
  <2>2. o.entries = JSONFormat(fm, rec, stack, env.limit)
    BY <1>6, <1>12 DEF FormatEntries
  <2> QED
    BY <1>4, <1>11, <2>1, <2>2, JSONApart
<1>13. CASE fm.kind = "gelf"
  <2>1. o.entries = GelfFormat(fm, rec, stack, env.limit)
    BY <1>6, <1>13 DEF FormatEntries
  <2> QED
    BY <1>4, <1>11, <2>1, GelfApart
<1> QED
  BY <1>12, <1>13 DEF KeysApart, fm

\* KeysDistinct: no object of JSON or GELF has a key twice (json.go:123-180,
\* gelf.go:79-127), under the conditions it names, whatever the fields, the loggers, the
\* formatters and the hosts -- provided that no sorter of JSON works in place
\* (json.go:143), since two that do can lose one field to another.
THEOREM KeysDistinctAlways ==
  ASSUME SortsCopies
  PROVE  RecordsSpec => []KeysDistinct
<1>1. RecordsInit => LinesInv
  BY LinesInvInit
<1>2. LinesInv /\ [RecordsNext]_recordsVars => LinesInv'
  BY LinesInvStep
<1>3. LinesInv => KeysDistinct
  BY LinesInvKeys
<1> QED
  BY <1>1, <1>2, <1>3, PTL DEF RecordsSpec

-----------------------------------------------------------------------------
(***************************************************************************)
(* The texts on a line (OutputFaithful): each entry shows the field it is  *)
(* meant for, cut where the limit says so, and nothing else.               *)
(***************************************************************************)

\* A text that was never cut is cut as the scenario means it (formatter.go:32).
LEMMA CutText ==
  ASSUME NEW t, IsText(t), t.dots = 0, env.limit \in Int
  PROVE  LimitString(t, env.limit) = Cut(t)
<1>1. t = [of |-> t.of, len |-> t.len, dots |-> t.dots] /\ t.len \in Nat
  BY DEF IsText
<1>2. LimitString(t, env.limit) =
        IF env.limit > 0 /\ env.limit < Size(t)
          THEN [of |-> t.of, len |-> IF t.len < env.limit THEN t.len ELSE env.limit,
                dots |-> 3 + (IF t.len < env.limit THEN env.limit - t.len ELSE 0)]
          ELSE t
  BY Limited
<1>3. Size(t) = t.len
  BY <1>1 DEF Size
<1>4. CASE env.limit > 0 /\ env.limit < t.len
  <2>1. LimitString(t, env.limit) = [of |-> t.of, len |-> env.limit, dots |-> 3]
    BY <1>1, <1>2, <1>3, <1>4
  <2>2. [t EXCEPT !.len = env.limit, !.dots = 3] = [of |-> t.of, len |-> env.limit, dots |-> 3]
    <3> DEFINE u == [t EXCEPT !.len = env.limit]
               v == [u EXCEPT !.dots = 3]
    <3>1. u = [of |-> t.of, len |-> env.limit, dots |-> t.dots]
      BY <1>1
    <3> HIDE DEF u
    <3>2. v = [of |-> t.of, len |-> env.limit, dots |-> 3]
      BY <3>1
    <3> QED
      BY <3>2 DEF u
  <2> QED
    BY <1>1, <1>4, <2>1, <2>2 DEF Cut
<1>5. CASE ~ (env.limit > 0 /\ env.limit < t.len)
  BY <1>1, <1>2, <1>3, <1>5 DEF Cut
<1> QED
  BY <1>4, <1>5

\* A field of a record shows a field that is meant, which is shortened when it was an
\* argument of the call.
Shows(f, o, cut) ==
    /\ IsMeant(o) /\ IsField(f) /\ env.limit \in Int
    /\ f.key = o.key /\ f.type = o.type /\ f.val.bad = o.val.bad
    /\ IF cut THEN Settled(f, o, env.limit) ELSE f = o
TextMeant(o, cut) ==
    IF cut /\ o.type \in {"String", "Stringer"} THEN Cut(o.val.text) ELSE o.val.text

\* What it renders to (field.go:94-246).
LEMMA ShowsText ==
  ASSUME NEW f, NEW o, NEW cut \in BOOLEAN, Shows(f, o, cut)
  PROVE  /\ f.type # "Float32" \/ FloatsFit => ValueText(f, env.limit) = TextMeant(o, cut)
         /\ f.type = "Float32" => f.val.text = TextMeant(o, cut)
<1>1. /\ IsValue(f.val) /\ IsText(f.val.text) /\ env.limit \in Int /\ f.type = o.type
      /\ IsText(o.val.text) /\ o.val.text.dots = 0 /\ o.val.wraps = 0
      /\ FloatsFit => Fits(o)
  BY DEF Shows, IsMeant, IsNew, IsField, IsValue
<1>2. LimitString(o.val.text, env.limit) = Cut(o.val.text)
  BY <1>1, CutText
<1>3. Stringed(f.val, env.limit) = IF f.val.wraps = 0 THEN f.val.text ELSE LimitString(f.val.text, env.limit)
  BY <1>1, StringedOnce
<1>4. ~ (env.limit > 0) => LimitString(o.val.text, env.limit) = o.val.text
  BY DEF LimitString
<1>5. f.type # "String" => f.val.text = o.val.text
  BY DEF Shows, Settled, Derived
<1>6. CASE f.type = "Stringer"
  <2>1. ValueText(f, env.limit) = Stringed(f.val, env.limit)
    BY <1>6 DEF ValueText
  <2>2. f.val.text = o.val.text
    BY <1>5, <1>6
  <2>3. CASE cut
    <3>1. env.limit > 0 => f.val.wraps # 0
      BY <1>6, <2>3 DEF Shows, Settled
    <3>2. TextMeant(o, cut) = Cut(o.val.text)
      BY <1>1, <1>6, <2>3 DEF TextMeant
    <3>3. ValueText(f, env.limit) = LimitString(o.val.text, env.limit)
      BY <1>1, <1>3, <1>4, <2>1, <2>2, <3>1
    <3> QED
      BY <1>2, <1>6, <3>2, <3>3
  <2>4. CASE ~ cut
    <3>1. f.val.wraps = 0
      BY <1>1, <2>4 DEF Shows
    <3>2. TextMeant(o, cut) = o.val.text
      BY <2>4 DEF TextMeant
    <3> QED
      BY <1>3, <1>6, <2>1, <2>2, <3>1, <3>2
  <2> QED
    BY <2>3, <2>4
<1>7. CASE f.type = "String"
  <2>1. ValueText(f, env.limit) = f.val.text
    BY <1>7 DEF ValueText
  <2>2. CASE cut
    <3>1. TextMeant(o, cut) = Cut(o.val.text)
      BY <1>1, <1>7, <2>2 DEF TextMeant
    <3>2. f.val.text \in {o.val.text, LimitString(o.val.text, env.limit)}
          /\ (env.limit > 0 => f.val.text = LimitString(o.val.text, env.limit))
      BY <1>7, <2>2 DEF Shows, Settled, Derived
    <3> QED
      BY <1>2, <1>4, <1>7, <2>1, <3>1, <3>2
  <2>3. CASE ~ cut
    <3>1. TextMeant(o, cut) = o.val.text /\ f = o
      BY <2>3 DEF TextMeant, Shows
    <3> QED
      BY <1>7, <2>1, <3>1
  <2> QED
    BY <2>2, <2>3
<1>8. CASE f.type \notin {"String", "Stringer"}
  <2>1. TextMeant(o, cut) = o.val.text
    BY <1>1, <1>8 DEF TextMeant
  <2>2. f.val.text = o.val.text
    BY <1>5, <1>8
  <2>3. f.type # "Float32" => ValueText(f, env.limit) = f.val.text
    BY <1>8 DEF ValueText
  <2>4. f.type = "Float32" /\ FloatsFit => ValueText(f, env.limit) = f.val.text
    <3>1. f.type = "Float32" /\ FloatsFit => ~ (f.val.text.len > Single)
      BY <1>1, <2>2 DEF Fits, IsText, Single
    <3> QED
      BY <3>1 DEF ValueText
  <2> QED
    BY <2>1, <2>2, <2>3, <2>4
<1> QED
  BY <1>6, <1>7, <1>8

\* What JSON and GELF make of it (json.go:225-271), under any key.
LEMMA EncodedText ==
  ASSUME NEW f, NEW o, NEW cut \in BOOLEAN, Shows(f, o, cut), NEW g, g.type = f.type, g.val = f.val,
         NEW fm, fm.kind \in {"json", "gelf"}
  PROVE  EncodeField(g, env.limit).text = Shown(fm, o, cut).text
<1>1. EncodeField(g, env.limit).text =
              IF OwnMarshaller(g) THEN g.val.text
              ELSE IF g.type = "Invalid" \/ (g.type \in {"Struct", "Array", "Map", "Unknown"} /\ "marshal" \in g.val.bad)
                THEN EncodingError
              ELSE IF g.type = "Float32" THEN g.val.text ELSE ValueText(g, env.limit)
  BY Encoded
<1>2. Shown(fm, o, cut).text = IF Unencodable(fm, o) THEN EncodingError ELSE TextMeant(o, cut)
  BY DEF Shown, TextMeant
<1>3. /\ f.type = o.type /\ f.val.bad = o.val.bad
      /\ "marshal" \in o.val.bad => o.type \in {"Struct", "Array", "Map", "Unknown"}
      /\ o.val.bad \cap {"gojay", "gojayPanic"} # {}
           => o.type \in {"Stringer", "Error", "Struct", "Array", "Map", "Unknown"}
  BY DEF Shows, IsMeant, IsNew
<1>4. ~ OwnMarshaller(g) => (Unencodable(fm, o) <=>
        g.type = "Invalid" \/ (g.type \in {"Struct", "Array", "Map", "Unknown"} /\ "marshal" \in g.val.bad))
  BY <1>3 DEF Unencodable, OwnMarshaller
<1>5. ValueText(g, env.limit) = ValueText(f, env.limit)
  BY DEF ValueText
<1>6. g.type # "Float32" => ValueText(g, env.limit) = TextMeant(o, cut)
  BY <1>5, ShowsText
<1>7. g.type = "Float32" => g.val.text = TextMeant(o, cut)
  BY ShowsText
<1>8. ASSUME OwnMarshaller(g)
      PROVE  ~ Unencodable(fm, o) /\ g.val.text = TextMeant(o, cut)
  <2>1. /\ g.type \in {"Stringer", "Error", "Struct", "Array", "Map", "Unknown"}
        /\ o.val.bad \cap {"gojay", "gojayPanic"} # {} /\ (g.type = "Stringer" => g.val.wraps = 0)
    BY <1>3, <1>8 DEF OwnMarshaller
  <2>2. ~ Unencodable(fm, o)
    BY <1>3, <2>1 DEF Unencodable
  <2>3. g.type = "Stringer" => ValueText(g, env.limit) = g.val.text
    <3>1. IsValue(g.val) /\ IsText(g.val.text) /\ env.limit \in Int
      BY DEF Shows, IsField, IsValue
    <3>2. Stringed(g.val, env.limit) = IF g.val.wraps = 0 THEN g.val.text ELSE LimitString(g.val.text, env.limit)
      BY <3>1, StringedOnce
    <3> QED
      BY <2>1, <3>2 DEF ValueText
  <2>4. g.type # "Stringer" => ValueText(g, env.limit) = g.val.text
    BY <2>1 DEF ValueText
  <2> QED
    BY <1>6, <2>1, <2>2, <2>3, <2>4
<1> QED
  BY <1>1, <1>2, <1>4, <1>6, <1>7, <1>8

\* What the other formatters make of it.
LEMMA PlainText ==
  ASSUME NEW f, NEW o, NEW cut \in BOOLEAN, Shows(f, o, cut), FloatsFit, NEW fm, fm.kind \notin {"json", "gelf"}
  PROVE  ValueText(f, env.limit) = Shown(fm, o, cut).text
<1>1. Shown(fm, o, cut).text = TextMeant(o, cut)
  BY DEF Shown, TextMeant, Unencodable
<1> QED
  BY <1>1, ShowsText

\* The entries of the fields, in the order of the formatter, are those that are meant.
InFieldOrder(fm, all) == IF fm.sorter = "none" THEN all ELSE Sorted(all)
Arranges(fm, all, want, shown) ==
    /\ Keyed(all) /\ IsSequence(want) /\ Len(want) = Len(all) /\ Len(shown) = Len(all)
    /\ \A i \in 1 .. Len(all) : all[i].key = want[i].key
    /\ \A k, i \in 1 .. Len(all) : InFieldOrder(fm, all)[k] = all[i] => Matches(shown[k], want[i])
Arranged(fm, want, shown) ==
    \E w \in Orders(fm, want) : Len(shown) = Len(w) /\ \A i \in DOMAIN w : Matches(shown[i], w[i])

\* Fields that match one by one match in the order of the formatter, too.
LEMMA ArrangedFields ==
  ASSUME NEW fm, NEW all, NEW want, NEW shown, Arranges(fm, all, want, shown)
  PROVE  Arranged(fm, want, shown)
<1> DEFINE n == Len(all)
           D == 1 .. n
<1>1. /\ Keyed(all) /\ IsSequence(want) /\ Len(want) = n /\ Len(shown) = n
      /\ (\A i \in D : all[i].key = want[i].key) /\ n \in Nat /\ DOMAIN want = D
  BY DEF Arranges, Keyed, IsSequence
<1>2. CASE fm.sorter = "none"
  <2>1. \A i \in D : Matches(shown[i], want[i])
    BY <1>2 DEF Arranges, InFieldOrder
  <2>2. want \in Orders(fm, want)
    BY <1>2 DEF Orders
  <2> QED
    BY <1>1, <2>1, <2>2 DEF Arranged
<1>3. CASE fm.sorter # "none"
  <2>1. PICK p \in Bijection(D, D) :
             /\ Sorted(all) = [k \in D |-> all[p[k]]]
             /\ \A k \in 1 .. n - 1 : ~ Less(all[p[k + 1]], all[p[k]])
    BY <1>1, SortedOrder
  <2> DEFINE w == [i \in DOMAIN want |-> want[p[i]]]
  <2>2. w = [i \in D |-> want[p[i]]] /\ DOMAIN w = D
    BY <1>1
  <2>3. \A k \in D : Matches(shown[k], want[p[k]])
    <3>1. \A k, i \in D : Sorted(all)[k] = all[i] => Matches(shown[k], want[i])
      BY <1>3 DEF Arranges, InFieldOrder
    <3>2. \A k \in D : p[k] \in D
      BY DEF Bijection, Injection
    <3> HIDE DEF D
    <3> QED
      BY <2>1, <3>1, <3>2
  <2>4. IsSequence(w) /\ Len(w) = n
    <3> HIDE DEF w
    <3>1. w = [i \in 1 .. n |-> w[i]] /\ DOMAIN w = 1 .. n
      BY <2>2 DEF D
    <3> QED
      BY <1>1, <3>1, SequenceNew
  <2>5. \A k \in 1 .. n - 1 : ~ Less(w[k + 1], w[k])
    <3> SUFFICES ASSUME NEW k \in 1 .. n - 1
                 PROVE  ~ Less(w[k + 1], w[k])
      OBVIOUS
    <3>1. k \in D /\ k + 1 \in D
      BY <1>1
    <3>2. p[k] \in D /\ p[k + 1] \in D
      BY <3>1 DEF Bijection, Injection
    <3>3. w[k + 1].key = all[p[k + 1]].key /\ w[k].key = all[p[k]].key
      BY <1>1, <2>2, <3>1, <3>2
    <3>4. ~ Less(all[p[k + 1]], all[p[k]])
      BY <2>1
    <3> HIDE DEF w, D
    <3>5. \A e, g, x, y : e.key = x.key /\ g.key = y.key => (Less(e, g) <=> Less(x, y))
      BY DEF Less
    <3> QED
      BY <3>3, <3>4, <3>5
  <2>6. w \in Orders(fm, want)
    <3>1. w \in {[i \in DOMAIN want |-> want[q[i]]] : q \in Bijection(DOMAIN want, DOMAIN want)}
      BY <1>1
    <3>2. \A i \in 1 .. Len(w) - 1 : ~ Less(w[i + 1], w[i])
      BY <2>4, <2>5
    <3> HIDE DEF w
    <3> QED
      BY <1>3, <3>1, <3>2 DEF Orders
  <2>7. \A i \in D : Matches(shown[i], w[i])
    BY <2>2, <2>3
  <2> HIDE DEF w
  <2> QED
    BY <1>1, <2>2, <2>4, <2>6, <2>7 DEF Arranged
<1> QED
  BY <1>2, <1>3

\* The fields that a line should show, those of the logger first.
FieldsMeant(fm, m) ==
    [i \in DOMAIN m.with |-> Shown(fm, m.with[i], FALSE)] \o [i \in DOMAIN m.fields |-> Shown(fm, m.fields[i], TRUE)]
Wants(want, fm, all, a) ==
    /\ IsSequence(want) /\ Len(want) = Len(all)
    /\ \A i \in 1 .. Len(all) : want[i] = Shown(fm, all[i], i > a)

\* What is meant for the fields of a record is what is meant for each of them.
LEMMA WantsMeant ==
  ASSUME NEW fm, NEW m, MeantOK(m)
  PROVE  Wants(FieldsMeant(fm, m), fm, m.with \o m.fields, Len(m.with))
<1> DEFINE a == Len(m.with)
           b == Len(m.fields)
           s == m.with
           t == m.fields
           f == [i \in DOMAIN s |-> Shown(fm, s[i], FALSE)]
           g == [i \in DOMAIN t |-> Shown(fm, t[i], TRUE)]
<1>1. IsSequence(s) /\ IsSequence(t) /\ a \in Nat /\ b \in Nat /\ DOMAIN s = 1 .. a /\ DOMAIN t = 1 .. b
      /\ Len(s) = a /\ Len(t) = b
  BY DEF MeantOK, NewFields, IsSequence
<1>2. FieldsMeant(fm, m) = f \o g /\ m.with \o m.fields = s \o t
  BY DEF FieldsMeant
<1>3. /\ \A i \in 1 .. a : f[i] = Shown(fm, s[i], FALSE)
      /\ \A i \in 1 .. b : g[i] = Shown(fm, t[i], TRUE)
      /\ f = [i \in DOMAIN s |-> f[i]] /\ g = [i \in DOMAIN t |-> g[i]]
  BY <1>1
<1> HIDE DEF f, g, s, t, a, b
<1>4. IsSequence(f) /\ Len(f) = a /\ IsSequence(g) /\ Len(g) = b
  BY <1>1, <1>3, MapSequence
<1> DEFINE w == f \o g
           all == s \o t
<1>5. /\ IsSequence(w) /\ Len(w) = a + b
      /\ (\A i \in 1 .. a : w[i] = f[i]) /\ \A i \in 1 .. b : w[a + i] = g[i]
  <2>1. \A x, y : IsSequence(x) /\ IsSequence(y) =>
            /\ IsSequence(x \o y) /\ Len(x \o y) = Len(x) + Len(y)
            /\ (\A i \in 1 .. Len(x) : (x \o y)[i] = x[i])
            /\ \A i \in 1 .. Len(y) : (x \o y)[Len(x) + i] = y[i]
    BY ConcatSequence
  <2> QED
    BY <1>4, <2>1
<1>6. /\ Len(all) = a + b
      /\ (\A i \in 1 .. a : all[i] = s[i]) /\ \A i \in 1 .. b : all[a + i] = t[i]
  <2>1. \A x, y : IsSequence(x) /\ IsSequence(y) =>
            /\ IsSequence(x \o y) /\ Len(x \o y) = Len(x) + Len(y)
            /\ (\A i \in 1 .. Len(x) : (x \o y)[i] = x[i])
            /\ \A i \in 1 .. Len(y) : (x \o y)[Len(x) + i] = y[i]
    BY ConcatSequence
  <2> QED
    BY <1>1, <2>1
<1> HIDE DEF w, all
<1>7. ASSUME NEW i \in 1 .. a + b
      PROVE  w[i] = Shown(fm, all[i], i > a)
  <2>1. CASE i <= a
    <3>1. i \in 1 .. a /\ (i > a) = FALSE
      BY <1>1, <2>1
    <3> QED
      BY <1>3, <1>5, <1>6, <3>1
  <2>2. CASE ~ (i <= a)
    <3>1. PICK k \in 1 .. b : a + k = i
      BY <1>1, <2>2
    <3>2. (i > a) = TRUE
      BY <1>1, <2>2
    <3>3. w[a + k] = g[k] /\ all[a + k] = t[k] /\ g[k] = Shown(fm, t[k], TRUE)
      BY <1>3, <1>5, <1>6
    <3> QED
      BY <3>1, <3>2, <3>3
  <2> QED
    BY <2>1, <2>2
<1>8. Wants(w, fm, all, a)
  BY <1>5, <1>6, <1>7 DEF Wants
<1> QED
  BY <1>2, <1>8 DEF w, all, a, s, t

\* The fields that prep gathered show those that are meant.
Showing(F, all, a) ==
    /\ Keyed(F) /\ Len(F) = Len(all) /\ a \in Nat
    /\ \A i \in 1 .. Len(all) : Shows(F[i], all[i], i > a)

\* Every field that prep gathered shows what the scenario means for it.
LEMMA GatheredShow ==
  ASSUME NEW F, NEW all, NEW a \in Nat, env.limit \in Int, GatheredAs(F, all, a, env.limit)
  PROVE  Showing(F, all, a)
<1>1. /\ Keyed(F) /\ Len(F) = Len(all)
      /\ \A i \in 1 .. Len(F) : /\ IsField(F[i]) /\ IsMeant(all[i])
                                /\ F[i].key = all[i].key /\ F[i].type = all[i].type /\ F[i].val.bad = all[i].val.bad
      /\ \A i \in 1 .. Len(F) : (i <= a => F[i] = all[i]) /\ (i > a => Settled(F[i], all[i], env.limit))
  BY DEF GatheredAs
<1>2. ASSUME NEW i \in 1 .. Len(all)
      PROVE  Shows(F[i], all[i], i > a)
  <2>1. i > a => Settled(F[i], all[i], env.limit)
    BY <1>1
  <2>2. ~ (i > a) => F[i] = all[i]
    BY <1>1
  <2> QED
    BY <1>1, <2>1, <2>2 DEF Shows
<1> QED
  BY <1>1, <1>2 DEF Showing

\* A field that is rendered like one that is meant, and fields like some that are.
Encodes(fm) == fm.kind \in {"json", "gelf"}
RendersTo(fm, f, w) ==
    /\ IsField(f) /\ f.key = w.key
    /\ IF Encodes(fm) THEN \A g : g.type = f.type /\ g.val = f.val => EncodeField(g, env.limit).text = w.text
       ELSE ValueText(f, env.limit) = w.text
Renders(fm, all, want) ==
    /\ IsSequence(all) /\ IsSequence(want) /\ Len(want) = Len(all)
    /\ \A i \in 1 .. Len(all) : RendersTo(fm, all[i], want[i])

\* No fields are rendered like none.
LEMMA RendersNone == ASSUME NEW fm PROVE Renders(fm, <<>>, <<>>)
<1>1. IsSequence(<<>>) /\ Len(<<>>) = 0 /\ 1 .. 0 = {}
  BY EmptySequence
<1> QED
  BY <1>1 DEF Renders

\* A field that may be left out.
LEMMA RendersOne ==
  ASSUME NEW fm, NEW f, NEW w, RendersTo(fm, f, w), NEW b \in BOOLEAN
  PROVE  Renders(fm, Optional(b, f), Optional(b, w))
<1>1. CASE b
  <2>1. Optional(b, f) = <<f>> /\ Optional(b, w) = <<w>>
    BY <1>1 DEF Optional
  <2>2. IsSequence(<<f>>) /\ IsSequence(<<w>>) /\ Len(<<f>>) = 1 /\ Len(<<w>>) = 1 /\ <<f>>[1] = f /\ <<w>>[1] = w
    BY DEF IsSequence
  <2>3. \A i \in 1 .. 1 : i = 1
    OBVIOUS
  <2> HIDE DEF RendersTo
  <2>4. \A x, y : /\ IsSequence(x) /\ IsSequence(y) /\ Len(x) = 1 /\ Len(y) = 1 /\ x[1] = f /\ y[1] = w
                  => Renders(fm, x, y)
    BY <2>3 DEF Renders
  <2> QED
    BY <2>1, <2>2, <2>4
<1>2. CASE ~ b
  <2>1. Optional(b, f) = <<>> /\ Optional(b, w) = <<>>
    BY <1>2 DEF Optional
  <2> QED
    BY <2>1, RendersNone
<1> QED
  BY <1>1, <1>2

\* Fields behind others are rendered like those that are meant behind the others.
LEMMA RendersConcat ==
  ASSUME NEW fm, NEW s, NEW t, NEW u, NEW v, Renders(fm, s, u), Renders(fm, t, v)
  PROVE  Renders(fm, s \o t, u \o v)
<1> DEFINE a == Len(s)
           b == Len(t)
           x == s \o t
           y == u \o v
<1>1. /\ IsSequence(s) /\ IsSequence(t) /\ IsSequence(u) /\ IsSequence(v) /\ Len(u) = a /\ Len(v) = b
      /\ a \in Nat /\ b \in Nat
      /\ (\A i \in 1 .. a : RendersTo(fm, s[i], u[i])) /\ \A i \in 1 .. b : RendersTo(fm, t[i], v[i])
  BY DEF Renders, IsSequence
<1>2. \A p, q : IsSequence(p) /\ IsSequence(q) =>
            /\ IsSequence(p \o q) /\ Len(p \o q) = Len(p) + Len(q)
            /\ (\A i \in 1 .. Len(p) : (p \o q)[i] = p[i])
            /\ \A i \in 1 .. Len(q) : (p \o q)[Len(p) + i] = q[i]
  BY ConcatSequence
<1>3. /\ IsSequence(x) /\ Len(x) = a + b
      /\ (\A i \in 1 .. a : x[i] = s[i]) /\ \A i \in 1 .. b : x[a + i] = t[i]
  BY <1>1, <1>2
<1>4. /\ IsSequence(y) /\ Len(y) = a + b
      /\ (\A i \in 1 .. a : y[i] = u[i]) /\ \A i \in 1 .. b : y[a + i] = v[i]
  BY <1>1, <1>2
<1> HIDE DEF x, y, a, b
<1>5. ASSUME NEW i \in 1 .. a + b
      PROVE  RendersTo(fm, x[i], y[i])
  <2>1. CASE i \in 1 .. a
    BY <1>1, <1>3, <1>4, <2>1
  <2>2. CASE i \notin 1 .. a
    <3>1. PICK k \in 1 .. b : a + k = i
      BY <1>1, <2>2
    <3>2. x[a + k] = t[k] /\ y[a + k] = v[k] /\ RendersTo(fm, t[k], v[k])
      BY <1>1, <1>3, <1>4
    <3> QED
      BY <3>1, <3>2
  <2> QED
    BY <2>1, <2>2
<1>6. Renders(fm, x, y)
  BY <1>3, <1>4, <1>5 DEF Renders
<1> QED
  BY <1>6 DEF x, y

\* The fields that prep gathered.
LEMMA RendersGathered ==
  ASSUME NEW fm, Encodes(fm) \/ FloatsFit, NEW F, NEW all, NEW a, Showing(F, all, a),
         NEW want, Wants(want, fm, all, a)
  PROVE  Renders(fm, F, want)
<1>1. /\ Keyed(F) /\ Len(F) = Len(all) /\ a \in Nat /\ IsSequence(want) /\ Len(want) = Len(all)
      /\ IsSequence(F)
  BY DEF Showing, Wants, Keyed
<1>2. ASSUME NEW i \in 1 .. Len(F)
      PROVE  RendersTo(fm, F[i], want[i])
  <2> DEFINE f == F[i]
             o == all[i]
             cut == i > a
  <2>1. Shows(f, o, cut) /\ want[i] = Shown(fm, o, cut) /\ cut \in BOOLEAN
    BY <1>1 DEF Showing, Wants
  <2>2. IsField(f) /\ f.key = o.key
    BY <2>1 DEF Shows
  <2>3. Shown(fm, o, cut).key = o.key
    BY DEF Shown
  <2> HIDE DEF f, o, cut
  <2>4. CASE Encodes(fm)
    <3>1. ASSUME NEW g, g.type = f.type /\ g.val = f.val
          PROVE  EncodeField(g, env.limit).text = Shown(fm, o, cut).text
      BY <2>1, <2>4, <3>1, EncodedText DEF Encodes
    <3> QED
      BY <2>1, <2>2, <2>3, <2>4, <3>1 DEF RendersTo, f
  <2>5. CASE ~ Encodes(fm)
    <3>1. ValueText(f, env.limit) = Shown(fm, o, cut).text
      BY <2>1, <2>5, PlainText DEF Encodes
    <3> QED
      BY <2>1, <2>2, <2>3, <2>5, <3>1 DEF RendersTo, f
  <2> QED
    BY <2>4, <2>5
<1> QED
  BY <1>1, <1>2 DEF Renders

\* The field that a formatter makes of the caller (gelf.go:103-110, plain.go:110-117).
LEMMA RendersCaller ==
  ASSUME NEW fm, NEW rec, IsText(rec.caller), NEW key, IsKey(key)
  PROVE  RendersTo(fm, CallerField(key, rec), [key |-> key, text |-> rec.caller])
<1> DEFINE f == CallerField(key, rec)
           w == [key |-> key, text |-> rec.caller]
<1>1. /\ f = [key |-> key, type |-> "String", val |-> [text |-> rec.caller, wraps |-> 0, bad |-> {}]]
      /\ f.key = key /\ f.type = "String" /\ f.val = [text |-> rec.caller, wraps |-> 0, bad |-> {}]
  BY DEF CallerField, Field, Value
<1>2. f.val.text = rec.caller /\ f.val.wraps = 0 /\ f.val.bad = {}
  BY <1>1
<1>3. w.key = key /\ w.text = rec.caller
  OBVIOUS
<1> HIDE DEF f, w
<1>4. IsField(f)
  <2>1. IsValue(f.val)
    BY <1>1, <1>2 DEF IsValue
  <2> QED
    BY <1>1, <2>1 DEF IsField
<1>5. ASSUME NEW g, g.type = f.type /\ g.val = f.val
      PROVE  EncodeField(g, env.limit).text = w.text /\ ValueText(g, env.limit) = w.text
  <2>1. g.type = "String" /\ g.val.text = rec.caller
    BY <1>1, <1>2, <1>5
  <2>2. ValueText(g, env.limit) = rec.caller
    BY <2>1 DEF ValueText
  <2>3. EncodeField(g, env.limit).text = ValueText(g, env.limit)
    <3>1. ~ OwnMarshaller(g)
      BY <1>2, <1>5 DEF OwnMarshaller
    <3> QED
      BY <2>1, <3>1, Encoded
  <2> QED
    BY <1>3, <2>2, <2>3
<1> QED
  BY <1>1, <1>3, <1>4, <1>5 DEF RendersTo, f, w

\* The fields of a line before they are ordered, the caller's among them.
Source(fm, rec) ==
    Optional(fm.caller /\ fm.kind \in {"gelf", "plain"},
             CallerField(Key(IF fm.kind = "gelf" THEN 1 ELSE 0, "caller"), rec))
    \o (IF "fields" \in fm.disabled THEN <<>> ELSE rec.fieldsAll)
CallerShown(fm, rec) ==
    IsText(rec.caller) /\ (fm.caller /\ fm.kind \in {"gelf", "plain"} => rec.caller = CallerText)

\* The fields that a formatter starts from, the caller among them, are rendered like those
\* that are meant (gelf.go:102-112, plain.go:108-121).
LEMMA SourceRenders ==
  ASSUME NEW fm, fm.caller \in BOOLEAN, NEW m, NEW rec, Renders(fm, rec.fieldsAll, FieldsMeant(fm, m)),
         CallerShown(fm, rec)
  PROVE  Renders(fm, Source(fm, rec), ShownFields(fm, m))
<1> DEFINE b == fm.caller /\ fm.kind \in {"gelf", "plain"}
           key == Key(IF fm.kind = "gelf" THEN 1 ELSE 0, "caller")
           f == CallerField(key, rec)
           w == [key |-> key, text |-> CallerText]
           v == [key |-> key, text |-> rec.caller]
           s == IF "fields" \in fm.disabled THEN <<>> ELSE rec.fieldsAll
           t == IF "fields" \in fm.disabled THEN <<>> ELSE FieldsMeant(fm, m)
<1>1. Source(fm, rec) = Optional(b, f) \o s /\ ShownFields(fm, m) = Optional(b, w) \o t
  BY DEF Source, ShownFields, FieldsMeant
<1>2. Renders(fm, s, t)
  BY RendersNone
<1>3. IsKey(key)
  <2>1. "caller" \in BaseSet
    BY BasesAssumption
  <2>2. key = <<key[1], key[2]>> /\ key[1] \in Nat /\ key[2] = "caller"
    BY DEF Key
  <2> HIDE DEF key
  <2> QED
    BY <2>1, <2>2 DEF IsKey
<1>4. IsText(rec.caller) /\ (b => w = v)
  BY DEF CallerShown
<1>5. b \in BOOLEAN
  OBVIOUS
<1> HIDE DEF b, s, t, w
<1>6. RendersTo(fm, f, v)
  <2> HIDE DEF key
  <2> QED
    BY <1>3, <1>4, RendersCaller
<1> HIDE DEF f, v
<1>7. Renders(fm, Optional(b, f), Optional(b, v))
  BY <1>5, <1>6, RendersOne
<1>8. Optional(b, v) = Optional(b, w)
  BY <1>4, <1>5 DEF Optional
<1> QED
  BY <1>1, <1>2, <1>7, <1>8, RendersConcat

\* The entries of the fields, each under its key or one with more underscores.
EntryOf(fm, e, f) ==
    /\ e.key[2] = f.key[2] /\ e.key[1] >= f.key[1]
    /\ \E g : g.type = f.type /\ g.val = f.val
              /\ e.text = IF Encodes(fm) THEN EncodeField(g, env.limit).text ELSE ValueText(f, env.limit)
EntriesOf(fm, all, shown) ==
    /\ Len(shown) = Len(all)
    /\ \A k \in 1 .. Len(all) : IsField(InFieldOrder(fm, all)[k]) => EntryOf(fm, shown[k], InFieldOrder(fm, all)[k])

\* The entries of such fields are what the line should show.
LEMMA EntriesArranged ==
  ASSUME NEW fm, NEW all, NEW want, Renders(fm, all, want), NEW shown, EntriesOf(fm, all, shown)
  PROVE  Arranged(fm, want, shown)
<1>1. /\ IsSequence(all) /\ IsSequence(want) /\ Len(want) = Len(all) /\ Len(shown) = Len(all)
      /\ \A i \in 1 .. Len(all) : RendersTo(fm, all[i], want[i])
  BY DEF Renders, EntriesOf
<1>2. \A i \in 1 .. Len(all) : IsKey(all[i].key) /\ all[i].key = want[i].key
  BY <1>1 DEF RendersTo, IsField
<1>3. ASSUME NEW k \in 1 .. Len(all), NEW i \in 1 .. Len(all), InFieldOrder(fm, all)[k] = all[i]
      PROVE  Matches(shown[k], want[i])
  <2>1. RendersTo(fm, all[i], want[i])
    BY <1>1
  <2>2. EntryOf(fm, shown[k], all[i])
    <3>1. IsField(InFieldOrder(fm, all)[k])
      BY <1>3, <2>1 DEF RendersTo
    <3>2. EntryOf(fm, shown[k], InFieldOrder(fm, all)[k])
      BY <3>1 DEF EntriesOf
    <3> QED
      BY <1>3, <3>2
  <2> DEFINE e == shown[k]
             f == all[i]
             w == want[i]
  <2>3. RendersTo(fm, f, w) /\ EntryOf(fm, e, f)
    BY <2>1, <2>2
  <2> HIDE DEF e, f, w
  <2>4. e.key[2] = w.key[2] /\ e.key[1] >= w.key[1]
    BY <2>3 DEF RendersTo, EntryOf
  <2>5. e.text = w.text
    BY <2>3 DEF RendersTo, EntryOf
  <2>6. Matches(e, w)
    BY <2>4, <2>5 DEF Matches
  <2> QED
    BY <2>6 DEF e, w
<1>4. Arranges(fm, all, want, shown)
  BY <1>1, <1>2, <1>3 DEF Arranges, Keyed
<1> QED
  BY <1>4, ArrangedFields

\* The order of the fields keeps their number.
LEMMA FieldOrderLen ==
  ASSUME NEW fm, NEW all, IsSequence(all)
  PROVE  IsSequence(InFieldOrder(fm, all)) /\ Len(InFieldOrder(fm, all)) = Len(all)
<1>1. IsSequence(Sorted(all)) /\ Len(Sorted(all)) = Len(all)
  BY SortedSequence
<1> QED
  BY <1>1 DEF InFieldOrder

\* JSON (json.go:141-180, 225-271).
LEMMA JSONEntriesOf ==
  ASSUME NEW fm, IsFormatter(fm), fm.kind = "json", fm.sorter # "inplace", "fields" \notin fm.disabled,
         NEW all, IsSequence(all)
  PROVE  EntriesOf(fm, all, JSONEntries(fm, all, env.limit))
<1> DEFINE G == JSONFields(fm, all)
           s == JSONEntries(fm, all, env.limit)
<1>1. G = InFieldOrder(fm, all)
  BY DEF JSONFields, InFieldOrder, IsFormatter
<1>2. IsSequence(G) /\ Len(G) = Len(all) /\ DOMAIN G = 1 .. Len(all)
  BY <1>1, FieldOrderLen DEF IsSequence
<1>3. Len(s) = Len(all) /\ DOMAIN s = 1 .. Len(all)
  <2>1. IsSequence(s)
    BY JSONEntriesPart DEF PartIs
  <2>2. DOMAIN s = DOMAIN G
    BY DEF JSONEntries
  <2>3. Len(s) \in Nat /\ DOMAIN s = 1 .. Len(s) /\ Len(all) \in Nat
    BY <2>1 DEF IsSequence
  <2> HIDE DEF s
  <2> QED
    BY <1>2, <2>2, <2>3
<1>4. ASSUME NEW k \in 1 .. Len(all), IsField(G[k])
      PROVE  EntryOf(fm, s[k], G[k])
  <2>1. LET e == s[k] IN
         /\ KeyName(fm, "group") # NoName => e.in = "group" /\ e.key = G[k].key /\ e.text = EncodeField(G[k], env.limit).text
         /\ KeyName(fm, "group") = NoName =>
              /\ e.in = "top" /\ e.key = PrefixCollision(fm, G[k]).key
              /\ e.text = EncodeField(PrefixCollision(fm, G[k]), env.limit).text
    <3> HIDE DEF G
    <3>1. k \in DOMAIN JSONEntries(fm, all, env.limit)
      BY <1>3
    <3> QED
      BY <1>2, <3>1, JSONFieldKeys DEF G
  <2> DEFINE f == G[k]
             e == s[k]
             g == PrefixCollision(fm, f)
  <2>2. IsField(f)
    BY <1>4
  <2>3. IsKey(f.key) /\ f.key[1] >= f.key[1]
    BY <2>2 DEF IsField, IsKey
  <2>4. g.key[2] = f.key[2] /\ g.key[1] >= f.key[1] /\ g.type = f.type /\ g.val = f.val
    <3> HIDE DEF f
    <3>1. g.key[1] \in Nat /\ g.key[1] >= f.key[1] /\ g = [f EXCEPT !.key = <<g.key[1], f.key[2]>>]
      BY <2>2, CollisionAvoided
    <3> HIDE DEF g
    <3>2. f = [key |-> f.key, type |-> f.type, val |-> f.val]
      BY <2>2 DEF IsField
    <3>3. g = [key |-> <<g.key[1], f.key[2]>>, type |-> f.type, val |-> f.val]
      BY <3>1, <3>2
    <3> QED
      BY <3>1, <3>3
  <2>5. /\ KeyName(fm, "group") # NoName => e.key = f.key /\ e.text = EncodeField(f, env.limit).text
        /\ KeyName(fm, "group") = NoName => e.key = g.key /\ e.text = EncodeField(g, env.limit).text
    BY <2>1
  <2> HIDE DEF e, f, g
  <2>6. Encodes(fm)
    BY DEF Encodes
  <2>7. EntryOf(fm, e, f)
    BY <2>3, <2>4, <2>5, <2>6 DEF EntryOf
  <2> QED
    BY <2>7 DEF e, f
<1> QED
  BY <1>1, <1>3, <1>4 DEF EntriesOf

\* GELF (gelf.go:102-127).
LEMMA GelfEntriesArranged ==
  ASSUME NEW fm, fm.kind = "gelf", fm.caller \in BOOLEAN, fm.disabled = {}, NEW rec, IsSequence(rec.fieldsAll),
         NEW want, Renders(fm, Source(fm, rec), want)
  PROVE  Arranged(fm, want, GelfEntries(fm, rec, env.limit))
<1> DEFINE all == Optional(fm.caller, CallerField(Key(1, "caller"), rec)) \o rec.fieldsAll
           G == GelfFields(fm, rec)
           s == GelfEntries(fm, rec, env.limit)
<1>1. Source(fm, rec) = all
  BY DEF Source
<1>2. IsSequence(all) /\ \A i \in 1 .. Len(all) : IsField(all[i])
  BY <1>1 DEF Renders, RendersTo
<1>3. Keyed(all)
  BY <1>2 DEF Keyed, IsField
<1>4. G = InFieldOrder(fm, all)
  BY DEF GelfFields, InFieldOrder
<1>5. IsSequence(G) /\ Len(G) = Len(all) /\ \A k \in 1 .. Len(all) : IsField(G[k])
  <2>1. \A y : y = all => Shuffled(G, y)
    BY <1>3, GelfShuffled
  <2>2. Shuffled(G, all)
    BY <2>1
  <2> HIDE DEF all, G
  <2>3. PICK p \in Bijection(1 .. Len(all), 1 .. Len(all)) : \A k \in 1 .. Len(all) : G[k] = all[p[k]]
    BY <2>2 DEF Shuffled
  <2>4. \A k \in 1 .. Len(all) : p[k] \in 1 .. Len(all)
    BY DEF Bijection, Injection
  <2> QED
    BY <1>2, <2>2, <2>3, <2>4 DEF Shuffled
<1>6. GelfSource(fm, rec, G)
  BY <1>5 DEF GelfSource, Shaped, IsField
<1>7. GelfEntriesOf(s, G, env.limit)
  BY <1>6, GelfFieldKeys
<1>8. Len(s) = Len(all) /\ DOMAIN s = 1 .. Len(all)
  <2>1. IsSequence(s) /\ Len(s) = Len(G)
    BY GelfEntriesPart DEF PartIs
  <2> HIDE DEF s, G
  <2> QED
    BY <1>5, <2>1 DEF IsSequence
<1> HIDE DEF all, G, s
<1>9. ASSUME NEW k \in 1 .. Len(all)
      PROVE  EntryOf(fm, s[k], G[k])
  <2> DEFINE e == s[k]
             f == G[k]
             g == [key |-> GelfKey(f.key), type |-> f.type, val |-> f.val]
  <2>1. IsField(f) /\ e.key = GelfKey(f.key) /\ e.text = EncodeField(g, env.limit).text
    BY <1>5, <1>7, <1>8 DEF GelfEntriesOf
  <2>2. g.type = f.type /\ g.val = f.val
    OBVIOUS
  <2> HIDE DEF e, f, g
  <2>3. IsKey(f.key)
    BY <2>1 DEF IsField
  <2>4. GelfKey(f.key)[2] = f.key[2] /\ (GelfKey(f.key)[1] = f.key[1] \/ GelfKey(f.key)[1] = f.key[1] + 1)
    BY <2>3, GelfKeyOf
  <2>5. e.key[2] = f.key[2] /\ e.key[1] >= f.key[1]
    BY <2>1, <2>3, <2>4 DEF IsKey
  <2>6. Encodes(fm)
    BY DEF Encodes
  <2>7. EntryOf(fm, e, f)
    BY <2>1, <2>2, <2>5, <2>6 DEF EntryOf
  <2> QED
    BY <2>7 DEF e, f
<1>10. EntriesOf(fm, all, s)
  BY <1>4, <1>8, <1>9 DEF EntriesOf
<1>11. Renders(fm, all, want)
  BY <1>1
<1>12. Arranged(fm, want, s)
  BY <1>10, <1>11, EntriesArranged
<1> QED
  BY <1>12 DEF s

\* The other formatters (plain.go:108-127, formatter.go:97-102, 122-150).
LEMMA PlainEntriesArranged ==
  ASSUME NEW fm, fm.kind \in {"plain", "default"}, fm.caller \in BOOLEAN, fm.sorter = "none", NEW rec,
         NEW want, Renders(fm, Source(fm, rec), want)
  PROVE  Arranged(fm, want, WriteFields(PlainFields(fm, rec), env.limit))
<1> DEFINE all == PlainFields(fm, rec)
           s == WriteFields(all, env.limit)
<1>1. Source(fm, rec) = all
  <2>1. CASE fm.kind = "plain"
    BY <2>1 DEF Source, PlainFields
  <2>2. CASE fm.kind = "default"
    BY <2>2 DEF Source, PlainFields, Optional
  <2> QED
    BY <2>1, <2>2
<1>2. InFieldOrder(fm, all) = all
  BY DEF InFieldOrder
<1>3. IsSequence(all) /\ \A i \in 1 .. Len(all) : IsField(all[i])
  BY <1>1 DEF Renders, RendersTo
<1> HIDE DEF all
<1>4. DOMAIN all = 1 .. Len(all)
  BY <1>3 DEF IsSequence
<1>5. Len(s) = Len(all)
  <2>1. s = [i \in DOMAIN all |-> s[i]]
    BY DEF WriteFields
  <2> HIDE DEF s
  <2> QED
    BY <1>3, <2>1, MapSequence
<1>6. ASSUME NEW k \in 1 .. Len(all)
      PROVE  EntryOf(fm, s[k], all[k])
  <2> DEFINE e == s[k]
             f == all[k]
  <2>1. e.key = f.key /\ e.text = ValueText(f, env.limit)
    BY <1>4 DEF WriteFields, FieldEntry, Entry
  <2>2. IsField(f)
    BY <1>3
  <2> HIDE DEF e, f
  <2>3. e.key[2] = f.key[2] /\ e.key[1] >= f.key[1]
    BY <2>1, <2>2 DEF IsField, IsKey
  <2>4. ~ Encodes(fm)
    BY DEF Encodes
  <2>5. EntryOf(fm, e, f)
    BY <2>1, <2>3, <2>4 DEF EntryOf
  <2> QED
    BY <2>5 DEF e, f
<1>7. EntriesOf(fm, all, s)
  BY <1>2, <1>5, <1>6 DEF EntriesOf
<1>8. Renders(fm, all, want)
  BY <1>1
<1>9. Arranged(fm, want, s)
  BY <1>7, <1>8, EntriesArranged
<1> QED
  BY <1>9 DEF s, all

\* What a line should show of a record that is meant, and the record that a formatter
\* is given.
LineMeant(fm, m, entries) ==
    LET msgs == Parts(entries, "msg")
    IN  /\ Arranged(fm, ShownFields(fm, m), Parts(entries, "field"))
        /\ Len(msgs) = IF "msg" \in fm.disabled THEN 0 ELSE 1
        /\ \A i \in DOMAIN msgs : msgs[i].text = IF fm.kind = "gelf" /\ m.msg.len = 0 THEN Text("-", 1) ELSE Cut(m.msg)
        /\ \A p \in {"timestamp", "level", "caller", "stacktrace", "version", "host", "group"} :
             Len(Parts(entries, p)) <= 1
        /\ Parts(entries, "rest") = <<>>
RecordMeant(fm, m, rec) ==
    /\ IsFormatter(fm) /\ ~ (fm.kind = "json" /\ fm.sorter = "inplace")
    /\ IsSequence(rec.fieldsAll) /\ Renders(fm, rec.fieldsAll, FieldsMeant(fm, m)) /\ CallerShown(fm, rec)
    /\ IsText(m.msg) /\ m.msg.dots = 0 /\ rec.msg = Cut(m.msg) /\ env.limit \in Int

\* A JSON line says what is meant (json.go:70-165).
LEMMA JSONMeant ==
  ASSUME NEW fm, NEW m, NEW rec, RecordMeant(fm, m, rec), fm.kind = "json", NEW stack \in BOOLEAN
  PROVE  LineMeant(fm, m, JSONFormat(fm, rec, stack, env.limit))
<1> DEFINE e == JSONFormat(fm, rec, stack, env.limit)
           b1 == "timestamp" \notin fm.disabled
           b2 == "level" \notin fm.disabled
           b3 == "msg" \notin fm.disabled
           b5 == "fields" \notin fm.disabled /\ KeyName(fm, "group") # NoName
           b7 == "stacktrace" \notin fm.disabled /\ HasStack(rec, stack)
           msg == Entry("msg", KeyName(fm, "msg"), rec.msg)
<1>1. fm.caller \in BOOLEAN /\ IsSequence(rec.fieldsAll) /\ b1 \in BOOLEAN /\ b2 \in BOOLEAN /\ b3 \in BOOLEAN
      /\ b5 \in BOOLEAN /\ b7 \in BOOLEAN
  BY DEF IsFormatter, RecordMeant, HasStack
<1>2. \A p : Parts(e, p) =
              IF p = "timestamp" THEN Optional(b1, Entry("timestamp", KeyName(fm, "timestamp"), NoText))
              ELSE IF p = "level" THEN Optional(b2, Entry("level", KeyName(fm, "level"), NoText))
              ELSE IF p = "msg" THEN Optional(b3, msg)
              ELSE IF p = "caller" THEN Optional(fm.caller, Entry("caller", KeyName(fm, "caller"), rec.caller))
              ELSE IF p = "group" THEN Optional(b5, Entry("group", KeyName(fm, "group"), NoText))
              ELSE IF p = "field" THEN JSONEntries(fm, rec.fieldsAll, env.limit)
              ELSE IF p = "stacktrace" THEN Optional(b7, Entry("stacktrace", KeyName(fm, "stacktrace"), NoText))
              ELSE <<>>
  BY <1>1, JSONParts
<1>3. msg.text = Cut(m.msg) /\ b3 = ("msg" \notin fm.disabled)
  BY DEF Entry, RecordMeant
<1> HIDE DEF e, b1, b2, b3, b5, b7, msg
<1>4. \A b \in BOOLEAN : \A x : Len(Optional(b, x)) = IF b THEN 1 ELSE 0
  BY OptionalLen
<1>5. Len(Parts(e, "msg")) = IF "msg" \in fm.disabled THEN 0 ELSE 1
  BY <1>1, <1>2, <1>3, <1>4
<1>6. \A i \in DOMAIN Parts(e, "msg") : Parts(e, "msg")[i].text = Cut(m.msg)
  <2>1. \A i \in DOMAIN Optional(b3, msg) : Optional(b3, msg)[i] = msg
    BY <1>1, OptionalLen
  <2> QED
    BY <1>2, <1>3, <2>1
<1>7. ASSUME NEW p \in {"timestamp", "level", "caller", "stacktrace", "version", "host", "group"}
      PROVE  Len(Parts(e, p)) <= 1
  <2>1. Len(<<>>) = 0
    OBVIOUS
  <2>2. \E b \in BOOLEAN : \E x : Parts(e, p) = Optional(b, x) \/ Parts(e, p) = <<>>
    BY <1>1, <1>2, Zenon
  <2>3. Len(Parts(e, p)) \in {0, 1}
    BY <1>4, <2>1, <2>2
  <2>4. \A x : x \in {0, 1} => x <= 1
    OBVIOUS
  <2> QED
    BY <2>3, <2>4, Zenon
<1>8. Parts(e, "rest") = <<>>
  BY <1>2
<1>9. Parts(e, "field") = JSONEntries(fm, rec.fieldsAll, env.limit)
  BY <1>2
<1> DEFINE want == ShownFields(fm, m)
           shown == Parts(e, "field")
<1>10. Renders(fm, Source(fm, rec), want)
  BY <1>1, SourceRenders DEF RecordMeant
<1>11. EntriesOf(fm, Source(fm, rec), shown)
  <2> DEFINE s == IF "fields" \in fm.disabled THEN <<>> ELSE rec.fieldsAll
  <2>1. Source(fm, rec) = s
    <3>1. Optional(fm.caller /\ fm.kind \in {"gelf", "plain"}, CallerField(Key(IF fm.kind = "gelf" THEN 1 ELSE 0, "caller"), rec)) = <<>>
      BY DEF Optional
    <3>2. Source(fm, rec) = <<>> \o s
      BY <3>1 DEF Source
    <3>3. IsSequence(s)
      BY <1>1, EmptySequence
    <3> HIDE DEF s
    <3> QED
      BY <3>2, <3>3, EmptyConcat
  <2>2. CASE "fields" \in fm.disabled
    <3>1. s = <<>> /\ shown = <<>>
      BY <1>9, <2>2 DEF JSONEntries
    <3>2. Len(<<>>) = 0 /\ 1 .. 0 = {}
      OBVIOUS
    <3> QED
      BY <2>1, <3>1, <3>2 DEF EntriesOf
  <2>3. CASE "fields" \notin fm.disabled
    <3>1. s = rec.fieldsAll
      BY <2>3
    <3>2. EntriesOf(fm, rec.fieldsAll, JSONEntries(fm, rec.fieldsAll, env.limit))
      BY <1>1, <2>3, JSONEntriesOf DEF RecordMeant
    <3> QED
      BY <1>9, <2>1, <3>1, <3>2
  <2> QED
    BY <2>2, <2>3
<1>12. Arranged(fm, want, shown)
  <2> HIDE DEF want, shown
  <2> QED
    BY <1>10, <1>11, EntriesArranged
<1>13. LineMeant(fm, m, e)
  BY <1>5, <1>6, <1>7, <1>8, <1>12 DEF LineMeant
<1> QED
  BY <1>13 DEF e

\* The message of GELF (gelf.go:135-141): a cut text is as empty as the text was.
LEMMA GelfMsgCut ==
  ASSUME NEW t, IsText(t), t.dots = 0, env.limit \in Int
  PROVE  GelfMsg(Cut(t)) = IF t.len = 0 THEN Text("-", 1) ELSE Cut(t)
<1> DEFINE c == Cut(t)
<1>1. t = [of |-> t.of, len |-> t.len, dots |-> t.dots] /\ t.len \in Nat /\ t.dots = 0
  BY DEF IsText
<1>2. Size(c) = 0 <=> t.len = 0
  <2>1. CASE env.limit > 0 /\ t.len > env.limit
    <3>1. c = [t EXCEPT !.len = env.limit, !.dots = 3]
      BY <2>1 DEF Cut
    <3>2. c.len = env.limit /\ c.dots = 3
      BY <1>1, <3>1
    <3> HIDE DEF c
    <3> QED
      BY <1>1, <2>1, <3>2 DEF Size
  <2>2. CASE ~ (env.limit > 0 /\ t.len > env.limit)
    <3>1. c = t
      BY <2>2 DEF Cut
    <3> QED
      BY <1>1, <3>1 DEF Size
  <2> QED
    BY <2>1, <2>2
<1> HIDE DEF c
<1>3. GelfMsg(c) = IF t.len = 0 THEN Text("-", 1) ELSE c
  BY <1>2 DEF GelfMsg
<1> QED
  BY <1>3 DEF c

\* A GELF line says what is meant (gelf.go:46-127).
LEMMA GelfMeant ==
  ASSUME NEW fm, NEW m, NEW rec, RecordMeant(fm, m, rec), fm.kind = "gelf", NEW stack \in BOOLEAN
  PROVE  LineMeant(fm, m, GelfFormat(fm, rec, stack, env.limit))
<1> DEFINE e == GelfFormat(fm, rec, stack, env.limit)
           b == HasStack(rec, stack)
           msg == Entry("msg", Key(0, "short_message"), GelfMsg(rec.msg))
<1>1. fm.caller \in BOOLEAN /\ IsSequence(rec.fieldsAll) /\ b \in BOOLEAN /\ fm.disabled = {}
  BY DEF IsFormatter, RecordMeant, HasStack
<1>2. \A p : Parts(e, p) =
              IF p = "version" THEN <<Entry("version", Key(0, "version"), NoText)>>
              ELSE IF p = "host" THEN <<Entry("host", Key(0, "host"), NoText)>>
              ELSE IF p = "msg" THEN <<msg>>
              ELSE IF p = "stacktrace" THEN Optional(b, Entry("stacktrace", Key(0, "full_message"), NoText))
              ELSE IF p = "timestamp" THEN <<Entry("timestamp", Key(0, "timestamp"), NoText)>>
              ELSE IF p = "level" THEN <<Entry("level", Key(0, "level"), NoText)>>
              ELSE IF p = "field" THEN GelfEntries(fm, rec, env.limit)
              ELSE <<>>
  BY <1>1, GelfParts
<1>3. msg.text = IF m.msg.len = 0 THEN Text("-", 1) ELSE Cut(m.msg)
  <2>1. msg.text = GelfMsg(Cut(m.msg))
    BY DEF Entry, RecordMeant
  <2> HIDE DEF msg
  <2> QED
    BY <2>1, GelfMsgCut DEF RecordMeant
<1> HIDE DEF e, b, msg
<1>4. \A x : Len(Optional(b, x)) \in {0, 1}
  BY <1>1, OptionalLen
<1>5. Len(Parts(e, "msg")) = IF "msg" \in fm.disabled THEN 0 ELSE 1
  BY <1>1, <1>2
<1>6. \A i \in DOMAIN Parts(e, "msg") :
         Parts(e, "msg")[i].text = IF fm.kind = "gelf" /\ m.msg.len = 0 THEN Text("-", 1) ELSE Cut(m.msg)
  <2>1. Parts(e, "msg") = <<msg>>
    BY <1>2
  <2>2. \A i \in DOMAIN <<msg>> : <<msg>>[i] = msg
    OBVIOUS
  <2> QED
    BY <1>3, <2>1, <2>2
<1>7. ASSUME NEW p \in {"timestamp", "level", "caller", "stacktrace", "version", "host", "group"}
      PROVE  Len(Parts(e, p)) <= 1
  <2>1. Len(<<>>) = 0 /\ \A x : Len(<<x>>) = 1
    OBVIOUS
  <2>2. \E x : Parts(e, p) = Optional(b, x) \/ Parts(e, p) = <<>> \/ Parts(e, p) = <<x>>
    BY <1>2, Zenon
  <2>3. Len(Parts(e, p)) \in {0, 1}
    BY <1>4, <2>1, <2>2
  <2>4. \A x : x \in {0, 1} => x <= 1
    OBVIOUS
  <2> QED
    BY <2>3, <2>4, Zenon
<1>8. Parts(e, "rest") = <<>>
  BY <1>2
<1>9. Parts(e, "field") = GelfEntries(fm, rec, env.limit)
  BY <1>2
<1>10. Renders(fm, Source(fm, rec), ShownFields(fm, m))
  BY <1>1, SourceRenders DEF RecordMeant
<1>11. Arranged(fm, ShownFields(fm, m), Parts(e, "field"))
  BY <1>1, <1>9, <1>10, GelfEntriesArranged
<1>12. LineMeant(fm, m, e)
  BY <1>5, <1>6, <1>7, <1>8, <1>11 DEF LineMeant
<1> QED
  BY <1>12 DEF e

\* A plain line says what is meant (plain.go:63-146, formatter.go:84-117).
LEMMA PlainMeant ==
  ASSUME NEW fm, NEW m, NEW rec, RecordMeant(fm, m, rec), fm.kind \in {"plain", "default"}, NEW stack \in BOOLEAN
  PROVE  LineMeant(fm, m, PlainFormat(fm, rec, stack, env.limit))
<1> DEFINE e == PlainFormat(fm, rec, stack, env.limit)
           b == "stacktrace" \notin fm.disabled /\ HasStack(rec, stack)
           b3 == "msg" \notin fm.disabled
           msg == Entry("msg", NoName, rec.msg)
<1>1. fm.caller \in BOOLEAN /\ IsSequence(rec.fieldsAll) /\ b \in BOOLEAN /\ b3 \in BOOLEAN /\ fm.sorter = "none"
  BY DEF IsFormatter, RecordMeant, HasStack
<1>2. \A p : Parts(e, p) =
              IF p = "timestamp" \/ p = "level" \/ p = "msg" THEN PlainPart(fm, rec, p)
              ELSE IF p = "field" THEN WriteFields(PlainFields(fm, rec), env.limit)
              ELSE IF p = "stacktrace" THEN Optional(b, Entry("stacktrace", NoName, NoText))
              ELSE <<>>
  BY <1>1, PlainParts
<1>3. msg.text = Cut(m.msg) /\ b3 = ("msg" \notin fm.disabled)
  BY DEF Entry, RecordMeant
<1>4. PlainPart(fm, rec, "msg") = Optional(b3, msg)
  BY DEF PlainPart
<1>5. \A p : \E c \in BOOLEAN : \E x : PlainPart(fm, rec, p) = Optional(c, x)
  <2> SUFFICES ASSUME NEW p
               PROVE  \E c \in BOOLEAN : \E x : PlainPart(fm, rec, p) = Optional(c, x)
    OBVIOUS
  <2> DEFINE c == p \notin fm.disabled
  <2>1. c \in BOOLEAN /\ \E x : PlainPart(fm, rec, p) = Optional(c, x)
    BY DEF PlainPart
  <2> HIDE DEF c
  <2> QED
    BY <2>1
<1> HIDE DEF e, b, b3, msg
<1>6. \A c \in BOOLEAN : \A x : Len(Optional(c, x)) = IF c THEN 1 ELSE 0
  BY OptionalLen
<1>7. Parts(e, "msg") = Optional(b3, msg)
  BY <1>2, <1>4
<1>8. Len(Parts(e, "msg")) = IF "msg" \in fm.disabled THEN 0 ELSE 1
  BY <1>1, <1>3, <1>6, <1>7
<1>9. \A i \in DOMAIN Parts(e, "msg") : Parts(e, "msg")[i].text = Cut(m.msg)
  <2>1. \A i \in DOMAIN Optional(b3, msg) : Optional(b3, msg)[i] = msg
    BY <1>1, OptionalLen
  <2> QED
    BY <1>3, <1>7, <2>1
<1>10. ASSUME NEW p \in {"timestamp", "level", "caller", "stacktrace", "version", "host", "group"}
       PROVE  Len(Parts(e, p)) <= 1
  <2>1. Len(<<>>) = 0
    OBVIOUS
  <2>2. Parts(e, p) = PlainPart(fm, rec, p) \/ (\E x : Parts(e, p) = Optional(b, x)) \/ Parts(e, p) = <<>>
    BY <1>2, Zenon
  <2>3. \E c \in BOOLEAN : \E x : Parts(e, p) = Optional(c, x) \/ Parts(e, p) = <<>>
    BY <1>1, <1>5, <2>2, Zenon
  <2>4. Len(Parts(e, p)) \in {0, 1}
    BY <1>6, <2>1, <2>3
  <2>5. \A x : x \in {0, 1} => x <= 1
    OBVIOUS
  <2> QED
    BY <2>4, <2>5, Zenon
<1>11. Parts(e, "rest") = <<>>
  BY <1>2
<1>12. Parts(e, "field") = WriteFields(PlainFields(fm, rec), env.limit)
  BY <1>2
<1>13. Renders(fm, Source(fm, rec), ShownFields(fm, m))
  BY <1>1, SourceRenders DEF RecordMeant
<1>14. Arranged(fm, ShownFields(fm, m), Parts(e, "field"))
  BY <1>1, <1>12, <1>13, PlainEntriesArranged
<1>15. fm.kind # "gelf"
  OBVIOUS
<1>16. LineMeant(fm, m, e)
  BY <1>8, <1>9, <1>10, <1>11, <1>14, <1>15 DEF LineMeant
<1> QED
  BY <1>16 DEF e

\* A line that a target was given.
LEMMA LinesInvFaithful ==
  ASSUME SortsCopies, KeepsTime, FloatsFit, LinesInv, NEW h \in Hosts, NEW o \in ToSet(out[h])
  PROVE  LineFaithful(h, o)
<1> DEFINE fm == env.hosts[h].fm
           t == Tasks[o.rec]
           stack == env.hosts[h].on[t.m.level] = "stack"
<1>1. /\ env \in Scenarios /\ t.m = Logged[o.rec] /\ MeantOK(t.m)
      /\ t.stack = StackStatus(t.m.level) /\ Enabled(h, t.m.level)
      /\ Written(env.hosts[h], t, o.entries, env.frames, env.limit, SortsInPlace)
  BY LineShown
<1>2. ~ SortsInPlace /\ ~ env.hosts[h].retimes /\ ~ (fm.kind = "json" /\ fm.sorter = "inplace")
  BY <1>1 DEF SortsCopies, SortsInPlace, KeepsTime, Hosts
<1>3. PICK F : /\ IsSequence(F) /\ Gathers(F, t.m, Len(t.m.fields), env.limit)
               /\ o.entries = LineOf(env.hosts[h], t, F, env.frames, env.limit)
  BY <1>1, <1>2 DEF Written
<1>4. IsFormatter(fm) /\ env.limit \in Int /\ stack \in BOOLEAN /\ IsSequence(env.frames)
  BY <1>1, ScenarioTypes
<1> DEFINE m == t.m
           rec == PreparedOf(t, F, env.frames, env.limit)
<1>5. o.entries = FormatEntries(fm, rec, stack, env.limit)
  BY <1>2, <1>3 DEF LineOf, Given
<1>6. rec.fieldsAll = F /\ rec.msg = LimitString(m.msg, env.limit) /\ rec.caller = CalcCaller(FramesOf(t, env.frames))
  BY DEF PreparedOf
<1>7. CallerShown(fm, rec)
  <2>1. IsText(rec.caller)
    <3>1. rec.caller = NoText \/ \E file : rec.caller = Text(file, 1)
      BY <1>6 DEF CalcCaller
    <3>2. IsText(NoText) /\ \A file : IsText(Text(file, 1))
      BY DEF IsText, NoText, Text
    <3> QED
      BY <3>1, <3>2
  <2>2. ASSUME fm.caller /\ fm.kind \in {"gelf", "plain"}
        PROVE  rec.caller = CallerText
    <3>1. t.stack
      BY <1>1, <2>2 DEF StackStatus, IsStacktraceNeeded
    <3>2. FramesOf(t, env.frames) = ElementsAt(env.frames, AppOf(env.frames))
      BY <3>1 DEF FramesOf, AppOf
    <3>3. AppOf(env.frames) = AppFrames
      BY DEF AppOf, AppFrames
    <3> QED
      BY <1>4, <1>6, <3>2, <3>3, CallerOf DEF CallerText
  <2> QED
    BY <2>1, <2>2 DEF CallerShown
<1>8. MeantOK(m) /\ Gathers(F, m, Len(m.fields), env.limit) /\ env.limit \in Int
  BY <1>1, <1>3, <1>4
<1>9. m = Logged[o.rec]
  BY <1>1
<1> HIDE DEF m, rec, stack, t, fm
<1>10. Renders(fm, F, FieldsMeant(fm, m))
  <2> DEFINE all == m.with \o m.fields
             a == Len(m.with)
             want == FieldsMeant(fm, m)
  <2>1. GatheredAs(F, all, a, env.limit)
    BY <1>8, Gathered
  <2>2. a \in Nat
    BY <1>8 DEF MeantOK, NewFields, IsSequence
  <2>3. Wants(want, fm, all, a)
    BY <1>8, WantsMeant
  <2> HIDE DEF all, a, want
  <2>4. Showing(F, all, a)
    BY <1>8, <2>1, <2>2, GatheredShow
  <2>5. Renders(fm, F, want)
    BY <2>3, <2>4, RendersGathered
  <2> QED
    BY <2>5 DEF want
<1>11. IsText(m.msg) /\ m.msg.dots = 0 /\ rec.msg = Cut(m.msg)
  BY <1>6, <1>8, CutText DEF MeantOK
<1>12. RecordMeant(fm, m, rec)
  BY <1>2, <1>3, <1>4, <1>6, <1>7, <1>10, <1>11 DEF RecordMeant, fm
<1>13. LineMeant(fm, m, o.entries)
  <2>1. fm.kind \in {"json", "gelf", "plain", "default"}
    BY <1>4 DEF IsFormatter, Kinds
  <2>2. CASE fm.kind = "json"
    BY <1>4, <1>5, <1>12, <2>2, JSONMeant DEF FormatEntries
  <2>3. CASE fm.kind = "gelf"
    BY <1>4, <1>5, <1>12, <2>3, GelfMeant DEF FormatEntries
  <2>4. CASE fm.kind \in {"plain", "default"}
    BY <1>4, <1>5, <1>12, <2>4, PlainMeant DEF FormatEntries
  <2> QED
    BY <2>1, <2>2, <2>3, <2>4
<1> QED
  BY <1>9, <1>13 DEF LineMeant, LineFaithful, Arranged, fm

-----------------------------------------------------------------------------
(***************************************************************************)
(* No record is lost (OutputFaithful): CompleteOK says that a record which *)
(* is due to a host is queued there, being formatted, or written.          *)
(***************************************************************************)

\* The numbers of the records a target was given, of the one that its host works on and
\* of those in the host's queue are in this order, each once.
InTurn(o, in, busy, rec, n) ==
    /\ n \in Nat /\ rec \in 0 .. n /\ IsSequence(o) /\ IsSequence(in)
    /\ \A i \in 1 .. Len(o) : o[i].rec \in 1 .. n
    /\ \A i \in 1 .. Len(in) : in[i] \in 1 .. n
    /\ \A i, j \in 1 .. Len(o) : i < j => o[i].rec < o[j].rec
    /\ \A i, j \in 1 .. Len(in) : i < j => in[i] < in[j]
    /\ \A i \in 1 .. Len(o), j \in 1 .. Len(in) : o[i].rec < in[j]
    /\ rec # 0 => /\ \A i \in 1 .. Len(o) : o[i].rec <= rec /\ (busy => o[i].rec < rec)
                  /\ \A j \in 1 .. Len(in) : rec < in[j]

\* No record that is due is lost: it was given to the target, is queued or worked on.
Keeps(o, in, busy, rec, due) ==
    \A k \in due : \/ \E i \in 1 .. Len(o) : o[i].rec = k
                   \/ \E j \in 1 .. Len(in) : in[j] = k
                   \/ busy /\ k = rec
Turn(o, in, busy, rec, n, due) == InTurn(o, in, busy, rec, n) /\ Keeps(o, in, busy, rec, due)

\* fanout (logr.go:453-460) gives the host the next record.
LEMMA TurnFed ==
  ASSUME NEW o, NEW in, NEW busy \in BOOLEAN, NEW rec, NEW n, NEW due, Turn(o, in, busy, rec, n, due),
         NEW more, more \subseteq due \cup {n + 1}
  PROVE  Turn(o, Append(in, n + 1), busy, rec, n + 1, more)
<1> DEFINE q == Append(in, n + 1)
           l == Len(in)
<1> InTurn(o, in, busy, rec, n) /\ Keeps(o, in, busy, rec, due)
  BY DEF Turn
<1>1. /\ n \in Nat /\ rec \in 0 .. n /\ IsSequence(o) /\ IsSequence(in) /\ l \in Nat
      /\ \A i \in 1 .. Len(o) : o[i].rec \in 1 .. n
      /\ \A i \in 1 .. l : in[i] \in 1 .. n
  BY DEF InTurn, IsSequence
<1>2. IsSequence(q) /\ Len(q) = l + 1 /\ (\A i \in 1 .. l : q[i] = in[i]) /\ q[l + 1] = n + 1
  BY <1>1, AppendSequence
<1>3. \A i, j \in 1 .. Len(o) : i < j => o[i].rec < o[j].rec
  BY DEF InTurn
<1>4. /\ \A i, j \in 1 .. l : i < j => in[i] < in[j]
      /\ \A i \in 1 .. Len(o), j \in 1 .. l : o[i].rec < in[j]
      /\ rec # 0 => /\ \A i \in 1 .. Len(o) : o[i].rec <= rec /\ (busy => o[i].rec < rec)
                    /\ \A j \in 1 .. l : rec < in[j]
  BY DEF InTurn
<1> HIDE DEF q, l
<1>5. \A i \in 1 .. l + 1 : i \in 1 .. l \/ i = l + 1
  BY <1>1
<1>6. \A i \in 1 .. l + 1 : q[i] \in 1 .. n + 1
  BY <1>1, <1>2, <1>5
<1>7. \A i, j \in 1 .. l + 1 : i < j => q[i] < q[j]
  <2> SUFFICES ASSUME NEW i \in 1 .. l + 1, NEW j \in 1 .. l + 1, i < j
               PROVE  q[i] < q[j]
    OBVIOUS
  <2>1. i \in 1 .. l
    BY <1>1
  <2> QED
    BY <1>1, <1>2, <1>4, <1>5, <2>1
<1>8. \A i \in 1 .. Len(o), j \in 1 .. l + 1 : o[i].rec < q[j]
  BY <1>1, <1>2, <1>4, <1>5
<1>9. rec # 0 => /\ \A i \in 1 .. Len(o) : o[i].rec <= rec /\ (busy => o[i].rec < rec)
                 /\ \A j \in 1 .. l + 1 : rec < q[j]
  BY <1>1, <1>2, <1>4, <1>5
<1>10. InTurn(o, q, busy, rec, n + 1)
  <2>1. n + 1 \in Nat /\ rec \in 0 .. n + 1 /\ \A i \in 1 .. Len(o) : o[i].rec \in 1 .. n + 1
    BY <1>1
  <2> QED
    BY <1>1, <1>2, <1>3, <1>6, <1>7, <1>8, <1>9, <2>1 DEF InTurn
<1>11. Keeps(o, q, busy, rec, more)
  <2> SUFFICES ASSUME NEW k \in more
               PROVE  \/ \E i \in 1 .. Len(o) : o[i].rec = k
                      \/ \E j \in 1 .. Len(q) : q[j] = k
                      \/ busy /\ k = rec
    BY DEF Keeps
  <2>1. CASE k = n + 1
    <3>1. l + 1 \in 1 .. Len(q)
      BY <1>1, <1>2
    <3> QED
      BY <1>2, <2>1, <3>1
  <2>2. CASE k \in due
    <3>1. \/ \E i \in 1 .. Len(o) : o[i].rec = k
          \/ \E j \in 1 .. l : in[j] = k
          \/ busy /\ k = rec
      BY <2>2 DEF Keeps, l
    <3>2. \A j \in 1 .. l : j \in 1 .. Len(q) /\ q[j] = in[j]
      BY <1>1, <1>2
    <3> QED
      BY <3>1, <3>2
  <2> QED
    BY <2>1, <2>2
<1> QED
  BY <1>10, <1>11 DEF Turn, q

\* A record that the host is not given.
LEMMA TurnPassed ==
  ASSUME NEW o, NEW in, NEW busy \in BOOLEAN, NEW rec, NEW n, NEW due, Turn(o, in, busy, rec, n, due),
         NEW more, more \subseteq due
  PROVE  Turn(o, in, busy, rec, n + 1, more)
<1>1. InTurn(o, in, busy, rec, n) /\ Keeps(o, in, busy, rec, due)
  BY DEF Turn
<1>2. InTurn(o, in, busy, rec, n + 1)
  <2>1. /\ n \in Nat /\ rec \in 0 .. n
        /\ \A i \in 1 .. Len(o) : o[i].rec \in 1 .. n
        /\ \A i \in 1 .. Len(in) : in[i] \in 1 .. n
    BY <1>1 DEF InTurn
  <2>2. /\ n + 1 \in Nat /\ rec \in 0 .. n + 1
        /\ \A i \in 1 .. Len(o) : o[i].rec \in 1 .. n + 1
        /\ \A i \in 1 .. Len(in) : in[i] \in 1 .. n + 1
    BY <2>1
  <2> QED
    BY <1>1, <2>2 DEF InTurn
<1>3. Keeps(o, in, busy, rec, more)
  BY <1>1 DEF Keeps
<1> QED
  BY <1>2, <1>3 DEF Turn

\* The read loop takes a record from its queue (target.go:234, 259).
LEMMA TurnTaken ==
  ASSUME NEW o, NEW in, in # <<>>, NEW rec, NEW n, NEW due, Turn(o, in, FALSE, rec, n, due)
  PROVE  Turn(o, Tail(in), TRUE, Head(in), n, due)
<1> DEFINE q == Tail(in)
           l == Len(in)
           r == Head(in)
<1> InTurn(o, in, FALSE, rec, n) /\ Keeps(o, in, FALSE, rec, due)
  BY DEF Turn
<1>1. /\ n \in Nat /\ rec \in 0 .. n /\ IsSequence(o) /\ IsSequence(in) /\ l \in Nat
      /\ \A i \in 1 .. Len(o) : o[i].rec \in 1 .. n
      /\ \A i \in 1 .. l : in[i] \in 1 .. n
      /\ \A i, j \in 1 .. Len(o) : i < j => o[i].rec < o[j].rec
      /\ \A i, j \in 1 .. l : i < j => in[i] < in[j]
      /\ \A i \in 1 .. Len(o), j \in 1 .. l : o[i].rec < in[j]
  BY DEF InTurn, IsSequence
<1>2. l > 0 /\ r = in[1] /\ IsSequence(q) /\ Len(q) = l - 1 /\ \A i \in 1 .. l - 1 : q[i] = in[i + 1]
  BY <1>1, TailSequence
<1> HIDE DEF q, l, r
<1>3. 1 \in 1 .. l /\ \A i \in 1 .. l - 1 : i + 1 \in 1 .. l /\ 1 < i + 1
  BY <1>1, <1>2
<1>4. r \in 1 .. n /\ r # 0 /\ \A i \in 1 .. l - 1 : q[i] \in 1 .. n
  BY <1>1, <1>2, <1>3
<1>5. \A i, j \in 1 .. l - 1 : i < j => q[i] < q[j]
  <2> SUFFICES ASSUME NEW i \in 1 .. l - 1, NEW j \in 1 .. l - 1, i < j
               PROVE  q[i] < q[j]
    OBVIOUS
  <2>1. i + 1 < j + 1 /\ i + 1 \in 1 .. l /\ j + 1 \in 1 .. l
    BY <1>1
  <2> QED
    BY <1>1, <1>2, <2>1
<1>6. \A i \in 1 .. Len(o), j \in 1 .. l - 1 : o[i].rec < q[j]
  BY <1>1, <1>2, <1>3
<1>7. /\ \A i \in 1 .. Len(o) : o[i].rec < r /\ o[i].rec <= r
      /\ \A j \in 1 .. l - 1 : r < q[j]
  BY <1>1, <1>2, <1>3, <1>4
<1>8. InTurn(o, q, TRUE, r, n)
  <2>1. r \in 0 .. n
    BY <1>4
  <2> QED
    BY <1>1, <1>2, <1>4, <1>5, <1>6, <1>7, <2>1 DEF InTurn
<1>9. Keeps(o, q, TRUE, r, due)
  <2> SUFFICES ASSUME NEW k \in due
               PROVE  (\E i \in 1 .. Len(o) : o[i].rec = k) \/ (\E j \in 1 .. Len(q) : q[j] = k) \/ k = r
    BY DEF Keeps
  <2>1. (\E i \in 1 .. Len(o) : o[i].rec = k) \/ \E j \in 1 .. l : in[j] = k
    BY DEF Keeps, l
  <2>2. CASE \E j \in 1 .. l : in[j] = k
    <3>1. PICK j \in 1 .. l : in[j] = k
      BY <2>2
    <3>2. j = 1 \/ (j - 1 \in 1 .. l - 1 /\ (j - 1) + 1 = j)
      BY <1>1
    <3> QED
      BY <1>2, <3>1, <3>2
  <2> QED
    BY <2>1, <2>2
<1> QED
  BY <1>8, <1>9 DEF Turn, q, r

\* Write (target.go:267).
LEMMA TurnWritten ==
  ASSUME NEW o, NEW in, NEW rec, rec # 0, NEW n, NEW due, Turn(o, in, TRUE, rec, n, due), NEW x, x.rec = rec
  PROVE  Turn(Append(o, x), in, FALSE, rec, n, due)
<1> DEFINE p == Append(o, x)
           l == Len(o)
<1> InTurn(o, in, TRUE, rec, n) /\ Keeps(o, in, TRUE, rec, due)
  BY DEF Turn
<1>1. /\ n \in Nat /\ rec \in 1 .. n /\ IsSequence(o) /\ IsSequence(in) /\ l \in Nat
      /\ \A i \in 1 .. l : o[i].rec \in 1 .. n
      /\ \A i \in 1 .. Len(in) : in[i] \in 1 .. n
      /\ \A i, j \in 1 .. l : i < j => o[i].rec < o[j].rec
      /\ \A i, j \in 1 .. Len(in) : i < j => in[i] < in[j]
      /\ \A i \in 1 .. l, j \in 1 .. Len(in) : o[i].rec < in[j]
      /\ \A i \in 1 .. l : o[i].rec < rec
      /\ \A j \in 1 .. Len(in) : rec < in[j]
  BY DEF InTurn, IsSequence
<1>2. IsSequence(p) /\ Len(p) = l + 1 /\ (\A i \in 1 .. l : p[i] = o[i]) /\ p[l + 1] = x
  BY <1>1, AppendSequence
<1> HIDE DEF p, l
<1>3. \A i \in 1 .. l + 1 : i \in 1 .. l \/ i = l + 1
  BY <1>1
<1>4. \A i \in 1 .. l + 1 : p[i].rec \in 1 .. n /\ p[i].rec <= rec
  BY <1>1, <1>2, <1>3
<1>5. \A i, j \in 1 .. l + 1 : i < j => p[i].rec < p[j].rec
  <2> SUFFICES ASSUME NEW i \in 1 .. l + 1, NEW j \in 1 .. l + 1, i < j
               PROVE  p[i].rec < p[j].rec
    OBVIOUS
  <2>1. i \in 1 .. l
    BY <1>1
  <2> QED
    BY <1>1, <1>2, <1>3, <2>1
<1>6. \A i \in 1 .. l + 1, j \in 1 .. Len(in) : p[i].rec < in[j]
  BY <1>1, <1>2, <1>3
<1>7. InTurn(p, in, FALSE, rec, n)
  <2>1. rec \in 0 .. n
    BY <1>1
  <2> QED
    BY <1>1, <1>2, <1>4, <1>5, <1>6, <2>1 DEF InTurn
<1>8. Keeps(p, in, FALSE, rec, due)
  <2> SUFFICES ASSUME NEW k \in due
               PROVE  (\E i \in 1 .. Len(p) : p[i].rec = k) \/ (\E j \in 1 .. Len(in) : in[j] = k)
    BY DEF Keeps
  <2>1. (\E i \in 1 .. l : o[i].rec = k) \/ (\E j \in 1 .. Len(in) : in[j] = k) \/ k = rec
    BY DEF Keeps, l
  <2>2. l + 1 \in 1 .. Len(p) /\ \A i \in 1 .. l : i \in 1 .. Len(p)
    BY <1>1, <1>2
  <2> QED
    BY <1>2, <2>1, <2>2
<1> QED
  BY <1>7, <1>8 DEF Turn, p

\* The record was given up (Format failed), which is not due, or done with.
LEMMA TurnLeft ==
  ASSUME NEW o, NEW in, NEW busy \in BOOLEAN, NEW rec, NEW n, NEW due, Turn(o, in, busy, rec, n, due),
         busy => rec \notin due, NEW next \in {rec, 0}
  PROVE  Turn(o, in, FALSE, next, n, due)
<1>1. InTurn(o, in, busy, rec, n) /\ Keeps(o, in, busy, rec, due)
  BY DEF Turn
<1>2. InTurn(o, in, FALSE, next, n)
  BY <1>1 DEF InTurn
<1>3. Keeps(o, in, FALSE, next, due)
  BY <1>1 DEF Keeps
<1> QED
  BY <1>2, <1>3 DEF Turn

\* A field that can be rendered, and what a formatter makes of some.
Sound(f) == f.val.bad \subseteq {"gojay"} /\ f.type # "Invalid"

MembersOf(x, s, t) ==
    \A i \in DOMAIN x : (\E k \in 1 .. Len(s) : x[i] = s[k]) \/ (\E k \in 1 .. Len(t) : x[i] = t[k])

\* The members of a concatenation are those of its two parts.
LEMMA ConcatMembers ==
  ASSUME NEW s, IsSequence(s), NEW t, IsSequence(t)
  PROVE  MembersOf(s \o t, s, t)
<1> SUFFICES ASSUME NEW i \in DOMAIN (s \o t)
             PROVE  (\E k \in 1 .. Len(s) : (s \o t)[i] = s[k]) \/ (\E k \in 1 .. Len(t) : (s \o t)[i] = t[k])
  BY DEF MembersOf
<1> DEFINE x == s \o t
           a == Len(s)
           b == Len(t)
<1>1. /\ IsSequence(x) /\ Len(x) = a + b /\ a \in Nat /\ b \in Nat
      /\ (\A k \in 1 .. a : x[k] = s[k]) /\ \A k \in 1 .. b : x[a + k] = t[k]
  BY ConcatSequence DEF IsSequence
<1>2. i \in 1 .. a + b
  <2>1. DOMAIN x = 1 .. Len(x)
    BY <1>1 DEF IsSequence
  <2> QED
    BY <1>1, <2>1
<1> HIDE DEF x, a, b
<1>3. CASE i \in 1 .. a
  BY <1>1, <1>3 DEF x, a
<1>4. CASE i \notin 1 .. a
  <2>1. PICK k \in 1 .. b : i = a + k
    BY <1>1, <1>2, <1>4
  <2> QED
    BY <1>1, <2>1 DEF x, b
<1> QED
  BY <1>3, <1>4

\* A sound field is written by every formatter without a panic (field.go:94-246, json.go:225-271).
LEMMA SoundWritten ==
  ASSUME NEW f, Sound(f)
  PROVE  ValueString(f) = "written" /\ ~ EncodePanics(f)
BY DEF Sound, ValueString, EncodePanics, OwnMarshaller

\* Format (formatter.go:84, json.go:70, gelf.go:46, plain.go:63) writes a record whose
\* fields can all be rendered.
LEMMA FormatsSound ==
  ASSUME NEW fm, fm.caller \in BOOLEAN, NEW rec, IsSequence(rec.fieldsAll),
         \A i \in 1 .. Len(rec.fieldsAll) : Sound(rec.fieldsAll[i])
  PROVE  FormatResult(fm, rec) = "written"
<1> DEFINE F == rec.fieldsAll
           P == PlainFields(fm, rec)
<1>1. DOMAIN F = 1 .. Len(F)
  BY DEF IsSequence
<1>2. \A i \in DOMAIN F : ~ EncodePanics(F[i])
  BY <1>1, SoundWritten
<1>3. \A i \in DOMAIN P : ValueString(P[i]) = "written"
  <2> SUFFICES ASSUME NEW i \in DOMAIN P
               PROVE  Sound(P[i])
    BY SoundWritten
  <2> DEFINE b == fm.kind = "plain" /\ fm.caller
             f == CallerField(Key(0, "caller"), rec)
             s == Optional(b, f)
             t == IF "fields" \in fm.disabled THEN <<>> ELSE F
  <2>1. P = s \o t
    BY DEF PlainFields
  <2>2. b \in BOOLEAN
    OBVIOUS
  <2>3. Sound(f)
    BY DEF CallerField, Field, Value, Sound
  <2>4. IsSequence(t) /\ \A k \in 1 .. Len(t) : Sound(t[k])
    <3>1. Len(<<>>) = 0 /\ 1 .. 0 = {}
      OBVIOUS
    <3> QED
      BY <3>1, EmptySequence
  <2> HIDE DEF b, f, P, F, t
  <2>5. IsSequence(s) /\ \A k \in 1 .. Len(s) : Sound(s[k])
    <3>1. IsSequence(s)
      BY <2>2, OptionalSequence
    <3>2. \A k \in DOMAIN s : s[k] = f
      BY <2>2, OptionalLen
    <3> HIDE DEF s
    <3> QED
      BY <2>3, <3>1, <3>2 DEF IsSequence
  <2> HIDE DEF s
  <2>6. MembersOf(P, s, t)
    <3>1. IsSequence(s) /\ IsSequence(t)
      BY <2>4, <2>5
    <3>2. MembersOf(s \o t, s, t)
      BY <3>1, ConcatMembers
    <3> QED
      BY <2>1, <3>2
  <2> QED
    BY <2>4, <2>5, <2>6 DEF MembersOf
<1> HIDE DEF F, P
<1> QED
  BY <1>2, <1>3 DEF FormatResult, F, P

\* The records that a target should be given, of those that were prepared.
Due(h) == {k \in 1 .. Len(recs) : Enabled(h, Tasks[k].m.level) /\ ~ Spoilt(Tasks[k].m)}
Busy(h) == hosts[h].pc \in {"sort", "format", "write"}
TurnOK(h) == Turn(out[h], hosts[h].in, Busy(h), hosts[h].rec, Len(recs), Due(h))

\* Call makes at least one slice, and the slices stay.
SlicesMade == slices = <<>> \/ DOMAIN slices # {}
CompleteOK == SlicesMade /\ \A h \in Hosts : TurnOK(h)

\* A record that is due can be formatted.
LEMMA DueFormatted ==
  ASSUME SortsCopies, KeepsTime, LinesInv, NEW h \in Hosts, NEW k \in Due(h)
  PROVE  /\ FormatResult(env.hosts[h].fm, recs[k]) = "written"
         /\ ~ env.hosts[h].retimes
<1> DEFINE t == Tasks[k]
           m == t.m
           F == recs[k].fieldsAll
           fm == env.hosts[h].fm
<1>1. PipeOK /\ k \in 1 .. Len(recs) /\ ~ Spoilt(m) /\ env \in Scenarios
  BY DEF LinesInv, RecordsInv, PipeOK, Due
<1>2. ~ SortsInPlace /\ ~ env.hosts[h].retimes
  BY <1>1 DEF SortsCopies, SortsInPlace, KeepsTime, Hosts
<1>3. DOMAIN slices # {}
  <2>1. recs # <<>>
    BY <1>1, EmptySequence
  <2> QED
    BY <1>1, <2>1 DEF PipeOK
<1>4. TodoOK /\ RecsOK
  BY <1>3 DEF LinesInv, FlowOK
<1>5. Gathers(F, m, Len(m.fields), env.limit) /\ MeantOK(m) /\ env.limit \in Int
  BY <1>1, <1>2, <1>4, TaskPlaces DEF RecsOK
<1>6. fm.caller \in BOOLEAN
  BY <1>1, ScenarioTypes DEF IsFormatter
<1> DEFINE all == m.with \o m.fields
           a == Len(m.with)
           b == Len(m.fields)
<1>7. a \in Nat /\ b \in Nat /\ Len(all) = a + b
  <2>1. IsSequence(m.with) /\ IsSequence(m.fields)
    BY <1>5 DEF MeantOK, NewFields
  <2> HIDE DEF m
  <2> QED
    BY <2>1, ConcatSequence DEF IsSequence
<1>8. \A i \in 1 .. a + b : all[i].val.bad \subseteq {"gojay"} /\ all[i].type # "Invalid"
  BY <1>1 DEF Spoilt
<1>9. GatheredAs(F, all, a, env.limit)
  <2> HIDE DEF m, F
  <2> QED
    BY <1>5, Gathered
<1> HIDE DEF m, F, all, a, b, fm, t
<1>10. IsSequence(F) /\ \A i \in 1 .. Len(F) : Sound(F[i])
  <2>1. IsSequence(F) /\ Len(F) = Len(all)
    BY <1>9 DEF GatheredAs
  <2>2. \A i \in 1 .. Len(F) : F[i].type = all[i].type /\ F[i].val.bad = all[i].val.bad
    BY <1>9 DEF GatheredAs
  <2> QED
    BY <1>7, <1>8, <2>1, <2>2 DEF Sound
<1>11. FormatResult(fm, recs[k]) = "written"
  BY <1>6, <1>10, FormatsSound DEF F
<1> QED
  BY <1>2, <1>11 DEF fm

\* A host and a target that a step leaves alone, but for its place.
LEMMA TurnSame ==
  ASSUME env' = env, Len(recs') = Len(recs), NEW h, out'[h] = out[h],
         hosts'[h].in = hosts[h].in, hosts'[h].rec = hosts[h].rec, Busy(h)' = Busy(h), TurnOK(h)
  PROVE  TurnOK(h)'
<1>1. Tasks' = Tasks
  BY SameTasks
<1>2. Due(h)' = Due(h)
  BY <1>1 DEF Due, Enabled, Spoilt
<1> QED
  BY <1>2 DEF TurnOK

\* A step that changes one host only.
LEMMA TurnOthers ==
  ASSUME env' = env, Len(recs') = Len(recs), HostsOK, NEW h \in Hosts, NEW x, hosts' = [hosts EXCEPT ![h] = x],
         \A g \in Hosts : g # h => out'[g] = out[g], \A g \in Hosts : TurnOK(g), TurnOK(h)'
  PROVE  \A g \in Hosts' : TurnOK(g)'
<1>1. Hosts' = Hosts
  BY SameTasks
<1>2. \A g \in Hosts : g # h => hosts'[g] = hosts[g]
  BY DEF HostsOK
<1>3. ASSUME NEW g \in Hosts, g # h
      PROVE  TurnOK(g)'
  <2>1. hosts'[g] = hosts[g] /\ out'[g] = out[g]
    BY <1>2, <1>3
  <2>2. Busy(g)' = Busy(g)
    BY <2>1 DEF Busy
  <2> QED
    BY <2>1, <2>2, TurnSame
<1> QED
  BY <1>1, <1>3

\* fanout (logr.go:443-465).
LEMMA TurnFanout ==
  ASSUME RecordsInv, FlowOK, Fanout, NEW h \in Hosts, TurnOK(h)
  PROVE  TurnOK(h)'
<1>1. /\ env' = env /\ out' = out /\ loop # nil /\ Tasks' = Tasks
  BY SameTasks DEF Fanout
<1>2. DOMAIN slices # {}
  BY <1>1 DEF RecordsInv, PipeOK
<1> DEFINE n == Len(recs)
           lvl == loop.rec.level
           host == hosts[h]
           o == out[h]
           q == host.in
           busy == Busy(h)
           rec == host.rec
           due == Due(h)
           more == Due(h)'
<1>3. lvl = Tasks[n + 1].m.level
  BY <1>1, <1>2 DEF FlowOK, LoopOK, Carries
<1>4. Len(recs') = n + 1 /\ n \in Nat
  BY AppendSequence DEF Fanout, RecordsInv, PipeOK, IsSequence
<1>5. HostOK(host, n) /\ Turn(o, q, busy, rec, n, due)
  BY DEF RecordsInv, HostsOK, TurnOK
<1>6. hosts'[h] = IF Enabled(h, lvl) THEN [host EXCEPT !.in = Append(q, n + 1)] ELSE host
  BY <1>4 DEF Fanout
<1>7. more = {k \in 1 .. n + 1 : Enabled(h, Tasks[k].m.level) /\ ~ Spoilt(Tasks[k].m)}
  BY <1>1, <1>4 DEF Due, Enabled, Spoilt
<1>8. \A k \in 1 .. n + 1 : k \in 1 .. n \/ k = n + 1
  BY <1>4
<1>9. more \subseteq due \cup {n + 1}
  BY <1>7, <1>8 DEF Due
<1>10. busy \in BOOLEAN
  BY DEF Busy
<1>11. CASE ~ Enabled(h, lvl)
  <2>1. hosts'[h] = host
    BY <1>6, <1>11
  <2>2. more \subseteq due
    BY <1>3, <1>7, <1>8, <1>11 DEF Due
  <2>3. Busy(h)' = busy
    BY <2>1 DEF Busy
  <2> HIDE DEF busy, due, more
  <2>4. Turn(o, q, busy, rec, n + 1, more)
    BY <1>5, <1>10, <2>2, TurnPassed
  <2> QED
    BY <1>1, <1>4, <2>1, <2>3, <2>4 DEF TurnOK, more
<1>12. CASE Enabled(h, lvl)
  <2>1. hosts'[h].in = Append(q, n + 1) /\ hosts'[h].rec = rec /\ hosts'[h].pc = host.pc
    BY <1>5, <1>6, <1>12 DEF HostOK
  <2>2. Busy(h)' = busy
    BY <2>1 DEF Busy
  <2> HIDE DEF busy, due, more
  <2>3. Turn(o, Append(q, n + 1), busy, rec, n + 1, more)
    BY <1>5, <1>9, <1>10, TurnFed
  <2> QED
    BY <1>1, <1>4, <2>1, <2>2, <2>3 DEF TurnOK, more
<1> QED
  BY <1>11, <1>12

\* BorrowBuffer takes the first record of the queue.
LEMMA TurnBorrow ==
  ASSUME RecordsInv, NEW h \in Hosts, BorrowBuffer(h), \A g \in Hosts : TurnOK(g)
  PROVE  \A g \in Hosts' : TurnOK(g)'
<1> DEFINE host == hosts[h]
<1>1. HostsOK /\ HostOK(host, Len(recs))
  BY DEF RecordsInv, HostsOK
<1>2. env' = env /\ out' = out /\ recs' = recs /\ host.in # <<>> /\ host.pc = "select"
  BY DEF BorrowBuffer
<1>3. PICK x : /\ hosts' = [hosts EXCEPT ![h] = x]
               /\ x.in = Tail(host.in) /\ x.rec = Head(host.in) /\ x.pc \in {"sort", "format"}
  <2>1. PICK i \in 0 .. Len(pool) :
          hosts' = [hosts EXCEPT ![h].in = Tail(@), ![h].rec = Head(hosts[h].in), ![h].at = 1,
                                 ![h].buf = IF i = 0 THEN <<>> ELSE pool[i],
                                 ![h].pc = IF env.hosts[h].fm.kind = "json" /\ env.hosts[h].fm.sorter = "inplace"
                                             THEN "sort" ELSE "format"]
    BY DEF BorrowBuffer
  <2> DEFINE buf == IF i = 0 THEN <<>> ELSE pool[i]
             inplace == env.hosts[h].fm.kind = "json" /\ env.hosts[h].fm.sorter = "inplace"
             x == [host EXCEPT !.in = Tail(host.in), !.rec = Head(host.in), !.at = 1, !.buf = buf,
                               !.pc = IF inplace THEN "sort" ELSE "format"]
  <2>2. hosts' = [hosts EXCEPT ![h] = x]
    <3> HIDE DEF buf, inplace
    <3>1. hosts' = [hosts EXCEPT ![h].in = Tail(@), ![h].rec = Head(hosts[h].in), ![h].at = 1, ![h].buf = buf,
                                 ![h].pc = IF inplace THEN "sort" ELSE "format"]
      BY <2>1 DEF buf, inplace
    <3> QED
      BY <1>1, <3>1 DEF HostsOK
  <2>3. host = [in |-> host.in, pc |-> host.pc, rec |-> host.rec, at |-> host.at, tmp |-> host.tmp, buf |-> host.buf]
    BY <1>1 DEF HostOK
  <2>4. x.in = Tail(host.in) /\ x.rec = Head(host.in) /\ x.pc \in {"sort", "format"}
    BY <2>3
  <2> QED
    BY <2>2, <2>4
<1>4. hosts'[h] = x
  BY <1>1, <1>3 DEF HostsOK
<1>5. Busy(h) = FALSE /\ Busy(h)' = TRUE
  BY <1>2, <1>3, <1>4 DEF Busy
<1>6. Due(h)' = Due(h)
  BY <1>2, SameTasks DEF Due, Enabled, Spoilt
<1>7. Turn(out[h], host.in, FALSE, host.rec, Len(recs), Due(h))
  BY <1>5 DEF TurnOK
<1>8. Turn(out[h], Tail(host.in), TRUE, Head(host.in), Len(recs), Due(h))
  BY <1>2, <1>7, TurnTaken
<1>9. TurnOK(h)'
  BY <1>2, <1>3, <1>4, <1>5, <1>6, <1>8 DEF TurnOK
<1> QED
  BY <1>1, <1>2, <1>3, <1>9, TurnOthers

\* Format: a record that is due goes on to be written.
LEMMA TurnFormat ==
  ASSUME SortsCopies, KeepsTime, LinesInv, NEW h \in Hosts, Format(h), \A g \in Hosts : TurnOK(g)
  PROVE  \A g \in Hosts' : TurnOK(g)'
<1> DEFINE host == hosts[h]
           fm == env.hosts[h].fm
           given == IF env.hosts[h].retimes THEN WithTime(recs[host.rec]) ELSE recs[host.rec]
           done == FormatResult(fm, given) = "written"
<1>1. HostsOK /\ HostOK(host, Len(recs)) /\ TurnOK(h)
  BY DEF LinesInv, RecordsInv, HostsOK
<1>2. env' = env /\ out' = out /\ recs' = recs /\ host.pc = "format" /\ host.rec # 0
  BY <1>1 DEF Format, HostOK
<1>3. PICK x : /\ hosts' = [hosts EXCEPT ![h] = x] /\ x.in = host.in /\ x.rec = host.rec
               /\ x.pc = IF done THEN "write" ELSE "release"
  <2> DEFINE y == [host EXCEPT !.pc = "write",
                              !.buf = @ \o FormatEntries(fm, given, env.hosts[h].on[given.level] = "stack", env.limit)]
             z == [host EXCEPT !.pc = "release", !.buf = Append(@, Entry("rest", NoName, NoText))]
  <2>1. hosts' = [hosts EXCEPT ![h] = IF done THEN y ELSE z]
    BY <1>1 DEF Format, HostsOK
  <2>2. host = [in |-> host.in, pc |-> host.pc, rec |-> host.rec, at |-> host.at, tmp |-> host.tmp, buf |-> host.buf]
    BY <1>1 DEF HostOK
  <2>3. y.in = host.in /\ y.rec = host.rec /\ y.pc = "write"
    BY <2>2
  <2>4. z.in = host.in /\ z.rec = host.rec /\ z.pc = "release"
    BY <2>2
  <2> HIDE DEF y, z, done
  <2> QED
    BY <2>1, <2>3, <2>4
<1>4. hosts'[h] = x
  BY <1>1, <1>3 DEF HostsOK
<1>5. Due(h)' = Due(h)
  BY <1>2, SameTasks DEF Due, Enabled, Spoilt
<1>6. host.rec \in Due(h) => done
  BY DueFormatted
<1>7. Busy(h) = TRUE /\ Turn(out[h], host.in, TRUE, host.rec, Len(recs), Due(h))
  BY <1>1, <1>2 DEF Busy, TurnOK
<1> HIDE DEF done
<1>8. CASE done
  <2>1. Busy(h)' = TRUE
    BY <1>3, <1>4, <1>8 DEF Busy
  <2> QED
    BY <1>1, <1>2, <1>3, <1>4, <1>5, <1>7, <2>1, TurnOthers DEF TurnOK
<1>9. CASE ~ done
  <2>1. Busy(h)' = FALSE
    BY <1>3, <1>4, <1>9 DEF Busy
  <2>2. Turn(out[h], host.in, FALSE, host.rec, Len(recs), Due(h))
    BY <1>6, <1>7, <1>9, TurnLeft
  <2>3. TurnOK(h)'
    BY <1>2, <1>3, <1>4, <1>5, <2>1, <2>2 DEF TurnOK
  <2> QED
    BY <1>1, <1>2, <1>3, <2>3, TurnOthers
<1> QED
  BY <1>8, <1>9

\* Write gives the target the record that the host works on.
LEMMA TurnWrite ==
  ASSUME LinesInv, NEW h \in Hosts, Write(h), \A g \in Hosts : TurnOK(g)
  PROVE  \A g \in Hosts' : TurnOK(g)'
<1> DEFINE host == hosts[h]
           x == [host EXCEPT !.pc = "release"]
           o == [rec |-> host.rec, entries |-> host.buf]
<1>1. HostsOK /\ HostOK(host, Len(recs)) /\ TurnOK(h) /\ out = [g \in Hosts |-> out[g]]
  BY DEF LinesInv, RecordsInv, HostsOK, LinesOK
<1>2. /\ env' = env /\ recs' = recs /\ host.pc = "write" /\ host.rec # 0
      /\ hosts' = [hosts EXCEPT ![h] = x] /\ out' = [out EXCEPT ![h] = Append(out[h], o)]
  BY <1>1 DEF Write, HostsOK, HostOK
<1>3. x.in = host.in /\ x.rec = host.rec /\ x.pc = "release" /\ o.rec = host.rec
  BY <1>1 DEF HostOK
<1> HIDE DEF x, o
<1>4. hosts'[h] = x /\ out'[h] = Append(out[h], o) /\ \A g \in Hosts : g # h => out'[g] = out[g]
  BY <1>1, <1>2 DEF HostsOK
<1>5. Due(h)' = Due(h)
  BY <1>2, SameTasks DEF Due, Enabled, Spoilt
<1>6. Busy(h) = TRUE /\ Busy(h)' = FALSE
  BY <1>2, <1>3, <1>4 DEF Busy
<1>7. Turn(out[h], host.in, TRUE, host.rec, Len(recs), Due(h))
  BY <1>1, <1>6 DEF TurnOK
<1>8. Turn(Append(out[h], o), host.in, FALSE, host.rec, Len(recs), Due(h))
  BY <1>2, <1>3, <1>7, TurnWritten
<1>9. TurnOK(h)'
  BY <1>2, <1>3, <1>4, <1>5, <1>6, <1>8 DEF TurnOK
<1> QED
  BY <1>1, <1>2, <1>4, <1>9, TurnOthers

\* ReleaseBuffer (target.go:260, logr.go:407) ends the turn of a record that was written, or
\* that could not be formatted.
LEMMA TurnRelease ==
  ASSUME LinesInv, NEW h \in Hosts, ReleaseBuffer(h), \A g \in Hosts : TurnOK(g)
  PROVE  \A g \in Hosts' : TurnOK(g)'
<1> DEFINE host == hosts[h]
           x == [host EXCEPT !.pc = "select", !.rec = 0, !.at = 0, !.buf = <<>>]
<1>1. HostsOK /\ HostOK(host, Len(recs)) /\ TurnOK(h)
  BY DEF LinesInv, RecordsInv, HostsOK
<1>2. env' = env /\ out' = out /\ recs' = recs /\ host.pc = "release" /\ hosts' = [hosts EXCEPT ![h] = x]
  BY <1>1 DEF ReleaseBuffer, HostsOK
<1>3. x.in = host.in /\ x.rec = 0 /\ x.pc = "select"
  BY <1>1 DEF HostOK
<1> HIDE DEF x
<1>4. hosts'[h] = x
  BY <1>1, <1>2 DEF HostsOK
<1>5. Due(h)' = Due(h)
  BY <1>2, SameTasks DEF Due, Enabled, Spoilt
<1>6. Busy(h) = FALSE /\ Busy(h)' = FALSE
  BY <1>2, <1>3, <1>4 DEF Busy
<1>7. Turn(out[h], host.in, FALSE, host.rec, Len(recs), Due(h))
  BY <1>1, <1>6 DEF TurnOK
<1>8. Turn(out[h], host.in, FALSE, 0, Len(recs), Due(h))
  BY <1>7, TurnLeft
<1>9. TurnOK(h)'
  BY <1>2, <1>3, <1>4, <1>5, <1>6, <1>8 DEF TurnOK
<1> QED
  BY <1>1, <1>2, <1>9, TurnOthers

\* Before the call no record is due.
LEMMA CompleteInit == RecordsInit => CompleteOK
<1> SUFFICES ASSUME RecordsInit, NEW h \in Hosts
             PROVE  TurnOK(h)
  BY DEF RecordsInit, CompleteOK, SlicesMade
<1>1. /\ hosts[h].in = <<>> /\ hosts[h].rec = 0 /\ hosts[h].pc = "select" /\ out[h] = <<>> /\ recs = <<>>
  BY DEF RecordsInit, Hosts
<1>2. IsSequence(<<>>) /\ Len(<<>>) = 0 /\ 1 .. 0 = {}
  BY EmptySequence
<1>3. Due(h) = {}
  BY <1>1, <1>2 DEF Due
<1>4. Turn(<<>>, <<>>, Busy(h), 0, 0, {})
  BY <1>2 DEF Turn, InTurn, Keeps
<1> QED
  BY <1>1, <1>2, <1>3, <1>4 DEF TurnOK

\* Every step keeps each record that is due on its way, until it is written.
LEMMA CompleteStep ==
  ASSUME SortsCopies, KeepsTime, LinesInv, CompleteOK, [RecordsNext]_recordsVars
  PROVE  CompleteOK'
<1>1. PipeOK /\ FlowOK /\ RecordsInv /\ \A h \in Hosts : TurnOK(h)
  BY DEF LinesInv, RecordsInv, CompleteOK
<1>2. SlicesMade'
  <2>1. CASE Call
    BY <1>1, <2>1, CallStarts DEF SlicesMade, PipeOK
  <2>2. CASE Limit
    <3>1. DOMAIN slices # {}
      BY <1>1, <2>2 DEF Limit, PipeOK
    <3>2. DOMAIN slices' = DOMAIN slices
      BY <2>2 DEF Limit
    <3> QED
      BY <3>1, <3>2 DEF SlicesMade
  <2>3. CASE slices' = slices
    BY <2>3 DEF SlicesMade, CompleteOK
  <2>4. Call \/ Limit \/ slices' = slices
    BY DEF RecordsNext, Log, Enqueue, Prep, PrepCopy, Fanout, HostLoop, BorrowBuffer, SortStep, Format, Write,
           ReleaseBuffer, Idle, recordsVars
  <2> QED
    BY <2>1, <2>2, <2>3, <2>4
<1>3. CASE Fanout
  <2>1. Hosts' = Hosts
    BY <1>3, SameTasks DEF Fanout
  <2> QED
    BY <1>1, <1>2, <1>3, <2>1, TurnFanout DEF CompleteOK
<1>4. CASE Call \/ Log \/ Limit \/ Enqueue \/ Prep \/ PrepCopy \/ UNCHANGED recordsVars
  <2>1. env' = env /\ hosts' = hosts /\ out' = out /\ recs' = recs
    BY <1>4 DEF Call, Log, Limit, Enqueue, Prep, PrepCopy, recordsVars
  <2>2. Hosts' = Hosts
    BY <2>1, SameTasks
  <2>3. \A h \in Hosts : Busy(h)' = Busy(h)
    BY <2>1 DEF Busy
  <2>4. \A h \in Hosts : TurnOK(h)'
    BY <1>1, <2>1, <2>3, TurnSame
  <2> QED
    BY <1>2, <2>2, <2>4 DEF CompleteOK
<1>5. ASSUME NEW h \in Hosts, HostLoop(h)
      PROVE  CompleteOK'
  <2>1. ~ SortStep(h)
    <3>1. ~ SortsInPlace
      BY <1>1 DEF SortsCopies, SortsInPlace, Hosts, PipeOK
    <3>2. hosts[h].pc # "sort"
      BY <3>1 DEF LinesInv, LinesOK, QueuedOK
    <3> QED
      BY <3>2 DEF SortStep
  <2>2. \A g \in Hosts' : TurnOK(g)'
    BY <1>1, <1>5, <2>1, TurnBorrow, TurnFormat, TurnWrite, TurnRelease DEF HostLoop
  <2> QED
    BY <1>2, <2>2 DEF CompleteOK
<1> QED
  BY <1>3, <1>4, <1>5 DEF RecordsNext, Idle

\* When all is quiet every record that was meant to be made was.
LEMMA DoneComplete ==
  ASSUME LinesInv, CompleteOK, Done, NEW h \in Hosts
  PROVE  OutputComplete(h)
<1> DEFINE o == out[h]
           ids == [i \in DOMAIN o |-> o[i].rec]
           N == Cardinality(Wanted)
<1>1. PipeOK /\ FlowOK /\ TurnOK(h) /\ HostOK(hosts[h], Len(recs)) /\ OutOK(h) /\ env \in Scenarios
  BY DEF LinesInv, RecordsInv, CompleteOK, HostsOK, LinesOK, PipeOK
<1>2. DOMAIN slices # {}
  BY DEF Done, CompleteOK, SlicesMade
<1>3. TodoOK
  BY <1>1, <1>2 DEF FlowOK
<1>4. /\ todo = <<>> /\ cur = nil /\ queue = <<>> /\ loop = nil /\ hosts[h].in = <<>> /\ hosts[h].pc = "select"
      /\ hosts[h].rec = 0
  BY <1>1 DEF Done, HostOK
<1>5. /\ IsSequence(Logged) /\ Len(Logged) = N /\ DOMAIN Logged = 1 .. N /\ Wanted \subseteq 1 .. Len(AllMeant)
      /\ \A k \in 1 .. N : Tasks[k].m = Logged[k]
  BY <1>1, TasksMeant
<1>6. Len(recs) = N
  <2>1. /\ Len(todo) = 0 /\ Len(queue) = 0 /\ One(cur) = 0 /\ One(loop) = 0
    BY <1>4 DEF One
  <2>2. Len(recs) \in Nat /\ Len(AllMeant) \in Nat
    BY <1>1, <1>3, MadeBounds
  <2>3. Made = Len(recs) /\ Sent = Len(AllMeant)
    BY <2>1, <2>2 DEF Made, Sent
  <2>4. Below(Wanted, Len(AllMeant) + 1) = Wanted
    <3>1. \A k \in Wanted : k \in 1 .. Len(AllMeant)
      BY <1>5
    <3>2. \A k \in Wanted : k < Len(AllMeant) + 1
      BY <2>2, <3>1
    <3> QED
      BY <3>2 DEF Below
  <2> QED
    BY <1>3, <2>3, <2>4 DEF TodoOK
<1>7. /\ DOMAIN o = 1 .. Len(o) /\ DOMAIN ids = 1 .. Len(o)
      /\ \A i \in 1 .. Len(o) : ids[i] = o[i].rec
  BY <1>1 DEF OutOK, IsSequence
<1>8. /\ \A i, j \in 1 .. Len(o) : i < j => o[i].rec < o[j].rec
      /\ \A i \in 1 .. Len(o) : o[i].rec \in 1 .. N /\ Enabled(h, Tasks[o[i].rec].m.level)
  BY <1>1, <1>6 DEF TurnOK, Turn, InTurn, OutOK
<1>9. \A k \in Due(h) : \E i \in 1 .. Len(o) : o[i].rec = k
  <2>1. Busy(h) = FALSE
    BY <1>4 DEF Busy
  <2>2. Keeps(o, <<>>, FALSE, 0, Due(h))
    BY <1>1, <1>4, <2>1 DEF TurnOK, Turn
  <2>3. Len(<<>>) = 0 /\ 1 .. 0 = {}
    OBVIOUS
  <2> HIDE DEF o
  <2> QED
    BY <2>2, <2>3 DEF Keeps
<1>10. Due(h) = {k \in 1 .. N : Enabled(h, Tasks[k].m.level) /\ ~ Spoilt(Tasks[k].m)}
  BY <1>6 DEF Due
<1>11. ToSet(ids) = {o[i].rec : i \in 1 .. Len(o)}
  BY <1>7 DEF ToSet
<1> HIDE DEF o, ids, N
<1>12. \A i, j \in DOMAIN ids : i < j => ids[i] < ids[j]
  BY <1>7, <1>8
<1>13. ASSUME NEW k \in 1 .. N
       PROVE  k \in ToSet(ids) <=> Enabled(h, Logged[k].level) /\ (k \in ToSet(ids) \/ ~ Spoilt(Logged[k]))
  <2>1. Tasks[k].m = Logged[k]
    BY <1>5
  <2>2. k \in ToSet(ids) => Enabled(h, Logged[k].level)
    BY <1>8, <1>11, <2>1
  <2>3. Enabled(h, Logged[k].level) /\ ~ Spoilt(Logged[k]) => k \in ToSet(ids)
    BY <1>9, <1>10, <1>11, <2>1
  <2> QED
    BY <2>2, <2>3
<1> QED
  BY <1>5, <1>12, <1>13 DEF OutputComplete, ids, o

\* OutputFaithful: every line that a target is given shows the message and the fields of
\* one record of the call and nothing else, each once, with its own value, shortened at
\* most once; and when all is quiet each target has every record that its filter lets
\* through and that can be rendered, in order -- whatever the call, the loggers, the
\* formatters and the hosts, however their read loops interleave and whichever buffers
\* they take from the pool (logger.go:51-98, sugar.go:12-197, logr.go:249-465,
\* logrec.go:54-108, target.go:221-269, formatter.go, formatters/*.go).  It is provided
\* that no formatter sorts in place or replaces the time, and that floats have no more
\* places than ValueString keeps (field.go:155-160).
THEOREM OutputFaithfulAlways ==
  ASSUME SortsCopies, KeepsTime, FloatsFit
  PROVE  RecordsSpec => []OutputFaithful
<1> DEFINE Inv == LinesInv /\ CompleteOK
<1>1. RecordsInit => Inv
  BY LinesInvInit, CompleteInit
<1>2. Inv /\ [RecordsNext]_recordsVars => Inv'
  BY LinesInvStep, CompleteStep
<1>3. Inv => OutputFaithful
  <2> SUFFICES ASSUME LinesInv, CompleteOK, NEW h \in Hosts
               PROVE  (\A i \in DOMAIN out[h] : LineFaithful(h, out[h][i])) /\ (Done => OutputComplete(h))
    BY DEF OutputFaithful
  <2>1. \A i \in DOMAIN out[h] : out[h][i] \in ToSet(out[h])
    BY DEF ToSet
  <2>2. \A o \in ToSet(out[h]) : LineFaithful(h, o)
    BY LinesInvFaithful
  <2> QED
    BY <2>1, <2>2, DoneComplete
<1> QED
  BY <1>1, <1>2, <1>3, PTL DEF RecordsSpec

=============================================================================
