------------------------ MODULE SelectorParserProofs -------------------------
(* The selector parser accepts exactly its grammar, with the matchers the   *)
(* text spells, on texts of any length, and stays in bounds.                *)
EXTENDS SelectorParser, WellFoundedInduction, TLAPS

-----------------------------------------------------------------------------
(* The grammar is read in one way: tokens.                                  *)

LEMMA SpFacts ==
  ASSUME NEW S, NEW t \in Seq(S), NEW i \in Nat, NEW j \in Sp(t, i)
  PROVE  /\ j \in Nat /\ i <= j /\ j <= Len(t)
         /\ \A k \in (i + 1)..j : t[k] = SPACE
BY DEF Sp, SPACE

LEMMA SpSelf ==
  ASSUME NEW S, NEW t \in Seq(S), NEW i \in Nat, i <= Len(t)
  PROVE  i \in Sp(t, i)
BY DEF Sp, SPACE

LEMMA SpStep ==
  ASSUME NEW S, NEW t \in Seq(S), NEW i \in Nat, NEW j \in Sp(t, i),
         j < Len(t), t[j + 1] = SPACE
  PROVE  j + 1 \in Sp(t, i)
BY DEF Sp, SPACE

\* Spaces end where something else begins.
LEMMA SpEnds ==
  ASSUME NEW S, NEW t \in Seq(S), NEW i \in Nat,
         NEW j \in Sp(t, i), NEW k \in Sp(t, i), k < Len(t), t[k + 1] # SPACE
  PROVE  j <= k
BY DEF Sp, SPACE

LEMMA SpUnique ==
  ASSUME NEW S, NEW t \in Seq(S), NEW i \in Nat,
         NEW j \in Sp(t, i), j < Len(t), t[j + 1] # SPACE,
         NEW k \in Sp(t, i), k < Len(t), t[k + 1] # SPACE
  PROVE  j = k
BY SpEnds, SpFacts

LEMMA PaddedFacts ==
  ASSUME NEW S, NEW t \in Seq(S), NEW i \in Nat, NEW c, NEW x
  PROVE  x \in Padded(t, i, c) <=>
           \E j \in Sp(t, i) : x = j + 1 /\ j < Len(t) /\ t[j + 1] = c
BY DEF Padded, Tok

\* A token after spaces is what follows them.
LEMMA PaddedUnique ==
  ASSUME NEW S, NEW t \in Seq(S), NEW i \in Nat, NEW c, c # SPACE,
         NEW x \in Padded(t, i, c),
         NEW k \in Sp(t, i), k < Len(t) => t[k + 1] # SPACE
  PROVE  k < Len(t) /\ x = k + 1 /\ t[k + 1] = c
<1>1. PICK j \in Sp(t, i) : x = j + 1 /\ j < Len(t) /\ t[j + 1] = c
  BY PaddedFacts
<1>2. k <= j
  BY <1>1, SpEnds
<1> QED
  BY <1>1, <1>2, SpUnique, SpFacts

LEMMA OpParts ==
  ASSUME NEW S, NEW t \in Seq(S), NEW i \in Nat, NEW o \in Ops(t, i)
  PROVE  \/ o = <<i + 1, "=">> /\ i < Len(t) /\ t[i + 1] = "="
         \/ o = <<i + 2, "=~">> /\ i + 1 < Len(t) /\ t[i + 1] = "=" /\ t[i + 2] = "~"
         \/ o = <<i + 2, "!~">> /\ i + 1 < Len(t) /\ t[i + 1] = "!" /\ t[i + 2] = "~"
         \/ o = <<i + 2, "!=">> /\ i + 1 < Len(t) /\ t[i + 1] = "!" /\ t[i + 2] = "="
BY DEF Ops, Tok

LEMMA PartsOp ==
  ASSUME NEW S, NEW t \in Seq(S), NEW i \in Nat, NEW o,
         \/ o = <<i + 1, "=">> /\ i < Len(t) /\ t[i + 1] = "="
         \/ o = <<i + 2, "=~">> /\ i + 1 < Len(t) /\ t[i + 1] = "=" /\ t[i + 2] = "~"
         \/ o = <<i + 2, "!~">> /\ i + 1 < Len(t) /\ t[i + 1] = "!" /\ t[i + 2] = "~"
         \/ o = <<i + 2, "!=">> /\ i + 1 < Len(t) /\ t[i + 1] = "!" /\ t[i + 2] = "="
  PROVE  o \in Ops(t, i)
BY DEF Ops, Tok

LEMMA LabelIsWord ==
  ASSUME NEW d, NEW f, NEW c, LabelChar(d, f, c)
  PROVE  c \in {"a", "1", "."}
BY DEF LabelChar

-----------------------------------------------------------------------------
(* Quoted values.                                                           *)

\* Escaped, in the text itself: t[w + 1] is the opening quote.
Run(t, w, i, k) ==
  /\ k % 2 = 1 /\ i - k > 1
  /\ \A j \in (i - k)..(i - 1) : t[w + j] = ESC
  /\ i - k = 2 \/ t[w + (i - k - 1)] # ESC
Esc(t, w, i) == \E k \in 1..(i - 1) : Run(t, w, i, k)

LEMMA SliceFacts ==
  ASSUME NEW S, NEW t \in Seq(S), NEW w \in Nat, NEW v \in Nat, w < v, v <= Len(t)
  PROVE  /\ SubSeq(t, w + 1, v) \in Seq(S) /\ Len(SubSeq(t, w + 1, v)) = v - w
         /\ \A i \in 1..(v - w) : SubSeq(t, w + 1, v)[i] = t[w + i]
OBVIOUS

LEMMA EscapedIsEsc ==
  ASSUME NEW S, NEW t \in Seq(S), NEW w \in Nat, NEW v \in Nat, w < v, v <= Len(t),
         NEW i \in 1..(v - w)
  PROVE  Escaped(SubSeq(t, w + 1, v), i) <=> Esc(t, w, i)
<1> DEFINE q == SubSeq(t, w + 1, v)
<1> HIDE DEF q
<1>1. \A j \in 1..(v - w) : q[j] = t[w + j]
  BY SliceFacts DEF q
<1>2. ASSUME NEW k \in 1..(i - 1)
      PROVE  Run(t, w, i, k) <=>
               /\ k % 2 = 1 /\ i - k > 1
               /\ \A j \in (i - k)..(i - 1) : q[j] = ESC
               /\ i - k = 2 \/ q[i - k - 1] # ESC
  <2>1. ASSUME i - k > 1
        PROVE  \A j \in (i - k)..(i - 1) : q[j] = t[w + j]
    BY <1>1, <2>1
  <2>2. ASSUME i - k > 1, i - k # 2
        PROVE  q[i - k - 1] = t[w + (i - k - 1)]
    BY <1>1, <2>2
  <2> QED
    BY <2>1, <2>2, Zenon DEF Run
<1>3. Escaped(q, i) <=> Esc(t, w, i)
  BY <1>2, Zenon DEF Escaped, Esc
<1> QED
  BY <1>3 DEF q

\* Whether a byte is escaped depends on the byte before it.
LEMMA EscFirst == ASSUME NEW t, NEW w PROVE ~Esc(t, w, 2)
BY DEF Esc, Run

LEMMA EscOff ==
  ASSUME NEW t, NEW w \in Nat, NEW i \in Nat, i >= 2, t[w + i] # ESC
  PROVE  ~Esc(t, w, i + 1)
BY DEF Esc, Run

\* A set of numbers has a least one.
LEMMA Least ==
  ASSUME NEW T, T \subseteq Nat, T # {}
  PROVE  \E k \in T : \A m \in T : k <= m
<1>1. PICK k \in T : \A m \in T : <<m, k>> \notin OpToRel(<, Nat)
  BY NatLessThanWellFounded, WFMin, Zenon
<1>2. \A m \in T : ~(m < k)
  BY <1>1, Zenon DEF OpToRel
<1> QED
  BY <1>2

\* An unescaped backslash escapes what follows: the run of backslashes before
\* it has an even length.
LEMMA EscOn ==
  ASSUME NEW t, NEW w \in Nat, NEW i \in Nat, i >= 2, t[w + i] = ESC, ~Esc(t, w, i)
  PROVE  Esc(t, w, i + 1)
<1>1. CASE i = 2 \/ t[w + (i - 1)] # ESC
  <2>1. 1 \in 1..i /\ 1 % 2 = 1 /\ (i + 1) - 1 = i /\ i - 1 = (i + 1) - 1 - 1
    OBVIOUS
  <2> QED
    BY <1>1, <2>1 DEF Esc, Run
<1>2. CASE i > 2 /\ t[w + (i - 1)] = ESC
  <2> DEFINE T == {k \in Nat : k >= 1 /\ k <= i - 2
                                /\ (i - k = 2 \/ t[w + (i - k - 1)] # ESC)}
  <2>1. i - 2 \in T
    BY <1>2
  <2>2. PICK k \in T : \A m \in T : k <= m
    <3> HIDE DEF T
    <3>1. T \subseteq Nat
      BY DEF T
    <3> QED
      BY <2>1, <3>1, Least, Zenon
  <2>3. \A j \in (i - k)..(i - 1) : t[w + j] = ESC
    <3> SUFFICES ASSUME NEW j \in (i - k)..(i - 1), j # i - 1 PROVE t[w + j] = ESC
      BY <1>2
    <3>1. i - j - 1 \in Nat /\ i - j - 1 < k /\ i - j - 1 >= 1 /\ i - (i - j - 1) - 1 = j
      BY <2>2
    <3>2. i - j - 1 \notin T
      BY <2>2, <3>1
    <3> QED
      BY <2>2, <3>1, <3>2
  <2>4. k % 2 # 1
    <3>1. k \in 1..(i - 1) /\ i - k > 1
      BY <2>2
    <3> QED
      BY <2>2, <2>3, <3>1, Zenon DEF Esc, Run
  <2>5. /\ k + 1 \in 1..i /\ (k + 1) % 2 = 1
        /\ (i + 1) - (k + 1) = i - k /\ i - k > 1
        /\ (i + 1) - (k + 1) - 1 = i - k - 1 /\ (i + 1) - 1 = i
    BY <2>2, <2>4
  <2>6. \A j \in (i - k)..i : t[w + j] = ESC
    BY <2>2, <2>3
  <2>7. Run(t, w, i + 1, k + 1)
    BY <2>2, <2>5, <2>6 DEF Run
  <2> QED
    BY <2>5, <2>7 DEF Esc
<1> QED
  BY <1>1, <1>2

LEMMA EscOver ==
  ASSUME NEW t, NEW w \in Nat, NEW i \in Nat, i >= 2, Esc(t, w, i)
  PROVE  ~Esc(t, w, i + 1)
<1> SUFFICES ASSUME Esc(t, w, i + 1) PROVE FALSE
  OBVIOUS
<1>1. PICK k \in 1..(i - 1) : /\ k % 2 = 1 /\ i - k > 1
                              /\ \A j \in (i - k)..(i - 1) : t[w + j] = ESC
                              /\ i - k = 2 \/ t[w + (i - k - 1)] # ESC
  BY Zenon DEF Esc, Run
<1>2. PICK m \in 1..i : /\ m % 2 = 1 /\ i + 1 - m > 1
                        /\ \A j \in (i + 1 - m)..i : t[w + j] = ESC
                        /\ i + 1 - m = 2 \/ t[w + (i - m)] # ESC
  <2>1. PICK m \in 1..((i + 1) - 1) : Run(t, w, i + 1, m)
    BY DEF Esc
  <2>2. m \in 1..i /\ (i + 1) - 1 = i /\ (i + 1) - m - 1 = i - m
    BY <2>1
  <2> QED
    BY <2>1, <2>2 DEF Run
<1>3. m # k + 1
  BY <1>1, <1>2
<1>4. CASE m > k + 1
  BY <1>1, <1>2, <1>4
<1>5. CASE m < k + 1
  BY <1>1, <1>2, <1>5
<1> QED
  BY <1>3, <1>4, <1>5

\* The byte that closes the quote at w + 1.
Closing(t, w, i) == t[w + i] = t[w + 1] /\ ~(t[w + 1] = DQ /\ Esc(t, w, i))
IsEnd(t, w, v) ==
  /\ t[w + 1] \in {DQ, BQ} /\ t[v] = t[w + 1]
  /\ \A i \in 2..(v - w) : Closing(t, w, i) <=> i = v - w

LEMMA ValueFacts ==
  ASSUME NEW S, NEW t \in Seq(S), NEW w \in Nat, NEW v
  PROVE  v \in Values(t, w) <=>
           /\ v \in Nat /\ w + 2 <= v /\ v <= Len(t)
           /\ IsEnd(t, w, v) /\ Unquotes(SubSeq(t, w + 1, v))
<1> DEFINE q == SubSeq(t, w + 1, v)
<1> HIDE DEF q
<1>1. v \in Values(t, w) <=> v \in Nat /\ w + 2 <= v /\ v <= Len(t) /\ IsQuoted(q)
  BY DEF Values, q
<1>2. ASSUME v \in Nat, w + 2 <= v, v <= Len(t)
      PROVE  IsQuoted(q) <=> IsEnd(t, w, v) /\ Unquotes(q)
  <2>1. Len(q) = v - w /\ \A i \in 1..(v - w) : q[i] = t[w + i]
    BY <1>2, SliceFacts DEF q
  <2>2. \A i \in 1..(v - w) : Escaped(q, i) <=> Esc(t, w, i)
    BY <1>2, EscapedIsEsc DEF q
  <2>3. q[1] = t[w + 1] /\ q[Len(q)] = t[v] /\ v - w \in Nat
    BY <1>2, <2>1
  <2>4. \A i \in 2..(v - w) :
          Closing(t, w, i) <=> q[i] = q[1] /\ ~(q[1] = DQ /\ Escaped(q, i))
    BY <1>2, <2>1, <2>2, <2>3 DEF Closing
  <2> QED
    BY <2>1, <2>3, <2>4 DEF IsQuoted, IsEnd
<1> QED
  BY <1>1, <1>2 DEF q

LEMMA EndUnique ==
  ASSUME NEW t, NEW w \in Nat, NEW u \in Nat, w + 2 <= u, IsEnd(t, w, u),
         NEW v \in Nat, w + 2 <= v, IsEnd(t, w, v)
  PROVE  u = v
<1>1. CASE u < v
  <2>1. u - w \in 2..(u - w) /\ u - w \in 2..(v - w) /\ u - w # v - w
    BY <1>1
  <2> QED
    BY <2>1 DEF IsEnd
<1>2. CASE v < u
  <2>1. v - w \in 2..(v - w) /\ v - w \in 2..(u - w) /\ u - w # v - w
    BY <1>2
  <2> QED
    BY <2>1 DEF IsEnd
<1> QED
  BY <1>1, <1>2

LEMMA ValueUnique ==
  ASSUME NEW S, NEW t \in Seq(S), NEW w \in Nat,
         NEW u \in Values(t, w), NEW v \in Values(t, w)
  PROVE  u = v
BY ValueFacts, EndUnique

-----------------------------------------------------------------------------
(* Matchers.                                                                *)

\* The parts of a matcher at i: where its name ends (n), its operator begins
\* (m), the operator and its end (o), where its value begins (w) and ends (v).
Parts(t, i, dots, n, m, o, w, v) ==
  /\ n \in Names(t, i, dots) /\ m \in Sp(t, n)
  /\ o \in Ops(t, m) /\ w \in Sp(t, o[1])
  /\ v \in Values(t, w) /\ Compiles(o[2], SubSeq(t, w + 1, v))
Item(t, i, n, o, w, v) ==
  [at |-> i, to |-> v,
   m |-> [name |-> SubSeq(t, i + 1, n), op |-> o[2], text |-> SubSeq(t, w + 1, v)]]

LEMMA ItemParts ==
  ASSUME NEW t, NEW dots, NEW x \in Items(t, dots)
  PROVE  /\ x.at \in 0..Len(t)
         /\ \E n, m, o, w, v : /\ Parts(t, x.at, dots, n, m, o, w, v)
                              /\ x = Item(t, x.at, n, o, w, v)
<1>1. PICK i \in 0..Len(t) : \E y \in MatchersAt(t, i, dots) :
                               x = [at |-> i, to |-> y[1], m |-> y[2]]
  BY DEF Items
<1>2. PICK y \in MatchersAt(t, i, dots) : x = [at |-> i, to |-> y[1], m |-> y[2]]
  BY <1>1
<1>3. PICK n, m, o, w, v :
        /\ n \in Names(t, i, dots) /\ m \in Sp(t, n) /\ o \in Ops(t, m) /\ w \in Sp(t, o[1])
        /\ v \in Values(t, w) /\ Compiles(o[2], SubSeq(t, w + 1, v))
        /\ y = <<v, [name |-> SubSeq(t, i + 1, n), op |-> o[2], text |-> SubSeq(t, w + 1, v)]>>
  BY <1>2 DEF MatchersAt
<1>4. x.at = i /\ x = Item(t, i, n, o, w, v)
  BY <1>2, <1>3 DEF Item
<1> QED
  BY <1>3, <1>4 DEF Parts

LEMMA PartsItem ==
  ASSUME NEW t, NEW dots, NEW i \in 0..Len(t), NEW n, NEW m, NEW o, NEW w, NEW v,
         Parts(t, i, dots, n, m, o, w, v)
  PROVE  Item(t, i, n, o, w, v) \in Items(t, dots)
<1> DEFINE y == <<v, [name |-> SubSeq(t, i + 1, n), op |-> o[2], text |-> SubSeq(t, w + 1, v)]>>
<1> DEFINE D(nn, oo, ww) ==
             {<<u, [name |-> SubSeq(t, i + 1, nn), op |-> oo[2], text |-> SubSeq(t, ww + 1, u)]>>
              : u \in {z \in Values(t, ww) : Compiles(oo[2], SubSeq(t, ww + 1, z))}}
           C(nn, oo) == UNION {D(nn, oo, ww) : ww \in Sp(t, oo[1])}
           B(nn, mm) == UNION {C(nn, oo) : oo \in Ops(t, mm)}
           A(nn) == UNION {B(nn, mm) : mm \in Sp(t, nn)}
<1>1. y \in MatchersAt(t, i, dots)
  <2>1. y \in D(n, o, w)
    BY Zenon DEF Parts
  <2>2. y \in C(n, o)
    <3> HIDE DEF D
    <3> QED
      BY <2>1 DEF Parts
  <2>3. y \in B(n, m)
    <3> HIDE DEF C
    <3> QED
      BY <2>2 DEF Parts
  <2>4. y \in A(n)
    <3> HIDE DEF B
    <3> QED
      BY <2>3 DEF Parts
  <2>5. y \in UNION {A(nn) : nn \in Names(t, i, dots)}
    <3> HIDE DEF A
    <3> QED
      BY <2>4 DEF Parts
  <2> QED
    BY <2>5, Zenon DEF MatchersAt
<1>2. Item(t, i, n, o, w, v) = [at |-> i, to |-> y[1], m |-> y[2]]
  BY DEF Item
<1> HIDE DEF y
<1> QED
  BY <1>1, <1>2 DEF Items

\* The numbers among the parts.
LEMMA PartsInText ==
  ASSUME NEW S, NEW t \in Seq(S), NEW i \in Nat, NEW dots,
         NEW n, NEW m, NEW o, NEW w, NEW v, Parts(t, i, dots, n, m, o, w, v)
  PROVE  /\ n \in Nat /\ m \in Nat /\ o[1] \in Nat /\ w \in Nat /\ v \in Nat
         /\ i < n /\ n <= m /\ m < o[1] /\ o[1] <= w /\ w + 2 <= v /\ v <= Len(t)
<1>1. n \in Nat /\ i < n
  BY DEF Parts, Names
<1>2. m \in Nat /\ n <= m
  BY <1>1, SpFacts DEF Parts
<1>3. o[1] \in Nat /\ m < o[1]
  BY <1>2, OpParts DEF Parts
<1>4. w \in Nat /\ o[1] <= w
  BY <1>3, SpFacts DEF Parts
<1>5. v \in Nat /\ w + 2 <= v /\ v <= Len(t)
  BY <1>4, ValueFacts DEF Parts
<1> QED
  BY <1>1, <1>2, <1>3, <1>4, <1>5

\* A name ends where the bytes of a name do.
LEMMA NameEnds ==
  ASSUME NEW S, NEW t \in Seq(S), NEW i \in Nat, NEW dots,
         NEW n \in Names(t, i, dots), NEW m \in Sp(t, n), Ops(t, m) # {},
         NEW k \in Nat, i <= k, k <= Len(t),
         \A j \in (i + 1)..k : LabelChar(dots, j = i + 1, t[j]),
         k < Len(t) => ~LabelChar(dots, k + 1 = i + 1, t[k + 1])
  PROVE  k = n
<1>1. /\ n \in Nat /\ i < n /\ n <= Len(t)
      /\ \A j \in (i + 1)..n : LabelChar(dots, j = i + 1, t[j])
  BY DEF Names
<1>2. n <= k
  <2> SUFFICES ASSUME k < n PROVE FALSE
    BY <1>1
  <2>1. k + 1 \in (i + 1)..n /\ k < Len(t)
    BY <1>1
  <2> QED
    BY <1>1, <2>1
<1>3. k <= n
  <2> SUFFICES ASSUME n < k PROVE FALSE
    BY <1>1
  <2>1. n + 1 \in (i + 1)..k
    BY <1>1
  <2>2. t[n + 1] \in {"a", "1", "."}
    BY <2>1, LabelIsWord
  <2>3. m \in Nat /\ n <= m /\ \A j \in (n + 1)..m : t[j] = SPACE
    BY <1>1, SpFacts
  <2>4. m = n
    BY <1>1, <2>2, <2>3 DEF SPACE
  <2>5. t[n + 1] \in {"=", "!"}
    BY <1>1, <2>4, OpParts
  <2> QED
    BY <2>2, <2>5
<1> QED
  BY <1>1, <1>2, <1>3

\* An operator begins where the spaces end, ...
LEMMA OpBegins ==
  ASSUME NEW S, NEW t \in Seq(S), NEW n \in Nat,
         NEW m \in Sp(t, n), Ops(t, m) # {},
         NEW k \in Sp(t, n), k < Len(t) => t[k + 1] # SPACE
  PROVE  k = m
<1>1. m \in Nat /\ k \in Nat /\ m <= Len(t) /\ k <= Len(t)
  BY SpFacts
<1>2. m < Len(t) /\ t[m + 1] \in {"=", "!"}
  BY <1>1, OpParts
<1>3. t[m + 1] # SPACE
  BY <1>2 DEF SPACE
<1>4. k <= m
  BY <1>2, <1>3, SpEnds
<1> QED
  BY <1>1, <1>2, <1>3, <1>4, SpUnique

\* ... and so does a value.
LEMMA ValueBegins ==
  ASSUME NEW S, NEW t \in Seq(S), NEW n \in Nat,
         NEW w \in Sp(t, n), Values(t, w) # {},
         NEW k \in Sp(t, n), k < Len(t) => t[k + 1] # SPACE
  PROVE  k = w
<1>1. w \in Nat /\ k \in Nat /\ w <= Len(t) /\ k <= Len(t)
  BY SpFacts
<1>2. w < Len(t) /\ t[w + 1] \in {DQ, BQ}
  BY <1>1, ValueFacts DEF IsEnd
<1>3. t[w + 1] # SPACE
  BY <1>2 DEF SPACE, DQ, BQ
<1>4. k <= w
  BY <1>2, <1>3, SpEnds
<1> QED
  BY <1>1, <1>2, <1>3, <1>4, SpUnique

\* The longest operator is the one that a value follows.
LEMMA OpUnique ==
  ASSUME NEW S, NEW t \in Seq(S), NEW m \in Nat,
         NEW o \in Ops(t, m), NEW w \in Sp(t, o[1]), Values(t, w) # {}
  PROVE  /\ o[1] < Len(t) /\ t[o[1] + 1] \in {SPACE, DQ, BQ}
         /\ \/ t[m + 1] = "=" /\ t[m + 2] = "~" /\ o = <<m + 2, "=~">>
            \/ t[m + 1] = "!" /\ t[m + 2] = "~" /\ o = <<m + 2, "!~">>
            \/ t[m + 1] = "!" /\ t[m + 2] = "=" /\ o = <<m + 2, "!=">>
            \/ t[m + 1] = "=" /\ t[m + 2] # "~" /\ o = <<m + 1, "=">>
<1>1. o[1] \in Nat
  BY OpParts
<1>2. w \in Nat /\ o[1] <= w /\ w <= Len(t) /\ \A j \in (o[1] + 1)..w : t[j] = SPACE
  BY <1>1, SpFacts
<1>3. w < Len(t) /\ t[w + 1] \in {DQ, BQ}
  BY <1>2, ValueFacts DEF IsEnd
<1>4. o[1] < Len(t) /\ t[o[1] + 1] \in {SPACE, DQ, BQ}
  BY <1>1, <1>2, <1>3
<1>5. t[o[1] + 1] # "~"
  BY <1>4 DEF SPACE, DQ, BQ
<1> QED
  BY <1>4, <1>5, OpParts

LEMMA PartsUnique ==
  ASSUME NEW S, NEW t \in Seq(S), NEW i \in Nat, NEW dots,
         NEW n, NEW m, NEW o, NEW w, NEW v, Parts(t, i, dots, n, m, o, w, v),
         NEW nn, NEW mm, NEW oo, NEW ww, NEW vv, Parts(t, i, dots, nn, mm, oo, ww, vv)
  PROVE  n = nn /\ m = mm /\ o = oo /\ w = ww /\ v = vv
<1>1. /\ nn \in Nat /\ i < nn /\ nn <= Len(t) /\ mm \in Nat /\ nn <= mm
      /\ mm < oo[1] /\ oo[1] <= ww /\ oo[1] \in Nat /\ ww \in Nat
      /\ m \in Nat /\ n \in Nat /\ o[1] \in Nat /\ w \in Nat /\ mm < Len(t)
  BY PartsInText, SMTT(30)
<1>2. t[mm + 1] \in {"=", "!"}
  BY <1>1, OpParts DEF Parts
<1>3. t[nn + 1] \in {"=", "!", SPACE}
  <2>1. \A j \in (nn + 1)..mm : t[j] = SPACE
    BY <1>1, SpFacts DEF Parts
  <2> QED
    BY <1>1, <1>2, <2>1, SMTT(30)
<1>4. ~LabelChar(dots, nn + 1 = i + 1, t[nn + 1])
  <2>1. t[nn + 1] \notin {"a", "1", "."}
    BY <1>3 DEF SPACE
  <2> QED
    BY <2>1, LabelIsWord
<1>5. \A j \in (i + 1)..nn : LabelChar(dots, j = i + 1, t[j])
  BY DEF Parts, Names
<1>6. nn = n
  BY <1>1, <1>4, <1>5, NameEnds DEF Parts
<1>7. mm = m
  BY <1>1, <1>2, <1>6, OpBegins, Zenon DEF Parts, SPACE
<1>8. oo = o
  <2> DEFINE Is(z) == \/ t[m + 1] = "=" /\ t[m + 2] = "~" /\ z = <<m + 2, "=~">>
                      \/ t[m + 1] = "!" /\ t[m + 2] = "~" /\ z = <<m + 2, "!~">>
                      \/ t[m + 1] = "!" /\ t[m + 2] = "=" /\ z = <<m + 2, "!=">>
                      \/ t[m + 1] = "=" /\ t[m + 2] # "~" /\ z = <<m + 1, "=">>
  <2>1. Is(o)
    BY <1>1, OpUnique DEF Parts
  <2>2. Is(oo)
    BY <1>1, <1>7, OpUnique DEF Parts
  <2> QED
    BY <2>1, <2>2
<1>9. ww = w
  <2>1. t[ww + 1] # SPACE
    BY <1>1, ValueFacts, Zenon DEF Parts, IsEnd, SPACE, DQ, BQ
  <2> QED
    BY <1>1, <1>8, <2>1, ValueBegins, Zenon DEF Parts
<1> QED
  BY <1>1, <1>6, <1>7, <1>8, <1>9, ValueUnique DEF Parts

\* One matcher begins at a place, if any.
LEMMA ItemUnique ==
  ASSUME NEW S, NEW t \in Seq(S), NEW dots,
         NEW x \in Items(t, dots), NEW y \in Items(t, dots), x.at = y.at
  PROVE  x = y
<1>1. PICK n, m, o, w, v : /\ Parts(t, x.at, dots, n, m, o, w, v)
                           /\ x = Item(t, x.at, n, o, w, v)
  BY ItemParts
<1>2. PICK nn, mm, oo, ww, vv : /\ Parts(t, x.at, dots, nn, mm, oo, ww, vv)
                                /\ y = Item(t, x.at, nn, oo, ww, vv)
  BY ItemParts
<1>3. x.at \in Nat
  BY ItemParts
<1> QED
  BY <1>1, <1>2, <1>3, PartsUnique

-----------------------------------------------------------------------------
(* Lists of matchers: what has been read of a text t, and how t can go on.  *)

Chain(t, d, c) == c \in Seq(Items(t, d)) /\ c # <<>> /\ Lists(t, c)
Barren(t, d) == \A c : ~Chain(t, d, c)

EndOf(p) == p[Len(p)].to

\* The matchers p are read, one after the other, ...
Linked(t, d, p) ==
  /\ p \in Seq(Items(t, d))
  /\ p # <<>> => p[1].at \in After(t, 0, LB) /\ 4 * Len(p) <= EndOf(p)
  /\ \A k \in 2..Len(p) : p[k].at \in After(t, p[k - 1].to, COMMA)

\* ... and every reading of t begins with them.
Agrees(t, d, p) ==
  \A c : Chain(t, d, c) => Len(p) <= Len(c) /\ \A k \in 1..Len(p) : c[k] = p[k]

Got(t, d, p) == Linked(t, d, p) /\ Agrees(t, d, p)

\* A matcher may begin after j, or the list end.
Ready(t, p, j) ==
  IF p = <<>> THEN j \in Padded(t, 0, LB) ELSE j \in Padded(t, EndOf(p), COMMA)

\* The next matcher begins at i.
Begun(t, d, p, i) ==
  /\ \E j \in Nat : Ready(t, p, j) /\ i \in Sp(t, j)
  /\ \A c : Chain(t, d, c) => Len(p) < Len(c) /\ c[Len(p) + 1].at = i

\* There is no next matcher, and the closing brace comes after j.
Done(t, d, p, j) ==
  /\ p # <<>> => j = EndOf(p) \/ j \in Padded(t, EndOf(p), COMMA)
  /\ \A c : Chain(t, d, c) => Len(c) = Len(p) /\ Closes(t, j)

\* c reads on where p ends.
LEMMA ChainFacts ==
  ASSUME NEW t, NEW d, NEW p, Got(t, d, p), NEW c, Chain(t, d, c)
  PROVE  /\ Len(p) \in Nat /\ Len(c) \in Nat /\ Len(p) <= Len(c)
         /\ \A k \in 1..Len(p) : c[k] = p[k]
         /\ p = <<>> <=> Len(p) = 0
         /\ Len(c) > 0
         /\ p # <<>> => p[Len(p)] \in Items(t, d) /\ c[Len(p)] = p[Len(p)]
         /\ Len(p) < Len(c) =>
              /\ c[Len(p) + 1] \in Items(t, d)
              /\ p = <<>> => c[Len(p) + 1].at \in After(t, 0, LB)
              /\ p # <<>> => c[Len(p) + 1].at \in After(t, EndOf(p), COMMA)
         /\ Len(p) = Len(c) =>
              \/ Closes(t, EndOf(p))
              \/ \E j \in Padded(t, EndOf(p), COMMA) : Closes(t, j)
<1>1. p \in Seq(Items(t, d)) /\ c \in Seq(Items(t, d)) /\ c # <<>>
  BY DEF Got, Linked, Chain
<1>2. /\ Len(p) \in Nat /\ Len(c) \in Nat /\ (p = <<>> <=> Len(p) = 0) /\ Len(c) > 0
      /\ \A k \in 1..Len(p) : p[k] \in Items(t, d)
      /\ \A k \in 1..Len(c) : c[k] \in Items(t, d)
  BY <1>1
<1>3. Len(p) <= Len(c) /\ \A k \in 1..Len(p) : c[k] = p[k]
  BY DEF Got, Agrees
<1>4. p # <<>> => Len(p) \in 1..Len(p)
  BY <1>2
<1>5. ASSUME Len(p) < Len(c)
      PROVE  /\ c[Len(p) + 1] \in Items(t, d)
             /\ p = <<>> => c[Len(p) + 1].at \in After(t, 0, LB)
             /\ p # <<>> => c[Len(p) + 1].at \in After(t, EndOf(p), COMMA)
  <2>1. Len(p) + 1 \in 1..Len(c) /\ (p = <<>> => Len(p) + 1 = 1)
        /\ (p # <<>> => Len(p) + 1 \in 2..Len(c) /\ (Len(p) + 1) - 1 = Len(p))
    BY <1>2, <1>5
  <2>2. p # <<>> => c[Len(p)] = p[Len(p)]
    BY <1>3, <1>4
  <2> QED
    BY <1>2, <2>1, <2>2 DEF Chain, Lists, EndOf
<1>6. ASSUME Len(p) = Len(c)
      PROVE  \/ Closes(t, EndOf(p))
             \/ \E j \in Padded(t, EndOf(p), COMMA) : Closes(t, j)
  <2>1. c[Len(c)] = p[Len(p)]
    BY <1>2, <1>3, <1>4, <1>6
  <2> QED
    BY <2>1 DEF Chain, Lists, EndOf
<1> QED
  BY <1>2, <1>3, <1>4, <1>5, <1>6

LEMMA ItemFacts ==
  ASSUME NEW S, NEW t \in Seq(S), NEW d, NEW x \in Items(t, d)
  PROVE  /\ x.at \in Nat /\ x.to \in Nat /\ x.at + 4 <= x.to /\ x.to <= Len(t)
         /\ t[x.at + 1] = "a"
<1>1. x.at \in Nat
  BY ItemParts
<1>2. PICK n, m, o, w, v : /\ Parts(t, x.at, d, n, m, o, w, v)
                           /\ x = Item(t, x.at, n, o, w, v)
  BY ItemParts
<1>3. /\ n \in Nat /\ m \in Nat /\ o[1] \in Nat /\ w \in Nat /\ v \in Nat
      /\ x.at < n /\ n <= m /\ m < o[1] /\ o[1] <= w /\ w + 2 <= v /\ v <= Len(t)
  BY <1>1, <1>2, PartsInText
<1>4. x.to = v
  BY <1>2 DEF Item
<1>5. t[x.at + 1] = "a"
  <2>1. x.at + 1 \in (x.at + 1)..n
    BY <1>1, <1>3
  <2> QED
    BY <1>2, <2>1 DEF Parts, Names, LabelChar
<1> QED
  BY <1>1, <1>3, <1>4, <1>5

LEMMA PaddedNat ==
  ASSUME NEW S, NEW t \in Seq(S), NEW i \in Nat, NEW c, NEW x \in Padded(t, i, c)
  PROVE  x \in Nat /\ i < x /\ x <= Len(t)
BY PaddedFacts, SpFacts

\* One token follows the spaces after i.
LEMMA PaddedSame ==
  ASSUME NEW S, NEW t \in Seq(S), NEW i \in Nat,
         NEW c, c # SPACE, NEW x \in Padded(t, i, c),
         NEW e, e # SPACE, NEW y \in Padded(t, i, e)
  PROVE  x = y /\ c = e
<1>1. PICK j \in Sp(t, i) : x = j + 1 /\ j < Len(t) /\ t[j + 1] = c
  BY PaddedFacts
<1> QED
  BY <1>1, PaddedUnique

LEMMA Punctuation ==
  LB # SPACE /\ RB # SPACE /\ COMMA # SPACE /\ RB # COMMA /\ LB # COMMA /\ LB # RB
BY DEF LB, RB, COMMA, SPACE

\* The next matcher of a reading begins where the spaces end.
LEMMA NextBegins ==
  ASSUME NEW S, NEW t \in Seq(S), NEW d, NEW p, Got(t, d, p),
         NEW j \in Nat, Ready(t, p, j), NEW k \in Sp(t, j), k < Len(t) => t[k + 1] # SPACE,
         NEW c, Chain(t, d, c), Len(p) < Len(c)
  PROVE  c[Len(p) + 1].at = k /\ k < Len(t) /\ t[k + 1] # RB
<1> DEFINE x == c[Len(p) + 1]
<1>1. x \in Items(t, d)
  BY ChainFacts
<1> HIDE DEF x
<1>2. /\ x.at \in Nat /\ x.at < Len(t) /\ t[x.at + 1] # SPACE /\ t[x.at + 1] # RB
  <2>1. /\ x.at \in Nat /\ x.to \in Nat /\ x.at + 4 <= x.to /\ x.to <= Len(t)
        /\ t[x.at + 1] = "a"
    BY <1>1, ItemFacts
  <2> QED
    BY <2>1 DEF SPACE, RB
<1>3. x.at \in Sp(t, j)
  <2>1. CASE p = <<>>
    <3>1. PICK y \in Padded(t, 0, LB) : x.at \in Sp(t, y)
      BY <2>1, ChainFacts DEF After, x
    <3> QED
      BY <2>1, <3>1, PaddedSame, Punctuation DEF Ready
  <2>2. CASE p # <<>>
    <3>1. PICK y \in Padded(t, EndOf(p), COMMA) : x.at \in Sp(t, y)
      BY <2>2, ChainFacts DEF After, x
    <3>2. EndOf(p) \in Nat
      BY <2>2, ChainFacts, ItemFacts DEF EndOf
    <3> QED
      BY <2>2, <3>1, <3>2, PaddedSame, Punctuation DEF Ready
  <2> QED
    BY <2>1, <2>2
<1>4. k \in Nat /\ k <= x.at
  BY <1>2, <1>3, SpEnds, SpFacts
<1>5. k = x.at
  BY <1>2, <1>3, <1>4, SpUnique
<1> QED
  BY <1>2, <1>5 DEF x

\* A reading that ends with p has its brace after the spaces.
LEMMA EndsWith ==
  ASSUME NEW S, NEW t \in Seq(S), NEW d, NEW p, Got(t, d, p),
         NEW j \in Nat, Ready(t, p, j), NEW k \in Sp(t, j), k < Len(t) => t[k + 1] # SPACE,
         NEW c, Chain(t, d, c), Len(p) = Len(c)
  PROVE  Closes(t, j) /\ k < Len(t) /\ t[k + 1] = RB
<1>1. p # <<>> /\ EndOf(p) \in Nat
  <2>1. p # <<>> /\ p[Len(p)] \in Items(t, d)
    BY ChainFacts
  <2> QED
    BY <2>1, ItemFacts DEF EndOf
<1>2. j \in Padded(t, EndOf(p), COMMA)
  BY <1>1 DEF Ready
<1>3. ~Closes(t, EndOf(p))
  BY <1>1, <1>2, PaddedSame, Punctuation DEF Closes
<1>4. PICK y \in Padded(t, EndOf(p), COMMA) : Closes(t, y)
  BY <1>3, ChainFacts
<1>5. y = j
  BY <1>1, <1>2, PaddedSame, Punctuation
<1>6. PICK z \in Padded(t, j, RB) : Len(t) \in Sp(t, z)
  BY <1>4, <1>5 DEF Closes
<1> QED
  BY <1>4, <1>5, <1>6, PaddedUnique, Punctuation

-----------------------------------------------------------------------------
(* What the parser may conclude at each token.                              *)

LEMMA OpenConcludes ==
  ASSUME NEW S, NEW t \in Seq(S), NEW d,
         NEW k \in Sp(t, 0), k < Len(t) => t[k + 1] # SPACE
  PROVE  /\ k < Len(t) /\ t[k + 1] = LB => Ready(t, <<>>, k + 1)
         /\ ~(k < Len(t) /\ t[k + 1] = LB) => Barren(t, d)
<1>1. ASSUME k < Len(t), t[k + 1] = LB PROVE Ready(t, <<>>, k + 1)
  BY <1>1, PaddedFacts DEF Ready
<1>2. ASSUME NEW c, Chain(t, d, c) PROVE k < Len(t) /\ t[k + 1] = LB
  <2>1. PICK y \in Padded(t, 0, LB) : c[1].at \in Sp(t, y)
    BY <1>2 DEF Chain, Lists, After
  <2> QED
    BY <2>1, PaddedUnique, Punctuation
<1> QED
  BY <1>1, <1>2 DEF Barren

LEMMA MatcherConcludes ==
  ASSUME NEW S, NEW t \in Seq(S), NEW d, NEW p, Got(t, d, p),
         NEW j \in Nat, Ready(t, p, j), NEW k \in Sp(t, j), k < Len(t) => t[k + 1] # SPACE
  PROVE  /\ k < Len(t) /\ t[k + 1] = RB => Done(t, d, p, j)
         /\ ~(k < Len(t) /\ t[k + 1] = RB) => Begun(t, d, p, k)
<1>1. ASSUME k < Len(t), t[k + 1] = RB PROVE Done(t, d, p, j)
  <2>1. ASSUME NEW c, Chain(t, d, c) PROVE Len(c) = Len(p) /\ Closes(t, j)
    <3>1. Len(p) \in Nat /\ Len(c) \in Nat /\ Len(p) <= Len(c)
      BY <2>1, ChainFacts
    <3>2. ~(Len(p) < Len(c))
      BY <1>1, <2>1, NextBegins
    <3> QED
      BY <2>1, <3>1, <3>2, EndsWith
  <2> QED
    BY <2>1 DEF Done, Ready
<1>2. ASSUME ~(k < Len(t) /\ t[k + 1] = RB) PROVE Begun(t, d, p, k)
  <2>1. ASSUME NEW c, Chain(t, d, c) PROVE Len(p) < Len(c) /\ c[Len(p) + 1].at = k
    <3>1. Len(p) \in Nat /\ Len(c) \in Nat /\ Len(p) <= Len(c)
      BY <2>1, ChainFacts
    <3>2. Len(p) # Len(c)
      BY <1>2, <2>1, EndsWith
    <3> QED
      BY <2>1, <3>1, <3>2, NextBegins
  <2> QED
    BY <2>1 DEF Begun
<1> QED
  BY <1>1, <1>2

LEMMA AfterConcludes ==
  ASSUME NEW S, NEW t \in Seq(S), NEW d, NEW p, Got(t, d, p), p # <<>>, EndOf(p) \in Nat,
         NEW k \in Sp(t, EndOf(p)), k < Len(t) => t[k + 1] # SPACE
  PROVE  /\ k < Len(t) /\ t[k + 1] = COMMA => Ready(t, p, k + 1)
         /\ ~(k < Len(t) /\ t[k + 1] = COMMA) => Done(t, d, p, EndOf(p))
<1>1. ASSUME k < Len(t), t[k + 1] = COMMA PROVE Ready(t, p, k + 1)
  BY <1>1, PaddedFacts DEF Ready
<1>2. ASSUME ~(k < Len(t) /\ t[k + 1] = COMMA) PROVE Done(t, d, p, EndOf(p))
  <2>1. Padded(t, EndOf(p), COMMA) = {}
    BY <1>2, PaddedUnique, Punctuation
  <2>2. ASSUME NEW c, Chain(t, d, c) PROVE Len(c) = Len(p) /\ Closes(t, EndOf(p))
    <3>1. Len(p) \in Nat /\ Len(c) \in Nat /\ Len(p) <= Len(c)
      BY <2>2, ChainFacts
    <3>2. ~(Len(p) < Len(c))
      BY <2>1, <2>2, ChainFacts DEF After
    <3>3. Len(p) = Len(c)
      BY <3>1, <3>2
    <3> QED
      BY <2>1, <2>2, <3>3, ChainFacts
  <2> QED
    BY <2>2 DEF Done
<1> QED
  BY <1>1, <1>2

LEMMA CloseConcludes ==
  ASSUME NEW S, NEW t \in Seq(S), NEW d, NEW p, NEW j \in Nat, Done(t, d, p, j),
         NEW k \in Sp(t, j), k < Len(t) => t[k + 1] # SPACE
  PROVE  /\ k < Len(t) /\ t[k + 1] = RB => k + 1 \in Padded(t, j, RB)
         /\ ~(k < Len(t) /\ t[k + 1] = RB) => Barren(t, d)
<1>1. ASSUME k < Len(t), t[k + 1] = RB PROVE k + 1 \in Padded(t, j, RB)
  BY <1>1, PaddedFacts
<1>2. ASSUME NEW c, Chain(t, d, c) PROVE k < Len(t) /\ t[k + 1] = RB
  <2>1. PICK y \in Padded(t, j, RB) : Len(t) \in Sp(t, y)
    BY <1>2 DEF Done, Closes
  <2> QED
    BY <2>1, PaddedUnique, Punctuation
<1> QED
  BY <1>1, <1>2 DEF Barren

LEMMA EndConcludes ==
  ASSUME NEW S, NEW t \in Seq(S), NEW d, NEW p, Got(t, d, p), NEW j \in Nat,
         Done(t, d, p, j), NEW b \in Padded(t, j, RB),
         NEW k \in Sp(t, b), k < Len(t) => t[k + 1] # SPACE
  PROVE  /\ k = Len(t) /\ p # <<>> => Chain(t, d, p) /\ \A c : Chain(t, d, c) => c = p
         /\ ~(k = Len(t) /\ p # <<>>) => Barren(t, d)
<1>1. b \in Nat /\ k \in Nat /\ k <= Len(t)
  BY PaddedNat, SpFacts
<1>2. ASSUME k = Len(t), p # <<>> PROVE Chain(t, d, p)
  <2>1. Closes(t, j)
    BY <1>2 DEF Closes
  <2>2. \/ Closes(t, EndOf(p))
        \/ \E i \in Padded(t, EndOf(p), COMMA) : Closes(t, i)
    BY <1>2, <2>1 DEF Done
  <2> QED
    BY <1>2, <2>2 DEF Chain, Lists, Got, Linked, EndOf
<1>3. ASSUME NEW c, Chain(t, d, c) PROVE c = p
  <2>1. Len(c) = Len(p) /\ \A i \in 1..Len(p) : c[i] = p[i]
    BY <1>3, ChainFacts DEF Done
  <2> QED
    BY <1>3, <2>1 DEF Chain, Got, Linked
<1>4. ASSUME NEW c, Chain(t, d, c) PROVE k = Len(t) /\ p # <<>>
  <2>1. p # <<>>
    BY <1>3, <1>4 DEF Chain
  <2>2. PICK y \in Padded(t, j, RB) : Len(t) \in Sp(t, y)
    BY <1>4 DEF Done, Closes
  <2>3. y = b
    BY <2>2, PaddedSame, Punctuation
  <2>4. ~(k < Len(t))
    BY <1>1, <2>2, <2>3, SpEnds
  <2> QED
    BY <1>1, <2>1, <2>4
<1> QED
  BY <1>2, <1>3, <1>4 DEF Barren

\* The name of the next matcher is read: no byte more can be part of it.
Named(t, d, i, n, nm) ==
  /\ n \in Names(t, i, d) /\ nm = SubSeq(t, i + 1, n)
  /\ n < Len(t) => ~LabelChar(d, n + 1 = i + 1, t[n + 1])

\* Its operator is read as well, and it is the longest.
Headed(t, d, i, n, m, o, nm, oper) ==
  /\ Named(t, d, i, n, nm) /\ m \in Sp(t, n) /\ o \in Ops(t, m) /\ oper = o[2]
  /\ o[2] = "=" => ~(m + 1 < Len(t) /\ t[m + 2] = "~")

\* The next matcher of a reading, by its parts.
LEMMA NextParts ==
  ASSUME NEW S, NEW t \in Seq(S), NEW d, NEW p, Got(t, d, p), NEW i, Begun(t, d, p, i),
         NEW c, Chain(t, d, c)
  PROVE  /\ i \in Nat
         /\ \E n, m, o, w, v : Parts(t, i, d, n, m, o, w, v)
<1>1. c[Len(p) + 1] \in Items(t, d) /\ c[Len(p) + 1].at = i
  BY ChainFacts DEF Begun
<1> QED
  BY <1>1, ItemParts

LEMMA NameFails ==
  ASSUME NEW S, NEW t \in Seq(S), NEW d, NEW p, Got(t, d, p), NEW i, Begun(t, d, p, i),
         i < Len(t) => ~LabelChar(d, i = i, t[i + 1])
  PROVE  Barren(t, d)
<1> SUFFICES ASSUME NEW c, Chain(t, d, c) PROVE FALSE
  BY DEF Barren
<1>1. c[Len(p) + 1] \in Items(t, d) /\ c[Len(p) + 1].at = i
  BY ChainFacts DEF Begun
<1>2. i \in Nat /\ i < Len(t) /\ t[i + 1] = "a"
  BY <1>1, ItemFacts
<1> QED
  BY <1>2 DEF LabelChar

\* A reading has the same name, ...
LEMMA NameAgrees ==
  ASSUME NEW S, NEW t \in Seq(S), NEW i \in Nat, NEW d, NEW nn, NEW nm,
         Named(t, d, i, nn, nm),
         NEW n, NEW m, NEW o, NEW w, NEW v, Parts(t, i, d, n, m, o, w, v)
  PROVE  nn = n
<1>1. /\ nn \in Nat /\ i <= nn /\ nn <= Len(t)
      /\ \A j \in (i + 1)..nn : LabelChar(d, j = i + 1, t[j])
  BY DEF Named, Names
<1> QED
  BY <1>1, NameEnds DEF Named, Parts

\* ... and the same operator.
LEMMA OpFails ==
  ASSUME NEW S, NEW t \in Seq(S), NEW d, NEW p, Got(t, d, p), NEW i, Begun(t, d, p, i),
         NEW n, NEW nm, Named(t, d, i, n, nm),
         NEW k \in Sp(t, n), k < Len(t) => t[k + 1] # SPACE, Ops(t, k) = {}
  PROVE  Barren(t, d)
<1> SUFFICES ASSUME NEW c, Chain(t, d, c) PROVE FALSE
  BY DEF Barren
<1>1. PICK n1, m1, o1, w1, v1 : Parts(t, i, d, n1, m1, o1, w1, v1)
  BY NextParts
<1>2. i \in Nat
  BY NextParts
<1>3. n = n1 /\ n \in Nat
  BY <1>1, <1>2, NameAgrees, PartsInText
<1>4. k = m1
  BY <1>1, <1>3, OpBegins DEF Parts
<1> QED
  BY <1>1, <1>4 DEF Parts

LEMMA HeadAgrees ==
  ASSUME NEW S, NEW t \in Seq(S), NEW i \in Nat, NEW d,
         NEW nn, NEW mm, NEW oo, NEW nm, NEW oper, Headed(t, d, i, nn, mm, oo, nm, oper),
         NEW n, NEW m, NEW o, NEW w, NEW v, Parts(t, i, d, n, m, o, w, v)
  PROVE  nn = n /\ mm = m /\ oo = o
<1>1. nn = n
  BY NameAgrees DEF Headed
<1>2. /\ n \in Nat /\ m \in Nat /\ o[1] \in Nat /\ m < Len(t) /\ w \in Nat
  BY PartsInText
<1>3. mm \in Nat /\ mm <= Len(t)
  BY <1>1, <1>2, SpFacts DEF Headed
<1>4. mm = m
  <2>1. t[mm + 1] \in {"=", "!"}
    BY <1>3, OpParts DEF Headed
  <2>2. t[mm + 1] # SPACE
    BY <2>1 DEF SPACE
  <2> QED
    BY <1>1, <1>2, <2>2, OpBegins, Zenon DEF Headed, Parts
<1>5. oo = o
  <2>1. \/ t[m + 1] = "=" /\ t[m + 2] = "~" /\ o = <<m + 2, "=~">> /\ m + 2 < Len(t)
        \/ t[m + 1] = "!" /\ t[m + 2] = "~" /\ o = <<m + 2, "!~">>
        \/ t[m + 1] = "!" /\ t[m + 2] = "=" /\ o = <<m + 2, "!=">>
        \/ t[m + 1] = "=" /\ t[m + 2] # "~" /\ o = <<m + 1, "=">>
    BY <1>2, OpUnique DEF Parts
  <2>2. oo[2] = "=" => ~(m + 1 < Len(t) /\ t[m + 2] = "~")
    BY <1>4 DEF Headed
  <2>3. oo \in Ops(t, m)
    BY <1>4 DEF Headed
  <2> QED
    BY <1>2, <2>1, <2>2, <2>3, OpParts
<1> QED
  BY <1>1, <1>4, <1>5

\* A value is missing.
LEMMA ValueFails ==
  ASSUME NEW S, NEW t \in Seq(S), NEW d, NEW p, Got(t, d, p), NEW i, Begun(t, d, p, i),
         NEW n, NEW m, NEW o, NEW nm, NEW oper, Headed(t, d, i, n, m, o, nm, oper),
         NEW k \in Sp(t, o[1]), k < Len(t) => t[k + 1] # SPACE, Values(t, k) = {}
  PROVE  Barren(t, d)
<1> SUFFICES ASSUME NEW c, Chain(t, d, c) PROVE FALSE
  BY DEF Barren
<1>1. PICK n1, m1, o1, w1, v1 : Parts(t, i, d, n1, m1, o1, w1, v1)
  BY NextParts
<1>2. i \in Nat
  BY NextParts
<1>3. o = o1 /\ o[1] \in Nat
  BY <1>1, <1>2, HeadAgrees, PartsInText
<1>4. k = w1
  BY <1>1, <1>3, ValueBegins DEF Parts
<1> QED
  BY <1>1, <1>4 DEF Parts

-----------------------------------------------------------------------------
(* Scanning a value.                                                        *)

\* The quote at w + 1 has not been closed before x.
Scanned(t, w, x) ==
  /\ w \in Nat /\ w < Len(t) /\ t[w + 1] \in {DQ, BQ}
  /\ x \in Nat /\ w + 1 <= x /\ x <= Len(t) + 1
  /\ \A k \in 2..(x - w) : w + k <= Len(t) => ~Closing(t, w, k)

LEMMA ScanBegins ==
  ASSUME NEW S, NEW t \in Seq(S), NEW w \in Nat, w < Len(t), t[w + 1] \in {DQ, BQ}
  PROVE  Scanned(t, w, w + 1) /\ ~Esc(t, w, (w + 1) + 1 - w)
<1>1. (w + 1) + 1 - w = 2 /\ (w + 1) - w = 1 /\ Len(t) \in Nat
  OBVIOUS
<1> QED
  BY <1>1, EscFirst DEF Scanned

LEMMA ScanStep ==
  ASSUME NEW S, NEW t \in Seq(S), NEW w, NEW x, Scanned(t, w, x), x < Len(t),
         ~Closing(t, w, x + 1 - w)
  PROVE  Scanned(t, w, x + 1)
<1>1. \A k \in 2..(x + 1 - w) : k \in 2..(x - w) \/ k = x + 1 - w
  BY DEF Scanned
<1> QED
  BY <1>1 DEF Scanned

LEMMA ScanPlain ==
  ASSUME NEW S, NEW t \in Seq(S), NEW w, NEW x, Scanned(t, w, x), x < Len(t),
         t[x + 1] # ESC, ~Closing(t, w, x + 1 - w)
  PROVE  Scanned(t, w, x + 1) /\ ~Esc(t, w, (x + 1) + 1 - w)
<1>1. /\ w \in Nat /\ x + 1 - w \in Nat /\ x + 1 - w >= 2
      /\ w + (x + 1 - w) = x + 1 /\ (x + 1 - w) + 1 = (x + 1) + 1 - w
  BY DEF Scanned
<1> QED
  BY <1>1, ScanStep, EscOff

LEMMA ScanEscape ==
  ASSUME NEW S, NEW t \in Seq(S), NEW w, NEW x, Scanned(t, w, x), x < Len(t),
         t[w + 1] = DQ, t[x + 1] = ESC, ~Esc(t, w, x + 1 - w)
  PROVE  Scanned(t, w, x + 2) /\ ~Esc(t, w, (x + 2) + 1 - w)
<1> DEFINE i == x + 1 - w
<1>1. /\ w \in Nat /\ x \in Nat /\ i \in Nat /\ i >= 2 /\ w + i = x + 1
      /\ i + 1 \in Nat /\ i + 1 >= 2 /\ (i + 1) + 1 = (x + 2) + 1 - w /\ i + 1 = x + 2 - w
      /\ Len(t) \in Nat
  BY DEF Scanned
<1>2. \A k \in 2..(x + 2 - w) : k \in 2..(x - w) \/ k = i \/ k = i + 1
  BY <1>1
<1> HIDE DEF i
<1>3. ~Closing(t, w, i)
  BY <1>1 DEF Closing, DQ, ESC
<1>4. Esc(t, w, i + 1)
  BY <1>1, EscOn DEF i
<1>5. ~Closing(t, w, i + 1)
  BY <1>4 DEF Closing
<1>6. ~Esc(t, w, (i + 1) + 1)
  BY <1>1, <1>4, EscOver, Zenon
<1> QED
  BY <1>1, <1>2, <1>3, <1>5, <1>6 DEF Scanned

LEMMA ScanEnds ==
  ASSUME NEW S, NEW t \in Seq(S), NEW w, NEW x, Scanned(t, w, x), x < Len(t),
         Closing(t, w, x + 1 - w)
  PROVE  /\ w \in Nat /\ x + 1 \in Nat /\ w + 2 <= x + 1 /\ x + 1 <= Len(t)
         /\ IsEnd(t, w, x + 1)
<1>1. /\ w \in Nat /\ x \in Nat /\ w + 1 <= x
      /\ w + (x + 1 - w) = x + 1 /\ x + 1 - w >= 2
      /\ \A k \in 2..(x + 1 - w) : (k \in 2..(x - w) /\ w + k <= Len(t)) \/ k = x + 1 - w
  BY DEF Scanned
<1>2. \A k \in 2..(x - w) : w + k <= Len(t) => k # x + 1 - w
  BY <1>1
<1>3. t[x + 1] = t[w + 1]
  BY <1>1 DEF Closing
<1>4. \A k \in 2..(x + 1 - w) : Closing(t, w, k) <=> k = x + 1 - w
  BY <1>1, <1>2 DEF Scanned
<1> QED
  BY <1>1, <1>3, <1>4 DEF IsEnd, Scanned

LEMMA ScanFails ==
  ASSUME NEW S, NEW t \in Seq(S), NEW w, NEW x, Scanned(t, w, x), x >= Len(t)
  PROVE  Values(t, w) = {}
<1> SUFFICES ASSUME NEW v \in Values(t, w) PROVE FALSE
  OBVIOUS
<1>1. w \in Nat
  BY DEF Scanned
<1>2. v \in Nat /\ w + 2 <= v /\ v <= Len(t) /\ IsEnd(t, w, v)
  BY <1>1, ValueFacts
<1>3. v - w \in 2..(v - w) /\ v - w \in 2..(x - w) /\ w + (v - w) <= Len(t)
  BY <1>1, <1>2, SMTT(30) DEF Scanned
<1> QED
  BY <1>2, <1>3 DEF IsEnd, Scanned

\* The value is quoted, but it is not a value.
LEMMA QuoteFails ==
  ASSUME NEW S, NEW t \in Seq(S), NEW d, NEW p, Got(t, d, p), NEW i, Begun(t, d, p, i),
         NEW n, NEW m, NEW o, NEW nm, NEW oper, Headed(t, d, i, n, m, o, nm, oper),
         NEW w \in Sp(t, o[1]), w \in Nat, NEW v \in Nat, w + 2 <= v, v <= Len(t),
         IsEnd(t, w, v),
         ~(Unquotes(SubSeq(t, w + 1, v)) /\ Compiles(oper, SubSeq(t, w + 1, v)))
  PROVE  Barren(t, d)
<1> SUFFICES ASSUME NEW c, Chain(t, d, c) PROVE FALSE
  BY DEF Barren
<1>1. PICK n1, m1, o1, w1, v1 : Parts(t, i, d, n1, m1, o1, w1, v1)
  BY NextParts
<1>2. i \in Nat
  BY NextParts
<1>3. o = o1 /\ o[1] \in Nat
  BY <1>1, <1>2, HeadAgrees, PartsInText
<1>4. t[w + 1] # SPACE
  BY DEF IsEnd, DQ, BQ, SPACE
<1>5. w = w1
  BY <1>1, <1>3, <1>4, ValueBegins, SMTT(30) DEF Parts
<1>6. v1 \in Nat /\ w + 2 <= v1 /\ IsEnd(t, w, v1) /\ Unquotes(SubSeq(t, w + 1, v1))
  BY <1>1, <1>5, ValueFacts DEF Parts
<1>7. v = v1
  BY <1>6, EndUnique
<1> QED
  BY <1>1, <1>3, <1>5, <1>6, <1>7 DEF Parts, Headed

LEMMA AppendFacts ==
  ASSUME NEW S, NEW p \in Seq(S), NEW x \in S
  PROVE  /\ Append(p, x) \in Seq(S) /\ Append(p, x) # <<>>
         /\ Len(p) \in Nat /\ Len(Append(p, x)) = Len(p) + 1
         /\ Append(p, x)[Len(p) + 1] = x
         /\ \A k \in 1..Len(p) : Append(p, x)[k] = p[k]
OBVIOUS

\* The matchers that were read are so many records of ms.
Texts(p) == [k \in 1..Len(p) |-> p[k].m]

LEMMA TextsAppend ==
  ASSUME NEW S, NEW p \in Seq(S), NEW x \in S
  PROVE  Texts(Append(p, x)) = Append(Texts(p), x.m)
<1> DEFINE q == Append(p, x)
<1>1. /\ Len(p) \in Nat /\ Len(q) = Len(p) + 1 /\ q[Len(p) + 1] = x
      /\ \A k \in 1..Len(p) : q[k] = p[k]
  BY AppendFacts
<1>2. Texts(p) \in Seq({p[k].m : k \in 1..Len(p)}) /\ Len(Texts(p)) = Len(p)
  BY <1>1 DEF Texts
<1>3. /\ DOMAIN Append(Texts(p), x.m) = 1..(Len(p) + 1)
      /\ Append(Texts(p), x.m)[Len(p) + 1] = x.m
      /\ \A k \in 1..Len(p) : Append(Texts(p), x.m)[k] = p[k].m
  BY <1>1, <1>2 DEF Texts
<1> HIDE DEF q
<1>4. Texts(q) = [k \in 1..(Len(p) + 1) |-> q[k].m]
  BY <1>1 DEF Texts
<1>5. \A k \in 1..(Len(p) + 1) : k \in 1..Len(p) \/ k = Len(p) + 1
  BY <1>1
<1>6. Append(Texts(p), x.m) = [k \in 1..(Len(p) + 1) |-> Append(Texts(p), x.m)[k]]
  BY <1>1, <1>2, <1>3
<1>7. \A k \in 1..(Len(p) + 1) : q[k].m = Append(Texts(p), x.m)[k]
  BY <1>1, <1>3, <1>5, SMTT(30)
<1> QED
  BY <1>4, <1>6, <1>7 DEF q

Entry(nm, oper, text) == [name |-> nm, op |-> oper, text |-> text]

LEMMA BegunNat ==
  ASSUME NEW S, NEW t \in Seq(S), NEW d, NEW p, NEW i, Begun(t, d, p, i)
  PROVE  i \in Nat /\ i <= Len(t)
BY SpFacts DEF Begun

\* A matcher that is read where one begins is the next of every reading.
LEMMA MatcherReads ==
  ASSUME NEW S, NEW t \in Seq(S), NEW d, NEW p, Got(t, d, p),
         NEW x \in Items(t, d), Begun(t, d, p, x.at)
  PROVE  LET q == Append(p, x) IN
         /\ Got(t, d, q) /\ q # <<>> /\ EndOf(q) = x.to
         /\ Texts(q) = Append(Texts(p), x.m)
<1> DEFINE q == Append(p, x)
<1>1. PICK j \in Nat : Ready(t, p, j) /\ x.at \in Sp(t, j)
  BY DEF Begun
<1>2. x.at \in Nat /\ x.to \in Nat /\ j <= x.at /\ x.at + 4 <= x.to
  BY <1>1, SpFacts, ItemFacts
<1>3. p \in Seq(Items(t, d))
  BY DEF Got, Linked
<1>4. /\ q \in Seq(Items(t, d)) /\ q # <<>> /\ Len(p) \in Nat /\ Len(q) = Len(p) + 1
      /\ q[Len(p) + 1] = x /\ \A k \in 1..Len(p) : q[k] = p[k]
  BY <1>3, AppendFacts
<1>5. Texts(q) = Append(Texts(p), x.m)
  BY <1>3, TextsAppend
<1> HIDE DEF q
<1>6. EndOf(q) = x.to
  BY <1>4 DEF EndOf
<1>7. ASSUME p = <<>> PROVE Linked(t, d, q)
  <2>1. Len(p) = 0 /\ q[1] = x /\ Len(q) = 1
    BY <1>4, <1>7
  <2>2. q[1].at \in After(t, 0, LB)
    BY <1>1, <1>7, <2>1 DEF Ready, After
  <2>3. 4 * Len(q) <= EndOf(q) /\ 2..Len(q) = {}
    BY <1>2, <1>6, <2>1
  <2> QED
    BY <1>4, <2>2, <2>3 DEF Linked
<1>8. ASSUME p # <<>> PROVE Linked(t, d, q)
  <2>1. Len(p) \in 1..Len(p) /\ Len(p) >= 1 /\ 1 \in 1..Len(p)
    BY <1>3, <1>8
  <2>2. EndOf(p) \in Nat
    <3>1. p[Len(p)] \in Items(t, d)
      BY <1>3, <2>1
    <3> QED
      BY <3>1, ItemFacts DEF EndOf
  <2>3. j \in Padded(t, EndOf(p), COMMA)
    BY <1>1, <1>8 DEF Ready
  <2>4. EndOf(p) < j
    BY <2>2, <2>3, PaddedNat
  <2>5. 4 * Len(p) <= EndOf(p) /\ p[1].at \in After(t, 0, LB)
    BY <1>8 DEF Got, Linked
  <2>6. 4 * Len(q) <= EndOf(q)
    BY <1>2, <1>4, <1>6, <2>2, <2>4, <2>5
  <2>7. q[1].at \in After(t, 0, LB)
    BY <1>4, <2>1, <2>5
  <2>8. ASSUME NEW k \in 2..Len(q) PROVE q[k].at \in After(t, q[k - 1].to, COMMA)
    <3>1. CASE k = Len(p) + 1
      <4>1. q[k - 1] = p[Len(p)] /\ q[k] = x
        BY <1>4, <2>1, <3>1
      <4>2. x.at \in After(t, EndOf(p), COMMA)
        BY <1>1, <2>3 DEF After
      <4> QED
        BY <4>1, <4>2 DEF EndOf
    <3>2. CASE k # Len(p) + 1
      <4>1. k \in 2..Len(p) /\ k \in 1..Len(p) /\ k - 1 \in 1..Len(p)
        BY <1>4, <3>2
      <4>2. p[k].at \in After(t, p[k - 1].to, COMMA)
        BY <4>1 DEF Got, Linked
      <4> QED
        BY <1>4, <4>1, <4>2
    <3> QED
      BY <3>1, <3>2
  <2> QED
    BY <1>4, <2>6, <2>7, <2>8 DEF Linked
<1>9. ASSUME NEW c, Chain(t, d, c)
      PROVE  Len(q) <= Len(c) /\ \A k \in 1..Len(q) : c[k] = q[k]
  <2>1. Len(p) < Len(c) /\ c[Len(p) + 1].at = x.at
    BY <1>9 DEF Begun
  <2>2. /\ Len(c) \in Nat /\ c[Len(p) + 1] \in Items(t, d)
        /\ \A k \in 1..Len(p) : c[k] = p[k]
    BY <1>9, <2>1, ChainFacts
  <2>3. c[Len(p) + 1] = x
    BY <2>1, <2>2, ItemUnique
  <2>4. \A k \in 1..Len(q) : k \in 1..Len(p) \/ k = Len(p) + 1
    BY <1>4
  <2> QED
    BY <1>4, <2>1, <2>2, <2>3, <2>4
<1>10. Got(t, d, q)
  BY <1>7, <1>8, <1>9 DEF Got, Agrees
<1> QED
  BY <1>4, <1>5, <1>6, <1>10 DEF q

\* The value is read, and with it a matcher.
LEMMA QuoteReads ==
  ASSUME NEW S, NEW t \in Seq(S), NEW d, NEW p, Got(t, d, p), NEW i, Begun(t, d, p, i),
         NEW n, NEW m, NEW o, NEW nm, NEW oper, Headed(t, d, i, n, m, o, nm, oper),
         NEW w \in Sp(t, o[1]), w \in Nat, NEW v \in Nat, w + 2 <= v, v <= Len(t),
         IsEnd(t, w, v),
         Unquotes(SubSeq(t, w + 1, v)), Compiles(oper, SubSeq(t, w + 1, v))
  PROVE  \E q :
         /\ Got(t, d, q) /\ q # <<>> /\ EndOf(q) = v
         /\ Texts(q) = Append(Texts(p), Entry(nm, oper, SubSeq(t, w + 1, v)))
<1> DEFINE x == Item(t, i, n, o, w, v)
<1>1. i \in 0..Len(t)
  BY BegunNat
<1>2. v \in Values(t, w)
  BY ValueFacts
<1>3. Parts(t, i, d, n, m, o, w, v)
  BY <1>2 DEF Parts, Headed, Named
<1>4. x \in Items(t, d)
  BY <1>1, <1>3, PartsItem
<1>5. x.at = i /\ x.to = v /\ x.m = Entry(nm, oper, SubSeq(t, w + 1, v))
  BY DEF Item, Headed, Named, Entry
<1> HIDE DEF x
<1>6. Begun(t, d, p, x.at)
  BY <1>5
<1>7. /\ Got(t, d, Append(p, x)) /\ Append(p, x) # <<>> /\ EndOf(Append(p, x)) = x.to
      /\ Texts(Append(p, x)) = Append(Texts(p), x.m)
  BY <1>4, <1>6, MatcherReads
<1> QED
  BY <1>5, <1>7, Zenon

-----------------------------------------------------------------------------
(* The parser, on every text t that begins with what it has read.           *)

Typed ==
  /\ s \in Seq(Alphabet) /\ ended \in BOOLEAN /\ allowDots \in BOOLEAN
  /\ pos \in Nat /\ start \in Nat /\ place \in Places

Extends(t) ==
  /\ t \in Seq(Alphabet) /\ Len(s) <= Len(t) /\ \A i \in 1..Len(s) : t[i] = s[i]
  /\ ended => Len(t) = Len(s)

\* The matcher under way begins at i; its value follows at x.
ValueAt(t, p, x) ==
  \E i, n, m, o : /\ Begun(t, allowDots, p, i) /\ Headed(t, allowDots, i, n, m, o, name, op)
                  /\ x \in Sp(t, o[1])

Here(t, p) ==
  /\ place = "open" => p = <<>> /\ pos \in Sp(t, 0)
  /\ place = "matcher" => \E j \in Nat : Ready(t, p, j) /\ pos \in Sp(t, j)
  /\ place \in {"name", "op"} => Begun(t, allowDots, p, start)
  /\ place = "name" =>
       /\ start <= pos /\ pos <= Len(t)
       /\ \A k \in (start + 1)..pos : LabelChar(allowDots, k = start + 1, t[k])
  /\ place = "op" => \E n : Named(t, allowDots, start, n, name) /\ pos \in Sp(t, n)
  /\ place = "value" => ValueAt(t, p, pos)
  /\ place \in {"dq", "raw"} => ValueAt(t, p, start) /\ Scanned(t, start, pos)
  /\ place = "dq" => t[start + 1] = DQ /\ ~Esc(t, start, pos + 1 - start)
  /\ place = "raw" => t[start + 1] = BQ
  /\ place = "after" => p # <<>> /\ pos \in Sp(t, EndOf(p))
  /\ place = "close" => \E j \in Nat : Done(t, allowDots, p, j) /\ pos \in Sp(t, j)
  /\ place = "end" =>
       \E j \in Nat : \E b \in Padded(t, j, RB) :
         Done(t, allowDots, p, j) /\ pos \in Sp(t, b)
  /\ place = "ok" =>
       ended /\ Chain(t, allowDots, p) /\ \A c : Chain(t, allowDots, c) => c = p
  /\ place = "err" => Barren(t, allowDots)

HasRead(t, p) == Got(t, allowDots, p) /\ ms = Texts(p) /\ Here(t, p)
OnTrack(t) == \E p : HasRead(t, p)

Within == pos <= Len(s) \/ (place \in {"dq", "err"} /\ pos = Len(s) + 1)

ParserInv == Typed /\ Within /\ \A t : Extends(t) => OnTrack(t)

Same == UNCHANGED <<s, ended, limit, allowDots>>

LEMMA PeekIs ==
  ASSUME Typed, NEW t, Extends(t), Seen
  PROVE  /\ t \in Seq(Alphabet) /\ Len(t) \in Nat /\ pos \in Nat
         /\ pos >= Len(t) => eof /\ peek = EOF
         /\ pos < Len(t) => ~eof /\ peek = t[pos + 1] /\ pos < Len(s) /\ peek # EOF
<1>1. t \in Seq(Alphabet) /\ Len(t) \in Nat /\ Len(s) \in Nat /\ pos \in Nat
  BY DEF Extends, Typed
<1>2. CASE pos >= Len(t)
  <2>1. ended
    BY <1>1, <1>2 DEF Seen, Extends
  <2> QED
    BY <1>1, <1>2, <2>1 DEF Extends, eof, peek
<1>3. CASE pos < Len(t)
  <2>1. pos < Len(s) /\ pos + 1 \in 1..Len(s) /\ pos + 1 \in 1..Len(t)
    BY <1>1, <1>3 DEF Seen, Extends
  <2>2. ~eof /\ peek = t[pos + 1]
    BY <1>1, <2>1 DEF Extends, eof, peek
  <2>3. t[pos + 1] \in Alphabet
    BY <1>1, <2>1
  <2>4. t[pos + 1] # EOF
    BY <2>3 DEF Alphabet, EOF, LB, RB, COMMA, SPACE, DQ, BQ, ESC
  <2> QED
    BY <1>1, <1>3, <2>1, <2>2, <2>4
<1> QED
  BY <1>1, <1>2, <1>3

\* What the parser cuts out is in t as well.
LEMMA SliceIs ==
  ASSUME Typed, NEW t, Extends(t), NEW i \in Nat, NEW j \in Nat, j <= Len(s)
  PROVE  Slice(i, j) = SubSeq(t, i + 1, j)
<1>1. t \in Seq(Alphabet) /\ s \in Seq(Alphabet) /\ Len(s) <= Len(t) /\ j <= Len(t)
      /\ \A k \in 1..Len(s) : t[k] = s[k]
  BY DEF Extends, Typed
<1>2. SubSeq(s, i + 1, j) = [k \in 1..(j - i) |-> s[i + k]]
  BY <1>1
<1>3. SubSeq(t, i + 1, j) = [k \in 1..(j - i) |-> t[i + k]]
  BY <1>1
<1>4. \A k \in 1..(j - i) : s[i + k] = t[i + k]
  BY <1>1
<1> QED
  BY <1>2, <1>3, <1>4 DEF Slice

LEMMA HeadNat ==
  ASSUME NEW S, NEW t \in Seq(S), NEW d, NEW i \in Nat,
         NEW n, NEW m, NEW o, NEW nm, NEW oper, Headed(t, d, i, n, m, o, nm, oper)
  PROVE  n \in Nat /\ m \in Nat /\ o[1] \in Nat
<1>1. n \in Nat
  BY DEF Headed, Named, Names
<1>2. m \in Nat
  BY <1>1, SpFacts DEF Headed
<1> QED
  BY <1>1, <1>2, OpParts DEF Headed

LEMMA EndOfNat ==
  ASSUME NEW S, NEW t \in Seq(S), NEW d, NEW p, Got(t, d, p), p # <<>>
  PROVE  EndOf(p) \in Nat /\ EndOf(p) <= Len(t)
<1>1. p \in Seq(Items(t, d)) /\ p # <<>>
  BY DEF Got, Linked
<1>2. Len(p) \in 1..Len(p)
  BY <1>1
<1>3. p[Len(p)] \in Items(t, d)
  BY <1>1, <1>2
<1> QED
  BY <1>3, ItemFacts DEF EndOf

\* skipSpace: a space more is skipped.
LEMMA SkipKeeps ==
  ASSUME Typed, NEW t, Extends(t), NEW p, HasRead(t, p), skipSpace, Same
  PROVE  HasRead(t, p)'
<1>1. Got(t, allowDots, p) /\ ms = Texts(p) /\ Here(t, p)
  BY DEF HasRead
<1>2. /\ t \in Seq(Alphabet) /\ pos < Len(t) /\ t[pos + 1] = SPACE /\ pos' = pos + 1
      /\ place' = place /\ UNCHANGED <<start, name, op, ms, allowDots, ended>>
      /\ place \in {"open", "matcher", "op", "value", "after", "close", "end"}
  <2>1. SPACE # EOF
    BY DEF SPACE, EOF
  <2> QED
    BY <2>1, PeekIs DEF skipSpace, Advance, Scans, Same
<1>3. ASSUME NEW j \in Nat, pos \in Sp(t, j) PROVE pos' \in Sp(t, j)
  BY <1>2, <1>3, SpStep
<1>4. place = "op" => \E n : Named(t, allowDots, start, n, name) /\ pos' \in Sp(t, n)
  <2> SUFFICES ASSUME place = "op"
               PROVE  \E n : Named(t, allowDots, start, n, name) /\ pos' \in Sp(t, n)
    OBVIOUS
  <2>1. PICK n : Named(t, allowDots, start, n, name) /\ pos \in Sp(t, n)
    BY <1>1 DEF Here
  <2>2. n \in Nat
    BY <2>1 DEF Named, Names, Typed
  <2> QED
    BY <1>3, <2>1, <2>2
<1>5. place = "value" => ValueAt(t, p, pos')
  <2> SUFFICES ASSUME place = "value" PROVE ValueAt(t, p, pos')
    OBVIOUS
  <2>1. PICK i, n, m, o :
          /\ Begun(t, allowDots, p, i) /\ Headed(t, allowDots, i, n, m, o, name, op)
          /\ pos \in Sp(t, o[1])
    BY <1>1 DEF Here, ValueAt
  <2>2. o[1] \in Nat
    BY <1>2, <2>1, BegunNat, HeadNat
  <2> QED
    BY <1>3, <2>1, <2>2 DEF ValueAt
<1>6. place = "after" => pos' \in Sp(t, EndOf(p))
  BY <1>1, <1>2, <1>3, EndOfNat, Zenon DEF Here
<1>7. place = "end" =>
        \E j \in Nat : \E b \in Padded(t, j, RB) :
          Done(t, allowDots, p, j) /\ pos' \in Sp(t, b)
  BY <1>1, <1>2, <1>3, PaddedNat DEF Here
<1>8. ValueAt(t, p, pos)' <=> ValueAt(t, p, pos')
  BY <1>2 DEF ValueAt
<1>9. Here(t, p)'
  BY <1>1, <1>2, <1>3, <1>4, <1>5, <1>6, <1>7, <1>8 DEF Here
<1> QED
  BY <1>1, <1>2, <1>9 DEF HasRead

\* "{", or the error.
LEMMA OpenKeeps ==
  ASSUME Typed, NEW t, Extends(t), NEW p, HasRead(t, p), Expect("open", LB, "matcher"), Same
  PROVE  HasRead(t, p)'
<1>1. Got(t, allowDots, p) /\ ms = Texts(p) /\ p = <<>> /\ pos \in Sp(t, 0)
  BY DEF HasRead, Here, Expect, At
<1>2. /\ t \in Seq(Alphabet) /\ Len(t) \in Nat /\ pos \in Nat
      /\ pos >= Len(t) => peek = EOF
      /\ pos < Len(t) => peek = t[pos + 1]
  BY PeekIs DEF Expect, At
<1>3. pos < Len(t) => t[pos + 1] # SPACE
  BY <1>2 DEF Expect
<1>4. LB # EOF
  BY DEF LB, EOF
<1>5. CASE peek = LB
  <2>1. pos' = pos + 1 /\ place' = "matcher" /\ pos < Len(t) /\ t[pos + 1] = LB
    BY <1>2, <1>4, <1>5 DEF Expect, Advance
  <2>2. Ready(t, p, pos') /\ pos' \in Nat /\ pos' <= Len(t)
    <3>1. Ready(t, <<>>, pos + 1)
      BY <1>1, <1>2, <1>3, <2>1, OpenConcludes
    <3> QED
      BY <1>1, <1>2, <2>1, <3>1
  <2>3. pos' \in Sp(t, pos')
    BY <1>2, <2>2, SpSelf
  <2>4. Here(t, p)'
    BY <2>1, <2>2, <2>3 DEF Here
  <2> QED
    BY <1>1, <2>4 DEF HasRead, Expect, Scans, Same
<1>6. CASE peek # LB
  <2>1. place' = "err" /\ ~(pos < Len(t) /\ t[pos + 1] = LB)
    BY <1>2, <1>6 DEF Expect
  <2>2. Barren(t, allowDots)
    BY <1>1, <1>2, <1>3, <2>1, OpenConcludes
  <2>3. Here(t, p)'
    BY <2>1, <2>2 DEF Here, Same
  <2> QED
    BY <1>1, <2>3 DEF HasRead, Expect, Scans, Same
<1> QED
  BY <1>5, <1>6

\* NextMatcher: the next one begins here, or the list ends.
LEMMA MatcherKeeps ==
  ASSUME Typed, NEW t, Extends(t), NEW p, HasRead(t, p), NextMatcher, Same
  PROVE  HasRead(t, p)'
<1>1. Got(t, allowDots, p) /\ ms = Texts(p)
  BY DEF HasRead
<1>2. PICK j \in Nat : Ready(t, p, j) /\ pos \in Sp(t, j)
  BY DEF HasRead, Here, NextMatcher, At
<1>3. /\ t \in Seq(Alphabet) /\ Len(t) \in Nat /\ pos \in Nat
      /\ pos >= Len(t) => peek = EOF
      /\ pos < Len(t) => peek = t[pos + 1]
  BY PeekIs DEF NextMatcher, At
<1>4. pos < Len(t) => t[pos + 1] # SPACE
  BY <1>3 DEF NextMatcher
<1>5. /\ pos' = pos /\ start' = pos /\ place' = IF peek = RB THEN "close" ELSE "name"
      /\ UNCHANGED <<name, op, ms, allowDots>>
  BY DEF NextMatcher, Same
<1>6. RB # EOF
  BY DEF RB, EOF
<1>7. CASE peek = RB
  <2>1. pos < Len(t) /\ t[pos + 1] = RB /\ place' = "close"
    BY <1>3, <1>5, <1>6, <1>7
  <2>2. Done(t, allowDots, p, j)
    BY <1>1, <1>2, <1>3, <1>4, <2>1, MatcherConcludes
  <2>3. Here(t, p)'
    BY <1>2, <1>5, <2>1, <2>2 DEF Here
  <2> QED
    BY <1>1, <1>5, <2>3 DEF HasRead
<1>8. CASE peek # RB
  <2>1. ~(pos < Len(t) /\ t[pos + 1] = RB) /\ place' = "name"
    BY <1>3, <1>5, <1>8
  <2>2. Begun(t, allowDots, p, pos)
    BY <1>1, <1>2, <1>3, <1>4, <2>1, MatcherConcludes
  <2>3. pos <= Len(t)
    BY <1>2, <1>3, SpFacts
  <2>4. \A k \in (start' + 1)..pos' : LabelChar(allowDots', k = start' + 1, t[k])
    BY <1>3, <1>5
  <2>5. Here(t, p)'
    BY <1>3, <1>5, <2>1, <2>2, <2>3, <2>4 DEF Here
  <2> QED
    BY <1>1, <1>5, <2>5 DEF HasRead
<1> QED
  BY <1>7, <1>8

\* parseLabelName: a byte more, the end of the name, or no name.
LEMMA NameKeeps ==
  ASSUME Typed, NEW t, Extends(t), NEW p, HasRead(t, p), parseLabelName, Same
  PROVE  HasRead(t, p)'
<1>1. /\ Got(t, allowDots, p) /\ ms = Texts(p)
      /\ Begun(t, allowDots, p, start) /\ start <= pos /\ pos <= Len(t)
      /\ \A k \in (start + 1)..pos : LabelChar(allowDots, k = start + 1, t[k])
  BY DEF HasRead, Here, parseLabelName, At
<1>2. /\ t \in Seq(Alphabet) /\ Len(t) \in Nat /\ pos \in Nat /\ start \in Nat
      /\ pos >= Len(t) => eof
      /\ pos < Len(t) => ~eof /\ peek = t[pos + 1] /\ pos < Len(s)
  BY PeekIs DEF parseLabelName, At, Typed
<1>3. UNCHANGED <<start, op, ms, allowDots>>
  BY DEF parseLabelName, Same
<1>4. CASE ~eof /\ LabelChar(allowDots, pos = start, peek)
  <2>1. pos' = pos + 1 /\ place' = "name" /\ name' = name /\ pos < Len(t)
    BY <1>2, <1>4 DEF parseLabelName, Advance, At
  <2>2. LabelChar(allowDots, pos + 1 = start + 1, t[pos + 1])
    BY <1>2, <1>4, <2>1 DEF LabelChar
  <2>3. \A k \in (start + 1)..(pos + 1) : k \in (start + 1)..pos \/ k = pos + 1
    BY <1>2
  <2>4. \A k \in (start + 1)..(pos + 1) : LabelChar(allowDots, k = start + 1, t[k])
    BY <1>1, <2>2, <2>3 DEF LabelChar
  <2>5. Here(t, p)'
    BY <1>1, <1>2, <1>3, <2>1, <2>4 DEF Here
  <2> QED
    BY <1>1, <1>3, <2>5 DEF HasRead
<1>5. CASE ~(~eof /\ LabelChar(allowDots, pos = start, peek))
  <2>1. pos < Len(t) => ~LabelChar(allowDots, pos + 1 = start + 1, t[pos + 1])
    BY <1>2, <1>5 DEF LabelChar
  <2>2. CASE pos = start
    <3>1. place' = "err"
      BY <1>2, <1>5, <2>2 DEF parseLabelName
    <3>2. start < Len(t) => ~LabelChar(allowDots, start = start, t[start + 1])
      BY <1>2, <2>1, <2>2 DEF LabelChar
    <3>3. Barren(t, allowDots)
      BY <1>1, <1>2, <3>2, NameFails
    <3>4. Here(t, p)'
      BY <1>3, <3>1, <3>3 DEF Here
    <3> QED
      BY <1>1, <1>3, <3>4 DEF HasRead
  <2>3. CASE pos > start
    <3>1. place' = "op" /\ name' = Slice(start, pos) /\ pos' = pos
      BY <1>2, <1>5, <2>3 DEF parseLabelName
    <3>2. pos <= Len(s)
      BY <1>1, <1>2 DEF parseLabelName, At, Seen, Extends, Typed
    <3>3. name' = SubSeq(t, start + 1, pos)
      BY <1>2, <3>1, <3>2, SliceIs, Zenon
    <3>4. pos \in Names(t, start, allowDots)
      BY <1>1, <1>2, <2>3 DEF Names
    <3>5. Named(t, allowDots, start, pos, name') /\ pos \in Sp(t, pos)
      BY <1>1, <1>2, <2>1, <3>3, <3>4, SpSelf DEF Named
    <3>6. Here(t, p)'
      BY <1>1, <1>3, <3>1, <3>5 DEF Here
    <3> QED
      BY <1>1, <1>3, <3>6 DEF HasRead
  <2> QED
    BY <1>1, <1>2, <2>2, <2>3
<1> QED
  BY <1>4, <1>5

LEMMA PairAt ==
  ASSUME NEW S, NEW t \in Seq(S), NEW i \in Nat, i + 1 < Len(t)
  PROVE  SubSeq(t, i + 1, i + 2) = <<t[i + 1], t[i + 2]>>
<1> DEFINE q == SubSeq(t, i + 1, i + 2)
           e == <<t[i + 1], t[i + 2]>>
<1>1. q \in Seq(S) /\ Len(q) = 2 /\ q[1] = t[i + 1] /\ q[2] = t[i + 2]
  OBVIOUS
<1>2. e \in Seq(S) /\ Len(e) = 2 /\ e[1] = t[i + 1] /\ e[2] = t[i + 2]
  OBVIOUS
<1> HIDE DEF q, e
<1>3. \A k \in 1..2 : q[k] = e[k]
  BY <1>1, <1>2
<1>4. q = e
  BY <1>1, <1>2, <1>3
<1> QED
  BY <1>4 DEF q, e

LEMMA PairsEqual ==
  ASSUME NEW x, NEW y, NEW a, NEW b
  PROVE  <<x, y>> = <<a, b>> <=> x = a /\ y = b
OBVIOUS

\* What parseOp sees in its two bytes.
LEMMA TwoBytes ==
  ASSUME Typed, NEW t, Extends(t), At("op"), NEW a, NEW b
  PROVE  pos + 2 <= Len(s) /\ Slice(pos, pos + 2) = <<a, b>>
           <=> pos + 1 < Len(t) /\ t[pos + 1] = a /\ t[pos + 2] = b
<1>1. /\ t \in Seq(Alphabet) /\ Len(t) \in Nat /\ Len(s) \in Nat /\ pos \in Nat
      /\ Len(s) <= Len(t) /\ (ended => Len(t) = Len(s)) /\ (ended \/ Len(s) >= pos + 2)
  BY DEF Typed, Extends, At, Seen
<1>2. pos + 2 <= Len(s) <=> pos + 1 < Len(t)
  BY <1>1
<1>3. ASSUME pos + 2 <= Len(s)
      PROVE  Slice(pos, pos + 2) = <<a, b>> <=> t[pos + 1] = a /\ t[pos + 2] = b
  <2>1. Slice(pos, pos + 2) = SubSeq(t, pos + 1, pos + 2)
    <3>1. pos + 2 \in Nat
      BY <1>1
    <3> QED
      BY <1>1, <1>3, <3>1, SliceIs, Zenon
  <2>2. SubSeq(t, pos + 1, pos + 2) = <<t[pos + 1], t[pos + 2]>>
    BY <1>1, <1>2, <1>3, PairAt
  <2>3. <<t[pos + 1], t[pos + 2]>> = <<a, b>> <=> t[pos + 1] = a /\ t[pos + 2] = b
    BY PairsEqual
  <2> QED
    BY <2>1, <2>2, <2>3, Zenon
<1> QED
  BY <1>2, <1>3

\* parseOp: the longest operator, or none.
LEMMA OpKeeps ==
  ASSUME Typed, NEW t, Extends(t), NEW p, HasRead(t, p), parseOp, Same
  PROVE  HasRead(t, p)'
<1>1. Got(t, allowDots, p) /\ ms = Texts(p) /\ Begun(t, allowDots, p, start)
  BY DEF HasRead, Here, parseOp, At
<1>2. PICK n : Named(t, allowDots, start, n, name) /\ pos \in Sp(t, n)
  BY DEF HasRead, Here, parseOp, At
<1>3. /\ t \in Seq(Alphabet) /\ Len(t) \in Nat /\ pos \in Nat /\ start \in Nat
      /\ pos >= Len(t) => peek = EOF
      /\ pos < Len(t) => peek = t[pos + 1]
  BY PeekIs DEF parseOp, At, Typed
<1>4. n \in Nat
  BY <1>2, <1>3 DEF Named, Names
<1>5. pos < Len(t) => t[pos + 1] # SPACE
  BY <1>3 DEF parseOp
<1>6. UNCHANGED <<start, name, ms, allowDots>>
  BY DEF parseOp, Same
<1>7. peek = "=" <=> pos < Len(t) /\ t[pos + 1] = "="
  BY <1>3 DEF EOF
<1>8. \/ pos' = pos + 2 /\ place' = "value" /\ op' = "=~"
         /\ pos + 1 < Len(t) /\ t[pos + 1] = "=" /\ t[pos + 2] = "~"
      \/ pos' = pos + 2 /\ place' = "value" /\ op' = "!~"
         /\ pos + 1 < Len(t) /\ t[pos + 1] = "!" /\ t[pos + 2] = "~"
      \/ pos' = pos + 2 /\ place' = "value" /\ op' = "!="
         /\ pos + 1 < Len(t) /\ t[pos + 1] = "!" /\ t[pos + 2] = "="
      \/ pos' = pos + 1 /\ place' = "value" /\ op' = "="
         /\ pos < Len(t) /\ t[pos + 1] = "=" /\ ~(pos + 1 < Len(t) /\ t[pos + 2] = "~")
      \/ place' = "err"
         /\ ~(pos < Len(t) /\ t[pos + 1] = "=")
         /\ ~(pos + 1 < Len(t) /\ t[pos + 1] = "!" /\ t[pos + 2] \in {"~", "="})
  <2> DEFINE two == Slice(pos, pos + 2)
             W(a, b) == pos + 1 < Len(t) /\ t[pos + 1] = a /\ t[pos + 2] = b
  <2>1. At("op")
    BY DEF parseOp
  <2>2. /\ pos + 2 <= Len(s) /\ two = <<"=", "~">> <=> W("=", "~")
        /\ pos + 2 <= Len(s) /\ two = <<"!", "~">> <=> W("!", "~")
        /\ pos + 2 <= Len(s) /\ two = <<"!", "=">> <=> W("!", "=")
    BY <2>1, TwoBytes, Zenon
  <2>3. \/ /\ pos + 2 <= Len(s) /\ two \in {<<"=", "~">>, <<"!", "~">>, <<"!", "=">>}
           /\ pos' = pos + 2 /\ place' = "value"
           /\ op' = CASE two = <<"=", "~">> -> "=~"
                      [] two = <<"!", "~">> -> "!~"
                      [] OTHER -> "!="
        \/ /\ ~(pos + 2 <= Len(s) /\ two \in {<<"=", "~">>, <<"!", "~">>, <<"!", "=">>})
           /\ peek = "=" /\ pos' = pos + 1 /\ place' = "value" /\ op' = "="
        \/ /\ ~(pos + 2 <= Len(s) /\ two \in {<<"=", "~">>, <<"!", "~">>, <<"!", "=">>})
           /\ peek # "=" /\ place' = "err"
    BY DEF parseOp, Advance
  <2> HIDE DEF two
  <2>4. <<"=", "~">> # <<"!", "~">> /\ <<"=", "~">> # <<"!", "=">> /\ <<"!", "~">> # <<"!", "=">>
    OBVIOUS
  <2>5. \/ pos' = pos + 2 /\ place' = "value" /\ op' = "=~" /\ W("=", "~")
        \/ pos' = pos + 2 /\ place' = "value" /\ op' = "!~" /\ W("!", "~")
        \/ pos' = pos + 2 /\ place' = "value" /\ op' = "!=" /\ W("!", "=")
        \/ pos' = pos + 1 /\ place' = "value" /\ op' = "=" /\ peek = "=" /\ ~W("=", "~")
        \/ place' = "err" /\ peek # "=" /\ ~W("!", "~") /\ ~W("!", "=")
    <3> HIDE DEF W
    <3> QED
      BY <2>2, <2>3, <2>4
  <2> QED
    BY <1>3, <1>7, <2>5
<1>9. CASE place' = "err"
  <2>1. Ops(t, pos) = {}
    <3>1. \A o \in Ops(t, pos) : FALSE
      BY <1>3, <1>8, <1>9, OpParts
    <3> QED
      BY <3>1
  <2>2. Barren(t, allowDots)
    BY <1>1, <1>2, <1>3, <1>5, <2>1, OpFails
  <2>3. Here(t, p)'
    BY <1>6, <1>9, <2>2 DEF Here
  <2> QED
    BY <1>1, <1>6, <2>3 DEF HasRead
<1>10. CASE place' = "value"
  <2>1. PICK o : o \in Ops(t, pos) /\ o[1] = pos' /\ o[2] = op'
                 /\ (op' = "=" => ~(pos + 1 < Len(t) /\ t[pos + 2] = "~"))
    <3> DEFINE o == <<pos', op'>>
    <3>1. o \in Ops(t, pos)
      BY <1>3, <1>8, <1>10, PartsOp
    <3>2. o[1] = pos' /\ o[2] = op'
      OBVIOUS
    <3>3. op' = "=" => ~(pos + 1 < Len(t) /\ t[pos + 2] = "~")
      BY <1>8, <1>10
    <3> QED
      BY <3>1, <3>2, <3>3
  <2>2. Headed(t, allowDots, start, n, pos, o, name, op')
    BY <1>2, <2>1 DEF Headed
  <2>3. pos' \in Nat /\ pos' <= Len(t)
    BY <1>3, <1>8, <1>10
  <2>4. pos' \in Sp(t, o[1])
    BY <1>3, <2>1, <2>3, SpSelf
  <2>5. ValueAt(t, p, pos)'
    BY <1>1, <1>6, <2>2, <2>4 DEF ValueAt
  <2>6. Here(t, p)'
    BY <1>10, <2>5 DEF Here
  <2> QED
    BY <1>1, <1>6, <2>6 DEF HasRead
<1> QED
  BY <1>8, <1>9, <1>10

\* OpenQuote: a value begins, or there is none.
LEMMA QuoteKeeps ==
  ASSUME Typed, NEW t, Extends(t), NEW p, HasRead(t, p), OpenQuote, Same
  PROVE  HasRead(t, p)'
<1>1. Got(t, allowDots, p) /\ ms = Texts(p) /\ ValueAt(t, p, pos)
  BY DEF HasRead, Here, OpenQuote, At
<1>2. /\ t \in Seq(Alphabet) /\ Len(t) \in Nat /\ pos \in Nat
      /\ pos >= Len(t) => peek = EOF
      /\ pos < Len(t) => peek = t[pos + 1]
  BY PeekIs DEF OpenQuote, At
<1>3. pos < Len(t) => t[pos + 1] # SPACE
  BY <1>2 DEF OpenQuote
<1>4. UNCHANGED <<name, op, ms, allowDots>> /\ start' = pos
  BY DEF OpenQuote, Same
<1>5. \/ peek = DQ /\ pos' = pos + 1 /\ place' = "dq"
      \/ peek = BQ /\ pos' = pos + 1 /\ place' = "raw"
      \/ peek \notin {DQ, BQ} /\ place' = "err"
  BY DEF OpenQuote, Advance
<1>6. CASE peek \in {DQ, BQ}
  <2>1. pos < Len(t) /\ t[pos + 1] = peek
    BY <1>2, <1>6 DEF EOF, DQ, BQ
  <2>2. Scanned(t, pos, pos + 1) /\ ~Esc(t, pos, (pos + 1) + 1 - pos)
    BY <1>2, <1>6, <2>1, ScanBegins
  <2>3. ValueAt(t, p, start)'
    BY <1>1, <1>4 DEF ValueAt
  <2>4. pos' = pos + 1 /\ (place' = "dq" => peek = DQ) /\ (place' = "raw" => peek = BQ)
        /\ place' \in {"dq", "raw"}
    BY <1>5, <1>6 DEF DQ, BQ
  <2>5. Here(t, p)'
    BY <1>4, <2>1, <2>2, <2>3, <2>4 DEF Here
  <2> QED
    BY <1>1, <1>4, <2>5 DEF HasRead
<1>7. CASE peek \notin {DQ, BQ}
  <2>1. Values(t, pos) = {}
    <3> SUFFICES ASSUME NEW v \in Values(t, pos) PROVE FALSE
      OBVIOUS
    <3>1. v \in Nat /\ pos + 2 <= v /\ v <= Len(t) /\ IsEnd(t, pos, v)
      BY <1>2, ValueFacts
    <3>2. t[pos + 1] \in {DQ, BQ} /\ pos < Len(t)
      BY <1>2, <3>1 DEF IsEnd
    <3> QED
      BY <1>2, <1>7, <3>2
  <2>2. PICK i, n, m, o : /\ Begun(t, allowDots, p, i)
                          /\ Headed(t, allowDots, i, n, m, o, name, op)
                          /\ pos \in Sp(t, o[1])
    BY <1>1 DEF ValueAt
  <2>3. Barren(t, allowDots)
    BY <1>1, <1>2, <1>3, <2>1, <2>2, ValueFails, SMTT(30)
  <2>4. Here(t, p)'
    BY <1>4, <1>5, <1>7, <2>3, Zenon DEF Here
  <2> QED
    BY <1>1, <1>4, <2>4 DEF HasRead
<1> QED
  BY <1>6, <1>7

\* A value that the end of the input cuts short.
LEMMA CutKeeps ==
  ASSUME Typed, NEW t, Extends(t), NEW p, HasRead(t, p), place \in {"dq", "raw"}, Seen, eof,
         place' = "err", UNCHANGED ms, Same
  PROVE  HasRead(t, p)'
<1>1. /\ Got(t, allowDots, p) /\ ms = Texts(p) /\ ValueAt(t, p, start)
      /\ Scanned(t, start, pos)
  BY DEF HasRead, Here
<1>2. t \in Seq(Alphabet) /\ pos >= Len(t) /\ start < Len(t) /\ t[start + 1] \in {DQ, BQ}
  BY <1>1, PeekIs DEF Scanned
<1>3. Values(t, start) = {} /\ t[start + 1] # SPACE
  BY <1>1, <1>2, ScanFails DEF DQ, BQ, SPACE
<1>4. PICK i, n, m, o : /\ Begun(t, allowDots, p, i)
                        /\ Headed(t, allowDots, i, n, m, o, name, op)
                        /\ start \in Sp(t, o[1])
  BY <1>1 DEF ValueAt
<1>5. Barren(t, allowDots)
  BY <1>1, <1>2, <1>3, <1>4, ValueFails
<1>6. UNCHANGED allowDots
  BY DEF Same
<1>7. Here(t, p)'
  BY <1>5, <1>6 DEF Here
<1> QED
  BY <1>1, <1>6, <1>7 DEF HasRead

\* A value whose quote is closed.
LEMMA CloseQuoteKeeps ==
  ASSUME Typed, NEW t, Extends(t), NEW p, HasRead(t, p), place \in {"dq", "raw"},
         pos < Len(t), pos < Len(s), Closing(t, start, pos + 1 - start),
         CloseQuote, UNCHANGED <<start, name, op>>, Same
  PROVE  \E q : HasRead(t, q)'
<1>1. /\ Got(t, allowDots, p) /\ ms = Texts(p) /\ ValueAt(t, p, start)
      /\ Scanned(t, start, pos)
  BY DEF HasRead, Here
<1>2. /\ t \in Seq(Alphabet) /\ Len(s) \in Nat /\ pos \in Nat /\ start \in Nat
      /\ UNCHANGED allowDots
  <2>1. t \in Seq(Alphabet)
    BY DEF Extends
  <2>2. Len(s) \in Nat /\ pos \in Nat /\ start \in Nat
    BY DEF Typed
  <2> QED
    BY <2>1, <2>2 DEF Same
<1>3. /\ pos + 1 \in Nat /\ start + 2 <= pos + 1 /\ pos + 1 <= Len(t)
      /\ IsEnd(t, start, pos + 1)
  BY <1>1, <1>2, ScanEnds
<1>4. PICK i, n, m, o : /\ Begun(t, allowDots, p, i)
                        /\ Headed(t, allowDots, i, n, m, o, name, op)
                        /\ start \in Sp(t, o[1])
  BY <1>1 DEF ValueAt
<1> DEFINE v == SubSeq(t, start + 1, pos + 1)
<1>5. Slice(start, pos + 1) = v
  <2>1. pos + 1 <= Len(s)
    BY <1>2
  <2> QED
    BY <1>2, <1>3, <2>1, SliceIs
<1>6. /\ pos' = pos + 1
      /\ IF Unquotes(v) /\ Compiles(op, v)
         THEN /\ place' = "after"
              /\ ms' = Append(ms, Entry(name, op, v))
         ELSE place' = "err" /\ UNCHANGED ms
  BY <1>5, Zenon DEF CloseQuote, Advance, Entry
<1>7. CASE Unquotes(v) /\ Compiles(op, v)
  <2>1. PICK q : /\ Got(t, allowDots, q) /\ q # <<>> /\ EndOf(q) = pos + 1
                 /\ Texts(q) = Append(Texts(p), Entry(name, op, v))
    BY <1>1, <1>2, <1>3, <1>4, <1>7, QuoteReads
  <2> HIDE DEF v
  <2>2. pos' = EndOf(q) /\ place' = "after" /\ ms' = Texts(q)
    BY <1>1, <1>6, <1>7, <2>1
  <2>3. pos' \in Sp(t, EndOf(q))
    BY <1>2, <1>3, <2>1, <2>2, SpSelf, SMTT(30)
  <2>4. Here(t, q)'
    BY <2>1, <2>2, <2>3 DEF Here
  <2> QED
    BY <1>2, <2>1, <2>2, <2>4 DEF HasRead
<1>8. CASE ~(Unquotes(v) /\ Compiles(op, v))
  <2>1. Barren(t, allowDots)
    BY <1>1, <1>2, <1>3, <1>4, <1>8, QuoteFails, SMTT(30)
  <2> HIDE DEF v
  <2>2. Here(t, p)'
    BY <1>2, <1>6, <1>8, <2>1 DEF Here
  <2> QED
    BY <1>1, <1>2, <1>6, <1>8, <2>2, SMTT(30) DEF HasRead
<1> QED
  BY <1>7, <1>8

\* A byte, or an escape, within a value.
LEMMA ScanKeeps ==
  ASSUME Typed, NEW t, Extends(t), NEW p, HasRead(t, p), place \in {"dq", "raw"},
         Scanned(t, start, pos'), place = "dq" => ~Esc(t, start, pos' + 1 - start),
         UNCHANGED <<place, start, name, op, ms>>, Same
  PROVE  HasRead(t, p)'
<1>1. /\ Got(t, allowDots, p) /\ ms = Texts(p) /\ ValueAt(t, p, start)
      /\ place = "dq" => t[start + 1] = DQ
      /\ place = "raw" => t[start + 1] = BQ
  BY DEF HasRead, Here
<1>2. UNCHANGED allowDots
  BY DEF Same
<1>3. ValueAt(t, p, start)'
  BY <1>1, <1>2 DEF ValueAt
<1>4. Here(t, p)'
  BY <1>1, <1>3 DEF Here
<1> QED
  BY <1>1, <1>2, <1>4 DEF HasRead

LEMMA QuotedKeeps ==
  ASSUME Typed, NEW t, Extends(t), NEW p, HasRead(t, p), ScanQuoted, Same
  PROVE  \E q : HasRead(t, q)'
<1>1. /\ place = "dq" /\ Seen /\ Scanned(t, start, pos) /\ t[start + 1] = DQ
      /\ ~Esc(t, start, pos + 1 - start)
  BY DEF HasRead, Here, ScanQuoted, At
<1>2. /\ t \in Seq(Alphabet) /\ pos \in Nat
      /\ ~eof => pos < Len(t) /\ peek = t[pos + 1] /\ pos < Len(s)
  BY <1>1, PeekIs
<1>3. UNCHANGED <<start, name, op>>
  BY DEF ScanQuoted
<1>4. start + (pos + 1 - start) = pos + 1
  BY <1>2 DEF Typed
<1>5. CASE eof
  <2>1. place' = "err" /\ UNCHANGED ms
    BY <1>5 DEF ScanQuoted
  <2> QED
    BY <1>1, <1>5, <2>1, CutKeeps
<1>6. CASE ~eof /\ peek = ESC
  <2>1. pos' = pos + 2 /\ UNCHANGED <<place, ms>>
    BY <1>6 DEF ScanQuoted, Advance, DQ, ESC
  <2>2. Scanned(t, start, pos') /\ ~Esc(t, start, pos' + 1 - start)
    BY <1>1, <1>2, <1>6, <2>1, ScanEscape, Zenon
  <2> QED
    BY <1>1, <1>3, <2>1, <2>2, ScanKeeps
<1>7. CASE ~eof /\ peek = DQ
  <2>1. CloseQuote
    BY <1>7 DEF ScanQuoted, DQ, ESC
  <2>2. Closing(t, start, pos + 1 - start)
    BY <1>1, <1>2, <1>4, <1>7 DEF Closing
  <2> QED
    BY <1>1, <1>2, <1>3, <1>7, <2>1, <2>2, CloseQuoteKeeps
<1>8. CASE ~eof /\ peek \notin {ESC, DQ}
  <2>1. pos' = pos + 1 /\ UNCHANGED <<place, ms>>
    BY <1>8 DEF ScanQuoted, Advance
  <2>2. ~Closing(t, start, pos + 1 - start)
    BY <1>1, <1>2, <1>4, <1>8 DEF Closing
  <2>3. Scanned(t, start, pos') /\ ~Esc(t, start, pos' + 1 - start)
    BY <1>1, <1>2, <1>8, <2>1, <2>2, ScanPlain
  <2> QED
    BY <1>1, <1>3, <2>1, <2>3, ScanKeeps
<1> QED
  BY <1>5, <1>6, <1>7, <1>8, SMTT(30)

LEMMA RawKeeps ==
  ASSUME Typed, NEW t, Extends(t), NEW p, HasRead(t, p), ScanRaw, Same
  PROVE  \E q : HasRead(t, q)'
<1>1. place = "raw" /\ Seen /\ Scanned(t, start, pos) /\ t[start + 1] = BQ
  BY DEF HasRead, Here, ScanRaw, At
<1>2. /\ t \in Seq(Alphabet) /\ pos \in Nat
      /\ ~eof => pos < Len(t) /\ peek = t[pos + 1] /\ pos < Len(s)
  BY <1>1, PeekIs
<1>3. UNCHANGED <<start, name, op>>
  BY DEF ScanRaw
<1>4. start + (pos + 1 - start) = pos + 1
  BY <1>2 DEF Typed
<1>5. CASE eof
  <2>1. place' = "err" /\ UNCHANGED ms
    BY <1>5 DEF ScanRaw
  <2> QED
    BY <1>1, <1>5, <2>1, CutKeeps
<1>6. CASE ~eof /\ peek = BQ
  <2>1. CloseQuote
    BY <1>6 DEF ScanRaw
  <2>2. Closing(t, start, pos + 1 - start)
    BY <1>1, <1>2, <1>4, <1>6 DEF Closing, DQ, BQ
  <2> QED
    BY <1>1, <1>2, <1>3, <1>6, <2>1, <2>2, CloseQuoteKeeps
<1>7. CASE ~eof /\ peek # BQ
  <2>1. pos' = pos + 1 /\ UNCHANGED <<place, ms>>
    BY <1>7 DEF ScanRaw, Advance
  <2>2. ~Closing(t, start, pos + 1 - start)
    BY <1>1, <1>2, <1>4, <1>7 DEF Closing
  <2>3. Scanned(t, start, pos')
    BY <1>1, <1>2, <1>7, <2>1, <2>2, ScanStep
  <2> QED
    BY <1>1, <1>3, <2>1, <2>3, ScanKeeps
<1> QED
  BY <1>5, <1>6, <1>7

\* AfterMatcher: a comma, or the end of the list.
LEMMA AfterKeeps ==
  ASSUME Typed, NEW t, Extends(t), NEW p, HasRead(t, p), AfterMatcher, Same
  PROVE  HasRead(t, p)'
<1>1. /\ Got(t, allowDots, p) /\ ms = Texts(p)
      /\ p # <<>> /\ pos \in Sp(t, EndOf(p))
  BY DEF HasRead, Here, AfterMatcher, At
<1>2. /\ t \in Seq(Alphabet) /\ Len(t) \in Nat /\ pos \in Nat
      /\ pos >= Len(t) => peek = EOF
      /\ pos < Len(t) => peek = t[pos + 1]
  BY PeekIs DEF AfterMatcher, At
<1>3. pos < Len(t) => t[pos + 1] # SPACE
  BY <1>2 DEF AfterMatcher
<1>4. EndOf(p) \in Nat
  BY <1>1, <1>2, EndOfNat
<1>5. UNCHANGED <<start, name, op, ms, allowDots>>
  BY DEF AfterMatcher, Scans, Same
<1>6. CASE peek = COMMA
  <2>1. pos < Len(t) /\ t[pos + 1] = COMMA /\ pos' = pos + 1 /\ place' = "matcher"
    BY <1>2, <1>6 DEF AfterMatcher, Advance, EOF, COMMA
  <2>2. Ready(t, p, pos + 1)
    BY <1>1, <1>2, <1>3, <1>4, <2>1, AfterConcludes
  <2>3. pos + 1 \in Nat /\ pos + 1 <= Len(t)
    BY <1>2, <2>1
  <2>4. pos + 1 \in Sp(t, pos + 1)
    BY <1>2, <2>3, SpSelf
  <2>5. Here(t, p)'
    BY <2>1, <2>2, <2>3, <2>4 DEF Here
  <2> QED
    BY <1>1, <1>5, <2>5 DEF HasRead
<1>7. CASE peek # COMMA
  <2>1. ~(pos < Len(t) /\ t[pos + 1] = COMMA) /\ pos' = pos /\ place' = "close"
    BY <1>2, <1>7 DEF AfterMatcher
  <2>2. Done(t, allowDots, p, EndOf(p))
    BY <1>1, <1>2, <1>3, <1>4, <2>1, AfterConcludes, SMTT(30)
  <2>3. Here(t, p)'
    BY <1>1, <1>4, <1>5, <2>1, <2>2 DEF Here
  <2> QED
    BY <1>1, <1>5, <2>3 DEF HasRead
<1> QED
  BY <1>6, <1>7

\* The brace that closes the list, or the error.
LEMMA CloseKeeps ==
  ASSUME Typed, NEW t, Extends(t), NEW p, HasRead(t, p), Expect("close", RB, "end"), Same
  PROVE  HasRead(t, p)'
<1>1. Got(t, allowDots, p) /\ ms = Texts(p)
  BY DEF HasRead
<1>2. PICK j \in Nat : Done(t, allowDots, p, j) /\ pos \in Sp(t, j)
  BY DEF HasRead, Here, Expect, At
<1>3. /\ t \in Seq(Alphabet) /\ Len(t) \in Nat /\ pos \in Nat
      /\ pos >= Len(t) => peek = EOF
      /\ pos < Len(t) => peek = t[pos + 1]
  BY PeekIs DEF Expect, At
<1>4. pos < Len(t) => t[pos + 1] # SPACE
  BY <1>3 DEF Expect
<1>5. UNCHANGED <<start, name, op, ms, allowDots>>
  BY DEF Expect, Scans, Same
<1>6. CASE peek = RB
  <2>1. pos < Len(t) /\ t[pos + 1] = RB /\ pos' = pos + 1 /\ place' = "end"
    BY <1>3, <1>6 DEF Expect, Advance, EOF, RB
  <2>2. pos + 1 \in Padded(t, j, RB)
    BY <1>2, <1>3, <1>4, <2>1, CloseConcludes
  <2>3. pos + 1 \in Nat /\ pos + 1 <= Len(t)
    BY <1>3, <2>1
  <2>4. pos + 1 \in Sp(t, pos + 1)
    BY <1>3, <2>3, SpSelf
  <2>5. Here(t, p)'
    BY <1>2, <1>5, <2>1, <2>2, <2>4 DEF Here
  <2> QED
    BY <1>1, <1>5, <2>5 DEF HasRead
<1>7. CASE peek # RB
  <2>1. ~(pos < Len(t) /\ t[pos + 1] = RB) /\ place' = "err"
    BY <1>3, <1>7 DEF Expect
  <2>2. Barren(t, allowDots)
    BY <1>2, <1>3, <1>4, <2>1, CloseConcludes, SMTT(30)
  <2>3. Here(t, p)'
    BY <1>5, <2>1, <2>2 DEF Here
  <2> QED
    BY <1>1, <1>5, <2>3 DEF HasRead
<1> QED
  BY <1>6, <1>7

\* End: all of it was read, and there is a matcher.
LEMMA EndKeeps ==
  ASSUME Typed, NEW t, Extends(t), NEW p, HasRead(t, p), End, Same
  PROVE  HasRead(t, p)'
<1>1. Got(t, allowDots, p) /\ ms = Texts(p)
  BY DEF HasRead
<1>2. PICK j \in Nat : \E b \in Padded(t, j, RB) :
        Done(t, allowDots, p, j) /\ pos \in Sp(t, b)
  BY DEF HasRead, Here, End, At
<1>3. PICK b \in Padded(t, j, RB) : Done(t, allowDots, p, j) /\ pos \in Sp(t, b)
  BY <1>2
<1>4. /\ t \in Seq(Alphabet) /\ Len(t) \in Nat /\ pos \in Nat
      /\ pos >= Len(t) => eof
      /\ pos < Len(t) => ~eof /\ peek = t[pos + 1]
  BY PeekIs DEF End, At
<1>5. pos < Len(t) => t[pos + 1] # SPACE
  BY <1>4 DEF End
<1>6. UNCHANGED <<ended, ms, allowDots, pos>>
  BY DEF End, Scans, Same
<1>7. b \in Nat /\ pos <= Len(t)
  BY <1>3, <1>4, PaddedNat, SpFacts
<1>8. ms = <<>> <=> p = <<>>
  <2>1. p \in Seq(Items(t, allowDots))
    BY <1>1 DEF Got, Linked
  <2>2. Len(p) \in Nat /\ (p = <<>> <=> Len(p) = 0)
    BY <2>1
  <2>3. DOMAIN ms = 1..Len(p)
    BY <1>1 DEF Texts
  <2>4. p = <<>> => ms = <<>>
    BY <1>1 DEF Texts
  <2>5. ms = <<>> => p = <<>>
    <3>1. ms = <<>> => 1 \notin DOMAIN ms
      OBVIOUS
    <3> QED
      BY <2>2, <2>3, <3>1
  <2> QED
    BY <2>4, <2>5, SMTT(30)
<1>9. CASE eof /\ ms # <<>>
  <2>1. pos = Len(t) /\ p # <<>> /\ place' = "ok"
    BY <1>4, <1>7, <1>8, <1>9 DEF End
  <2>2. Chain(t, allowDots, p) /\ \A c : Chain(t, allowDots, c) => c = p
    BY <1>1, <1>3, <1>4, <1>5, <2>1, EndConcludes
  <2>3. ended
    BY <1>9 DEF eof
  <2>4. Here(t, p)'
    BY <1>6, <2>1, <2>2, <2>3 DEF Here
  <2> QED
    BY <1>1, <1>6, <2>4 DEF HasRead
<1>10. CASE ~(eof /\ ms # <<>>)
  <2>1. ~(pos = Len(t) /\ p # <<>>) /\ place' = "err"
    BY <1>4, <1>7, <1>8, <1>10 DEF End
  <2>2. Barren(t, allowDots)
    BY <1>1, <1>3, <1>4, <1>5, <2>1, EndConcludes
  <2>3. Here(t, p)'
    BY <1>6, <2>1, <2>2 DEF Here
  <2> QED
    BY <1>1, <1>6, <2>3 DEF HasRead
<1> QED
  BY <1>9, <1>10

-----------------------------------------------------------------------------
(* The invariant, and the theorems.                                         *)

LEMMA ExtendsSelf ==
  ASSUME Typed
  PROVE  Extends(s)
BY DEF Typed, Extends

\* A step within the text keeps its types and its bounds.
LEMMA ParseTyped ==
  ASSUME Typed, Within, parse, Same
  PROVE  Typed' /\ Within'
<1>1. /\ s \in Seq(Alphabet) /\ Len(s) \in Nat /\ pos \in Nat /\ start \in Nat
      /\ place \in Places /\ UNCHANGED <<s, ended, allowDots>>
  BY DEF Typed, Same
<1>2. Seen => /\ pos >= Len(s) => eof /\ peek = EOF
              /\ pos < Len(s) => ~eof
  BY ExtendsSelf, PeekIs
<1>3. /\ pos' \in Nat /\ start' \in Nat /\ place' \in Places
      /\ Within'
  <2>1. CASE skipSpace
    <3>1. pos < Len(s) /\ pos' = pos + 1 /\ UNCHANGED <<place, start>>
      BY <1>1, <1>2, <2>1 DEF skipSpace, Advance, Scans, EOF, SPACE
    <3> QED
      BY <1>1, <3>1 DEF Within
  <2>2. ASSUME NEW a, NEW c, c # EOF, NEW b \in Places, Expect(a, c, b)
        PROVE  /\ pos' \in Nat /\ start' \in Nat /\ place' \in Places
               /\ Within'
    <3>1. UNCHANGED start /\ Seen
      BY <2>2 DEF Expect, Scans, At
    <3>2. CASE peek = c
      <4>1. pos < Len(s) /\ pos' = pos + 1 /\ place' = b
        BY <1>1, <1>2, <2>2, <3>1, <3>2 DEF Expect, Advance
      <4> QED
        BY <1>1, <2>2, <3>1, <4>1 DEF Within
    <3>3. CASE peek # c
      <4>1. pos' = pos /\ place' = "err"
        BY <2>2, <3>3 DEF Expect
      <4> QED
        BY <1>1, <3>1, <4>1 DEF Within, Places
    <3> QED
      BY <3>2, <3>3
  <2>3. CASE NextMatcher
    <3>1. pos' = pos /\ start' = pos /\ place' \in {"close", "name"} /\ place = "matcher"
      BY <2>3 DEF NextMatcher, At
    <3> QED
      BY <1>1, <3>1 DEF Within, Places
  <2>4. CASE parseLabelName
    <3>1. Seen /\ place = "name" /\ start' = start
      BY <2>4 DEF parseLabelName, At
    <3>2. \/ ~eof /\ pos' = pos + 1 /\ place' = place
          \/ pos' = pos /\ place' \in {"err", "op"}
      BY <2>4 DEF parseLabelName, Advance
    <3> QED
      BY <1>1, <1>2, <3>1, <3>2, SMTT(30) DEF Within, Places
  <2>5. CASE parseOp
    <3>1. Seen /\ place = "op" /\ start' = start
      BY <2>5 DEF parseOp, At
    <3>2. \/ pos + 2 <= Len(s) /\ pos' = pos + 2 /\ place' = "value"
          \/ peek = "=" /\ pos' = pos + 1 /\ place' = "value"
          \/ pos' = pos /\ place' = "err"
      BY <2>5 DEF parseOp, Advance
    <3>3. peek = "=" => pos < Len(s)
      BY <1>1, <1>2, <3>1 DEF EOF
    <3> QED
      BY <1>1, <3>1, <3>2, <3>3 DEF Within, Places
  <2>6. CASE OpenQuote
    <3>1. Seen /\ place = "value" /\ start' = pos
      BY <2>6 DEF OpenQuote, At
    <3>2. \/ peek \in {DQ, BQ} /\ pos' = pos + 1 /\ place' \in {"dq", "raw"}
          \/ pos' = pos /\ place' = "err"
      BY <2>6 DEF OpenQuote, Advance
    <3>3. peek \in {DQ, BQ} => pos < Len(s)
      BY <1>1, <1>2, <3>1 DEF EOF, DQ, BQ
    <3> QED
      BY <1>1, <3>1, <3>2, <3>3 DEF Within, Places
  <2>7. CASE ScanQuoted
    <3>1. Seen /\ place = "dq" /\ start' = start
      BY <2>7 DEF ScanQuoted, At
    <3>2. \/ pos' = pos /\ place' = "err"
          \/ ~eof /\ pos' \in {pos + 1, pos + 2} /\ place' = "dq"
          \/ ~eof /\ pos' = pos + 1 /\ place' \in {"after", "err"}
      BY <2>7, <3>1 DEF ScanQuoted, CloseQuote, Advance
    <3> QED
      BY <1>1, <1>2, <3>1, <3>2 DEF Within, Places
  <2>8. CASE ScanRaw
    <3>1. Seen /\ place = "raw" /\ start' = start
      BY <2>8 DEF ScanRaw, At
    <3>2. \/ pos' = pos /\ place' = "err"
          \/ ~eof /\ pos' = pos + 1 /\ place' \in {"raw", "after", "err"}
      BY <2>8, <3>1 DEF ScanRaw, CloseQuote, Advance
    <3> QED
      BY <1>1, <1>2, <3>1, <3>2 DEF Within, Places
  <2>9. CASE AfterMatcher
    <3>1. Seen /\ place = "after" /\ start' = start
      BY <2>9 DEF AfterMatcher, At, Scans
    <3>2. \/ peek = COMMA /\ pos' = pos + 1 /\ place' = "matcher"
          \/ pos' = pos /\ place' = "close"
      BY <2>9 DEF AfterMatcher, Advance
    <3>3. peek = COMMA => pos < Len(s)
      BY <1>1, <1>2, <3>1 DEF EOF, COMMA
    <3> QED
      BY <1>1, <3>1, <3>2, <3>3 DEF Within, Places
  <2>10. CASE End
    <3>1. pos' = pos /\ start' = start /\ place = "end" /\ place' \in {"ok", "err"}
      BY <2>10 DEF End, At, Scans
    <3> QED
      BY <1>1, <3>1 DEF Within, Places
  <2>11. LB # EOF /\ RB # EOF /\ "matcher" \in Places /\ "end" \in Places
    BY DEF LB, RB, EOF, Places
  <2> QED
    BY <2>1, <2>2, <2>3, <2>4, <2>5, <2>6, <2>7, <2>8, <2>9, <2>10, <2>11 DEF parse
<1> QED
  BY <1>1, <1>3 DEF Typed

\* What was read stays read.
LEMMA Unmoved ==
  ASSUME NEW t, NEW p, HasRead(t, p), place = "ok" => ended',
         UNCHANGED <<allowDots, pos, start, place, name, op, ms>>
  PROVE  HasRead(t, p)'
<1>1. ValueAt(t, p, pos)' <=> ValueAt(t, p, pos)
  BY DEF ValueAt
<1>2. ValueAt(t, p, start)' <=> ValueAt(t, p, start)
  BY DEF ValueAt
<1>3. (\E j \in Nat : Ready(t, p, j) /\ pos \in Sp(t, j))'
        <=> \E j \in Nat : Ready(t, p, j) /\ pos \in Sp(t, j)
  OBVIOUS
<1>4. (\E n : Named(t, allowDots, start, n, name) /\ pos \in Sp(t, n))'
        <=> \E n : Named(t, allowDots, start, n, name) /\ pos \in Sp(t, n)
  OBVIOUS
<1>5. (\E j \in Nat : Done(t, allowDots, p, j) /\ pos \in Sp(t, j))'
        <=> \E j \in Nat : Done(t, allowDots, p, j) /\ pos \in Sp(t, j)
  OBVIOUS
<1>6. (\E j \in Nat : \E b \in Padded(t, j, RB) : Done(t, allowDots, p, j) /\ pos \in Sp(t, b))'
        <=> \E j \in Nat : \E b \in Padded(t, j, RB) : Done(t, allowDots, p, j) /\ pos \in Sp(t, b)
  OBVIOUS
<1>7. Here(t, p)
  BY DEF HasRead
<1>8. Here(t, p)'
  <2>1. ASSUME place' = "open" PROVE Here(t, p)'
    BY <1>7, <2>1 DEF Here
  <2>2. ASSUME place' = "matcher" PROVE Here(t, p)'
    BY <1>3, <1>7, <2>2, ZenonT(40) DEF Here
  <2>3. ASSUME place' = "name" PROVE Here(t, p)'
    BY <1>7, <2>3 DEF Here
  <2>4. ASSUME place' = "op" PROVE Here(t, p)'
    BY <1>4, <1>7, <2>4, ZenonT(40) DEF Here
  <2>5. ASSUME place' = "value" PROVE Here(t, p)'
    BY <1>1, <1>7, <2>5, ZenonT(40) DEF Here
  <2>6. ASSUME place' = "dq" PROVE Here(t, p)'
    BY <1>2, <1>7, <2>6 DEF Here
  <2>7. ASSUME place' = "raw" PROVE Here(t, p)'
    BY <1>2, <1>7, <2>7 DEF Here
  <2>8. ASSUME place' = "after" PROVE Here(t, p)'
    BY <1>7, <2>8, ZenonT(40) DEF Here
  <2>9. ASSUME place' = "close" PROVE Here(t, p)'
    BY <1>5, <1>7, <2>9 DEF Here
  <2>10. ASSUME place' = "end" PROVE Here(t, p)'
    BY <1>6, <1>7, <2>10 DEF Here
  <2>11. ASSUME place' = "ok" PROVE Here(t, p)'
    BY <1>7, <2>11, ZenonT(40) DEF Here
  <2>12. ASSUME place' = "err" PROVE Here(t, p)'
    BY <1>7, <2>12 DEF Here
  <2>13. ASSUME place' \notin {"open", "matcher", "name", "op", "value", "dq", "raw", "after",
                              "close", "end", "ok", "err"}
         PROVE  Here(t, p)'
    BY <2>13 DEF Here
  <2> QED
    BY <2>1, <2>2, <2>3, <2>4, <2>5, <2>6, <2>7, <2>8, <2>9, <2>10, <2>11, <2>12, <2>13
<1> QED
  BY <1>8 DEF HasRead

\* The next byte of the input, or its end, was in every text that is left.
LEMMA RevealKeeps ==
  ASSUME ParserInv, Reveal
  PROVE  ParserInv'
<1>1. /\ UNCHANGED <<limit, allowDots, pos, start, place, name, op, ms>>
      /\ place \notin {"ok", "err"} /\ ~Seen
  BY DEF Reveal
<1>2. /\ s \in Seq(Alphabet) /\ ended \in BOOLEAN /\ pos \in Nat /\ Len(s) \in Nat
  BY DEF ParserInv, Typed
<1>3. /\ s' \in Seq(Alphabet) /\ ended' \in BOOLEAN /\ Len(s') \in Nat
      /\ Len(s') \in {Len(s), Len(s) + 1} /\ \A i \in 1..Len(s) : s'[i] = s[i]
      /\ ended => ended' /\ Len(s') = Len(s)
  <2>1. ~ended
    BY <1>1 DEF Seen
  <2>2. CASE ended' = TRUE /\ UNCHANGED s
    BY <1>2, <2>1, <2>2
  <2>3. CASE UNCHANGED ended /\ \E c \in Alphabet : s' = Append(s, c)
    <3>1. PICK c \in Alphabet : s' = Append(s, c)
      BY <2>3
    <3>2. /\ s' \in Seq(Alphabet) /\ Len(s') = Len(s) + 1
          /\ \A i \in 1..Len(s) : s'[i] = s[i]
      BY <1>2, <3>1, AppendFacts
    <3> QED
      BY <1>2, <2>1, <2>3, <3>2
  <2> QED
    BY <2>2, <2>3, Zenon DEF Reveal
<1>4. Typed'
  BY <1>1, <1>3 DEF ParserInv, Typed
<1>5. Within'
  <2>1. pos < Len(s) + 1 \/ (place = "dq" /\ pos = Len(s) + 1)
    BY <1>1, <1>2 DEF ParserInv, Within
  <2>2. CASE pos < Len(s) + 1
    BY <1>1, <1>2, <1>3, <2>2 DEF Within
  <2>3. CASE place = "dq" /\ pos = Len(s) + 1
    BY <1>1, <1>2, <1>3, <2>3 DEF Within
  <2> QED
    BY <2>1, <2>2, <2>3
<1>6. ASSUME NEW t, Extends(t)' PROVE OnTrack(t)'
  <2>1. Extends(t)
    <3>1. /\ t \in Seq(Alphabet) /\ Len(t) \in Nat /\ Len(s') <= Len(t)
          /\ \A i \in 1..Len(s') : t[i] = s'[i]
          /\ ended' => Len(t) = Len(s')
      BY <1>6 DEF Extends
    <3>2. Len(s) <= Len(s')
      BY <1>2, <1>3
    <3>3. ASSUME NEW i \in 1..Len(s) PROVE t[i] = s[i]
      <4>1. i \in 1..Len(s')
        BY <1>2, <1>3, <3>2
      <4> QED
        BY <1>3, <3>1, <4>1
    <3>4. ended => Len(t) = Len(s)
      BY <1>3, <3>1
    <3> QED
      BY <1>2, <1>3, <3>1, <3>2, <3>3, <3>4 DEF Extends
  <2>2. PICK p : HasRead(t, p)
    BY <2>1, SMTT(30) DEF ParserInv, OnTrack
  <2>3. HasRead(t, p)'
    BY <1>1, <2>2, Unmoved
  <2> QED
    BY <2>3 DEF OnTrack
<1> QED
  BY <1>4, <1>5, <1>6 DEF ParserInv

LEMMA ParseKeeps ==
  ASSUME ParserInv, parse, Same
  PROVE  ParserInv'
<1>1. Typed /\ Within
  BY DEF ParserInv
<1>2. ASSUME NEW t, Extends(t)' PROVE OnTrack(t)'
  <2>1. Extends(t)
    BY <1>2 DEF Extends, Same
  <2>2. PICK p : HasRead(t, p)
    BY <2>1 DEF ParserInv, OnTrack
  <2>3. \/ skipSpace \/ Expect("open", LB, "matcher") \/ NextMatcher
        \/ parseLabelName \/ parseOp
        \/ OpenQuote \/ ScanQuoted \/ ScanRaw
        \/ AfterMatcher \/ Expect("close", RB, "end") \/ End
    BY DEF parse
  <2>4. \E q : HasRead(t, q)'
    <3>1. ASSUME skipSpace PROVE HasRead(t, p)'
      BY <1>1, <2>1, <2>2, <3>1, SkipKeeps
    <3>2. ASSUME Expect("open", LB, "matcher") PROVE HasRead(t, p)'
      BY <1>1, <2>1, <2>2, <3>2, OpenKeeps
    <3>3. ASSUME NextMatcher PROVE HasRead(t, p)'
      BY <1>1, <2>1, <2>2, <3>3, MatcherKeeps
    <3>4. ASSUME parseLabelName PROVE HasRead(t, p)'
      BY <1>1, <2>1, <2>2, <3>4, NameKeeps
    <3>5. ASSUME parseOp PROVE HasRead(t, p)'
      BY <1>1, <2>1, <2>2, <3>5, OpKeeps
    <3>6. ASSUME OpenQuote PROVE HasRead(t, p)'
      BY <1>1, <2>1, <2>2, <3>6, QuoteKeeps
    <3>7. ASSUME ScanQuoted PROVE \E q : HasRead(t, q)'
      BY <1>1, <2>1, <2>2, <3>7, QuotedKeeps
    <3>8. ASSUME ScanRaw PROVE \E q : HasRead(t, q)'
      BY <1>1, <2>1, <2>2, <3>8, RawKeeps
    <3>9. ASSUME AfterMatcher PROVE HasRead(t, p)'
      BY <1>1, <2>1, <2>2, <3>9, AfterKeeps
    <3>10. ASSUME Expect("close", RB, "end") PROVE HasRead(t, p)'
      BY <1>1, <2>1, <2>2, <3>10, CloseKeeps
    <3>11. ASSUME End PROVE HasRead(t, p)'
      BY <1>1, <2>1, <2>2, <3>11, EndKeeps
    <3> QED
      BY <2>3, <3>1, <3>2, <3>3, <3>4, <3>5, <3>6, <3>7, <3>8, <3>9, <3>10, <3>11
  <2> QED
    BY <2>4 DEF OnTrack
<1>3. Typed' /\ Within'
  BY <1>1, ParseTyped
<1> QED
  BY <1>2, <1>3 DEF ParserInv

LEMMA InitHolds ==
  ASSUME Init
  PROVE  ParserInv
<1>1. Typed /\ Within
  <2>1. s \in Prefixes /\ allowDots \in BOOLEAN
        /\ ended = FALSE /\ pos = 0 /\ start = 0 /\ place = "open"
    BY DEF Init
  <2>2. s \in Seq(Alphabet) /\ Len(s) \in Nat
    BY <2>1, ParserAssumption
  <2>3. ended \in BOOLEAN /\ pos \in Nat /\ start \in Nat /\ place \in Places
    BY <2>1, Zenon DEF Places
  <2>4. Typed
    BY <2>1, <2>2, <2>3 DEF Typed
  <2> QED
    BY <2>1, <2>2, <2>4 DEF Within
<1>2. ASSUME NEW t, Extends(t) PROVE OnTrack(t)
  <2>1. t \in Seq(Alphabet) /\ Len(t) \in Nat
    BY <1>2 DEF Extends
  <2>2. Got(t, allowDots, <<>>)
    <3>1. <<>> \in Seq(Items(t, allowDots)) /\ Len(<<>>) = 0
      OBVIOUS
    <3>2. Linked(t, allowDots, <<>>)
      BY <3>1 DEF Linked
    <3>3. Agrees(t, allowDots, <<>>)
      BY <3>1 DEF Agrees, Chain
    <3> QED
      BY <3>2, <3>3 DEF Got
  <2>3. ms = Texts(<<>>)
    BY DEF Init, Texts
  <2>4. 0 \in Sp(t, 0)
    BY <2>1, SpSelf
  <2>5. Here(t, <<>>)
    BY <2>4 DEF Init, Here
  <2> QED
    BY <2>2, <2>3, <2>5 DEF OnTrack, HasRead
<1> QED
  BY <1>1, <1>2 DEF ParserInv

\* ParserInv.  Whatever the input turns out to be, what the parser has read of it is
\* the beginning of every reading it has.
LEMMA ParserInvariant == Spec => []ParserInv
<1>1. Init => ParserInv
  BY InitHolds
<1>2. ASSUME ParserInv, [Next]_vars PROVE ParserInv'
  <2>1. CASE Reveal
    BY <1>2, <2>1, RevealKeeps
  <2>2. CASE parse /\ Same
    BY <1>2, <2>2, ParseKeeps, SMTT(30)
  <2>3. CASE UNCHANGED vars
    <3>1. UNCHANGED <<s, ended, allowDots, pos, start, place, name, op, ms>>
      BY <2>3 DEF vars
    <3>2. Typed' /\ Within'
      BY <1>2, <3>1 DEF ParserInv, Typed, Within
    <3>3. ASSUME NEW t, Extends(t)' PROVE OnTrack(t)'
      <4>1. Extends(t)
        BY <3>1, <3>3 DEF Extends
      <4>2. PICK p : HasRead(t, p)
        BY <1>2, <4>1 DEF ParserInv, OnTrack
      <4>3. place = "ok" => ended'
        BY <3>1, <4>2 DEF HasRead, Here
      <4>4. HasRead(t, p)'
        BY <3>1, <4>2, <4>3, Unmoved
      <4> QED
        BY <4>4 DEF OnTrack
    <3> QED
      BY <3>2, <3>3 DEF ParserInv
  <2> QED
    BY <1>2, <2>1, <2>2, <2>3 DEF Next, Same
<1> QED
  BY <1>1, <1>2, PTL DEF Spec

\* The readings of a text are its chains.
LEMMA ReadingsAreChains ==
  ASSUME NEW S, NEW t \in Seq(S), NEW d
  PROVE  /\ \A r \in Readings(t, d) : \E c : Chain(t, d, c) /\ r = Texts(c)
         /\ \A c : Chain(t, d, c) /\ Linked(t, d, c) => Texts(c) \in Readings(t, d)
<1>1. ASSUME NEW r \in Readings(t, d) PROVE \E c : Chain(t, d, c) /\ r = Texts(c)
  <2>1. PICK c : /\ c \in UNION {[1..n -> Items(t, d)] : n \in Counts(t)}
                 /\ Lists(t, c) /\ r = [k \in DOMAIN c |-> c[k].m]
    BY DEF Readings
  <2>2. PICK n \in Counts(t) : c \in [1..n -> Items(t, d)]
    BY <2>1
  <2>3. n \in Nat /\ n >= 1
    BY <2>2 DEF Counts
  <2>4. c \in Seq(Items(t, d)) /\ Len(c) = n /\ c # <<>> /\ DOMAIN c = 1..Len(c)
    BY <2>2, <2>3
  <2> QED
    BY <2>1, <2>4, Zenon DEF Chain, Texts
<1>2. ASSUME NEW c, Chain(t, d, c), Linked(t, d, c) PROVE Texts(c) \in Readings(t, d)
  <2>1. /\ c \in Seq(Items(t, d)) /\ c # <<>> /\ Lists(t, c) /\ 4 * Len(c) <= EndOf(c)
    BY <1>2 DEF Chain, Linked
  <2>2. /\ Len(c) \in Nat /\ Len(c) >= 1 /\ c \in [1..Len(c) -> Items(t, d)]
        /\ DOMAIN c = 1..Len(c) /\ c[Len(c)] \in Items(t, d)
    BY <2>1
  <2>3. EndOf(c) \in Nat /\ EndOf(c) <= Len(t)
    BY <2>2, ItemFacts DEF EndOf
  <2>4. Len(c) \in Counts(t)
    BY <2>1, <2>2, <2>3 DEF Counts
  <2>5. c \in UNION {[1..n -> Items(t, d)] : n \in Counts(t)}
    BY <2>2, <2>4
  <2> QED
    BY <2>1, <2>2, <2>5 DEF Readings, Texts
<1> QED
  BY <1>1, <1>2

\* AcceptsOnlySelectors.  For inputs of every length: when parse returns matchers,
\* the input is a selector of the grammar and they are its one reading.  An empty
\* list, which would match every series, is never returned.
THEOREM AcceptsOnlySelectors == Spec => []OnlySelectors
<1>1. ASSUME ParserInv PROVE OnlySelectors
  <2> SUFFICES ASSUME place = "ok" PROVE Readings(s, allowDots) = {ms}
    BY DEF OnlySelectors
  <2>1. Extends(s) /\ s \in Seq(Alphabet)
    BY <1>1, ExtendsSelf DEF ParserInv, Typed
  <2>2. PICK p : HasRead(s, p)
    BY <1>1, <2>1 DEF ParserInv, OnTrack
  <2>3. /\ Linked(s, allowDots, p) /\ ms = Texts(p) /\ Chain(s, allowDots, p)
        /\ \A c : Chain(s, allowDots, c) => c = p
    BY <2>2 DEF HasRead, Here, Got
  <2>4. Texts(p) \in Readings(s, allowDots)
    BY <2>1, <2>3, ReadingsAreChains
  <2>5. \A r \in Readings(s, allowDots) : r = Texts(p)
    BY <2>1, <2>3, ReadingsAreChains
  <2> QED
    BY <2>3, <2>4, <2>5
<1> QED
  BY <1>1, ParserInvariant, PTL

\* What parse has rejected is no selector, and nothing that could follow would
\* make it one.
NeverASelector ==
  place = "err" => \A t : Extends(t) => Readings(t, allowDots) = {}

\* RejectsForGood.  For inputs of every length, and every text of the alphabet that
\* could follow what was read: an error of parse is final.
THEOREM RejectsForGood == Spec => []NeverASelector
<1>1. ASSUME ParserInv PROVE NeverASelector
  <2> SUFFICES ASSUME place = "err", NEW t, Extends(t) PROVE Readings(t, allowDots) = {}
    BY DEF NeverASelector
  <2>1. t \in Seq(Alphabet)
    BY DEF Extends
  <2>2. PICK p : HasRead(t, p)
    BY <1>1 DEF ParserInv, OnTrack
  <2>3. Barren(t, allowDots)
    BY <2>2 DEF HasRead, Here
  <2> QED
    BY <2>1, <2>3, ReadingsAreChains DEF Barren
<1> QED
  BY <1>1, ParserInvariant, PTL

LEMMA ConcatExtends ==
  ASSUME NEW S, NEW a \in Seq(S), NEW b \in Seq(S)
  PROVE  /\ a \o b \in Seq(S) /\ Len(a \o b) = Len(a) + Len(b)
         /\ Len(a) \in Nat /\ Len(b) \in Nat
         /\ \A i \in 1..Len(a) : (a \o b)[i] = a[i]
OBVIOUS

\* RejectsNoSelector.  In particular no way in which a selector is commonly cut
\* short is mistaken for an error.
THEOREM RejectsNoSelector == Spec => []AllSelectors
<1>1. ASSUME Typed, NeverASelector PROVE AllSelectors
  <2> SUFFICES ASSUME place = "err", NEW t \in (IF ended THEN {<<>>} ELSE Completions)
               PROVE  Readings(s \o t, allowDots) = {}
    BY DEF AllSelectors
  <2>1. t \in Seq(Alphabet) /\ (ended => Len(t) = 0)
    <3>1. <<>> \in Seq(Alphabet) /\ Len(<<>>) = 0
      OBVIOUS
    <3>2. {RB, DQ, "=", "a"} \subseteq Alphabet
      BY DEF Alphabet
    <3>3. Completions \subseteq Seq(Alphabet)
      BY <3>2 DEF Completions
    <3> QED
      BY <3>1, <3>3, Zenon
  <2>2. Extends(s \o t)
    BY <1>1, <2>1, ConcatExtends DEF Typed, Extends
  <2> QED
    BY <1>1, <2>2 DEF NeverASelector
<1>2. ParserInv => Typed
  BY DEF ParserInv
<1> QED
  BY <1>1, <1>2, ParserInvariant, RejectsForGood, PTL

\* NeverPastTheEnd.  For inputs of every length: pos leaves the input only by an
\* escape that is its last byte, by one byte, and only where the scanner notices.
THEOREM NeverPastTheEnd == Spec => []InBounds
<1>1. ParserInv => InBounds
  BY DEF ParserInv, Typed, Within, InBounds
<1> QED
  BY <1>1, ParserInvariant, PTL

=============================================================================
