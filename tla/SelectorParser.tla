--------------------------- MODULE SelectorParser ----------------------------
(* The parser of label selectors (selectormatch/selector.go), one step per  *)
(* byte or token, against its grammar:                                      *)
(*   selector = "{" matcher ("," matcher)* "}"                              *)
(*   matcher  = label_name op quoted_value                                  *)
(* with spaces between tokens and one trailing comma.                       *)
(*                                                                          *)
(* "a" stands for letters and "_", "(" for what no regular expression has   *)
(* on its own.  The input is any text.  Its bytes are chosen when the       *)
(* parser first looks at them, so that inputs which differ only in what it  *)
(* never reads are one.                                                     *)
EXTENDS Naturals, Sequences, FiniteSets

CONSTANTS
  Prefixes,   \* how the input may begin, and
  MaxMore     \* a bound on how many bytes follow

LB == "lbrace"
RB == "rbrace"
COMMA == "comma"
SPACE == "space"
DQ == "quote"
BQ == "backquote"
ESC == "backslash"
EOF == "eof"       \* what peek returns at the end
Alphabet == {LB, RB, COMMA, "=", "!", "~", DQ, BQ, ESC, "a", "1", ".", SPACE, "("}

ASSUME ParserAssumption == MaxMore \in Nat /\ Prefixes \subseteq Seq(Alphabet)

VARIABLES
  s,          \* the input as far as it was read,
  ended,      \* and whether that is all of it
  limit,      \* bound on its length
  allowDots,
  pos, start,
  place,      \* the token that comes next, or how parse has returned
  name, op,   \* of the matcher under way
  ms          \* the matchers: [name, op, text], text being the quoted value

vars == <<s, ended, limit, allowDots, pos, start, place, name, op, ms>>

Places == {"open", "matcher", "name", "op", "value", "dq", "raw", "after",
           "close", "end", "ok", "err"}

Init ==
  /\ s \in Prefixes /\ limit = Len(s) + MaxMore
  /\ ended = FALSE /\ allowDots \in BOOLEAN
  /\ pos = 0 /\ start = 0 /\ place = "open"
  /\ name = <<>> /\ op = "none" /\ ms = <<>>

-----------------------------------------------------------------------------
Slice(i, j) == SubSeq(s, i + 1, j)
LabelChar(dots, first, c) ==
  c = "a" \/ (~first /\ (c = "1" \/ (dots /\ c = ".")))

\* strconv.Unquote takes quotes, backslashes and letters after a backslash.
Escapes == {DQ, ESC, "a"}
\* The byte at i of a double-quoted text is escaped.
Escaped(t, i) ==
  \E k \in 1..(i - 1) :
    /\ k % 2 = 1 /\ i - k > 1
    /\ \A j \in (i - k)..(i - 1) : t[j] = ESC
    /\ i - k = 2 \/ t[i - k - 1] # ESC
Unquotes(t) ==
  t[1] = DQ => \A i \in 2..(Len(t) - 1) : Escaped(t, i) => t[i] \in Escapes

Compiles(o, t) ==
  o \in {"=~", "!~"} => \A i \in DOMAIN t : t[i] # "("

-----------------------------------------------------------------------------
eof == ended /\ pos >= Len(s)
peek == IF eof THEN EOF ELSE s[pos + 1]

\* parseOp looks at two bytes.
Seen == ended \/ Len(s) >= pos + (IF place = "op" THEN 2 ELSE 1)
Reveal ==
  /\ ~Seen /\ place \notin {"ok", "err"}
  /\ \/ ended' = TRUE /\ UNCHANGED s
     \/ /\ Len(s) < limit /\ UNCHANGED ended
        /\ \E c \in Alphabet : s' = Append(s, c)
  /\ UNCHANGED <<limit, allowDots, pos, start, place, name, op, ms>>

At(p) == place = p /\ Seen
Advance(n) == pos' = pos + n
Scans == UNCHANGED <<start, name, op, ms>>

skipSpace ==
  /\ Seen /\ peek = SPACE /\ Advance(1)
  /\ place \in {"open", "matcher", "op", "value", "after", "close", "end"}
  /\ Scans /\ UNCHANGED place

\* consume, or the error.
Expect(p, c, next) ==
  /\ At(p) /\ peek # SPACE
  /\ \/ peek = c /\ Advance(1) /\ place' = next
     \/ peek # c /\ place' = "err" /\ UNCHANGED pos
  /\ Scans

\* Mutant: a comma at the end is not expected.
NextMatcherStrict ==
  /\ At("matcher") /\ peek # SPACE
  /\ place' = IF peek = RB /\ ms = <<>> THEN "close" ELSE "name"
  /\ start' = pos /\ UNCHANGED <<pos, name, op, ms>>

NextMatcher ==
  /\ At("matcher") /\ peek # SPACE
  /\ place' = IF peek = RB THEN "close" ELSE "name"
  /\ start' = pos /\ UNCHANGED <<pos, name, op, ms>>

parseLabelName ==
  /\ At("name")
  /\ LET more == ~eof /\ LabelChar(allowDots, pos = start, peek) IN
     \/ more /\ Advance(1) /\ UNCHANGED <<place, name>>
     \/ /\ ~more /\ pos = start
        /\ place' = "err" /\ UNCHANGED <<pos, name>>
     \/ /\ ~more /\ pos > start
        /\ place' = "op" /\ name' = Slice(start, pos) /\ UNCHANGED pos
  /\ UNCHANGED <<start, op, ms>>

\* Mutant: every operator takes two bytes.
parseOpTwo ==
  /\ At("op") /\ peek # SPACE
  /\ \/ peek \in {"=", "!"} /\ Advance(2) /\ place' = "value" /\ op' = "="
     \/ peek \notin {"=", "!"} /\ place' = "err" /\ UNCHANGED <<pos, op>>
  /\ UNCHANGED <<start, name, ms>>

\* The longest operator first.
parseOp ==
  /\ At("op") /\ peek # SPACE
  /\ LET two == Slice(pos, pos + 2)
         long == {<<"=", "~">>, <<"!", "~">>, <<"!", "=">>}
     IN  \/ /\ pos + 2 <= Len(s) /\ two \in long
            /\ Advance(2) /\ place' = "value"
            /\ op' = CASE two = <<"=", "~">> -> "=~"
                       [] two = <<"!", "~">> -> "!~"
                       [] OTHER -> "!="
         \/ /\ ~(pos + 2 <= Len(s) /\ two \in long) /\ peek = "="
            /\ Advance(1) /\ place' = "value" /\ op' = "="
         \/ /\ ~(pos + 2 <= Len(s) /\ two \in long) /\ peek # "="
            /\ place' = "err" /\ UNCHANGED <<pos, op>>
  /\ UNCHANGED <<start, name, ms>>

OpenQuote ==
  /\ At("value") /\ peek # SPACE
  /\ start' = pos
  /\ \/ peek = DQ /\ Advance(1) /\ place' = "dq"
     \/ peek = BQ /\ Advance(1) /\ place' = "raw"
     \/ peek \notin {DQ, BQ} /\ place' = "err" /\ UNCHANGED pos
  /\ UNCHANGED <<name, op, ms>>

\* The value ends: it is unquoted, and compiled if it is an expression.
CloseQuote ==
  LET t == Slice(start, pos + 1) IN
  /\ Advance(1)
  /\ IF Unquotes(t) /\ Compiles(op, t)
     THEN /\ place' = "after"
          /\ ms' = Append(ms, [name |-> name, op |-> op, text |-> t])
     ELSE place' = "err" /\ UNCHANGED ms

\* Mutant: the byte after a backslash is looked at.
ScanQuotedPlain ==
  /\ At("dq")
  /\ \/ eof /\ place' = "err" /\ UNCHANGED <<pos, ms>>
     \/ ~eof /\ peek = DQ /\ CloseQuote
     \/ ~eof /\ peek # DQ /\ Advance(1) /\ UNCHANGED <<place, ms>>
  /\ UNCHANGED <<start, name, op>>

\* An escape skips two bytes, even past the end.
ScanQuoted ==
  /\ At("dq")
  /\ \/ eof /\ place' = "err" /\ UNCHANGED <<pos, ms>>
     \/ ~eof /\ peek = ESC /\ Advance(2) /\ UNCHANGED <<place, ms>>
     \/ ~eof /\ peek = DQ /\ CloseQuote
     \/ ~eof /\ peek \notin {ESC, DQ} /\ Advance(1) /\ UNCHANGED <<place, ms>>
  /\ UNCHANGED <<start, name, op>>

ScanRaw ==
  /\ At("raw")
  /\ \/ eof /\ place' = "err" /\ UNCHANGED <<pos, ms>>
     \/ ~eof /\ peek = BQ /\ CloseQuote
     \/ ~eof /\ peek # BQ /\ Advance(1) /\ UNCHANGED <<place, ms>>
  /\ UNCHANGED <<start, name, op>>

AfterMatcher ==
  /\ At("after") /\ peek # SPACE
  /\ \/ peek = COMMA /\ Advance(1) /\ place' = "matcher"
     \/ peek # COMMA /\ place' = "close" /\ UNCHANGED pos
  /\ Scans

\* Nothing may follow, and {} is refused.
End ==
  /\ At("end") /\ peek # SPACE
  /\ place' = IF eof /\ ms # <<>> THEN "ok" ELSE "err"
  /\ Scans /\ UNCHANGED pos

parse ==
  \/ skipSpace \/ Expect("open", LB, "matcher") \/ NextMatcher
  \/ parseLabelName \/ parseOp
  \/ OpenQuote \/ ScanQuoted \/ ScanRaw
  \/ AfterMatcher \/ Expect("close", RB, "end") \/ End

Next == Reveal \/ (parse /\ UNCHANGED <<s, ended, limit, allowDots>>)

Spec == Init /\ [][Next]_vars

-----------------------------------------------------------------------------
\* The grammar: where in t a token that begins after i may end.
Sp(t, i) == {j \in i..Len(t) : \A k \in (i + 1)..j : t[k] = SPACE}
Tok(t, i, c) == {j \in {i + 1} : i < Len(t) /\ t[i + 1] = c}
Padded(t, i, c) == UNION {Tok(t, j, c) : j \in Sp(t, i)}

Names(t, i, dots) ==
  {j \in (i + 1)..Len(t) : \A k \in (i + 1)..j : LabelChar(dots, k = i + 1, t[k])}

Ops(t, i) ==
  {<<j, "=">> : j \in Tok(t, i, "=")}
    \cup {<<j, "=~">> : j \in UNION {Tok(t, k, "~") : k \in Tok(t, i, "=")}}
    \cup {<<j, "!~">> : j \in UNION {Tok(t, k, "~") : k \in Tok(t, i, "!")}}
    \cup {<<j, "!=">> : j \in UNION {Tok(t, k, "=") : k \in Tok(t, i, "!")}}

IsQuoted(q) ==
  /\ q[1] \in {DQ, BQ} /\ q[Len(q)] = q[1]
  /\ \A i \in 2..Len(q) :
       q[i] = q[1] /\ ~(q[1] = DQ /\ Escaped(q, i)) <=> i = Len(q)
  /\ Unquotes(q)
Values(t, i) == {j \in (i + 2)..Len(t) : IsQuoted(SubSeq(t, i + 1, j))}

\* A matcher and where it ends.
MatchersAt(t, i, dots) ==
  UNION {UNION {UNION {UNION {
    {<<v, [name |-> SubSeq(t, i + 1, n), op |-> o[2], text |-> SubSeq(t, w + 1, v)]>>
       : v \in {u \in Values(t, w) : Compiles(o[2], SubSeq(t, w + 1, u))}}
    : w \in Sp(t, o[1])} : o \in Ops(t, m)} : m \in Sp(t, n)}
    : n \in Names(t, i, dots)}

\* The matchers that t has anywhere, with where they begin and end.
Items(t, dots) ==
  UNION {{[at |-> i, to |-> x[1], m |-> x[2]] : x \in MatchersAt(t, i, dots)}
         : i \in 0..Len(t)}

After(t, i, c) == UNION {Sp(t, j) : j \in Padded(t, i, c)}
Closes(t, i) == \E j \in Padded(t, i, RB) : Len(t) \in Sp(t, j)

\* t consists of these matchers, with their commas and braces.
Lists(t, l) ==
  /\ l[1].at \in After(t, 0, LB)
  /\ \A k \in 2..Len(l) : l[k].at \in After(t, l[k - 1].to, COMMA)
  /\ LET end == l[Len(l)].to
     IN  Closes(t, end) \/ \E j \in Padded(t, end, COMMA) : Closes(t, j)

\* The readings of t as a selector.  A matcher takes four bytes at least.
Counts(t) == {n \in 1..Len(t) : 4 * n <= Len(t)}
Readings(t, dots) ==
  LET all == Items(t, dots)
      lists == {l \in UNION {[1..n -> all] : n \in Counts(t)} : Lists(t, l)}
  IN  {[k \in DOMAIN l |-> l[k].m] : l \in lists}

\* What is missing when a reading is cut short.
Completions ==
  {<<>>, <<RB>>, <<DQ, RB>>, <<"=", DQ, DQ, RB>>, <<"a", "=", DQ, DQ, RB>>}

-----------------------------------------------------------------------------
\* OnlySelectors.  What parse accepts is a selector of the grammar, read in the
\* only way there is: the scanner takes the longest name and operator and never
\* goes back.  In particular it has a matcher, so that it cannot match all.
OnlySelectors == place = "ok" => Readings(s, allowDots) = {ms}

\* AllSelectors.  What parse rejects is no selector, neither as it stands when
\* the input has ended, nor, before that, with one of the usual ends of one.
AllSelectors ==
  place = "err" =>
    \A t \in (IF ended THEN {<<>>} ELSE Completions) :
      Readings(s \o t, allowDots) = {}

\* InBounds.  No byte past the end is read: an escape at the end of the input
\* takes pos one too far, and only where that is noticed.
InBounds ==
  (ended /\ pos > Len(s)) => place \in {"dq", "err"} /\ pos = Len(s) + 1

=============================================================================
