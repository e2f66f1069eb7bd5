------------------------------ MODULE Selectors ------------------------------
(* Label selectors and how they are matched (selectormatch/selector.go).    *)
(*                                                                          *)
(* Names and values are sequences of tokens, so that what is put together   *)
(* of parts can be taken apart again; the empty string is <<>>.  A selector *)
(* is [parses, ms], ms the sequence of its matchers [name, op, value].      *)
EXTENDS Naturals, Sequences

CONSTANT Lang     \* for each regular expression, the values it accepts

\* An absent label is the empty string.
Get(labels, k) == IF k \in DOMAIN labels THEN labels[k] ELSE <<>>

MatchValue(m, v) ==
  \/ m.op = "=" /\ v = m.value
  \/ m.op = "!=" /\ v # m.value
  \/ m.op = "=~" /\ v \in Lang[m.value]
  \/ m.op = "!~" /\ v \notin Lang[m.value]

Matches(ms, labels) ==
  \A i \in DOMAIN ms : MatchValue(ms[i], Get(labels, ms[i].name))

\* The matchers whose name is among names, and the others, at their places.
On(names, ms) == [i \in {j \in DOMAIN ms : ms[j].name \in names} |-> ms[i]]
NotOn(names, ms) == [i \in {j \in DOMAIN ms : ms[j].name \notin names} |-> ms[i]]

=============================================================================
