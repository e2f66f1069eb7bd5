-------------------------- MODULE MCSelectorParser ---------------------------
EXTENDS SelectorParser

\* Any text, and a text that goes on after a first matcher.
SomePrefixes == {<<>>, <<LB, "a", "=", DQ, DQ>>}

=============================================================================
