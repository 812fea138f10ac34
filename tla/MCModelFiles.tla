----------------------------- MODULE MCModelFiles -----------------------------
EXTENDS ModelFiles

\* Three words, one of which the corpus spells in two ways.
MCSpellings == {"A", "a", "b", "c"}
MCLower == [s \in MCSpellings |-> IF s = "A" THEN "a" ELSE s]
==============================================================================
