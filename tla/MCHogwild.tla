------------------------------ MODULE MCHogwild ------------------------------
EXTENDS Hogwild

\* Two threads share the word "a" on the left; each has rows of its own as well.
MCPair == <<<<"a", "b">>, <<"a", "c">>>>
MCRegion == [t1 |-> <<1>>, t2 |-> <<2>>]
MCThreads == DOMAIN MCRegion
==============================================================================
