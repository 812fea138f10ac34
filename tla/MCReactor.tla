------------------------------ MODULE MCReactor ------------------------------
EXTENDS Reactor

\* "split" comes in two segments, the first shorter than 16 bytes, and asks for a
\* word without a vector; "cut" in two, of which the first is a request by itself.
MCRequest ==
    [split |-> <<<<"get">>, <<"line", "blank", "a", "space", "x", "space">>>>,
     cut   |-> <<<<"line", "blank", "space", "b", "space", "a">>, <<"space">>>>,
     whole |-> <<<<"line", "blank", "a", "space">>>>]
MCFaults == [split |-> {"reset"}, cut |-> {"shut"}, whole |-> {}]
MCClients == DOMAIN MCRequest
==============================================================================
