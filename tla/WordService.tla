----------------------------- MODULE WordService -----------------------------
(***************************************************************************)
(* What a server of word vectors promises, without sockets or a loop: each *)
(* client's question is taken at most once and answered at most once, by a *)
(* reply that ends with the vectors of the words asked for, in their       *)
(* order.  The server may go down at any time, then answers nothing more.  *)
(***************************************************************************)
EXTENDS SequencesExt

CONSTANTS
    Clients,
    Questions,       \* the sequences of words a client may ask for
    Vectors(_)       \* the vectors of the words of a question

VARIABLES
    asked,           \* asked[c]: << >>, then <<q>> once question q was taken
    reply,           \* reply[c]: << >>, then <<r>> once the whole reply r was sent
    up

Init ==
    /\ asked = [c \in Clients |-> << >>]
    /\ reply = [c \in Clients |-> << >>]
    /\ up = TRUE

Ask(c) ==
    /\ up /\ asked[c] = << >>
    /\ Len(asked'[c]) = 1
    /\ asked'[c][1] \in Questions
    /\ \A d \in Clients \ {c} : asked'[d] = asked[d]
    /\ UNCHANGED <<reply, up>>

Answer(c) ==
    /\ up /\ asked[c] # << >> /\ reply[c] = << >>
    /\ Len(reply'[c]) = 1
    /\ IsSuffix(Vectors(asked[c][1]), reply'[c][1])
    /\ \A d \in Clients \ {c} : reply'[d] = reply[d]
    /\ UNCHANGED <<asked, up>>

GoDown ==
    /\ up /\ up' = FALSE
    /\ UNCHANGED <<asked, reply>>

Next ==
    \/ GoDown
    \/ \E c \in Clients : Ask(c) \/ Answer(c)

Spec == Init /\ [][Next]_<<asked, reply, up>>
==============================================================================
