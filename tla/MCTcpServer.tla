------------------------------ MODULE MCTcpServer ------------------------------
EXTENDS TcpServer

MCClients == {"slow", "fast"}

\* One client whose send buffer holds half a reply, one whose buffer holds a reply.
MCCapacity == [c \in MCClients |-> IF c = "slow" THEN 1 ELSE 2]
OneSegment == [c \in MCClients |-> 1]
TwoSegments == [c \in MCClients |-> 2]
================================================================================
