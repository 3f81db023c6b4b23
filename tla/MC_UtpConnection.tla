-------------------------- MODULE MC_UtpConnection --------------------------
(* Model-checking instances of UtpConnection.                              *)
EXTENDS UtpConnection

\* Two connections between the same endpoints, one opened by each peer
\* (a simultaneous connect): c1 from A with id 65535, c2 from B with id
\* 2.  The ids are three apart across the wrap.
TwoConns == {"c1", "c2"}
TwoIsn == [c \in TwoConns |-> [d \in Dir |-> IF c = "c1" THEN 65535 ELSE 7]]
TwoNumPkts == [c \in TwoConns |-> [d \in Dir |-> IF c = "c1" /\ d = "out" THEN 2 ELSE 1]]
TwoInitiator == [c \in TwoConns |-> IF c = "c1" THEN "A" ELSE "B"]
TwoConnId == [c \in TwoConns |-> IF c = "c1" THEN 65535 ELSE 2]

\* The same, but c2 is a second connection from A whose id is one above
\* c1's: c2's SYN carries the id c1's stream is stored under.
AdjInitiator == [c \in TwoConns |-> "A"]
AdjConnId == [c \in TwoConns |-> IF c = "c1" THEN 65535 ELSE 0]
=============================================================================
