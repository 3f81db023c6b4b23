----------------------------- MODULE ByteStream -----------------------------
(***************************************************************************)
(* What a transport reassembler promises its handler: for every direction *)
(* of a connection, the chunks handed to handler.data(), concatenated, are *)
(* always a prefix of the byte stream that side sent, and a step only ever *)
(* appends the next bytes of that stream.  Nothing is delivered twice,     *)
(* nothing is skipped and nothing is delivered out of order.               *)
(***************************************************************************)
EXTENDS Integers, Sequences

CONSTANTS
  Dir,      \* the two directions of a connection
  Stream    \* Stream[d]: the bytes side d sends, in order

VARIABLE delivered   \* delivered[d]: bytes handed to the handler so far

Init == delivered = [d \in Dir |-> <<>>]

\* Hand the next k bytes of direction d to the handler.
Deliver(d) ==
  \E k \in 1 .. (Len(Stream[d]) - Len(delivered[d])) :
    delivered' = [delivered EXCEPT ![d] =
                    @ \o SubSeq(Stream[d], Len(@) + 1, Len(@) + k)]

Next == \E d \in Dir : Deliver(d)

Spec == Init /\ [][Next]_delivered
=============================================================================
