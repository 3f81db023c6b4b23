-------------------------- MODULE MC_TcpConnection --------------------------
(* Model-checking instance of TcpConnection: 4-bit sequence numbers, the   *)
(* initiator's ISN two bytes short of the wrap so its stream crosses zero. *)
EXTENDS TcpConnection

MCIsn == [d \in Dir |-> IF d = "out" THEN 13 ELSE 6]
MCSegLens == [d \in Dir |-> IF d = "out" THEN <<1, 2, 1>> ELSE <<2, 1>>]
=============================================================================
