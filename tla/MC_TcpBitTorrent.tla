-------------------------- MODULE MC_TcpBitTorrent --------------------------
(* Model-checking instance of TcpBitTorrent: a BitTorrent session over    *)
(* 8-bit sequence numbers; the initiator's ISN puts the wrap inside its    *)
(* second segment, which carries the info-hash and the peer id.           *)
EXTENDS TcpBitTorrent

\* "\x13" "BitTorrent protocol"
MCProtocol == <<19, 66, 105, 116, 84, 111, 114, 114, 101, 110, 116,
                32, 112, 114, 111, 116, 111, 99, 111, 108>>

HS(id) == [kind |-> "handshake", protocol |-> MCProtocol,
           reserved |-> 0, infohash |-> 7, peerid |-> id]

\* out: handshake, INTERESTED, KEEP-ALIVE; in: handshake, HAVE 3.
MCMsgs == [d \in Dir |->
             IF d = "out"
             THEN << HS(1), [kind |-> "plain", id |-> 2], [kind |-> "keepalive"] >>
             ELSE << HS(2), [kind |-> "index", id |-> 4, piece |-> 3, extra |-> 0] >>]

MCExtName == 1 :> "ut_metadata"

\* The segments cut the handshake after the protocol string and after
\* the peer id: 20 + 48 + 9 and 68 + 9 bytes.
MCSegLens == [d \in Dir |-> IF d = "out" THEN <<20, 48, 9>> ELSE <<68, 9>>]
MCIsn == [d \in Dir |-> IF d = "out" THEN 230 ELSE 100]

\* The responder sends its handshake once it has the initiator's info-hash.
MCAnswers == [d \in Dir |-> IF d = "out" THEN {} ELSE {<<0, 48>>}]

MCWord == 2^24
=============================================================================
