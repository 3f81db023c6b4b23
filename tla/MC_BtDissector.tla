--------------------------- MODULE MC_BtDissector ---------------------------
EXTENDS BtDissector

(* A session: both handshakes, extension handshakes that name ut_metadata *)
(* and ut_pex with different ids per side, extension messages that use    *)
(* the other side's ids, a HAVE with a trailing byte, and one message of  *)
(* most kinds.                                                            *)
HS(r, ih, pid) == [kind |-> "handshake", protocol |-> Handshake20,
                   reserved |-> r, infohash |-> ih, peerid |-> pid]

MCExtName == (1 :> "ut_metadata") @@ (2 :> "ut_pex")

MCMsgs ==
    [out |-> << HS(16, 7, 1),
                [kind |-> "exths", m |-> << <<1, 3>>, <<2, 1>> >>],
                [kind |-> "plain", id |-> 2],
                [kind |-> "extmsg", id |-> 2, size |-> 1],
                [kind |-> "index", id |-> 4, piece |-> 5, extra |-> 1],
                [kind |-> "block", id |-> 6, piece |-> 0, start |-> 0, length |-> 16],
                [kind |-> "keepalive"] >>,
     in  |-> << HS(0, 7, 2),
                [kind |-> "exths", m |-> << <<1, 2>> >>],
                [kind |-> "bitfield", bits |-> <<255>>],
                [kind |-> "plain", id |-> 1],
                [kind |-> "extmsg", id |-> 3, size |-> 0],
                [kind |-> "unknown", id |-> 11, size |-> 1],
                [kind |-> "piece", piece |-> 0, start |-> 0, size |-> 2],
                [kind |-> "dhtport", port |-> 6881] >>]

(* in answers out's handshake after out's info-hash; each extension       *)
(* message follows the other side's extension handshake                   *)
MCAfter ==
    [out |-> { <<MsgStart("out", 4), MsgEnd("in", 2)>> },
     in  |-> { <<0, 48>>, <<MsgStart("in", 5), MsgEnd("out", 2)>> }]

(* the same, except that in's bytes may reach the dissector before out's *)
(* info-hash: out's first segment retransmitted late, for instance        *)
HandshakeUnordered ==
    [out |-> MCAfter["out"], in |-> MCAfter["in"] \ { <<0, 48>> }]

MCChunks == {1, 5, 68}

MCWord == 2^24

(* A HAVE whose length prefix says 1: the piece index is read out of the  *)
(* next message.                                                           *)
MCShortMsgs ==
    [out |-> << HS(0, 7, 1),
                [kind |-> "raw", bytes |-> U32(1) \o <<4>>],
                [kind |-> "plain", id |-> 2],
                [kind |-> "keepalive"] >>,
     in  |-> << HS(0, 7, 2) >>]

ShortAfter == [out |-> {}, in |-> { <<0, 48>> }]

(* A BITFIELD whose length prefix is Word / 2 + 1 (2^31 + 1 for the real  *)
(* uint32): skip_ = Word / 2 reaches ensure_buffer as a negative int.     *)
MCHugeMsgs ==
    [out |-> << HS(0, 7, 1),
                [kind |-> "raw", bytes |-> U32(MCWord \div 2 + 1) \o <<5, 255>>],
                [kind |-> "keepalive"] >>,
     in  |-> << HS(0, 7, 2), [kind |-> "keepalive"] >>]
=============================================================================
