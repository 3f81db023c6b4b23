---------------------------- MODULE BtDissector ----------------------------
(***************************************************************************)
(* The BitTorrent wire-protocol dissector of bittorrent.hpp: one           *)
(* parse_bittorrent per connection, holding a bittorrent_side_state per    *)
(* direction, a shared transcript file log_ and a shared disabled_ flag.   *)
(*                                                                         *)
(* The reassemblers hand data(buf, d) every in-order run of payload bytes, *)
(* split wherever the segments happened to be cut.  One call of data() is *)
(* one step of this module: the whole call, with every early return and    *)
(* every pass through its while loop, is the operator ParseData over a     *)
(* context record.  The two directions' calls interleave freely, subject   *)
(* only to causality (constant After): a peer sends bytes that answer the  *)
(* other direction only after it received those.                          *)
(*                                                                         *)
(* Bytes are integers 0..255.  The transcript is kept per direction as a   *)
(* sequence of events, one per line the code writes; timestamps, hex and   *)
(* decimal formatting, and the "- payload:" progress lines are left out.   *)
(* bdecode is an oracle over a tiny encoding of the "m" dictionary.        *)
(***************************************************************************)
EXTENDS Integers, Sequences, SequencesExt, FiniteSets, FiniteSetsExt

CONSTANTS
    Msgs,       \* Msgs[d]: the messages the sender of direction d sends
    ExtName,    \* byte code of a bencoded name -> the extension name
    Chunks,     \* sizes of the runs of payload the reassembler delivers
    After,      \* After[d]: pairs <<p, q>>: bytes of d past p need q bytes of the other direction
    Word        \* 2^32 for std::uint32_t skip_; smaller in models

Dir == {"out", "in"}

Opposite(d) == IF d = "out" THEN "in" ELSE "out"

ASSUME Word \in Nat /\ Word > 2^20

(* "\x13" "BitTorrent protocol", bittorrent.hpp:168 *)
Handshake20 == <<19, 66, 105, 116, 84, 111, 114, 114, 101, 110, 116,
                 32, 112, 114, 111, 116, 111, 99, 111, 108>>

-----------------------------------------------------------------------------
(* Wire encoding of the messages the model's peers send.                   *)

Fill(k, b) == [i \in 1 .. k |-> b]
U32(n) == <<(n \div 2^24) % 256, (n \div 2^16) % 256, (n \div 2^8) % 256, n % 256>>
U16(n) == <<(n \div 256) % 256, n % 256>>

(* A bencoded "m" dictionary: 'd', then code and integer per entry, 'e'. *)
Bencode(m) == <<100>> \o FlattenSeq(m) \o <<101>>

Encode(m) ==
    CASE m.kind = "handshake" -> m.protocol \o Fill(8, m.reserved)
                                   \o Fill(20, m.infohash) \o Fill(20, m.peerid)
      [] m.kind = "keepalive" -> U32(0)
      [] m.kind = "plain"     -> U32(1) \o <<m.id>>
      [] m.kind = "index"     -> U32(5 + m.extra) \o <<m.id>> \o U32(m.piece) \o Fill(m.extra, 0)
      [] m.kind = "block"     -> U32(13) \o <<m.id>> \o U32(m.piece) \o U32(m.start) \o U32(m.length)
      [] m.kind = "piece"     -> U32(9 + m.size) \o <<7>> \o U32(m.piece) \o U32(m.start) \o Fill(m.size, 0)
      [] m.kind = "dhtport"   -> U32(3) \o <<9>> \o U16(m.port)
      [] m.kind = "bitfield"  -> U32(1 + Len(m.bits)) \o <<5>> \o m.bits
      [] m.kind = "exths"     -> U32(2 + Len(Bencode(m.m))) \o <<20, 0>> \o Bencode(m.m)
      [] m.kind = "extmsg"    -> U32(2 + m.size) \o <<20, m.id>> \o Fill(m.size, 0)
      [] m.kind = "unknown"   -> U32(1 + m.size) \o <<m.id>> \o Fill(m.size, 0)
      [] m.kind = "raw"       -> m.bytes

Encodings(d) == [i \in 1 .. Len(Msgs[d]) |-> Encode(Msgs[d][i])]

Bytes == [d \in Dir |-> FlattenSeq(Encodings(d))]

MsgStart(d, i) == Len(FlattenSeq(SubSeq(Encodings(d), 1, i - 1)))
MsgEnd(d, i) == MsgStart(d, i) + Len(Encode(Msgs[d][i]))

-----------------------------------------------------------------------------
(* Helpers of the code                                                     *)

(* read_u32 and read_u16: big-endian decoding *)
ReadU32(b) == ((b[1] * 256 + b[2]) * 256 + b[3]) * 256 + b[4]
ReadU16(b) == b[1] * 256 + b[2]

(* the names the code writes for the messages that carry no body *)
PlainName == (0 :> "CHOKE") @@ (1 :> "UNCHOKE") @@ (2 :> "INTERESTED")
             @@ (3 :> "NOT-INTERESTED") @@ (14 :> "HAVE-ALL") @@ (15 :> "HAVE-NONE")

(* the state a message id with a body moves to *)
BodyState == (4 :> "have") @@ (5 :> "bitfield") @@ (6 :> "request") @@ (7 :> "piece")
             @@ (8 :> "cancel") @@ (9 :> "dht_port") @@ (13 :> "suggest")
             @@ (16 :> "reject") @@ (17 :> "allowed_fast") @@ (20 :> "extension")

IndexName == [have |-> "HAVE", suggest |-> "SUGGEST", allowed_fast |-> "ALLOWED-FAST"]
BlockName == [request |-> "REQUEST", cancel |-> "CANCEL", reject |-> "REJECT"]

(* msg_type_name for the ids the switch does not handle *)
MsgTypeName(id) == IF id < 21 THEN "??" ELSE <<"??", id>>

ExtLabel(map, id) ==
    IF id \in DOMAIN map THEN <<"EXTENSION-MSG", map[id]>>
                         ELSE <<"EXTENSION-MSG", "??", id>>

(* bdecode of the extension handshake, and its "m" entries *)
Bdecodable(b) ==
    /\ Len(b) >= 2 /\ Len(b) % 2 = 0 /\ b[1] = 100 /\ b[Len(b)] = 101
    /\ \A i \in 1 .. (Len(b) - 2) \div 2 : b[2 * i] \in DOMAIN ExtName
Decode(b) == [i \in 1 .. (Len(b) - 2) \div 2 |-> <<b[2 * i], b[2 * i + 1]>>]

(* s.extensions_[val.int_value()] = name: a later entry overwrites *)
Learn(map, entry) == (entry[2] :> ExtName[entry[1]]) @@ map

-----------------------------------------------------------------------------
(* Reference: the events each message should produce, at the offset in   *)
(* the message where its last field ends.                                  *)

Announced(d) ==
    FoldLeft(LAMBDA map, m : IF m.kind = "exths" THEN FoldLeft(Learn, map, m.m) ELSE map,
             <<>>, Msgs[d])

MsgEvents(d, m) ==
    CASE m.kind = "handshake" ->
            IF m.protocol # Handshake20 THEN <<>>
            ELSE << <<20, <<"HANDSHAKE">> >>, <<28, <<"RESERVED", Fill(8, m.reserved)>> >>,
                    <<48, <<"INFO-HASH", Fill(20, m.infohash)>> >>,
                    <<68, <<"PEER-ID", Fill(20, m.peerid)>> >> >>
      [] m.kind = "keepalive" -> << <<4, <<"KEEP-ALIVE">> >> >>
      [] m.kind = "plain"     -> << <<5, <<PlainName[m.id]>> >> >>
      [] m.kind = "index"     ->
            << <<9, <<IndexName[BodyState[m.id]], m.piece>> >> >>
            \o IF m.extra > 0 THEN << <<9, <<"UNEXPECTED", m.extra>> >> >> ELSE <<>>
      [] m.kind = "block"     ->
            << <<17, <<BlockName[BodyState[m.id]], m.piece, m.start, m.length>> >> >>
      [] m.kind = "piece"     -> << <<13, <<"PIECE", m.piece, m.start>> >> >>
      [] m.kind = "dhtport"   -> << <<7, <<"DHT-PORT", m.port>> >> >>
      [] m.kind = "bitfield"  -> << <<5 + Len(m.bits), <<"BITFIELD", m.bits>> >> >>
      [] m.kind = "exths"     -> << <<Len(Encode(m)), <<"EXTENSION-HANDSHAKE", m.m>> >> >>
      [] m.kind = "extmsg"    -> << <<6, ExtLabel(Announced(Opposite(d)), m.id)>> >>
      [] m.kind = "unknown"   -> << <<5, <<"MSG", MsgTypeName(m.id)>> >> >>
      [] m.kind = "raw"       -> <<>>

ExpectedEvents ==
    [d \in Dir |->
        FlattenSeq([i \in 1 .. Len(Msgs[d]) |->
            LET ev == MsgEvents(d, Msgs[d][i])
            IN  [j \in 1 .. Len(ev) |-> <<MsgStart(d, i) + ev[j][1], ev[j][2]>>]])]

(* the lines direction d should have produced once p of its bytes arrived *)
ExpectedUpTo(d, p) ==
    LET es == SelectSeq(ExpectedEvents[d], LAMBDA e : e[1] <= p)
    IN  [j \in 1 .. Len(es) |-> es[j][2]]

-----------------------------------------------------------------------------
(* One call of data().  A context c carries the side state c.s, the rest  *)
(* of the buffer c.buf, the lines written c.ev, log_.is_open() c.open,    *)
(* disabled_ c.disabled, the other side's extensions_ c.peer, and c.stop  *)
(* once the call has returned.                                             *)

EnsureBufferAll(c, n) ==
    IF Len(c.s.buffer) >= n THEN c
    ELSE [c EXCEPT !.s.buffer = @ \o c.buf, !.buf = <<>>]

(* the int parameter of ensure_buffer: a uint32 of Word / 2 or more      *)
(* converts to a negative int                                             *)
IntOf(n) == IF n >= Word \div 2 THEN n - Word ELSE n

(* bittorrent_side_state::ensure_buffer(buf, int bytes).  A negative      *)
(* bytes fails the size test (cast to size_t) and makes overlap negative: *)
(* vector::insert of the reversed range throws length_error, which main() *)
(* catches, ending the program (c.abort).                                 *)
EnsureBuffer(c, n) ==
    LET bytes == IntOf(n)
    IN  IF bytes >= 0 /\ Len(c.s.buffer) >= bytes THEN c
        ELSE LET k == Min({Len(c.buf), bytes - Len(c.s.buffer)})
             IN  IF k < 0 THEN [c EXCEPT !.abort = TRUE]
                 ELSE [c EXCEPT !.s.buffer = @ \o SubSeq(c.buf, 1, k),
                                !.buf = SubSeq(@, k + 1, Len(@))]

(* a line written to log_: lost while the transcript file is not open *)
Log(c, e) == IF c.open THEN [c EXCEPT !.ev = Append(@, e)] ELSE c

Goto(c, st) == [c EXCEPT !.s.state = st]
Clear(c) == [c EXCEPT !.s.buffer = <<>>]
Less(c, k) == [c EXCEPT !.s.skip = (@ - k) % Word]

CheckZero(c) ==
    IF c.s.skip = 0 THEN Goto(c, "length")
    ELSE Goto(Log(c, <<"UNEXPECTED", c.s.skip>>), "skip")

ProtocolDone(c) ==
    IF c.s.buffer # Handshake20 THEN [c EXCEPT !.disabled = TRUE, !.stop = TRUE]
    ELSE Goto(Log(Clear(c), <<"HANDSHAKE">>), "reserved")

ReservedDone(c) ==
    Goto(Clear(IF c.open THEN Log(c, <<"RESERVED", c.s.buffer>>)
                         ELSE [c EXCEPT !.s.reserved = c.s.buffer]), "info_hash")

(* the first info-hash opens the file and writes this side's handshake *)
OpenLog(c) ==
    IF c.open THEN c
    ELSE [c EXCEPT !.open = TRUE,
                   !.ev = @ \o << <<"HANDSHAKE">>, <<"RESERVED", c.s.reserved>> >>]

InfoHashDone(c) == Goto(Clear(Log(OpenLog(c), <<"INFO-HASH", c.s.buffer>>)), "peer_id")

PeerIdDone(c) == Goto(Clear(Log(c, <<"PEER-ID", c.s.buffer>>)), "length")

LengthDone(c) ==
    LET len == ReadU32(c.s.buffer)
        w   == Clear(IF len > 1048576 THEN Log(c, <<"TOO-LARGE", len>>) ELSE c)
    IN  IF len = 0 THEN Log(w, <<"KEEP-ALIVE">>)
        ELSE Goto([w EXCEPT !.s.skip = len], "msg")

MsgDoneNoDecrement(c) ==
    LET id == c.s.buffer[1]
        w  == Clear(c)
    IN  IF id \in DOMAIN PlainName THEN CheckZero(Log(w, <<PlainName[id]>>))
        ELSE IF id \in DOMAIN BodyState THEN Goto(w, BodyState[id])
        ELSE Goto(Log(w, <<"MSG", MsgTypeName(id)>>), "skip")

MsgDone(c) ==
    LET id == c.s.buffer[1]
        w  == Less(Clear(c), 1)
    IN  IF id \in DOMAIN PlainName THEN CheckZero(Log(w, <<PlainName[id]>>))
        ELSE IF id \in DOMAIN BodyState THEN Goto(w, BodyState[id])
        ELSE Goto(Log(w, <<"MSG", MsgTypeName(id)>>), "skip")

IndexDone(c) ==
    CheckZero(Less(Clear(Log(c, <<IndexName[c.s.state], ReadU32(c.s.buffer)>>)), 4))

ExtensionDoneOwnMap(c) ==
    LET id == c.s.buffer[1]
        w  == Less(Clear(c), 1)
    IN  IF id = 0 THEN Goto(w, "extension_handshake")
        ELSE Goto(Log(w, ExtLabel(c.s.ext, id)), "skip")

(* an extension message is named from the OTHER side's handshake *)
ExtensionDone(c) ==
    LET id == c.s.buffer[1]
        w  == Less(Clear(c), 1)
    IN  IF id = 0 THEN Goto(w, "extension_handshake")
        ELSE Goto(Log(w, ExtLabel(c.peer, id)), "skip")

ExtHandshakeDone(c) ==
    LET b == c.s.buffer
        w == IF Bdecodable(b)
             THEN [Log(c, <<"EXTENSION-HANDSHAKE", Decode(b)>>)
                      EXCEPT !.s.ext = FoldLeft(Learn, @, Decode(b))]
             ELSE Log(c, <<"EXTENSION-HANDSHAKE", "error">>)
    IN  Goto([Clear(w) EXCEPT !.s.skip = 0], "length")

BlockDone(c) ==
    LET b == c.s.buffer
    IN  CheckZero(Less(Clear(Log(c, <<BlockName[c.s.state], ReadU32(SubSeq(b, 1, 4)),
                                      ReadU32(SubSeq(b, 5, 8)), ReadU32(SubSeq(b, 9, 12))>>)), 12))

PieceDone(c) ==
    LET b == c.s.buffer
    IN  Goto(Less(Clear(Log(c, <<"PIECE", ReadU32(SubSeq(b, 1, 4)),
                                 ReadU32(SubSeq(b, 5, 8))>>)), 8), "skip")

DhtPortDone(c) == CheckZero(Less(Clear(Log(c, <<"DHT-PORT", ReadU16(c.s.buffer)>>)), 2))

BitfieldDone(c) == Goto([Clear(Log(c, <<"BITFIELD", c.s.buffer>>)) EXCEPT !.s.skip = 0], "length")

(* the field of the current state is complete: its handler *)
FieldDone(c) ==
    CASE c.s.state = "protocol"  -> ProtocolDone(c)
      [] c.s.state = "reserved"  -> ReservedDone(c)
      [] c.s.state = "info_hash" -> InfoHashDone(c)
      [] c.s.state = "peer_id"   -> PeerIdDone(c)
      [] c.s.state = "length"    -> LengthDone(c)
      [] c.s.state = "msg"       -> MsgDone(c)
      [] c.s.state \in {"have", "allowed_fast", "suggest"} -> IndexDone(c)
      [] c.s.state = "extension" -> ExtensionDone(c)
      [] c.s.state = "extension_handshake" -> ExtHandshakeDone(c)
      [] c.s.state \in {"request", "reject", "cancel"} -> BlockDone(c)
      [] c.s.state = "piece"     -> PieceDone(c)
      [] c.s.state = "dht_port"  -> DhtPortDone(c)
      [] c.s.state = "bitfield"  -> BitfieldDone(c)

(* if (s.state_ == st) { buf = ensure_buffer(buf, n); if (short) return; ... } *)
Field(c, sts, n) ==
    IF c.stop \/ c.s.state \notin sts THEN c
    ELSE LET f == EnsureBuffer(c, n)
         IN  IF f.abort \/ Len(f.s.buffer) < n THEN [f EXCEPT !.stop = TRUE]
             ELSE FieldDone(f)

SkipPayload(c) ==
    IF c.stop \/ c.s.state # "skip" THEN c
    ELSE LET k == Min({Len(c.buf), c.s.skip})
             w == [c EXCEPT !.s.skip = @ - k, !.buf = SubSeq(@, k + 1, Len(@))]
         IN  IF w.s.skip = 0 THEN Goto(w, "length") ELSE w

(* one pass through the body of while (buf.size() > 0) *)
Iteration(c) ==
    LET c1 == Field(c,  {"length"}, 4)
        c2 == Field(c1, {"msg"}, 1)
        c3 == Field(c2, {"have", "allowed_fast", "suggest"}, 4)
        c4 == Field(c3, {"extension"}, 1)
        c5 == Field(c4, {"extension_handshake"}, c4.s.skip)
        c6 == Field(c5, {"request", "reject", "cancel"}, 12)
        c7 == Field(c6, {"piece"}, 8)
        c8 == Field(c7, {"dht_port"}, 2)
        c9 == Field(c8, {"bitfield"}, c8.s.skip)
    IN  IF c9.buf = <<>> THEN [c9 EXCEPT !.stop = TRUE] ELSE SkipPayload(c9)

RECURSIVE MessageLoop(_)
MessageLoop(c) == IF c.stop \/ c.buf = <<>> THEN c ELSE MessageLoop(Iteration(c))

(* Mutant: the protocol string assembled without its length prefix. *)
ParseDataShortProtocol(c) ==
    MessageLoop(Field(Field(Field(Field(c, {"protocol"}, 19), {"reserved"}, 8),
                                {"info_hash"}, 20), {"peer_id"}, 20))

ParseData(c) ==
    MessageLoop(Field(Field(Field(Field(c, {"protocol"}, 20), {"reserved"}, 8),
                                {"info_hash"}, 20), {"peer_id"}, 20))

-----------------------------------------------------------------------------
VARIABLES
    pos,         \* pos[d]: bytes of direction d handed to data() so far
    side,        \* state_[d]: the bittorrent_side_state (offset_ left out)
    transcript,  \* transcript[d]: the lines of direction d in the file
    open,        \* log_.is_open()
    disabled,    \* disabled_
    aborted      \* an exception left data() and main() caught it

vars == <<pos, side, transcript, open, disabled, aborted>>

States == {"protocol", "reserved", "info_hash", "peer_id", "length", "msg",
           "have", "dht_port", "allowed_fast", "request", "piece", "cancel",
           "suggest", "reject", "bitfield", "extension", "extension_handshake", "skip"}

TypeOK ==
    /\ pos \in [Dir -> Nat] /\ \A d \in Dir : pos[d] <= Len(Bytes[d])
    /\ open \in BOOLEAN /\ disabled \in BOOLEAN /\ aborted \in BOOLEAN
    /\ \A d \in Dir :
        /\ side[d].state \in States
        /\ side[d].skip \in 0 .. Word - 1
        /\ side[d].buffer \in Seq(0 .. 255)
        \* the buffer never holds more than the field being assembled
        /\ Len(side[d].buffer) <= Max({20, side[d].skip})

Init ==
    /\ pos = [d \in Dir |-> 0]
    /\ side = [d \in Dir |-> [state |-> "protocol", skip |-> 0, buffer |-> <<>>,
                              reserved |-> <<>>, ext |-> <<>>]]
    /\ transcript = [d \in Dir |-> <<>>]
    /\ open = FALSE
    /\ disabled = FALSE
    /\ aborted = FALSE

(* the run sizes the reassembler can hand over, the last one included *)
Sizes(d) ==
    LET rest == Len(Bytes[d]) - pos[d]
    IN  {k \in Chunks \cup {rest} : 1 <= k /\ k <= rest}

Causal(d, n) == \A a \in After[d] : pos[d] + n > a[1] => pos[Opposite(d)] >= a[2]

(* The connection's state as one record, and a record made the next one. *)
Conn == [pos |-> pos, side |-> side, transcript |-> transcript, open |-> open,
         disabled |-> disabled, aborted |-> aborted]

Become(st) ==
    /\ pos' = st.pos /\ side' = st.side /\ transcript' = st.transcript
    /\ open' = st.open /\ disabled' = st.disabled /\ aborted' = st.aborted

(* parse_bittorrent::data(ts, buf, d): nothing once disabled_, an ACK line *)
(* for an empty buffer, else the parser over the bytes.                    *)
OnData(st, d, bytes) ==
    LET st1 == [st EXCEPT !.pos[d] = @ + Len(bytes)]
    IN  IF st.disabled THEN st1
        ELSE IF bytes = <<>>
        THEN IF st.open THEN [st1 EXCEPT !.transcript[d] = Append(@, <<"ACK">>)] ELSE st1
        ELSE LET r == ParseData([s |-> st.side[d], buf |-> bytes, ev |-> <<>>,
                                 open |-> st.open, disabled |-> st.disabled,
                                 stop |-> FALSE, abort |-> FALSE,
                                 peer |-> st.side[Opposite(d)].ext])
             IN  [st1 EXCEPT !.side[d] = r.s, !.transcript[d] = @ \o r.ev,
                             !.open = r.open, !.disabled = r.disabled,
                             !.aborted = r.abort]

(* parse_bittorrent::event(ts, e, d): one line, lost while log_ is closed *)
OnEvent(st, d, e) ==
    IF st.open THEN [st EXCEPT !.transcript[d] = Append(@, <<e>>)] ELSE st

(* main() hands the capture to the connection's data() for the next n     *)
(* bytes of direction d; nothing is processed once main() has returned    *)
(* after an exception.                                                    *)
Data(d, n) ==
    /\ ~aborted
    /\ Causal(d, n)
    /\ Become(OnData(Conn, d, SubSeq(Bytes[d], pos[d] + 1, pos[d] + n)))

Next == \E d \in Dir : \E n \in Sizes(d) : Data(d, n)

Spec == Init /\ [][Next]_vars

-----------------------------------------------------------------------------
(* Properties                                                              *)

(* Segmentation independence: once the first info-hash has created the    *)
(* transcript file, wherever the reassembler cut the stream and however   *)
(* the two directions' data() calls interleaved, each direction's lines   *)
(* are exactly the lines its messages call for, in order, up to the bytes *)
(* delivered so far: every handshake field (written late for the side     *)
(* that opened the file), every message, and extension messages named by  *)
(* the other side's extension handshake.                                  *)
TranscriptMatchesMessages ==
    open /\ ~disabled => \A d \in Dir : transcript[d] = ExpectedUpTo(d, pos[d])

(* skip_ counts down the rest of the message a length prefix announced, so *)
(* it never exceeds the bytes the parser has not yet accounted for.  The   *)
(* fixed-size fields subtract from the uint32 skip_ without a check.       *)
SkipWithinStream ==
    \A d \in Dir : side[d].skip <= Len(Bytes[d]) - pos[d] + Len(side[d].buffer)

(* The spec's failure model: an anomaly in a stream (here a length prefix  *)
(* far beyond 1 MiB, which the code only warns about) is recorded and      *)
(* processing continues; no stream's bytes end the program through the    *)
(* exception handler of main().                                            *)
NeverAborts == ~aborted

=============================================================================
