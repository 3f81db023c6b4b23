--------------------------- MODULE TcpConnection ---------------------------
(***************************************************************************)
(* One TCP connection as the extractor (src/main.cpp) sees it: the TCP     *)
(* branch of processor::process, which routes a captured segment to the    *)
(* connection's tcp_state and installs / erases it in tcp_streams_, and    *)
(* tcp_state<Handler> itself (src/tcp_state.hpp), which reassembles the    *)
(* two byte streams and hands them to the handler in order.                *)
(*                                                                         *)
(* The capture is the environment: each side sends its SYN, its data       *)
(* segments and its FIN, and the capture may show any of them in any       *)
(* order, any number of times, or never (a retransmit is a duplicate).     *)
(* A byte of side d is modelled by its offset in d's stream, so the bytes  *)
(* handed to handler.data() are checked against the stream itself.         *)
(***************************************************************************)
EXTENDS Integers, Sequences, SequencesExt, FiniteSets, TLC

CONSTANTS
  SeqBits,       \* width of a TCP sequence number (32 in the code)
  Isn,           \* Isn[d]: the initial sequence number side d picks
  SegLens,       \* SegLens[d]: payload sizes of the segments d sends, in order
  Repacketize,   \* a retransmit may coalesce two adjacent segments into one
  ReplaySynAck,  \* a duplicate SYN+ACK may be captured after the responder's data
  FinWithData,   \* the last data segment of a side carries the FIN flag
  FinOvertakes   \* a side's FIN may be captured ahead of data still in flight

Dir == {"out", "in"}

ASSUME SeqBits \in 2 .. 16
ASSUME Isn \in [Dir -> 0 .. 2^SeqBits - 1]
ASSUME \A d \in Dir : SegLens[d] \in Seq(1 .. 2^SeqBits \div 2 - 1)
ASSUME {Repacketize, ReplaySynAck, FinWithData, FinOvertakes} \subseteq BOOLEAN

VARIABLES
  exists,     \* the connection is in tcp_streams_
  seqnr,      \* seqnr[d]: tcp_side_state::seqnr, the next byte expected
  closed,     \* closed[d]: tcp_side_state::closed
  ooo,        \* ooo[d]: tcp_side_state::ooo_, sequence number -> payload
  delivered,  \* delivered[d]: every byte handed to handler.data() for d
  calls,      \* the handler.data() and handler.event() calls of the last step
  captured,   \* the packets of MustArrive the capture has shown so far
  reset       \* an RST has been captured

connVars == <<exists, seqnr, closed, ooo, delivered>>
vars == <<exists, seqnr, closed, ooo, delivered, calls, captured, reset>>

Mod == 2^SeqBits

Opposite(d) == IF d = "out" THEN "in" ELSE "out"

(***************************************************************************)
(* Sequence-number arithmetic (tcp_state::packet): `incoming` is ahead of  *)
(* `expected` when their difference, as an unsigned SeqBits-wide number,   *)
(* is below max / 2.                                                        *)
(***************************************************************************)
\* Mutant: a naive unsigned comparison that ignores the wrap.
SeqAheadNaive(incoming, expected) == incoming > expected

SeqAhead(incoming, expected) == (incoming - expected) % Mod < (Mod - 1) \div 2

NoSegments == [s \in {} |-> <<>>]

\* std::map::emplace: inserts only when the key is not already present.
Emplace(m, k, v) == IF k \in DOMAIN m THEN m ELSE m @@ (k :> v)

EraseKey(m, k) == [s \in DOMAIN m \ {k} |-> m[s]]

\* A call tcp_state makes on its Handler.
DataCall(d, bytes) == [op |-> "data", dir |-> d, data |-> bytes]
EventCall(d, e) == [op |-> "event", dir |-> d, ev |-> e]

(***************************************************************************)
(* The streams and the packets each side puts on the wire.                 *)
(***************************************************************************)
Offset(d, i) == FoldLeft(+, 0, SubSeq(SegLens[d], 1, i - 1))
Total(d) == Offset(d, Len(SegLens[d]) + 1)
StreamOf(d) == [j \in 1 .. Total(d) |-> j - 1]
SeqAt(d, off) == (Isn[d] + 1 + off) % Mod

Packet(d, flags, off, data) ==
  [dir |-> d, flags |-> flags, seq |-> SeqAt(d, off), data |-> data]

Segment(d, lo, hi) ==
  Packet(d, IF FinWithData /\ hi = Total(d) THEN {"fin"} ELSE {},
         lo, SubSeq(StreamOf(d), lo + 1, hi))

Originals(d) ==
  {Segment(d, Offset(d, i), Offset(d, i + 1)) : i \in 1 .. Len(SegLens[d])}
Coalesced(d) ==
  IF Repacketize
  THEN {Segment(d, Offset(d, i), Offset(d, i + 2)) : i \in 1 .. Len(SegLens[d]) - 1}
  ELSE {}

SynPkt    == [dir |-> "out", flags |-> {"syn"}, seq |-> Isn["out"], data |-> <<>>]
SynAckPkt == [dir |-> "in", flags |-> {"syn", "ack"}, seq |-> Isn["in"], data |-> <<>>]
AckPkt(d) == Packet(d, {}, 0, <<>>)
FinPkt(d) == Packet(d, {"fin"}, Total(d), <<>>)
RstPkt(d) == Packet(d, {"rst"}, 0, <<>>)
Fins == IF FinWithData THEN {} ELSE {FinPkt(d) : d \in Dir}

\* The packets a lossless capture shows at least once.
MustArrive == {SynPkt, SynAckPkt} \cup UNION {Originals(d) : d \in Dir} \cup Fins

Wire == MustArrive \cup UNION {Coalesced(d) \cup {AckPkt(d), RstPkt(d)} : d \in Dir}

(***************************************************************************)
(* When the capture may show a packet: the handshake in causal order, a    *)
(* SYN+ACK retransmitted only before the responder's data (unless          *)
(* ReplaySynAck), data after the handshake in any order and any number of  *)
(* times, a side's FIN once all of its data was on the wire (or, with     *)
(* FinOvertakes, once the handshake was, reordered ahead of that data).   *)
(***************************************************************************)
MayCapture(p) ==
  \/ p = SynPkt /\ (p \notin captured \/ exists)
  \/ /\ p = SynAckPkt
     /\ SynPkt \in captured
     /\ ReplaySynAck \/ p \notin captured \/ captured \cap Originals("in") = {}
  \/ \E d \in Dir :
       /\ SynAckPkt \in captured
       /\ \/ p \in Originals(d) \cup Coalesced(d) \cup {AckPkt(d), RstPkt(d)}
          \/ p \in Fins /\ p.dir = d /\ (FinOvertakes \/ Originals(d) \subseteq captured)

TypeOK ==
  /\ exists \in BOOLEAN
  /\ seqnr \in [Dir -> 0 .. Mod - 1]
  /\ closed \in [Dir -> BOOLEAN]
  /\ \A d \in Dir : DOMAIN ooo[d] \subseteq 0 .. Mod - 1
  /\ delivered \in [Dir -> Seq(Nat)]
  /\ calls \in Seq([op : {"data"}, dir : Dir, data : Seq(Nat)]
                   \cup [op : {"event"}, dir : Dir, ev : {"FIN", "RESET", "MISMATCH"}])
  /\ captured \subseteq MustArrive
  /\ reset \in BOOLEAN

Init ==
  /\ exists = FALSE
  /\ seqnr = [d \in Dir |-> 0]
  /\ closed = [d \in Dir |-> FALSE]
  /\ ooo = [d \in Dir |-> NoSegments]
  /\ delivered = [d \in Dir |-> <<>>]
  /\ calls = <<>>
  /\ captured = {}
  /\ reset = FALSE

\* tcp_streams_.erase(it): the tcp_state and its handler are destroyed.
Erase ==
  /\ exists' = FALSE
  /\ seqnr' = [d \in Dir |-> 0]
  /\ closed' = [d \in Dir |-> FALSE]
  /\ ooo' = [d \in Dir |-> NoSegments]
  /\ UNCHANGED delivered

\* A step that changes nothing and calls nothing.
Ignore == UNCHANGED connVars /\ calls' = <<>>

(***************************************************************************)
(* The drain loop of tcp_state::packet: while the segment at the new       *)
(* expected sequence number is buffered, deliver it, advance, erase it.    *)
(* Returns <<seqnr, ooo_, the payloads handed to handler.data()>>.         *)
(***************************************************************************)
\* Mutant: advances by one per buffered segment, as utp_state does.
RECURSIVE DrainByOne(_, _, _)
DrainByOne(sn, buf, out) ==
  IF sn \in DOMAIN buf
  THEN DrainByOne((sn + 1) % Mod, EraseKey(buf, sn), Append(out, buf[sn]))
  ELSE <<sn, buf, out>>

\* Mutant: delivers a buffered segment but never erases it.
RECURSIVE DrainKeep(_, _, _)
DrainKeep(sn, buf, out) ==
  IF sn \in DOMAIN buf /\ Len(out) < Mod
  THEN DrainKeep((sn + Len(buf[sn])) % Mod, buf, Append(out, buf[sn]))
  ELSE <<sn, buf, out>>

RECURSIVE Drain(_, _, _)
Drain(sn, buf, out) ==
  IF sn \in DOMAIN buf
  THEN Drain((sn + Len(buf[sn])) % Mod, EraseKey(buf, sn), Append(out, buf[sn]))
  ELSE <<sn, buf, out>>

(***************************************************************************)
(* processor::process, TCP branch.                                         *)
(***************************************************************************)

\* SYN+ACK: the responder's SYN, looked up under the reversed key.
SynAckFound(p) ==
  /\ {"syn", "ack"} \subseteq p.flags
  /\ exists
  /\ seqnr' = [seqnr EXCEPT !["in"] = (p.seq + 1) % Mod]
  /\ calls' = <<>>
  /\ UNCHANGED <<exists, closed, ooo, delivered>>

SynAckUnknown(p) ==
  /\ {"syn", "ack"} \subseteq p.flags
  /\ ~exists
  /\ Ignore

\* SYN: a fresh tcp_state is emplaced and syn(hdr, out) called.
SynNew(p) ==
  /\ "syn" \in p.flags /\ "ack" \notin p.flags
  /\ ~exists
  /\ exists' = TRUE
  /\ seqnr' = [d \in Dir |-> IF d = "out" THEN (p.seq + 1) % Mod ELSE 0]
  /\ closed' = [d \in Dir |-> FALSE]
  /\ ooo' = [d \in Dir |-> NoSegments]
  /\ calls' = <<>>
  /\ UNCHANGED delivered

\* A SYN for a key already in the table is ignored.
SynDuplicate(p) ==
  /\ "syn" \in p.flags /\ "ack" \notin p.flags
  /\ exists
  /\ Ignore

\* FIN: tcp_state::fin marks the side closed and reports the event; the
\* entry is erased once both sides are closed.
FinHalf(p) ==
  /\ "syn" \notin p.flags /\ "fin" \in p.flags
  /\ exists
  /\ ~closed[Opposite(p.dir)]
  /\ closed' = [closed EXCEPT ![p.dir] = TRUE]
  /\ calls' = <<EventCall(p.dir, "FIN")>>
  /\ UNCHANGED <<exists, seqnr, ooo, delivered>>

FinBoth(p) ==
  /\ "syn" \notin p.flags /\ "fin" \in p.flags
  /\ exists
  /\ closed[Opposite(p.dir)]
  /\ calls' = <<EventCall(p.dir, "FIN")>>
  /\ Erase

\* RST: tcp_state::rst reports the event, then the entry is erased.
Rst(p) ==
  /\ "syn" \notin p.flags /\ "fin" \notin p.flags /\ "rst" \in p.flags
  /\ exists
  /\ calls' = <<EventCall(p.dir, "RESET")>>
  /\ Erase

\* A non-SYN segment matching neither key is dropped.
Unknown(p) ==
  /\ "syn" \notin p.flags
  /\ ~exists
  /\ Ignore

IsData(p) == exists /\ p.flags \cap {"syn", "fin", "rst"} = {}

\* tcp_state::packet, empty payload: returns at once.
SegmentEmpty(p) ==
  /\ IsData(p) /\ Len(p.data) = 0
  /\ Ignore

\* tcp_state::packet, ahead of the expected byte: buffered in ooo_.
SegmentAhead(p) ==
  /\ IsData(p) /\ Len(p.data) > 0
  /\ p.seq # seqnr[p.dir]
  /\ SeqAhead(p.seq, seqnr[p.dir])
  /\ ooo' = [ooo EXCEPT ![p.dir] = Emplace(@, p.seq, p.data)]
  /\ calls' = <<>>
  /\ UNCHANGED <<exists, seqnr, closed, delivered>>

\* tcp_state::packet, behind: silent when it ends at seqnr (a clean
\* retransmit), else a seqnr_mismatch event.  The sum is uint32 plus the
\* span's size, computed in 64 bits: it does not wrap with the sequence
\* numbers.
SegmentBehind(p) ==
  /\ IsData(p) /\ Len(p.data) > 0
  /\ p.seq # seqnr[p.dir]
  /\ ~SeqAhead(p.seq, seqnr[p.dir])
  /\ calls' = IF p.seq + Len(p.data) # seqnr[p.dir]
              THEN <<EventCall(p.dir, "MISMATCH")>> ELSE <<>>
  /\ UNCHANGED connVars

\* Mutant: the drained segments handed to the handler before the segment
\* that released them.
DeliverReversed(d, segs) ==
  /\ calls' = [i \in 1 .. Len(segs) |-> DataCall(d, segs[Len(segs) + 1 - i])]
  /\ delivered' = [delivered EXCEPT ![d] = @ \o FlattenSeq(segs)]

\* The handler calls of an in-order segment and of the segments drained
\* behind it, and what they append to the delivered stream.
Deliver(d, segs) ==
  /\ calls' = [i \in 1 .. Len(segs) |-> DataCall(d, segs[i])]
  /\ delivered' = [delivered EXCEPT ![d] = @ \o FlattenSeq(segs)]

\* Mutant: the cursor kept in a wider integer, not truncated to SeqBits.
SegmentInOrderUnwrapped(p) ==
  /\ IsData(p) /\ Len(p.data) > 0
  /\ p.seq = seqnr[p.dir]
  /\ LET r == Drain(p.seq + Len(p.data), ooo[p.dir], <<p.data>>)
     IN /\ seqnr' = [seqnr EXCEPT ![p.dir] = r[1]]
        /\ ooo' = [ooo EXCEPT ![p.dir] = r[2]]
        /\ Deliver(p.dir, r[3])
  /\ UNCHANGED <<exists, closed>>

\* Mutant: delivers the segment but forgets `s.seqnr += buf.size()`.
SegmentInOrderNoAdvance(p) ==
  /\ IsData(p) /\ Len(p.data) > 0
  /\ p.seq = seqnr[p.dir]
  /\ LET r == Drain(p.seq, ooo[p.dir], <<p.data>>)
     IN /\ seqnr' = [seqnr EXCEPT ![p.dir] = r[1]]
        /\ ooo' = [ooo EXCEPT ![p.dir] = r[2]]
        /\ Deliver(p.dir, r[3])
  /\ UNCHANGED <<exists, closed>>

\* tcp_state::packet, in order: deliver, advance, then drain ooo_.
SegmentInOrder(p) ==
  /\ IsData(p) /\ Len(p.data) > 0
  /\ p.seq = seqnr[p.dir]
  /\ LET r == Drain((p.seq + Len(p.data)) % Mod, ooo[p.dir], <<p.data>>)
     IN /\ seqnr' = [seqnr EXCEPT ![p.dir] = r[1]]
        /\ ooo' = [ooo EXCEPT ![p.dir] = r[2]]
        /\ Deliver(p.dir, r[3])
  /\ UNCHANGED <<exists, closed>>

Process(p) ==
  \/ SynAckFound(p) \/ SynAckUnknown(p)
  \/ SynNew(p) \/ SynDuplicate(p)
  \/ FinHalf(p) \/ FinBoth(p) \/ Rst(p) \/ Unknown(p)
  \/ SegmentEmpty(p) \/ SegmentAhead(p) \/ SegmentBehind(p) \/ SegmentInOrder(p)

\* The capture shows packet p and process() handles it.
Capture(p) ==
  /\ MayCapture(p)
  /\ Process(p)
  /\ captured' = captured \cup ({p} \cap MustArrive)
  /\ reset' = (reset \/ "rst" \in p.flags)

Next == \E p \in Wire : Capture(p)

\* pcap_loop hands every record of the capture to process(): a packet the
\* capture contains is eventually processed.
Fairness == \A p \in MustArrive : WF_vars(Capture(p) /\ p \notin captured)

Spec == Init /\ [][Next]_vars
FairSpec == Spec /\ Fairness
-----------------------------------------------------------------------------
(***************************************************************************)
(* Properties.                                                             *)
(***************************************************************************)

\* The bytes tcp_state::packet hands to the handler, for each direction, are
\* always a prefix of what that side sent, and every step only appends the
\* next bytes: no byte is duplicated, skipped or delivered out of order,
\* whatever order and however often the capture shows the segments.
ABS == INSTANCE ByteStream WITH Stream <- [d \in Dir |-> StreamOf(d)]
Refines == ABS!Spec

\* While the connection is open and a side's SYN has been seen, seqnr is
\* the sequence number of the first byte not yet handed to the handler:
\* the reassembler's cursor and the delivered stream never drift apart.
SynSeen(d) == IF d = "out" THEN TRUE ELSE SynAckPkt \in captured
ExpectedAtDeliveredEdge ==
  exists => \A d \in Dir :
              SynSeen(d) => seqnr[d] = SeqAt(d, Len(delivered[d]))

\* Every segment buffered in ooo_ is strictly ahead of seqnr, so it can
\* still be drained; a segment that fell behind would never be released.
OooStrictlyAhead ==
  exists => \A d \in Dir : \A k \in DOMAIN ooo[d] :
              k # seqnr[d] /\ SeqAhead(k, seqnr[d])

\* With a capture that shows every packet at least once, each direction's
\* whole stream is eventually handed to the handler (unless an RST ends
\* the connection first).
Complete == \A d \in Dir : delivered[d] = StreamOf(d)
EventuallyComplete == <>(reset \/ Complete)
=============================================================================
