--------------------------- MODULE TcpBitTorrent ---------------------------
(***************************************************************************)
(* The extractor's TCP path end to end: processor<parse_bittorrent>        *)
(* (src/main.cpp) routes each captured segment to the connection's         *)
(* tcp_state<parse_bittorrent> (src/tcp_state.hpp), whose handler is the   *)
(* BitTorrent dissector (src/bittorrent.hpp).  One step is one call of     *)
(* process(): TcpConnection's action for the packet, followed, inside the *)
(* same step, by every handler call that action made, in order: each      *)
(* handler.data() of the in-order segment and of the segments the drain   *)
(* loop releases behind it, and each handler.event() (FIN, RESET,          *)
(* seqnr_mismatch), which parse_bittorrent::event writes to the file.      *)
(*                                                                         *)
(* The reassembler's bytes are offsets into each side's stream; the        *)
(* dissector reads the byte of its BitTorrent session at that offset.      *)
(***************************************************************************)
EXTENDS TcpConnection

CONSTANTS
  Msgs,      \* Msgs[d]: the BitTorrent messages side d sends
  ExtName,   \* byte code of a bencoded extension name -> the name
  Word,      \* 2^32 for the uint32 skip_; smaller in models
  Answers,   \* Answers[d]: <<a, b>>: d's bytes past a answer the other side's first b
  MaxRepeats \* bound on the packets the capture shows beyond one copy of each

VARIABLES
  pos, side, transcript, open, disabled, aborted,  \* the handler, as in BtDissector
  repeats   \* retransmits, duplicates, stray ACKs and RSTs captured so far

btVars == <<pos, side, transcript, open, disabled, aborted>>
allVars == <<vars, btVars, repeats>>

BT == INSTANCE BtDissector WITH Chunks <- {}, After <- [d \in Dir |-> {}]

ASSUME \A d \in Dir : Total(d) = Len(BT!Bytes[d])

\* The bytes at the stream offsets a segment carries.
ToBytes(d, offs) == [i \in 1 .. Len(offs) |-> BT!Bytes[d][offs[i] + 1]]

\* One call tcp_state makes on its parse_bittorrent; after an exception
\* has left process() no further call is made.
Apply(st, c) ==
  IF st.aborted THEN st
  ELSE IF c.op = "data" THEN BT!OnData(st, c.dir, ToBytes(c.dir, c.data))
  ELSE BT!OnEvent(st, c.dir, c.ev)

\* The handler after the calls cs, in order.
RECURSIVE Run(_, _)
Run(st, cs) == IF cs = <<>> THEN st ELSE Run(Apply(st, Head(cs)), Tail(cs))

\* The handler runs every call of this step.
Handle == BT!Become(Run(BT!Conn, calls'))

\* tcp_state's constructor builds its handler from the key: a fresh
\* parse_bittorrent before the SYN.
BtInit == Init /\ BT!Init /\ repeats = 0

(***************************************************************************)
(* The capture is causal across the directions: a side's bytes that answer *)
(* the other side's are seen only after those were.  Every event line     *)
(* grows the file, so the copies beyond the first are bounded.            *)
(***************************************************************************)
Answered(p) ==
  Len(p.data) > 0 =>
    \A a \in Answers[p.dir] :
      p.data[Len(p.data)] >= a[1] =>
        \A q \in Originals(Opposite(p.dir)) : q.data[1] < a[2] => q \in captured

IsRepeat(p) == p \in captured \/ p \notin MustArrive

\* process() handles packet p; main() has not left pcap_loop.
CaptureBt(p) ==
  /\ ~aborted
  /\ Answered(p)
  /\ IsRepeat(p) => repeats < MaxRepeats
  /\ repeats' = IF IsRepeat(p) THEN repeats + 1 ELSE repeats
  /\ Capture(p)
  /\ Handle

BtNext == \E p \in Wire : CaptureBt(p)

\* pcap_loop hands every record to process().  The first capture of a
\* packet is never a repeat, and the handler's part of the step is fixed
\* by the reassembler's: CaptureBt(p) is enabled, and taken, exactly when
\* this is.
FirstCapture(p) == ~aborted /\ Answered(p) /\ p \notin captured /\ Capture(p)

BtFairness == \A p \in MustArrive : WF_vars(FirstCapture(p))

BtSpec == BtInit /\ [][BtNext]_allVars
FairBtSpec == BtSpec /\ BtFairness
-----------------------------------------------------------------------------
(***************************************************************************)
(* Properties.                                                             *)
(***************************************************************************)

\* The lines parse_bittorrent::event writes, and data()'s ACK line.
EventLines == {<<"FIN">>, <<"RESET">>, <<"MISMATCH">>, <<"ACK">>}

MessageLines(d) == SelectSeq(transcript[d], LAMBDA l : l \notin EventLines)

\* Whatever order, how often and whether the capture shows the segments,
\* once the file is open each direction's message lines are exactly the
\* lines the spec's table calls for the bytes of that side's stream the
\* reassembler has delivered: every segment, including the ones the drain
\* loop releases, reaches data() once and in stream order.
TranscriptOfCapture ==
  open /\ ~disabled =>
    \A d \in Dir : MessageLines(d) = BT!ExpectedUpTo(d, Len(delivered[d]))

\* pcap_loop hands every packet of the capture to process() (the fairness
\* above): unless the capture holds a RST, which erases the connection,
\* the transcript file is eventually opened and ends up holding every
\* message line of both sides' handshakes and messages.  Only this
\* property sees a connection that never gets a transcript: the safety
\* properties hold vacuously while log_ is closed or disabled_ is set.
TranscriptComplete ==
  /\ open /\ ~disabled
  /\ \A d \in Dir : MessageLines(d) = BT!ExpectedUpTo(d, Total(d))

EventuallyFullTranscript == <>(reset \/ TranscriptComplete)
=============================================================================
