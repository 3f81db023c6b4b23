--------------------------- MODULE UtpConnection ---------------------------
(***************************************************************************)
(* uTP connections as the extractor (src/main.cpp) sees them: the uTP     *)
(* branch of processor::process, which finds the stream for a packet with  *)
(* find_utp_stream (four probes over the key and the connection id),       *)
(* installs a stream on ST_SYN and erases it on ST_FIN / ST_RESET, and     *)
(* utp_state<Handler> (src/utp_state.hpp), which reorders the packets of   *)
(* each direction by their 16-bit sequence numbers.                        *)
(*                                                                         *)
(* Every connection c of Conns runs between the same two endpoints A and  *)
(* B (one UDP port each, as uTP peers use).  Its initiator ("out")         *)
(* announces id ConnId[c] in its SYN and stamps its later packets with     *)
(* ConnId[c] + 1; the responder ("in") stamps its packets with ConnId[c]   *)
(* and is seen first through its ST_STATE reply, which carries the         *)
(* sequence number of its first data packet.  Payloads are abstracted to   *)
(* <<connection, side, index>>, so a packet handed to the wrong stream,    *)
(* the wrong direction or twice is visible in `delivered`.                 *)
(***************************************************************************)
EXTENDS Integers, Sequences, SequencesExt, FiniteSets, TLC

CONSTANTS
  Conns,       \* the connections in the capture
  Initiator,   \* Initiator[c]: the endpoint, "A" or "B", that sends c's SYN
  Isn,         \* Isn[c][d]: the sequence number of side d's SYN / ST_STATE
  ConnId,      \* ConnId[c]: the connection id c's SYN carries
  NumPkts,     \* NumPkts[c][d]: the number of data packets side d sends
  ReplaySyn,   \* a duplicate SYN may be captured after the initiator's data
  NotFound     \* model value: find_utp_stream found no stream

Dir == {"out", "in"}
Mod == 65536       \* std::uint16_t for sequence numbers and connection ids

ASSUME Initiator \in [Conns -> {"A", "B"}]
ASSUME Isn \in [Conns -> [Dir -> 0 .. Mod - 1]]
ASSUME ConnId \in [Conns -> 0 .. Mod - 1]
ASSUME NumPkts \in [Conns -> [Dir -> 1 .. 4]]
ASSUME ReplaySyn \in BOOLEAN

VARIABLES
  streams,    \* utp_streams_: utp_stream_key -> per-direction utp_side_state
  delivered,  \* delivered[k][d]: payloads the handler of the stream under
              \* key k was handed for direction d
  captured,   \* the packets of MustArrive the capture has shown so far
  reset       \* an ST_RESET has been captured

vars == <<streams, delivered, captured, reset>>

Opposite(d) == IF d = "out" THEN "in" ELSE "out"

(***************************************************************************)
(* Keys (src/stream_key.hpp).  An endpoint (address and port) is "A" or  *)
(* "B".                                                                    *)
(***************************************************************************)
Ip(c) == [src |-> Initiator[c], dst |-> IF Initiator[c] = "A" THEN "B" ELSE "A"]
SwapIp(ip) == [src |-> ip.dst, dst |-> ip.src]
Key(ip, c) == [ip |-> ip, connid |-> c]

\* Mutant: the offset is added in int and never truncated to 16 bits.
SwapNoWrap(k, off) == [ip |-> SwapIp(k.ip), connid |-> k.connid + off]

\* swap(k, offset): reverse the endpoints, add offset to the id (uint16).
Swap(k, off) == Key(SwapIp(k.ip), (k.connid + off) % Mod)
IncConnid(k, off) == Key(k.ip, (k.connid + off) % Mod)

(***************************************************************************)
(* processor::find_utp_stream: the key as is (direction out), then the     *)
(* reversed key with the id, the id + 1 and the id - 1 (direction in).     *)
(***************************************************************************)
\* Mutant: the reversed key is also probed with the id + 2 and - 2.
FindUtpStreamWide(k) ==
  LET probes == << <<k, "out">>, <<Swap(k, 0), "in">>, <<Swap(k, 1), "in">>,
                   <<Swap(k, -1), "in">>, <<Swap(k, 2), "in">>, <<Swap(k, -2), "in">> >>
      hits == {i \in 1 .. 6 : probes[i][1] \in DOMAIN streams}
  IN IF hits = {} THEN NotFound ELSE probes[Min(hits)]

FindUtpStream(k) ==
  LET probes == << <<k, "out">>, <<Swap(k, 0), "in">>,
                   <<Swap(k, 1), "in">>, <<Swap(k, -1), "in">> >>
      hits == {i \in 1 .. 4 : probes[i][1] \in DOMAIN streams}
  IN IF hits = {} THEN NotFound ELSE probes[Min(hits)]

(***************************************************************************)
(* utp_state.                                                              *)
(***************************************************************************)
FreshSide == [closed |-> FALSE, connected |-> FALSE, seqnr |-> 0,
              connid |-> 0, ooo |-> [s \in {} |-> <<>>]]
FreshState == [d \in Dir |-> FreshSide]

\* std::uint16_t(hdr.seq_nr - s.seqnr) < max() / 2
SeqAhead(incoming, expected) == (incoming - expected) % Mod < (Mod - 1) \div 2

Emplace(m, k, v) == IF k \in DOMAIN m THEN m ELSE m @@ (k :> v)
EraseKey(m, k) == [s \in DOMAIN m \ {k} |-> m[s]]

\* utp_state::syn
Syn(side, p) == [side EXCEPT !.connected = TRUE,
                             !.seqnr = (p.seq + 1) % Mod,
                             !.connid = p.key.connid]

\* Mutant: the cold start treats the first packet like a SYN.
ColdStartPastFirst(side, p) ==
  IF side.connected THEN side
  ELSE [side EXCEPT !.seqnr = (p.seq + 1) % Mod, !.connected = TRUE,
                    !.connid = p.key.connid]

\* utp_state::packet, first lines: a direction with no SYN seen starts
\* from this packet's sequence number.
ColdStart(side, p) ==
  IF side.connected THEN side
  ELSE [side EXCEPT !.seqnr = p.seq, !.connected = TRUE, !.connid = p.key.connid]

\* The drain loop of utp_state::packet: <<seqnr, ooo_, payloads delivered>>.
RECURSIVE Drain(_, _, _)
Drain(sn, buf, out) ==
  IF sn \in DOMAIN buf
  THEN Drain((sn + 1) % Mod, EraseKey(buf, sn), out \o buf[sn])
  ELSE <<sn, buf, out>>

(***************************************************************************)
(* The packets each side of connection c puts on the wire; `conn` and     *)
(* `dir` label a packet for the properties, the code reads the rest.       *)
(***************************************************************************)
OutIp(c, d) == IF d = "out" THEN Ip(c) ELSE SwapIp(Ip(c))
\* The id a side stamps on its packets after the SYN.
SendId(c, d) == IF d = "out" THEN (ConnId[c] + 1) % Mod ELSE ConnId[c]
FirstSeq(c, d) == IF d = "out" THEN (Isn[c][d] + 1) % Mod ELSE Isn[c][d]

Pkt(c, d, type, seq, data) ==
  [conn |-> c, dir |-> d, type |-> type, key |-> Key(OutIp(c, d), SendId(c, d)),
   seq |-> seq % Mod, data |-> data]

StreamOf(c, d) == [i \in 1 .. NumPkts[c][d] |-> <<c, d, i>>]

SynPkt(c) == [conn |-> c, dir |-> "out", type |-> "ST_SYN",
              key |-> Key(Ip(c), ConnId[c]), seq |-> Isn[c]["out"], data |-> <<>>]
StatePkt(c) == Pkt(c, "in", "ST_STATE", Isn[c]["in"], <<>>)
DataPkts(c, d) ==
  {Pkt(c, d, "ST_DATA", FirstSeq(c, d) + i - 1, <<<<c, d, i>>>>) : i \in 1 .. NumPkts[c][d]}
LastPkt(c, d, type) == Pkt(c, d, type, FirstSeq(c, d) + NumPkts[c][d], <<>>)

MustArrive == UNION {{SynPkt(c), StatePkt(c)} \cup DataPkts(c, "out") \cup DataPkts(c, "in")
                      \cup {LastPkt(c, d, "ST_FIN") : d \in Dir} : c \in Conns}
Wire == MustArrive \cup {LastPkt(c, d, t) : c \in Conns, d \in Dir, t \in {"ST_STATE", "ST_RESET"}}

\* The stream c's SYN installs, and every key a stream can be stored under.
Tracked(c) == IncConnid(SynPkt(c).key, 1)
Keys == UNION {{Key(ip, (ConnId[c] + o) % Mod) : ip \in {Ip(c), SwapIp(Ip(c))}, o \in {0, 1}} : c \in Conns}

(***************************************************************************)
(* When the capture may show a packet of connection c: the SYN (again     *)
(* only while c's stream is installed and its initiator has sent no data, *)
(* unless ReplaySyn), the responder's ST_STATE after it, data and         *)
(* acknowledgements after that in any order and any number of times, a    *)
(* side's FIN once all of its data was on the wire.  The connections      *)
(* interleave freely.                                                     *)
(***************************************************************************)
MayCapture(p) ==
  LET c == p.conn IN
  \/ /\ p = SynPkt(c)
     /\ \/ p \notin captured
        \/ Tracked(c) \in DOMAIN streams
           /\ (ReplaySyn \/ captured \cap DataPkts(c, "out") = {})
  \/ p = StatePkt(c) /\ SynPkt(c) \in captured
  \/ /\ StatePkt(c) \in captured
     /\ p.type # "ST_SYN"
     /\ p.type = "ST_FIN" => DataPkts(c, p.dir) \subseteq captured

TypeOK ==
  /\ DOMAIN streams \subseteq Keys
  /\ \A k \in DOMAIN streams : \A d \in Dir :
       /\ streams[k][d].seqnr \in 0 .. Mod - 1
       /\ streams[k][d].connected \in BOOLEAN
       /\ streams[k][d].closed \in BOOLEAN
       /\ DOMAIN streams[k][d].ooo \subseteq 0 .. Mod - 1
  /\ delivered \in [Keys -> [Dir -> Seq(Conns \X Dir \X Nat)]]
  /\ captured \subseteq MustArrive
  /\ reset \in BOOLEAN

Init ==
  /\ streams = [k \in {} |-> FreshState]
  /\ delivered = [k \in Keys |-> [d \in Dir |-> <<>>]]
  /\ captured = {}
  /\ reset = FALSE

(***************************************************************************)
(* processor::process, uTP branch, after the header checks.                *)
(***************************************************************************)
Found(p) == FindUtpStream(p.key)

\* ST_SYN for a stream find_utp_stream finds: syn(hdr, d) on it.
SynFound(p) ==
  /\ p.type = "ST_SYN"
  /\ Found(p) # NotFound
  /\ LET k == Found(p)[1]  d == Found(p)[2]
     IN streams' = [streams EXCEPT ![k][d] = Syn(@, p)]
  /\ UNCHANGED delivered

\* Mutant: the stream is installed under the SYN's own id.
SynInstallSameId(p) ==
  /\ p.type = "ST_SYN"
  /\ Found(p) = NotFound
  /\ LET t == Emplace(streams, p.key, FreshState)
     IN streams' = [t EXCEPT ![p.key]["out"] = Syn(@, p)]
  /\ UNCHANGED delivered

\* ST_SYN for no known stream: emplace under the id + 1 (emplace keeps an
\* entry already under that key), then syn(hdr, out).
SynInstall(p) ==
  /\ p.type = "ST_SYN"
  /\ Found(p) = NotFound
  /\ LET k == IncConnid(p.key, 1)
         t == Emplace(streams, k, FreshState)
     IN streams' = [t EXCEPT ![k]["out"] = Syn(@, p)]
  /\ UNCHANGED delivered

\* Any other packet of no known stream is dropped.
Unknown(p) ==
  /\ p.type # "ST_SYN"
  /\ Found(p) = NotFound
  /\ UNCHANGED <<streams, delivered>>

\* ST_FIN: utp_state::fin; the stream is erased when both sides are closed.
Fin(p) ==
  /\ p.type = "ST_FIN"
  /\ Found(p) # NotFound
  /\ LET k == Found(p)[1]  d == Found(p)[2]
     IN IF streams[k][Opposite(d)].closed
        THEN streams' = EraseKey(streams, k)
        ELSE streams' = [streams EXCEPT ![k][d].closed = TRUE]
  /\ UNCHANGED delivered

\* ST_RESET: utp_state::rst, then erased.
Reset(p) ==
  /\ p.type = "ST_RESET"
  /\ Found(p) # NotFound
  /\ streams' = EraseKey(streams, Found(p)[1])
  /\ UNCHANGED delivered

IsData(p) == p.type \in {"ST_DATA", "ST_STATE"} /\ Found(p) # NotFound

\* utp_state::packet with no payload: only the cold start takes effect.
PacketEmpty(p) ==
  /\ IsData(p) /\ p.data = <<>>
  /\ LET k == Found(p)[1]  d == Found(p)[2]
     IN streams' = [streams EXCEPT ![k][d] = ColdStart(@, p)]
  /\ UNCHANGED delivered

\* utp_state::packet, ahead of the expected packet: buffered in ooo_.
PacketAhead(p) ==
  /\ IsData(p) /\ p.data # <<>>
  /\ LET k == Found(p)[1]  d == Found(p)[2]
         s == ColdStart(streams[k][d], p)
     IN /\ p.seq # s.seqnr
        /\ SeqAhead(p.seq, s.seqnr)
        /\ streams' = [streams EXCEPT ![k][d] =
                         [s EXCEPT !.ooo = Emplace(@, p.seq, p.data)]]
  /\ UNCHANGED delivered

\* utp_state::packet, behind: a resent packet, ignored.
PacketBehind(p) ==
  /\ IsData(p) /\ p.data # <<>>
  /\ LET k == Found(p)[1]  d == Found(p)[2]
         s == ColdStart(streams[k][d], p)
     IN /\ p.seq # s.seqnr
        /\ ~SeqAhead(p.seq, s.seqnr)
        /\ streams' = [streams EXCEPT ![k][d] = s]
  /\ UNCHANGED delivered

\* Mutant: ++seqnr in a wider integer, never truncated to 16 bits.
PacketInOrderUnwrapped(p) ==
  /\ IsData(p) /\ p.data # <<>>
  /\ LET k == Found(p)[1]  d == Found(p)[2]
         s == ColdStart(streams[k][d], p)
         r == Drain(p.seq + 1, s.ooo, delivered[k][d] \o p.data)
     IN /\ p.seq = s.seqnr
        /\ streams' = [streams EXCEPT ![k][d] = [s EXCEPT !.seqnr = r[1], !.ooo = r[2]]]
        /\ delivered' = [delivered EXCEPT ![k][d] = r[3]]

\* Mutant: delivers the packet but forgets ++s.seqnr.
PacketInOrderNoAdvance(p) ==
  /\ IsData(p) /\ p.data # <<>>
  /\ LET k == Found(p)[1]  d == Found(p)[2]
         s == ColdStart(streams[k][d], p)
         r == Drain(p.seq, s.ooo, delivered[k][d] \o p.data)
     IN /\ p.seq = s.seqnr
        /\ streams' = [streams EXCEPT ![k][d] = [s EXCEPT !.seqnr = r[1], !.ooo = r[2]]]
        /\ delivered' = [delivered EXCEPT ![k][d] = r[3]]

\* utp_state::packet, in order: deliver, ++seqnr, drain ooo_.
PacketInOrder(p) ==
  /\ IsData(p) /\ p.data # <<>>
  /\ LET k == Found(p)[1]  d == Found(p)[2]
         s == ColdStart(streams[k][d], p)
         r == Drain((p.seq + 1) % Mod, s.ooo, delivered[k][d] \o p.data)
     IN /\ p.seq = s.seqnr
        /\ streams' = [streams EXCEPT ![k][d] = [s EXCEPT !.seqnr = r[1], !.ooo = r[2]]]
        /\ delivered' = [delivered EXCEPT ![k][d] = r[3]]

Process(p) ==
  \/ SynFound(p) \/ SynInstall(p) \/ Unknown(p) \/ Fin(p) \/ Reset(p)
  \/ PacketEmpty(p) \/ PacketAhead(p) \/ PacketBehind(p) \/ PacketInOrder(p)

\* The capture shows packet p and process() handles it.
Capture(p) ==
  /\ MayCapture(p)
  /\ Process(p)
  /\ captured' = captured \cup ({p} \cap MustArrive)
  /\ reset' = (reset \/ p.type = "ST_RESET")

Next == \E p \in Wire : Capture(p)

\* pcap_loop hands every record of the capture to process().
Fairness == \A p \in MustArrive : WF_vars(Capture(p) /\ p \notin captured)

Spec == Init /\ [][Next]_vars
FairSpec == Spec /\ Fairness
-----------------------------------------------------------------------------
(***************************************************************************)
(* Properties.                                                             *)
(***************************************************************************)

\* For every connection, the payloads the handler of its stream is handed
\* for each direction are always a prefix of the packets that side sent,
\* and each step only appends the next ones: nothing duplicated, skipped,
\* reordered, or taken from the other direction or from another
\* connection by find_utp_stream's probing.
ABS == INSTANCE ByteStream
         WITH Dir <- Conns \X Dir,
              Stream <- [x \in Conns \X Dir |-> StreamOf(x[1], x[2])],
              delivered <- [x \in Conns \X Dir |-> delivered[Tracked(x[1])][x[2]]]
Refines == ABS!Spec

\* While a connection's stream is installed, each connected direction
\* expects exactly the sequence number of the first packet of that side not
\* yet handed to the handler.
ExpectedAtDeliveredEdge ==
  \A c \in Conns : Tracked(c) \in DOMAIN streams =>
    \A d \in Dir : streams[Tracked(c)][d].connected =>
      streams[Tracked(c)][d].seqnr = (FirstSeq(c, d) + Len(delivered[Tracked(c)][d])) % Mod

\* With a capture that shows every packet at least once, every direction of
\* every connection is eventually handed to its handler in full, unless a
\* connection was reset.
Complete == \A c \in Conns : \A d \in Dir : delivered[Tracked(c)][d] = StreamOf(c, d)
EventuallyComplete == <>(reset \/ Complete)
=============================================================================
