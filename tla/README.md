# TLA+ models of bittorrent-trace

These modules model the source under `src/`. That covers the pcap extractor (`main.cpp` with
`tcp_state.hpp`, `utp_state.hpp`, `stream_key.hpp`, `utphdr.hpp` and `bittorrent.hpp`) and the
`analyze_utp` printer (`analyze.cpp`). TLC checks every run listed in `PROJECT.json`.

## The system

The extractor is one thread. `pcap_loop` hands each captured frame to
`processor::process` (`main.cpp`). That function checks the EtherType, the IP header length and version, and cuts
the IP payload to `ip_len` (`main.cpp` 110-130). It then goes one of two ways:

* **TCP demultiplexer** (`main.cpp` 163-228). It keeps a `std::map<stream_key, tcp_state>`.
  * A SYN creates an entry, and a SYN+ACK is looked up under the reversed key.
  * Any other segment is looked up under the key (direction `out`) or the reversed key
    (direction `in`). It then goes to `fin`, `rst` or `packet`.
  * The entry is erased on RST, and on a FIN once both sides are closed.
* **TCP header checks** (`main.cpp` 132-161). A data offset below 5 is dropped, and so is an IP
  fragment by the raw `ip_off` test below.
* **uTP header checks** (`main.cpp` 229-279). The UDP branch drops datagrams too short for a
  uTP header, with a version other than 1, a type past `ST_SYN`, an extension byte of 3 or more,
  port 443, or an extension-option chain that runs past the datagram. It also drops IP fragments
  by a test on the raw `ip_off`.
* **uTP demultiplexer** (`main.cpp` 281-322, `find_utp_stream` 90-109). It keeps a
  `std::map<utp_stream_key, utp_state>`. The key is the address pair plus a 16-bit connection id.
  * A SYN with id `c` is stored under `c+1`, the id the initiator later sends with.
  * A lookup probes the key (out), then the reversed key with the id, the id+1 and the id-1 (in).
* **Reassemblers** (`tcp_state`, `utp_state`). Each direction has an expected sequence number
  `seqnr` and a `std::map` `ooo_` of segments that arrived ahead of it.
  * An in-order segment is handed to the handler, `seqnr` advances, and `ooo_` is drained.
  * A segment ahead of `seqnr` (by less than half the sequence space) is buffered.
  * A segment behind `seqnr` is dropped.
  * TCP counts bytes in 32 bits; uTP counts packets in 16 bits.
  * uTP takes the first packet of a direction with no SYN seen as the start of that direction
    (the "cold start").
* **Dissector** (`parse_bittorrent`, `bittorrent.hpp`). This is the handler of each connection.
  * Each direction has a `bittorrent_side_state`: `state_`, `skip_`, `buffer_`, `reserved_` and
    `extensions_`.
  * The connection shares one transcript file `log_`, opened at the first info-hash, and a
    `disabled_` flag set by a bad handshake.
  * `data()` is called with every in-order run of bytes. It parses as far as the bytes go and
    keeps partial fields in `buffer_`.

`analyze_utp` (`analyze.cpp`) is a second program. It prints one line per uTP packet, filtered by
`--focus-id` and `--stats`. It counts packets per connection id and prints a later IP fragment
only when its IP id is the one in `last_printed_fragment_id_`.

The hard behaviour comes from the input, not from threads. A capture may show packets reordered,
duplicated or missing, and sequence numbers and ids wrap. Across directions, the dissector sees
the two byte streams in whatever order the reassemblers release them.

## Modules

| module | models | state | actions |
|---|---|---|---|
| `ByteStream` | what a reassembler promises: each direction's delivered bytes are a growing prefix of what the sender sent | `delivered` | `Deliver(d)` |
| `TcpConnection` | TCP branch of `process` and all of `tcp_state`, for one connection | `exists`, `seqnr`, `closed`, `ooo`, `delivered`, plus the environment's `captured` and `reset` | `Capture(p)`: one call of `process`, split into `SynAckFound`, `SynAckUnknown`, `SynNew`, `SynDuplicate`, `FinHalf`, `FinBoth`, `Rst`, `Unknown`, `SegmentEmpty`, `SegmentAhead`, `SegmentBehind`, `SegmentInOrder` |
| `UtpConnection` | uTP branch of `process` after the header checks, `find_utp_stream`, the key functions and all of `utp_state`, for a set `Conns` of connections between two hosts | `streams` (the map, key -> both sides), `delivered` (per stream key and direction), `captured`, `reset` | `Capture(p)` split into `SynFound`, `SynInstall`, `Unknown`, `Fin`, `Reset`, `PacketEmpty`, `PacketAhead`, `PacketBehind`, `PacketInOrder` |
| `PacketHeaders` | the front of `process` from the Ethernet header to the stream lookup: the EtherType, IHL and version checks, the cut to `ip_len` (`IpPayload`), the TCP data-offset check, `get_type`, `get_version`, the uTP header checks, the option loop (`SkipOptions`, RECURSIVE), the big-endian connection id (`BeUint16`) and the fragment test on the raw `ip_off` in both branches | `dgram` (the frame last handed in), `verdict` (where `process` returned, or what it hands on: the TCP branch, or the uTP type, id and payload) | `Receive(dg)` split into `NotIp`, `BadIhl`, `NotV4`, `OtherProto`, `BadThOff`, `TcpFragment`, `TcpAccept`, `BadHeader`, `BadOptions`, `Fragment`, `Accept` |
| `AnalyzeUtp` | `analyze_utp`: `main`'s option loop (`Options`, RECURSIVE, `atoi` into a `uint16_t`, `make_address_v4` throwing on a bad `--home-ip`), `processor::process`, and the end of `main` | `status`, `quiet`, `filter`, `packet_count`, `last_printed`, `printed` (packets whose line was printed), `captured`, `pending`, `dump` (the counters printed at the end) | `Capture(p)` split into `NotUdp`, `TooSmall`, `FirstSuppressed`, `FirstPrinted`, `LaterFragment`; `Finish`: `pcap_loop` returns and `--stats` prints `packet_count_` |
| `BtDissector` | `parse_bittorrent::data` and `event` for both directions | `pos` (bytes delivered), `side` (the two side states), `transcript` (the lines per direction), `open`, `disabled`, `aborted` (an exception left `data()` and `main()` caught it) | `Data(d, n)`: one whole call of `data()` with the next `n` bytes of direction `d`. `OnData` and `OnEvent` are the two handler calls as functions of the connection record `Conn` |
| `TcpBitTorrent` | `processor<parse_bittorrent>` as `main` builds it: `TcpConnection` with `BtDissector` as the handler of its `tcp_state` | `TcpConnection`'s state and its `calls` (the handler calls of the last step), `BtDissector`'s state through an `INSTANCE`, and `repeats` | `CaptureBt(p)`: `TcpConnection`'s `Capture(p)`, then every call in `calls'` run through the dissector, in order, in the same step (`Handle`) |

How the modules are built:

* **Packets.** In the connection modules a packet is a record: direction, flags or type, sequence
  number and payload. The payload is a sequence of stream positions, so the refinement can check
  which bytes arrived.
* **Environment.** `Wire` is every packet either side puts on the wire, plus the ones the tests
  provoke (stray ACKs, RST, coalesced retransmits).
* **Capture order.** `MayCapture` keeps only causality: the handshake comes first, and a FIN comes
  after that side's data (in TcpConnection, unless `FinOvertakes`). Data may otherwise be captured in any order, any number of times, or
  not at all.
* **Whole handlers.** Each case of `process` is one disjunct and includes the whole reassembler
  call. For example, `SegmentInOrder` appends, advances and runs the drain loop `Drain` (a
  RECURSIVE operator) in one step.
* **Erase.** Erasing a map entry resets the entry's state to the constructor values.
* **Dissector pipeline.** `BtDissector` writes the body of `data()` as a pipeline of stage
  operators over a context record.
  * `Field(c, states, n, Done)` is the recurring `if (state) { ensure_buffer; if short return; ... }`.
  * `Iteration` is one pass of the `while` loop, with its stages in the code's order. The order
    matters: a zero-length `bitfield` completes in the same pass as its id.
  * `MessageLoop` repeats `Iteration` until the call returns.
  * A line written while `log_` is closed is lost (`Log`).
  * The first info-hash opens the file and writes that side's HANDSHAKE and RESERVED (`OpenLog`).
* **Data abstraction.** Bytes are integers 0..255. `read_u32` and `read_u16` are real big-endian
  decodes. `bdecode` is an oracle: the extension handshake payload is `'d'`, then pairs of a name
  code and an id, then `'e'`.
* **Two uTP connections.** `UtpConnection` takes the connections as constants: who initiates,
  the connection id and the ISNs. A packet carries its connection and direction labels, which
  only the refinement mapping reads. The code sees only the key: addresses and the 16-bit id.
* **Header bytes.** In `PacketHeaders` a frame is a record of its header fields (EtherType, IP
  version, IHL and protocol, TCP data offset, the uTP fields and the two connection-id bytes), the
  bytes after the 20-byte uTP header up to `ip_len`, the Ethernet padding behind them, and the IP
  flags and offset. Addresses and ports other than 443 only form the stream key, which the
  connection modules take as given. `HostOff` is what a `uint16_t` load of the
  big-endian `ip_off` reads on the host, without `ntohs`. The little-endian build swaps the bytes.
* **Printer output.** In `AnalyzeUtp` each printed line is abstracted to the packet it is about.
  The header and option lines that `process` prints after the fragment bookkeeping change no
  state, so they are left out.
* **Exceptions.** `ensure_buffer` takes an `int`; `IntOf` converts the `uint32_t` `skip_` the way
  the build does. A negative count makes `buffer_.insert` get a reversed range, which libstdc++
  rejects with `std::length_error`; `main()`'s catch ends the program, so `Data` sets `aborted`
  and no further `data()` call happens.
* **Handler calls.** Every `TcpConnection` action sets `calls'`, the sequence of `handler.data()`
  and `handler.event()` calls its `tcp_state` method made: the in-order segment and each segment
  the drain loop releases (`Deliver`), FIN and RESET, and the seqnr-mismatch event of a segment
  behind `seqnr` that is not a clean retransmit. `TcpBitTorrent` folds them through
  `BtDissector`'s `OnData`/`OnEvent` (`Run`), so one capture step is one whole `process()` call.
  After an exception (`aborted`) no further call is made and the capture stops, as `main()`'s
  catch returns.
* **Left out of the dissector.** Timestamps, hex and binary formatting, the `- payload:` progress
  lines and `offset_` are omitted: no property is about them, and `offset_` is never read.

## Properties and runs

| run | cfg | result | what it shows |
|---|---|---|---|
| `tcp_bittorrent` | `TcpBitTorrent.cfg` | pass, 1271 states | see below |
| `tcp_synack_replay` | `TcpSynAckReplay.cfg` | violation of `Refines` | a SYN+ACK retransmitted after the responder's data resets `seqnr[in]`, so the data is delivered twice |
| `tcp_fin_with_data` | `TcpFinWithData.cfg` | violation of `EventuallyComplete` | a FIN segment's payload is never delivered: `process` calls `fin`, not `packet` |
| `utp_demux` | `UtpDemux.cfg` | pass, 2337 states | see below |
| `utp_syn_rerun` | `UtpSynRerun.cfg` | violation of `Refines` | a SYN that leads to a live stream re-runs `syn` on it. TLC's trace: c1 from A has id 65535 and is stored under id+1 = 0. The SYN of a second connection c2 from A, with id 0, finds that entry by the exact-key lookup (`main.cpp` 93), and `syn` rewinds c1's `out` side. c2's responder packets reach the same entry through `swap(s, 0)` (`main.cpp` 96), so c2's data goes to c1's handler. The cfg also allows a second path: a retransmitted SYN is not found (the stream is stored under id+1), `emplace` returns the live entry, and `syn` rewinds `seqnr[out]` |
| `packet_headers` | `PacketHeaders.cfg` | pass, 1726 states | see below |
| `later_fragment` | `PacketFragment.cfg` | violation of `LaterFragmentsDropped` | a last IP fragment (MF clear, offset 1) passes the raw `ip_off` test, and its bytes are parsed as a uTP packet |
| `analyze_utp` | `AnalyzeUtp.cfg` | pass, 775 states | see below |
| `bt_dissector` | `BtDissector.cfg` | pass, 5420 states | see below |
| `bt_handshake_order` | `BtHandshakeOrder.cfg` | violation of `TranscriptMatchesMessages` | `in`'s handshake bytes parsed before `out`'s info-hash; or, as TLC's trace shows, `out`'s first 20 bytes parsed before `in`'s info-hash opens the file. Either way that direction's HANDSHAKE line is lost |
| `bt_short_message` | `BtShortMessage.cfg` | violation of `SkipWithinStream` | a HAVE with length 1 underflows `skip_` and swallows the rest of the stream |
| `bt_huge_length` | `BtHugeLength.cfg` | violation of `NeverAborts` | a BITFIELD with length prefix 2^31 + 1: `skip_` reaches `ensure_buffer` as a negative `int`, `insert` throws, and `main()` stops processing the capture. The code only warns about the length; the spec's failure model says processing is never fatal |

`tcp_bittorrent` runs a BitTorrent session over one TCP connection. Segments are reordered,
duplicated and lost, stray ACKs and a RST may be captured, and out's `seqnr` wraps inside its
second segment. The run shows four things:
* each direction is delivered as a growing prefix (refinement of `ByteStream`);
* every byte is eventually delivered;
* the dissector behind the reassembler writes, for each direction, exactly the message lines the
  spec's table calls for the bytes delivered so far (`TranscriptOfCapture`);
* unless a RST is captured, the file ends up holding the whole session
  (`EventuallyFullTranscript`).

`TcpConnection` alone, over 4-bit sequence numbers, is kept for the configs below. The composed
run keeps every case of its `process` (TLC reaches the drain loop, the RESET, FIN and mismatch
events, and the transcript opening) and replaces the standalone run.

`tcp_state::packet` computes `incoming_seqnr + buf.size()` in the width of `size_t`, not 32 bits
(`tcp_state.hpp` 121). So a clean retransmit whose end crosses the 2^32 wrap is reported as a
seqnr mismatch, although the spec says clean retransmits are ignored. `SegmentBehind` models the
unwrapped sum, and both configs reach such a retransmit. The line is only a diagnostic, and
`TranscriptOfCapture` leaves event lines out, so `PROJECT.json` lists this as a hazard without a
run.

`TcpRepacketize.cfg` is kept beside the runs. It sets `Repacketize TRUE`, so a retransmit may
coalesce two segments. TLC then breaks `OooStrictlyAhead`: the second segment stays in `ooo_`
behind `seqnr` and is never erased. The code's comment says re-packetized messages are not
supported, so this is listed as a hazard rather than as a finding.

`TcpFinOvertakes.cfg` is kept beside the runs too. It sets `FinOvertakes TRUE`, so a side's
FIN may be captured ahead of its own data. TLC then breaks `EventuallyComplete` in nine steps:
out's FIN is captured while out's last segment is missing (`fin` only marks the side closed,
`main.cpp` 195), in's FIN erases the entry, and the late segment finds no connection. The spec
destroys a connection on a FIN from both sides, so this is listed as a hazard rather than as a
finding.

`utp_demux` runs two uTP connections between the same hosts, one opened by each peer (a
simultaneous connect). Their ids are 65535 and 2, three apart across the wrap. Packets of both
interleave, reordered, duplicated and lost, with 16-bit wrap of `seq_nr` and of the id. The run
shows that `find_utp_stream` keeps them apart. Each connection is delivered in order to its own
stream (`Refines`, with `ByteStream` instantiated over `Conns \X Dir`), and eventually in full.

`AnalyzeFragmentId.cfg` is also kept beside the runs. It lets IP ids collide between hosts and
fragments of two datagrams interleave. TLC breaks `FragmentsFollowFirst` in three packets: a
focused DF packet with IP id 7 is printed, and a filtered datagram of another host, also with id
7, then gets its later fragment printed. `PROJECT.json` lists this as a hazard of
`analyze.cpp` 176 and 260.

`packet_headers` hands `process` every frame of a grid:
* EtherType IP or not, IP version 4 or 6, IHL 4 to 6, protocol TCP, UDP or ICMP, data offset 4
  or 5, and a UDP payload too short or long enough for a uTP header;
* version 0 and 1, types 0, 4 and 5, extension bytes 0 to 3, and port 443 on either side;
* every byte string of up to 4 bytes over {0, 1, 2} after the header, with and without a byte of
  Ethernet padding, and connection-id bytes 0,1 and 1,0;
* every combination of DF and MF, with offsets 0, 1, 32 and 185, over UDP and over TCP.

`analyze_utp` starts `analyze_utp` with nine command lines: none, `--stats`, focus 0, focus 2
with `--home-ip`, `--help`, a missing focus value, an option after the file, an empty argv, and
`--stats` with a malformed `--home-ip`.
The capture holds six datagrams: connection ids on both sides of the wrap, a DF packet, one too
small, one on port 443, and a non-UDP frame. Each datagram's fragments are captured back to back
with distinct IP ids.

Two behaviours of `analyze_utp`'s `main` differ from the spec's wording, and no run is spent on
them, because a unit test of the command line shows them at once:
* A malformed `--home-ip` makes `make_address_v4` throw. The catch prints `failed:`, and `main`
  returns 0 (`analyze.cpp` 340, 374-377), where the spec says a usage error exits 1. `Options`
  models it as the status `failed`.
* `--stats` counts every UDP datagram large enough for a uTP header under its connection-id
  bytes, including port-443 datagrams and ones with a bad uTP version, type or extension. The
  count comes before those checks (`analyze.cpp` 148). `StatsDumpCountsDatagrams` states what
  the code counts.

`bt_dissector` shows that, for any split of the two streams into `data()` calls and any causal
interleaving, each direction's transcript equals the reference.

### Properties

* `Refines` (both connection modules). The reassembler implements `ByteStream` under the mapping
  `Stream <- the bytes each side sent`.
  * Every delivery appends the next bytes of the stream.
  * Nothing is delivered twice, skipped or out of order.
  * This is the spec's "contiguous, gap-free prefix".
* `ExpectedAtDeliveredEdge`. Once a direction has a start point (its SYN, or the uTP cold start),
  `seqnr` is exactly the sequence number of the first byte (packet) not yet delivered. This ties
  the reassembler's cursor to the output.
* `OooStrictlyAhead` (TCP). Every buffered key differs from `seqnr` and is ahead of it. Otherwise
  the entry would never be drained, or would be drained after a wrap.
* `EventuallyComplete`. Under fairness, unless a RST was captured, every byte of both directions
  is eventually delivered.
* `TranscriptMatchesMessages` (dissector). Once the file is open, each direction's lines equal
  `ExpectedUpTo(d, pos[d])`. That is the reference list of lines its messages call for, in order,
  cut at the bytes delivered so far.
  * `ExpectedUpTo` is written at message level, from the spec's table (`MsgEvents`). It does not
    parse bytes, so it is independent of the byte-level parser.
  * Extension messages are labelled from the other side's announced map.
  * The property covers segmentation independence (every split point is explored), the cross
    labelling of extension messages, the late handshake lines of the side that opened the file,
    and `check_zero`'s report of trailing bytes.
* `SkipWithinStream`. `skip_` never exceeds the bytes the parser has not yet accounted for. A
  length prefix only ever announces bytes of the stream.
* `UnfragmentedMatchesWireFormat` (`PacketHeaders`). A frame that is not a later fragment
  reaches `find_utp_stream` exactly when the spec's wire format calls it a well-formed uTP packet
  in IPv4 in Ethernet, and the TCP branch exactly when it is a well-formed TCP segment. A uTP
  packet arrives with its big-endian connection id, and with the bytes after its option chain up
  to `ip_len` as payload, so no padding.
  * The reference `OptionChains` describes a chain declaratively: start offsets whose lengths
    add up, and a `next_ext` of 0 only on the last option. `SkipOptions` walks the chain
    recursively, the way the code's loop does.
* `NeverAborts` (`BtDissector`, checked by `bt_huge_length`). No stream's bytes end the program
  through `main()`'s exception handler.
* `LaterFragmentsDropped` (`PacketHeaders`). A datagram with a nonzero fragment offset holds no
  UDP or uTP header, so it never reaches `find_utp_stream`.
* `FocusMatchesSpec` (`AnalyzeUtp`). A first packet is printed exactly when it is not `--stats`,
  not too small, not on port 443, and its connection id is the focus id or one off it, modulo 2^16.
* `FragmentsFollowFirst` (`AnalyzeUtp`). A later fragment is printed exactly when its own
  datagram's first fragment was. This is the comment on `last_printed_fragment_id_`.
* `TranscriptOfCapture` (`TcpBitTorrent`). Once the file is open and the connection is not
  disabled, each direction's message lines (its lines other than FIN, RESET, mismatch and ACK)
  equal `ExpectedUpTo(d, n)`, where `n` is the number of bytes the reassembler has delivered on `d`.
  Whatever the capture order, duplicates and losses, every segment reaches `data()` once and in
  stream order, including the ones the drain loop releases. Its mutant hands the drained segments
  to the handler before the segment that released them.
* `EventuallyFullTranscript` (`TcpBitTorrent`). Under fair capture, unless a RST is captured,
  the transcript file is eventually open, the connection is not disabled, and each direction's
  message lines are its whole expected transcript. The safety properties hold while `log_` is
  closed or `disabled_` is set, so only this property notices a session that never gets a
  transcript. Its mutant assembles the protocol string without its length byte (19 bytes), so
  the handshake is rejected.
* `StatsDumpCountsDatagrams` (`AnalyzeUtp`). When `main` ends after `--stats`, the dump holds,
  for each connection id seen, the number of UDP datagrams that carry that id and are large
  enough for a header. Each datagram is counted once, whatever the fragments of the others
  between its own. Its mutant bumps the counter for later fragments too.
* `TypeOK` in each module. The dissector's `TypeOK` includes "the buffer never holds more than
  the field it is assembling".

Each property of a passing run has a mutant in `PROJECT.json` that TLC catches. Examples:
no 32-bit truncation, draining by one, never erasing `ooo_`, a naive `>` comparison, a cold start
past the first packet, the SYN stored under its own id, `ensure_buffer` without the `min`,
labelling extension messages from the own map, and no `skip_ -= 1`.

### Bounds and why they suffice

* **`TcpConnection` (`MC_TcpConnection`, the configs kept beside the runs and the two TCP
  violation runs).** `SeqBits = 4` (sequence space 16), out ISN 13 and in ISN 6.
  * Out data is three segments of 1, 2 and 1 bytes; in data is two segments of 2 and 1 bytes.
  * The out stream crosses the wrap (14, 15, 0, 1, ...), and the ahead test runs on both sides of
    the wrap.
  * The in stream has a segment buffered ahead of a gap.
  * `ooo_` holds up to two entries, so the drain loop runs for more than one entry.
  * A smaller space keeps the half-space comparison exact. The code's 32-bit width is modelled by
    `% 2^SeqBits` everywhere the code truncates.
* **`UtpConnection`.** The arithmetic is real (65536).
* **`UtpConnection`, two connections (`UtpDemux.cfg`).** c1's id + 1 wraps to 0, so the SYN's
  key and the stream's key differ across the wrap.
  * c1 is opened by A with id 65535 and ISN 65535, so both its id and its seq_nr wrap. It sends
    2 packets out and 1 in.
  * c2 is opened by B with id 2 and ISN 7, and sends 1 packet each way.
  * Three apart is the closest the ±1 probes keep apart. A probe that reaches one further
    crosses the two connections (the mutant `FindUtpStreamWide`).
  * `UtpSynRerun.cfg` puts both connections on A with ids 65535 and 0.
* **`PacketHeaders`.** Each header field takes a value on each side of each check (IHL 4 and 5,
  version 4 and 6, data offset 4 and 5, EtherType IP and another). Option chains of up to 4 bytes reach 0, 1 and 2 options, and lengths that run
  past the end by one. Offset 1 has bit 5 clear, while offset 32 sets it, and 185 is a typical
  real offset. So the grid reaches both outcomes of the byte-swapped MF test.
* **`AnalyzeUtp`.** Focus 0 must match 65535 and 1; focus 2 matches 1 and 3. The DF packet is the
  one unfragmented packet that records its id.
* **`BtDissector`.** The session is the whole handshake on both sides, extension handshakes with
  different ids per side, and one message of most kinds. That includes a HAVE with a trailing
  byte (the `check_zero` error path), an unknown id, and a piece with payload.
  * Chunk sizes are {1, 5, 68} plus "the rest". Size 1 alone reaches every split point; 68
    delivers a whole handshake in one call.
  * `Word = 2^24` stands for the uint32 `skip_`. TLC integers are 32-bit signed. Any width above
    the stream length shows the same wrap behaviour. `Word \div 2` stands for 2^31, where the
    `int` parameter of `ensure_buffer` turns negative; `BtHugeLength.cfg` announces one more.

* **`TcpBitTorrent`.** `SeqBits = 8`, out ISN 230 and in ISN 100.
  * Out sends its handshake, INTERESTED and a KEEP-ALIVE in segments of 20, 48 and 9 bytes. In
    sends its handshake and a HAVE in segments of 68 and 9 bytes.
  * Out's `seqnr` wraps inside its 48-byte segment, which carries the info-hash and peer id.
  * The in handshake is captured only after out's info-hash, since the responder answers it
    (`Answers`). So the file is opened by out, and in's handshake lines are written.
  * `MaxRepeats = 2` bounds the retransmits, duplicates, stray ACKs and RSTs one capture holds.
    Each writes an event line, so the transcript would otherwise grow without bound. Apart from
    the RST, a repeat leaves the reassembler's state as it was, so the bound loses no TCP states.
  * `Word = 2^24` as in the dissector run.

### Fairness

`pcap_loop(h, 0, ...)` hands every record of the capture to `process`, in order, and never stops
early (`main.cpp` 338). So a packet the capture contains is eventually processed. The connection
modules assume weak fairness on capturing each packet of `MustArrive`: the handshake, each
original segment, and each FIN. Retransmits, stray ACKs and RSTs get no fairness, because a
capture need not contain them.

`TcpBitTorrent` assumes weak fairness on `FirstCapture(p)` for each `p` in `MustArrive`: the
first capture of the packet, without the handler's part of the step. The handler's part is a
function of the reassembler's step, so `CaptureBt(p)` is enabled and taken exactly when
`FirstCapture(p)` is. The run sets `CHECK_DEADLOCK FALSE`, because the capture ends after its
last packet.

The dissector run checks only safety, and `CHECK_DEADLOCK FALSE` is set there: the capture ends
once both streams are delivered.

`PacketHeaders` and `AnalyzeUtp` check only safety.
* `PacketHeaders` takes any frame at any step, so it never stops.
* `AnalyzeUtp` sets `CHECK_DEADLOCK FALSE`. `main` may return before `pcap_loop` (on `--help`, a
  bad command line, or a malformed `--home-ip`), and `Finish` is the last step after the
  capture's last packet.

## Not modelled, and the plan

| part | status | plan |
|---|---|---|
| the uTP reassembler composed with the dissector | not modelled | `TcpBitTorrent` shows the TCP path. `utp_state` makes the same `data()` and `event()` calls, so a uTP composition would check the same property over the uTP reassembler; it is the next step |
| `analyze_utp`'s `--home-ip` colouring and indent | not modelled | layout and output only |
| the logger (`main.cpp` 58-74) | not modelled | never instantiated: `main` builds `processor<parse_bittorrent>`, and the `processor<logger>` line is commented out. Its `data()` takes no timestamp and it has no `event()`, so `tcp_state` could not call it as written |
| `main`'s pcap setup and `handler_wrapper` | not modelled | I/O; what the models take from it is that `pcap_loop` hands every record to `process` in order (see Fairness), and that an exception ends the program (`aborted`) |
| `array.hpp` | not modelled | an enum-indexed array wrapper with no behaviour beyond indexing |
| a frame shorter than its `ip_len` (snaplen truncation) | not modelled | `subspan` then reaches past the captured record: undefined behaviour of an unchecked span. The model's frames always hold `ip_len` bytes |
| a TCP simultaneous open (`main.cpp` 177-189) | not modelled, a listed hazard | when both sides send a bare SYN, the SYN branch looks up only its own key, so two `tcp_state` entries are made. Each then reassembles one direction as `out`, with two dissectors and two transcripts. `TcpConnection` models one table entry with one initiator. The case needs a second entry under the reversed key, in a run of its own |
| `static int stream_cnt` | not modelled | names transcript files across the connections of one process. The program is single-threaded, so every file gets a distinct number, and the names are not a hazard. The file system is I/O |
