--------------------------- MODULE PacketHeaders ---------------------------
(***************************************************************************)
(* The front of processor::process (src/main.cpp), from the Ethernet      *)
(* header to the stream lookup: the EtherType, IPv4 header-length and     *)
(* version checks, the cut of the IP payload to ip_len, the protocol      *)
(* dispatch, the TCP data-offset check, and on the UDP side the uTP        *)
(* header checks (src/utphdr.hpp), the walk over the extension-option     *)
(* chain and the IP-fragment test.  One step hands one frame to process() *)
(* and records what the front made of it: dropped at one of its early     *)
(* returns, handed to the TCP branch, or handed to find_utp_stream with   *)
(* its type, connection id and the payload after the options.             *)
(*                                                                         *)
(* A frame is a record: ether (the EtherType), ver and ihl (IP version and *)
(* header length in words), proto; len, the bytes after the UDP header    *)
(* (ip_len counts the IP header, 8 UDP bytes and len); thoff, the TCP     *)
(* data offset; tv and ext, the type_ver and extension bytes; cid, the    *)
(* two connection-id bytes; sport and dport; rest, the bytes after the    *)
(* 20-byte uTP header; trail, bytes of the frame past ip_len (Ethernet    *)
(* padding); flags and offset, the IP flags and fragment offset.          *)
(***************************************************************************)
EXTENDS Integers, Sequences, FiniteSets, Bitwise

CONSTANTS
  Datagrams,     \* the frames the capture may contain
  LittleEndian   \* the build's host byte order

VARIABLES
  dgram,     \* <<dg>>: the frame process() was last handed, if any
  verdict    \* what the front of process() made of it

vars == <<dgram, verdict>>

UtpHdrSize == 20          \* sizeof(utphdr)
UdpHdrSize == 8           \* sizeof(udphdr)
NumTypes == 5             \* NUM_TYPES: ST_DATA .. ST_SYN

\* utphdr::get_type and get_version on the type_ver byte.
GetType(tv) == tv \div 16
GetVersion(tv) == tv % 16

\* be_uint16's conversion: the two stored bytes, most significant first.
BeUint16(b) == (b[1] * 2^8) | b[2]

IpOffMask == 8191         \* IP_OFFMASK 0x1fff
IpMF == 8192              \* IP_MF 0x2000
IpDF == 16384             \* IP_DF 0x4000
\* Where the front returned, or what it hands on.
Drop(where) == [kind |-> where, type |-> 0, connid |-> 0, payload |-> <<>>]

\* The ip_off field as it is on the wire (big-endian) ...
WireOff(dg) == (IF "DF" \in dg.flags THEN IpDF ELSE 0)
               + (IF "MF" \in dg.flags THEN IpMF ELSE 0) + dg.offset
\* ... and as a uint16 load of it reads on the host, without ntohs.
HostOff(dg) == IF LittleEndian
               THEN (WireOff(dg) % 256) * 256 + WireOff(dg) \div 256
               ELSE WireOff(dg)

\* (ip_off & IP_OFFMASK) != 0 && (ip_off & IP_MF) != 0, on the raw field.
FragmentIgnored(dg) ==
  /\ (HostOff(dg) & IpOffMask) # 0
  /\ (HostOff(dg) & IpMF) # 0

\* Mutant: the IP payload taken to the end of the captured frame.
IpPayloadUncut(dg) == dg.rest \o dg.trail

\* pkt.subspan(ip_header_len, ntohs(ip_len) - ip_header_len), seen from
\* behind the UDP and uTP headers: the bytes up to ip_len, none of the
\* frame's padding.
IpPayload(dg) == SubSeq(dg.rest \o dg.trail, 1, dg.len - UtpHdrSize)

\* Mutant: type <= NUM_TYPES lets one value past the last type through.
HeaderOkTypeOffByOne(dg) ==
  /\ GetVersion(dg.tv) = 1 /\ GetType(dg.tv) <= NumTypes /\ dg.ext < 3
  /\ dg.sport # 443 /\ dg.dport # 443

\* The checks "make sure this is in fact a uTP packet".
HeaderOk(dg) ==
  /\ GetVersion(dg.tv) = 1
  /\ GetType(dg.tv) < NumTypes
  /\ dg.ext < 3
  /\ dg.sport # 443
  /\ dg.dport # 443

\* The extension loop: ok, and the bytes after the option chain.
RECURSIVE SkipOptions(_, _)
SkipOptions(ext, buf) ==
  IF ext = 0 THEN [ok |-> TRUE, rest |-> buf]
  ELSE IF Len(buf) < 2 \/ Len(buf) < buf[2] + 2 THEN [ok |-> FALSE, rest |-> buf]
  ELSE SkipOptions(buf[1], SubSeq(buf, 3 + buf[2], Len(buf)))

Init ==
  /\ dgram = <<>>
  /\ verdict = Drop("none")

(***************************************************************************)
(* Ethernet and IPv4.                                                     *)
(***************************************************************************)
NotIp(dg) ==
  /\ dg.ether # "ip"
  /\ verdict' = Drop("ether")

\* The header length is read (and the payload cut) before it is checked.
BadIhl(dg) ==
  /\ dg.ether = "ip" /\ dg.ihl < 5
  /\ verdict' = Drop("ip")

NotV4(dg) ==
  /\ dg.ether = "ip" /\ dg.ihl >= 5 /\ dg.ver # 4
  /\ verdict' = Drop("ip")

IpOk(dg) == dg.ether = "ip" /\ dg.ihl >= 5 /\ dg.ver = 4

\* Neither TCP nor a UDP payload large enough for a UDP and a uTP header.
OtherProto(dg) ==
  /\ IpOk(dg)
  /\ dg.proto # "tcp"
  /\ dg.proto # "udp" \/ UdpHdrSize + dg.len < UtpHdrSize + UdpHdrSize
  /\ verdict' = Drop("ignored")

(***************************************************************************)
(* The TCP branch up to its table lookups.                                *)
(***************************************************************************)
BadThOff(dg) ==
  /\ IpOk(dg) /\ dg.proto = "tcp"
  /\ dg.thoff < 5
  /\ verdict' = Drop("header")

TcpFragment(dg) ==
  /\ IpOk(dg) /\ dg.proto = "tcp" /\ dg.thoff >= 5
  /\ FragmentIgnored(dg)
  /\ verdict' = Drop("fragment")

TcpAccept(dg) ==
  /\ IpOk(dg) /\ dg.proto = "tcp" /\ dg.thoff >= 5
  /\ ~FragmentIgnored(dg)
  /\ verdict' = Drop("tcp")

(***************************************************************************)
(* The UDP branch up to find_utp_stream.                                  *)
(***************************************************************************)
\* The IP payload, UDP header included, holds a UDP and a uTP header.
IsUtpCandidate(dg) ==
  IpOk(dg) /\ dg.proto = "udp" /\ UdpHdrSize + dg.len >= UtpHdrSize + UdpHdrSize

BadHeader(dg) ==
  /\ IsUtpCandidate(dg)
  /\ ~HeaderOk(dg)
  /\ verdict' = Drop("header")

BadOptions(dg) ==
  /\ IsUtpCandidate(dg) /\ HeaderOk(dg)
  /\ ~SkipOptions(dg.ext, IpPayload(dg)).ok
  /\ verdict' = Drop("options")

Fragment(dg) ==
  /\ IsUtpCandidate(dg) /\ HeaderOk(dg)
  /\ SkipOptions(dg.ext, IpPayload(dg)).ok
  /\ FragmentIgnored(dg)
  /\ verdict' = Drop("fragment")

\* On to find_utp_stream with the packet's type, id and payload.
Accept(dg) ==
  /\ IsUtpCandidate(dg) /\ HeaderOk(dg)
  /\ SkipOptions(dg.ext, IpPayload(dg)).ok
  /\ ~FragmentIgnored(dg)
  /\ verdict' = [kind |-> "lookup", type |-> GetType(dg.tv), connid |-> BeUint16(dg.cid),
                 payload |-> SkipOptions(dg.ext, IpPayload(dg)).rest]

\* processor::process is handed the next frame of the capture.
Receive(dg) ==
  /\ dgram' = <<dg>>
  /\ \/ NotIp(dg) \/ BadIhl(dg) \/ NotV4(dg) \/ OtherProto(dg)
     \/ BadThOff(dg) \/ TcpFragment(dg) \/ TcpAccept(dg)
     \/ BadHeader(dg) \/ BadOptions(dg) \/ Fragment(dg) \/ Accept(dg)

Next == \E dg \in Datagrams : Receive(dg)

Spec == Init /\ [][Next]_vars
-----------------------------------------------------------------------------
(***************************************************************************)
(* Reference: the wire format of the spec.  After the 20-byte header come *)
(* options {next_ext, len, len bytes}; the header's ext says whether a    *)
(* first option follows, each option's next_ext whether another does.     *)
(* Starts[i] is where option i begins, Starts[n + 1] where the payload    *)
(* begins.                                                                 *)
(***************************************************************************)
OptionChains(ext, buf) ==
  LET L == Len(buf) IN
  { s \in UNION {[1 .. n + 1 -> 0 .. L] : n \in 0 .. L \div 2} :
      LET n == Cardinality(DOMAIN s) - 1 IN
      /\ s[1] = 0
      /\ (n = 0) = (ext = 0)
      /\ \A i \in 1 .. n : s[i] + 2 <= L /\ s[i + 1] = s[i] + 2 + buf[s[i] + 2]
      /\ \A i \in 1 .. n : (buf[s[i] + 1] = 0) = (i = n) }

\* Ethernet II carrying IPv4 with version 4 and IHL >= 5.
WellFormedIp(dg) == dg.ether = "ip" /\ dg.ver = 4 /\ dg.ihl >= 5

WellFormedTcp(dg) == WellFormedIp(dg) /\ dg.proto = "tcp" /\ dg.thoff >= 5

WellFormed(dg) ==
  /\ WellFormedIp(dg) /\ dg.proto = "udp"
  /\ dg.len >= UtpHdrSize /\ dg.tv % 16 = 1 /\ dg.tv \div 16 \in 0 .. NumTypes - 1
  /\ dg.ext < 3 /\ 443 \notin {dg.sport, dg.dport}
  /\ OptionChains(dg.ext, dg.rest) # {}

RefPayload(dg) ==
  LET s == CHOOSE s \in OptionChains(dg.ext, dg.rest) : TRUE
  IN SubSeq(dg.rest, s[Cardinality(DOMAIN s)] + 1, Len(dg.rest))

TypeOK ==
  /\ dgram \in {<<>>} \cup [1 .. 1 -> Datagrams]
  /\ verdict \in [kind : {"none", "ether", "ip", "ignored", "header", "options",
                          "fragment", "tcp", "lookup"},
                  type : 0 .. NumTypes - 1, connid : 0 .. 65535, payload : Seq(0 .. 255)]

\* A frame that is not a later IP fragment (fragment offset 0, any flags)
\* reaches find_utp_stream exactly when it is a well-formed uTP packet by
\* the spec's wire format, and then with its 16-bit big-endian connection
\* id and the payload that follows its option chain up to the IP length;
\* it reaches the TCP branch exactly when it is a well-formed TCP segment.
\* The Ethernet and IP checks, the cut to ip_len, the uTP header checks,
\* the extension loop and the raw ip_off test together reject nothing
\* else and cut the payload at the right bytes.
UnfragmentedMatchesWireFormat ==
  dgram # <<>> /\ dgram[1].offset = 0 =>
    LET dg == dgram[1] IN
    CASE WellFormed(dg) ->
           verdict = [kind |-> "lookup", type |-> dg.tv \div 16,
                      connid |-> dg.cid[1] * 256 + dg.cid[2], payload |-> RefPayload(dg)]
      [] WellFormedTcp(dg) -> verdict.kind = "tcp"
      [] OTHER -> verdict.kind \in {"ether", "ip", "ignored", "header", "options"}

\* A later IP fragment carries no UDP or uTP header, so it never reaches
\* find_utp_stream (the spec: fragments are reported, their payloads are
\* not stitched).
LaterFragmentsDropped ==
  dgram # <<>> /\ dgram[1].offset # 0 => verdict.kind # "lookup"
=============================================================================
