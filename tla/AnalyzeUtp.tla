----------------------------- MODULE AnalyzeUtp -----------------------------
(***************************************************************************)
(* The uTP packet printer analyze_utp (src/analyze.cpp): main() parses the *)
(* options into the processor's quiet_ and connid_filter_, and            *)
(* pcap_loop hands every captured frame to processor::process, which      *)
(* counts the first fragment of each UDP datagram under its connection id *)
(* (packet_count_), prints it unless --stats or the focus filter          *)
(* suppresses it, and prints a later IP fragment only when its IP id is   *)
(* last_printed_fragment_id_, the id of the last first fragment printed.  *)
(*                                                                         *)
(* A datagram is a record: frame ("udp" or anything else the early checks *)
(* reject), the IP id, the uTP connection id, nfrag (its number of IP     *)
(* fragments), df (the don't-fragment flag), small (shorter than a UDP    *)
(* and uTP header), https (port 443).  Packet <<d, i>> is fragment i of d. *)
(* Header and option checks after the fragment bookkeeping only print and *)
(* are left out; printed lines are abstracted to the packets printed.     *)
(***************************************************************************)
EXTENDS Integers, Sequences, FiniteSets, TLC

CONSTANTS
  Datagrams,    \* the datagrams in the capture
  Argvs,        \* the command lines analyze_utp may be started with
  Atoi,         \* Atoi[s]: what atoi() returns for argument s
  Ipv4,         \* the --home-ip arguments make_address_v4 accepts
  Interleave,   \* packets of other datagrams may come between fragments
  NoFilter      \* model value: connid_filter_ is empty

Mod == 65536   \* std::uint16_t

VARIABLES
  status,          \* "run", "done" once pcap_loop returned, or main()'s early exit
  quiet,           \* quiet_ (--stats)
  filter,          \* connid_filter_ (--focus-id), or NoFilter
  packet_count,    \* packet_count_: connection id -> packets counted
  last_printed,    \* last_printed_fragment_id_
  printed,         \* packets whose record process() printed
  captured,        \* packets the capture has shown so far
  pending,         \* {d}: the datagram whose fragments are still arriving
  dump             \* the counters main() printed after pcap_loop (--stats)

vars == <<status, quiet, filter, packet_count, last_printed, printed, captured, pending, dump>>

Packets == UNION {{<<d, i>> : i \in 1 .. d.nfrag} : d \in Datagrams}

(***************************************************************************)
(* main(): the option loop.  The last argument is the capture file; an    *)
(* option taking a value needs one more argument after it and the file.  *)
(* make_address_v4 throws on a malformed --home-ip: main()'s catch prints  *)
(* "failed" and main() returns 0 without opening the capture.             *)
(***************************************************************************)
RECURSIVE Options(_, _)
Options(args, cfg) ==
  IF Len(args) <= 1 THEN cfg
  ELSE CASE args[1] = "--help" -> [cfg EXCEPT !.status = "exit0"]
         [] args[1] = "--stats" -> Options(Tail(args), [cfg EXCEPT !.quiet = TRUE])
         [] args[1] = "--focus-id" /\ Len(args) > 2 ->
              Options(Tail(Tail(args)), [cfg EXCEPT !.filter = Atoi[args[2]] % Mod])
         [] args[1] = "--home-ip" /\ Len(args) > 2 ->
              IF args[2] \in Ipv4 THEN Options(Tail(Tail(args)), cfg)
              ELSE [cfg EXCEPT !.status = "failed"]
         [] OTHER -> [cfg EXCEPT !.status = "exit1"]

\* argc == 1 prints the usage and returns 1; otherwise argv[0] is skipped.
StartUp(argv) ==
  IF argv = <<>> THEN [status |-> "exit1", quiet |-> FALSE, filter |-> NoFilter]
  ELSE Options(argv, [status |-> "run", quiet |-> FALSE, filter |-> NoFilter])

Init ==
  /\ \E argv \in Argvs :
       /\ status = StartUp(argv).status
       /\ quiet = StartUp(argv).quiet
       /\ filter = StartUp(argv).filter
  /\ packet_count = [c \in {} |-> 0]
  /\ last_printed = -1
  /\ printed = {}
  /\ captured = {}
  /\ pending = {}
  /\ dump = [c \in {} |-> 0]

(***************************************************************************)
(* processor::process.                                                    *)
(***************************************************************************)
\* Mutant: a connection id seen for the first time is stored as 0.
CountFromZero(m, c) == IF c \in DOMAIN m THEN [m EXCEPT ![c] = @ + 1] ELSE m @@ (c :> 0)

\* packet_count_[id] += 1 on an unordered_map: a missing id starts at 0.
Count(m, c) == IF c \in DOMAIN m THEN [m EXCEPT ![c] = @ + 1] ELSE m @@ (c :> 1)

\* Mutant: id + 1 and id - 1 not masked with 0xffff.
FocusedNoMask(id) ==
  \/ filter = NoFilter
  \/ filter \in {id, id + 1, id - 1}

\* The focus test, connection_id promoted to int and masked with 0xffff.
Focused(id) ==
  \/ filter = NoFilter
  \/ filter \in {id, (id + 1) % Mod, (id - 1) % Mod}

\* Not Ethernet/IPv4, a bad header length, or not UDP: dropped.
NotUdp(p) ==
  /\ p[1].frame # "udp"
  /\ UNCHANGED <<packet_count, last_printed, printed>>

\* A first fragment or whole datagram too small for a uTP header.
TooSmall(p) ==
  /\ p[1].frame = "udp" /\ p[2] = 1
  /\ p[1].small
  /\ UNCHANGED <<packet_count, last_printed, printed>>

\* Mutant: the fragment id is recorded before the early returns.
FirstSuppressedRecordsId(p) ==
  /\ p[1].frame = "udp" /\ p[2] = 1 /\ ~p[1].small
  /\ quiet \/ ~Focused(p[1].connid) \/ p[1].https
  /\ packet_count' = Count(packet_count, p[1].connid)
  /\ last_printed' = IF p[1].nfrag > 1 \/ p[1].df THEN p[1].id ELSE -1
  /\ UNCHANGED printed

\* Counted; then --stats, the focus filter or port 443 returns early.
FirstSuppressed(p) ==
  /\ p[1].frame = "udp" /\ p[2] = 1 /\ ~p[1].small
  /\ quiet \/ ~Focused(p[1].connid) \/ p[1].https
  /\ packet_count' = Count(packet_count, p[1].connid)
  /\ UNCHANGED <<last_printed, printed>>

\* Counted and printed; a fragmented packet (ip_off != 0: MF or DF set)
\* leaves its IP id in last_printed_fragment_id_, any other resets it.
FirstPrinted(p) ==
  /\ p[1].frame = "udp" /\ p[2] = 1 /\ ~p[1].small
  /\ ~quiet /\ Focused(p[1].connid) /\ ~p[1].https
  /\ packet_count' = Count(packet_count, p[1].connid)
  /\ last_printed' = IF p[1].nfrag > 1 \/ p[1].df THEN p[1].id ELSE -1
  /\ printed' = printed \cup {p}

\* Mutant: the counter bumped before the fragment-offset branch.
LaterFragmentCounted(p) ==
  /\ p[1].frame = "udp" /\ p[2] > 1
  /\ printed' = IF ~quiet /\ p[1].id = last_printed THEN printed \cup {p} ELSE printed
  /\ packet_count' = Count(packet_count, p[1].connid)
  /\ UNCHANGED last_printed

\* A later fragment: printed only if its IP id was the last one printed.
LaterFragment(p) ==
  /\ p[1].frame = "udp" /\ p[2] > 1
  /\ printed' = IF ~quiet /\ p[1].id = last_printed THEN printed \cup {p} ELSE printed
  /\ UNCHANGED <<packet_count, last_printed>>

Process(p) ==
  \/ NotUdp(p) \/ TooSmall(p) \/ FirstSuppressed(p) \/ FirstPrinted(p)
  \/ LaterFragment(p)

(***************************************************************************)
(* The capture: every packet once, a datagram's fragments in order; with  *)
(* Interleave FALSE nothing comes between the fragments of a datagram.   *)
(***************************************************************************)
MayCapture(p) ==
  /\ p \notin captured
  /\ p[2] > 1 => <<p[1], p[2] - 1>> \in captured
  /\ ~Interleave => pending \subseteq {p[1]}

\* pcap_loop hands the next frame to handler_wrapper and process().
Capture(p) ==
  /\ status = "run"
  /\ MayCapture(p)
  /\ Process(p)
  /\ captured' = captured \cup {p}
  /\ pending' = IF p[2] < p[1].nfrag THEN {p[1]} ELSE {}
  /\ UNCHANGED <<status, quiet, filter, dump>>

\* pcap_loop returns after the last record; with --stats main() prints
\* packet_count_ (otherwise only a colour reset), then returns 0.
Finish ==
  /\ status = "run"
  /\ captured = Packets
  /\ status' = "done"
  /\ dump' = IF quiet THEN packet_count ELSE dump
  /\ UNCHANGED <<quiet, filter, packet_count, last_printed, printed, captured, pending>>

Next == (\E p \in Packets : Capture(p)) \/ Finish

Spec == Init /\ [][Next]_vars
-----------------------------------------------------------------------------
TypeOK ==
  /\ status \in {"run", "done", "exit0", "exit1", "failed"}
  /\ quiet \in BOOLEAN
  /\ filter \in (0 .. Mod - 1) \cup {NoFilter}
  /\ packet_count \in [DOMAIN packet_count -> 1 .. Cardinality(Packets)]
  /\ last_printed \in {-1} \cup {d.id : d \in Datagrams}
  /\ printed \subseteq captured
  /\ captured \subseteq Packets
  /\ dump \in [DOMAIN dump -> 1 .. Cardinality(Packets)]

\* --focus-id <id> prints the packets whose connection id is the focus id
\* or one off it, modulo 2^16 (the spec's id±1), unless --stats; port 443
\* and packets too small for a uTP header are never printed.
FocusMatchesSpec ==
  \A p \in captured :
    p[2] = 1 /\ p[1].frame = "udp" =>
      (p \in printed <=>
         /\ ~quiet /\ ~p[1].small /\ ~p[1].https
         /\ filter # NoFilter => (p[1].connid - filter) % Mod \in {0, 1, Mod - 1})

\* The comment on last_printed_fragment_id_: a later IP fragment is
\* printed exactly when the first fragment of its own datagram was.
FragmentsFollowFirst ==
  \A p \in captured : p[2] > 1 => (p \in printed <=> <<p[1], 1>> \in printed)

\* The datagrams whose first fragment reaches packet_count_: UDP, and
\* large enough for a UDP and a uTP header (port 443 and bad uTP headers
\* are counted too: the count comes before those checks).
Counted == {d \in Datagrams : d.frame = "udp" /\ ~d.small}

\* --stats prints, once the capture is read, the number of datagrams per
\* connection id: each datagram once, however its IP fragments and the
\* other datagrams' fragments are interleaved, and no id it never saw.
StatsDumpCountsDatagrams ==
  status = "done" /\ quiet =>
    dump = [c \in {d.connid : d \in Counted} |->
              Cardinality({d \in Counted : d.connid = c})]
=============================================================================
