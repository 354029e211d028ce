------------------------------ MODULE PacketPath ------------------------------
(***************************************************************************)
(* Packets between the controller and the switch: the packet-out callback  *)
(* (src/src/ind_fwd.c), the packet-in handler (src/src/p4ofagent.c), the   *)
(* fabric headers they put before a packet (src/src/cpu_packet.c) and what *)
(* openflow.p4 does with these.                                            *)
(*                                                                         *)
(* Agent and switch exchange frames over one raw socket, in order; a frame *)
(* may be lost when it is sent or when a queue is full.  Both handlers run *)
(* in the agent thread, each to its end, once p4ofagent_init has opened    *)
(* the socket and started that thread.  openflow.p4 is built with          *)
(* OPENFLOW_PACKET_IN_OUT, and the program it is made part of may fill the *)
(* headers openflow_miss adds: that step is external.                      *)
(***************************************************************************)
EXTENDS Integers, Sequences

CONSTANTS
    BYTE,          \* 2^8; a port of OpenFlow has 32 bits, one of a header 16
    FramesOut,     \* Ethernet frames of packet outs: [etherType, body, len]
    FramesIn,      \* and of packets that miss
    PortsOut,      \* ports controllers name in a packet out
    ActionLists,   \* the action lists of packet outs
    PortsIn,       \* ports packets come in by
    Tables,        \* ids of OpenFlow tables
    Reasons,       \* OFPR_*
    BUF,           \* 2000: the bytes a buffer of the handlers holds
    AGENT_ETHERNET_FLOOD_MC_HDL,
    MaxMsgs        \* bound: packet outs and misses

WORD == BYTE * BYTE

\* Numbers of ports end at OFPP_MAX; the last eight of 32 bits are reserved.
ofp_port_no ==
    LET last == WORD * WORD - 1
    IN  [OFPP_MAX |-> last - (BYTE - 1), OFPP_IN_PORT |-> last - 7, OFPP_TABLE |-> last - 6,
         OFPP_NORMAL |-> last - 5, OFPP_FLOOD |-> last - 4, OFPP_ALL |-> last - 3,
         OFPP_CONTROLLER |-> last - 2, OFPP_LOCAL |-> last - 1, OFPP_ANY |-> last]

ASSUME ByteAssumption  == BYTE \in Nat /\ BYTE > 2
ASSUME PortsAssumption ==
    /\ PortsOut \subseteq 0 .. WORD * WORD - 1 /\ PortsIn \subseteq 0 .. WORD - 1
    /\ AGENT_ETHERNET_FLOOD_MC_HDL \in 0 .. WORD - 1
ASSUME CodesAssumption == Tables \cup Reasons \subseteq 0 .. BYTE - 1
ASSUME BoundsAssumption == BUF \in Nat /\ BUF > 64 /\ MaxMsgs \in Nat

\* The headers before the packet: fabric_header_t, fabric_header_cpu_t and
\* fabric_payload_header_t.
HDR == 5 + 11 + 2

\* A frame that comes in has an Ethernet header; a controller may send any bytes.
ASSUME FramesAssumption ==
    /\ \A f \in FramesIn : f.len \in Nat /\ f.len >= 14
    /\ \A f \in FramesOut : f.len \in Nat

(***************************************************************************)
(* 16 bits of a header, as two bytes.  The agent runs on a little-endian   *)
(* host and swaps them; the switch reads and writes the more significant   *)
(* one first.                                                              *)
(***************************************************************************)
\* Mutant of Store: the upper byte keeps what does not fit it.
Store_wide(v) == <<v % BYTE, v \div BYTE>>

Store(v) == <<v % BYTE, (v \div BYTE) % BYTE>>
Load(w)  == w[1] + w[2] * BYTE

\* Mutant of swap: the bytes stay as the host has them.
swap_nothing(w) == w

swap(w) == <<w[2], w[1]>>

Extract(w) == w[1] * BYTE + w[2]
Emit(v)    == <<(v \div BYTE) % BYTE, v % BYTE>>

Actions  == [type : {"OUTPUT"}, port : PortsOut] \cup [type : {"OTHER"}, port : {0}]
Messages == [actions : ActionLists, frame : FramesOut]
ASSUME ListsAssumption == ActionLists \subseteq Seq(Actions)

Misses   == [port : PortsIn, table : Tables, reason : Reasons, frame : FramesIn]

EtherTypes == {f.etherType : f \in FramesIn} \cup {"ZERO"}

VARIABLES
    toSwitch,   \* frames the agent has sent to the switch
    toCpu,      \* packets that missed, with their metadata, on their way to the CPU port
    toAgent,    \* frames in the queue of the agent's socket
    emitted,    \* packets that left the switch after a packet out
    packetIns,  \* messages to the controller
    phase,      \* of p4ofagent_init: what it has done last, or "ended"
    handler,    \* of the socket, in Indigo's event loop
    outs,       \* ghost: the packet outs, with what they were answered
    misses,     \* ghost: the packets that missed
    lost        \* ghost: frames that were lost, by direction and number

packets == <<toSwitch, toCpu, toAgent, emitted, packetIns, outs, misses, lost>>
vars    == <<packets, phase, handler>>

Phases == {"off", "modules", "controller", "sessions", "tables", "socket", "registered",
           "running", "threadless", "ended"}

\* n is the number of the packet out, or of the miss, a frame is about.
FrameOut == [n : Nat, dst : Seq(Nat), mcastGrp : Seq(Nat), frame : FramesOut]
FrameMiss == [n : Nat, reason_code : 0 .. WORD - 1, ingressPort : PortsIn,
              etherType : EtherTypes, frame : FramesIn]
FrameIn  == [n : Nat, filled : BOOLEAN, reasonCode : Seq(Nat), ingressPort : Seq(Nat),
             etherType : EtherTypes, frame : FramesIn]

TypeOK ==
    /\ toSwitch \in Seq(FrameOut) /\ toCpu \in Seq(FrameMiss) /\ toAgent \in Seq(FrameIn)
    /\ emitted \in Seq([n : Nat, port : 0 .. WORD - 1, frame : FramesOut])
    /\ packetIns \in Seq([n : Nat, filled : BOOLEAN, reason : 0 .. BYTE - 1,
                          table : 0 .. BYTE - 1, port : 0 .. WORD - 1,
                          etherType : EtherTypes, frame : FramesIn,
                          total_len : Nat, bytes : Nat, clean : BOOLEAN])
    /\ phase \in Phases /\ handler \in {"none", "registered", "refused"}
    /\ outs \in Seq([msg : Messages, rv : {"NONE", "BAD_ACTION"}])
    /\ misses \in Seq(Misses)
    /\ lost \subseteq {"out", "in"} \X Nat

Init ==
    /\ toSwitch = <<>> /\ toCpu = <<>> /\ toAgent = <<>> /\ emitted = <<>> /\ packetIns = <<>>
    /\ phase = "off" /\ handler = "none"
    /\ outs = <<>> /\ misses = <<>> /\ lost = {}

(***************************************************************************)
(* p4ofagent_init, called in the process of the switch, and what it starts *)
(***************************************************************************)
\* A part that fails ends the process with exit(1).
Part(before, after) ==
    /\ phase = before
    /\ phase' \in {after, "ended"}
    /\ UNCHANGED <<handler, packets>>

InitModules     == Part("off", "modules")
AddController   == Part("modules", "controller")
cpu_packet_init == Part("tables", "socket")

\* The sessions with the switch: one that is refused is logged only.
CreateSessions ==
    /\ phase = "controller"
    /\ phase' = "sessions"
    /\ UNCHANGED <<handler, packets>>

\* The plugin registers its functions for every table, in arrays the callbacks look
\* them up in.  It reports nothing.
state_init ==
    /\ phase = "sessions"
    /\ phase' = "tables"
    /\ UNCHANGED <<handler, packets>>

\* Nobody looks at the result, here and when the thread is created.
ind_soc_socket_register ==
    /\ phase = "socket"
    /\ phase' = "registered"
    /\ handler' \in {"registered", "refused"}
    /\ UNCHANGED packets

pthread_create ==
    /\ phase = "registered"
    /\ phase' \in {"running", "threadless"}
    /\ UNCHANGED <<handler, packets>>

StartUp ==
    \/ InitModules \/ AddController \/ CreateSessions \/ state_init
    \/ cpu_packet_init \/ ind_soc_socket_register \/ pthread_create

run_indigo == phase = "running"
SocketOpen == phase \in {"socket", "registered", "running", "threadless"}
Listening  == run_indigo /\ handler = "registered"

MoreMsgs == Len(outs) + Len(misses) < MaxMsgs

(***************************************************************************)
(* indigo_fwd_packet_out.  Only the first action is looked at.  A port     *)
(* that floods sets a multicast group in the CPU header, and leaves the    *)
(* destination zero; any other is cut to 16 bits.                          *)
(***************************************************************************)
Floods(port) == port \in {ofp_port_no.OFPP_FLOOD, ofp_port_no.OFPP_ALL}
Outputs(m)   == m.actions # <<>> /\ m.actions[1].type = "OUTPUT"
Refused(m)   == m.actions # <<>> /\ m.actions[1].type # "OUTPUT"

dstPortOrGroup(m) ==
    IF Outputs(m) /\ ~Floods(m.actions[1].port) THEN m.actions[1].port ELSE 0
mcastGrp(m) ==
    IF Outputs(m) /\ Floods(m.actions[1].port) THEN AGENT_ETHERNET_FLOOD_MC_HDL ELSE 0

Answer(m, rv) == outs' = Append(outs, [msg |-> m, rv |-> rv])

\* Data shorter than an Ethernet header has its length less 14 copied, as an unsigned
\* number; data that does not fit the buffer with the headers is copied past its end.
Short(m) == m.frame.len < 14
Long(m)  == m.frame.len + HDR > BUF

\* What such a copy overwrites ends the process of the switch, or goes on in a state of
\* which nothing is known, which is taken for its end as well.
PacketOutOverruns(m) ==
    /\ run_indigo
    /\ ~Refused(m)
    /\ Short(m) \/ Long(m)
    /\ phase' = "ended"
    /\ UNCHANGED <<handler, packets>>

\* A copy past the end that does no harm is among the steps: long data is sent, or lost.
PacketOut(m) ==
    /\ run_indigo /\ MoreMsgs
    /\ ~Refused(m) /\ ~Short(m)
    /\ Answer(m, "NONE")
    /\ \/ /\ toSwitch' = Append(toSwitch,
                [n |-> Len(outs) + 1, dst |-> swap(Store(dstPortOrGroup(m))),
                 mcastGrp |-> swap(Store(mcastGrp(m))), frame |-> m.frame])
          /\ UNCHANGED lost
       \/ /\ lost' = lost \cup {<<"out", Len(outs) + 1>>}
          /\ UNCHANGED toSwitch
    /\ UNCHANGED <<toCpu, toAgent, emitted, packetIns, phase, handler, misses>>

\* Mutant of PacketOutRefused: the frame is sent before the action is looked at.
PacketOutRefusedSent(m) ==
    /\ run_indigo /\ MoreMsgs
    /\ Refused(m)
    /\ Answer(m, "BAD_ACTION")
    /\ toSwitch' = Append(toSwitch, [n |-> Len(outs) + 1, dst |-> Store(0),
                                     mcastGrp |-> Store(0), frame |-> m.frame])
    /\ UNCHANGED <<toCpu, toAgent, emitted, packetIns, phase, handler, misses, lost>>

PacketOutRefused(m) ==
    /\ run_indigo /\ MoreMsgs
    /\ Refused(m)
    /\ Answer(m, "BAD_ACTION")
    /\ UNCHANGED <<toSwitch, toCpu, toAgent, emitted, packetIns, phase, handler, misses, lost>>

\* The switch ends the frame: the port is that of the fabric header, and nothing
\* reads the group of the CPU header.
terminate_cpu_packet ==
    /\ SocketOpen
    /\ toSwitch # <<>>
    /\ LET f == Head(toSwitch)
       IN  emitted' = Append(emitted, [n |-> f.n, port |-> Extract(f.dst), frame |-> f.frame])
    /\ toSwitch' = Tail(toSwitch)
    /\ UNCHANGED <<toCpu, toAgent, packetIns, phase, handler, outs, misses, lost>>

(***************************************************************************)
(* openflow_miss: the reason, shifted by a byte, and the table share 16    *)
(* bits of the metadata.  The headers it adds before the packet are empty. *)
(***************************************************************************)
reason_code(miss) == ((miss.reason * BYTE) % WORD) + miss.table

fabric_metadata(n, miss) ==
    [n |-> n, reason_code |-> reason_code(miss), ingressPort |-> miss.port,
     etherType |-> miss.frame.etherType, frame |-> miss.frame]

openflow_miss(miss) ==
    /\ SocketOpen /\ MoreMsgs
    /\ misses' = Append(misses, miss)
    /\ toCpu' = Append(toCpu, fabric_metadata(Len(misses) + 1, miss))
    /\ UNCHANGED <<toSwitch, toAgent, emitted, packetIns, phase, handler, outs, lost>>

(***************************************************************************)
(* External: the program openflow.p4 is included in sends the packet out   *)
(* of the CPU port.  Whether it has copied the metadata to the headers     *)
(* (filled), as switch.p4 does, is up to it; otherwise they hold zeros.    *)
(***************************************************************************)
cpu_packet(f, filled) ==
    [n |-> f.n, filled |-> filled, frame |-> f.frame,
     reasonCode  |-> IF filled THEN Emit(f.reason_code) ELSE Emit(0),
     ingressPort |-> IF filled THEN Emit(f.ingressPort) ELSE Emit(0),
     etherType   |-> IF filled THEN f.etherType ELSE "ZERO"]

CpuPort ==
    /\ SocketOpen
    /\ toCpu # <<>>
    /\ toCpu' = Tail(toCpu)
    /\ \/ /\ \E filled \in BOOLEAN : toAgent' = Append(toAgent, cpu_packet(Head(toCpu), filled))
          /\ UNCHANGED lost
       \/ /\ lost' = lost \cup {<<"in", Head(toCpu).n>>}
          /\ UNCHANGED toAgent
    /\ UNCHANGED <<toSwitch, emitted, packetIns, phase, handler, outs, misses>>

(***************************************************************************)
(* packet_in_handler.  A frame that does not fit the buffer is cut.  What  *)
(* follows the packet is copied, and sent, as if the headers, the MAC      *)
(* addresses and the ether type were part of it: HDR bytes more, of which  *)
(* 14 are what lies behind the frame, in the buffer or behind that.        *)
(***************************************************************************)
Received(f) == IF f.frame.len + HDR <= BUF THEN f.frame.len + HDR ELSE BUF

\* Mutant of packet_in: the low byte is taken for the reason.
packet_in_reversed(f) ==
    LET reasonCode == Load(swap(f.reasonCode))
    IN  [n |-> f.n, filled |-> f.filled, reason |-> reasonCode % BYTE, table |-> reasonCode \div BYTE,
         port |-> Load(swap(f.ingressPort)), etherType |-> f.etherType, frame |-> f.frame,
         total_len |-> Received(f) - HDR, bytes |-> Received(f),
         clean |-> Received(f) + 14 <= BUF]

\* Mutant of packet_in: the length told counts the Ethernet header once more.
packet_in_short(f) ==
    LET reasonCode == Load(swap(f.reasonCode))
    IN  [n |-> f.n, filled |-> f.filled, reason |-> reasonCode \div BYTE, table |-> reasonCode % BYTE,
         port |-> Load(swap(f.ingressPort)), etherType |-> f.etherType, frame |-> f.frame,
         total_len |-> Received(f) - HDR - 14, bytes |-> Received(f),
         clean |-> Received(f) + 14 <= BUF]

packet_in(f) ==
    LET reasonCode == Load(swap(f.reasonCode))
    IN  [n |-> f.n, filled |-> f.filled, reason |-> reasonCode \div BYTE, table |-> reasonCode % BYTE,
         port |-> Load(swap(f.ingressPort)), etherType |-> f.etherType, frame |-> f.frame,
         total_len |-> Received(f) - HDR, bytes |-> Received(f),
         clean |-> Received(f) + 14 <= BUF]

\* Mutant of packet_in_handler: a frame that does not fit the buffer is dropped.
packet_in_handler_drops ==
    /\ Listening
    /\ toAgent # <<>>
    /\ packetIns' = IF Received(Head(toAgent)) = BUF THEN packetIns
                    ELSE Append(packetIns, packet_in(Head(toAgent)))
    /\ toAgent' = Tail(toAgent)
    /\ UNCHANGED <<toSwitch, toCpu, emitted, phase, handler, outs, misses, lost>>

packet_in_handler ==
    /\ Listening
    /\ toAgent # <<>>
    /\ packetIns' = Append(packetIns, packet_in(Head(toAgent)))
    /\ toAgent' = Tail(toAgent)
    /\ UNCHANGED <<toSwitch, toCpu, emitted, phase, handler, outs, misses, lost>>

\* A read that fails, when the interface goes down say, is logged only.  Its -1 then
\* is the length of a copy, as an unsigned number, and ends the process, which is
\* that of the switch.
ReadFails ==
    /\ Listening
    /\ phase' = "ended"
    /\ UNCHANGED <<handler, packets>>

Next ==
    \/ StartUp
    \/ \E m \in Messages : PacketOut(m)
    \/ \E m \in Messages : PacketOutOverruns(m)
    \/ \E m \in Messages : PacketOutRefused(m)
    \/ terminate_cpu_packet
    \/ \E miss \in Misses : openflow_miss(miss)
    \/ CpuPort
    \/ packet_in_handler
    \/ ReadFails

Spec == Init /\ [][Next]_vars

\* The calls of p4ofagent_init return, the event loop calls the handler as long as there
\* is a frame, and the switch takes what the agent sends and what goes to the CPU port.
FairSpec == Spec /\ WF_vars(StartUp) /\ WF_vars(packet_in_handler)
                 /\ WF_vars(terminate_cpu_packet) /\ WF_vars(CpuPort)

-------------------------------------------------------------------------------
(***************************************************************************)
(* Properties                                                              *)
(***************************************************************************)
Ascending(s) == \A j, k \in DOMAIN s : j < k => s[j].n < s[k].n

\* A packet out leaves the switch at most once, in the order of the messages, with the
\* ether type and the bytes it was given, and not at all if it was refused.
OutsLeaveAsGiven ==
    /\ Ascending(emitted)
    /\ \A k \in DOMAIN emitted :
           LET out == outs[emitted[k].n]
           IN  out.rv = "NONE" /\ emitted[k].frame = out.msg.frame

\* The port a packet out names, if it is to leave at one.
Names(m, port) == Outputs(m) /\ m.actions[1].port = port

\* A packet out that names a port of 16 bits leaves at that port: the host's order of
\* bytes is undone by the time the switch reads the header.
LeavesAtItsPort ==
    \A k \in DOMAIN emitted, port \in 0 .. WORD - 1 :
        Names(outs[emitted[k].n].msg, port) => emitted[k].port = port

\* The controller hears of a miss at most once, in order, and if the program around
\* openflow.p4 has filled the headers, what it hears is the port the packet came in by,
\* the table and the reason, whatever their bytes are, and the packet's ether type.
MissesReportedAsTheyAre ==
    /\ Ascending(packetIns)
    /\ \A k \in DOMAIN packetIns :
           LET p == packetIns[k]
           IN  /\ p.frame = misses[p.n].frame
               /\ p.filled =>
                     /\ p.etherType = p.frame.etherType
                     /\ [port |-> p.port, table |-> p.table, reason |-> p.reason, frame |-> p.frame]
                            = misses[p.n]

\* The length a packet in tells is never more than the frame's; it is the frame's, and
\* the packet in brings at least so much data, if the frame fits the buffer with its
\* headers; the data has bytes from outside the buffer only if 14 more would not fit.
PacketInLengths ==
    \A k \in DOMAIN packetIns :
        LET p == packetIns[k]
        IN  /\ p.total_len <= p.frame.len
            /\ p.frame.len + HDR <= BUF => p.total_len = p.frame.len /\ p.total_len <= p.bytes
            /\ p.frame.len + HDR + 14 <= BUF => p.clean

\* Every miss is reported, also one from before the event loop runs, and every packet
\* out that was accepted leaves, unless its frame was lost or the process has ended.
\* An agent whose handler was refused, or that has no thread, forgets every miss.
NothingIsForgotten ==
    \A n \in 1 .. MaxMsgs :
        /\ n <= Len(misses) ~>
               \/ phase \in {"ended", "threadless"} \/ handler = "refused"
               \/ <<"in", n>> \in lost
               \/ \E k \in DOMAIN packetIns : packetIns[k].n = n
        /\ n <= Len(outs) ~>
               \/ phase = "ended" \/ <<"out", n>> \in lost \/ (n <= Len(outs) /\ outs[n].rv # "NONE")
               \/ \E k \in DOMAIN emitted : emitted[k].n = n

===============================================================================
