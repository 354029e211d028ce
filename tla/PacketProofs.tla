----------------------------- MODULE PacketProofs -----------------------------
(***************************************************************************)
(* Theorems about packets between controller and switch, for every width   *)
(* of a byte, every list of actions, every port and any number of packets. *)
(***************************************************************************)
EXTENDS PacketPath, SequenceTheorems, TLAPS

\* Two bytes, the lower first or last, are a number below WORD.
LEMMA TwoBytes ==
    ASSUME NEW lo \in 0 .. BYTE - 1, NEW hi \in 0 .. BYTE - 1
    PROVE  hi * BYTE + lo \in 0 .. WORD - 1
<1>. BYTE \in Nat /\ BYTE > 2 /\ lo \in Nat /\ hi \in Nat
  BY ByteAssumption
<1>1. PICK d \in Nat : BYTE = hi + 1 + d
  <2>. BYTE - 1 - hi \in Nat  OBVIOUS
  <2>. BYTE = hi + 1 + (BYTE - 1 - hi)  OBVIOUS
  <2>. QED  OBVIOUS
<1>2. WORD = hi * BYTE + BYTE + d * BYTE
  BY <1>1 DEF WORD
<1>3. hi * BYTE \in Nat /\ d * BYTE \in Nat
  OBVIOUS
<1>. QED  BY <1>2, <1>3

\* A number has one quotient and one rest.
LEMMA OneRest ==
    ASSUME NEW d \in Nat, d > 0, NEW q \in Nat, NEW r \in 0 .. d - 1
    PROVE  (q * d + r) % d = r /\ (q * d + r) \div d = q
OBVIOUS

\* Cutting a number to two bytes is taking its rest.
LEMMA LowBits ==
    ASSUME NEW v \in Nat
    PROVE  Extract(swap(Store(v))) = v % WORD
<1>. DEFINE lo == v % BYTE
            q  == v \div BYTE
            hi == q % BYTE
            p  == q \div BYTE
<1>. BYTE \in Nat /\ BYTE > 2
  BY ByteAssumption
<1>1. v = q * BYTE + lo /\ lo \in 0 .. BYTE - 1 /\ q \in Nat
  OBVIOUS
<1>2. q = p * BYTE + hi /\ hi \in 0 .. BYTE - 1 /\ p \in Nat
  BY <1>1
<1>. HIDE DEF lo, q, hi, p
<1>3. v = p * WORD + (hi * BYTE + lo)
  BY <1>1, <1>2 DEF WORD
<1>4. hi * BYTE + lo \in 0 .. WORD - 1
  BY <1>1, <1>2, TwoBytes
<1>5. WORD \in Nat /\ WORD > 0
  BY DEF WORD
<1>6. v % WORD = hi * BYTE + lo
  <2>. HIDE DEF WORD
  <2>. QED  BY <1>2, <1>3, <1>4, <1>5, OneRest
<1>7. Extract(swap(Store(v))) = hi * BYTE + lo
  BY DEF Extract, swap, Store, lo, hi, q
<1>. QED  BY <1>6, <1>7

(***************************************************************************)
(* Packet outs: what is on its way, and what has left                      *)
(***************************************************************************)
\* Record e is about a packet out that was accepted, and has its frame.
IsOf(e) == e.n \in DOMAIN outs /\ outs[e.n].rv = "NONE" /\ e.frame = outs[e.n].msg.frame

\* The frames on their way carry the port in network order; the packets that left did
\* so at its low bits; and those that left are older than those on their way.
OutInv ==
    /\ toSwitch \in Seq(FrameOut)
    /\ emitted \in Seq([n : Nat, port : 0 .. WORD - 1, frame : FramesOut])
    /\ outs \in Seq([msg : Messages, rv : {"NONE", "BAD_ACTION"}])
    /\ \A k \in DOMAIN toSwitch :
          IsOf(toSwitch[k]) /\ toSwitch[k].dst = swap(Store(dstPortOrGroup(outs[toSwitch[k].n].msg)))
    /\ \A k \in DOMAIN emitted :
          IsOf(emitted[k]) /\ emitted[k].port = dstPortOrGroup(outs[emitted[k].n].msg) % WORD
    /\ Ascending(toSwitch) /\ Ascending(emitted)
    /\ \A j \in DOMAIN emitted, k \in DOMAIN toSwitch : emitted[j].n < toSwitch[k].n

outVars == <<toSwitch, emitted, outs>>

\* The number that is cut to a port is one.
LEMMA PortIsNat ==
    ASSUME NEW msg \in Messages
    PROVE  dstPortOrGroup(msg) \in Nat /\ mcastGrp(msg) \in Nat
<1>. msg.actions \in Seq(Actions)
  BY ListsAssumption DEF Messages
<1>1. mcastGrp(msg) \in Nat
  BY PortsAssumption DEF mcastGrp
<1>2. CASE Outputs(msg)
  <2>1. msg.actions[1] \in Actions /\ msg.actions[1].type = "OUTPUT"
    BY <1>2 DEF Outputs
  <2>2. msg.actions[1].port \in PortsOut
    BY <2>1 DEF Actions
  <2>3. \A port \in 0 .. WORD * WORD - 1 : port \in Nat
    OBVIOUS
  <2>. QED  BY <1>1, <2>2, <2>3, PortsAssumption DEF dstPortOrGroup
<1>3. CASE ~Outputs(msg)
  BY <1>1, <1>3 DEF dstPortOrGroup
<1>. QED  BY <1>2, <1>3

\* A header word is two bytes.
LEMMA WordIsSeq ==
    ASSUME NEW v \in Nat
    PROVE  swap(Store(v)) \in Seq(Nat)
<1>. BYTE \in Nat /\ BYTE > 2  BY ByteAssumption
<1>1. v % BYTE \in Nat /\ v \div BYTE \in Nat /\ (v \div BYTE) % BYTE \in Nat
  OBVIOUS
<1>. QED  BY <1>1 DEF swap, Store

\* An answer changes nothing of what was answered before.
LEMMA Answered ==
    ASSUME OutInv, NEW msg \in Messages, NEW rv \in {"NONE", "BAD_ACTION"}, Answer(msg, rv)
    PROVE  /\ outs' \in Seq([msg : Messages, rv : {"NONE", "BAD_ACTION"}])
           /\ Len(outs') = Len(outs) + 1 /\ outs'[Len(outs) + 1] = [msg |-> msg, rv |-> rv]
           /\ \A n \in DOMAIN outs : n \in DOMAIN outs' /\ outs'[n] = outs[n] /\ n < Len(outs) + 1
<1>. DEFINE a == [msg |-> msg, rv |-> rv]
            T == [msg : Messages, rv : {"NONE", "BAD_ACTION"}]
<1>1. a \in T /\ outs \in Seq(T) /\ outs' = Append(outs, a)
  BY DEF OutInv, Answer
<1>. HIDE DEF a, T
<1>2. outs' \in Seq(T) /\ Len(outs') = Len(outs) + 1 /\ outs'[Len(outs) + 1] = a
      /\ \A n \in 1 .. Len(outs) : outs'[n] = outs[n]
  BY <1>1, AppendProperties
<1>3. DOMAIN outs = 1 .. Len(outs) /\ DOMAIN outs' = 1 .. Len(outs') /\ Len(outs) \in Nat
  BY <1>1, <1>2
<1>. QED  BY <1>2, <1>3 DEF a, T

\* A packet out that is sent, or whose frame is lost, keeps the invariant.
LEMMA PacketOutKeeps ==
    ASSUME OutInv, NEW msg \in Messages, PacketOut(msg) PROVE OutInv'
<1>1. Answer(msg, "NONE") /\ emitted' = emitted
  BY DEF PacketOut
<1>2. /\ outs' \in Seq([msg : Messages, rv : {"NONE", "BAD_ACTION"}])
      /\ Len(outs') = Len(outs) + 1 /\ outs'[Len(outs) + 1] = [msg |-> msg, rv |-> "NONE"]
      /\ \A n \in DOMAIN outs : n \in DOMAIN outs' /\ outs'[n] = outs[n] /\ n < Len(outs) + 1
  BY <1>1, Answered
<1>3. CASE UNCHANGED toSwitch
  BY <1>1, <1>3, <1>2 DEF OutInv, IsOf, Ascending
<1>4. CASE toSwitch' # toSwitch
  <2>. DEFINE f == [n |-> Len(outs) + 1, dst |-> swap(Store(dstPortOrGroup(msg))),
                    mcastGrp |-> swap(Store(mcastGrp(msg))), frame |-> msg.frame]
  <2>1. toSwitch' = Append(toSwitch, f) /\ toSwitch \in Seq(FrameOut) /\ Len(outs) \in Nat
    BY <1>4 DEF PacketOut, OutInv
  <2>2. f \in FrameOut
    <3>1. f.dst \in Seq(Nat) /\ f.mcastGrp \in Seq(Nat)
      BY PortIsNat, WordIsSeq
    <3>2. f.n \in Nat /\ f.frame \in FramesOut
      BY <2>1 DEF Messages
    <3>. QED  BY <3>1, <3>2 DEF FrameOut
  <2>3. /\ toSwitch' \in Seq(FrameOut) /\ Len(toSwitch') = Len(toSwitch) + 1
        /\ toSwitch'[Len(toSwitch) + 1] = f
        /\ \A k \in 1 .. Len(toSwitch) : toSwitch'[k] = toSwitch[k]
    <3>. HIDE DEF f
    <3>. QED  BY <2>1, <2>2, AppendProperties
  <2>4. \A k \in DOMAIN toSwitch' :
            \/ k \in DOMAIN toSwitch /\ toSwitch'[k] = toSwitch[k]
            \/ k = Len(toSwitch) + 1 /\ toSwitch'[k] = f
    BY <2>1, <2>3
  <2>5. f.n = Len(outs) + 1 /\ f.frame = msg.frame /\ f.dst = swap(Store(dstPortOrGroup(msg)))
    OBVIOUS
  <2>. HIDE DEF f
  <2>6. \A k \in DOMAIN toSwitch' :
            IsOf(toSwitch[k])' /\ toSwitch'[k].dst = swap(Store(dstPortOrGroup(outs'[toSwitch'[k].n].msg)))
    <3>. SUFFICES ASSUME NEW k \in DOMAIN toSwitch'
                  PROVE  /\ IsOf(toSwitch[k])'
                         /\ toSwitch'[k].dst = swap(Store(dstPortOrGroup(outs'[toSwitch'[k].n].msg)))
      OBVIOUS
    <3>1. CASE k \in DOMAIN toSwitch /\ toSwitch'[k] = toSwitch[k]
      BY <1>1, <3>1, <1>2 DEF OutInv, IsOf
    <3>2. CASE k = Len(toSwitch) + 1 /\ toSwitch'[k] = f
      BY <2>1, <2>5, <3>2, <1>2 DEF IsOf
    <3>. QED  BY <2>4, <3>1, <3>2
  <2>7. \A k \in DOMAIN emitted :
            IsOf(emitted[k])' /\ emitted'[k].port = dstPortOrGroup(outs'[emitted'[k].n].msg) % WORD
    BY <1>1, <1>2 DEF OutInv, IsOf
  <2>8. Ascending(toSwitch)'
    BY <1>1, <2>1, <2>3, <2>4, <2>5, <1>2 DEF OutInv, IsOf, Ascending
  <2>9. \A j \in DOMAIN emitted', k \in DOMAIN toSwitch' : emitted'[j].n < toSwitch'[k].n
    BY <1>1, <2>4, <2>5, <1>2 DEF OutInv, IsOf
  <2>. QED  BY <1>1, <2>3, <2>6, <2>7, <2>8, <2>9, <1>2 DEF OutInv, Ascending
<1>. QED  BY <1>3, <1>4

\* A refusal is answered, and nothing is sent.
LEMMA RefusalKeeps ==
    ASSUME OutInv, NEW msg \in Messages, PacketOutRefused(msg) PROVE OutInv'
<1>1. Answer(msg, "BAD_ACTION") /\ UNCHANGED <<toSwitch, emitted>>
  BY DEF PacketOutRefused
<1>2. /\ outs' \in Seq([msg : Messages, rv : {"NONE", "BAD_ACTION"}])
      /\ \A n \in DOMAIN outs : n \in DOMAIN outs' /\ outs'[n] = outs[n]
  BY <1>1, Answered
<1>. QED  BY <1>1, <1>2 DEF OutInv, IsOf, Ascending

\* The oldest frame on its way becomes the youngest packet that left.
LEMMA TerminateKeeps ==
    ASSUME OutInv, terminate_cpu_packet PROVE OutInv'
<1>. DEFINE f == Head(toSwitch)
            e == [n |-> f.n, port |-> Extract(f.dst), frame |-> f.frame]
            E == [n : Nat, port : 0 .. WORD - 1, frame : FramesOut]
<1>1. /\ toSwitch # <<>> /\ toSwitch \in Seq(FrameOut) /\ emitted \in Seq(E)
      /\ emitted' = Append(emitted, e) /\ toSwitch' = Tail(toSwitch) /\ outs' = outs
  BY DEF terminate_cpu_packet, OutInv
<1>2. f = toSwitch[1] /\ 1 \in DOMAIN toSwitch /\ f \in FrameOut /\ IsOf(f)
  BY <1>1 DEF OutInv
<1>3. outs[f.n].msg \in Messages
  <2>1. f.n \in DOMAIN outs /\ outs \in Seq([msg : Messages, rv : {"NONE", "BAD_ACTION"}])
    BY <1>2 DEF OutInv, IsOf
  <2>2. \A T : outs \in Seq(T) => outs[f.n] \in T
    BY <2>1, ElementOfSeq, LenProperties
  <2>. QED  BY <2>1, <2>2
<1>4. Extract(f.dst) = dstPortOrGroup(outs[f.n].msg) % WORD
  BY <1>2, <1>3, PortIsNat, LowBits DEF OutInv
<1>5. dstPortOrGroup(outs[f.n].msg) % WORD \in 0 .. WORD - 1
  <2>1. WORD \in Nat /\ WORD > 0
    BY ByteAssumption DEF WORD
  <2>. QED  BY <1>3, <2>1, PortIsNat
<1>6. e \in E
  BY <1>2, <1>4, <1>5 DEF FrameOut
<1>7. /\ emitted' \in Seq(E) /\ Len(emitted') = Len(emitted) + 1 /\ Len(emitted) \in Nat
      /\ emitted'[Len(emitted) + 1] = e
      /\ \A k \in 1 .. Len(emitted) : emitted'[k] = emitted[k]
  <2>. HIDE DEF e, E
  <2>. QED  BY <1>1, <1>6, AppendProperties
<1>8. /\ toSwitch' \in Seq(FrameOut) /\ Len(toSwitch') = Len(toSwitch) - 1
      /\ \A k \in 1 .. Len(toSwitch') : toSwitch'[k] = toSwitch[k + 1]
  BY <1>1, HeadTailProperties
<1>9. e.n = f.n /\ e.frame = f.frame /\ e.port = dstPortOrGroup(outs[f.n].msg) % WORD
  BY <1>4
<1>. HIDE DEF f, e, E
<1>10. \A k \in DOMAIN toSwitch' : k + 1 \in DOMAIN toSwitch /\ toSwitch'[k] = toSwitch[k + 1]
  BY <1>1, <1>8
<1>. /\ DOMAIN toSwitch \subseteq Nat \ {0} /\ DOMAIN toSwitch' \subseteq Nat \ {0}
     /\ DOMAIN emitted \subseteq Nat \ {0} /\ DOMAIN emitted' \subseteq Nat \ {0}
  BY <1>1, <1>7, <1>8
<1>11. \A k \in DOMAIN emitted' :
           \/ k \in DOMAIN emitted /\ emitted'[k] = emitted[k]
           \/ k = Len(emitted) + 1 /\ emitted'[k] = e
  BY <1>1, <1>7
<1>12. \A k \in DOMAIN toSwitch' :
           IsOf(toSwitch[k])' /\ toSwitch'[k].dst = swap(Store(dstPortOrGroup(outs'[toSwitch'[k].n].msg)))
  BY <1>1, <1>10 DEF OutInv, IsOf
<1>13. \A k \in DOMAIN emitted' :
           IsOf(emitted[k])' /\ emitted'[k].port = dstPortOrGroup(outs'[emitted'[k].n].msg) % WORD
  BY <1>1, <1>2, <1>9, <1>11 DEF OutInv, IsOf
<1>14. Ascending(toSwitch)'
  <2>1. \A j, k \in DOMAIN toSwitch' : j < k => toSwitch'[j].n < toSwitch'[k].n
    BY <1>10 DEF OutInv, Ascending
  <2>. QED  BY <2>1 DEF Ascending
<1>15. Ascending(emitted)'
  <2>1. \A j \in DOMAIN emitted : emitted[j].n < f.n
    BY <1>2 DEF OutInv
  <2>2. \A j, k \in DOMAIN emitted' : j < k => emitted'[j].n < emitted'[k].n
    BY <1>1, <1>7, <1>9, <1>11, <2>1, SMTT(20) DEF OutInv, Ascending
  <2>. QED  BY <2>2 DEF Ascending
<1>16. \A j \in DOMAIN emitted', k \in DOMAIN toSwitch' : emitted'[j].n < toSwitch'[k].n
  <2>1. \A k \in DOMAIN toSwitch' : f.n < toSwitch'[k].n
    BY <1>2, <1>10 DEF OutInv, Ascending
  <2>. QED  BY <1>9, <1>10, <1>11, <2>1 DEF OutInv
<1>. QED  BY <1>1, <1>7, <1>8, <1>12, <1>13, <1>14, <1>15, <1>16 DEF OutInv, E

\* Every step keeps the invariant of the packet outs.
LEMMA OutStep == OutInv /\ [Next]_vars => OutInv'
<1>. SUFFICES ASSUME OutInv, [Next]_vars PROVE OutInv'
  OBVIOUS
<1>1. ASSUME UNCHANGED outVars PROVE OutInv'
  BY <1>1 DEF outVars, OutInv, IsOf, Ascending
<1>2. ASSUME NEW msg \in Messages, PacketOut(msg) PROVE OutInv'
  BY <1>2, PacketOutKeeps
<1>3. ASSUME NEW msg \in Messages, PacketOutRefused(msg) PROVE OutInv'
  BY <1>3, RefusalKeeps
<1>4. CASE terminate_cpu_packet
  BY <1>4, TerminateKeeps
<1>5. ASSUME NEW miss \in Misses, openflow_miss(miss) PROVE OutInv'
  BY <1>1, <1>5 DEF openflow_miss, outVars
<1>6. CASE packet_in_handler
  BY <1>1, <1>6 DEF packet_in_handler, outVars
<1>7. CASE ReadFails
  BY <1>1, <1>7 DEF ReadFails, packets, outVars
<1>8. CASE StartUp
  BY <1>1, <1>8 DEF StartUp, InitModules, AddController, CreateSessions, state_init,
     cpu_packet_init, ind_soc_socket_register, pthread_create, Part, packets, outVars
<1>9. CASE UNCHANGED vars
  BY <1>1, <1>9 DEF vars, packets, outVars
<1>10. ASSUME NEW msg \in Messages, PacketOutOverruns(msg) PROVE OutInv'
  BY <1>1, <1>10 DEF PacketOutOverruns, packets, outVars
<1>11. CASE CpuPort
  BY <1>1, <1>11 DEF CpuPort, outVars
<1>. QED  BY <1>2, <1>3, <1>4, <1>5, <1>6, <1>7, <1>8, <1>9, <1>10, <1>11 DEF Next

\* The initial state satisfies it.
LEMMA OutInit == Init => OutInv
BY DEF Init, OutInv, Ascending

\* For any packet outs, each leaves at most once, in order, as it was given, and none
\* that was refused.
THEOREM OutsLeave == Spec => []OutsLeaveAsGiven
<1>1. OutInv => OutsLeaveAsGiven
  BY DEF OutInv, IsOf, OutsLeaveAsGiven
<1>. QED  BY <1>1, OutInit, OutStep, PTL DEF Spec

\* A reserved port does not have 16 bits.
LEMMA ReservedIsWide ==
    ASSUME NEW port \in 0 .. WORD - 1 PROVE ~Floods(port)
<1>1. WORD \in Nat /\ WORD >= 9
  <2>1. BYTE \in Nat /\ BYTE >= 3
    BY ByteAssumption
  <2>2. PICK d \in Nat : BYTE = 3 + d
    <3>. BYTE - 3 \in Nat /\ BYTE = 3 + (BYTE - 3)  BY <2>1
    <3>. QED  OBVIOUS
  <2>3. d * d \in Nat /\ WORD = 9 + 6 * d + d * d
    BY <2>2 DEF WORD
  <2>. QED  BY <2>2, <2>3
<1>. HIDE DEF WORD
<1>2. PICK e \in Nat : WORD = 9 + e
  <2>. WORD - 9 \in Nat /\ WORD = 9 + (WORD - 9)  BY <1>1
  <2>. QED  OBVIOUS
<1>3. e * e \in Nat /\ WORD * WORD = 81 + 18 * e + e * e
  BY <1>2
<1>4. WORD * WORD - 5 >= WORD /\ WORD * WORD - 4 >= WORD
  BY <1>2, <1>3
<1>. QED  BY <1>1, <1>3, <1>4 DEF Floods, ofp_port_no

\* For every width of a byte, every port of 16 bits and any packet outs, a packet out that
\* names the port leaves at it.
THEOREM PortIsNamed == Spec => []LeavesAtItsPort
<1>1. OutInv => LeavesAtItsPort
  <2>. SUFFICES ASSUME OutInv, NEW k \in DOMAIN emitted, NEW port \in 0 .. WORD - 1,
                       Names(outs[emitted[k].n].msg, port)
                PROVE  emitted[k].port = port
    BY DEF LeavesAtItsPort
  <2>1. dstPortOrGroup(outs[emitted[k].n].msg) = port
    BY ReservedIsWide DEF Names, dstPortOrGroup
  <2>2. port % WORD = port
    <3>1. WORD \in Nat /\ WORD > 0
      BY ByteAssumption DEF WORD
    <3>. HIDE DEF WORD
    <3>. QED  BY <3>1
  <2>. QED  BY <2>1, <2>2 DEF OutInv
<1>. QED  BY <1>1, OutInit, OutStep, PTL DEF Spec

(***************************************************************************)
(* Packet ins                                                              *)
(***************************************************************************)
\* The agent reads the word the switch wrote.
LEMMA WordRoundTrip ==
    ASSUME NEW v \in 0 .. WORD - 1
    PROVE  Load(swap(Emit(v))) = v
<1>. BYTE \in Nat /\ BYTE > 2 /\ WORD \in Nat /\ v \in Nat
  BY ByteAssumption DEF WORD
<1>1. v % WORD = v
  <2>. HIDE DEF WORD
  <2>. QED  OBVIOUS
<1>2. Extract(swap(Store(v))) = ((v \div BYTE) % BYTE) * BYTE + (v % BYTE)
  BY DEF Extract, swap, Store
<1>3. Load(swap(Emit(v))) = (v % BYTE) + ((v \div BYTE) % BYTE) * BYTE
  BY DEF Load, swap, Emit
<1>4. v % BYTE \in Nat /\ ((v \div BYTE) % BYTE) * BYTE \in Nat
  <2>1. v \div BYTE \in Nat
    OBVIOUS
  <2>2. (v \div BYTE) % BYTE \in Nat /\ v % BYTE \in Nat
    BY <2>1
  <2>. QED  BY <2>2
<1>. QED  BY <1>1, <1>2, <1>3, <1>4, LowBits

\* Reason and table come apart as they were put together.
LEMMA ReasonAndTable ==
    ASSUME NEW miss \in Misses
    PROVE  /\ reason_code(miss) \in 0 .. WORD - 1
           /\ reason_code(miss) \div BYTE = miss.reason
           /\ reason_code(miss) % BYTE = miss.table
<1>. BYTE \in Nat /\ BYTE > 2
  BY ByteAssumption
<1>1. miss.reason \in 0 .. BYTE - 1 /\ miss.table \in 0 .. BYTE - 1
  BY CodesAssumption DEF Misses
<1>2. miss.reason * BYTE + 0 \in 0 .. WORD - 1
  <2>1. 0 \in 0 .. BYTE - 1
    OBVIOUS
  <2>. QED  BY <1>1, <2>1, TwoBytes
<1>3. (miss.reason * BYTE) % WORD = miss.reason * BYTE
  <2>1. miss.reason * BYTE \in 0 .. WORD - 1 /\ WORD \in Nat
    BY <1>1, <1>2 DEF WORD
  <2>. HIDE DEF WORD
  <2>. QED  BY <2>1
<1>4. reason_code(miss) = miss.reason * BYTE + miss.table
  BY <1>3 DEF reason_code
<1>5. /\ (miss.reason * BYTE + miss.table) \div BYTE = miss.reason
      /\ (miss.reason * BYTE + miss.table) % BYTE = miss.table
  <2>1. BYTE \in Nat /\ BYTE > 0 /\ miss.reason \in Nat
    BY <1>1
  <2>. QED  BY <1>1, <2>1, OneRest
<1>6. miss.reason * BYTE + miss.table \in 0 .. WORD - 1
  BY <1>1, TwoBytes
<1>. QED  BY <1>4, <1>5, <1>6

\* A packet in as the controller gets it.
PacketIn == [n : Nat, filled : BOOLEAN, reason : 0 .. BYTE - 1, table : 0 .. BYTE - 1,
             port : 0 .. WORD - 1, etherType : EtherTypes, frame : FramesIn,
             total_len : Nat, bytes : Nat, clean : BOOLEAN]

\* What a packet in says of its length.
TellsLength(p) ==
    /\ p.total_len <= p.frame.len /\ p.total_len <= p.bytes
    /\ p.frame.len + HDR <= BUF => p.total_len = p.frame.len
    /\ p.frame.len + HDR + 14 <= BUF => p.clean

\* Packet f is on its way to the CPU port with the metadata of its miss, frame f is what
\* the switch has made of such a packet, and packet in p tells of its miss.
HasMetadata(f, ms) == f.n \in DOMAIN ms /\ f = fabric_metadata(f.n, ms[f.n])
CarriesMiss(f, ms) ==
    f.n \in DOMAIN ms /\ f = cpu_packet(fabric_metadata(f.n, ms[f.n]), f.filled)
TellsMiss(p, ms) ==
    /\ p.n \in DOMAIN ms /\ p.frame = ms[p.n].frame
    /\ p.filled =>
          /\ p.etherType = p.frame.etherType
          /\ [port |-> p.port, table |-> p.table, reason |-> p.reason, frame |-> p.frame] = ms[p.n]

\* What is in q is older than what is in r.
Before(q, r) == \A j \in DOMAIN q, k \in DOMAIN r : q[j].n < r[k].n

\* Packets and frames on their way carry their miss, packet ins tell of it, and what is
\* further on its way is older.
InInv ==
    /\ toCpu \in Seq(FrameMiss) /\ toAgent \in Seq(FrameIn)
    /\ packetIns \in Seq(PacketIn) /\ misses \in Seq(Misses)
    /\ \A k \in DOMAIN toCpu : HasMetadata(toCpu[k], misses)
    /\ \A k \in DOMAIN toAgent : CarriesMiss(toAgent[k], misses)
    /\ \A k \in DOMAIN packetIns : TellsMiss(packetIns[k], misses) /\ TellsLength(packetIns[k])
    /\ Ascending(toCpu) /\ Ascending(toAgent) /\ Ascending(packetIns)
    /\ Before(toAgent, toCpu) /\ Before(packetIns, toCpu) /\ Before(packetIns, toAgent)

inVars == <<toCpu, toAgent, packetIns, misses>>

\* A queue that gets a younger element keeps its order.
LEMMA Pushed ==
    ASSUME NEW S, NEW q \in Seq(S), NEW e \in S, Ascending(q), \A j \in DOMAIN q : q[j].n < e.n
    PROVE  /\ Append(q, e) \in Seq(S) /\ Ascending(Append(q, e))
           /\ \A k \in DOMAIN Append(q, e) :
                 Append(q, e)[k] = e \/ \E j \in DOMAIN q : Append(q, e)[k] = q[j]
<1>1. /\ DOMAIN q = 1 .. Len(q) /\ DOMAIN Append(q, e) = 1 .. Len(q) + 1 /\ Len(q) \in Nat
      /\ Append(q, e)[Len(q) + 1] = e /\ Append(q, e) \in Seq(S)
      /\ \A k \in 1 .. Len(q) : Append(q, e)[k] = q[k]
  OBVIOUS
<1>2. Ascending(Append(q, e))
  BY <1>1 DEF Ascending
<1>. QED  BY <1>1, <1>2

\* A queue whose head is taken off it keeps its order, and the head was the oldest.
LEMMA Popped ==
    ASSUME NEW S, NEW q \in Seq(S), q # <<>>, Ascending(q)
    PROVE  /\ Tail(q) \in Seq(S) /\ Ascending(Tail(q)) /\ Head(q) \in S
           /\ \E j \in DOMAIN q : Head(q) = q[j]
           /\ \A k \in DOMAIN Tail(q) :
                 Head(q).n < Tail(q)[k].n /\ \E j \in DOMAIN q : Tail(q)[k] = q[j]
<1>1. /\ DOMAIN q = 1 .. Len(q) /\ DOMAIN Tail(q) = 1 .. Len(q) - 1 /\ Len(q) \in Nat \ {0}
      /\ Head(q) = q[1] /\ Tail(q) \in Seq(S) /\ q[1] \in S
      /\ \A k \in 1 .. Len(q) - 1 : Tail(q)[k] = q[k + 1]
  OBVIOUS
<1>2. \A k \in DOMAIN Tail(q) : k + 1 \in DOMAIN q /\ Tail(q)[k] = q[k + 1] /\ k \in Nat /\ 1 < k + 1
  BY <1>1
<1>3. 1 \in DOMAIN q
  BY <1>1
<1>4. Ascending(Tail(q))
  <2>1. \A j, k \in DOMAIN Tail(q) : j < k => Tail(q)[j].n < Tail(q)[k].n
    BY <1>2 DEF Ascending
  <2>. QED  BY <2>1 DEF Ascending
<1>5. \A k \in DOMAIN Tail(q) : Head(q).n < Tail(q)[k].n
  BY <1>1, <1>2, <1>3 DEF Ascending
<1>. QED  BY <1>1, <1>2, <1>3, <1>4, <1>5

\* A miss has a port, a reason and a table that fit their fields.
LEMMA MissFits ==
    ASSUME misses \in Seq(Misses), NEW n \in DOMAIN misses
    PROVE  /\ misses[n] \in Misses /\ misses[n].frame \in FramesIn /\ n \in Nat
           /\ misses[n].port \in PortsIn /\ misses[n].port \in 0 .. WORD - 1
           /\ misses[n].reason \in 0 .. BYTE - 1 /\ misses[n].table \in 0 .. BYTE - 1
           /\ misses[n].frame.etherType \in EtherTypes
<1>1. misses[n] \in Misses /\ n \in Nat
  BY ElementOfSeq, LenProperties
<1>. QED  BY <1>1, PortsAssumption, CodesAssumption DEF Misses, EtherTypes

\* The frame of a miss is made into a packet in that tells of it.
LEMMA MissIsTold ==
    ASSUME NEW f \in FrameIn, CarriesMiss(f, misses), misses \in Seq(Misses)
    PROVE  packet_in(f) \in PacketIn /\ TellsMiss(packet_in(f), misses) /\ TellsLength(packet_in(f))
<1>. DEFINE miss == misses[f.n]
            code == Load(swap(f.reasonCode))
            port == Load(swap(f.ingressPort))
            r == Received(f)
<1>1. /\ miss \in Misses /\ miss.port \in 0 .. WORD - 1
      /\ miss.reason \in 0 .. BYTE - 1 /\ miss.table \in 0 .. BYTE - 1
  BY MissFits DEF CarriesMiss
<1>2. /\ f.frame = miss.frame
      /\ f.filled => /\ f.reasonCode = Emit(reason_code(miss)) /\ f.ingressPort = Emit(miss.port)
                     /\ f.etherType = miss.frame.etherType
      /\ ~f.filled => f.reasonCode = Emit(0) /\ f.ingressPort = Emit(0)
  <2>. HIDE DEF miss
  <2>1. f = cpu_packet(fabric_metadata(f.n, miss), f.filled)
    BY DEF CarriesMiss, miss
  <2>. QED  BY <2>1 DEF cpu_packet, fabric_metadata
<1>3. f.filled => code \div BYTE = miss.reason /\ code % BYTE = miss.table /\ port = miss.port
  BY <1>1, <1>2, WordRoundTrip, ReasonAndTable
<1>4. ~f.filled => code = 0 /\ port = 0
  <2>1. 0 \in 0 .. WORD - 1
    BY ByteAssumption, TwoBytes DEF WORD
  <2>. QED  BY <1>2, <2>1, WordRoundTrip
<1>5. code \div BYTE \in 0 .. BYTE - 1 /\ code % BYTE \in 0 .. BYTE - 1 /\ port \in 0 .. WORD - 1
  <2>1. 0 \div BYTE = 0 /\ 0 % BYTE = 0 /\ 0 \in 0 .. BYTE - 1
    BY ByteAssumption
  <2>2. 0 \in 0 .. WORD - 1
    BY ByteAssumption, TwoBytes DEF WORD
  <2>. HIDE DEF code, port, miss
  <2>. QED  BY <1>1, <1>3, <1>4, <2>1, <2>2
<1>6. /\ f.frame \in FramesIn /\ f.frame.len \in Nat /\ f.n \in Nat
      /\ f.filled \in BOOLEAN /\ f.etherType \in EtherTypes
  BY FramesAssumption DEF FrameIn
<1>7. /\ r \in Nat /\ r - HDR \in Nat /\ r <= f.frame.len + HDR
      /\ f.frame.len + HDR <= BUF => r = f.frame.len + HDR
      /\ HDR \in Nat /\ BUF \in Nat
  BY <1>6, BoundsAssumption DEF Received, HDR
<1>8. packet_in(f) =
          [n |-> f.n, filled |-> f.filled, reason |-> code \div BYTE, table |-> code % BYTE,
           port |-> port, etherType |-> f.etherType, frame |-> f.frame,
           total_len |-> r - HDR, bytes |-> r, clean |-> r + 14 <= BUF]
  BY DEF packet_in
<1>. HIDE DEF r, miss, code, port
<1>9. packet_in(f) \in PacketIn
  <2>1. (r + 14 <= BUF) \in BOOLEAN
    OBVIOUS
  <2>. QED  BY <1>5, <1>6, <1>7, <1>8, <2>1 DEF PacketIn
<1>10. TellsMiss(packet_in(f), misses)
  <2>1. [port |-> miss.port, table |-> miss.table, reason |-> miss.reason, frame |-> miss.frame] = miss
    BY <1>1 DEF Misses
  <2>2. f.n \in DOMAIN misses /\ misses[f.n] = miss
    BY DEF CarriesMiss, miss
  <2>. QED  BY <1>2, <1>3, <1>8, <2>1, <2>2 DEF TellsMiss
<1>11. TellsLength(packet_in(f))
  <2>1. /\ packet_in(f).total_len = r - HDR /\ packet_in(f).bytes = r
        /\ packet_in(f).clean = (r + 14 <= BUF) /\ packet_in(f).frame = f.frame
    BY <1>8
  <2>2. /\ r - HDR <= f.frame.len /\ r - HDR <= r
        /\ f.frame.len + HDR <= BUF => r - HDR = f.frame.len
        /\ f.frame.len + HDR + 14 <= BUF => r + 14 <= BUF
    BY <1>6, <1>7
  <2>. QED  BY <2>1, <2>2 DEF TellsLength
<1>. QED  BY <1>9, <1>10, <1>11

\* A miss is put behind the packets on their way to the CPU port.
LEMMA MissKeeps ==
    ASSUME InInv, NEW miss \in Misses, openflow_miss(miss) PROVE InInv'
<1>. DEFINE n == Len(misses) + 1
            f == fabric_metadata(n, miss)
<1>1. /\ misses' = Append(misses, miss) /\ toCpu' = Append(toCpu, f)
      /\ toAgent' = toAgent /\ packetIns' = packetIns
      /\ misses \in Seq(Misses) /\ toCpu \in Seq(FrameMiss)
  BY DEF openflow_miss, InInv
<1>2. /\ misses' \in Seq(Misses) /\ n \in DOMAIN misses' /\ misses'[n] = miss /\ n \in Nat
      /\ \A k \in DOMAIN misses : k \in DOMAIN misses' /\ misses'[k] = misses[k] /\ k < n
  BY <1>1, AppendProperties
<1>3. HasMetadata(f, misses') /\ f.n = n
  BY <1>2 DEF HasMetadata, fabric_metadata
<1>4. f \in FrameMiss
  <2>1. reason_code(miss) \in 0 .. WORD - 1 /\ miss.port \in PortsIn /\ miss.frame \in FramesIn
        /\ miss.frame.etherType \in EtherTypes
    BY ReasonAndTable DEF Misses, EtherTypes
  <2>. QED  BY <1>2, <2>1 DEF fabric_metadata, FrameMiss
<1>. HIDE DEF f, n
<1>5. \A k \in DOMAIN toCpu : toCpu[k].n < n
  BY <1>2 DEF InInv, HasMetadata
<1>6. /\ toCpu' \in Seq(FrameMiss) /\ Ascending(toCpu)'
      /\ \A k \in DOMAIN toCpu' : toCpu'[k] = f \/ \E j \in DOMAIN toCpu : toCpu'[k] = toCpu[j]
  <2>1. Ascending(toCpu) /\ \A k \in DOMAIN toCpu : toCpu[k].n < f.n
    BY <1>3, <1>5 DEF InInv
  <2>2. /\ Append(toCpu, f) \in Seq(FrameMiss) /\ Ascending(Append(toCpu, f))
        /\ \A k \in DOMAIN Append(toCpu, f) :
              Append(toCpu, f)[k] = f \/ \E j \in DOMAIN toCpu : Append(toCpu, f)[k] = toCpu[j]
    BY <1>1, <1>4, <2>1, Pushed
  <2>. QED  BY <1>1, <2>2 DEF Ascending
<1>7. \A k \in DOMAIN toCpu' : HasMetadata(toCpu'[k], misses')
  <2>1. \A j \in DOMAIN toCpu : HasMetadata(toCpu[j], misses')
    BY <1>2 DEF InInv, HasMetadata
  <2>. QED  BY <1>3, <1>6, <2>1
<1>8. \A k \in DOMAIN toAgent : CarriesMiss(toAgent[k], misses') /\ toAgent[k].n < n
  BY <1>2 DEF InInv, CarriesMiss
<1>9. \A k \in DOMAIN packetIns : TellsMiss(packetIns[k], misses') /\ packetIns[k].n < n
  BY <1>2 DEF InInv, TellsMiss
<1>10. Before(toAgent, toCpu') /\ Before(packetIns, toCpu')
  BY <1>3, <1>6, <1>8, <1>9 DEF InInv, Before
<1>. QED  BY <1>1, <1>2, <1>6, <1>7, <1>8, <1>9, <1>10 DEF InInv, Ascending, Before

\* The oldest packet on its way to the CPU port becomes the youngest frame in the
\* queue of the agent, or is lost.
LEMMA CpuPortKeeps ==
    ASSUME InInv, CpuPort PROVE InInv'
<1>. DEFINE c == Head(toCpu)
<1>1. /\ toCpu # <<>> /\ toCpu' = Tail(toCpu) /\ UNCHANGED <<packetIns, misses>>
      /\ toCpu \in Seq(FrameMiss) /\ toAgent \in Seq(FrameIn) /\ misses \in Seq(Misses)
  BY DEF CpuPort, InInv
<1>2. /\ toCpu' \in Seq(FrameMiss) /\ Ascending(toCpu)' /\ c \in FrameMiss
      /\ \E j \in DOMAIN toCpu : c = toCpu[j]
      /\ \A k \in DOMAIN toCpu' : c.n < toCpu'[k].n /\ \E j \in DOMAIN toCpu : toCpu'[k] = toCpu[j]
  <2>1. Ascending(toCpu)
    BY DEF InInv
  <2>2. /\ Tail(toCpu) \in Seq(FrameMiss) /\ Ascending(Tail(toCpu)) /\ Head(toCpu) \in FrameMiss
        /\ \E j \in DOMAIN toCpu : Head(toCpu) = toCpu[j]
        /\ \A k \in DOMAIN Tail(toCpu) :
              /\ Head(toCpu).n < Tail(toCpu)[k].n
              /\ \E j \in DOMAIN toCpu : Tail(toCpu)[k] = toCpu[j]
    BY <1>1, <2>1, Popped
  <2>. QED  BY <1>1, <2>2 DEF Ascending
<1>3. HasMetadata(c, misses) /\ \A k \in DOMAIN toCpu' : HasMetadata(toCpu'[k], misses')
  BY <1>1, <1>2 DEF InInv
<1>4. Before(toAgent, toCpu') /\ Before(packetIns, toCpu')
      /\ (\A j \in DOMAIN toAgent : toAgent[j].n < c.n)
      /\ (\A j \in DOMAIN packetIns : packetIns[j].n < c.n)
  BY <1>2 DEF InInv, Before
<1>5. CASE UNCHANGED toAgent
  BY <1>1, <1>2, <1>3, <1>4, <1>5 DEF InInv, Before, Ascending
<1>6. ASSUME NEW filled \in BOOLEAN, toAgent' = Append(toAgent, cpu_packet(c, filled))
      PROVE  InInv'
  <2>. DEFINE f == cpu_packet(c, filled)
  <2>1. f.n = c.n /\ f.filled = filled
    BY DEF cpu_packet
  <2>2. CarriesMiss(f, misses)
    BY <1>3, <2>1 DEF CarriesMiss, HasMetadata
  <2>3. f \in FrameIn
    <3>1. \A v \in Nat : Emit(v) \in Seq(Nat)
      BY WordIsSeq DEF swap, Store, Emit
    <3>2. c.reason_code \in Nat /\ c.ingressPort \in Nat /\ c.etherType \in EtherTypes
          /\ "ZERO" \in EtherTypes /\ c.n \in Nat /\ c.frame \in FramesIn
      <4>1. c.reason_code \in 0 .. WORD - 1 /\ c.ingressPort \in 0 .. WORD - 1
        BY <1>2, PortsAssumption DEF FrameMiss
      <4>2. \A v \in 0 .. WORD - 1 : v \in Nat
        OBVIOUS
      <4>. QED  BY <1>2, <4>1, <4>2 DEF FrameMiss, EtherTypes
    <3>. HIDE DEF c
    <3>3. /\ f.reasonCode \in Seq(Nat) /\ f.ingressPort \in Seq(Nat) /\ f.etherType \in EtherTypes
          /\ f.n \in Nat /\ f.filled \in BOOLEAN /\ f.frame \in FramesIn
      BY <3>1, <3>2 DEF cpu_packet
    <3>4. f = [n |-> f.n, filled |-> f.filled, frame |-> f.frame, reasonCode |-> f.reasonCode,
               ingressPort |-> f.ingressPort, etherType |-> f.etherType]
      BY DEF cpu_packet
    <3>. HIDE DEF f
    <3>. QED  BY <3>3, <3>4 DEF FrameIn
  <2>. HIDE DEF f
  <2>4. toAgent' = Append(toAgent, f)
    BY <1>6 DEF f
  <2>5. /\ toAgent' \in Seq(FrameIn) /\ Ascending(toAgent)'
        /\ \A k \in DOMAIN toAgent' : toAgent'[k] = f \/ \E j \in DOMAIN toAgent : toAgent'[k] = toAgent[j]
    <3>1. Ascending(toAgent) /\ \A k \in DOMAIN toAgent : toAgent[k].n < f.n
      BY <1>4, <2>1 DEF InInv
    <3>2. /\ Append(toAgent, f) \in Seq(FrameIn) /\ Ascending(Append(toAgent, f))
          /\ \A k \in DOMAIN Append(toAgent, f) :
                Append(toAgent, f)[k] = f \/ \E j \in DOMAIN toAgent : Append(toAgent, f)[k] = toAgent[j]
      BY <1>1, <2>3, <3>1, Pushed
    <3>. QED  BY <2>4, <3>2 DEF Ascending
  <2>6. \A k \in DOMAIN toAgent' : CarriesMiss(toAgent'[k], misses')
    BY <1>1, <2>2, <2>5 DEF InInv
  <2>7. Before(toAgent', toCpu') /\ Before(packetIns, toAgent')
    BY <1>2, <1>4, <2>1, <2>5 DEF InInv, Before
  <2>. QED  BY <1>1, <1>2, <1>3, <1>4, <2>5, <2>6, <2>7 DEF InInv, Before, Ascending
<1>. QED  BY <1>5, <1>6 DEF CpuPort

\* The oldest frame in the queue becomes the youngest packet in.
LEMMA HandlerKeeps ==
    ASSUME InInv, packet_in_handler PROVE InInv'
<1>. DEFINE f == Head(toAgent)
            p == packet_in(f)
<1>1. /\ toAgent # <<>> /\ toAgent \in Seq(FrameIn) /\ packetIns \in Seq(PacketIn)
      /\ packetIns' = Append(packetIns, p) /\ toAgent' = Tail(toAgent)
      /\ UNCHANGED <<toCpu, misses>> /\ misses \in Seq(Misses)
  BY DEF packet_in_handler, InInv
<1>2. /\ toAgent' \in Seq(FrameIn) /\ Ascending(toAgent)' /\ f \in FrameIn
      /\ \E j \in DOMAIN toAgent : f = toAgent[j]
      /\ \A k \in DOMAIN toAgent' : f.n < toAgent'[k].n /\ \E j \in DOMAIN toAgent : toAgent'[k] = toAgent[j]
  <2>1. Ascending(toAgent)
    BY DEF InInv
  <2>2. /\ Tail(toAgent) \in Seq(FrameIn) /\ Ascending(Tail(toAgent)) /\ Head(toAgent) \in FrameIn
        /\ \E j \in DOMAIN toAgent : Head(toAgent) = toAgent[j]
        /\ \A k \in DOMAIN Tail(toAgent) :
              /\ Head(toAgent).n < Tail(toAgent)[k].n
              /\ \E j \in DOMAIN toAgent : Tail(toAgent)[k] = toAgent[j]
    BY <1>1, <2>1, Popped
  <2>. QED  BY <1>1, <2>2 DEF Ascending
<1>3. CarriesMiss(f, misses) /\ \A k \in DOMAIN toAgent' : CarriesMiss(toAgent'[k], misses')
  BY <1>1, <1>2 DEF InInv
<1>4. p \in PacketIn /\ TellsMiss(p, misses) /\ TellsLength(p) /\ p.n = f.n
  BY <1>1, <1>2, <1>3, MissIsTold DEF packet_in
<1>5. /\ Before(toAgent', toCpu) /\ Before(packetIns, toAgent')
      /\ (\A j \in DOMAIN packetIns : packetIns[j].n < p.n)
      /\ (\A j \in DOMAIN toCpu : p.n < toCpu[j].n) /\ (\A j \in DOMAIN toAgent' : p.n < toAgent'[j].n)
  BY <1>2, <1>4 DEF InInv, Before
<1>. HIDE DEF p, f
<1>6. /\ packetIns' \in Seq(PacketIn) /\ Ascending(packetIns)'
      /\ \A k \in DOMAIN packetIns' : packetIns'[k] = p \/ \E j \in DOMAIN packetIns : packetIns'[k] = packetIns[j]
  <2>1. Ascending(packetIns)
    BY DEF InInv
  <2>2. /\ Append(packetIns, p) \in Seq(PacketIn) /\ Ascending(Append(packetIns, p))
        /\ \A k \in DOMAIN Append(packetIns, p) :
              Append(packetIns, p)[k] = p \/ \E j \in DOMAIN packetIns : Append(packetIns, p)[k] = packetIns[j]
    BY <1>1, <1>4, <1>5, <2>1, Pushed
  <2>. QED  BY <1>1, <2>2 DEF Ascending
<1>7. \A k \in DOMAIN packetIns' : TellsMiss(packetIns'[k], misses') /\ TellsLength(packetIns'[k])
  BY <1>1, <1>4, <1>6 DEF InInv
<1>8. Before(packetIns', toCpu') /\ Before(packetIns', toAgent')
  BY <1>1, <1>5, <1>6 DEF InInv, Before
<1>. QED  BY <1>1, <1>2, <1>3, <1>5, <1>6, <1>7, <1>8 DEF InInv, Before, Ascending

\* Every step keeps the invariant of the packet ins.
LEMMA InStep == InInv /\ [Next]_vars => InInv'
<1>. SUFFICES ASSUME InInv, [Next]_vars PROVE InInv'
  OBVIOUS
<1>1. ASSUME UNCHANGED inVars PROVE InInv'
  BY <1>1 DEF inVars, InInv, Ascending, Before
<1>2. ASSUME NEW msg \in Messages, PacketOut(msg) PROVE InInv'
  BY <1>1, <1>2 DEF PacketOut, inVars
<1>3. ASSUME NEW msg \in Messages, PacketOutRefused(msg) PROVE InInv'
  BY <1>1, <1>3 DEF PacketOutRefused, inVars
<1>4. CASE terminate_cpu_packet
  BY <1>1, <1>4 DEF terminate_cpu_packet, inVars
<1>5. ASSUME NEW miss \in Misses, openflow_miss(miss) PROVE InInv'
  BY <1>5, MissKeeps
<1>6. CASE packet_in_handler
  BY <1>6, HandlerKeeps
<1>7. CASE ReadFails
  BY <1>1, <1>7 DEF ReadFails, packets, inVars
<1>8. CASE StartUp
  BY <1>1, <1>8 DEF StartUp, InitModules, AddController, CreateSessions, state_init,
     cpu_packet_init, ind_soc_socket_register, pthread_create, Part, packets, inVars
<1>9. CASE UNCHANGED vars
  BY <1>1, <1>9 DEF vars, packets, inVars
<1>10. ASSUME NEW msg \in Messages, PacketOutOverruns(msg) PROVE InInv'
  BY <1>1, <1>10 DEF PacketOutOverruns, packets, inVars
<1>11. CASE CpuPort
  BY <1>11, CpuPortKeeps
<1>. QED  BY <1>2, <1>3, <1>4, <1>5, <1>6, <1>7, <1>8, <1>9, <1>10, <1>11 DEF Next

\* The initial state satisfies it.
LEMMA InInit == Init => InInv
BY DEF Init, InInv, Ascending, Before

\* For any misses, the controller hears of each at most once, in order, and if the
\* program around openflow.p4 copies the metadata to the headers it gets the port, the
\* table and the reason openflow_miss wrote, whatever the width of a byte.
THEOREM MissesReported == Spec => []MissesReportedAsTheyAre
<1>1. InInv => MissesReportedAsTheyAre
  BY DEF InInv, TellsMiss, MissesReportedAsTheyAre
<1>. QED  BY <1>1, InInit, InStep, PTL DEF Spec

\* For frames of any length and any buffer, a packet in never tells more than the frame
\* has; if the frame fits it tells its length and brings as much data; and it has nothing
\* from outside the buffer if 14 bytes more would fit.
THEOREM LengthsTold == Spec => []PacketInLengths
<1>1. InInv => PacketInLengths
  BY DEF InInv, TellsLength, PacketInLengths
<1>. QED  BY <1>1, InInit, InStep, PTL DEF Spec

(***************************************************************************)
(* Types                                                                   *)
(***************************************************************************)
\* The variables the invariants above leave out.
Rest == /\ phase \in Phases /\ handler \in {"none", "registered", "refused"}
        /\ lost \subseteq {"out", "in"} \X Nat

\* Frames are numbered, and p4ofagent_init goes from phase to phase.
LEMMA RestStep == OutInv /\ InInv /\ Rest /\ [Next]_vars => Rest'
<1>. SUFFICES ASSUME OutInv, InInv, Rest, [Next]_vars PROVE Rest'
  OBVIOUS
<1>1. Len(outs) + 1 \in Nat /\ Len(misses) + 1 \in Nat
  BY DEF OutInv, InInv
<1>2. CASE \E msg \in Messages : PacketOut(msg)
  BY <1>1, <1>2 DEF Rest, PacketOut
<1>3. CASE CpuPort
  <2>1. Head(toCpu) \in FrameMiss
    BY <1>3, Popped DEF CpuPort, InInv
  <2>. QED  BY <1>3, <2>1 DEF Rest, CpuPort, FrameMiss
<1>4. CASE StartUp
  BY <1>4 DEF StartUp, InitModules, AddController, CreateSessions, state_init,
     cpu_packet_init, ind_soc_socket_register, pthread_create, Part, Rest, Phases, packets
<1>5. CASE ReadFails \/ \E msg \in Messages : PacketOutOverruns(msg)
  BY <1>5 DEF ReadFails, PacketOutOverruns, Rest, Phases, packets
<1>6. CASE UNCHANGED <<phase, handler, lost>>
  BY <1>6 DEF Rest
<1>. QED
  BY <1>2, <1>3, <1>4, <1>5, <1>6
     DEF Next, PacketOutRefused, terminate_cpu_packet, openflow_miss, packet_in_handler, vars, packets

\* Every variable keeps its type: no port, table or reason outgrows its field.
THEOREM PacketTypes == Spec => []TypeOK
<1>1. Init => Rest
  BY DEF Init, Rest, Phases
<1>2. OutInv /\ InInv /\ Rest => TypeOK
  BY DEF OutInv, InInv, Rest, TypeOK, PacketIn
<1>. QED
  BY <1>1, <1>2, OutInit, OutStep, InInit, InStep, RestStep, PTL DEF Spec

(***************************************************************************)
(* Nothing is lost but what is known to be                                 *)
(***************************************************************************)
\* A frame of number n is in the queue q, or was.
Among(n, q) == \E k \in DOMAIN q : q[k].n = n

\* Where a packet out is, if it was not refused; and a miss.
OutsAccountedFor ==
    \A n \in DOMAIN outs :
        \/ outs[n].rv # "NONE" \/ <<"out", n>> \in lost
        \/ Among(n, toSwitch) \/ Among(n, emitted)

MissesAccountedFor ==
    \A n \in DOMAIN misses :
        <<"in", n>> \in lost \/ Among(n, toCpu) \/ Among(n, toAgent) \/ Among(n, packetIns)

\* A queue keeps what it has when one more is added, and loses its head only.
LEMMA AmongMore ==
    ASSUME NEW S, NEW q \in Seq(S), NEW e \in S
    PROVE  Among(e.n, Append(q, e)) /\ \A n : Among(n, q) => Among(n, Append(q, e))
<1>1. /\ DOMAIN q = 1 .. Len(q) /\ DOMAIN Append(q, e) = 1 .. Len(q) + 1 /\ Len(q) \in Nat
      /\ Append(q, e)[Len(q) + 1] = e
      /\ \A k \in 1 .. Len(q) : Append(q, e)[k] = q[k]
  OBVIOUS
<1> HIDE DEF Among
<1>2. Among(e.n, Append(q, e))
  BY <1>1 DEF Among
<1>3. ASSUME NEW n, Among(n, q) PROVE Among(n, Append(q, e))
  BY <1>1, <1>3 DEF Among
<1>. QED  BY <1>2, <1>3

LEMMA AmongLess ==
    ASSUME NEW S, NEW q \in Seq(S), q # <<>>, NEW n, Among(n, q)
    PROVE  n = Head(q).n \/ Among(n, Tail(q))
<1>1. PICK k \in 1 .. Len(q) : q[k].n = n
  BY DEF Among
<1>2. /\ Head(q) = q[1] /\ DOMAIN Tail(q) = 1 .. Len(q) - 1 /\ Len(q) \in Nat
      /\ \A j \in 1 .. Len(q) - 1 : Tail(q)[j] = q[j + 1]
  OBVIOUS
<1>3. CASE k = 1
  BY <1>1, <1>2, <1>3
<1>4. CASE k # 1
  <2>1. k - 1 \in DOMAIN Tail(q) /\ Tail(q)[k - 1] = q[k]
    BY <1>1, <1>2, <1>4
  <2>. QED  BY <1>1, <2>1 DEF Among
<1>. QED  BY <1>3, <1>4

\* The switch takes a frame off the queue only to emit its packet.
LEMMA OutsStayAccountedFor ==
    ASSUME OutInv, OutInv', OutsAccountedFor, [Next]_vars
    PROVE  OutsAccountedFor'
<1> USE DEF OutsAccountedFor
<1>1. CASE UNCHANGED outVars /\ lost \subseteq lost'
  BY <1>1 DEF outVars, Among
<1>2. ASSUME NEW msg \in Messages, NEW rv \in {"NONE", "BAD_ACTION"}, Answer(msg, rv),
             UNCHANGED emitted, lost \subseteq lost',
             \A n : Among(n, toSwitch) => Among(n, toSwitch'),
             \/ rv # "NONE" \/ <<"out", Len(outs) + 1>> \in lost'
             \/ Among(Len(outs) + 1, toSwitch')
      PROVE  OutsAccountedFor'
  <2>1. /\ DOMAIN outs' = DOMAIN outs \cup {Len(outs) + 1}
        /\ outs'[Len(outs) + 1].rv = rv
        /\ \A n \in DOMAIN outs : outs'[n] = outs[n]
    <3>1. /\ Len(outs') = Len(outs) + 1 /\ outs'[Len(outs) + 1] = [msg |-> msg, rv |-> rv]
          /\ \A n \in DOMAIN outs : outs'[n] = outs[n]
      BY <1>2, Answered
    <3>2. DOMAIN outs = 1 .. Len(outs) /\ DOMAIN outs' = 1 .. Len(outs') /\ Len(outs) \in Nat
      BY DEF OutInv
    <3>. QED  BY <3>1, <3>2
  <2>2. ASSUME NEW n \in DOMAIN outs
        PROVE  \/ outs'[n].rv # "NONE" \/ <<"out", n>> \in lost'
               \/ Among(n, toSwitch') \/ Among(n, emitted')
    BY <1>2, <2>1
  <2>. QED  BY <1>2, <2>1, <2>2
<1>3. ASSUME NEW msg \in Messages, PacketOut(msg) PROVE OutsAccountedFor'
  <2>1. CASE lost' = lost \cup {<<"out", Len(outs) + 1>>} /\ UNCHANGED toSwitch
    BY <1>2, <1>3, <2>1 DEF PacketOut
  <2>2. CASE ~(lost' = lost \cup {<<"out", Len(outs) + 1>>} /\ UNCHANGED toSwitch)
    <3> DEFINE e == [n |-> Len(outs) + 1, dst |-> swap(Store(dstPortOrGroup(msg))),
                     mcastGrp |-> swap(Store(mcastGrp(msg))), frame |-> msg.frame]
    <3>1. toSwitch' = Append(toSwitch, e) /\ UNCHANGED <<emitted, lost>> /\ Answer(msg, "NONE")
      BY <1>3, <2>2 DEF PacketOut
    <3>2. e \in FrameOut
      BY PortIsNat, WordIsSeq DEF OutInv, FrameOut, Messages
    <3>3. e.n = Len(outs) + 1
      OBVIOUS
    <3> HIDE DEF e
    <3>4. Among(Len(outs) + 1, toSwitch') /\ \A n : Among(n, toSwitch) => Among(n, toSwitch')
      BY <3>1, <3>2, <3>3, AmongMore DEF OutInv
    <3>. QED  BY <1>2, <3>1, <3>4
  <2>. QED  BY <2>1, <2>2
<1>4. ASSUME NEW msg \in Messages, PacketOutRefused(msg) PROVE OutsAccountedFor'
  BY <1>2, <1>4 DEF PacketOutRefused
<1>5. CASE terminate_cpu_packet
  <2> DEFINE f == Head(toSwitch)
             e == [n |-> f.n, port |-> Extract(f.dst), frame |-> f.frame]
             E == [n : Nat, port : 0 .. WORD - 1, frame : FramesOut]
  <2>1. /\ toSwitch # <<>> /\ toSwitch' = Tail(toSwitch) /\ emitted' = Append(emitted, e)
        /\ UNCHANGED <<outs, lost>> /\ e.n = f.n
    BY <1>5 DEF terminate_cpu_packet
  <2>2. e \in E
    <3>1. emitted' \in Seq(E) /\ emitted \in Seq(E)
      BY DEF OutInv
    <3> HIDE DEF e, E
    <3>2. emitted'[Len(emitted) + 1] = e /\ Len(emitted) + 1 \in DOMAIN emitted'
      BY <2>1, <3>1
    <3>. QED  BY <3>1, <3>2, ElementOfSeq
  <2>3. toSwitch \in Seq(FrameOut) /\ emitted \in Seq(E)
    BY DEF OutInv
  <2> HIDE DEF e, E
  <2>4. Among(f.n, emitted') /\ \A n : Among(n, emitted) => Among(n, emitted')
    BY <2>1, <2>2, <2>3, AmongMore
  <2>5. \A n : Among(n, toSwitch) => n = f.n \/ Among(n, toSwitch')
    BY <2>1, <2>3, AmongLess
  <2> HIDE DEF f
  <2>. QED  BY <2>1, <2>4, <2>5
<1>6. CASE \E miss \in Misses : openflow_miss(miss)
  BY <1>1, <1>6 DEF openflow_miss, outVars
<1>7. CASE CpuPort
  BY <1>1, <1>7 DEF CpuPort, outVars
<1>8. CASE \/ packet_in_handler \/ ReadFails \/ StartUp \/ UNCHANGED vars
           \/ \E msg \in Messages : PacketOutOverruns(msg)
  BY <1>1, <1>8 DEF packet_in_handler, ReadFails, PacketOutOverruns, StartUp, InitModules, AddController,
     CreateSessions, state_init, cpu_packet_init, ind_soc_socket_register, pthread_create,
     Part, packets, outVars, vars
<1>. QED  BY <1>3, <1>4, <1>5, <1>6, <1>7, <1>8 DEF Next

\* The agent takes a frame off the queue only to deliver its packet in.
LEMMA MissesStayAccountedFor ==
    ASSUME InInv, InInv', MissesAccountedFor, [Next]_vars
    PROVE  MissesAccountedFor'
<1> USE DEF MissesAccountedFor
<1>1. CASE UNCHANGED inVars /\ lost \subseteq lost'
  BY <1>1 DEF inVars, Among
<1>2. ASSUME NEW msg \in Messages, PacketOut(msg) \/ PacketOutRefused(msg)
      PROVE  MissesAccountedFor'
  BY <1>1, <1>2 DEF PacketOut, PacketOutRefused, inVars
<1>3. ASSUME NEW miss \in Misses, openflow_miss(miss) PROVE MissesAccountedFor'
  <2>. DEFINE e == fabric_metadata(Len(misses) + 1, miss)
  <2>1. /\ DOMAIN misses' = DOMAIN misses \cup {Len(misses) + 1}
        /\ UNCHANGED <<toAgent, packetIns, lost>>
    <3>1. /\ misses' = Append(misses, miss) /\ misses \in Seq(Misses)
          /\ UNCHANGED <<toAgent, packetIns, lost>>
      BY <1>3 DEF openflow_miss, InInv
    <3>2. DOMAIN misses = 1 .. Len(misses) /\ DOMAIN misses' = 1 .. Len(misses) + 1 /\ Len(misses) \in Nat
      BY <3>1
    <3>. QED  BY <3>1, <3>2
  <2>2. toCpu' = Append(toCpu, e) /\ e.n = Len(misses) + 1
    BY <1>3 DEF openflow_miss, fabric_metadata
  <2>. HIDE DEF e
  <2>3. toCpu' \in Seq(FrameMiss) /\ toCpu \in Seq(FrameMiss)
    BY DEF InInv
  <2>4. e \in FrameMiss
    <3>1. toCpu'[Len(toCpu) + 1] = e /\ Len(toCpu) + 1 \in DOMAIN toCpu'
      BY <2>2, <2>3
    <3>. QED  BY <2>3, <3>1, ElementOfSeq
  <2>5. Among(Len(misses) + 1, toCpu') /\ \A n : Among(n, toCpu) => Among(n, toCpu')
    BY <2>2, <2>3, <2>4, AmongMore
  <2>. QED  BY <2>1, <2>5
<1>7. CASE CpuPort
  <2>1. toCpu # <<>> /\ toCpu' = Tail(toCpu) /\ UNCHANGED <<misses, packetIns>>
    BY <1>7 DEF CpuPort
  <2>2. toCpu \in Seq(FrameMiss) /\ toAgent \in Seq(FrameIn) /\ toAgent' \in Seq(FrameIn)
    BY DEF InInv
  <2>3. \A n : Among(n, toCpu) => n = Head(toCpu).n \/ Among(n, toCpu')
    BY <2>1, <2>2, AmongLess
  <2>4. CASE lost' = lost \cup {<<"in", Head(toCpu).n>>} /\ UNCHANGED toAgent
    BY <2>1, <2>3, <2>4
  <2>5. ASSUME NEW filled \in BOOLEAN, toAgent' = Append(toAgent, cpu_packet(Head(toCpu), filled)),
               UNCHANGED lost
        PROVE  MissesAccountedFor'
    <3>. DEFINE e == cpu_packet(Head(toCpu), filled)
    <3>1. e.n = Head(toCpu).n /\ toAgent' = Append(toAgent, e)
      BY <2>5 DEF cpu_packet
    <3>. HIDE DEF e
    <3>2. e \in FrameIn
      <4>1. toAgent'[Len(toAgent) + 1] = e /\ Len(toAgent) + 1 \in DOMAIN toAgent'
        BY <2>2, <3>1
      <4>. QED  BY <2>2, <4>1, ElementOfSeq
    <3>3. Among(Head(toCpu).n, toAgent') /\ \A n : Among(n, toAgent) => Among(n, toAgent')
      BY <2>2, <3>1, <3>2, AmongMore
    <3>. QED  BY <2>1, <2>3, <2>5, <3>3
  <2>. QED  BY <1>7, <2>4, <2>5 DEF CpuPort
<1>4. CASE packet_in_handler
  <2> DEFINE f == Head(toAgent)
             p == packet_in(f)
  <2>1. /\ toAgent # <<>> /\ toAgent' = Tail(toAgent) /\ packetIns' = Append(packetIns, p)
        /\ UNCHANGED <<toCpu, misses, lost>> /\ p.n = f.n
    BY <1>4 DEF packet_in_handler, packet_in
  <2> HIDE DEF p
  <2>2. toAgent \in Seq(FrameIn) /\ packetIns \in Seq(PacketIn) /\ packetIns' \in Seq(PacketIn)
    BY DEF InInv
  <2>3. p \in PacketIn
    <3>1. packetIns'[Len(packetIns) + 1] = p /\ Len(packetIns) + 1 \in DOMAIN packetIns'
      BY <2>1, <2>2
    <3>. QED  BY <2>2, <3>1, ElementOfSeq
  <2>4. Among(f.n, packetIns') /\ \A n : Among(n, packetIns) => Among(n, packetIns')
    BY <2>1, <2>2, <2>3, AmongMore
  <2>5. \A n : Among(n, toAgent) => n = f.n \/ Among(n, toAgent')
    BY <2>1, <2>2, AmongLess
  <2> HIDE DEF f
  <2>. QED  BY <2>1, <2>4, <2>5
<1>5. CASE terminate_cpu_packet
  BY <1>1, <1>5 DEF terminate_cpu_packet, inVars
<1>6. CASE \/ ReadFails \/ StartUp \/ UNCHANGED vars
           \/ \E msg \in Messages : PacketOutOverruns(msg)
  BY <1>1, <1>6 DEF ReadFails, PacketOutOverruns, StartUp, InitModules, AddController,
     CreateSessions, state_init, cpu_packet_init, ind_soc_socket_register, pthread_create,
     Part, packets, inVars, vars
<1>. QED  BY <1>2, <1>3, <1>4, <1>5, <1>6, <1>7 DEF Next

\* A packet out that was accepted is lost at the socket, on its way to the switch, or
\* emitted by it, and a miss is lost, on its way to the CPU port or the agent, or reported: neither side
\* drops a frame in silence. This is the safety half of NothingIsForgotten.
THEOREM FramesAreAccountedFor == Spec => [](OutsAccountedFor /\ MissesAccountedFor)
<1>1. Init => OutsAccountedFor /\ MissesAccountedFor
  BY DEF Init, OutsAccountedFor, MissesAccountedFor
<1>. QED
  BY <1>1, OutInit, OutStep, InInit, InStep, OutsStayAccountedFor, MissesStayAccountedFor,
     PTL DEF Spec

===============================================================================
