----------------------------- MODULE StatsProofs -----------------------------
(***************************************************************************)
(* Theorems about the statistics callbacks, for any tables, flows, handles *)
(* and traffic, and about the features reply.                              *)
(***************************************************************************)
EXTENDS SwitchFeatures, TLAPS

(***************************************************************************)
(* Types                                                                   *)
(***************************************************************************)
\* The counters and the answers start at zero.
LEMMA InitTypes == Init => TypeOK
  BY NoValueAssumption DEF Init, TypeOK, NothingCounted, Reads

\* What a callback leaves behind when it returns is of its type.
LEMMA ReturnTypes ==
    ASSUME TypeOK, NEW code \in {"NONE", "BAD_TABLE_ID"}, Return(code)
    PROVE  /\ pc' = "idle" /\ hit_count' \in Nat /\ fid' \in FlowIds \cup {NoCall}
           /\ asked' \in [hits : Nat, misses : Nat, counted : [FlowIds -> Nat]]
           /\ rv' \in {"NONE", "BAD_TABLE_ID"}
  BY DEF Return, NothingCounted

\* What a counter function answers is a number.
LEMMA CounterIsNat ==
    ASSUME NEW counters \in [Handles -> Nat], NEW h
    PROVE  Counter(counters, h) \in Nat
  BY DEF Counter

\* The switch keeps the types: a flow has a handle, and the counters grow.
LEMMA SwitchTypes ==
    ASSUME TypeOK,
           \/ \E f \in FlowIds, length \in Lengths : Hit(f, length)
           \/ Miss
           \/ \E f \in FlowIds, h \in Handles : FlowAdded(f, h)
           \/ \E f \in FlowIds : FlowDeleted(f)
    PROVE  TypeOK'
<1>1. ASSUME NEW f \in FlowIds, NEW length \in Lengths, Hit(f, length) PROVE TypeOK'
  <2>1. hdl[f] \in Handles
    BY <1>1 DEF Hit, TypeOK
  <2>2. packets' \in [Handles -> Nat] /\ bytes' \in [Handles -> Nat]
    BY <1>1, <2>1, LengthAssumption DEF Hit, TypeOK
  <2>3. counted' \in [FlowIds -> Nat] /\ hits' \in Nat
    BY <1>1 DEF Hit, TypeOK
  <2> QED
    BY <1>1, <2>2, <2>3 DEF Hit, TypeOK, agent
<1>2. CASE Miss
  BY <1>2 DEF Miss, TypeOK, agent
<1>3. ASSUME NEW f \in FlowIds, NEW h \in Handles, FlowAdded(f, h) PROVE TypeOK'
  <2>1. packets' \in [Handles -> Nat] /\ bytes' \in [Handles -> Nat]
    BY <1>3 DEF FlowAdded, TypeOK
  <2>2. hdl' \in [FlowIds -> Handles \cup {NoHdl}] /\ counted' \in [FlowIds -> Nat]
    BY <1>3 DEF FlowAdded, TypeOK
  <2> QED
    BY <1>3, <2>1, <2>2 DEF FlowAdded, TypeOK, agent
<1>4. ASSUME NEW f \in FlowIds, FlowDeleted(f) PROVE TypeOK'
  BY <1>4 DEF FlowDeleted, TypeOK, agent
<1> QED
  BY <1>1, <1>2, <1>3, <1>4

\* So does every step.
LEMMA TypeStep == TypeOK /\ [Next]_vars => TypeOK'
<1> SUFFICES ASSUME TypeOK, [Next]_vars PROVE TypeOK'
  OBVIOUS
<1>1. CASE BadTableId
  BY <1>1, ReturnTypes DEF BadTableId, TypeOK, switch
<1>2. CASE TableCall
  BY <1>2 DEF TableCall, Snapshot, TypeOK, switch, Reads
<1>3. CASE ReadHit
  BY <1>3 DEF ReadHit, TypeOK, switch, Reads
<1>4. CASE ReadMissed
  <2>1. table_stats' \in [matched_count : Nat, lookup_count : Nat]
    BY <1>4 DEF ReadMissed, TypeOK
  <2> QED
    BY <1>4, <2>1, ReturnTypes DEF ReadMissed, TypeOK, switch
<1>5. ASSUME NEW f \in FlowIds, FlowCall(f) PROVE TypeOK'
  BY <1>5 DEF FlowCall, Snapshot, TypeOK, switch, Reads
<1>6. CASE ReadPackets
  <2>1. flow_stats' \in [packets : Nat, bytes : Nat]
    BY <1>6, CounterIsNat DEF ReadPackets, TypeOK
  <2> QED
    BY <1>6, <2>1 DEF ReadPackets, TypeOK, switch, Reads
<1>7. CASE ReadBytes
  <2>1. flow_stats' \in [packets : Nat, bytes : Nat]
    BY <1>7, CounterIsNat DEF ReadBytes, TypeOK
  <2> QED
    BY <1>7, <2>1, ReturnTypes DEF ReadBytes, TypeOK, switch
<1>8. CASE BytesNotFound
  BY <1>8, ReturnTypes DEF BytesNotFound, TypeOK, switch
<1>9. CASE UNCHANGED vars
  BY <1>9 DEF vars, switch, agent, TypeOK
<1> QED
  BY <1>1, <1>2, <1>3, <1>4, <1>5, <1>6, <1>7, <1>8, <1>9, SwitchTypes DEF Next, Proceed

\* The statistics callbacks and the switch keep their types; flow_stats_get only
\* ever runs for a flow that has an entry.
THEOREM StatsTypes == Spec => []TypeOK
  BY InitTypes, TypeStep, PTL DEF Spec

(***************************************************************************)
(* table_stats_get                                                         *)
(***************************************************************************)
\* The counters only grow while table_stats_get runs, and what it has read of the
\* hits lies between their number when it was called and their number now.
CountsGrow ==
    /\ pc \in {"hit", "missed"} => asked.hits <= hits /\ asked.misses <= misses
    /\ pc = "missed" => asked.hits <= hit_count /\ hit_count <= hits

\* Every step keeps it: the switch raises a counter, a call takes both as they are.
LEMMA CountsGrowStep == TypeOK /\ CountsGrow /\ [Next]_vars => CountsGrow'
<1> SUFFICES ASSUME TypeOK, CountsGrow, [Next]_vars PROVE CountsGrow'
  OBVIOUS
<1>0. /\ hits \in Nat /\ misses \in Nat /\ hit_count \in Nat
      /\ asked.hits \in Nat /\ asked.misses \in Nat
  BY DEF TypeOK
<1>1. ASSUME NEW f \in FlowIds, NEW length \in Lengths, Hit(f, length) PROVE CountsGrow'
  BY <1>0, <1>1 DEF Hit, agent, CountsGrow
<1>2. CASE Miss
  BY <1>0, <1>2 DEF Miss, agent, CountsGrow
<1>3. ASSUME NEW f \in FlowIds, NEW h \in Handles, FlowAdded(f, h) PROVE CountsGrow'
  BY <1>3 DEF FlowAdded, agent, CountsGrow
<1>4. ASSUME NEW f \in FlowIds, FlowDeleted(f) PROVE CountsGrow'
  BY <1>4 DEF FlowDeleted, agent, CountsGrow
<1>5. CASE TableCall
  BY <1>0, <1>5 DEF TableCall, Snapshot, switch, CountsGrow
<1>6. CASE ReadHit
  BY <1>0, <1>6 DEF ReadHit, switch, CountsGrow
<1>7. ASSUME NEW f \in FlowIds, FlowCall(f) PROVE CountsGrow'
  BY <1>7 DEF FlowCall, CountsGrow
<1>8. CASE ReadPackets
  BY <1>8 DEF ReadPackets, CountsGrow
<1>9. CASE BadTableId \/ ReadMissed \/ ReadBytes \/ BytesNotFound
  BY <1>9 DEF BadTableId, ReadMissed, ReadBytes, BytesNotFound, Return, CountsGrow
<1>10. CASE UNCHANGED vars
  BY <1>10 DEF vars, switch, agent, CountsGrow
<1> QED
  BY <1>1, <1>2, <1>3, <1>4, <1>5, <1>6, <1>7, <1>8, <1>9, <1>10 DEF Next, Proceed

\* Of the steps, only the second read of table_stats_get answers, and it answers
\* with numbers between those of the call and those of now.
LEMMA AnswerStep ==
    ASSUME TypeOK, CountsGrow, [Next]_vars, TableAnswers
    PROVE  /\ Between(asked.hits, table_stats'.matched_count, hits)
           /\ Between(asked.misses,
                      table_stats'.lookup_count - table_stats'.matched_count, misses)
<1>1. ReadMissed
  BY DEF TableAnswers, Next, Proceed, Hit, Miss, FlowAdded, FlowDeleted, BadTableId, TableCall,
     ReadHit, FlowCall, ReadPackets, ReadBytes, BytesNotFound, vars, agent
<1> QED
  BY <1>1 DEF ReadMissed, Between, CountsGrow, TypeOK, TableAnswers

\* table_stats_get reports hits and misses that were true during the call, although
\* it reads them at different times.
THEOREM TableStatsRegular == Spec => TableStatsWithinCall
<1>1. Init => CountsGrow
  BY DEF Init, CountsGrow
<1>2. TypeOK /\ CountsGrow /\ [Next]_vars =>
        [TableAnswers =>
            LET t == table_stats'
            IN  /\ Between(asked.hits, t.matched_count, hits)
                /\ Between(asked.misses, t.lookup_count - t.matched_count, misses)]_vars
  BY AnswerStep
<1> QED
  BY <1>1, <1>2, CountsGrowStep, StatsTypes, PTL DEF Spec, TableStatsWithinCall

(***************************************************************************)
(* flow_stats_get                                                          *)
(***************************************************************************)
\* The bytes counted for an entry are enough for its packets, and the packets that
\* flow_stats_get has read are no more than there are when it reads the bytes.
Covered ==
    \A least \in Lengths : Shortest(least) =>
        \A h \in Handles : bytes[h] >= least * packets[h]
ReadBefore == pc = "bytes" => flow_stats.packets <= Counter(packets, AsHandle(fid))

\* A packet adds its length, which is not below the shortest.
LEMMA HitCovers ==
    ASSUME TypeOK, Covered, NEW f \in FlowIds, NEW length \in Lengths, Hit(f, length)
    PROVE  Covered'
<1> SUFFICES ASSUME NEW least \in Lengths, Shortest(least), NEW h \in Handles
             PROVE  bytes'[h] >= least * packets'[h]
  BY DEF Covered, Shortest
<1>1. hdl[f] \in Handles
  BY DEF Hit, TypeOK
<1>2. bytes[h] >= least * packets[h] /\ least \in Nat /\ length \in Nat /\ least <= length
  BY LengthAssumption DEF Covered, Shortest
<1>3. bytes[h] \in Nat /\ packets[h] \in Nat
  BY DEF TypeOK
<1>4. CASE h = hdl[f]
  <2>1. bytes'[h] = bytes[h] + length /\ packets'[h] = packets[h] + 1
    BY <1>4 DEF Hit, TypeOK
  <2>2. least * (packets[h] + 1) = least * packets[h] + least
    BY <1>2, <1>3
  <2>3. least * packets[h] \in Nat
    BY <1>2, <1>3
  <2> QED
    BY <1>2, <1>3, <2>1, <2>2, <2>3
<1>5. CASE h # hdl[f]
  BY <1>2, <1>5 DEF Hit, TypeOK
<1> QED
  BY <1>4, <1>5

\* A packet raises counters only.
LEMMA HitRaises ==
    ASSUME TypeOK, ReadBefore, NEW f \in FlowIds, NEW length \in Lengths, Hit(f, length)
    PROVE  ReadBefore'
<1>1. \A h \in Handles : packets[h] <= packets'[h] /\ packets[h] \in Nat /\ packets'[h] \in Nat
  BY DEF Hit, TypeOK
<1>2. Counter(packets, AsHandle(fid)) <= Counter(packets, AsHandle(fid))'
      /\ Counter(packets, AsHandle(fid)) \in Nat /\ Counter(packets, AsHandle(fid))' \in Nat
  BY <1>1 DEF Counter, AsHandle, Hit, agent
<1> QED
  BY <1>2 DEF ReadBefore, Hit, agent, TypeOK

\* Every step keeps both.
LEMMA FlowCountersStep ==
    TypeOK /\ Covered /\ ReadBefore /\ [Next]_vars => Covered' /\ ReadBefore'
<1> SUFFICES ASSUME TypeOK, Covered, ReadBefore, [Next]_vars PROVE Covered' /\ ReadBefore'
  OBVIOUS
<1>1. ASSUME NEW f \in FlowIds, NEW length \in Lengths, Hit(f, length)
      PROVE  Covered' /\ ReadBefore'
  BY <1>1, HitCovers, HitRaises
<1>2. ASSUME NEW f \in FlowIds, NEW h \in Handles, FlowAdded(f, h)
      PROVE  Covered' /\ ReadBefore'
  <2>1. ASSUME NEW least \in Lengths, Shortest(least), NEW g \in Handles
        PROVE  bytes'[g] >= least * packets'[g]
    <3>1. CASE g = h
      BY <1>2, <3>1, LengthAssumption DEF FlowAdded, TypeOK
    <3>2. CASE g # h
      BY <1>2, <2>1, <3>2 DEF FlowAdded, TypeOK, Covered
    <3> QED
      BY <3>1, <3>2
  <2> QED
    BY <1>2, <2>1 DEF FlowAdded, Covered, Shortest, ReadBefore, agent
<1>3. CASE UNCHANGED <<packets, bytes>> /\ pc' # "bytes"
  BY <1>3 DEF Covered, ReadBefore, Shortest
<1>4. CASE ReadPackets
  <2>1. Counter(packets, AsHandle(fid)) \in Nat
    BY CounterIsNat DEF TypeOK
  <2>2. flow_stats'.packets = Counter(packets, AsHandle(fid))
    BY <1>4 DEF ReadPackets, TypeOK
  <2> QED
    BY <1>4, <2>1, <2>2 DEF ReadPackets, switch, Covered, Shortest, ReadBefore, Counter, AsHandle
<1>5. CASE Miss
  BY <1>5 DEF Miss, agent, Covered, Shortest, ReadBefore, Counter, AsHandle
<1>6. CASE UNCHANGED vars
  BY <1>6 DEF vars, switch, agent, Covered, Shortest, ReadBefore, Counter, AsHandle
<1>7. \/ \E f \in FlowIds, length \in Lengths : Hit(f, length)
      \/ \E f \in FlowIds, h \in Handles : FlowAdded(f, h)
      \/ UNCHANGED <<packets, bytes>> /\ pc' # "bytes"
      \/ ReadPackets \/ Miss \/ UNCHANGED vars
  BY DEF Next, Proceed, FlowDeleted, BadTableId, TableCall, ReadHit, FlowCall, ReadMissed,
     ReadBytes, BytesNotFound, Return, switch, agent
<1> QED
  BY <1>1, <1>2, <1>3, <1>4, <1>5, <1>6, <1>7

\* The second read of flow_stats_get answers with enough bytes for the packets.
LEMMA FlowAnswerStep ==
    ASSUME TypeOK, Covered, ReadBefore, [Next]_vars, FlowAnswers,
           NEW least \in Lengths, Shortest(least)
    PROVE  flow_stats'.bytes >= least * flow_stats'.packets
<1>1. ReadBytes
  BY DEF FlowAnswers, Next, Proceed, Hit, Miss, FlowAdded, FlowDeleted, BadTableId, TableCall,
     ReadHit, ReadMissed, FlowCall, ReadPackets, BytesNotFound, Return, vars, agent
<1>2. flow_stats'.bytes = Counter(bytes, AsHandle(fid))
      /\ flow_stats'.packets = flow_stats.packets
  BY <1>1 DEF ReadBytes, TypeOK
<1>3. flow_stats.packets \in Nat /\ least \in Nat
      /\ flow_stats.packets <= Counter(packets, AsHandle(fid))
  BY LengthAssumption DEF TypeOK, ReadBefore, FlowAnswers
<1>4. CASE AsHandle(fid) \in Handles
  <2> DEFINE h == AsHandle(fid)
  <2>1. bytes[h] >= least * packets[h] /\ packets[h] \in Nat /\ bytes[h] \in Nat
    BY <1>4 DEF Covered, TypeOK
  <2>2. flow_stats.packets <= packets[h] /\ flow_stats'.bytes = bytes[h]
    BY <1>2, <1>3, <1>4 DEF Counter
  <2> HIDE DEF h
  <2>3. \A m, n \in Nat : m <= n => least * m <= least * n
    BY <1>3
  <2>4. least * flow_stats.packets \in Nat /\ least * packets[h] \in Nat
    BY <1>3, <2>1
  <2> QED
    BY <1>2, <1>3, <2>1, <2>2, <2>3, <2>4
<1>5. CASE AsHandle(fid) \notin Handles
  <2>1. flow_stats.packets = 0 /\ flow_stats'.bytes = 0
    BY <1>2, <1>3, <1>5 DEF Counter
  <2> QED
    BY <1>2, <1>3, <2>1
<1> QED
  BY <1>4, <1>5

\* Whatever arrives while flow_stats_get runs, and however earlier calls ended, the
\* bytes it reports with success are enough for the packets it reports.
THEOREM FlowBytesAreEnough == Spec => FlowBytesCoverPackets
<1>1. Init => Covered /\ ReadBefore
  BY LengthAssumption DEF Init, Covered, ReadBefore
<1>2. TypeOK /\ Covered /\ ReadBefore /\ [Next]_vars =>
        [FlowAnswers =>
            \A least \in Lengths :
                Shortest(least) => flow_stats'.bytes >= least * flow_stats'.packets]_vars
  BY FlowAnswerStep
<1> QED
  BY <1>1, <1>2, FlowCountersStep, StatsTypes, PTL DEF Spec, FlowBytesCoverPackets

(***************************************************************************)
(* The flow whose id is the handle of its entry                            *)
(***************************************************************************)
\* No two flows share an entry, whose counter is what the flow has had of packets, also
\* if the handle was another flow's before.
OwnCounters ==
    /\ \A f, g \in FlowIds : hdl[f] = hdl[g] /\ hdl[f] # NoHdl => f = g
    /\ \A f \in FlowIds : hdl[f] # NoHdl => packets[hdl[f]] = counted[f]

\* Since the call the flow has had no fewer packets, and the number read, if its id was
\* the handle to read with, lies between.
ReadOfFlow ==
    /\ pc \in {"packets", "bytes"} => asked.counted[fid] <= counted[fid]
    /\ pc = "bytes" /\ hdl[fid] = AsHandle(fid) =>
           Between(asked.counted[fid], flow_stats.packets, counted[fid])

\* A packet is counted for one flow, and once for its entry.
LEMMA HitCounts ==
    ASSUME TypeOK, OwnCounters, ReadOfFlow, NEW f \in FlowIds, NEW length \in Lengths,
           Hit(f, length)
    PROVE  OwnCounters' /\ ReadOfFlow'
<1>1. hdl[f] \in Handles /\ hdl[f] # NoHdl
  BY DEF Hit, TypeOK
<1>2. \A g \in FlowIds : hdl[g] # NoHdl => hdl[g] \in Handles
  BY DEF TypeOK
<1>3. \A g \in FlowIds : hdl[g] # NoHdl => packets'[hdl[g]] = counted'[g]
  <2> SUFFICES ASSUME NEW g \in FlowIds, hdl[g] # NoHdl
               PROVE  packets'[hdl[g]] = counted'[g]
    OBVIOUS
  <2>1. packets[hdl[g]] = counted[g]
    BY DEF OwnCounters
  <2>2. CASE g = f
    BY <1>1, <2>1, <2>2 DEF Hit, TypeOK
  <2>3. CASE g # f
    <3>1. hdl[g] # hdl[f]
      BY <1>1, <2>3 DEF OwnCounters
    <3> QED
      BY <1>1, <1>2, <2>1, <2>3, <3>1 DEF Hit, TypeOK
  <2> QED
    BY <2>2, <2>3
<1>4. \A g \in FlowIds : counted[g] <= counted'[g] /\ counted[g] \in Nat /\ counted'[g] \in Nat
  BY DEF Hit, TypeOK
<1>5. pc \in {"packets", "bytes"} =>
          fid \in FlowIds /\ asked.counted[fid] \in Nat /\ flow_stats.packets \in Nat
  BY DEF TypeOK
<1>6. UNCHANGED <<hdl, pc, asked, fid, flow_stats>>
  BY DEF Hit, agent
<1>7. OwnCounters'
  BY <1>3, <1>6 DEF OwnCounters
<1>8. ReadOfFlow'
  BY <1>4, <1>5, <1>6 DEF ReadOfFlow, Between, AsHandle
<1> QED
  BY <1>7, <1>8

\* A flow that comes has an entry of its own, and neither has had a packet.
LEMMA AddedCounts ==
    ASSUME TypeOK, OwnCounters, NEW f \in FlowIds, NEW h \in Handles, FlowAdded(f, h)
    PROVE  OwnCounters' /\ ReadOfFlow'
<1>1. hdl' = [hdl EXCEPT ![f] = h] /\ \A g \in FlowIds : hdl[g] # h
  BY DEF FlowAdded
<1>2. \A g, k \in FlowIds : hdl'[g] = hdl'[k] /\ hdl'[g] # NoHdl => g = k
  BY <1>1 DEF OwnCounters, TypeOK
<1>3. ASSUME NEW g \in FlowIds, hdl'[g] # NoHdl
      PROVE  packets'[hdl'[g]] = counted'[g]
  <2>1. CASE g = f
    BY <1>1, <2>1 DEF FlowAdded, TypeOK
  <2>2. CASE g # f
    BY <1>1, <1>3, <2>2 DEF FlowAdded, TypeOK, OwnCounters
  <2> QED
    BY <2>1, <2>2
<1>4. pc' = "idle"
  BY DEF FlowAdded, agent
<1> QED
  BY <1>2, <1>3, <1>4 DEF OwnCounters, ReadOfFlow

\* The packets that flow_stats_get reads with the right handle are those counted now.
LEMMA ReadCounts ==
    ASSUME TypeOK, OwnCounters, ReadOfFlow, ReadPackets
    PROVE  ReadOfFlow'
<1>1. fid \in FlowIds /\ hdl[fid] \in Handles /\ hdl[fid] # NoHdl
  BY DEF ReadPackets, TypeOK
<1>2. asked.counted[fid] <= counted[fid] /\ counted[fid] \in Nat
  BY <1>1 DEF ReadPackets, ReadOfFlow, TypeOK
<1>3. flow_stats'.packets = Counter(packets, AsHandle(fid))
  BY DEF ReadPackets, TypeOK
<1>4. hdl[fid] = AsHandle(fid) => flow_stats'.packets = counted[fid]
  BY <1>1, <1>3 DEF Counter, OwnCounters
<1>5. UNCHANGED <<hdl, counted, asked, fid>>
  BY DEF ReadPackets, switch
<1> QED
  BY <1>2, <1>4, <1>5 DEF ReadOfFlow, Between, AsHandle

\* Every step keeps both.
LEMMA OwnCountersStep ==
    TypeOK /\ OwnCounters /\ ReadOfFlow /\ [Next]_vars => OwnCounters' /\ ReadOfFlow'
<1> SUFFICES ASSUME TypeOK, OwnCounters, ReadOfFlow, [Next]_vars
             PROVE  OwnCounters' /\ ReadOfFlow'
  OBVIOUS
<1>1. ASSUME NEW f \in FlowIds, NEW length \in Lengths, Hit(f, length)
      PROVE  OwnCounters' /\ ReadOfFlow'
  BY <1>1, HitCounts
<1>2. ASSUME NEW f \in FlowIds, NEW h \in Handles, FlowAdded(f, h)
      PROVE  OwnCounters' /\ ReadOfFlow'
  BY <1>2, AddedCounts
<1>3. ASSUME NEW f \in FlowIds, FlowDeleted(f)
      PROVE  OwnCounters' /\ ReadOfFlow'
  <2>1. \A g \in FlowIds : hdl'[g] = hdl[g] \/ hdl'[g] = NoHdl
    BY <1>3 DEF FlowDeleted, TypeOK
  <2>2. UNCHANGED <<packets, counted>> /\ pc' = "idle"
    BY <1>3 DEF FlowDeleted, agent
  <2> QED
    BY <2>1, <2>2 DEF OwnCounters, ReadOfFlow
<1>4. ASSUME NEW f \in FlowIds, FlowCall(f)
      PROVE  OwnCounters' /\ ReadOfFlow'
  <2>1. asked' = Snapshot /\ fid' = f /\ pc' = "packets" /\ UNCHANGED switch
    BY <1>4 DEF FlowCall
  <2>2. counted[f] \in Nat
    BY DEF TypeOK
  <2> QED
    BY <2>1, <2>2 DEF OwnCounters, ReadOfFlow, Snapshot, switch
<1>5. CASE ReadPackets
  BY <1>5, ReadCounts DEF ReadPackets, switch, OwnCounters
<1>6. CASE UNCHANGED switch /\ pc' \notin {"packets", "bytes"}
  BY <1>6 DEF switch, OwnCounters, ReadOfFlow
<1>7. CASE UNCHANGED <<packets, hdl, counted, agent>>
  BY <1>7 DEF agent, OwnCounters, ReadOfFlow, Between, AsHandle
<1>8. \/ \E f \in FlowIds, length \in Lengths : Hit(f, length)
      \/ \E f \in FlowIds, h \in Handles : FlowAdded(f, h)
      \/ \E f \in FlowIds : FlowDeleted(f) \/ FlowCall(f)
      \/ ReadPackets
      \/ UNCHANGED switch /\ pc' \notin {"packets", "bytes"}
      \/ UNCHANGED <<packets, hdl, counted, agent>>
  BY DEF Next, Proceed, Miss, BadTableId, TableCall, ReadHit, ReadMissed, ReadBytes,
     BytesNotFound, Return, vars, switch
<1> QED
  BY <1>1, <1>2, <1>3, <1>4, <1>5, <1>6, <1>7, <1>8

\* The second read of flow_stats_get answers with the packets it has read before.
LEMMA OwnAnswerStep ==
    ASSUME TypeOK, ReadOfFlow, [Next]_vars, FlowAnswers, hdl[fid] = AsHandle(fid)
    PROVE  Between(asked.counted[fid], flow_stats'.packets, counted[fid])
<1>1. ReadBytes
  BY DEF FlowAnswers, Next, Proceed, Hit, Miss, FlowAdded, FlowDeleted, BadTableId, TableCall,
     ReadHit, ReadMissed, FlowCall, ReadPackets, BytesNotFound, Return, vars, agent
<1>2. flow_stats'.packets = flow_stats.packets
  BY <1>1 DEF ReadBytes, TypeOK
<1> QED
  BY <1>1, <1>2 DEF ReadBytes, ReadOfFlow

\* flow_stats_get is right about a flow whose id happens to be the handle of its entry,
\* whatever arrives between its reads and whichever flows had the handle before.
THEOREM FlowStatsAreOfOwnHandle == Spec => FlowStatsIfIdIsHandle
<1>1. Init => OwnCounters /\ ReadOfFlow
  BY DEF Init, OwnCounters, ReadOfFlow
<1>2. TypeOK /\ ReadOfFlow /\ [Next]_vars =>
        [FlowAnswers /\ hdl[fid] = AsHandle(fid) =>
            Between(asked.counted[fid], flow_stats'.packets, counted[fid])]_vars
  BY OwnAnswerStep
<1> QED
  BY <1>1, <1>2, OwnCountersStep, StatsTypes, PTL DEF Spec, FlowStatsIfIdIsHandle

(***************************************************************************)
(* The features reply                                                      *)
(***************************************************************************)
\* With the features and the other requests beside them, the statistics callbacks
\* do what they do alone: the theorems about Spec hold of FSpec.
THEOREM FeaturesKeepStats == FSpec => Spec
<1>1. FInit => Init
  BY DEF FInit
<1>2. [FNext]_fvars => [Next]_vars
  BY DEF FNext, fvars, FeaturesRequest, StatsStep, PortRequest, FwdRequest, group_stats, Next
<1> QED
  BY <1>1, <1>2, PTL DEF FSpec, Spec

\* The bytes of a features reply that a controller reads, by who wrote last.
Written(buf, last) ==
    /\ buf[16] = 0 /\ buf[17] = 0 /\ buf[18] = 0 /\ buf[19] = 0
    /\ buf[20] = num_openflow_tables
    /\ buf[24] = 0 /\ buf[25] = 0 /\ buf[26] = (IF last = "port" THEN 3 ELSE 0) /\ buf[27] = 3

\* Where the fields are that the two functions write.
LEMMA Offsets ==
    /\ ofp_switch_features.n_buffers = 16 /\ ofp_switch_features.n_tables = 20
    /\ ofp_switch_features.capabilities = 24 /\ ofp_switch_features.end = 32
  BY DEF ofp_switch_features, ofp_header

\* The fields as indigo_fwd_forwarding_features_get leaves them, in any message.
LEMMA FwdWrites ==
    ASSUME NEW fr \in Message
    PROVE  LET r == indigo_fwd_forwarding_features_get(fr)
           IN  r \in Message /\ Written(r, "fwd")
<1> DEFINE fr1 == of_wire_buffer_u32_set(fr, 16, 0)
           fr2 == of_wire_buffer_u8_set(fr1, 20, num_openflow_tables)
           r   == of_wire_buffer_u32_set(fr2, 24, 3)
<1>1. Message = [0 .. 31 -> Bytes]
  BY Offsets DEF Message
<1>2. fr1 \in [0 .. 31 -> Bytes] /\ fr1[16] = 0 /\ fr1[17] = 0 /\ fr1[18] = 0 /\ fr1[19] = 0
  BY <1>1 DEF of_wire_buffer_u32_set, Bytes
<1> HIDE DEF fr1
<1>3. fr2 \in [0 .. 31 -> Bytes] /\ fr2[20] = num_openflow_tables
      /\ fr2[16] = 0 /\ fr2[17] = 0 /\ fr2[18] = 0 /\ fr2[19] = 0
  BY <1>2, TablesAssumption DEF of_wire_buffer_u8_set, Bytes
<1> HIDE DEF fr2
<1>4. r \in [0 .. 31 -> Bytes] /\ Written(r, "fwd")
  BY <1>3 DEF of_wire_buffer_u32_set, Bytes, Written
<1>5. indigo_fwd_forwarding_features_get(fr) = r
  BY Offsets DEF indigo_fwd_forwarding_features_get, r, fr2, fr1
<1> QED
  BY <1>1, <1>4, <1>5

\* The ports write the same fields, and the capabilities a byte too early: of those
\* the last byte stays what it was.
LEMMA PortWrites ==
    ASSUME NEW fr \in Message
    PROVE  LET r == indigo_port_features_get(fr)
           IN  r \in Message /\ (Written(fr, "fwd") => Written(r, "port"))
<1> DEFINE fr1 == of_wire_buffer_u8_set(fr, 16, 0)
           fr2 == of_wire_buffer_u8_set(fr1, 20, num_openflow_tables)
           r   == of_wire_buffer_u32_set(fr2, 23, 3)
<1>1. Message = [0 .. 31 -> Bytes]
  BY Offsets DEF Message
<1>2. fr1 \in [0 .. 31 -> Bytes] /\ (Written(fr, "fwd") =>
          fr1[16] = 0 /\ fr1[17] = 0 /\ fr1[18] = 0 /\ fr1[19] = 0 /\ fr1[27] = 3)
  BY <1>1 DEF of_wire_buffer_u8_set, Bytes, Written
<1> HIDE DEF fr1
<1>3. fr2 \in [0 .. 31 -> Bytes] /\ fr2[20] = num_openflow_tables
      /\ (Written(fr, "fwd") =>
          fr2[16] = 0 /\ fr2[17] = 0 /\ fr2[18] = 0 /\ fr2[19] = 0 /\ fr2[27] = 3)
  BY <1>2, TablesAssumption DEF of_wire_buffer_u8_set, Bytes
<1> HIDE DEF fr2
<1>4. r \in [0 .. 31 -> Bytes] /\ (Written(fr, "fwd") => Written(r, "port"))
  BY <1>3 DEF of_wire_buffer_u32_set, Bytes, Written
<1>5. indigo_port_features_get(fr) = r
  BY DEF indigo_port_features_get, r, fr2, fr1
<1> QED
  BY <1>1, <1>4, <1>5

\* Both write bytes only, for any number of tables: whichever is the last, what the
\* controller has is a message, and each request gets one of the answers there are.
THEOREM FeaturesTypes == FSpec => []FeaturesTypeOK
<1>1. FInit => FeaturesTypeOK
  BY DEF FInit, FeaturesTypeOK
<1>2. FeaturesTypeOK /\ [FNext]_fvars => FeaturesTypeOK'
  <2> SUFFICES ASSUME FeaturesTypeOK, [FNext]_fvars PROVE FeaturesTypeOK'
    OBVIOUS
  <2>0. of_features_reply_new \in Message
    BY Offsets DEF of_features_reply_new, Message, Bytes
  <2>1. ASSUME NEW last \in {"fwd", "port"}, FeaturesRequest(last) PROVE FeaturesTypeOK'
    <3>1. /\ indigo_fwd_forwarding_features_get(
                indigo_port_features_get(of_features_reply_new)) \in Message
          /\ indigo_port_features_get(
                indigo_fwd_forwarding_features_get(of_features_reply_new)) \in Message
      BY <2>0, PortWrites, FwdWrites
    <3> QED BY <2>1, <3>1 DEF FeaturesRequest, FeaturesTypeOK
  <2>2. ASSUME NEW kind \in Kinds, NEW code \in {"NONE", "BAD_TABLE_ID", "NOT_SUPPORTED"},
               Answer(kind, code)
        PROVE  FeaturesTypeOK'
    BY <2>2 DEF Answer, FeaturesTypeOK
  <2>3. CASE UNCHANGED <<told, answer>>
    BY <2>3 DEF FeaturesTypeOK
  <2>4. {"TABLE", "FLOW", "GROUP", "OTHER"} \subseteq Kinds
    BY DEF Kinds, ofp_multipart_types
  <2>5. CASE StatsStep
    BY <2>2, <2>3, <2>4, <2>5 DEF StatsStep
  <2>6. CASE FwdRequest \/ group_stats
    BY <2>2, <2>4, <2>6 DEF FwdRequest, group_stats
  <2>7. ASSUME NEW kind \in Kinds, PortRequest(kind) PROVE FeaturesTypeOK'
    BY <2>2, <2>7 DEF PortRequest
  <2> QED
    BY <2>1, <2>3, <2>5, <2>6, <2>7 DEF FNext, fvars
<1> QED
  BY <1>1, <1>2, PTL DEF FSpec

\* What the controller has is such a reply.
ToldWritten ==
    told # NotAsked => /\ told.last \in {"fwd", "port"}
                       /\ Written(told.reply, told.last)

\* Requests other than for the features leave it alone.
LEMMA ToldStep == ToldWritten /\ [FNext]_fvars => ToldWritten'
<1> SUFFICES ASSUME ToldWritten, [FNext]_fvars PROVE ToldWritten'
  OBVIOUS
<1>0. of_features_reply_new \in Message
  BY Offsets DEF of_features_reply_new, Message, Bytes
<1>1. CASE FeaturesRequest("fwd")
  <2>1. told'.last = "fwd" /\ told'.reply =
          indigo_fwd_forwarding_features_get(indigo_port_features_get(of_features_reply_new))
    BY <1>1 DEF FeaturesRequest
  <2> QED
    BY <1>0, <2>1, PortWrites, FwdWrites DEF ToldWritten
<1>2. CASE FeaturesRequest("port")
  <2>1. told'.last = "port" /\ told'.reply =
          indigo_port_features_get(indigo_fwd_forwarding_features_get(of_features_reply_new))
    BY <1>2 DEF FeaturesRequest
  <2> QED
    BY <1>0, <2>1, PortWrites, FwdWrites DEF ToldWritten
<1>3. CASE UNCHANGED told
  BY <1>3 DEF ToldWritten
<1> QED
  BY <1>1, <1>2, <1>3
     DEF FNext, StatsStep, Answer, PortRequest, FwdRequest, group_stats, fvars

\* What is claimed, by who wrote last.
ClaimedBy ==
    told # NotAsked =>
        Claimed = {"FLOW_STATS", "TABLE_STATS"}
                      \cup IF told.last = "port" THEN {"PORT_BLOCKED"} ELSE {}

\* What the bytes say.
LEMMA WrittenMeans == ToldWritten => FeaturesRead /\ ClaimedBy
<1> SUFFICES ASSUME ToldWritten, told # NotAsked PROVE FeaturesRead /\ ClaimedBy
  BY DEF FeaturesRead, ClaimedBy
<1> DEFINE word == u32_get(told.reply, 24)
<1>1. Written(told.reply, told.last) /\ told.last \in {"fwd", "port"}
  BY DEF ToldWritten
<1>2. word = IF told.last = "port" THEN 771 ELSE 3
  BY <1>1 DEF u32_get, Written
<1>3. u32_get(told.reply, 16) = 0 /\ told.reply[20] = num_openflow_tables
  BY <1>1 DEF u32_get, Written
<1>4. /\ (3 \div 1) % 2 = 1 /\ (3 \div 2) % 2 = 1 /\ (3 \div 4) % 2 = 0 /\ (3 \div 8) % 2 = 0
      /\ (3 \div 32) % 2 = 0 /\ (3 \div 64) % 2 = 0 /\ (3 \div 256) % 2 = 0
  OBVIOUS
<1>5. /\ (771 \div 1) % 2 = 1 /\ (771 \div 2) % 2 = 1 /\ (771 \div 4) % 2 = 0
      /\ (771 \div 8) % 2 = 0 /\ (771 \div 32) % 2 = 0 /\ (771 \div 64) % 2 = 0
      /\ (771 \div 256) % 2 = 1
  OBVIOUS
<1>6. Claimed = {c \in DOMAIN ofp_capabilities : (word \div ofp_capabilities[c]) % 2 = 1}
  BY Offsets DEF Claimed
<1> HIDE DEF word
<1>7. DOMAIN ofp_capabilities = {"FLOW_STATS", "TABLE_STATS", "PORT_STATS", "GROUP_STATS",
                                 "IP_REASM", "QUEUE_STATS", "PORT_BLOCKED"}
  BY DEF ofp_capabilities
<1>8. Claimed = {"FLOW_STATS", "TABLE_STATS"}
                    \cup IF told.last = "port" THEN {"PORT_BLOCKED"} ELSE {}
  <2>1. CASE told.last = "port"
    BY <1>2, <1>5, <1>6, <1>7, <2>1 DEF ofp_capabilities
  <2>2. CASE told.last = "fwd"
    BY <1>2, <1>4, <1>6, <1>7, <2>2 DEF ofp_capabilities
  <2> QED
    BY <1>1, <2>1, <2>2
<1> QED
  BY <1>1, <1>3, <1>8, Offsets DEF FeaturesRead, ClaimedBy

\* A controller reads the right numbers of buffers and tables, and that there are
\* statistics of flows and tables, with any number of tables and whichever of the two
\* fills the reply last; and no other claim if the forwarding module does.
THEOREM FeaturesAreRead == FSpec => []FeaturesRead
<1>1. FInit => ToldWritten
  BY DEF FInit, ToldWritten
<1> QED
  BY <1>1, ToldStep, WrittenMeans, PTL DEF FSpec

\* The answers by kind.
AnswerOfKind ==
    answer # NotAsked =>
        /\ answer.to \in {"FLOW", "TABLE"} => answer.rv \in {"NONE", "BAD_TABLE_ID"}
        /\ answer.to \in {"PORT_STATS", "QUEUE"} => answer.rv = "NOT_SUPPORTED"

\* Every step keeps them.
LEMMA AnswerOfKindStep == AnswerOfKind /\ [FNext]_fvars => AnswerOfKind'
<1> SUFFICES ASSUME AnswerOfKind, [FNext]_fvars PROVE AnswerOfKind'
  OBVIOUS
<1>1. ASSUME NEW kind, NEW code, Answer(kind, code),
             kind \in {"FLOW", "TABLE"} => code \in {"NONE", "BAD_TABLE_ID"},
             kind \in {"PORT_STATS", "QUEUE"} => code = "NOT_SUPPORTED"
      PROVE  AnswerOfKind'
  BY <1>1 DEF Answer, AnswerOfKind
<1>2. CASE UNCHANGED answer
  BY <1>2 DEF AnswerOfKind
<1>3. CASE StatsStep
  BY <1>1, <1>2, <1>3 DEF StatsStep
<1>4. ASSUME NEW kind \in Kinds, PortRequest(kind) PROVE AnswerOfKind'
  BY <1>1, <1>4 DEF PortRequest
<1>5. CASE FwdRequest \/ group_stats
  BY <1>1, <1>5 DEF FwdRequest, group_stats
<1> QED
  BY <1>2, <1>3, <1>4, <1>5 DEF FNext, FeaturesRequest, fvars

\* No statistics a controller was promised are refused as unsupported, and of the
\* others only those of groups are not refused.
THEOREM ClaimsAreKept == FSpec => []AnsweredAsClaimed
<1>1. FInit => AnswerOfKind
  BY DEF FInit, AnswerOfKind
<1>2. FInit => ToldWritten
  BY DEF FInit, ToldWritten
<1>3. AnswerOfKind /\ ClaimedBy => AnsweredAsClaimed
  BY DEF AnswerOfKind, ClaimedBy, AnsweredAsClaimed, ofp_multipart_types
<1> QED
  BY <1>1, <1>2, <1>3, AnswerOfKindStep, ToldStep, WrittenMeans, PTL DEF FSpec

===============================================================================
