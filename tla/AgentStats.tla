----------------------------- MODULE AgentStats -----------------------------
(***************************************************************************)
(* The statistics callbacks (src/src/callbacks.c: table_stats_get and      *)
(* flow_stats_get) over the counters of one table of the soft switch,      *)
(* which forwards packets, and counts them, between any two reads.         *)
(*                                                                         *)
(* Flows come and go as FlowCallbacks models it; what matters here of one  *)
(* is its id and the handle of its entry.  A counter function is found in  *)
(* an array (src/src/state.c) with a key for every table of the switch.    *)
(***************************************************************************)
EXTENDS Integers

CONSTANTS
    FlowIds,     \* 64-bit ids of flows: Indigo's, or cookie|cmask
    Handles,     \* entry handles the table hands out
    HdlRange,    \* 2^32 in the code: the values of a p4_pd_entry_hdl_t
    Lengths,     \* lengths of packets
    num_openflow_tables,  \* tables the plugin has registered its functions for
    JudyLeafMax, \* keys a JudyL array holds before it outgrows its root leaf
    MaxPackets,  \* bound: packets forwarded
    NoHdl, NoCall

ASSUME RangeAssumption   == HdlRange \in Nat \ {0} /\ Handles \subseteq 0 .. HdlRange - 1
ASSUME FlowIdAssumption  == FlowIds \subseteq Nat
ASSUME LengthAssumption  == Lengths \subseteq Nat \ {0} /\ Lengths # {}
ASSUME TablesAssumption  == num_openflow_tables \in 1 .. 255 /\ JudyLeafMax \in Nat
ASSUME NoValueAssumption == NoHdl \notin Handles /\ NoCall \notin FlowIds

VARIABLES
    hits, misses,    \* the table's packet counters
    packets, bytes,  \* the direct counters: handle -> Nat
    hdl,             \* the entry of a flow
    counted,         \* ghost: packets of a flow since it was added
    pc,              \* the counter read next, or "idle"
    asked,           \* ghost: the counters when the callback that runs was called
    hit_count,       \* the local variable of table_stats_get
    fid,             \* the local variable of flow_stats_get
    table_stats,     \* the last answer about the table
    flow_stats,      \* the last answer about a flow
    rv               \* what the last callback returned

switch == <<hits, misses, packets, bytes, hdl, counted>>
agent  == <<pc, asked, hit_count, fid, table_stats, flow_stats, rv>>
vars   == <<switch, agent>>

Reads == {"hit", "missed", "packets", "bytes"}

TypeOK ==
    /\ {hits, misses, hit_count} \subseteq Nat
    /\ packets \in [Handles -> Nat] /\ bytes \in [Handles -> Nat]
    /\ hdl \in [FlowIds -> Handles \cup {NoHdl}]
    /\ counted \in [FlowIds -> Nat]
    /\ pc \in Reads \cup {"idle"}
    /\ asked \in [hits : Nat, misses : Nat, counted : [FlowIds -> Nat]]
    /\ fid \in FlowIds \cup {NoCall}
    /\ pc \in {"packets", "bytes"} => fid \in FlowIds /\ hdl[fid] # NoHdl
    /\ table_stats \in [matched_count : Nat, lookup_count : Nat]
    /\ flow_stats \in [packets : Nat, bytes : Nat]
    /\ rv \in {"NONE", "BAD_TABLE_ID"}

NothingCounted == [hits |-> 0, misses |-> 0, counted |-> [f \in FlowIds |-> 0]]

Init ==
    /\ hits = 0 /\ misses = 0 /\ hit_count = 0
    /\ packets = [h \in Handles |-> 0] /\ bytes = [h \in Handles |-> 0]
    /\ hdl = [f \in FlowIds |-> NoHdl]
    /\ counted = [f \in FlowIds |-> 0]
    /\ pc = "idle"
    /\ asked = NothingCounted
    /\ fid = NoCall
    /\ table_stats = [matched_count |-> 0, lookup_count |-> 0]
    /\ flow_stats = [packets |-> 0, bytes |-> 0]
    /\ rv = "NONE"

(***************************************************************************)
(* The switch                                                              *)
(***************************************************************************)
\* A packet that hits is counted for the table and, with its length, for the entry.
Hit(f, length) ==
    /\ hits + misses < MaxPackets
    /\ hdl[f] # NoHdl
    /\ hits' = hits + 1
    /\ packets' = [packets EXCEPT ![hdl[f]] = @ + 1]
    /\ bytes' = [bytes EXCEPT ![hdl[f]] = @ + length]
    /\ counted' = [counted EXCEPT ![f] = @ + 1]
    /\ UNCHANGED <<misses, hdl, agent>>

Miss ==
    /\ hits + misses < MaxPackets
    /\ misses' = misses + 1
    /\ UNCHANGED <<hits, packets, bytes, hdl, counted, agent>>

\* The agent thread adds and deletes flows between statistics requests.
FlowAdded(f, h) ==
    /\ pc = "idle"
    /\ hdl[f] = NoHdl
    /\ \A g \in FlowIds : hdl[g] # h
    /\ hdl' = [hdl EXCEPT ![f] = h]
    /\ packets' = [packets EXCEPT ![h] = 0]
    /\ bytes' = [bytes EXCEPT ![h] = 0]
    /\ counted' = [counted EXCEPT ![f] = 0]
    /\ UNCHANGED <<hits, misses, agent>>

FlowDeleted(f) ==
    /\ pc = "idle"
    /\ hdl[f] # NoHdl
    /\ hdl' = [hdl EXCEPT ![f] = NoHdl]
    /\ UNCHANGED <<hits, misses, packets, bytes, counted, agent>>

(***************************************************************************)
(* The getters of the counter functions.  They test a JudyL array with the *)
(* J1T of the other array family, which sees every key of a root leaf      *)
(* only; each test is one of another array, and may end otherwise.         *)
(***************************************************************************)
J1T == IF num_openflow_tables <= JudyLeafMax THEN {TRUE} ELSE BOOLEAN

table_packets_hit_get    == J1T
table_packets_missed_get == J1T
flow_packets_get         == J1T
flow_bytes_get           == J1T

Snapshot == [hits |-> hits, misses |-> misses, counted |-> counted]

Return(code) ==
    /\ pc' = "idle"
    /\ asked' = NothingCounted
    /\ hit_count' = 0
    /\ fid' = NoCall
    /\ rv' = code

\* Both callbacks return before any read if the function they look for first is not
\* found, as that of a table is which the plugin has not registered.
BadTableId ==
    /\ pc = "idle"
    /\ Return("BAD_TABLE_ID")
    /\ UNCHANGED <<switch, table_stats, flow_stats>>

(***************************************************************************)
(* table_stats_get                                                         *)
(***************************************************************************)
TableCall ==
    /\ pc = "idle"
    /\ TRUE \in table_packets_hit_get /\ TRUE \in table_packets_missed_get
    /\ pc' = "hit"
    /\ asked' = Snapshot
    /\ UNCHANGED <<switch, hit_count, fid, table_stats, flow_stats, rv>>

ReadHit ==
    /\ pc = "hit"
    /\ hit_count' = hits
    /\ pc' = "missed"
    /\ UNCHANGED <<switch, asked, fid, table_stats, flow_stats, rv>>

\* Mutant of ReadMissed: the hit counter is read once more for the sum.
ReadMissedTwice ==
    /\ pc = "missed"
    /\ table_stats' = [matched_count |-> hit_count, lookup_count |-> hits + hits]
    /\ Return("NONE")
    /\ UNCHANGED <<switch, flow_stats>>

ReadMissed ==
    /\ pc = "missed"
    /\ table_stats' = [matched_count |-> hit_count, lookup_count |-> hit_count + misses]
    /\ Return("NONE")
    /\ UNCHANGED <<switch, flow_stats>>

(***************************************************************************)
(* flow_stats_get.  It passes the counter functions, which want the handle *)
(* of an entry, the id of the flow.                                        *)
(***************************************************************************)
AsHandle(f) == f % HdlRange

\* What a counter function answers for a handle that is no entry's: nothing counted.
Counter(counters, h) == IF h \in Handles THEN counters[h] ELSE 0

\* Mutant of FlowCall: statistics of a flow that is gone are asked for.
FlowCallGone(f) ==
    /\ pc = "idle"
    /\ TRUE \in flow_packets_get
    /\ fid' = f
    /\ pc' = "packets"
    /\ asked' = Snapshot
    /\ UNCHANGED <<switch, hit_count, table_stats, flow_stats, rv>>

FlowCall(f) ==
    /\ pc = "idle"
    /\ hdl[f] # NoHdl
    /\ TRUE \in flow_packets_get
    /\ fid' = f
    /\ pc' = "packets"
    /\ asked' = Snapshot
    /\ UNCHANGED <<switch, hit_count, table_stats, flow_stats, rv>>

\* Mutant of ReadPackets: the counter of the table is read.
ReadPacketsOfTable ==
    /\ pc = "packets"
    /\ flow_stats' = [flow_stats EXCEPT !.packets = hits]
    /\ pc' = "bytes"
    /\ UNCHANGED <<switch, asked, hit_count, fid, table_stats, rv>>

ReadPackets ==
    /\ pc = "packets"
    /\ flow_stats' = [flow_stats EXCEPT !.packets = Counter(packets, AsHandle(fid))]
    /\ pc' = "bytes"
    /\ UNCHANGED <<switch, asked, hit_count, fid, table_stats, rv>>

\* Mutant of ReadBytes: the answer is left as it was.
ReadBytesSkipped ==
    /\ pc = "bytes"
    /\ TRUE \in flow_bytes_get
    /\ Return("NONE")
    /\ UNCHANGED <<switch, table_stats, flow_stats>>

ReadBytes ==
    /\ pc = "bytes"
    /\ TRUE \in flow_bytes_get
    /\ flow_stats' = [flow_stats EXCEPT !.bytes = Counter(bytes, AsHandle(fid))]
    /\ Return("NONE")
    /\ UNCHANGED <<switch, table_stats>>

\* The packets of this call stay in the answer, with the bytes of an earlier one.
BytesNotFound ==
    /\ pc = "bytes"
    /\ FALSE \in flow_bytes_get
    /\ Return("BAD_TABLE_ID")
    /\ UNCHANGED <<switch, table_stats, flow_stats>>

\* What goes on before a callback has an answer.
Proceed ==
    \/ \E f \in FlowIds, length \in Lengths : Hit(f, length)
    \/ Miss
    \/ \E f \in FlowIds, h \in Handles : FlowAdded(f, h)
    \/ \E f \in FlowIds : FlowDeleted(f)
    \/ TableCall
    \/ ReadHit
    \/ \E f \in FlowIds : FlowCall(f)
    \/ ReadPackets

Next ==
    \/ Proceed
    \/ BadTableId
    \/ ReadMissed
    \/ ReadBytes
    \/ BytesNotFound

Spec == Init /\ [][Next]_vars

-------------------------------------------------------------------------------
(***************************************************************************)
(* Properties                                                              *)
(***************************************************************************)
TableAnswers == pc = "missed" /\ pc' = "idle"
FlowAnswers  == pc = "bytes" /\ pc' = "idle" /\ rv' = "NONE"

Shortest(least) == \A length \in Lengths : least <= length
Between(low, n, high) == low <= n /\ n <= high

\* table_stats_get reads its two counters at different times, and still reports
\* of hits and of misses, which the controller has as lookups less matches, a
\* number that was true at some time during the call.
TableStatsWithinCall ==
    [][TableAnswers =>
        LET t == table_stats'
        IN  /\ Between(asked.hits, t.matched_count, hits)
            /\ Between(asked.misses, t.lookup_count - t.matched_count, misses)]_vars

\* Whatever packets arrive between the two reads of flow_stats_get, and whichever
\* calls before it ended between the two, the bytes it reports with success are no
\* less than so many packets have.
FlowBytesCoverPackets ==
    [][FlowAnswers =>
        \A least \in Lengths :
            Shortest(least) => flow_stats'.bytes >= least * flow_stats'.packets]_vars

\* flow_stats_get reports the packets of the flow it is asked for, counted during
\* the call (state.h:107, "Flow stats get wrapper type", takes an entry handle).
FlowStatsOfFlow ==
    [][FlowAnswers =>
        Between(asked.counted[fid], flow_stats'.packets, counted[fid])]_vars

\* It does so if the id of the flow happens to be the handle of its entry, also
\* after the handle belonged to other flows.
FlowStatsIfIdIsHandle ==
    [][FlowAnswers /\ hdl[fid] = AsHandle(fid) =>
        Between(asked.counted[fid], flow_stats'.packets, counted[fid])]_vars

===============================================================================
