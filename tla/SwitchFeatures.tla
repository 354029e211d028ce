---------------------------- MODULE SwitchFeatures ----------------------------
(***************************************************************************)
(* What the switch tells a controller it can do, and what it answers when  *)
(* it is asked to: the features reply, which src/src/ind_fwd.c and         *)
(* src/src/ind_ports.c fill one after the other, and the statistics, of    *)
(* which AgentStats models those the agent has.  The features are written  *)
(* into the bytes of the message, some by field and some by offset.        *)
(***************************************************************************)
EXTENDS AgentStats

CONSTANTS NotAsked   \* before the first features request, or statistics request

(***************************************************************************)
(* The message, as in src/inc/p4ofagent/openflow-spec1.3.0.h: the offsets  *)
(* of its fields, and where it ends.                                       *)
(***************************************************************************)
ofp_header == [version |-> 0, type |-> 1, length |-> 2, xid |-> 4, end |-> 8]

ofp_switch_features ==
    LET n_buffers == ofp_header.end + 8
        n_tables  == n_buffers + 4
    IN  [n_buffers |-> n_buffers, n_tables |-> n_tables, capabilities |-> n_tables + 1 + 1 + 2,
         end |-> n_tables + 12]

ofp_capabilities ==
    [FLOW_STATS |-> 1, TABLE_STATS |-> 2, PORT_STATS |-> 4, GROUP_STATS |-> 8,
     IP_REASM |-> 32, QUEUE_STATS |-> 64, PORT_BLOCKED |-> 256]

\* The statistics a controller may ask for, and the capability it goes by.
ofp_multipart_types ==
    [FLOW |-> "FLOW_STATS", TABLE |-> "TABLE_STATS", PORT_STATS |-> "PORT_STATS",
     QUEUE |-> "QUEUE_STATS", GROUP |-> "GROUP_STATS"]

\* The assertions of the header.
ASSUME LayoutAssumption == ofp_header.end = 8 /\ ofp_switch_features.end = 32

Bytes   == 0 .. 255
Message == [0 .. ofp_switch_features.end - 1 -> Bytes]

of_wire_buffer_u8_set(buf, at, v) == [buf EXCEPT ![at] = v]

of_wire_buffer_u32_set(buf, at, v) ==
    [buf EXCEPT ![at]     = v \div 16777216, ![at + 1] = (v \div 65536) % 256,
                ![at + 2] = (v \div 256) % 256, ![at + 3] = v % 256]

u32_get(buf, at) ==
    ((buf[at] * 256 + buf[at + 1]) * 256 + buf[at + 2]) * 256 + buf[at + 3]

VARIABLES
    told,    \* the features reply the controller has, and who filled it last
    answer   \* the last answer to a request for statistics or about ports

fvars == <<vars, told, answer>>

\* What else the stubs may be asked: port descriptions and changes, the configuration
\* of queues, experimenters, a new pipeline.
Kinds == DOMAIN ofp_multipart_types \cup {"OTHER"}

ASSUME NotAskedAssumption ==
    /\ NotAsked \notin [reply : Message, last : {"fwd", "port"}]
    /\ NotAsked \notin [to : Kinds, rv : {"NONE", "BAD_TABLE_ID", "NOT_SUPPORTED"}]

FeaturesTypeOK ==
    /\ told \in [reply : Message, last : {"fwd", "port"}] \cup {NotAsked}
    /\ answer \in [to : Kinds, rv : {"NONE", "BAD_TABLE_ID", "NOT_SUPPORTED"}] \cup {NotAsked}

FInit ==
    /\ Init
    /\ told = NotAsked
    /\ answer = NotAsked

(***************************************************************************)
(* The features                                                            *)
(***************************************************************************)
\* Mutant of indigo_port_features_get: the number of tables is written as a word.
indigo_port_features_get_u32(fr) ==
    LET fr1 == of_wire_buffer_u8_set(fr, 16, 0)
        fr2 == of_wire_buffer_u32_set(fr1, 20, num_openflow_tables)
    IN  of_wire_buffer_u32_set(fr2, 23, 3)

indigo_port_features_get(fr) ==
    LET fr1 == of_wire_buffer_u8_set(fr, 16, 0)
        fr2 == of_wire_buffer_u8_set(fr1, 20, num_openflow_tables)
    IN  of_wire_buffer_u32_set(fr2, 23, 3)

\* Mutant of indigo_fwd_forwarding_features_get: the port statistics are claimed, too.
indigo_fwd_forwarding_features_get_ports(fr) ==
    LET fr1 == of_wire_buffer_u32_set(fr, ofp_switch_features.n_buffers, 0)
        fr2 == of_wire_buffer_u8_set(fr1, ofp_switch_features.n_tables, num_openflow_tables)
    IN  of_wire_buffer_u32_set(fr2, ofp_switch_features.capabilities, 7)

indigo_fwd_forwarding_features_get(fr) ==
    LET fr1 == of_wire_buffer_u32_set(fr, ofp_switch_features.n_buffers, 0)
        fr2 == of_wire_buffer_u8_set(fr1, ofp_switch_features.n_tables, num_openflow_tables)
    IN  of_wire_buffer_u32_set(fr2, ofp_switch_features.capabilities, 3)

\* Mutant of of_features_reply_new: the message ends after the capabilities.
of_features_reply_new_short == [b \in 0 .. ofp_switch_features.capabilities + 3 |-> 0]

\* The header and the datapath id, which Indigo fills, are not looked at.
of_features_reply_new == [b \in 0 .. ofp_switch_features.end - 1 |-> 0]

\* In which order Indigo calls the two is its own affair.
FeaturesRequest(last) ==
    /\ pc = "idle"
    /\ told' = [last |-> last, reply |->
           IF last = "fwd"
           THEN indigo_fwd_forwarding_features_get(indigo_port_features_get(of_features_reply_new))
           ELSE indigo_port_features_get(indigo_fwd_forwarding_features_get(of_features_reply_new))]
    /\ UNCHANGED <<vars, answer>>

(***************************************************************************)
(* The requests                                                            *)
(***************************************************************************)
Answer(kind, code) == answer' = [to |-> kind, rv |-> code] /\ UNCHANGED told

\* The statistics callbacks of AgentStats.
StatsStep ==
    \/ Proceed /\ UNCHANGED <<told, answer>>
    \/ \E kind \in {"TABLE", "FLOW"} : BadTableId /\ Answer(kind, "BAD_TABLE_ID")
    \/ ReadMissed /\ Answer("TABLE", "NONE")
    \/ ReadBytes /\ Answer("FLOW", "NONE")
    \/ BytesNotFound /\ Answer("FLOW", "BAD_TABLE_ID")

\* indigo_port_*: every request is refused.  The reply that is made for a request
\* of port statistics is empty.
PortRequest(kind) ==
    /\ pc = "idle"
    /\ kind \in {"PORT_STATS", "QUEUE", "OTHER"}
    /\ Answer(kind, "NOT_SUPPORTED")
    /\ UNCHANGED vars

\* indigo_fwd_*: so are experimenters, a packet to receive and a new pipeline.  The
\* functions that are asked which pipelines there are return nothing, and leave what
\* they should fill.
FwdRequest ==
    /\ pc = "idle"
    /\ Answer("OTHER", "NOT_SUPPORTED")
    /\ UNCHANGED vars

\* group_stats says it has done what it has not.
group_stats ==
    /\ pc = "idle"
    /\ Answer("GROUP", "NONE")
    /\ UNCHANGED vars

FNext ==
    \/ \E last \in {"fwd", "port"} : FeaturesRequest(last)
    \/ StatsStep
    \/ \E kind \in Kinds : PortRequest(kind)
    \/ FwdRequest
    \/ group_stats

FSpec == FInit /\ [][FNext]_fvars

-------------------------------------------------------------------------------
(***************************************************************************)
(* Properties                                                              *)
(***************************************************************************)
Claimed ==
    {c \in DOMAIN ofp_capabilities :
        (u32_get(told.reply, ofp_switch_features.capabilities) \div ofp_capabilities[c]) % 2 = 1}

\* Whichever of the two fills the reply last, the controller reads that nothing is
\* buffered, how many tables there are, and that there are statistics of flows and
\* tables: one does not spoil what the other wrote.  Of the forwarding module, which
\* writes by field, it reads no other claim.
FeaturesRead ==
    told # NotAsked =>
        /\ u32_get(told.reply, ofp_switch_features.n_buffers) = 0
        /\ told.reply[ofp_switch_features.n_tables] = num_openflow_tables
        /\ {"FLOW_STATS", "TABLE_STATS"} \subseteq Claimed
        /\ told.last = "fwd" => Claimed \subseteq {"FLOW_STATS", "TABLE_STATS"}

\* Statistics the switch claims to have are never refused as unsupported, and those
\* it does not claim are, but for groups: of these it reports success, with an entry
\* nobody has filled.
AnsweredAsClaimed ==
    told # NotAsked /\ answer # NotAsked /\ answer.to \in DOMAIN ofp_multipart_types =>
        IF ofp_multipart_types[answer.to] \in Claimed
        THEN answer.rv # "NOT_SUPPORTED"
        ELSE answer.rv = "NOT_SUPPORTED" \/ answer.to = "GROUP"

===============================================================================
