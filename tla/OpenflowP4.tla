------------------------------ MODULE OpenflowP4 ------------------------------
(***************************************************************************)
(* The data plane of the agent: a packet on its way through the controls   *)
(* of src/p4src/openflow.p4, until it leaves the switch.  Packets do not   *)
(* see each other: one is followed.                                        *)
(*                                                                         *)
(* An OpenFlow table of the target program answers a hit with              *)
(* openflow_apply, which notes in the packet's metadata a bitmap of action *)
(* types, and a miss with openflow_miss.  The controls then apply, for     *)
(* each bit and in the order of the program, one table whose entry holds   *)
(* the action's argument.  Those entries are written by the agent, a PD    *)
(* call at a time, while the packet is under way.                          *)
(***************************************************************************)
EXTENDS FiniteSets, Integers, Sequences

CONSTANTS
    Packets,        \* packets as the target's parser leaves them
    Bitmaps,        \* bitmaps of the flow
    BucketBitmaps,  \* bitmaps of a bucket of its group
    Rewrites,       \* bitmaps the agent may rewrite the flow with
    Ports, CPU_PORT_ID, NoPort,
    BucketPort,     \* the port of the bucket
    Groups,         \* multicast groups
    TTL,            \* 2^8: a time to live is a number below it
    Vids,
    ZeroVid,        \* the id of a tag that was just added; a controller may set it
    Arguments,      \* arguments of the entries that are there when the packet comes
    MaxWrites,      \* bound: PD calls of the agent while packets are under way
    NoEntry, NoGroup

\* Mutant of Egress: a tag is pushed before the old one is popped.
EgressPushFirst ==
           <<"POP_MPLS", "PUSH_MPLS", "DEC_MPLS_TTL", "SET_MPLS_TTL",
             "PUSH_VLAN", "POP_VLAN", "SET_FIELD", "DEC_NW_TTL", "SET_NW_TTL">>

\* Mutant of Egress: the time to live is set before it is decremented.
EgressSetTtlFirst ==
           <<"POP_MPLS", "PUSH_MPLS", "DEC_MPLS_TTL", "SET_MPLS_TTL",
             "POP_VLAN", "PUSH_VLAN", "SET_FIELD", "SET_NW_TTL", "DEC_NW_TTL">>

\* The order of process_ofpat_egress.
Egress  == <<"POP_MPLS", "PUSH_MPLS", "DEC_MPLS_TTL", "SET_MPLS_TTL",
             "POP_VLAN", "PUSH_VLAN", "SET_FIELD", "DEC_NW_TTL", "SET_NW_TTL">>

IngressActs == {"GROUP", "OUTPUT"}
EgressActs  == {Egress[k] : k \in DOMAIN Egress}
ActionTypes == IngressActs \cup EgressActs

\* The arguments of an entry of a table; those without one only say that they hit.
ArgsOf(t) ==
    CASE t = "OUTPUT" -> Ports
      [] t = "GROUP" -> [kind : {"uc"}, to : Ports] \cup [kind : {"mc"}, to : Groups]
      [] t = "SET_FIELD" -> Vids
      [] t \in {"SET_MPLS_TTL", "SET_NW_TTL"} -> 0 .. TTL - 1
      [] OTHER -> {"hit"}

EtherTypes == {"VLAN", "MPLS", "IPV4", "IPV6", "OTHER"}

Packet == [vlan : BOOLEAN, mpls : BOOLEAN, l3 : {"IPV4", "IPV6", "OTHER"},
           eth : EtherTypes, vlanEth : EtherTypes, vid : Vids,
           mplsTtl : 0 .. TTL - 1, ttl : 0 .. TTL - 1]

Inner(p) == IF p.mpls THEN "MPLS" ELSE p.l3
Outer(p) == IF p.vlan THEN "VLAN" ELSE Inner(p)

\* Each ether type announces the header that follows.
WellFormed(p) == p.eth = Outer(p) /\ (p.vlan => p.vlanEth = Inner(p))

\* The fields of a header that is not valid are kept at rest.
AtRest(p) == /\ ~p.vlan => p.vlanEth = "OTHER" /\ p.vid = ZeroVid
             /\ ~p.mpls => p.mplsTtl = 0

ASSUME PacketAssumption == \A p \in Packets : p \in Packet /\ WellFormed(p) /\ AtRest(p)
ASSUME BitmapAssumption ==
    Bitmaps \cup BucketBitmaps \cup Rewrites \subseteq SUBSET ActionTypes
ASSUME PortAssumption ==
    /\ BucketPort \in Ports
    /\ CPU_PORT_ID \notin Ports
    /\ NoPort \notin Ports \cup {CPU_PORT_ID}
ASSUME VidAssumption == ZeroVid \in Vids
ASSUME ArgumentsAssumption == \A a \in Arguments, t \in ActionTypes : a[t] \in ArgsOf(t)
ASSUME BoundAssumption == TTL \in Nat /\ TTL > 1 /\ MaxWrites \in Nat

Owners == {"flow", "bucket"}

VARIABLES
    pkt,         \* the headers of the packet
    bmap,        \* openflow_metadata.bmap
    group_id,    \* openflow_metadata.group_id: is it that of the group?
    egress_spec, mcast_grp, egress_port,
    at,          \* the control or table the packet is about to enter
    flowBmap,    \* the bitmap in the flow's entry of the OpenFlow table
    bucketBmap,  \* the bitmap in the ofpat_group_egress entry of the bucket
    ofpat,       \* the ofpat_* tables: type -> owner of the key -> argument
    writes,      \* PD calls so far
    orig,        \* ghost: the packet as it came
    matched,     \* ghost: the bitmap it was given by the OpenFlow table
    missed,      \* ghost: did an OpenFlow table miss?
    seen         \* ghost: entries each table had since it came

meta   == <<bmap, group_id, egress_spec, mcast_grp, egress_port>>
tables == <<flowBmap, bucketBmap, ofpat, writes>>
ghosts == <<orig, matched, missed, seen>>
vars   == <<pkt, meta, at, tables, ghosts>>

Stages == {"match", "replicate", "bucket", "sent"} \cup ActionTypes

TypeOK ==
    /\ pkt \in Packet /\ orig \in Packet
    /\ {bmap, matched, flowBmap, bucketBmap} \subseteq SUBSET ActionTypes
    /\ group_id \in BOOLEAN /\ missed \in BOOLEAN
    /\ {egress_spec, egress_port} \subseteq Ports \cup {CPU_PORT_ID, NoPort}
    /\ mcast_grp \in Groups \cup {NoGroup}
    /\ at \in Stages
    /\ writes \in 0 .. MaxWrites
    /\ \A t \in ActionTypes, o \in Owners :
           ofpat[t][o] \in ArgsOf(t) \cup {NoEntry} /\ ofpat[t][o] \in seen[t][o]

\* The tables that have entries with a key of the owner.  The group table has none but
\* the group's, which stands with the flow's here.
TablesOf(o) == IF o = "flow" THEN flowBmap ELSE bucketBmap \ {"GROUP"}

\* Entries of the OpenFlow and group tables may be there already, or still, without
\* those of the pipeline.
Init ==
    /\ pkt \in Packets /\ orig = pkt
    /\ bmap = {} /\ group_id = FALSE
    /\ egress_spec = NoPort /\ mcast_grp = NoGroup /\ egress_port = NoPort
    /\ at = "match"
    /\ flowBmap \in Bitmaps
    /\ bucketBmap \in IF "GROUP" \in flowBmap THEN BucketBitmaps ELSE {{}}
    /\ \E added \in SUBSET Owners, arg \in [Owners -> Arguments] :
           ofpat = [t \in ActionTypes |-> [o \in Owners |->
                       IF o \in added /\ t \in TablesOf(o) THEN arg[o][t] ELSE NoEntry]]
    /\ writes = 0
    /\ matched = {} /\ missed = FALSE
    /\ seen = [t \in ActionTypes |-> [o \in Owners |-> {ofpat[t][o]}]]

(***************************************************************************)
(* The OpenFlow tables of the target program.  A packet passes one or more *)
(* of them; each hit overwrites the metadata of the one before.            *)
(***************************************************************************)
openflow_apply ==
    /\ at = "match"
    /\ bmap' = flowBmap
    /\ group_id' = ("GROUP" \in flowBmap)
    /\ matched' = flowBmap
    /\ UNCHANGED <<pkt, egress_spec, mcast_grp, egress_port, at, tables, orig, missed, seen>>

openflow_miss ==
    /\ at = "match"
    /\ egress_spec' = CPU_PORT_ID
    /\ missed' = TRUE
    /\ UNCHANGED <<pkt, bmap, group_id, mcast_grp, egress_port, at, tables, orig, matched, seen>>

Matched ==
    /\ at = "match"
    /\ at' = "GROUP"
    /\ UNCHANGED <<pkt, meta, tables, ghosts>>

(***************************************************************************)
(* process_ofpat_ingress and process_ofpat_egress.  A table is applied if  *)
(* the bit of its action is set.  The entry of the flow is found by index, *)
(* that of the bucket by group and port; if both match either may be the   *)
(* one with the higher priority.  A packet that finds none is let through. *)
(* The port is egress_spec for ofpat_output, and egress_port for the rest. *)
(***************************************************************************)
AtBucket(port) == group_id /\ port = BucketPort
KeysAt(port)   == IF AtBucket(port) THEN Owners ELSE {"flow"}
Keys           == KeysAt(egress_port)
Hits(t, keys)  == {ofpat[t][o] : o \in keys} \ {NoEntry}

Found(t, keys) == IF t \notin bmap \/ Hits(t, keys) = {} THEN {NoEntry} ELSE Hits(t, keys)

ofpat_group_ingress ==
    /\ at = "GROUP"
    /\ \E e \in Found("GROUP", {"flow"}) :
           /\ egress_spec' = IF e # NoEntry /\ e.kind = "uc" THEN e.to ELSE egress_spec
           /\ mcast_grp' = IF e # NoEntry /\ e.kind = "mc" THEN e.to ELSE mcast_grp
    /\ at' = "OUTPUT"
    /\ UNCHANGED <<pkt, bmap, group_id, egress_port, tables, ghosts>>

\* Mutant of ofpat_output: a port that is set already stays.
ofpat_output_once ==
    /\ at = "OUTPUT"
    /\ \E e \in Found("OUTPUT", KeysAt(egress_spec)) :
           egress_spec' = IF e # NoEntry /\ egress_spec = NoPort THEN e ELSE egress_spec
    /\ at' = "replicate"
    /\ UNCHANGED <<pkt, bmap, group_id, mcast_grp, egress_port, tables, ghosts>>

ofpat_output ==
    /\ at = "OUTPUT"
    /\ \E e \in Found("OUTPUT", KeysAt(egress_spec)) :
           egress_spec' = IF e # NoEntry THEN e ELSE egress_spec
    /\ at' = "replicate"
    /\ UNCHANGED <<pkt, bmap, group_id, mcast_grp, egress_port, tables, ghosts>>

\* Between the controls the switch sends the packet, or a copy of it to a port of
\* its multicast group, to the egress control.  One copy is followed.
Replicate ==
    /\ at = "replicate"
    /\ egress_port' \in IF mcast_grp = NoGroup THEN {egress_spec} ELSE Ports
    /\ at' = "bucket"
    /\ UNCHANGED <<pkt, bmap, group_id, egress_spec, mcast_grp, tables, ghosts>>

\* Every packet is looked up here; one at the port of its bucket gets the actions of
\* the bucket as well.
ofpat_group_egress ==
    /\ at = "bucket"
    /\ bmap' = IF AtBucket(egress_port) THEN bmap \cup bucketBmap ELSE bmap
    /\ at' = Egress[1]
    /\ UNCHANGED <<pkt, group_id, egress_spec, mcast_grp, egress_port, tables, ghosts>>

\* The egress actions, as they change the headers.  One on a header that is not
\* valid changes nothing; nor does the addition of a header that is.
ofpat_pop_mpls(p)       == [p EXCEPT !.mpls = FALSE, !.mplsTtl = 0]
ofpat_push_mpls(p)      == [p EXCEPT !.eth = "MPLS", !.mpls = TRUE]
ofpat_dec_mpls_ttl(p)   == [p EXCEPT !.mplsTtl = IF p.mpls THEN (@ - 1) % TTL ELSE @]
ofpat_set_mpls_ttl(p, ttl) == [p EXCEPT !.mplsTtl = IF p.mpls THEN ttl ELSE @]

\* Mutant of ofpat_push_vlan: the inner ether type is taken from the packet.
ofpat_push_vlan_keeps(p) ==
    [p EXCEPT !.eth = "VLAN", !.vlan = TRUE, !.vlanEth = p.eth]

ofpat_push_vlan(p) == [p EXCEPT !.eth = "VLAN", !.vlan = TRUE, !.vlanEth = "IPV4"]

\* The ether type of a tag that is not there is whatever the field holds.
ofpat_pop_vlan(p, stale) ==
    [p EXCEPT !.eth = IF p.vlan THEN p.vlanEth ELSE stale,
              !.vlan = FALSE, !.vlanEth = "OTHER", !.vid = ZeroVid]
ofpat_set_vlan_vid(p, vid) == [p EXCEPT !.vid = IF p.vlan THEN vid ELSE @]

\* One of the tables for IPv4 and IPv6 is applied, if the packet is either.
IsIp(p) == p.l3 \in {"IPV4", "IPV6"}

\* Mutant of ofpat_dec_nw_ttl: the field has no width.
ofpat_dec_nw_ttl_wide(p) == [p EXCEPT !.ttl = IF IsIp(p) THEN @ - 1 ELSE @]

ofpat_dec_nw_ttl(p)      == [p EXCEPT !.ttl = IF IsIp(p) THEN (@ - 1) % TTL ELSE @]
ofpat_set_nw_ttl(p, ttl) == [p EXCEPT !.ttl = IF IsIp(p) THEN ttl ELSE @]

Applied(t, p, e) ==
    CASE t = "POP_MPLS"     -> {ofpat_pop_mpls(p)}
      [] t = "PUSH_MPLS"    -> {ofpat_push_mpls(p)}
      [] t = "DEC_MPLS_TTL" -> {ofpat_dec_mpls_ttl(p)}
      [] t = "SET_MPLS_TTL" -> {ofpat_set_mpls_ttl(p, e)}
      [] t = "POP_VLAN"     -> {ofpat_pop_vlan(p, stale) : stale \in EtherTypes}
      [] t = "PUSH_VLAN"    -> {ofpat_push_vlan(p)}
      [] t = "SET_FIELD"    -> {ofpat_set_vlan_vid(p, e)}
      [] t = "DEC_NW_TTL"   -> {ofpat_dec_nw_ttl(p)}
      [] t = "SET_NW_TTL"   -> {ofpat_set_nw_ttl(p, e)}

After(k) == IF k = Len(Egress) THEN "sent" ELSE Egress[k + 1]

process_ofpat_egress ==
    \E k \in DOMAIN Egress :
        /\ at = Egress[k]
        /\ \E e \in Found(at, Keys) :
               pkt' \in IF e = NoEntry THEN {pkt} ELSE Applied(at, pkt, e)
        /\ at' = After(k)
        /\ UNCHANGED <<meta, tables, ghosts>>

(***************************************************************************)
(* The agent: what flow_modify, flow_delete and the group callbacks do to  *)
(* these tables, a PD call at a time.                                      *)
(***************************************************************************)
RewriteFlow(b) ==
    /\ writes < MaxWrites
    /\ flowBmap' = b
    /\ writes' = writes + 1
    /\ UNCHANGED <<pkt, meta, at, bucketBmap, ofpat, ghosts>>

RewriteArg(t, o, e) ==
    /\ writes < MaxWrites
    /\ ofpat[t][o] # e
    /\ t \in TablesOf(o) \/ ofpat[t][o] # NoEntry
    /\ ofpat' = [ofpat EXCEPT ![t][o] = e]
    /\ seen' = [seen EXCEPT ![t][o] = @ \cup {e}]
    /\ writes' = writes + 1
    /\ UNCHANGED <<pkt, meta, at, flowBmap, bucketBmap, orig, matched, missed>>

Next ==
    \/ openflow_apply
    \/ openflow_miss
    \/ Matched
    \/ ofpat_group_ingress
    \/ ofpat_output
    \/ Replicate
    \/ ofpat_group_egress
    \/ process_ofpat_egress
    \/ \E b \in Rewrites : RewriteFlow(b)
    \/ \E t \in ActionTypes, o \in Owners :
           \E e \in ArgsOf(t) \cup {NoEntry} : RewriteArg(t, o, e)

Spec == Init /\ [][Next]_vars

-------------------------------------------------------------------------------
(***************************************************************************)
(* Properties: what becomes of a packet, in terms of the actions it is     *)
(* given and of the packet as it came.                                     *)
(***************************************************************************)
HasMpls(p, A) == "PUSH_MPLS" \in A \/ (p.mpls /\ "POP_MPLS" \notin A)
HasVlan(p, A) == "PUSH_VLAN" \in A \/ (p.vlan /\ "POP_VLAN" \notin A)

\* A header that is there from the beginning keeps its fields, unless popped first.
KeepsMpls(p, A) == p.mpls /\ "POP_MPLS" \notin A
KeepsVlan(p, A) == p.vlan /\ "POP_VLAN" \notin A

Ttl(old, A, dec, set, arg) ==
    IF set \in A THEN arg[set]
    ELSE IF dec \in A THEN (IF old = 0 THEN TTL - 1 ELSE old - 1) ELSE old

EthOf(p, A, stale) ==
    IF "PUSH_VLAN" \in A THEN "VLAN"
    ELSE IF "POP_VLAN" \in A THEN (IF p.vlan THEN p.vlanEth ELSE stale)
    ELSE IF "PUSH_MPLS" \in A THEN "MPLS" ELSE p.eth

ActedOn(p, A, arg, stale) ==
    [l3 |-> p.l3, mpls |-> HasMpls(p, A), vlan |-> HasVlan(p, A),
     eth |-> EthOf(p, A, stale),
     vlanEth |-> IF "PUSH_VLAN" \in A THEN "IPV4"
                 ELSE IF KeepsVlan(p, A) THEN p.vlanEth ELSE "OTHER",
     vid |-> IF HasVlan(p, A) /\ "SET_FIELD" \in A THEN arg["SET_FIELD"]
             ELSE IF KeepsVlan(p, A) THEN p.vid ELSE ZeroVid,
     mplsTtl |-> IF HasMpls(p, A)
                 THEN Ttl(IF KeepsMpls(p, A) THEN p.mplsTtl ELSE 0,
                          A, "DEC_MPLS_TTL", "SET_MPLS_TTL", arg)
                 ELSE 0,
     ttl |-> IF IsIp(p) THEN Ttl(p.ttl, A, "DEC_NW_TTL", "SET_NW_TTL", arg) ELSE p.ttl]

\* What the table of t may have answered while the packet was under way, to a look up
\* with these keys; and the ways to choose one answer for each of the types B.
Answers(t, keys) ==
    LET held == UNION {seen[t][o] : o \in keys}
    IN  IF \A o \in keys : NoEntry \in seen[t][o] THEN held ELSE held \ {NoEntry}

Choices(B, keys) ==
    LET open == {t \in B : Cardinality(Answers(t, keys)) > 1}
    IN  {[t \in B |-> IF t \in open THEN c[t] ELSE CHOOSE e \in Answers(t, keys) : TRUE] :
            c \in {f \in [open -> UNION {Answers(t, keys) : t \in open}] :
                      \A t \in open : f[t] \in Answers(t, keys)}}

Effective(arg) == {t \in DOMAIN arg : arg[t] # NoEntry}

\* What an ingress table may have answered, and whether that is a group of this kind.
AnswersTo(t, keys) == IF t \in matched THEN Answers(t, keys) ELSE {NoEntry}
To(g, kind)        == g # NoEntry /\ g.kind = kind

\* Where a packet goes: OUTPUT wins over a unicast group and over the miss of an
\* OpenFlow table, and a multicast group stays set beside it.  OUTPUT is that of the
\* flow; that of the bucket may take its place after a unicast group that sends to the
\* port of the bucket, which is the key it is found by.
LeavesWhereTold ==
    at \in {"replicate", "bucket", "sent"} =>
        \E g \in AnswersTo("GROUP", {"flow"}) :
        \E port \in AnswersTo("OUTPUT", IF To(g, "uc") /\ g.to = BucketPort THEN Owners ELSE {"flow"}) :
            /\ mcast_grp = IF To(g, "mc") THEN g.to ELSE NoGroup
            /\ egress_spec = IF port # NoEntry THEN port
                             ELSE IF To(g, "uc") THEN g.to
                             ELSE IF missed THEN CPU_PORT_ID ELSE NoPort

\* Nine tables applied one after the other, while the agent rewrites them, come to what
\* the actions of flow and bucket mean for the packet as it came, each with an
\* argument its table had while the packet was under way, or without effect if it
\* may have had none.
AppliesItsActions ==
    at = "sent" =>
        \E arg \in Choices(bmap \cap EgressActs, Keys), stale \in EtherTypes :
            pkt = ActedOn(orig, Effective(arg), arg, stale)

\* Which actions leave a packet whose ether types announce its headers.
KeepsChain(p, A) ==
    IF "PUSH_VLAN" \in A THEN ~HasMpls(p, A) /\ p.l3 = "IPV4"
    ELSE IF "PUSH_MPLS" \in A /\ "POP_VLAN" \notin A THEN ~p.vlan
    ELSE HasMpls(p, A) = p.mpls

\* A packet leaves with the ether types its headers call for in these cases, and in no
\* other: a label that is popped, and a tag that is pushed on anything but IPv4, leave
\* a packet the next switch cannot parse.  (Popping a tag that is not there is
\* left out: what it leaves is chance.)
ChainBreaksExactly ==
    LET arg == CHOOSE arg \in Choices(bmap \cap EgressActs, Keys) : TRUE
        A == Effective(arg)
    IN  /\ at = "sent"
        /\ Cardinality(Choices(bmap \cap EgressActs, Keys)) = 1
        /\ "POP_VLAN" \in A => orig.vlan \/ "PUSH_VLAN" \in A
        => (WellFormed(pkt) <=> KeepsChain(orig, A))

===============================================================================
