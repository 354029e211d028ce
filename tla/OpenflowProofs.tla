---------------------------- MODULE OpenflowProofs ----------------------------
(***************************************************************************)
(* Theorems about the controls of openflow.p4, for any packets, bitmaps,   *)
(* ports and groups, and any number of PD calls while a packet is under    *)
(* way; and about the order of the action list a bitmap is made from.      *)
(***************************************************************************)
EXTENDS ActionOrder, FiniteSetTheorems, WellFoundedInduction, TLAPS

(***************************************************************************)
(* Types.  TypeOK says what is in the tables; that they are functions is   *)
(* needed, too, and that a table has had finitely many entries.            *)
(***************************************************************************)
Entries == Ports \cup ArgsOf("GROUP") \cup Vids \cup Nat \cup {"hit", NoEntry}

TablesTyped ==
    /\ ofpat \in [ActionTypes -> [Owners -> Entries]]
    /\ seen \in [ActionTypes -> [Owners -> SUBSET Entries]]
    /\ \A t \in ActionTypes, o \in Owners : IsFiniteSet(seen[t][o])

TInv == TypeOK /\ TablesTyped

\* The order of the egress control, spelled out.
LEMMA EgressOrder ==
    /\ EgressActs = {"POP_MPLS", "PUSH_MPLS", "DEC_MPLS_TTL", "SET_MPLS_TTL",
                     "POP_VLAN", "PUSH_VLAN", "SET_FIELD", "DEC_NW_TTL", "SET_NW_TTL"}
    /\ DOMAIN Egress = 1 .. 9
    /\ \A k \in DOMAIN Egress : Egress[k] \in EgressActs /\ After(k) \in EgressActs \cup {"sent"}
    /\ Egress[1] = "POP_MPLS"
BY DEF EgressActs, Egress, After

\* Every type has an argument to be stored with.
LEMMA ArgsExist ==
    ASSUME NEW t \in ActionTypes
    PROVE  ArgsOf(t) # {}
<1>1. Ports # {} /\ Vids # {} /\ 0 \in 0 .. TTL - 1
  BY PortAssumption, VidAssumption, BoundAssumption
<1>2. t = "GROUP" => \E to \in Ports : [kind |-> "uc", to |-> to] \in ArgsOf(t)
  BY <1>1 DEF ArgsOf
<1> QED BY <1>1, <1>2 DEF ArgsOf

\* An argument is an entry.
LEMMA ArgIsEntry ==
    ASSUME NEW t \in ActionTypes, NEW e \in ArgsOf(t) \cup {NoEntry}
    PROVE  e \in Entries
<1>1. 0 .. TTL - 1 \subseteq Nat
  OBVIOUS
<1> QED BY <1>1 DEF Entries, ArgsOf

\* Every packet that an action makes of a packet is one.
LEMMA AppliedIsPacket ==
    ASSUME NEW t \in EgressActs, NEW p \in Packet, NEW e \in ArgsOf(t)
    PROVE  Applied(t, p, e) \subseteq Packet
<1>1. /\ \A n \in 0 .. TTL - 1 : (n - 1) % TTL \in 0 .. TTL - 1
      /\ 0 \in 0 .. TTL - 1
  BY BoundAssumption
<1>2. CASE t = "POP_MPLS"     BY <1>1, <1>2 DEF Applied, ofpat_pop_mpls, Packet
<1>3. CASE t = "PUSH_MPLS"    BY <1>3 DEF Applied, ofpat_push_mpls, Packet, EtherTypes
<1>4. CASE t = "DEC_MPLS_TTL" BY <1>1, <1>4 DEF Applied, ofpat_dec_mpls_ttl, Packet
<1>5. CASE t = "SET_MPLS_TTL"
  <2>1. e \in 0 .. TTL - 1 BY <1>5 DEF ArgsOf
  <2> QED BY <1>5, <2>1 DEF Applied, ofpat_set_mpls_ttl, Packet
<1>6. CASE t = "POP_VLAN"
  <2>1. \A stale \in EtherTypes : ofpat_pop_vlan(p, stale) \in Packet
    BY VidAssumption DEF ofpat_pop_vlan, Packet, EtherTypes
  <2> SUFFICES ASSUME NEW q \in Applied(t, p, e) PROVE q \in Packet
    OBVIOUS
  <2>2. \E stale \in EtherTypes : q = ofpat_pop_vlan(p, stale)
    BY <1>6 DEF Applied
  <2> QED BY <2>1, <2>2
<1>7. CASE t = "PUSH_VLAN"
  <2>1. ofpat_push_vlan(p) \in Packet
    BY DEF ofpat_push_vlan, Packet, EtherTypes
  <2> QED BY <1>7, <2>1 DEF Applied
<1>8. CASE t = "SET_FIELD"    BY <1>8 DEF Applied, ofpat_set_vlan_vid, Packet, ArgsOf
<1>9. CASE t = "DEC_NW_TTL"   BY <1>1, <1>9 DEF Applied, ofpat_dec_nw_ttl, Packet
<1>10. CASE t = "SET_NW_TTL"  BY <1>1, <1>10 DEF Applied, ofpat_set_nw_ttl, Packet, ArgsOf
<1> QED BY <1>2, <1>3, <1>4, <1>5, <1>6, <1>7, <1>8, <1>9, <1>10, EgressOrder

\* What a packet finds in a table is an argument of its, one that it has held, or nothing.
LEMMA FoundIsArg ==
    ASSUME TInv, NEW t \in ActionTypes, NEW keys \in SUBSET Owners, NEW e \in Found(t, keys)
    PROVE  e \in ArgsOf(t) \cup {NoEntry}
BY DEF TInv, TypeOK, Found, Hits

\* What it finds is among the answers the table may have given, and is one of the entries.
LEMMA FoundIsAnswered ==
    ASSUME TInv, NEW t \in ActionTypes, NEW keys \in SUBSET Owners, keys # {},
           NEW e \in Found(t, keys)
    PROVE  /\ e \in Entries
           /\ e \in IF t \in bmap THEN Answers(t, keys) ELSE {NoEntry}
<1>1. e \in Entries
  BY FoundIsArg, ArgIsEntry
<1>2. \A o \in keys : ofpat[t][o] \in seen[t][o]
  BY DEF TInv, TypeOK
<1>3. ASSUME t \in bmap, e = NoEntry PROVE e \in Answers(t, keys)
  <2>1. \A o \in keys : ofpat[t][o] = NoEntry
    BY <1>3 DEF Found, Hits
  <2> QED BY <1>2, <1>3, <2>1 DEF Answers
<1>4. ASSUME t \in bmap, e # NoEntry PROVE e \in Answers(t, keys)
  <2>1. PICK o \in keys : e = ofpat[t][o]
    BY <1>4 DEF Found, Hits
  <2> QED BY <1>2, <1>4, <2>1 DEF Answers
<1>5. t \notin bmap => e = NoEntry
  BY DEF Found
<1> QED BY <1>1, <1>3, <1>4, <1>5

\* The keys of a look up are those of flow and bucket, or the flow's.
LEMMA KeysAreOwners ==
    ASSUME NEW port
    PROVE  KeysAt(port) \in SUBSET Owners /\ KeysAt(port) # {}
BY DEF KeysAt, Owners

\* The types hold at the start.
LEMMA TypeInit == Init => TInv
<1> SUFFICES ASSUME Init PROVE TInv
  OBVIOUS
<1>0. PICK added \in SUBSET Owners, arg \in [Owners -> Arguments] :
         ofpat = [t \in ActionTypes |-> [o \in Owners |->
                     IF o \in added /\ t \in TablesOf(o) THEN arg[o][t] ELSE NoEntry]]
  BY DEF Init
<1>1. \A t \in ActionTypes, o \in Owners : ofpat[t][o] \in ArgsOf(t) \cup {NoEntry}
  <2>1. \A t \in ActionTypes, o \in Owners : arg[o][t] \in ArgsOf(t)
    BY ArgumentsAssumption
  <2> QED BY <1>0, <2>1
<1>2. ofpat \in [ActionTypes -> [Owners -> Entries]]
  <2>1. ASSUME NEW t \in ActionTypes, NEW o \in Owners PROVE ofpat[t][o] \in Entries
    BY <1>1, ArgIsEntry
  <2> QED BY <1>0, <2>1
<1>3. seen = [t \in ActionTypes |-> [o \in Owners |-> {ofpat[t][o]}]]
  BY DEF Init
<1>4. \A t \in ActionTypes, o \in Owners : IsFiniteSet(seen[t][o])
  BY <1>3, FS_Singleton
<1>5. TablesTyped
  BY <1>2, <1>3, <1>4 DEF TablesTyped
<1>6. pkt \in Packet /\ orig \in Packet
  BY PacketAssumption DEF Init
<1>7. flowBmap \subseteq ActionTypes /\ bucketBmap \subseteq ActionTypes
  BY BitmapAssumption DEF Init
<1>8. \A t \in ActionTypes, o \in Owners : ofpat[t][o] \in seen[t][o]
  BY <1>3
<1>9. writes \in 0 .. MaxWrites
  BY BoundAssumption DEF Init
<1>10. {egress_spec, egress_port} \subseteq Ports \cup {CPU_PORT_ID, NoPort}
  BY DEF Init
<1>11. {bmap, matched, flowBmap, bucketBmap} \subseteq SUBSET ActionTypes
  BY <1>7 DEF Init
<1>12. /\ group_id \in BOOLEAN /\ missed \in BOOLEAN
       /\ mcast_grp \in Groups \cup {NoGroup} /\ at \in Stages
  BY DEF Init, Stages
<1> QED BY <1>1, <1>5, <1>6, <1>8, <1>9, <1>10, <1>11, <1>12 DEF TInv, TypeOK

\* A PD call of the agent keeps the tables typed.
LEMMA RewriteKeeps ==
    ASSUME TInv, NEW t \in ActionTypes, NEW o \in Owners, NEW e \in ArgsOf(t) \cup {NoEntry},
           RewriteArg(t, o, e)
    PROVE  /\ TInv'
           /\ \A u \in ActionTypes, k \in Owners : seen[u][k] \subseteq seen'[u][k]
<1>1. e \in Entries
  BY ArgIsEntry
<1>2. /\ ofpat \in [ActionTypes -> [Owners -> Entries]]
      /\ seen \in [ActionTypes -> [Owners -> SUBSET Entries]]
      /\ ofpat' = [ofpat EXCEPT ![t][o] = e]
      /\ seen' = [seen EXCEPT ![t][o] = @ \cup {e}]
  BY DEF TInv, TablesTyped, RewriteArg
<1>3. /\ ofpat' \in [ActionTypes -> [Owners -> Entries]]
      /\ seen' \in [ActionTypes -> [Owners -> SUBSET Entries]]
  BY <1>1, <1>2
<1>4. \A u \in ActionTypes, k \in Owners :
          /\ ofpat'[u][k] = IF u = t /\ k = o THEN e ELSE ofpat[u][k]
          /\ seen'[u][k] = IF u = t /\ k = o THEN seen[u][k] \cup {e} ELSE seen[u][k]
  BY <1>2
<1>5. \A u \in ActionTypes, k \in Owners : IsFiniteSet(seen'[u][k])
  <2> SUFFICES ASSUME NEW u \in ActionTypes, NEW k \in Owners PROVE IsFiniteSet(seen'[u][k])
    OBVIOUS
  <2>1. IsFiniteSet(seen[u][k])
    BY DEF TInv, TablesTyped
  <2>2. IsFiniteSet(seen[u][k] \cup {e})
    BY <2>1, FS_AddElement
  <2> QED BY <1>4, <2>1, <2>2
<1>6. TablesTyped'
  BY <1>3, <1>5 DEF TablesTyped
<1>7. \A u \in ActionTypes, k \in Owners :
          ofpat'[u][k] \in ArgsOf(u) \cup {NoEntry} /\ ofpat'[u][k] \in seen'[u][k]
  BY <1>4 DEF TInv, TypeOK
<1>8. writes' \in 0 .. MaxWrites
  BY BoundAssumption DEF TInv, TypeOK, RewriteArg
<1>9. UNCHANGED <<pkt, meta, at, flowBmap, bucketBmap, orig, matched, missed>>
  BY DEF RewriteArg
<1> QED BY <1>4, <1>6, <1>7, <1>8, <1>9 DEF TInv, TypeOK, meta

\* Every step keeps the types, table by table and write by write.
LEMMA TypeStep == TInv /\ [Next]_vars => TInv'
<1> SUFFICES ASSUME TInv, [Next]_vars PROVE TInv'
  OBVIOUS
<1>0. ASSUME UNCHANGED <<tables, seen>> PROVE
          /\ TablesTyped'
          /\ flowBmap' \subseteq ActionTypes /\ bucketBmap' \subseteq ActionTypes
          /\ writes' \in 0 .. MaxWrites
          /\ \A t \in ActionTypes, o \in Owners :
                 ofpat'[t][o] \in ArgsOf(t) \cup {NoEntry} /\ ofpat'[t][o] \in seen'[t][o]
  BY <1>0 DEF tables, TInv, TypeOK, TablesTyped
<1>1. CASE openflow_apply
  <2>1. UNCHANGED <<tables, seen>> BY <1>1 DEF openflow_apply
  <2> QED BY <1>0, <1>1, <2>1 DEF openflow_apply, TInv, TypeOK
<1>2. CASE openflow_miss
  <2>1. UNCHANGED <<tables, seen>> BY <1>2 DEF openflow_miss
  <2> QED BY <1>0, <1>2, <2>1 DEF openflow_miss, TInv, TypeOK
<1>3. CASE Matched
  <2>1. UNCHANGED <<tables, seen>> BY <1>3 DEF Matched, ghosts
  <2> QED BY <1>0, <1>3, <2>1
             DEF Matched, meta, ghosts, TInv, TypeOK, Stages, ActionTypes, IngressActs
<1>4. CASE ofpat_group_ingress
  <2>1. UNCHANGED <<tables, seen>> BY <1>4 DEF ofpat_group_ingress, ghosts
  <2>2. PICK e \in Found("GROUP", {"flow"}) :
           /\ egress_spec' = IF e # NoEntry /\ e.kind = "uc" THEN e.to ELSE egress_spec
           /\ mcast_grp' = IF e # NoEntry /\ e.kind = "mc" THEN e.to ELSE mcast_grp
    BY <1>4 DEF ofpat_group_ingress
  <2>3. e = NoEntry \/ e \in [kind : {"uc"}, to : Ports] \cup [kind : {"mc"}, to : Groups]
    BY FoundIsArg DEF ActionTypes, IngressActs, ArgsOf, Owners
  <2>4. egress_spec' \in Ports \cup {CPU_PORT_ID, NoPort} /\ mcast_grp' \in Groups \cup {NoGroup}
    BY <2>2, <2>3 DEF TInv, TypeOK
  <2> QED BY <1>0, <1>4, <2>1, <2>4
          DEF ofpat_group_ingress, ghosts, TInv, TypeOK, Stages, ActionTypes, IngressActs
<1>5. CASE ofpat_output
  <2>1. UNCHANGED <<tables, seen>> BY <1>5 DEF ofpat_output, ghosts
  <2>2. egress_spec' \in Ports \cup {CPU_PORT_ID, NoPort}
    <3>1. PICK e \in Found("OUTPUT", KeysAt(egress_spec)) :
              egress_spec' = IF e # NoEntry THEN e ELSE egress_spec
      BY <1>5 DEF ofpat_output
    <3>2. e = NoEntry \/ e \in Ports
      BY FoundIsArg, KeysAreOwners DEF ActionTypes, IngressActs, ArgsOf
    <3> QED BY <3>1, <3>2 DEF TInv, TypeOK
  <2> QED BY <1>0, <1>5, <2>1, <2>2 DEF ofpat_output, ghosts, TInv, TypeOK, Stages
<1>6. CASE Replicate
  <2>1. UNCHANGED <<tables, seen>> BY <1>6 DEF Replicate, ghosts
  <2>2. egress_port' \in Ports \cup {CPU_PORT_ID, NoPort}
    BY <1>6 DEF Replicate, TInv, TypeOK
  <2> QED BY <1>0, <1>6, <2>1, <2>2 DEF Replicate, ghosts, TInv, TypeOK, Stages
<1>7. CASE ofpat_group_egress
  <2>1. UNCHANGED <<tables, seen>> BY <1>7 DEF ofpat_group_egress, ghosts
  <2>2. bmap' \subseteq ActionTypes
    BY <1>7 DEF ofpat_group_egress, TInv, TypeOK
  <2>3. at' \in Stages
    BY <1>7, EgressOrder DEF ofpat_group_egress, Stages, ActionTypes
  <2> QED BY <1>0, <1>7, <2>1, <2>2, <2>3 DEF ofpat_group_egress, ghosts, TInv, TypeOK
<1>8. CASE process_ofpat_egress
  <2>1. PICK k \in DOMAIN Egress :
           /\ at = Egress[k]
           /\ \E e \in Found(at, Keys) :
                  pkt' \in IF e = NoEntry THEN {pkt} ELSE Applied(at, pkt, e)
           /\ at' = After(k)
           /\ UNCHANGED <<meta, tables, ghosts>>
    BY <1>8 DEF process_ofpat_egress
  <2>2. at \in EgressActs /\ at \in ActionTypes
    BY <2>1, EgressOrder DEF ActionTypes
  <2>3. pkt' \in Packet
    <3>1. PICK e \in Found(at, Keys) :
              pkt' \in IF e = NoEntry THEN {pkt} ELSE Applied(at, pkt, e)
      BY <2>1
    <3>2. e \in ArgsOf(at) \cup {NoEntry}
      BY <2>2, FoundIsArg, KeysAreOwners DEF Keys
    <3>3. pkt \in Packet
      BY DEF TInv, TypeOK
    <3> QED BY <2>2, <3>1, <3>2, <3>3, AppliedIsPacket
  <2>4. at' \in Stages
    BY <2>1, EgressOrder DEF Stages, ActionTypes
  <2> QED BY <1>0, <2>1, <2>3, <2>4 DEF meta, ghosts, TInv, TypeOK
<1>9. ASSUME NEW b \in Rewrites, RewriteFlow(b) PROVE TInv'
  <2>1. b \subseteq ActionTypes
    BY BitmapAssumption
  <2>2. writes' \in 0 .. MaxWrites
    BY <1>9, BoundAssumption DEF RewriteFlow, TInv, TypeOK
  <2> QED BY <1>9, <2>1, <2>2 DEF RewriteFlow, meta, ghosts, TInv, TypeOK, TablesTyped
<1>10. ASSUME NEW t \in ActionTypes, NEW o \in Owners, NEW e \in ArgsOf(t) \cup {NoEntry},
              RewriteArg(t, o, e)
       PROVE  TInv'
  BY <1>10, RewriteKeeps
<1>11. CASE UNCHANGED vars
  <2>1. UNCHANGED <<tables, seen>> BY <1>11 DEF vars, ghosts
  <2> QED BY <1>0, <1>11, <2>1 DEF vars, meta, ghosts, TInv, TypeOK
<1> QED BY <1>1, <1>2, <1>3, <1>4, <1>5, <1>6, <1>7, <1>8, <1>9, <1>10, <1>11 DEF Next

\* A packet is a packet after every table, whatever the agent writes meanwhile: a time to
\* live stays in its byte, a port is one of the switch or the CPU's, and a table holds
\* nothing but arguments of its action.
THEOREM PipelineTypes == Spec => []TypeOK
<1>1. TInv => TypeOK
  BY DEF TInv
<1> QED BY <1>1, TypeInit, TypeStep, PTL DEF Spec

-------------------------------------------------------------------------------
(***************************************************************************)
(* Where a packet goes.  The invariant is LeavesWhereTold, as far as the   *)
(* packet has come, and that OUTPUT is looked up with the port the group   *)
(* has set, and GROUP for a packet that was given its bit.                 *)
(***************************************************************************)
McastOf(g) == IF To(g, "mc") THEN g.to ELSE NoGroup

SpecOf(g, p) ==
    IF p # NoEntry THEN p
    ELSE IF To(g, "uc") THEN g.to
    ELSE IF missed THEN CPU_PORT_ID ELSE NoPort

\* The keys of OUTPUT after this answer of GROUP.
KeysOf(g) == IF To(g, "uc") /\ g.to = BucketPort THEN Owners ELSE {"flow"}

InIngress == at \in {"match", "GROUP", "OUTPUT"}

WhereTold ==
    /\ InIngress => bmap = matched /\ (group_id <=> "GROUP" \in matched)
    /\ at \in {"match", "GROUP"} =>
           mcast_grp = NoGroup /\ egress_spec = SpecOf(NoEntry, NoEntry)
    /\ at = "OUTPUT" =>
           \E g \in AnswersTo("GROUP", {"flow"}) :
               mcast_grp = McastOf(g) /\ egress_spec = SpecOf(g, NoEntry)
    /\ ~InIngress =>
           \E g \in AnswersTo("GROUP", {"flow"}) : \E p \in AnswersTo("OUTPUT", KeysOf(g)) :
               mcast_grp = McastOf(g) /\ egress_spec = SpecOf(g, p)

\* A packet that has just come has been told nothing.
LEMMA ToldInit == Init => WhereTold
BY DEF Init, WhereTold, InIngress, SpecOf, To

\* In the ingress control a packet finds an answer to the bitmap it was given.
LEMMA FoundIsAnswer ==
    ASSUME TInv, bmap = matched, NEW t \in IngressActs, NEW keys \in SUBSET Owners, keys # {},
           NEW e \in Found(t, keys)
    PROVE  e \in AnswersTo(t, keys)
BY FoundIsAnswered DEF AnswersTo, ActionTypes

\* The port a group has set is the bucket's only if it sends there.
LEMMA KeysAfterGroup ==
    ASSUME NEW g \in AnswersTo("GROUP", {"flow"}), group_id <=> "GROUP" \in matched,
           egress_spec = SpecOf(g, NoEntry)
    PROVE  KeysAt(egress_spec) = KeysOf(g)
<1>1. BucketPort # CPU_PORT_ID /\ BucketPort # NoPort
  BY PortAssumption
<1>2. To(g, "uc") => group_id
  BY DEF AnswersTo, To
<1> QED BY <1>1, <1>2 DEF KeysAt, AtBucket, KeysOf, SpecOf

\* An answer a table may have given stays one.
LEMMA AnswersGrow ==
    ASSUME UNCHANGED matched, NEW t \in IngressActs, NEW keys \in SUBSET Owners,
           \A u \in ActionTypes, o \in Owners : seen[u][o] \subseteq seen'[u][o]
    PROVE  AnswersTo(t, keys) \subseteq AnswersTo(t, keys)'
<1>1. \A o \in keys : seen[t][o] \subseteq seen'[t][o]
  BY DEF ActionTypes
<1>2. Answers(t, keys) \subseteq Answers(t, keys)'
  BY <1>1 DEF Answers
<1> QED BY <1>2 DEF AnswersTo

\* A step that leaves alone what a packet was told, and forgets no answer.
LEMMA StillTold ==
    ASSUME WhereTold, UNCHANGED <<mcast_grp, egress_spec, matched, missed>>,
           \A t \in ActionTypes, o \in Owners : seen[t][o] \subseteq seen'[t][o],
           \/ UNCHANGED <<at, bmap, group_id>>
           \/ ~InIngress /\ ~InIngress'
    PROVE  WhereTold'
<1>1. /\ AnswersTo("GROUP", {"flow"}) \subseteq AnswersTo("GROUP", {"flow"})'
      /\ \A g : AnswersTo("OUTPUT", KeysOf(g)) \subseteq AnswersTo("OUTPUT", KeysOf(g))'
  BY AnswersGrow DEF IngressActs, Owners, KeysOf
<1>2. \A g, p : McastOf(g)' = McastOf(g) /\ SpecOf(g, p)' = SpecOf(g, p)
  BY DEF McastOf, SpecOf
<1> QED BY <1>1, <1>2 DEF WhereTold, InIngress

\* Every step keeps what a packet was told: the two ingress tables add their answer.
LEMMA ToldStep == TInv /\ WhereTold /\ [Next]_vars => WhereTold'
<1> SUFFICES ASSUME TInv, WhereTold, [Next]_vars PROVE WhereTold'
  OBVIOUS
<1>1. CASE openflow_apply
  BY <1>1 DEF openflow_apply, WhereTold, InIngress, SpecOf, To
<1>2. CASE openflow_miss
  BY <1>2 DEF openflow_miss, WhereTold, InIngress, SpecOf, To
<1>3. CASE Matched
  BY <1>3 DEF Matched, meta, ghosts, WhereTold, InIngress, SpecOf, To
<1>4. CASE ofpat_group_ingress
  <2>1. PICK g \in Found("GROUP", {"flow"}) :
           /\ egress_spec' = IF g # NoEntry /\ g.kind = "uc" THEN g.to ELSE egress_spec
           /\ mcast_grp' = IF g # NoEntry /\ g.kind = "mc" THEN g.to ELSE mcast_grp
    BY <1>4 DEF ofpat_group_ingress
  <2>2. /\ at = "GROUP" /\ at' = "OUTPUT"
        /\ UNCHANGED <<bmap, group_id, matched, missed, seen>>
    BY <1>4 DEF ofpat_group_ingress, ghosts
  <2>3. bmap = matched /\ (group_id <=> "GROUP" \in matched)
        /\ mcast_grp = NoGroup /\ egress_spec = SpecOf(NoEntry, NoEntry)
    BY <2>2 DEF WhereTold, InIngress
  <2>4. g \in AnswersTo("GROUP", {"flow"})'
    <3>1. g \in AnswersTo("GROUP", {"flow"})
      BY <2>3, FoundIsAnswer DEF IngressActs, Owners
    <3> QED BY <2>2, <3>1 DEF AnswersTo, Answers
  <2>5. mcast_grp' = McastOf(g)' /\ egress_spec' = SpecOf(g, NoEntry)'
    BY <2>1, <2>2, <2>3 DEF McastOf, SpecOf, To
  <2> QED BY <2>2, <2>3, <2>4, <2>5 DEF WhereTold, InIngress
<1>5. CASE ofpat_output
  <2>1. PICK p \in Found("OUTPUT", KeysAt(egress_spec)) :
            egress_spec' = IF p # NoEntry THEN p ELSE egress_spec
    BY <1>5 DEF ofpat_output
  <2>2. /\ at = "OUTPUT" /\ at' = "replicate"
        /\ UNCHANGED <<mcast_grp, matched, missed, seen>>
    BY <1>5 DEF ofpat_output, ghosts
  <2>3. PICK g \in AnswersTo("GROUP", {"flow"}) :
            mcast_grp = McastOf(g) /\ egress_spec = SpecOf(g, NoEntry)
    BY <2>2 DEF WhereTold
  <2>4. bmap = matched /\ KeysAt(egress_spec) = KeysOf(g)
    BY <2>2, <2>3, KeysAfterGroup DEF WhereTold, InIngress
  <2>5. p \in AnswersTo("OUTPUT", KeysOf(g))
    BY <2>1, <2>4, FoundIsAnswer, KeysAreOwners DEF IngressActs
  <2>6. g \in AnswersTo("GROUP", {"flow"})' /\ p \in AnswersTo("OUTPUT", KeysOf(g))'
    BY <2>2, <2>3, <2>5 DEF AnswersTo, Answers
  <2>7. mcast_grp' = McastOf(g)' /\ egress_spec' = SpecOf(g, p)'
    BY <2>1, <2>2, <2>3 DEF McastOf, SpecOf
  <2> QED BY <2>2, <2>6, <2>7 DEF WhereTold, InIngress
<1>6. CASE Replicate
  BY <1>6, StillTold DEF Replicate, ghosts, InIngress
<1>7. CASE ofpat_group_egress
  <2>1. at = "bucket" /\ at' = "POP_MPLS"
    BY <1>7, EgressOrder DEF ofpat_group_egress
  <2> QED BY <1>7, <2>1, StillTold DEF ofpat_group_egress, ghosts, InIngress
<1>8. CASE process_ofpat_egress
  <2>1. at \in EgressActs /\ at' \in EgressActs \cup {"sent"}
    BY <1>8, EgressOrder DEF process_ofpat_egress
  <2>2. ~InIngress /\ ~InIngress'
    BY <2>1, EgressOrder DEF InIngress
  <2> QED BY <1>8, <2>2, StillTold DEF process_ofpat_egress, meta, ghosts
<1>9. ASSUME NEW b \in Rewrites, RewriteFlow(b) PROVE WhereTold'
  BY <1>9, StillTold DEF RewriteFlow, meta, ghosts
<1>10. ASSUME NEW t \in ActionTypes, NEW o \in Owners, NEW e \in ArgsOf(t) \cup {NoEntry},
              RewriteArg(t, o, e)
       PROVE  WhereTold'
  <2>1. \A u \in ActionTypes, k \in Owners : seen[u][k] \subseteq seen'[u][k]
    BY <1>10, RewriteKeeps
  <2> QED BY <1>10, <2>1, StillTold DEF RewriteArg, meta
<1>11. CASE UNCHANGED vars
  BY <1>11, StillTold DEF vars, meta, ghosts
<1> QED BY <1>1, <1>2, <1>3, <1>4, <1>5, <1>6, <1>7, <1>8, <1>9, <1>10, <1>11 DEF Next

\* A function that picks an answer for each type is one of the choices.
LEMMA IsChoice ==
    ASSUME NEW B, NEW keys, NEW arg, arg = [t \in B |-> arg[t]],
           \A t \in B : arg[t] \in Answers(t, keys) /\ IsFiniteSet(Answers(t, keys))
    PROVE  arg \in Choices(B, keys)
<1> DEFINE open == {t \in B : Cardinality(Answers(t, keys)) > 1}
           All  == UNION {Answers(t, keys) : t \in open}
           c    == [t \in open |-> arg[t]]
<1>1. ASSUME NEW t \in B, t \notin open PROVE arg[t] = CHOOSE e \in Answers(t, keys) : TRUE
  <2> DEFINE S == Answers(t, keys)
  <2>1. IsFiniteSet(S) /\ arg[t] \in S /\ ~(Cardinality(S) > 1)
    BY <1>1
  <2> HIDE DEF S
  <2>2. /\ Cardinality(S) \in Nat
        /\ IsFiniteSet(S \ {arg[t]})
        /\ Cardinality(S \ {arg[t]}) = Cardinality(S) - 1
    BY <2>1, FS_CardinalityType, FS_RemoveElement
  <2>3. Cardinality(S \ {arg[t]}) \in Nat
    BY <2>2, FS_CardinalityType
  <2>4. S \ {arg[t]} = {}
    BY <2>1, <2>2, <2>3, FS_EmptySet
  <2>5. S = {arg[t]}
    BY <2>1, <2>4
  <2> QED BY <2>5 DEF S
<1>2. c \in {f \in [open -> All] : \A t \in open : f[t] \in Answers(t, keys)}
  <2>1. ASSUME NEW t \in open PROVE arg[t] \in All /\ arg[t] \in Answers(t, keys)
    OBVIOUS
  <2>2. c \in [open -> All]
    BY <2>1
  <2> QED BY <2>1, <2>2
<1>3. arg = [t \in B |-> IF t \in open THEN c[t] ELSE CHOOSE e \in Answers(t, keys) : TRUE]
  BY <1>1
<1> HIDE DEF c
<1> QED BY <1>2, <1>3 DEF Choices

\* LeavesWhereTold for any packets, bitmaps and entries, also those of a bucket in the
\* output table, and any number of writes of the agent: OUTPUT wins over a unicast group,
\* that over the miss action, and a multicast group stays set.
THEOREM LeavesAsTold == Spec => []LeavesWhereTold
<1>1. TInv /\ WhereTold => LeavesWhereTold
  BY DEF WhereTold, InIngress, LeavesWhereTold, McastOf, SpecOf, KeysOf
<1>2. Init => TInv /\ WhereTold
  BY TypeInit, ToldInit
<1>3. TInv /\ WhereTold /\ [Next]_vars => (TInv /\ WhereTold)'
  BY TypeStep, ToldStep
<1> QED BY <1>1, <1>2, <1>3, PTL DEF Spec

-------------------------------------------------------------------------------
(***************************************************************************)
(* What the egress tables make of a packet, one after the other, against   *)
(* what the actions mean for the packet as it came.  ActedOn is taken      *)
(* field by field: what the packet q has in common with the packet p acted *)
(* on by A.                                                                *)
(***************************************************************************)
NwTtlOf(p, A, arg) == IF IsIp(p) THEN Ttl(p.ttl, A, "DEC_NW_TTL", "SET_NW_TTL", arg) ELSE p.ttl

MplsTtlOf(p, A, arg) ==
    IF HasMpls(p, A)
    THEN Ttl(IF KeepsMpls(p, A) THEN p.mplsTtl ELSE 0, A, "DEC_MPLS_TTL", "SET_MPLS_TTL", arg)
    ELSE 0

VidOf(p, A, arg) ==
    IF HasVlan(p, A) /\ "SET_FIELD" \in A THEN arg["SET_FIELD"]
    ELSE IF KeepsVlan(p, A) THEN p.vid ELSE ZeroVid

VlanEthOf(p, A) ==
    IF "PUSH_VLAN" \in A THEN "IPV4" ELSE IF KeepsVlan(p, A) THEN p.vlanEth ELSE "OTHER"

SameTag(q, p, A, arg, stale) ==
    /\ q.vlan <=> HasVlan(p, A)
    /\ q.eth = EthOf(p, A, stale)
    /\ q.vlanEth = VlanEthOf(p, A)
    /\ q.vid = VidOf(p, A, arg)

SameLabel(q, p, A, arg) ==
    /\ q.mpls <=> HasMpls(p, A)
    /\ q.mplsTtl = MplsTtlOf(p, A, arg)

SameL3(q, p, A, arg) ==
    /\ q.l3 = p.l3
    /\ q.ttl = NwTtlOf(p, A, arg)

Same(q, p, A, arg, stale) ==
    SameTag(q, p, A, arg, stale) /\ SameLabel(q, p, A, arg) /\ SameL3(q, p, A, arg)

\* A packet that has every field in common is the packet acted on.
LEMMA SameIsActedOn ==
    ASSUME NEW q \in Packet, NEW p \in Packet, NEW A, NEW arg, NEW stale,
           Same(q, p, A, arg, stale)
    PROVE  q = ActedOn(p, A, arg, stale)
<1>1. q = [l3 |-> q.l3, mpls |-> q.mpls, vlan |-> q.vlan, eth |-> q.eth, vlanEth |-> q.vlanEth,
           vid |-> q.vid, mplsTtl |-> q.mplsTtl, ttl |-> q.ttl]
  BY DEF Packet
<1>2. q.mpls \in BOOLEAN /\ q.vlan \in BOOLEAN
  BY DEF Packet
<1>3. HasMpls(p, A) \in BOOLEAN /\ HasVlan(p, A) \in BOOLEAN
  BY Zenon DEF HasMpls, HasVlan
<1>4. q.mpls = HasMpls(p, A) /\ q.vlan = HasVlan(p, A)
  BY <1>2, <1>3, Zenon DEF Same, SameTag, SameLabel
<1>5. /\ q.l3 = p.l3 /\ q.eth = EthOf(p, A, stale) /\ q.vlanEth = VlanEthOf(p, A)
      /\ q.vid = VidOf(p, A, arg) /\ q.mplsTtl = MplsTtlOf(p, A, arg) /\ q.ttl = NwTtlOf(p, A, arg)
  BY DEF Same, SameTag, SameLabel, SameL3
<1> QED BY <1>1, <1>4, <1>5, Zenon DEF ActedOn, NwTtlOf, MplsTtlOf, VidOf, VlanEthOf

\* ActedOn looks at an argument only for an action that takes one.
LEMMA SameArgs ==
    ASSUME NEW q, NEW p, NEW A, NEW arg, NEW arg2, NEW stale, Same(q, p, A, arg, stale),
           \A s \in A : arg2[s] = arg[s]
    PROVE  Same(q, p, A, arg2, stale)
BY DEF Same, SameTag, SameLabel, SameL3, NwTtlOf, MplsTtlOf, VidOf, Ttl

(***************************************************************************)
(* DoneAt(s) are the tables before stage s.                                *)
(***************************************************************************)
DoneAt(s) ==
    {Egress[j] : j \in {i \in DOMAIN Egress : \A k \in DOMAIN Egress : Egress[k] = s => i < k}}

\* The tables before each, spelled out.
LEMMA DoneSets ==
    /\ DoneAt("POP_MPLS") = {}
    /\ DoneAt("PUSH_MPLS") = {"POP_MPLS"}
    /\ DoneAt("DEC_MPLS_TTL") = {"POP_MPLS", "PUSH_MPLS"}
    /\ DoneAt("SET_MPLS_TTL") = {"POP_MPLS", "PUSH_MPLS", "DEC_MPLS_TTL"}
    /\ DoneAt("POP_VLAN") = {"POP_MPLS", "PUSH_MPLS", "DEC_MPLS_TTL", "SET_MPLS_TTL"}
    /\ DoneAt("PUSH_VLAN") = {"POP_MPLS", "PUSH_MPLS", "DEC_MPLS_TTL", "SET_MPLS_TTL", "POP_VLAN"}
    /\ DoneAt("SET_FIELD") = {"POP_MPLS", "PUSH_MPLS", "DEC_MPLS_TTL", "SET_MPLS_TTL", "POP_VLAN",
                              "PUSH_VLAN"}
    /\ DoneAt("DEC_NW_TTL") = {"POP_MPLS", "PUSH_MPLS", "DEC_MPLS_TTL", "SET_MPLS_TTL", "POP_VLAN",
                               "PUSH_VLAN", "SET_FIELD"}
    /\ DoneAt("SET_NW_TTL") = {"POP_MPLS", "PUSH_MPLS", "DEC_MPLS_TTL", "SET_MPLS_TTL", "POP_VLAN",
                               "PUSH_VLAN", "SET_FIELD", "DEC_NW_TTL"}
    /\ DoneAt("sent") = EgressActs
<1>1. DOMAIN Egress = 1 .. 9
  BY EgressOrder
<1>2. /\ Egress[1] = "POP_MPLS" /\ Egress[2] = "PUSH_MPLS" /\ Egress[3] = "DEC_MPLS_TTL"
      /\ Egress[4] = "SET_MPLS_TTL" /\ Egress[5] = "POP_VLAN" /\ Egress[6] = "PUSH_VLAN"
      /\ Egress[7] = "SET_FIELD" /\ Egress[8] = "DEC_NW_TTL" /\ Egress[9] = "SET_NW_TTL"
  BY DEF Egress
<1>3. ASSUME NEW n \in 1 .. 9, NEW s, Egress[n] = s
      PROVE  DoneAt(s) = {Egress[j] : j \in 1 .. n - 1}
  <2>1. ASSUME NEW k \in 1 .. 9, Egress[k] = s PROVE k = n
    BY <1>2, <1>3, <2>1
  <2>2. {i \in DOMAIN Egress : \A k \in DOMAIN Egress : Egress[k] = s => i < k} = 1 .. n - 1
    BY <1>1, <1>3, <2>1
  <2> QED BY <2>2 DEF DoneAt
<1>4. DoneAt("sent") = EgressActs
  BY <1>1, <1>2 DEF DoneAt, EgressActs
<1>5. ASSUME NEW n \in 1 .. 9
      PROVE  {Egress[j] : j \in 1 .. n} = {Egress[j] : j \in 1 .. n - 1} \cup {Egress[n]}
  OBVIOUS
<1>6. {Egress[j] : j \in 1 .. 0} = {}
  OBVIOUS
<1> HIDE DEF Egress
<1>11. DoneAt("POP_MPLS") = {}
  BY <1>2, <1>3, <1>6
<1>12. DoneAt("PUSH_MPLS") = {"POP_MPLS"}
  BY <1>2, <1>3, <1>5, <1>6
<1>13. DoneAt("DEC_MPLS_TTL") = DoneAt("PUSH_MPLS") \cup {"PUSH_MPLS"}
  BY <1>2, <1>3, <1>5
<1>14. DoneAt("SET_MPLS_TTL") = DoneAt("DEC_MPLS_TTL") \cup {"DEC_MPLS_TTL"}
  BY <1>2, <1>3, <1>5
<1>15. DoneAt("POP_VLAN") = DoneAt("SET_MPLS_TTL") \cup {"SET_MPLS_TTL"}
  BY <1>2, <1>3, <1>5
<1>16. DoneAt("PUSH_VLAN") = DoneAt("POP_VLAN") \cup {"POP_VLAN"}
  BY <1>2, <1>3, <1>5
<1>17. DoneAt("SET_FIELD") = DoneAt("PUSH_VLAN") \cup {"PUSH_VLAN"}
  BY <1>2, <1>3, <1>5
<1>18. DoneAt("DEC_NW_TTL") = DoneAt("SET_FIELD") \cup {"SET_FIELD"}
  BY <1>2, <1>3, <1>5
<1>19. DoneAt("SET_NW_TTL") = DoneAt("DEC_NW_TTL") \cup {"DEC_NW_TTL"}
  BY <1>2, <1>3, <1>5
<1> QED BY <1>4, <1>11, <1>12, <1>13, <1>14, <1>15, <1>16, <1>17, <1>18, <1>19

(***************************************************************************)
(* One action more: what each table does to a packet that those before it  *)
(* have acted on is what ActedOn says of one action more.                  *)
(***************************************************************************)

\* ofpat_pop_mpls: the label and its time to live go.
LEMMA PopMplsActs ==
    ASSUME NEW p \in Packet, AtRest(p), NEW r \in Packet, NEW arg, NEW stale,
           NEW A \in SUBSET DoneAt("POP_MPLS"),
           Same(r, p, A, arg, stale)
    PROVE  Same(ofpat_pop_mpls(r), p, A \cup {"POP_MPLS"}, arg, stale)
<1> DEFINE B == A \cup {"POP_MPLS"}
           q == ofpat_pop_mpls(r)
<1>1. SameTag(q, p, B, arg, stale)
  BY DoneSets
     DEF ofpat_pop_mpls, Packet, AtRest, Same, SameTag, HasVlan, KeepsVlan, EthOf, VlanEthOf, VidOf
<1>2. SameLabel(q, p, B, arg)
  BY BoundAssumption, DoneSets
     DEF ofpat_pop_mpls, Packet, AtRest, Same, SameLabel, MplsTtlOf, HasMpls, KeepsMpls, Ttl
<1>3. SameL3(q, p, B, arg)
  BY BoundAssumption, DoneSets DEF ofpat_pop_mpls, Packet, Same, SameL3, NwTtlOf, Ttl, IsIp
<1> QED BY <1>1, <1>2, <1>3 DEF Same

\* ofpat_push_mpls: a label that was not there begins with a time to live of zero.
LEMMA PushMplsActs ==
    ASSUME NEW p \in Packet, AtRest(p), NEW r \in Packet, NEW arg, NEW stale,
           NEW A \in SUBSET DoneAt("PUSH_MPLS"),
           Same(r, p, A, arg, stale)
    PROVE  Same(ofpat_push_mpls(r), p, A \cup {"PUSH_MPLS"}, arg, stale)
<1> DEFINE B == A \cup {"PUSH_MPLS"}
           q == ofpat_push_mpls(r)
<1>1. SameTag(q, p, B, arg, stale)
  BY DoneSets
     DEF ofpat_push_mpls, Packet, AtRest, Same, SameTag, HasVlan, KeepsVlan, EthOf, VlanEthOf, VidOf
<1>2. SameLabel(q, p, B, arg)
  BY BoundAssumption, DoneSets
     DEF ofpat_push_mpls, Packet, AtRest, Same, SameLabel, MplsTtlOf, HasMpls, KeepsMpls, Ttl
<1>3. SameL3(q, p, B, arg)
  BY BoundAssumption, DoneSets DEF ofpat_push_mpls, Packet, Same, SameL3, NwTtlOf, Ttl, IsIp
<1> QED BY <1>1, <1>2, <1>3 DEF Same

\* ofpat_dec_mpls_ttl: modulo the width of the field.
LEMMA DecMplsTtlActs ==
    ASSUME NEW p \in Packet, AtRest(p), NEW r \in Packet, NEW arg, NEW stale,
           NEW A \in SUBSET DoneAt("DEC_MPLS_TTL"),
           Same(r, p, A, arg, stale)
    PROVE  Same(ofpat_dec_mpls_ttl(r), p, A \cup {"DEC_MPLS_TTL"}, arg, stale)
<1> DEFINE B == A \cup {"DEC_MPLS_TTL"}
           q == ofpat_dec_mpls_ttl(r)
<1>1. SameTag(q, p, B, arg, stale)
  BY DoneSets
     DEF ofpat_dec_mpls_ttl, Packet, AtRest, Same, SameTag, HasVlan, KeepsVlan, EthOf, VlanEthOf, VidOf
<1>2. SameLabel(q, p, B, arg)
  BY BoundAssumption, DoneSets
     DEF ofpat_dec_mpls_ttl, Packet, AtRest, Same, SameLabel, MplsTtlOf, HasMpls, KeepsMpls, Ttl
<1>3. SameL3(q, p, B, arg)
  BY BoundAssumption, DoneSets DEF ofpat_dec_mpls_ttl, Packet, Same, SameL3, NwTtlOf, Ttl, IsIp
<1> QED BY <1>1, <1>2, <1>3 DEF Same

\* ofpat_set_mpls_ttl: the last of the label's tables, so its argument stays.
LEMMA SetMplsTtlActs ==
    ASSUME NEW p \in Packet, AtRest(p), NEW r \in Packet, NEW arg, NEW stale,
           NEW A \in SUBSET DoneAt("SET_MPLS_TTL"),
           Same(r, p, A, arg, stale)
    PROVE  Same(ofpat_set_mpls_ttl(r, arg["SET_MPLS_TTL"]), p, A \cup {"SET_MPLS_TTL"}, arg, stale)
<1> DEFINE B == A \cup {"SET_MPLS_TTL"}
           q == ofpat_set_mpls_ttl(r, arg["SET_MPLS_TTL"])
<1>1. SameTag(q, p, B, arg, stale)
  BY DoneSets
     DEF ofpat_set_mpls_ttl, Packet, AtRest, Same, SameTag, HasVlan, KeepsVlan, EthOf, VlanEthOf, VidOf
<1>2. SameLabel(q, p, B, arg)
  BY BoundAssumption, DoneSets
     DEF ofpat_set_mpls_ttl, Packet, AtRest, Same, SameLabel, MplsTtlOf, HasMpls, KeepsMpls, Ttl
<1>3. SameL3(q, p, B, arg)
  BY BoundAssumption, DoneSets DEF ofpat_set_mpls_ttl, Packet, Same, SameL3, NwTtlOf, Ttl, IsIp
<1> QED BY <1>1, <1>2, <1>3 DEF Same

\* ofpat_pop_vlan: the ether type is the tag's, or chance.
LEMMA PopVlanActs ==
    ASSUME NEW p \in Packet, AtRest(p), NEW r \in Packet, NEW arg, NEW stale, NEW chance,
           NEW A \in SUBSET DoneAt("POP_VLAN"),
           Same(r, p, A, arg, stale)
    PROVE  Same(ofpat_pop_vlan(r, chance), p, A \cup {"POP_VLAN"}, arg, chance)
<1> DEFINE B == A \cup {"POP_VLAN"}
           q == ofpat_pop_vlan(r, chance)
<1>1. SameTag(q, p, B, arg, chance)
  BY DoneSets
     DEF ofpat_pop_vlan, Packet, AtRest, Same, SameTag, HasVlan, KeepsVlan, EthOf, VlanEthOf, VidOf
<1>2. SameLabel(q, p, B, arg)
  BY BoundAssumption, DoneSets
     DEF ofpat_pop_vlan, Packet, AtRest, Same, SameLabel, MplsTtlOf, HasMpls, KeepsMpls, Ttl
<1>3. SameL3(q, p, B, arg)
  BY BoundAssumption, DoneSets DEF ofpat_pop_vlan, Packet, Same, SameL3, NwTtlOf, Ttl, IsIp
<1> QED BY <1>1, <1>2, <1>3 DEF Same

\* ofpat_push_vlan: after the pop, so the tag stays.
LEMMA PushVlanActs ==
    ASSUME NEW p \in Packet, AtRest(p), NEW r \in Packet, NEW arg, NEW stale,
           NEW A \in SUBSET DoneAt("PUSH_VLAN"),
           Same(r, p, A, arg, stale)
    PROVE  Same(ofpat_push_vlan(r), p, A \cup {"PUSH_VLAN"}, arg, stale)
<1> DEFINE B == A \cup {"PUSH_VLAN"}
           q == ofpat_push_vlan(r)
<1>1. SameTag(q, p, B, arg, stale)
  BY DoneSets
     DEF ofpat_push_vlan, Packet, AtRest, Same, SameTag, HasVlan, KeepsVlan, EthOf, VlanEthOf, VidOf
<1>2. SameLabel(q, p, B, arg)
  BY BoundAssumption, DoneSets
     DEF ofpat_push_vlan, Packet, AtRest, Same, SameLabel, MplsTtlOf, HasMpls, KeepsMpls, Ttl
<1>3. SameL3(q, p, B, arg)
  BY BoundAssumption, DoneSets DEF ofpat_push_vlan, Packet, Same, SameL3, NwTtlOf, Ttl, IsIp
<1> QED BY <1>1, <1>2, <1>3 DEF Same

\* ofpat_set_vlan_vid: after the push, so it sees a tag that was pushed.
LEMMA SetFieldActs ==
    ASSUME NEW p \in Packet, AtRest(p), NEW r \in Packet, NEW arg, NEW stale,
           NEW A \in SUBSET DoneAt("SET_FIELD"),
           Same(r, p, A, arg, stale)
    PROVE  Same(ofpat_set_vlan_vid(r, arg["SET_FIELD"]), p, A \cup {"SET_FIELD"}, arg, stale)
<1> DEFINE B == A \cup {"SET_FIELD"}
           q == ofpat_set_vlan_vid(r, arg["SET_FIELD"])
<1>1. SameTag(q, p, B, arg, stale)
  BY DoneSets
     DEF ofpat_set_vlan_vid, Packet, AtRest, Same, SameTag, HasVlan, KeepsVlan, EthOf, VlanEthOf, VidOf
<1>2. SameLabel(q, p, B, arg)
  BY BoundAssumption, DoneSets
     DEF ofpat_set_vlan_vid, Packet, AtRest, Same, SameLabel, MplsTtlOf, HasMpls, KeepsMpls, Ttl
<1>3. SameL3(q, p, B, arg)
  BY BoundAssumption, DoneSets DEF ofpat_set_vlan_vid, Packet, Same, SameL3, NwTtlOf, Ttl, IsIp
<1> QED BY <1>1, <1>2, <1>3 DEF Same

\* ofpat_dec_nw_ttl: modulo the width of the field.
LEMMA DecNwTtlActs ==
    ASSUME NEW p \in Packet, AtRest(p), NEW r \in Packet, NEW arg, NEW stale,
           NEW A \in SUBSET DoneAt("DEC_NW_TTL"),
           Same(r, p, A, arg, stale)
    PROVE  Same(ofpat_dec_nw_ttl(r), p, A \cup {"DEC_NW_TTL"}, arg, stale)
<1> DEFINE B == A \cup {"DEC_NW_TTL"}
           q == ofpat_dec_nw_ttl(r)
<1>1. SameTag(q, p, B, arg, stale)
  BY DoneSets
     DEF ofpat_dec_nw_ttl, Packet, AtRest, Same, SameTag, HasVlan, KeepsVlan, EthOf, VlanEthOf, VidOf
<1>2. SameLabel(q, p, B, arg)
  BY BoundAssumption, DoneSets
     DEF ofpat_dec_nw_ttl, Packet, AtRest, Same, SameLabel, MplsTtlOf, HasMpls, KeepsMpls, Ttl
<1>3. SameL3(q, p, B, arg)
  BY BoundAssumption, DoneSets DEF ofpat_dec_nw_ttl, Packet, Same, SameL3, NwTtlOf, Ttl, IsIp
<1> QED BY <1>1, <1>2, <1>3 DEF Same

\* ofpat_set_nw_ttl: the last table of all.
LEMMA SetNwTtlActs ==
    ASSUME NEW p \in Packet, AtRest(p), NEW r \in Packet, NEW arg, NEW stale,
           NEW A \in SUBSET DoneAt("SET_NW_TTL"),
           Same(r, p, A, arg, stale)
    PROVE  Same(ofpat_set_nw_ttl(r, arg["SET_NW_TTL"]), p, A \cup {"SET_NW_TTL"}, arg, stale)
<1> DEFINE B == A \cup {"SET_NW_TTL"}
           q == ofpat_set_nw_ttl(r, arg["SET_NW_TTL"])
<1>1. SameTag(q, p, B, arg, stale)
  BY DoneSets
     DEF ofpat_set_nw_ttl, Packet, AtRest, Same, SameTag, HasVlan, KeepsVlan, EthOf, VlanEthOf, VidOf
<1>2. SameLabel(q, p, B, arg)
  BY BoundAssumption, DoneSets
     DEF ofpat_set_nw_ttl, Packet, AtRest, Same, SameLabel, MplsTtlOf, HasMpls, KeepsMpls, Ttl
<1>3. SameL3(q, p, B, arg)
  BY BoundAssumption, DoneSets DEF ofpat_set_nw_ttl, Packet, Same, SameL3, NwTtlOf, Ttl, IsIp
<1> QED BY <1>1, <1>2, <1>3 DEF Same

(***************************************************************************)
(* The nine lemmas in one.                                                 *)
(***************************************************************************)
\* After a table it is done, and it was not before.
LEMMA DoneNext ==
    ASSUME NEW k \in DOMAIN Egress
    PROVE  /\ DoneAt(After(k)) = DoneAt(Egress[k]) \cup {Egress[k]}
           /\ Egress[k] \notin DoneAt(Egress[k])
<1>1. k \in 1 .. 9 /\ Len(Egress) = 9
  BY EgressOrder DEF Egress
<1>2. /\ Egress[1] = "POP_MPLS" /\ Egress[2] = "PUSH_MPLS" /\ Egress[3] = "DEC_MPLS_TTL"
      /\ Egress[4] = "SET_MPLS_TTL" /\ Egress[5] = "POP_VLAN" /\ Egress[6] = "PUSH_VLAN"
      /\ Egress[7] = "SET_FIELD" /\ Egress[8] = "DEC_NW_TTL" /\ Egress[9] = "SET_NW_TTL"
  BY DEF Egress
<1>3. k \in {1, 2, 3, 4, 5, 6, 7, 8, 9}
  BY <1>1
<1>4. After(k) = IF k = 9 THEN "sent" ELSE Egress[k + 1]
  BY <1>1 DEF After
<1>5. EgressActs = {"POP_MPLS", "PUSH_MPLS", "DEC_MPLS_TTL", "SET_MPLS_TTL", "POP_VLAN",
                    "PUSH_VLAN", "SET_FIELD", "DEC_NW_TTL", "SET_NW_TTL"}
  BY EgressOrder
<1> QED BY <1>2, <1>3, <1>4, <1>5, DoneSets

\* One table more, whichever it is.
LEMMA OneMoreActs ==
    ASSUME NEW p \in Packet, AtRest(p), NEW r \in Packet, NEW arg, NEW stale \in EtherTypes,
           NEW t \in EgressActs, NEW A \in SUBSET DoneAt(t), Same(r, p, A, arg, stale),
           NEW q \in Applied(t, r, arg[t])
    PROVE  \E s \in EtherTypes : Same(q, p, A \cup {t}, arg, s)
<1>1. CASE t = "POP_MPLS"     BY <1>1, PopMplsActs DEF Applied
<1>2. CASE t = "PUSH_MPLS"    BY <1>2, PushMplsActs DEF Applied
<1>3. CASE t = "DEC_MPLS_TTL" BY <1>3, DecMplsTtlActs DEF Applied
<1>4. CASE t = "SET_MPLS_TTL" BY <1>4, SetMplsTtlActs DEF Applied
<1>5. CASE t = "POP_VLAN"
  <2>1. PICK chance \in EtherTypes : q = ofpat_pop_vlan(r, chance)
    BY <1>5 DEF Applied
  <2> QED BY <1>5, <2>1, PopVlanActs
<1>6. CASE t = "PUSH_VLAN"    BY <1>6, PushVlanActs DEF Applied
<1>7. CASE t = "SET_FIELD"    BY <1>7, SetFieldActs DEF Applied
<1>8. CASE t = "DEC_NW_TTL"   BY <1>8, DecNwTtlActs DEF Applied
<1>9. CASE t = "SET_NW_TTL"   BY <1>9, SetNwTtlActs DEF Applied
<1> QED BY <1>1, <1>2, <1>3, <1>4, <1>5, <1>6, <1>7, <1>8, <1>9, EgressOrder

-------------------------------------------------------------------------------
(***************************************************************************)
(* The invariant.  Before the egress tables the packet is as it came; then *)
(* it is the packet as it came acted on by an answer of each table that is *)
(* done.  The agent may write, which only adds to the answers; so the      *)
(* answer a packet was given stays one.                                    *)
(***************************************************************************)
InEgress == at \in EgressActs \cup {"sent"}

Taken(arg) == {t \in EgressActs : arg[t] # NoEntry}

AnswersDone(arg) ==
    \A t \in EgressActs :
        arg[t] \in IF t \in bmap \cap DoneAt(at) THEN Answers(t, Keys) ELSE {NoEntry}

ActedSoFar ==
    \E arg \in [EgressActs -> Entries], stale \in EtherTypes :
        AnswersDone(arg) /\ Same(pkt, orig, Taken(arg), arg, stale)

Acted ==
    /\ orig \in Packet /\ WellFormed(orig) /\ AtRest(orig)
    /\ ~InEgress => pkt = orig
    /\ InEgress => ActedSoFar

\* A packet that has just come is as it came.
LEMMA ActedInit == Init => Acted
<1>1. Init => ~InEgress
  BY EgressOrder DEF Init, InEgress
<1> QED BY <1>1, PacketAssumption DEF Init, Acted

\* No action, no change.
LEMMA NothingActs ==
    ASSUME NEW p \in Packet, AtRest(p), NEW arg, NEW stale
    PROVE  Same(p, p, {}, arg, stale)
<1>1. SameTag(p, p, {}, arg, stale)
  BY DEF Packet, AtRest, SameTag, HasVlan, KeepsVlan, EthOf, VlanEthOf, VidOf
<1>2. SameLabel(p, p, {}, arg)
  BY DEF Packet, AtRest, SameLabel, MplsTtlOf, HasMpls, KeepsMpls, Ttl
<1>3. SameL3(p, p, {}, arg)
  BY DEF SameL3, NwTtlOf, Ttl
<1> QED BY <1>1, <1>2, <1>3 DEF Same

\* A step that lets the packet and its keys be, and forgets no answer.
LEMMA StillActed ==
    ASSUME Acted, UNCHANGED <<pkt, orig>>,
           \A t \in ActionTypes, o \in Owners : seen[t][o] \subseteq seen'[t][o],
           \/ UNCHANGED <<at, bmap, group_id, egress_port>>
           \/ ~InEgress /\ ~InEgress'
    PROVE  Acted'
<1>1. CASE ~InEgress /\ ~InEgress'
  BY <1>1 DEF Acted
<1>2. CASE UNCHANGED <<at, bmap, group_id, egress_port>>
  <2>1. Keys' = Keys /\ Keys \subseteq Owners
    BY <1>2 DEF Keys, KeysAt, AtBucket, Owners
  <2>2. ASSUME NEW t \in EgressActs PROVE Answers(t, Keys) \subseteq Answers(t, Keys)'
    <3>1. \A o \in Keys : seen[t][o] \subseteq seen'[t][o]
      BY <2>1 DEF ActionTypes
    <3> QED BY <2>1, <3>1 DEF Answers
  <2>3. \A arg : AnswersDone(arg) => AnswersDone(arg)'
    BY <1>2, <2>2 DEF AnswersDone
  <2>4. InEgress' = InEgress
    BY <1>2 DEF InEgress
  <2>5. ActedSoFar => ActedSoFar'
    BY <2>3 DEF ActedSoFar
  <2> QED BY <2>4, <2>5 DEF Acted
<1> QED BY <1>1, <1>2

\* One table more: the answer it gave is the argument of one action more.
LEMMA EgressKeeps ==
    ASSUME TInv, Acted, process_ofpat_egress
    PROVE  Acted'
<1>1. PICK k \in DOMAIN Egress :
         /\ at = Egress[k]
         /\ \E e \in Found(at, Keys) :
                pkt' \in IF e = NoEntry THEN {pkt} ELSE Applied(at, pkt, e)
         /\ at' = After(k)
         /\ UNCHANGED <<meta, tables, ghosts>>
  BY DEF process_ofpat_egress
<1>2. PICK e \in Found(at, Keys) : pkt' \in IF e = NoEntry THEN {pkt} ELSE Applied(at, pkt, e)
  BY <1>1
<1>3. at \in EgressActs /\ InEgress /\ InEgress'
  BY <1>1, EgressOrder DEF InEgress
<1>4. PICK arg \in [EgressActs -> Entries], stale \in EtherTypes :
          AnswersDone(arg) /\ Same(pkt, orig, Taken(arg), arg, stale)
  BY <1>3 DEF Acted, ActedSoFar
<1>5. DoneAt(at') = DoneAt(at) \cup {at} /\ at \notin DoneAt(at)
  BY <1>1, DoneNext
<1>6. e \in Entries /\ e \in IF at \in bmap THEN Answers(at, Keys) ELSE {NoEntry}
  BY <1>3, FoundIsAnswered, KeysAreOwners DEF Keys, ActionTypes
<1>7. PICK more \in [EgressActs -> Entries] :
          more[at] = e /\ \A t \in EgressActs \ {at} : more[t] = arg[t]
  <2> DEFINE m == [arg EXCEPT ![at] = e]
  <2>1. m \in [EgressActs -> Entries] /\ m[at] = e /\ \A t \in EgressActs \ {at} : m[t] = arg[t]
    BY <1>3, <1>6
  <2> QED BY <2>1
<1>8. arg[at] = NoEntry
  BY <1>3, <1>4, <1>5 DEF AnswersDone
<1>9. Taken(more) = IF e = NoEntry THEN Taken(arg) ELSE Taken(arg) \cup {at}
  BY <1>3, <1>7, <1>8 DEF Taken
<1>10. Taken(arg) \subseteq DoneAt(at)
  BY <1>4 DEF Taken, AnswersDone
<1>11. Same(pkt, orig, Taken(arg), more, stale)
  <2>1. \A s \in Taken(arg) : more[s] = arg[s]
    BY <1>7, <1>8 DEF Taken
  <2> QED BY <1>4, <2>1, SameArgs
<1>12. \E s \in EtherTypes : Same(pkt', orig', Taken(more), more, s)
  <2>1. orig' = orig /\ orig \in Packet /\ AtRest(orig) /\ pkt \in Packet
    BY <1>1 DEF ghosts, Acted, TInv, TypeOK
  <2>2. CASE e = NoEntry
    BY <1>2, <1>9, <1>11, <2>1, <2>2
  <2>3. CASE e # NoEntry
    <3>1. pkt' \in Applied(at, pkt, more[at])
      BY <1>2, <1>7, <2>3
    <3>2. \E s \in EtherTypes : Same(pkt', orig, Taken(arg) \cup {at}, more, s)
      BY <1>3, <1>10, <1>11, <2>1, <3>1, OneMoreActs
    <3> QED BY <1>9, <2>1, <2>3, <3>2
  <2> QED BY <2>2, <2>3
<1>13. AnswersDone(more)'
  <2>1. bmap' = bmap /\ Keys' = Keys /\ \A t : Answers(t, Keys)' = Answers(t, Keys)
    BY <1>1 DEF meta, ghosts, Keys, KeysAt, AtBucket, Answers
  <2> SUFFICES ASSUME NEW t \in EgressActs
               PROVE  more[t] \in IF t \in bmap \cap DoneAt(at') THEN Answers(t, Keys) ELSE {NoEntry}
    BY <2>1 DEF AnswersDone
  <2>2. CASE t = at
    BY <1>5, <1>6, <1>7, <2>2
  <2>3. CASE t # at
    BY <1>4, <1>5, <1>7, <2>3 DEF AnswersDone
  <2> QED BY <2>2, <2>3
<1>14. ActedSoFar'
  BY <1>7, <1>12, <1>13 DEF ActedSoFar
<1> QED BY <1>1, <1>3, <1>14 DEF Acted, ghosts

\* Every step keeps the invariant.
LEMMA ActedStep == TInv /\ Acted /\ [Next]_vars => Acted'
<1> SUFFICES ASSUME TInv, Acted, [Next]_vars PROVE Acted'
  OBVIOUS
<1>0. \A s \in {"match", "GROUP", "OUTPUT", "replicate", "bucket"} : s \notin EgressActs \cup {"sent"}
  BY EgressOrder
<1>1. CASE openflow_apply
  BY <1>0, <1>1, StillActed DEF openflow_apply, InEgress
<1>2. CASE openflow_miss
  BY <1>0, <1>2, StillActed DEF openflow_miss, InEgress
<1>3. CASE Matched
  BY <1>0, <1>3, StillActed DEF Matched, ghosts, InEgress
<1>4. CASE ofpat_group_ingress
  BY <1>0, <1>4, StillActed DEF ofpat_group_ingress, ghosts, InEgress
<1>5. CASE ofpat_output
  BY <1>0, <1>5, StillActed DEF ofpat_output, ghosts, InEgress
<1>6. CASE Replicate
  BY <1>0, <1>6, StillActed DEF Replicate, ghosts, InEgress
<1>7. CASE ofpat_group_egress
  <2>1. at' = "POP_MPLS" /\ UNCHANGED <<pkt, ghosts>> /\ ~InEgress
    BY <1>0, <1>7, EgressOrder DEF ofpat_group_egress, InEgress
  <2> DEFINE none == [t \in EgressActs |-> NoEntry]
  <2>2. none \in [EgressActs -> Entries] /\ Taken(none) = {}
    BY DEF Taken, Entries
  <2>3. AnswersDone(none)'
    BY <2>1, DoneSets DEF AnswersDone
  <2>4. Same(pkt', orig', Taken(none), none, "OTHER")
    <3>1. pkt' = orig /\ orig' = orig /\ orig \in Packet /\ AtRest(orig)
      BY <2>1 DEF Acted, ghosts
    <3> HIDE DEF none
    <3> QED BY <2>2, <3>1, NothingActs
  <2>5. "OTHER" \in EtherTypes
    BY DEF EtherTypes
  <2>6. ActedSoFar'
    <3> HIDE DEF none
    <3> QED BY <2>2, <2>3, <2>4, <2>5 DEF ActedSoFar
  <2>7. InEgress'
    BY <2>1, EgressOrder DEF InEgress
  <2> QED BY <2>1, <2>6, <2>7 DEF Acted, ghosts
<1>8. CASE process_ofpat_egress
  BY <1>8, EgressKeeps
<1>9. ASSUME NEW b \in Rewrites, RewriteFlow(b) PROVE Acted'
  BY <1>9, StillActed DEF RewriteFlow, meta, ghosts
<1>10. ASSUME NEW t \in ActionTypes, NEW o \in Owners, NEW e \in ArgsOf(t) \cup {NoEntry},
              RewriteArg(t, o, e)
       PROVE  Acted'
  <2>1. \A u \in ActionTypes, k \in Owners : seen[u][k] \subseteq seen'[u][k]
    BY <1>10, RewriteKeeps
  <2> QED BY <1>10, <2>1, StillActed DEF RewriteArg, meta
<1>11. CASE UNCHANGED vars
  BY <1>11, StillActed DEF vars, meta, ghosts
<1> QED BY <1>1, <1>2, <1>3, <1>4, <1>5, <1>6, <1>7, <1>8, <1>9, <1>10, <1>11 DEF Next

\* The invariant holds of every behaviour.
LEMMA ActedInvariant == Spec => [](TInv /\ Acted)
<1>1. Init => TInv /\ Acted
  BY TypeInit, ActedInit
<1>2. TInv /\ Acted /\ [Next]_vars => (TInv /\ Acted)'
  BY TypeStep, ActedStep
<1> QED BY <1>1, <1>2, PTL DEF Spec

-------------------------------------------------------------------------------
(***************************************************************************)
(* The two properties of a packet that leaves.                             *)
(***************************************************************************)

\* A table has had finitely many entries.
LEMMA AnswersFinite ==
    ASSUME TInv, NEW t \in ActionTypes
    PROVE  IsFiniteSet(Answers(t, Keys))
<1>1. IsFiniteSet(seen[t]["flow"]) /\ IsFiniteSet(seen[t]["bucket"])
  BY DEF TInv, TablesTyped, Owners
<1>2. IsFiniteSet(seen[t]["flow"] \cup seen[t]["bucket"])
  BY <1>1, FS_Union
<1>3. Answers(t, Keys) \subseteq seen[t]["flow"] \cup seen[t]["bucket"]
  BY DEF Answers, Keys, KeysAt, Owners
<1> QED BY <1>2, <1>3, FS_Subset

\* The answers a packet got are one of the choices, and it is acted on by them.
LEMMA SentAsActed ==
    ASSUME TInv, Acted, at = "sent"
    PROVE  \E arg \in Choices(bmap \cap EgressActs, Keys), stale \in EtherTypes :
               Same(pkt, orig, Effective(arg), arg, stale)
<1>1. PICK a \in [EgressActs -> Entries], stale \in EtherTypes :
          AnswersDone(a) /\ Same(pkt, orig, Taken(a), a, stale)
  BY DEF Acted, ActedSoFar, InEgress
<1>2. \A t \in EgressActs : a[t] \in IF t \in bmap THEN Answers(t, Keys) ELSE {NoEntry}
  BY <1>1, DoneSets DEF AnswersDone
<1> DEFINE B == bmap \cap EgressActs
           arg == [t \in B |-> a[t]]
<1>3. \A t \in B : arg[t] \in Answers(t, Keys) /\ IsFiniteSet(Answers(t, Keys))
  BY <1>2, AnswersFinite DEF ActionTypes
<1>4. arg = [t \in B |-> arg[t]]
  OBVIOUS
<1>5. Effective(arg) = Taken(a)
  BY <1>2 DEF Effective, Taken
<1>6. \A s \in Taken(a) : arg[s] = a[s]
  BY <1>2 DEF Taken
<1> HIDE DEF B, arg
<1>7. arg \in Choices(B, Keys)
  BY <1>3, <1>4, IsChoice
<1>8. Same(pkt, orig, Effective(arg), arg, stale)
  BY <1>1, <1>5, <1>6, SameArgs
<1> QED BY <1>7, <1>8 DEF B

\* For any packets, bitmaps and arguments, and any number of writes of the agent while a
\* packet is under way: it leaves as the packet it came as, acted on by the actions of its
\* bitmap, each with an argument its table had meanwhile, or without effect if it may have
\* had none.
THEOREM ActionsAreApplied == Spec => []AppliesItsActions
<1>1. TInv /\ Acted => AppliesItsActions
  <2> SUFFICES ASSUME TInv, Acted, at = "sent"
               PROVE  \E arg \in Choices(bmap \cap EgressActs, Keys), stale \in EtherTypes :
                          pkt = ActedOn(orig, Effective(arg), arg, stale)
    BY DEF AppliesItsActions
  <2>1. PICK arg \in Choices(bmap \cap EgressActs, Keys), stale \in EtherTypes :
            Same(pkt, orig, Effective(arg), arg, stale)
    BY SentAsActed
  <2>2. pkt \in Packet /\ orig \in Packet
    BY DEF TInv, TypeOK
  <2> QED BY <2>1, <2>2, SameIsActedOn
<1> QED BY <1>1, ActedInvariant, PTL

\* There are finitely many egress tables.
LEMMA EgressFinite == IsFiniteSet(EgressActs)
<1>1. Egress \in Surjection(DOMAIN Egress, EgressActs)
  BY DEF Surjection, Egress, EgressActs
<1>2. 1 \in Int /\ 9 \in Int
  OBVIOUS
<1>3. IsFiniteSet(1 .. 9)
  BY <1>2, FS_Interval, Zenon
<1>4. IsFiniteSet(DOMAIN Egress)
  BY <1>3, EgressOrder
<1> QED BY <1>1, <1>4, FS_Surjection

\* There are finitely many functions from a finite set to another.
LEMMA FunctionsFinite ==
    ASSUME NEW B, NEW V, IsFiniteSet(B), IsFiniteSet(V)
    PROVE  IsFiniteSet([B -> V])
<1> DEFINE graph == [f \in [B -> V] |-> {<<t, f[t]>> : t \in B}]
           T == SUBSET (B \X V)
<1>1. IsFiniteSet(T)
  BY FS_Product, FS_SUBSET
<1>2. graph \in [[B -> V] -> T]
  OBVIOUS
<1>3. ASSUME NEW f \in [B -> V], NEW g \in [B -> V], graph[f] = graph[g]
      PROVE  f = g
  <2>1. ASSUME NEW t \in B PROVE f[t] = g[t]
    <3>1. <<t, f[t]>> \in {<<s, g[s]>> : s \in B}
      BY <1>3
    <3> QED BY <3>1
  <2> QED BY <2>1
<1>4. graph \in Injection([B -> V], T)
  <2> HIDE DEF graph, T
  <2> QED BY <1>2, <1>3 DEF Injection, IsInjective
<1> HIDE DEF graph, T
<1> QED BY <1>1, <1>4, FS_Injection

\* A choice has one of its answers for each table.
LEMMA ChoiceAnswers ==
    ASSUME NEW B, NEW keys, \A t \in B : Answers(t, keys) # {}, NEW a \in Choices(B, keys)
    PROVE  a = [t \in B |-> a[t]] /\ \A t \in B : a[t] \in Answers(t, keys)
<1> DEFINE open == {t \in B : Cardinality(Answers(t, keys)) > 1}
           chosen == {h \in [open -> UNION {Answers(t, keys) : t \in open}] :
                         \A t \in open : h[t] \in Answers(t, keys)}
<1>1. PICK c \in chosen :
          a = [t \in B |-> IF t \in open THEN c[t] ELSE CHOOSE e \in Answers(t, keys) : TRUE]
  BY DEF Choices
<1>2. \A t \in B : (IF t \in open THEN c[t] ELSE CHOOSE e \in Answers(t, keys) : TRUE)
                      \in Answers(t, keys)
  OBVIOUS
<1> QED BY <1>1, <1>2

\* There are finitely many ways to choose among finitely many answers.
LEMMA ChoicesFinite ==
    ASSUME NEW B, NEW keys, IsFiniteSet(B),
           \A t \in B : IsFiniteSet(Answers(t, keys)) /\ Answers(t, keys) # {}
    PROVE  IsFiniteSet(Choices(B, keys))
<1> DEFINE Sets == {Answers(t, keys) : t \in B}
           V == UNION Sets
           f == [t \in B |-> Answers(t, keys)]
<1>1. IsFiniteSet(V)
  <2>1. f \in Surjection(B, Sets)
    BY DEF Surjection
  <2>2. \A S \in Sets : IsFiniteSet(S)
    OBVIOUS
  <2> HIDE DEF f, Sets
  <2>3. IsFiniteSet(Sets)
    BY <2>1, FS_Surjection
  <2> QED BY <2>2, <2>3, FS_UNION
<1>2. Choices(B, keys) \subseteq [B -> V]
  BY ChoiceAnswers
<1>3. IsFiniteSet([B -> V])
  <2> HIDE DEF V
  <2> QED BY <1>1, FunctionsFinite
<1> HIDE DEF V
<1> QED BY <1>2, <1>3, FS_Subset

\* If there is one choice only, it is the answers the packet got.
LEMMA OnlyChoice ==
    ASSUME TInv, Acted, at = "sent", Cardinality(Choices(bmap \cap EgressActs, Keys)) = 1
    PROVE  LET arg == CHOOSE arg \in Choices(bmap \cap EgressActs, Keys) : TRUE
           IN  /\ \E stale \in EtherTypes : Same(pkt, orig, Effective(arg), arg, stale)
               /\ Effective(arg) \subseteq EgressActs
               /\ \A t \in Effective(arg) : arg[t] \in Answers(t, Keys)
<1> DEFINE B == bmap \cap EgressActs
           S == Choices(B, Keys)
           arg == CHOOSE arg \in S : TRUE
<1>1. PICK a \in S, stale \in EtherTypes : Same(pkt, orig, Effective(a), a, stale)
  BY SentAsActed
<1>2. ASSUME NEW t \in B PROVE IsFiniteSet(Answers(t, Keys)) /\ Answers(t, Keys) # {}
  <2>1. IsFiniteSet(Answers(t, Keys))
    BY AnswersFinite DEF ActionTypes
  <2>2. \E e : e \in Found(t, Keys)
    BY DEF Found
  <2> QED BY <2>1, <2>2, FoundIsAnswered, KeysAreOwners DEF Keys, ActionTypes
<1>3. IsFiniteSet(B)
  BY EgressFinite, FS_Subset
<1>4. B \subseteq EgressActs /\ Cardinality(S) = 1
  OBVIOUS
<1> HIDE DEF B
<1>5. IsFiniteSet(S)
  BY <1>2, <1>3, ChoicesFinite
<1>6. a = [t \in B |-> a[t]] /\ \A t \in B : a[t] \in Answers(t, Keys)
  BY <1>1, <1>2, ChoiceAnswers
<1> HIDE DEF S
<1>7. S = {a}
  <2>1. Cardinality(S \ {a}) = Cardinality(S) - 1 /\ IsFiniteSet(S \ {a})
    BY <1>5, FS_RemoveElement
  <2>2. S \ {a} = {}
    BY <1>4, <2>1, FS_EmptySet
  <2> QED BY <2>2
<1>8. arg = a
  BY <1>7
<1>9. Effective(a) \subseteq B
  BY <1>6 DEF Effective
<1> HIDE DEF arg
<1> QED BY <1>1, <1>4, <1>6, <1>8, <1>9 DEF arg, S, B

\* Of a packet acted on, when the ether types announce the headers.
LEMMA ChainKept ==
    ASSUME NEW p \in Packet, WellFormed(p), AtRest(p), NEW q \in Packet, NEW A, NEW arg, NEW stale,
           Same(q, p, A, arg, stale),
           "POP_VLAN" \in A => p.vlan \/ "PUSH_VLAN" \in A
    PROVE  WellFormed(q) <=> KeepsChain(p, A)
<1>1. /\ q.vlan <=> HasVlan(p, A)
      /\ q.mpls <=> HasMpls(p, A)
      /\ q.l3 = p.l3 /\ q.eth = EthOf(p, A, stale) /\ q.vlanEth = VlanEthOf(p, A)
  BY DEF Same, SameTag, SameLabel, SameL3
<1>2. p.l3 \in {"IPV4", "IPV6", "OTHER"} /\ p.vlan \in BOOLEAN /\ p.mpls \in BOOLEAN
  BY DEF Packet
<1>3. CASE "PUSH_VLAN" \in A
  BY <1>1, <1>2, <1>3 DEF WellFormed, KeepsChain, Outer, Inner, HasVlan, EthOf, VlanEthOf
<1>4. CASE "PUSH_VLAN" \notin A /\ "POP_VLAN" \in A
  BY <1>1, <1>2, <1>4 DEF WellFormed, KeepsChain, Outer, Inner, HasVlan, HasMpls, EthOf
<1>5. CASE "PUSH_VLAN" \notin A /\ "POP_VLAN" \notin A
  BY <1>1, <1>2, <1>5 DEF WellFormed, KeepsChain, Outer, Inner, HasVlan, KeepsVlan, HasMpls,
                          EthOf, VlanEthOf
<1> QED BY <1>3, <1>4, <1>5

\* For any packet and actions: the ether types of a packet that leaves announce its
\* headers in the cases KeepsChain names, and in no other.
THEOREM ChainBreaksAsSaid == Spec => []ChainBreaksExactly
<1>1. TInv /\ Acted => ChainBreaksExactly
  <2> DEFINE S == Choices(bmap \cap EgressActs, Keys)
             arg == CHOOSE arg \in S : TRUE
  <2> SUFFICES ASSUME TInv, Acted, at = "sent", Cardinality(S) = 1,
                      "POP_VLAN" \in Effective(arg) => orig.vlan \/ "PUSH_VLAN" \in Effective(arg)
               PROVE  WellFormed(pkt) <=> KeepsChain(orig, Effective(arg))
    BY DEF ChainBreaksExactly
  <2>1. PICK stale \in EtherTypes : Same(pkt, orig, Effective(arg), arg, stale)
    BY OnlyChoice
  <2>2. pkt \in Packet /\ orig \in Packet /\ WellFormed(orig) /\ AtRest(orig)
    BY DEF TInv, TypeOK, Acted
  <2> HIDE DEF arg, S
  <2> QED BY <2>1, <2>2, ChainKept DEF S
<1> QED BY <1>1, ActedInvariant, PTL

-------------------------------------------------------------------------------
(***************************************************************************)
(* The order of an action list.  InListOrder is a recursive function; what *)
(* it gives is shown by induction over the actions done, SoFar being the   *)
(* induction hypothesis: what the packet is so far, if the list has the    *)
(* pairs of OrderMatters as the program has them.                          *)
(***************************************************************************)

\* Induction over the natural numbers, for a set.
LEMMA SetInduction ==
    ASSUME NEW S, 0 \in S, \A n \in Nat : n \in S => n + 1 \in S
    PROVE  Nat \subseteq S
<1> DEFINE T == {n \in Nat : n \notin S}
<1>1. SUFFICES ASSUME T # {} PROVE FALSE
  OBVIOUS
<1>2. PICK x \in T : \A y \in T : ~ (<<y, x>> \in OpToRel(<, Nat))
  <2> HIDE DEF T
  <2>1. T \subseteq Nat BY DEF T
  <2> QED BY <1>1, <2>1, WFMin, NatLessThanWellFounded, Zenon
<1>3. x # 0 /\ x \in Nat
  OBVIOUS
<1>4. x - 1 \in Nat /\ (x - 1) + 1 = x
  BY <1>3
<1>5. x - 1 \notin S
  BY <1>4
<1>6. <<x - 1, x>> \in OpToRel(<, Nat)
  BY <1>4, <1>3 DEF OpToRel
<1> QED BY <1>2, <1>4, <1>5, <1>6

\* The packets after each action of a list.
IsAfter(f, n, list, p, arg) ==
    f = [k \in 0 .. n |-> IF k = 0 THEN {p} ELSE AppliedToAll(list[k], f[k - 1], arg[list[k]])]

\* There are such packets, for lists of any length.
LEMMA AfterExists ==
    ASSUME NEW list, NEW p, NEW arg, NEW m \in Nat
    PROVE  \E f : IsAfter(f, m, list, p, arg)
<1> DEFINE S == {n \in Nat : \E f : IsAfter(f, n, list, p, arg)}
<1>1. 0 \in S
  <2>1. IsAfter([k \in 0 .. 0 |-> {p}], 0, list, p, arg)
    BY DEF IsAfter
  <2> QED BY <2>1
<1>2. ASSUME NEW n \in Nat, n \in S PROVE n + 1 \in S
  <2>1. PICK f : IsAfter(f, n, list, p, arg)
    BY <1>2
  <2> DEFINE last == AppliedToAll(list[n + 1], f[n], arg[list[n + 1]])
             g == [k \in 0 .. n + 1 |-> IF k = n + 1 THEN last ELSE f[k]]
  <2> HIDE DEF last
  <2>2. \A k \in 0 .. n : g[k] = f[k] /\ (k # 0 => g[k - 1] = f[k - 1])
    OBVIOUS
  <2>3. \A k \in 0 .. n :
            g[k] = IF k = 0 THEN {p} ELSE AppliedToAll(list[k], g[k - 1], arg[list[k]])
    <3>1. \A k \in 0 .. n :
              f[k] = IF k = 0 THEN {p} ELSE AppliedToAll(list[k], f[k - 1], arg[list[k]])
      BY <2>1 DEF IsAfter
    <3> HIDE DEF g
    <3> QED BY <2>2, <3>1
  <2>4. g[n + 1] = AppliedToAll(list[n + 1], g[(n + 1) - 1], arg[list[n + 1]])
    BY DEF last
  <2>5. IsAfter(g, n + 1, list, p, arg)
    <3>1. \A k \in 0 .. n + 1 : k \in 0 .. n \/ (k = n + 1 /\ k # 0)
      OBVIOUS
    <3>2. DOMAIN g = 0 .. n + 1 /\ g = [k \in DOMAIN g |-> g[k]]
      OBVIOUS
    <3> HIDE DEF g
    <3>3. \A k \in 0 .. n + 1 :
              g[k] = IF k = 0 THEN {p} ELSE AppliedToAll(list[k], g[k - 1], arg[list[k]])
      BY <2>3, <2>4, <3>1
    <3> QED BY <3>2, <3>3 DEF IsAfter
  <2> QED BY <2>5
<1> HIDE DEF S
<1>3. Nat \subseteq S
  BY <1>1, <1>2, SetInduction
<1> QED BY <1>3 DEF S

\* InListOrder gives those after the last action.
LEMMA InOrderIs ==
    ASSUME NEW list, NEW p, NEW arg, Len(list) \in Nat
    PROVE  \E f : IsAfter(f, Len(list), list, p, arg) /\ InListOrder(list, p, arg) = f[Len(list)]
<1> DEFINE n == Len(list)
           a == CHOOSE f : IsAfter(f, n, list, p, arg)
<1>1. IsAfter(a, n, list, p, arg)
  BY AfterExists
<1>2. InListOrder(list, p, arg) = a[n]
  BY DEF InListOrder, IsAfter
<1> QED BY <1>1, <1>2

\* What the packet q has in common with p acted on by the actions D of A, if those of A are
\* applied as InProgramOrder demands.  A label nothing leaves may have any time to live
\* meanwhile, and an ether type PUSH_VLAN overwrites any value.
TagSoFar(q, p, A, D, arg) ==
    /\ q.vlan <=> HasVlan(p, D)
    /\ q.vlanEth = VlanEthOf(p, D)
    /\ q.vid = VidOf(p, D, arg)
    /\ IF "PUSH_VLAN" \in A THEN "PUSH_VLAN" \in D => q.eth = "VLAN"
       ELSE q.eth = EthOf(p, D, "OTHER")

LabelSoFar(q, p, A, D, arg) ==
    /\ q.mpls <=> HasMpls(p, D)
    /\ IF HasMpls(p, A) THEN q.mplsTtl = MplsTtlOf(p, D, arg) ELSE ~q.mpls => q.mplsTtl = 0

SoFar(q, p, A, D, arg) ==
    TagSoFar(q, p, A, D, arg) /\ LabelSoFar(q, p, A, D, arg) /\ SameL3(q, p, D, arg)

\* None of D must come after t.
MayFollow(t, D, pairs) == \A d \in D : <<t, d>> \notin pairs

\* Which that is, spelled out.
LEMMA FollowFacts ==
    ASSUME NEW p, NEW A, NEW D \in SUBSET A, NEW t, NEW arg, MayFollow(t, D, OrderMatters(p, A, arg))
    PROVE  /\ t = "POP_MPLS" => "PUSH_MPLS" \notin D
           /\ t = "POP_VLAN" => "PUSH_VLAN" \notin D
           /\ t = "PUSH_MPLS" => "PUSH_VLAN" \notin D
           /\ t = "PUSH_MPLS" /\ "PUSH_VLAN" \notin A /\ p.vlanEth # "MPLS" => "POP_VLAN" \notin D
           /\ t = "PUSH_MPLS" /\ ~KeepsMpls(p, A) =>
                  "DEC_MPLS_TTL" \notin D /\ ("SET_MPLS_TTL" \in D => arg["SET_MPLS_TTL"] = 0)
           /\ t = "DEC_MPLS_TTL" /\ HasMpls(p, A) => "SET_MPLS_TTL" \notin D
           /\ t = "DEC_NW_TTL" /\ IsIp(p) => "SET_NW_TTL" \notin D
<1> DEFINE pairs == OrderMatters(p, A, arg)
<1>1. /\ <<"POP_MPLS", "PUSH_MPLS">> \in pairs /\ <<"POP_VLAN", "PUSH_VLAN">> \in pairs
      /\ <<"PUSH_MPLS", "PUSH_VLAN">> \in pairs
  BY DEF OrderMatters
<1>2. "PUSH_VLAN" \notin A /\ p.vlanEth # "MPLS" => <<"PUSH_MPLS", "POP_VLAN">> \in pairs
  BY DEF OrderMatters
<1>3. ~KeepsMpls(p, A) => /\ <<"PUSH_MPLS", "DEC_MPLS_TTL">> \in pairs
                          /\ "SET_MPLS_TTL" \in A /\ arg["SET_MPLS_TTL"] # 0 =>
                                 <<"PUSH_MPLS", "SET_MPLS_TTL">> \in pairs
  BY DEF OrderMatters
<1>4. HasMpls(p, A) => <<"DEC_MPLS_TTL", "SET_MPLS_TTL">> \in pairs
  BY DEF OrderMatters
<1>5. IsIp(p) => <<"DEC_NW_TTL", "SET_NW_TTL">> \in pairs
  BY DEF OrderMatters
<1> HIDE DEF pairs
<1>6. \A d \in D : <<t, d>> \notin pairs
  BY DEF MayFollow, pairs
<1> QED BY <1>1, <1>2, <1>3, <1>4, <1>5, <1>6

\* The first action finds the packet as it came.
LEMMA SoFarAtFirst ==
    ASSUME NEW p \in Packet, AtRest(p), NEW A, NEW arg
    PROVE  SoFar(p, p, A, {}, arg)
<1>1. TagSoFar(p, p, A, {}, arg)
  BY DEF Packet, AtRest, TagSoFar, HasVlan, KeepsVlan, EthOf, VlanEthOf, VidOf
<1>2. LabelSoFar(p, p, A, {}, arg)
  BY DEF Packet, AtRest, LabelSoFar, MplsTtlOf, HasMpls, KeepsMpls, Ttl
<1>3. SameL3(p, p, {}, arg)
  BY DEF SameL3, NwTtlOf, Ttl
<1> QED BY <1>1, <1>2, <1>3 DEF SoFar

\* One action more, if none that is done must come after it.
LEMMA OneMoreSoFar ==
    ASSUME NEW p \in Packet, AtRest(p), NEW A, NEW D \in SUBSET A,
           NEW t \in EgressActs, t \in A, t \notin D,
           "POP_VLAN" \in A => p.vlan,
           NEW arg, MayFollow(t, D, OrderMatters(p, A, arg)),
           NEW q \in Packet, SoFar(q, p, A, D, arg)
    PROVE  \E r \in Applied(t, q, arg[t]) : SoFar(r, p, A, D \cup {t}, arg)
<1>1. CASE t = "POP_MPLS"
  <2> DEFINE r == ofpat_pop_mpls(q)
  <2>0. "PUSH_MPLS" \notin D BY <1>1, FollowFacts
  <2>1. TagSoFar(r, p, A, D \cup {t}, arg)
    BY <1>1
       DEF ofpat_pop_mpls, Packet, AtRest, SoFar, TagSoFar, HasVlan, KeepsVlan, EthOf, VlanEthOf,
           VidOf
  <2>2. LabelSoFar(r, p, A, D \cup {t}, arg)
    BY <1>1, <2>0
       DEF ofpat_pop_mpls, Packet, AtRest, SoFar, LabelSoFar, MplsTtlOf, HasMpls, KeepsMpls, Ttl
  <2>3. SameL3(r, p, D \cup {t}, arg)
    BY <1>1 DEF ofpat_pop_mpls, Packet, SoFar, SameL3, NwTtlOf, Ttl, IsIp
  <2> QED BY <1>1, <2>1, <2>2, <2>3 DEF SoFar, Applied
<1>2. CASE t = "PUSH_MPLS"
  <2> DEFINE r == ofpat_push_mpls(q)
  <2>0. /\ "PUSH_VLAN" \notin D
        /\ "PUSH_VLAN" \notin A /\ p.vlanEth # "MPLS" => "POP_VLAN" \notin D
        /\ ~KeepsMpls(p, A) =>
               "DEC_MPLS_TTL" \notin D /\ ("SET_MPLS_TTL" \in D => arg["SET_MPLS_TTL"] = 0)
    BY <1>2, FollowFacts
  <2>1. TagSoFar(r, p, A, D \cup {t}, arg)
    BY <1>2, <2>0
       DEF ofpat_push_mpls, Packet, AtRest, SoFar, TagSoFar, HasVlan, KeepsVlan, EthOf,
           VlanEthOf, VidOf
  <2>2. LabelSoFar(r, p, A, D \cup {t}, arg)
    BY <1>2, <2>0
       DEF ofpat_push_mpls, Packet, AtRest, SoFar, LabelSoFar, MplsTtlOf, HasMpls, KeepsMpls,
           Ttl
  <2>3. SameL3(r, p, D \cup {t}, arg)
    BY <1>2 DEF ofpat_push_mpls, Packet, SoFar, SameL3, NwTtlOf, Ttl, IsIp
  <2> QED BY <1>2, <2>1, <2>2, <2>3 DEF SoFar, Applied
<1>3. CASE t = "DEC_MPLS_TTL"
  <2> DEFINE r == ofpat_dec_mpls_ttl(q)
  <2>0. HasMpls(p, A) => "SET_MPLS_TTL" \notin D BY <1>3, FollowFacts
  <2>1. TagSoFar(r, p, A, D \cup {t}, arg)
    BY <1>3
       DEF ofpat_dec_mpls_ttl, Packet, AtRest, SoFar, TagSoFar, HasVlan, KeepsVlan, EthOf,
           VlanEthOf, VidOf
  <2>2. LabelSoFar(r, p, A, D \cup {t}, arg)
    BY <1>3, <2>0, BoundAssumption
       DEF ofpat_dec_mpls_ttl, Packet, AtRest, SoFar, LabelSoFar, MplsTtlOf, HasMpls, KeepsMpls,
           Ttl
  <2>3. SameL3(r, p, D \cup {t}, arg)
    BY <1>3 DEF ofpat_dec_mpls_ttl, Packet, SoFar, SameL3, NwTtlOf, Ttl, IsIp
  <2> QED BY <1>3, <2>1, <2>2, <2>3 DEF SoFar, Applied
<1>4. CASE t = "SET_MPLS_TTL"
  <2> DEFINE r == ofpat_set_mpls_ttl(q, arg[t])
  <2>1. TagSoFar(r, p, A, D \cup {t}, arg)
    BY <1>4
       DEF ofpat_set_mpls_ttl, Packet, AtRest, SoFar, TagSoFar, HasVlan, KeepsVlan, EthOf,
           VlanEthOf, VidOf
  <2>2. LabelSoFar(r, p, A, D \cup {t}, arg)
    BY <1>4, BoundAssumption
       DEF ofpat_set_mpls_ttl, Packet, AtRest, SoFar, LabelSoFar, MplsTtlOf, HasMpls, KeepsMpls,
           Ttl
  <2>3. SameL3(r, p, D \cup {t}, arg)
    BY <1>4 DEF ofpat_set_mpls_ttl, Packet, SoFar, SameL3, NwTtlOf, Ttl, IsIp
  <2> QED BY <1>4, <2>1, <2>2, <2>3 DEF SoFar, Applied
<1>5. CASE t = "POP_VLAN"
  <2> DEFINE r == ofpat_pop_vlan(q, "OTHER")
  <2>0. "PUSH_VLAN" \notin D /\ p.vlan BY <1>5, FollowFacts
  <2>1. TagSoFar(r, p, A, D \cup {t}, arg)
    BY <1>5, <2>0
       DEF ofpat_pop_vlan, Packet, AtRest, SoFar, TagSoFar, HasVlan, KeepsVlan, EthOf, VlanEthOf,
           VidOf
  <2>2. LabelSoFar(r, p, A, D \cup {t}, arg)
    BY <1>5
       DEF ofpat_pop_vlan, Packet, AtRest, SoFar, LabelSoFar, MplsTtlOf, HasMpls, KeepsMpls, Ttl
  <2>3. SameL3(r, p, D \cup {t}, arg)
    BY <1>5 DEF ofpat_pop_vlan, Packet, SoFar, SameL3, NwTtlOf, Ttl, IsIp
  <2>4. r \in Applied(t, q, arg[t])
    BY <1>5 DEF Applied, EtherTypes
  <2> QED BY <2>1, <2>2, <2>3, <2>4 DEF SoFar
<1>6. CASE t = "PUSH_VLAN"
  <2> DEFINE r == ofpat_push_vlan(q)
  <2>0. ~KeepsVlan(p, A) /\ "SET_FIELD" \in D => arg["SET_FIELD"] = ZeroVid
    <3> SUFFICES ASSUME ~KeepsVlan(p, A), "SET_FIELD" \in D, arg["SET_FIELD"] # ZeroVid
                 PROVE  FALSE
      OBVIOUS
    <3>1. <<"PUSH_VLAN", "SET_FIELD">> \in OrderMatters(p, A, arg)
      BY DEF OrderMatters
    <3> QED BY <1>6, <3>1 DEF MayFollow
  <2>1. TagSoFar(r, p, A, D \cup {t}, arg)
    BY <1>6, <2>0
       DEF ofpat_push_vlan, Packet, AtRest, SoFar, TagSoFar, HasVlan, KeepsVlan, EthOf,
           VlanEthOf, VidOf
  <2>2. LabelSoFar(r, p, A, D \cup {t}, arg)
    BY <1>6
       DEF ofpat_push_vlan, Packet, AtRest, SoFar, LabelSoFar, MplsTtlOf, HasMpls, KeepsMpls,
           Ttl
  <2>3. SameL3(r, p, D \cup {t}, arg)
    BY <1>6 DEF ofpat_push_vlan, Packet, SoFar, SameL3, NwTtlOf, Ttl, IsIp
  <2> QED BY <1>6, <2>1, <2>2, <2>3 DEF SoFar, Applied
<1>7. CASE t = "SET_FIELD"
  <2> DEFINE r == ofpat_set_vlan_vid(q, arg[t])
  <2>1. TagSoFar(r, p, A, D \cup {t}, arg)
    BY <1>7
       DEF ofpat_set_vlan_vid, Packet, AtRest, SoFar, TagSoFar, HasVlan, KeepsVlan, EthOf,
           VlanEthOf, VidOf
  <2>2. LabelSoFar(r, p, A, D \cup {t}, arg)
    BY <1>7
       DEF ofpat_set_vlan_vid, Packet, AtRest, SoFar, LabelSoFar, MplsTtlOf, HasMpls, KeepsMpls,
           Ttl
  <2>3. SameL3(r, p, D \cup {t}, arg)
    BY <1>7 DEF ofpat_set_vlan_vid, Packet, SoFar, SameL3, NwTtlOf, Ttl, IsIp
  <2> QED BY <1>7, <2>1, <2>2, <2>3 DEF SoFar, Applied
<1>8. CASE t = "DEC_NW_TTL"
  <2> DEFINE r == ofpat_dec_nw_ttl(q)
  <2>0. IsIp(p) => "SET_NW_TTL" \notin D BY <1>8, FollowFacts
  <2>1. TagSoFar(r, p, A, D \cup {t}, arg)
    BY <1>8
       DEF ofpat_dec_nw_ttl, Packet, AtRest, SoFar, TagSoFar, HasVlan, KeepsVlan, EthOf,
           VlanEthOf, VidOf
  <2>2. LabelSoFar(r, p, A, D \cup {t}, arg)
    BY <1>8
       DEF ofpat_dec_nw_ttl, Packet, AtRest, SoFar, LabelSoFar, MplsTtlOf, HasMpls, KeepsMpls,
           Ttl
  <2>3. SameL3(r, p, D \cup {t}, arg)
    BY <1>8, <2>0, BoundAssumption DEF ofpat_dec_nw_ttl, Packet, SoFar, SameL3, NwTtlOf, Ttl, IsIp
  <2> QED BY <1>8, <2>1, <2>2, <2>3 DEF SoFar, Applied
<1>9. CASE t = "SET_NW_TTL"
  <2> DEFINE r == ofpat_set_nw_ttl(q, arg[t])
  <2>1. TagSoFar(r, p, A, D \cup {t}, arg)
    BY <1>9
       DEF ofpat_set_nw_ttl, Packet, AtRest, SoFar, TagSoFar, HasVlan, KeepsVlan, EthOf,
           VlanEthOf, VidOf
  <2>2. LabelSoFar(r, p, A, D \cup {t}, arg)
    BY <1>9
       DEF ofpat_set_nw_ttl, Packet, AtRest, SoFar, LabelSoFar, MplsTtlOf, HasMpls, KeepsMpls,
           Ttl
  <2>3. SameL3(r, p, D \cup {t}, arg)
    BY <1>9, BoundAssumption DEF ofpat_set_nw_ttl, Packet, SoFar, SameL3, NwTtlOf, Ttl, IsIp
  <2> QED BY <1>9, <2>1, <2>2, <2>3 DEF SoFar, Applied
<1> QED BY <1>1, <1>2, <1>3, <1>4, <1>5, <1>6, <1>7, <1>8, <1>9, EgressOrder

\* When all are done, the packet is the one the switch makes of it.
LEMMA SoFarAtLast ==
    ASSUME NEW p \in Packet, AtRest(p), NEW A, "POP_VLAN" \in A => p.vlan,
           NEW arg, NEW stale, NEW q \in Packet, SoFar(q, p, A, A, arg)
    PROVE  q = ActedOn(p, A, arg, stale)
<1>1. SameTag(q, p, A, arg, stale)
  BY DEF SoFar, TagSoFar, SameTag, EthOf
<1>2. SameLabel(q, p, A, arg)
  BY DEF SoFar, LabelSoFar, SameLabel, MplsTtlOf
<1>3. Same(q, p, A, arg, stale)
  BY <1>1, <1>2 DEF SoFar, Same
<1> QED BY <1>3, SameIsActedOn

\* A list of the actions of A has each of them once.
LEMMA ListOf ==
    ASSUME NEW A, IsFiniteSet(A), NEW list \in ListsOf(A)
    PROVE  /\ Len(list) = Cardinality(A) /\ Len(list) \in Nat
           /\ list \in [1 .. Len(list) -> A]
           /\ \A i, j \in 1 .. Len(list) : list[i] = list[j] => i = j
           /\ \A t \in A : \E i \in 1 .. Len(list) : list[i] = t
<1> DEFINE n == Cardinality(A)
<1>1. n \in Nat
  BY FS_CardinalityType
<1>2. list \in [1 .. n -> A] /\ \A i, j \in 1 .. n : list[i] = list[j] => i = j
  BY DEF ListsOf
<1> HIDE DEF n
<1>3. Len(list) = n
  BY <1>1, <1>2
<1>4. list \in Injection(1 .. n, A)
  BY <1>2 DEF Injection, IsInjective
<1>5. IsFiniteSet(1 .. n) /\ Cardinality(1 .. n) = n
  <2>1. 1 \in Int /\ n \in Int
    BY <1>1
  <2>2. IsFiniteSet(1 .. n) /\ Cardinality(1 .. n) = IF 1 > n THEN 0 ELSE n - 1 + 1
    BY <2>1, FS_Interval, Zenon
  <2> QED BY <1>1, <2>2
<1>6. list \in Surjection(1 .. n, A)
  BY <1>4, <1>5, FS_Injection DEF n
<1> QED BY <1>1, <1>2, <1>3, <1>6 DEF Surjection, n

\* A list in program order makes of a packet what the switch makes of it.
LEMMA KeptIsSame ==
    ASSUME NEW p \in Packet, AtRest(p), NEW A \in SUBSET EgressActs, IsFiniteSet(A),
           "POP_VLAN" \in A => p.vlan,
           NEW arg, \A t \in A : arg[t] \in ArgsOf(t), NEW stale,
           NEW list \in ListsOf(A), InProgramOrder(list, OrderMatters(p, A, arg))
    PROVE  ActedOn(p, A, arg, stale) \in InListOrder(list, p, arg)
<1> DEFINE n == Len(list)
           Done(k) == {list[i] : i \in 1 .. k}
<1>1. /\ n \in Nat /\ list \in [1 .. n -> A]
      /\ \A i, j \in 1 .. n : list[i] = list[j] => i = j
      /\ \A t \in A : \E i \in 1 .. n : list[i] = t
  BY ListOf
<1>2. PICK f : IsAfter(f, n, list, p, arg) /\ InListOrder(list, p, arg) = f[n]
  BY <1>1, InOrderIs
<1>3. \A k \in 0 .. n :
          f[k] = IF k = 0 THEN {p} ELSE AppliedToAll(list[k], f[k - 1], arg[list[k]])
  BY <1>2 DEF IsAfter
<1> HIDE DEF n
<1> DEFINE Ok(k) == \E q \in f[k] : q \in Packet /\ SoFar(q, p, A, Done(k), arg)
           S == {k \in Nat : k <= n => Ok(k)}
<1>4. Ok(0)
  <2>1. f[0] = {p} /\ Done(0) = {}
    BY <1>1, <1>3
  <2> QED BY <2>1, SoFarAtFirst
<1>5. ASSUME NEW k \in Nat, Ok(k), k + 1 <= n
      PROVE  Ok(k + 1)
  <2> DEFINE t == list[k + 1]
  <2>1. k \in 0 .. n /\ k + 1 \in 1 .. n /\ k <= n
    BY <1>1, <1>5
  <2>2. PICK q \in f[k] : q \in Packet /\ SoFar(q, p, A, Done(k), arg)
    BY <1>5, <2>1
  <2>3. f[k + 1] = AppliedToAll(t, f[k], arg[t])
    BY <1>3, <2>1
  <2>4. t \in A /\ t \in EgressActs /\ arg[t] \in ArgsOf(t)
    BY <1>1, <2>1
  <2>5. Done(k) \in SUBSET A /\ t \notin Done(k) /\ Done(k + 1) = Done(k) \cup {t}
    BY <1>1, <2>1
  <2>6. MayFollow(t, Done(k), OrderMatters(p, A, arg))
    <3> DEFINE pairs == OrderMatters(p, A, arg)
    <3>1. \A i, j \in 1 .. n : i < j => <<list[j], list[i]>> \notin pairs
      BY <1>1 DEF InProgramOrder
    <3> HIDE DEF pairs
    <3>2. \A i \in 1 .. k : <<t, list[i]>> \notin pairs
      BY <1>1, <2>1, <3>1
    <3> QED BY <3>2 DEF MayFollow, pairs
  <2> HIDE DEF t, Done
  <2>7. PICK r \in Applied(t, q, arg[t]) : SoFar(r, p, A, Done(k) \cup {t}, arg)
    BY <2>2, <2>4, <2>5, <2>6, OneMoreSoFar
  <2>8. r \in Packet
    BY <2>2, <2>4, <2>7, AppliedIsPacket
  <2>9. r \in f[k + 1]
    BY <2>2, <2>3, <2>7 DEF AppliedToAll
  <2> QED BY <2>5, <2>7, <2>8, <2>9
<1>6. Ok(n)
  <2> HIDE DEF Ok
  <2>1. \A k \in Nat : k \in S => k + 1 \in S
    BY <1>1, <1>5
  <2>2. 0 \in S
    BY <1>4
  <2> HIDE DEF S
  <2>3. n \in S
    BY <1>1, <2>1, <2>2, SetInduction
  <2> QED BY <1>1, <2>3 DEF S
<1>7. Done(n) = A
  BY <1>1
<1>8. PICK q \in f[n] : q \in Packet /\ SoFar(q, p, A, A, arg)
  BY <1>6, <1>7
<1> QED BY <1>2, <1>8, SoFarAtLast DEF n

\* What a list of two actions makes of a packet.
LEMMA TwoActions ==
    ASSUME NEW list, Len(list) = 2, NEW p, NEW arg
    PROVE  InListOrder(list, p, arg) =
               AppliedToAll(list[2], Applied(list[1], p, arg[list[1]]), arg[list[2]])
<1>1. PICK f : IsAfter(f, 2, list, p, arg) /\ InListOrder(list, p, arg) = f[2]
  <2>1. Len(list) \in Nat
    OBVIOUS
  <2> QED BY <2>1, InOrderIs
<1>2. \A k \in 0 .. 2 :
          f[k] = IF k = 0 THEN {p} ELSE AppliedToAll(list[k], f[k - 1], arg[list[k]])
  BY <1>1 DEF IsAfter
<1>3. /\ f[0] = {p} /\ f[1] = AppliedToAll(list[1], f[0], arg[list[1]])
      /\ f[2] = AppliedToAll(list[2], f[1], arg[list[2]])
  BY <1>2
<1>4. f[1] = Applied(list[1], p, arg[list[1]])
  BY <1>3 DEF AppliedToAll
<1> QED BY <1>1, <1>3, <1>4

\* A time to live that is decremented is another one, also when it wraps.
LEMMA OneLessDiffers ==
    ASSUME NEW ttl \in 0 .. TTL - 1
    PROVE  (ttl - 1) % TTL # ttl
<1>1. CASE ttl = 0
  BY <1>1, BoundAssumption
<1>2. CASE ttl # 0
  BY <1>2, BoundAssumption
<1> QED BY <1>1, <1>2

\* Two actions whose order matters, the other way round, make another packet.
LEMMA ReversedDiffers ==
    ASSUME NEW p \in Packet, AtRest(p), NEW A, NEW u \in EgressActs, NEW v \in EgressActs,
           u # v, A = {u, v},
           "POP_VLAN" \in A => p.vlan,
           NEW arg, arg[u] \in ArgsOf(u), arg[v] \in ArgsOf(v), NEW stale,
           <<v, u>> \in OrderMatters(p, A, arg),
           NEW q \in Applied(u, p, arg[u]), NEW r \in Applied(v, q, arg[v])
    PROVE  r # ActedOn(p, A, arg, stale)
<1> DEFINE s == ActedOn(p, A, arg, stale)
<1>1. CASE v = "POP_MPLS" /\ u = "PUSH_MPLS"
  <2>1. r = ofpat_pop_mpls(ofpat_push_mpls(p))
    BY <1>1 DEF Applied
  <2>2. ~r.mpls
    BY <2>1 DEF ofpat_pop_mpls, ofpat_push_mpls, Packet
  <2>3. s.mpls
    BY <1>1 DEF ActedOn, HasMpls
  <2> QED BY <2>2, <2>3
<1>2. CASE v = "POP_VLAN" /\ u = "PUSH_VLAN"
  <2>1. PICK chance \in EtherTypes : r = ofpat_pop_vlan(ofpat_push_vlan(p), chance)
    BY <1>2 DEF Applied
  <2>2. ~r.vlan
    BY <2>1 DEF ofpat_pop_vlan, ofpat_push_vlan, Packet
  <2>3. s.vlan
    BY <1>2 DEF ActedOn, HasVlan
  <2> QED BY <2>2, <2>3
<1>3. CASE v = "PUSH_MPLS" /\ u = "PUSH_VLAN"
  <2>1. r = ofpat_push_mpls(ofpat_push_vlan(p))
    BY <1>3 DEF Applied
  <2>2. r.eth = "MPLS"
    BY <2>1 DEF ofpat_push_mpls, ofpat_push_vlan, Packet
  <2>3. s.eth = "VLAN"
    BY <1>3 DEF ActedOn, EthOf
  <2> QED BY <2>2, <2>3
<1>4. CASE v = "PUSH_MPLS" /\ u = "POP_VLAN"
  <2>0. p.vlanEth # "MPLS"
    BY <1>4 DEF OrderMatters
  <2>1. PICK chance \in EtherTypes : r = ofpat_push_mpls(ofpat_pop_vlan(p, chance))
    BY <1>4 DEF Applied
  <2>2. r.eth = "MPLS"
    BY <2>1 DEF ofpat_push_mpls, ofpat_pop_vlan, Packet
  <2>3. s.eth = p.vlanEth
    BY <1>4 DEF ActedOn, EthOf
  <2> QED BY <2>0, <2>2, <2>3
<1>5. CASE v = "PUSH_MPLS" /\ u = "DEC_MPLS_TTL"
  <2>0. ~p.mpls
    BY <1>5 DEF OrderMatters, KeepsMpls
  <2>1. r = ofpat_push_mpls(ofpat_dec_mpls_ttl(p))
    BY <1>5 DEF Applied
  <2>2. r.mplsTtl = 0
    BY <2>0, <2>1 DEF ofpat_push_mpls, ofpat_dec_mpls_ttl, Packet, AtRest
  <2>3. s.mplsTtl = TTL - 1
    BY <1>5, <2>0 DEF ActedOn, HasMpls, KeepsMpls, Ttl
  <2> QED BY <2>2, <2>3, BoundAssumption
<1>6. CASE v = "PUSH_MPLS" /\ u = "SET_MPLS_TTL"
  <2>0. ~p.mpls /\ arg[u] # 0
    BY <1>6 DEF OrderMatters, KeepsMpls
  <2>1. r = ofpat_push_mpls(ofpat_set_mpls_ttl(p, arg[u]))
    BY <1>6 DEF Applied
  <2>2. r.mplsTtl = 0
    BY <2>0, <2>1 DEF ofpat_push_mpls, ofpat_set_mpls_ttl, Packet, AtRest
  <2>3. s.mplsTtl = arg[u]
    BY <1>6, <2>0 DEF ActedOn, HasMpls, KeepsMpls, Ttl
  <2> QED BY <2>0, <2>2, <2>3
<1>7. CASE v = "DEC_MPLS_TTL" /\ u = "SET_MPLS_TTL"
  <2>0. p.mpls
    BY <1>7 DEF OrderMatters, HasMpls
  <2>1. r = ofpat_dec_mpls_ttl(ofpat_set_mpls_ttl(p, arg[u]))
    BY <1>7 DEF Applied
  <2>2. arg[u] \in 0 .. TTL - 1
    BY <1>7 DEF ArgsOf
  <2>3. r.mplsTtl = (arg[u] - 1) % TTL
    BY <2>0, <2>1, <2>2, BoundAssumption DEF ofpat_dec_mpls_ttl, ofpat_set_mpls_ttl, Packet
  <2>4. s.mplsTtl = arg[u]
    BY <1>7, <2>0 DEF ActedOn, HasMpls, KeepsMpls, Ttl
  <2> QED BY <2>2, <2>3, <2>4, OneLessDiffers
<1>8. CASE v = "PUSH_VLAN" /\ u = "SET_FIELD"
  <2>0. ~p.vlan /\ arg[u] # ZeroVid
    BY <1>8 DEF OrderMatters, KeepsVlan
  <2>1. r = ofpat_push_vlan(ofpat_set_vlan_vid(p, arg[u]))
    BY <1>8 DEF Applied
  <2>2. r.vid = ZeroVid
    BY <2>0, <2>1 DEF ofpat_push_vlan, ofpat_set_vlan_vid, Packet, AtRest
  <2>3. s.vid = arg[u]
    BY <1>8 DEF ActedOn, HasVlan
  <2> QED BY <2>0, <2>2, <2>3
<1>9. CASE v = "DEC_NW_TTL" /\ u = "SET_NW_TTL"
  <2>0. IsIp(p)
    BY <1>9 DEF OrderMatters
  <2>1. r = ofpat_dec_nw_ttl(ofpat_set_nw_ttl(p, arg[u]))
    BY <1>9 DEF Applied
  <2>2. arg[u] \in 0 .. TTL - 1
    BY <1>9 DEF ArgsOf
  <2>3. r.ttl = (arg[u] - 1) % TTL
    BY <2>0, <2>1, <2>2, BoundAssumption DEF ofpat_dec_nw_ttl, ofpat_set_nw_ttl, Packet, IsIp
  <2>4. s.ttl = arg[u]
    BY <1>9, <2>0 DEF ActedOn, Ttl
  <2> QED BY <2>2, <2>3, <2>4, OneLessDiffers
<1>10. \/ v = "POP_MPLS" /\ u = "PUSH_MPLS"
       \/ v = "POP_VLAN" /\ u = "PUSH_VLAN"
       \/ v = "PUSH_MPLS" /\ u \in {"PUSH_VLAN", "POP_VLAN", "DEC_MPLS_TTL", "SET_MPLS_TTL"}
       \/ v = "DEC_MPLS_TTL" /\ u = "SET_MPLS_TTL"
       \/ v = "PUSH_VLAN" /\ u = "SET_FIELD"
       \/ v = "DEC_NW_TTL" /\ u = "SET_NW_TTL"
  <2>1. OrderMatters(p, A, arg) \subseteq
            {<<"POP_MPLS", "PUSH_MPLS">>, <<"POP_VLAN", "PUSH_VLAN">>, <<"PUSH_MPLS", "PUSH_VLAN">>,
             <<"PUSH_MPLS", "POP_VLAN">>, <<"PUSH_MPLS", "DEC_MPLS_TTL">>,
             <<"PUSH_MPLS", "SET_MPLS_TTL">>, <<"DEC_MPLS_TTL", "SET_MPLS_TTL">>,
             <<"PUSH_VLAN", "SET_FIELD">>, <<"DEC_NW_TTL", "SET_NW_TTL">>}
    BY DEF OrderMatters
  <2> QED BY <2>1
<1> HIDE DEF s
<1> QED BY <1>1, <1>2, <1>3, <1>4, <1>5, <1>6, <1>7, <1>8, <1>9, <1>10

\* The entries a table has had are arguments of its action.
SeenTyped == \A t \in ActionTypes, o \in Owners : seen[t][o] \subseteq ArgsOf(t) \cup {NoEntry}

\* Only an argument is ever written.
LEMMA SeenInvariant == Spec => []SeenTyped
<1>1. Init => SeenTyped
  <2> SUFFICES ASSUME Init PROVE SeenTyped
    OBVIOUS
  <2>1. seen = [t \in ActionTypes |-> [o \in Owners |-> {ofpat[t][o]}]]
    BY DEF Init
  <2>2. \A t \in ActionTypes, o \in Owners : ofpat[t][o] \in ArgsOf(t) \cup {NoEntry}
    BY TypeInit DEF TInv, TypeOK
  <2> QED BY <2>1, <2>2 DEF SeenTyped
<1>2. TInv /\ SeenTyped /\ [Next]_vars => SeenTyped'
  <2> SUFFICES ASSUME TInv, SeenTyped, [Next]_vars PROVE SeenTyped'
    OBVIOUS
  <2>1. CASE UNCHANGED seen
    BY <2>1 DEF SeenTyped
  <2>2. ASSUME NEW t \in ActionTypes, NEW o \in Owners, NEW e \in ArgsOf(t) \cup {NoEntry},
               RewriteArg(t, o, e)
        PROVE  SeenTyped'
    BY <2>2 DEF RewriteArg, SeenTyped, TInv, TablesTyped
  <2>3. QED
    BY <2>1, <2>2 DEF Next, openflow_apply, openflow_miss, Matched, ofpat_group_ingress,
       ofpat_output, Replicate, ofpat_group_egress, process_ofpat_egress, RewriteFlow, ghosts, vars
<1>3. Spec => []TInv
  BY TypeInit, TypeStep, PTL DEF Spec
<1> QED BY <1>1, <1>2, <1>3, PTL DEF Spec

\* For any packet and any list of its actions: a list that has the pairs of OrderMatters as
\* the program has them comes out as the controller wrote it, however long it is; a list of
\* two that has them the other way round does not.
THEOREM OrderIsLostAsSaid == Spec => []OrderLostWhereItMatters
<1>1. TInv /\ Acted /\ SeenTyped => OrderLostWhereItMatters
  <2> DEFINE S == Choices(bmap \cap EgressActs, Keys)
             arg == CHOOSE arg \in S : TRUE
             A == Effective(arg)
             pairs == OrderMatters(orig, A, arg)
  <2> SUFFICES ASSUME TInv, Acted, SeenTyped, at = "sent", Cardinality(S) = 1,
                      "POP_VLAN" \in A => orig.vlan,
                      NEW list \in ListsOf(A)
               PROVE  /\ InProgramOrder(list, pairs) => pkt \in InListOrder(list, orig, arg)
                      /\ Cardinality(A) = 2 =>
                             (pkt \in InListOrder(list, orig, arg) => InProgramOrder(list, pairs))
    BY DEF OrderLostWhereItMatters
  <2>1. /\ \E stale \in EtherTypes : Same(pkt, orig, A, arg, stale)
        /\ A \subseteq EgressActs
        /\ \A t \in A : arg[t] \in Answers(t, Keys)
    BY OnlyChoice
  <2>2. pkt \in Packet /\ orig \in Packet /\ AtRest(orig)
    BY DEF TInv, TypeOK, Acted
  <2>3. A \in SUBSET EgressActs /\ IsFiniteSet(A)
    BY <2>1, EgressFinite, FS_Subset
  <2>4. \A t \in A : arg[t] # NoEntry
    BY DEF Effective
  <2>5. Cardinality(S) = 1 /\ list \in ListsOf(A) /\ ("POP_VLAN" \in A => orig.vlan)
    OBVIOUS
  <2> HIDE DEF arg, A, S
  <2>6. ASSUME NEW t \in A PROVE arg[t] \in ArgsOf(t)
    <3>1. Answers(t, Keys) \subseteq UNION {seen[t][o] : o \in Keys}
      BY DEF Answers
    <3>2. Keys \subseteq Owners /\ t \in ActionTypes
      BY <2>3, KeysAreOwners DEF Keys, ActionTypes
    <3>3. arg[t] \in ArgsOf(t) \cup {NoEntry}
      BY <2>1, <3>1, <3>2 DEF SeenTyped
    <3> QED BY <2>4, <3>3
  <2>7. PICK stale \in EtherTypes : pkt = ActedOn(orig, A, arg, stale)
    BY <2>1, <2>2, SameIsActedOn
  <2>8. ASSUME InProgramOrder(list, pairs)
        PROVE  pkt \in InListOrder(list, orig, arg)
    BY <2>2, <2>3, <2>5, <2>6, <2>7, <2>8, KeptIsSame
  <2>9. ASSUME Cardinality(A) = 2, pkt \in InListOrder(list, orig, arg),
               ~InProgramOrder(list, pairs)
        PROVE  FALSE
    <3>1. /\ Len(list) = 2 /\ list \in [1 .. 2 -> A]
          /\ \A i, j \in 1 .. 2 : list[i] = list[j] => i = j
          /\ \A t \in A : \E i \in 1 .. 2 : list[i] = t
      <4>1. Len(list) = 2
        BY <2>3, <2>5, <2>9, ListOf
      <4>2. /\ list \in [1 .. Len(list) -> A]
            /\ \A i, j \in 1 .. Len(list) : list[i] = list[j] => i = j
            /\ \A t \in A : \E i \in 1 .. Len(list) : list[i] = t
        BY <2>3, <2>5, ListOf
      <4> QED BY <4>1, <4>2
    <3>2. PICK i \in 1 .. 2, j \in 1 .. 2 : i < j /\ <<list[j], list[i]>> \in pairs
      <4> HIDE DEF pairs
      <4> QED BY <2>9, <3>1 DEF InProgramOrder
    <3> DEFINE u == list[1]
               v == list[2]
    <3>3. i = 1 /\ j = 2
      BY <3>2
    <3>4. <<v, u>> \in pairs
      BY <3>2, <3>3
    <3>5. u \in A /\ v \in A /\ u # v /\ A = {u, v}
      BY <3>1
    <3>6. InListOrder(list, orig, arg) = AppliedToAll(v, Applied(u, orig, arg[u]), arg[v])
      BY <3>1, TwoActions
    <3> HIDE DEF u, v
    <3>7. PICK q \in Applied(u, orig, arg[u]) : pkt \in Applied(v, q, arg[v])
      BY <2>9, <3>6 DEF AppliedToAll
    <3>8. u \in EgressActs /\ v \in EgressActs /\ arg[u] \in ArgsOf(u) /\ arg[v] \in ArgsOf(v)
      BY <2>3, <2>6, <3>5
    <3> QED BY <2>2, <2>5, <2>7, <3>4, <3>5, <3>7, <3>8, ReversedDiffers
  <2> QED BY <2>8, <2>9
<1> QED BY <1>1, ActedInvariant, SeenInvariant, PTL

===============================================================================
