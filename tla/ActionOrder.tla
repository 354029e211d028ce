----------------------------- MODULE ActionOrder -----------------------------
(***************************************************************************)
(* What becomes of the order of an action list.  parse_actions             *)
(* (src/src/parse.c) makes of the list a bitmap and one argument for each  *)
(* type, as ActionParser models it, and flow_create hands both to the      *)
(* switch: the order the controller gave the actions in ends there, and    *)
(* the controls of openflow.p4 apply them in the order of the program.     *)
(***************************************************************************)
EXTENDS OpenflowP4

\* An action applied to each of some packets.
AppliedToAll(t, ps, e) == UNION {Applied(t, q, e) : q \in ps}

\* The packets that can come out if the actions of the list are applied one by one,
\* each to what the ones before have made of the packet.
InListOrder(list, p, arg) ==
    LET after[k \in 0 .. Len(list)] ==
            IF k = 0 THEN {p} ELSE AppliedToAll(list[k], after[k - 1], arg[list[k]])
    IN  after[Len(list)]

\* Of which actions the order in the list is seen in the packet, each pair as the
\* program has it.  A label or a tag has a time to live or an id to set only if it is
\* there, and none is seen to be set that a new one has anyway; of two actions that write
\* the ether type the last is read.
OrderMatters(p, A, arg) ==
    {<<"POP_MPLS", "PUSH_MPLS">>, <<"POP_VLAN", "PUSH_VLAN">>, <<"PUSH_MPLS", "PUSH_VLAN">>}
        \cup (IF "PUSH_VLAN" \in A \/ p.vlanEth = "MPLS" THEN {}
              ELSE {<<"PUSH_MPLS", "POP_VLAN">>})
        \cup (IF KeepsMpls(p, A) THEN {}
              ELSE {<<"PUSH_MPLS", "DEC_MPLS_TTL">>}
                  \cup {<<"PUSH_MPLS", t>> : t \in {s \in A \cap {"SET_MPLS_TTL"} : arg[s] # 0}})
        \cup (IF HasMpls(p, A) THEN {<<"DEC_MPLS_TTL", "SET_MPLS_TTL">>} ELSE {})
        \cup (IF KeepsVlan(p, A) THEN {}
              ELSE {<<"PUSH_VLAN", t>> : t \in {s \in A \cap {"SET_FIELD"} : arg[s] # ZeroVid}})
        \cup (IF IsIp(p) THEN {<<"DEC_NW_TTL", "SET_NW_TTL">>} ELSE {})

\* The lists that have each action of A once.
ListsOf(A) ==
    {list \in [1 .. Cardinality(A) -> A] :
        \A i, j \in DOMAIN list : list[i] = list[j] => i = j}

InProgramOrder(list, pairs) ==
    \A i, j \in DOMAIN list : i < j => <<list[j], list[i]>> \notin pairs

\* A list that has the pairs of OrderMatters as the program has them means what the
\* switch does with its bitmap, in whichever order it has the others; and a list of two
\* actions means something else if it has them the other way round.  (Popping a tag
\* that is not there is left out: what it leaves is chance.)
OrderLostWhereItMatters ==
    LET arg == CHOOSE arg \in Choices(bmap \cap EgressActs, Keys) : TRUE
        A == Effective(arg)
    IN  /\ at = "sent"
        /\ Cardinality(Choices(bmap \cap EgressActs, Keys)) = 1
        /\ "POP_VLAN" \in A => orig.vlan
        => \A list \in ListsOf(A) :
               LET kept == InProgramOrder(list, OrderMatters(orig, A, arg))
                   same == pkt \in InListOrder(list, orig, arg)
               IN  /\ kept => same
                   /\ Cardinality(A) = 2 => (same => kept)

==============================================================================
