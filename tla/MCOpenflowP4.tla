----------------------------- MODULE MCOpenflowP4 -----------------------------
(***************************************************************************)
(* Instances of OpenflowP4 for TLC: packets with and without a tag and a   *)
(* label over each kind of payload, and bitmaps of up to two actions, of   *)
(* those that push and pop, and of some that overwrite each other.         *)
(***************************************************************************)
EXTENDS ActionOrder

CONSTANTS v0, v1, m1

MCPorts == {1, 2}
MCVids  == {v0, v1}

\* What a new label or tag has anyway, and something else; the bucket's port and another.
MCArgument(output, group, vid, ttl) ==
    [t \in ActionTypes |-> CASE t = "OUTPUT" -> output
                             [] t = "GROUP" -> group
                             [] t = "SET_FIELD" -> vid
                             [] t \in {"SET_MPLS_TTL", "SET_NW_TTL"} -> ttl
                             [] OTHER -> "hit"]
MCArguments ==
    {MCArgument(1, [kind |-> "uc", to |-> BucketPort], v0, 0),
     MCArgument(2, [kind |-> "mc", to |-> m1], v1, 2)}

Payloads == {[l3 |-> "IPV4", ttl |-> 0], [l3 |-> "IPV6", ttl |-> 2],
             [l3 |-> "OTHER", ttl |-> 0]}

MCPacket(vlan, mpls, payload) ==
    LET inner == IF mpls THEN "MPLS" ELSE payload.l3
    IN  [vlan |-> vlan, mpls |-> mpls, l3 |-> payload.l3,
         eth |-> IF vlan THEN "VLAN" ELSE inner,
         vlanEth |-> IF vlan THEN inner ELSE "OTHER",
         vid |-> IF vlan THEN v1 ELSE ZeroVid, mplsTtl |-> 0, ttl |-> payload.ttl]

MCPackets == {MCPacket(v, m, p) : v \in BOOLEAN, m \in BOOLEAN, p \in Payloads}

\* One action is undone or overwritten by the next.
Overwritten == {{"POP_VLAN", "PUSH_VLAN", "SET_FIELD"}, {"POP_MPLS", "PUSH_MPLS", "SET_MPLS_TTL"},
                {"PUSH_MPLS", "DEC_MPLS_TTL", "SET_MPLS_TTL"}}

Tags == {"POP_MPLS", "PUSH_MPLS", "POP_VLAN", "PUSH_VLAN"}
MCBitmaps ==
    {{a, b} : a, b \in ActionTypes} \cup SUBSET Tags \cup Overwritten
        \cup {{"GROUP", "OUTPUT", "SET_FIELD"}}
MCBucketBitmaps == {{"OUTPUT", "PUSH_VLAN", "SET_FIELD"}}
MCRewrites == {{"OUTPUT", "DEC_NW_TTL"}}

===============================================================================
