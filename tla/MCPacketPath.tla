----------------------------- MODULE MCPacketPath -----------------------------
(***************************************************************************)
(* Instances of PacketPath for TLC.  A byte has four values, and a port of *)
(* OpenFlow 256.  Lengths are real: frames around the size of the buffer.  *)
(***************************************************************************)
EXTENDS PacketPath

CONSTANTS x, y

MCFrame(type, body, len) == [etherType |-> type, body |-> body, len |-> len]

\* A port of 4 bits, and two reserved ones.
MCPortsOut == {6, ofp_port_no.OFPP_FLOOD, ofp_port_no.OFPP_CONTROLLER}
MCOutput(port) == [type |-> "OUTPUT", port |-> port]
MCOther == [type |-> "OTHER", port |-> 0]
\* Nothing behind the first action is looked at.
MCActionLists == {<<MCOutput(port), MCOther>> : port \in MCPortsOut} \cup {<<>>, <<MCOther, MCOutput(6)>>}

MCPortsIn   == {6}
\* One ordinary frame, one too short for an Ethernet header and one too long for the buffer.
MCFramesOut == {MCFrame("IPV4", x, 60), MCFrame("ARP", y, 10), MCFrame("ARP", y, BUF - HDR + 1)}
MCFramesIn  == {MCFrame("IPV4", x, 60), MCFrame("ARP", y, BUF - HDR - 13),
                MCFrame("IPV4", y, BUF)}

===============================================================================
