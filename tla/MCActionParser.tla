--------------------------- MODULE MCActionParser ---------------------------
(***************************************************************************)
(* Instances of ActionParser for TLC: every list of up to three actions of *)
(* one kind each: with an argument, without, beyond the bitmap, and the    *)
(* two kinds of set-field.                                                 *)
(***************************************************************************)
EXTENDS ActionParser

MCActions ==
    {[type |-> t, field |-> "VLAN_VID"] : t \in {"OUTPUT", "PUSH_VLAN", "EXPERIMENTER"}}
        \cup [type : {"SET_FIELD"}, field : Fields]

MCLists == UNION {[1 .. n -> MCActions] : n \in 0 .. 3}

===============================================================================
