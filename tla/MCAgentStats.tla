---------------------------- MODULE MCAgentStats ----------------------------
(***************************************************************************)
(* Instances of SwitchFeatures, and of the AgentStats in it, for TLC:      *)
(* handles of two bits, and two flows whose ids are the same handle, one   *)
(* because its upper bits are lost.                                        *)
(***************************************************************************)
EXTENDS SwitchFeatures

MCFlowIds == {1, 5}
MCHandles == {1, 2}
MCLengths == {1, 2}

===============================================================================
