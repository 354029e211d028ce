--------------------------- MODULE MCFlowCallbacks ---------------------------
(***************************************************************************)
(* Instances of FlowCallbacks and of its refinement for TLC.               *)
(***************************************************************************)
EXTENDS FlowRefinement, FlowInductive, TLC

CONSTANTS f1, f2, f3, h1, h2, t1, t2, t9, a1, a2, miss, k1

MCFlows2  == {f1, f2}
MCFlows3  == {f1, f2, f3}
MCHandles == {h1, h2}

SymmWide == Permutations(MCFlows3) \cup Permutations(MCHandles)
SymmKept == SymmWide \cup Permutations({t1, t2})

\* The last answer decides no step.
ButAnswer == <<ft, entryHdl, tableId, pd, pipe, pc, cur, failed>>

===============================================================================
