----------------------------- MODULE FlowService -----------------------------
(***************************************************************************)
(* What the flow callbacks promise Indigo, whatever the order of the PD    *)
(* calls behind them.  A request names one flow and the treatment its      *)
(* packets shall get.  While it is served the treatment of that flow may   *)
(* be anything; no other flow's treatment ever changes.  A request that is *)
(* answered with INDIGO_ERROR_NONE has taken effect in full; one answered  *)
(* with an error may have taken effect in part.                            *)
(***************************************************************************)
CONSTANTS Flows, Acts,
          NoFlow,   \* no request is being served
          NoAct,    \* no entry matches the flow's packets
          Mixed     \* an entry matches, its pipeline is another action set's

Treatments == Acts \cup {NoAct, Mixed}

VARIABLES
    treat,   \* how the switch treats the packets that match each flow
    busy,    \* the flow of the request being served
    want,    \* the treatment it asks for
    told     \* was the last request answered INDIGO_ERROR_NONE?

serviceVars == <<treat, busy, want, told>>

Init ==
    /\ treat = [f \in Flows |-> NoAct]
    /\ busy = NoFlow
    /\ want = NoAct
    /\ told = TRUE

Request(f, a) ==
    /\ busy = NoFlow
    /\ busy' = f
    /\ want' = a
    /\ UNCHANGED <<treat, told>>

Work ==
    /\ busy # NoFlow
    /\ \E a \in Treatments : treat' = [treat EXCEPT ![busy] = a]
    /\ UNCHANGED <<busy, want, told>>

Succeed ==
    /\ busy # NoFlow
    /\ treat' = [treat EXCEPT ![busy] = want]
    /\ busy' = NoFlow
    /\ want' = NoAct
    /\ told' = TRUE

Fail ==
    /\ busy # NoFlow
    /\ busy' = NoFlow
    /\ want' = NoAct
    /\ told' = FALSE
    /\ UNCHANGED treat

\* Requests refused at once, and those on default flows, change no treatment.
Other ==
    /\ busy = NoFlow
    /\ told' \in BOOLEAN
    /\ UNCHANGED <<treat, busy, want>>

Next ==
    \/ \E f \in Flows, a \in Acts \cup {NoAct} : Request(f, a)
    \/ Work
    \/ Succeed
    \/ Fail
    \/ Other

Spec == Init /\ [][Next]_serviceVars

===============================================================================
