--------------------------- MODULE FlowRefinement ---------------------------
(***************************************************************************)
(* FlowCallbacks implements FlowService for the flows with a match, while  *)
(* no two flows own one id and no handle is stale.  Requests on default    *)
(* flows are not requests of the service: they only change default         *)
(* entries.                                                                *)
(***************************************************************************)
EXTENDS FlowCallbacks

CONSTANTS NoFlow, Mixed

ASSUME ServiceAssumption == NoFlow \notin Flows /\ Mixed \notin Acts \cup {NoAct}

\* Where the switch holds an entry with the flow's match.
Slots(f) == {s \in Tables \X Handles :
               pd[s[1]][s[2]] # NoEntry /\ pd[s[1]][s[2]].match = f}

\* What a packet that hits the entry gets: a miss entry acts alone, any other
\* needs the pipeline record of its index.
Treatment(f) ==
    IF Slots(f) = {} THEN NoAct
    ELSE LET s == CHOOSE s \in Slots(f) : TRUE
         IN  IF Torn(s[1], s[2]) THEN Mixed ELSE pd[s[1]][s[2]].act

Serving == pc # "idle" /\ ~cur.dflt

treatBar == [f \in Flows |-> Treatment(f)]
busyBar  == IF Serving THEN cur.flow ELSE NoFlow
wantBar  == IF Serving THEN cur.act ELSE NoAct

Service == INSTANCE FlowService
               WITH treat <- treatBar, busy <- busyBar, want <- wantBar,
                    told <- (rv = "NONE")

\* flow_create, flow_modify and flow_delete implement the service: each affects
\* its own flow only, and INDIGO_ERROR_NONE means it took effect in full.
ImplementsService == Service!Spec

===============================================================================
