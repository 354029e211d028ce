---------------------------- MODULE FlowInductive ----------------------------
(***************************************************************************)
(* The inductive invariant behind RecordedEntryIsOwn and the properties    *)
(* that rest on it, for as long as no two flows own one id (KeysApart),    *)
(* whatever Indigo does with a flow whose deletion failed.                 *)
(***************************************************************************)
EXTENDS FlowCallbacks

Creating  == pc \in {"create_entry", "create_pipe", "create_record"}
Created1  == pc \in {"create_pipe", "create_record"}
Modifying == pc \in {"modify_entry", "modify_pipe"}
Deleting  == pc \in {"delete_entry", "delete_pipe"}

\* A running callback uses the id its flow is known by.
CallHasKey == pc # "idle" => cur.id = ft[cur.flow].priv

\* A running callback works for a flow at the right point of its life, and
\* flow_modify and flow_delete with the handle and table recorded for it.
FrameMatchesFlow ==
    /\ Creating => ft[cur.flow].life = "unused"
    /\ Modifying \/ Deleting =>
           /\ ft[cur.flow].life = "live"
           /\ cur.dflt = ft[cur.flow].dflt
           /\ cur.hdl = entryHdl[cur.id]
           /\ cur.tid = tableId[cur.id]

\* What is recorded for a live flow names the table it was added to.
RecordsMatchFlow ==
    \A f \in Flows : Live(f) =>
        /\ tableId[ft[f].priv] # NoTable
        /\ tableId[ft[f].priv] = ft[f].tid
        /\ IF ft[f].dflt THEN entryHdl[ft[f].priv] = DefHdl
                         ELSE entryHdl[ft[f].priv] \in Handles

\* The entry of a live flow is its own, unless its deletion has begun or a flow kept
\* half deleted has its handle.
LiveEntryIsOwn ==
    \A f \in Flows :
        Live(f) /\ ~ft[f].dflt /\ ~(pc = "delete_pipe" /\ cur.flow = f)
            /\ <<tableId[ft[f].priv], entryHdl[ft[f].priv]>> \notin StaleHandles =>
            /\ EntryOf(f) # NoEntry
            /\ EntryOf(f).match = f
            /\ EntryOf(f).index = ft[f].priv

\* So is the entry flow_create has just made, which nothing records yet.
NewEntryIsOwn ==
    Created1 =>
        IF cur.dflt THEN cur.hdl = DefHdl
        ELSE /\ cur.hdl \in Handles
             /\ pd[cur.tid][cur.hdl] =
                   [match |-> cur.flow, index |-> cur.id, act |-> cur.act]

\* A flow Indigo has not seen yet has no entry.
UnusedHasNoEntry ==
    \A t \in Tables, h \in Handles :
        pd[t][h] # NoEntry /\ ft[pd[t][h].match].life = "unused" =>
            Created1 /\ ~cur.dflt /\ cur.flow = pd[t][h].match
                     /\ cur.tid = t /\ cur.hdl = h

\* Nor has it failed: a handle that is stale once stays so.
UnusedNeverFailed ==
    \A f \in Flows : ft[f].life = "unused" => failed[f] = {}

IInv ==
    /\ TypeOK
    /\ CallHasKey
    /\ FrameMatchesFlow
    /\ RecordsMatchFlow
    /\ LiveEntryIsOwn
    /\ NewEntryIsOwn
    /\ UnusedHasNoEntry
    /\ UnusedNeverFailed

===============================================================================
