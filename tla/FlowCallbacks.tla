---------------------------- MODULE FlowCallbacks ----------------------------
(***************************************************************************)
(* The flow callbacks of the agent (src/src/callbacks.c: flow_create,      *)
(* flow_modify, flow_delete), the two Judy arrays they keep                *)
(* (src/src/state.c) and the tables of the soft switch they write through  *)
(* the generated PD wrappers.                                              *)
(*                                                                         *)
(* Indigo calls the callbacks from the single agent thread, one at a time. *)
(* The soft switch runs concurrently and forwards packets between any two  *)
(* PD calls, so every PD call is a step of its own and every state below   *)
(* is one the data plane can use.  A callback that fails returns at once   *)
(* and undoes nothing.                                                     *)
(***************************************************************************)
EXTENDS FiniteSets, Naturals

CONSTANTS
    Flows,         \* flow ids Indigo hands out, each to one flow
    CookieKeys,    \* values cookie|cmask takes in the messages; {} if cmask is 0
    Tables,        \* table ids the plugin registered its wrappers under
    MsgTables,     \* table ids a message may carry
    Handles,       \* entry handles a PD table hands out: its capacity
    DefHdl,        \* the handle a table's default entry has
    Acts,          \* action sets of the messages
    MissActs,      \* those a wrapper answers with no_pipeline (openflow_miss)
    JudyLeafMax,   \* keys a JudyL array holds before it outgrows its root leaf
    KeepOnDeleteError,  \* what Indigo may do: is a flow kept when its delete fails?
    NoHdl, NoTable, NoEntry, NoAct, NoCall

ASSUME HandleAssumption == DefHdl \notin Handles /\ NoHdl \notin Handles \cup {DefHdl}
ASSUME TableAssumption  == Tables \subseteq MsgTables /\ NoTable \notin Tables
ASSUME ActAssumption    == MissActs \subseteq Acts /\ NoAct \notin Acts
ASSUME JudyAssumption   == JudyLeafMax \in Nat
ASSUME KeepAssumption   == KeepOnDeleteError \subseteq BOOLEAN /\ KeepOnDeleteError # {}

Ids     == Flows \cup CookieKeys
AnyHdl  == Handles \cup {DefHdl}
Entry   == [match : Flows, index : Ids, act : Acts]

ASSUME EntryAssumption == NoEntry \notin Entry

\* INDIGO_ERROR_* codes the callbacks return; MATCH stands for what
\* of_flow_add_match_get reports.
Errors == {"MATCH", "BAD_TABLE_ID", "NOT_FOUND", "UNKNOWN"}

\* The PD call (or, for create_record, the map update) a running callback
\* makes next; and the errors after which the switch is not as it was before.
Calling  == {"create_entry", "create_pipe", "create_record",
             "modify_entry", "modify_pipe", "delete_entry", "delete_pipe"}
Lasting == {"create_pipe", "modify_pipe", "delete_call", "delete_entry", "delete_pipe"}

VARIABLES
    ft,        \* Indigo's flow table: life, entry_priv, table and kind of a flow
    entryHdl,  \* flow_id_to_entry_hdl
    tableId,   \* flow_id_to_table_id
    pd,        \* match-action tables of the switch: table -> handle -> entry
    pipe,      \* ofpat_* pipeline tables: index -> action arguments
    pc,        \* the next PD call of the callback that runs, or "idle"
    cur,       \* the locals of the callback that runs
    rv,        \* what the last callback returned
    failed     \* ghost: the lasting errors of callbacks on each flow; a modify that
               \* rewrites the pipeline mends an earlier one that could not

vars == <<ft, entryHdl, tableId, pd, pipe, pc, cur, rv, failed>>

Frame == [flow : Flows, id : Ids, tid : Tables, hdl : AnyHdl \cup {NoHdl},
          act : Acts \cup {NoAct}, dflt : BOOLEAN]

ASSUME CallAssumption == NoCall \notin Frame

FlowRec == [life : {"unused", "live", "gone"}, priv : Ids,
            tid : Tables \cup {NoTable}, dflt : BOOLEAN]

TypeOK ==
    /\ ft \in [Flows -> FlowRec]
    /\ entryHdl \in [Ids -> AnyHdl \cup {NoHdl}]
    /\ tableId \in [Ids -> Tables \cup {NoTable}]
    /\ pd \in [Tables -> [AnyHdl -> Entry \cup {NoEntry}]]
    /\ pipe \in [Ids -> Acts \cup {NoAct}]
    /\ pc \in Calling \cup {"idle"}
    /\ IF pc = "idle" THEN cur = NoCall ELSE cur \in Frame
    /\ pc \notin {"idle", "create_entry"} => cur.hdl \in AnyHdl
    /\ pc \notin {"idle", "delete_entry", "delete_pipe"} => cur.act \in Acts
    /\ rv \in Errors \cup {"NONE"}
    /\ failed \in [Flows -> SUBSET Lasting]

Init ==
    /\ ft = [f \in Flows |-> [life |-> "unused", priv |-> f,
                              tid |-> NoTable, dflt |-> FALSE]]
    /\ entryHdl = [i \in Ids |-> NoHdl]
    /\ tableId = [i \in Ids |-> NoTable]
    /\ pd = [t \in Tables |-> [h \in AnyHdl |-> NoEntry]]
    /\ pipe = [i \in Ids |-> NoAct]
    /\ pc = "idle"
    /\ cur = NoCall
    /\ rv = "NONE"
    /\ failed = [f \in Flows |-> {}]

(***************************************************************************)
(* Judy lookups.  The getters test a JudyL array with J1T, the macro of    *)
(* the other array family.  The two share the layout of a root leaf only:  *)
(* past JudyLeafMax keys the test may miss a key that is present.  (It may *)
(* also report one that is absent, and the getter then dereferences NULL:  *)
(* LiveFlowsRecorded says that no callback asks for an absent flow id, and *)
(* the message of a table that is not registered is taken to be refused.)  *)
(* The setters insert a key, and find it again if it is there.             *)
(***************************************************************************)
Population(arr, none) == Cardinality({k \in DOMAIN arr : arr[k] # none})

J1T(arr, none, k) ==
    IF arr[k] = none THEN {FALSE}
    ELSE IF Population(arr, none) <= JudyLeafMax THEN {TRUE} ELSE BOOLEAN

flow_id_entry_hdl_get(id) == J1T(entryHdl, NoHdl, id)
flow_id_table_id_get(id)  == J1T(tableId, NoTable, id)

flow_id_entry_hdl_set(id, hdl)      == entryHdl' = [entryHdl EXCEPT ![id] = hdl]
flow_id_table_id_set(id, table_id) == tableId' = [tableId EXCEPT ![id] = table_id]

\* The wrapper getters (table_add_get, table_mod_get, ...): one key per table.
table_fn_get(t) ==
    IF t \notin Tables THEN {FALSE}
    ELSE IF Cardinality(Tables) <= JudyLeafMax THEN {TRUE} ELSE BOOLEAN

(***************************************************************************)
(* How a callback starts, and how it returns to Indigo.                    *)
(***************************************************************************)
Start(call, frame) ==
    /\ pc' = call
    /\ cur' = frame
    /\ UNCHANGED <<rv, failed>>

\* Mutant of ReturnNone: the frame survives the return.
ReturnNoneKeepsFrame ==
    /\ pc' = "idle"
    /\ rv' = "NONE"
    /\ UNCHANGED <<cur, failed>>

ReturnNone ==
    /\ pc' = "idle"
    /\ cur' = NoCall
    /\ rv' = "NONE"
    /\ UNCHANGED failed

ReturnError(f, point, error) ==
    /\ pc' = "idle"
    /\ cur' = NoCall
    /\ rv' = error
    /\ failed' = [failed EXCEPT ![f] = @ \cup ({point} \cap Lasting)]

Advance(call) ==
    /\ pc' = call
    /\ UNCHANGED <<cur, rv, failed>>

\* What Indigo (OFStateManager) does with the answer: a flow whose creation
\* failed is dropped, one whose deletion failed is dropped or kept.
Created(f, tid, dflt) ==
    ft' = [ft EXCEPT ![f] = [life |-> "live", priv |-> ft[f].priv,
                             tid |-> tid, dflt |-> dflt]]

Dropped(f) == ft' = [ft EXCEPT ![f].life = "gone"]

Refused(f, priv) == ft' = [ft EXCEPT ![f].life = "gone", ![f].priv = priv]

DeleteFailed(f) == \E keep \in KeepOnDeleteError : IF keep THEN UNCHANGED ft ELSE Dropped(f)

(***************************************************************************)
(* flow_create                                                             *)
(***************************************************************************)
\* Of the message the callback sees the table id t, the action set a, whether
\* the match is empty (dflt), and the id it settles on: Indigo's, or
\* cookie|cmask.  Indigo has that id back (*entry_priv) however the callback ends.
CreateCall(f, id, t, a, dflt) ==
    /\ pc = "idle"
    /\ ft[f].life = "unused"
    /\ id \in {f} \cup CookieKeys
    /\ TRUE \in table_fn_get(t)
    /\ Start("create_entry", [flow |-> f, id |-> id, tid |-> t, hdl |-> NoHdl,
                              act |-> a, dflt |-> dflt])
    /\ ft' = [ft EXCEPT ![f].priv = id]
    /\ UNCHANGED <<entryHdl, tableId, pd, pipe>>

CreateReject(f, id, t, dflt) ==
    /\ pc = "idle"
    /\ ft[f].life = "unused"
    /\ id \in {f} \cup CookieKeys
    /\ \/ ~dflt /\ ReturnError(f, "create_call", "MATCH")
       \/ FALSE \in table_fn_get(t) /\ ReturnError(f, "create_call", "BAD_TABLE_ID")
    /\ Refused(f, id)
    /\ UNCHANGED <<entryHdl, tableId, pd, pipe>>

\* Mutant of CreateEntry: eh is not the handle add_f returned.
CreateEntryHdlLost(h) ==
    /\ pc = "create_entry"
    /\ IF cur.dflt THEN h = DefHdl ELSE h \in Handles /\ pd[cur.tid][h] = NoEntry
    /\ pd' = [pd EXCEPT ![cur.tid][h] =
                 [match |-> cur.flow, index |-> cur.id, act |-> cur.act]]
    /\ pc' = IF cur.act \in MissActs THEN "create_record" ELSE "create_pipe"
    /\ \E g \in Handles : cur' = [cur EXCEPT !.hdl = g]
    /\ UNCHANGED <<ft, entryHdl, tableId, pipe, rv, failed>>

\* Mutant of CreateEntry: the default entry's handle is handed out by add_f.
CreateEntryAnyHdl(h) ==
    /\ pc = "create_entry"
    /\ IF cur.dflt THEN h = DefHdl ELSE pd[cur.tid][h] = NoEntry
    /\ pd' = [pd EXCEPT ![cur.tid][h] =
                 [match |-> cur.flow, index |-> cur.id, act |-> cur.act]]
    /\ pc' = IF cur.act \in MissActs THEN "create_record" ELSE "create_pipe"
    /\ cur' = [cur EXCEPT !.hdl = h]
    /\ UNCHANGED <<ft, entryHdl, tableId, pipe, rv, failed>>

\* add_f takes a free handle; def_f overwrites the table's default entry.
CreateEntry(h) ==
    /\ pc = "create_entry"
    /\ IF cur.dflt THEN h = DefHdl ELSE h \in Handles /\ pd[cur.tid][h] = NoEntry
    /\ pd' = [pd EXCEPT ![cur.tid][h] =
                 [match |-> cur.flow, index |-> cur.id, act |-> cur.act]]
    /\ pc' = IF cur.act \in MissActs THEN "create_record" ELSE "create_pipe"
    /\ cur' = [cur EXCEPT !.hdl = h]
    /\ UNCHANGED <<ft, entryHdl, tableId, pipe, rv, failed>>

\* Mutant of CreatePipe: the status of ofpat_pipeline_add is not looked at.
CreatePipeUnchecked ==
    /\ pc = "create_pipe"
    /\ \/ pipe' = [pipe EXCEPT ![cur.id] = cur.act]
       \/ UNCHANGED pipe
    /\ Advance("create_record")
    /\ UNCHANGED <<ft, entryHdl, tableId, pd>>

\* The PD refuses a key that is in the pipeline tables already.
CreatePipe ==
    /\ pc = "create_pipe"
    /\ pipe[cur.id] = NoAct
    /\ pipe' = [pipe EXCEPT ![cur.id] = cur.act]
    /\ Advance("create_record")
    /\ UNCHANGED <<ft, entryHdl, tableId, pd>>

\* Mutant of CreateRecord: flow_id_entry_hdl_set is left out.
CreateRecordNoHdl ==
    /\ pc = "create_record"
    /\ flow_id_table_id_set(cur.id, cur.tid)
    /\ Created(cur.flow, cur.tid, cur.dflt)
    /\ ReturnNone
    /\ UNCHANGED <<entryHdl, pd, pipe>>

CreateRecord ==
    /\ pc = "create_record"
    /\ flow_id_entry_hdl_set(cur.id, cur.hdl)
    /\ flow_id_table_id_set(cur.id, cur.tid)
    /\ Created(cur.flow, cur.tid, cur.dflt)
    /\ ReturnNone
    /\ UNCHANGED <<pd, pipe>>

CreateFails ==
    /\ pc \in {"create_entry", "create_pipe"}
    /\ ReturnError(cur.flow, pc, "UNKNOWN")
    /\ Dropped(cur.flow)
    /\ UNCHANGED <<entryHdl, tableId, pd, pipe>>

(***************************************************************************)
(* flow_modify                                                             *)
(***************************************************************************)
\* Both getters find the flow's id.
Known(id)   == TRUE \in flow_id_entry_hdl_get(id) /\ TRUE \in flow_id_table_id_get(id)
Unknown(id) == FALSE \in flow_id_entry_hdl_get(id) \/ FALSE \in flow_id_table_id_get(id)

\* Mutant of Recorded: the table id is not the recorded one.
RecordedAnyTable(f, id, a) ==
    [flow |-> f, id |-> id, tid |-> CHOOSE t \in Tables : TRUE, hdl |-> entryHdl[id],
     act |-> a, dflt |-> ft[f].dflt]

\* The table id of the message is overwritten with the recorded one.
Recorded(f, id, a) ==
    [flow |-> f, id |-> id, tid |-> tableId[id], hdl |-> entryHdl[id],
     act |-> a, dflt |-> ft[f].dflt]

ModifyCall(f, a) ==
    /\ pc = "idle"
    /\ ft[f].life = "live"
    /\ Known(ft[f].priv)
    /\ TRUE \in table_fn_get(tableId[ft[f].priv])
    /\ Start("modify_entry", Recorded(f, ft[f].priv, a))
    /\ UNCHANGED <<ft, entryHdl, tableId, pd, pipe>>

\* What modify and delete answer when a lookup fails.
LookupFails(f, point) ==
    \/ Unknown(ft[f].priv) /\ ReturnError(f, point, "NOT_FOUND")
    \/ /\ Known(ft[f].priv)
       /\ FALSE \in table_fn_get(tableId[ft[f].priv])
       /\ ReturnError(f, point, "BAD_TABLE_ID")

ModifyReject(f) ==
    /\ pc = "idle"
    /\ ft[f].life = "live"
    /\ LookupFails(f, "modify_call")
    /\ UNCHANGED <<ft, entryHdl, tableId, pd, pipe>>

\* Mutant of ModifyEntry: the pipeline is not modified.
ModifyEntryOnly ==
    /\ pc = "modify_entry"
    /\ pd[cur.tid][cur.hdl] # NoEntry
    /\ pd' = [pd EXCEPT ![cur.tid][cur.hdl] =
                 [match |-> @.match, index |-> cur.id, act |-> cur.act]]
    /\ ReturnNone
    /\ UNCHANGED <<ft, entryHdl, tableId, pipe>>

ModifyEntry ==
    /\ pc = "modify_entry"
    /\ pd[cur.tid][cur.hdl] # NoEntry
    /\ pd' = [pd EXCEPT ![cur.tid][cur.hdl] =
                 [match |-> @.match, index |-> cur.id, act |-> cur.act]]
    /\ IF cur.act \in MissActs THEN ReturnNone ELSE Advance("modify_pipe")
    /\ UNCHANGED <<ft, entryHdl, tableId, pipe>>

ModifyPipe ==
    /\ pc = "modify_pipe"
    /\ pipe[cur.id] # NoAct
    /\ pipe' = [pipe EXCEPT ![cur.id] = cur.act]
    /\ pc' = "idle" /\ cur' = NoCall /\ rv' = "NONE"
    /\ failed' = [failed EXCEPT ![cur.flow] = @ \ {"modify_pipe"}]
    /\ UNCHANGED <<ft, entryHdl, tableId, pd>>

ModifyFails ==
    /\ pc \in {"modify_entry", "modify_pipe"}
    /\ ReturnError(cur.flow, pc, "UNKNOWN")
    /\ UNCHANGED <<ft, entryHdl, tableId, pd, pipe>>

(***************************************************************************)
(* flow_delete                                                             *)
(***************************************************************************)
DeleteCall(f) ==
    /\ pc = "idle"
    /\ ft[f].life = "live"
    /\ Known(ft[f].priv)
    /\ TRUE \in table_fn_get(tableId[ft[f].priv])
    /\ Start("delete_entry", Recorded(f, ft[f].priv, NoAct))
    /\ UNCHANGED <<ft, entryHdl, tableId, pd, pipe>>

DeleteReject(f) ==
    /\ pc = "idle"
    /\ ft[f].life = "live"
    /\ LookupFails(f, "delete_call")
    /\ DeleteFailed(f)
    /\ UNCHANGED <<entryHdl, tableId, pd, pipe>>

\* Mutant of DeleteEntry: del_f is not called.
DeleteEntrySkipped ==
    /\ pc = "delete_entry"
    /\ Advance("delete_pipe")
    /\ UNCHANGED <<ft, entryHdl, tableId, pd, pipe>>

DeleteEntry ==
    /\ pc = "delete_entry"
    /\ pd[cur.tid][cur.hdl] # NoEntry
    /\ pd' = [pd EXCEPT ![cur.tid][cur.hdl] = NoEntry]
    /\ Advance("delete_pipe")
    /\ UNCHANGED <<ft, entryHdl, tableId, pipe>>

\* Called for every flow, also for one that never had a pipeline entry: the
\* PD may answer that with an error or do nothing.  The arrays keep the key.
DeletePipe ==
    /\ pc = "delete_pipe"
    /\ pipe' = [pipe EXCEPT ![cur.id] = NoAct]
    /\ Dropped(cur.flow)
    /\ ReturnNone
    /\ UNCHANGED <<entryHdl, tableId, pd>>

DeleteFails ==
    /\ pc \in {"delete_entry", "delete_pipe"}
    /\ ReturnError(cur.flow, pc, "UNKNOWN")
    /\ DeleteFailed(cur.flow)
    /\ UNCHANGED <<entryHdl, tableId, pd, pipe>>

(***************************************************************************)
(* The agent thread runs the messages in the order the controller sends    *)
(* them, a callback to completion before the next.                         *)
(***************************************************************************)
Messages ==
    \E f \in Flows :
        \/ \E id \in Ids, t \in Tables, a \in Acts, d \in BOOLEAN : CreateCall(f, id, t, a, d)
        \/ \E id \in Ids, t \in MsgTables, d \in BOOLEAN : CreateReject(f, id, t, d)
        \/ \E a \in Acts : ModifyCall(f, a)
        \/ ModifyReject(f)
        \/ DeleteCall(f)
        \/ DeleteReject(f)

PdCalls ==
    \/ \E h \in AnyHdl : CreateEntry(h)
    \/ CreatePipe
    \/ CreateRecord
    \/ CreateFails
    \/ ModifyEntry
    \/ ModifyPipe
    \/ ModifyFails
    \/ DeleteEntry
    \/ DeletePipe
    \/ DeleteFails

Next == Messages \/ PdCalls

Spec == Init /\ [][Next]_vars

\* A running callback is never preempted and PD calls return.
FairSpec == Spec /\ WF_vars(PdCalls)

-------------------------------------------------------------------------------
(***************************************************************************)
(* Properties                                                              *)
(***************************************************************************)
Running(f)  == pc # "idle" /\ cur.flow = f
Live(f)     == ft[f].life = "live"
EntryOf(f)  == pd[tableId[ft[f].priv]][entryHdl[ft[f].priv]]

\* What the arrays rest on: no two flows own one id, of those Indigo has, the one a
\* callback runs for, and those a callback failed for.  The id of a flow that is gone
\* and left nothing may be used again.
Owns(f)   == Live(f) \/ Running(f) \/ failed[f] # {}
KeysApart ==
    \A f, g \in Flows : Owns(f) /\ Owns(g) /\ ft[f].priv = ft[g].priv => f = g

\* flow_modify and flow_delete find the handle and the table only in the two
\* arrays: both hold the id of every flow Indigo still has.
LiveFlowsRecorded ==
    \A f \in Flows : Live(f) => /\ entryHdl[ft[f].priv] # NoHdl
                               /\ tableId[ft[f].priv] # NoTable

\* The PD calls of flow_modify and flow_delete go to the table the flow was
\* added to (callbacks.h: "Operations are demuxed to their proper tables").
DemuxedToProperTable ==
    pc \in {"modify_entry", "delete_entry"} => cur.tid = ft[cur.flow].tid

\* The handles of flows whose entry is deleted, the second half of their deletion
\* having failed.  Indigo may have kept such a flow, and it still has the handle when
\* the table hands it out again.
StaleHandles ==
    {<<tableId[ft[f].priv], entryHdl[ft[f].priv]>> :
         f \in {g \in Flows : TRUE \in KeepOnDeleteError /\ "delete_pipe" \in failed[g]}}

\* Whatever was created, modified, deleted and failed before, what is recorded
\* for a live flow is the entry of its own match, tagged with its own index,
\* although handles are reused and arrays are never cleaned; only a deletion
\* that is half done may have removed it, or a flow that was kept half deleted
\* with the same handle.
RecordedEntryIsOwn ==
    \A f \in Flows :
        Live(f) /\ ~ft[f].dflt /\ ~(pc = "delete_pipe" /\ cur.flow = f)
            /\ <<tableId[ft[f].priv], entryHdl[ft[f].priv]>> \notin StaleHandles =>
            /\ EntryOf(f) # NoEntry
            /\ EntryOf(f).match = f
            /\ EntryOf(f).index = ft[f].priv

\* A callback rewrites or removes the match entry of another flow only at a handle
\* that a flow kept half deleted has too: its own, or that of a flow it was handed
\* out to since.
NoForeignTouch ==
    [][\A t \in Tables, h \in Handles :
         pd[t][h] # NoEntry /\ pd'[t][h] # pd[t][h] =>
             pd[t][h].match = cur.flow \/ <<t, h>> \in StaleHandles]_vars

\* An entry or a pipeline record outlives its flow only if the controller got
\* an error for that flow at a point where the callback leaves it behind.
LeftBehind(f, points) == Live(f) \/ Running(f) \/ failed[f] \cap points # {}

NoSilentLeak ==
    /\ \A t \in Tables, h \in Handles :
           pd[t][h] # NoEntry =>
               LeftBehind(pd[t][h].match, {"create_pipe", "delete_call", "delete_entry"})
    /\ \A i \in Ids :
           pipe[i] # NoAct =>
               \E f \in Flows : /\ ft[f].priv = i
                                /\ LeftBehind(f, {"delete_call", "delete_entry", "delete_pipe"})

\* The switch finds an entry's actions in two tables written by two PD calls.
\* They disagree only while a callback for that index runs, or when the second
\* call failed and the controller was told.
Torn(t, h) ==
    /\ pd[t][h] # NoEntry
    /\ pd[t][h].act \notin MissActs
    /\ pipe[pd[t][h].index] # pd[t][h].act

TornIsExplained ==
    \A t \in Tables, h \in AnyHdl :
        Torn(t, h) =>
            LET i == pd[t][h].index
            IN  \/ pc # "idle" /\ cur.id = i
                \/ \E f \in Flows : /\ ft[f].priv = i
                                    /\ failed[f] \cap {"create_pipe", "modify_pipe"} # {}

\* A live default flow loses the default entry of its table, unless its own deletion
\* is or was left half done, only to another default flow of that table, one whose
\* creation failed included.
DefaultLostToDefault ==
    \A f \in Flows :
        Live(f) /\ ft[f].dflt /\ ~(pc = "delete_pipe" /\ cur.flow = f)
            /\ "delete_pipe" \notin failed[f] =>
            LET e == pd[ft[f].tid][DefHdl]
            IN  \/ e # NoEntry /\ e.match = f
                \/ \E g \in Flows \ {f} :
                      \/ ft[g].dflt /\ ft[g].tid = ft[f].tid
                      \/ Running(g) /\ cur.dflt /\ cur.tid = ft[f].tid
                      \/ "create_pipe" \in failed[g] /\ e # NoEntry /\ e.match = g

\* A flow Indigo has is answered NOT_FOUND only when the arrays, which keep the
\* keys of deleted flows, have outgrown what the getters' test can read.
NotFoundOnlyPastLeaf ==
    rv = "NOT_FOUND" => Population(entryHdl, NoHdl) > JudyLeafMax

\* The window between the two PD calls of a callback closes: once it has
\* returned its entry and pipeline agree, or the controller has been told.
TornWindowCloses ==
    \A t \in Tables, h \in AnyHdl :
        Torn(t, h) /\ pc # "idle" /\ cur.id = pd[t][h].index
            ~> pc = "idle" /\ (Torn(t, h) => rv = "UNKNOWN")

===============================================================================
