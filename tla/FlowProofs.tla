----------------------------- MODULE FlowProofs -----------------------------
(***************************************************************************)
(* Theorems about the flow callbacks, for every value of the constants.    *)
(***************************************************************************)
EXTENDS FlowInductive, TLAPS

(***************************************************************************)
(* Facts about the lookups: they report a key only if it is recorded.      *)
(***************************************************************************)
\* flow_modify and flow_delete go on only with a recorded handle and table.
LEMMA KnownIsRecorded ==
    ASSUME NEW id, Known(id)
    PROVE  entryHdl[id] # NoHdl /\ tableId[id] # NoTable
  BY DEF Known, flow_id_entry_hdl_get, flow_id_table_id_get, J1T

\* The wrapper getters find registered tables only.
LEMMA FoundIsRegistered ==
    ASSUME NEW t, TRUE \in table_fn_get(t)
    PROVE  t \in Tables
  BY DEF table_fn_get

\* What a setter assigns is seen wherever create_record is expanded below.
USE DEF flow_id_entry_hdl_set, flow_id_table_id_set

(***************************************************************************)
(* Type correctness                                                        *)
(***************************************************************************)
\* The ghost grows by lasting errors, and dropping a flow changes its life only.
LEMMA ErrorType ==
    ASSUME TypeOK, NEW f \in Flows, NEW p, NEW e \in Errors,
           ReturnError(f, p, e)
    PROVE  failed' \in [Flows -> SUBSET Lasting] /\ rv' \in Errors
<1>1. failed[f] \cup ({p} \cap Lasting) \in SUBSET Lasting
  BY DEF TypeOK
<1> QED
  BY <1>1 DEF TypeOK, ReturnError

LEMMA DroppedType ==
    ASSUME TypeOK, NEW f \in Flows, Dropped(f)
    PROVE  /\ ft' \in [Flows -> FlowRec]
           /\ ft'[f].life = "gone" /\ ft'[f].priv = ft[f].priv
           /\ \A g \in Flows \ {f} : ft'[g] = ft[g]
<1>1. ft[f] \in FlowRec /\ ft' = [ft EXCEPT ![f] = [ft[f] EXCEPT !.life = "gone"]]
  BY DEF TypeOK, Dropped
<1>2. /\ [ft[f] EXCEPT !.life = "gone"] \in FlowRec
      /\ [ft[f] EXCEPT !.life = "gone"].life = "gone"
      /\ [ft[f] EXCEPT !.life = "gone"].priv = ft[f].priv
  BY <1>1 DEF FlowRec
<1> QED
  BY <1>1, <1>2 DEF TypeOK

\* A flow whose creation is refused leaves too, known by the id it was to have.
Leaves(f) == Dropped(f) \/ \E id \in Ids : Refused(f, id)

LEMMA LeavesType ==
    ASSUME TypeOK, NEW f \in Flows, Leaves(f)
    PROVE  /\ ft' \in [Flows -> FlowRec]
           /\ ft'[f].life = "gone" /\ ft'[f].tid = ft[f].tid /\ ft'[f].dflt = ft[f].dflt
           /\ \A g \in Flows \ {f} : ft'[g] = ft[g]
<1>1. PICK i \in Ids : ft' = [ft EXCEPT ![f] = [ft[f] EXCEPT !.life = "gone", !.priv = i]]
  <2>1. CASE Dropped(f)
    <3>1. ft[f] \in FlowRec /\ ft' = [ft EXCEPT ![f] = [ft[f] EXCEPT !.life = "gone"]]
      BY <2>1 DEF TypeOK, Dropped
    <3>2. [ft[f] EXCEPT !.life = "gone"] = [ft[f] EXCEPT !.life = "gone", !.priv = ft[f].priv]
      BY <3>1 DEF FlowRec
    <3> QED BY <3>1, <3>2 DEF FlowRec
  <2>2. CASE \E id \in Ids : Refused(f, id)
    BY <2>2 DEF Refused
  <2> QED BY <2>1, <2>2 DEF Leaves
<1>2. /\ [ft[f] EXCEPT !.life = "gone", !.priv = i] \in FlowRec
      /\ [ft[f] EXCEPT !.life = "gone", !.priv = i].life = "gone"
      /\ [ft[f] EXCEPT !.life = "gone", !.priv = i].tid = ft[f].tid
      /\ [ft[f] EXCEPT !.life = "gone", !.priv = i].dflt = ft[f].dflt
  BY DEF FlowRec, TypeOK
<1> QED
  BY <1>1, <1>2 DEF TypeOK

\* The id a flow is to be known by is set before anything else of it.
LEMMA KeyedType ==
    ASSUME TypeOK, NEW f \in Flows, NEW id \in Ids, ft' = [ft EXCEPT ![f].priv = id]
    PROVE  /\ ft' \in [Flows -> FlowRec] /\ ft'[f].priv = id
           /\ ft'[f].life = ft[f].life /\ ft'[f].tid = ft[f].tid /\ ft'[f].dflt = ft[f].dflt
           /\ \A g \in Flows \ {f} : ft'[g] = ft[g]
<1>1. ft' = [ft EXCEPT ![f] = [ft[f] EXCEPT !.priv = id]]
  OBVIOUS
<1>2. /\ [ft[f] EXCEPT !.priv = id] \in FlowRec /\ [ft[f] EXCEPT !.priv = id].priv = id
      /\ [ft[f] EXCEPT !.priv = id].life = ft[f].life
      /\ [ft[f] EXCEPT !.priv = id].tid = ft[f].tid
      /\ [ft[f] EXCEPT !.priv = id].dflt = ft[f].dflt
  BY DEF FlowRec, TypeOK
<1> QED
  BY <1>1, <1>2 DEF TypeOK

\* Every step of the callbacks keeps every variable in its type, and a running
\* callback has a handle and an action set whenever a PD call needs them.
LEMMA TypeStep == TypeOK /\ [Next]_vars => TypeOK'
<1> SUFFICES ASSUME TypeOK, [Next]_vars PROVE TypeOK'
  OBVIOUS
<1> USE DEF TypeOK
<1>1. ASSUME NEW f \in Flows, NEW id \in Ids, NEW t \in Tables, NEW a \in Acts,
             NEW d \in BOOLEAN,
             CreateCall(f, id, t, a, d)
      PROVE  TypeOK'
  <2>1. ft' \in [Flows -> FlowRec]
    BY <1>1, KeyedType DEF CreateCall
  <2> QED
    BY <1>1, <2>1 DEF CreateCall, Start, Frame, Calling
<1>2. ASSUME NEW f \in Flows, NEW id \in Ids, NEW t \in MsgTables, NEW d \in BOOLEAN,
             CreateReject(f, id, t, d)
      PROVE  TypeOK'
  <2>1. failed' \in [Flows -> SUBSET Lasting] /\ rv' \in Errors
    BY <1>2, ErrorType DEF CreateReject, Errors
  <2>2. ft' \in [Flows -> FlowRec]
    BY <1>2, LeavesType DEF CreateReject, Leaves
  <2> QED
    BY <1>2, <2>1, <2>2 DEF CreateReject, ReturnError
<1>3. ASSUME NEW f \in Flows, NEW a \in Acts, ModifyCall(f, a)
      PROVE  TypeOK'
  <2>1. entryHdl[ft[f].priv] \in AnyHdl /\ tableId[ft[f].priv] \in Tables
    BY <1>3, KnownIsRecorded DEF ModifyCall, FlowRec
  <2> QED
    BY <1>3, <2>1 DEF ModifyCall, Start, Recorded, Frame, FlowRec, Calling
<1>4. ASSUME NEW f \in Flows, ModifyReject(f)
      PROVE  TypeOK'
  <2>1. failed' \in [Flows -> SUBSET Lasting] /\ rv' \in Errors
    BY <1>4, ErrorType DEF ModifyReject, LookupFails, Errors
  <2> QED
    BY <1>4, <2>1 DEF ModifyReject, LookupFails, ReturnError
<1>5. ASSUME NEW f \in Flows, DeleteCall(f)
      PROVE  TypeOK'
  <2>1. entryHdl[ft[f].priv] \in AnyHdl /\ tableId[ft[f].priv] \in Tables
    BY <1>5, KnownIsRecorded DEF DeleteCall, FlowRec
  <2> QED
    BY <1>5, <2>1 DEF DeleteCall, Start, Recorded, Frame, FlowRec, Calling
<1>6. ASSUME NEW f \in Flows, DeleteReject(f)
      PROVE  TypeOK'
  <2>1. failed' \in [Flows -> SUBSET Lasting] /\ rv' \in Errors
    BY <1>6, ErrorType DEF DeleteReject, LookupFails, Errors
  <2>2. ft' \in [Flows -> FlowRec]
    BY <1>6, DroppedType DEF DeleteReject, DeleteFailed
  <2> QED
    BY <1>6, <2>1, <2>2 DEF DeleteReject, LookupFails, ReturnError
<1>7. ASSUME NEW h \in AnyHdl, CreateEntry(h)
      PROVE  TypeOK'
  BY <1>7 DEF CreateEntry, Frame, Entry, Calling
<1>8. CASE CreatePipe
  BY <1>8 DEF CreatePipe, Advance, Frame, Calling
<1>9. CASE CreateRecord
  BY <1>9 DEF CreateRecord, Created, ReturnNone, Frame, FlowRec
<1>10. CASE CreateFails
  <2>0. cur.flow \in Flows
    BY <1>10 DEF CreateFails, Frame
  <2>1. failed' \in [Flows -> SUBSET Lasting] /\ rv' \in Errors
    BY <1>10, <2>0, ErrorType DEF CreateFails, Errors
  <2>2. ft' \in [Flows -> FlowRec]
    BY <1>10, <2>0, DroppedType DEF CreateFails
  <2> QED
    BY <1>10, <2>1, <2>2 DEF CreateFails, ReturnError
<1>11. CASE ModifyEntry
  <2>1. /\ cur \in Frame /\ cur.tid \in Tables /\ cur.hdl \in AnyHdl
        /\ cur.id \in Ids /\ cur.act \in Acts
        /\ pd[cur.tid][cur.hdl].match \in Flows
    BY <1>11 DEF ModifyEntry, Frame, Entry
  <2>2. pd' \in [Tables -> [AnyHdl -> Entry \cup {NoEntry}]]
    BY <1>11, <2>1 DEF ModifyEntry, Entry
  <2> QED
    BY <1>11, <2>1, <2>2 DEF ModifyEntry, ReturnNone, Advance, Calling
<1>12. CASE ModifyPipe
  BY <1>12 DEF ModifyPipe, Frame
<1>13. CASE ModifyFails
  <2>0. cur.flow \in Flows
    BY <1>13 DEF ModifyFails, Frame
  <2>1. failed' \in [Flows -> SUBSET Lasting] /\ rv' \in Errors
    BY <1>13, <2>0, ErrorType DEF ModifyFails, Errors
  <2> QED
    BY <1>13, <2>1 DEF ModifyFails, ReturnError
<1>14. CASE DeleteEntry
  BY <1>14 DEF DeleteEntry, Advance, Frame, Calling
<1>15. CASE DeletePipe
  BY <1>15 DEF DeletePipe, Dropped, ReturnNone, Frame, FlowRec
<1>16. CASE DeleteFails
  <2>0. cur.flow \in Flows
    BY <1>16 DEF DeleteFails, Frame
  <2>1. failed' \in [Flows -> SUBSET Lasting] /\ rv' \in Errors
    BY <1>16, <2>0, ErrorType DEF DeleteFails, Errors
  <2>2. ft' \in [Flows -> FlowRec]
    BY <1>16, <2>0, DroppedType DEF DeleteFails, DeleteFailed
  <2> QED
    BY <1>16, <2>1, <2>2 DEF DeleteFails, ReturnError
<1>17. CASE UNCHANGED vars
  BY <1>17 DEF vars
<1> QED
  BY <1>1, <1>2, <1>3, <1>4, <1>5, <1>6, <1>7, <1>8, <1>9, <1>10, <1>11, <1>12,
     <1>13, <1>14, <1>15, <1>16, <1>17 DEF Next, Messages, PdCalls

LEMMA TypeInit == Init => TypeOK
  BY DEF Init, TypeOK, FlowRec, Ids

\* The type invariant of the flow callbacks holds in every behaviour, whatever
\* cookies the messages carry and whatever the PD calls answer.
THEOREM TypeCorrect == Spec => []TypeOK
  BY TypeInit, TypeStep, PTL DEF Spec

\* A running callback uses the id its flow is known by, two flows by one id or not.
LEMMA KeyStep == TypeOK /\ CallHasKey /\ [Next]_vars => CallHasKey'
<1> SUFFICES ASSUME TypeOK, CallHasKey, [Next]_vars, pc' # "idle"
             PROVE  cur'.id = ft'[cur'.flow].priv
  BY DEF CallHasKey
<1>1. ASSUME NEW f \in Flows, NEW id \in Ids, NEW t \in Tables, NEW a \in Acts,
             NEW d \in BOOLEAN, CreateCall(f, id, t, a, d)
      PROVE  cur'.id = ft'[cur'.flow].priv
  BY <1>1, KeyedType DEF CreateCall, Start
<1>2. ASSUME NEW f \in Flows, NEW a, NEW call, Start(call, Recorded(f, ft[f].priv, a)), UNCHANGED ft
      PROVE  cur'.id = ft'[cur'.flow].priv
  BY <1>2 DEF Start, Recorded
<1>3. ASSUME NEW h \in AnyHdl, CreateEntry(h)
      PROVE  cur'.id = ft'[cur'.flow].priv
  BY <1>3 DEF CreateEntry, TypeOK, Frame, CallHasKey
<1>4. CASE CreatePipe \/ ModifyEntry \/ DeleteEntry \/ UNCHANGED vars
  BY <1>4 DEF CreatePipe, ModifyEntry, DeleteEntry, Advance, ReturnNone, vars, CallHasKey
<1> QED
  BY <1>1, <1>2, <1>3, <1>4 DEF Next, Messages, PdCalls, CreateReject, ModifyCall,
     ModifyReject, DeleteCall, DeleteReject, CreateRecord, CreateFails, ModifyPipe, ModifyFails, DeletePipe,
     DeleteFails, LookupFails, ReturnError, ReturnNone

LEMMA KeyInvariant == Spec => []CallHasKey
<1>1. Init => CallHasKey
  BY DEF Init, CallHasKey
<1> QED
  BY <1>1, KeyStep, TypeCorrect, PTL DEF Spec

\* Every live flow is in both arrays, cookie masks or not: flow_create returns
\* INDIGO_ERROR_NONE only after it has filled them, and nothing empties them.
THEOREM LiveFlowsAreRecorded == Spec => []LiveFlowsRecorded
<1>1. Init => LiveFlowsRecorded
  BY DEF Init, LiveFlowsRecorded, Live
<1>2. TypeOK /\ CallHasKey /\ LiveFlowsRecorded /\ [Next]_vars => LiveFlowsRecorded'
  <2> SUFFICES ASSUME TypeOK, CallHasKey, LiveFlowsRecorded, [Next]_vars,
                      NEW f \in Flows, Live(f)'
               PROVE  entryHdl'[ft'[f].priv] # NoHdl /\ tableId'[ft'[f].priv] # NoTable
    BY DEF LiveFlowsRecorded
  <2>1. CASE CreateRecord
    <3>1. /\ cur \in Frame /\ cur.hdl \in AnyHdl /\ cur.id = ft[cur.flow].priv
          /\ ft' = [ft EXCEPT ![cur.flow] = [life |-> "live", priv |-> ft[cur.flow].priv,
                                             tid |-> cur.tid, dflt |-> cur.dflt]]
          /\ tableId' = [tableId EXCEPT ![cur.id] = cur.tid]
          /\ entryHdl' = [entryHdl EXCEPT ![cur.id] = cur.hdl]
      BY <2>1 DEF TypeOK, CallHasKey, CreateRecord, Created
    <3>2. /\ tableId'[cur.id] # NoTable /\ entryHdl'[cur.id] # NoHdl
          /\ \A i \in Ids \ {cur.id} :
                 tableId'[i] = tableId[i] /\ entryHdl'[i] = entryHdl[i]
      BY <3>1, TableAssumption, HandleAssumption DEF TypeOK, Frame, AnyHdl
    <3>3. IF f = cur.flow THEN ft'[f].priv = cur.id ELSE ft'[f] = ft[f]
      BY <3>1 DEF TypeOK, Frame
    <3> QED
      BY <3>2, <3>3 DEF TypeOK, LiveFlowsRecorded, Live, FlowRec
  <2>2. CASE ~CreateRecord
    <3>1. UNCHANGED <<entryHdl, tableId>>
      BY <2>2 DEF Next, Messages, PdCalls, CreateCall, CreateReject, ModifyCall,
            ModifyReject, DeleteCall, DeleteReject, CreateEntry, CreatePipe, CreateFails,
            ModifyEntry, ModifyPipe, ModifyFails, DeleteEntry, DeletePipe, DeleteFails, vars
    <3>2. ft'[f] = ft[f]
      <4>1. \/ UNCHANGED ft
            \/ \E g \in Flows : Leaves(g)
            \/ \E g \in Flows, id \in Ids :
                   ft[g].life = "unused" /\ ft' = [ft EXCEPT ![g].priv = id]
        BY <2>2 DEF Next, Messages, PdCalls, CreateCall, CreateReject, ModifyCall,
              ModifyReject, DeleteCall, DeleteReject, CreateEntry, CreatePipe, CreateFails,
              ModifyEntry, ModifyPipe, ModifyFails, DeleteEntry, DeletePipe, DeleteFails,
              DeleteFailed, Leaves, vars, TypeOK, Frame
      <4> QED
        BY <4>1, LeavesType, KeyedType DEF Live
    <3> QED
      BY <3>1, <3>2 DEF LiveFlowsRecorded, Live
  <2> QED
    BY <2>1, <2>2
<1> QED
  BY <1>1, <1>2, TypeCorrect, KeyInvariant, PTL DEF Spec

(***************************************************************************)
(* The inductive invariant                                                 *)
(***************************************************************************)
\* The lasting errors of a flow are never taken back, but for the one that a later
\* modify of its pipeline mends.
LEMMA FailedStays ==
    ASSUME TypeOK, [Next]_vars, NEW f \in Flows, NEW p \in failed[f], p # "modify_pipe"
    PROVE  p \in failed'[f]
<1>1. ASSUME NEW k \in Flows, NEW point, NEW e, ReturnError(k, point, e)
      PROVE  p \in failed'[f]
  BY <1>1 DEF TypeOK, ReturnError
<1>2. \/ UNCHANGED failed \/ ModifyPipe
      \/ \E k \in Flows : \E point, e : ReturnError(k, point, e)
  BY DEF Next, Messages, PdCalls, CreateCall, CreateReject, ModifyCall, ModifyReject, DeleteCall,
     DeleteReject, CreateEntry, CreatePipe, CreateRecord, CreateFails, ModifyEntry, ModifyFails,
     DeleteEntry, DeletePipe, DeleteFails, Start, Advance, LookupFails, ReturnNone, vars,
     TypeOK, Frame
<1>3. CASE ModifyPipe
  BY <1>3 DEF ModifyPipe, TypeOK, Frame
<1> QED
  BY <1>1, <1>2, <1>3

\* A flow that has been created or refused keeps its id, its table and its kind, and is
\* never unused again.  Its id is recorded for another only once it owns it no more.
LEMMA UsedStays ==
    ASSUME KeysApart, IInv, [Next]_vars, NEW g \in Flows
    PROVE  /\ ft[g].life # "unused" =>
                  /\ ft'[g].life = ft[g].life \/ ft'[g].life = "gone"
                  /\ ft'[g].priv = ft[g].priv /\ ft'[g].tid = ft[g].tid /\ ft'[g].dflt = ft[g].dflt
           /\ ft[g].life # "unused" /\ Owns(g) =>
                  /\ tableId'[ft[g].priv] = tableId[ft[g].priv]
                  /\ entryHdl'[ft[g].priv] = entryHdl[ft[g].priv]
           /\ ft'[g].life = "unused" => ft[g].life = "unused"
<1>0. TypeOK
  BY DEF IInv
<1>1. CASE CreateRecord
  <2>1. /\ cur \in Frame /\ cur.id = ft[cur.flow].priv /\ ft[cur.flow].life = "unused"
        /\ ft' = [ft EXCEPT ![cur.flow] = [life |-> "live", priv |-> ft[cur.flow].priv,
                                           tid |-> cur.tid, dflt |-> cur.dflt]]
        /\ tableId' = [tableId EXCEPT ![cur.id] = cur.tid]
        /\ entryHdl' = [entryHdl EXCEPT ![cur.id] = cur.hdl]
    BY <1>1 DEF IInv, TypeOK, CallHasKey, FrameMatchesFlow, Creating, CreateRecord, Created
  <2>2. cur.flow \in Flows /\ cur.id \in Ids /\ ft[g].priv \in Ids
    BY <1>0, <2>1 DEF Frame, TypeOK, FlowRec
  <2>3. CASE g = cur.flow
    BY <1>0, <2>1, <2>2, <2>3 DEF TypeOK
  <2>4. CASE g # cur.flow
    <3>1. Owns(g) => ft[g].priv # cur.id
      BY <1>1, <2>1, <2>2, <2>4 DEF KeysApart, Owns, Running, CreateRecord
    <3> QED
      BY <1>0, <2>1, <2>2, <2>4, <3>1 DEF TypeOK
  <2> QED
    BY <2>3, <2>4
<1>2. ASSUME NEW f \in Flows, NEW id \in Ids, ft[f].life = "unused",
             ft' = [ft EXCEPT ![f].priv = id], UNCHANGED <<entryHdl, tableId>>
      PROVE  /\ ft[g].life # "unused" => ft'[g] = ft[g] /\ UNCHANGED <<entryHdl, tableId>>
             /\ ft'[g].life = "unused" => ft[g].life = "unused"
  BY <1>0, <1>2, KeyedType
<1>3. ASSUME NEW f \in Flows, NEW id \in Ids, ft[f].life = "unused", Refused(f, id)
      PROVE  /\ ft[g].life # "unused" => ft'[g] = ft[g]
             /\ ft'[g].life = "unused" => ft[g].life = "unused"
  BY <1>0, <1>3, LeavesType DEF Leaves
<1>4. ASSUME NEW f \in Flows, Dropped(f)
      PROVE  /\ ft'[g].life = ft[g].life \/ ft'[g].life = "gone"
             /\ ft'[g].priv = ft[g].priv /\ ft'[g].tid = ft[g].tid /\ ft'[g].dflt = ft[g].dflt
  BY <1>0, <1>4, DroppedType, LeavesType DEF Leaves
<1>5. \/ CreateRecord
      \/ UNCHANGED <<ft, entryHdl, tableId>>
      \/ /\ UNCHANGED <<entryHdl, tableId>>
         /\ \E f \in Flows :
               \/ Dropped(f)
               \/ /\ ft[f].life = "unused"
                  /\ \E id \in Ids : Refused(f, id) \/ ft' = [ft EXCEPT ![f].priv = id]
  BY <1>0 DEF Next, Messages, PdCalls, CreateCall, CreateReject, ModifyCall, ModifyReject,
     DeleteCall, DeleteReject, CreateEntry, CreatePipe, CreateFails, ModifyEntry, ModifyPipe,
     ModifyFails, DeleteEntry, DeletePipe, DeleteFails, DeleteFailed, vars, TypeOK, Frame
<1> QED
  BY <1>1, <1>2, <1>3, <1>4, <1>5

\* A flow that is unused was unused before, and no callback has failed for it.
LEMMA UnusedStep ==
    ASSUME KeysApart, IInv, [Next]_vars
    PROVE  UnusedNeverFailed'
<1> SUFFICES ASSUME NEW f \in Flows, ft'[f].life = "unused"
             PROVE  failed'[f] = {}
  BY DEF UnusedNeverFailed
<1>1. ft[f].life = "unused"
  BY UsedStays
<1>2. failed[f] = {}
  BY <1>1 DEF IInv, UnusedNeverFailed
<1>3. ASSUME NEW g \in Flows, NEW p, NEW e, ReturnError(g, p, e), ft'[g].life # "unused"
      PROVE  failed'[f] = {}
  BY <1>2, <1>3 DEF IInv, TypeOK, ReturnError
<1>4. ASSUME NEW g \in Flows, NEW p, NEW e, ReturnError(g, p, e), Leaves(g)
      PROVE  failed'[f] = {}
  BY <1>3, <1>4, LeavesType DEF IInv
<1>5. CASE ModifyPipe
  BY <1>2, <1>5 DEF ModifyPipe, IInv, TypeOK, Frame
<1>6. CASE ModifyFails \/ DeleteFails
  <2>1. cur.flow \in Flows /\ ft[cur.flow].life = "live"
    BY <1>6 DEF ModifyFails, DeleteFails, IInv, TypeOK, Frame, FrameMatchesFlow,
       Modifying, Deleting
  <2>2. ft'[cur.flow].life # "unused" \/ Dropped(cur.flow)
    BY <1>6, <2>1 DEF ModifyFails, DeleteFails, DeleteFailed
  <2> QED
    BY <1>3, <1>4, <1>6, <2>1, <2>2 DEF ModifyFails, DeleteFails, Leaves
<1>7. ASSUME NEW g \in Flows, ModifyReject(g) \/ DeleteReject(g)
      PROVE  failed'[f] = {}
  BY <1>3, <1>4, <1>7 DEF ModifyReject, DeleteReject, LookupFails, DeleteFailed, Leaves
<1>8. CASE \/ CreateFails
           \/ \E g \in Flows, id \in Ids, t \in MsgTables, d \in BOOLEAN :
                  CreateReject(g, id, t, d)
  BY <1>4, <1>8 DEF CreateFails, CreateReject, IInv, TypeOK, Frame, Leaves
<1>9. CASE UNCHANGED failed
  BY <1>2, <1>9
<1> QED
  BY <1>5, <1>6, <1>7, <1>8, <1>9
     DEF Next, Messages, PdCalls, CreateCall, ModifyCall, DeleteCall,
     CreateEntry, CreatePipe, CreateRecord, ModifyEntry, DeleteEntry, DeletePipe,
     Start, Advance, ReturnNone, vars

\* A handle that is stale stays so.
LEMMA StaleStays ==
    ASSUME KeysApart, IInv, [Next]_vars
    PROVE  StaleHandles \subseteq StaleHandles'
<1> SUFFICES ASSUME NEW s \in StaleHandles PROVE s \in StaleHandles'
  OBVIOUS
<1>1. PICK f \in Flows : /\ TRUE \in KeepOnDeleteError /\ "delete_pipe" \in failed[f]
                         /\ s = <<tableId[ft[f].priv], entryHdl[ft[f].priv]>>
  BY DEF StaleHandles
<1>2. "delete_pipe" \in failed'[f]
  BY <1>1, FailedStays DEF IInv
<1>3. ft[f].life # "unused" /\ Owns(f)
  BY <1>1 DEF IInv, UnusedNeverFailed, Owns
<1>4. ft'[f].priv = ft[f].priv /\ s = <<tableId'[ft'[f].priv], entryHdl'[ft'[f].priv]>>
  BY <1>1, <1>3, UsedStays
<1> QED
  BY <1>1, <1>2, <1>4 DEF StaleHandles

\* Dropping a flow, at the end of a callback for it or instead of one, disturbs
\* no other flow and leaves no entry of an unused flow.
LEMMA DropStep ==
    ASSUME KeysApart, IInv, TypeOK', UnusedNeverFailed', StaleHandles \subseteq StaleHandles',
           NEW f \in Flows, Leaves(f),
           pc # "idle" => cur.flow = f,
           pc' = "idle", UNCHANGED <<entryHdl, tableId, pd>>
    PROVE  IInv'
<1>1. /\ ft'[f].life = "gone"
      /\ \A g \in Flows \ {f} : ft'[g] = ft[g]
  BY LeavesType DEF IInv
<1>2. CallHasKey'
  BY DEF CallHasKey
<1>3. FrameMatchesFlow' /\ NewEntryIsOwn'
  BY DEF FrameMatchesFlow, NewEntryIsOwn, Creating, Created1, Modifying, Deleting
<1>4. RecordsMatchFlow'
  BY <1>1 DEF IInv, RecordsMatchFlow, Live
<1>5. LiveEntryIsOwn'
  BY <1>1 DEF IInv, LiveEntryIsOwn, Live, EntryOf
<1>6. UnusedHasNoEntry'
  <2> SUFFICES ASSUME NEW t \in Tables, NEW h \in Handles,
                      pd[t][h] # NoEntry, ft'[pd[t][h].match].life = "unused"
               PROVE  FALSE
    BY DEF UnusedHasNoEntry
  <2>1. pd[t][h].match \in Flows
    BY DEF IInv, TypeOK, Entry, AnyHdl
  <2>2. pd[t][h].match # f /\ ft[pd[t][h].match].life = "unused"
    BY <1>1, <2>1
  <2> QED
    BY <2>2 DEF IInv, UnusedHasNoEntry, Created1
<1> QED
  BY <1>2, <1>3, <1>4, <1>5, <1>6 DEF IInv

\* A callback that returns leaving flow table, arrays and entries alone keeps the
\* invariant, unless it was making the flow's entry; if it was removing it, Indigo has
\* kept the flow and the handle is stale.
LEMMA QuietReturn ==
    ASSUME IInv, TypeOK', UnusedNeverFailed', StaleHandles \subseteq StaleHandles',
           ~Created1, pc' = "idle",
           pc = "delete_pipe" => <<tableId[cur.id], entryHdl[cur.id]>> \in StaleHandles',
           UNCHANGED <<ft, entryHdl, tableId, pd>>
    PROVE  IInv'
<1>1. CallHasKey' /\ FrameMatchesFlow' /\ NewEntryIsOwn'
  BY DEF IInv, CallHasKey, FrameMatchesFlow, NewEntryIsOwn, Creating, Created1,
         Modifying, Deleting
<1>2. RecordsMatchFlow' /\ LiveEntryIsOwn'
  BY DEF IInv, CallHasKey, RecordsMatchFlow, LiveEntryIsOwn, Live, EntryOf
<1>3. UnusedHasNoEntry'
  BY DEF IInv, UnusedHasNoEntry, Created1
<1> QED
  BY <1>1, <1>2, <1>3 DEF IInv

\* The entry a PD call of flow_modify or flow_delete is about to write is that of the
\* flow, if its handle is not stale.
LEMMA CalledEntryIsOwn ==
    ASSUME IInv, pc \in {"modify_entry", "modify_pipe", "delete_entry"}, cur.hdl \in Handles,
           <<cur.tid, cur.hdl>> \notin StaleHandles
    PROVE  /\ cur.flow \in Flows /\ Live(cur.flow) /\ ~ft[cur.flow].dflt
           /\ cur.id = ft[cur.flow].priv
           /\ pd[cur.tid][cur.hdl] # NoEntry
           /\ pd[cur.tid][cur.hdl].match = cur.flow
           /\ pd[cur.tid][cur.hdl].index = cur.id
<1>1. /\ cur.flow \in Flows /\ Live(cur.flow) /\ cur.id = ft[cur.flow].priv
      /\ cur.hdl = entryHdl[cur.id] /\ cur.tid = tableId[cur.id]
  BY DEF IInv, TypeOK, CallHasKey, FrameMatchesFlow, Modifying, Deleting, Frame, Live
<1>2. ~ft[cur.flow].dflt
  BY <1>1, HandleAssumption DEF IInv, RecordsMatchFlow
<1>3. /\ EntryOf(cur.flow) = pd[cur.tid][cur.hdl]
      /\ <<tableId[ft[cur.flow].priv], entryHdl[ft[cur.flow].priv]>> \notin StaleHandles
  BY <1>1 DEF EntryOf
<1> QED
  BY <1>1, <1>2, <1>3 DEF IInv, LiveEntryIsOwn

LEMMA IndStep ==
    ASSUME KeysApart, IInv, [Next]_vars
    PROVE  IInv'
<1>0. /\ TypeOK /\ TypeOK' /\ UnusedNeverFailed' /\ StaleHandles \subseteq StaleHandles'
      /\ \A g \in Flows : ft[g].priv \in Ids
  BY TypeStep, UnusedStep, StaleStays DEF IInv, TypeOK, FlowRec
<1> USE DEF Creating, Created1, Modifying, Deleting, Live
<1>1. ASSUME NEW f \in Flows, NEW id \in Ids, NEW t \in Tables, NEW a \in Acts, NEW d \in BOOLEAN,
             CreateCall(f, id, t, a, d)
      PROVE  IInv'
  <2>k. /\ ft'[f].priv = id /\ ft'[f].life = "unused" /\ ft[f].life = "unused"
        /\ \A g \in Flows \ {f} : ft'[g] = ft[g]
    BY <1>0, <1>1, KeyedType DEF CreateCall
  <2>1. CallHasKey'
    BY <1>0, KeyStep DEF IInv
  <2>2. FrameMatchesFlow'
    BY <1>1, <2>k DEF FrameMatchesFlow, CreateCall, Start
  <2>3. RecordsMatchFlow'
    BY <1>0, <1>1, <2>k DEF IInv, TypeOK, RecordsMatchFlow, CreateCall, Start
  <2>4. LiveEntryIsOwn'
    BY <1>0, <1>1, <2>k DEF IInv, TypeOK, LiveEntryIsOwn, CreateCall, Start, EntryOf
  <2>5. NewEntryIsOwn'
    BY <1>0, <1>1 DEF IInv, TypeOK, NewEntryIsOwn, CreateCall, Start, Frame
  <2>6. UnusedHasNoEntry'
    <3> SUFFICES ASSUME NEW u \in Tables, NEW h \in Handles, pd[u][h] # NoEntry,
                        ft'[pd[u][h].match].life = "unused"
                 PROVE  FALSE
      BY <1>1 DEF UnusedHasNoEntry, CreateCall
    <3>1. pd[u][h].match \in Flows
      BY <1>0 DEF TypeOK, Entry, AnyHdl
    <3>2. ft[pd[u][h].match].life = "unused"
      BY <2>k, <3>1
    <3> QED
      BY <1>1, <3>2 DEF IInv, UnusedHasNoEntry, CreateCall
  <2> QED
    BY <1>0, <2>1, <2>2, <2>3, <2>4, <2>5, <2>6 DEF IInv
<1>2. ASSUME NEW f \in Flows, NEW id \in Ids, NEW t \in MsgTables, NEW d \in BOOLEAN,
             CreateReject(f, id, t, d)
      PROVE  IInv'
  BY <1>0, <1>2, DropStep DEF CreateReject, ReturnError, Leaves
<1>3. ASSUME NEW f \in Flows, NEW a \in Acts, ModifyCall(f, a)
      PROVE  IInv'
  <2>1. CallHasKey'
    BY <1>0, KeyStep DEF IInv
  <2>2. FrameMatchesFlow'
    BY <1>0, <1>3
       DEF IInv, TypeOK, CallHasKey, FrameMatchesFlow, ModifyCall, Start, Recorded, Frame, FlowRec
  <2>3. RecordsMatchFlow'
    BY <1>0, <1>3 DEF IInv, TypeOK, RecordsMatchFlow, ModifyCall, Start, Recorded
  <2>4. LiveEntryIsOwn'
    BY <1>0, <1>3 DEF IInv, TypeOK, LiveEntryIsOwn, EntryOf, ModifyCall, Start, Recorded
  <2>5. NewEntryIsOwn'
    BY <1>0, <1>3 DEF IInv, TypeOK, NewEntryIsOwn, ModifyCall, Start, Recorded, Frame
  <2>6. UnusedHasNoEntry'
    BY <1>0, <1>3 DEF IInv, TypeOK, UnusedHasNoEntry, ModifyCall, Start, Recorded
  <2> QED
    BY <1>0, <2>1, <2>2, <2>3, <2>4, <2>5, <2>6 DEF IInv
<1>4. ASSUME NEW f \in Flows, ModifyReject(f)
      PROVE  IInv'
  BY <1>0, <1>4, QuietReturn DEF ModifyReject, LookupFails, ReturnError
<1>5. ASSUME NEW f \in Flows, DeleteCall(f)
      PROVE  IInv'
  <2>1. CallHasKey'
    BY <1>0, KeyStep DEF IInv
  <2>2. FrameMatchesFlow'
    BY <1>0, <1>5
       DEF IInv, TypeOK, CallHasKey, FrameMatchesFlow, DeleteCall, Start, Recorded, Frame, FlowRec
  <2>3. RecordsMatchFlow'
    BY <1>0, <1>5 DEF IInv, TypeOK, RecordsMatchFlow, DeleteCall, Start, Recorded
  <2>4. LiveEntryIsOwn'
    BY <1>0, <1>5 DEF IInv, TypeOK, LiveEntryIsOwn, EntryOf, DeleteCall, Start, Recorded
  <2>5. NewEntryIsOwn'
    BY <1>0, <1>5 DEF IInv, TypeOK, NewEntryIsOwn, DeleteCall, Start, Recorded, Frame
  <2>6. UnusedHasNoEntry'
    BY <1>0, <1>5 DEF IInv, TypeOK, UnusedHasNoEntry, DeleteCall, Start, Recorded
  <2> QED
    BY <1>0, <2>1, <2>2, <2>3, <2>4, <2>5, <2>6 DEF IInv
<1>6. ASSUME NEW f \in Flows, DeleteReject(f)
      PROVE  IInv'
  <2>1. pc = "idle" /\ pc' = "idle" /\ UNCHANGED <<entryHdl, tableId, pd>>
    BY <1>6 DEF DeleteReject, LookupFails, ReturnError
  <2> QED
    BY <1>0, <1>6, <2>1, DropStep, QuietReturn DEF DeleteReject, DeleteFailed, Leaves
<1>7. ASSUME NEW h \in AnyHdl, CreateEntry(h)
      PROVE  IInv'
  <2>1. CallHasKey'
    BY <1>0, KeyStep DEF IInv
  <2>2. FrameMatchesFlow'
    BY <1>0, <1>7 DEF IInv, TypeOK, FrameMatchesFlow, CreateEntry, Frame, FlowRec
  <2>3. RecordsMatchFlow'
    BY <1>0, <1>7 DEF IInv, TypeOK, RecordsMatchFlow, CreateEntry
  <2>u. UNCHANGED <<ft, entryHdl, tableId>>
    BY <1>7 DEF CreateEntry
  <2>4. LiveEntryIsOwn'
    <3> SUFFICES ASSUME NEW g \in Flows, Live(g), ~ft[g].dflt,
                        <<tableId[ft[g].priv], entryHdl[ft[g].priv]>> \notin StaleHandles
                 PROVE  LET e == pd'[tableId[ft[g].priv]][entryHdl[ft[g].priv]]
                        IN  e # NoEntry /\ e.match = g /\ e.index = ft[g].priv
      BY <1>0, <2>u DEF LiveEntryIsOwn, EntryOf
    <3> DEFINE t == tableId[ft[g].priv]
               k == entryHdl[ft[g].priv]
    <3>1. t \in Tables /\ k \in Handles
      BY <1>0 DEF IInv, TypeOK, RecordsMatchFlow
    <3>2. pd[t][k] # NoEntry /\ pd[t][k].match = g /\ pd[t][k].index = ft[g].priv
      BY <1>7 DEF IInv, LiveEntryIsOwn, EntryOf, CreateEntry
    <3>3. ~(cur.tid = t /\ h = k)
      BY <1>7, <3>1, <3>2, HandleAssumption DEF CreateEntry
    <3>4. pd'[t][k] = pd[t][k]
      BY <1>0, <1>7, <3>1, <3>3 DEF CreateEntry, TypeOK, AnyHdl
    <3> QED
      BY <3>2, <3>4
  <2>5. NewEntryIsOwn'
    BY <1>0, <1>7 DEF IInv, TypeOK, CallHasKey, AnyHdl, NewEntryIsOwn, CreateEntry, Frame
  <2>6. UnusedHasNoEntry'
    <3> SUFFICES ASSUME NEW t \in Tables, NEW k \in Handles, pd'[t][k] # NoEntry,
                        ft[pd'[t][k].match].life = "unused"
                 PROVE  (Created1 /\ ~cur.dflt /\ cur.flow = pd[t][k].match
                                  /\ cur.tid = t /\ cur.hdl = k)'
      BY <1>7 DEF UnusedHasNoEntry, CreateEntry
    <3>1. cur \in Frame /\ cur' = [cur EXCEPT !.hdl = h]
      BY <1>0, <1>7 DEF CreateEntry, TypeOK
    <3>2. t = cur.tid /\ k = h
      <4> SUFFICES ASSUME ~(t = cur.tid /\ k = h)
                   PROVE  FALSE
        OBVIOUS
      <4>1. pd'[t][k] = pd[t][k]
        BY <1>0, <1>7 DEF CreateEntry, TypeOK, AnyHdl
      <4> QED
        BY <1>7, <4>1 DEF IInv, UnusedHasNoEntry, CreateEntry
    <3>3. pd'[t][k] = [match |-> cur.flow, index |-> cur.id, act |-> cur.act]
      BY <1>0, <1>7, <3>2 DEF CreateEntry, TypeOK, AnyHdl
    <3> QED
      BY <1>7, <3>1, <3>2, <3>3, HandleAssumption DEF CreateEntry, Frame
  <2> QED
    BY <1>0, <2>1, <2>2, <2>3, <2>4, <2>5, <2>6 DEF IInv
<1>8. ASSUME CreatePipe
      PROVE  IInv'
  <2>1. CallHasKey'
    BY <1>0, KeyStep DEF IInv
  <2>2. FrameMatchesFlow'
    BY <1>0, <1>8 DEF IInv, TypeOK, FrameMatchesFlow, CreatePipe, Advance, Frame, FlowRec
  <2>3. RecordsMatchFlow'
    BY <1>0, <1>8 DEF IInv, TypeOK, RecordsMatchFlow, CreatePipe, Advance
  <2>4. LiveEntryIsOwn'
    BY <1>0, <1>8 DEF IInv, TypeOK, LiveEntryIsOwn, EntryOf, CreatePipe, Advance
  <2>5. NewEntryIsOwn'
    BY <1>0, <1>8 DEF IInv, TypeOK, NewEntryIsOwn, CreatePipe, Advance, Frame
  <2>6. UnusedHasNoEntry'
    BY <1>0, <1>8 DEF IInv, TypeOK, UnusedHasNoEntry, CreatePipe, Advance
  <2> QED
    BY <1>0, <2>1, <2>2, <2>3, <2>4, <2>5, <2>6 DEF IInv
<1>9. ASSUME CreateRecord
      PROVE  IInv'
  <2>c. /\ cur \in Frame /\ cur.id = ft[cur.flow].priv /\ ft[cur.flow].life = "unused"
        /\ ft' = [ft EXCEPT ![cur.flow] = [life |-> "live", priv |-> ft[cur.flow].priv,
                                           tid |-> cur.tid, dflt |-> cur.dflt]]
        /\ tableId' = [tableId EXCEPT ![cur.id] = cur.tid]
        /\ entryHdl' = [entryHdl EXCEPT ![cur.id] = cur.hdl]
        /\ pd' = pd /\ pc' = "idle"
    BY <1>0, <1>9 DEF IInv, TypeOK, CallHasKey, FrameMatchesFlow, CreateRecord, Created, ReturnNone
  <2>d. \A g \in Flows \ {cur.flow} :
           /\ ft'[g] = ft[g]
           /\ Live(g) => /\ tableId'[ft[g].priv] = tableId[ft[g].priv]
                         /\ entryHdl'[ft[g].priv] = entryHdl[ft[g].priv]
    BY <1>0, <2>c, UsedStays DEF TypeOK, Owns, Live
  <2>e. /\ cur.flow \in Flows /\ cur.id \in Ids /\ cur.tid \in Tables
        /\ ft'[cur.flow].tid = cur.tid /\ ft'[cur.flow].dflt = cur.dflt
        /\ ft'[cur.flow].priv = cur.id
        /\ tableId'[cur.id] = cur.tid /\ entryHdl'[cur.id] = cur.hdl
    BY <1>0, <2>c DEF TypeOK, Frame
  <2>1. CallHasKey'
    BY <1>0, KeyStep DEF IInv
  <2>2. FrameMatchesFlow'
    BY <1>0, <1>9
       DEF IInv, TypeOK, FrameMatchesFlow, CreateRecord, Created, ReturnNone, Frame, FlowRec
  <2>3. RecordsMatchFlow'
    BY <1>9, <2>c, <2>d, <2>e, TableAssumption
       DEF IInv, RecordsMatchFlow, NewEntryIsOwn, CreateRecord
  <2>4. LiveEntryIsOwn'
    <3>1. ASSUME ~cur.dflt
          PROVE  /\ pd[cur.tid][cur.hdl] # NoEntry
                 /\ pd[cur.tid][cur.hdl].match = cur.flow
                 /\ pd[cur.tid][cur.hdl].index = cur.id
      <4>1. pd[cur.tid][cur.hdl] =
              [match |-> cur.flow, index |-> cur.id, act |-> cur.act]
        BY <1>9, <3>1 DEF IInv, NewEntryIsOwn, CreateRecord
      <4>2. pd[cur.tid][cur.hdl] \in Entry
        BY <1>0, <1>9, <2>e, <4>1 DEF TypeOK, CreateRecord, Entry
      <4> QED
        BY <4>1, <4>2, EntryAssumption
    <3> SUFFICES ASSUME NEW g \in Flows, Live(g)', ~ft'[g].dflt,
                        <<tableId'[ft'[g].priv], entryHdl'[ft'[g].priv]>> \notin StaleHandles
                 PROVE  /\ pd[tableId'[ft'[g].priv]][entryHdl'[ft'[g].priv]] # NoEntry
                        /\ pd[tableId'[ft'[g].priv]][entryHdl'[ft'[g].priv]].match = g
                        /\ pd[tableId'[ft'[g].priv]][entryHdl'[ft'[g].priv]].index = ft'[g].priv
      BY <1>0, <2>c DEF LiveEntryIsOwn, EntryOf
    <3>2. CASE g = cur.flow
      BY <2>e, <3>1, <3>2
    <3>3. CASE g # cur.flow
      BY <1>9, <2>d, <3>3 DEF IInv, LiveEntryIsOwn, EntryOf, CreateRecord
    <3> QED
      BY <3>2, <3>3
  <2>5. NewEntryIsOwn'
    BY <1>0, <1>9 DEF IInv, TypeOK, NewEntryIsOwn, CreateRecord, Created, ReturnNone, Frame
  <2>6. UnusedHasNoEntry'
    BY <1>0, <1>9 DEF IInv, TypeOK, UnusedHasNoEntry, CreateRecord, Created, ReturnNone
  <2> QED
    BY <1>0, <2>1, <2>2, <2>3, <2>4, <2>5, <2>6 DEF IInv
<1>10. ASSUME CreateFails
      PROVE  IInv'
  BY <1>0, <1>10, DropStep DEF CreateFails, Leaves, ReturnError, TypeOK, Frame
<1>11. ASSUME ModifyEntry
      PROVE  IInv'
  <2>1. CallHasKey'
    BY <1>0, KeyStep DEF IInv
  <2>2. FrameMatchesFlow'
    BY <1>0, <1>11
       DEF IInv, TypeOK, FrameMatchesFlow, ModifyEntry, Advance, ReturnNone, Frame, FlowRec
  <2>3. RecordsMatchFlow'
    BY <1>0, <1>11 DEF IInv, TypeOK, RecordsMatchFlow, ModifyEntry, Advance, ReturnNone
  <2>4. LiveEntryIsOwn'
    <3> SUFFICES ASSUME NEW g \in Flows, Live(g), ~ft[g].dflt,
                        <<tableId[ft[g].priv], entryHdl[ft[g].priv]>> \notin StaleHandles
                 PROVE  /\ pd'[tableId[ft[g].priv]][entryHdl[ft[g].priv]] # NoEntry
                        /\ pd'[tableId[ft[g].priv]][entryHdl[ft[g].priv]].match = g
                        /\ pd'[tableId[ft[g].priv]][entryHdl[ft[g].priv]].index = ft[g].priv
      BY <1>0, <1>11 DEF ModifyEntry, LiveEntryIsOwn, EntryOf, Advance, ReturnNone
    <3>1. /\ tableId[ft[g].priv] \in Tables /\ entryHdl[ft[g].priv] \in Handles
          /\ pd[tableId[ft[g].priv]][entryHdl[ft[g].priv]] # NoEntry
          /\ pd[tableId[ft[g].priv]][entryHdl[ft[g].priv]].match = g
          /\ pd[tableId[ft[g].priv]][entryHdl[ft[g].priv]].index = ft[g].priv
      BY <1>0, <1>11 DEF IInv, TypeOK, RecordsMatchFlow, LiveEntryIsOwn, EntryOf, ModifyEntry
    <3>2. CASE cur.tid = tableId[ft[g].priv] /\ cur.hdl = entryHdl[ft[g].priv]
      <4>1. cur.flow = g /\ cur.id = ft[g].priv /\ cur.tid \in Tables /\ cur.act \in Acts
        BY <1>0, <1>11, <3>1, <3>2, CalledEntryIsOwn DEF ModifyEntry, TypeOK, Frame
      <4>2. pd'[tableId[ft[g].priv]][entryHdl[ft[g].priv]] =
              [match |-> g, index |-> cur.id, act |-> cur.act]
        BY <1>0, <1>11, <3>1, <3>2, <4>1 DEF IInv, CallHasKey, ModifyEntry, TypeOK, AnyHdl
      <4>3. pd'[tableId[ft[g].priv]][entryHdl[ft[g].priv]] \in Entry
        BY <1>0, <1>11, <4>1, <4>2 DEF Entry
      <4> QED
        BY <4>1, <4>2, <4>3, EntryAssumption
    <3>3. CASE ~(cur.tid = tableId[ft[g].priv] /\ cur.hdl = entryHdl[ft[g].priv])
      BY <1>0, <1>11, <3>1, <3>3 DEF ModifyEntry, TypeOK, AnyHdl
    <3> QED
      BY <3>2, <3>3
  <2>5. NewEntryIsOwn'
    BY <1>0, <1>11 DEF IInv, TypeOK, NewEntryIsOwn, ModifyEntry, Advance, ReturnNone, Frame
  <2>6. UnusedHasNoEntry'
    BY <1>0, <1>11 DEF IInv, TypeOK, UnusedHasNoEntry, ModifyEntry, Advance, ReturnNone
  <2> QED
    BY <1>0, <2>1, <2>2, <2>3, <2>4, <2>5, <2>6 DEF IInv
<1>12. ASSUME ModifyPipe
      PROVE  IInv'
  BY <1>0, <1>12, QuietReturn DEF ModifyPipe
<1>13. ASSUME ModifyFails
      PROVE  IInv'
  BY <1>0, <1>13, QuietReturn DEF ModifyFails, ReturnError
<1>14. ASSUME DeleteEntry
      PROVE  IInv'
  <2>1. CallHasKey'
    BY <1>0, KeyStep DEF IInv
  <2>2. FrameMatchesFlow'
    BY <1>0, <1>14 DEF IInv, TypeOK, FrameMatchesFlow, DeleteEntry, Advance, Frame, FlowRec
  <2>3. RecordsMatchFlow'
    BY <1>0, <1>14 DEF IInv, TypeOK, RecordsMatchFlow, DeleteEntry, Advance
  <2>4. LiveEntryIsOwn'
    <3> SUFFICES ASSUME NEW g \in Flows, Live(g), ~ft[g].dflt, g # cur.flow,
                        <<tableId[ft[g].priv], entryHdl[ft[g].priv]>> \notin StaleHandles
                 PROVE  /\ pd'[tableId[ft[g].priv]][entryHdl[ft[g].priv]] # NoEntry
                        /\ pd'[tableId[ft[g].priv]][entryHdl[ft[g].priv]].match = g
                        /\ pd'[tableId[ft[g].priv]][entryHdl[ft[g].priv]].index = ft[g].priv
      BY <1>0, <1>14 DEF DeleteEntry, LiveEntryIsOwn, EntryOf, Advance
    <3>1. /\ tableId[ft[g].priv] \in Tables /\ entryHdl[ft[g].priv] \in Handles
          /\ pd[tableId[ft[g].priv]][entryHdl[ft[g].priv]] # NoEntry
          /\ pd[tableId[ft[g].priv]][entryHdl[ft[g].priv]].match = g
          /\ pd[tableId[ft[g].priv]][entryHdl[ft[g].priv]].index = ft[g].priv
      BY <1>0, <1>14 DEF IInv, TypeOK, RecordsMatchFlow, LiveEntryIsOwn, EntryOf, DeleteEntry
    <3>3. ~(cur.tid = tableId[ft[g].priv] /\ cur.hdl = entryHdl[ft[g].priv])
      BY <1>14, <3>1, CalledEntryIsOwn DEF DeleteEntry
    <3> QED
      BY <1>0, <1>14, <3>1, <3>3 DEF DeleteEntry, TypeOK, AnyHdl
  <2>5. NewEntryIsOwn'
    BY <1>0, <1>14 DEF IInv, TypeOK, NewEntryIsOwn, DeleteEntry, Advance, Frame
  <2>6. UnusedHasNoEntry'
    BY <1>0, <1>14 DEF IInv, TypeOK, UnusedHasNoEntry, DeleteEntry, Advance
  <2> QED
    BY <1>0, <2>1, <2>2, <2>3, <2>4, <2>5, <2>6 DEF IInv
<1>15. ASSUME DeletePipe
      PROVE  IInv'
  BY <1>0, <1>15, DropStep DEF DeletePipe, Leaves, ReturnNone, TypeOK, Frame
<1>16. ASSUME DeleteFails
      PROVE  IInv'
  <2>1. /\ cur.flow \in Flows /\ pc' = "idle" /\ UNCHANGED <<entryHdl, tableId, pd>>
        /\ failed' = [failed EXCEPT ![cur.flow] = @ \cup ({pc} \cap Lasting)]
    BY <1>0, <1>16 DEF DeleteFails, ReturnError, TypeOK, Frame
  <2>2. CASE Dropped(cur.flow)
    BY <1>0, <2>1, <2>2, DropStep DEF Leaves
  <2>3. CASE UNCHANGED ft /\ TRUE \in KeepOnDeleteError
    <3>1. pc = "delete_pipe" => "delete_pipe" \in failed'[cur.flow]
      BY <1>0, <2>1 DEF TypeOK, Lasting
    <3>2. ft'[cur.flow].priv = cur.id
      BY <1>16, <2>1, <2>3 DEF IInv, CallHasKey, DeleteFails
    <3>3. pc = "delete_pipe" => <<tableId[cur.id], entryHdl[cur.id]>> \in StaleHandles'
      BY <2>1, <2>3, <3>1, <3>2 DEF StaleHandles
    <3> QED
      BY <1>0, <1>16, <2>1, <2>3, <3>3, QuietReturn DEF DeleteFails
  <2> QED
    BY <1>16, <2>2, <2>3, KeepAssumption DEF DeleteFails, DeleteFailed
<1>17. CASE UNCHANGED vars
  BY <1>0, <1>17
     DEF vars, IInv, TypeOK, CallHasKey, FrameMatchesFlow, RecordsMatchFlow, LiveEntryIsOwn, EntryOf,
         NewEntryIsOwn, UnusedHasNoEntry
<1> QED
  BY <1>1, <1>2, <1>3, <1>4, <1>5, <1>6, <1>7, <1>8, <1>9, <1>10, <1>11, <1>12,
     <1>13, <1>14, <1>15, <1>16, <1>17 DEF Next, Messages, PdCalls

\* While no two flows own one id, what the arrays record of a live flow is the
\* table and the handle of its own entry, unless Indigo kept a flow half deleted with
\* that handle.
THEOREM Inductive == Spec /\ []KeysApart => []IInv
<1>1. Init => IInv
  <2> SUFFICES ASSUME Init PROVE IInv
    OBVIOUS
  <2>1. CallHasKey /\ FrameMatchesFlow /\ NewEntryIsOwn
    BY DEF Init, CallHasKey, FrameMatchesFlow, NewEntryIsOwn, Creating, Created1,
           Modifying, Deleting
  <2>2. RecordsMatchFlow /\ LiveEntryIsOwn
    BY DEF Init, RecordsMatchFlow, LiveEntryIsOwn, Live
  <2>3. UnusedHasNoEntry /\ UnusedNeverFailed
    BY DEF Init, UnusedHasNoEntry, UnusedNeverFailed, AnyHdl
  <2> QED
    BY TypeInit, <2>1, <2>2, <2>3 DEF IInv
<1>2. KeysApart /\ IInv /\ [Next]_vars => IInv'
  BY IndStep
<1> QED
  BY <1>1, <1>2, PTL DEF Spec

\* Without cookie masks each flow is known by Indigo's id, and no two by one.
THEOREM NoMaskNoSharedKey ==
    ASSUME CookieKeys = {}
    PROVE  Spec => []KeysApart
<1> DEFINE OwnKeys == \A f \in Flows : ft[f].priv = f
<1>1. Init => OwnKeys
  BY DEF Init
<1>2. TypeOK /\ OwnKeys /\ [Next]_vars => OwnKeys'
  <2> SUFFICES ASSUME TypeOK, OwnKeys, [Next]_vars PROVE OwnKeys'
    OBVIOUS
  <2>1. ASSUME NEW f \in Flows, ft' = [ft EXCEPT ![f].priv = f] \/ Refused(f, f)
        PROVE  OwnKeys'
    BY <2>1 DEF TypeOK, Refused, FlowRec
  <2>2. ASSUME NEW f \in Flows, Dropped(f)
        PROVE  OwnKeys'
    BY <2>2, DroppedType
  <2>3. CASE CreateRecord
    BY <2>3 DEF CreateRecord, Created, TypeOK, Frame
  <2> QED
    BY <2>1, <2>2, <2>3 DEF Next, Messages, PdCalls, CreateCall, CreateReject, ModifyCall,
       ModifyReject, DeleteCall, DeleteReject, CreateEntry, CreatePipe, CreateFails, ModifyEntry,
       ModifyPipe, ModifyFails, DeleteEntry, DeletePipe, DeleteFails, DeleteFailed, vars, TypeOK,
       Frame
<1>3. OwnKeys => KeysApart
  BY DEF KeysApart
<1> HIDE DEF OwnKeys
<1> QED
  BY <1>1, <1>2, <1>3, TypeCorrect, PTL DEF Spec

\* However handles are reused and whatever PD calls fail, the handle recorded for
\* a live flow is that of its own entry, unless a flow kept half deleted has it too.
THEOREM LiveFlowsOwnTheirEntry == Spec /\ []KeysApart => []RecordedEntryIsOwn
<1>1. IInv => RecordedEntryIsOwn
  BY DEF IInv, LiveEntryIsOwn, RecordedEntryIsOwn
<1> QED
  BY <1>1, Inductive, PTL

\* flow_modify and flow_delete of a flow write to the table it was added to.
THEOREM ModsReachTheProperTable == Spec /\ []KeysApart => []DemuxedToProperTable
<1>1. IInv => DemuxedToProperTable
  <2> SUFFICES ASSUME IInv, pc \in {"modify_entry", "delete_entry"}
               PROVE  cur.tid = ft[cur.flow].tid
    BY DEF DemuxedToProperTable
  <2>1. /\ cur.flow \in Flows /\ Live(cur.flow) /\ cur.tid = tableId[cur.id]
        /\ cur.id = ft[cur.flow].priv
    BY DEF IInv, TypeOK, CallHasKey, FrameMatchesFlow, Modifying, Deleting, Frame, Live
  <2> QED
    BY <2>1 DEF IInv, RecordsMatchFlow
<1> QED
  BY <1>1, Inductive, PTL

===============================================================================
