---------------------------- MODULE FlowLeakProofs ----------------------------
(***************************************************************************)
(* What the flow callbacks leave behind, and what they tear, for every     *)
(* value of the constants.  The invariant below adds to IInv what is known *)
(* of entries and pipeline records by the index they carry, default        *)
(* entries included.                                                       *)
(***************************************************************************)
EXTENDS FlowProofs, FiniteSetTheorems

Life(f) == ft[f].life
Stays   == {"create_pipe", "delete_call", "delete_entry"}
Keeps   == {"delete_call", "delete_entry", "delete_pipe"}
Tears   == {"create_pipe", "modify_pipe"}

\* flow_create has written the entry it is about to record.
NewEntryIsWritten ==
    Created1 => pd[cur.tid][cur.hdl] =
                   [match |-> cur.flow, index |-> cur.id, act |-> cur.act]

\* Entries and pipeline records carry ids that flows own.
IndexIsOwned ==
    /\ \A t \in Tables, h \in AnyHdl :
           pd[t][h] # NoEntry => \E f \in Flows : Owns(f) /\ ft[f].priv = pd[t][h].index
    /\ \A i \in Ids : pipe[i] # NoAct => \E f \in Flows : Owns(f) /\ ft[f].priv = i

\* The one entry with the index of a flow being created is that which flow_create made,
\* and the one with that of a live flow is in the place recorded for the flow.
IndexTellsPlace ==
    /\ Creating => \A t \in Tables, h \in AnyHdl :
           pd[t][h] # NoEntry /\ pd[t][h].index = cur.id => Created1 /\ cur.tid = t /\ cur.hdl = h
    /\ \A f \in Flows, t \in Tables, h \in AnyHdl :
           Life(f) = "live" /\ pd[t][h] # NoEntry /\ pd[t][h].index = ft[f].priv =>
               tableId[ft[f].priv] = t /\ entryHdl[ft[f].priv] = h

\* Entries with a handle carry the index of the flow that matches, if the handle is
\* not stale.
MatchIsIndex ==
    \A t \in Tables, h \in Handles :
        pd[t][h] # NoEntry /\ <<t, h>> \notin StaleHandles =>
            ft[pd[t][h].match].priv = pd[t][h].index

\* Stale or not, an entry with the match of a live flow is in the flow's place.
MatchTellsPlace ==
    \A t \in Tables, h \in Handles :
        pd[t][h] # NoEntry /\ Life(pd[t][h].match) = "live" =>
            LET i == ft[pd[t][h].match].priv IN tableId[i] = t /\ entryHdl[i] = h

\* The first PD call of flow_modify and of flow_delete has done its work.
FirstCallDone ==
    /\ pc = "modify_pipe" => /\ pd[cur.tid][cur.hdl] # NoEntry
                             /\ pd[cur.tid][cur.hdl].index = cur.id
                             /\ pd[cur.tid][cur.hdl].act = cur.act
    /\ pc = "delete_pipe" => pd[cur.tid][cur.hdl] = NoEntry

\* A flow being created has no pipeline record but the one flow_create has added.
NewRecordIsOwn == Creating /\ pipe[cur.id] # NoAct => pc = "create_record"

\* An entry is torn between two PD calls, or after the second failed.
TornInWindow ==
    \A t \in Tables, h \in AnyHdl :
        Torn(t, h) =>
            \/ pc \in {"create_pipe", "modify_pipe"} /\ cur.id = pd[t][h].index
            \/ \E f \in Flows : ft[f].priv = pd[t][h].index /\ failed[f] \cap Tears # {}

\* What a flow that is gone has left was left at a point where that was reported.  The
\* pipeline record with its id is its own only if a callback failed for it.
GoneLeavesReported ==
    /\ \A t \in Tables, h \in Handles :
           pd[t][h] # NoEntry /\ Life(pd[t][h].match) = "gone" =>
               failed[pd[t][h].match] \cap Stays # {}
    /\ \A f \in Flows :
           pipe[ft[f].priv] # NoAct /\ Life(f) = "gone" /\ failed[f] # {} =>
               failed[f] \cap Keeps # {}

LInv ==
    /\ NewEntryIsWritten
    /\ IndexIsOwned
    /\ IndexTellsPlace
    /\ MatchIsIndex
    /\ MatchTellsPlace
    /\ FirstCallDone
    /\ NewRecordIsOwn
    /\ TornInWindow
    /\ GoneLeavesReported

\* Who has written the default entry of a table since a live flow did.
Displaced(f) ==
    \E g \in Flows \ {f} :
        \/ ft[g].life # "unused" /\ ft[g].dflt /\ ft[g].tid = ft[f].tid
        \/ Created1 /\ cur.flow = g /\ cur.dflt /\ cur.tid = ft[f].tid
        \/ /\ "create_pipe" \in failed[g]
           /\ pd[ft[f].tid][DefHdl] # NoEntry /\ pd[ft[f].tid][DefHdl].match = g

DefaultIsOwnOrDisplaced ==
    \A f \in Flows :
        Live(f) /\ ft[f].dflt /\ ~(pc = "delete_pipe" /\ cur.flow = f)
            /\ "delete_pipe" \notin failed[f] =>
            \/ pd[ft[f].tid][DefHdl] # NoEntry /\ pd[ft[f].tid][DefHdl].match = f
            \/ Displaced(f)

\* What a step may use: types, the frame that runs, and the entries it finds.
LEMMA StepFacts ==
    ASSUME IInv
    PROVE  /\ \A f \in Flows : ft[f].priv \in Ids
           /\ pc # "idle" => /\ cur.flow \in Flows /\ cur.id \in Ids /\ cur.tid \in Tables
                             /\ cur.id = ft[cur.flow].priv /\ cur.dflt \in BOOLEAN
           /\ pc \notin {"idle", "create_entry"} => cur.hdl \in AnyHdl
           /\ pc \notin {"idle", "delete_entry", "delete_pipe"} => cur.act \in Acts
           /\ \A t \in Tables, h \in AnyHdl : pd[t][h] # NoEntry =>
                  /\ pd[t][h] \in Entry /\ pd[t][h].match \in Flows
                  /\ pd[t][h].index \in Ids /\ pd[t][h].act \in Acts
           /\ Modifying \/ Deleting => /\ Life(cur.flow) = "live"
                                       /\ cur.hdl = entryHdl[cur.id]
                                       /\ cur.tid = tableId[cur.id]
           /\ Creating => Life(cur.flow) = "unused"
  BY DEF IInv, TypeOK, CallHasKey, FrameMatchesFlow, Frame, Entry, FlowRec, Life

\* The flow a callback runs for is one of those that own their ids.
LEMMA RunningIsOwner ==
    ASSUME KeysApart, IInv, pc # "idle", NEW f \in Flows, Owns(f), ft[f].priv = cur.id
    PROVE  f = cur.flow
  BY StepFacts DEF KeysApart, Owns, Running

\* So is the flow whose match an entry has.
LEMMA MatchIsOwner ==
    ASSUME IInv, GoneLeavesReported, NEW t \in Tables, NEW h \in Handles, pd[t][h] # NoEntry
    PROVE  h \in AnyHdl /\ pd[t][h].match \in Flows /\ Owns(pd[t][h].match)
<1>1. h \in AnyHdl /\ pd[t][h].match \in Flows
  BY StepFacts DEF AnyHdl
<1>2. CASE Life(pd[t][h].match) = "unused"
  BY <1>1, <1>2 DEF IInv, UnusedHasNoEntry, Owns, Running, Created1, Life
<1>3. CASE Life(pd[t][h].match) = "gone"
  BY <1>1, <1>3 DEF GoneLeavesReported, Owns
<1> QED
  BY <1>1, <1>2, <1>3 DEF IInv, TypeOK, FlowRec, Owns, Live, Life

\* A flow is done with its id: it is deleted, or was never added, and nothing failed before.
LeavesClean(f) ==
    /\ Running(f) /\ failed[f] = {}
    /\ DeletePipe \/ (CreateFails /\ pc = "create_entry")

\* A flow that owns its id keeps it, and gives it up only when it is done with it.
LEMMA OwnerStays ==
    ASSUME KeysApart, IInv, [Next]_vars, NEW f \in Flows, Owns(f)
    PROVE  ft'[f].priv = ft[f].priv /\ (Owns(f)' \/ LeavesClean(f))
<1>0. TypeOK /\ TypeOK' /\ (failed[f] # {} => ft[f].life # "unused")
  BY TypeStep DEF IInv, UnusedNeverFailed
<1> USE DEF Owns, Running, Live
<1>1. ASSUME NEW g \in Flows, NEW id, ft' = [ft EXCEPT ![g].priv = id] \/ Refused(g, id),
             pc = "idle", ft[g].life = "unused", id \in Ids,
             \A k \in Flows : failed[k] # {} => failed'[k] # {}
      PROVE  ft'[f].priv = ft[f].priv /\ Owns(f)'
  <2>1. g # f
    BY <1>0, <1>1
  <2>2. ft'[f] = ft[f]
    BY <1>0, <1>1, <2>1, KeyedType, LeavesType DEF Leaves
  <2> QED
    BY <1>1, <2>2
<1>2. ASSUME NEW g \in Flows, NEW p, NEW e, ReturnError(g, p, e), p \in Lasting,
             UNCHANGED ft \/ Dropped(g), pc # "idle" => cur.flow = g
      PROVE  ft'[f].priv = ft[f].priv /\ Owns(f)'
  <2>1. p \in failed'[g] /\ failed[f] \subseteq failed'[f]
    BY <1>0, <1>2 DEF ReturnError, TypeOK
  <2>2. ft'[f].priv = ft[f].priv /\ (f # g => ft'[f] = ft[f])
    BY <1>0, <1>2, DroppedType
  <2> QED
    BY <1>2, <2>1, <2>2
<1>3. ASSUME NEW g \in Flows, NEW id, NEW t, NEW a, NEW d, CreateCall(g, id, t, a, d), id \in Ids
      PROVE  ft'[f].priv = ft[f].priv /\ Owns(f)'
  BY <1>1, <1>3 DEF CreateCall, Start
<1>4. ASSUME NEW g \in Flows, NEW id \in Ids, NEW t, NEW d, CreateReject(g, id, t, d)
      PROVE  ft'[f].priv = ft[f].priv /\ Owns(f)'
  <2>1. \A k \in Flows : failed[k] # {} => failed'[k] # {}
    BY <1>0, <1>4 DEF CreateReject, ReturnError, TypeOK
  <2> QED
    BY <1>1, <1>4, <2>1 DEF CreateReject
<1>5. ASSUME NEW g \in Flows, ModifyCall(g, cur'.act) \/ DeleteCall(g) \/ ModifyReject(g)
      PROVE  ft'[f].priv = ft[f].priv /\ Owns(f)'
  <2>1. pc = "idle" /\ UNCHANGED ft /\ (failed[f] # {} => failed'[f] # {})
    BY <1>0, <1>5 DEF ModifyCall, DeleteCall, ModifyReject, LookupFails, Start, ReturnError, TypeOK
  <2> QED
    BY <2>1
<1>6. ASSUME NEW g \in Flows, DeleteReject(g)
      PROVE  ft'[f].priv = ft[f].priv /\ Owns(f)'
  <2>1. PICK e \in {"NOT_FOUND", "BAD_TABLE_ID"} : ReturnError(g, "delete_call", e)
    BY <1>6 DEF DeleteReject, LookupFails
  <2> QED
    BY <1>2, <1>6, <2>1 DEF DeleteReject, DeleteFailed, Lasting
<1>s. pc # "idle" => cur.flow \in Flows
  BY StepFacts
<1>7. ASSUME NEW h \in AnyHdl, CreateEntry(h)
      PROVE  ft'[f].priv = ft[f].priv /\ Owns(f)'
  BY <1>0, <1>7 DEF CreateEntry, TypeOK, Frame
<1>8. CASE CreatePipe \/ DeleteEntry \/ UNCHANGED vars
  BY <1>8 DEF CreatePipe, DeleteEntry, Advance, vars
<1>9. CASE CreateRecord
  <2>1. /\ ft'[cur.flow].life = "live" /\ ft'[cur.flow].priv = ft[cur.flow].priv
        /\ \A g \in Flows \ {cur.flow} : ft'[g] = ft[g]
        /\ UNCHANGED failed
    BY <1>0, <1>9, <1>s DEF CreateRecord, Created, ReturnNone, TypeOK
  <2> QED
    BY <1>s, <1>9, <2>1
<1>10. CASE CreateFails
  <2>1. CASE pc = "create_pipe"
    BY <1>2, <1>s, <1>10, <2>1 DEF CreateFails, Lasting
  <2>2. CASE pc = "create_entry"
    <3>1. /\ ft'[f].priv = ft[f].priv /\ (f # cur.flow => ft'[f] = ft[f])
          /\ failed[f] \subseteq failed'[f]
      BY <1>0, <1>s, <1>10, <2>2, DroppedType DEF CreateFails, ReturnError, TypeOK
    <3> QED
      BY <1>10, <2>2, <3>1 DEF LeavesClean
  <2> QED
    BY <1>10, <2>1, <2>2 DEF CreateFails
<1>11. CASE ModifyEntry \/ ModifyPipe \/ ModifyFails
  <2>1. /\ UNCHANGED ft /\ Live(cur.flow) /\ pc # "idle"
        /\ \A g \in Flows \ {cur.flow} : failed[g] \subseteq failed'[g]
    BY <1>0, <1>s, <1>11, StepFacts DEF ModifyEntry, ModifyPipe, ModifyFails, Advance, ReturnNone,
       ReturnError, TypeOK, Modifying, Life
  <2> QED
    BY <1>s, <2>1
<1>12. CASE DeletePipe
  <2>1. /\ ft'[f].priv = ft[f].priv /\ (f # cur.flow => ft'[f] = ft[f])
        /\ UNCHANGED failed
    BY <1>0, <1>s, <1>12, DroppedType DEF DeletePipe, ReturnNone
  <2> QED
    BY <1>12, <2>1 DEF DeletePipe, LeavesClean
<1>13. CASE DeleteFails
  BY <1>2, <1>s, <1>13 DEF DeleteFails, DeleteFailed, Lasting
<1> QED
  <2>1. ASSUME NEW g \in Flows, NEW a \in Acts, ModifyCall(g, a)
        PROVE  ModifyCall(g, cur'.act)
    BY <2>1 DEF ModifyCall, Start, Recorded
  <2> QED
    BY <1>3, <1>4, <1>5, <1>6, <1>7, <1>8, <1>9, <1>10, <1>11, <1>12, <1>13, <2>1
       DEF Next, Messages, PdCalls, Ids

\* Such a flow leaves no entry and no pipeline record with the id it was known by.
LEMMA CleanLeavesNothing ==
    ASSUME IInv, LInv, NEW f \in Flows, LeavesClean(f)
    PROVE  /\ \A t \in Tables, h \in AnyHdl :
                  pd'[t][h] # NoEntry => pd'[t][h].index # ft[f].priv
           /\ pipe'[ft[f].priv] = NoAct
<1>1. UNCHANGED pd /\ ft[f].priv = cur.id /\ f = cur.flow /\ cur.id \in Ids
  BY StepFacts DEF LeavesClean, Running, DeletePipe, CreateFails
<1>2. CASE DeletePipe
  BY <1>1, <1>2, StepFacts DEF DeletePipe, LInv, IndexTellsPlace, FirstCallDone, Deleting,
     IInv, TypeOK
<1>3. CASE CreateFails /\ pc = "create_entry"
  BY <1>1, <1>3 DEF CreateFails, LInv, IndexTellsPlace, NewRecordIsOwn, Creating, Created1
<1> QED
  BY <1>2, <1>3 DEF LeavesClean

\* The id a flow is given when a callback is called for it is no other's: no entry has
\* it, and no pipeline record.
LEMMA NewKeyIsFresh ==
    ASSUME KeysApart, KeysApart', IInv, IndexIsOwned, [Next]_vars, pc = "idle",
           NEW f \in Flows, ~Owns(f), Owns(f)'
    PROVE  /\ \A t \in Tables, h \in AnyHdl : pd[t][h] # NoEntry => pd[t][h].index # ft'[f].priv
           /\ ft'[f].priv \in Ids => pipe[ft'[f].priv] = NoAct
<1>1. ASSUME NEW g \in Flows, Owns(g) PROVE ft[g].priv # ft'[f].priv
  BY <1>1, OwnerStays DEF KeysApart, LeavesClean, Running
<1> QED
  BY <1>1 DEF IndexIsOwned

\* Each PD call writes the id of its own flow.
LEMMA IndexStaysOwned ==
    ASSUME KeysApart, IInv, LInv, [Next]_vars
    PROVE  IndexIsOwned'
<1>1. ASSUME NEW i \in Ids, NEW f \in Flows, Owns(f), ft[f].priv = i
      PROVE  \/ \E g \in Flows : Owns(g)' /\ ft'[g].priv = i
             \/ /\ \A t \in Tables, h \in AnyHdl : pd'[t][h] # NoEntry => pd'[t][h].index # i
                /\ pipe'[i] = NoAct
  BY <1>1, OwnerStays, CleanLeavesNothing
<1>2. pc # "idle" => \E f \in Flows : Owns(f) /\ ft[f].priv = cur.id
  BY StepFacts DEF Owns, Running
<1>3. \A t \in Tables, h \in AnyHdl :
          pd'[t][h] # NoEntry =>
              \/ pd[t][h] # NoEntry /\ pd'[t][h].index = pd[t][h].index /\ pd[t][h].index \in Ids
              \/ pc # "idle" /\ pd'[t][h].index = cur.id
  <2>1. CASE UNCHANGED pd
    BY <2>1, StepFacts
  <2>2. ASSUME pc # "idle", NEW h \in AnyHdl, NEW e, pd' = [pd EXCEPT ![cur.tid][h] = e],
               e = NoEntry \/ e.index = cur.id
        PROVE  \A t \in Tables, k \in AnyHdl :
                   pd'[t][k] # NoEntry => pd'[t][k] = pd[t][k] \/ pd'[t][k].index = cur.id
    BY <2>2, StepFacts DEF IInv, TypeOK
  <2>3. ASSUME NEW h \in AnyHdl, CreateEntry(h)
        PROVE  \A t \in Tables, k \in AnyHdl :
                   pd'[t][k] # NoEntry => pd'[t][k] = pd[t][k] \/ pd'[t][k].index = cur.id
    BY <2>2, <2>3 DEF CreateEntry
  <2>4. CASE ModifyEntry \/ DeleteEntry
    <3>1. cur.hdl \in AnyHdl /\ pc # "idle"
      BY <2>4, StepFacts DEF ModifyEntry, DeleteEntry
    <3> QED
      BY <2>2, <2>4, <3>1, StepFacts DEF ModifyEntry, DeleteEntry
  <2>5. UNCHANGED pd \/ (\E h \in AnyHdl : CreateEntry(h)) \/ ModifyEntry \/ DeleteEntry
    BY DEF Next, Messages, PdCalls, CreateCall, CreateReject, ModifyCall, ModifyReject,
       DeleteCall, DeleteReject, CreatePipe, CreateRecord, CreateFails, ModifyPipe,
       ModifyFails, DeletePipe, DeleteFails, vars
  <2>6. ~UNCHANGED pd => pc # "idle"
    BY <2>5 DEF CreateEntry, ModifyEntry, DeleteEntry
  <2> QED
    BY <2>1, <2>3, <2>4, <2>5, <2>6, StepFacts
<1>4. \A i \in Ids : pipe'[i] # NoAct => pipe[i] # NoAct \/ (pc # "idle" /\ i = cur.id)
  <2>1. CASE UNCHANGED pipe
    BY <2>1
  <2>2. CASE CreatePipe \/ ModifyPipe \/ DeletePipe
    BY <2>2 DEF CreatePipe, ModifyPipe, DeletePipe, IInv, TypeOK
  <2> QED
    BY <2>1, <2>2 DEF Next, Messages, PdCalls, CreateCall, CreateReject, ModifyCall, ModifyReject,
       DeleteCall, DeleteReject, CreateEntry, CreateRecord, CreateFails, ModifyEntry,
       ModifyFails, DeleteEntry, DeleteFails, vars
<1>5. \A t \in Tables, h \in AnyHdl :
          pd'[t][h] # NoEntry => \E f \in Flows : Owns(f)' /\ ft'[f].priv = pd'[t][h].index
  BY <1>1, <1>2, <1>3, StepFacts DEF LInv, IndexIsOwned
<1>6. \A i \in Ids : pipe'[i] # NoAct => \E f \in Flows : Owns(f)' /\ ft'[f].priv = i
  BY <1>1, <1>2, <1>4 DEF LInv, IndexIsOwned
<1> QED
  BY <1>5, <1>6 DEF IndexIsOwned

\* A callback that returns an error at p, before or after PD calls, and leaves the
\* switch and the arrays alone: the flow is dropped, or is live and stays so.
LEMMA ErrorStep ==
    ASSUME KeysApart, KeysApart', IInv, IInv', LInv, [Next]_vars,
           NEW f \in Flows, NEW p, NEW e, ReturnError(f, p, e),
           UNCHANGED <<entryHdl, tableId, pd, pipe>>,
           pc # "create_record",
           pc # "idle" => cur.flow = f /\ p = pc,
           \/ UNCHANGED ft /\ Life(f) = "live"
           \/ Leaves(f) /\ (pc = "idle" => \/ Life(f) = "unused" /\ p = "create_call"
                                           \/ Life(f) = "live" /\ p = "delete_call")
                        /\ ~Modifying
    PROVE  LInv'
<1>l. /\ NewEntryIsWritten /\ IndexIsOwned /\ IndexTellsPlace /\ MatchIsIndex /\ MatchTellsPlace
      /\ FirstCallDone /\ NewRecordIsOwn /\ TornInWindow /\ GoneLeavesReported
      /\ StaleHandles \subseteq StaleHandles'
  BY StaleStays DEF LInv
<1> USE DEF Creating, Created1, Modifying, Deleting, Life
<1>1. /\ failed'[f] = failed[f] \cup ({p} \cap Lasting) /\ pc' = "idle"
      /\ \A g \in Flows \ {f} : failed'[g] = failed[g]
  BY DEF IInv, TypeOK, ReturnError
<1>2. /\ \A g \in Flows : failed[g] \subseteq failed'[g]
      /\ p \in Lasting => p \in failed'[f]
  BY <1>1
<1>3. /\ \A g \in Flows \ {f} : ft'[g] = ft[g]
      /\ Life(f)' = "gone" \/ (Life(f)' = "live" /\ Life(f) = "live" /\ UNCHANGED ft)
  BY LeavesType DEF IInv, TypeOK, FlowRec
<1>a. Owns(f) => ft'[f].priv = ft[f].priv
  BY OwnerStays
<1>b. pc # "idle" => Owns(f)
  BY DEF Owns, Running
<1>4. NewEntryIsWritten' /\ FirstCallDone' /\ NewRecordIsOwn'
  BY <1>1 DEF NewEntryIsWritten, FirstCallDone, NewRecordIsOwn
<1>i. IndexIsOwned'
  BY IndexStaysOwned
\* Whoever matches an entry owns its id.
<1>o. \A t \in Tables, h \in Handles :
          pd[t][h] # NoEntry => /\ pd[t][h].match \in Flows /\ Owns(pd[t][h].match)
                                /\ ft'[pd[t][h].match].priv = ft[pd[t][h].match].priv
  BY <1>l, MatchIsOwner, OwnerStays
<1>5. MatchIsIndex'
  BY <1>l, <1>o DEF MatchIsIndex
<1>m. MatchTellsPlace'
  <2> SUFFICES ASSUME NEW t \in Tables, NEW h \in Handles, pd[t][h] # NoEntry,
                      Life(pd[t][h].match)' = "live"
               PROVE  LET i == ft'[pd[t][h].match].priv IN tableId[i] = t /\ entryHdl[i] = h
    BY DEF MatchTellsPlace
  <2> QED
    BY <1>l, <1>o, <1>3 DEF MatchTellsPlace
<1>6. IndexTellsPlace'
  BY <1>l, <1>1, <1>3 DEF IndexTellsPlace
<1>7. TornInWindow'
  <2> SUFFICES ASSUME NEW t \in Tables, NEW h \in AnyHdl, Torn(t, h)
               PROVE  \E g \in Flows : ft'[g].priv = pd[t][h].index /\ failed'[g] \cap Tears # {}
    BY DEF TornInWindow, Torn
  <2>1. CASE pc \in {"create_pipe", "modify_pipe"} /\ cur.id = pd[t][h].index
    <3>1. p \in Tears /\ p \in Lasting /\ ft[f].priv = cur.id
      BY <2>1, StepFacts DEF Tears, Lasting
    <3> QED
      BY <1>2, <1>a, <1>b, <2>1, <3>1
  <2>2. ASSUME NEW g \in Flows, ft[g].priv = pd[t][h].index, failed[g] \cap Tears # {}
        PROVE  ft'[g].priv = pd[t][h].index /\ failed'[g] \cap Tears # {}
    <3>1. Owns(g)
      BY <2>2 DEF IInv, UnusedNeverFailed, Owns
    <3> QED
      BY <1>2, <2>2, <3>1, OwnerStays
  <2> QED
    BY <1>l, <2>1, <2>2 DEF TornInWindow
<1>8. GoneLeavesReported'
  <2>1. ASSUME NEW t \in Tables, NEW h \in Handles, pd[t][h] # NoEntry,
               Life(pd[t][h].match)' = "gone"
        PROVE  failed'[pd[t][h].match] \cap Stays # {}
    <3>1. h \in AnyHdl /\ pd[t][h].match \in Flows /\ Owns(pd[t][h].match)
      BY <1>o, <2>1 DEF AnyHdl
    <3>2. CASE Life(pd[t][h].match) = "gone"
      BY <1>l, <1>2, <2>1, <3>1, <3>2 DEF GoneLeavesReported
    <3>3. CASE Life(pd[t][h].match) # "gone"
      <4>1. pd[t][h].match = f /\ Leaves(f) /\ Life(f) # "gone"
        BY <1>3, <2>1, <3>1, <3>3
      <4>2. p \in Stays
        <5>1. CASE Life(f) = "unused"
          BY <2>1, <3>1, <4>1, <5>1 DEF IInv, UnusedHasNoEntry, Stays
        <5>2. CASE Life(f) = "live"
          <6>1. pc = "delete_pipe" => t = cur.tid /\ h = cur.hdl
            BY <1>l, <2>1, <3>1, <4>1, <5>2, StepFacts DEF MatchTellsPlace
          <6>2. pc # "delete_pipe"
            BY <1>l, <2>1, <6>1 DEF FirstCallDone
          <6> QED
            BY <2>1, <4>1, <5>2, <6>2, StepFacts DEF IInv, TypeOK, Calling, Stays
        <5> QED
          BY <4>1, <5>1, <5>2 DEF IInv, TypeOK, FlowRec
      <4> QED
        BY <1>2, <4>1, <4>2 DEF Stays, Lasting
    <3> QED
      BY <3>2, <3>3
  <2>2. ASSUME NEW g \in Flows, pipe[ft'[g].priv] # NoAct, Life(g)' = "gone", failed'[g] # {}
        PROVE  failed'[g] \cap Keeps # {}
    <3>1. Owns(g)
      <4>1. CASE failed[g] # {}
        BY <4>1 DEF Owns
      <4>2. CASE failed[g] = {}
        <5>1. g = f /\ p \in Lasting
          BY <1>1, <2>2, <4>2
        <5> QED
          BY <1>b, <5>1 DEF Owns, Live, Lasting
      <4> QED
        BY <4>1, <4>2
    <3>2. ft'[g].priv = ft[g].priv
      BY <3>1, OwnerStays
    <3>3. CASE Life(g) = "gone"
      <4>1. failed[g] # {}
        BY <3>1, <3>3, StepFacts DEF Owns, Running, Live, IInv, TypeOK, Calling
      <4> QED
        BY <1>l, <1>2, <2>2, <3>2, <3>3, <4>1 DEF GoneLeavesReported
    <3>4. CASE Life(g) # "gone"
      <4>1. g = f /\ Leaves(f)
        BY <1>3, <2>2, <3>4
      <4>2. Life(f) = "live"
        <5> SUFFICES ASSUME Life(f) = "unused" PROVE FALSE
          BY <3>4, <4>1 DEF IInv, TypeOK, FlowRec
        <5>1. Creating /\ cur.flow = f
          BY <3>1, <4>1, StepFacts
             DEF Owns, Running, Live, IInv, UnusedNeverFailed, TypeOK, Calling
        <5> QED
          BY <1>l, <2>2, <3>2, <4>1, <5>1, StepFacts DEF NewRecordIsOwn
      <4>3. p \in Keeps
        BY <2>2, <4>1, <4>2, StepFacts DEF IInv, TypeOK, Calling, Keeps
      <4> QED
        BY <1>2, <4>1, <4>3 DEF Keeps, Lasting
    <3> QED
      BY <3>3, <3>4
  <2> QED
    BY <2>1, <2>2 DEF GoneLeavesReported
<1> QED
  BY <1>4, <1>i, <1>5, <1>m, <1>6, <1>7, <1>8 DEF LInv

\* Every step keeps the invariant.
LEMMA LeakStep ==
    ASSUME KeysApart, KeysApart', IInv, LInv, [Next]_vars
    PROVE  LInv'
<1>0. TypeOK /\ TypeOK' /\ IInv' /\ StaleHandles \subseteq StaleHandles'
  BY TypeStep, IndStep, StaleStays DEF IInv
<1>l. NewEntryIsWritten /\ IndexIsOwned /\ IndexTellsPlace /\ MatchIsIndex /\ MatchTellsPlace
      /\ FirstCallDone /\ NewRecordIsOwn /\ TornInWindow /\ GoneLeavesReported
  BY DEF LInv
<1>i. IndexIsOwned'
  BY IndexStaysOwned
<1>e. \A t \in Tables, h \in AnyHdl : pd[t][h] # NoEntry =>
          /\ pd[t][h] \in Entry /\ pd[t][h].match \in Flows
          /\ pd[t][h].index \in Ids /\ pd[t][h].act \in Acts
  BY StepFacts
<1> USE DEF Creating, Created1, Modifying, Deleting, Life
\* Whoever matches an entry owns its id, and whoever has failed.
<1>o. \A t \in Tables, h \in Handles :
          pd[t][h] # NoEntry => /\ h \in AnyHdl /\ pd[t][h].match \in Flows
                                /\ Owns(pd[t][h].match)
                                /\ ft'[pd[t][h].match].priv = ft[pd[t][h].match].priv
  BY <1>l, MatchIsOwner, OwnerStays
<1>f. \A g \in Flows : failed[g] # {} => Owns(g) /\ ft'[g].priv = ft[g].priv
  BY OwnerStays DEF Owns
\* The flow that runs, and one that is live.
<1>s. pc # "idle" => /\ cur.flow \in Flows /\ cur.id \in Ids /\ cur.tid \in Tables
                     /\ cur.id = ft[cur.flow].priv /\ cur.dflt \in BOOLEAN
                     /\ cur \in Frame
  BY <1>0, StepFacts DEF TypeOK
<1>r. pc # "idle" => \A g \in Flows : Owns(g) /\ ft[g].priv = cur.id => g = cur.flow
  BY RunningIsOwner
<1>g. \A g \in Flows : ft[g].life = "live" => Owns(g)
  BY DEF Owns, Live
<1>1. ASSUME NEW f \in Flows, NEW id \in Ids, NEW t \in Tables, NEW a \in Acts,
             NEW d \in BOOLEAN, CreateCall(f, id, t, a, d)
      PROVE  LInv'
  <2>1. /\ pc = "idle" /\ pc' = "create_entry" /\ ft[f].life = "unused"
        /\ cur' = [flow |-> f, id |-> id, tid |-> t, hdl |-> NoHdl, act |-> a, dflt |-> d]
        /\ UNCHANGED <<pd, pipe, entryHdl, tableId, failed>>
        /\ ft'[f].priv = id /\ ft'[f].life = "unused"
        /\ \A g \in Flows \ {f} : ft'[g] = ft[g]
    BY <1>0, <1>1, KeyedType DEF CreateCall, Start
  <2>2. /\ \A u \in Tables, h \in AnyHdl : pd[u][h] # NoEntry => pd[u][h].index # id
        /\ pipe[id] = NoAct
    <3>1. ~Owns(f) /\ Owns(f)'
      BY <2>1 DEF Owns, Running, Live, IInv, UnusedNeverFailed
    <3> QED
      BY <1>l, <2>1, <3>1, NewKeyIsFresh
  <2>3. NewEntryIsWritten' /\ FirstCallDone'
    BY <2>1 DEF NewEntryIsWritten, FirstCallDone
  <2>4. IndexTellsPlace'
    BY <1>l, <2>1, <2>2 DEF IndexTellsPlace
  <2>5. MatchIsIndex'
    BY <1>0, <1>l, <1>o, <2>1 DEF MatchIsIndex
  <2>6. MatchTellsPlace'
    BY <1>l, <1>o, <2>1 DEF MatchTellsPlace
  <2>7. NewRecordIsOwn'
    BY <2>1, <2>2 DEF NewRecordIsOwn
  <2>8. TornInWindow'
    BY <1>l, <1>f, <2>1 DEF TornInWindow, Torn, Tears
  <2>9. GoneLeavesReported'
    BY <1>l, <1>o, <2>1 DEF GoneLeavesReported
  <2> QED
    BY <1>i, <2>3, <2>4, <2>5, <2>6, <2>7, <2>8, <2>9 DEF LInv
<1>2. ASSUME NEW f \in Flows, NEW id \in Ids, NEW t \in MsgTables, NEW d \in BOOLEAN,
             CreateReject(f, id, t, d)
      PROVE  LInv'
  BY <1>0, <1>2, ErrorStep DEF CreateReject, Leaves
\* flow_modify and flow_delete start with what is recorded and change nothing yet.
<1>3. ASSUME NEW f \in Flows, NEW a, NEW call \in {"modify_entry", "delete_entry"}, pc = "idle",
             Start(call, Recorded(f, ft[f].priv, a)), UNCHANGED <<ft, entryHdl, tableId, pd, pipe>>
      PROVE  LInv'
  <2>1. pc' \in {"modify_entry", "delete_entry"}
        /\ UNCHANGED <<ft, entryHdl, tableId, pd, pipe, failed>>
    BY <1>3 DEF Start
  <2>2. NewEntryIsWritten' /\ FirstCallDone' /\ NewRecordIsOwn'
    BY <2>1 DEF NewEntryIsWritten, FirstCallDone, NewRecordIsOwn
  <2>3. IndexTellsPlace' /\ MatchTellsPlace'
    BY <1>l, <2>1 DEF IndexTellsPlace, MatchTellsPlace
  <2>4. MatchIsIndex'
    BY <1>0, <1>l, <2>1 DEF MatchIsIndex
  <2>5. TornInWindow' /\ GoneLeavesReported'
    BY <1>3, <1>l, <2>1 DEF TornInWindow, Torn, GoneLeavesReported
  <2> QED
    BY <1>i, <2>2, <2>3, <2>4, <2>5 DEF LInv
<1>4. ASSUME NEW f \in Flows, ModifyReject(f)
      PROVE  LInv'
  BY <1>0, <1>4, ErrorStep DEF ModifyReject, LookupFails
<1>6. ASSUME NEW f \in Flows, DeleteReject(f)
      PROVE  LInv'
  BY <1>0, <1>6, ErrorStep DEF DeleteReject, LookupFails, DeleteFailed, Leaves
<1>7. ASSUME NEW h \in AnyHdl, CreateEntry(h)
      PROVE  LInv'
  <2>1. /\ pc = "create_entry" /\ pc' \in {"create_pipe", "create_record"}
        /\ cur.act \notin MissActs => pc' = "create_pipe"
        /\ cur'.flow = cur.flow /\ cur'.id = cur.id /\ cur'.tid = cur.tid
        /\ cur'.hdl = h /\ cur'.act = cur.act /\ cur.act \in Acts
        /\ UNCHANGED <<ft, pipe, entryHdl, tableId, failed>>
        /\ ft[cur.flow].life = "unused"
    BY <1>0, <1>7, <1>s, StepFacts DEF CreateEntry, Frame
  <2>2. /\ pd'[cur.tid][h] = [match |-> cur.flow, index |-> cur.id, act |-> cur.act]
        /\ \A t \in Tables, k \in AnyHdl :
               ~(t = cur.tid /\ k = h) => pd'[t][k] = pd[t][k]
    BY <1>0, <1>7, <1>s, <2>1 DEF CreateEntry, TypeOK
  <2>3. /\ pd'[cur.tid][h].match = cur.flow /\ pd'[cur.tid][h].index = cur.id
        /\ pd'[cur.tid][h].act = cur.act
    BY <2>2
  <2>4. NewEntryIsWritten' /\ FirstCallDone'
    BY <2>1, <2>2 DEF NewEntryIsWritten, FirstCallDone
  <2>5. IndexTellsPlace'
    BY <1>l, <1>s, <1>r, <1>g, <2>1, <2>2, <2>3 DEF IndexTellsPlace
  <2>6. MatchIsIndex'
    BY <1>0, <1>l, <1>s, <2>1, <2>2, <2>3 DEF MatchIsIndex, AnyHdl
  <2>7. MatchTellsPlace'
    BY <1>l, <2>1, <2>2, <2>3 DEF MatchTellsPlace, AnyHdl
  <2>8. NewRecordIsOwn'
    BY <1>l, <1>s, <2>1 DEF NewRecordIsOwn
  <2>9. TornInWindow'
    <3> SUFFICES ASSUME NEW t \in Tables, NEW k \in AnyHdl, Torn(t, k)'
                 PROVE  \/ pc' \in {"create_pipe", "modify_pipe"} /\ cur'.id = pd'[t][k].index
                        \/ \E g \in Flows : /\ ft[g].priv = pd'[t][k].index
                                            /\ failed[g] \cap Tears # {}
      BY <2>1 DEF TornInWindow
    <3>1. CASE t = cur.tid /\ k = h
      BY <2>1, <2>3, <3>1 DEF Torn
    <3>2. CASE ~(t = cur.tid /\ k = h)
      <4>1. pd'[t][k] = pd[t][k] /\ Torn(t, k)
        BY <2>1, <2>2, <3>2 DEF Torn
      <4> QED
        BY <1>l, <2>1, <4>1 DEF TornInWindow
    <3> QED
      BY <3>1, <3>2
  <2>10. GoneLeavesReported'
    BY <1>l, <2>1, <2>2, <2>3 DEF GoneLeavesReported, AnyHdl
  <2> QED
    BY <1>i, <2>4, <2>5, <2>6, <2>7, <2>8, <2>9, <2>10 DEF LInv
<1>8. ASSUME CreatePipe
      PROVE  LInv'
  <2>1. /\ pc = "create_pipe" /\ pc' = "create_record" /\ ft[cur.flow].life = "unused"
        /\ UNCHANGED <<ft, pd, cur, entryHdl, tableId, failed>>
        /\ pipe'[cur.id] = cur.act /\ \A i \in Ids \ {cur.id} : pipe'[i] = pipe[i]
    BY <1>0, <1>8, <1>s, StepFacts DEF CreatePipe, Advance, TypeOK
  <2>2. NewEntryIsWritten' /\ FirstCallDone' /\ NewRecordIsOwn'
    BY <1>l, <2>1 DEF NewEntryIsWritten, FirstCallDone, NewRecordIsOwn
  <2>3. IndexTellsPlace' /\ MatchTellsPlace'
    BY <1>l, <2>1 DEF IndexTellsPlace, MatchTellsPlace
  <2>4. MatchIsIndex'
    BY <1>0, <1>l, <2>1 DEF MatchIsIndex
  <2>5. TornInWindow'
    <3> SUFFICES ASSUME NEW t \in Tables, NEW h \in AnyHdl, Torn(t, h)'
                 PROVE  \E g \in Flows : ft[g].priv = pd[t][h].index /\ failed[g] \cap Tears # {}
      BY <2>1 DEF TornInWindow
    <3>1. pd[t][h] # NoEntry /\ pd[t][h].index \in Ids
      BY <1>e, <2>1 DEF Torn
    <3>2. CASE pd[t][h].index = cur.id
      <4>1. cur.tid = t /\ cur.hdl = h
        BY <1>l, <2>1, <3>1, <3>2 DEF IndexTellsPlace
      <4>2. pd[t][h].act = cur.act
        BY <1>l, <2>1, <4>1 DEF NewEntryIsWritten
      <4> QED
        BY <2>1, <3>2, <4>2 DEF Torn
    <3>3. CASE pd[t][h].index # cur.id
      <4>1. Torn(t, h)
        BY <2>1, <3>1, <3>3 DEF Torn
      <4> QED
        BY <1>l, <3>3, <4>1 DEF TornInWindow
    <3> QED
      BY <3>2, <3>3
  <2>6. GoneLeavesReported'
    <3>1. \A g \in Flows : ft[g].life = "gone" /\ failed[g] # {} => ft[g].priv \in Ids \ {cur.id}
      BY <1>0, <1>r, <1>f, <2>1 DEF TypeOK, FlowRec
    <3> QED
      BY <1>l, <2>1, <3>1 DEF GoneLeavesReported
  <2> QED
    BY <1>i, <2>2, <2>3, <2>4, <2>5, <2>6 DEF LInv
<1>9. ASSUME CreateRecord
      PROVE  LInv'
  <2>1. /\ pc = "create_record" /\ pc' = "idle" /\ UNCHANGED <<pd, pipe, failed>>
        /\ ft[cur.flow].life = "unused"
        /\ ft'[cur.flow].life = "live" /\ ft'[cur.flow].priv = cur.id
        /\ \A g \in Flows \ {cur.flow} : ft'[g] = ft[g]
        /\ tableId'[cur.id] = cur.tid /\ entryHdl'[cur.id] = cur.hdl
    <3>1. /\ pc = "create_record" /\ pc' = "idle" /\ UNCHANGED <<pd, pipe, failed>>
          /\ ft' = [ft EXCEPT ![cur.flow] = [life |-> "live", priv |-> ft[cur.flow].priv,
                                             tid |-> cur.tid, dflt |-> cur.dflt]]
          /\ tableId' = [tableId EXCEPT ![cur.id] = cur.tid]
          /\ entryHdl' = [entryHdl EXCEPT ![cur.id] = cur.hdl]
      BY <1>9 DEF CreateRecord, Created, ReturnNone, flow_id_entry_hdl_set, flow_id_table_id_set
    <3> QED
      BY <1>0, <1>s, <3>1, StepFacts DEF TypeOK
  <2>2. \A g \in Flows \ {cur.flow} :
            ft[g].life = "live" => /\ tableId'[ft[g].priv] = tableId[ft[g].priv]
                                   /\ entryHdl'[ft[g].priv] = entryHdl[ft[g].priv]
    BY <1>g, UsedStays
  <2>3. NewEntryIsWritten' /\ FirstCallDone' /\ NewRecordIsOwn'
    BY <2>1 DEF NewEntryIsWritten, FirstCallDone, NewRecordIsOwn
  <2>4. IndexTellsPlace'
    <3> SUFFICES ASSUME NEW g \in Flows, NEW t \in Tables, NEW h \in AnyHdl,
                        ft'[g].life = "live", pd[t][h] # NoEntry, pd[t][h].index = ft'[g].priv
                 PROVE  tableId'[ft'[g].priv] = t /\ entryHdl'[ft'[g].priv] = h
      BY <2>1 DEF IndexTellsPlace
    <3>1. CASE g = cur.flow
      BY <1>l, <2>1, <3>1 DEF IndexTellsPlace
    <3>2. CASE g # cur.flow
      BY <1>l, <2>1, <2>2, <3>2 DEF IndexTellsPlace
    <3> QED
      BY <3>1, <3>2
  <2>5. MatchIsIndex'
    BY <1>0, <1>l, <1>o, <2>1 DEF MatchIsIndex
  <2>6. MatchTellsPlace'
    <3> SUFFICES ASSUME NEW t \in Tables, NEW h \in Handles, pd[t][h] # NoEntry,
                        ft'[pd[t][h].match].life = "live"
                 PROVE  /\ tableId'[ft'[pd[t][h].match].priv] = t
                        /\ entryHdl'[ft'[pd[t][h].match].priv] = h
      BY <2>1 DEF MatchTellsPlace
    <3>1. CASE pd[t][h].match = cur.flow
      BY <2>1, <3>1 DEF IInv, UnusedHasNoEntry
    <3>2. CASE pd[t][h].match # cur.flow
      BY <1>l, <1>o, <2>1, <2>2, <3>2 DEF MatchTellsPlace
    <3> QED
      BY <3>1, <3>2
  <2>7. TornInWindow'
    BY <1>l, <1>f, <2>1 DEF TornInWindow, Torn, Tears
  <2>8. GoneLeavesReported'
    BY <1>l, <1>o, <2>1 DEF GoneLeavesReported
  <2> QED
    BY <1>i, <2>3, <2>4, <2>5, <2>6, <2>7, <2>8 DEF LInv
<1>10. ASSUME CreateFails
      PROVE  LInv'
  BY <1>0, <1>10, <1>s, ErrorStep DEF CreateFails, Leaves
<1>11. ASSUME ModifyEntry
      PROVE  LInv'
  <2>1. /\ pc = "modify_entry" /\ pc' \in {"modify_pipe", "idle"}
        /\ cur.act \notin MissActs => pc' = "modify_pipe"
        /\ pc' = "modify_pipe" => cur' = cur
        /\ cur.act \in Acts /\ cur.hdl \in AnyHdl
        /\ UNCHANGED <<ft, pipe, entryHdl, tableId, failed>>
        /\ cur.tid = tableId[cur.id] /\ cur.hdl = entryHdl[cur.id] /\ Live(cur.flow)
        /\ pd[cur.tid][cur.hdl] # NoEntry
    BY <1>0, <1>11, <1>s, StepFacts DEF ModifyEntry, Advance, ReturnNone, Live
  <2>2. /\ pd'[cur.tid][cur.hdl] = [match |-> pd[cur.tid][cur.hdl].match,
                                    index |-> cur.id, act |-> cur.act]
        /\ \A t \in Tables, k \in AnyHdl :
               ~(t = cur.tid /\ k = cur.hdl) => pd'[t][k] = pd[t][k]
    BY <1>0, <1>11, <1>s, <2>1 DEF ModifyEntry, TypeOK
  <2>3. /\ pd'[cur.tid][cur.hdl].match = pd[cur.tid][cur.hdl].match
        /\ pd'[cur.tid][cur.hdl].index = cur.id /\ pd'[cur.tid][cur.hdl].act = cur.act
        /\ pd'[cur.tid][cur.hdl] # NoEntry
    <3>1. pd'[cur.tid][cur.hdl] \in Entry
      BY <1>e, <1>s, <2>1, <2>2 DEF Entry
    <3> QED
      BY <2>2, <3>1, EntryAssumption
  <2>4. NewEntryIsWritten' /\ FirstCallDone' /\ NewRecordIsOwn'
    BY <2>1, <2>3 DEF NewEntryIsWritten, FirstCallDone, NewRecordIsOwn
  <2>5. IndexTellsPlace'
    BY <1>l, <1>s, <1>r, <1>g, <2>1, <2>2, <2>3 DEF IndexTellsPlace
  <2>6. MatchIsIndex'
    <3> SUFFICES ASSUME NEW t \in Tables, NEW h \in Handles, pd'[t][h] # NoEntry,
                        <<t, h>> \notin StaleHandles
                 PROVE  ft[pd'[t][h].match].priv = pd'[t][h].index
      BY <1>0, <2>1 DEF MatchIsIndex
    <3>1. CASE t = cur.tid /\ h = cur.hdl
      BY <2>1, <2>3, <3>1, CalledEntryIsOwn
    <3>2. CASE ~(t = cur.tid /\ h = cur.hdl)
      BY <1>l, <2>2, <3>2 DEF MatchIsIndex, AnyHdl
    <3> QED
      BY <3>1, <3>2
  <2>7. MatchTellsPlace'
    BY <1>l, <2>1, <2>2, <2>3 DEF MatchTellsPlace, AnyHdl
  <2>8. TornInWindow'
    <3> SUFFICES ASSUME NEW t \in Tables, NEW k \in AnyHdl, Torn(t, k)'
                 PROVE  \/ pc' = "modify_pipe" /\ cur.id = pd'[t][k].index
                        \/ \E g \in Flows : /\ ft[g].priv = pd'[t][k].index
                                            /\ failed[g] \cap Tears # {}
      BY <2>1 DEF TornInWindow
    <3>1. CASE t = cur.tid /\ k = cur.hdl
      BY <2>1, <2>3, <3>1 DEF Torn
    <3>2. CASE ~(t = cur.tid /\ k = cur.hdl)
      <4>1. pd'[t][k] = pd[t][k] /\ Torn(t, k)
        BY <2>1, <2>2, <3>2 DEF Torn
      <4> QED
        BY <1>l, <2>1, <4>1 DEF TornInWindow
    <3> QED
      BY <3>1, <3>2
  <2>9. GoneLeavesReported'
    BY <1>l, <2>1, <2>2, <2>3 DEF GoneLeavesReported, AnyHdl
  <2> QED
    BY <1>i, <2>4, <2>5, <2>6, <2>7, <2>8, <2>9 DEF LInv
<1>12. ASSUME ModifyPipe
      PROVE  LInv'
  <2>1. /\ pc = "modify_pipe" /\ pc' = "idle" /\ ft[cur.flow].life = "live"
        /\ UNCHANGED <<ft, pd, entryHdl, tableId>>
        /\ cur.tid = tableId[cur.id] /\ cur.hdl = entryHdl[cur.id]
        /\ pipe'[cur.id] = cur.act /\ \A i \in Ids \ {cur.id} : pipe'[i] = pipe[i]
        /\ \A g \in Flows \ {cur.flow} : failed'[g] = failed[g]
        /\ failed'[cur.flow] = failed[cur.flow] \ {"modify_pipe"}
    BY <1>0, <1>12, <1>s, StepFacts DEF ModifyPipe, TypeOK
  <2>2. NewEntryIsWritten' /\ FirstCallDone' /\ NewRecordIsOwn'
    BY <2>1 DEF NewEntryIsWritten, FirstCallDone, NewRecordIsOwn
  <2>3. IndexTellsPlace' /\ MatchTellsPlace'
    BY <1>l, <2>1 DEF IndexTellsPlace, MatchTellsPlace
  <2>4. MatchIsIndex'
    BY <1>0, <1>l, <2>1 DEF MatchIsIndex
  <2>5. TornInWindow'
    <3> SUFFICES ASSUME NEW t \in Tables, NEW h \in AnyHdl, Torn(t, h)'
                 PROVE  \E g \in Flows : ft[g].priv = pd[t][h].index /\ failed'[g] \cap Tears # {}
      BY <2>1 DEF TornInWindow
    <3>1. pd[t][h] # NoEntry /\ pd[t][h].index \in Ids
      BY <1>e, <2>1 DEF Torn
    <3>2. CASE pd[t][h].index = cur.id
      <4>1. cur.tid = t /\ cur.hdl = h
        BY <1>l, <1>s, <2>1, <3>1, <3>2 DEF IndexTellsPlace
      <4>2. pd[t][h].act = cur.act
        BY <1>l, <2>1, <4>1 DEF FirstCallDone
      <4> QED
        BY <2>1, <3>2, <4>2 DEF Torn
    <3>3. CASE pd[t][h].index # cur.id
      <4>1. Torn(t, h)
        BY <2>1, <3>1, <3>3 DEF Torn
      <4> QED
        BY <1>l, <1>s, <2>1, <3>3, <4>1 DEF TornInWindow
    <3> QED
      BY <3>2, <3>3
  <2>6. GoneLeavesReported'
    <3>1. \A g \in Flows : ft[g].life = "gone" /\ failed[g] # {} =>
              ft[g].priv \in Ids \ {cur.id} /\ g # cur.flow
      BY <1>0, <1>r, <1>f, <2>1 DEF TypeOK, FlowRec
    <3> QED
      BY <1>l, <1>o, <2>1, <3>1 DEF GoneLeavesReported
  <2> QED
    BY <1>i, <2>2, <2>3, <2>4, <2>5, <2>6 DEF LInv
<1>13. ASSUME ModifyFails
      PROVE  LInv'
  BY <1>0, <1>13, <1>s, ErrorStep, StepFacts DEF ModifyFails
<1>14. ASSUME DeleteEntry
      PROVE  LInv'
  <2>1. /\ pc = "delete_entry" /\ pc' = "delete_pipe" /\ cur.hdl \in AnyHdl
        /\ UNCHANGED <<ft, pipe, cur, entryHdl, tableId, failed>>
        /\ pd'[cur.tid][cur.hdl] = NoEntry
        /\ \A t \in Tables, k \in AnyHdl : pd'[t][k] # NoEntry => pd'[t][k] = pd[t][k]
    BY <1>0, <1>14, <1>s, StepFacts DEF DeleteEntry, Advance, TypeOK
  <2>2. NewEntryIsWritten' /\ FirstCallDone' /\ NewRecordIsOwn'
    BY <2>1 DEF NewEntryIsWritten, FirstCallDone, NewRecordIsOwn
  <2>3. IndexTellsPlace' /\ MatchTellsPlace'
    BY <1>l, <2>1 DEF IndexTellsPlace, MatchTellsPlace, AnyHdl
  <2>4. MatchIsIndex'
    BY <1>0, <1>l, <2>1 DEF MatchIsIndex, AnyHdl
  <2>5. TornInWindow'
    <3>1. \A t \in Tables, h \in AnyHdl : Torn(t, h)' => Torn(t, h) /\ pd'[t][h] = pd[t][h]
      BY <2>1 DEF Torn
    <3> QED
      BY <1>l, <2>1, <3>1 DEF TornInWindow
  <2>6. GoneLeavesReported'
    BY <1>l, <2>1 DEF GoneLeavesReported, AnyHdl
  <2> QED
    BY <1>i, <2>2, <2>3, <2>4, <2>5, <2>6 DEF LInv
<1>15. ASSUME DeletePipe
      PROVE  LInv'
  <2>1. /\ pc = "delete_pipe" /\ pc' = "idle" /\ ft[cur.flow].life = "live"
        /\ UNCHANGED <<pd, entryHdl, tableId, failed>>
        /\ cur.tid = tableId[cur.id] /\ cur.hdl = entryHdl[cur.id]
        /\ pipe'[cur.id] = NoAct /\ \A i \in Ids \ {cur.id} : pipe'[i] = pipe[i]
        /\ pd[cur.tid][cur.hdl] = NoEntry
        /\ ft'[cur.flow].life = "gone" /\ ft'[cur.flow].priv = cur.id
        /\ \A g \in Flows \ {cur.flow} : ft'[g] = ft[g]
    BY <1>0, <1>l, <1>15, <1>s, StepFacts, DroppedType
       DEF DeletePipe, ReturnNone, TypeOK, FirstCallDone
  <2>2. \A t \in Tables, h \in AnyHdl : pd[t][h] # NoEntry => pd[t][h].index # cur.id
    BY <1>l, <1>s, <2>1 DEF IndexTellsPlace
  <2>3. NewEntryIsWritten' /\ FirstCallDone' /\ NewRecordIsOwn'
    BY <2>1 DEF NewEntryIsWritten, FirstCallDone, NewRecordIsOwn
  <2>4. IndexTellsPlace'
    BY <1>l, <2>1 DEF IndexTellsPlace
  <2>5. MatchTellsPlace'
    BY <1>l, <1>o, <2>1 DEF MatchTellsPlace
  <2>6. MatchIsIndex'
    BY <1>0, <1>l, <1>o, <2>1 DEF MatchIsIndex
  <2>7. TornInWindow'
    <3>1. \A t \in Tables, h \in AnyHdl : Torn(t, h)' => Torn(t, h)
      BY <1>e, <2>1, <2>2 DEF Torn
    <3> QED
      BY <1>l, <1>f, <2>1, <3>1 DEF TornInWindow, Tears
  <2>8. GoneLeavesReported'
    <3>1. \A t \in Tables, h \in Handles : pd[t][h] # NoEntry => pd[t][h].match # cur.flow
      BY <1>l, <1>o, <1>s, <2>1 DEF MatchTellsPlace
    <3>2. \A g \in Flows : pipe'[ft'[g].priv] # NoAct /\ ft'[g].life = "gone" /\ failed[g] # {} =>
              failed[g] \cap Keeps # {}
      <4> SUFFICES ASSUME NEW g \in Flows, pipe'[ft'[g].priv] # NoAct, ft'[g].life = "gone",
                          failed[g] # {}
                   PROVE  failed[g] \cap Keeps # {}
        OBVIOUS
      <4>1. g # cur.flow /\ ft'[g] = ft[g] /\ ft[g].priv \in Ids
        BY <1>0, <2>1 DEF TypeOK, FlowRec
      <4>2. pipe[ft[g].priv] # NoAct
        BY <2>1, <4>1
      <4> QED
        BY <1>l, <4>1, <4>2 DEF GoneLeavesReported
    <3> QED
      BY <1>l, <1>o, <2>1, <3>1, <3>2 DEF GoneLeavesReported
  <2> QED
    BY <1>i, <2>3, <2>4, <2>5, <2>6, <2>7, <2>8 DEF LInv
<1>16. ASSUME DeleteFails
      PROVE  LInv'
  BY <1>0, <1>16, <1>s, ErrorStep, StepFacts DEF DeleteFails, DeleteFailed, Leaves
<1>17. CASE UNCHANGED vars
  BY <1>0, <1>l, <1>i, <1>17 DEF vars, LInv, Torn, NewEntryIsWritten, IndexTellsPlace,
     MatchIsIndex, MatchTellsPlace, FirstCallDone, NewRecordIsOwn, TornInWindow, GoneLeavesReported
<1> QED
  BY <1>1, <1>2, <1>3, <1>4, <1>6, <1>7, <1>8, <1>9, <1>10, <1>11, <1>12,
     <1>13, <1>14, <1>15, <1>16, <1>17 DEF Next, Messages, PdCalls, ModifyCall, DeleteCall

\* So it holds throughout, while no two flows own one id.
LEMMA LeakInvariant == Spec /\ []KeysApart => []LInv
<1>1. Init => LInv
  <2> SUFFICES ASSUME Init PROVE LInv
    OBVIOUS
  <2>1. NewEntryIsWritten /\ FirstCallDone /\ NewRecordIsOwn
    BY DEF Init, NewEntryIsWritten, FirstCallDone, NewRecordIsOwn, Creating, Created1
  <2>2. \A t \in Tables, h \in AnyHdl : pd[t][h] = NoEntry
    BY DEF Init
  <2>3. IndexIsOwned /\ IndexTellsPlace
    BY <2>2 DEF Init, IndexIsOwned, IndexTellsPlace, Creating
  <2>4. MatchIsIndex /\ MatchTellsPlace /\ TornInWindow
    BY <2>2 DEF MatchIsIndex, MatchTellsPlace, TornInWindow, Torn, AnyHdl
  <2>5. GoneLeavesReported
    BY <2>2 DEF Init, GoneLeavesReported, AnyHdl, Life
  <2> QED
    BY <2>1, <2>3, <2>4, <2>5 DEF LInv
<1>2. KeysApart /\ KeysApart' /\ IInv /\ LInv /\ [Next]_vars => LInv'
  BY LeakStep
<1> QED
  BY <1>1, <1>2, Inductive, PTL DEF Spec

\* Whatever PD calls fail, an entry or a pipeline record outlives its flow only if
\* the controller got an error for that flow.
THEOREM NothingLeaksSilently == Spec /\ []KeysApart => []NoSilentLeak
<1>1. IInv /\ LInv => NoSilentLeak
  <2> SUFFICES ASSUME IInv, LInv PROVE NoSilentLeak
    OBVIOUS
  <2>1. ASSUME NEW t \in Tables, NEW h \in Handles, pd[t][h] # NoEntry
        PROVE  LeftBehind(pd[t][h].match, Stays)
    <3>1. h \in AnyHdl /\ pd[t][h].match \in Flows
      BY <2>1, StepFacts DEF AnyHdl
    <3>2. CASE Life(pd[t][h].match) = "unused"
      BY <2>1, <3>2 DEF IInv, UnusedHasNoEntry, Life, Created1, LeftBehind, Running
    <3>3. CASE Life(pd[t][h].match) = "gone"
      BY <2>1, <3>1, <3>3 DEF LInv, GoneLeavesReported, LeftBehind
    <3> QED
      BY <3>1, <3>2, <3>3 DEF IInv, TypeOK, FlowRec, Life, LeftBehind, Live
  <2>2. ASSUME NEW i \in Ids, pipe[i] # NoAct
        PROVE  \E f \in Flows : ft[f].priv = i /\ LeftBehind(f, Keeps)
    <3>1. PICK f \in Flows : Owns(f) /\ ft[f].priv = i
      BY <2>2 DEF LInv, IndexIsOwned
    <3> QED
      BY <2>2, <3>1 DEF LInv, IInv, UnusedNeverFailed, TypeOK, FlowRec, Life, LeftBehind, Live,
         Owns, GoneLeavesReported
  <2> QED
    BY <2>1, <2>2 DEF NoSilentLeak, Stays, Keeps
<1> QED
  BY <1>1, Inductive, LeakInvariant, PTL

\* The two tables a packet is treated by disagree only between the two PD calls of a
\* callback, or after the second of them has failed.
THEOREM TearsAreExplained == Spec /\ []KeysApart => []TornIsExplained
<1>1. IInv /\ LInv => TornIsExplained
  BY StepFacts DEF LInv, TornInWindow, TornIsExplained, Tears
<1> QED
  BY <1>1, Inductive, LeakInvariant, PTL

\* PD calls and map updates a callback makes at most before it returns.
CallsLeft ==
    [create_entry |-> 3, create_pipe |-> 2, create_record |-> 1, modify_entry |-> 2,
     modify_pipe |-> 1, delete_entry |-> 2, delete_pipe |-> 1, idle |-> 0]

\* A callback that returns NONE has put its entry and pipeline record in agreement.
LEMMA ReturnLeavesNoneTorn ==
    ASSUME KeysApart, IInv, LInv, pc # "idle", [Next]_vars, pc' = "idle", rv' # "UNKNOWN",
           NEW t \in Tables, NEW h \in AnyHdl, Torn(t, h)'
    PROVE  pd'[t][h].index # cur.id
<1> USE DEF Creating, Created1, Modifying, Deleting, Life
<1>l. /\ IndexTellsPlace /\ FirstCallDone /\ TornInWindow /\ TypeOK /\ UnusedNeverFailed
      /\ pd'[t][h] # NoEntry
  BY DEF LInv, IInv, Torn
<1>s. /\ cur.flow \in Flows /\ cur.id \in Ids /\ cur.tid \in Tables
      /\ cur.id = ft[cur.flow].priv
  BY StepFacts
\* An entry with the index of a live flow is the one its callback finds.
<1>p. ASSUME Modifying \/ Deleting, pd[t][h] # NoEntry, pd[t][h].index = cur.id
      PROVE  t = cur.tid /\ h = cur.hdl
  BY <1>l, <1>s, <1>p, StepFacts DEF IndexTellsPlace
<1>1. CASE CreateRecord
  <2>1. UNCHANGED <<pd, pipe>> /\ Torn(t, h) /\ pc = "create_record" /\ ft[cur.flow].life = "unused"
    BY <1>1, StepFacts DEF CreateRecord, Torn
  <2> SUFFICES ASSUME pd[t][h].index = cur.id PROVE FALSE
    BY <2>1
  <2>2. PICK f \in Flows : ft[f].priv = cur.id /\ failed[f] # {}
    BY <1>l, <2>1 DEF TornInWindow
  <2>3. f = cur.flow
    BY <2>2, RunningIsOwner DEF Owns
  <2> QED
    BY <1>l, <2>1, <2>2, <2>3 DEF UnusedNeverFailed
<1>2. CASE ModifyEntry
  <2>1. /\ pc = "modify_entry" /\ cur.act \in MissActs /\ cur.hdl \in AnyHdl /\ UNCHANGED pipe
    BY <1>2, StepFacts DEF ModifyEntry, Advance
  <2>2. /\ ~(t = cur.tid /\ h = cur.hdl) => pd'[t][h] = pd[t][h]
        /\ pd'[cur.tid][cur.hdl].act = cur.act
    BY <1>l, <1>s, <1>2, <2>1 DEF ModifyEntry, TypeOK
  <2>3. ~(t = cur.tid /\ h = cur.hdl)
    BY <2>1, <2>2 DEF Torn
  <2> QED
    BY <1>l, <1>p, <2>1, <2>2, <2>3
<1>3. CASE ModifyPipe
  <2>1. /\ pc = "modify_pipe" /\ UNCHANGED pd /\ pipe'[cur.id] = cur.act
    BY <1>l, <1>s, <1>3 DEF ModifyPipe, TypeOK
  <2> QED
    BY <1>l, <1>p, <2>1 DEF FirstCallDone, Torn
<1>4. CASE DeletePipe
  <2>1. pc = "delete_pipe" /\ UNCHANGED pd
    BY <1>4 DEF DeletePipe
  <2> QED
    BY <1>l, <1>p, <2>1 DEF FirstCallDone
<1> QED
  BY <1>1, <1>2, <1>3, <1>4 DEF Next, Messages, PdCalls, CreateCall, CreateReject, ModifyCall,
     ModifyReject, DeleteCall, DeleteReject, CreateEntry, CreatePipe, CreateFails, ModifyFails,
     DeleteEntry, DeleteFails, Advance, ReturnError, vars

\* What TornWindowCloses needs of each step, fairness apart, while no two flows own one
\* id: while a callback runs the agent does nothing else, each step brings it nearer to
\* its return, and it returns UNKNOWN or leaves no entry of its index torn.
THEOREM WindowClosesOnReturn ==
    Spec /\ []KeysApart =>
        [][pc # "idle" =>
               /\ PdCalls /\ CallsLeft[pc'] < CallsLeft[pc]
               /\ pc' # "idle" => cur'.flow = cur.flow /\ cur'.id = cur.id
               /\ pc' = "idle" /\ rv' # "UNKNOWN" =>
                      \A t \in Tables, h \in AnyHdl : Torn(t, h)' => pd'[t][h].index # cur.id]_vars
<1> DEFINE Closes ==
               pc # "idle" =>
                   /\ PdCalls /\ CallsLeft[pc'] < CallsLeft[pc]
                   /\ pc' # "idle" => cur'.flow = cur.flow /\ cur'.id = cur.id
                   /\ pc' = "idle" /\ rv' # "UNKNOWN" =>
                          \A t \in Tables, h \in AnyHdl :
                              Torn(t, h)' => pd'[t][h].index # cur.id
<1>1. KeysApart /\ IInv /\ LInv /\ [Next]_vars => [Closes]_vars
  <2> SUFFICES ASSUME KeysApart, IInv, LInv, Next, pc # "idle" PROVE Closes
    OBVIOUS
  <2>1. PdCalls
    BY DEF Next, Messages, CreateCall, CreateReject, ModifyCall, ModifyReject, DeleteCall,
       DeleteReject
  <2>2. CallsLeft[pc'] < CallsLeft[pc]
    <3>1. \/ pc = "create_entry" /\ pc' \in {"create_pipe", "create_record", "idle"}
          \/ pc = "create_pipe" /\ pc' \in {"create_record", "idle"}
          \/ pc = "modify_entry" /\ pc' \in {"modify_pipe", "idle"}
          \/ pc = "delete_entry" /\ pc' \in {"delete_pipe", "idle"}
          \/ pc \in {"create_record", "modify_pipe", "delete_pipe"} /\ pc' = "idle"
      BY <2>1 DEF PdCalls, CreateEntry, CreatePipe, CreateRecord, CreateFails, ModifyEntry,
         ModifyPipe, ModifyFails, DeleteEntry, DeletePipe, DeleteFails, Advance,
         ReturnNone, ReturnError
    <3> QED
      BY <3>1 DEF CallsLeft
  <2>3. pc' # "idle" => cur'.flow = cur.flow /\ cur'.id = cur.id
    BY <2>1 DEF IInv, TypeOK, Frame, PdCalls, CreateEntry, CreatePipe, CreateRecord,
       CreateFails, ModifyEntry, ModifyPipe, ModifyFails, DeleteEntry, DeletePipe,
       DeleteFails, Advance, ReturnNone, ReturnError
  <2> QED
    BY <2>1, <2>2, <2>3, ReturnLeavesNoneTorn
<1> QED
  BY <1>1, Inductive, LeakInvariant, PTL DEF Spec

\* A callback writes the entry of another flow at a stale handle only: that of a flow
\* Indigo kept although its entry had been deleted.
THEOREM ForeignEntriesUntouched == Spec /\ []KeysApart => NoForeignTouch
<1>1. IInv /\ [Next]_vars =>
          [\A t \in Tables, h \in Handles :
               pd[t][h] # NoEntry /\ pd'[t][h] # pd[t][h] =>
                   pd[t][h].match = cur.flow \/ <<t, h>> \in StaleHandles]_vars
  <2> SUFFICES ASSUME IInv, [Next]_vars, NEW t \in Tables, NEW h \in Handles,
                      pd[t][h] # NoEntry, pd'[t][h] # pd[t][h], <<t, h>> \notin StaleHandles
               PROVE  pd[t][h].match = cur.flow
    OBVIOUS
  <2>1. (\E k \in AnyHdl : CreateEntry(k)) \/ ModifyEntry \/ DeleteEntry
    BY DEF Next, Messages, PdCalls, CreateCall, CreateReject, ModifyCall, ModifyReject,
       DeleteCall, DeleteReject, CreatePipe, CreateRecord, CreateFails, ModifyPipe,
       ModifyFails, DeletePipe, DeleteFails, vars
  <2>2. ASSUME NEW k \in AnyHdl, CreateEntry(k) PROVE FALSE
    BY <2>2, HandleAssumption, StepFacts DEF CreateEntry, IInv, TypeOK, Creating
  <2>3. ASSUME ModifyEntry \/ DeleteEntry PROVE pd[t][h].match = cur.flow
    <3>1. pc \in {"modify_entry", "delete_entry"}
      BY <2>3 DEF ModifyEntry, DeleteEntry
    <3>2. t = cur.tid /\ h = cur.hdl
      BY <2>3 DEF ModifyEntry, DeleteEntry, IInv, TypeOK, AnyHdl
    <3> QED
      BY <3>1, <3>2, CalledEntryIsOwn
  <2> QED
    BY <2>1, <2>2, <2>3
<1> QED
  BY <1>1, Inductive, PTL DEF Spec, NoForeignTouch

\* No handle is ever stale if Indigo drops every flow whose deletion failed.
LEMMA NoneStale ==
    ASSUME KeepOnDeleteError = {FALSE}
    PROVE  StaleHandles = {}
  BY DEF StaleHandles

\* Then no callback writes the entry of another flow at all.
THEOREM NoneForeignIfDropped ==
    ASSUME KeepOnDeleteError = {FALSE}
    PROVE  Spec /\ []KeysApart =>
                    [][\A t \in Tables, h \in Handles :
                          pd[t][h] # NoEntry /\ pd'[t][h] # pd[t][h] =>
                              pd[t][h].match = cur.flow]_vars
<1>1. [\A t \in Tables, h \in Handles :
           pd[t][h] # NoEntry /\ pd'[t][h] # pd[t][h] =>
               pd[t][h].match = cur.flow \/ <<t, h>> \in StaleHandles]_vars
      => [\A t \in Tables, h \in Handles :
              pd[t][h] # NoEntry /\ pd'[t][h] # pd[t][h] => pd[t][h].match = cur.flow]_vars
  BY NoneStale
<1> QED
  BY <1>1, ForeignEntriesUntouched, PTL DEF NoForeignTouch

(***************************************************************************)
(* Default entries, and arrays past their leaf                             *)
(***************************************************************************)
\* A default flow that lost its entry lost it for good to another default flow.
LEMMA DefaultStep ==
    ASSUME KeysApart, IInv, LInv, DefaultIsOwnOrDisplaced, [Next]_vars
    PROVE  DefaultIsOwnOrDisplaced'
<1> SUFFICES ASSUME NEW f \in Flows, Live(f)', ft'[f].dflt, "delete_pipe" \notin failed'[f],
                    ~(pc = "delete_pipe" /\ cur.flow = f)'
             PROVE  \/ pd'[ft'[f].tid][DefHdl] # NoEntry /\ pd'[ft'[f].tid][DefHdl].match = f
                    \/ Displaced(f)'
  BY DEF DefaultIsOwnOrDisplaced
<1>0. /\ TypeOK /\ TypeOK' /\ NewEntryIsWritten /\ DefHdl \in AnyHdl
      /\ "delete_pipe" \notin failed[f]
  BY TypeStep, FailedStays DEF IInv, LInv, AnyHdl
<1> USE DEF Creating, Created1, Modifying, Deleting, Life, Live
<1>1. CASE CreateRecord
  <2>1. /\ pc = "create_record" /\ pc' = "idle" /\ UNCHANGED <<pd, failed>>
        /\ ft' = [ft EXCEPT ![cur.flow] = [life |-> "live", priv |-> ft[cur.flow].priv,
                                           tid |-> cur.tid, dflt |-> cur.dflt]]
    BY <1>1 DEF CreateRecord, Created, ReturnNone
  <2>2. /\ cur.flow \in Flows /\ cur.tid \in Tables /\ cur.hdl \in AnyHdl
        /\ ft'[cur.flow].tid = cur.tid /\ ft'[cur.flow].dflt = cur.dflt
        /\ ft'[cur.flow].life = "live"
        /\ \A g \in Flows \ {cur.flow} : ft'[g] = ft[g]
    BY <1>0, <2>1, StepFacts DEF TypeOK
  <2>3. CASE f = cur.flow
    <3>1. cur.hdl = DefHdl
      BY <2>1, <2>2, <2>3 DEF IInv, NewEntryIsOwn
    <3>2. pd[cur.tid][DefHdl] = [match |-> cur.flow, index |-> cur.id, act |-> cur.act]
      BY <1>0, <2>1, <3>1 DEF NewEntryIsWritten
    <3>3. pd[cur.tid][DefHdl] # NoEntry
      BY <1>0, <2>1, <2>2, <3>2, StepFacts, EntryAssumption DEF Entry
    <3> QED
      BY <2>1, <2>2, <2>3, <3>2, <3>3
  <2>4. CASE f # cur.flow
    <3>1. ft'[f] = ft[f]
      BY <2>2, <2>4
    <3>2. \/ pd[ft[f].tid][DefHdl] # NoEntry /\ pd[ft[f].tid][DefHdl].match = f
          \/ Displaced(f)
      BY <2>1, <3>1 DEF DefaultIsOwnOrDisplaced
    <3>3. ASSUME Displaced(f) PROVE Displaced(f)'
      <4>1. PICK g \in Flows \ {f} :
                \/ ft[g].life # "unused" /\ ft[g].dflt /\ ft[g].tid = ft[f].tid
                \/ Created1 /\ cur.flow = g /\ cur.dflt /\ cur.tid = ft[f].tid
                \/ /\ "create_pipe" \in failed[g]
                   /\ pd[ft[f].tid][DefHdl] # NoEntry /\ pd[ft[f].tid][DefHdl].match = g
        BY <3>3 DEF Displaced
      <4>2. ft'[g] = ft[g] \/ g = cur.flow
        BY <2>2
      <4>3. Life(cur.flow) = "unused" /\ ft'[cur.flow].life = "live"
        BY <2>1, <2>2, StepFacts DEF TypeOK
      <4> QED
        BY <2>1, <2>2, <3>1, <4>1, <4>2, <4>3 DEF Displaced
    <3> QED
      BY <2>1, <3>1, <3>2, <3>3
  <2> QED
    BY <2>3, <2>4
<1>2. CASE ~CreateRecord
  \* No other flow enters or leaves a table, and f stays what it is.
  <2>1. /\ ft'[f].tid = ft[f].tid /\ ft'[f].dflt /\ ft[f].dflt /\ ft[f].life = "live"
        /\ ft'[f].life = "live"
        /\ \A g \in Flows : ft'[g].dflt = ft[g].dflt /\ ft'[g].tid = ft[g].tid
        /\ \A g \in Flows : ft[g].life # "unused" => ft'[g].life # "unused"
    <3>1. \/ UNCHANGED ft
          \/ \E g \in Flows : Leaves(g)
          \/ \E g \in Flows, id \in Ids : ft' = [ft EXCEPT ![g].priv = id]
      BY <1>0, <1>2, StepFacts DEF Next, Messages, PdCalls, CreateCall, CreateReject, ModifyCall,
         ModifyReject, DeleteCall, DeleteReject, CreateEntry, CreatePipe, CreateFails,
         ModifyEntry, ModifyPipe, ModifyFails, DeleteEntry, DeletePipe, DeleteFails,
         DeleteFailed, Leaves, vars
    <3>2. \A g \in Flows : ft'[g].dflt = ft[g].dflt /\ ft'[g].tid = ft[g].tid
      BY <1>0, <3>1, LeavesType, KeyedType
    <3>3. \A g \in Flows : ft'[g].life = ft[g].life \/ ft'[g].life = "gone"
      BY <1>0, <3>1, LeavesType, KeyedType
    <3> QED
      BY <3>2, <3>3
  <2>2. pc # "delete_pipe" \/ cur.flow # f
    <3>1. CASE DeletePipe \/ DeleteFails
      <4>1. pc = "delete_pipe" /\ cur.flow = f /\ DeleteFails => "delete_pipe" \in failed'[f]
        BY <1>0 DEF DeleteFails, ReturnError, Lasting, TypeOK
      <4>2. ~(DeletePipe /\ cur.flow = f)
        BY <2>1, DroppedType, StepFacts DEF DeletePipe, IInv
      <4> QED
        BY <3>1, <4>1, <4>2
    <3>2. CASE ~(DeletePipe \/ DeleteFails)
      BY <1>2, <3>2 DEF Next, Messages, PdCalls, CreateCall, CreateReject, ModifyCall,
         ModifyReject, DeleteCall, DeleteReject, CreateEntry, CreatePipe, CreateFails,
         ModifyEntry, ModifyPipe, ModifyFails, DeleteEntry, vars
    <3> QED
      BY <3>1, <3>2
  <2>3. \/ pd[ft[f].tid][DefHdl] # NoEntry /\ pd[ft[f].tid][DefHdl].match = f
        \/ Displaced(f)
    BY <1>0, <2>1, <2>2 DEF DefaultIsOwnOrDisplaced
  <2>4. ft[f].tid \in Tables
    BY <1>0, <2>1, StepFacts DEF IInv, TypeOK, RecordsMatchFlow
  <2>5. ASSUME NEW h \in AnyHdl, CreateEntry(h)
        PROVE  \/ pd'[ft[f].tid][DefHdl] # NoEntry /\ pd'[ft[f].tid][DefHdl].match = f
               \/ Displaced(f)'
    <3>1. /\ pc = "create_entry" /\ pc' \in {"create_pipe", "create_record"}
          /\ cur.flow \in Flows \ {f} /\ cur.tid \in Tables /\ UNCHANGED failed
          /\ cur'.flow = cur.flow /\ cur'.dflt = cur.dflt /\ cur'.tid = cur.tid
      BY <1>0, <2>1, <2>5, StepFacts DEF CreateEntry, TypeOK, Frame
    <3>2. CASE cur.dflt /\ cur.tid = ft[f].tid
      BY <2>1, <3>1, <3>2 DEF Displaced
    <3>3. CASE ~(cur.dflt /\ cur.tid = ft[f].tid)
      <4>1. pd'[ft[f].tid][DefHdl] = pd[ft[f].tid][DefHdl]
        BY <1>0, <2>4, <2>5, <3>1, <3>3, HandleAssumption DEF CreateEntry, TypeOK
      <4> QED
        BY <2>1, <2>3, <3>1, <4>1 DEF Displaced
    <3> QED
      BY <3>2, <3>3
  <2>6. CASE DeleteEntry
    <3>1. /\ pc = "delete_entry" /\ pc' = "delete_pipe" /\ UNCHANGED <<failed, cur>>
          /\ cur.flow \in Flows \ {f} /\ cur.tid = tableId[cur.id] /\ cur.hdl = entryHdl[cur.id]
          /\ ft[cur.flow].life = "live" /\ cur.id = ft[cur.flow].priv
      BY <1>0, <2>6, StepFacts DEF DeleteEntry, Advance
    <3>2. CASE cur.hdl = DefHdl /\ cur.tid = ft[f].tid
      <4>1. ft[cur.flow].dflt /\ ft[cur.flow].tid = ft[f].tid
        BY <3>1, <3>2, HandleAssumption DEF IInv, RecordsMatchFlow
      <4> QED
        BY <2>1, <3>1, <4>1 DEF Displaced
    <3>3. CASE ~(cur.hdl = DefHdl /\ cur.tid = ft[f].tid)
      <4>1. pd'[ft[f].tid][DefHdl] = pd[ft[f].tid][DefHdl]
        BY <1>0, <2>4, <2>6, <3>1, <3>3, StepFacts DEF DeleteEntry, TypeOK
      <4> QED
        BY <2>1, <2>3, <3>1, <4>1 DEF Displaced
    <3> QED
      BY <3>2, <3>3
  <2>7. CASE ModifyEntry
    <3>1. /\ ~Created1 /\ UNCHANGED failed
          /\ pd'[ft[f].tid][DefHdl] # NoEntry <=> pd[ft[f].tid][DefHdl] # NoEntry
          /\ pd'[ft[f].tid][DefHdl].match = pd[ft[f].tid][DefHdl].match
      <4>1. /\ pc = "modify_entry" /\ UNCHANGED failed /\ cur.tid \in Tables /\ cur.hdl \in AnyHdl
            /\ cur.id \in Ids /\ cur.act \in Acts /\ pd[cur.tid][cur.hdl] \in Entry
        BY <1>0, <2>7, StepFacts DEF ModifyEntry, Advance, ReturnNone
      <4>2. pd'[cur.tid][cur.hdl] = [match |-> pd[cur.tid][cur.hdl].match, index |-> cur.id,
                                     act |-> cur.act]
        BY <1>0, <2>7, <4>1 DEF ModifyEntry, TypeOK
      <4>3. pd'[cur.tid][cur.hdl] \in Entry
        BY <1>0, <4>1, <4>2 DEF Entry
      <4> QED
        BY <1>0, <2>4, <2>7, <4>1, <4>2, <4>3, EntryAssumption DEF ModifyEntry, TypeOK
    <3> QED
      BY <2>1, <2>3, <3>1 DEF Displaced
  <2>8. CASE CreateFails
    <3>1. /\ pc \in {"create_entry", "create_pipe"} /\ UNCHANGED pd /\ cur.flow \in Flows
          /\ failed' = [failed EXCEPT ![cur.flow] = @ \cup ({pc} \cap Lasting)]
      BY <1>0, <2>8, StepFacts DEF CreateFails, ReturnError
    <3>2. \A g \in Flows : failed[g] \subseteq failed'[g]
      BY <1>0, <3>1 DEF TypeOK
    <3>3. ASSUME Created1, cur.dflt, cur.tid = ft[f].tid
          PROVE  /\ "create_pipe" \in failed'[cur.flow] /\ pd[ft[f].tid][DefHdl] # NoEntry
                 /\ pd[ft[f].tid][DefHdl].match = cur.flow
      <4>1. cur.hdl = DefHdl /\ pc = "create_pipe"
        BY <3>1, <3>3 DEF IInv, NewEntryIsOwn
      <4>2. pd[ft[f].tid][DefHdl] = [match |-> cur.flow, index |-> cur.id, act |-> cur.act]
        BY <1>0, <3>3, <4>1 DEF NewEntryIsWritten
      <4>3. pd[ft[f].tid][DefHdl] # NoEntry
        BY <1>0, <3>1, <4>1, <4>2, StepFacts, EntryAssumption DEF Entry
      <4> QED
        BY <1>0, <3>1, <4>1, <4>2, <4>3 DEF TypeOK, Lasting
    <3> QED
      BY <2>1, <2>3, <3>1, <3>2, <3>3 DEF Displaced
  <2>9. CASE /\ ~CreateFails /\ ~ModifyEntry /\ ~DeleteEntry
             /\ ~ \E h \in AnyHdl : CreateEntry(h)
    <3>1. /\ UNCHANGED pd
          /\ Created1 => Created1' /\ UNCHANGED cur
      BY <1>2, <2>9 DEF Next, Messages, PdCalls, CreateCall, CreateReject, ModifyCall,
         ModifyReject, DeleteCall, DeleteReject, CreatePipe, ModifyPipe, ModifyFails,
         DeletePipe, DeleteFails, Start, Advance, LookupFails, ReturnError, ReturnNone, vars
    <3>2. \A g \in Flows : "create_pipe" \in failed[g] => "create_pipe" \in failed'[g]
      BY <1>0, FailedStays
    <3> QED
      BY <2>1, <2>3, <3>1, <3>2 DEF Displaced
  <2> QED
    BY <1>2, <2>1, <2>5, <2>6, <2>7, <2>8, <2>9
<1> QED
  BY <1>1, <1>2

\* A live default flow loses the default entry of its table, unless by its own deletion,
\* only to another default flow of that table, one whose creation failed included.
THEOREM DefaultsLostToDefaults == Spec /\ []KeysApart => []DefaultLostToDefault
<1>1. Init => DefaultIsOwnOrDisplaced
  BY DEF Init, DefaultIsOwnOrDisplaced, Live
<1>2. KeysApart /\ IInv /\ LInv /\ DefaultIsOwnOrDisplaced /\ [Next]_vars
          => DefaultIsOwnOrDisplaced'
  BY DefaultStep
<1>3. DefaultIsOwnOrDisplaced => DefaultLostToDefault
  BY DEF DefaultIsOwnOrDisplaced, Displaced, DefaultLostToDefault, Running, Created1
<1> QED
  BY <1>1, <1>2, <1>3, Inductive, LeakInvariant, PTL DEF Spec

\* Both arrays have the same keys: flow_create fills both, and nothing empties them.
SameKeys ==
    {k \in DOMAIN entryHdl : entryHdl[k] # NoHdl} = {k \in DOMAIN tableId : tableId[k] # NoTable}

\* With cookie masks or without, a flow Indigo has is answered NOT_FOUND only when
\* the arrays have outgrown the leaf the getters' test can read.
THEOREM NotFoundPastLeafOnly ==
    ASSUME IsFiniteSet(Ids)
    PROVE  Spec => []NotFoundOnlyPastLeaf
<1>1. Init => SameKeys /\ NotFoundOnlyPastLeaf
  BY DEF Init, SameKeys, NotFoundOnlyPastLeaf
<1>2. TypeOK /\ LiveFlowsRecorded /\ SameKeys /\ NotFoundOnlyPastLeaf /\ [Next]_vars
          => SameKeys' /\ NotFoundOnlyPastLeaf'
  <2> SUFFICES ASSUME TypeOK, LiveFlowsRecorded, SameKeys, NotFoundOnlyPastLeaf, [Next]_vars
               PROVE  SameKeys' /\ NotFoundOnlyPastLeaf'
    OBVIOUS
  <2>1. CASE CreateRecord
    <3>1. /\ cur.id \in Ids /\ cur.hdl \in AnyHdl /\ cur.tid \in Tables /\ rv' = "NONE"
          /\ entryHdl' = [entryHdl EXCEPT ![cur.id] = cur.hdl]
          /\ tableId' = [tableId EXCEPT ![cur.id] = cur.tid]
      BY <2>1 DEF TypeOK, Frame, CreateRecord, ReturnNone,
         flow_id_entry_hdl_set, flow_id_table_id_set
    <3>2. cur.hdl # NoHdl /\ cur.tid # NoTable
      BY <3>1, HandleAssumption, TableAssumption DEF AnyHdl
    <3> QED
      BY <3>1, <3>2 DEF TypeOK, SameKeys, NotFoundOnlyPastLeaf
  <2>2. CASE \E f \in Flows : ModifyReject(f) \/ DeleteReject(f)
    <3>1. PICK f \in Flows : ModifyReject(f) \/ DeleteReject(f)
      BY <2>2
    <3>2. /\ Live(f) /\ ft[f].priv \in Ids /\ UNCHANGED <<entryHdl, tableId>>
          /\ rv' = "NOT_FOUND" => Unknown(ft[f].priv)
      BY <3>1 DEF ModifyReject, DeleteReject, LookupFails, ReturnError, Live, TypeOK, FlowRec
    <3>3. entryHdl[ft[f].priv] # NoHdl /\ tableId[ft[f].priv] # NoTable
      BY <3>2 DEF LiveFlowsRecorded
    <3>4. Unknown(ft[f].priv) => Population(entryHdl, NoHdl) > JudyLeafMax
                                 \/ Population(tableId, NoTable) > JudyLeafMax
      <4>1. Population(entryHdl, NoHdl) \in Nat /\ Population(tableId, NoTable) \in Nat
        BY FS_Subset, FS_CardinalityType DEF Population, TypeOK
      <4>2. Unknown(ft[f].priv) => \/ ~(Population(entryHdl, NoHdl) <= JudyLeafMax)
                                   \/ ~(Population(tableId, NoTable) <= JudyLeafMax)
        BY <3>3, Zenon DEF Unknown, flow_id_entry_hdl_get, flow_id_table_id_get, J1T
      <4> QED
        BY <4>1, <4>2, JudyAssumption
    <3>5. Population(entryHdl, NoHdl) = Population(tableId, NoTable)
      BY DEF Population, SameKeys
    <3> QED
      BY <3>2, <3>4, <3>5 DEF SameKeys, NotFoundOnlyPastLeaf, Population
  <2>3. CASE ~CreateRecord /\ ~ \E f \in Flows : ModifyReject(f) \/ DeleteReject(f)
    <3>1. UNCHANGED <<entryHdl, tableId>> /\ (rv' = "NOT_FOUND" => rv = "NOT_FOUND")
      BY <2>3 DEF Next, Messages, PdCalls, CreateCall, CreateReject, ModifyCall, DeleteCall,
         CreateEntry, CreatePipe, CreateFails, ModifyEntry, ModifyPipe, ModifyFails,
         DeleteEntry, DeletePipe, DeleteFails, Start, Advance, ReturnError, ReturnNone, vars
    <3> QED
      BY <3>1 DEF SameKeys, NotFoundOnlyPastLeaf, Population
  <2> QED
    BY <2>1, <2>2, <2>3
<1> QED
  BY <1>1, <1>2, TypeCorrect, LiveFlowsAreRecorded, PTL DEF Spec

===============================================================================
