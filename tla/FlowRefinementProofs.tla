------------------------- MODULE FlowRefinementProofs -------------------------
(***************************************************************************)
(* FlowCallbacks implements FlowService, for every value of the constants. *)
(* A flow's packets are treated by what its one entry and its pipeline     *)
(* record say; a PD call writes only those of the flow its callback is     *)
(* for; and a callback that answers INDIGO_ERROR_NONE has written both.    *)
(***************************************************************************)
EXTENDS FlowRefinement, FlowLeakProofs

(***************************************************************************)
(* What the refinement needs beside IInv and LInv                          *)
(***************************************************************************)
\* The switch has one entry with a flow's match at most.
OneSlot ==
    \A t, u \in Tables, h, k \in Handles :
        pd[t][h] # NoEntry /\ pd[u][k] # NoEntry /\ pd[t][h].match = pd[u][k].match =>
            t = u /\ h = k

\* When flow_create comes to record the flow its pipeline record is written.
PipeIsWritten ==
    pc = "create_record" => cur.act \in MissActs \/ pipe[cur.id] = cur.act

\* flow_delete asks for no treatment.
DeleteAsksForNone == Deleting => cur.act = NoAct

RInv == OneSlot /\ PipeIsWritten /\ DeleteAsksForNone

\* A new entry is that of a flow which had none, or a default entry.
LEMMA NewSlotStep ==
    ASSUME IInv, OneSlot, NEW h \in AnyHdl, CreateEntry(h)
    PROVE  OneSlot'
<1>1. /\ pd' = [pd EXCEPT ![cur.tid][h] =
                   [match |-> cur.flow, index |-> cur.id, act |-> cur.act]]
      /\ cur.tid \in Tables /\ cur.flow \in Flows
      /\ h \in Handles => pd[cur.tid][h] = NoEntry /\ ~cur.dflt
  BY HandleAssumption, StepFacts DEF CreateEntry
<1>2. \A t \in Tables, k \in Handles : pd[t][k] # NoEntry => pd[t][k].match # cur.flow
  BY StepFacts DEF CreateEntry, IInv, UnusedHasNoEntry, Created1, Creating, Life
<1>3. \A t \in Tables, k \in Handles :
          /\ pd'[t][k] # NoEntry
          /\ ~(t = cur.tid /\ k = h)
          => pd[t][k] # NoEntry /\ pd'[t][k] = pd[t][k]
  BY <1>1 DEF IInv, TypeOK, AnyHdl
<1>4. h \in Handles => pd'[cur.tid][h].match = cur.flow
  BY <1>1 DEF IInv, TypeOK, AnyHdl
<1> QED
  BY <1>2, <1>3, <1>4 DEF OneSlot

\* Every step keeps them.
LEMMA RefStep ==
    ASSUME IInv, RInv, [Next]_vars
    PROVE  RInv'
<1>1. OneSlot'
  <2>1. CASE UNCHANGED pd
    BY <2>1 DEF RInv, OneSlot
  <2>2. ASSUME NEW h \in AnyHdl, CreateEntry(h) PROVE OneSlot'
    BY <2>2, NewSlotStep DEF RInv
  <2>3. CASE ModifyEntry
    <3>1. \A t \in Tables, h \in Handles :
              pd'[t][h] # NoEntry => pd[t][h] # NoEntry /\ pd'[t][h].match = pd[t][h].match
      BY <2>3 DEF ModifyEntry, IInv, TypeOK, AnyHdl
    <3> QED BY <3>1 DEF RInv, OneSlot
  <2>4. CASE DeleteEntry
    <3>1. \A t \in Tables, h \in Handles :
              pd'[t][h] # NoEntry => pd[t][h] # NoEntry /\ pd'[t][h].match = pd[t][h].match
      BY <2>4 DEF DeleteEntry, IInv, TypeOK, AnyHdl
    <3> QED BY <3>1 DEF RInv, OneSlot
  <2> QED
    BY <2>1, <2>2, <2>3, <2>4
       DEF Next, Messages, PdCalls, CreateCall, CreateReject, ModifyCall, ModifyReject,
           DeleteCall, DeleteReject, CreatePipe, CreateRecord, CreateFails, ModifyPipe,
           ModifyFails, DeletePipe, DeleteFails, vars
<1>2. PipeIsWritten'
  <2> SUFFICES ASSUME pc' = "create_record", cur'.act \notin MissActs
               PROVE  pipe'[cur'.id] = cur'.act
    BY DEF PipeIsWritten
  <2>1. CASE UNCHANGED vars
    BY <2>1 DEF RInv, PipeIsWritten, vars
  <2>2. ASSUME NEW h \in AnyHdl, CreateEntry(h) PROVE FALSE
    <3>1. cur'.act = cur.act /\ cur.act \in MissActs
      BY <2>2 DEF CreateEntry, IInv, TypeOK, Frame
    <3> QED BY <3>1
  <2>3. CASE CreatePipe
    <3>1. /\ pipe' = [pipe EXCEPT ![cur.id] = cur.act] /\ cur' = cur /\ cur.id \in Ids
      BY <2>3, StepFacts DEF CreatePipe, Advance
    <3> QED BY <3>1 DEF IInv, TypeOK
  <2> QED
    BY <2>1, <2>2, <2>3
       DEF Next, Messages, PdCalls, CreateCall, CreateReject, ModifyCall, ModifyReject,
           DeleteCall, DeleteReject, CreateRecord, CreateFails, ModifyEntry, ModifyPipe, DeleteEntry,
           ModifyFails, DeletePipe, DeleteFails, Start, ReturnNone, ReturnError, Advance,
           LookupFails
<1>3. DeleteAsksForNone'
  <2>1. Deleting' => DeleteEntry \/ UNCHANGED vars \/ \E f \in Flows : DeleteCall(f)
    BY DEF Deleting, Next, Messages, PdCalls, CreateCall, CreateReject, ModifyCall, ModifyReject,
       DeleteReject, CreateEntry, CreatePipe, CreateRecord, CreateFails, ModifyEntry, ModifyPipe,
       ModifyFails, DeletePipe, DeleteFails, Start, ReturnNone, ReturnError, Advance, LookupFails
  <2>2. ASSUME NEW f \in Flows, DeleteCall(f) PROVE cur'.act = NoAct
    BY <2>2 DEF DeleteCall, Start, Recorded
  <2>3. DeleteEntry \/ UNCHANGED vars => cur' = cur /\ (Deleting' => Deleting)
    BY DEF DeleteEntry, Advance, vars, Deleting
  <2> QED BY <2>1, <2>2, <2>3 DEF RInv, DeleteAsksForNone
<1> QED BY <1>1, <1>2, <1>3 DEF RInv

\* So they hold throughout.
LEMMA RefInvariant == Spec /\ []KeysApart => []RInv
<1>1. Init => RInv
  BY DEF Init, RInv, OneSlot, PipeIsWritten, DeleteAsksForNone, Deleting, AnyHdl
<1>2. IInv /\ RInv /\ [Next]_vars => RInv'
  BY RefStep
<1> QED
  BY <1>1, <1>2, Inductive, PTL DEF Spec

(***************************************************************************)
(* Treatments                                                              *)
(***************************************************************************)
\* What the switch does with the packets of a flow that has an entry.
LEMMA TreatmentIs ==
    ASSUME OneSlot, NEW f \in Flows, NEW t \in Tables, NEW h \in Handles,
           pd[t][h] # NoEntry, pd[t][h].match = f
    PROVE  Treatment(f) = IF Torn(t, h) THEN Mixed ELSE pd[t][h].act
<1>1. <<t, h>> \in Slots(f)
  BY DEF Slots
<1>2. \A s \in Slots(f) : s = <<t, h>>
  BY DEF Slots, OneSlot
<1>3. (CHOOSE s \in Slots(f) : TRUE) = <<t, h>>
  BY <1>1, <1>2
<1>4. \A s : s = <<t, h>> => (IF Torn(s[1], s[2]) THEN Mixed ELSE pd[s[1]][s[2]].act)
                               = (IF Torn(t, h) THEN Mixed ELSE pd[t][h].act)
  OBVIOUS
<1>5. Slots(f) # {}
  BY <1>1
<1> QED BY <1>3, <1>4, <1>5, Zenon DEF Treatment

\* ... and one without an entry has no treatment.
LEMMA TreatmentNone ==
    ASSUME NEW f \in Flows,
           \A t \in Tables, h \in Handles : pd[t][h] # NoEntry => pd[t][h].match # f
    PROVE  Treatment(f) = NoAct
<1>1. Slots(f) = {}
  BY DEF Slots
<1> QED BY <1>1 DEF Treatment

\* A treatment is one of the service's.
LEMMA TreatmentType ==
    ASSUME IInv, OneSlot, NEW f \in Flows
    PROVE  Treatment(f) \in Acts \cup {NoAct, Mixed}
<1>1. CASE \E t \in Tables, h \in Handles : pd[t][h] # NoEntry /\ pd[t][h].match = f
  <2>1. PICK t \in Tables, h \in Handles : pd[t][h] # NoEntry /\ pd[t][h].match = f
    BY <1>1
  <2>2. pd[t][h].act \in Acts
    BY <2>1, StepFacts DEF AnyHdl
  <2> QED BY <2>1, <2>2, TreatmentIs
<1>2. CASE ~\E t \in Tables, h \in Handles : pd[t][h] # NoEntry /\ pd[t][h].match = f
  BY <1>2, TreatmentNone
<1> QED BY <1>1, <1>2

\* A step that lets a flow's entry and its pipeline record be.
LEMMA TreatmentSame ==
    ASSUME NEW f \in Flows,
           \A t \in Tables, h \in Handles :
               \/ pd[t][h] # NoEntry /\ pd[t][h].match = f
               \/ pd'[t][h] # NoEntry /\ pd'[t][h].match = f
               => pd'[t][h] = pd[t][h] /\ pipe'[pd[t][h].index] = pipe[pd[t][h].index]
    PROVE  Treatment(f)' = Treatment(f)
<1>1. Slots(f)' = Slots(f)
  BY DEF Slots
<1>2. CASE Slots(f) = {}
  BY <1>1, <1>2 DEF Treatment
<1>3. CASE Slots(f) # {}
  <2> DEFINE s == CHOOSE s \in Slots(f) : TRUE
  <2>1. s \in Slots(f)
    BY <1>3
  <2> HIDE DEF s
  <2>2. /\ s \in Tables \X Handles /\ s[1] \in Tables /\ s[2] \in Handles
        /\ pd[s[1]][s[2]] # NoEntry /\ pd[s[1]][s[2]].match = f
    BY <2>1 DEF Slots
  <2>3. \A r : r = s => Torn(r[1], r[2])' = Torn(r[1], r[2]) /\ pd'[r[1]][r[2]] = pd[r[1]][r[2]]
    BY <2>2 DEF Torn
  <2>4. (CHOOSE r \in Slots(f)' : TRUE) = s
    BY <1>1 DEF s
  <2> QED
    BY <1>1, <1>3, <2>3, <2>4 DEF Treatment, s
<1> QED BY <1>2, <1>3

\* While no handle is stale, a PD call writes no entry of another flow, nor its
\* pipeline record.
LEMMA OthersKeepTreatment ==
    ASSUME KeysApart, StaleHandles = {}, IInv, LInv, [Next]_vars,
           NEW f \in Flows, pc = "idle" \/ cur.flow # f \/ cur.dflt
    PROVE  Treatment(f)' = Treatment(f)
<1> SUFFICES ASSUME NEW t \in Tables, NEW h \in Handles,
                    \/ pd[t][h] # NoEntry /\ pd[t][h].match = f
                    \/ pd'[t][h] # NoEntry /\ pd'[t][h].match = f
             PROVE  pd'[t][h] = pd[t][h] /\ pipe'[pd[t][h].index] = pipe[pd[t][h].index]
  BY TreatmentSame
<1>0. h \in AnyHdl /\ h # DefHdl
  BY HandleAssumption DEF AnyHdl
<1>1. pd'[t][h] = pd[t][h]
  <2>1. CASE UNCHANGED pd
    BY <2>1
  <2>2. ASSUME NEW k \in AnyHdl, CreateEntry(k) PROVE pd'[t][h] = pd[t][h]
    <3>1. cur.tid \in Tables /\ cur.flow \in Flows /\ (cur.dflt => k = DefHdl)
      BY <2>2, StepFacts DEF CreateEntry
    <3>2. CASE t = cur.tid /\ h = k
      <4>1. ~cur.dflt /\ pd[t][h] = NoEntry /\ pd'[t][h].match = cur.flow /\ cur.flow # f
        BY <1>0, <2>2, <3>1, <3>2 DEF CreateEntry, IInv, TypeOK
      <4> QED BY <4>1
    <3>3. CASE ~(t = cur.tid /\ h = k)
      BY <1>0, <2>2, <3>1, <3>3 DEF CreateEntry, IInv, TypeOK
    <3> QED BY <3>2, <3>3
  <2>3. CASE ModifyEntry \/ DeleteEntry
    <3>1. pc \in {"modify_entry", "delete_entry"}
      BY <2>3 DEF ModifyEntry, DeleteEntry
    <3>2. CASE t = cur.tid /\ h = cur.hdl
      <4>1. /\ pd[t][h] # NoEntry /\ pd[t][h].match = cur.flow /\ cur.flow \in Flows
            /\ ~ft[cur.flow].dflt
        BY <3>1, <3>2, CalledEntryIsOwn
      <4>2. ~cur.dflt
        BY <3>1, <4>1 DEF IInv, FrameMatchesFlow, Modifying, Deleting
      <4>3. pd'[t][h] = NoEntry \/ pd'[t][h].match = cur.flow
        BY <1>0, <2>3, <3>2, <4>1 DEF ModifyEntry, DeleteEntry, IInv, TypeOK
      <4> QED BY <3>1, <4>1, <4>2, <4>3
    <3>3. CASE ~(t = cur.tid /\ h = cur.hdl)
      BY <1>0, <2>3, <3>3 DEF ModifyEntry, DeleteEntry, IInv, TypeOK
    <3> QED BY <3>2, <3>3
  <2> QED
    BY <2>1, <2>2, <2>3
       DEF Next, Messages, PdCalls, CreateCall, CreateReject, ModifyCall, ModifyReject,
           DeleteCall, DeleteReject, CreatePipe, CreateRecord, CreateFails, ModifyPipe,
           ModifyFails, DeletePipe, DeleteFails, vars
<1>2. /\ pd[t][h] # NoEntry /\ pd[t][h].match = f /\ pd[t][h].index = ft[f].priv
      /\ Owns(f) /\ ft[f].priv \in Ids
  BY <1>0, <1>1, MatchIsOwner, StepFacts DEF LInv, MatchIsIndex
<1>3. pipe'[ft[f].priv] = pipe[ft[f].priv]
  <2>1. CASE UNCHANGED pipe
    BY <2>1
  <2>2. CASE CreatePipe \/ ModifyPipe \/ DeletePipe
    <3>1. /\ pc \in {"create_pipe", "modify_pipe", "delete_pipe"}
          /\ \E a : pipe' = [pipe EXCEPT ![cur.id] = a]
      BY <2>2 DEF CreatePipe, ModifyPipe, DeletePipe
    <3>2. CASE ft[f].priv # cur.id
      BY <1>2, <3>1, <3>2 DEF IInv, TypeOK
    <3>3. CASE ft[f].priv = cur.id
      <4>0. cur.flow = f /\ cur.dflt
        BY <1>2, <3>1, <3>3, RunningIsOwner
      <4>1. CASE pc = "create_pipe"
        <5>1. cur.hdl = h
          BY <1>0, <1>2, <3>3, <4>1 DEF LInv, IndexTellsPlace, Creating
        <5> QED BY <1>0, <4>0, <4>1, <5>1 DEF IInv, NewEntryIsOwn, Created1
      <4>2. CASE pc # "create_pipe"
        <5>1. Life(f) = "live" /\ ft[f].dflt
          BY <3>1, <4>0, <4>2, StepFacts DEF Modifying, Deleting, IInv, FrameMatchesFlow
        <5>2. entryHdl[ft[f].priv] = h
          BY <1>0, <1>2, <5>1 DEF LInv, IndexTellsPlace
        <5> QED BY <1>0, <5>1, <5>2 DEF IInv, RecordsMatchFlow, Live, Life
      <4> QED BY <4>1, <4>2
    <3> QED BY <3>2, <3>3
  <2> QED
    BY <2>1, <2>2
       DEF Next, Messages, PdCalls, CreateCall, CreateReject, ModifyCall, ModifyReject,
           DeleteCall, DeleteReject, CreateEntry, CreateRecord, CreateFails, ModifyEntry,
           ModifyFails, DeleteEntry, DeleteFails, vars
<1> QED BY <1>1, <1>2, <1>3

\* The same after a step.
LEMMA TreatmentTypeAfter ==
    IInv' /\ OneSlot' => \A g \in Flows : Treatment(g)' \in Acts \cup {NoAct, Mixed}
<1>1. IInv /\ OneSlot => \A g \in Flows : Treatment(g) \in Acts \cup {NoAct, Mixed}
  BY TreatmentType
<1>2. IInv' /\ OneSlot' => (\A g \in Flows : Treatment(g) \in Acts \cup {NoAct, Mixed})'
  BY <1>1, PTL
<1> QED BY <1>2

\* ... of a flow with an entry ...
LEMMA TreatmentIsAfter ==
    OneSlot' => \A f \in Flows, t \in Tables, h \in Handles :
                    pd'[t][h] # NoEntry /\ pd'[t][h].match = f
                    => Treatment(f)' = IF Torn(t, h)' THEN Mixed ELSE pd'[t][h].act
<1>1. OneSlot => \A f \in Flows, t \in Tables, h \in Handles :
                    pd[t][h] # NoEntry /\ pd[t][h].match = f
                    => Treatment(f) = IF Torn(t, h) THEN Mixed ELSE pd[t][h].act
  BY TreatmentIs
<1>2. (OneSlot => \A f \in Flows, t \in Tables, h \in Handles :
                    pd[t][h] # NoEntry /\ pd[t][h].match = f
                    => Treatment(f) = IF Torn(t, h) THEN Mixed ELSE pd[t][h].act)'
  BY <1>1, PTL
<1> QED BY <1>2

\* ... and of one without.
LEMMA TreatmentNoneAfter ==
    \A f \in Flows :
        (\A t \in Tables, h \in Handles : pd'[t][h] # NoEntry => pd'[t][h].match # f)
        => Treatment(f)' = NoAct
<1>1. \A f \in Flows :
        (\A t \in Tables, h \in Handles : pd[t][h] # NoEntry => pd[t][h].match # f)
        => Treatment(f) = NoAct
  BY TreatmentNone
<1>2. (\A f \in Flows :
        (\A t \in Tables, h \in Handles : pd[t][h] # NoEntry => pd[t][h].match # f)
        => Treatment(f) = NoAct)'
  BY <1>1, PTL
<1> QED BY <1>2

(***************************************************************************)
(* The steps of the callbacks as those of the service                      *)
(***************************************************************************)
\* A callback that returns INDIGO_ERROR_NONE leaves its flow treated as was asked.
LEMMA SuccessTreats ==
    ASSUME StaleHandles = {}, IInv, LInv, RInv, OneSlot', NEW f \in Flows, cur.flow = f, ~cur.dflt,
           CreateRecord \/ (ModifyEntry /\ cur.act \in MissActs) \/ ModifyPipe \/ DeletePipe
    PROVE  Treatment(f)' = cur.act
<1>1. CASE CreateRecord
  <2> DEFINE t == cur.tid
             h == cur.hdl
  <2>1. /\ t \in Tables /\ h \in Handles /\ cur.act \in Acts /\ cur.id \in Ids
        /\ pd[t][h] = [match |-> f, index |-> cur.id, act |-> cur.act]
    BY <1>1, StepFacts DEF CreateRecord, IInv, NewEntryIsOwn, Created1
  <2>2. pd'[t][h] = [match |-> f, index |-> cur.id, act |-> cur.act] /\ pd'[t][h] # NoEntry
    BY <1>1, <2>1, EntryAssumption DEF CreateRecord, Entry
  <2>3. pd'[t][h].act \in MissActs \/ pipe'[pd'[t][h].index] = pd'[t][h].act
    BY <1>1, <2>2 DEF CreateRecord, RInv, PipeIsWritten
  <2>4. \A u \in Tables, k \in Handles : u = t /\ k = h => ~Torn(u, k)'
    BY <2>3 DEF Torn
  <2> HIDE DEF t, h
  <2> QED BY <2>1, <2>2, <2>4, TreatmentIsAfter
<1>2. CASE ModifyEntry /\ cur.act \in MissActs
  <2> DEFINE t == cur.tid
             h == cur.hdl
  <2>1. /\ t \in Tables /\ h \in Handles /\ cur.id \in Ids /\ cur.act \in Acts
    BY <1>2, StepFacts
       DEF ModifyEntry, Modifying, Life, IInv, FrameMatchesFlow, RecordsMatchFlow, Live
  <2>2. pd[t][h] # NoEntry /\ pd[t][h].match = f
    BY <1>2, <2>1, CalledEntryIsOwn DEF ModifyEntry
  <2>3. pd'[t][h] = [match |-> f, index |-> cur.id, act |-> cur.act]
    BY <1>2, <2>1, <2>2 DEF ModifyEntry, IInv, TypeOK, AnyHdl
  <2>4. pd'[t][h] # NoEntry
    BY <2>1, <2>3, EntryAssumption DEF Entry
  <2>5. \A u \in Tables, k \in Handles : u = t /\ k = h => ~Torn(u, k)'
    BY <1>2, <2>3 DEF Torn
  <2> HIDE DEF t, h
  <2> QED BY <2>1, <2>3, <2>4, <2>5, TreatmentIsAfter
<1>3. CASE ModifyPipe
  <2> DEFINE t == cur.tid
             h == cur.hdl
  <2>1. /\ t \in Tables /\ h \in Handles /\ cur.id \in Ids
    BY <1>3, StepFacts
       DEF ModifyPipe, Modifying, Life, IInv, FrameMatchesFlow, RecordsMatchFlow, Live
  <2>2. /\ pd[t][h] # NoEntry /\ pd[t][h].index = cur.id /\ pd[t][h].act = cur.act
        /\ pd[t][h].match = f
    BY <1>3, <2>1, CalledEntryIsOwn DEF ModifyPipe, LInv, FirstCallDone
  <2>3. pd' = pd /\ pipe'[cur.id] = cur.act
    BY <1>3, <2>1 DEF ModifyPipe, IInv, TypeOK
  <2>4. \A u \in Tables, k \in Handles : u = t /\ k = h => ~Torn(u, k)'
    BY <2>2, <2>3 DEF Torn
  <2> HIDE DEF t, h
  <2> QED BY <2>1, <2>2, <2>3, <2>4, TreatmentIsAfter
<1>4. CASE DeletePipe
  <2>1. /\ pd' = pd /\ cur.act = NoAct /\ Life(f) = "live" /\ cur.id = ft[f].priv
        /\ cur.hdl = entryHdl[cur.id] /\ cur.tid = tableId[cur.id]
    BY <1>4, StepFacts DEF DeletePipe, Deleting, RInv, DeleteAsksForNone
  <2>2. ASSUME NEW t \in Tables, NEW h \in Handles, pd[t][h] # NoEntry, pd[t][h].match = f
        PROVE  FALSE
    <3>1. t = cur.tid /\ h = cur.hdl
      BY <2>1, <2>2 DEF AnyHdl, LInv, MatchTellsPlace
    <3> QED BY <1>4, <2>2, <3>1 DEF DeletePipe, LInv, FirstCallDone
  <2>3. \A t \in Tables, h \in Handles : pd'[t][h] # NoEntry => pd'[t][h].match # f
    BY <2>1, <2>2
  <2> QED BY <2>1, <2>3, TreatmentNoneAfter
<1> QED BY <1>1, <1>2, <1>3, <1>4

\* The callbacks as the service sees them: a request comes in, or is refused at once; a PD
\* call for one; the answer.
Starts   == pc = "idle" /\ pc' # "idle" /\ cur'.flow \in Flows /\ cur'.act \in Acts \cup {NoAct}
                /\ UNCHANGED <<pd, pipe, rv>>
Refuses  == pc = "idle" /\ pc' = "idle" /\ UNCHANGED <<pd, pipe>>
Works    == pc # "idle" /\ pc' # "idle" /\ rv' = rv
                /\ cur'.flow = cur.flow /\ cur'.act = cur.act /\ cur'.dflt = cur.dflt
Fails    == pc # "idle" /\ pc' = "idle" /\ rv' # "NONE" /\ UNCHANGED <<pd, pipe>>
Succeeds == /\ pc # "idle" /\ pc' = "idle" /\ rv' = "NONE"
            /\ CreateRecord \/ (ModifyEntry /\ cur.act \in MissActs) \/ ModifyPipe \/ DeletePipe

\* Every step is one of these.
LEMMA StepKinds ==
    ASSUME IInv, Next
    PROVE  Starts \/ Refuses \/ Works \/ Fails \/ Succeeds
<1> USE DEF Starts, Refuses, Works, Fails, Succeeds
<1>1. ASSUME NEW f \in Flows, NEW id \in Ids, NEW t \in Tables, NEW a \in Acts,
             NEW d \in BOOLEAN, CreateCall(f, id, t, a, d)
      PROVE  Starts
  BY <1>1 DEF CreateCall, Start
<1>2. ASSUME NEW f \in Flows, NEW id \in Ids, NEW t \in MsgTables, NEW d \in BOOLEAN,
             CreateReject(f, id, t, d)
      PROVE  Refuses
  BY <1>2 DEF CreateReject, ReturnError
<1>3. ASSUME NEW f \in Flows, NEW a \in Acts, ModifyCall(f, a)
      PROVE  Starts
  BY <1>3 DEF ModifyCall, Start, Recorded
<1>4. ASSUME NEW f \in Flows, ModifyReject(f) \/ DeleteReject(f)
      PROVE  Refuses
  BY <1>4 DEF ModifyReject, DeleteReject, LookupFails, ReturnError
<1>5. ASSUME NEW f \in Flows, DeleteCall(f)
      PROVE  Starts
  BY <1>5 DEF DeleteCall, Start, Recorded
<1>6. ASSUME NEW h \in AnyHdl, CreateEntry(h) PROVE Works
  BY <1>6 DEF CreateEntry, IInv, TypeOK, Frame
<1>7. CASE CreatePipe \/ DeleteEntry
  BY <1>7 DEF CreatePipe, DeleteEntry, Advance
<1>8. CASE CreateRecord \/ ModifyPipe \/ DeletePipe
  BY <1>8 DEF CreateRecord, ModifyPipe, DeletePipe, ReturnNone
<1>9. CASE ModifyEntry
  BY <1>9 DEF ModifyEntry, ReturnNone, Advance
<1>10. CASE CreateFails \/ ModifyFails \/ DeleteFails
  BY <1>10 DEF CreateFails, ModifyFails, DeleteFails, ReturnError
<1> QED
  BY <1>1, <1>2, <1>3, <1>4, <1>5, <1>6, <1>7, <1>8, <1>9, <1>10 DEF Next, Messages, PdCalls

\* Each kind of step is a step of the service, or changes nothing of it.
LEMMA StepImplements ==
    ASSUME KeysApart, StaleHandles = {}, IInv, LInv, RInv, IInv', RInv', [Next]_vars
    PROVE  [Service!Next]_(Service!serviceVars)
<1> SUFFICES ASSUME Next PROVE Service!Next \/ UNCHANGED Service!serviceVars
  <2>1. UNCHANGED vars => UNCHANGED Service!serviceVars
    BY DEF vars, Service!serviceVars, treatBar, busyBar, wantBar, Serving, Treatment, Slots, Torn
  <2> QED BY <2>1
<1>1. OneSlot /\ OneSlot'
  BY DEF RInv
<1>2. /\ treatBar = [g \in Flows |-> Treatment(g)]
      /\ treatBar' = [g \in Flows |-> Treatment(g)']
  BY DEF treatBar
<1>3. \A g \in Flows : pc = "idle" \/ cur.flow # g \/ cur.dflt => Treatment(g)' = Treatment(g)
  BY OthersKeepTreatment
<1>4. pc # "idle" => cur.flow \in Flows /\ cur.dflt \in BOOLEAN
  BY StepFacts
<1>5. ~Serving => treatBar' = treatBar
  BY <1>2, <1>3, <1>4 DEF Serving
<1>6. \A g \in Flows : Treatment(g)' \in Acts \cup {NoAct, Mixed}
  BY <1>1, TreatmentTypeAfter
<1>7. ASSUME Serving, NEW f \in Flows, f = cur.flow, NEW a, a = Treatment(f)'
      PROVE  treatBar' = [treatBar EXCEPT ![f] = a]
  BY <1>2, <1>3, <1>7
<1>8. ASSUME UNCHANGED <<pd, pipe>> PROVE treatBar' = treatBar
  <2>1. \A g \in Flows : Treatment(g)' = Treatment(g)
    BY <1>8, TreatmentSame
  <2> QED BY <1>2, <2>1
<1>9. /\ busyBar = IF Serving THEN cur.flow ELSE NoFlow
      /\ wantBar = IF Serving THEN cur.act ELSE NoAct
      /\ busyBar' = IF Serving' THEN cur'.flow ELSE NoFlow
      /\ wantBar' = IF Serving' THEN cur'.act ELSE NoAct
  BY DEF busyBar, wantBar
<1>10. busyBar # NoFlow <=> Serving
  BY <1>4, <1>9, ServiceAssumption DEF Serving
<1>11. CASE Starts
  <2>1. ~Serving /\ (rv' = "NONE") = (rv = "NONE") /\ treatBar' = treatBar
    BY <1>8, <1>11 DEF Starts, Serving
  <2>2. CASE Serving'
    <3>1. Service!Request(cur'.flow, cur'.act)
      BY <1>9, <1>11, <2>1, <2>2 DEF Service!Request, Starts
    <3> QED BY <1>11, <3>1 DEF Service!Next, Starts
  <2>3. CASE ~Serving'
    BY <1>9, <2>1, <2>3 DEF Service!serviceVars
  <2> QED BY <2>2, <2>3
<1>12. CASE Refuses
  <2>1. Service!Other
    BY <1>8, <1>9, <1>12 DEF Service!Other, Refuses, Serving
  <2> QED BY <2>1 DEF Service!Next
<1>13. CASE Works
  <2>1. busyBar' = busyBar /\ wantBar' = wantBar /\ (rv' = "NONE") = (rv = "NONE")
    BY <1>9, <1>13 DEF Works, Serving
  <2>2. CASE Serving
    <3>1. PICK f \in Flows : f = cur.flow
      BY <1>4, <2>2 DEF Serving
    <3>2. Service!Work
      BY <1>6, <1>7, <1>9, <1>10, <2>1, <2>2, <3>1 DEF Service!Work, Service!Treatments
    <3> QED BY <3>2 DEF Service!Next
  <2>3. CASE ~Serving
    BY <1>5, <2>1, <2>3 DEF Service!serviceVars
  <2> QED BY <2>2, <2>3
<1>14. CASE Fails
  <2>1. ~Serving' /\ treatBar' = treatBar /\ rv' # "NONE"
    BY <1>8, <1>14 DEF Fails, Serving
  <2>2. CASE Serving
    <3>1. Service!Fail
      BY <1>9, <1>10, <2>1, <2>2 DEF Service!Fail
    <3> QED BY <3>1 DEF Service!Next
  <2>3. CASE ~Serving
    <3>1. Service!Other
      BY <1>9, <2>1, <2>3 DEF Service!Other
    <3> QED BY <3>1 DEF Service!Next
  <2> QED BY <2>2, <2>3
<1>15. CASE Succeeds
  <2>1. ~Serving' /\ rv' = "NONE"
    BY <1>15 DEF Succeeds, Serving
  <2>2. CASE Serving
    <3>1. PICK f \in Flows : f = cur.flow
      BY <1>4, <2>2 DEF Serving
    <3>2. Treatment(f)' = cur.act
      BY <1>1, <1>15, <2>2, <3>1, SuccessTreats DEF Succeeds, Serving
    <3>3. Service!Succeed
      BY <1>7, <1>9, <1>10, <2>1, <2>2, <3>1, <3>2 DEF Service!Succeed
    <3> QED BY <3>3 DEF Service!Next
  <2>3. CASE ~Serving
    <3>1. Service!Other
      BY <1>5, <1>9, <2>1, <2>3 DEF Service!Other
    <3> QED BY <3>1 DEF Service!Next
  <2> QED BY <2>2, <2>3
<1> QED BY <1>11, <1>12, <1>13, <1>14, <1>15, StepKinds

\* The callbacks implement the service for as long as no two flows own one id and no handle
\* is stale, whatever Indigo does with a flow whose deletion failed: each affects the
\* treatment of its own flow only, and INDIGO_ERROR_NONE means that it took effect in full.
THEOREM ServiceUnlessStale ==
    Spec /\ []KeysApart /\ [](StaleHandles = {}) => ImplementsService
<1>1. Init => Service!Init
  <2> SUFFICES ASSUME Init PROVE Service!Init
    OBVIOUS
  <2>1. \A f \in Flows : Treatment(f) = NoAct
    BY TreatmentNone DEF Init, AnyHdl
  <2>2. treatBar = [f \in Flows |-> NoAct]
    BY <2>1 DEF treatBar
  <2> QED BY <2>2 DEF Init, Service!Init, busyBar, wantBar, Serving
<1>2. KeysApart /\ StaleHandles = {} /\ IInv /\ LInv /\ RInv /\ IInv' /\ RInv' /\ [Next]_vars
          => [Service!Next]_(Service!serviceVars)
  BY StepImplements
<1> QED
  BY <1>1, <1>2, Inductive, LeakInvariant, RefInvariant, PTL
     DEF Spec, ImplementsService, Service!Spec

\* So they implement it if Indigo drops every flow whose deletion failed, for any flows,
\* tables, handles, action sets and failures.
THEOREM CallbacksImplementService ==
    ASSUME KeepOnDeleteError = {FALSE}
    PROVE  Spec /\ []KeysApart => ImplementsService
  BY NoneStale, ServiceUnlessStale, PTL

===============================================================================
