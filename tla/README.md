# A verification project for p4ofagent

p4ofagent turns a P4 soft switch into an OpenFlow 1.3 switch. It runs as a
thread in the process of the switch: Indigo (a library) speaks OpenFlow to the
controller and calls the agent's callbacks, and the callbacks call wrappers of
the switch's PD ("protocol dependent") API, which a compiler generates from the
P4 program.

## Inventory

| Part | Source | State | Operations |
|---|---|---|---|
| flow callbacks | `src/callbacks.c` 57-227 | none of their own | `flow_create`, `flow_modify`, `flow_delete` |
| agent state | `src/state.c`, `src/state.h` | two JudyL arrays flow id -> entry handle and flow id -> table id; ten arrays table id -> function pointer | getters, setters, `state_init` |
| group callbacks | `src/callbacks.c` 290-338 | `entry_priv`: type and id packed in a word | `group_create`, `group_modify`, `group_delete`, `group_stats` |
| statistics | `src/callbacks.c` 233-284 | none; reads the switch's counters | `table_stats_get`, `flow_stats_get` |
| instruction parser | `src/parse.c` | none; fills a Judy array action -> argument and a 32-bit signature | `parse_instructions`, `parse_actions`, `parse_ofpat` |
| packet out | `src/ind_fwd.c` | none | `indigo_fwd_packet_out` |
| packet in | `src/p4ofagent.c` 40-109 | none | `packet_in_handler` |
| CPU packet codec | `src/cpu_packet.c`, `.h` | the raw socket | pack, unpack, init |
| start-up | `src/p4ofagent.c` 111-233 | sessions, thread | `p4ofagent_init`, `run_indigo` |
| port and forwarding stubs | `src/ind_ports.c`, rest of `src/ind_fwd.c` | none | the two `*_features_get`; refusals |
| `openflow.p4` | `p4src/openflow.p4` | metadata of a packet, `ofpat_*` tables | ingress and egress controls |
| PD wrappers, plugin | generated; `inc/p4ofagent/plugin.h` | the switch's tables | add, mod, del, set default, pipeline, groups |
| Indigo | submodule, absent | the controller's flow and group table | dispatch |

How they interact: one agent thread runs every callback and handler to
completion, so they never interleave with each other. The switch forwards
packets in threads of its own and reads its tables between any two PD calls.
Nothing is persisted. What is hard is therefore not mutual exclusion but
*several writes that belong together* - a flow is an entry of a match-action
table, a record of its action arguments in the pipeline tables, and two words in
the agent's arrays, written one after the other, each write able to fail, with no
undo - and *conventions two sides must share*: what a word packs, which byte comes
first, which action is applied before which.

What makes each part correct:

* flow callbacks: an operation touches its own flow only; what is recorded for a
  flow is its own entry although handles are reused; a failed operation leaves
  nothing behind that the controller was not told of; an entry and its pipeline
  disagree only while a callback runs.
* agent state: a live flow is found.
* groups: the id and the type a group was made with are those it is modified and
  deleted with; what the controller was told is there, is there.
* statistics: counters are those of the flow that is asked for, and of a time
  during the request.
* parser: the signature and the arguments say what the message says.
* stubs: what the switch says it can do is what it can be asked for.
* packet path: a packet arrives once, unchanged, with its port, reason and length.
* `openflow.p4`: a packet leaves where it is told, with what its actions mean, and
  in a form the next switch can parse.

## Modules

| Module | Models | Properties proved in |
|---|---|---|
| `FlowCallbacks` | flow callbacks, Judy arrays, PD tables | `FlowProofs` (invariant in `FlowInductive`), `FlowLeakProofs` |
| `FlowService`, `FlowRefinement` | what the flow callbacks promise, and the mapping | `FlowRefinementProofs` |
| `GroupCallbacks` | group callbacks and `entry_priv` | `GroupProofs` |
| `ActionParser` | instruction and action parser | `ParserProofs` |
| `AgentStats` | statistics callbacks against a counting switch | `StatsProofs` |
| `SwitchFeatures` | extends `AgentStats`: features reply, port and forwarding stubs, `group_stats` | `StatsProofs` |
| `PacketPath` | start-up, packet out, packet in, the headers between | `PacketProofs` |
| `OpenflowP4` | the two controls of `openflow.p4` | `OpenflowProofs` |
| `ActionOrder` | extends `OpenflowP4`: an action list in its own order, against the bitmap it becomes | `OpenflowProofs` |

Each has an `MC...` module with the definitions its `.cfg` files name.

Names are those of the source where it has one. A definition named `X_something`
or `XSomething` just above `X`, with a comment that begins "Mutant of X", is a
wrong version of `X`: with it in the place of `X`, the property named with it in
`PROJECT.json` fails. They are used by nothing else.

### FlowCallbacks

`entryHdl` and `tableId` are `flow_id_to_entry_hdl` and `flow_id_to_table_id`; `pd`
is what the match-action tables hold, `pipe` the `ofpat_*` tables by index. `cur`
has the locals of the callback that runs and `pc` the PD call it makes next, so
that each state in between is one the switch forwards packets with. `CreateCall`,
`ModifyCall` and `DeleteCall` are the part of a callback up to its first PD call;
`*Reject` its early returns; `CreateEntry`, `CreatePipe`, `CreateRecord` and so on
are one PD call (or the two map insertions) each; `*Fails` is the error path of
every call. The default entry of a table (`def_f`, an empty match) has a handle
of its own, `DefHdl`. The id a flow is known by (`ft[f].priv`) is set at line 84, before
`flow_create` can refuse the flow, so `Refused` sets it too.

Two notions say when the arrays can be relied on. A flow *owns* its id (`Owns`) while
Indigo has it, while a callback runs for it, and ever after a callback failed for it at a
point where something may be left; `KeysApart` says that no two flows own one id, which
is so if no message has a cookie mask, and may well be so if some have. `StaleHandles`
are the handles of flows whose entry was removed by a deletion that then failed: if
Indigo keeps such a flow, the table may hand its handle to another.

The getters test arrays of the JudyL family with `J1T`, the test of the Judy1
family. The two share the layout of a root leaf, up to `JudyLeafMax` keys; past
that the test may deny a key that is there. (It may also affirm one that is not;
that only matters for a table without functions, and is not modelled.) Keys are
never removed: `flow_id_entry_hdl_set` and `flow_id_table_id_set` only add.

`FlowService` says what a flow is to its controller: a treatment of the packets
that match it. A request changes that of its flow only, and `NONE` means it took
effect in full. `FlowRefinement` maps an entry and its pipeline record to a
treatment, `Mixed` when the two do not belong together.

### GroupCallbacks

`gt` is Indigo's group table with the word `entry_priv`, `nodes` and `installed`
what the generated plugin has allocated and created. A word has two halves of
`HALF` values; `EntryPriv` is the shift of callbacks.c:301 with the width of an
`int`, `DecodedId` and `DecodedType` what `group_modify` and `group_delete` make of it.
`silent` and `errored` remember the groups for which a failed plugin call was hidden,
and reported.

### ActionParser

One step is one turn of `OF_LIST_INSTRUCTION_ITER` or `OF_LIST_ACTION_ITER`. An
argument is named by the position of the action it was read from. `arg` is the
local pointer, which an action without an argument leaves as it was; `dangling`
says that the nested set-field array has moved and `aargs` does not know.

### AgentStats

`hits`, `misses`, `packets`, `bytes` are counters of the switch, `AsHandle` the 32
bits `flow_stats_get` cuts a flow id to. A counter read is a step, and packets are
counted between steps. The getters of the counter functions are the `J1T` of the flow
getters, on arrays with a key for each of `num_openflow_tables` tables: `BadTableId` is
the return before any read, `BytesNotFound` the one between the two reads of
`flow_stats_get`, which leaves the packets in the answer.

### SwitchFeatures

The features reply is 32 bytes. `indigo_fwd_forwarding_features_get` fills three fields of
it by name, `indigo_port_features_get` the same three by offset (16, 20 and 23;
`ofp_switch_features` has the third at 24). Which is called last is Indigo's affair.
`told` is the reply the controller has, `answer` the last answer to a request for
statistics or about ports. `StatsStep` is a step of `AgentStats`, so that each behaviour
of `FSpec` is one of its `Spec`.

### PacketPath

`phase` is how far `p4ofagent_init` has come: each of its parts is a step, which may end
the process (`exit(1)`) where the code does so, and goes on where the code does not look
at the result: sessions, the registration of the handler (`handler`), the thread
(`threadless`). `state_init`, which fills the arrays of function pointers, comes after the
sessions and before the socket. Misses queue in the socket from the time it is bound.

`toSwitch` and `toAgent` are the two directions of the raw socket, in order; a
frame may be lost when it is sent (`send` fails and is logged only) or when a queue
is full. A header word is a pair of bytes: `Store`, `Load` on the little-endian
host, `swap` for `htons`, `Extract` and `Emit` in the switch, which has the most
significant byte first. `PacketOut` is `indigo_fwd_packet_out`, `terminate_cpu_packet`
and `openflow_miss` are the P4 actions, `packet_in_handler` the handler. `ReadFails` is
its path for `read` < 0, where the process ends. `outs`, `misses` and `lost` are
history.

`openflow_miss` adds empty headers and writes port, reason and table to
`fabric_metadata`; the packet then waits in `toCpu`. Nothing in the repository copies
the metadata to the headers the agent reads. `CpuPort` is that step of the program
around `openflow.p4`, and `filled` whether it has done so; the agent cannot tell.

`indigo_fwd_packet_out` looks at no length. Data that does not fit `out_buf` with the
headers is copied past its end (`Long`), and of data shorter than an Ethernet header a
negative length is copied (`Short`). `PacketOutOverruns` ends the process, which stands
for whatever such a copy may do; long data may also be sent as if nothing had happened.

### OpenflowP4

One packet is followed from the match to the wire; packets do not see each other.
`at` is the control or table it enters next, so that the agent's PD calls
(`RewriteFlow`, `RewriteArg`) can come between any two tables. `ofpat[t][o]` is the
entry of table `t` with the key of the flow or of a bucket; where both match, either
may be used, because priorities are the plugin's. A bucket's entries are found by group
and port, and the port is `egress_spec` in `ofpat_output` and `egress_port` in the
egress tables (`KeysAt`). A header is valid or not and has the fields the actions touch.
A tag that is added has the id `ZeroVid` and a label the time to live 0, and a
controller may set these as it may any other.

Two things of P4-14 are taken as meant: `bmap & 0x1 == 1` tests the bit, and
`add_header` of a valid header does nothing.

### ActionOrder

The parser leaves a bitmap and one argument per type of an action list; `InListOrder` is
what the list would do to a packet one action after the other, with the same P4 actions.
`OrderMatters` names the pairs of actions whose order in the list is seen in the packet.
A list that has them as the program has them comes out as the controller wrote it;
a list of two that has them the other way round does not. Some pairs depend on the
arguments: to set what a new tag or label has anyway is seen in neither order. A type that occurs more than
once in a list is `ArgOfLastSuch` of `ActionParser`.

## External parts

Not in the repository, and modelled from how the code uses them:

* Indigo gives each flow one id, calls `flow_create` once for it, and calls
  `flow_modify` and `flow_delete` only while it has the flow. Whether it keeps a flow
  or a group whose deletion failed is open (`KeepOnDeleteError`).
* A PD table hands out a handle that is free, and may fail at any call without an
  effect.
* The plugin keeps groups by type and id. Whether it fails is open, except that it
  fails for what is not there.
* The plugin adds the pipeline entries of a flow for each bit of its bitmap, and those of
  a bucket for each bit of the bucket's, `OUTPUT` included (`plugin.h:22` takes a whole
  bitmap for each key). A bucket has no `GROUP` action.
* The target program around `openflow.p4` passes a packet through one or more
  OpenFlow tables and then `process_ofpat_ingress`; its parser delivers packets whose
  ether types announce their headers.
* The same program defines `OPENFLOW_PACKET_IN_OUT`, which `openflow.p4:27` leaves
  commented out and without which there are no packet-ins. Before a packet that missed
  leaves by the CPU port it may copy `fabric_metadata` to the fabric headers
  `openflow_miss` has added, as `switch.p4` does, from which that part of `openflow.p4`
  is taken. If it does not, the agent reports port, reason and table zero:
  `MissesReportedAsTheyAre` and its theorem say what is reported if it does.

## Runs

| Run | Instance | Shows |
|---|---|---|
| `flows_wide` | 3 flows, 1 table, 2 handles, 2 action sets, `JudyLeafMax` 2, a failed deletion drops the flow | types, `NoSilentLeak`, `TornIsExplained`, `NotFoundOnlyPastLeaf`, and that the callbacks implement `FlowService` |
| `flows_kept` | 3 flows, 2 tables, 2 handles, 1 action set, a failed deletion may keep the flow, one cookie key, as far as `KeysApart` holds | `LiveFlowsRecorded`, `DemuxedToProperTable`, `RecordedEntryIsOwn`, `DefaultLostToDefault`, `NoForeignTouch` |
| `flows_live` | 2 flows, 3 action sets, fair | `TornWindowCloses` |
| `flows_aliased` | cookie masks | violates `DemuxedToProperTable` |
| `groups` | ids 1 and 2 of 4, all types, 2 bucket lists | types, `GroupIdSurvives`, `GroupAsOrdered`, `NoSilentGroupLeak`, `OnlySupportedInstalled` |
| `groups_type` | same | violates `GroupTypeRemembered` |
| `parser` | up to 2 instructions, all lists of up to 3 actions of 5 kinds | types, `ArgOfLastSuch`, `SignatureIfItFits`, `VidOfLastSetField` |
| `parser_fields` | same | violates `SetFieldsAsListed` |
| `stats` | 2 flows, 2 handles, 2 packets, `JudyLeafMax` 1 with 2 tables; any order of features and other requests | types, `FeaturesRead`, `AnsweredAsClaimed`, `TableStatsWithinCall`, `FlowBytesCoverPackets`, `FlowStatsIfIdIsHandle` |
| `stats_foreign` | same, 3 packets | violates `FlowStatsOfFlow` |
| `pipeline` | 12 packets, some 80 bitmaps of up to 4 actions, 1 bucket with an `OUTPUT`, two arguments for each action, 1 PD call | types, `LeavesWhereTold`, `AppliesItsActions`, `ChainBreaksExactly`, `OrderLostWhereItMatters` |
| `packets` | start-up, 3 messages, ports of 8 bits in headers of 4, real frame lengths, too short and too long ones among them | types, `OutsLeaveAsGiven`, `LeavesAtItsPort`, `MissesReportedAsTheyAre`, `PacketInLengths`, `NothingIsForgotten` |

Each property is commented where it is stated.

### Bounds

* Flows: a handle changes hands once a flow is deleted and another added, which takes
  two flows. The third has two compete for a handle while one is live, and is what it
  takes for a stale handle to do harm: one flow kept half deleted, one that was handed its
  handle, and one that is handed it again. `JudyLeafMax` is 31 in Judy and in `flows_kept`,
  and 1 or 2 in the other runs, so that the arrays do outgrow it. A flow is created once;
  the ids of deleted flows are what fills the arrays. One cookie key in `flows_kept` is
  enough for an id to be used, given up and used again, beside a flow with an id of its
  own. The `CONSTRAINT KeysApart` ends a behaviour where two flows own one id, which is
  what `flows_aliased` is about; the `VIEW` leaves out the last answer, which decides no step.
* Groups: `HALF = 2` makes a word of two bits: id 1 has the top bit clear, id 2 has it
  set. The theorems hold for every `HALF`.
* Parser: three actions are one before, one between and one after; kinds of action
  that take the same branch of `parse_ofpat` are represented by one.
* Statistics: flow ids 1 and 5 are the same handle of two bits, and id 1 is another
  flow's handle in some states. Two packets allow one between any two reads and one
  before. Two tables outgrow a leaf of one key, so that each lookup may fail. The bytes
  of the features reply are real.
* Pipeline: all pairs of the eleven actions the controls apply, and all subsets of
  the four that push and pop, and three sets in which one action overwrites another's effect. The flow has a unicast group
  to the bucket's port in some of them, so that the bucket's `OUTPUT` is found. A time to live is a
  number below 3; 0 occurs, wraps, and is set. The arguments are two of each kind, among them what
  a new tag or label has anyway.
  One PD call while the packet is under way is enough for each table to be read before
  or after it.
* Packets: a byte has four values, and the reserved ports are the last eight of 256. Frames that come in have 60 bytes, the least
  length whose data reaches past the buffer, and one that does not fit; those that go out 60, 10
  (less than an Ethernet header) and one more than fits. Three messages allow two in one
  direction and one in the other.

A run with a bound on messages or packets ends when they are used up. So do those
about flows (each flow has one life) and about one packet: these have
`CHECK_DEADLOCK FALSE`. `groups`, `parser` and `stats` check for deadlock.

### Fairness

`flows_live` has `WF_vars(PdCalls)`: a callback runs in the agent's only thread and is
not preempted by another, and a PD call returns, with success or not. Nothing is
assumed of the controller. `packets` has weak fairness of the start-up, whose library
calls return, of `packet_in_handler`, which Indigo's event loop calls as long as the socket
is readable, and of the switch taking frames from its port. None stays enabled once the
process has ended, and `NothingIsForgotten` says so.

## Findings

Four runs are expected to fail, each because the code does not do what a comment of
the repository says:

1. `flows_aliased` - `flow_create` replaces Indigo's id by `cookie|cmask`
   (callbacks.c:83). Two flows with the same non-zero value share one key of both
   arrays, and a modification of the first goes to the table of the second.
2. `groups_type` - `group_type << 31` (callbacks.c:301) loses `OFPGT_INDIRECT`; such a
   group is modified and deleted as `OFPGT_ALL`, which the plugin does not find.
3. `parser_fields` - a second set-field moves the nested array (parse.c:97) and the
   list's vlan id is read through a pointer to freed memory.
4. `stats_foreign` - `flow_stats_get` passes a flow id as an entry handle
   (callbacks.c:272).

### Seen in the model, with no run of their own

The code differs from a statement of the repository in the following places, too. They
need no sequence of steps: one call with the right argument shows them, so a run would say
no more than the line does, and the list of runs is kept to what needs a search. The model
does what the code does. No property states the difference as right, and the one that is
named says what can be relied on nevertheless, before and after a correction.

* An action without an argument is stored with the block of the last action before it
  that had one, or with an uninitialised pointer (parse.c:67); parse.h:40 has "storing
  action -> action arg val pairs in aargs". `ArgOfLastSuch`: no such block takes the
  place of an argument that was read.
* An experimenter's action is in the list and in the array, but not in the bitmap
  (callbacks.c:45 keeps 32 bits); parse.h:43 has "indicating which actions are present in
  the action list". `SignatureIfItFits`: of one list without experimenters, bitmap and
  array agree with each other and with the list.
* Every instruction is taken to be of the type of the first, and none behind a list of
  actions is reached (parse.c:125); parse.h:50 has "Parses instructions in a similar
  fasion to parse_actions." `ArgOfLastSuch` and `SignatureIfItFits` are about the list that is read.
* The port module writes the capabilities one byte too early (ind_ports.c:30). If it
  comes last, the controller reads `OFPC_PORT_BLOCKED`, "Switch will block looping ports."
  (openflow-spec1.3.0.h:229), which nothing in the agent does. `FeaturesRead`: buffers and
  tables are right in either order, and all claims are if the forwarding module is last.
* Group statistics are logged as "Unsupported: group_stats_get" and answered with
  `INDIGO_ERROR_NONE` and an entry nobody filled (callbacks.c:336-337).
  `AnsweredAsClaimed` leaves them out.
* A packet out to `FLOOD` or `ALL` leaves at port 0, because the group it sets is in a
  header field the switch does not read (ind_fwd.c:86); openflow-spec1.3.0.h:95 has "All
  physical ports in VLAN, except input port and those blocked or link down." and line 97
  "All physical ports except input port." One to `CONTROLLER` leaves at the port whose
  number is the low half of that reserved one's (ind_fwd.c:89); line 98 has "Send to
  controller." `LeavesAtItsPort`: a port that 16 bits can name comes out as itself.
* `total_len` of a frame that does not fit the buffer is the length of what was read of
  it (p4ofagent.c:79); openflow-spec1.3.0.h:1247 has "Full length of frame." The data is
  18 bytes longer than the frame, some from behind the buffer for the largest frames
  (p4ofagent.c:76); line 1254 has "An Ethernet frame whose length is inferred from
  header.length". `PacketInLengths`: `total_len` is never more than the frame's length,
  and of a frame that fits it is that length, with at least as much data.

Other behaviour a reader may not expect, with no statement in the repository against it:

* a packet out is copied without a look at its length (ind_fwd.c:110): data that does
  not fit the buffer overruns it, and data of less than 14 bytes makes a length that is
  negative (`PacketOutOverruns`);
* a failed read of the CPU socket ends the process, and an agent whose handler or thread
  could not be made runs on without reporting a miss (`NothingIsForgotten`);
* `openflow_miss` leaves the headers of a packet-in empty; somebody else must fill them
  (`CpuPort`);
* a label that is popped leaves ether type 0x8847, and a tag that is pushed announces
  IPv4, whatever follows (`ChainBreaksExactly`); a time to live of 0 wraps
  (`AppliesItsActions`);
* the order of an action list is lost, and with it, for instance, what a list means that
  pushes a tag before it pops one (`OrderLostWhereItMatters`);
* a bucket's `OUTPUT` takes effect only if the flow has an `OUTPUT`, too, and its group is a unicast
  one to the bucket's port, and may then win over the flow's; it has none otherwise, because
  the bucket's bitmap is added in the egress control (`LeavesWhereTold`);
* two default flows of a table share one entry (`DefaultLostToDefault`).

## Proofs

The theorems hold for every value of the constants that meets the assumptions beside
them.

**Flows** (`FlowProofs`). `TypeCorrect` and `LiveFlowsAreRecorded` need nothing more: the
latter follows from types, from a callback using the id its flow is known by (`CallHasKey`),
and from `CreateRecord` being the only step that makes a flow live. `LiveFlowsOwnTheirEntry`
and `ModsReachTheProperTable` are about behaviours in which no two flows own one id
(`[]KeysApart`); finding 1 is the reason. `NoMaskNoSharedKey` shows that these are all
behaviours if no message has a cookie mask; with masks they are those in which a key is
used again only when the flow before is gone and has left nothing.

`RecordedEntryIsOwn` alone is not inductive: a handle is recorded one step after the entry
was made, and a modification uses a handle it looked up before. `IInv`, the invariant of the proof, adds that the
handle and table of a running callback are those recorded (`FrameMatchesFlow`), that the
entry just made belongs to the flow being created (`NewEntryIsOwn`), and that a flow yet to
be created has none and has not failed (`UnusedHasNoEntry`, `UnusedNeverFailed`). The
invariant holds whatever Indigo does with a flow whose deletion failed. An earlier form of
`NoForeignTouch` excused only the flow that was kept, and the proof found it false: a flow
is kept half deleted, its handle goes to a second flow, the deletion of the first is tried
again and removes the second's entry, the handle goes to a third, and now the second flow,
of which nothing failed, writes the entry of the third. Two flows do not show this. What
may be touched is therefore said of handles (`StaleHandles`), which only grow
(`FailedStays`, `UsedStays`, `StaleStays`); at all others a callback finds its own entry
(`CalledEntryIsOwn`). `DropStep` and `QuietReturn` treat the returns once for all callbacks.

`FlowLeakProofs` has the rest of the invariants of `FlowCallbacks`, under `[]KeysApart` too.
What must be added to `IInv` is `LInv`, checked with TLC first: entries and pipeline
records carry ids that are owned (`IndexIsOwned`); an entry that carries the index of a
live flow is in the place recorded for it (`IndexTellsPlace`), and so is one with the match
of a live flow (`MatchTellsPlace`), which agree unless the handle is stale (`MatchIsIndex`);
the second PD call of a callback comes after the first has had its effect (`FirstCallDone`);
a flow being created has no pipeline record but its new one (`NewRecordIsOwn`); a torn entry
is that of the callback that runs or of a failed call (`TornInWindow`), and what a flow
that is gone has left was reported (`GoneLeavesReported`). That an id can be used again
rests on three lemmas: a flow that owns its id keeps it until it leaves cleanly
(`OwnerStays`), it then leaves no entry and no record with that id (`CleanLeavesNothing`),
so the next flow to have it finds none (`NewKeyIsFresh`). `ErrorStep` is the argument all
error paths share.
`NothingLeaksSilently`, `TearsAreExplained` follow; `ForeignEntriesUntouched` needs `IInv`
only, and `NoneForeignIfDropped` says that no entry of another flow is written at all if
Indigo drops every flow whose deletion failed. `DefaultsLostToDefaults` has an invariant of
its own, because "some other default flow wrote the entry" is not kept when that flow goes:
`Displaced` says who did, as far back as is known. `NotFoundPastLeafOnly` does without
`KeysApart`, but needs a finite set of ids: a getter that fails is asked for a recorded id,
hence the array has outgrown a leaf. `WindowClosesOnReturn` is the part of
`TornWindowCloses` that is not fairness: while a callback runs no message is taken, each of
its steps leaves fewer calls to its return (`CallsLeft`), and a return other than `UNKNOWN`
leaves no entry of its index torn (`ReturnLeavesNoneTorn`).

**Refinement** (`FlowRefinementProofs`). `ServiceUnlessStale`: while no two flows own one id
and no handle is stale, every step maps to one of `FlowService` or to a stutter.
`CallbacksImplementService` is the case of an Indigo that drops a flow whose deletion failed
(`KeepOnDeleteError = {FALSE}`), as in `flows_wide`, where no handle ever is. `RInv` adds
to `IInv` and `LInv` that a flow has one entry in all tables together, so that its treatment
is that of a place (`OneSlot`), and that the pipeline record is written before the callback
reports success (`PipeIsWritten`). `OthersKeepTreatment` is the core: no PD call of a callback
is seen by another flow. `SuccessTreats` says that a return with `NONE` finds entry and record
as asked for; `StepKinds` sorts the steps into those that start, refuse, work, fail and
succeed, which are the actions of the service.

**Groups** (`GroupProofs`). `TypeSurvivesExactly`: of the types let through, exactly
`OFPGT_ALL` with an id below 2^31 keeps its type. `GroupIdAlwaysSurvives` and
`NoUnsupportedGroup` follow from `GInv`: the word of a live group is its bare id, because
both types shift to nothing; and where `group_modify` decodes a type that is not
supported, its first call, the deletion of a group that cannot exist, fails.
`GroupsAreAsOrdered` and `NoGroupLeaksSilently` follow from `OInv`, which adds what the
plugin has of the group whose callback runs, at each of its calls.

**Statistics and features** (`StatsProofs`). `TableStatsRegular`: the counters only grow,
so each number read lies between the one at the call and the one at the answer.
`FlowBytesAreEnough`: the bytes of an entry are those of at least so many packets
(`Covered`), and what was read of the packets is no more than is counted now
(`ReadBefore`), which a flow that comes or goes cannot disturb, because neither happens
while a callback runs; a call that found no byte counter leaves packets without their
bytes in the answer, but the next success writes both. `FlowStatsAreOfOwnHandle` adds that no
two flows share an entry and that its counter is the packets of its flow (`OwnCounters`),
which is reset when the handle is handed out again. `FeaturesKeepStats` carries these
over to `FSpec`. `FeaturesAreRead` computes the bytes for every number of tables; `ClaimedBy` is what they
claim by who wrote last, with which `ClaimsAreKept` follows from the answer each request
gets.

**Packets** (`PacketProofs`). The lemma `LowBits` (cutting to two bytes, swapping and
reading them the other way is `% WORD`) and `WordRoundTrip`, `ReasonAndTable` (the reason
shifted over the table comes apart again) are arithmetic over any `BYTE`. `OutInv` and
`InInv` say of each frame in a queue what it carries of its message, and that what has
arrived is older than what is queued; the latter makes the order of arrival inductive.
From these follow all safety properties of the run `packets`. No length of a packet out is
assumed. A miss's metadata fit their fields (`MissFits`), and the step of the external
program keeps all the invariant says, whether it fills the headers or not
(`CpuPortKeeps`); what is reported is the miss in the first case. `FramesAreAccountedFor` is
the part of `NothingIsForgotten` that is not fairness: a packet out that was accepted, and a
miss, is lost at the socket, in its queue, or has arrived, because the only step that takes
a frame off a queue delivers it (`AmongMore`, `AmongLess`).

**Parser** (`ParserProofs`). The properties speak of a finished list; `PInv` says the same of
the elements before the one the iteration is at, for lists and messages of any length.
`LatestIs` and `OneMore` are about the last element of a kind: it is the new one, or the
one there was. `SignatureIsOfList` also needs that a key is there for each type that came by.

**Pipeline** (`OpenflowProofs`). `TInv` is the types and that each table holds arguments of
its own action. For `LeavesAsTold`, `WhereTold` names one answer of each ingress table the
packet has passed, and `IsChoice` makes a choice of all tables of them. For
`ActionsAreApplied`, `Acted` says that the packet so far is the original acted on by the
tables done, each with one answer it had; one lemma per egress table (`PopMplsActs` to
`SetNwTtlActs`) shows that the next table adds its own effect and disturbs no earlier one,
and a PD call of the agent only adds to what a table may have answered (`StillActed`).
`ChainBreaksAsSaid` follows from `AppliesItsActions`. What a group has set `egress_spec` to
decides which entries of the `OUTPUT` table match (`KeysAfterGroup`). The assumptions on
constants are that ports differ from "none" and the CPU's, and that the id of a new tag is
an id like any other (`VidAssumption`): a controller may set it.

`OrderIsLostAsSaid` is about a packet that is out: what `ActionsAreApplied` says was done to
it is compared with what a list of the same actions would do. For a list of any length
that has the pairs of `OrderMatters` as the program has them, `SoFar` says what a packet
after the first `n` actions has in common with one on which the egress tables of these
actions acted in their own order; it leaves open what a later action overwrites. Each action
adds its own effect if none of those done must come after it (`OneMoreSoFar`), and the
induction over `n` is on the set of those `n` for which `SoFar` fails (`SetInduction`),
because the library's induction takes an operator. For a list of two the other way round,
`ReversedDiffers` goes through the pairs. The actions have one argument each, which was
read when their table was passed (`SeenTyped`).

Only model-checked: that the two liveness properties, `TornWindowCloses` and
`NothingIsForgotten`, do come about. Proved of them is their safety half
(`WindowClosesOnReturn`, `FramesAreAccountedFor`): nothing is dropped, and a step only
brings the end nearer. That a step is taken needs fairness and `ENABLED`, which the proof
system cannot express. All invariants and other action properties of the passing runs are
proved. Of those about flows, types, `LiveFlowsRecorded` and `NotFoundOnlyPastLeaf` hold
of every behaviour, the others while no two flows own one id - `flows_aliased` shows that
this is needed - and `ImplementsService` while in addition no handle is stale.

## Not modelled

* The tear-down in `run_indigo`, behind a loop without an end. What the PD library does
  with a session that could not be opened is only that its calls fail.
* Frames on the CPU interface that are not from `openflow_miss`; the handler reads the
  same offsets of any frame.
* The fabric parsers of `openflow.p4` and `terminate_fabric_multicast_packet`: the agent
  sends no multicast header.
* The byte counters per table: nothing calls their getters.
* The declarations of the OpenFlow header that neither the agent nor the switch uses:
  the messages Indigo reads and writes.
* The statistics a removed flow is reported with: `flow_delete` leaves them as Indigo
  passed them in, and what that is is not in the repository.
* Memory: what is allocated and not freed.

## Plan

Done: all parts of the inventory, and the proofs of the safety properties. Left:

1. `OrderLostWhereItMatters` for buckets, whose list comes after that of the flow.
2. `ChainBreaksExactly` for packets that have been through another such switch.
