--------------------------- MODULE GroupCallbacks ---------------------------
(***************************************************************************)
(* The group callbacks of the agent (src/src/callbacks.c: group_create,    *)
(* group_modify, group_delete) and the groups of the soft switch they      *)
(* write through the plugin (ofpat_group_alloc, _create, _delete).         *)
(*                                                                         *)
(* The agent keeps no table of groups.  What it must know of one it packs  *)
(* into the word entry_priv that Indigo hands back: the type above bit 31, *)
(* the 32-bit id below.  HALF stands for 2^31, so that an int or a         *)
(* uint32_t holds 2 * HALF values.                                         *)
(***************************************************************************)
EXTENDS Integers

CONSTANTS
    HALF,         \* 2^31 in the code
    GroupIds,     \* 32-bit group ids the controller uses
    Buckets,      \* bucket lists
    KeepOnDeleteError,  \* what Indigo may do: is a group kept when its delete fails?
    NoBuckets, NoCall

ASSUME HalfAssumption == HALF \in Nat /\ HALF > 0
ASSUME IdAssumption == GroupIds \subseteq 0 .. (2 * HALF - 1)
ASSUME BucketAssumption == NoBuckets \notin Buckets
ASSUME KeepGroupAssumption == KeepOnDeleteError \subseteq BOOLEAN /\ KeepOnDeleteError # {}

OFPGT_ALL      == 0
OFPGT_SELECT   == 1
OFPGT_INDIRECT == 2
OFPGT_FF       == 3
GroupTypes == {OFPGT_ALL, OFPGT_SELECT, OFPGT_INDIRECT, OFPGT_FF}
Supported  == {OFPGT_ALL, OFPGT_INDIRECT}

(***************************************************************************)
(* entry_priv.  group_type is an uint8_t, promoted to int before the shift *)
(* by 31: what does not fit an int is lost.                                *)
(***************************************************************************)
EntryPriv(type, id) == ((type * HALF) % (2 * HALF)) + id

\* Mutant of DecodedId: the id is taken from below bit 31.
DecodedIdNarrow(priv) == priv % HALF

DecodedId(priv)   == priv % (2 * HALF)
DecodedType(priv) == priv \div HALF

VARIABLES
    gt,         \* Indigo's group table
    nodes,      \* type -> id -> the buckets ofpat_group_alloc has prepared
    installed,  \* type -> id -> the buckets the switch replicates to
    pc,         \* the next plugin call of the callback that runs, or "idle"
    cur,        \* the locals of the callback that runs
    rv,         \* what the last callback returned
    errored,    \* ghost: ids on which a callback returned INDIGO_ERROR_UNKNOWN
    silent      \* ghost: ids whose last create or modify hid a plugin failure

vars == <<gt, nodes, installed, pc, cur, rv, errored, silent>>

Calling == {"create_alloc", "create_create",
            "modify_delete", "modify_alloc", "modify_create", "delete_delete"}

GroupRec == [live : BOOLEAN, type : GroupTypes, priv : Nat, buckets : Buckets \cup {NoBuckets}]

\* The group_id and group_type passed to the plugin.
Frame == [group : GroupIds, id : GroupIds, type : Nat, buckets : Buckets \cup {NoBuckets}]

ASSUME GroupCallAssumption == NoCall \notin Frame

SwitchGroups == [GroupTypes -> [GroupIds -> Buckets \cup {NoBuckets}]]

TypeOK ==
    /\ gt \in [GroupIds -> GroupRec]
    /\ nodes \in SwitchGroups
    /\ installed \in SwitchGroups
    /\ pc \in Calling \cup {"idle"}
    /\ IF pc = "idle" THEN cur = NoCall ELSE cur \in Frame /\ cur.type \in GroupTypes
    /\ rv \in {"NONE", "UNKNOWN", "NOT_SUPPORTED"}
    /\ errored \subseteq GroupIds
    /\ silent \subseteq GroupIds

Absent  == [live |-> FALSE, type |-> OFPGT_ALL, priv |-> 0, buckets |-> NoBuckets]
Nowhere == [t \in GroupTypes |-> [g \in GroupIds |-> NoBuckets]]

Init ==
    /\ gt = [g \in GroupIds |-> Absent]
    /\ nodes = Nowhere
    /\ installed = Nowhere
    /\ pc = "idle"
    /\ cur = NoCall
    /\ rv = "NONE"
    /\ errored = {}
    /\ silent = {}

\* Mutant of Return: the frame survives.
ReturnKeepsFrame(code) ==
    /\ pc' = "idle"
    /\ rv' = code
    /\ UNCHANGED cur

Return(code) ==
    /\ pc' = "idle"
    /\ cur' = NoCall
    /\ rv' = code

Start(call, frame) ==
    /\ pc = "idle"
    /\ pc' = call
    /\ cur' = frame
    /\ UNCHANGED <<nodes, installed, rv, errored>>

(***************************************************************************)
(* The plugin.  ofpat_group_alloc returns nothing, and the result of       *)
(* ofpat_group_create is not looked at: when either fails the callback     *)
(* goes on.  The switch keeps groups of different types apart; it creates  *)
(* none that exists and deletes none that does not.                        *)
(***************************************************************************)
Alloc(next) ==
    /\ \/ /\ nodes' = [nodes EXCEPT ![cur.type][cur.id] = cur.buckets]
          /\ UNCHANGED silent
       \/ /\ silent' = silent \cup {cur.group}
          /\ UNCHANGED nodes
    /\ pc' = next
    /\ UNCHANGED <<gt, installed, cur, rv, errored>>

\* Mutant of Create: the group is not created anew.
CreateSkipped(rec) ==
    /\ gt' = [gt EXCEPT ![cur.group] = rec]
    /\ Return("NONE")
    /\ UNCHANGED <<nodes, installed, errored, silent>>

\* The last call of group_create and group_modify, which then return NONE.
\* Indigo records what it asked for.
Create(rec) ==
    /\ \/ /\ installed[cur.type][cur.id] = NoBuckets
          /\ nodes[cur.type][cur.id] # NoBuckets
          /\ installed' = [installed EXCEPT ![cur.type][cur.id] = nodes[cur.type][cur.id]]
          /\ UNCHANGED silent
       \/ /\ silent' = silent \cup {cur.group}
          /\ UNCHANGED installed
    /\ gt' = [gt EXCEPT ![cur.group] = rec]
    /\ Return("NONE")
    /\ UNCHANGED <<nodes, errored>>

Delete ==
    /\ installed[cur.type][cur.id] # NoBuckets
    /\ installed' = [installed EXCEPT ![cur.type][cur.id] = NoBuckets]
    /\ nodes' = [nodes EXCEPT ![cur.type][cur.id] = NoBuckets]

DeleteFails ==
    /\ Return("UNKNOWN")
    /\ errored' = errored \cup {cur.group}
    /\ UNCHANGED <<nodes, installed>>

(***************************************************************************)
(* group_create                                                            *)
(***************************************************************************)
\* Mutant of CreateCall: every type is let through.
CreateCallAnyType(g, type, b) ==
    /\ ~gt[g].live
    /\ Start("create_alloc", [group |-> g, id |-> g, type |-> type, buckets |-> b])
    /\ silent' = silent \ {g}
    /\ UNCHANGED gt

CreateCall(g, type, b) ==
    /\ ~gt[g].live
    /\ type \in Supported
    /\ Start("create_alloc", [group |-> g, id |-> g, type |-> type, buckets |-> b])
    /\ silent' = silent \ {g}
    /\ UNCHANGED gt

CreateReject(g, type) ==
    /\ pc = "idle"
    /\ ~gt[g].live
    /\ type \notin Supported
    /\ Return("NOT_SUPPORTED")
    /\ UNCHANGED <<gt, nodes, installed, errored, silent>>

CreateAlloc  == pc = "create_alloc" /\ Alloc("create_create")

CreateCreate ==
    /\ pc = "create_create"
    /\ Create([live |-> TRUE, type |-> cur.type,
               priv |-> EntryPriv(cur.type, cur.id), buckets |-> cur.buckets])

(***************************************************************************)
(* group_modify and group_delete know the group by its entry_priv only.    *)
(***************************************************************************)
Decoded(g, b) == [group |-> g, id |-> DecodedId(gt[g].priv),
                  type |-> DecodedType(gt[g].priv), buckets |-> b]

ModifyCall(g, b) ==
    /\ gt[g].live
    /\ Start("modify_delete", Decoded(g, b))
    /\ UNCHANGED <<gt, silent>>

ModifyDelete ==
    /\ pc = "modify_delete"
    /\ Delete
    /\ pc' = "modify_alloc"
    /\ silent' = silent \ {cur.group}
    /\ UNCHANGED <<gt, cur, rv, errored>>

ModifyDeleteFails ==
    /\ pc = "modify_delete"
    /\ DeleteFails
    /\ UNCHANGED <<gt, silent>>

ModifyAlloc  == pc = "modify_alloc" /\ Alloc("modify_create")

ModifyCreate ==
    /\ pc = "modify_create"
    /\ Create([gt[cur.group] EXCEPT !.buckets = cur.buckets])

DeleteCall(g) ==
    /\ gt[g].live
    /\ Start("delete_delete", Decoded(g, NoBuckets))
    /\ UNCHANGED <<gt, silent>>

\* Mutant of DeleteDelete: the switch keeps the group.
DeleteForgets ==
    /\ pc = "delete_delete"
    /\ gt' = [gt EXCEPT ![cur.group] = Absent]
    /\ Return("NONE")
    /\ UNCHANGED <<nodes, installed, errored, silent>>

DeleteDelete ==
    /\ pc = "delete_delete"
    /\ Delete
    /\ gt' = [gt EXCEPT ![cur.group] = Absent]
    /\ Return("NONE")
    /\ UNCHANGED <<errored, silent>>

DeleteDeleteFails ==
    /\ pc = "delete_delete"
    /\ DeleteFails
    /\ \E keep \in KeepOnDeleteError : gt' = [gt EXCEPT ![cur.group] = IF keep THEN @ ELSE Absent]
    /\ UNCHANGED silent

Messages ==
    \E g \in GroupIds :
        \/ \E type \in GroupTypes, b \in Buckets : CreateCall(g, type, b)
        \/ \E type \in GroupTypes : CreateReject(g, type)
        \/ \E b \in Buckets : ModifyCall(g, b)
        \/ DeleteCall(g)

PluginCalls ==
    \/ CreateAlloc
    \/ CreateCreate
    \/ ModifyDelete
    \/ ModifyDeleteFails
    \/ ModifyAlloc
    \/ ModifyCreate
    \/ DeleteDelete
    \/ DeleteDeleteFails

Next == Messages \/ PluginCalls

Spec == Init /\ [][Next]_vars

-------------------------------------------------------------------------------
(***************************************************************************)
(* Properties                                                              *)
(***************************************************************************)
Running(g) == pc # "idle" /\ cur.group = g

\* entry_priv still tells the type of these groups.
TypeSurvives(type, id) == DecodedType(EntryPriv(type, id)) = type

\* group_modify and group_delete act on the group they were called for: the id
\* always survives the packing.
GroupIdSurvives == pc # "idle" => cur.id = cur.group

\* group_modify and group_delete act on a group of the type it was created with
\* (state.h: "Remember group type").
GroupTypeRemembered ==
    pc \in {"modify_delete", "delete_delete"} => cur.type = gt[cur.group].type

\* A group the controller was told is there has the buckets it asked for, if its
\* type survives in entry_priv and no failed plugin call was hidden from it.
GroupAsOrdered ==
    \A g \in GroupIds :
        gt[g].live /\ TypeSurvives(gt[g].type, g) /\ ~Running(g) /\ g \notin silent =>
            installed[gt[g].type][g] = gt[g].buckets

\* The switch replicates to a group Indigo has not, or has with another type,
\* only if a deletion of that group was answered with an error; also while a
\* callback runs, and whatever type it has decoded.
NoSilentGroupLeak ==
    \A type \in GroupTypes, g \in GroupIds :
        installed[type][g] # NoBuckets =>
            \/ gt[g].live /\ gt[g].type = type
            \/ g \in errored

\* No group of a type the agent does not support comes into being, although
\* group_modify may decode such a type and then alloc and create with it.
OnlySupportedInstalled ==
    \A type \in GroupTypes \ Supported, g \in GroupIds : installed[type][g] = NoBuckets

===============================================================================
