----------------------------- MODULE GroupProofs -----------------------------
(***************************************************************************)
(* Theorems about the group callbacks, for every word size and every set   *)
(* of group ids.                                                           *)
(***************************************************************************)
EXTENDS GroupCallbacks, TLAPS

(***************************************************************************)
(* The word entry_priv                                                     *)
(***************************************************************************)
\* Of the types group_create lets through, OFPGT_ALL shifts to 0 and
\* OFPGT_INDIRECT is shifted out of the int: entry_priv is the bare group id.
LEMMA PrivIsBareId ==
    ASSUME NEW type \in Supported, NEW id \in 0 .. (2 * HALF - 1)
    PROVE  EntryPriv(type, id) = id
<1>1. CASE type = OFPGT_ALL
  <2>1. (0 * HALF) % (2 * HALF) = 0
    BY HalfAssumption
  <2> QED
    BY <1>1, <2>1 DEF EntryPriv, OFPGT_ALL
<1>2. CASE type = OFPGT_INDIRECT
  <2>1. (2 * HALF) % (2 * HALF) = 0
    BY HalfAssumption
  <2> QED
    BY <1>2, <2>1 DEF EntryPriv, OFPGT_INDIRECT
<1> QED
  BY <1>1, <1>2 DEF Supported

\* A bare id decodes to itself, and to type OFPGT_ALL or OFPGT_SELECT.
LEMMA BareIdDecodes ==
    ASSUME NEW id \in 0 .. (2 * HALF - 1)
    PROVE  /\ DecodedId(id) = id
           /\ DecodedType(id) \in {OFPGT_ALL, OFPGT_SELECT}
           /\ DecodedType(id) = OFPGT_ALL <=> id < HALF
<1>1. id % (2 * HALF) = id
  BY HalfAssumption
<1>2. CASE id < HALF
  <2>1. id \div HALF = 0
    BY <1>2, HalfAssumption
  <2> QED
    BY <1>1, <1>2, <2>1 DEF DecodedId, DecodedType, OFPGT_ALL, OFPGT_SELECT
<1>3. CASE id >= HALF
  <2>1. id \div HALF = 1
    BY <1>3, HalfAssumption
  <2> QED
    BY <1>1, <1>3, <2>1, HalfAssumption DEF DecodedId, DecodedType, OFPGT_ALL, OFPGT_SELECT
<1> QED
  BY <1>2, <1>3, HalfAssumption

\* The type of a group survives in entry_priv exactly if it is an OFPGT_ALL group
\* with an id below 2^31.  The type of an OFPGT_INDIRECT group never does.
THEOREM TypeSurvivesExactly ==
    ASSUME NEW type \in Supported, NEW id \in 0 .. (2 * HALF - 1)
    PROVE  TypeSurvives(type, id) <=> type = OFPGT_ALL /\ id < HALF
  BY PrivIsBareId, BareIdDecodes
     DEF TypeSurvives, Supported, OFPGT_ALL, OFPGT_SELECT, OFPGT_INDIRECT

(***************************************************************************)
(* The inductive invariant                                                 *)
(***************************************************************************)
Creating == pc \in {"create_alloc", "create_create"}
Making   == Creating \/ pc \in {"modify_alloc", "modify_create"}

\* The word of a live group is its id.
PrivIsId == \A g \in GroupIds : gt[g].live => gt[g].priv = g

\* The callbacks pass the plugin the group's id, and make no group of a type that
\* group_create refuses: group_modify gets there only if such a group existed.
FrameOfGroup ==
    /\ pc # "idle" => cur.id = cur.group
    /\ Making => cur.type \in Supported

GInv ==
    /\ TypeOK
    /\ PrivIsId
    /\ FrameOfGroup
    /\ OnlySupportedInstalled

LEMMA Words == GroupIds \subseteq Nat /\ Supported \subseteq GroupTypes
  BY HalfAssumption, IdAssumption
     DEF Supported, GroupTypes, OFPGT_ALL, OFPGT_SELECT, OFPGT_INDIRECT, OFPGT_FF

\* What group_modify and group_delete decode for a live group.
LEMMA DecodedFrame ==
    ASSUME GInv, NEW g \in GroupIds, gt[g].live, NEW b \in Buckets \cup {NoBuckets}
    PROVE  /\ Decoded(g, b) \in Frame
           /\ Decoded(g, b).id = g /\ Decoded(g, b).group = g
           /\ Decoded(g, b).type \in GroupTypes
<1>1. gt[g].priv = g /\ g \in 0 .. (2 * HALF - 1)
  BY IdAssumption DEF GInv, PrivIsId
<1>2. DecodedId(gt[g].priv) = g /\ DecodedType(gt[g].priv) \in {OFPGT_ALL, OFPGT_SELECT}
  BY <1>1, BareIdDecodes
<1> QED
  BY <1>2 DEF Decoded, Frame, GroupTypes, OFPGT_ALL, OFPGT_SELECT

\* The groups of the switch after one of them is written.
LEMMA SwitchUpdate ==
    ASSUME NEW f \in SwitchGroups, NEW t \in GroupTypes, NEW g \in GroupIds,
           NEW b \in Buckets \cup {NoBuckets}
    PROVE  [f EXCEPT ![t][g] = b] \in SwitchGroups
<1>1. [f[t] EXCEPT ![g] = b] \in [GroupIds -> Buckets \cup {NoBuckets}]
  BY DEF SwitchGroups
<1> QED
  BY <1>1 DEF SwitchGroups

\* Every step keeps the inductive invariant.
LEMMA GroupStep == GInv /\ [Next]_vars => GInv'
<1> SUFFICES ASSUME GInv, [Next]_vars PROVE GInv'
  OBVIOUS
<1>0. TypeOK /\ PrivIsId /\ FrameOfGroup /\ OnlySupportedInstalled
  BY DEF GInv
<1> USE DEF GInv, Creating, Making
<1>1. ASSUME NEW g \in GroupIds, NEW type \in GroupTypes, NEW b \in Buckets,
             CreateCall(g, type, b)
      PROVE  GInv'
  <2>0. type \in Supported /\ type \in Nat
    BY <1>1 DEF CreateCall, Supported, OFPGT_ALL, OFPGT_INDIRECT
  <2>1. cur' \in Frame /\ cur'.type \in Supported /\ cur'.id = cur'.group
    BY <1>1, <2>0 DEF CreateCall, Start, Frame
  <2>2. TypeOK'
    BY <1>0, <1>1, <2>1, Words DEF CreateCall, Start, TypeOK, Calling
  <2> QED
    BY <1>0, <1>1, <2>1, <2>2
       DEF CreateCall, Start, PrivIsId, FrameOfGroup, OnlySupportedInstalled
<1>2. ASSUME NEW g \in GroupIds, NEW type \in GroupTypes, CreateReject(g, type)
      PROVE  GInv'
  BY <1>0, <1>2
     DEF CreateReject, Return, TypeOK, PrivIsId, FrameOfGroup, OnlySupportedInstalled
<1>3. ASSUME NEW g \in GroupIds, NEW b \in Buckets, ModifyCall(g, b)
      PROVE  GInv'
  <2>1. cur' \in Frame /\ cur'.type \in GroupTypes /\ cur'.id = cur'.group
    BY <1>3, DecodedFrame DEF ModifyCall, Start
  <2>2. TypeOK'
    BY <1>0, <1>3, <2>1 DEF ModifyCall, Start, TypeOK, Calling
  <2> QED
    BY <1>0, <1>3, <2>1, <2>2
       DEF ModifyCall, Start, PrivIsId, FrameOfGroup, OnlySupportedInstalled
<1>4. ASSUME NEW g \in GroupIds, DeleteCall(g)
      PROVE  GInv'
  <2>1. cur' \in Frame /\ cur'.type \in GroupTypes /\ cur'.id = cur'.group
    BY <1>4, DecodedFrame DEF DeleteCall, Start
  <2>2. TypeOK'
    BY <1>0, <1>4, <2>1 DEF DeleteCall, Start, TypeOK, Calling
  <2> QED
    BY <1>0, <1>4, <2>1, <2>2
       DEF DeleteCall, Start, PrivIsId, FrameOfGroup, OnlySupportedInstalled
<1>5. ASSUME NEW next \in {"create_create", "modify_create"}, Alloc(next), Making,
             pc # "idle", next = "create_create" => Creating
      PROVE  GInv'
  <2>1. /\ cur \in Frame /\ cur.type \in GroupTypes /\ cur.id \in GroupIds
        /\ cur.buckets \in Buckets \cup {NoBuckets} /\ cur.group \in GroupIds
    BY <1>0, <1>5 DEF TypeOK, Frame
  <2>2. nodes' \in SwitchGroups
    BY <1>0, <1>5, <2>1, SwitchUpdate DEF Alloc, TypeOK
  <2>3. TypeOK'
    BY <1>0, <1>5, <2>1, <2>2 DEF Alloc, TypeOK, Calling
  <2> QED
    BY <1>0, <1>5, <2>3
       DEF Alloc, PrivIsId, FrameOfGroup, OnlySupportedInstalled
<1>6. ASSUME NEW rec \in GroupRec, Create(rec), Making, rec.live => rec.priv = cur.group
      PROVE  GInv'
  <2>1. /\ cur \in Frame /\ cur.type \in Supported /\ cur.type \in GroupTypes
        /\ cur.id \in GroupIds /\ cur.group \in GroupIds
    BY <1>0, <1>6 DEF TypeOK, Frame, FrameOfGroup
  <2>2. installed' \in SwitchGroups /\ OnlySupportedInstalled'
    <3>1. nodes[cur.type][cur.id] \in Buckets \cup {NoBuckets}
      BY <1>0, <2>1 DEF TypeOK, SwitchGroups
    <3>2. installed' \in SwitchGroups
      BY <1>0, <1>6, <2>1, <3>1, SwitchUpdate DEF Create, TypeOK
    <3> QED
      BY <1>0, <1>6, <2>1, <3>2 DEF Create, TypeOK, SwitchGroups, OnlySupportedInstalled
  <2>3. gt' \in [GroupIds -> GroupRec] /\ PrivIsId'
    BY <1>0, <1>6, <2>1 DEF Create, TypeOK, PrivIsId
  <2>4. TypeOK'
    BY <1>0, <1>6, <2>1, <2>2, <2>3 DEF Create, Return, TypeOK
  <2> QED
    BY <1>6, <2>2, <2>3, <2>4 DEF Create, Return, FrameOfGroup
<1>7. ASSUME Delete, pc # "idle"
      PROVE  /\ nodes' \in SwitchGroups /\ installed' \in SwitchGroups
             /\ OnlySupportedInstalled' /\ cur.type \in Supported
             /\ cur.group \in GroupIds
  <2>1. /\ cur \in Frame /\ cur.type \in GroupTypes /\ cur.id \in GroupIds
        /\ cur.group \in GroupIds
    BY <1>0, <1>7 DEF TypeOK, Frame
  <2>2. nodes' \in SwitchGroups /\ installed' \in SwitchGroups
    BY <1>0, <1>7, <2>1 DEF Delete, TypeOK, SwitchGroups
  <2>3. OnlySupportedInstalled' /\ cur.type \in Supported
    BY <1>0, <1>7, <2>1 DEF Delete, TypeOK, SwitchGroups, OnlySupportedInstalled
  <2> QED
    BY <2>1, <2>2, <2>3
<1>8. CASE CreateAlloc
  BY <1>5, <1>8 DEF CreateAlloc
<1>9. CASE CreateCreate
  <2>1. /\ cur.type \in Supported /\ cur.id = cur.group /\ cur.group \in GroupIds
        /\ cur.buckets \in Buckets \cup {NoBuckets}
    BY <1>0, <1>9 DEF CreateCreate, TypeOK, Frame, FrameOfGroup
  <2>2. EntryPriv(cur.type, cur.id) = cur.group
    BY <2>1, PrivIsBareId, IdAssumption
  <2>3. [live |-> TRUE, type |-> cur.type, priv |-> EntryPriv(cur.type, cur.id),
         buckets |-> cur.buckets] \in GroupRec
    BY <2>1, <2>2, Words DEF GroupRec
  <2> QED
    BY <1>6, <1>9, <2>2, <2>3 DEF CreateCreate
<1>10. CASE ModifyDelete
  <2>1. TypeOK'
    BY <1>0, <1>7, <1>10 DEF ModifyDelete, TypeOK, Calling
  <2> QED
    BY <1>0, <1>7, <1>10, <2>1 DEF ModifyDelete, PrivIsId, FrameOfGroup
<1>11. CASE ModifyDeleteFails
  BY <1>0, <1>11 DEF ModifyDeleteFails, DeleteFails, Return, TypeOK, Frame, PrivIsId,
     FrameOfGroup, OnlySupportedInstalled
<1>12. CASE ModifyAlloc
  BY <1>5, <1>12 DEF ModifyAlloc
<1>13. CASE ModifyCreate
  <2>1. cur.group \in GroupIds /\ cur.buckets \in Buckets \cup {NoBuckets}
    BY <1>0, <1>13 DEF ModifyCreate, TypeOK, Frame
  <2>2. /\ [gt[cur.group] EXCEPT !.buckets = cur.buckets] \in GroupRec
        /\ [gt[cur.group] EXCEPT !.buckets = cur.buckets].priv = gt[cur.group].priv
        /\ [gt[cur.group] EXCEPT !.buckets = cur.buckets].live = gt[cur.group].live
    BY <1>0, <2>1 DEF TypeOK, GroupRec
  <2> QED
    BY <1>0, <1>6, <1>13, <2>1, <2>2 DEF ModifyCreate, PrivIsId
<1>14. CASE DeleteDelete
  <2>1. gt' \in [GroupIds -> GroupRec] /\ PrivIsId'
    BY <1>0, <1>7, <1>14
       DEF DeleteDelete, TypeOK, PrivIsId, Absent, GroupRec, GroupTypes, OFPGT_ALL
  <2> QED
    BY <1>0, <1>7, <1>14, <2>1 DEF DeleteDelete, Return, TypeOK, FrameOfGroup
<1>15. CASE DeleteDeleteFails
  <2>1. cur.group \in GroupIds
    BY <1>0, <1>15 DEF DeleteDeleteFails, TypeOK, Frame
  <2>2. gt' \in [GroupIds -> GroupRec] /\ PrivIsId'
    BY <1>0, <1>15, <2>1
       DEF DeleteDeleteFails, TypeOK, PrivIsId, Absent, GroupRec, GroupTypes, OFPGT_ALL
  <2> QED
    BY <1>0, <1>15, <2>1, <2>2
       DEF DeleteDeleteFails, DeleteFails, Return, TypeOK, FrameOfGroup, OnlySupportedInstalled
<1>16. CASE UNCHANGED vars
  BY <1>0, <1>16 DEF vars, TypeOK, PrivIsId, FrameOfGroup, OnlySupportedInstalled
<1> QED
  BY <1>1, <1>2, <1>3, <1>4, <1>8, <1>9, <1>10, <1>11, <1>12, <1>13, <1>14, <1>15, <1>16
     DEF Next, Messages, PluginCalls

\* The type invariant, the word and the frame of a running callback, and the
\* absence of groups of unsupported types hold together in every reachable state.
THEOREM GroupInvariant == Spec => []GInv
<1>1. Init => GInv
  BY Words DEF Init, GInv, TypeOK, PrivIsId, FrameOfGroup, OnlySupportedInstalled, Making,
     Creating, Nowhere, Absent, SwitchGroups, GroupRec, GroupTypes, OFPGT_ALL
<1> QED
  BY <1>1, GroupStep, PTL DEF Spec

\* group_modify and group_delete act on the group they are called for.
THEOREM GroupIdAlwaysSurvives == Spec => []GroupIdSurvives
<1>1. GInv => GroupIdSurvives
  BY DEF GInv, FrameOfGroup, GroupIdSurvives
<1> QED
  BY <1>1, GroupInvariant, PTL

\* Whatever type group_modify decodes from a group id of 2^31 and above, no select
\* or failover group is ever made.
THEOREM NoUnsupportedGroup == Spec => []OnlySupportedInstalled
<1>1. GInv => OnlySupportedInstalled
  BY DEF GInv
<1> QED
  BY <1>1, GroupInvariant, PTL

\* Every variable keeps its type; the type a running callback has decoded is one
\* of the four, whatever entry_priv is.
THEOREM GroupTypeCorrect == Spec => []TypeOK
<1>1. GInv => TypeOK
  BY DEF GInv
<1> QED
  BY <1>1, GroupInvariant, PTL

(***************************************************************************)
(* What the controller was told, and what the switch has                   *)
(***************************************************************************)
Modifying  == pc \in {"modify_delete", "modify_alloc", "modify_create"}
Rewriting  == pc \in {"modify_alloc", "modify_create"}

\* Indigo has the group a modification or deletion is for, and not the one that is
\* created; the type of the running callback is what entry_priv decodes to.
FrameOfLife ==
    /\ Creating => ~gt[cur.group].live
    /\ Modifying \/ pc = "delete_delete" =>
           gt[cur.group].live /\ cur.type = DecodedType(gt[cur.group].priv)

\* What ofpat_group_create will install is what the message asks for.
PreparedAsAsked ==
    pc \in {"create_create", "modify_create"} =>
        cur.group \in silent \/ nodes[cur.type][cur.id] = cur.buckets

\* A group is as ordered unless it is being rewritten.
OrderedUnlessRewritten ==
    \A g \in GroupIds :
        gt[g].live /\ TypeSurvives(gt[g].type, g) /\ ~(Rewriting /\ cur.group = g)
        /\ g \notin silent => installed[gt[g].type][g] = gt[g].buckets

\* A modification that has found a group to delete has found it by its own type, or
\* one that an earlier deletion has left behind.
RewritesOwnType ==
    Rewriting => cur.type = gt[cur.group].type \/ cur.group \in errored

OInv ==
    /\ \A g \in GroupIds : gt[g].live => gt[g].type \in Supported
    /\ FrameOfLife
    /\ PreparedAsAsked
    /\ OrderedUnlessRewritten
    /\ RewritesOwnType
    /\ NoSilentGroupLeak

\* A type that survives in entry_priv is the one that is decoded.
LEMMA SurvivorDecodes ==
    ASSUME GInv, NEW g \in GroupIds, gt[g].live, gt[g].type \in Supported,
           TypeSurvives(gt[g].type, g)
    PROVE  DecodedType(gt[g].priv) = gt[g].type
<1>1. g \in 0 .. (2 * HALF - 1) /\ gt[g].priv = g
  BY IdAssumption DEF GInv, PrivIsId
<1> QED
  BY <1>1, PrivIsBareId DEF TypeSurvives

\* Every step keeps it.
LEMMA OrderStep == GInv /\ OInv /\ [Next]_vars => OInv'
<1> SUFFICES ASSUME GInv, OInv, [Next]_vars PROVE OInv'
  OBVIOUS
<1>0. /\ TypeOK /\ PrivIsId /\ FrameOfGroup
      /\ \A g \in GroupIds : gt[g].live => gt[g].type \in Supported
      /\ FrameOfLife /\ PreparedAsAsked /\ OrderedUnlessRewritten
      /\ RewritesOwnType /\ NoSilentGroupLeak
  BY DEF GInv, OInv
<1>f. pc # "idle" => /\ cur.group \in GroupIds /\ cur.id = cur.group
                     /\ cur.type \in GroupTypes
  BY <1>0 DEF TypeOK, Frame, FrameOfGroup
<1> USE DEF Creating, Making, Modifying, Rewriting
<1>1. ASSUME NEW g \in GroupIds, NEW type \in GroupTypes, NEW b \in Buckets,
             CreateCall(g, type, b)
      PROVE  OInv'
  BY <1>0, <1>1 DEF CreateCall, Start, OInv, FrameOfLife, PreparedAsAsked,
     OrderedUnlessRewritten, RewritesOwnType, NoSilentGroupLeak
<1>2. ASSUME NEW g \in GroupIds, NEW type \in GroupTypes, CreateReject(g, type)
      PROVE  OInv'
  BY <1>0, <1>2 DEF CreateReject, Return, OInv, FrameOfLife, PreparedAsAsked,
     OrderedUnlessRewritten, RewritesOwnType, NoSilentGroupLeak
<1>3. ASSUME NEW g \in GroupIds, NEW b \in Buckets, ModifyCall(g, b)
      PROVE  OInv'
  BY <1>0, <1>3 DEF ModifyCall, Start, Decoded, OInv, FrameOfLife, PreparedAsAsked,
     OrderedUnlessRewritten, RewritesOwnType, NoSilentGroupLeak
<1>4. ASSUME NEW g \in GroupIds, DeleteCall(g)
      PROVE  OInv'
  BY <1>0, <1>4 DEF DeleteCall, Start, Decoded, OInv, FrameOfLife, PreparedAsAsked,
     OrderedUnlessRewritten, RewritesOwnType, NoSilentGroupLeak
<1>5. ASSUME NEW next, Alloc(next), \/ pc = "create_alloc" /\ next = "create_create"
                                    \/ pc = "modify_alloc" /\ next = "modify_create"
      PROVE  OInv'
  <2>1. PreparedAsAsked'
    BY <1>0, <1>5, <1>f DEF Alloc, PreparedAsAsked, TypeOK, SwitchGroups
  <2>2. OrderedUnlessRewritten'
    BY <1>0, <1>5, <1>f DEF Alloc, OrderedUnlessRewritten
  <2> QED
    BY <1>0, <1>5, <2>1, <2>2
       DEF Alloc, OInv, FrameOfLife, RewritesOwnType, NoSilentGroupLeak
<1>6. ASSUME NEW rec, Create(rec), rec.live, rec.type \in Supported,
             rec.buckets = cur.buckets, pc \in {"create_create", "modify_create"},
             TypeSurvives(rec.type, cur.group) => cur.type = rec.type,
             cur.type = rec.type \/ cur.group \in errored,
             pc = "modify_create" => gt[cur.group].live /\ rec.type = gt[cur.group].type
      PROVE  OInv'
  <2>1. gt' = [gt EXCEPT ![cur.group] = rec] /\ pc' = "idle"
    BY <1>6 DEF Create, Return
  <2>2. /\ gt'[cur.group] = rec
        /\ \A g \in GroupIds \ {cur.group} : gt'[g] = gt[g]
    BY <1>0, <1>6, <1>f, <2>1 DEF TypeOK
  <2>3. /\ \A type \in GroupTypes, g \in GroupIds :
              ~(type = cur.type /\ g = cur.group) => installed'[type][g] = installed[type][g]
        /\ \/ installed'[cur.type][cur.group] = nodes[cur.type][cur.group]
              /\ silent' = silent
           \/ silent' = silent \cup {cur.group} /\ installed' = installed
    BY <1>0, <1>6, <1>f DEF Create, TypeOK, SwitchGroups
  <2>4. OrderedUnlessRewritten'
    <3> SUFFICES ASSUME NEW g \in GroupIds, gt'[g].live, TypeSurvives(gt'[g].type, g),
                        g \notin silent'
                 PROVE  installed'[gt'[g].type][g] = gt'[g].buckets
      BY <2>1 DEF OrderedUnlessRewritten
    <3>1. CASE g = cur.group
      BY <1>0, <1>6, <1>f, <2>2, <2>3, <3>1 DEF PreparedAsAsked
    <3>2. CASE g # cur.group
      <4>1. gt'[g] = gt[g] /\ gt[g].type \in GroupTypes
        BY <1>0, <2>2, <3>2 DEF TypeOK, GroupRec
      <4> QED
        BY <1>0, <2>3, <3>2, <4>1 DEF OrderedUnlessRewritten
    <3> QED
      BY <3>1, <3>2
  <2>5. NoSilentGroupLeak'
    <3> SUFFICES ASSUME NEW type \in GroupTypes, NEW g \in GroupIds,
                        installed'[type][g] # NoBuckets, g \notin errored
                 PROVE  gt'[g].live /\ gt'[g].type = type
      BY <1>6 DEF Create, NoSilentGroupLeak
    <3>1. CASE g = cur.group
      <4>1. CASE type = cur.type
        BY <1>6, <2>2, <3>1, <4>1
      <4>2. CASE type # cur.type
        BY <1>0, <1>6, <2>2, <2>3, <3>1, <4>2 DEF NoSilentGroupLeak, FrameOfLife
      <4> QED
        BY <4>1, <4>2
    <3>2. CASE g # cur.group
      BY <1>0, <2>2, <2>3, <3>2 DEF NoSilentGroupLeak
    <3> QED
      BY <3>1, <3>2
  <2> QED
    BY <1>0, <1>6, <2>1, <2>2, <2>4, <2>5
       DEF OInv, FrameOfLife, PreparedAsAsked, RewritesOwnType
<1>7. ASSUME Delete, pc # "idle"
      PROVE  /\ installed[cur.type][cur.group] # NoBuckets
             /\ \A type \in GroupTypes, g \in GroupIds :
                    installed'[type][g] = IF type = cur.type /\ g = cur.group
                                          THEN NoBuckets ELSE installed[type][g]
  BY <1>0, <1>7, <1>f DEF Delete, TypeOK, SwitchGroups
<1>8. CASE CreateAlloc
  BY <1>5, <1>8 DEF CreateAlloc
<1>9. CASE CreateCreate
  <2>1. cur.type \in Supported
    BY <1>0, <1>9 DEF CreateCreate, FrameOfGroup
  <2> QED
    BY <1>6, <1>9, <2>1 DEF CreateCreate
<1>10. CASE ModifyDelete
  <2>1. pc = "modify_delete" /\ pc' = "modify_alloc" /\ UNCHANGED <<gt, cur, errored>>
        /\ silent' = silent \ {cur.group}
    BY <1>10 DEF ModifyDelete
  <2>2. RewritesOwnType'
    BY <1>0, <1>7, <1>10, <1>f, <2>1 DEF ModifyDelete, RewritesOwnType, NoSilentGroupLeak
  <2>3. OrderedUnlessRewritten'
    <3> SUFFICES ASSUME NEW g \in GroupIds \ {cur.group}, gt[g].live,
                        TypeSurvives(gt[g].type, g), g \notin silent
                 PROVE  installed'[gt[g].type][g] = gt[g].buckets
      BY <2>1 DEF OrderedUnlessRewritten
    <3>1. gt[g].type \in GroupTypes
      BY <1>0 DEF TypeOK, GroupRec
    <3> QED
      BY <1>0, <1>7, <1>10, <2>1, <3>1 DEF ModifyDelete, OrderedUnlessRewritten
  <2>4. NoSilentGroupLeak'
    BY <1>0, <1>7, <1>10, <2>1 DEF ModifyDelete, NoSilentGroupLeak
  <2> QED
    BY <1>0, <2>1, <2>2, <2>3, <2>4 DEF OInv, FrameOfLife, PreparedAsAsked
<1>11. CASE ModifyDeleteFails
  BY <1>0, <1>11 DEF ModifyDeleteFails, DeleteFails, Return, OInv, FrameOfLife,
     PreparedAsAsked, OrderedUnlessRewritten, RewritesOwnType, NoSilentGroupLeak
<1>12. CASE ModifyAlloc
  BY <1>5, <1>12 DEF ModifyAlloc
<1>13. CASE ModifyCreate
  <2> DEFINE rec == [gt[cur.group] EXCEPT !.buckets = cur.buckets]
  <2>1. pc = "modify_create" /\ cur.group \in GroupIds /\ Create(rec)
    BY <1>13, <1>f DEF ModifyCreate
  <2>2. /\ rec.live = gt[cur.group].live /\ rec.type = gt[cur.group].type
        /\ rec.buckets = cur.buckets
    BY <1>0, <2>1 DEF TypeOK, GroupRec
  <2>3. gt[cur.group].live /\ cur.type = DecodedType(gt[cur.group].priv)
    BY <1>0, <2>1 DEF FrameOfLife
  <2>4. gt[cur.group].type \in Supported
    BY <1>0, <2>1, <2>3
  <2>5. TypeSurvives(rec.type, cur.group) => cur.type = rec.type
    BY <2>1, <2>2, <2>3, <2>4, SurvivorDecodes
  <2>6. cur.type = rec.type \/ cur.group \in errored
    BY <1>0, <2>1, <2>2 DEF RewritesOwnType
  <2> HIDE DEF rec
  <2> QED
    BY <1>6, <2>1, <2>2, <2>3, <2>4, <2>5, <2>6
<1>14. CASE DeleteDelete
  <2>1. pc = "delete_delete" /\ pc' = "idle" /\ UNCHANGED <<errored, silent>>
        /\ gt' = [gt EXCEPT ![cur.group] = Absent]
    BY <1>14 DEF DeleteDelete, Return
  <2>2. /\ ~gt'[cur.group].live
        /\ \A g \in GroupIds \ {cur.group} : gt'[g] = gt[g] /\ gt[g].type \in GroupTypes
    BY <1>0, <1>f, <2>1 DEF TypeOK, GroupRec, Absent
  <2>3. OrderedUnlessRewritten'
    BY <1>0, <1>7, <1>14, <2>1, <2>2 DEF DeleteDelete, OrderedUnlessRewritten
  <2>4. NoSilentGroupLeak'
    BY <1>0, <1>7, <1>14, <1>f, <2>1, <2>2 DEF DeleteDelete, NoSilentGroupLeak
  <2> QED
    BY <1>0, <2>1, <2>2, <2>3, <2>4 DEF OInv, FrameOfLife, PreparedAsAsked, RewritesOwnType
<1>15. CASE DeleteDeleteFails
  <2>1. /\ pc = "delete_delete" /\ pc' = "idle" /\ UNCHANGED <<installed, silent>>
        /\ errored' = errored \cup {cur.group}
    BY <1>15 DEF DeleteDeleteFails, DeleteFails, Return
  <2>2. /\ gt'[cur.group] = gt[cur.group] \/ ~gt'[cur.group].live
        /\ \A g \in GroupIds \ {cur.group} : gt'[g] = gt[g]
    BY <1>0, <1>15, <1>f, <2>1 DEF DeleteDeleteFails, TypeOK, GroupRec, Absent
  <2> QED
    BY <1>0, <2>1, <2>2 DEF OInv, FrameOfLife, PreparedAsAsked, OrderedUnlessRewritten,
       RewritesOwnType, NoSilentGroupLeak
<1>16. CASE UNCHANGED vars
  BY <1>0, <1>16 DEF vars, OInv, FrameOfLife, PreparedAsAsked, OrderedUnlessRewritten,
     RewritesOwnType, NoSilentGroupLeak
<1> QED
  BY <1>1, <1>2, <1>3, <1>4, <1>8, <1>9, <1>10, <1>11, <1>12, <1>13, <1>14, <1>15, <1>16
     DEF Next, Messages, PluginCalls

\* So it holds throughout.
LEMMA OrderInvariant == Spec => []OInv
<1>1. Init => OInv
  BY DEF Init, OInv, FrameOfLife, PreparedAsAsked, OrderedUnlessRewritten, RewritesOwnType,
     NoSilentGroupLeak, Creating, Modifying, Rewriting, Nowhere, Absent
<1> QED
  BY <1>1, GroupInvariant, OrderStep, PTL DEF Spec

\* However often groups are created, rewritten and deleted, and whichever plugin
\* calls fail: a group whose type survives in entry_priv has the buckets the
\* controller last asked for, unless a failure was hidden from it.
THEOREM GroupsAreAsOrdered == Spec => []GroupAsOrdered
<1>1. OInv => GroupAsOrdered
  BY DEF OInv, OrderedUnlessRewritten, Rewriting, GroupAsOrdered, Running
<1> QED
  BY <1>1, OrderInvariant, PTL

\* Also a group_modify that decodes the type of another group leaves no group behind
\* of which the controller has not been told by an error.
THEOREM NoGroupLeaksSilently == Spec => []NoSilentGroupLeak
<1>1. OInv => NoSilentGroupLeak
  BY DEF OInv
<1> QED
  BY <1>1, OrderInvariant, PTL

===============================================================================
