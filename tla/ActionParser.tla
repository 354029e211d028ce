---------------------------- MODULE ActionParser ----------------------------
(***************************************************************************)
(* The parser of instructions and actions (src/src/parse.c), as the flow   *)
(* callbacks use it: parse_instructions fills the Judy array aargs, action *)
(* type -> argument, and the bitmap sig of the types it met.               *)
(*                                                                         *)
(* An argument is a block of memory that parse_ofpat allocates when it     *)
(* reads an action.  A block is named by the position of the action it was *)
(* read from.  One step of this module is one turn of a list iteration.    *)
(***************************************************************************)
EXTENDS Integers, Sequences

CONSTANTS
    ActionLists,  \* the action lists of the messages
    MaxInstrs,    \* instructions in a message
    NoKey,        \* what aargs has for a type that is not in it
    Garbage       \* what a local variable holds before it is written

ASSUME InstrsAssumption == MaxInstrs \in Nat

\* OFPAT_*: the types whose argument parse_ofpat reads, the ones it reads nothing
\* from, and the set-field, whose argument it reads for one field only.
WithArg == {"OUTPUT", "GROUP", "SET_QUEUE", "SET_MPLS_TTL", "SET_NW_TTL"}
Bare    == {"PUSH_VLAN", "PUSH_MPLS", "PUSH_PBB", "POP_MPLS", "POP_VLAN", "POP_PBB",
            "COPY_TTL_OUT", "COPY_TTL_IN", "DEC_MPLS_TTL", "DEC_NW_TTL", "EXPERIMENTER"}
ActionTypes == WithArg \cup Bare \cup {"SET_FIELD"}

Fields == {"VLAN_VID", "ANOTHER"}
Action == [type : ActionTypes, field : Fields]

ASSUME ListsAssumption == ActionLists \subseteq Seq(Action)

\* OFPIT_*.  The switch has the value 0xffff, OFPIT_EXPERIMENTER, go to default.
ArgInstrs    == {"GOTO_TABLE", "WRITE_METADATA", "METER"}
ActionInstrs == {"WRITE_ACTIONS", "APPLY_ACTIONS", "CLEAR_ACTIONS"}
OtherInstrs  == {"INSTR_EXPERIMENTER"}
InstrTypes   == ArgInstrs \cup ActionInstrs \cup OtherInstrs

Types == InstrTypes \cup ActionTypes
Block == Nat \ {0}
Word  == Block \cup {Garbage}

ASSUME WordAssumption == NoKey \notin Word /\ Garbage \notin Block

\* Of the instructions these two carry a list.
WithList == {"WRITE_ACTIONS", "APPLY_ACTIONS"}
Instruction == [type : WithList, actions : ActionLists]
                   \cup [type : InstrTypes \ WithList, actions : {<<>>}]

VARIABLES
    msg,       \* the instruction list that is parsed
    pc,        \* "idle", in one of the two iterations, or "returned"
    pos,       \* the next element of the list iterated over
    arg,       \* the local variable arg of the function that iterates
    aargs,     \* *aargs: type -> word; set-fields are in fields
    fields,    \* the nested array that aargs[OFPAT_SET_FIELD] points at
    dangling,  \* aargs[OFPAT_SET_FIELD] points at memory that was freed
    sig        \* the types whose bit is set

vars == <<msg, pc, pos, arg, aargs, fields, dangling, sig>>

TypeOK ==
    /\ Len(msg) <= MaxInstrs
    /\ \A k \in DOMAIN msg : msg[k] \in Instruction
    /\ pc \in {"idle", "instructions", "actions", "returned"}
    /\ pos \in Nat \ {0}
    /\ arg \in Word
    /\ aargs \in [Types \ {"SET_FIELD"} -> Word \cup {NoKey}]
    /\ fields \in [Fields -> Word \cup {NoKey}]
    /\ dangling \in BOOLEAN
    /\ sig \subseteq Types

NoWords  == [t \in Types \ {"SET_FIELD"} |-> NoKey]
NoFields == [f \in Fields |-> NoKey]

Init ==
    /\ msg = <<>>
    /\ pc = "idle"
    /\ pos = 1
    /\ arg = Garbage
    /\ aargs = NoWords
    /\ fields = NoFields
    /\ dangling = FALSE
    /\ sig = {}

\* flow_create and flow_modify parse into an empty array and signature.
Call ==
    /\ pc = "idle"
    /\ \E n \in 0 .. MaxInstrs : \E m \in [1 .. n -> Instruction] : msg' = m
    /\ pc' = "instructions"
    /\ UNCHANGED <<pos, arg, aargs, fields, dangling, sig>>

\* They hand both to the PD calls, and return.
Use ==
    /\ pc = "returned"
    /\ msg' = <<>>
    /\ pc' = "idle"
    /\ pos' = 1
    /\ arg' = Garbage
    /\ aargs' = NoWords
    /\ fields' = NoFields
    /\ dangling' = FALSE
    /\ sig' = {}

(***************************************************************************)
(* parse_instructions.  The type is read at offset 0 of the buffer, where  *)
(* the list begins, and not at the offset of the element: every element is *)
(* taken to be of the type of the first.                                   *)
(***************************************************************************)
InstrType == msg[1].type

\* signature_set_bit shifts a 64-bit one and keeps 32 bits of it: the bit of an
\* experimenter type, 0xffff, is not kept.
Bits(type) == {type} \ {"EXPERIMENTER", "INSTR_EXPERIMENTER"}

Iterating(loop, list) ==
    /\ pc = loop
    /\ pos <= Len(list)

ParseInstruction ==
    /\ Iterating("instructions", msg)
    /\ InstrType \notin ActionInstrs
    /\ arg' = IF InstrType \in ArgInstrs THEN pos ELSE arg
    /\ aargs' = [aargs EXCEPT ![InstrType] = arg']
    /\ sig' = sig \cup Bits(InstrType)
    /\ pos' = pos + 1
    /\ UNCHANGED <<msg, pc, fields, dangling>>

\* The call of parse_actions, whose return is followed by that of its caller.
ParseActions ==
    /\ Iterating("instructions", msg)
    /\ InstrType \in ActionInstrs
    /\ pc' = "actions"
    /\ pos' = 1
    /\ arg' = Garbage
    /\ UNCHANGED <<msg, aargs, fields, dangling, sig>>

List == msg[1].actions

Return ==
    /\ \/ pc = "instructions" /\ pos > Len(msg)
       \/ pc = "actions" /\ pos > Len(List)
    /\ pc' = "returned"
    /\ UNCHANGED <<msg, pos, arg, aargs, fields, dangling, sig>>

(***************************************************************************)
(* parse_actions.  parse_ofpat leaves arg as it is for an action that it   *)
(* reads no argument from, and parse_actions stores what arg then holds.   *)
(***************************************************************************)
This == List[pos]

\* Mutant of parse_ofpat: an argument that is not read is taken to be NULL.
parse_ofpat_null == IF This.type \in WithArg THEN pos ELSE NoKey

parse_ofpat ==
    IF This.type \in WithArg \/ (This.type = "SET_FIELD" /\ This.field = "VLAN_VID")
    THEN pos ELSE arg

\* Mutant of NextAction: the iteration stops short of the last element.
NextActionShort ==
    /\ Iterating("actions", List)
    /\ arg' = parse_ofpat
    /\ sig' = IF pos = Len(List) THEN sig ELSE sig \cup Bits(This.type)
    /\ pos' = pos + 1
    /\ UNCHANGED <<msg, pc>>

NextAction ==
    /\ Iterating("actions", List)
    /\ arg' = parse_ofpat
    /\ sig' = sig \cup Bits(This.type)
    /\ pos' = pos + 1
    /\ UNCHANGED <<msg, pc>>

\* Mutant of StoreAction: what aargs has already is kept.
StoreActionOnce ==
    /\ NextAction
    /\ This.type # "SET_FIELD"
    /\ aargs' = [aargs EXCEPT ![This.type] = IF @ = NoKey THEN arg' ELSE @]
    /\ UNCHANGED <<fields, dangling>>

StoreAction ==
    /\ NextAction
    /\ This.type # "SET_FIELD"
    /\ aargs' = [aargs EXCEPT ![This.type] = arg']
    /\ UNCHANGED <<fields, dangling>>

HasFields == dangling \/ \E f \in Fields : fields[f] # NoKey

\* Mutant of StoreField: a second set-field of the same field is skipped.
StoreFieldOnce ==
    /\ NextAction
    /\ This.type = "SET_FIELD"
    /\ ~dangling
    /\ HasFields => fields[This.field] # NoKey
    /\ fields' = [fields EXCEPT ![This.field] = IF @ = NoKey THEN arg' ELSE @]
    /\ UNCHANGED <<aargs, dangling>>

\* The first set-field makes the nested array, and the second of the same field
\* writes in it.
StoreField ==
    /\ NextAction
    /\ This.type = "SET_FIELD"
    /\ ~dangling
    /\ HasFields => fields[This.field] # NoKey
    /\ fields' = [fields EXCEPT ![This.field] = arg']
    /\ UNCHANGED <<aargs, dangling>>

\* The set-field of a second field moves the nested array, which grows from one key
\* to two, to a new leaf.  The new root stays in the local variable pipeline: aargs
\* still points at the old leaf, which is free.  What is read through it then may be
\* as before, or lost; a later set-field of the field that was there may reach it.
LoseFields ==
    /\ NextAction
    /\ This.type = "SET_FIELD"
    /\ dangling \/ (HasFields /\ fields[This.field] = NoKey)
    /\ fields' \in {fields, NoFields,
                    [fields EXCEPT ![This.field] = IF @ = NoKey THEN @ ELSE arg']}
    /\ dangling' = TRUE
    /\ UNCHANGED aargs

Next ==
    \/ Call
    \/ ParseInstruction
    \/ ParseActions
    \/ StoreAction
    \/ StoreField
    \/ LoseFields
    \/ Return
    \/ Use

Spec == Init /\ [][Next]_vars

-------------------------------------------------------------------------------
(***************************************************************************)
(* Properties: what the parser has made of a list when it returns, against *)
(* the list itself.                                                        *)
(***************************************************************************)
Parsed == IF msg # <<>> /\ InstrType \in ActionInstrs THEN List ELSE <<>>

Positions(Test(_)) == {k \in DOMAIN Parsed : Test(Parsed[k])}
Latest(S) == CHOOSE k \in S : \A l \in S : l <= k
LatestOr(S, none) == IF S = {} THEN none ELSE Latest(S)

SetsField(a, f) == a.type = "SET_FIELD" /\ a.field = f

\* The argument the PD calls get for an action type is that of the last action of
\* the type, and no type that is not in the list has one.
ArgOfLastSuch ==
    pc = "returned" =>
        \A t \in WithArg :
            aargs[t] = LatestOr(Positions(LAMBDA a : a.type = t), NoKey)

HasKey(t) == IF t = "SET_FIELD" THEN HasFields ELSE aargs[t] # NoKey

\* What the switch applies and what it is given to apply it with come from one list, by
\* two ways: of a message that is a single list of actions the bitmap has room for, the
\* bitmap has the types that are in the list, and the array has keys for just these.
SignatureIfItFits ==
    /\ pc = "returned" /\ Len(msg) = 1 /\ InstrType \in ActionInstrs
    /\ Positions(LAMBDA a : a.type = "EXPERIMENTER") = {}
    => /\ sig = {List[k].type : k \in DOMAIN List}
       /\ sig = {t \in ActionTypes : HasKey(t)}

\* A list that sets the vlan id only, however often, passes on the last one.
VidOfLastSetField ==
    pc = "returned" /\ Positions(LAMBDA a : SetsField(a, "ANOTHER")) = {} =>
        /\ ~dangling
        /\ fields["VLAN_VID"] = LatestOr(Positions(LAMBDA a : SetsField(a, "VLAN_VID")), NoKey)

\* What the comments of the repository say of the parser.  parse.c:90 of set-fields: they
\* index another array "that goes like match_field -> value".
SetFieldsAsListed ==
    pc = "returned" =>
        fields["VLAN_VID"] = LatestOr(Positions(LAMBDA a : SetsField(a, "VLAN_VID")), NoKey)

===============================================================================
