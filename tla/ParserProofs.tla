----------------------------- MODULE ParserProofs -----------------------------
(***************************************************************************)
(* Theorems about the parser: what a message becomes, for lists of any     *)
(* length.  The invariant says of an iteration that is under way what the  *)
(* properties say of one that is done, of the elements before pos.         *)
(***************************************************************************)
EXTENDS ActionParser, TLAPS

\* The actions before n of a type, the set-fields of a field, and the bits of all.
OfType(t, n)  == {k \in 1 .. n - 1 : List[k].type = t}
SetsTo(f, n)  == {k \in 1 .. n - 1 : SetsField(List[k], f)}
BitsTo(n)     == UNION {Bits(List[k].type) : k \in 1 .. n - 1}

ListFirst == msg # <<>> /\ InstrType \in ActionInstrs

\* Before the first action, and as long as there is no list.
NoActions ==
    /\ \A t \in ActionTypes \ {"SET_FIELD"} : aargs[t] = NoKey
    /\ fields = NoFields
    /\ ~dangling

ActionsSoFar ==
    /\ \A t \in WithArg : aargs[t] = LatestOr(OfType(t, pos), NoKey)
    /\ \A t \in ActionTypes \ {"SET_FIELD"} : aargs[t] = NoKey <=> OfType(t, pos) = {}
    /\ HasFields <=> OfType("SET_FIELD", pos) # {}
    /\ sig = BitsTo(pos)
    /\ SetsTo("ANOTHER", pos) = {} =>
           /\ ~dangling
           /\ fields["ANOTHER"] = NoKey
           /\ fields["VLAN_VID"] = LatestOr(SetsTo("VLAN_VID", pos), NoKey)

PInv ==
    /\ TypeOK
    /\ msg \in Seq(Instruction)
    /\ pc = "idle" => pos = 1 /\ sig = {} /\ NoActions
    /\ pc = "instructions" =>
           /\ NoActions
           /\ pos <= Len(msg) + 1
           /\ ListFirst => pos = 1
           /\ sig = IF pos = 1 THEN {} ELSE Bits(InstrType)
    /\ pc = "actions" =>
           /\ ListFirst
           /\ pos <= Len(List) + 1
           /\ ActionsSoFar
    /\ pc = "returned" =>
           /\ ListFirst => pos = Len(List) + 1 /\ ActionsSoFar
           /\ ~ListFirst => NoActions
           /\ ~ListFirst /\ msg # <<>> => sig = Bits(InstrType)

(***************************************************************************)
(* The last of a set of positions.                                         *)
(***************************************************************************)
\* The one that none comes after.
LEMMA LatestIs ==
    ASSUME NEW S \in SUBSET Nat, NEW n \in S, \A k \in S : k <= n
    PROVE  Latest(S) = n
<1>1. Latest(S) \in S /\ \A l \in S : l <= Latest(S)
  <2>1. \E k \in S : \A l \in S : l <= k
    OBVIOUS
  <2> QED BY <2>1, Zenon DEF Latest
<1>2. n <= Latest(S) /\ Latest(S) <= n
  BY <1>1
<1>3. Latest(S) \in Nat /\ n \in Nat
  BY <1>1
<1> QED BY <1>2, <1>3

\* Positions up to n - 1, and then n, if that passes.
LEMMA OneMore ==
    ASSUME NEW n \in Nat \ {0}
    PROVE  /\ \A t : OfType(t, n + 1) = IF List[n].type = t THEN OfType(t, n) \cup {n} ELSE OfType(t, n)
           /\ \A f : SetsTo(f, n + 1) =
                         IF SetsField(List[n], f) THEN SetsTo(f, n) \cup {n} ELSE SetsTo(f, n)
           /\ BitsTo(n + 1) = BitsTo(n) \cup Bits(List[n].type)
<1>1. 1 .. (n + 1) - 1 = (1 .. n - 1) \cup {n}
  OBVIOUS
<1>2. \A t : OfType(t, n + 1) = IF List[n].type = t THEN OfType(t, n) \cup {n} ELSE OfType(t, n)
  BY <1>1 DEF OfType
<1>3. \A f : SetsTo(f, n + 1) =
                 IF SetsField(List[n], f) THEN SetsTo(f, n) \cup {n} ELSE SetsTo(f, n)
  BY <1>1 DEF SetsTo
<1>4. BitsTo(n + 1) = BitsTo(n) \cup Bits(List[n].type)
  BY <1>1 DEF BitsTo
<1> QED BY <1>2, <1>3, <1>4

\* Nothing comes after the last position.
LEMMA LastOne ==
    ASSUME NEW n \in Nat \ {0}
    PROVE  /\ \A t : Latest(OfType(t, n) \cup {n}) = n
           /\ \A f : Latest(SetsTo(f, n) \cup {n}) = n
<1>1. ASSUME NEW S \in SUBSET (1 .. n - 1) PROVE Latest(S \cup {n}) = n
  BY <1>1, LatestIs
<1> QED BY <1>1 DEF OfType, SetsTo

\* The list is one of actions, whatever instruction it comes with.
LEMMA ListTyped ==
    ASSUME PInv, msg # <<>>
    PROVE  /\ msg[1] \in Instruction /\ InstrType \in InstrTypes
           /\ List \in Seq(Action)
<1>1. 1 \in DOMAIN msg
  BY DEF PInv
<1>2. msg[1] \in Instruction
  BY <1>1 DEF PInv
<1>3. List \in Seq(Action)
  <2>1. List \in ActionLists \/ List = <<>>
    BY <1>2 DEF List, Instruction
  <2>2. <<>> \in Seq(Action)
    OBVIOUS
  <2> QED BY <2>1, <2>2, ListsAssumption
<1> QED BY <1>2, <1>3 DEF InstrType, Instruction, WithList, InstrTypes, ActionInstrs

\* The invariant holds before the first call.
LEMMA ParserInit == Init => PInv
<1> SUFFICES ASSUME Init PROVE PInv
  OBVIOUS
<1>1. TypeOK
  <2>1. Len(<<>>) = 0 /\ DOMAIN <<>> = {}
    OBVIOUS
  <2>2. /\ aargs \in [Types \ {"SET_FIELD"} -> Word \cup {NoKey}]
        /\ fields \in [Fields -> Word \cup {NoKey}]
    BY DEF Init, NoWords, NoFields
  <2>3. Len(msg) <= MaxInstrs /\ \A k \in DOMAIN msg : msg[k] \in Instruction
    BY <2>1, InstrsAssumption DEF Init
  <2>4. pc \in {"idle", "instructions", "actions", "returned"} /\ dangling \in BOOLEAN
    BY DEF Init
  <2>5. pos \in Nat \ {0}
    BY SMT DEF Init
  <2>6. arg \in Word /\ sig \subseteq Types
    BY Zenon DEF Init, Word
  <2> QED BY <2>2, <2>3, <2>4, <2>5, <2>6 DEF TypeOK
<1>2. NoActions
  BY DEF Init, NoActions, NoWords, Types
<1> QED BY <1>1, <1>2 DEF Init, PInv

(***************************************************************************)
(* parse_instructions                                                      *)
(***************************************************************************)
\* An instruction that is not a list of actions, at any position.
LEMMA InstructionKeeps ==
    ASSUME PInv, ParseInstruction
    PROVE  PInv'
<1>1. /\ pc = "instructions" /\ pos <= Len(msg) /\ ~ListFirst
      /\ NoActions
      /\ sig = IF pos = 1 THEN {} ELSE Bits(InstrType)
  BY DEF ParseInstruction, Iterating, ListFirst, PInv
<1>2. /\ msg # <<>> /\ Len(msg) \in Nat /\ pos \in Nat \ {0}
  BY <1>1 DEF PInv, TypeOK
<1>3. InstrType \in InstrTypes \ ActionInstrs
  BY <1>2, ListTyped DEF ParseInstruction
<1>4. InstrType \in Types \ {"SET_FIELD"} /\ InstrType \notin ActionTypes
  BY <1>3 DEF Types, InstrTypes, ArgInstrs, OtherInstrs, ActionInstrs, ActionTypes, WithArg, Bare
<1>5. /\ arg' = IF InstrType \in ArgInstrs THEN pos ELSE arg
      /\ aargs' = [aargs EXCEPT ![InstrType] = arg']
      /\ sig' = sig \cup Bits(InstrType)
      /\ pos' = pos + 1
      /\ UNCHANGED <<msg, pc, fields, dangling>>
  BY DEF ParseInstruction
<1>6. arg' \in Word
  BY <1>2, <1>5 DEF PInv, TypeOK, Word, Block
<1>7. aargs' \in [Types \ {"SET_FIELD"} -> Word \cup {NoKey}]
  BY <1>4, <1>5, <1>6 DEF PInv, TypeOK
<1>8. sig' = Bits(InstrType) /\ sig' \subseteq Types
  BY <1>1, <1>4, <1>5 DEF Bits
<1>9. TypeOK'
  BY <1>2, <1>5, <1>6, <1>7, <1>8 DEF PInv, TypeOK
<1>10. NoActions'
  <2>1. \A t \in ActionTypes \ {"SET_FIELD"} : aargs'[t] = aargs[t]
    BY <1>4, <1>5 DEF PInv, TypeOK, Types
  <2> QED BY <1>1, <1>5, <2>1 DEF NoActions
<1>11. InstrType' = InstrType /\ ListFirst' = ListFirst
  BY <1>5 DEF InstrType, ListFirst
<1> QED BY <1>1, <1>2, <1>5, <1>8, <1>9, <1>10, <1>11 DEF PInv

\* Nothing of the list has been seen when parse_actions begins.
LEMMA ListBegins ==
    ASSUME NEW t, NEW f
    PROVE  OfType(t, 1) = {} /\ SetsTo(f, 1) = {} /\ BitsTo(1) = {}
<1>1. 1 .. 1 - 1 = {}
  OBVIOUS
<1> QED BY <1>1 DEF OfType, SetsTo, BitsTo

\* parse_actions is called: nothing has been seen of the list yet.
LEMMA ActionsBegin ==
    ASSUME PInv, ParseActions
    PROVE  PInv'
<1>1. /\ pc = "instructions" /\ pos <= Len(msg) /\ NoActions
      /\ InstrType \in ActionInstrs
      /\ pc' = "actions" /\ pos' = 1 /\ arg' = Garbage
      /\ UNCHANGED <<msg, aargs, fields, dangling, sig>>
  BY DEF ParseActions, Iterating, PInv
<1>2. msg # <<>> /\ ListFirst
  BY <1>1 DEF PInv, TypeOK, ListFirst
<1>3. sig = {} /\ pos = 1
  BY <1>1, <1>2 DEF PInv
<1>4. TypeOK'
  BY <1>1 DEF PInv, TypeOK, Word
<1>5. InstrType' = InstrType /\ ListFirst' = ListFirst /\ List' = List
  BY <1>1 DEF InstrType, ListFirst, List
<1>6. Len(List) \in Nat
  BY <1>2, ListTyped
<1>7. /\ \A t : OfType(t, 1)' = {}
      /\ \A f : SetsTo(f, 1)' = {}
      /\ BitsTo(1)' = {}
  <2>1. 1 .. 1 - 1 = {}
    OBVIOUS
  <2> QED BY <2>1 DEF OfType, SetsTo, BitsTo
<1>8. ActionsSoFar'
  <2>1. \A t \in ActionTypes \ {"SET_FIELD"} : aargs'[t] = NoKey
    BY <1>1 DEF NoActions
  <2>2. ~dangling' /\ fields'["ANOTHER"] = NoKey /\ fields'["VLAN_VID"] = NoKey
    BY <1>1 DEF NoActions, NoFields, Fields
  <2>3. ~HasFields'
    BY <2>2 DEF HasFields, Fields
  <2>4. \A none : LatestOr({}, none) = none
    BY DEF LatestOr
  <2>5. WithArg \subseteq ActionTypes \ {"SET_FIELD"}
    BY DEF ActionTypes, WithArg
  <2> QED BY <1>1, <1>3, <1>7, <2>1, <2>2, <2>3, <2>4, <2>5 DEF ActionsSoFar
<1> QED BY <1>1, <1>2, <1>4, <1>5, <1>6, <1>8 DEF PInv

(***************************************************************************)
(* parse_actions: what every action does, then where its argument goes.    *)
(***************************************************************************)
\* What NextAction does, in the terms of the invariant.
LEMMA ActionFacts ==
    ASSUME PInv, NextAction
    PROVE  /\ pc = "actions" /\ ListFirst /\ pos \in Nat \ {0} /\ pos + 1 <= Len(List) + 1
           /\ This = List[pos] /\ This \in Action
           /\ arg' = parse_ofpat /\ arg' \in Word
           /\ sig' = BitsTo(pos + 1) /\ sig' \subseteq Types
           /\ pos' = pos + 1 /\ UNCHANGED <<msg, pc>>
           /\ List' = List /\ InstrType' = InstrType /\ ListFirst' = ListFirst
<1>1. /\ pc = "actions" /\ pos <= Len(List) /\ arg' = parse_ofpat
      /\ sig' = sig \cup Bits(This.type) /\ pos' = pos + 1 /\ UNCHANGED <<msg, pc>>
  BY DEF NextAction, Iterating
<1>2. /\ ListFirst /\ ActionsSoFar
      /\ pos \in Nat \ {0} /\ arg \in Word
  BY <1>1 DEF PInv, TypeOK
<1>3. List \in Seq(Action) /\ Len(List) \in Nat
  BY <1>2, ListTyped DEF ListFirst
<1>4. This = List[pos] /\ This \in Action
  BY <1>1, <1>2, <1>3 DEF This
<1>5. arg' \in Word
  BY <1>1, <1>2 DEF parse_ofpat, Word, Block
<1>6. sig' = BitsTo(pos + 1)
  BY <1>1, <1>2, <1>4, OneMore DEF ActionsSoFar
<1>7. sig' \subseteq Types
  BY <1>1, <1>4 DEF Bits, Action, Types, PInv, TypeOK
<1> QED BY <1>1, <1>2, <1>3, <1>4, <1>5, <1>6, <1>7 DEF List, InstrType, ListFirst

\* What the types in aargs have after an action, if it goes there.
LEMMA ArgsStep ==
    ASSUME PInv, NextAction,
           \A t \in ActionTypes \ {"SET_FIELD"} :
               aargs'[t] = IF This.type = t THEN arg' ELSE aargs[t]
    PROVE  /\ \A t \in WithArg : aargs'[t] = LatestOr(OfType(t, pos + 1), NoKey)
           /\ \A t \in ActionTypes \ {"SET_FIELD"} : aargs'[t] = NoKey <=> OfType(t, pos + 1) = {}
<1>1. /\ pos \in Nat \ {0} /\ This = List[pos] /\ arg' = parse_ofpat /\ arg' \in Word
      /\ ActionsSoFar
  BY ActionFacts DEF PInv
<1>2. /\ \A t : OfType(t, pos + 1) = IF This.type = t THEN OfType(t, pos) \cup {pos} ELSE OfType(t, pos)
      /\ \A t : Latest(OfType(t, pos) \cup {pos}) = pos
  BY <1>1, OneMore, LastOne
<1>3. ASSUME NEW t \in WithArg PROVE aargs'[t] = LatestOr(OfType(t, pos + 1), NoKey)
  <2>0. t \in ActionTypes \ {"SET_FIELD"}
    BY DEF ActionTypes, WithArg
  <2>1. CASE This.type = t
    <3>1. aargs'[t] = pos
      BY <1>1, <2>0, <2>1 DEF parse_ofpat
    <3> QED BY <1>2, <2>1, <3>1 DEF LatestOr
  <2>2. CASE This.type # t
    <3>1. aargs'[t] = LatestOr(OfType(t, pos), NoKey)
      BY <1>1, <2>0, <2>2 DEF ActionsSoFar
    <3> QED BY <1>2, <2>2, <3>1
  <2> QED BY <2>1, <2>2
<1>4. ASSUME NEW t \in ActionTypes \ {"SET_FIELD"}
      PROVE  aargs'[t] = NoKey <=> OfType(t, pos + 1) = {}
  <2>1. CASE This.type = t
    <3>1. aargs'[t] # NoKey
      BY <1>1, <2>1, WordAssumption
    <3> QED BY <1>2, <2>1, <3>1
  <2>2. CASE This.type # t
    <3>1. aargs'[t] = aargs[t] /\ OfType(t, pos + 1) = OfType(t, pos)
      BY <1>2, <2>2
    <3> QED BY <1>1, <3>1 DEF ActionsSoFar
  <2> QED BY <2>1, <2>2
<1> QED BY <1>3, <1>4

\* An action ends with the invariant if the set-fields do.
LEMMA ActionKeeps ==
    ASSUME PInv, NextAction,
           aargs' \in [Types \ {"SET_FIELD"} -> Word \cup {NoKey}],
           fields' \in [Fields -> Word \cup {NoKey}], dangling' \in BOOLEAN,
           \A t \in ActionTypes \ {"SET_FIELD"} :
               aargs'[t] = IF This.type = t THEN arg' ELSE aargs[t],
           HasFields' <=> This.type = "SET_FIELD" \/ HasFields,
           SetsTo("ANOTHER", pos + 1) = {} =>
               /\ ~dangling'
               /\ fields'["ANOTHER"] = NoKey
               /\ fields'["VLAN_VID"] = LatestOr(SetsTo("VLAN_VID", pos + 1), NoKey)
    PROVE  PInv'
<1>1. /\ pc = "actions" /\ ListFirst /\ pos \in Nat \ {0} /\ pos + 1 <= Len(List) + 1
      /\ arg' \in Word /\ This = List[pos]
      /\ sig' = BitsTo(pos + 1) /\ sig' \subseteq Types
      /\ pos' = pos + 1 /\ UNCHANGED <<msg, pc>>
      /\ List' = List /\ InstrType' = InstrType /\ ListFirst' = ListFirst
  BY ActionFacts
<1>2. TypeOK'
  BY <1>1 DEF PInv, TypeOK
<1>3. /\ \A t : OfType(t, pos)' = OfType(t, pos + 1)
      /\ \A f : SetsTo(f, pos)' = SetsTo(f, pos + 1)
      /\ BitsTo(pos)' = BitsTo(pos + 1)
  BY <1>1 DEF OfType, SetsTo, BitsTo
<1>4. HasFields' <=> OfType("SET_FIELD", pos + 1) # {}
  <2>1. HasFields <=> OfType("SET_FIELD", pos) # {}
    BY <1>1 DEF PInv, ActionsSoFar
  <2>2. OfType("SET_FIELD", pos + 1) =
            IF This.type = "SET_FIELD" THEN OfType("SET_FIELD", pos) \cup {pos}
            ELSE OfType("SET_FIELD", pos)
    BY <1>1, OneMore
  <2> QED BY <2>1, <2>2
<1>5. ActionsSoFar'
  BY <1>1, <1>3, <1>4, ArgsStep DEF ActionsSoFar
<1> QED BY <1>1, <1>2, <1>5 DEF PInv

\* An action that is not a set-field.
LEMMA StoreActionKeeps ==
    ASSUME PInv, StoreAction
    PROVE  PInv'
<1>1. /\ NextAction /\ This.type # "SET_FIELD"
      /\ aargs' = [aargs EXCEPT ![This.type] = arg']
      /\ UNCHANGED <<fields, dangling>>
  BY DEF StoreAction
<1>2. /\ pos \in Nat \ {0} /\ This = List[pos] /\ This \in Action /\ arg' \in Word
      /\ pc = "actions" /\ ActionsSoFar
  BY <1>1, ActionFacts DEF PInv
<1>3. /\ aargs \in [Types \ {"SET_FIELD"} -> Word \cup {NoKey}]
      /\ fields \in [Fields -> Word \cup {NoKey}] /\ dangling \in BOOLEAN
  BY DEF PInv, TypeOK
<1>4. aargs' \in [Types \ {"SET_FIELD"} -> Word \cup {NoKey}]
  BY <1>1, <1>2, <1>3
<1>5. \A t \in ActionTypes \ {"SET_FIELD"} :
          aargs'[t] = IF This.type = t THEN arg' ELSE aargs[t]
  BY <1>1, <1>3 DEF Types
<1>6. \A f : SetsTo(f, pos + 1) = SetsTo(f, pos)
  <2>1. \A f : ~SetsField(List[pos], f)
    BY <1>1, <1>2 DEF SetsField
  <2> QED BY <1>2, <2>1, OneMore
<1>7. SetsTo("ANOTHER", pos + 1) = {} =>
          /\ ~dangling'
          /\ fields'["ANOTHER"] = NoKey
          /\ fields'["VLAN_VID"] = LatestOr(SetsTo("VLAN_VID", pos + 1), NoKey)
  BY <1>1, <1>2, <1>6 DEF ActionsSoFar
<1>8. fields' \in [Fields -> Word \cup {NoKey}] /\ dangling' \in BOOLEAN
  BY <1>1, <1>3
<1>9. HasFields' <=> This.type = "SET_FIELD" \/ HasFields
  BY <1>1 DEF HasFields
<1> QED BY <1>1, <1>4, <1>5, <1>7, <1>8, <1>9, ActionKeeps

\* A set-field goes into no place of an action type.
LEMMA SetFieldFacts ==
    ASSUME PInv, NextAction, This.type = "SET_FIELD", UNCHANGED aargs
    PROVE  /\ aargs' \in [Types \ {"SET_FIELD"} -> Word \cup {NoKey}]
           /\ \A t \in ActionTypes \ {"SET_FIELD"} :
                  aargs'[t] = IF This.type = t THEN arg' ELSE aargs[t]
           /\ This.field \in Fields /\ arg' \in Word
           /\ This.field = "VLAN_VID" => arg' = pos
           /\ This.field = "ANOTHER" => SetsTo("ANOTHER", pos + 1) # {}
           /\ This.field = "VLAN_VID" =>
                  /\ SetsTo("ANOTHER", pos + 1) = SetsTo("ANOTHER", pos)
                  /\ LatestOr(SetsTo("VLAN_VID", pos + 1), NoKey) = pos
<1>1. /\ pos \in Nat \ {0} /\ This = List[pos] /\ This \in Action /\ arg' \in Word
      /\ arg' = parse_ofpat
  BY ActionFacts
<1>3. This.field \in Fields
  BY <1>1 DEF Action
<1>4. \A f : SetsTo(f, pos + 1) = IF This.field = f THEN SetsTo(f, pos) \cup {pos} ELSE SetsTo(f, pos)
  <2>1. \A f : SetsField(List[pos], f) <=> This.field = f
    BY <1>1 DEF SetsField
  <2> QED BY <1>1, <2>1, OneMore
<1>5. Latest(SetsTo("VLAN_VID", pos) \cup {pos}) = pos
  BY <1>1, LastOne
<1>6. This.field = "VLAN_VID" => LatestOr(SetsTo("VLAN_VID", pos + 1), NoKey) = pos
  BY <1>4, <1>5 DEF LatestOr
<1> QED BY <1>1, <1>3, <1>4, <1>6 DEF PInv, TypeOK, parse_ofpat

\* A set-field that finds its place, or makes the array.
LEMMA StoreFieldKeeps ==
    ASSUME PInv, StoreField
    PROVE  PInv'
<1>1. /\ NextAction /\ This.type = "SET_FIELD" /\ ~dangling
      /\ fields' = [fields EXCEPT ![This.field] = arg']
      /\ UNCHANGED <<aargs, dangling>>
  BY DEF StoreField
<1>2. /\ pc = "actions" /\ ActionsSoFar
  BY <1>1, ActionFacts DEF PInv
<1>3. fields \in [Fields -> Word \cup {NoKey}] /\ dangling \in BOOLEAN
  BY DEF PInv, TypeOK
<1>4. /\ This.field \in Fields /\ arg' \in Word
      /\ This.field = "VLAN_VID" => arg' = pos
  BY <1>1, SetFieldFacts
<1>5. fields' \in [Fields -> Word \cup {NoKey}] /\ dangling' \in BOOLEAN
  BY <1>1, <1>3, <1>4
<1>6. SetsTo("ANOTHER", pos + 1) = {} =>
          /\ ~dangling'
          /\ fields'["ANOTHER"] = NoKey
          /\ fields'["VLAN_VID"] = LatestOr(SetsTo("VLAN_VID", pos + 1), NoKey)
  <2> SUFFICES ASSUME SetsTo("ANOTHER", pos + 1) = {}
               PROVE  /\ ~dangling'
                      /\ fields'["ANOTHER"] = NoKey
                      /\ fields'["VLAN_VID"] = LatestOr(SetsTo("VLAN_VID", pos + 1), NoKey)
    OBVIOUS
  <2>1. This.field = "VLAN_VID"
    BY <1>1, <1>4, SetFieldFacts DEF Fields
  <2>2. /\ SetsTo("ANOTHER", pos) = {}
        /\ LatestOr(SetsTo("VLAN_VID", pos + 1), NoKey) = pos
    BY <1>1, <2>1, SetFieldFacts
  <2>3. fields["ANOTHER"] = NoKey
    BY <1>2, <2>2 DEF ActionsSoFar
  <2> QED BY <1>1, <1>3, <1>4, <2>1, <2>2, <2>3 DEF Fields
<1>7. HasFields'
  <2>1. fields'[This.field] # NoKey
    BY <1>1, <1>3, <1>4, WordAssumption
  <2> QED BY <1>4, <2>1 DEF HasFields
<1> QED BY <1>1, <1>5, <1>6, <1>7, SetFieldFacts, ActionKeeps

\* Only a field other than the vlan id can make the nested array move.
LEMMA LoseFieldsKeeps ==
    ASSUME PInv, LoseFields
    PROVE  PInv'
<1>1. /\ NextAction /\ This.type = "SET_FIELD"
      /\ dangling \/ (HasFields /\ fields[This.field] = NoKey)
      /\ fields' \in {fields, NoFields,
                      [fields EXCEPT ![This.field] = IF @ = NoKey THEN @ ELSE arg']}
      /\ dangling' = TRUE
      /\ UNCHANGED aargs
  BY DEF LoseFields
<1>2. pc = "actions" /\ ActionsSoFar
  BY <1>1, ActionFacts DEF PInv
<1>3. fields \in [Fields -> Word \cup {NoKey}]
  BY DEF PInv, TypeOK
<1>4. This.field \in Fields /\ arg' \in Word
  BY <1>1, SetFieldFacts
<1>5. fields' \in [Fields -> Word \cup {NoKey}]
  <2>1. NoFields \in [Fields -> Word \cup {NoKey}]
    BY DEF NoFields
  <2>2. [fields EXCEPT ![This.field] = IF @ = NoKey THEN @ ELSE arg'] \in [Fields -> Word \cup {NoKey}]
    BY <1>3, <1>4
  <2> QED BY <1>1, <1>3, <2>1, <2>2
<1>6. SetsTo("ANOTHER", pos + 1) # {}
  <2> SUFFICES ASSUME SetsTo("ANOTHER", pos + 1) = {} PROVE FALSE
    OBVIOUS
  <2>1. This.field = "VLAN_VID"
    BY <1>1, <1>4, SetFieldFacts DEF Fields
  <2>2. SetsTo("ANOTHER", pos) = {}
    BY <1>1, <2>1, SetFieldFacts
  <2>3. ~dangling /\ fields["ANOTHER"] = NoKey
    BY <1>2, <2>2 DEF ActionsSoFar
  <2>4. fields["VLAN_VID"] # NoKey
    BY <1>1, <2>3 DEF HasFields, Fields
  <2> QED BY <1>1, <2>1, <2>3, <2>4
<1>7. HasFields'
  BY <1>1 DEF HasFields
<1> QED BY <1>1, <1>5, <1>6, <1>7, SetFieldFacts, ActionKeeps

\* Every step keeps the invariant.
LEMMA ParserStep == PInv /\ [Next]_vars => PInv'
<1> SUFFICES ASSUME PInv, [Next]_vars PROVE PInv'
  OBVIOUS
<1>1. CASE Call
  <2>1. /\ pc = "idle" /\ pc' = "instructions"
        /\ UNCHANGED <<pos, arg, aargs, fields, dangling, sig>>
    BY <1>1 DEF Call
  <2>2. PICK n \in 0 .. MaxInstrs : \E m \in [1 .. n -> Instruction] : msg' = m
    BY <1>1 DEF Call
  <2>3. /\ n \in Nat /\ n <= MaxInstrs /\ msg' \in [1 .. n -> Instruction]
    BY <2>2, InstrsAssumption
  <2>4. msg' \in Seq(Instruction) /\ Len(msg') = n
    BY <2>3
  <2>5. TypeOK'
    BY <2>1, <2>3, <2>4 DEF PInv, TypeOK
  <2>6. NoActions' /\ pos' = 1 /\ sig' = {}
    BY <2>1 DEF PInv, NoActions
  <2> QED BY <2>1, <2>3, <2>4, <2>5, <2>6 DEF PInv
<1>2. CASE ParseInstruction
  BY <1>2, InstructionKeeps
<1>3. CASE ParseActions
  BY <1>3, ActionsBegin
<1>4. CASE StoreAction
  BY <1>4, StoreActionKeeps
<1>5. CASE StoreField
  BY <1>5, StoreFieldKeeps
<1>6. CASE LoseFields
  BY <1>6, LoseFieldsKeeps
<1>7. CASE Return
  <2>1. /\ \/ pc = "instructions" /\ pos > Len(msg)
           \/ pc = "actions" /\ pos > Len(List)
        /\ pc' = "returned"
        /\ UNCHANGED <<msg, pos, arg, aargs, fields, dangling, sig>>
    BY <1>7 DEF Return
  <2>2. /\ InstrType' = InstrType /\ ListFirst' = ListFirst /\ List' = List
        /\ NoActions' = NoActions
    BY <2>1 DEF InstrType, ListFirst, List, NoActions
  <2>3. ActionsSoFar' = ActionsSoFar
    BY <2>1 DEF ActionsSoFar, HasFields, OfType, SetsTo, BitsTo, List
  <2>4. TypeOK' /\ msg' \in Seq(Instruction)
    BY <2>1 DEF PInv, TypeOK
  <2>5. pos \in Nat \ {0} /\ Len(msg) \in Nat
    BY DEF PInv, TypeOK
  <2>6. CASE pc = "instructions" /\ pos > Len(msg)
    <3>1. NoActions /\ pos = Len(msg) + 1 /\ (ListFirst => pos = 1)
          /\ sig = IF pos = 1 THEN {} ELSE Bits(InstrType)
      BY <2>5, <2>6 DEF PInv
    <3>2. msg # <<>> => Len(msg) > 0
      BY DEF PInv
    <3>3. ~ListFirst /\ (msg # <<>> => sig = Bits(InstrType))
      BY <2>5, <3>1, <3>2 DEF ListFirst
    <3> QED BY <2>1, <2>2, <2>4, <3>1, <3>3 DEF PInv
  <2>7. CASE pc = "actions" /\ pos > Len(List)
    <3>1. ListFirst /\ pos <= Len(List) + 1 /\ ActionsSoFar
      BY <2>7 DEF PInv
    <3>2. Len(List) \in Nat
      BY <3>1, ListTyped DEF ListFirst
    <3>3. pos = Len(List) + 1
      BY <2>5, <2>7, <3>1, <3>2
    <3> QED BY <2>1, <2>2, <2>3, <2>4, <3>1, <3>3 DEF PInv
  <2> QED BY <2>1, <2>6, <2>7
<1>8. CASE Use
  <2>1. Init'
    BY <1>8 DEF Use, Init
  <2>2. Init' => PInv'
    BY ParserInit, PTL
  <2> QED BY <2>1, <2>2
<1>9. CASE UNCHANGED vars
  <2>1. UNCHANGED <<msg, pc, pos, arg, aargs, fields, dangling, sig>>
    BY <1>9 DEF vars
  <2>2. /\ InstrType' = InstrType /\ ListFirst' = ListFirst /\ List' = List
        /\ NoActions' = NoActions
    BY <2>1 DEF InstrType, ListFirst, List, NoActions
  <2>3. ActionsSoFar' = ActionsSoFar
    BY <2>1 DEF ActionsSoFar, HasFields, OfType, SetsTo, BitsTo, List
  <2>4. TypeOK'
    BY <2>1 DEF PInv, TypeOK
  <2> QED BY <2>1, <2>2, <2>3, <2>4 DEF PInv
<1> QED BY <1>1, <1>2, <1>3, <1>4, <1>5, <1>6, <1>7, <1>8, <1>9 DEF Next

\* The invariant holds of every behaviour.
LEMMA ParserInvariant == Spec => []PInv
BY ParserInit, ParserStep, PTL DEF Spec

\* No local variable and no word of the array leaves its type, in lists of any length.
THEOREM ParserTypes == Spec => []TypeOK
<1>1. PInv => TypeOK
  BY DEF PInv
<1> QED BY <1>1, ParserInvariant, PTL

\* What the invariant says when the parser returns, in the terms of the properties.
LEMMA ReturnedList ==
    ASSUME PInv, pc = "returned", ListFirst
    PROVE  /\ Parsed = List /\ DOMAIN List = 1 .. pos - 1 /\ ActionsSoFar
           /\ pos \in Nat \ {0}
<1>1. pos = Len(List) + 1 /\ ActionsSoFar
  BY DEF PInv
<1>2. List \in Seq(Action)
  BY ListTyped DEF ListFirst
<1>3. Len(List) \in Nat /\ DOMAIN List = 1 .. Len(List)
  BY <1>2
<1>4. DOMAIN List = 1 .. pos - 1 /\ pos \in Nat \ {0}
  BY <1>1, <1>3
<1> QED BY <1>1, <1>4 DEF Parsed, ListFirst

\* Without a list there is nothing to speak of.
LEMMA ReturnedNothing ==
    ASSUME PInv, pc = "returned", ~ListFirst
    PROVE  Parsed = <<>> /\ DOMAIN Parsed = {} /\ NoActions
<1>1. Parsed = <<>>
  BY DEF Parsed, ListFirst
<1>2. DOMAIN <<>> = {}
  OBVIOUS
<1> QED BY <1>1, <1>2 DEF PInv

\* The argument of a type is that of its last action, for lists of any length.
THEOREM ArgsAreOfLast == Spec => []ArgOfLastSuch
<1>1. PInv => ArgOfLastSuch
  <2> SUFFICES ASSUME PInv, pc = "returned", NEW t \in WithArg
               PROVE  aargs[t] = LatestOr({k \in DOMAIN Parsed : Parsed[k].type = t}, NoKey)
    BY DEF ArgOfLastSuch, Positions
  <2>1. CASE ListFirst
    <3>1. {k \in DOMAIN Parsed : Parsed[k].type = t} = OfType(t, pos)
      BY <2>1, ReturnedList DEF OfType
    <3> QED BY <2>1, <3>1, ReturnedList DEF ActionsSoFar
  <2>2. CASE ~ListFirst
    <3>1. {k \in DOMAIN Parsed : Parsed[k].type = t} = {}
      BY <2>2, ReturnedNothing
    <3>2. aargs[t] = NoKey
      BY <2>2, ReturnedNothing DEF NoActions, ActionTypes, WithArg
    <3> QED BY <3>1, <3>2 DEF LatestOr
  <2> QED BY <2>1, <2>2
<1> QED BY <1>1, ParserInvariant, PTL

\* Of a message that is a single list of actions, of any length, none of which is an
\* experimenter's: the bitmap has the types that are in the list, and the array has keys
\* for just these.
THEOREM SignatureIsOfList == Spec => []SignatureIfItFits
<1>1. PInv => SignatureIfItFits
  <2> SUFFICES ASSUME PInv, pc = "returned", Len(msg) = 1, InstrType \in ActionInstrs,
                      {k \in DOMAIN Parsed : Parsed[k].type = "EXPERIMENTER"} = {}
               PROVE  /\ sig = {List[k].type : k \in DOMAIN List}
                      /\ sig = {t \in ActionTypes : HasKey(t)}
    BY DEF SignatureIfItFits, Positions
  <2>1. ListFirst
    BY DEF ListFirst
  <2>2. /\ Parsed = List /\ DOMAIN List = 1 .. pos - 1 /\ ActionsSoFar
        /\ \A k \in 1 .. pos - 1 : List[k] \in Action
    <3>1. List \in Seq(Action)
      BY <2>1, ListTyped DEF ListFirst
    <3> QED BY <2>1, <3>1, ReturnedList
  <2>3. \A k \in 1 .. pos - 1 : Bits(List[k].type) = {List[k].type}
    <3>1. \A k \in 1 .. pos - 1 : List[k].type # "EXPERIMENTER" /\ List[k].type \in ActionTypes
      BY <2>2 DEF Action
    <3>2. "INSTR_EXPERIMENTER" \notin ActionTypes
      BY DEF ActionTypes, WithArg, Bare
    <3> QED BY <3>1, <3>2 DEF Bits
  <2>4. sig = {List[k].type : k \in DOMAIN List}
    <3>1. sig = UNION {Bits(List[k].type) : k \in 1 .. pos - 1}
      BY <2>2 DEF ActionsSoFar, BitsTo
    <3>2. \A t : t \in sig <=> \E k \in 1 .. pos - 1 : t \in Bits(List[k].type)
      BY <3>1
    <3>3. \A t : t \in sig <=> \E k \in 1 .. pos - 1 : t = List[k].type
      BY <2>3, <3>2
    <3> QED BY <2>2, <3>3
  <2>5. ASSUME NEW t \in ActionTypes
        PROVE  HasKey(t) <=> \E k \in DOMAIN List : List[k].type = t
    <3>1. HasKey(t) <=> OfType(t, pos) # {}
      BY <2>2 DEF HasKey, ActionsSoFar
    <3> QED BY <2>2, <3>1 DEF OfType
  <2>6. \A k \in DOMAIN List : List[k].type \in ActionTypes
    BY <2>2 DEF Action
  <2> QED BY <2>4, <2>5, <2>6
<1> QED BY <1>1, ParserInvariant, PTL

\* A list that sets no other field passes on the last vlan id it sets, for lists of any
\* length.
THEOREM VidIsOfLast == Spec => []VidOfLastSetField
<1>1. PInv => VidOfLastSetField
  <2> SUFFICES ASSUME PInv, pc = "returned",
                      {k \in DOMAIN Parsed : SetsField(Parsed[k], "ANOTHER")} = {}
               PROVE  /\ ~dangling
                      /\ fields["VLAN_VID"] =
                             LatestOr({k \in DOMAIN Parsed : SetsField(Parsed[k], "VLAN_VID")}, NoKey)
    BY DEF VidOfLastSetField, Positions
  <2>1. CASE ListFirst
    <3>1. \A f : {k \in DOMAIN Parsed : SetsField(Parsed[k], f)} = SetsTo(f, pos)
      BY <2>1, ReturnedList DEF SetsTo
    <3> QED BY <2>1, <3>1, ReturnedList DEF ActionsSoFar
  <2>2. CASE ~ListFirst
    <3>1. {k \in DOMAIN Parsed : SetsField(Parsed[k], "VLAN_VID")} = {}
      BY <2>2, ReturnedNothing
    <3>2. ~dangling /\ fields["VLAN_VID"] = NoKey
      BY <2>2, ReturnedNothing DEF NoActions, NoFields, Fields
    <3> QED BY <3>1, <3>2 DEF LatestOr
  <2> QED BY <2>1, <2>2
<1> QED BY <1>1, ParserInvariant, PTL

===============================================================================
