----------------------------- MODULE CInterface -----------------------------
(***************************************************************************)
(* The C interface (src/caliper/cali.cpp) and the Function and Loop        *)
(* objects of Annotation.cpp, as one thread uses them.  The by-id calls    *)
(* refuse a value whose type is not the attribute's, the by-name calls     *)
(* create the attribute with the type of the value if there is none yet,   *)
(* and a snapshot that was pulled can be searched for an attribute.        *)
(*                                                                         *)
(* path is the thread's blackboard entry for the attributes kept in the    *)
(* context tree, outermost first; slot holds the ones stored as a value.   *)
(***************************************************************************)
EXTENDS Integers, Sequences, SequencesExt, FiniteSets

CONSTANTS Names,        \* attribute names; "loop" is Caliper's own
          CTypes,       \* the types of values: "bool", "int", "string"
          MaxPath       \* bound on the values open at a time

VARIABLES attrs,   \* name -> [type, asvalue], type "inv" before it is created
          path, slot,
          loopObjs,  \* the levels of the Loop objects that are alive
          ret        \* the return value of the last call

ciVars == <<attrs, path, slot, loopObjs, ret>>

Invalid == [type |-> "inv", asvalue |-> FALSE]
LoopAttr == [type |-> "string", asvalue |-> FALSE]
AllNames == Names \cup {"loop"}
NoVal == [val |-> 0, type |-> "none"]
CiValues(type) == {[val |-> v, type |-> type] : v \in {1, 2}}

CiInit ==
  /\ attrs = [n \in AllNames |-> IF n = "loop" THEN LoopAttr ELSE Invalid]
  /\ path = <<>> /\ slot = [n \in AllNames |-> NoVal]
  /\ loopObjs = <<>> /\ ret = "SUCCESS"

---------------------------------------------------------------------------
(* Caliper::begin, end, set and get on one attribute. *)
CiOnPath(n) == {i \in 1..Len(path) : path[i].name = n}
Innermost(n) == CHOOSE i \in CiOnPath(n) : \A j \in CiOnPath(n) : j <= i
Value(n) == IF attrs[n].asvalue THEN slot[n].val
            ELSE IF CiOnPath(n) = {} THEN 0 ELSE path[Innermost(n)].val

Item(n, v) == [name |-> n, val |-> v.val, type |-> v.type]

DoBegin(n, v) ==
  /\ ret' = "SUCCESS"
  /\ IF attrs'[n].asvalue
       THEN slot' = [slot EXCEPT ![n] = v] /\ UNCHANGED path
       ELSE path' = Append(path, Item(n, v)) /\ UNCHANGED slot

DoSet(n, v) ==
  /\ ret' = "SUCCESS"
  /\ IF attrs'[n].asvalue
       THEN slot' = [slot EXCEPT ![n] = v] /\ UNCHANGED path
       ELSE /\ path' = IF CiOnPath(n) = {} THEN Append(path, Item(n, v))
                       ELSE Append(RemoveAt(path, Innermost(n)), Item(n, v))
            /\ UNCHANGED slot

DoEnd(n) ==
  \/ /\ attrs[n] = Invalid /\ ret' = "EINV" /\ UNCHANGED <<path, slot>>
  \/ /\ attrs[n] # Invalid /\ Value(n) = 0 /\ ret' = "ESTACK" /\ UNCHANGED <<path, slot>>
  \/ /\ attrs[n] # Invalid /\ Value(n) # 0 /\ ret' = "SUCCESS"
     /\ IF attrs[n].asvalue
          THEN slot' = [slot EXCEPT ![n] = NoVal] /\ UNCHANGED path
          ELSE path' = RemoveAt(path, Innermost(n)) /\ UNCHANGED slot

---------------------------------------------------------------------------
(* create_attribute returns the attribute of that name if there is one. *)
GetOrCreate(n, type, asvalue) ==
  attrs' = [attrs EXCEPT ![n] = IF @ = Invalid THEN [type |-> type, asvalue |-> asvalue] ELSE @]

CiCreateAttribute(n, type, asvalue) ==
  /\ GetOrCreate(n, type, asvalue) /\ ret' = "SUCCESS"
  /\ UNCHANGED <<path, slot, loopObjs>>

TypeMatches(n, type) == attrs[n].type = type

(* cali_begin, cali_begin_<type> and cali_set_<type>, with an attribute id. *)
ById(n, v) ==
  /\ Len(path) < MaxPath
  /\ UNCHANGED <<attrs, loopObjs>>
  /\ IF TypeMatches(n, v.type) THEN DoBegin(n, v) \/ DoSet(n, v)
     ELSE ret' = "ETYPE" /\ UNCHANGED <<path, slot>>

(* cali_begin_<type>_byname and cali_set_<type>_byname. *)
ByName(n, v) ==
  /\ Len(path) < MaxPath
  /\ GetOrCreate(n, v.type, FALSE) /\ UNCHANGED loopObjs
  /\ IF attrs'[n].type = v.type THEN DoBegin(n, v) \/ DoSet(n, v)
     ELSE /\ ret' = IF v.type = "bool" THEN "ETYPE" ELSE "EINV"
          /\ UNCHANGED <<path, slot>>

(* cali_set: the value is taken to be of the attribute's type. *)
SetRaw(n, v) ==
  /\ Len(path) < MaxPath /\ UNCHANGED <<attrs, loopObjs>>
  /\ IF attrs[n] = Invalid THEN ret' = "EINV" /\ UNCHANGED <<path, slot>>
     ELSE DoSet(n, [val |-> v, type |-> attrs[n].type])

(* cali_end and cali_end_byname. *)
EndAttr(n) == DoEnd(n) /\ UNCHANGED <<attrs, loopObjs>>

(* cali_safe_end_string: a mismatch is logged or reported, the value ended anyway. *)
SafeEnd(n) ==
  /\ ret' = IF TypeMatches(n, "string") /\ Value(n) # 0 THEN "SUCCESS" ELSE "ETYPE"
  /\ path' = IF CiOnPath(n) # {} THEN RemoveAt(path, Innermost(n)) ELSE path
  /\ slot' = [slot EXCEPT ![n] = NoVal]
  /\ UNCHANGED <<attrs, loopObjs>>

(* Loop::Loop opens a level, Loop::end closes it if it is open, and so does  *)
(* the destructor.                                                          *)
LoopBegin ==
  /\ Len(path) < MaxPath /\ Len(loopObjs) < MaxPath
  /\ UNCHANGED attrs /\ DoBegin("loop", [val |-> 1, type |-> "string"])
  /\ loopObjs' = Append(loopObjs, 1)

(* A defect: a loop may be ended at any level.                             *)
LoopLevelAny(level) == TRUE

LoopLevelOpen(level) == level > 0
CloseLevel ==
  IF LoopLevelOpen(Last(loopObjs)) THEN DoEnd("loop")
  ELSE ret' = "SUCCESS" /\ UNCHANGED <<path, slot>>

LoopEnd ==
  /\ loopObjs # <<>> /\ CloseLevel /\ UNCHANGED attrs
  /\ loopObjs' = Append(Front(loopObjs), 0)

LoopDelete ==
  /\ loopObjs # <<>> /\ CloseLevel /\ UNCHANGED attrs
  /\ loopObjs' = Front(loopObjs)

CiNext ==
  \/ \E n \in Names, type \in CTypes : \E asvalue \in BOOLEAN : CiCreateAttribute(n, type, asvalue)
  \/ \E n \in Names, type \in CTypes : \E v \in CiValues(type) :
       ById(n, v) \/ ByName(n, v)
  \/ \E n \in Names : EndAttr(n) \/ SafeEnd(n) \/ \E v \in {1, 2} : SetRaw(n, v)
  \/ LoopBegin \/ LoopEnd \/ LoopDelete

CiSpec == CiInit /\ [][CiNext]_ciVars

---------------------------------------------------------------------------
(* cali_pull_snapshot: the tree entry, then the entries stored as values.   *)
Immediates == SetToSeq({[name |-> n, val |-> slot[n].val] : n \in {m \in AllNames : slot[m] # NoVal}})
Pulled == (IF path = <<>> THEN <<>> ELSE <<path>>) \o [i \in 1..Len(Immediates) |-> <<Immediates[i]>>]

(* The pairs of an entry in the order of the node loop: leaf first. *)
PairsOf(entry) == Reverse(entry)

(* UnpackAttributeEntryOp: calls back for every match until one returns 0,  *)
(* here the limit-th.                                                       *)
VisitEntry(acc, entry, n, limit) ==
  IF Len(acc) >= limit THEN acc
  ELSE LET hits == SelectSeq(PairsOf(entry), LAMBDA p : p.name = n)
       IN  acc \o SubSeq(hits, 1, IF Len(hits) < limit - Len(acc) THEN Len(hits)
                                  ELSE limit - Len(acc))

FindAllInSnapshot(rec, n, limit) ==
  FoldLeft(LAMBDA acc, entry : VisitEntry(acc, entry, n, limit), <<>>, rec)

(* cali_find_first_in_snapshot: the first match from the leaf upwards. *)
FindFirstInSnapshot(rec, n) ==
  LET flat == FoldLeft(LAMBDA acc, entry : acc \o PairsOf(entry), <<>>, rec)
      hits == SelectSeq(flat, LAMBDA p : p.name = n)
  IN  IF hits = <<>> THEN 0 ELSE Head(hits).val

---------------------------------------------------------------------------
(* Whatever was called with whatever types, and whoever created the         *)
(* attribute, no value on the blackboard has a type other than that of its  *)
(* attribute: the calls of cali.cpp refuse the others.                      *)
ValuesTyped ==
  /\ \A i \in 1..Len(path) : path[i].type = attrs[path[i].name].type
  /\ \A n \in AllNames : slot[n] # NoVal => slot[n].type = attrs[n].type

(* Searching a pulled snapshot finds what cali_get returns, the innermost   *)
(* value; the first hit of find_all is that of find_first; and a callback   *)
(* that stops the search sees a prefix of what it would see without.        *)
SearchFindsInnermost ==
  \A n \in AllNames :
    LET all == FindAllInSnapshot(Pulled, n, Len(path) + 1) IN
    /\ FindFirstInSnapshot(Pulled, n) = Value(n)
    /\ (IF all = <<>> THEN 0 ELSE Head(all).val) = Value(n)
    /\ \A limit \in 1..Len(all) : FindAllInSnapshot(Pulled, n, limit) = SubSeq(all, 1, limit)

(* The open levels of loops on the blackboard are those of the Loop objects *)
(* that were not ended: end() followed by the destructor closes only one.   *)
LoopsClosedOnce ==
  Cardinality(CiOnPath("loop")) = Len(SelectSeq(loopObjs, LAMBDA level : level > 0))

(* Any sequence of calls through cali.cpp and the Loop objects leaves typed  *)
(* values, closes each level once, and snapshots in which searches find the  *)
(* innermost value.                                                          *)
CInterfaceSound == ValuesTyped /\ SearchFindsInnermost /\ LoopsClosedOnce
=============================================================================
