--------------------------- MODULE DiskStoreProofs ---------------------------
(* The disk cache for every set of keys, contents, callers, goroutines of  *)
(* touchMeta and validators.                                               *)
EXTENDS DiskStore, TLAPS

(* Who is in a part of a call that the lock covers holds it, a writer      *)
(* alone.                                                                  *)
WriterAlone ==
    /\ HoldersInside
    /\ \A p \in Callers :
         /\ op[p].pc \in Writing => writer = {p} /\ readers = {}
         /\ op[p].pc \in Reading => p \in readers /\ writer = {}

(* What a call has done so far.                                            *)
CallProgress ==
    \A p \in Callers :
        /\ op[p].pc \in {"openMeta", "writeMeta"} =>
             op[p].new # NoContent /\ data[op[p].key] = op[p].new
        /\ op[p].pc = "removeMeta" =>
             op[p].new = NoContent
        /\ op[p].pc \in {"rlock", "readData"} => op[p].new = NoContent
        /\ op[p].pc = "readData" => op[p].meta \in Contents

(* A goroutine of touchMeta was left by a Get that found data.             *)
TouchHasData ==
    \A t \in Touches :
        touch[t].pc # "idle" =>
            /\ touch[t].meta \in Contents
            /\ touch[t].key \notin removed => data[touch[t].key] # NoContent

(* The validators that a call has behind it accept what it writes.         *)
ValidatedSoFar ==
    \A p \in Callers :
        /\ op[p].pc = "validate" =>
             /\ op[p].new # NoContent
             /\ \A v \in op[p].kept \ op[p].todo : Accepts(v, op[p].key, op[p].new)
        /\ op[p].pc = "copy" => op[p].new # NoContent
        /\ op[p].pc \in {"wlock"} \union Writing /\ op[p].new # NoContent =>
             \A v \in op[p].kept : Accepts(v, op[p].key, op[p].new)

DiskInv ==
    /\ DiskTyped
    /\ WriterAlone
    /\ CallProgress
    /\ TouchHasData
    /\ ExistsHasData
    /\ ValidatedSoFar

LEMMA IdleTypes == NoOp \in Call /\ NoTouch \in TouchState /\ NoOp.pc = "idle"
                   /\ NoTouch.pc = "idle" /\ NoOp.kept = {}
<1>1. (CHOOSE k \in Keys : TRUE) \in Keys
  BY ValidatorsAssumption
<1> QED
  BY <1>1 DEF NoOp, NoTouch, Call, TouchState, OpPc, Stored

(* The special contents of a metadata file are no contents.                *)
LEMMA FileKinds ==
    /\ NoContent \notin Contents
    /\ Missing \notin Stored /\ Empty \notin Stored /\ Garbled \notin Stored
    /\ Empty # Missing /\ Garbled # Missing
  BY DiskAssumption DEF Missing, Empty, Garbled, Stored

LEMMA InitInv == DiskInit => DiskInv
  BY IdleTypes, DiskAssumption
  DEF DiskInit, DiskInv, DiskTyped, WriterAlone, HoldersInside, CallProgress, TouchHasData,
      ExistsHasData, ValidatedSoFar, Exists, MetaFile, Stored, NoAnswer, Answers, Writing, Reading

LEMMA TypeKept ==
    ASSUME DiskTyped, CallProgress, TouchHasData, [DiskNext]_diskVars
    PROVE  DiskTyped'
<1> USE DEF DiskTyped
<1> USE IdleTypes, DiskAssumption
<1>a. ASSUME NEW p \in Callers, NEW a \in Stored \union {"done", "refused"},
             NEW type \in Stored, Return(p, a, type)
      PROVE  op' \in [Callers -> Call] /\ answer' \in [Callers -> Answers]
  <2>1. [data |-> a, type |-> type] \in Answers
    BY DEF Answers
  <2> QED
    BY <1>a, <2>1 DEF Return
<1>b. ASSUME NEW p \in Callers, Refuse(p)
      PROVE  op' \in [Callers -> Call] /\ answer' \in [Callers -> Answers]
  BY <1>a, <1>b DEF Refuse, Stored
<1>c. ASSUME NEW p \in Callers, NEW pc \in OpPc, Move(p, pc)
      PROVE  op' \in [Callers -> Call]
  BY <1>c DEF Move, Call
<1>0. /\ NoContent \in Stored /\ Contents \subseteq Stored /\ Contents \subseteq MetaFile
      /\ {Missing, Empty, Garbled} \subseteq MetaFile
  BY DEF Stored, MetaFile
<1>1. ASSUME NEW p \in Callers, NEW k \in Keys, Calls(p, k) PROVE DiskTyped'
  <2>1. ASSUME NEW pc \in OpPc, NEW c \in Stored, Begin(p, pc, k, c) PROVE DiskTyped'
    <3>1. [NoOp EXCEPT !.pc = pc, !.key = k, !.new = c] \in Call
      BY DEF Call
    <3>2. NoAnswer \in Answers
      BY DEF NoAnswer, Stored, Answers
    <3> QED
      BY <2>1, <3>1, <3>2 DEF Begin, files, mu, RHold, Hold, RUnlock, Unlock
  <2> QED
    BY <1>0, <1>a, <1>b, <1>c, <1>1, <2>1 DEF Calls, Get, Set, Delete, SetWithValidation, OpPc
<1>2. ASSUME NEW p \in Callers, ReadMeta(p) PROVE DiskTyped'
  <2>1. CASE meta[op[p].key] \in Contents
    <3> DEFINE o == [op[p] EXCEPT !.pc = "readData", !.meta = meta[op[p].key]]
    <3>1. op[p] \in Call
      OBVIOUS
    <3>2. o \in Call
      BY <1>0, <2>1, <3>1 DEF Call, OpPc, Reading
    <3>3. op' = [op EXCEPT ![p] = o]
      BY <1>2, <2>1 DEF ReadMeta
    <3> HIDE DEF o
    <3> QED
      BY <1>2, <2>1, <3>2, <3>3 DEF ReadMeta, files, mu, RHold, Hold, RUnlock, Unlock
  <2>2. CASE meta[op[p].key] \notin Contents
    BY <1>0, <1>a, <1>b, <1>c, <1>2, <2>2 DEF ReadMeta, files, mu, RHold, Hold, RUnlock, Unlock
  <2> QED
    BY <2>1, <2>2
<1>3. ASSUME NEW p \in Callers, ReadData(p) PROVE DiskTyped'
  <2>1. op[p].key \in Keys /\ op[p].meta \in Stored /\ data[op[p].key] \in Stored
    BY DEF Call
  <2>2. CASE data[op[p].key] = NoContent
    BY <1>0, <1>a, <1>b, <1>c, <1>3, <2>2 DEF ReadData, files, mu, RHold, Hold, RUnlock, Unlock
  <2>3. CASE data[op[p].key] # NoContent
    <3>1. [pc |-> "open", key |-> op[p].key, meta |-> op[p].meta] \in TouchState
      BY <2>1 DEF TouchState
    <3>2. touch' \in [Touches -> TouchState]
      BY <1>3, <2>3, <3>1 DEF ReadData
    <3> QED
      BY <1>0, <1>a, <1>b, <1>c, <1>3, <2>1, <2>3, <3>2 DEF ReadData, files, mu, RHold, Hold, RUnlock, Unlock
  <2> QED
    BY <2>2, <2>3
<1>4. ASSUME NEW p \in Callers, CopyValidators(p) \/ Validate(p) PROVE DiskTyped'
  <2>1. op[p] \in Call
    OBVIOUS
  <2>2. CASE CopyValidators(p)
    <3> DEFINE o == [op[p] EXCEPT !.pc = "validate", !.todo = validators, !.kept = validators]
    <3>1. o \in Call
      BY <2>1 DEF Call, OpPc
    <3>2. op' = [op EXCEPT ![p] = o]
      BY <2>2 DEF CopyValidators
    <3> HIDE DEF o
    <3> QED
      BY <2>2, <3>1, <3>2 DEF CopyValidators, files, mu, RHold, Hold, RUnlock, Unlock
  <2>3. CASE Validate(p)
    <3>1. CASE op[p].todo = {} /\ Move(p, "wlock") /\ UNCHANGED answer
      BY <1>c, <2>3, <3>1 DEF Validate, files, mu, RHold, Hold, RUnlock, Unlock, OpPc
    <3>2. ASSUME NEW v \in op[p].todo,
                 op' = [op EXCEPT ![p].todo = @ \ {v}] /\ UNCHANGED answer
          PROVE  DiskTyped'
      <4> DEFINE o == [op[p] EXCEPT !.todo = op[p].todo \ {v}]
      <4>1. o \in Call
        BY <2>1 DEF Call
      <4>2. op' = [op EXCEPT ![p] = o]
        BY <3>2
      <4> HIDE DEF o
      <4> QED
        BY <2>3, <3>2, <4>1, <4>2 DEF Validate, files, mu, RHold, Hold, RUnlock, Unlock
    <3>3. CASE Refuse(p)
      BY <1>b, <2>3, <3>3 DEF Validate, files, mu, RHold, Hold, RUnlock, Unlock
    <3> QED
      BY <2>3, <3>1, <3>2, <3>3 DEF Validate
  <2> QED
    BY <1>4, <2>2, <2>3
<1>5. ASSUME NEW p \in Callers, Rename(p) \/ OpenMeta(p) \/ RemoveData(p) PROVE DiskTyped'
  <2>1. op[p].key \in Keys /\ op[p].new \in Stored
    BY DEF Call
  <2>2. {"openMeta", "writeMeta", "removeMeta"} \subseteq OpPc
    BY DEF OpPc, Writing
  <2> QED
    BY <1>0, <1>a, <1>b, <1>c, <1>5, <2>1, <2>2 DEF Rename, OpenMeta, RemoveData, Hold, mu
<1>6. ASSUME NEW p \in Callers, WriteMeta(p) PROVE DiskTyped'
  <2>1. op[p].key \in Keys /\ op[p].new \in Contents
    BY <1>6 DEF Call, WriteMeta, CallProgress, In, Stored
  <2>2. Written(op[p].key, op[p].new) \subseteq MetaFile
    BY <2>1 DEF Written, MetaFile
  <2> QED
    BY <1>0, <1>a, <1>b, <1>c, <1>6, <2>1, <2>2 DEF WriteMeta, Unlock
<1>7. ASSUME NEW p \in Callers, RemoveMeta(p) PROVE DiskTyped'
  <2>1. touch' \in [Touches -> TouchState]
    BY <1>7 DEF RemoveMeta, TouchState
  <2> QED
    BY <1>0, <1>a, <1>b, <1>c, <1>7, <2>1 DEF RemoveMeta, Unlock
<1>8. ASSUME NEW p \in Callers, WriteFails(p) PROVE DiskTyped'
  BY <1>0, <1>a, <1>b, <1>c, <1>8 DEF WriteFails, CanFail, Lock, In, files, mu, RHold, Hold, RUnlock, Unlock
<1>9. ASSUME NEW t \in Touches, Touch(t) PROVE DiskTyped'
  <2>1. touch[t].key \in Keys /\ touch[t].meta \in Stored
    BY DEF TouchState
  <2>2. CASE TouchOpen(t)
    BY <1>0, <1>a, <1>b, <1>c, <2>1, <2>2 DEF TouchOpen, TouchState, mu
  <2>3. CASE TouchWrite(t)
    <3>1. touch[t].meta \in Contents
      BY <2>3 DEF TouchWrite, TouchHasData
    <3>2. Written(touch[t].key, touch[t].meta) \subseteq MetaFile
      BY <3>1 DEF Written, MetaFile
    <3> QED
      BY <1>0, <1>a, <1>b, <1>c, <2>1, <2>3, <3>2 DEF TouchWrite, mu
  <2>4. CASE TouchUnlinked(t)
    BY <2>4 DEF TouchUnlinked, files, mu, RHold, Hold, RUnlock, Unlock
  <2> QED
    BY <1>9, <2>2, <2>3, <2>4 DEF Touch
<1>10. ASSUME NEW v \in Installable, AddValidator(v) \/ RemoveValidator(v) PROVE DiskTyped'
  <2>1. CASE AddValidator(v)
    BY <2>1 DEF AddValidator, files, mu, RHold, Hold, RUnlock, Unlock
  <2>2. CASE RemoveValidator(v)
    <3>1. \A p \in Callers : [op[p] EXCEPT !.kept = op[p].kept \ {v}] \in Call
      BY DEF Call
    <3>2. op' \in [Callers -> Call]
      BY <2>2, <3>1 DEF RemoveValidator
    <3> QED
      BY <2>2, <3>2 DEF RemoveValidator, files, mu, RHold, Hold, RUnlock, Unlock
  <2> QED
    BY <1>10, <2>1, <2>2
<1>11. CASE Crash
  BY <1>11 DEF Crash, files, mu, RHold, Hold, RUnlock, Unlock
<1>12. CASE UNCHANGED diskVars
  BY <1>12 DEF diskVars
<1> QED
  BY <1>1, <1>2, <1>3, <1>4, <1>5, <1>6, <1>7, <1>8, <1>9, <1>10, <1>11, <1>12
  DEF DiskNext, Step

(* How a call begins.                                                      *)
LEMMA Begins ==
    ASSUME DiskTyped, NEW p \in Callers, NEW k \in Keys, Calls(p, k)
    PROVE  /\ op[p].pc = "idle" /\ op'[p].pc \in {"rlock", "wlock", "copy"}
           /\ op'[p].key = k /\ op'[p].kept = {}
           /\ op'[p].pc = "rlock" => op'[p].new = NoContent
           /\ op'[p].pc = "copy" => op'[p].new # NoContent
           /\ \A q \in Callers : q # p => op'[q] = op[q]
           /\ UNCHANGED <<data, meta, touch, readers, writer, validators, removed>>
<1>1. ASSUME NEW pc \in {"rlock", "wlock", "copy"}, NEW c \in Stored, Begin(p, pc, k, c)
      PROVE  /\ op[p].pc = "idle" /\ op'[p].pc = pc /\ op'[p].key = k
             /\ op'[p].new = c /\ op'[p].kept = {}
             /\ \A q \in Callers : q # p => op'[q] = op[q]
             /\ UNCHANGED <<data, meta, touch, readers, writer, validators, removed>>
  BY <1>1 DEF DiskTyped, Begin, In, NoOp, files, mu, RHold, Hold, RUnlock, Unlock
<1>2. /\ NoContent \in Stored /\ Contents \subseteq Stored /\ NoContent \notin Contents
  BY FileKinds DEF Stored
<1>3. \/ Begin(p, "rlock", k, NoContent)
      \/ Begin(p, "wlock", k, NoContent)
      \/ \E c \in Contents : Begin(p, "wlock", k, c) \/ Begin(p, "copy", k, c)
  BY DEF Calls, Get, Set, Delete, SetWithValidation
<1> QED
  BY <1>1, <1>2, <1>3

(* A change of the list touches the calls in their history only.           *)
LEMMA ListChanges ==
    ASSUME DiskTyped, NEW v \in Installable, AddValidator(v) \/ RemoveValidator(v)
    PROVE  /\ UNCHANGED <<data, meta, touch, answer, readers, writer, removed>>
           /\ \A q \in Callers :
                /\ op'[q].pc = op[q].pc /\ op'[q].key = op[q].key
                /\ op'[q].new = op[q].new /\ op'[q].meta = op[q].meta
                /\ op'[q].todo = op[q].todo /\ op'[q].kept \subseteq op[q].kept
<1>1. CASE AddValidator(v)
  BY <1>1 DEF AddValidator, files, mu, RHold, Hold, RUnlock, Unlock
<1>2. CASE RemoveValidator(v)
  <2>1. \A q \in Callers : op'[q] = [op[q] EXCEPT !.kept = op[q].kept \ {v}]
    BY <1>2 DEF RemoveValidator
  <2>2. \A q \in Callers : op[q] \in Call
    BY DEF DiskTyped
  <2> QED
    BY <1>2, <2>1, <2>2 DEF RemoveValidator, files, mu, RHold, Hold, RUnlock, Unlock, Call
<1> QED
  BY <1>1, <1>2

(* The lock is taken when no writer holds it, and by a writer when no      *)
(* reader does either.                                                     *)
LEMMA AloneKept ==
    ASSUME DiskTyped, WriterAlone, [DiskNext]_diskVars
    PROVE  WriterAlone'
<1> USE IdleTypes DEF DiskTyped, WriterAlone, HoldersInside, Call, Writing, Reading
<1>1. ASSUME NEW p \in Callers, NEW k \in Keys, Calls(p, k) PROVE WriterAlone'
  BY <1>1, Begins
<1>2. ASSUME NEW p \in Callers, ReadMeta(p) PROVE WriterAlone'
  BY <1>2 DEF ReadMeta, Refuse, Return, RLock, In, files, mu, RHold, Hold, RUnlock, Unlock
<1>3. ASSUME NEW p \in Callers, ReadData(p) PROVE WriterAlone'
  BY <1>3 DEF ReadData, Refuse, Return, In, files, mu, RHold, Hold, RUnlock, Unlock
<1>4. ASSUME NEW p \in Callers, CopyValidators(p) PROVE WriterAlone'
  BY <1>4 DEF CopyValidators, In, files, mu, RHold, Hold, RUnlock, Unlock
<1>5. ASSUME NEW p \in Callers, Validate(p) PROVE WriterAlone'
  BY <1>5 DEF Validate, Refuse, Return, Move, In, files, mu, RHold, Hold, RUnlock, Unlock
<1>6. ASSUME NEW p \in Callers, Rename(p) PROVE WriterAlone'
  BY <1>6 DEF Rename, Lock, In, Move, Hold
<1>7. ASSUME NEW p \in Callers, OpenMeta(p) PROVE WriterAlone'
  BY <1>7 DEF OpenMeta, In, Move, mu
<1>8. ASSUME NEW p \in Callers, WriteMeta(p) PROVE WriterAlone'
  BY <1>8 DEF WriteMeta, In, Return, Unlock
<1>9. ASSUME NEW p \in Callers, RemoveData(p) PROVE WriterAlone'
  BY <1>9 DEF RemoveData, Lock, In, Move, Hold
<1>10. ASSUME NEW p \in Callers, RemoveMeta(p) PROVE WriterAlone'
  BY <1>10 DEF RemoveMeta, In, Return, Unlock
<1>11. ASSUME NEW p \in Callers, WriteFails(p) PROVE WriterAlone'
  BY <1>11 DEF WriteFails, CanFail, Lock, In, Refuse, Return, files, mu, RHold, Hold, RUnlock, Unlock
<1>12. ASSUME NEW t \in Touches, Touch(t) PROVE WriterAlone'
  BY <1>12 DEF Touch, TouchOpen, TouchWrite, TouchUnlinked, Written, files, mu, RHold, Hold, RUnlock, Unlock
<1>13. ASSUME NEW v \in Installable, AddValidator(v) \/ RemoveValidator(v) PROVE WriterAlone'
  BY <1>13, ListChanges
<1>14. CASE Crash
  BY <1>14 DEF Crash, files, mu, RHold, Hold, RUnlock, Unlock
<1>15. CASE UNCHANGED diskVars
  BY <1>15 DEF diskVars
<1> QED
  BY <1>1, <1>2, <1>3, <1>4, <1>5, <1>6, <1>7, <1>8, <1>9, <1>10, <1>11, <1>12, <1>13, <1>14, <1>15 DEF DiskNext, Step

(* While a write is under way nobody else changes the data file.           *)
LEMMA ProgressKept ==
    ASSUME DiskTyped, WriterAlone, CallProgress, [DiskNext]_diskVars
    PROVE  CallProgress'
<1> USE IdleTypes DEF DiskTyped, WriterAlone, CallProgress, Call, Writing, Reading, Stored
<1>1. ASSUME NEW p \in Callers, NEW k \in Keys, Calls(p, k) PROVE CallProgress'
  BY <1>1, Begins
<1>2. ASSUME NEW p \in Callers, ReadMeta(p) PROVE CallProgress'
  BY <1>2 DEF ReadMeta, Refuse, Return, RLock, In, files, mu, RHold, Hold, RUnlock, Unlock
<1>3. ASSUME NEW p \in Callers, ReadData(p) PROVE CallProgress'
  BY <1>3 DEF ReadData, Refuse, Return, In, files, mu, RHold, Hold, RUnlock, Unlock
<1>4. ASSUME NEW p \in Callers, CopyValidators(p) PROVE CallProgress'
  BY <1>4 DEF CopyValidators, In, files, mu, RHold, Hold, RUnlock, Unlock
<1>5. ASSUME NEW p \in Callers, Validate(p) PROVE CallProgress'
  BY <1>5 DEF Validate, Refuse, Return, Move, In, files, mu, RHold, Hold, RUnlock, Unlock
<1>6. ASSUME NEW p \in Callers, Rename(p) PROVE CallProgress'
  BY <1>6 DEF Rename, Lock, In, Move, Hold
<1>7. ASSUME NEW p \in Callers, OpenMeta(p) PROVE CallProgress'
  BY <1>7 DEF OpenMeta, In, Move, mu
<1>8. ASSUME NEW p \in Callers, WriteMeta(p) PROVE CallProgress'
  BY <1>8 DEF WriteMeta, In, Return, Unlock
<1>9. ASSUME NEW p \in Callers, RemoveData(p) PROVE CallProgress'
  BY <1>9 DEF RemoveData, Lock, In, Move, Hold
<1>10. ASSUME NEW p \in Callers, RemoveMeta(p) PROVE CallProgress'
  BY <1>10 DEF RemoveMeta, In, Return, Unlock
<1>11. ASSUME NEW p \in Callers, WriteFails(p) PROVE CallProgress'
  BY <1>11 DEF WriteFails, CanFail, Lock, In, Refuse, Return, files, mu, RHold, Hold, RUnlock, Unlock
<1>12. ASSUME NEW t \in Touches, Touch(t) PROVE CallProgress'
  BY <1>12 DEF Touch, TouchOpen, TouchWrite, TouchUnlinked, Written, files, mu, RHold, Hold, RUnlock, Unlock
<1>13. ASSUME NEW v \in Installable, AddValidator(v) \/ RemoveValidator(v) PROVE CallProgress'
  BY <1>13, ListChanges
<1>14. CASE Crash
  BY <1>14 DEF Crash, files, mu, RHold, Hold, RUnlock, Unlock
<1>15. CASE UNCHANGED diskVars
  BY <1>15 DEF diskVars
<1> QED
  BY <1>1, <1>2, <1>3, <1>4, <1>5, <1>6, <1>7, <1>8, <1>9, <1>10, <1>11, <1>12, <1>13, <1>14, <1>15 DEF DiskNext, Step

(* Only a removal takes the data away, and it is remembered.               *)
LEMMA TouchKept ==
    ASSUME DiskInv, [DiskNext]_diskVars
    PROVE  TouchHasData'
<1> USE IdleTypes DEF DiskTyped, TouchHasData, CallProgress, Stored, Call, DiskInv, TouchState
<1>1. ASSUME NEW p \in Callers, NEW k \in Keys, Calls(p, k) PROVE TouchHasData'
  BY <1>1, Begins
<1>2. ASSUME NEW p \in Callers, ReadMeta(p) PROVE TouchHasData'
  BY <1>2 DEF ReadMeta, Refuse, Return, RLock, In, files, mu, RHold, Hold, RUnlock, Unlock
<1>3. ASSUME NEW p \in Callers, ReadData(p) PROVE TouchHasData'
  BY <1>3 DEF ReadData, Refuse, Return, In, files, mu, RHold, Hold, RUnlock, Unlock
<1>4. ASSUME NEW p \in Callers, CopyValidators(p) PROVE TouchHasData'
  BY <1>4 DEF CopyValidators, In, files, mu, RHold, Hold, RUnlock, Unlock
<1>5. ASSUME NEW p \in Callers, Validate(p) PROVE TouchHasData'
  BY <1>5 DEF Validate, Refuse, Return, Move, In, files, mu, RHold, Hold, RUnlock, Unlock
<1>6. ASSUME NEW p \in Callers, Rename(p) PROVE TouchHasData'
  BY <1>6 DEF Rename, Lock, In, Move, Hold
<1>7. ASSUME NEW p \in Callers, OpenMeta(p) PROVE TouchHasData'
  BY <1>7 DEF OpenMeta, In, Move, mu
<1>8. ASSUME NEW p \in Callers, WriteMeta(p) PROVE TouchHasData'
  BY <1>8 DEF WriteMeta, In, Return, Unlock
<1>9. ASSUME NEW p \in Callers, RemoveData(p) PROVE TouchHasData'
  BY <1>9 DEF RemoveData, Lock, In, Move, Hold
<1>10. ASSUME NEW p \in Callers, RemoveMeta(p) PROVE TouchHasData'
  <2>1. /\ UNCHANGED <<data, removed>>
        /\ \/ touch' = [t \in Touches |->
                IF touch[t].pc = "write" /\ touch[t].key = op[p].key
                THEN [touch[t] EXCEPT !.pc = "unlinked"] ELSE touch[t]]
           \/ touch' = touch
    BY <1>10 DEF RemoveMeta
  <2>2. \A t \in Touches :
          /\ touch'[t].key = touch[t].key /\ touch'[t].meta = touch[t].meta
          /\ touch'[t].pc # "idle" => touch[t].pc # "idle"
    BY <2>1
  <2> QED
    BY <2>1, <2>2
<1>11. ASSUME NEW p \in Callers, WriteFails(p) PROVE TouchHasData'
  BY <1>11 DEF WriteFails, CanFail, Lock, In, Refuse, Return, files, mu, RHold, Hold, RUnlock, Unlock
<1>12. ASSUME NEW t \in Touches, Touch(t) PROVE TouchHasData'
  BY <1>12 DEF Touch, TouchOpen, TouchWrite, TouchUnlinked, Written, files, mu, RHold, Hold, RUnlock, Unlock
<1>13. ASSUME NEW v \in Installable, AddValidator(v) \/ RemoveValidator(v) PROVE TouchHasData'
  BY <1>13, ListChanges
<1>14. CASE Crash
  BY <1>14 DEF Crash, files, mu, RHold, Hold, RUnlock, Unlock
<1>15. CASE UNCHANGED diskVars
  BY <1>15 DEF diskVars
<1> QED
  BY <1>1, <1>2, <1>3, <1>4, <1>5, <1>6, <1>7, <1>8, <1>9, <1>10, <1>11, <1>12, <1>13, <1>14, <1>15 DEF DiskNext, Step

(* The metadata file is created after the data, or by a goroutine that a Get *)
(* with data left behind.                                                  *)
LEMMA ExistsKept ==
    ASSUME DiskInv, [DiskNext]_diskVars
    PROVE  ExistsHasData'
<1> USE IdleTypes DEF DiskTyped, TouchHasData, CallProgress, Call, DiskInv, TouchState, ExistsHasData, Exists
<1>1. ASSUME NEW p \in Callers, NEW k \in Keys, Calls(p, k) PROVE ExistsHasData'
  BY <1>1, Begins
<1>2. ASSUME NEW p \in Callers, ReadMeta(p) PROVE ExistsHasData'
  BY <1>2 DEF ReadMeta, Refuse, Return, RLock, In, files, mu, RHold, Hold, RUnlock, Unlock
<1>3. ASSUME NEW p \in Callers, ReadData(p) PROVE ExistsHasData'
  BY <1>3 DEF ReadData, Refuse, Return, In, files, mu, RHold, Hold, RUnlock, Unlock
<1>4. ASSUME NEW p \in Callers, CopyValidators(p) PROVE ExistsHasData'
  BY <1>4 DEF CopyValidators, In, files, mu, RHold, Hold, RUnlock, Unlock
<1>5. ASSUME NEW p \in Callers, Validate(p) PROVE ExistsHasData'
  BY <1>5 DEF Validate, Refuse, Return, Move, In, files, mu, RHold, Hold, RUnlock, Unlock
<1>6. ASSUME NEW p \in Callers, Rename(p) PROVE ExistsHasData'
  BY <1>6 DEF Rename, Lock, In, Move, Hold
<1>7. ASSUME NEW p \in Callers, OpenMeta(p) PROVE ExistsHasData'
  BY <1>7 DEF OpenMeta, In, Move, mu
<1>8. ASSUME NEW p \in Callers, WriteMeta(p) PROVE ExistsHasData'
  BY <1>8 DEF WriteMeta, In, Return, Unlock
<1>9. ASSUME NEW p \in Callers, RemoveData(p) PROVE ExistsHasData'
  BY <1>9 DEF RemoveData, Lock, In, Move, Hold
<1>10. ASSUME NEW p \in Callers, RemoveMeta(p) PROVE ExistsHasData'
  BY <1>10 DEF RemoveMeta, In, Return, Unlock
<1>11. ASSUME NEW p \in Callers, WriteFails(p) PROVE ExistsHasData'
  BY <1>11 DEF WriteFails, CanFail, Lock, In, Refuse, Return, files, mu, RHold, Hold, RUnlock, Unlock
<1>12. ASSUME NEW t \in Touches, Touch(t) PROVE ExistsHasData'
  BY <1>12 DEF Touch, TouchOpen, TouchWrite, TouchUnlinked, Written, files, mu, RHold, Hold, RUnlock, Unlock
<1>13. ASSUME NEW v \in Installable, AddValidator(v) \/ RemoveValidator(v) PROVE ExistsHasData'
  BY <1>13, ListChanges
<1>14. CASE Crash
  BY <1>14 DEF Crash, files, mu, RHold, Hold, RUnlock, Unlock
<1>15. CASE UNCHANGED diskVars
  BY <1>15 DEF diskVars
<1> QED
  BY <1>1, <1>2, <1>3, <1>4, <1>5, <1>6, <1>7, <1>8, <1>9, <1>10, <1>11, <1>12, <1>13, <1>14, <1>15 DEF DiskNext, Step

(* A validator leaves todo when it has accepted.                           *)
LEMMA ValidatedKept ==
    ASSUME DiskTyped, ValidatedSoFar, [DiskNext]_diskVars
    PROVE  ValidatedSoFar'
<1> USE IdleTypes DEF DiskTyped, ValidatedSoFar, Call, Writing
<1>1. ASSUME NEW p \in Callers, NEW k \in Keys, Calls(p, k) PROVE ValidatedSoFar'
  BY <1>1, Begins
<1>2. ASSUME NEW p \in Callers, ReadMeta(p) PROVE ValidatedSoFar'
  BY <1>2 DEF ReadMeta, Refuse, Return, RLock, In, files, mu, RHold, Hold, RUnlock, Unlock
<1>3. ASSUME NEW p \in Callers, ReadData(p) PROVE ValidatedSoFar'
  BY <1>3 DEF ReadData, Refuse, Return, In, files, mu, RHold, Hold, RUnlock, Unlock
<1>4. ASSUME NEW p \in Callers, CopyValidators(p) PROVE ValidatedSoFar'
  BY <1>4 DEF CopyValidators, In, files, mu, RHold, Hold, RUnlock, Unlock
<1>5. ASSUME NEW p \in Callers, Validate(p) PROVE ValidatedSoFar'
  <2>1. CASE Refuse(p)
    BY <1>5, <2>1 DEF Validate, Refuse, Return, files, mu, RHold, Hold, RUnlock, Unlock
  <2>2. CASE op[p].todo = {} /\ Move(p, "wlock")
    BY <1>5, <2>2 DEF Validate, Move, In, files, mu, RHold, Hold, RUnlock, Unlock
  <2>3. ASSUME NEW v \in op[p].todo, Accepts(v, op[p].key, op[p].new),
               op' = [op EXCEPT ![p].todo = @ \ {v}]
        PROVE  ValidatedSoFar'
    <3>1. op' = [op EXCEPT ![p] = [op[p] EXCEPT !.todo = op[p].todo \ {v}]]
      BY <2>3
    <3>2. op'[p] = [op[p] EXCEPT !.todo = op[p].todo \ {v}]
      BY <3>1
    <3>3. /\ op'[p].pc = "validate" /\ op'[p].new = op[p].new /\ op'[p].key = op[p].key
          /\ op'[p].kept = op[p].kept /\ op'[p].todo = op[p].todo \ {v}
      BY <1>5, <3>2 DEF Validate, In
    <3>4. \A w \in op[p].kept \ (op[p].todo \ {v}) : Accepts(w, op[p].key, op[p].new)
      BY <1>5, <2>3 DEF Validate, In
    <3> QED
      BY <1>5, <3>1, <3>3, <3>4 DEF Validate, In
  <2> QED
    BY <1>5, <2>1, <2>2, <2>3 DEF Validate
<1>6. ASSUME NEW p \in Callers, Rename(p) PROVE ValidatedSoFar'
  BY <1>6 DEF Rename, Lock, In, Move, Hold
<1>7. ASSUME NEW p \in Callers, OpenMeta(p) PROVE ValidatedSoFar'
  BY <1>7 DEF OpenMeta, In, Move, mu
<1>8. ASSUME NEW p \in Callers, WriteMeta(p) PROVE ValidatedSoFar'
  BY <1>8 DEF WriteMeta, In, Return, Unlock
<1>9. ASSUME NEW p \in Callers, RemoveData(p) PROVE ValidatedSoFar'
  BY <1>9 DEF RemoveData, Lock, In, Move, Hold
<1>10. ASSUME NEW p \in Callers, RemoveMeta(p) PROVE ValidatedSoFar'
  BY <1>10 DEF RemoveMeta, In, Return, Unlock
<1>11. ASSUME NEW p \in Callers, WriteFails(p) PROVE ValidatedSoFar'
  BY <1>11 DEF WriteFails, CanFail, Lock, In, Refuse, Return, files, mu, RHold, Hold, RUnlock, Unlock
<1>12. ASSUME NEW t \in Touches, Touch(t) PROVE ValidatedSoFar'
  BY <1>12 DEF Touch, TouchOpen, TouchWrite, TouchUnlinked, Written, files, mu, RHold, Hold, RUnlock, Unlock
<1>13. ASSUME NEW v \in Installable, AddValidator(v) \/ RemoveValidator(v) PROVE ValidatedSoFar'
  BY <1>13, ListChanges
<1>14. CASE Crash
  BY <1>14 DEF Crash, files, mu, RHold, Hold, RUnlock, Unlock
<1>15. CASE UNCHANGED diskVars
  BY <1>15 DEF diskVars
<1> QED
  BY <1>1, <1>2, <1>3, <1>4, <1>5, <1>6, <1>7, <1>8, <1>9, <1>10, <1>11, <1>12, <1>13, <1>14, <1>15 DEF DiskNext, Step

(* The types, the single holder of the lock, the progress of each call and *)
(* what the files of a key may hold at each of its steps hold in every     *)
(* state of Get, Set, SetWithValidation and Delete.                        *)
THEOREM DiskInvariant == DiskSpec => []DiskInv
<1>1. DiskInit => DiskInv
  BY InitInv
<1>2. DiskInv /\ [DiskNext]_diskVars => DiskInv'
  BY TypeKept, AloneKept, ProgressKept, TouchKept, ExistsKept, ValidatedKept DEF DiskInv
<1> QED
  BY <1>1, <1>2, PTL DEF DiskSpec

(* A key for which Exists answers yes, and that was never deleted, has its *)
(* data.                                                                   *)
THEOREM ExistsTruthful == DiskSpec => []ExistsHasData
<1>1. DiskInv => ExistsHasData
  BY DEF DiskInv
<1> QED
  BY <1>1, DiskInvariant, PTL

(* What SetWithValidation writes has passed the validators that stayed in  *)
(* the list.                                                               *)
THEOREM WritesAreValidated == DiskSpec => []ValidatedBeforeWrite
<1>1. DiskInv => ValidatedBeforeWrite
  BY DEF DiskInv, ValidatedSoFar, ValidatedBeforeWrite
<1> QED
  BY <1>1, DiskInvariant, PTL

(* The variables hold what DiskTypeOK says.                                *)
THEOREM DiskTypes == DiskSpec => []DiskTypeOK
<1>1. DiskInv => DiskTypeOK
  BY DEF DiskInv, WriterAlone, DiskTypeOK
<1> QED
  BY <1>1, DiskInvariant, PTL

-----------------------------------------------------------------------------
(* The store is a BlobCache.                                               *)

calls == [p \in Callers |-> Asked(p)]
answers == [p \in Callers |-> answer[p].data]

LEMMA Returns ==
    ASSUME DiskTyped, NEW p \in Callers, op[p].pc # "idle",
           NEW a \in Stored \union {"done", "refused"}, NEW type \in Stored, Return(p, a, type)
    PROVE  /\ calls[p] # Blob!NoCall
           /\ calls' = [calls EXCEPT ![p] = Blob!NoCall]
           /\ answers' = [answers EXCEPT ![p] = a]
<1>1. Asked(p).kind # "none"
  BY DEF Asked
<1>2. Asked(p)' = [kind |-> "none"]
  BY IdleTypes DEF Return, Asked, DiskTyped
<1>3. \A q \in Callers : q # p => Asked(q)' = Asked(q)
  BY DEF Return, Asked, DiskTyped
<1>4. \A q \in Callers : answer'[q].data = IF q = p THEN a ELSE answer[q].data
  BY DEF Return, DiskTyped
<1>5. calls[p] # Blob!NoCall
  BY <1>1 DEF calls, Blob!NoCall
<1>6. calls' = [calls EXCEPT ![p] = Blob!NoCall]
  BY <1>2, <1>3 DEF calls, Blob!NoCall
<1>7. answers' = [answers EXCEPT ![p] = a]
  BY <1>4 DEF answers
<1> QED
  BY <1>5, <1>6, <1>7

(* A step that leaves the calls, the data and the answers alone.           *)
LEMMA Stutters ==
    ASSUME \A p \in Callers :
             Asked(p)' = Asked(p) /\ answer'[p].data = answer[p].data,
           UNCHANGED data
    PROVE  UNCHANGED Blob!blobVars
<1>1. calls' = calls /\ answers' = answers
  BY DEF calls, answers
<1> QED
  BY <1>1 DEF Blob!blobVars, calls, answers

LEMMA InitRefines == DiskInit => Blob!BlobInit
  BY IdleTypes DEF DiskInit, Blob!BlobInit, Blob!NoCall, Asked, NoAnswer, Blob!Refused

LEMMA StepRefines ==
    ASSUME DiskInv, [DiskNext]_diskVars
    PROVE  [Blob!BlobNext]_(Blob!blobVars)
<1> USE DEF DiskInv, DiskTyped, calls, answers
<1>0. /\ NoContent \in Stored /\ Contents \subseteq Stored
      /\ Stored = Contents \union {NoContent}
  BY DEF Stored
<1>1. ASSUME NEW p \in Callers, op[p].pc # "idle", Refuse(p), UNCHANGED data
      PROVE  Blob!BlobNext
  <2>1. Blob!Refuse(p)
    BY <1>0, <1>1, Returns DEF Refuse, Blob!Refuse, Blob!Answer, Blob!Refused
  <2> QED
    BY <2>1 DEF Blob!BlobNext
<1>2. ASSUME NEW p \in Callers, NEW k \in Keys, Calls(p, k) PROVE Blob!BlobNext
  <2>1. PICK pc \in {"rlock", "wlock", "copy"}, c \in Stored : Begin(p, pc, k, c)
    BY <1>0, <1>2 DEF Calls, Get, Set, Delete, SetWithValidation
  <2> DEFINE kind == IF pc = "rlock" THEN "get" ELSE "put"
  <2>2. Asked(p) = Blob!NoCall
    BY <2>1 DEF Begin, In, Asked, Blob!NoCall
  <2>3. Asked(p)' = Blob!Request(kind, k, c)
    <3>1. op'[p] = [NoOp EXCEPT !.pc = pc, !.key = k, !.new = c]
      BY <2>1 DEF Begin
    <3>2. op'[p].pc = pc /\ op'[p].key = k /\ op'[p].new = c
      BY <3>1 DEF NoOp
    <3> QED
      BY <3>2 DEF Asked, Blob!Request
  <2>4. \A q \in Callers : q # p => Asked(q)' = Asked(q)
    BY <2>1 DEF Begin, Asked
  <2>5. calls' = [calls EXCEPT ![p] = Blob!Request(kind, k, c)]
    BY <2>3, <2>4
  <2>6. answers' = [answers EXCEPT ![p] = Blob!Refused]
    BY <2>1 DEF Begin, NoAnswer, Blob!Refused
  <2>7. data' = data
    BY <2>1 DEF Begin, files, mu, RHold, Hold, RUnlock, Unlock
  <2>8. Blob!Ask(p, kind, k, c)
    BY <2>2, <2>5, <2>6, <2>7 DEF Blob!Ask
  <2> QED
    BY <1>0, <2>8 DEF Blob!BlobNext
<1>3. ASSUME NEW p \in Callers, ReadMeta(p) PROVE [Blob!BlobNext]_(Blob!blobVars)
  <2>1. CASE meta[op[p].key] \in Contents
    <3>1. op'[p].pc = "readData" /\ op[p].pc = "rlock" /\ op'[p].key = op[p].key
          /\ op'[p].new = op[p].new
      BY <1>3, <2>1 DEF ReadMeta, RLock, In, Call
    <3>2. \A q \in Callers : q # p => op'[q] = op[q]
      BY <1>3, <2>1 DEF ReadMeta
    <3> QED
      BY <1>3, <2>1, <3>1, <3>2, Stutters DEF ReadMeta, Asked, files, mu, RHold, Hold, RUnlock, Unlock
  <2>2. CASE Refuse(p)
    BY <1>1, <1>3, <2>2 DEF ReadMeta, RLock, In, files, mu, RHold, Hold, RUnlock, Unlock
  <2> QED
    BY <1>3, <2>1, <2>2 DEF ReadMeta
<1>4. ASSUME NEW p \in Callers, ReadData(p) PROVE Blob!BlobNext
  <2>1. /\ op[p].pc = "readData" /\ op[p].new = NoContent /\ data' = data
        /\ op[p].meta \in Stored /\ op[p].key \in Keys
    BY <1>4 DEF ReadData, In, files, mu, RHold, Hold, RUnlock, Unlock, CallProgress, Call
  <2>2. CASE data[op[p].key] = NoContent
    BY <1>1, <1>4, <2>1, <2>2 DEF ReadData
  <2>3. CASE data[op[p].key] # NoContent
    <3>1. Return(p, data[op[p].key], op[p].meta)
      BY <1>4, <2>3 DEF ReadData
    <3>2. Asked(p) = Blob!Request("get", op[p].key, NoContent)
      BY <2>1 DEF Asked, Blob!Request
    <3>3. Blob!Answer(p, data[op[p].key])
      BY <2>1, <3>1, Returns DEF Blob!Answer
    <3>4. Blob!Hit(p, op[p].key)
      BY <2>3, <3>2, <3>3 DEF Blob!Hit
    <3> QED
      BY <1>0, <2>1, <3>4 DEF Blob!BlobNext
  <2> QED
    BY <2>2, <2>3
<1>5. ASSUME NEW p \in Callers, NEW pc \in OpPc \ {"idle", "rlock", "readData"},
             op[p].pc \notin {"idle", "rlock", "readData"}, Move(p, pc)
      PROVE  \A q \in Callers : Asked(q)' = Asked(q)
  <2>1. op'[p].pc = pc /\ op'[p].key = op[p].key /\ op'[p].new = op[p].new
    BY <1>5 DEF Move, Call
  <2>2. \A q \in Callers : q # p => op'[q] = op[q]
    BY <1>5 DEF Move
  <2> QED
    BY <1>5, <2>1, <2>2 DEF Asked
<1>6. ASSUME NEW p \in Callers, CopyValidators(p) \/ Validate(p)
      PROVE  [Blob!BlobNext]_(Blob!blobVars)
  <2>1. CASE CopyValidators(p)
    <3>1. \A q \in Callers : Asked(q)' = Asked(q)
      BY <2>1 DEF CopyValidators, In, Asked, Call
    <3> QED
      BY <2>1, <3>1, Stutters DEF CopyValidators, files, mu, RHold, Hold, RUnlock, Unlock
  <2>2. CASE Validate(p)
    <3>1. op[p].pc = "validate" /\ data' = data
      BY <2>2 DEF Validate, In, files, mu, RHold, Hold, RUnlock, Unlock
    <3>2. CASE Move(p, "wlock") /\ UNCHANGED answer
      BY <1>5, <3>1, <3>2, Stutters DEF OpPc
    <3>3. ASSUME NEW v \in op[p].todo, op' = [op EXCEPT ![p].todo = @ \ {v}], UNCHANGED answer
          PROVE  UNCHANGED Blob!blobVars
      <4>1. \A q \in Callers : Asked(q)' = Asked(q)
        BY <3>3 DEF Asked, Call
      <4> QED
        BY <3>1, <3>3, <4>1, Stutters
    <3>4. CASE Refuse(p)
      BY <1>1, <3>1, <3>4
    <3> QED
      BY <2>2, <3>2, <3>3, <3>4 DEF Validate
  <2> QED
    BY <1>6, <2>1, <2>2
<1>7. ASSUME NEW p \in Callers, Rename(p) \/ RemoveData(p)
      PROVE  [Blob!BlobNext]_(Blob!blobVars)
  <2>1. /\ op[p].pc = "wlock" /\ op[p].key \in Keys /\ op[p].new \in Stored
        /\ data' = [data EXCEPT ![op[p].key] = op[p].new] \/ data' = data
        /\ answer' = answer
        /\ Move(p, "openMeta") \/ Move(p, "removeMeta")
    BY <1>7 DEF Rename, RemoveData, Lock, In, Call
  <2>2. \A q \in Callers : Asked(q)' = Asked(q)
    BY <1>5, <2>1 DEF OpPc, Writing
  <2>3. Asked(p) = Blob!Request("put", op[p].key, op[p].new)
    BY <2>1 DEF Asked, Blob!Request
  <2>4. CASE data' = [data EXCEPT ![op[p].key] = op[p].new]
    <3>1. Blob!Replace(p, op[p].key, op[p].new)
      BY <2>1, <2>2, <2>3, <2>4 DEF Blob!Replace
    <3> QED
      BY <1>0, <2>1, <3>1 DEF Blob!BlobNext
  <2>5. CASE data' = data
    BY <2>1, <2>2, <2>5, Stutters
  <2> QED
    BY <2>1, <2>4, <2>5
<1>8. ASSUME NEW p \in Callers, OpenMeta(p) PROVE UNCHANGED Blob!blobVars
  <2>1. \A q \in Callers : Asked(q)' = Asked(q)
    BY <1>5, <1>8 DEF OpenMeta, In, OpPc, Writing
  <2> QED
    BY <1>8, <2>1, Stutters DEF OpenMeta
<1>9. ASSUME NEW p \in Callers, WriteMeta(p) \/ RemoveMeta(p) PROVE Blob!BlobNext
  <2>1. /\ op[p].pc \in {"writeMeta", "removeMeta"} /\ op[p].key \in Keys
        /\ op[p].new \in Stored /\ data' = data
        /\ op[p].new # NoContent => data[op[p].key] = op[p].new
        /\ Return(p, "done", NoContent)
    BY <1>9 DEF WriteMeta, RemoveMeta, In, Call, CallProgress
  <2>2. Asked(p) = Blob!Request("put", op[p].key, op[p].new)
    BY <2>1 DEF Asked, Blob!Request
  <2>3. Blob!Answer(p, Blob!Done)
    BY <1>0, <2>1, Returns DEF Blob!Answer, Blob!Done
  <2>4. Blob!Confirm(p, op[p].key, op[p].new)
    BY <2>1, <2>2, <2>3 DEF Blob!Confirm
  <2> QED
    BY <1>0, <2>1, <2>4 DEF Blob!BlobNext
<1>10. ASSUME NEW p \in Callers, WriteFails(p) PROVE Blob!BlobNext
  BY <1>1, <1>10 DEF WriteFails, CanFail, Lock, In, Lock, In, files, mu, RHold, Hold, RUnlock, Unlock
<1>11. ASSUME NEW t \in Touches, Touch(t) PROVE UNCHANGED Blob!blobVars
  BY <1>11, Stutters DEF Touch, TouchOpen, TouchWrite, TouchUnlinked, files, mu, RHold, Hold, RUnlock, Unlock, Asked
<1>12. ASSUME NEW v \in Installable, AddValidator(v) \/ RemoveValidator(v)
       PROVE  UNCHANGED Blob!blobVars
  <2>1. \A q \in Callers : Asked(q)' = Asked(q)
    BY <1>12, ListChanges DEF Asked
  <2> QED
    BY <1>12, <2>1, ListChanges, Stutters
<1>13. CASE Crash
  <2>1. \A q \in Callers : Asked(q)' = Blob!NoCall
    BY <1>13, IdleTypes DEF Crash, Asked, Blob!NoCall
  <2>2. Blob!Restart
    BY <1>13, <2>1 DEF Crash, files, mu, RHold, Hold, RUnlock, Unlock, Blob!Restart
  <2> QED
    BY <2>2 DEF Blob!BlobNext
<1>14. CASE UNCHANGED diskVars
  BY <1>14, Stutters DEF diskVars, Asked
<1> QED
  BY <1>2, <1>3, <1>4, <1>6, <1>7, <1>8, <1>9, <1>10, <1>11, <1>12, <1>13, <1>14
  DEF DiskNext, Step

(* Whatever interleaves, the disk store keeps the promise of a BlobCache.  *)
THEOREM DiskImplementsBlob == DiskSpec => BlobSpec
<1>1. DiskInit => Blob!BlobInit
  BY InitRefines
<1>2. DiskInv /\ [DiskNext]_diskVars => [Blob!BlobNext]_(Blob!blobVars)
  BY StepRefines
<1> QED
  BY <1>1, <1>2, DiskInvariant, PTL DEF DiskSpec, BlobSpec, Blob!BlobSpec
=============================================================================
