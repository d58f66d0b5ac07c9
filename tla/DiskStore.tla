------------------------------ MODULE DiskStore ------------------------------
(***************************************************************************)
(* The disk cache (core/store.go): two files per key, the data and its     *)
(* metadata, under one reader/writer lock that covers Get and the writes,  *)
(* but not the goroutine that Get leaves behind to rewrite the metadata,   *)
(* nor the validators.                                                     *)
(*                                                                         *)
(* A content stands for the bytes together with the content type they were *)
(* stored with; a metadata file names the content it describes.  The       *)
(* access times and counters, and Stats, which nobody reads, are left out. *)
(***************************************************************************)
EXTENDS Validators

CONSTANTS
    Callers,     \* goroutines that call the store
    Touches,     \* goroutines of touchMeta that may run at once (a bound)
    Installable  \* validators that AddValidator is called with

(* os.WriteFile truncates the file, then writes it: in between it is       *)
(* empty, and two writers at once may leave the end of the longer text     *)
(* behind the shorter one.                                                 *)
Missing == "missing"
Empty == "empty"
Garbled == "garbled"

ASSUME DiskAssumption ==
    /\ NoContent \notin Contents
    /\ {Missing, Empty, Garbled, "done", "refused"}
         \intersect (Contents \union {NoContent}) = {}
    /\ Installable \subseteq Kinds

VARIABLES
    data,        \* the .data file of each key
    meta,        \* the .meta file of each key
    op,          \* the call each goroutine is in
    touch,       \* the goroutines of touchMeta
    answer,      \* what the last call of each goroutine returned, until the next
    readers,     \* s.mu: the goroutines that hold it for reading
    writer,      \* s.mu: the goroutine that holds it for writing, if any
    validators,  \* s.validators
    removed      \* history: keys whose data Delete has removed

diskVars == <<data, meta, op, touch, answer, readers, writer, validators, removed>>
files == <<data, meta>>
mu == <<readers, writer>>

Stored == Contents \union {NoContent}
MetaFile == Contents \union {Missing, Empty, Garbled}

Reading == {"readData"}
Writing == {"openMeta", "writeMeta", "removeMeta"}
OpPc == {"idle", "rlock", "copy", "validate", "wlock"} \union Reading \union Writing
NoOp == [pc |-> "idle", key |-> CHOOSE k \in Keys : TRUE, new |-> NoContent,
         meta |-> NoContent, todo |-> {}, kept |-> {}]
Call == [pc : OpPc, key : Keys, new : Stored, meta : Stored,
         todo : SUBSET Installable, kept : SUBSET Installable]

NoTouch == [pc |-> "idle", key |-> CHOOSE k \in Keys : TRUE, meta |-> NoContent]
TouchState == [pc : {"idle", "open", "write", "unlinked"}, key : Keys, meta : Stored]

Answers == [data : Stored \union {"done", "refused"}, type : Stored]
NoAnswer == [data |-> "refused", type |-> NoContent]

DiskInit ==
    /\ data = [k \in Keys |-> NoContent]
    /\ meta = [k \in Keys |-> Missing]
    /\ op = [p \in Callers |-> NoOp]
    /\ touch = [t \in Touches |-> NoTouch]
    /\ answer = [p \in Callers |-> NoAnswer]
    /\ readers = {} /\ writer = {}
    /\ validators = {}
    /\ removed = {}

-----------------------------------------------------------------------------
(* The lock, and the steps of a call.                                      *)

In(p, pc) == op[p].pc = pc
Move(p, pc) == op' = [op EXCEPT ![p].pc = pc]

Begin(p, pc, k, c) ==
    /\ In(p, "idle")
    /\ op' = [op EXCEPT ![p] = [NoOp EXCEPT !.pc = pc, !.key = k, !.new = c]]
    /\ answer' = [answer EXCEPT ![p] = NoAnswer]
    /\ UNCHANGED <<files, touch, mu, validators, removed>>

Return(p, a, type) ==
    /\ op' = [op EXCEPT ![p] = NoOp]
    /\ answer' = [answer EXCEPT ![p] = [data |-> a, type |-> type]]

Refuse(p) == Return(p, "refused", NoContent)

(* What a file holds after the text of c is written at its beginning: the  *)
(* writer truncated it, but another may have written since.                *)
Written(k, c) == IF meta[k] = Empty THEN {c} ELSE {c, Garbled}

(* The lock is taken with the first step taken under it: until that step   *)
(* nobody can tell who holds it.  RHold and Hold keep it for the steps     *)
(* that follow; the step that ends the call releases it.                   *)
RLock(p) == In(p, "rlock") /\ writer = {}
LockShared(p) == In(p, "wlock")   \* a mutant: the write takes the read lock
Lock(p) == In(p, "wlock") /\ writer = {} /\ readers = {}

RHold(p) == readers' = readers \union {p} /\ UNCHANGED writer
Hold(p) == writer' = {p} /\ UNCHANGED readers
RUnlock(p) == readers' = readers \ {p} /\ UNCHANGED writer
Unlock(p) == writer' = writer \ {p} /\ UNCHANGED readers

-----------------------------------------------------------------------------
(* Get.                                                                    *)

(* store.go:127  s.mu.RLock                                                *)
Get(p, k) == Begin(p, "rlock", k, NoContent)

(* store.go:133-137, 305-315  a metadata file that is absent or does not   *)
(* parse is a miss.                                                        *)
ReadMeta(p) ==
    /\ RLock(p)
    /\ LET found == meta[op[p].key]
       IN IF found \in Contents
          THEN /\ op' = [op EXCEPT ![p].pc = "readData", ![p].meta = found]
               /\ RHold(p)
               /\ UNCHANGED answer
          ELSE Refuse(p) /\ UNCHANGED mu
    /\ UNCHANGED <<files, touch, validators, removed>>

(* store.go:139-149  the answer has the bytes of one file and the content  *)
(* type of the other; the metadata as it was read goes to a goroutine.     *)
ReadData(p) ==
    /\ In(p, "readData")
    /\ RUnlock(p)
    /\ IF data[op[p].key] = NoContent
       THEN Refuse(p) /\ UNCHANGED touch
       ELSE /\ Return(p, data[op[p].key], op[p].meta)
            /\ \E t \in Touches :
                 /\ touch[t].pc = "idle"
                 /\ touch' = [touch EXCEPT ![t] =
                      [pc |-> "open", key |-> op[p].key, meta |-> op[p].meta]]
    /\ UNCHANGED <<files, validators, removed>>

(* store.go:317-325  touchMeta, without the lock: truncate, then write.    *)
TouchOpen(t) ==
    /\ touch[t].pc = "open"
    /\ touch' = [touch EXCEPT ![t].pc = "write"]
    /\ meta' = [meta EXCEPT ![touch[t].key] = Empty]
    /\ UNCHANGED <<data, op, answer, mu, validators, removed>>

TouchWrite(t) ==
    /\ touch[t].pc = "write"
    /\ touch' = [touch EXCEPT ![t] = NoTouch]
    /\ \E c \in Written(touch[t].key, touch[t].meta) :
         meta' = [meta EXCEPT ![touch[t].key] = c]
    /\ UNCHANGED <<data, op, answer, mu, validators, removed>>

(* The file was removed under the open descriptor.                         *)
TouchUnlinked(t) ==
    /\ touch[t].pc = "unlinked"
    /\ touch' = [touch EXCEPT ![t] = NoTouch]
    /\ UNCHANGED <<files, op, answer, mu, validators, removed>>

-----------------------------------------------------------------------------
(* Set and SetWithValidation.                                              *)

(* store.go:152-154, 239-241                                               *)
Set(p, k, c) == Begin(p, "wlock", k, c)

(* store.go:180-184  the list of validators is copied under the lock.      *)
SetWithValidation(p, k, c) == Begin(p, "copy", k, c)

(* A mutant: make([]Validator, 0, n), into which copy copies nothing.      *)
CopyNothing(p) ==
    /\ In(p, "copy")
    /\ writer = {}
    /\ op' = [op EXCEPT ![p].pc = "validate", ![p].kept = validators]
    /\ UNCHANGED <<files, touch, answer, mu, validators, removed>>

CopyValidators(p) ==
    /\ In(p, "copy")
    /\ writer = {}
    /\ op' = [op EXCEPT ![p].pc = "validate", ![p].todo = validators,
                        ![p].kept = validators]
    /\ UNCHANGED <<files, touch, answer, mu, validators, removed>>

(* store.go:194-206  one validator after the other; the first that refuses *)
(* ends the call.                                                          *)
Validate(p) ==
    /\ In(p, "validate")
    /\ \/ /\ op[p].todo = {}
          /\ Move(p, "wlock")
          /\ UNCHANGED answer
       \/ \E v \in op[p].todo :
            IF Accepts(v, op[p].key, op[p].new)
            THEN op' = [op EXCEPT ![p].todo = @ \ {v}] /\ UNCHANGED answer
            ELSE Refuse(p)
    /\ UNCHANGED <<files, touch, mu, validators, removed>>

(* A mutant: the result of os.Rename is ignored.                           *)
RenameUnchecked(p) ==
    /\ Lock(p) /\ op[p].new # NoContent
    /\ Hold(p)
    /\ data' \in {data, [data EXCEPT ![op[p].key] = op[p].new]}
    /\ Move(p, "openMeta")
    /\ UNCHANGED <<meta, touch, answer, validators, removed>>

(* store.go:246-267  the bytes go to a temporary file that is renamed.     *)
Rename(p) ==
    /\ Lock(p) /\ op[p].new # NoContent
    /\ Hold(p)
    /\ data' = [data EXCEPT ![op[p].key] = op[p].new]
    /\ Move(p, "openMeta")
    /\ UNCHANGED <<meta, touch, answer, validators, removed>>

(* store.go:270-288  the metadata is written in place.                     *)
OpenMeta(p) ==
    /\ In(p, "openMeta")
    /\ meta' = [meta EXCEPT ![op[p].key] = Empty]
    /\ Move(p, "writeMeta")
    /\ UNCHANGED <<data, touch, answer, mu, validators, removed>>

WriteMeta(p) ==
    /\ In(p, "writeMeta")
    /\ \E c \in Written(op[p].key, op[p].new) :
         meta' = [meta EXCEPT ![op[p].key] = c]
    /\ Unlock(p)
    /\ Return(p, "done", NoContent)
    /\ UNCHANGED <<data, touch, validators, removed>>

(* store.go:246-288  any of the system calls fails: what is written stays, *)
(* and the deferred unlock releases the lock.                              *)
CanFail(p) ==
    \/ Lock(p) /\ op[p].new # NoContent
    \/ op[p].pc \in {"openMeta", "writeMeta"}

(* A mutant: no defer, and the return of an error forgets the unlock.      *)
WriteFailsLocked(p) ==
    /\ CanFail(p)
    /\ Refuse(p)
    /\ Hold(p)
    /\ UNCHANGED <<files, touch, validators, removed>>

WriteFails(p) ==
    /\ CanFail(p)
    /\ Refuse(p)
    /\ Unlock(p)
    /\ UNCHANGED <<files, touch, validators, removed>>

-----------------------------------------------------------------------------
(* Delete, Exists, and the list of validators.                             *)

(* store.go:156-164                                                        *)
Delete(p, k) == Begin(p, "wlock", k, NoContent)

(* store.go:161-163  what os.Remove returns is thrown away: either file may *)
(* stay, and the caller is told that all went well.                        *)
RemoveData(p) ==
    /\ Lock(p) /\ op[p].new = NoContent
    /\ \/ /\ data' = [data EXCEPT ![op[p].key] = NoContent]
          /\ removed' = removed \union {op[p].key}
       \/ UNCHANGED <<data, removed>>
    /\ Hold(p)
    /\ Move(p, "removeMeta")
    /\ UNCHANGED <<meta, touch, answer, validators>>

RemoveMeta(p) ==
    /\ In(p, "removeMeta")
    /\ \/ /\ meta' = [meta EXCEPT ![op[p].key] = Missing]
          /\ touch' = [t \in Touches |->
               IF touch[t].pc = "write" /\ touch[t].key = op[p].key
               THEN [touch[t] EXCEPT !.pc = "unlinked"] ELSE touch[t]]
       \/ UNCHANGED <<meta, touch>>
    /\ Unlock(p)
    /\ Return(p, "done", NoContent)
    /\ UNCHANGED <<data, validators, removed>>

(* store.go:166-170  no lock, and only the metadata file is looked at.     *)
Exists(k) == meta[k] # Missing

(* store.go:209-225  under the lock                                        *)
AddValidator(v) ==
    /\ writer = {} /\ readers = {}
    /\ v \notin validators
    /\ validators' = validators \union {v}
    /\ UNCHANGED <<files, op, touch, answer, mu, removed>>

(* kept: the validators that were in the list all through the call.        *)
RemoveValidator(v) ==
    /\ writer = {} /\ readers = {}
    /\ v \in validators
    /\ validators' = validators \ {v}
    /\ op' = [p \in Callers |-> [op[p] EXCEPT !.kept = @ \ {v}]]
    /\ UNCHANGED <<files, touch, answer, mu, removed>>

(* The process dies: the files stay as they are.                           *)
Crash ==
    /\ op' = [p \in Callers |-> NoOp]
    /\ touch' = [t \in Touches |-> NoTouch]
    /\ readers' = {} /\ writer' = {}
    /\ validators' = {}
    /\ UNCHANGED <<files, answer, removed>>

-----------------------------------------------------------------------------
Step(p) ==
    \/ ReadMeta(p) \/ ReadData(p)
    \/ CopyValidators(p) \/ Validate(p)
    \/ Rename(p) \/ OpenMeta(p) \/ WriteMeta(p)
    \/ RemoveData(p) \/ RemoveMeta(p)

Touch(t) == TouchOpen(t) \/ TouchWrite(t) \/ TouchUnlinked(t)

Calls(p, k) ==
    \/ Get(p, k)
    \/ Delete(p, k)
    \/ \E c \in Contents : Set(p, k, c) \/ SetWithValidation(p, k, c)

DiskNext ==
    \/ \E p \in Callers : Step(p) \/ WriteFails(p) \/ \E k \in Keys : Calls(p, k)
    \/ \E t \in Touches : Touch(t)
    \/ \E v \in Installable : AddValidator(v) \/ RemoveValidator(v)
    \/ Crash

DiskSpec == DiskInit /\ [][DiskNext]_diskVars

(* Goroutines run, and Go's lock lets neither readers nor writers starve:  *)
(* a goroutine that can often take it does.                                *)
FairDiskSpec ==
    /\ DiskSpec
    /\ \A p \in Callers : SF_diskVars(Step(p))
    /\ \A t \in Touches : WF_diskVars(Touch(t))

-----------------------------------------------------------------------------
(* Properties.                                                             *)

DiskTyped ==
    /\ data \in [Keys -> Stored]
    /\ meta \in [Keys -> MetaFile]
    /\ op \in [Callers -> Call]
    /\ touch \in [Touches -> TouchState]
    /\ answer \in [Callers -> Answers]
    /\ readers \subseteq Callers /\ writer \subseteq Callers
    /\ validators \subseteq Installable
    /\ removed \subseteq Keys

(* Who holds the lock is in the part of a call that it covers.             *)
HoldersInside ==
    /\ \A p \in readers : op[p].pc \in Reading
    /\ \A p \in writer : op[p].pc \in Writing

(* The types of the variables, and a lock that is held only from inside    *)
(* the calls: a return, whatever its cause, has released it.               *)
DiskTypeOK == DiskTyped /\ HoldersInside

(* The call of a goroutine as BlobCache sees it.                           *)
Asked(p) ==
    IF op[p].pc = "idle" THEN [kind |-> "none"]
    ELSE [kind |-> IF op[p].pc \in {"rlock", "readData"} THEN "get" ELSE "put",
          key |-> op[p].key, new |-> op[p].new]

Blob == INSTANCE BlobCache WITH
    content <- data,
    call <- [p \in Callers |-> Asked(p)],
    answer <- [p \in Callers |-> answer[p].data]

(* The store is a BlobCache: a hit returns the bytes that were stored      *)
(* last, whole, and a write that reports success found them in place,      *)
(* although readers, writers, the goroutines that rewrite the metadata,    *)
(* failures and crashes interleave.  The promise is about the bytes only,  *)
(* and a removal promises nothing but that it touches no other key.        *)
BlobSpec == Blob!BlobSpec

(* A key that was never deleted and for which Exists answers yes has its   *)
(* bytes: the metadata is never there first.                               *)
ExistsHasData == \A k \in Keys \ removed : Exists(k) => data[k] # NoContent

(* The bytes that SetWithValidation writes pass every validator that was   *)
(* in the list from the beginning of the call, although the list changes   *)
(* while the validators run outside the lock.                              *)
ValidatedBeforeWrite ==
    \A p \in Callers :
        op[p].pc \in Writing /\ op[p].new # NoContent =>
            \A v \in op[p].kept : Accepts(v, op[p].key, op[p].new)

(* Every call returns: no path through a call, those of the errors         *)
(* included, leaves with the lock, so nobody waits for it for ever.        *)
CallsReturn == \A p \in Callers : op[p].pc # "idle" ~> op[p].pc = "idle"

(* store.go:28 "Delete removes an entry": when a Delete is about to answer *)
(* that it is done, the bytes are gone.                                    *)
DeletedIsGone ==
    \A p \in Callers : op[p].pc = "removeMeta" => data[op[p].key] = NoContent

(* store.go:25 "Set stores data with its content-type": a hit returns the  *)
(* bytes with the type they were stored with.                              *)
HitHasItsType ==
    \A p \in Callers : answer[p].data \in Contents => answer[p].type = answer[p].data
=============================================================================
