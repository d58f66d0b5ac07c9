------------------------- MODULE ScanPipelineProofs -------------------------
(* The pipeline implements the store: whatever the hooks, the restart, the *)
(* re-evaluations and the administrators do, every step of theirs is one   *)
(* operation of the store or leaves it alone.  The invariants of the store *)
(* are hence invariants of the pipeline.                                   *)
EXTENDS ScanPipeline, QuarantineStoreProofs

(* What AutoApprove does to the store is a decision, or nothing.           *)
LEMMA AutoApproveIsDecision ==
    ASSUME NEW i, AutoApprove(i)
    PROVE  (\E k \in Keys : Decide(k)) \/ UNCHANGED storeVars
<1>1. CASE \E k \in RowOf(i) : Approve(k, "auto")
  <2>1. PICK k \in RowOf(i) : Approve(k, "auto")
    BY <1>1
  <2>2. k \in Keys
    BY DEF RowOf
  <2>3. Decide(k)
    BY <2>1 DEF Decide, Actor
  <2> QED
    BY <2>2, <2>3
<1>2. CASE UNCHANGED storeVars
  BY <1>2
<1> QED
  BY <1>1, <1>2 DEF AutoApprove

(* A hook starts, decides or leaves the store alone.                       *)
LEMMA HookStepImplements ==
    ASSUME NEW j \in Jobs, HookStep(j)
    PROVE  StoreNext \/ UNCHANGED storeVars
<1>1. CASE HookStart(j[1])
  <2>1. RunHook(j[1]) /\ j[1] \in launched
    BY <1>1 DEF HookStart, RunHook
  <2> QED
    BY <2>1 DEF StoreNext
<1>2. CASE HookApprove(j)
  BY <1>2, AutoApproveIsDecision DEF HookApprove, StoreNext
<1>3. CASE ResumedHookStart(j) \/ HookScan(j) \/ HookMark(j) \/ HookDecide(j) \/ HookNotify(j)
  BY <1>3 DEF ResumedHookStart, HookScan, HookMark, HookDecide, HookNotify
<1> QED
  BY <1>1, <1>2, <1>3 DEF HookStep, HookWork

(* A re-evaluation decides or leaves the store alone.                      *)
LEMMA RescanStepImplements ==
    ASSUME NEW r \in Rescans, RescanStep(r)
    PROVE  StoreNext \/ UNCHANGED storeVars
<1>1. CASE RescanApprove(r)
  BY <1>1, AutoApproveIsDecision DEF RescanApprove, StoreNext
<1>2. CASE RescanList(r) \/ RescanFindings(r) \/ RescanEvaluate(r) \/ RescanEnd(r)
  BY <1>2 DEF RescanList, RescanFindings, RescanEvaluate, RescanEnd
<1> QED
  BY <1>1, <1>2 DEF RescanStep

(* Every step of the pipeline maps to a step of the store or a stutter.    *)
LEMMA PipeStepImplements ==
    ASSUME [PipeNext]_allVars
    PROVE  [StoreNext]_storeVars
<1>1. CASE \E p \in Procs : ProxyEnqueue(p)
  BY <1>1 DEF ProxyEnqueue, StoreNext
<1>2. CASE \E j \in Jobs : HookStep(j)
  BY <1>2, HookStepImplements
<1>3. CASE \E r \in Rescans : RescanStep(r)
  BY <1>3, RescanStepImplements
<1>4. CASE \E k \in Keys : AdminDecide(k)
  <2>1. PICK k \in Keys : AdminDecide(k)
    BY <1>4
  <2>2. Decide(k)
    BY <2>1 DEF AdminDecide, Decide, Actor
  <2> QED
    BY <2>2 DEF StoreNext
<1>5. CASE Restart
  BY <1>5 DEF Restart, StoreNext
<1>6. CASE \/ ResumeList \/ ResumeLaunch \/ ToolReadsRule \/ ToolWritesRule
           \/ \E r \in Rescans : ChangeRules(r)
  BY <1>6 DEF ResumeList, ResumeLaunch, ToolReadsRule, ToolWritesRule, ChangeRules
<1>7. CASE UNCHANGED allVars
  BY <1>7 DEF allVars
<1> QED
  BY <1>1, <1>2, <1>3, <1>4, <1>5, <1>6, <1>7 DEF PipeNext, Background, HookStep

(* The pipeline implements the store (cmd/root.go and admin.go over        *)
(* core/quarantine.go).                                                    *)
THEOREM PipeImplementsStore == PipeSpec => StoreSpec
<1>1. PipeInit => StoreInit
  BY DEF PipeInit
<1>2. [PipeNext]_allVars => [StoreNext]_storeVars
  BY PipeStepImplements
<1> QED
  BY <1>1, <1>2, PTL DEF PipeSpec, StoreSpec

(* No automatic decision of the running pipeline gets round the human      *)
(* gate, whatever the interleaving of hooks, re-evaluations and crashes    *)
(* (root.go:571-580, admin.go:739-765).                                    *)
THEOREM PipeHumanGate == PipeSpec => []HumanGate
  BY PipeImplementsStore, HumanGateHolds, PTL

(* Nor does it approve an artifact without a recorded approval of it or of *)
(* one it belongs to.                                                      *)
THEOREM PipeApprovalHasSource == PipeSpec => []ApprovalHasSource
  BY PipeImplementsStore, ApprovalsHaveSources, PTL

-----------------------------------------------------------------------------
(* The shapes of the pipeline, and who scans what.  UnscannedIsOwned is    *)
(* strengthened by what a step needs to know of the ids it handles, and by *)
(* its counterpart for the requests that lost their row to a racing        *)
(* upsert: before the first crash somebody scans those, too.               *)

(* The ids of running hooks and of the list of the restart were issued.    *)
JobsAreIssued ==
    /\ \A j \in Jobs : job[j].pc # "none" => j[1] \in 1 .. nextId
    /\ \A req \in resume.todo : req.id \in 1 .. nextId
    /\ resume.pc = "list" => resume.todo = {}

AbsentHasNoId == \A k \in Keys : rows[k].status = "absent" => rows[k].id = NoId

(* A hook for i is launched, or has not finished its scan.                 *)
InHand(i) ==
    \/ i \in launched
    \/ \E l \in Launcher : job[<<i, l>>].pc \in {"start", "scan", "mark"}

IssuedIsOwned ==
    HasHook /\ crashes = 0 =>
        \A i \in 1 .. nextId : issued[i].key \in RootKeys /\ scan[i] # "done" => InHand(i)

PipeInv ==
    /\ StoreInv
    /\ PipeTypeOK
    /\ JobsAreIssued
    /\ AbsentHasNoId
    /\ UnscannedIsOwned
    /\ IssuedIsOwned

LEMMA PipeInitHasInv == PipeInit => PipeInv
<1> SUFFICES ASSUME PipeInit PROVE PipeInv
  OBVIOUS
<1>1. StoreInv
  BY InitHasInv DEF PipeInit
<1>2. PipeTypeOK
  BY <1>1, PipelineAssumption
  DEF PipeInit, PipeTypeOK, StoreInv, NoJob, JobState, NoRescan, RescanState
<1>3. JobsAreIssued /\ IssuedIsOwned
  BY BoundAssumption DEF PipeInit, StoreInit, JobsAreIssued, IssuedIsOwned, NoJob
<1>4. AbsentHasNoId /\ UnscannedIsOwned
  BY DEF PipeInit, StoreInit, AbsentHasNoId, UnscannedIsOwned, RootKeys, NoRow
<1> QED
  BY <1>1, <1>2, <1>3, <1>4 DEF PipeInv

-----------------------------------------------------------------------------
(* What the operations of the store mean to the pipeline.                  *)

(* Enqueue leaves a key alone, or gives it a new id; the request of a key  *)
(* that belongs to no other is pending and its hook launched.              *)
LEMMA EnqueueEffect ==
    ASSUME StoreInv, NEW p \in Procs, Enqueue(p)
    PROVE  /\ nextId \in Nat
           /\ launched \subseteq launched'
           /\ \/ UNCHANGED <<rows, issued, nextId>>
              \/ /\ nextId' = nextId + 1
                 /\ issued'[nextId'].key \in RootKeys /\ HasHook => nextId' \in launched'
                 /\ \A i \in 1 .. nextId : issued'[i] = issued[i]
                 /\ \A k \in Keys :
                      \/ rows'[k] = rows[k]
                      \/ /\ k = issued'[nextId'].key
                         /\ rows'[k].id = nextId' /\ rows'[k].status # "absent"
<1>1. nextId \in Nat
  BY BoundAssumption DEF StoreInv, StoreTypeOK, Ids
<1>2. CASE EnqueueInsert(p)
  <2> DEFINE art == enq[p].art
             status == enq[p].status
  <2>1. art \in Artifact /\ art.key \in Keys /\ status \in Live
    BY <1>2 DEF EnqueueInsert, StoreInv, StoreTypeOK, EnqueueState, Artifact
  <2>2. issued \in [1 .. nextId -> Artifact] /\ rows \in [Keys -> Row]
    BY DEF StoreInv, StoreTypeOK
  <2>3. /\ nextId' = nextId + 1
        /\ issued' = [i \in DOMAIN issued \union {nextId + 1} |->
                        IF i = nextId + 1 THEN art ELSE issued[i]]
        /\ rows' = [rows EXCEPT ![art.key] = Upsert(rows[art.key], nextId + 1, art, status)]
    BY <1>2 DEF EnqueueInsert
  <2>4. issued'[nextId'] = art /\ \A i \in 1 .. nextId : issued'[i] = issued[i]
    BY <1>1, <2>2, <2>3
  <2>5. /\ Upsert(rows[art.key], nextId + 1, art, status).id = nextId'
        /\ Upsert(rows[art.key], nextId + 1, art, status).status # "absent"
    BY <2>1, <2>2, <2>3 DEF Upsert, Row, Live
  <2>6. \A k \in Keys :
           \/ rows'[k] = rows[k]
           \/ k = art.key /\ rows'[k].id = nextId' /\ rows'[k].status # "absent"
    BY <2>1, <2>2, <2>3, <2>5
  <2>7. /\ launched \subseteq launched'
        /\ art.key \in RootKeys /\ HasHook => nextId' \in launched'
    BY <1>2, <2>3, RootNeverInherits DEF EnqueueInsert
  <2> QED
    BY <1>1, <2>3, <2>4, <2>6, <2>7
<1>3. CASE \/ \E k \in Keys : EnqueueExisting(p, k)
           \/ \E art \in Artifact : EnqueueLookup(p, art)
           \/ EnqueueParent(p)
  BY <1>1, <1>3 DEF EnqueueExisting, EnqueueLookup, EnqueueParent, storeVars
<1> QED
  BY <1>2, <1>3 DEF Enqueue

(* A decision changes statuses, never an id, and never removes a row.      *)
LEMMA DecideEffect ==
    ASSUME StoreInv, (\E k \in Keys : Decide(k)) \/ UNCHANGED storeVars
    PROVE  /\ UNCHANGED <<issued, nextId, enq, launched>>
           /\ \A k \in Keys : /\ rows'[k].id = rows[k].id
                              /\ rows'[k].status = "absent" <=> rows[k].status = "absent"
<1>1. rows \in [Keys -> Row] /\ \A k \in Keys : rows[k] \in Row
  BY DEF StoreInv, StoreTypeOK
<1>2. ASSUME NEW k \in Keys, rows[k].status # "absent",
             NEW s \in {"approved", "rejected"}, rows' = Decided(k, s)
      PROVE  \A c \in Keys : /\ rows'[c].id = rows[c].id
                             /\ rows'[c].status = "absent" <=> rows[c].status = "absent"
  BY <1>1, <1>2 DEF Decided, Row
<1>3. ASSUME NEW k \in Keys, rows[k].status # "absent",
             rows' = [rows EXCEPT ![k].status = "pending"]
      PROVE  \A c \in Keys : /\ rows'[c].id = rows[c].id
                             /\ rows'[c].status = "absent" <=> rows[c].status = "absent"
  BY <1>1, <1>3 DEF Row
<1>4. CASE \E k \in Keys : Decide(k)
  BY <1>2, <1>3, <1>4 DEF Decide, Approve, Reject, Revoke
<1>5. CASE UNCHANGED storeVars
  BY <1>5 DEF storeVars
<1> QED
  BY <1>4, <1>5

(* Steps that change no id, forget no hook before its scan is done, and    *)
(* leave the restart alone.                                                *)
LEMMA OwnersStay ==
    ASSUME PipeInv,
           UNCHANGED <<issued, nextId, resume, crashes>>,
           \A k \in Keys : /\ rows'[k].id = rows[k].id
                           /\ rows'[k].status = "absent" <=> rows[k].status = "absent",
           \A i \in Ids : scan'[i] # "done" =>
               /\ scan[i] # "done" \/ InHand(i)'
               /\ InHand(i) => InHand(i)'
    PROVE  AbsentHasNoId' /\ UnscannedIsOwned' /\ IssuedIsOwned'
<1>1. \A k \in Keys : rows[k].status # "absent" => rows[k].id \in Ids
  BY BoundAssumption DEF PipeInv, StoreInv, StoreTypeOK, IdNamesItsRow, Ids
<1>2. \A i \in 1 .. nextId : i \in Ids
  BY BoundAssumption DEF PipeInv, StoreInv, StoreTypeOK, Ids
<1>3. AbsentHasNoId'
  BY DEF PipeInv, AbsentHasNoId
<1>4. UnscannedIsOwned'
  <2> SUFFICES ASSUME NEW k \in Keys, k \in RootKeys, HasHook, rows'[k].status # "absent",
                      scan'[rows'[k].id] # "done"
               PROVE  ScanOwned(rows[k].id)'
    BY DEF UnscannedIsOwned, RootKeys, Above
  <2>1. PICK i \in Ids : i = rows[k].id /\ i = rows'[k].id
    BY <1>1
  <2>2. CASE InHand(i)'
    BY <2>1, <2>2 DEF InHand, ScanOwned
  <2>3. CASE scan[i] # "done" /\ ~ InHand(i)
    <3>1. ScanOwned(i)
      BY <1>1, <2>1, <2>3 DEF PipeInv, UnscannedIsOwned
    <3> QED
      BY <2>1, <2>3, <3>1 DEF InHand, ScanOwned
  <2> QED
    BY <2>1, <2>2, <2>3
<1>5. IssuedIsOwned'
  BY <1>2 DEF PipeInv, IssuedIsOwned, RootKeys, Above
<1> QED
  BY <1>3, <1>4, <1>5

-----------------------------------------------------------------------------
(* Each step of the pipeline keeps the invariant.                          *)

(* What every proof below needs to know of the present state.              *)
LEMMA PipeShapes ==
    ASSUME PipeInv
    PROVE  /\ job \in [Jobs -> JobState] /\ NoJob \in JobState
           /\ scan \in [Ids -> {"none", "scanning", "done"}]
           /\ nextId \in Nat
           /\ \A i \in 1 .. nextId : i \in Ids /\ issued[i] \in Artifact /\ issued[i].key \in Keys
           /\ \A i \in Ids, l \in Launcher : <<i, l>> \in Jobs
           /\ \A j \in Jobs : j[1] \in Ids /\ j[2] \in Launcher /\ j = <<j[1], j[2]>>
  BY BoundAssumption DEF PipeInv, StoreInv, StoreTypeOK, PipeTypeOK, Ids, Artifact, NoJob,
     JobState, Jobs, Launcher

(* A hook takes a step of its own: what it may do to itself and its scan.  *)
LEMMA HookMoves ==
    ASSUME PipeInv, StoreInv',
           NEW j \in Jobs, j[1] \in 1 .. nextId,
           NEW new \in JobState, job' = [job EXCEPT ![j] = new],
           NEW s \in {"none", "scanning", "done"}, scan' = [scan EXCEPT ![j[1]] = s],
           findings' \in [Ids -> SUBSET Vulns],
           UNCHANGED <<issued, nextId, ruleVars, resume, rescan, changes, crashes>>,
           \A k \in Keys : /\ rows'[k].id = rows[k].id
                           /\ rows'[k].status = "absent" <=> rows[k].status = "absent",
           launched' \subseteq launched, launched \subseteq launched' \union {j[1]},
           \/ s = "done"
           \/ new.pc \in {"start", "scan", "mark"}
           \/ /\ s = scan[j[1]] /\ launched' = launched
              /\ job[j].pc \notin {"start", "scan", "mark"}
    PROVE  PipeInv'
<1>1. /\ job \in [Jobs -> JobState] /\ scan \in [Ids -> {"none", "scanning", "done"}]
      /\ \A i \in Ids, l \in Launcher : <<i, l>> \in Jobs
      /\ j[1] \in Ids /\ j[2] \in Launcher /\ j = <<j[1], j[2]>>
  BY PipeShapes
<1>2. PipeTypeOK'
  BY <1>1 DEF PipeInv, PipeTypeOK, StoreInv, ruleVars
<1>3. JobsAreIssued'
  BY <1>1 DEF PipeInv, JobsAreIssued
<1>4. ASSUME NEW i \in Ids, scan'[i] # "done"
      PROVE  scan[i] # "done" \/ InHand(i)'
  <2>1. CASE i # j[1]
    BY <1>1, <1>4, <2>1
  <2>2. CASE i = j[1]
    <3>1. scan'[i] = s /\ job'[<<i, j[2]>>] = new
      BY <1>1, <2>2
    <3> QED
      BY <1>1, <1>4, <2>2, <3>1 DEF InHand
  <2> QED
    BY <2>1, <2>2
<1>5. ASSUME NEW i \in Ids, scan'[i] # "done", InHand(i)
      PROVE  InHand(i)'
  <2>1. CASE i # j[1]
    <3>1. \A l \in Launcher : job'[<<i, l>>] = job[<<i, l>>]
      BY <1>1, <2>1
    <3> QED
      BY <1>5, <2>1, <3>1 DEF InHand
  <2>2. CASE i = j[1] /\ new.pc \in {"start", "scan", "mark"}
    <3>1. job'[<<i, j[2]>>] = new
      BY <1>1, <2>2
    <3> QED
      BY <1>1, <2>2, <3>1 DEF InHand
  <2>3. CASE /\ i = j[1] /\ launched' = launched
             /\ job[j].pc \notin {"start", "scan", "mark"}
    <3>1. \A l \in Launcher : job[<<i, l>>].pc \in {"start", "scan", "mark"} =>
                                job'[<<i, l>>] = job[<<i, l>>]
      BY <1>1, <2>3
    <3> QED
      BY <1>5, <2>3, <3>1 DEF InHand
  <2> QED
    BY <1>1, <1>5, <2>1, <2>2, <2>3
<1>6. AbsentHasNoId' /\ UnscannedIsOwned' /\ IssuedIsOwned'
  BY <1>4, <1>5, OwnersStay
<1> QED
  BY <1>2, <1>3, <1>6 DEF PipeInv

LEMMA HookStartKeeps ==
    ASSUME PipeInv, StoreInv', NEW j \in Jobs, j[2] = "enqueue", HookStart(j[1])
    PROVE  PipeInv'
<1> DEFINE new == [pc |-> "scan", human |-> issued[j[1]].human, found |-> {}]
<1>1. j[1] \in 1 .. nextId
  BY DEF HookStart, RunHook, PipeInv, StoreInv, StoreTypeOK
<1>2. new \in JobState /\ job' = [job EXCEPT ![j] = new]
  BY <1>1, PipeShapes DEF HookStart, JobState, Artifact
<1>3. /\ scan' = [scan EXCEPT ![j[1]] = "scanning"]
      /\ UNCHANGED <<rows, issued, nextId, findings, ruleVars, resume, rescan, changes, crashes>>
      /\ launched' = launched \ {j[1]}
  BY DEF HookStart, RunHook
<1>4. findings' \in [Ids -> SUBSET Vulns]
  BY <1>3 DEF PipeInv, PipeTypeOK
<1>5. new.pc = "scan"
  OBVIOUS
<1> HIDE DEF new
<1> QED
  BY <1>1, <1>2, <1>3, <1>4, <1>5, HookMoves

LEMMA RunningHookKeeps ==
    ASSUME PipeInv, StoreInv', NEW j \in Jobs,
           ResumedHookStart(j) \/ HookScan(j) \/ HookMark(j) \/ HookDecide(j) \/ HookNotify(j)
    PROVE  PipeInv'
<1>1. /\ job[j] \in JobState /\ NoJob \in JobState
      /\ j[1] \in Ids /\ scan \in [Ids -> {"none", "scanning", "done"}]
      /\ scan[j[1]] \in {"none", "scanning", "done"}
      /\ scan = [scan EXCEPT ![j[1]] = scan[j[1]]]
      /\ findings \in [Ids -> SUBSET Vulns]
  BY PipeShapes DEF PipeInv, PipeTypeOK
<1>2. j[1] \in 1 .. nextId
  BY DEF ResumedHookStart, HookScan, HookMark, HookDecide, HookNotify, PipeInv, JobsAreIssued
<1>3. /\ UNCHANGED <<storeVars, ruleVars, resume, rescan, changes, crashes>>
      /\ UNCHANGED <<rows, issued, nextId, launched>>
  BY DEF ResumedHookStart, HookScan, HookMark, HookDecide, HookNotify, storeVars
<1>4. CASE ResumedHookStart(j)
  <2> DEFINE new == [job[j] EXCEPT !.pc = "scan"]
  <2>1. new \in JobState /\ new.pc = "scan" /\ job' = [job EXCEPT ![j] = new]
    BY <1>1, <1>4 DEF ResumedHookStart, SetPc, JobState
  <2> HIDE DEF new
  <2> QED
    BY <1>1, <1>2, <1>3, <1>4, <2>1, HookMoves DEF ResumedHookStart
<1>5. CASE HookMark(j)
  <2> DEFINE new == [job[j] EXCEPT !.pc = "decide"]
  <2>1. new \in JobState /\ job' = [job EXCEPT ![j] = new]
    BY <1>1, <1>5 DEF HookMark, SetPc, JobState
  <2> HIDE DEF new
  <2> QED
    BY <1>1, <1>2, <1>3, <1>5, <2>1, HookMoves DEF HookMark
<1>6. CASE HookScan(j)
  <2> DEFINE known == Known[issued[j[1]].key]
  <2>1. PICK found \in ScanResults(known) :
           /\ \E saved \in Saved(found) :
                findings' = [findings EXCEPT ![j[1]] = @ \union saved]
           /\ job' = [job EXCEPT ![j].pc = "mark", ![j].found = found]
    BY <1>6 DEF HookScan
  <2>2. known \subseteq Vulns
    BY <1>2, PipeShapes, PipelineAssumption
  <2>3. found \subseteq Vulns /\ \A saved \in Saved(found) : saved \subseteq Vulns
    BY <2>2 DEF ScanResults, Saved
  <2>4. findings' \in [Ids -> SUBSET Vulns]
    BY <1>1, <2>1, <2>3
  <2> DEFINE new == [job[j] EXCEPT !.pc = "mark", !.found = found]
  <2>5. new \in JobState /\ new.pc = "mark" /\ job' = [job EXCEPT ![j] = new]
    <3>1. new \in JobState /\ new.pc = "mark"
      BY <1>1, <2>3 DEF JobState
    <3>2. job \in [Jobs -> JobState]
      BY PipeShapes
    <3>3. job' \in [Jobs -> JobState] /\ job'[j] = new /\ \A o \in Jobs : o # j => job'[o] = job[o]
      BY <1>1, <2>1, <3>1, <3>2
    <3> QED
      BY <3>1, <3>2, <3>3
  <2>6. scan' = [scan EXCEPT ![j[1]] = scan[j[1]]]
    BY <1>1, <1>6 DEF HookScan
  <2> HIDE DEF new, known
  <2> QED
    BY <1>1, <1>2, <1>3, <2>4, <2>5, <2>6, HookMoves
<1>7. CASE HookDecide(j) \/ HookNotify(j)
  <2>1. PICK new \in JobState : job' = [job EXCEPT ![j] = new]
    BY <1>1, <1>7 DEF HookDecide, HookNotify, NoJob, JobState
  <2>2. /\ job[j].pc \notin {"start", "scan", "mark"}
        /\ scan' = [scan EXCEPT ![j[1]] = scan[j[1]]]
        /\ findings' = findings
    BY <1>1, <1>7 DEF HookDecide, HookNotify
  <2> QED
    BY <1>1, <1>2, <1>3, <2>1, <2>2, HookMoves
<1> QED
  BY <1>4, <1>5, <1>6, <1>7

LEMMA HookApproveKeeps ==
    ASSUME PipeInv, StoreInv', NEW j \in Jobs, HookApprove(j)
    PROVE  PipeInv'
<1>1. /\ job[j] \in JobState
      /\ scan[j[1]] \in {"none", "scanning", "done"}
      /\ scan = [scan EXCEPT ![j[1]] = scan[j[1]]]
      /\ findings \in [Ids -> SUBSET Vulns]
  BY PipeShapes DEF PipeInv, PipeTypeOK
<1>2. j[1] \in 1 .. nextId
  BY DEF HookApprove, PipeInv, JobsAreIssued
<1>3. /\ UNCHANGED <<issued, nextId, launched>>
      /\ \A k \in Keys : /\ rows'[k].id = rows[k].id
                         /\ rows'[k].status = "absent" <=> rows[k].status = "absent"
  BY AutoApproveIsDecision, DecideEffect DEF HookApprove, PipeInv
<1> DEFINE new == [job[j] EXCEPT !.pc = "notify"]
<1>4. new \in JobState /\ job' = [job EXCEPT ![j] = new]
  BY <1>1 DEF HookApprove, SetPc, JobState
<1>5. /\ job[j].pc \notin {"start", "scan", "mark"}
      /\ scan' = [scan EXCEPT ![j[1]] = scan[j[1]]]
      /\ UNCHANGED <<findings, ruleVars, resume, rescan, changes, crashes>>
  BY <1>1 DEF HookApprove
<1> HIDE DEF new
<1> QED
  BY <1>1, <1>2, <1>3, <1>4, <1>5, HookMoves

-----------------------------------------------------------------------------
(* The rules, the re-evaluations and the administrators scan nothing.      *)

LEMMA ToggledTwice ==
    ASSUME NEW rule \in Rule, NEW on \in BOOLEAN
    PROVE  Toggled(rule, on) \in Rule
<1>1. CASE rule \in Forms
  BY <1>1 DEF Rule
<1>2. CASE rule \notin Forms
  <2>1. PICK form \in Forms, was \in BOOLEAN : rule = Toggled(form, was)
    BY <1>2 DEF Rule
  <2>2. Toggled(rule, on) = Toggled(form, on)
    BY <2>1 DEF Toggled
  <2> QED
    BY <2>2 DEF Rule
<1> QED
  BY <1>1, <1>2

LEMMA TablesStay ==
    ASSUME NEW table \in Tables, NEW n \in RuleIds
    PROVE  /\ Deleted(table, n) \in Tables
           /\ \A form \in Forms : Created(table, n, form) \in Tables
           /\ \A rule \in Rule : Updated(table, n, rule) \in Tables
<1>1. \A form \in Forms : Stored(form) \in Rule
  <2>1. \A form \in Forms : Stored(form) = Toggled(form, TRUE)
    BY DEF Stored, Toggled
  <2>2. \A form \in Forms, on \in BOOLEAN : Toggled(form, on) \in Rule
    BY DEF Rule
  <2>3. TRUE \in BOOLEAN
    OBVIOUS
  <2> QED
    BY <2>1, <2>2, <2>3
<1> QED
  BY <1>1 DEF Tables, Deleted, Created, Updated

(* Steps that leave the hooks, their scans and the restart alone.          *)
LEMMA OthersKeepPipe ==
    ASSUME PipeInv, StoreInv',
           UNCHANGED <<scan, findings, job, resume, crashes>>,
           UNCHANGED <<issued, nextId, launched>>,
           \A k \in Keys : /\ rows'[k].id = rows[k].id
                           /\ rows'[k].status = "absent" <=> rows[k].status = "absent",
           rules' \in Tables,
           tool' \in [id : RuleIds, rule : Rule] \union {NoTool},
           rescan' \in [Rescans -> RescanState],
           changes' \in 0 .. MaxRules
    PROVE  PipeInv'
<1>1. PipeTypeOK'
  BY DEF PipeInv, PipeTypeOK, StoreInv
<1>2. JobsAreIssued'
  BY DEF PipeInv, JobsAreIssued
<1>3. \A i \in Ids : scan'[i] # "done" => scan[i] # "done" /\ (InHand(i) => InHand(i)')
  BY DEF InHand
<1>4. AbsentHasNoId' /\ UnscannedIsOwned' /\ IssuedIsOwned'
  BY <1>3, OwnersStay
<1> QED
  BY <1>1, <1>2, <1>4 DEF PipeInv

LEMMA RuleStepKeeps ==
    ASSUME PipeInv, StoreInv',
           ToolReadsRule \/ ToolWritesRule \/ \E r \in Rescans : ChangeRules(r)
    PROVE  PipeInv'
<1>1. /\ rules \in Tables /\ rescan \in [Rescans -> RescanState]
      /\ tool \in [id : RuleIds, rule : Rule] \union {NoTool}
      /\ changes \in 0 .. MaxRules /\ MaxRules \in Nat
  BY PipelineAssumption DEF PipeInv, PipeTypeOK
<1>2. /\ UNCHANGED <<storeVars, scan, findings, job, resume, crashes>>
      /\ UNCHANGED <<rows, issued, nextId, launched>>
  BY DEF ToolReadsRule, ToolWritesRule, ChangeRules, storeVars
<1>3. CASE ToolReadsRule
  <2>1. PICK n \in RuleIds, on \in BOOLEAN :
           rules[n] # NoRule /\ tool' = [id |-> n, rule |-> Toggled(rules[n], on)]
    BY <1>3 DEF ToolReadsRule
  <2>2. rules[n] \in Rule
    BY <1>1, <2>1 DEF Tables
  <2>3. tool' \in [id : RuleIds, rule : Rule]
    BY <2>1, <2>2, ToggledTwice
  <2>4. rules' = rules /\ rescan' = rescan /\ changes' \in 0 .. MaxRules
    BY <1>1, <1>3 DEF ToolReadsRule, MayChangeRules
  <2> QED
    BY <1>1, <1>2, <2>3, <2>4, OthersKeepPipe
<1>4. CASE ToolWritesRule
  <2>1. tool \in [id : RuleIds, rule : Rule] /\ rules' = Updated(rules, tool.id, tool.rule)
    BY <1>1, <1>4 DEF ToolWritesRule, UpdateRule
  <2>2. rules' \in Tables
    BY <1>1, <2>1, TablesStay
  <2>3. tool' = NoTool /\ rescan' = rescan /\ changes' = changes
    BY <1>4 DEF ToolWritesRule
  <2> QED
    BY <1>1, <1>2, <2>2, <2>3, OthersKeepPipe
<1>5. ASSUME NEW r \in Rescans, ChangeRules(r) PROVE PipeInv'
  <2>1. rules' \in Tables
    BY <1>1, <1>5, TablesStay DEF ChangeRules, DeleteRule, CreateRule, UpdateRule, Rule
  <2>2. rescan' \in [Rescans -> RescanState]
    BY <1>1, <1>5 DEF ChangeRules, RescanState
  <2>3. tool' = tool /\ changes' \in 0 .. MaxRules
    BY <1>1, <1>5 DEF ChangeRules, MayChangeRules
  <2> QED
    BY <1>1, <1>2, <2>1, <2>2, <2>3, OthersKeepPipe
<1> QED
  BY <1>3, <1>4, <1>5

LEMMA RescanStepKeeps ==
    ASSUME PipeInv, StoreInv', NEW r \in Rescans, RescanStep(r)
    PROVE  PipeInv'
<1>1. /\ rules \in Tables /\ rescan \in [Rescans -> RescanState] /\ rescan[r] \in RescanState
      /\ tool \in [id : RuleIds, rule : Rule] \union {NoTool}
      /\ changes \in 0 .. MaxRules /\ findings \in [Ids -> SUBSET Vulns]
  BY DEF PipeInv, PipeTypeOK
<1>2. UNCHANGED <<scan, findings, ruleVars, rules, tool, job, resume, changes, crashes>>
  BY DEF RescanStep, RescanList, RescanFindings, RescanEvaluate, RescanApprove, RescanEnd, ruleVars
<1>3. /\ UNCHANGED <<issued, nextId, launched>>
      /\ \A k \in Keys : /\ rows'[k].id = rows[k].id
                         /\ rows'[k].status = "absent" <=> rows[k].status = "absent"
  BY AutoApproveIsDecision, DecideEffect DEF PipeInv, RescanStep, RescanList, RescanFindings,
     RescanEvaluate, RescanApprove, RescanEnd
<1>4. rescan' \in [Rescans -> RescanState]
  <2>1. CASE RescanList(r)
    <3> DEFINE todo == {rows[k].id : k \in {x \in Keys : rows[x].status = "pending"}}
    <3>1. todo \subseteq Ids
      BY PipeShapes DEF PipeInv, StoreInv, IdNamesItsRow
    <3> HIDE DEF todo
    <3>2. rescan' = [rescan EXCEPT ![r].pc = "findings", ![r].todo = todo]
      BY <2>1 DEF RescanList, todo
    <3> QED
      BY <1>1, <3>1, <3>2 DEF RescanState
  <2>2. CASE RescanFindings(r)
    <3> DEFINE seen == [i \in Ids |-> IF i \in rescan[r].todo THEN findings[i] ELSE {}]
    <3>1. seen \in [Ids -> SUBSET Vulns]
      BY <1>1
    <3> HIDE DEF seen
    <3>2. rescan' = [rescan EXCEPT ![r].pc = "evaluate", ![r].seen = seen]
      BY <2>2 DEF RescanFindings, seen
    <3> QED
      BY <1>1, <3>1, <3>2 DEF RescanState
  <2>3. CASE RescanEvaluate(r) \/ RescanApprove(r) \/ RescanEnd(r)
    BY <1>1, <2>3 DEF RescanEvaluate, RescanApprove, RescanEnd, RescanState, NoRescan
  <2> QED
    BY <2>1, <2>2, <2>3 DEF RescanStep
<1> QED
  BY <1>1, <1>2, <1>3, <1>4, OthersKeepPipe

LEMMA AdminKeeps ==
    ASSUME PipeInv, StoreInv', NEW k \in Keys, AdminDecide(k)
    PROVE  PipeInv'
<1>1. Decide(k)
  BY DEF AdminDecide, Decide, Actor
<1>2. UNCHANGED <<scan, findings, rules, tool, job, resume, rescan, changes, crashes>>
  BY DEF AdminDecide, pipeVars, ruleVars
<1> QED
  BY <1>1, <1>2, DecideEffect, OthersKeepPipe DEF PipeInv, PipeTypeOK

-----------------------------------------------------------------------------
(* The steps that give an id away, take the list, or lose the hooks.       *)

LEMMA EnqueueKeepsPipe ==
    ASSUME PipeInv, StoreInv', NEW p \in Procs, Enqueue(p), UNCHANGED pipeVars
    PROVE  PipeInv'
<1>1. UNCHANGED <<scan, findings, rules, tool, job, resume, rescan, changes, crashes>>
  BY DEF pipeVars, ruleVars
<1>2. /\ nextId \in Nat
      /\ launched \subseteq launched'
      /\ \/ UNCHANGED <<rows, issued, nextId>>
         \/ /\ nextId' = nextId + 1
            /\ issued'[nextId'].key \in RootKeys /\ HasHook => nextId' \in launched'
            /\ \A i \in 1 .. nextId : issued'[i] = issued[i]
            /\ \A k \in Keys :
                 \/ rows'[k] = rows[k]
                 \/ /\ k = issued'[nextId'].key
                    /\ rows'[k].id = nextId' /\ rows'[k].status # "absent"
  BY EnqueueEffect DEF PipeInv
<1>3. nextId \in Nat /\ nextId' \in Nat /\ 1 .. nextId \subseteq 1 .. nextId'
      /\ (nextId' = nextId \/ 1 .. nextId' = 1 .. nextId \union {nextId'})
  BY <1>2
<1>4. PipeTypeOK'
  BY <1>1 DEF PipeInv, PipeTypeOK, StoreInv
<1>5. JobsAreIssued'
  BY <1>1, <1>3 DEF PipeInv, JobsAreIssued
<1>6. AbsentHasNoId'
  BY <1>2 DEF PipeInv, AbsentHasNoId
<1>7. ASSUME NEW i \in Ids, InHand(i) PROVE InHand(i)'
  BY <1>1, <1>2, <1>7 DEF InHand
<1>8. UnscannedIsOwned'
  <2> SUFFICES ASSUME NEW k \in Keys, k \in RootKeys, HasHook, rows'[k].status # "absent",
                      scan'[rows'[k].id] # "done"
               PROVE  ScanOwned(rows[k].id)'
    BY DEF UnscannedIsOwned, RootKeys, Above
  <2>1. CASE rows'[k] = rows[k]
    <3>1. ScanOwned(rows[k].id)
      BY <1>1, <2>1 DEF PipeInv, UnscannedIsOwned
    <3> QED
      BY <1>1, <1>2, <2>1, <3>1 DEF ScanOwned
  <2>2. CASE rows'[k] # rows[k]
    <3>1. rows'[k].id = nextId' /\ nextId' \in launched'
      BY <1>2, <2>2
    <3> QED
      BY <3>1 DEF ScanOwned
  <2> QED
    BY <2>1, <2>2
<1>9. IssuedIsOwned'
  <2> SUFFICES ASSUME HasHook, crashes' = 0, NEW i \in 1 .. nextId',
                      issued'[i].key \in RootKeys, scan'[i] # "done"
               PROVE  InHand(i)'
    BY DEF IssuedIsOwned, RootKeys, Above
  <2>1. CASE i \in 1 .. nextId
    <3>1. i \in Ids
      BY <2>1, PipeShapes
    <3>2. issued'[i] = issued[i]
      BY <1>2, <2>1
    <3>3. InHand(i)
      BY <1>1, <2>1, <3>2 DEF PipeInv, IssuedIsOwned
    <3> QED
      BY <1>7, <3>1, <3>3
  <2>2. CASE i \notin 1 .. nextId
    <3>1. i = nextId' /\ nextId' # nextId
      BY <1>3, <2>2
    <3>2. nextId' \in launched'
      BY <1>2, <3>1
    <3> QED
      BY <3>1, <3>2 DEF InHand
  <2> QED
    BY <2>1, <2>2
<1> QED
  BY <1>4, <1>5, <1>6, <1>8, <1>9 DEF PipeInv

(* Whatever is not scanned when the list is made is on the list.           *)
LEMMA ResumeListKeeps ==
    ASSUME PipeInv, StoreInv', ResumeList
    PROVE  PipeInv'
<1> DEFINE todo == {[id |-> rows[k].id, human |-> rows[k].human] :
                      k \in {x \in Keys : NeedsScan(x)}}
<1>1. resume' = [pc |-> "launch", todo |-> todo]
  BY DEF ResumeList
<1>2. /\ UNCHANGED <<scan, findings, rules, tool, job, rescan, changes, crashes>>
      /\ UNCHANGED <<rows, issued, nextId, launched>>
  BY DEF ResumeList, storeVars, ruleVars
<1>3. \A k \in Keys : rows[k].status # "absent" =>
         /\ rows[k].id \in 1 .. nextId /\ rows[k].id \in Ids /\ rows[k].human \in BOOLEAN
         /\ scan[rows[k].id] \in {"none", "scanning", "done"}
  BY PipeShapes DEF PipeInv, StoreInv, StoreTypeOK, Row, IdNamesItsRow
<1>4. \A req \in todo : req.id \in 1 .. nextId /\ req \in [id : Ids, human : BOOLEAN]
  BY <1>3 DEF NeedsScan
<1>5. \A k \in Keys : HasHook /\ rows[k].status # "absent" /\ scan[rows[k].id] # "done" =>
         \E req \in todo : req.id = rows[k].id
  <2> SUFFICES ASSUME NEW k \in Keys, HasHook, rows[k].status # "absent",
                      scan[rows[k].id] # "done"
               PROVE  \E req \in todo : req.id = rows[k].id
    OBVIOUS
  <2>1. NeedsScan(k)
    BY <1>3 DEF NeedsScan
  <2>2. [id |-> rows[k].id, human |-> rows[k].human] \in todo
    BY <2>1
  <2> QED
    BY <2>2
<1> HIDE DEF todo
<1>6. PipeTypeOK'
  BY <1>1, <1>2, <1>4 DEF PipeInv, PipeTypeOK, StoreInv
<1>7. JobsAreIssued'
  BY <1>1, <1>2, <1>4 DEF PipeInv, JobsAreIssued
<1>8. AbsentHasNoId'
  BY <1>2 DEF PipeInv, AbsentHasNoId
<1>9. UnscannedIsOwned'
  <2> SUFFICES ASSUME NEW k \in Keys, k \in RootKeys, HasHook, rows'[k].status # "absent",
                      scan'[rows'[k].id] # "done"
               PROVE  ScanOwned(rows[k].id)'
    BY DEF UnscannedIsOwned, RootKeys, Above
  <2> QED
    BY <1>1, <1>2, <1>5 DEF ScanOwned
<1>10. IssuedIsOwned'
  BY <1>2 DEF PipeInv, IssuedIsOwned, InHand, RootKeys, Above
<1> QED
  BY <1>6, <1>7, <1>8, <1>9, <1>10 DEF PipeInv

(* What leaves the list is a hook.                                         *)
LEMMA ResumeLaunchKeeps ==
    ASSUME PipeInv, StoreInv', ResumeLaunch
    PROVE  PipeInv'
<1>1. PICK req \in resume.todo :
         /\ resume' = [resume EXCEPT !.todo = @ \ {req}]
         /\ job' = [job EXCEPT ![<<req.id, "resume">>] =
                      [pc |-> "start", human |-> req.human, found |-> {}]]
  BY DEF ResumeLaunch
<1>2. /\ resume.pc = "launch"
      /\ UNCHANGED <<scan, findings, rules, tool, rescan, changes, crashes>>
      /\ UNCHANGED <<rows, issued, nextId, launched>>
  BY DEF ResumeLaunch, storeVars, ruleVars
<1>3. /\ resume \in [pc : {"list", "launch"}, todo : SUBSET [id : Ids, human : BOOLEAN]]
      /\ req \in [id : Ids, human : BOOLEAN] /\ req.id \in 1 .. nextId
  BY <1>1 DEF PipeInv, PipeTypeOK, JobsAreIssued
<1> DEFINE own == <<req.id, "resume">>
           new == [pc |-> "start", human |-> req.human, found |-> {}]
<1>4. /\ job \in [Jobs -> JobState] /\ own \in Jobs /\ new \in JobState
      /\ own[1] = req.id /\ "resume" \in Launcher
  BY <1>3, PipeShapes DEF JobState, Launcher
<1>5. /\ \A j \in Jobs : j # own => job'[j] = job[j]
      /\ job'[own] = new /\ new.pc = "start" /\ job' \in [Jobs -> JobState]
  BY <1>1, <1>4
<1>6. /\ resume'.pc = resume.pc /\ resume'.todo = resume.todo \ {req}
      /\ resume' \in [pc : {"list", "launch"}, todo : SUBSET [id : Ids, human : BOOLEAN]]
  BY <1>1, <1>3
<1>7. PipeTypeOK'
  BY <1>2, <1>5, <1>6 DEF PipeInv, PipeTypeOK, StoreInv
<1>8. JobsAreIssued'
  BY <1>2, <1>3, <1>4, <1>5, <1>6 DEF PipeInv, JobsAreIssued
<1>9. AbsentHasNoId'
  BY <1>2 DEF PipeInv, AbsentHasNoId
<1>10. ASSUME NEW i \in Ids, InHand(i) \/ i = req.id PROVE InHand(i)'
  <2>1. CASE i = req.id
    BY <1>4, <1>5, <2>1 DEF InHand
  <2>2. CASE i # req.id
    <3>1. \A l \in Launcher : job'[<<i, l>>] = job[<<i, l>>]
      BY <1>4, <1>5, <2>2, PipeShapes
    <3> QED
      BY <1>2, <1>10, <2>2, <3>1 DEF InHand
  <2> QED
    BY <2>1, <2>2
<1>11. UnscannedIsOwned'
  <2> SUFFICES ASSUME NEW k \in Keys, k \in RootKeys, HasHook, rows'[k].status # "absent",
                      scan'[rows'[k].id] # "done"
               PROVE  ScanOwned(rows[k].id)'
    BY DEF UnscannedIsOwned, RootKeys, Above
  <2>1. PICK i \in Ids : i = rows[k].id /\ i = rows'[k].id
    BY <1>2, PipeShapes DEF PipeInv, StoreInv, IdNamesItsRow
  <2>2. ScanOwned(i)
    BY <1>2, <2>1 DEF PipeInv, UnscannedIsOwned
  <2>3. InHand(i)' \/ (\E o \in resume'.todo : o.id = i)
    BY <1>2, <1>6, <1>10, <2>2 DEF ScanOwned, InHand
  <2> QED
    BY <2>1, <2>3 DEF ScanOwned, InHand
<1>12. IssuedIsOwned'
  BY <1>2, <1>10, PipeShapes DEF PipeInv, IssuedIsOwned, RootKeys, Above
<1> QED
  BY <1>7, <1>8, <1>9, <1>11, <1>12 DEF PipeInv

LEMMA RestartKeepsPipe ==
    ASSUME PipeInv, StoreInv', Restart
    PROVE  PipeInv'
<1>1. /\ UNCHANGED <<scan, findings, rules, tool, changes>> /\ UNCHANGED <<rows, issued, nextId>>
      /\ job' = [j \in Jobs |-> NoJob]
      /\ resume' = [pc |-> "list", todo |-> {}]
      /\ rescan' = [r \in Rescans |-> NoRescan]
      /\ crashes < MaxCrashes /\ crashes' = crashes + 1
  BY DEF Restart, Crash, ruleVars
<1>2. crashes' \in 0 .. MaxCrashes /\ crashes' # 0
  BY <1>1, PipelineAssumption DEF PipeInv, PipeTypeOK
<1>3. NoJob \in JobState /\ NoJob.pc = "none" /\ NoRescan \in RescanState
  BY DEF NoJob, JobState, NoRescan, RescanState
<1>4. PipeTypeOK'
  BY <1>1, <1>2, <1>3 DEF PipeInv, PipeTypeOK, StoreInv
<1>5. JobsAreIssued' /\ AbsentHasNoId'
  BY <1>1, <1>3 DEF PipeInv, JobsAreIssued, AbsentHasNoId
<1>6. UnscannedIsOwned' /\ IssuedIsOwned'
  BY <1>1, <1>2 DEF UnscannedIsOwned, ScanOwned, IssuedIsOwned
<1> QED
  BY <1>4, <1>5, <1>6 DEF PipeInv

LEMMA PipeStepKeeps ==
    ASSUME PipeInv, [PipeNext]_allVars
    PROVE  PipeInv'
<1>1. StoreInv'
  BY PipeStepImplements, StepKeepsInv DEF PipeInv
<1>2. ASSUME NEW p \in Procs, ProxyEnqueue(p) PROVE PipeInv'
  BY <1>1, <1>2, EnqueueKeepsPipe DEF ProxyEnqueue
<1>3. ASSUME NEW j \in Jobs, HookStep(j) PROVE PipeInv'
  BY <1>1, <1>3, HookStartKeeps, RunningHookKeeps, HookApproveKeeps DEF HookStep, HookWork
<1>4. ASSUME NEW r \in Rescans, RescanStep(r) PROVE PipeInv'
  BY <1>1, <1>4, RescanStepKeeps
<1>5. ASSUME NEW k \in Keys, AdminDecide(k) PROVE PipeInv'
  BY <1>1, <1>5, AdminKeeps
<1>6. CASE ToolReadsRule \/ ToolWritesRule \/ \E r \in Rescans : ChangeRules(r)
  BY <1>1, <1>6, RuleStepKeeps
<1>7. CASE ResumeList \/ ResumeLaunch \/ Restart
  BY <1>1, <1>7, ResumeListKeeps, ResumeLaunchKeeps, RestartKeepsPipe
<1>8. CASE UNCHANGED allVars
  <2>1. UNCHANGED <<scan, findings, rules, tool, job, resume, rescan, changes, crashes>>
        /\ UNCHANGED <<rows, issued, nextId, launched>>
    BY <1>8 DEF allVars, storeVars, pipeVars, ruleVars
  <2> QED
    BY <1>1, <2>1, OthersKeepPipe DEF PipeInv, PipeTypeOK
<1> QED
  BY <1>2, <1>3, <1>4, <1>5, <1>6, <1>7, <1>8 DEF PipeNext, Background, HookStep

LEMMA PipeInvHolds == PipeSpec => []PipeInv
<1>1. PipeInv /\ [PipeNext]_allVars => PipeInv'
  BY PipeStepKeeps
<1> QED
  BY <1>1, PipeInitHasInv, PTL DEF PipeSpec

(* The tables and the goroutines of the pipeline keep their shapes.        *)
THEOREM PipeTypeCorrect == PipeSpec => []PipeTypeOK
<1>1. PipeInv => PipeTypeOK
  BY DEF PipeInv
<1> QED
  BY <1>1, PipeInvHolds, PTL

(* No request that was quarantined as pending is forgotten: until its scan *)
(* is done its hook is launched or running, or the restart has it on its   *)
(* list or has still to make the list, whatever crashes, racing upserts,   *)
(* second hooks and decisions come in between (root.go:609-631,            *)
(* quarantine.go:171-210 and 478-495).                                     *)
THEOREM NoScanIsForgotten == PipeSpec => []UnscannedIsOwned
<1>1. PipeInv => UnscannedIsOwned
  BY DEF PipeInv
<1> QED
  BY <1>1, PipeInvHolds, PTL
=============================================================================
