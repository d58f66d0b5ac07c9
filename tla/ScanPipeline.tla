---------------------------- MODULE ScanPipeline ----------------------------
(***************************************************************************)
(* From a quarantined artifact to an automatic decision: the scan hook     *)
(* (buildScanHook, cmd/root.go), the restart of interrupted scans          *)
(* (resumePendingScans), the re-evaluation that follows a rule change      *)
(* (rescanPending, admin.go), the administrator and the MCP process, and   *)
(* a process that may die between any two statements.                      *)
(*                                                                         *)
(* A scan is one step here; Scanners has its parts.                        *)
(***************************************************************************)
EXTENDS QuarantineStore, Rules, FiniteSets

CONSTANTS
    RepoOf,     \* RepoOf[k]: the repository type of a key
    Vulns,      \* findings
    Known,      \* what the public databases report for each key
    Faults,     \* subset of {"scanner", "save"}: which calls may fail
    InitRules,  \* the tables of rules at the first start
    RuleEditors, \* subset of {"api", "mcp"}: who changes rules
    Rescans,    \* goroutines of rescanPending
    MaxRules,   \* bound: number of rule changes
    MaxCrashes, \* bound: number of crashes
    MaxHuman    \* bound: number of human decisions

ASSUME PipelineAssumption ==
    /\ Known \in [Keys -> SUBSET Vulns]
    /\ InitRules \subseteq Tables
    /\ Faults \subseteq {"scanner", "save"}
    /\ RuleEditors \subseteq {"api", "mcp"}
    /\ {MaxRules, MaxCrashes, MaxHuman} \subseteq Nat

(* A hook runs for an id because Enqueue launched it or because the        *)
(* restart did; both may happen to the same id.                            *)
Launcher == {"enqueue", "resume"}
Jobs == Ids \X Launcher

VARIABLES
    scan,       \* table security_scans, by request id
    findings,   \* table security_findings, by request id
    rules,      \* table rules
    tool,       \* the tool set_rule_enabled of the MCP process: what it has read
    job,        \* the running hooks
    resume,     \* the goroutine of resumePendingScans
    rescan,     \* the goroutines of rescanPending
    changes,    \* rule changes so far
    crashes     \* crashes so far

ruleVars == <<rules, tool>>
pipeVars == <<scan, findings, ruleVars, job, resume, rescan, changes, crashes>>
allVars == <<storeVars, pipeVars>>

NoJob == [pc |-> "none", human |-> FALSE, found |-> {}]
JobState == [pc : {"none", "start", "scan", "mark", "decide", "approve", "notify"},
             human : BOOLEAN, found : SUBSET Vulns]
NoRescan == [pc |-> "none", todo |-> {}, seen |-> [i \in Ids |-> {}]]
RescanState == [pc : {"none", "list", "findings", "evaluate", "approve"},
                todo : SUBSET Ids, seen : [Ids -> SUBSET Vulns]]

NoTool == [id |-> 0, rule |-> NoRule]

PipeInit ==
    /\ StoreInit
    /\ scan = [i \in Ids |-> "none"]
    /\ findings = [i \in Ids |-> {}]
    /\ rules \in InitRules
    /\ tool = NoTool
    /\ job = [j \in Jobs |-> NoJob]
    /\ resume = [pc |-> "list", todo |-> {}]
    /\ rescan = [r \in Rescans |-> NoRescan]
    /\ changes = 0
    /\ crashes = 0

(* Whether the rules let request i through with these findings.            *)
RulesPass(i, F) == Passes(rules, RepoOf[issued[i].key], F)

(* The key of a request id that is still the id of a row.                  *)
RowOf(id) == {k \in Keys : rows[k].id = id}

-----------------------------------------------------------------------------
(* The scan hook, cmd/root.go:488-606.  One action per statement that      *)
(* reads or writes shared state.                                           *)

SetPc(j, pc) == job' = [job EXCEPT ![j].pc = pc]

(* root.go:493  Enqueue's goroutine starts: the row it holds is the one    *)
(* Enqueue built.                                                          *)
HookStart(id) ==
    /\ RunHook(id)
    /\ scan' = [scan EXCEPT ![id] = "scanning"]
    /\ job' = [job EXCEPT ![<<id, "enqueue">>] =
                 [pc |-> "scan", human |-> issued[id].human, found |-> {}]]
    /\ UNCHANGED <<findings, ruleVars, resume, rescan, changes, crashes>>

(* root.go:493  the same for a goroutine launched by the restart.          *)
ResumedHookStart(j) ==
    /\ job[j].pc = "start"
    /\ scan' = [scan EXCEPT ![j[1]] = "scanning"]
    /\ SetPc(j, "scan")
    /\ UNCHANGED <<storeVars, findings, ruleVars, resume, rescan, changes, crashes>>

(* security.go:81-106  an error of a scanner is dropped with its answer,   *)
(* so the error branch of the hook (root.go:505-513) is never taken.       *)
ScanResults(known) == IF "scanner" \in Faults THEN SUBSET known ELSE {known}

(* quarantine.go:421-450  row by row; the hook ignores an error midway.    *)
Saved(found) == IF "save" \in Faults THEN SUBSET found ELSE {found}

(* root.go:504-555                                                         *)
HookScan(j) ==
    /\ job[j].pc = "scan"
    /\ \E found \in ScanResults(Known[issued[j[1]].key]) :
         /\ \E saved \in Saved(found) :
              findings' = [findings EXCEPT ![j[1]] = @ \union saved]
         /\ job' = [job EXCEPT ![j].pc = "mark", ![j].found = found]
    /\ UNCHANGED <<storeVars, scan, ruleVars, resume, rescan, changes, crashes>>

(* A mutant: a scan that found something is marked as an error.            *)
HookMarkFailed(j) ==
    /\ job[j].pc = "mark"
    /\ scan' = [scan EXCEPT ![j[1]] = IF job[j].found = {} THEN "done" ELSE "error"]
    /\ SetPc(j, "decide")
    /\ UNCHANGED <<storeVars, findings, ruleVars, resume, rescan, changes, crashes>>

(* root.go:556                                                             *)
HookMark(j) ==
    /\ job[j].pc = "mark"
    /\ scan' = [scan EXCEPT ![j[1]] = "done"]
    /\ SetPc(j, "decide")
    /\ UNCHANGED <<storeVars, findings, ruleVars, resume, rescan, changes, crashes>>

(* root.go:573-603  the flag of the row in memory, then the rules now.     *)
(* The row and the findings in memory are not used after this.             *)
HookDecide(j) ==
    /\ job[j].pc = "decide"
    /\ job' = [job EXCEPT ![j] = [NoJob EXCEPT !.pc =
                  IF ~ job[j].human /\ RulesPass(j[1], job[j].found) THEN "approve" ELSE "notify"]]
    /\ UNCHANGED <<storeVars, scan, findings, ruleVars, resume, rescan, changes, crashes>>

(* A mutant: the status is written past Approve.                           *)
AutoApproveUnrecorded(id) ==
    \E k \in RowOf(id) : /\ rows' = Decided(k, "approved")
                         /\ UNCHANGED <<audit, issued, nextId, enq, launched>>

(* Approve(id, "auto"): the id may have lost its row to a racing upsert,   *)
(* and the column may demand a human; both are logged errors.              *)
AutoApprove(id) ==
    \/ \E k \in RowOf(id) : Approve(k, "auto")
    \/ (\A k \in RowOf(id) : rows[k].human) /\ UNCHANGED storeVars

(* root.go:588                                                             *)
HookApprove(j) ==
    /\ job[j].pc = "approve"
    /\ AutoApprove(j[1])
    /\ SetPc(j, "notify")
    /\ UNCHANGED <<scan, findings, ruleVars, resume, rescan, changes, crashes>>

(* root.go:491  the deferred NotifyScanDone; Registry adds whom it wakes.  *)
HookNotify(j) ==
    /\ job[j].pc = "notify"
    /\ job' = [job EXCEPT ![j] = NoJob]
    /\ UNCHANGED <<storeVars, scan, findings, ruleVars, resume, rescan, changes, crashes>>

-----------------------------------------------------------------------------
(* Restart, cmd/root.go:613-631                                            *)

(* A mutant: a scan that was interrupted midway is not restarted.          *)
NeedsFirstScan(k) ==
    /\ HasHook
    /\ rows[k].status # "absent"
    /\ scan[rows[k].id] \in {"none", "error"}

(* root.go:614-616 and quarantine.go:480-495  with scanners configured, a  *)
(* request of any status without a completed scan.                         *)
NeedsScan(k) ==
    /\ HasHook
    /\ rows[k].status # "absent"
    /\ scan[rows[k].id] \in {"none", "scanning", "error"}

ResumeList ==
    /\ resume.pc = "list"
    /\ resume' = [pc |-> "launch",
                  todo |-> {[id |-> rows[k].id, human |-> rows[k].human] :
                              k \in {x \in Keys : NeedsScan(x)}}]
    /\ UNCHANGED <<storeVars, scan, findings, ruleVars, job, rescan, changes, crashes>>

ResumeLaunch ==
    /\ resume.pc = "launch"
    /\ \E req \in resume.todo :
         /\ resume' = [resume EXCEPT !.todo = @ \ {req}]
         /\ job' = [job EXCEPT ![<<req.id, "resume">>] =
                      [pc |-> "start", human |-> req.human, found |-> {}]]
    /\ UNCHANGED <<storeVars, scan, findings, ruleVars, rescan, changes, crashes>>

-----------------------------------------------------------------------------
(* Rules and their re-evaluation                                           *)

(* Create, Update and Delete through the API (admin.go:356-426).           *)
CreateRule(n, form) == rules[n] = NoRule /\ rules' = Created(rules, n, form)
UpdateRule(n, form) == rules' = Updated(rules, n, form)
DeleteRule(n) == rules' = Deleted(rules, n)

MayChangeRules(editor) ==
    /\ editor \in RuleEditors
    /\ changes < MaxRules
    /\ changes' = changes + 1

(* A mutant: a rule mutation without a re-evaluation.                      *)
ChangeRulesOnly(r) ==
    /\ MayChangeRules("api")
    /\ rescan[r].pc = "none"
    /\ \E n \in RuleIds :
         \/ DeleteRule(n)
         \/ \E form \in Forms : CreateRule(n, form) \/ UpdateRule(n, form)
    /\ UNCHANGED <<storeVars, scan, findings, tool, job, resume, rescan, crashes>>

(* admin.go:356-426  a rule mutation, then go rescanPending().             *)
ChangeRules(r) ==
    /\ MayChangeRules("api")
    /\ rescan[r].pc = "none"
    /\ \E n \in RuleIds :
         \/ DeleteRule(n)
         \/ \E form \in Forms : CreateRule(n, form) \/ UpdateRule(n, form)
    /\ rescan' = [rescan EXCEPT ![r].pc = "list"]
    /\ UNCHANGED <<storeVars, scan, findings, tool, job, resume, crashes>>

(* cmd/mcp.go:286-292  the MCP process lists the rules and sets the flag   *)
(* of one,                                                                 *)
ToolReadsRule ==
    /\ MayChangeRules("mcp")
    /\ tool = NoTool
    /\ \E n \in RuleIds, on \in BOOLEAN :
         rules[n] # NoRule /\ tool' = [id |-> n, rule |-> Toggled(rules[n], on)]
    /\ UNCHANGED <<storeVars, scan, findings, rules, job, resume, rescan, crashes>>

(* cmd/mcp.go:293  and writes the whole rule; it re-evaluates nothing.     *)
ToolWritesRule ==
    /\ tool # NoTool
    /\ UpdateRule(tool.id, tool.rule)
    /\ tool' = NoTool
    /\ UNCHANGED <<storeVars, scan, findings, job, resume, rescan, changes, crashes>>

(* admin.go:742-747                                                        *)
RescanList(r) ==
    /\ rescan[r].pc = "list"
    /\ rescan' = [rescan EXCEPT
                    ![r].pc = "findings",
                    ![r].todo = {rows[k].id : k \in {x \in Keys : rows[x].status = "pending"}}]
    /\ UNCHANGED <<storeVars, scan, findings, ruleVars, job, resume, changes, crashes>>

(* admin.go:748-752  of all the findings, those of the list are used.      *)
RescanFindings(r) ==
    /\ rescan[r].pc = "findings"
    /\ rescan' = [rescan EXCEPT
                    ![r].pc = "evaluate",
                    ![r].seen = [i \in Ids |-> IF i \in rescan[r].todo THEN findings[i] ELSE {}]]
    /\ UNCHANGED <<storeVars, scan, findings, ruleVars, job, resume, changes, crashes>>

(* List orders by requested_at desc: the newest request comes first.       *)
RescanNext(r) == CHOOSE i \in rescan[r].todo : \A o \in rescan[r].todo : o <= i

(* admin.go:753-759  the rules as they are now, the findings as they were. *)
RescanEvaluate(r) ==
    /\ rescan[r].pc = "evaluate"
    /\ rescan[r].todo # {}
    /\ LET i == RescanNext(r) IN
       rescan' = IF RulesPass(i, rescan[r].seen[i])
                 THEN [rescan EXCEPT ![r].pc = "approve"]
                 ELSE [rescan EXCEPT ![r].todo = @ \ {i}]
    /\ UNCHANGED <<storeVars, scan, findings, ruleVars, job, resume, changes, crashes>>

(* admin.go:760                                                            *)
RescanApprove(r) ==
    /\ rescan[r].pc = "approve"
    /\ LET i == RescanNext(r) IN
       /\ AutoApprove(i)
       /\ rescan' = [rescan EXCEPT ![r].pc = "evaluate", ![r].todo = @ \ {i}]
    /\ UNCHANGED <<scan, findings, ruleVars, job, resume, changes, crashes>>

RescanEnd(r) ==
    /\ rescan[r].pc = "evaluate"
    /\ rescan[r].todo = {}
    /\ rescan' = [rescan EXCEPT ![r] = NoRescan]
    /\ UNCHANGED <<storeVars, scan, findings, ruleVars, job, resume, changes, crashes>>

-----------------------------------------------------------------------------
(* The environment                                                         *)

HumanDecisions == {n \in 1 .. Len(audit) : audit[n].actor = "admin"}

(* admin.go:220-263 and cmd/mcp.go:110-147                                 *)
AdminDecide(k) ==
    /\ Cardinality(HumanDecisions) < MaxHuman
    /\ Approve(k, "admin") \/ Reject(k, "admin") \/ Revoke(k, "admin")
    /\ UNCHANGED pipeVars

ProxyEnqueue(p) == Enqueue(p) /\ UNCHANGED pipeVars

(* The process dies and is started again: cmd/root.go:163-164.             *)
Restart ==
    /\ crashes < MaxCrashes
    /\ Crash
    /\ job' = [j \in Jobs |-> NoJob]
    /\ resume' = [pc |-> "list", todo |-> {}]
    /\ rescan' = [r \in Rescans |-> NoRescan]
    /\ crashes' = crashes + 1
    /\ UNCHANGED <<scan, findings, ruleVars, changes>>

(* A hook launched by Enqueue for id, or running as j.                     *)
HookWork(j) ==
    \/ j[2] = "enqueue" /\ HookStart(j[1])
    \/ ResumedHookStart(j)
    \/ HookScan(j)
    \/ HookMark(j)
    \/ HookDecide(j)
    \/ HookApprove(j)

HookStep(j) == HookWork(j) \/ HookNotify(j)

RescanStep(r) ==
    \/ RescanList(r)
    \/ RescanFindings(r)
    \/ RescanEvaluate(r)
    \/ RescanApprove(r)
    \/ RescanEnd(r)

(* Everything but the requests of clients, what wakes them and a crash.    *)
Background ==
    \/ \E j \in Jobs : HookWork(j)
    \/ ResumeList
    \/ ResumeLaunch
    \/ \E r \in Rescans : ChangeRules(r) \/ RescanStep(r)
    \/ ToolReadsRule \/ ToolWritesRule
    \/ \E k \in Keys : AdminDecide(k)

PipeNext ==
    \/ \E p \in Procs : ProxyEnqueue(p)
    \/ \E j \in Jobs : HookNotify(j)
    \/ Background
    \/ Restart

PipeSpec == PipeInit /\ [][PipeNext]_allVars

(* A goroutine that is running goes on running; nobody has to send a       *)
(* request, change a rule, decide, or crash.                               *)
PipeFairness ==
    /\ \A j \in Jobs : WF_allVars(HookStep(j))
    /\ WF_allVars(ResumeList)
    /\ WF_allVars(ResumeLaunch)
    /\ \A r \in Rescans : WF_allVars(RescanStep(r))

FairPipeSpec == PipeSpec /\ PipeFairness

-----------------------------------------------------------------------------
(* Properties                                                              *)

(* Every table and goroutine of the pipeline has its shape.                *)
PipeTypeOK ==
    /\ StoreTypeOK
    /\ scan \in [Ids -> {"none", "scanning", "done"}]
    /\ findings \in [Ids -> SUBSET Vulns]
    /\ rules \in Tables
    /\ tool \in [id : RuleIds, rule : Rule] \union {NoTool}
    /\ job \in [Jobs -> JobState]
    /\ resume \in [pc : {"list", "launch"}, todo : SUBSET [id : Ids, human : BOOLEAN]]
    /\ rescan \in [Rescans -> RescanState]
    /\ changes \in 0 .. MaxRules
    /\ crashes \in 0 .. MaxCrashes

(* Someone is going to scan request i: its hook is launched or running, or *)
(* the restart has it on its list or has not made the list yet.            *)
ScanOwned(i) ==
    \/ i \in launched
    \/ \E l \in Launcher : job[<<i, l>>].pc \in {"start", "scan", "mark"}
    \/ resume.pc = "list"
    \/ \E req \in resume.todo : req.id = i

(* No request that was quarantined as pending is forgotten: as long as its *)
(* scan is not done, somebody in the running process is due to do it,      *)
(* wherever the process died before (root.go:609-612, quarantine.go:478).  *)
UnscannedIsOwned ==
    \A k \in RootKeys : HasHook /\ rows[k].status # "absent" /\ scan[rows[k].id] # "done" =>
        ScanOwned(rows[k].id)

(* The scan of a pending request ends, whatever crashes happen meanwhile   *)
(* (root.go:609-612).                                                      *)
ScanCompletes ==
    \A k \in RootKeys, i \in Ids :
        rows[k].id = i ~> scan[i] = "done" \/ rows[k].id # i

(* Request i for k is due to be approved by the rules, and is, unless a    *)
(* human decided on it or the rules changed again.                         *)
CleanRequest(k, i) ==
    rows[k].id = i /\ ~ rows[k].human /\ ~ issued[i].human /\
    Passes(rules, RepoOf[k], Known[k])
CleanRequestSettled(k, i) ==
    \/ rows[k].id # i
    \/ rows[k].status = "approved"
    \/ \E n \in DecisionsOn(i) : audit[n].actor = "admin"
    \/ ~ Passes(rules, RepoOf[k], Known[k])

(* If all rules pass after the scan the request is approved, although the  *)
(* rules may change while it is scanned and some of the scanners and       *)
(* writes of findings fail, as long as the process lives (README.md:461,   *)
(* admin.go:739-741).                                                      *)
CleanRequestApprovedAlive ==
    \A k \in RootKeys, i \in Ids :
        CleanRequest(k, i) ~> CleanRequestSettled(k, i) \/ crashes > 0

-----------------------------------------------------------------------------
(* What the documentation says and the code does not do                    *)

(* A decision is appended to the history by this step.                     *)
AutoApproved(i) ==
    /\ Len(audit') > Len(audit)
    /\ audit'[Len(audit')] = [id |-> i, action |-> "approved", actor |-> "auto"]

(* README.md:461: automatic approval comes after the scan.                 *)
AutoApprovalAfterScan ==
    [][\A i \in Ids : AutoApproved(i) => scan[i] = "done"]_allVars

(* driver.go:28: an artifact whose validation demanded human review is not *)
(* approved automatically.                                                 *)
FlaggedArtifactNeedsHuman ==
    [][\A i \in Ids : AutoApproved(i) => ~ issued[i].human]_allVars

(* README.md:461 and root.go:609: a clean request is approved, also when   *)
(* the process is restarted meanwhile.                                     *)
CleanRequestApproved ==
    \A k \in RootKeys, i \in Ids : CleanRequest(k, i) ~> CleanRequestSettled(k, i)
=============================================================================
