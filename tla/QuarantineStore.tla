-------------------------- MODULE QuarantineStore --------------------------
(***************************************************************************)
(* The requests table of the quarantine (core/quarantine.go): one row per  *)
(* cache key, the decision history of each request id, and the three       *)
(* statements of Enqueue, which is not a transaction.  The module is the   *)
(* most general client of the store: any process may call any operation at *)
(* any moment.  ScanPipeline and Registry restrict who calls what.         *)
(*                                                                         *)
(* A row keeps what the properties tell apart: its id, its status, the     *)
(* require_human_review column and the sha256 column.  Names, sizes, dates *)
(* and comments are left out.                                              *)
(***************************************************************************)
EXTENDS Naturals, Sequences

CONSTANTS
    Keys,       \* cache keys
    Below,      \* pairs <<c, k>> with: c LIKE k || '/%'
    SignedKeys, \* keys whose driver may demand human review (docker manifests)
    Versions,   \* contents an upstream may serve, named by their hash
    NoVersion,  \* the sha256 of no row
    Procs,      \* goroutines that call Enqueue
    HasHook,    \* OnEnqueue # nil: at least one scanner is configured
    MaxId,      \* bound: number of request ids ever issued
    MaxAudit    \* bound: number of decisions recorded

(* LIKE k || '/%' only matches longer keys and is transitive on keys       *)
(* without wildcards.                                                      *)
ASSUME BelowAssumption ==
    /\ Below \subseteq Keys \X Keys
    /\ \A k \in Keys : <<k, k>> \notin Below
    /\ \A a, b, c \in Keys : <<a, b>> \in Below /\ <<b, c>> \in Below => <<a, c>> \in Below

(* Only docker's Validate sets RequireHumanReview (docker/driver.go:362).  *)
ASSUME SignedAssumption == SignedKeys \subseteq Keys

ASSUME BoundAssumption ==
    /\ MaxId \in Nat
    /\ MaxAudit \in Nat
    /\ HasHook \in BOOLEAN
    /\ NoVersion \notin Versions

Ids == 1 .. MaxId
NoId == 0

Live == {"pending", "approved"}
Status == Live \union {"absent", "rejected"}
Actor == {"auto", "admin"}
Decision == [id : Ids, action : {"approved", "rejected", "revoked"}, actor : Actor]

Row == [id : Ids \union {NoId}, status : Status, human : BOOLEAN,
        sha : Versions \union {NoVersion}]
NoRow == [id |-> NoId, status |-> "absent", human |-> FALSE, sha |-> NoVersion]

(* The row that one call of Enqueue builds in memory and hands to the      *)
(* scan hook: it describes the artifact of the call.                       *)
Artifact == [key : Keys, human : BOOLEAN, sha : Versions]

(* The parents of a key, and the keys nobody is a parent of.               *)
Above(k) == {a \in Keys : <<k, a>> \in Below}
RootKeys == {k \in Keys : Above(k) = {}}

VARIABLES
    rows,      \* table requests, by cache_key
    audit,     \* table audit_log: the decisions, in the order of their insertion
    issued,    \* the in-memory row of each id Enqueue has issued
    nextId,    \* number of ids issued so far (newID never repeats one)
    enq,       \* progress of each process inside Enqueue
    launched   \* ids whose hook goroutine exists and has not run yet

storeVars == <<rows, audit, issued, nextId, enq, launched>>

Idle == [pc |-> "idle"]
EnqueueState ==
    [pc : {"idle"}]
    \union [pc : {"parent"}, art : Artifact]
    \union [pc : {"insert"}, art : Artifact, status : Live]

StoreInit ==
    /\ rows = [k \in Keys |-> NoRow]
    /\ audit = <<>>
    /\ issued = [i \in {} |-> NoId]
    /\ nextId = 0
    /\ enq = [p \in Procs |-> Idle]
    /\ launched = {}

-----------------------------------------------------------------------------
(* Enqueue: a lookup, a query for an approved parent, an upsert.           *)

(* quarantine.go:156-161  the key has a pending or approved row: Enqueue   *)
(* returns its id and changes nothing.                                     *)
EnqueueExisting(p, k) ==
    /\ enq[p].pc = "idle"
    /\ rows[k].status \in Live
    /\ UNCHANGED storeVars

(* Rows of sub-manifests and blobs are created by the prefetch, which does *)
(* not validate; a rejected sub-manifest that is requested again is.       *)
MayBeFlagged(k) == k \in SignedKeys /\ (k \in RootKeys \/ rows[k].status # "absent")

(* quarantine.go:156-164  no row, or a rejected one.                       *)
EnqueueLookup(p, art) ==
    /\ enq[p].pc = "idle"
    /\ rows[art.key].status \notin Live
    /\ art.human => MayBeFlagged(art.key)
    /\ enq' = [enq EXCEPT ![p] = [pc |-> "parent", art |-> art]]
    /\ UNCHANGED <<rows, audit, issued, nextId, launched>>

(* A mutant: any parent that is not rejected will do.                      *)
HasLiveParent(k) == \E a \in Above(k) : rows[a].status \in Live

(* quarantine.go:213-220                                                   *)
HasApprovedParent(k) == \E a \in Above(k) : rows[a].status = "approved"

(* quarantine.go:166-169                                                   *)
EnqueueParent(p) ==
    /\ enq[p].pc = "parent"
    /\ LET art == enq[p].art IN
       enq' = [enq EXCEPT ![p] =
                 [pc |-> "insert", art |-> art,
                  status |-> IF HasApprovedParent(art.key) THEN "approved" ELSE "pending"]]
    /\ UNCHANGED <<rows, audit, issued, nextId, launched>>

(* A mutant: the id is missing from the columns of the conflict clause.    *)
UpsertKeepingId(row, id, art, status) ==
    IF row.status = "absent"
    THEN [id |-> id, status |-> status, human |-> art.human, sha |-> art.sha]
    ELSE [row EXCEPT !.status = status]

(* ON CONFLICT(cache_key) DO UPDATE writes id, status and requested_at     *)
(* only: the other columns keep the values of the first insert.            *)
Upsert(row, id, art, status) ==
    IF row.status = "absent"
    THEN [id |-> id, status |-> status, human |-> art.human, sha |-> art.sha]
    ELSE [row EXCEPT !.id = id, !.status = status]

(* quarantine.go:171-210  upsert, then go OnEnqueue(row).                  *)
EnqueueInsert(p) ==
    /\ enq[p].pc = "insert"
    /\ nextId < MaxId
    /\ LET id == nextId + 1
           art == enq[p].art
           status == enq[p].status
       IN /\ rows' = [rows EXCEPT ![art.key] = Upsert(rows[art.key], id, art, status)]
          /\ issued' = [i \in DOMAIN issued \union {id} |-> IF i = id THEN art ELSE issued[i]]
          /\ launched' = IF HasHook /\ status = "pending" THEN launched \union {id} ELSE launched
          /\ enq' = [enq EXCEPT ![p] = Idle]
          /\ nextId' = id
    /\ UNCHANGED audit

-----------------------------------------------------------------------------
(* Decisions: each is one transaction on the request that has the id now.  *)

(* A mutant: the history gets the new status of a revocation, not its name. *)
RecordStatus(k, action, actor) ==
    /\ Len(audit) < MaxAudit
    /\ audit' = Append(audit, [id |-> rows[k].id,
                              action |-> IF action = "revoked" THEN "pending" ELSE action,
                              actor |-> actor])

(* quarantine.go:263-278  the entry of the transaction.                    *)
Record(k, action, actor) ==
    /\ Len(audit) < MaxAudit
    /\ audit' = Append(audit, [id |-> rows[k].id, action |-> action, actor |-> actor])

(* A mutant: the cascade saves the whole row of k under each child.        *)
DecidedWithRow(k, status) ==
    [c \in Keys |-> IF c = k \/ (<<c, k>> \in Below /\ rows[c].status = "pending")
                    THEN [rows[k] EXCEPT !.status = status]
                    ELSE rows[c]]

(* The row of k, and the pending rows below it when the decision cascades  *)
(* (updateLinked writes no audit entry and reads no human-review column).  *)
Decided(k, status) ==
    [c \in Keys |-> IF c = k \/ (<<c, k>> \in Below /\ rows[c].status = "pending")
                    THEN [rows[c] EXCEPT !.status = status]
                    ELSE rows[c]]

(* A mutant: the human-review column is not looked at.                     *)
ApproveUnguarded(k, actor) ==
    /\ rows[k].status # "absent"
    /\ Record(k, "approved", actor)
    /\ rows' = Decided(k, "approved")
    /\ UNCHANGED <<issued, nextId, enq, launched>>

(* quarantine.go:225-239  no condition on the present status.              *)
Approve(k, actor) ==
    /\ rows[k].status # "absent"
    /\ ~ (rows[k].human /\ actor = "auto")
    /\ Record(k, "approved", actor)
    /\ rows' = Decided(k, "approved")
    /\ UNCHANGED <<issued, nextId, enq, launched>>

(* quarantine.go:242-253                                                   *)
Reject(k, actor) ==
    /\ rows[k].status # "absent"
    /\ Record(k, "rejected", actor)
    /\ rows' = Decided(k, "rejected")
    /\ UNCHANGED <<issued, nextId, enq, launched>>

(* quarantine.go:282-286  no cascade.                                      *)
Revoke(k, actor) ==
    /\ rows[k].status # "absent"
    /\ Record(k, "revoked", actor)
    /\ rows' = [rows EXCEPT ![k].status = "pending"]
    /\ UNCHANGED <<issued, nextId, enq, launched>>

-----------------------------------------------------------------------------
(* The hook goroutine of id takes its first step; what it does next is     *)
(* the business of ScanPipeline.                                           *)
RunHook(id) ==
    /\ id \in launched
    /\ launched' = launched \ {id}
    /\ UNCHANGED <<rows, audit, issued, nextId, enq>>

(* The process dies and starts again: SQLite keeps what was committed, the *)
(* goroutines are gone.                                                    *)
Crash ==
    /\ enq' = [p \in Procs |-> Idle]
    /\ launched' = {}
    /\ UNCHANGED <<rows, audit, issued, nextId>>

Enqueue(p) ==
    \/ \E k \in Keys : EnqueueExisting(p, k)
    \/ \E art \in Artifact : EnqueueLookup(p, art)
    \/ EnqueueParent(p)
    \/ EnqueueInsert(p)

(* "auto" only ever approves; rejecting and revoking are human decisions.  *)
Decide(k) ==
    \/ \E actor \in Actor : Approve(k, actor)
    \/ Reject(k, "admin")
    \/ Revoke(k, "admin")

StoreNext ==
    \/ \E p \in Procs : Enqueue(p)
    \/ \E k \in Keys : Decide(k)
    \/ \E id \in launched : RunHook(id)
    \/ Crash

StoreSpec == StoreInit /\ [][StoreNext]_storeVars

-----------------------------------------------------------------------------
(* Properties                                                              *)

(* Every variable has the shape its table or its goroutine gives it.       *)
StoreTypeOK ==
    /\ rows \in [Keys -> Row]
    /\ audit \in Seq(Decision)
    /\ nextId \in Ids \union {0}
    /\ issued \in [1 .. nextId -> Artifact]
    /\ enq \in [Procs -> EnqueueState]
    /\ launched \subseteq 1 .. nextId

(* An id names one request: although concurrent upserts replace the id of  *)
(* a row, the id a row carries was issued for the artifact of that very    *)
(* key (quarantine.go:171, 197).                                           *)
IdNamesItsRow ==
    \A k \in Keys : rows[k].status # "absent" =>
        rows[k].id \in 1 .. nextId /\ issued[rows[k].id].key = k

(* An approval was recorded for some request of the key k.                 *)
Granted(k) ==
    \E n \in 1 .. Len(audit) : audit[n].action = "approved" /\ issued[audit[n].id].key = k

(* Nothing becomes approved out of thin air: whatever the interleaving of  *)
(* enqueues, cascades, revocations and crashes, an approved artifact has a *)
(* recorded approval, its own or one of an artifact it belongs to          *)
(* (quarantine.go:166-169 and 237).                                        *)
ApprovalHasSource ==
    \A k \in Keys : rows[k].status = "approved" =>
        \E a \in {k} \union Above(k) : Granted(a)

(* GetAuditLog(i): the positions of the decisions on request i, and the    *)
(* last of them.                                                           *)
DecisionsOn(i) == {n \in 1 .. Len(audit) : audit[n].id = i}
IsLastOn(n, i) == n \in DecisionsOn(i) /\ \A m \in DecisionsOn(i) : m <= n

(* The decision history of request i says that its status is s.            *)
HistorySays(i, s) ==
    \/ DecisionsOn(i) = {} /\ s = "pending"
    \/ \E n \in 1 .. Len(audit) :
          /\ IsLastOn(n, i)
          /\ s = IF audit[n].action = "revoked" THEN "pending" ELSE audit[n].action

(* The decision history shown for an artifact that belongs to no other     *)
(* explains its present status (quarantine.go:259-279, 297-315).           *)
RootHistoryExplainsStatus ==
    \A k \in RootKeys : rows[k].status # "absent" => HistorySays(rows[k].id, rows[k].status)

(* A row whose require_human_review column is set is approved by a human   *)
(* or not at all: no cascade, inherited approval or second enqueue gets    *)
(* round the check of Approve (quarantine.go:231-233).                     *)
HumanGate ==
    \A k \in Keys : rows[k].human /\ rows[k].status = "approved" =>
        \E n \in 1 .. Len(audit) : /\ IsLastOn(n, rows[k].id)
                                   /\ audit[n].action = "approved"
                                   /\ audit[n].actor = "admin"

-----------------------------------------------------------------------------
(* What the documentation says and the code does not do                    *)

(* quarantine.go:153 and 160: Enqueue leaves a pending or approved row     *)
(* alone, it is "no regression".                                           *)
EnqueueNoRegression ==
    [][\A k \in Keys :
         rows[k].status \in Live => rows'[k].id = rows[k].id]_storeVars
=============================================================================
