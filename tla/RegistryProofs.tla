--------------------------- MODULE RegistryProofs ---------------------------
(* The proxy implements the pipeline, and serves nothing that no decision  *)
(* let through.  The strengthening of ServedWasGranted says that a handler *)
(* that has seen "approved" and has not answered yet is already covered:   *)
(* the approval may be revoked meanwhile, its record stays.                *)
EXTENDS Registry, ScanPipelineProofs

Checked == {"hit", "get", "direct", "fetch"}

(* Covered(k) in terms of the audit log and of the issued rows.            *)
Recorded(k, log, arts) ==
    \E a \in {k} \union Above(k) : \E n \in 1 .. Len(log) :
        log[n].action = "approved" /\ arts[log[n].id].key = a

CheckedIsCovered ==
    \A c \in Clients :
        client[c].pc \in Checked \/ client[c].got \in Versions =>
            Recorded(client[c].key, audit, issued)

RegInv == StoreInv /\ RegTypeOK /\ CheckedIsCovered

-----------------------------------------------------------------------------
(* Every step of the proxy is one of the pipeline or leaves it alone.      *)

LEMMA ClientEnqueues ==
    ASSUME RegTypeOK, NEW c \in Clients, ClientEnqueue(c)
    PROVE  c \in Procs /\ ProxyEnqueue(c)
<1>1. c \in Procs /\ client[c].key \in Keys /\ client[c].ver \in Versions
  BY RegistryAssumption DEF RegTypeOK, ClientState, ClientEnqueue, At, HasVersion
<1>2. UNCHANGED pipeVars
  BY DEF ClientEnqueue
<1>3. Enqueue(c)
  <2>1. CASE EnqueueExisting(c, client[c].key) \/ EnqueueParent(c) \/ EnqueueInsert(c)
    BY <1>1, <2>1 DEF Enqueue
  <2>2. ASSUME NEW human \in BOOLEAN,
               EnqueueLookup(c, [key |-> client[c].key, human |-> human,
                                 sha |-> client[c].ver])
        PROVE  Enqueue(c)
    BY <1>1, <2>2 DEF Enqueue, Artifact
  <2> QED
    BY <2>1, <2>2 DEF ClientEnqueue
<1> QED
  BY <1>1, <1>2, <1>3 DEF ProxyEnqueue

LEMMA HandleImplements ==
    ASSUME RegTypeOK, NEW c \in Clients, Handle(c)
    PROVE  [PipeNext]_allVars
<1>1. CASE ClientEnqueue(c)
  BY <1>1, ClientEnqueues DEF PipeNext
<1>2. CASE ~ ClientEnqueue(c)
  BY <1>2 DEF Handle, Ask, AskApproved, ShortServe, AskPending, AskScanned, Resolve, Decide1,
     ServeCached, Decide2, ServeDirectly, ValidateAndCache, AskInherited, Subscribe,
     FirstCheck, SecondCheck, Wake, LastCheck, Fetch
<1> QED
  BY <1>1, <1>2

LEMMA PrefetchEnqueues ==
    ASSUME NEW p \in Procs, PrefetchEnqueue(p) \/ \E k \in Keys : Prefetch(p, k)
    PROVE  ProxyEnqueue(p) \/ UNCHANGED allVars
<1>1. CASE PrefetchEnqueue(p)
  BY <1>1 DEF PrefetchEnqueue, Enqueue, ProxyEnqueue
<1>2. CASE \E k \in Keys : Prefetch(p, k)
  <2>1. PICK k \in Keys : Prefetch(p, k)
    BY <1>2
  <2>2. ASSUME NEW v \in Versions,
               EnqueueLookup(p, [key |-> k, human |-> FALSE, sha |-> v])
        PROVE  Enqueue(p)
    BY <2>2 DEF Enqueue, Artifact
  <2>3. (Enqueue(p) \/ UNCHANGED storeVars) /\ UNCHANGED pipeVars
    BY <2>1, <2>2 DEF Prefetch, Enqueue
  <2> QED
    BY <2>3 DEF ProxyEnqueue, allVars
<1> QED
  BY <1>1, <1>2

LEMMA PrefetchImplements ==
    ASSUME NEW p \in Procs, PrefetchEnqueue(p) \/ \E k \in Keys : Prefetch(p, k)
    PROVE  [PipeNext]_allVars
  BY PrefetchEnqueues DEF PipeNext

LEMMA RegStepImplements ==
    ASSUME RegTypeOK, [RegNext]_regAllVars
    PROVE  [PipeNext]_allVars
<1>1. CASE \E c \in Clients, k \in Keys : Request(c, k)
  BY <1>1 DEF Request
<1>2. CASE \E c \in Clients : Handle(c)
  BY <1>2, HandleImplements
<1>3. CASE \E c \in Clients : Disconnect(c)
  BY <1>3 DEF Disconnect
<1>4. CASE \E p \in Procs : PrefetchEnqueue(p) \/ \E k \in Keys : Prefetch(p, k)
  BY <1>4, PrefetchImplements
<1>5. CASE \E j \in Jobs : Notify(j)
  BY <1>5 DEF Notify, PipeNext
<1>6. CASE (Background /\ UNCHANGED regVars) \/ ProxyRestart
  BY <1>6 DEF ProxyRestart, PipeNext
<1>7. CASE UNCHANGED regAllVars
  BY <1>7 DEF regAllVars
<1> QED
  BY <1>1, <1>2, <1>3, <1>4, <1>5, <1>6, <1>7 DEF RegNext

LEMMA RegStepIsStoreStep ==
    ASSUME RegInv, [RegNext]_regAllVars
    PROVE  [StoreNext]_storeVars /\ StoreInv'
<1>1. [StoreNext]_storeVars
  BY RegStepImplements, PipeStepImplements DEF RegInv
<1> QED
  BY <1>1, StepKeepsInv DEF RegInv

-----------------------------------------------------------------------------
(* What the histories say for good, and of an approved row.                *)

(* The histories only grow.                                                *)
LEMMA HistoryGrows ==
    ASSUME StoreInv, [StoreNext]_storeVars
    PROVE  /\ nextId' \in Nat /\ nextId <= nextId'
           /\ Len(audit) <= Len(audit')
           /\ \A n \in 1 .. Len(audit) : audit'[n] = audit[n]
           /\ \A i \in 1 .. nextId : issued'[i] = issued[i]
<1> USE DEF StoreInv, StoreTypeOK, Ids
<1>1. ASSUME NEW p \in Procs, Enqueue(p)
      PROVE  /\ audit' = audit
             /\ \/ nextId' = nextId /\ issued' = issued
                \/ /\ nextId' = nextId + 1
                   /\ \A i \in 1 .. nextId : issued'[i] = issued[i]
  BY <1>1 DEF Enqueue, EnqueueExisting, EnqueueLookup, EnqueueParent, EnqueueInsert, storeVars
<1>2. ASSUME NEW k \in Keys, Decide(k)
      PROVE  /\ UNCHANGED <<nextId, issued>>
             /\ \E d : audit' = Append(audit, d)
  BY <1>2 DEF Decide, Approve, Reject, Revoke, Record
<1>3. CASE (\E id \in launched : RunHook(id)) \/ Crash \/ UNCHANGED storeVars
  BY <1>3 DEF RunHook, Crash, storeVars
<1>4. nextId \in Nat /\ Len(audit) \in Nat
  BY BoundAssumption
<1>5. CASE \E p \in Procs : Enqueue(p)
  BY <1>1, <1>4, <1>5
<1>6. CASE \E k \in Keys : Decide(k)
  <2>1. PICK d : audit' = Append(audit, d)
    BY <1>2, <1>6
  <2>2. audit \in Seq(Decision)
    OBVIOUS
  <2>3. /\ Len(audit) <= Len(audit')
        /\ \A n \in 1 .. Len(audit) : audit'[n] = audit[n]
    BY <1>4, <2>1, <2>2
  <2>4. UNCHANGED <<nextId, issued>>
    BY <1>2, <1>6
  <2> QED
    BY <1>4, <2>3, <2>4
<1> QED
  BY <1>3, <1>4, <1>5, <1>6 DEF StoreNext

LEMMA IssuedAreIds == \A n \in Ids \union {0} : n \in Nat /\ 1 .. n \subseteq Ids
  BY BoundAssumption DEF Ids

(* A recorded approval stays one.                                          *)
LEMMA RecordStays ==
    ASSUME StoreInv, [StoreNext]_storeVars, NEW k \in Keys, Recorded(k, audit, issued)
    PROVE  Recorded(k, audit', issued')
<1>1. PICK a \in {k} \union Above(k), n \in 1 .. Len(audit) :
         audit[n].action = "approved" /\ issued[audit[n].id].key = a
  BY DEF Recorded
<1>2. audit[n].id \in 1 .. nextId
  BY DEF StoreInv, AuditNamesIssued
<1>3. Len(audit) \in Nat /\ Len(audit') \in Nat
  BY StepKeepsInv DEF StoreInv, StoreTypeOK
<1>4. n \in 1 .. Len(audit') /\ audit'[n] = audit[n] /\ issued'[audit'[n].id].key = a
  BY <1>1, <1>2, <1>3, HistoryGrows
<1> QED
  BY <1>1, <1>4 DEF Recorded

LEMMA ApprovedIsRecorded ==
    ASSUME StoreInv, NEW k \in Keys, IsApproved(k)
    PROVE  Recorded(k, audit, issued)
  BY DEF StoreInv, ApprovalHasSource, IsApproved, Granted, Recorded

-----------------------------------------------------------------------------
(* A handler moves on, or answers.                                         *)

(* The part of a step on one client: what its new state must satisfy.      *)
LEMMA ClientMoves ==
    ASSUME RegInv, [StoreNext]_storeVars, StoreInv',
           NEW c \in Clients, NEW new \in ClientState,
           client' = [client EXCEPT ![c] = new],
           cache' \in [Keys -> Versions \union {NoVersion}],
           subs' \in [Ids -> SUBSET Clients],
           pulls' \subseteq Keys,
           requests' \in 0 .. MaxRequests,
           new.pc \in HasId => new.id \in 1 .. nextId',
           new.pc \in HasVersion => new.ver \in Versions,
           new.pc \in Checked \/ new.got \in Versions => Recorded(new.key, audit, issued)
    PROVE  RegInv'
<1> USE DEF RegInv, RegTypeOK
<1>1. client' \in [Clients -> ClientState]
  OBVIOUS
<1>2. ASSUME NEW d \in Clients
      PROVE  /\ client'[d].pc \in HasId => client'[d].id \in 1 .. nextId'
             /\ client'[d].pc \in HasVersion => client'[d].ver \in Versions
             /\ client'[d].pc \in Checked \/ client'[d].got \in Versions => Recorded(client'[d].key, audit', issued')
  <2>1. CASE d = c
    <3>1. new.key \in Keys
      BY DEF ClientState
    <3> QED
      BY <2>1, <3>1, RecordStays
  <2>2. CASE d # c
    <3>1. client'[d] = client[d] /\ client[d].key \in Keys
      BY <2>2 DEF ClientState
    <3>2. client[d].pc \in HasId => client[d].id \in 1 .. nextId'
      BY HistoryGrows DEF StoreInv, StoreTypeOK, Ids
    <3>3. client[d].pc \in Checked \/ client[d].got \in Versions => Recorded(client[d].key, audit', issued')
      BY <3>1, RecordStays DEF CheckedIsCovered
    <3> QED
      BY <3>1, <3>2, <3>3
  <2> QED
    BY <2>1, <2>2
<1>3. CheckedIsCovered'
  BY <1>2 DEF CheckedIsCovered
<1> QED
  BY <1>1, <1>2, <1>3

LEMMA GotoKeeps ==
    ASSUME RegInv, [StoreNext]_storeVars, StoreInv',
           NEW c \in Clients, NEW pc \in ClientPc, Goto(c, pc),
           cache' \in [Keys -> Versions \union {NoVersion}],
           subs' \in [Ids -> SUBSET Clients],
           pulls' \subseteq Keys, requests' = requests,
           pc \in HasId => client[c].pc \in HasId,
           pc \in HasVersion => client[c].pc \in HasVersion,
           pc \in Checked => client[c].pc \in Checked \/ IsApproved(client[c].key)
    PROVE  RegInv'
<1> DEFINE new == [client[c] EXCEPT !.pc = pc]
<1>1. client[c] \in ClientState /\ client[c].key \in Keys
  BY DEF RegInv, RegTypeOK, ClientState
<1>2. new \in ClientState /\ client' = [client EXCEPT ![c] = new]
  BY <1>1 DEF ClientState, Goto
<1>3. new.pc = pc /\ new.key = client[c].key /\ new.got = client[c].got
      /\ new.id = client[c].id /\ new.ver = client[c].ver
  BY <1>1 DEF ClientState
<1>4. new.pc \in HasId => new.id \in 1 .. nextId'
  BY <1>3, HistoryGrows DEF RegInv, RegTypeOK, StoreInv, StoreTypeOK, Ids
<1>5. new.pc \in HasVersion => new.ver \in Versions
  BY <1>3 DEF RegInv, RegTypeOK
<1>6. new.pc \in Checked \/ new.got \in Versions => Recorded(new.key, audit, issued)
  BY <1>1, <1>3, ApprovedIsRecorded DEF RegInv, CheckedIsCovered
<1>7. requests' \in 0 .. MaxRequests
  BY DEF RegInv, RegTypeOK
<1> HIDE DEF new
<1> QED
  BY <1>2, <1>4, <1>5, <1>6, <1>7, ClientMoves

LEMMA NoClientType == NoClient \in ClientState /\ Failed \notin Versions /\ Pending \notin Versions
  BY RegistryAssumption DEF NoClient, ClientState, ClientPc, NoId

LEMMA RespondKeeps ==
    ASSUME RegInv, [StoreNext]_storeVars, StoreInv',
           NEW c \in Clients, NEW answer \in Versions \union {Pending, Failed},
           Respond(c, answer),
           cache' \in [Keys -> Versions \union {NoVersion}],
           pulls' \subseteq Keys, requests' = requests,
           answer \in Versions => Recorded(client[c].key, audit, issued)
    PROVE  RegInv'
<1> DEFINE new == [NoClient EXCEPT !.key = client[c].key, !.got = answer]
<1>1. client[c] \in ClientState /\ client[c].key \in Keys /\ client[c].id \in Ids \union {NoId}
  BY DEF RegInv, RegTypeOK, ClientState
<1>2. new \in ClientState /\ client' = [client EXCEPT ![c] = new]
  BY <1>1, NoClientType DEF ClientState, Respond
<1>3. new.pc = "idle" /\ new.key = client[c].key /\ new.got = answer
  BY DEF NoClient
<1>4. new.pc \notin HasId /\ new.pc \notin HasVersion /\ new.pc \notin Checked
  BY <1>3 DEF HasId, Waiting, HasVersion, Checked
<1>5. subs' \in [Ids -> SUBSET Clients]
  BY <1>1 DEF RegInv, RegTypeOK, Respond
<1>6. requests' \in 0 .. MaxRequests
  BY DEF RegInv, RegTypeOK
<1> HIDE DEF new
<1> QED
  BY <1>2, <1>3, <1>4, <1>5, <1>6, ClientMoves

-----------------------------------------------------------------------------
(* Each step of the proxy keeps the invariant.                             *)

LEMMA AskKeeps ==
    ASSUME RegInv, [StoreNext]_storeVars, StoreInv',
           NEW c \in Clients,
           AskApproved(c) \/ Decide1(c) \/ FirstCheck(c)
    PROVE  RegInv'
<1> USE DEF Ask, At
<1>1. /\ UNCHANGED <<cache, subs, pulls, requests>>
      /\ cache' \in [Keys -> Versions \union {NoVersion}]
      /\ subs' \in [Ids -> SUBSET Clients] /\ pulls' \subseteq Keys
  BY DEF AskApproved, Decide1, FirstCheck, RegInv, RegTypeOK
<1>2. CASE AskApproved(c)
  <2>1. CASE IsApproved(client[c].key)
    BY <1>1, <1>2, <2>1, GotoKeeps DEF AskApproved, ClientPc, HasId, HasVersion, Waiting
  <2>2. CASE ~ IsApproved(client[c].key)
    BY <1>1, <1>2, <2>2, GotoKeeps DEF AskApproved, ClientPc, HasId, HasVersion, Waiting, Checked
  <2> QED
    BY <2>1, <2>2
<1>3. CASE Decide1(c)
  <2>1. CASE IsApproved(client[c].key)
    BY <1>1, <1>3, <2>1, GotoKeeps DEF Decide1, ClientPc, HasId, HasVersion, Waiting
  <2>2. CASE ~ IsApproved(client[c].key)
    BY <1>1, <1>3, <2>2, GotoKeeps DEF Decide1, ClientPc, HasId, HasVersion, Waiting, Checked
  <2> QED
    BY <2>1, <2>2
<1>4. CASE FirstCheck(c)
  <2>1. CASE IsApproved(client[c].key)
    BY <1>1, <1>4, <2>1, GotoKeeps DEF FirstCheck, ClientPc, HasId, HasVersion, Waiting
  <2>2. CASE ~ IsApproved(client[c].key)
    BY <1>1, <1>4, <2>2, GotoKeeps DEF FirstCheck, ClientPc, HasId, HasVersion, Waiting, Checked
  <2> QED
    BY <2>1, <2>2
<1> QED
  BY <1>2, <1>3, <1>4

(* The handlers that serve what the cache holds.                           *)
LEMMA ServeKeeps ==
    ASSUME RegInv, [StoreNext]_storeVars, StoreInv',
           NEW c \in Clients,
           ShortServe(c) \/ ServeCached(c) \/ Fetch(c) \/ ServeDirectly(c)
    PROVE  RegInv'
<1> USE DEF At
<1>1. /\ client[c].key \in Keys
      /\ cache[client[c].key] \in Versions \union {NoVersion}
      /\ cache \in [Keys -> Versions \union {NoVersion}]
      /\ subs \in [Ids -> SUBSET Clients] /\ pulls \subseteq Keys
  BY DEF RegInv, RegTypeOK, ClientState
<1>2. client[c].pc \in Checked => Recorded(client[c].key, audit, issued)
  BY DEF RegInv, CheckedIsCovered
<1>3. UNCHANGED <<pulls, requests>>
  BY DEF ShortServe, ServeCached, Fetch, ServeDirectly
<1>4. Failed \notin Versions /\ Pending \notin Versions
  BY NoClientType
<1>5. CASE ShortServe(c)
  <2>1. CASE cache[client[c].key] = NoVersion
    BY <1>1, <1>3, <1>5, <2>1, GotoKeeps DEF ShortServe, ClientPc, HasId, HasVersion, Waiting, Checked
  <2>2. CASE cache[client[c].key] # NoVersion
    BY <1>1, <1>2, <1>3, <1>5, <2>2, RespondKeeps DEF ShortServe, Checked
  <2> QED
    BY <2>1, <2>2
<1>6. CASE ServeCached(c)
  <2>1. CASE cache[client[c].key] = NoVersion
    BY <1>1, <1>3, <1>6, <2>1, GotoKeeps DEF ServeCached, ClientPc, HasId, HasVersion, Waiting, Checked
  <2>2. CASE cache[client[c].key] # NoVersion
    BY <1>1, <1>2, <1>3, <1>6, <2>2, RespondKeeps DEF ServeCached, Checked
  <2> QED
    BY <2>1, <2>2
<1>7. CASE Fetch(c)
  BY <1>1, <1>2, <1>3, <1>4, <1>7, RespondKeeps DEF Fetch, Checked
<1>8. CASE ServeDirectly(c)
  <2>1. client[c].ver \in Versions
    BY <1>8 DEF ServeDirectly, RegInv, RegTypeOK, HasVersion
  <2>2. cache' \in [Keys -> Versions \union {NoVersion}]
    BY <1>1, <1>8, <2>1 DEF ServeDirectly, CacheSet
  <2> QED
    BY <1>1, <1>2, <1>3, <1>4, <1>8, <2>1, <2>2, RespondKeeps DEF ServeDirectly, Checked
<1> QED
  BY <1>5, <1>6, <1>7, <1>8

(* The handlers that go on or answer without bytes.                        *)
LEMMA OtherKeeps ==
    ASSUME RegInv, [StoreNext]_storeVars, StoreInv',
           NEW c \in Clients,
           \/ AskScanned(c) \/ Decide2(c) \/ ValidateAndCache(c) \/ Subscribe(c)
           \/ SecondCheck(c) \/ Wake(c) \/ Disconnect(c)
    PROVE  RegInv'
<1> USE DEF At
<1>1. /\ client[c].key \in Keys /\ client[c].id \in Ids \union {NoId}
      /\ cache \in [Keys -> Versions \union {NoVersion}]
      /\ subs \in [Ids -> SUBSET Clients] /\ pulls \subseteq Keys
  BY DEF RegInv, RegTypeOK, ClientState
<1>2. UNCHANGED <<pulls, requests>>
  BY DEF AskScanned, Decide2, ValidateAndCache, Subscribe, SecondCheck, Wake, Disconnect
<1>3. Failed \notin Versions /\ Pending \notin Versions
  BY NoClientType
<1>4. CASE AskScanned(c)
  <2>1. CASE Goto(c, "subscribe") /\ UNCHANGED subs
    BY <1>1, <1>2, <1>4, <2>1, GotoKeeps DEF AskScanned, ClientPc, HasId, HasVersion, Waiting, Checked
  <2>2. CASE Respond(c, Pending)
    BY <1>1, <1>2, <1>3, <1>4, <2>2, RespondKeeps DEF AskScanned
  <2> QED
    BY <1>4, <2>1, <2>2 DEF AskScanned
<1>5. CASE Decide2(c)
  <2>1. CASE Goto(c, "validate") /\ UNCHANGED subs
    BY <1>1, <1>2, <1>5, <2>1, GotoKeeps DEF Decide2, ClientPc, HasId, HasVersion, Waiting, Checked
  <2>2. CASE Respond(c, Pending)
    BY <1>1, <1>2, <1>3, <1>5, <2>2, RespondKeeps DEF Decide2
  <2> QED
    BY <1>5, <2>1, <2>2 DEF Decide2
<1>6. CASE ValidateAndCache(c)
  <2>1. CASE Goto(c, "enqueue") /\ CacheSet(c) /\ UNCHANGED subs
    <3>1. client[c].ver \in Versions
      BY <1>6 DEF ValidateAndCache, RegInv, RegTypeOK, HasVersion
    <3>2. cache' \in [Keys -> Versions \union {NoVersion}]
      BY <1>1, <2>1, <3>1 DEF CacheSet
    <3> QED
      BY <1>1, <1>2, <1>6, <2>1, <3>2, GotoKeeps
      DEF ValidateAndCache, ClientPc, HasId, HasVersion, Waiting, Checked
  <2>2. CASE Respond(c, Failed) /\ UNCHANGED cache
    BY <1>1, <1>2, <1>3, <2>2, RespondKeeps
  <2> QED
    BY <1>6, <2>1, <2>2 DEF ValidateAndCache
<1>7. CASE Subscribe(c)
  <2>1. subs' \in [Ids -> SUBSET Clients]
    BY <1>1, <1>7 DEF Subscribe
  <2> QED
    BY <1>1, <1>2, <1>7, <2>1, GotoKeeps DEF Subscribe, ClientPc, HasId, HasVersion, Waiting, Checked
<1>8. CASE SecondCheck(c)
  <2>1. CASE Goto(c, "select") /\ UNCHANGED subs
    BY <1>1, <1>2, <1>8, <2>1, GotoKeeps DEF SecondCheck, ClientPc, HasId, HasVersion, Waiting, Checked
  <2>2. CASE Respond(c, Pending)
    BY <1>1, <1>2, <1>3, <1>8, <2>2, RespondKeeps DEF SecondCheck
  <2> QED
    BY <1>8, <2>1, <2>2 DEF SecondCheck
<1>9. CASE Wake(c)
  BY <1>1, <1>2, <1>9, GotoKeeps DEF Wake, ClientPc, HasId, HasVersion, Waiting, Checked
<1>10. CASE Disconnect(c)
  BY <1>1, <1>2, <1>3, <1>10, RespondKeeps DEF Disconnect
<1> QED
  BY <1>4, <1>5, <1>6, <1>7, <1>8, <1>9, <1>10

LEMMA LastCheckKeeps ==
    ASSUME RegInv, [StoreNext]_storeVars, StoreInv', NEW c \in Clients, LastCheck(c)
    PROVE  RegInv'
<1>1. /\ client[c].key \in Keys
      /\ cache \in [Keys -> Versions \union {NoVersion}]
      /\ subs \in [Ids -> SUBSET Clients] /\ pulls \subseteq Keys
  BY DEF RegInv, RegTypeOK, ClientState
<1>2. CASE IsApproved(client[c].key)
  BY <1>1, <1>2, GotoKeeps DEF LastCheck, At, ClientPc, HasId, HasVersion, Waiting
<1>3. CASE ~ IsApproved(client[c].key)
  BY <1>1, <1>3, RespondKeeps, NoClientType DEF LastCheck
<1> QED
  BY <1>2, <1>3

LEMMA AskPendingKeeps ==
    ASSUME RegInv, [StoreNext]_storeVars, StoreInv', NEW c \in Clients, AskPending(c)
    PROVE  RegInv'
<1>1. /\ client[c] \in ClientState /\ client[c].key \in Keys
      /\ cache \in [Keys -> Versions \union {NoVersion}]
      /\ subs \in [Ids -> SUBSET Clients] /\ pulls \subseteq Keys /\ requests \in 0 .. MaxRequests
  BY DEF RegInv, RegTypeOK, ClientState
<1>2. CASE IsPending(client[c].key) /\ cache[client[c].key] # NoVersion
  <2> DEFINE new == [client[c] EXCEPT !.pc = "scanned?", !.id = rows[client[c].key].id]
  <2>1. rows[client[c].key].id \in 1 .. nextId /\ rows[client[c].key].id \in Ids
    BY <1>1, <1>2, IssuedAreIds DEF IsPending, RegInv, StoreInv, IdNamesItsRow, StoreTypeOK
  <2>2. new \in ClientState /\ client' = [client EXCEPT ![c] = new]
    BY <1>1, <1>2, <2>1 DEF AskPending, At, ClientState, ClientPc
  <2>3. new.pc = "scanned?" /\ new.id \in 1 .. nextId' /\ new.key = client[c].key
        /\ new.got = client[c].got
    BY <1>1, <2>1, HistoryGrows DEF ClientState, RegInv, StoreInv, StoreTypeOK, Ids
  <2>4. new.pc \notin HasVersion /\ new.pc \notin Checked
    BY <2>3 DEF HasVersion, Checked
  <2>5. new.got \in Versions => Recorded(new.key, audit, issued)
    BY <2>3 DEF RegInv, CheckedIsCovered
  <2>6. UNCHANGED <<cache, subs, pulls, requests>>
    BY DEF AskPending
  <2> HIDE DEF new
  <2> QED
    BY <1>1, <2>2, <2>3, <2>4, <2>5, <2>6, ClientMoves
<1>3. CASE ~ (IsPending(client[c].key) /\ cache[client[c].key] # NoVersion)
  BY <1>1, <1>3, GotoKeeps DEF AskPending, Goto, ClientPc, HasId, HasVersion, Waiting, Checked
<1> QED
  BY <1>2, <1>3

LEMMA ResolveKeeps ==
    ASSUME RegInv, [StoreNext]_storeVars, StoreInv', NEW c \in Clients, Resolve(c)
    PROVE  RegInv'
<1>1. /\ client[c] \in ClientState /\ client[c].key \in Keys
      /\ cache \in [Keys -> Versions \union {NoVersion}]
      /\ subs \in [Ids -> SUBSET Clients] /\ pulls \subseteq Keys /\ requests \in 0 .. MaxRequests
  BY DEF RegInv, RegTypeOK, ClientState
<1>2. UNCHANGED <<cache, pulls, requests>>
  BY DEF Resolve
<1>3. CASE Respond(c, Failed)
  BY <1>1, <1>2, <1>3, RespondKeeps, NoClientType
<1>4. ASSUME NEW v \in Versions,
             client' = [client EXCEPT ![c].pc = "decide", ![c].ver = v], UNCHANGED subs
      PROVE  RegInv'
  <2> DEFINE new == [client[c] EXCEPT !.pc = "decide", !.ver = v]
  <2>1. new \in ClientState /\ client' = [client EXCEPT ![c] = new]
    BY <1>1, <1>4 DEF ClientState, ClientPc
  <2>2. new.pc = "decide" /\ new.ver \in Versions /\ new.key = client[c].key
        /\ new.got = client[c].got
    BY <1>1 DEF ClientState
  <2>3. new.pc \notin HasId /\ new.pc \notin Checked
    BY <2>2 DEF HasId, Waiting, Checked
  <2>4. new.got \in Versions => Recorded(new.key, audit, issued)
    BY <2>2 DEF RegInv, CheckedIsCovered
  <2> HIDE DEF new
  <2> QED
    BY <1>1, <1>2, <1>4, <2>1, <2>2, <2>3, <2>4, ClientMoves
<1> QED
  BY <1>3, <1>4 DEF Resolve

LEMMA ClientEnqueueKeeps ==
    ASSUME RegInv, [StoreNext]_storeVars, StoreInv', NEW c \in Clients, ClientEnqueue(c)
    PROVE  RegInv'
<1>1. /\ client[c] \in ClientState /\ client[c].key \in Keys
      /\ client \in [Clients -> ClientState]
      /\ cache \in [Keys -> Versions \union {NoVersion}]
      /\ subs \in [Ids -> SUBSET Clients] /\ pulls \subseteq Keys /\ requests \in 0 .. MaxRequests
  BY DEF RegInv, RegTypeOK, ClientState
<1>2. UNCHANGED <<cache, subs, pulls, requests>>
  BY DEF ClientEnqueue
<1>0. client[c].ver \in Versions
  BY DEF ClientEnqueue, At, HasVersion, RegInv, RegTypeOK
<1>3. ASSUME NEW i \in 1 .. nextId',
             client' = [client EXCEPT ![c].pc = "inherited?", ![c].id = i],
             client[c].ver \in Versions
      PROVE  RegInv'
  <2> DEFINE new == [client[c] EXCEPT !.pc = "inherited?", !.id = i]
  <2>1. i \in Ids
    BY <1>3, IssuedAreIds DEF StoreInv, StoreTypeOK
  <2>2. new \in ClientState /\ client' = [client EXCEPT ![c] = new]
    BY <1>1, <1>3, <2>1 DEF ClientState, ClientPc
  <2>3. new.pc = "inherited?" /\ new.id \in 1 .. nextId' /\ new.key = client[c].key
        /\ new.got = client[c].got /\ new.ver \in Versions
    BY <1>1, <1>3 DEF ClientState
  <2>4. new.pc \notin Checked
    BY <2>3 DEF Checked
  <2>5. new.got \in Versions => Recorded(new.key, audit, issued)
    BY <2>3 DEF RegInv, CheckedIsCovered
  <2> HIDE DEF new
  <2> QED
    BY <1>1, <1>2, <2>2, <2>3, <2>4, <2>5, ClientMoves
<1>4. CASE /\ EnqueueExisting(c, client[c].key)
           /\ client' = [client EXCEPT ![c].pc = "inherited?", ![c].id = rows[client[c].key].id]
  <2>1. rows[client[c].key].id \in 1 .. nextId
    BY <1>1, <1>4 DEF EnqueueExisting, Live, RegInv, StoreInv, IdNamesItsRow
  <2>2. rows[client[c].key].id \in 1 .. nextId'
    BY <2>1, HistoryGrows DEF RegInv, StoreInv, StoreTypeOK, Ids
  <2> QED
    BY <1>0, <1>3, <1>4, <2>2
<1>5. CASE EnqueueInsert(c) /\ client' = [client EXCEPT ![c].pc = "inherited?", ![c].id = nextId + 1]
  <2>1. nextId + 1 \in 1 .. nextId'
    <3>1. nextId' = nextId + 1 /\ nextId \in Nat
      BY <1>5, IssuedAreIds DEF EnqueueInsert, RegInv, StoreInv, StoreTypeOK
    <3> QED
      BY <3>1
  <2> QED
    BY <1>0, <1>3, <1>5, <2>1
<1>6. CASE UNCHANGED client
  <2>1. client[c] \in ClientState /\ client' = [client EXCEPT ![c] = client[c]]
    BY <1>1, <1>6
  <2>2. client[c].pc = "enqueue"
    BY DEF ClientEnqueue, At
  <2>3. client[c].pc \notin HasId
    BY <2>2 DEF HasId, Waiting
  <2>4. client[c].pc \in HasVersion => client[c].ver \in Versions
    BY DEF RegInv, RegTypeOK
  <2>5. client[c].pc \in Checked \/ client[c].got \in Versions => Recorded(client[c].key, audit, issued)
    BY DEF RegInv, CheckedIsCovered
  <2> QED
    BY <1>1, <1>2, <2>1, <2>3, <2>4, <2>5, ClientMoves
<1> QED
  BY <1>4, <1>5, <1>6 DEF ClientEnqueue

LEMMA AskInheritedKeeps ==
    ASSUME RegInv, [StoreNext]_storeVars, StoreInv', NEW c \in Clients, AskInherited(c)
    PROVE  RegInv'
<1>1. /\ client[c].key \in Keys /\ client[c].ver \in Versions
     
      /\ cache \in [Keys -> Versions \union {NoVersion}]
      /\ subs \in [Ids -> SUBSET Clients] /\ pulls \subseteq Keys
  BY DEF RegInv, RegTypeOK, ClientState, AskInherited, At, HasVersion
<1>2. UNCHANGED <<cache, requests>> /\ pulls' \subseteq Keys
  BY <1>1 DEF AskInherited
<1>3. CASE ~ IsApproved(client[c].key)
  <2>1. CASE Goto(c, "subscribe") /\ UNCHANGED subs
    BY <1>1, <1>2, <2>1, GotoKeeps DEF AskInherited, At, ClientPc, HasId, HasVersion, Waiting, Checked
  <2>2. CASE Respond(c, Pending)
    BY <1>1, <1>2, <2>2, RespondKeeps, NoClientType
  <2> QED
    BY <1>3, <2>1, <2>2 DEF AskInherited
<1>4. CASE IsApproved(client[c].key)
  BY <1>1, <1>2, <1>4, RespondKeeps, ApprovedIsRecorded DEF AskInherited, RegInv
<1> QED
  BY <1>3, <1>4

LEMMA RequestKeeps ==
    ASSUME RegInv, [StoreNext]_storeVars, StoreInv', NEW c \in Clients, NEW k \in Keys, Request(c, k)
    PROVE  RegInv'
<1> DEFINE new == [NoClient EXCEPT !.pc = "approved?", !.key = k]
<1>1. new \in ClientState /\ client' = [client EXCEPT ![c] = new]
  BY NoClientType DEF ClientState, ClientPc, Request
<1>2. new.pc = "approved?" /\ new.got \notin Versions
  BY NoClientType DEF NoClient
<1>3. new.pc \notin HasId /\ new.pc \notin HasVersion /\ new.pc \notin Checked
  BY <1>2 DEF HasId, Waiting, HasVersion, Checked
<1>4. UNCHANGED <<cache, subs, pulls>> /\ requests' \in 0 .. MaxRequests
  BY RegistryAssumption DEF Request, RegInv, RegTypeOK
<1>5. /\ cache \in [Keys -> Versions \union {NoVersion}]
      /\ subs \in [Ids -> SUBSET Clients] /\ pulls \subseteq Keys
  BY DEF RegInv, RegTypeOK
<1> HIDE DEF new
<1> QED
  BY <1>1, <1>2, <1>3, <1>4, <1>5, ClientMoves

(* Steps that leave every handler where it is, or give it a token.         *)
LEMMA OthersKeep ==
    ASSUME RegInv, [StoreNext]_storeVars, StoreInv',
           client' \in [Clients -> ClientState],
           \A c \in Clients :
              /\ client'[c].pc = client[c].pc /\ client'[c].key = client[c].key
              /\ client'[c].ver = client[c].ver /\ client'[c].id = client[c].id
              /\ client'[c].got = client[c].got,
           cache' \in [Keys -> Versions \union {NoVersion}],
           subs' \in [Ids -> SUBSET Clients],
           pulls' \subseteq Keys, requests' = requests
    PROVE  RegInv'
<1>1. ASSUME NEW c \in Clients
      PROVE  /\ client'[c].pc \in HasId => client'[c].id \in 1 .. nextId'
             /\ client'[c].pc \in HasVersion => client'[c].ver \in Versions
             /\ client'[c].pc \in Checked \/ client'[c].got \in Versions =>
                   Recorded(client'[c].key, audit', issued')
  <2>1. client[c].key \in Keys
    BY DEF RegInv, RegTypeOK, ClientState
  <2>2. client[c].pc \in HasId => client[c].id \in 1 .. nextId'
    BY HistoryGrows DEF RegInv, RegTypeOK, StoreInv, StoreTypeOK, Ids
  <2>3. client[c].pc \in HasVersion => client[c].ver \in Versions
    BY DEF RegInv, RegTypeOK
  <2>4. client[c].pc \in Checked \/ client[c].got \in Versions =>
           Recorded(client[c].key, audit', issued')
    BY <2>1, RecordStays DEF RegInv, CheckedIsCovered
  <2> QED
    BY <2>2, <2>3, <2>4
<1>2. requests' \in 0 .. MaxRequests
  BY DEF RegInv, RegTypeOK
<1>3. RegTypeOK'
  BY <1>1, <1>2 DEF RegTypeOK
<1>4. CheckedIsCovered'
  BY <1>1 DEF CheckedIsCovered
<1> QED
  BY <1>3, <1>4 DEF RegInv

LEMMA RestartKeeps ==
    ASSUME RegInv, StoreInv', ProxyRestart
    PROVE  RegInv'
<1>1. client' = [c \in Clients |-> NoClient] /\ subs' = [i \in Ids |-> {}] /\ pulls' = {}
      /\ UNCHANGED <<cache, requests>>
  BY DEF ProxyRestart
<1>2. NoClient.pc = "idle" /\ NoClient.got \notin Versions
  BY NoClientType DEF NoClient
<1>3. NoClient.pc \notin HasId /\ NoClient.pc \notin HasVersion /\ NoClient.pc \notin Checked
  BY <1>2 DEF HasId, Waiting, HasVersion, Checked
<1>4. RegTypeOK'
  BY <1>1, <1>3, NoClientType DEF RegInv, RegTypeOK
<1>5. CheckedIsCovered'
  BY <1>1, <1>2, <1>3 DEF CheckedIsCovered
<1> QED
  BY <1>4, <1>5 DEF RegInv

LEMMA RegStepKeeps ==
    ASSUME RegInv, [RegNext]_regAllVars
    PROVE  RegInv'
<1>1. [StoreNext]_storeVars /\ StoreInv'
  BY RegStepIsStoreStep
<1>2. /\ client \in [Clients -> ClientState]
      /\ cache \in [Keys -> Versions \union {NoVersion}]
      /\ subs \in [Ids -> SUBSET Clients] /\ pulls \subseteq Keys
  BY DEF RegInv, RegTypeOK
<1>3. CASE \E c \in Clients, k \in Keys : Request(c, k)
  BY <1>1, <1>3, RequestKeeps
<1>4. CASE \E c \in Clients : Handle(c) \/ Disconnect(c)
  BY <1>1, <1>4, AskKeeps, ServeKeeps, OtherKeeps, LastCheckKeeps, AskPendingKeeps, ResolveKeeps,
     ClientEnqueueKeeps, AskInheritedKeeps DEF Handle
<1>5. CASE \E p \in Procs : PrefetchEnqueue(p) \/ \E k \in Keys : Prefetch(p, k)
  <2>1. /\ UNCHANGED <<client, subs, requests>> /\ pulls' \subseteq Keys
        /\ cache' \in [Keys -> Versions \union {NoVersion}]
    BY <1>2, <1>5 DEF PrefetchEnqueue, Prefetch, regVars
  <2> QED
    BY <1>1, <1>2, <2>1, OthersKeep
<1>6. CASE \E j \in Jobs : Notify(j)
  <2>1. PICK j \in Jobs : Notify(j)
    BY <1>6
  <2>2. UNCHANGED <<cache, pulls, requests>> /\ subs' \in [Ids -> SUBSET Clients]
    BY <1>2, <2>1 DEF Notify
  <2>3. /\ client' \in [Clients -> ClientState]
        /\ \A c \in Clients :
              /\ client'[c].pc = client[c].pc /\ client'[c].key = client[c].key
              /\ client'[c].ver = client[c].ver /\ client'[c].id = client[c].id
              /\ client'[c].got = client[c].got
    <3>1. client' = [c \in Clients |-> IF c \in subs[j[1]] THEN [client[c] EXCEPT !.token = TRUE]
                                                          ELSE client[c]]
      BY <2>1 DEF Notify
    <3>2. client \in [Clients -> ClientState]
      BY <1>2
    <3>3. ASSUME NEW c \in Clients
          PROVE  /\ client'[c] \in ClientState
                 /\ client'[c].pc = client[c].pc /\ client'[c].key = client[c].key
                 /\ client'[c].ver = client[c].ver /\ client'[c].id = client[c].id
                 /\ client'[c].got = client[c].got
      <4>1. client[c] \in ClientState
        BY <3>2
      <4>2. client'[c] = client[c] \/ client'[c] = [client[c] EXCEPT !.token = TRUE]
        BY <3>1
      <4> QED
        BY <4>1, <4>2 DEF ClientState
    <3> QED
      BY <3>1, <3>3
  <2> QED
    BY <1>1, <1>2, <2>2, <2>3, OthersKeep
<1>7. CASE (Background /\ UNCHANGED regVars) \/ UNCHANGED regAllVars
  <2>1. UNCHANGED regVars
    BY <1>7 DEF regAllVars
  <2> QED
    BY <1>1, <1>2, <2>1, OthersKeep DEF regVars
<1>8. CASE ProxyRestart
  BY <1>1, <1>8, RestartKeeps
<1> QED
  BY <1>3, <1>4, <1>5, <1>6, <1>7, <1>8 DEF RegNext

LEMMA RegInitKeeps == RegInit => RegInv
<1> SUFFICES ASSUME RegInit PROVE RegInv
  OBVIOUS
<1>1. StoreInv
  BY InitHasInv DEF RegInit, PipeInit
<1>2. NoClient.pc = "idle" /\ NoClient.got \notin Versions
  BY NoClientType DEF NoClient
<1>3. NoClient.pc \notin HasId /\ NoClient.pc \notin HasVersion /\ NoClient.pc \notin Checked
  BY <1>2 DEF HasId, Waiting, HasVersion, Checked
<1>4. RegTypeOK
  BY <1>3, NoClientType, RegistryAssumption DEF RegInit, RegTypeOK
<1>5. CheckedIsCovered
  BY <1>2, <1>3 DEF RegInit, CheckedIsCovered
<1> QED
  BY <1>1, <1>4, <1>5 DEF RegInv

LEMMA RegInvHolds == RegSpec => []RegInv
<1>1. RegInv /\ [RegNext]_regAllVars => RegInv'
  BY RegStepKeeps
<1> QED
  BY <1>1, RegInitKeeps, PTL DEF RegSpec

-----------------------------------------------------------------------------
(* The proxy implements the pipeline, and with it the store                *)
(* (core/registry.go over cmd/root.go and core/quarantine.go).             *)
THEOREM RegistryImplementsPipe == RegSpec => PipeSpec
<1>1. RegInit => PipeInit
  BY DEF RegInit
<1>2. RegInv /\ [RegNext]_regAllVars => [PipeNext]_allVars
  BY RegStepImplements DEF RegInv
<1> QED
  BY <1>1, <1>2, RegInvHolds, PTL DEF RegSpec, PipeSpec

(* The handlers, the cache and the subscriptions keep their shapes.        *)
THEOREM RegTypeCorrect == RegSpec => []RegTypeOK
<1>1. RegInv => RegTypeOK
  BY DEF RegInv
<1> QED
  BY <1>1, RegInvHolds, PTL

(* Nobody is given an artifact that no decision ever let through           *)
(* (registry.go:102-222).                                                  *)
THEOREM ServedIsGranted == RegSpec => []ServedWasGranted
<1>1. RegInv => ServedWasGranted
  BY DEF RegInv, CheckedIsCovered, ServedWasGranted, Covered, Granted, Recorded
<1> QED
  BY <1>1, RegInvHolds, PTL

(* An artifact flagged for human review is approved by a human or not at   *)
(* all, with every client, hook and prefetch at work (README.md:707).      *)
THEOREM ProxyHumanGate == RegSpec => []HumanGate
  BY RegistryImplementsPipe, PipeHumanGate, PTL

-----------------------------------------------------------------------------
(* Waiting for a scan.  A handler that has subscribed and has no token is  *)
(* still in the list, and before it sleeps a notifier was due, which stays *)
(* so until the token comes.                                               *)

Subscribed == {"subscribed", "recheck", "select"}

(* What a handler c in the state h knows, with the lists of waiters: it    *)
(* waits only if there is a hook, is in the list of the request it waits   *)
(* for until it has its token, and in no other list.                       *)
Sound(c, h, lists) ==
    /\ h.pc # "idle" => h.key \in RootKeys
    /\ h.pc \in Subscribed \union {"subscribe"} => HasHook
    /\ \A i \in Ids : c \in lists[i] => h.id = i /\ h.pc \in Waiting \union {"fetch"}
    /\ h.pc \in Subscribed /\ ~ h.token => c \in lists[h.id]

(* Somebody will notify i; the list of the restart takes it up only while  *)
(* its scan is not done.                                                   *)
NotifierDue(i) ==
    \/ i \in launched
    \/ \E l \in Launcher : job[<<i, l>>].pc # "none"
    \/ \E req \in resume.todo : req.id = i
    \/ resume.pc = "list" /\ scan[i] # "done"

Attended(i, k) == NotifierDue(i) \/ (crashes > 0 /\ rows[k].id # i)

(* The id was issued for the key, and the handler does not sleep in vain.  *)
Served(h) ==
    /\ h.pc \in HasId => issued[h.id].key = h.key
    /\ h.pc = "select" /\ ~ h.token => Attended(h.id, h.key)

WaitInv ==
    /\ PipeInv
    /\ RegInv
    /\ \A c \in Clients : Sound(c, client[c], subs) /\ Served(client[c])

(* When the second check finds the scan not done, a notifier is due.       *)
LEMMA UndoneIsAttended ==
    ASSUME PipeInv, HasHook, NEW i \in 1 .. nextId, NEW k \in RootKeys,
           issued[i].key = k, scan[i] # "done"
    PROVE  Attended(i, k)
<1>1. k \in Keys /\ i \in Ids /\ i # NoId
  BY PipeShapes, BoundAssumption DEF RootKeys, Ids, NoId
<1>2. CASE rows[k].id = i
  <2>1. rows[k].status # "absent"
    BY <1>1, <1>2 DEF PipeInv, AbsentHasNoId
  <2>2. ScanOwned(i)
    BY <1>2, <2>1 DEF PipeInv, UnscannedIsOwned
  <2> QED
    BY <2>2 DEF ScanOwned, Attended, NotifierDue
<1>3. CASE rows[k].id # i /\ crashes = 0
  BY <1>3 DEF PipeInv, IssuedIsOwned, InHand, Attended, NotifierDue
<1>4. CASE rows[k].id # i /\ crashes # 0
  BY <1>4, PipelineAssumption DEF PipeInv, PipeTypeOK, Attended
<1> QED
  BY <1>2, <1>3, <1>4

(* A hook at work does not end, and touches no other hook.                 *)
LEMMA HookWorkEffect ==
    ASSUME PipeInv, NEW j \in Jobs, HookWork(j)
    PROVE  /\ job' \in [Jobs -> JobState] /\ job'[j].pc # "none"
           /\ \A o \in Jobs : o # j => job'[o] = job[o]
           /\ launched \subseteq launched' \union {j[1]}
           /\ \A i \in Ids : i # j[1] => scan'[i] = scan[i]
           /\ UNCHANGED <<resume, crashes, issued, nextId>>
           /\ \A k \in Keys : rows'[k].id = rows[k].id
<1>1. /\ job \in [Jobs -> JobState] /\ job[j] \in JobState
      /\ scan \in [Ids -> {"none", "scanning", "done"}]
      /\ j[1] \in Ids /\ j = <<j[1], j[2]>>
  BY PipeShapes
<1>2. CASE j[2] = "enqueue" /\ HookStart(j[1])
  <2>1. /\ j = <<j[1], "enqueue">> /\ j[1] \in 1 .. nextId
        /\ job' = [job EXCEPT ![<<j[1], "enqueue">>] =
                     [pc |-> "scan", human |-> issued[j[1]].human, found |-> {}]]
    BY <1>1, <1>2 DEF HookStart, RunHook, PipeInv, StoreInv, StoreTypeOK
  <2>2. [pc |-> "scan", human |-> issued[j[1]].human, found |-> {}] \in JobState
    BY <2>1, PipeShapes DEF JobState, Artifact
  <2>3. /\ job' \in [Jobs -> JobState] /\ job'[j].pc # "none"
        /\ \A o \in Jobs : o # j => job'[o] = job[o]
    BY <1>1, <2>1, <2>2
  <2> QED
    BY <1>1, <1>2, <2>3 DEF HookStart, RunHook
<1>3. CASE ResumedHookStart(j) \/ HookScan(j) \/ HookMark(j) \/ HookDecide(j) \/ HookApprove(j)
  <2>1. /\ UNCHANGED <<issued, nextId, launched, resume, crashes>>
        /\ \A k \in Keys : rows'[k].id = rows[k].id
    BY <1>3, AutoApproveIsDecision, DecideEffect
    DEF ResumedHookStart, HookScan, HookMark, HookDecide, HookApprove, PipeInv, storeVars
  <2>2. \A i \in Ids : i # j[1] => scan'[i] = scan[i]
    BY <1>1, <1>3 DEF ResumedHookStart, HookScan, HookMark, HookDecide, HookApprove
  <2>3. PICK pc \in {"scan", "mark", "decide", "approve", "notify"} :
           /\ job'[j].pc = pc /\ job' \in [Jobs -> JobState]
           /\ \A o \in Jobs : o # j => job'[o] = job[o]
    <3>1. PipeInv'
      BY <1>3, PipeStepKeeps DEF PipeNext, Background, HookWork
    <3>2. job' \in [Jobs -> JobState]
      BY <3>1, PipeShapes DEF PipeInv, PipeTypeOK
    <3>3. CASE ResumedHookStart(j) \/ HookMark(j) \/ HookApprove(j)
      BY <1>1, <3>2, <3>3 DEF ResumedHookStart, HookMark, HookApprove, SetPc, JobState
    <3>4. CASE HookScan(j)
      BY <1>1, <3>2, <3>4 DEF HookScan, JobState
    <3>5. CASE HookDecide(j)
      BY <1>1, <3>2, <3>5 DEF HookDecide, NoJob, JobState
    <3> QED
      BY <1>3, <3>3, <3>4, <3>5
  <2> QED
    BY <2>1, <2>2, <2>3
<1> QED
  BY <1>2, <1>3 DEF HookWork

(* A notifier that is due stays due until it notifies.                     *)
LEMMA DueUntilNotified ==
    ASSUME PipeInv, NEW i \in Ids, NotifierDue(i), NEW j \in Jobs,
           HookWork(j) \/ (HookNotify(j) /\ j[1] # i)
    PROVE  NotifierDue(i)'
<1>1. \A l \in Launcher : <<i, l>> \in Jobs /\ <<i, l>>[1] = i
  BY PipeShapes
<1>2. j[2] \in Launcher /\ j = <<j[1], j[2]>>
  BY PipeShapes
<1>3. CASE HookWork(j) /\ j[1] = i
  BY <1>2, <1>3, HookWorkEffect DEF NotifierDue
<1>4. CASE HookWork(j) /\ j[1] # i
  <2>1. \A l \in Launcher : job'[<<i, l>>] = job[<<i, l>>]
    BY <1>1, <1>4, HookWorkEffect
  <2> QED
    BY <1>4, <2>1, HookWorkEffect DEF NotifierDue
<1>5. CASE HookNotify(j) /\ j[1] # i
  <2>1. \A l \in Launcher : job'[<<i, l>>] = job[<<i, l>>]
    BY <1>1, <1>5, PipeShapes DEF HookNotify
  <2> QED
    BY <1>5, <2>1 DEF HookNotify, NotifierDue, storeVars
<1> QED
  BY <1>3, <1>4, <1>5

(* Whatever happens to the pipeline short of a crash, a request that is    *)
(* attended stays so until a hook notifies it.                             *)
LEMMA AttendedStays ==
    ASSUME PipeInv, HasHook,
           NEW i \in 1 .. nextId, NEW k \in RootKeys, issued[i].key = k, Attended(i, k),
           \/ Background
           \/ \E p \in Procs : ProxyEnqueue(p)
           \/ \E j \in Jobs : HookNotify(j) /\ j[1] # i
           \/ UNCHANGED allVars
    PROVE  Attended(i, k)'
<1>1. k \in Keys /\ i \in Ids /\ nextId \in Nat
  BY PipeShapes DEF RootKeys
<1>2. ASSUME NEW j \in Jobs, HookWork(j) \/ (HookNotify(j) /\ j[1] # i)
      PROVE  Attended(i, k)'
  <2>1. crashes' = crashes /\ rows'[k].id = rows[k].id
    BY <1>1, <1>2, HookWorkEffect DEF HookNotify, storeVars
  <2> QED
    BY <1>1, <1>2, <2>1, DueUntilNotified DEF Attended
<1>3. CASE ResumeList
  <2>1. /\ UNCHANGED <<rows, launched, scan, job, crashes>> /\ resume.pc = "list"
        /\ \A x \in Keys : NeedsScan(x) => \E req \in resume'.todo : req.id = rows[x].id
    <3>1. \A x \in Keys : NeedsScan(x) =>
             [id |-> rows[x].id, human |-> rows[x].human] \in resume'.todo
      BY <1>3 DEF ResumeList
    <3>2. \A x \in Keys : NeedsScan(x) => \E req \in resume'.todo : req.id = rows[x].id
      BY <3>1
    <3> QED
      BY <1>3, <3>2 DEF ResumeList, storeVars
  <2>2. CASE scan[i] # "done" /\ rows[k].id = i
    <3>1. rows[k].status # "absent" /\ scan[i] \in {"none", "scanning", "error"}
      BY <1>1, <2>2, PipeShapes, BoundAssumption DEF PipeInv, AbsentHasNoId, Ids, NoId
    <3> QED
      BY <1>1, <2>1, <2>2, <3>1 DEF NeedsScan, Attended, NotifierDue
  <2>3. CASE scan[i] # "done" /\ rows[k].id # i /\ crashes = 0
    BY <2>1, <2>3 DEF PipeInv, IssuedIsOwned, InHand, Attended, NotifierDue
  <2>4. CASE rows[k].id # i /\ crashes # 0
    BY <2>1, <2>4, PipelineAssumption DEF PipeInv, PipeTypeOK, Attended
  <2>5. CASE scan[i] = "done" /\ NotifierDue(i) /\ resume.todo = {}
    BY <2>1, <2>5 DEF Attended, NotifierDue
  <2>6. resume.todo = {}
    BY <2>1 DEF PipeInv, JobsAreIssued
  <2> QED
    BY <2>2, <2>3, <2>4, <2>5, <2>6 DEF Attended
<1>4. CASE ResumeLaunch
  <2>1. PICK req \in resume.todo :
           /\ resume' = [resume EXCEPT !.todo = @ \ {req}]
           /\ job' = [job EXCEPT ![<<req.id, "resume">>] =
                        [pc |-> "start", human |-> req.human, found |-> {}]]
    BY <1>4 DEF ResumeLaunch
  <2>2. UNCHANGED <<rows, launched, scan, crashes>> /\ resume.pc = "launch"
    BY <1>4 DEF ResumeLaunch, storeVars
  <2>3. /\ resume \in [pc : {"list", "launch"}, todo : SUBSET [id : Ids, human : BOOLEAN]]
        /\ req.id \in Ids /\ "resume" \in Launcher
        /\ \A o \in Ids, l \in Launcher : <<o, l>> \in Jobs
    BY <2>1, PipeShapes DEF PipeInv, PipeTypeOK, Launcher
  <2>4. /\ job'[<<req.id, "resume">>].pc = "start"
        /\ \A l \in Launcher : job[<<i, l>>].pc # "none" => job'[<<i, l>>].pc # "none"
    BY <1>1, <2>1, <2>3, PipeShapes
  <2>5. resume'.todo = resume.todo \ {req}
    BY <2>1, <2>3
  <2>6. NotifierDue(i) => NotifierDue(i)'
    BY <2>1, <2>2, <2>3, <2>4, <2>5 DEF NotifierDue
  <2> QED
    BY <2>2, <2>6 DEF Attended
<1>5. CASE \E p \in Procs : ProxyEnqueue(p)
  <2>1. UNCHANGED <<scan, job, resume, crashes>> /\ launched \subseteq launched'
    BY <1>5, EnqueueEffect DEF ProxyEnqueue, pipeVars, PipeInv
  <2>2. rows'[k].id = rows[k].id \/ rows'[k].id = nextId + 1
    BY <1>1, <1>5, EnqueueEffect DEF ProxyEnqueue, PipeInv
  <2>3. rows[k].id # i => rows'[k].id # i
    BY <1>1, <2>2
  <2> QED
    BY <2>1, <2>3 DEF Attended, NotifierDue
<1>6. CASE \/ ToolReadsRule \/ ToolWritesRule \/ UNCHANGED allVars
           \/ \E r \in Rescans : ChangeRules(r) \/ RescanStep(r)
           \/ \E x \in Keys : AdminDecide(x)
  <2>1. UNCHANGED <<scan, job, resume, crashes>>
    BY <1>6 DEF ToolReadsRule, ToolWritesRule, ChangeRules, RescanStep, RescanList,
       RescanFindings, RescanEvaluate, RescanApprove, RescanEnd, AdminDecide, allVars, pipeVars
  <2>2. (\E x \in Keys : Decide(x)) \/ UNCHANGED storeVars
    <3>1. ASSUME NEW x \in Keys, AdminDecide(x) PROVE Decide(x)
      BY <3>1 DEF AdminDecide, Decide, Actor
    <3>2. ASSUME NEW r \in Rescans, RescanStep(r)
          PROVE  (\E x \in Keys : Decide(x)) \/ UNCHANGED storeVars
      BY <3>2, AutoApproveIsDecision DEF RescanStep, RescanList, RescanFindings,
         RescanEvaluate, RescanApprove, RescanEnd
    <3> QED
      BY <1>6, <3>1, <3>2 DEF ToolReadsRule, ToolWritesRule, ChangeRules, allVars
  <2>3. launched' = launched /\ rows'[k].id = rows[k].id
    BY <1>1, <2>2, DecideEffect DEF PipeInv
  <2> QED
    BY <2>1, <2>3 DEF Attended, NotifierDue
<1> QED
  BY <1>2, <1>3, <1>4, <1>5, <1>6 DEF Background

-----------------------------------------------------------------------------
(* A handler moves on, beside others that wait.                            *)

(* A handler that is not in the step goes on waiting.                      *)
LEMMA OtherWaits ==
    ASSUME WaitInv, NEW c \in Clients,
           \/ Background
           \/ \E p \in Procs : ProxyEnqueue(p)
           \/ \E j \in Jobs : HookNotify(j) /\ j[1] # client[c].id
           \/ UNCHANGED allVars,
           NEW h, h = client[c]
    PROVE  Served(h)'
<1>1. [PipeNext]_allVars
  BY DEF PipeNext
<1>2. [StoreNext]_storeVars /\ StoreInv
  BY <1>1, PipeStepImplements DEF WaitInv, PipeInv
<1>3. h.pc \in HasId => h.id \in 1 .. nextId /\ issued[h.id].key = h.key
  BY DEF WaitInv, Served, RegInv, RegTypeOK
<1>4. h.pc \in HasId => issued'[h.id].key = h.key
  BY <1>2, <1>3, HistoryGrows
<1>5. ASSUME h.pc = "select", ~ h.token
      PROVE  Attended(h.id, h.key)'
  <2>1. h.pc \in HasId /\ HasHook /\ h.key \in RootKeys
    BY <1>5 DEF WaitInv, Sound, HasId, Waiting, Subscribed
  <2>2. Attended(h.id, h.key)
    BY <1>5 DEF WaitInv, Served
  <2> QED
    BY <1>3, <2>1, <2>2, AttendedStays DEF WaitInv
<1> QED
  BY <1>4, <1>5 DEF Served

LEMMA HandlerMoves ==
    ASSUME WaitInv, PipeInv', RegInv',
           NEW c \in Clients, NEW new, client' = [client EXCEPT ![c] = new],
           (\E p \in Procs : ProxyEnqueue(p)) \/ UNCHANGED allVars,
           \A i \in Ids, d \in Clients : d # c => (d \in subs'[i] <=> d \in subs[i]),
           Sound(c, new, subs'),
           Served(new)'
    PROVE  WaitInv'
<1>1. client'[c] = new /\ \A d \in Clients : d # c => client'[d] = client[d]
  BY DEF WaitInv, RegInv, RegTypeOK
<1>2. ASSUME NEW d \in Clients
      PROVE  Sound(d, client[d], subs)' /\ Served(client[d])'
  <2>1. CASE d = c
    BY <1>1, <2>1 DEF Sound, Served, Attended, NotifierDue, RootKeys, Above
  <2>2. CASE d # c
    <3>1. Sound(d, client[d], subs)
      BY DEF WaitInv
    <3>2. client[d].pc \in Subscribed => client[d].id \in Ids
      BY PipeShapes DEF WaitInv, RegInv, RegTypeOK, Subscribed, HasId, Waiting
    <3>3. Sound(d, client[d], subs)'
      BY <1>1, <2>2, <3>1, <3>2 DEF Sound, RootKeys, Above
    <3>4. PICK h : h = client[d] /\ h = client'[d]
      BY <1>1, <2>2
    <3>5. Served(h)'
      BY <3>4, OtherWaits
    <3> QED
      BY <3>3, <3>4, <3>5 DEF Served, Attended, NotifierDue
  <2> QED
    BY <2>1, <2>2
<1> QED
  BY <1>2 DEF WaitInv

LEMMA GotoWaits ==
    ASSUME WaitInv, PipeInv', RegInv',
           NEW c \in Clients, NEW pc \in ClientPc, Goto(c, pc), UNCHANGED <<allVars, subs>>,
           client[c].pc # "idle",
           pc \in HasId => client[c].pc \in HasId,
           pc \in Subscribed \union {"subscribe"} => HasHook,
           client[c].pc \in Waiting \union {"fetch"} => pc \in Waiting \union {"fetch"},
           pc \in Subscribed => client[c].pc \in Subscribed,
           pc = "select" => Attended(client[c].id, client[c].key)
    PROVE  WaitInv'
<1>1. PICK new : new = [client[c] EXCEPT !.pc = pc]
  OBVIOUS
<1>2. client[c] \in ClientState
  BY DEF WaitInv, RegInv, RegTypeOK
<1>3. /\ client' = [client EXCEPT ![c] = new]
      /\ new.pc = pc /\ new.id = client[c].id /\ new.key = client[c].key
      /\ new.token = client[c].token
  BY <1>1, <1>2 DEF Goto, ClientState
<1>4. Sound(c, client[c], subs) /\ Served(client[c])
  BY DEF WaitInv
<1>5. Sound(c, new, subs')
  BY <1>3, <1>4 DEF Sound
<1>6. UNCHANGED <<rows, launched, issued, scan, job, resume, crashes>>
  BY DEF allVars, storeVars, pipeVars
<1>7. Served(new)'
  BY <1>3, <1>4, <1>6 DEF Served, Attended, NotifierDue
<1> QED
  BY <1>3, <1>5, <1>7, HandlerMoves

LEMMA RespondWaits ==
    ASSUME WaitInv, PipeInv', RegInv',
           NEW c \in Clients, NEW answer, Respond(c, answer), UNCHANGED allVars
    PROVE  WaitInv'
<1>1. PICK new : new = [NoClient EXCEPT !.key = client[c].key, !.got = answer]
  OBVIOUS
<1>2. client' = [client EXCEPT ![c] = new] /\ new.pc = "idle"
  BY <1>1 DEF Respond, NoClient
<1>3. client[c].id \in Ids \union {NoId} /\ NoId \notin Ids /\ subs \in [Ids -> SUBSET Clients]
  BY BoundAssumption DEF WaitInv, RegInv, RegTypeOK, ClientState, Ids, NoId
<1>4. \A i \in Ids : c \in subs[i] => client[c].id = i
  BY DEF WaitInv, Sound
<1>5. \A i \in Ids : subs'[i] = subs[i] \ {c}
  <2>1. CASE client[c].id = NoId
    BY <1>3, <1>4, <2>1 DEF Respond
  <2>2. CASE client[c].id # NoId
    BY <1>3, <1>4, <2>2 DEF Respond
  <2> QED
    BY <2>1, <2>2
<1>6. Sound(c, new, subs')
  BY <1>2, <1>5 DEF Sound, Subscribed
<1>7. Served(new)'
  BY <1>2 DEF Served, HasId, Waiting
<1> QED
  BY <1>2, <1>5, <1>6, <1>7, HandlerMoves

(* A step of a handler that waits for nobody yet: it gets a version or an  *)
(* id, or a new request.                                                   *)
LEMMA FreshWaits ==
    ASSUME WaitInv, PipeInv', RegInv',
           NEW c \in Clients, NEW new, client' = [client EXCEPT ![c] = new], UNCHANGED subs,
           (\E p \in Procs : ProxyEnqueue(p)) \/ UNCHANGED allVars,
           client[c].pc \notin Waiting \union {"fetch"},
           new.pc # "idle", new.pc \notin Subscribed \union {"subscribe"},
           new.key \in RootKeys,
           new.pc \in HasId => issued'[new.id].key = new.key
    PROVE  WaitInv'
<1>1. Sound(c, new, subs')
  BY DEF WaitInv, Sound
<1>2. Served(new)'
  BY DEF Served, Subscribed
<1> QED
  BY <1>1, <1>2, HandlerMoves

-----------------------------------------------------------------------------
(* The steps of a handler that leave the pipeline alone: it answers, or    *)
(* goes on before it has subscribed.                                       *)

LEMMA PlainStepWaits ==
    ASSUME WaitInv, PipeInv', RegInv', NEW c \in Clients,
           \/ AskApproved(c) \/ ShortServe(c) \/ AskScanned(c) \/ Decide1(c) \/ ServeCached(c)
           \/ Decide2(c) \/ ServeDirectly(c) \/ ValidateAndCache(c) \/ AskInherited(c)
           \/ Fetch(c) \/ LastCheck(c) \/ Disconnect(c) \/ Wake(c) \/ FirstCheck(c)
    PROVE  WaitInv'
<1> USE DEF At
<1>1. UNCHANGED allVars
  BY DEF AskApproved, ShortServe, AskScanned, Decide1, ServeCached, Decide2, ServeDirectly,
     ValidateAndCache, AskInherited, Fetch, LastCheck, Disconnect, Wake, FirstCheck, Ask
<1>2. ASSUME NEW answer, Respond(c, answer) PROVE WaitInv'
  BY <1>1, <1>2, RespondWaits
<1>3. CASE AskApproved(c) \/ Decide1(c) \/ FirstCheck(c)
  <2>1. PICK pc \in {"hit", "pending?", "get", "decide2", "fetch", "recheck"} :
           /\ Goto(c, pc) /\ UNCHANGED subs
           /\ pc \in {"hit", "pending?"} => client[c].pc = "approved?"
           /\ pc \in {"get", "decide2"} => client[c].pc = "decide"
           /\ pc \in {"fetch", "recheck"} => client[c].pc = "subscribed"
    BY <1>3 DEF AskApproved, Decide1, FirstCheck, Ask
  <2>2. pc \in {"fetch", "recheck"} => HasHook
    BY <2>1 DEF WaitInv, Sound, Subscribed
  <2> QED
    BY <1>1, <2>1, <2>2, GotoWaits DEF ClientPc, HasId, Waiting, Subscribed
<1>4. CASE \/ ShortServe(c) \/ AskScanned(c) \/ ServeCached(c)
           \/ Decide2(c) \/ ServeDirectly(c) \/ ValidateAndCache(c) \/ AskInherited(c)
  <2>1. \/ \E answer : Respond(c, answer)
        \/ \E pc \in {"resolve", "direct", "validate", "enqueue", "subscribe"} :
             /\ Goto(c, pc) /\ UNCHANGED subs
             /\ client[c].pc \notin Waiting \union {"fetch", "idle"}
             /\ pc = "subscribe" => HasHook /\ client[c].pc \in {"scanned?", "inherited?"}
    BY <1>4 DEF ShortServe, AskScanned, ServeCached, Decide2, ServeDirectly, ValidateAndCache,
       AskInherited, Waiting
  <2>2. ASSUME NEW pc \in {"resolve", "direct", "validate", "enqueue", "subscribe"},
               Goto(c, pc), UNCHANGED subs, client[c].pc \notin Waiting \union {"fetch", "idle"},
               pc = "subscribe" => HasHook /\ client[c].pc \in {"scanned?", "inherited?"}
        PROVE  WaitInv'
    BY <1>1, <2>2, GotoWaits DEF ClientPc, HasId, Waiting, Subscribed
  <2> QED
    BY <1>2, <2>1, <2>2
<1>5. CASE Fetch(c) \/ LastCheck(c) \/ Disconnect(c) \/ Wake(c)
  <2>1. \/ \E answer : Respond(c, answer)
        \/ \E pc \in {"fetch", "woken"} :
             /\ Goto(c, pc) /\ UNCHANGED subs
             /\ client[c].pc \in {"woken", "select"}
    BY <1>5 DEF Fetch, LastCheck, Disconnect, Wake
  <2>2. ASSUME NEW pc \in {"fetch", "woken"}, Goto(c, pc), UNCHANGED subs,
               client[c].pc \in {"woken", "select"}
        PROVE  WaitInv'
    BY <1>1, <2>2, GotoWaits DEF ClientPc, HasId, Waiting, Subscribed
  <2> QED
    BY <1>2, <2>1, <2>2
<1> QED
  BY <1>3, <1>4, <1>5

(* The second check, after the subscription: a scan that is not done has   *)
(* a notifier.                                                             *)
LEMMA SecondCheckWaits ==
    ASSUME WaitInv, PipeInv', RegInv', NEW c \in Clients, SecondCheck(c)
    PROVE  WaitInv'
<1>1. UNCHANGED allVars /\ client[c].pc = "recheck"
  BY DEF SecondCheck, At
<1>2. CASE IsScanDone(client[c].id)
  BY <1>1, <1>2, RespondWaits DEF SecondCheck
<1>3. CASE ~ IsScanDone(client[c].id)
  <2>1. /\ HasHook /\ client[c].key \in RootKeys
        /\ client[c].id \in 1 .. nextId /\ issued[client[c].id].key = client[c].key
    BY <1>1 DEF WaitInv, Sound, Served, RegInv, RegTypeOK, Subscribed, HasId, Waiting
  <2>2. Attended(client[c].id, client[c].key)
    BY <1>3, <2>1, UndoneIsAttended DEF IsScanDone, WaitInv
  <2>3. Goto(c, "select") /\ UNCHANGED subs
    BY <1>3 DEF SecondCheck
  <2> QED
    BY <1>1, <2>1, <2>2, <2>3, GotoWaits DEF ClientPc, HasId, Waiting, Subscribed
<1> QED
  BY <1>2, <1>3

LEMMA SubscribeWaits ==
    ASSUME WaitInv, PipeInv', RegInv', NEW c \in Clients, Subscribe(c)
    PROVE  WaitInv'
<1>1. PICK new : new = [client[c] EXCEPT !.pc = "subscribed"]
  OBVIOUS
<1>2. client[c] \in ClientState /\ client[c].pc = "subscribe" /\ UNCHANGED allVars
  BY DEF WaitInv, RegInv, RegTypeOK, Subscribe, At
<1>3. /\ client' = [client EXCEPT ![c] = new]
      /\ new.pc = "subscribed" /\ new.id = client[c].id /\ new.key = client[c].key
  BY <1>1, <1>2 DEF Subscribe, Goto, ClientState
<1>4. client[c].id \in Ids /\ subs \in [Ids -> SUBSET Clients]
  BY <1>2, PipeShapes DEF WaitInv, RegInv, RegTypeOK, HasId
<1>5. \A i \in Ids : subs'[i] = IF i = client[c].id THEN subs[i] \union {c} ELSE subs[i]
  BY <1>4 DEF Subscribe
<1>6. Sound(c, client[c], subs) /\ Served(client[c])
  BY DEF WaitInv
<1>7. Sound(c, new, subs')
  BY <1>2, <1>3, <1>4, <1>5, <1>6 DEF Sound, Waiting, Subscribed
<1>8. Served(new)'
  <2>1. issued' = issued
    BY <1>2 DEF allVars, storeVars
  <2> QED
    BY <1>2, <1>3, <1>6, <2>1 DEF Served, HasId
<1> QED
  BY <1>2, <1>3, <1>5, <1>7, <1>8, HandlerMoves

LEMMA FreshStepWaits ==
    ASSUME WaitInv, PipeInv', RegInv', NEW c \in Clients,
           AskPending(c) \/ Resolve(c) \/ \E k \in Keys : Request(c, k)
    PROVE  WaitInv'
<1>1. UNCHANGED allVars /\ client[c] \in ClientState
  BY DEF AskPending, Resolve, Request, WaitInv, RegInv, RegTypeOK
<1>2. client[c].pc # "idle" => client[c].key \in RootKeys
  BY DEF WaitInv, Sound
<1>3. CASE AskPending(c)
  <2>1. /\ client[c].pc = "pending?" /\ UNCHANGED subs
        /\ client[c].key \in RootKeys /\ client[c].key \in Keys
    BY <1>2, <1>3 DEF AskPending, At, RootKeys
  <2>2. CASE client' = [client EXCEPT ![c].pc = "scanned?", ![c].id = rows[client[c].key].id]
             /\ IsPending(client[c].key)
    <3>1. PICK new : new = [client[c] EXCEPT !.pc = "scanned?", !.id = rows[client[c].key].id]
      OBVIOUS
    <3>2. /\ client' = [client EXCEPT ![c] = new]
          /\ new.pc = "scanned?" /\ new.id = rows[client[c].key].id /\ new.key = client[c].key
      BY <1>1, <2>2, <3>1 DEF ClientState, WaitInv, RegInv, RegTypeOK
    <3>3. issued[new.id].key = new.key /\ issued' = issued
      BY <1>1, <2>1, <2>2, <3>2
      DEF IsPending, WaitInv, PipeInv, StoreInv, IdNamesItsRow, allVars, storeVars
    <3> QED
      BY <1>1, <2>1, <3>2, <3>3, FreshWaits DEF Waiting, Subscribed
  <2>3. CASE Goto(c, "resolve")
    BY <1>1, <2>1, <2>3, GotoWaits DEF ClientPc, HasId, Waiting, Subscribed
  <2> QED
    BY <1>3, <2>2, <2>3 DEF AskPending, Goto
<1>4. CASE Resolve(c)
  <2>1. client[c].pc = "resolve" /\ client[c].key \in RootKeys
    BY <1>2, <1>4 DEF Resolve, At
  <2>2. ASSUME NEW v \in Versions, UNCHANGED subs,
               client' = [client EXCEPT ![c].pc = "decide", ![c].ver = v]
        PROVE  WaitInv'
    <3>1. PICK new : new = [client[c] EXCEPT !.pc = "decide", !.ver = v]
      OBVIOUS
    <3>2. client' = [client EXCEPT ![c] = new] /\ new.pc = "decide" /\ new.key = client[c].key
      BY <1>1, <2>2, <3>1 DEF ClientState, WaitInv, RegInv, RegTypeOK
    <3> QED
      BY <1>1, <2>1, <2>2, <3>2, FreshWaits DEF HasId, Waiting, Subscribed
  <2> QED
    BY <1>1, <1>4, <2>2, RespondWaits DEF Resolve
<1>5. ASSUME NEW k \in Keys, Request(c, k) PROVE WaitInv'
  <2>1. PICK new : new = [NoClient EXCEPT !.pc = "approved?", !.key = k]
    OBVIOUS
  <2>2. /\ client' = [client EXCEPT ![c] = new] /\ new.pc = "approved?" /\ new.key = k
        /\ k \in RootKeys /\ client[c].pc = "idle" /\ UNCHANGED subs
    BY <1>5, <2>1 DEF Request, At, NoClient
  <2> QED
    BY <1>1, <2>2, FreshWaits DEF HasId, Waiting, Subscribed
<1> QED
  BY <1>3, <1>4, <1>5

-----------------------------------------------------------------------------
(* A handler that is inside Enqueue is there for the key of its request.   *)

OwnEnqueue ==
    \A c \in Clients : enq[c].pc # "idle" =>
        client[c].pc = "enqueue" /\ enq[c].art.key = client[c].key

LEMMA OwnEnqueueStays ==
    ASSUME RegInv, OwnEnqueue, [RegNext]_regAllVars
    PROVE  OwnEnqueue'
<1>1. /\ client \in [Clients -> ClientState] /\ Clients \subseteq Procs
      /\ enq \in [Procs -> EnqueueState]
  BY RegistryAssumption DEF RegInv, RegTypeOK, StoreInv, StoreTypeOK
<1>2. ASSUME enq' = enq, NEW c \in Clients, client[c].pc # "enqueue",
             \A d \in Clients : d # c => client'[d] = client[d]
      PROVE  OwnEnqueue'
  BY <1>2 DEF OwnEnqueue
<1>3. ASSUME \A d \in Clients : enq'[d] = enq[d] /\ client'[d].pc = client[d].pc
                                /\ client'[d].key = client[d].key
      PROVE  OwnEnqueue'
  BY <1>3 DEF OwnEnqueue
<1>4. ASSUME NEW c \in Clients, \E k \in Keys : Request(c, k)
      PROVE  OwnEnqueue'
  BY <1>1, <1>2, <1>4 DEF Request, At, allVars, storeVars
<1>5. ASSUME NEW c \in Clients,
             \/ AskApproved(c) \/ ShortServe(c) \/ AskPending(c) \/ AskScanned(c)
             \/ Resolve(c) \/ Decide1(c) \/ ServeCached(c) \/ Decide2(c)
      PROVE  OwnEnqueue'
  <2>1. enq' = enq /\ client[c].pc # "enqueue"
    BY <1>5 DEF AskApproved, ShortServe, AskPending, AskScanned, Resolve, Decide1, ServeCached,
       Decide2, Ask, At, allVars, storeVars
  <2>2. \A d \in Clients : d # c => client'[d] = client[d]
    BY <1>1, <1>5 DEF AskApproved, ShortServe, AskPending, AskScanned, Resolve, Decide1,
       ServeCached, Decide2, Ask, Goto, Respond
  <2> QED
    BY <1>2, <2>1, <2>2
<1>6. ASSUME NEW c \in Clients,
             \/ ServeDirectly(c) \/ ValidateAndCache(c) \/ AskInherited(c)
             \/ Subscribe(c) \/ FirstCheck(c) \/ SecondCheck(c)
             \/ Wake(c) \/ LastCheck(c) \/ Fetch(c) \/ Disconnect(c)
      PROVE  OwnEnqueue'
  <2>1. enq' = enq /\ client[c].pc # "enqueue"
    BY <1>6 DEF ServeDirectly, ValidateAndCache, AskInherited, Subscribe, FirstCheck,
       SecondCheck, Wake, LastCheck, Fetch, Disconnect, Ask, At, allVars, storeVars
  <2>2. \A d \in Clients : d # c => client'[d] = client[d]
    BY <1>1, <1>6 DEF ServeDirectly, ValidateAndCache, AskInherited, Subscribe, FirstCheck,
       SecondCheck, Wake, LastCheck, Fetch, Disconnect, Ask, Goto, Respond
  <2> QED
    BY <1>2, <2>1, <2>2
<1>7. ASSUME NEW c \in Clients, ClientEnqueue(c)
      PROVE  OwnEnqueue'
  <2>1. /\ client[c].pc = "enqueue"
        /\ \A d \in Clients : d # c => client'[d] = client[d] /\ enq'[d] = enq[d]
    BY <1>1, <1>7 DEF ClientEnqueue, At, EnqueueExisting, EnqueueLookup, EnqueueParent,
       EnqueueInsert, storeVars
  <2>2. CASE EnqueueExisting(c, client[c].key) \/ EnqueueInsert(c)
    <3>1. enq'[c].pc = "idle"
      BY <1>1, <2>2 DEF EnqueueExisting, EnqueueInsert, Idle, storeVars
    <3> QED
      BY <2>1, <3>1 DEF OwnEnqueue
  <2>3. ASSUME NEW art, art.key = client[c].key, EnqueueLookup(c, art), UNCHANGED client
        PROVE  OwnEnqueue'
    <3>1. enq'[c] = [pc |-> "parent", art |-> art]
      BY <1>1, <2>3 DEF EnqueueLookup
    <3> QED
      BY <2>1, <2>3, <3>1 DEF OwnEnqueue
  <2>4. CASE EnqueueParent(c) /\ UNCHANGED client
    <3>1. enq[c].pc = "parent" /\ enq'[c].art = enq[c].art
      BY <1>1, <2>4 DEF EnqueueParent
    <3> QED
      BY <2>1, <2>4, <3>1 DEF OwnEnqueue
  <2> QED
    BY <1>7, <2>2, <2>3, <2>4 DEF ClientEnqueue
<1>8. ASSUME NEW p \in Procs, PrefetchEnqueue(p) \/ \E k \in Keys : Prefetch(p, k)
      PROVE  OwnEnqueue'
  <2>1. client' = client /\ \A d \in Clients : enq'[d] = enq[d]
    BY <1>1, <1>8 DEF PrefetchEnqueue, Prefetch, EnqueueExisting, EnqueueLookup, EnqueueParent,
       EnqueueInsert, storeVars, regVars
  <2> QED
    BY <1>3, <2>1
<1>9. ASSUME NEW j \in Jobs, Notify(j) PROVE OwnEnqueue'
  <2>1. enq' = enq /\ \A d \in Clients : client'[d].pc = client[d].pc /\ client'[d].key = client[d].key
    BY <1>1, <1>9 DEF Notify, HookNotify, storeVars, ClientState
  <2> QED
    BY <1>3, <2>1
<1>10. CASE Background /\ UNCHANGED regVars
  <2>1. enq' = enq
    <3>1. ASSUME NEW j \in Jobs, HookWork(j) PROVE enq' = enq
      BY <3>1, AutoApproveIsDecision, DecideEffect DEF HookWork, HookStart, RunHook,
         ResumedHookStart, HookScan, HookMark, HookDecide, HookApprove, storeVars, RegInv
    <3>2. ASSUME NEW r \in Rescans, ChangeRules(r) \/ RescanStep(r) PROVE enq' = enq
      BY <3>2, AutoApproveIsDecision, DecideEffect DEF ChangeRules, RescanStep, RescanList,
         RescanFindings, RescanEvaluate, RescanApprove, RescanEnd, storeVars, RegInv
    <3>3. ASSUME NEW k \in Keys, AdminDecide(k) PROVE enq' = enq
      BY <3>3 DEF AdminDecide, Approve, Reject, Revoke
    <3> QED
      BY <1>10, <3>1, <3>2, <3>3 DEF Background, ResumeList, ResumeLaunch, ToolReadsRule,
         ToolWritesRule, storeVars
  <2> QED
    BY <1>3, <1>10, <2>1 DEF regVars
<1>11. CASE ProxyRestart
  BY <1>1, <1>11 DEF ProxyRestart, Restart, Crash, OwnEnqueue, Idle
<1>12. CASE UNCHANGED regAllVars
  BY <1>3, <1>12 DEF regAllVars, allVars, storeVars, regVars
<1> QED
  BY <1>4, <1>5, <1>6, <1>7, <1>8, <1>9, <1>10, <1>11, <1>12 DEF RegNext, Handle

LEMMA ClientEnqueueWaits ==
    ASSUME WaitInv, PipeInv', RegInv', OwnEnqueue, NEW c \in Clients, ClientEnqueue(c)
    PROVE  WaitInv'
<1>1. /\ c \in Procs /\ ProxyEnqueue(c)
      /\ client[c] \in ClientState /\ client[c].pc = "enqueue" /\ UNCHANGED subs
      /\ client[c].key \in Keys /\ client \in [Clients -> ClientState]
  BY ClientEnqueues DEF ClientEnqueue, At, WaitInv, RegInv, RegTypeOK, ClientState
<1>2. client[c].key \in RootKeys
  BY <1>1 DEF WaitInv, Sound
<1>3. ASSUME NEW i, issued'[i].key = client[c].key,
             client' = [client EXCEPT ![c].pc = "inherited?", ![c].id = i]
      PROVE  WaitInv'
  <2>1. PICK new : new = [client[c] EXCEPT !.pc = "inherited?", !.id = i]
    OBVIOUS
  <2>2. /\ client' = [client EXCEPT ![c] = new]
        /\ new.pc = "inherited?" /\ new.id = i /\ new.key = client[c].key
    BY <1>1, <1>3, <2>1 DEF ClientState
  <2>3. /\ new.pc # "idle" /\ new.pc \notin Subscribed \union {"subscribe"}
        /\ client[c].pc \notin Waiting \union {"fetch"}
        /\ new.key \in RootKeys /\ issued'[new.id].key = new.key
    BY <1>1, <1>2, <1>3, <2>2 DEF Waiting, Subscribed
  <2>4. \E p \in Procs : ProxyEnqueue(p)
    BY <1>1
  <2> QED
    BY <1>1, <2>2, <2>3, <2>4, FreshWaits
<1>4. CASE /\ EnqueueExisting(c, client[c].key)
           /\ client' = [client EXCEPT ![c].pc = "inherited?", ![c].id = rows[client[c].key].id]
  <2>1. issued' = issued /\ rows[client[c].key].status # "absent"
    BY <1>4 DEF EnqueueExisting, storeVars, Live
  <2> QED
    BY <1>1, <1>3, <1>4, <2>1 DEF WaitInv, PipeInv, StoreInv, IdNamesItsRow
<1>5. CASE EnqueueInsert(c) /\ client' = [client EXCEPT ![c].pc = "inherited?", ![c].id = nextId + 1]
  <2>1. issued'[nextId + 1] = enq[c].art /\ enq[c].pc = "insert"
    BY <1>5 DEF EnqueueInsert
  <2>2. enq[c].art.key = client[c].key
    BY <2>1 DEF OwnEnqueue
  <2> QED
    BY <1>3, <1>5, <2>1, <2>2
<1>6. CASE UNCHANGED client
  <2>1. PICK new : new = client[c]
    OBVIOUS
  <2>2. client' = [client EXCEPT ![c] = new]
    BY <1>1, <1>6, <2>1
  <2> QED
    BY <1>1, <1>2, <2>1, <2>2, FreshWaits DEF HasId, Waiting, Subscribed
<1> QED
  BY <1>4, <1>5, <1>6 DEF ClientEnqueue

-----------------------------------------------------------------------------
(* The steps of others.                                                    *)

(* Notify gives a token to everybody in the list it empties.               *)
LEMMA NotifyWaits ==
    ASSUME WaitInv, PipeInv', RegInv', NEW j \in Jobs, Notify(j)
    PROVE  WaitInv'
<1>1. /\ HookNotify(j) /\ j[1] \in Ids
      /\ subs \in [Ids -> SUBSET Clients] /\ subs' = [subs EXCEPT ![j[1]] = {}]
      /\ client \in [Clients -> ClientState]
      /\ client' = [c \in Clients |-> IF c \in subs[j[1]] THEN [client[c] EXCEPT !.token = TRUE]
                                                          ELSE client[c]]
  BY PipeShapes DEF Notify, WaitInv, RegInv, RegTypeOK
<1>2. UNCHANGED <<rows, issued, nextId, launched>>
  BY <1>1 DEF HookNotify, storeVars
<1> SUFFICES ASSUME NEW c \in Clients
             PROVE  Sound(c, client[c], subs)' /\ Served(client[c])'
  BY DEF WaitInv
<1>3. Sound(c, client[c], subs) /\ Served(client[c]) /\ client[c] \in ClientState
  BY <1>1 DEF WaitInv
<1>4. /\ client[c].pc \in HasId => client[c].id \in Ids
      /\ client[c].pc \in Subscribed => client[c].pc \in HasId
      /\ client[c].pc = "select" => client[c].pc \in Subscribed
  BY PipeShapes DEF WaitInv, RegInv, RegTypeOK, Subscribed, HasId, Waiting
<1>5. CASE c \in subs[j[1]]
  <2>1. client'[c] = [client[c] EXCEPT !.token = TRUE]
    BY <1>1, <1>5
  <2>2. /\ client'[c].pc = client[c].pc /\ client'[c].key = client[c].key
        /\ client'[c].id = client[c].id /\ client'[c].token
    BY <1>3, <2>1 DEF ClientState
  <2> QED
    BY <1>1, <1>2, <1>3, <2>2 DEF Sound, Served, RootKeys, Above
<1>6. CASE c \notin subs[j[1]]
  <2>1. PICK h : h = client[c] /\ h = client'[c]
    BY <1>1, <1>6
  <2>2. Sound(c, client[c], subs)'
    <3>1. \A i \in Ids : c \in subs'[i] <=> c \in subs[i]
      BY <1>1, <1>6
    <3> QED
      BY <1>3, <1>4, <2>1, <3>1 DEF Sound, RootKeys, Above
  <2>3. CASE client[c].id # j[1]
    <3>1. Served(h)'
      BY <1>1, <2>1, <2>3, OtherWaits
    <3> QED
      BY <2>1, <2>2, <3>1 DEF Served, Attended, NotifierDue
  <2>4. CASE client[c].id = j[1]
    <3>1. ~ (client[c].pc = "select" /\ ~ client[c].token)
      BY <1>3, <1>4, <1>6, <2>4 DEF Sound
    <3> QED
      BY <1>2, <1>3, <2>1, <2>2, <3>1 DEF Served
  <2> QED
    BY <2>3, <2>4
<1> QED
  BY <1>5, <1>6

LEMMA OthersWait ==
    ASSUME WaitInv, PipeInv', RegInv', UNCHANGED <<client, subs>>,
           Background \/ (\E p \in Procs : ProxyEnqueue(p)) \/ UNCHANGED allVars
    PROVE  WaitInv'
<1> SUFFICES ASSUME NEW c \in Clients
             PROVE  Sound(c, client[c], subs)' /\ Served(client[c])'
  BY DEF WaitInv
<1>1. PICK h : h = client[c] /\ h = client'[c]
  OBVIOUS
<1>2. Served(h)'
  BY <1>1, OtherWaits
<1>3. Sound(c, client[c], subs)
  BY DEF WaitInv
<1> QED
  BY <1>1, <1>2, <1>3 DEF Sound, Served, Attended, NotifierDue, RootKeys, Above

LEMMA RestartWaits ==
    ASSUME WaitInv, PipeInv', RegInv', ProxyRestart
    PROVE  WaitInv'
<1>1. client' = [c \in Clients |-> NoClient] /\ subs' = [i \in Ids |-> {}]
  BY DEF ProxyRestart
<1>2. NoClient.pc = "idle"
  BY DEF NoClient
<1> QED
  BY <1>1, <1>2 DEF WaitInv, Sound, Served, HasId, Waiting, Subscribed

LEMMA WaitStepKeeps ==
    ASSUME WaitInv, OwnEnqueue, [RegNext]_regAllVars
    PROVE  WaitInv' /\ OwnEnqueue'
<1>1. RegInv' /\ PipeInv' /\ OwnEnqueue'
  BY RegStepKeeps, RegStepImplements, PipeStepKeeps, OwnEnqueueStays DEF WaitInv, RegInv
<1>2. CASE \E c \in Clients, k \in Keys : Request(c, k)
  BY <1>1, <1>2, FreshStepWaits
<1>3. CASE \E c \in Clients : Handle(c) \/ Disconnect(c)
  BY <1>1, <1>3, PlainStepWaits, SecondCheckWaits, SubscribeWaits, FreshStepWaits,
     ClientEnqueueWaits DEF Handle
<1>4. CASE \E p \in Procs : PrefetchEnqueue(p) \/ \E k \in Keys : Prefetch(p, k)
  <2>1. UNCHANGED <<client, subs>>
    BY <1>4 DEF PrefetchEnqueue, Prefetch, regVars
  <2> QED
    BY <1>1, <1>4, <2>1, PrefetchEnqueues, OthersWait
<1>5. CASE \E j \in Jobs : Notify(j)
  BY <1>1, <1>5, NotifyWaits
<1>6. CASE (Background /\ UNCHANGED regVars) \/ UNCHANGED regAllVars
  BY <1>1, <1>6, OthersWait DEF regVars, regAllVars
<1>7. CASE ProxyRestart
  BY <1>1, <1>7, RestartWaits
<1> QED
  BY <1>1, <1>2, <1>3, <1>4, <1>5, <1>6, <1>7 DEF RegNext

LEMMA WaitInitKeeps == RegInit => WaitInv /\ OwnEnqueue
<1> SUFFICES ASSUME RegInit PROVE WaitInv /\ OwnEnqueue
  OBVIOUS
<1>1. RegInv /\ PipeInv
  BY RegInitKeeps, PipeInitHasInv DEF RegInit
<1>2. NoClient.pc = "idle"
  BY DEF NoClient
<1>3. \A c \in Clients : Sound(c, client[c], subs) /\ Served(client[c])
  BY <1>2 DEF RegInit, Sound, Served, HasId, Waiting, Subscribed
<1>4. OwnEnqueue
  BY RegistryAssumption DEF RegInit, PipeInit, StoreInit, OwnEnqueue, Idle
<1> QED
  BY <1>1, <1>3, <1>4 DEF WaitInv

LEMMA WaitInvHolds == RegSpec => []WaitInv
<1>1. WaitInv /\ OwnEnqueue /\ [RegNext]_regAllVars => (WaitInv /\ OwnEnqueue)'
  BY WaitStepKeeps
<1> QED
  BY <1>1, WaitInitKeeps, PTL DEF RegSpec

(* No wakeup is lost: a handler that sleeps without a token is in the list *)
(* of its request, and a hook that will empty that list is running or due; *)
(* the exception is a request that lost its row after a restart            *)
(* (registry.go:224-247, quarantine.go:99-132).                            *)
THEOREM NoWakeupIsLost == RegSpec => []WaiterHasNotifier
<1>1. WaitInv => WaiterHasNotifier
  BY DEF WaitInv, Sound, Served, Attended, NotifierDue, WaiterHasNotifier, ScanOwned, At,
     Subscribed
<1> QED
  BY <1>1, WaitInvHolds, PTL

(* Every subscription is cancelled or taken by the notification, in either *)
(* order (quarantine.go:106-116 and 123).                                  *)
THEOREM NoSubscriptionLeaks == RegSpec => []NoLeakedSubscription
<1>1. WaitInv => NoLeakedSubscription
  BY DEF WaitInv, Sound, NoLeakedSubscription, RegInv, RegTypeOK
<1> QED
  BY <1>1, WaitInvHolds, PTL
=============================================================================
