------------------------------ MODULE Registry ------------------------------
(***************************************************************************)
(* A client's GET of an artifact of its own quarantine (ModeSelf), from    *)
(* Registry.ServeHTTP to the response (core/registry.go), beside the       *)
(* pipeline that decides on it: the short-circuit on what is cached, the   *)
(* download, the enqueue, and the wait for the scan through the            *)
(* publish/subscribe of QuarantineStore.                                   *)
(*                                                                         *)
(* The cache keeps a version per key.  Routing, access control, requests   *)
(* by digest and the artifacts that are never quarantined (ModeNone) are   *)
(* left out.                                                               *)
(***************************************************************************)
EXTENDS ScanPipeline

CONSTANTS
    Clients,     \* goroutines of net/http that serve a GET
    Pulls,       \* pairs <<k, c>>: OnQuarantine of k prefetches c
    Interrupts,  \* subset of {"timeout", "disconnect"}: what may end a wait
    CacheFaults, \* BOOLEAN: cache.Set may fail
    MaxRequests  \* bound: number of requests ever sent

(* What a response delivers: the bytes of a version, "please wait", or     *)
(* an error.                                                               *)
Pending == "pending"
Failed == "failed"

(* The other enqueuers are the prefetches a driver launches.               *)
ASSUME RegistryAssumption ==
    /\ Keys # {}
    /\ Versions \intersect {Pending, Failed} = {}
    /\ Clients \subseteq Procs
    /\ Pulls \subseteq Keys \X Keys
    /\ Interrupts \subseteq {"timeout", "disconnect"}
    /\ CacheFaults \in BOOLEAN
    /\ MaxRequests \in Nat

VARIABLES
    client,    \* the handler of each client
    cache,     \* CacheStore: the version cached under each key
    subs,      \* QuarantineStore.subs: who waits for the scan of each id
    pulls,     \* keys a running OnQuarantine has still to prefetch
    requests   \* requests sent so far

regVars == <<client, cache, subs, pulls, requests>>
regAllVars == <<allVars, regVars>>

Waiting == {"subscribed", "recheck", "select", "woken"}
HasId == {"scanned?", "inherited?", "subscribe"} \union Waiting
HasVersion == {"decide", "decide2", "get", "direct", "validate", "enqueue",
               "inherited?"}
ClientPc == {"idle", "approved?", "hit", "pending?", "scanned?", "resolve", "decide",
             "decide2", "get", "direct", "validate", "enqueue", "inherited?",
             "subscribe", "fetch"} \union Waiting
NoClient == [pc |-> "idle", key |-> CHOOSE k \in Keys : TRUE, ver |-> NoVersion,
             id |-> NoId, token |-> FALSE, got |-> Failed]
ClientState == [pc : ClientPc, key : Keys, ver : Versions \union {NoVersion},
                id : Ids \union {NoId}, token : BOOLEAN,
                got : Versions \union {NoVersion, Pending, Failed}]

RegInit ==
    /\ PipeInit
    /\ client = [c \in Clients |-> NoClient]
    /\ cache = [k \in Keys |-> NoVersion]
    /\ subs = [i \in Ids |-> {}]
    /\ pulls = {}
    /\ requests = 0

-----------------------------------------------------------------------------
(* The handler.  Each query of the store is a step of its own.             *)

IsApproved(k) == rows[k].status = "approved"
IsPending(k) == rows[k].status = "pending"
IsScanDone(i) == scan[i] \in {"done", "error"}

At(c, pc) == client[c].pc = pc
Goto(c, pc) == client' = [client EXCEPT ![c].pc = pc]

(* A mutant: the subscription is not cancelled.                            *)
RespondSubscribed(c, answer) ==
    /\ client' = [client EXCEPT ![c] =
                    [NoClient EXCEPT !.key = client[c].key, !.got = answer]]
    /\ UNCHANGED subs

(* The handler returns: the deferred cancel removes its channel.           *)
Respond(c, answer) ==
    /\ client' = [client EXCEPT ![c] =
                    [NoClient EXCEPT !.key = client[c].key, !.got = answer]]
    /\ subs' = IF client[c].id = NoId THEN subs
               ELSE [subs EXCEPT ![client[c].id] = @ \ {c}]

(* A query decides between two continuations.                              *)
Ask(c, from, question, yes, no) ==
    /\ At(c, from)
    /\ Goto(c, IF question THEN yes ELSE no)
    /\ UNCHANGED <<allVars, cache, subs, pulls, requests>>

(* registry.go:84-104  the path of a request is a key that belongs to no   *)
(* other; a request by digest, which the Docker driver's Resolve redirects *)
(* to the key of a child, is left out.                                     *)
Request(c, k) ==
    /\ k \in RootKeys
    /\ At(c, "idle")
    /\ requests < MaxRequests
    /\ requests' = requests + 1
    /\ client' = [client EXCEPT ![c] = [NoClient EXCEPT !.pc = "approved?", !.key = k]]
    /\ UNCHANGED <<allVars, cache, subs, pulls>>

(* registry.go:106                                                         *)
AskApproved(c) ==
    Ask(c, "approved?", IsApproved(client[c].key), "hit", "pending?")

(* registry.go:107-111  a miss goes on to the download.                    *)
ShortServe(c) ==
    /\ At(c, "hit")
    /\ LET v == cache[client[c].key] IN
       IF v = NoVersion
       THEN Goto(c, "resolve") /\ UNCHANGED subs
       ELSE Respond(c, v)
    /\ UNCHANGED <<allVars, cache, pulls, requests>>

(* A mutant: the handler waits for no request in particular.               *)
AskPendingAnonymous(c) ==
    /\ At(c, "pending?")
    /\ Goto(c, IF IsPending(client[c].key) /\ cache[client[c].key] # NoVersion
               THEN "scanned?" ELSE "resolve")
    /\ UNCHANGED <<allVars, cache, subs, pulls, requests>>

(* registry.go:112-113  the id is the one of the row now.                  *)
AskPending(c) ==
    /\ At(c, "pending?")
    /\ LET k == client[c].key IN
       client' = IF IsPending(k) /\ cache[k] # NoVersion
                 THEN [client EXCEPT ![c].pc = "scanned?", ![c].id = rows[k].id]
                 ELSE [client EXCEPT ![c].pc = "resolve"]
    /\ UNCHANGED <<allVars, cache, subs, pulls, requests>>

(* registry.go:116-119                                                     *)
AskScanned(c) ==
    /\ At(c, "scanned?")
    /\ IF HasHook /\ ~ IsScanDone(client[c].id)
       THEN Goto(c, "subscribe") /\ UNCHANGED subs
       ELSE Respond(c, Pending)
    /\ UNCHANGED <<allVars, cache, pulls, requests>>

(* registry.go:132-149  the upstream may fail, or serve another version    *)
(* than the last time.                                                     *)
Resolve(c) ==
    /\ At(c, "resolve")
    /\ \/ Respond(c, Failed)
       \/ \E v \in Versions :
            /\ client' = [client EXCEPT ![c].pc = "decide", ![c].ver = v]
            /\ UNCHANGED subs
    /\ UNCHANGED <<allVars, cache, pulls, requests>>

(* registry.go:151-173                                                     *)
Decide1(c) == Ask(c, "decide", IsApproved(client[c].key), "get", "decide2")

(* registry.go:174-179                                                     *)
ServeCached(c) ==
    /\ At(c, "get")
    /\ LET v == cache[client[c].key] IN
       IF v = NoVersion
       THEN Goto(c, "direct") /\ UNCHANGED subs
       ELSE Respond(c, v)
    /\ UNCHANGED <<allVars, cache, pulls, requests>>

(* registry.go:181-182                                                     *)
Decide2(c) ==
    /\ At(c, "decide2")
    /\ IF IsPending(client[c].key)
       THEN Respond(c, Pending)
       ELSE Goto(c, "validate") /\ UNCHANGED subs
    /\ UNCHANGED <<allVars, cache, pulls, requests>>

(* cache.Set; the callers only log its error.                              *)
CacheSet(c) ==
    \/ cache' = [cache EXCEPT ![client[c].key] = client[c].ver]
    \/ CacheFaults /\ UNCHANGED cache

(* registry.go:277-285  validated, cached and served without quarantine.   *)
ServeDirectly(c) ==
    /\ At(c, "direct")
    /\ \/ Respond(c, Failed) /\ UNCHANGED cache
       \/ Respond(c, client[c].ver) /\ CacheSet(c)
    /\ UNCHANGED <<allVars, pulls, requests>>

(* registry.go:184-193                                                     *)
ValidateAndCache(c) ==
    /\ At(c, "validate")
    /\ \/ Respond(c, Failed) /\ UNCHANGED cache
       \/ Goto(c, "enqueue") /\ CacheSet(c) /\ UNCHANGED subs
    /\ UNCHANGED <<allVars, pulls, requests>>

(* registry.go:195  Enqueue, statement by statement; it returns the id of  *)
(* the row there is, or the one it issues.                                 *)
ClientEnqueue(c) ==
    /\ At(c, "enqueue")
    /\ \/ /\ EnqueueExisting(c, client[c].key)
          /\ client' = [client EXCEPT ![c].pc = "inherited?", ![c].id = rows[client[c].key].id]
       \/ /\ \E human \in BOOLEAN :
               EnqueueLookup(c, [key |-> client[c].key, human |-> human, sha |-> client[c].ver])
          /\ UNCHANGED client
       \/ EnqueueParent(c) /\ UNCHANGED client
       \/ /\ EnqueueInsert(c)
          /\ client' = [client EXCEPT ![c].pc = "inherited?", ![c].id = nextId + 1]
    /\ UNCHANGED <<pipeVars, cache, subs, pulls, requests>>

(* registry.go:202-211  an inherited approval is served; otherwise the     *)
(* driver's OnQuarantine goroutine starts and the handler waits.           *)
AskInherited(c) ==
    /\ At(c, "inherited?")
    /\ LET k == client[c].key IN
       \/ IsApproved(k) /\ Respond(c, client[c].ver) /\ UNCHANGED pulls
       \/ /\ ~ IsApproved(k)
          /\ pulls' = pulls \union {x \in Keys : <<k, x>> \in Pulls}
          /\ IF HasHook THEN Goto(c, "subscribe") /\ UNCHANGED subs ELSE Respond(c, Pending)
    /\ UNCHANGED <<allVars, cache, requests>>

-----------------------------------------------------------------------------
(* waitScan, registry.go:227-247, and quarantine.go:99-132                 *)

Subscribe(c) ==
    /\ At(c, "subscribe")
    /\ subs' = [subs EXCEPT ![client[c].id] = @ \union {c}]
    /\ Goto(c, "subscribed")
    /\ UNCHANGED <<allVars, cache, pulls, requests>>

(* registry.go:232-234                                                     *)
FirstCheck(c) == Ask(c, "subscribed", IsApproved(client[c].key), "fetch", "recheck")

(* A mutant: the scan's state is not looked at after the subscription.     *)
SecondCheckSkipped(c) ==
    /\ At(c, "recheck")
    /\ Goto(c, "select")
    /\ UNCHANGED <<allVars, cache, subs, pulls, requests>>

(* registry.go:235-237                                                     *)
SecondCheck(c) ==
    /\ At(c, "recheck")
    /\ IF IsScanDone(client[c].id)
       THEN Respond(c, Pending)
       ELSE Goto(c, "select") /\ UNCHANGED subs
    /\ UNCHANGED <<allVars, cache, pulls, requests>>

(* registry.go:239-241                                                     *)
Wake(c) ==
    /\ At(c, "select")
    /\ client[c].token \/ "timeout" \in Interrupts
    /\ Goto(c, "woken")
    /\ UNCHANGED <<allVars, cache, subs, pulls, requests>>

(* A mutant: the scan runs in the context of the request.                  *)
DisconnectCancelsScan(c) ==
    /\ At(c, "select")
    /\ "disconnect" \in Interrupts
    /\ Respond(c, Pending)
    /\ job' = [job EXCEPT ![<<client[c].id, "enqueue">>] = NoJob]
    /\ UNCHANGED <<storeVars, scan, findings, ruleVars, resume, rescan, changes, crashes>>
    /\ UNCHANGED <<cache, pulls, requests>>

(* registry.go:242-243                                                     *)
Disconnect(c) ==
    /\ At(c, "select")
    /\ "disconnect" \in Interrupts
    /\ Respond(c, Pending)
    /\ UNCHANGED <<allVars, cache, pulls, requests>>

(* A mutant: the end of the scan is taken for an approval.                 *)
LastCheckSkipped(c) ==
    /\ At(c, "woken")
    /\ Goto(c, "fetch")
    /\ UNCHANGED <<allVars, cache, subs, pulls, requests>>

(* registry.go:246                                                         *)
LastCheck(c) ==
    /\ At(c, "woken")
    /\ IF IsApproved(client[c].key)
       THEN Goto(c, "fetch") /\ UNCHANGED subs
       ELSE Respond(c, Pending)
    /\ UNCHANGED <<allVars, cache, pulls, requests>>

(* registry.go:121-127 and 212-220                                         *)
Fetch(c) ==
    /\ At(c, "fetch")
    /\ LET v == cache[client[c].key] IN
       Respond(c, IF v = NoVersion THEN Pending ELSE v)
    /\ UNCHANGED <<allVars, cache, pulls, requests>>

(* quarantine.go:121-132  the list is taken under the lock, then every     *)
(* channel gets its one token.                                             *)
Notify(j) ==
    /\ HookNotify(j)
    /\ subs' = [subs EXCEPT ![j[1]] = {}]
    /\ client' = [c \in Clients |->
                    IF c \in subs[j[1]] THEN [client[c] EXCEPT !.token = TRUE] ELSE client[c]]
    /\ UNCHANGED <<cache, pulls, requests>>

-----------------------------------------------------------------------------
(* The prefetch of what an artifact needs (docker/driver.go:459-580): skip *)
(* a child in quarantine, else download it, cache it and enqueue it.  The  *)
(* write to the cache and the lookup of Enqueue are one step here.         *)
Prefetch(p, k) ==
    /\ p \notin Clients
    /\ k \in pulls
    /\ pulls' = pulls \ {k}
    /\ \/ EnqueueExisting(p, k) /\ UNCHANGED cache
       \/ \E v \in Versions :
             /\ EnqueueLookup(p, [key |-> k, human |-> FALSE, sha |-> v])
             /\ cache' = [cache EXCEPT ![k] = v]
       \/ UNCHANGED <<storeVars, cache>>
    /\ UNCHANGED <<pipeVars, client, subs, requests>>

PrefetchEnqueue(p) ==
    /\ p \notin Clients
    /\ EnqueueParent(p) \/ EnqueueInsert(p)
    /\ UNCHANGED <<pipeVars, regVars>>

(* The cache is on disk; the connections and the prefetches are gone.      *)
ProxyRestart ==
    /\ Restart
    /\ client' = [c \in Clients |-> NoClient]
    /\ subs' = [i \in Ids |-> {}]
    /\ pulls' = {}
    /\ UNCHANGED <<cache, requests>>

Handle(c) ==
    \/ AskApproved(c) \/ ShortServe(c) \/ AskPending(c) \/ AskScanned(c)
    \/ Resolve(c) \/ Decide1(c) \/ ServeCached(c) \/ Decide2(c)
    \/ ServeDirectly(c) \/ ValidateAndCache(c) \/ ClientEnqueue(c) \/ AskInherited(c)
    \/ Subscribe(c) \/ FirstCheck(c) \/ SecondCheck(c)
    \/ Wake(c) \/ LastCheck(c) \/ Fetch(c)

RegNext ==
    \/ \E c \in Clients, k \in Keys : Request(c, k)
    \/ \E c \in Clients : Handle(c) \/ Disconnect(c)
    \/ \E p \in Procs : PrefetchEnqueue(p) \/ \E k \in Keys : Prefetch(p, k)
    \/ \E j \in Jobs : Notify(j)
    \/ Background /\ UNCHANGED regVars
    \/ ProxyRestart

RegSpec == RegInit /\ [][RegNext]_regAllVars

(* A goroutine that can go on does: a handler, a hook, the restart of      *)
(* scans.  No client, administrator, prefetch or crash has to come.        *)
FairRegSpec ==
    /\ RegSpec
    /\ \A c \in Clients : WF_regAllVars(Handle(c))
    /\ \A j \in Jobs : WF_regAllVars(Notify(j) \/ (HookWork(j) /\ UNCHANGED regVars))
    /\ WF_regAllVars((ResumeList \/ ResumeLaunch) /\ UNCHANGED regVars)

-----------------------------------------------------------------------------
(* Properties                                                              *)

(* The handlers, the cache and the subscriptions have their shapes, and a  *)
(* handler knows the id and the version its step needs.                    *)
RegTypeOK ==
    /\ client \in [Clients -> ClientState]
    /\ cache \in [Keys -> Versions \union {NoVersion}]
    /\ subs \in [Ids -> SUBSET Clients]
    /\ pulls \subseteq Keys
    /\ requests \in 0 .. MaxRequests
    /\ \A c \in Clients :
          /\ client[c].pc \in HasId => client[c].id \in 1 .. nextId
          /\ client[c].pc \in HasVersion => client[c].ver \in Versions

(* An approval of k, or of an artifact k belongs to, is on record.         *)
Covered(k) == \E a \in {k} \union Above(k) : Granted(a)

(* Nobody is given an artifact that no decision ever let through, whatever *)
(* the checks of the handler are interleaved with (registry.go:102-222).   *)
ServedWasGranted ==
    \A c \in Clients : client[c].got \in Versions => Covered(client[c].key)

(* No wakeup is lost: a handler that waits without a token is subscribed,  *)
(* and a hook that will notify its id is running or due (registry.go:226,  *)
(* quarantine.go:99-132).  After a restart there is one exception: another *)
(* Enqueue may give the row a new id before resumePendingScans reads it,   *)
(* and nobody scans the request that the handler waits for.                *)
WaiterHasNotifier ==
    \A c \in Clients : At(c, "select") /\ ~ client[c].token =>
        LET i == client[c].id IN
        /\ c \in subs[i]
        /\ \/ ScanOwned(i)
           \/ \E l \in Launcher : job[<<i, l>>].pc # "none"
           \/ crashes > 0 /\ rows[client[c].key].id # i

(* No subscription outlives its request: cancel and NotifyScanDone may run *)
(* in either order (quarantine.go:106-116, 123).                           *)
NoLeakedSubscription ==
    \A i \in Ids : \A c \in subs[i] :
        client[c].id = i /\ client[c].pc \in Waiting \union {"fetch"}

(* Every request is answered, even if no wait ever times out               *)
(* (registry.go:224-247).                                                  *)
RequestAnswered == \A c \in Clients : ~ At(c, "idle") ~> At(c, "idle")

-----------------------------------------------------------------------------
(* What the documentation says and the code does not do                    *)

(* README.md:5: an artifact is submitted to validation before it is        *)
(* distributed: the bytes a client gets are those of an approved request.  *)
ServedWasSubmitted ==
    \A c \in Clients : client[c].got \in Versions =>
        \E n \in 1 .. Len(audit) :
            /\ audit[n].action = "approved"
            /\ issued[audit[n].id].key = client[c].key
            /\ issued[audit[n].id].sha = client[c].got
=============================================================================
