----------------------------- MODULE DockerIndex -----------------------------
(***************************************************************************)
(* The Docker driver (drivers/docker/driver.go): how a pull by tag or by   *)
(* digest finds the key its artifact is filed under, and the prefetch that *)
(* files the manifests and layers of an image under the key of the image.  *)
(*                                                                         *)
(* A key is the path of an artifact: <<tag>>, <<tag, manifest>>,           *)
(* <<tag, layer>> or <<tag, manifest, layer>>, and <<manifest>> for a pull *)
(* by digest that no index knows.  Bytes are named by their digest.  The   *)
(* image name, Bearer tokens, content types and an upstream that names no  *)
(* digest are left out; Enqueue is one step here, and several in           *)
(* QuarantineStore.                                                        *)
(***************************************************************************)
EXTENDS Naturals, FiniteSets, SequencesExt

CONSTANTS
    Tags,         \* image tags
    Manifests,    \* digests of manifests and of manifest lists
    Layers,       \* digests of layers and configurations
    Points,       \* Points[t]: the manifests upstream may answer for tag t
    Platforms,    \* Platforms[m]: the manifests that the list m names
    LayersOf,     \* LayersOf[m]: the layers that the manifest m names
    Clients,      \* goroutines of net/http that serve a pull
    Nowhere,      \* no key, no bytes
    Wrong,        \* bytes that are not those of the digest they were asked for
    MaxFaults,    \* bound: number of failures of the upstream, cache or database
    MaxPulls,     \* bound: number of pulls
    MaxDecisions, \* bound: number of decisions of the administrator
    MaxRestarts   \* bound: number of restarts

(* driver.go:437-457, 786-839  what a manifest names is filed under its    *)
(* key: the manifests of a list, or else the layers.                       *)
Children(k, m) ==
    IF m \notin Manifests THEN {}
    ELSE IF Platforms[m] # {} THEN {Append(k, p) : p \in Platforms[m]}
    ELSE {Append(k, y) : y \in LayersOf[m]}
Parts(k, m) == Children(k, m) \union UNION {Children(c, Last(c)) : c \in Children(k, m)}

(* What upstream may answer for a name.                                    *)
Named(x) == IF x \in Tags THEN Points[x] ELSE {x}

Roots == {<<x>> : x \in Tags \union Manifests}
Keys == Roots \union UNION {UNION {Parts(k, m) : m \in Named(k[1])} : k \in Roots}
Bytes == Manifests \union Layers \union {Wrong}

Above == [k \in Keys |-> {SubSeq(k, 1, n) : n \in 1 .. Len(k) - 1}]
Below == [k \in Keys |-> {c \in Keys : k \in Above[c]}]

ASSUME DockerAssumption ==
    /\ Points \in [Tags -> SUBSET Manifests]
    /\ Platforms \in [Manifests -> SUBSET Manifests]
    /\ LayersOf \in [Manifests -> SUBSET Layers]
    /\ Manifests \intersect (Layers \union Tags) = {}
    /\ Tags \intersect Layers = {}
    /\ {Wrong, Nowhere} \intersect (Manifests \union Layers) = {} /\ Wrong # Nowhere
    /\ Nowhere \notin Keys

VARIABLES
    row,            \* the quarantine row of each key: status, SHA256
    order,          \* the keys that have a row, oldest request first
    cache,          \* the bytes cached under each key
    digestIndex,    \* DockerDriver.digestIndex: the key of a layer
    manifestIndex,  \* DockerDriver.manifestIndex: the key of a manifest
    job,            \* the prefetch of each key: what it is about to do
    client,         \* the pull each goroutine is serving
    pulls, decisions, faults, restarts   \* so far

storage == <<row, order, cache>>
indexes == <<digestIndex, manifestIndex>>
others == <<pulls, decisions, restarts>>
bounds == <<pulls, decisions, faults, restarts>>
dockerVars == <<storage, indexes, job, client, bounds>>

Absent == [status |-> "absent", sha |-> Nowhere]
NoJob == [pc |-> "none", bytes |-> Nowhere]
NoPull == [pc |-> "idle", want |-> Nowhere, key |-> Nowhere, bytes |-> Nowhere,
           digest |-> Nowhere, got |-> Nowhere]

DockerInit ==
    /\ row = [k \in Keys |-> Absent]
    /\ order = << >>
    /\ cache = [k \in Keys |-> Nowhere]
    /\ digestIndex = [y \in Layers |-> Nowhere]
    /\ manifestIndex = [m \in Manifests |-> Nowhere]
    /\ job = [k \in Keys |-> NoJob]
    /\ client = [c \in Clients |-> NoPull]
    /\ pulls = 0 /\ decisions = 0 /\ faults = 0 /\ restarts = 0

-----------------------------------------------------------------------------
(* Quarantine and cache, as the driver and the registry use them.          *)

Live(k) == row[k].status \in {"pending", "approved"}
IsManifest(k) == Last(k) \notin Layers

(* Enqueue keeps a live row; otherwise the row is inserted, or its status  *)
(* rewritten (not its SHA256), approved when a row above it is.            *)
Filed(k, bytes) ==
    IF Live(k) THEN row
    ELSE [row EXCEPT ![k] =
            [status |-> IF \E a \in Above[k] : row[a].status = "approved"
                        THEN "approved" ELSE "pending",
             sha |-> IF row[k].sha = Nowhere THEN bytes ELSE row[k].sha]]

Enqueue(k, bytes) ==
    /\ row' = Filed(k, bytes)
    /\ order' = IF Live(k) THEN order ELSE Append(RemoveFirst(order, k), k)

(* A step in which something outside fails, or upstream sends other bytes. *)
Fault == faults < MaxFaults /\ faults' = faults + 1
NoFault == UNCHANGED faults
Answers(x, b) == (b \in Named(x) /\ NoFault) \/ (b = Wrong /\ Fault)

(* Approve, Reject and Revoke: the rows below follow while they are        *)
(* pending.                                                                *)
Decide(k, status) ==
    /\ decisions < MaxDecisions
    /\ row[k].status # "absent"
    /\ decisions' = decisions + 1
    /\ row' = [c \in Keys |->
         IF c = k \/ (c \in Below[k] /\ row[c].status = "pending")
         THEN [row[c] EXCEPT !.status = status] ELSE row[c]]
    /\ UNCHANGED <<order, cache, indexes, job, client, pulls, faults, restarts>>

-----------------------------------------------------------------------------
(* A pull.                                                                 *)

Finish(c, got) ==
    client' = [client EXCEPT ![c] = [NoPull EXCEPT !.got = got]]

Found(c, x, k, digest) ==
    client' = [client EXCEPT ![c] =
                 [NoPull EXCEPT !.pc = "decide", !.want = x, !.key = k, !.bytes = cache[k],
                                !.digest = digest]]
Fetching(c, x, k) ==
    client' = [client EXCEPT ![c] = [NoPull EXCEPT !.pc = "fetch", !.want = x, !.key = k]]

Begin(c) ==
    /\ client[c].pc = "idle"
    /\ pulls < MaxPulls
    /\ pulls' = pulls + 1
    /\ UNCHANGED <<storage, indexes, job, decisions, faults, restarts>>

(* driver.go:187-247  a layer whose digest is indexed is looked for under  *)
(* the key of its image, and downloaded for that key when it is not        *)
(* cached; a layer that is not indexed is downloaded for its own path.     *)
PullLayer(c, y) ==
    /\ Begin(c)
    /\ LET k == digestIndex[y]
       IN IF k = Nowhere THEN Fetching(c, y, <<y>>)
          ELSE IF cache[k] # Nowhere THEN Found(c, y, k, y) ELSE Fetching(c, y, k)

(* registry.go:106-130, driver.go:249-286  a live row of the path itself,  *)
(* then the index of the digest, then the upstream.  What comes from the   *)
(* cache gets the digest that its bytes have.                              *)
PullManifest(c, x) ==
    /\ Begin(c)
    /\ LET path == <<x>>
           k == IF x \in Manifests THEN manifestIndex[x] ELSE Nowhere
       IN IF Live(path) /\ cache[path] # Nowhere THEN Found(c, x, path, cache[path])
          ELSE IF k # Nowhere /\ cache[k] # Nowhere THEN Found(c, x, k, cache[k])
          ELSE Fetching(c, x, path)

(* driver.go:584-637  no answer, or an error.                              *)
FetchFails(c) ==
    /\ Fault
    /\ client[c].pc = "fetch"
    /\ Finish(c, "error")
    /\ UNCHANGED <<storage, indexes, job, others>>

(* driver.go:213-247, 288-325  the digest that the upstream names for a    *)
(* manifest is indexed unless it is already, before anything is checked.   *)
Fetch(c) ==
    /\ client[c].pc = "fetch"
    /\ \E named \in Named(client[c].want), b \in Bytes :
         /\ b \in {named, Wrong} /\ Answers(named, b)
         /\ client' = [client EXCEPT ![c].pc = "decide", ![c].bytes = b, ![c].digest = named]
         /\ manifestIndex' =
              IF named \in Manifests /\ manifestIndex[named] = Nowhere
              THEN [manifestIndex EXCEPT ![named] = client[c].key] ELSE manifestIndex
    /\ UNCHANGED <<storage, digestIndex, job, others>>

(* driver.go:327-383  the bytes of a layer against the digest of its key,  *)
(* those of a manifest against the digest that came with them, which shows *)
(* nothing of bytes from the cache.                                        *)
Valid(c) == client[c].bytes = client[c].digest

(* The goroutines that OnQuarantine starts for bytes m filed under k.      *)
Launched(j, k, m) ==
    [c \in Keys |-> IF c \in Children(k, m) /\ j[c].pc = "none"
                    THEN [NoJob EXCEPT !.pc = "check"] ELSE j[c]]

AtDecision(c) == client[c].pc = "decide"

(* driver.go:385-399, registry.go:277-285  the path of a layer that no     *)
(* image brought is never quarantined: validated and served.               *)
ServeDirect(c) ==
    /\ AtDecision(c)
    /\ client[c].key \notin Keys
    /\ Finish(c, IF Valid(c) THEN client[c].bytes ELSE "error")
    /\ UNCHANGED <<storage, indexes, job, bounds>>

(* registry.go:171-179  approved: from the cache, or else what was         *)
(* downloaded, validated and cached.                                       *)
ServeApproved(c) ==
    LET k == client[c].key IN
    /\ AtDecision(c) /\ k \in Keys
    /\ row[k].status = "approved"
    /\ \/ cache[k] # Nowhere /\ Finish(c, cache[k]) /\ UNCHANGED cache /\ NoFault
       \/ /\ cache[k] = Nowhere /\ Valid(c)
          /\ Finish(c, client[c].bytes)
          /\ \/ NoFault /\ cache' = [cache EXCEPT ![k] = client[c].bytes]
             \/ Fault /\ UNCHANGED cache
       \/ /\ cache[k] = Nowhere /\ ~ Valid(c)
          /\ Finish(c, "error") /\ UNCHANGED cache /\ NoFault
    /\ UNCHANGED <<row, order, indexes, job, others>>

(* registry.go:181-182                                                     *)
ServePending(c) ==
    /\ AtDecision(c) /\ client[c].key \in Keys
    /\ row[client[c].key].status = "pending"
    /\ Finish(c, "pending")
    /\ UNCHANGED <<storage, indexes, job, bounds>>

(* registry.go:184-221  validate, cache, enqueue; an approval inherited    *)
(* from above is served, anything else prefetches and waits.  A cache that *)
(* cannot be written is passed over, a row that cannot be ends it.         *)
FirstPass(c) ==
    LET k == client[c].key
        b == client[c].bytes
        cached == cache' = [cache EXCEPT ![k] = b]
        filed ==
            /\ Enqueue(k, b)
            /\ IF Filed(k, b)[k].status = "approved"
               THEN Finish(c, b) /\ UNCHANGED job
               ELSE /\ Finish(c, "pending")
                    /\ job' = IF IsManifest(k) THEN Launched(job, k, b) ELSE job
    IN
    /\ AtDecision(c) /\ k \in Keys
    /\ ~ Live(k)
    /\ \/ ~ Valid(c) /\ Finish(c, "error") /\ NoFault /\ UNCHANGED <<storage, job>>
       \/ Valid(c) /\ NoFault /\ cached /\ filed
       \/ Valid(c) /\ Fault /\ UNCHANGED cache /\ filed
       \/ Valid(c) /\ Fault /\ cached /\ Finish(c, "pending") /\ UNCHANGED <<row, order, job>>
    /\ UNCHANGED <<indexes, others>>

-----------------------------------------------------------------------------
(* The prefetch of key k, in goroutines of OnQuarantine.                   *)

Indexed(k) ==
    IF IsManifest(k)
    THEN manifestIndex' = [manifestIndex EXCEPT ![Last(k)] = k] /\ UNCHANGED digestIndex
    ELSE digestIndex' = [digestIndex EXCEPT ![Last(k)] = k] /\ UNCHANGED manifestIndex

(* driver.go:468-473, 532-537  a live row is indexed and left alone.       *)
PrefetchCheck(k) ==
    /\ job[k].pc = "check"
    /\ IF Live(k)
       THEN Indexed(k) /\ job' = [job EXCEPT ![k] = NoJob]
       ELSE job' = [job EXCEPT ![k].pc = "fetch"] /\ UNCHANGED indexes
    /\ UNCHANGED <<storage, client, bounds>>

(* driver.go:477-496, 541-560  fetched and cached, not validated.          *)
PrefetchFetch(k) ==
    /\ job[k].pc = "fetch"
    /\ \E b \in {Last(k), Wrong} :
         /\ Answers(Last(k), b)
         /\ cache' = [cache EXCEPT ![k] = b]
         /\ job' = [job EXCEPT ![k] = [pc |-> "enqueue", bytes |-> b]]
    /\ UNCHANGED <<row, order, indexes, client, others>>

(* A mutant: the result of Enqueue is not looked at.                       *)
PrefetchFailsOn(k) ==
    /\ Fault
    /\ job[k].pc \in {"fetch", "enqueue"}
    /\ job' = [job EXCEPT ![k] = IF @.pc = "fetch" THEN NoJob ELSE [@ EXCEPT !.pc = "index"]]
    /\ UNCHANGED <<storage, indexes, client, others>>

(* driver.go:484-508, 548-572  no answer, or no write: the key is given    *)
(* up.                                                                     *)
PrefetchFails(k) ==
    /\ Fault
    /\ job[k].pc \in {"fetch", "enqueue"}
    /\ job' = [job EXCEPT ![k] = NoJob]
    /\ UNCHANGED <<storage, indexes, client, others>>

(* driver.go:497-508, 561-572                                              *)
PrefetchEnqueue(k) ==
    /\ job[k].pc = "enqueue"
    /\ Enqueue(k, job[k].bytes)
    /\ job' = [job EXCEPT ![k].pc = "index"]
    /\ UNCHANGED <<cache, indexes, client, bounds>>

(* A mutant: the layers of the manifests of a list are not looked at.      *)
PrefetchIndexOnly(k) ==
    /\ job[k].pc = "index"
    /\ Indexed(k)
    /\ job' = [job EXCEPT ![k] = NoJob]
    /\ UNCHANGED <<storage, client, bounds>>

(* driver.go:509-517, 573-575  then the layers of a sub-manifest, as read  *)
(* from the bytes that came.                                               *)
PrefetchIndex(k) ==
    /\ job[k].pc = "index"
    /\ Indexed(k)
    /\ job' = Launched([job EXCEPT ![k] = NoJob], k, job[k].bytes)
    /\ UNCHANGED <<storage, client, bounds>>

-----------------------------------------------------------------------------
(* Of some keys the one that stays in an index when rows are listed newest *)
(* first.                                                                  *)
Oldest(keys) ==
    LET n == SelectInSeq(order, LAMBDA k : k \in keys)
    IN  IF n = 0 THEN Nowhere ELSE order[n]

IsLayerKey(k, y) == Len(k) > 1 /\ Last(k) = y
NamesManifest(k, m) ==
    \/ Len(k) > 1 /\ Last(k) = m
    \/ Len(k) = 1 /\ row[k].sha = m

(* A mutant: the rows are listed with the filter of the pending ones.      *)
RebuiltPending ==
    LET pending == {k \in Keys : row[k].status = "pending"} IN
    /\ digestIndex' = [y \in Layers |-> Oldest({k \in pending : IsLayerKey(k, y)})]
    /\ manifestIndex' = [m \in Manifests |-> Oldest({k \in pending : NamesManifest(k, m)})]

(* driver.go:133-170  the indexes are rebuilt from all rows, newest first, *)
(* so that the oldest one is what remains.                                 *)
Rebuilt ==
    /\ digestIndex' = [y \in Layers |-> Oldest({k \in Keys : IsLayerKey(k, y)})]
    /\ manifestIndex' = [m \in Manifests |-> Oldest({k \in Keys : NamesManifest(k, m)})]

Restart ==
    /\ restarts < MaxRestarts
    /\ restarts' = restarts + 1
    /\ Rebuilt
    /\ job' = [k \in Keys |-> NoJob]
    /\ client' = [c \in Clients |-> NoPull]
    /\ UNCHANGED <<storage, pulls, decisions, faults>>

Pull(c) ==
    \/ \E y \in Layers : PullLayer(c, y)
    \/ \E x \in Tags \union Manifests : PullManifest(c, x)

Serve(c) ==
    \/ Fetch(c) \/ FetchFails(c)
    \/ ServeDirect(c) \/ ServeApproved(c) \/ ServePending(c) \/ FirstPass(c)

Prefetch(k) ==
    \/ PrefetchCheck(k) \/ PrefetchFetch(k) \/ PrefetchFails(k)
    \/ PrefetchEnqueue(k) \/ PrefetchIndex(k)

DockerNext ==
    \/ \E c \in Clients : Pull(c) \/ Serve(c)
    \/ \E k \in Keys : Prefetch(k)
    \/ \E k \in Keys, status \in {"approved", "rejected", "pending"} : Decide(k, status)
    \/ Restart

DockerSpec == DockerInit /\ [][DockerNext]_dockerVars

(* The goroutines of a pull and of a prefetch go on: each of their steps   *)
(* has a timeout (driver.go:483, 549).                                     *)
FairDockerSpec ==
    /\ DockerSpec
    /\ \A c \in Clients : WF_dockerVars(Serve(c))
    /\ \A k \in Keys : WF_dockerVars(Prefetch(k))

-----------------------------------------------------------------------------
(* Properties.                                                             *)

(* The index of layers leads to a key that is in quarantine: a pull is     *)
(* never redirected to a row that nobody can decide on (driver.go:574).    *)
IndexedHasRow ==
    \A y \in Layers : LET k == digestIndex[y] IN
        k # Nowhere => row[k].status # "absent" /\ Last(k) = y

(* A layer that is in quarantine is found there and not served beside it,  *)
(* except while its prefetch is about to register it; a restart in between *)
(* repairs the index (driver.go:133-170).                                  *)
RowIsIndexed ==
    \A k \in Keys :
        ~ IsManifest(k) /\ row[k].status # "absent" /\ job[k].pc # "index" =>
            digestIndex[Last(k)] # Nowhere

(* An image that waits for a decision comes to have all its parts filed    *)
(* under it, the layers of every platform included, unless something       *)
(* fails, the process dies, or its tag is given other bytes                *)
(* (driver.go:434-436).                                                    *)
ImageIsFiled ==
    \A k \in Roots : \A m \in Named(k[1]) :
        row[k].status = "pending" /\ cache[k] = m ~>
            \/ \A part \in Parts(k, m) : row[part].status # "absent"
            \/ faults > 0 \/ restarts > 0
            \/ cache[k] # m

(* README.md:14 "approved artifacts are served locally": a layer of an     *)
(* approved image that is on disk is not answered with "pending".          *)
ApprovedLayerServed ==
    [][\A c \in Clients : \A y \in Layers :
         client[c].want = y /\ client[c].pc = "decide" /\ client'[c].got = "pending" =>
            ~ \E k \in Keys :
                Last(k) = y /\ row[k].status = "approved" /\ cache[k] = y]_dockerVars
=============================================================================
