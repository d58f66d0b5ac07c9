--------------------------- MODULE PackageDrivers ---------------------------
(***************************************************************************)
(* The drivers for PyPI, APT, CRAN, npm and Go modules (drivers/pypi, apt, *)
(* cran, npm, goproxy): how a package is downloaded and checked against    *)
(* what an index said of it, while indexes are read in goroutines of their *)
(* own, and the prefetch of the dependencies of a wheel.                   *)
(*                                                                         *)
(* Every file is quarantined by itself (ModeSelf); the handler is that of  *)
(* Registry with fewer steps.  Digests are the bytes themselves, so that   *)
(* MD5 and SHA256 are one.  Paths, content types, the rewriting of URLs    *)
(* and the five minutes of a prefetch are left out.                        *)
(***************************************************************************)
EXTENDS UrlIndex, DebVerifier

CONSTANTS
    Driver,      \* Driver[f]: "pip", "apt", "r", "npm" or "go"
    Bytes,       \* contents of files
    Content,     \* Content[f]: the bytes of f, for drivers other than "pip"
    Wrong,       \* bytes that the upstream may send in place of others
    Cut,         \* a checksum of which only a part was read
    Magic,       \* Magic[b]: "gzip", "zip", "ar" or "other"
    Needs,       \* Needs[b]: the packages that the METADATA of b requires
    Pages,       \* Pages[p]: what the page of p may show
    Listings,    \* Listings[d]: what the package index of "apt" or "r" may show
    HasVersion,  \* HasVersion[f]: the path of the R file f has a version
    Release,     \* Release[f]: the name and version of the R file f
    Zipped,      \* the R files whose name ends in .zip
    Verifies,    \* BOOLEAN: the APT driver has a verifier
    Clients,     \* goroutines of net/http
    MaxPulls,    \* bound: number of requests
    MaxEvents    \* bound: number of faults, decisions, restarts and acts of an
                 \* administrator together

PipFiles == {f \in Files : Driver[f] = "pip"}
Listed == {f \in Files : Driver[f] \in {"apt", "r"}}
Releases == {Release[f] : f \in {g \in Files : Driver[g] = "r"}}

(* A page that links no file other than those of its package, and an index *)
(* that lists files of its driver; ended says that an empty line follows   *)
(* the last stanza.  A path, the name of a package, and a name with a      *)
(* version are different things.                                           *)
ASSUME DriverAssumption ==
    /\ Driver \in [Files -> {"pip", "apt", "r", "npm", "go"}]
    /\ Files \intersect Packages = {}
    /\ Releases \intersect (Files \union Packages) = {}
    /\ \A p \in Packages : \A page \in Pages[p] :
          /\ page \in Seq([file : PipFiles, url : Bytes, sha : Bytes \union {Unlisted}])
          /\ \A n \in DOMAIN page :
               PackageOf[page[n].file] = p /\ page[n].sha \in {page[n].url, Unlisted}
    /\ \A d \in {"apt", "r"} : \A l \in Listings[d] :
          /\ l.ended \in BOOLEAN /\ l.files \in Seq({f \in Files : Driver[f] = d})
          /\ l.files # << >>
    /\ \A f \in Files \ PipFiles : Content[f] \in Bytes
    /\ Needs \in [Bytes -> SUBSET Packages]
    /\ Wrong \subseteq Bytes
    /\ Verifies \in BOOLEAN
    /\ {Unlisted, Cut} \intersect Bytes = {} /\ Cut # Unlisted

(* The archive that an R file is by its name (cran/driver.go:305-316).     *)
Archive(f) == IF f \in Zipped THEN "zip" ELSE "gzip"

(* The right bytes of a package are an archive of its kind.                *)
ASSUME HonestAssumption ==
    \A f \in Files :
        /\ Driver[f] = "r" => Magic[Content[f]] = Archive(f)
        /\ Driver[f] = "npm" => Magic[Content[f]] = "gzip"
        /\ Driver[f] = "go" => Magic[Content[f]] = "zip"

Nothing == Unlisted

VARIABLES
    row,      \* the quarantine row of each file
    cache,    \* the bytes cached for each file
    urls,     \* PyPIDriver.urlIndex
    sums,     \* packagesIndex of the APT and the CRAN driver
    loads,    \* indexes on their way to packagesIndex.load
    keyring,  \* the directory of public keys
    job,      \* prefetchOne for each file and each package it needs
    client,   \* the request each goroutine serves
    pulls, faults, decisions, restarts, admin   \* so far

disk == <<row, cache>>
listings == <<urls, sums, loads>>
counts == <<pulls, decisions, restarts, admin>>
packageVars == <<disk, listings, keyring, job, client, counts, faults>>

(* A checksum is found by the path of a Debian package, and by name and    *)
(* version or by the name alone of an R file, wherever that file is: the   *)
(* source and the binaries of one version share an entry, those of all     *)
(* versions another.                                                       *)
SumKeys == {f \in Files : Driver[f] = "apt"} \union Releases \union Packages

(* What pages ever say of the wheel f, and the prefetches it may start.    *)
Links == [f \in PipFiles |->
            {link \in UNION {Range(page) : page \in Pages[PackageOf[f]]} : link.file = f}]
BytesOf(f) == {link.url : link \in Links[f]} \union Wrong
Jobs == UNION {{<<f, p>> : p \in UNION {Needs[b] : b \in BytesOf(f)}} : f \in PipFiles}
NoJob == [pc |-> "none", file |-> Nothing, url |-> Nothing, bytes |-> Nothing]
NoPull == [pc |-> "idle", want |-> Nothing, bytes |-> Nothing, sum |-> Nothing,
           got |-> "none"]
NoRow == [status |-> "absent", marked |-> FALSE]

PackageInit ==
    /\ row = [f \in Files |-> NoRow]
    /\ cache = [f \in Files |-> Nothing]
    /\ urls = NewIndex
    /\ sums = [k \in SumKeys |-> Nothing]
    /\ loads = {}
    /\ keyring = EmptyKeyring
    /\ job = [j \in Jobs |-> NoJob]
    /\ client = [c \in Clients |-> NoPull]
    /\ pulls = 0 /\ faults = 0 /\ decisions = 0 /\ restarts = 0 /\ admin = 0

Event == faults + decisions + restarts + admin < MaxEvents
Fault == Event /\ faults' = faults + 1
NoFault == UNCHANGED faults

-----------------------------------------------------------------------------
(* Quarantine and cache.                                                   *)

Live(f) == row[f].status \in {"pending", "approved"}

(* Enqueue: a live row stays, the name of another is kept.                 *)
Enqueue(f, marked) ==
    row' = IF Live(f) THEN row
           ELSE [row EXCEPT ![f] = [status |-> "pending",
                                    marked |-> IF @.status = "absent" THEN marked ELSE @.marked]]

Decide(f, status) ==
    /\ Event
    /\ row[f].status # "absent"
    /\ decisions' = decisions + 1
    /\ row' = [row EXCEPT ![f].status = status]
    /\ UNCHANGED <<cache, listings, keyring, job, client, pulls, restarts, admin, faults>>

-----------------------------------------------------------------------------
(* The package indexes of APT and CRAN.                                    *)

(* cran/driver.go:232-235, apt/driver.go:246-248                           *)
SumKeysOf(f) == IF Driver[f] = "r" THEN {Release[f], PackageOf[f]} ELSE {f}

(* cran/driver.go:253-256, 265-283; apt/driver.go:258                      *)
SumKey(f) ==
    IF Driver[f] # "r" THEN f ELSE IF HasVersion[f] THEN Release[f] ELSE PackageOf[f]

(* A mutant: the checksum of the name, which is that of the last version.  *)
SumForName(f) == sums[IF Driver[f] = "r" THEN PackageOf[f] ELSE f]

(* cran/driver.go:249-261, apt/driver.go:255-259                           *)
SumFor(f) == sums[SumKey(f)]

(* The APT driver files a stanza when an empty line comes                  *)
(* (apt/driver.go:237-252), the CRAN driver also the one at the end        *)
(* (cran/driver.go:218-246).                                               *)
AptStanzas(l) == IF l.ended THEN l.files ELSE Front(l.files)
CranStanzas(l) == l.files
Stanzas(d, l) == IF d = "r" THEN CranStanzas(l) ELSE AptStanzas(l)

(* A mutant: an index replaces those that were read before it.             *)
LoadedAfresh(files) ==
    [k \in SumKeys |->
        LET n == SelectLastInSeq(files, LAMBDA f : k \in SumKeysOf(f))
        IN  IF n = 0 THEN Nothing ELSE Content[files[n]]]

(* The last stanza for a key is the one that stays, of whatever index.     *)
Loaded(files) ==
    [k \in SumKeys |->
        LET n == SelectLastInSeq(files, LAMBDA f : k \in SumKeysOf(f))
        IN  IF n = 0 THEN sums[k] ELSE Content[files[n]]]

(* A stream that breaks off in a stanza: those before it stay, and the     *)
(* CRAN driver files it, with no checksum or the part of one it read.      *)
Broken(d, l) ==
    UNION {LET read == Loaded(SubSeq(l.files, 1, n - 1))
               keys == SumKeysOf(l.files[n])
               Cutting(part) == [k \in SumKeys |-> IF k \in keys THEN part ELSE read[k]]
           IN IF d = "r" THEN {read, Cutting(Nothing), Cutting(Cut)} ELSE {read}
           : n \in DOMAIN l.files}

(* apt/driver.go:221-253, cran/driver.go:202-247  under the lock.          *)
Load(d, l) ==
    /\ <<d, l>> \in loads
    /\ loads' = loads \ {<<d, l>>}
    /\ \/ NoFault /\ sums' = Loaded(Stanzas(d, l))
       \/ Fault /\ sums' \in Broken(d, l)
    /\ UNCHANGED <<disk, urls, keyring, job, client, counts>>

(* apt/driver.go:98-101, cran/driver.go:69-73  a client asks for an index; *)
(* it is answered, and read in a goroutine.                                *)
PullListing(d, l) ==
    /\ pulls < MaxPulls /\ pulls' = pulls + 1
    /\ loads' = loads \union {<<d, l>>}
    /\ UNCHANGED <<disk, urls, sums, keyring, job, client, decisions, restarts, admin, faults>>

(* apt/driver.go:183-191, cran/driver.go:160-176, through handleRefreshIndex. *)
RefreshIndex(d, l) ==
    /\ Event /\ admin' = admin + 1
    /\ loads' = loads \union {<<d, l>>}
    /\ UNCHANGED <<disk, urls, sums, keyring, job, client, pulls, decisions, restarts, faults>>

(* apt/driver.go:195-200                                                   *)
AddGPGKey(k) ==
    /\ Verifies
    /\ Event /\ admin' = admin + 1
    /\ keyring' = AddKey(keyring, k)
    /\ UNCHANGED <<disk, listings, job, client, pulls, decisions, restarts, faults>>

-----------------------------------------------------------------------------
(* A pull.                                                                 *)

Asked(f) == IF f \in PipFiles THEN urls.entries[f].url ELSE Content[f]
Finish(c, got) == client' = [client EXCEPT ![c] = [NoPull EXCEPT !.got = got]]

(* registry.go:106-130, pypi/driver.go:92-109                              *)
Pull(c, f) ==
    /\ client[c].pc = "idle"
    /\ pulls < MaxPulls /\ pulls' = pulls + 1
    /\ client' = [client EXCEPT ![c] =
         IF Live(f) /\ cache[f] # Nothing
         THEN [NoPull EXCEPT !.got = IF row[f].status = "approved" THEN "served" ELSE "pending"]
         ELSE [NoPull EXCEPT !.want = f,
                 !.pc = IF f \in PipFiles /\ urls.entries[f] = NoEntry THEN "page" ELSE "fetch"]]
    /\ UNCHANGED <<disk, listings, keyring, job, decisions, restarts, admin, faults>>

(* pypi/driver.go:73-90, 395-427  a client asks for the page of a package. *)
PullPage(p) ==
    /\ pulls < MaxPulls /\ pulls' = pulls + 1
    /\ \E page \in Pages[p] : urls' = IndexPage(urls, page)
    /\ UNCHANGED <<disk, sums, loads, keyring, job, client, decisions, restarts, admin, faults>>

(* pypi/driver.go:112-119, 431-447                                         *)
FindURL(c) ==
    LET f == client[c].want IN
    /\ client[c].pc = "page"
    /\ \E page \in Pages[PackageOf[f]] :
         /\ urls' = IndexPage(urls, page)
         /\ IF urls'.entries[f] = NoEntry THEN Finish(c, "error")
            ELSE client' = [client EXCEPT ![c].pc = "fetch"]
    /\ UNCHANGED <<disk, sums, loads, keyring, job, counts, faults>>

(* The upstream answers with the bytes, or with others.                    *)
Answers(right, b) == (b = right /\ NoFault) \/ (b \in Wrong \ {right} /\ Fault)

(* What the driver looks up while it resolves: the digest of a wheel or of *)
(* an R package (cran/driver.go:73-85); that of a Debian package is looked *)
(* up when it is validated.                                                *)
LookedUp(f) ==
    IF f \in PipFiles THEN urls.entries[f].sha
    ELSE IF Driver[f] = "r" THEN SumFor(f) ELSE Nothing

(* pypi/driver.go:111-144 and Resolve of the other drivers.                *)
Fetch(c) ==
    /\ client[c].pc = "fetch"
    /\ \E b \in Bytes :
         /\ Answers(Asked(client[c].want), b)
         /\ client' = [client EXCEPT ![c].pc = "check", ![c].bytes = b,
                                     ![c].sum = LookedUp(client[c].want)]
    /\ UNCHANGED <<disk, listings, keyring, job, counts>>

FetchFails(c) ==
    /\ client[c].pc \in {"page", "fetch"}
    /\ Fault
    /\ Finish(c, "error")
    /\ UNCHANGED <<disk, listings, keyring, job, counts>>

(* pypi/hash.go, pypi/driver.go:167-171, cran/driver.go:111-128            *)
Matches(b, sum) == sum \in {Nothing, b}

(* Validate of each driver: pypi/driver.go:163-173, apt/driver.go:122-152, *)
(* cran/driver.go:99-131, npm/driver.go:99-104, goproxy/driver.go:68-76.   *)
(* An unsigned Debian package passes either way, with a mark in its name   *)
(* if the verifier rejects it.                                             *)
PipValid(b, sum) == Matches(b, sum)
AptValid(f, b) ==
    /\ Verifies => VerifyDeb(keyring, b) \in {"ok", "ErrNoSignature"}
    /\ Matches(b, SumFor(f))
CranValid(f, b, sum) == Magic[b] = Archive(f) /\ Matches(b, sum)
NpmValid(b) == Magic[b] = "gzip"
GoValid(b) == Magic[b] = "zip"

Validate(f, b, sum) ==
    CASE Driver[f] = "pip" -> PipValid(b, sum)
      [] Driver[f] = "apt" -> AptValid(f, b)
      [] Driver[f] = "r" -> CranValid(f, b, sum)
      [] Driver[f] = "npm" -> NpmValid(b)
      [] Driver[f] = "go" -> GoValid(b)

Marked(f, b) == Driver[f] = "apt" /\ Verifies /\ VerifyDeb(keyring, b) = "ErrNoSignature"

(* A mutant: what a wheel needs is not read from its METADATA.             *)
Alone(jobs, f, b) == jobs

(* pypi/driver.go:180-220, 283-287  one goroutine for each package that    *)
(* the METADATA requires; an sdist has none.                               *)
Launched(jobs, f, b) ==
    [j \in Jobs |-> IF f \in PipFiles /\ j[1] = f /\ j[2] \in Needs[b] /\ jobs[j].pc = "none"
                    THEN [NoJob EXCEPT !.pc = "page"] ELSE jobs[j]]

(* registry.go:171-222, 277-285  as in Registry, without the wait for a    *)
(* scan.                                                                   *)
Serve(c) ==
    LET f == client[c].want
        b == client[c].bytes
        valid == Validate(f, b, client[c].sum)
        store == \/ NoFault /\ cache' = [cache EXCEPT ![f] = b]
                 \/ Fault /\ UNCHANGED cache
    IN
    /\ client[c].pc = "check"
    /\ \/ /\ row[f].status = "approved" /\ cache[f] # Nothing
          /\ Finish(c, "served") /\ UNCHANGED <<disk, job>> /\ NoFault
       \/ /\ row[f].status = "approved" /\ cache[f] = Nothing /\ valid
          /\ Finish(c, "served") /\ store /\ UNCHANGED <<row, job>>
       \/ /\ row[f].status = "pending"
          /\ Finish(c, "pending") /\ UNCHANGED <<disk, job>> /\ NoFault
       \/ /\ row[f].status # "pending" /\ ~ valid
          /\ row[f].status = "approved" => cache[f] = Nothing
          /\ Finish(c, "error") /\ UNCHANGED <<disk, job>> /\ NoFault
       \/ /\ ~ Live(f) /\ valid
          /\ store /\ Enqueue(f, Marked(f, b))
          /\ job' = Launched(job, f, b)
          /\ Finish(c, "pending")
    /\ UNCHANGED <<listings, keyring, counts>>

-----------------------------------------------------------------------------
(* prefetchOne for package p, which the file f requires: j = <<f, p>>.     *)

(* A mutant: a wheel that is in quarantine is waited for.                  *)
PrefetchPageWaits(j) ==
    /\ job[j].pc = "page"
    /\ \E page \in Pages[j[2]] :
         LET idx == IndexPage(urls, page)
             best == BestWheel(idx, j[2])
         IN /\ best # Unlisted => ~ Live(best)
            /\ urls' = idx
            /\ job' = [job EXCEPT ![j] = IF best = Unlisted THEN NoJob
                         ELSE [NoJob EXCEPT !.pc = "fetch", !.file = best,
                                            !.url = idx.entries[best].url]]
    /\ UNCHANGED <<disk, sums, loads, keyring, client, counts, faults>>

(* driver.go:222-245  the page is indexed, the best wheel chosen with its  *)
(* address; nothing is done for one that is in quarantine.                 *)
PrefetchPage(j) ==
    /\ job[j].pc = "page"
    /\ \E page \in Pages[j[2]] :
         LET idx == IndexPage(urls, page)
             best == BestWheel(idx, j[2])
         IN /\ urls' = idx
            /\ job' = [job EXCEPT ![j] = IF best = Unlisted \/ Live(best) THEN NoJob
                         ELSE [NoJob EXCEPT !.pc = "fetch", !.file = best,
                                            !.url = idx.entries[best].url]]
    /\ UNCHANGED <<disk, sums, loads, keyring, client, counts, faults>>

(* driver.go:248-254                                                       *)
PrefetchFetch(j) ==
    /\ job[j].pc = "fetch"
    /\ \E b \in Bytes :
         /\ Answers(job[j].url, b)
         /\ job' = [job EXCEPT ![j].pc = "verify", ![j].bytes = b]
    /\ UNCHANGED <<disk, listings, keyring, client, counts>>

(* A mutant: the digest is not looked up again.                            *)
PrefetchUnverified(j) ==
    /\ job[j].pc = "verify"
    /\ cache' = [cache EXCEPT ![job[j].file] = job[j].bytes]
    /\ job' = [job EXCEPT ![j].pc = "enqueue"]
    /\ UNCHANGED <<row, listings, keyring, client, counts, faults>>

(* driver.go:257-266  the digest is the one of the index now, whatever     *)
(* page wrote it.                                                          *)
PrefetchVerify(j) ==
    LET f == job[j].file IN
    /\ job[j].pc = "verify"
    /\ IF Matches(job[j].bytes, urls.entries[f].sha)
       THEN /\ cache' = [cache EXCEPT ![f] = job[j].bytes]
            /\ job' = [job EXCEPT ![j].pc = "enqueue"]
       ELSE UNCHANGED cache /\ job' = [job EXCEPT ![j] = NoJob]
    /\ UNCHANGED <<row, listings, keyring, client, counts, faults>>

(* driver.go:268-287                                                       *)
PrefetchEnqueue(j) ==
    /\ job[j].pc = "enqueue"
    /\ Enqueue(job[j].file, FALSE)
    /\ job' = Launched([job EXCEPT ![j] = NoJob], job[j].file, job[j].bytes)
    /\ UNCHANGED <<cache, listings, keyring, client, counts, faults>>

(* Each step of prefetchOne returns on an error, and so does its deadline. *)
PrefetchFails(j) ==
    /\ job[j].pc # "none"
    /\ Fault
    /\ job' = [job EXCEPT ![j] = NoJob]
    /\ UNCHANGED <<disk, listings, keyring, client, counts>>

(* The indexes and the goroutines are gone; disk and keyring stay.         *)
Restart ==
    /\ Event /\ restarts' = restarts + 1
    /\ urls' = NewIndex
    /\ sums' = [k \in SumKeys |-> Nothing]
    /\ loads' = {}
    /\ job' = [j \in Jobs |-> NoJob]
    /\ client' = [c \in Clients |-> NoPull]
    /\ UNCHANGED <<disk, keyring, pulls, faults, decisions, admin>>

Handle(c) == FindURL(c) \/ Fetch(c) \/ FetchFails(c) \/ Serve(c)
Prefetch(j) ==
    \/ PrefetchPage(j) \/ PrefetchFetch(j) \/ PrefetchVerify(j) \/ PrefetchEnqueue(j)
    \/ PrefetchFails(j)
Goroutine ==
    \/ \E c \in Clients : Handle(c)
    \/ \E j \in Jobs : Prefetch(j)
    \/ \E d \in {"apt", "r"} : \E l \in Listings[d] : Load(d, l)

PackageNext ==
    \/ Goroutine
    \/ \E c \in Clients, f \in Files : Pull(c, f)
    \/ \E p \in Packages : PullPage(p)
    \/ \E d \in {"apt", "r"} : \E l \in Listings[d] : PullListing(d, l) \/ RefreshIndex(d, l)
    \/ \E k \in PublicKeys : AddGPGKey(k)
    \/ \E f \in Files, status \in {"pending", "approved", "rejected"} : Decide(f, status)
    \/ Restart

PackageSpec == PackageInit /\ [][PackageNext]_packageVars

(* Of the prefetches one that can go on does; nothing waits for another,   *)
(* and downloads have timeouts.                                            *)
Prefetching == \E j \in Jobs : Prefetch(j)
FairPackageSpec == PackageSpec /\ WF_packageVars(Prefetching)

-----------------------------------------------------------------------------
(* Properties.                                                             *)

(* Whether the pages of a package agree on its files, and whether each of  *)
(* them links a wheel.                                                     *)
Stable == {p \in Packages :
             \A f \in PipFiles : PackageOf[f] = p => \A x, y \in Links[f] : x = y}
Wheeled == {p \in Packages :
              \A page \in Pages[p] : \E n \in DOMAIN page : Tag[page[n].file] # "sdist"}

(* What is cached passed a check that tells it from other bytes, as far as *)
(* the driver has one: no wheel whose digest is listed, and no archive of  *)
(* R, npm or Go, is something else, whatever pages and indexes were read   *)
(* while it was fetched (pypi/driver.go:257).                              *)
CachedIsChecked ==
    \A f \in Files : cache[f] # Nothing =>
        CASE Driver[f] = "pip" -> \E link \in Links[f] : link.sha \in {Unlisted, cache[f]}
          [] Driver[f] = "apt" -> Verifies => SignedBy[cache[f]] # Unreadable
          [] Driver[f] = "r" -> Magic[cache[f]] = Archive(f)
          [] Driver[f] = "npm" -> Magic[cache[f]] = "gzip"
          [] Driver[f] = "go" -> Magic[cache[f]] = "zip"

(* The digest in the link to a file on the page that the proxy writes.     *)
Fragment(f) == IF row[f].status = "approved" THEN urls.entries[f].sha ELSE Unlisted

(* The digest that a page gives with an approved wheel is the one of the   *)
(* bytes that are served for it, else pip refuses what was approved        *)
(* (pypi/driver.go:418-424).                                               *)
FragmentIsServed ==
    \A f \in PipFiles :
        PackageOf[f] \in Stable /\ Fragment(f) # Unlisted => cache[f] \in {Nothing, Fragment(f)}

(* Whose checksum a file may be checked against.                           *)
Sharing(f) == {g \in Listed : SumKey(f) \in SumKeysOf(g)}

(* A client is told that the right bytes of a package, which the upstream  *)
(* sent, are not, as the checksum that was looked up says.                 *)
HonestRefused(c) ==
    /\ client[c].pc = "check" /\ client'[c].got = "error"
    /\ client[c].want \notin PipFiles
    /\ client[c].bytes = Content[client[c].want]

(* The right bytes of a package are never taken for "possible tampering"   *)
(* (apt/driver.go:147) because of another version or another package, in   *)
(* whatever order indexes are read, versions follow each other and the     *)
(* proxy restarts.  What may be wrong is the keyring, an index that broke  *)
(* off in the checksum, or the entry that the file shares with another.    *)
HonestIsAccepted ==
    [][\A c \in Clients : HonestRefused(c) =>
         LET f == client[c].want IN
         \/ Driver[f] = "apt" /\ SignedBy[Content[f]] \notin Imported(keyring)
         \/ client[c].sum = Cut
         \/ \E g \in Sharing(f) \ {f} : client[c].sum = Content[g]]_packageVars

(* A Debian package whose checksum is known stays so until the process     *)
(* ends: indexes are many, one for each suite and component, and reading   *)
(* one, or a part of one, takes nothing from what the others said          *)
(* (apt/driver.go:221-253).                                                *)
DebSumsStay ==
    [][\A f \in Files : Driver[f] = "apt" /\ sums[f] # Nothing =>
          sums'[f] = sums[f] \/ restarts' # restarts]_packageVars

(* When no prefetch is running, a wheel that waits for a decision has      *)
(* every package it needs in quarantine beside it (README.md:643           *)
(* "Automatic prefetch of dependencies"), unless something failed, the     *)
(* process died, the address of a file changed between two pages, or a     *)
(* package has no wheel.                                                   *)
DependenciesFiled ==
    (\A j \in Jobs : job[j].pc = "none") /\ faults = 0 /\ restarts = 0 =>
        \A f \in PipFiles : row[f].status = "pending" =>
            \A p \in Needs[cache[f]] \intersect Stable \intersect Wheeled :
                \E g \in PipFiles : PackageOf[g] = p /\ row[g].status # "absent"

(* Prefetches end, although packages may need each other in a circle: what *)
(* is in quarantine is not fetched again (pypi/driver.go:243).             *)
PrefetchEnds == <>[](\A j \in Jobs : job[j].pc = "none")

(* cran/driver.go:7-8, 19 "Windows binary", "macOS binary", "MD5 / SHA256  *)
(* cross-check against the PACKAGES index": the right bytes of an R file   *)
(* pass the check, whichever index was read last.                          *)
BinaryIsAccepted ==
    [][\A c \in Clients : HonestRefused(c) /\ Driver[client[c].want] = "r" =>
          client[c].sum = Cut]_packageVars

(* apt/driver.go:56, gpg/verifier.go:43 "if true, a .deb without           *)
(* _gpgorigin is rejected".                                                *)
UnsignedIsRejected ==
    \A f \in Files :
        Driver[f] = "apt" /\ Verifies /\ RejectUnsigned /\ cache[f] # Nothing =>
            SignedBy[cache[f]] # Unsigned

(* gpg/verifier.go:97, 108 "Filename based on first bytes (short           *)
(* fingerprint)", "ListKeys lists the fingerprints of imported keys": a    *)
(* key that was imported stays so, as no operation removes one.            *)
KeysStay == [][Imported(keyring) \subseteq Imported(keyring')]_packageVars
=============================================================================
