# multirepo-proxy in TLA+

multirepo-proxy is a caching proxy for package repositories (Docker, PyPI, APT,
CRAN, npm, Go) that puts every new artifact into a quarantine: it is downloaded
once, cached, recorded in an SQLite table, scanned for vulnerabilities, and
handed to clients only after an administrator, or a set of rules, approved it.
This directory holds TLA+ models of the parts that decide on that, the TLC
configurations that check them on small instances, and TLAPS proofs of their
main properties for every instance.

    tlc -workers 2 -config MCRegistry.cfg MCRegistry.tla
    tlapm RegistryProofs.tla

`PROJECT.json` maps every definition to the lines it models and lists the
runs, one mutant per property (the operators of the modules that are commented
"A mutant" and used nowhere else), the findings, the hazards and the theorems.

## The system

| Part | State | Operations | What makes it correct |
|---|---|---|---|
| Quarantine store (`core/quarantine.go`, `core/db`) | tables `requests`, `audit_log`, `security_scans`, `security_findings` | `Enqueue`, `Approve`, `Reject`, `Revoke`, `SaveFindings`, queries | an approval has a source on record; the id of a row is its own; the history explains the status; an artifact flagged for human review is approved by a human |
| Scan hook, restart (`cmd/root.go`) | one goroutine per scan; the list of interrupted scans | `buildScanHook`, `resumePendingScans` | every scan ends; an interrupted scan is taken up again; a clean request is approved |
| Vulnerability sources (`security/*`) | a rate limiter each for NVD and Sonatype | `MultiScanner.Scan`, one goroutine per source; EPSS enrichment | no source hides what another one found; a second scan takes away no finding of the first, whatever scores it overwrites |
| Rules and their re-evaluation (`core/rules.go`, `serviceweb/api/admin.go`) | table `rules` | rule CRUD, `Evaluate`, `rescanPending` | automatic approval only when there are rules and none is triggered |
| Registry (`core/registry.go`) | one goroutine per request; the subscriptions of `QuarantineStore` | `ServeHTTP`, `handleSelfQuarantine`, `waitScan` | only what was let through is served; no lost wakeup, no leaked subscription, every request is answered |
| Disk cache (`core/store.go`, `core/validators.go`) | a `.data` and a `.meta` file per key, a lock, a list of validators | `Get`, `Set`, `SetWithValidation`, `Delete`, `Exists`, `touchMeta` | one content per key, replaced as a whole; what is written was validated |
| Docker driver (`drivers/docker`) | `digestIndex`, `manifestIndex` in memory | `Resolve`, `Validate`, prefetch, rebuild at start-up | a layer is found under an image that is in quarantine; a waiting image has all its parts filed |
| PyPI driver (`drivers/pypi`) | `urlIndex` | pages, choice of a wheel, download, prefetch of dependencies | what is cached has the listed digest; dependencies are filed beside their package; prefetches end |
| APT driver and verifier (`drivers/apt`) | `packagesIndex`, keyring directory | index refresh, `VerifyDeb`, key import | reading one index takes nothing from another; the right bytes are refused only for the key or the checksum |
| CRAN, npm and Go drivers | CRAN: `packagesIndex` | download and validation | the right bytes are refused only for the checksum, which the files of one version share |
| Authentication and groups (`auth/*`, `core/groupstore.go`) | tables `users` and `groups`; sessions in cookies | six ways to name a sender, resolution of rights | no request with a name has a right that nobody gave; no password of the table lets in a disabled account |
| Brute-force tracker (`auth/bruteforce`) | a failure counter per IP | `IsBlocked`, `RecordFailure`, `RecordSuccess`, cleanup | a block stands for its time and ends |
| Administration, MCP, command line (`serviceweb/api`, `cmd/mcp.go`, `cmd/user.go`) | none of their own: they call the store, the rules, the users | HTTP handlers; a second process on the same database | each does what it says in the presence of the others |
| Logging (`logs/*`) | current file and archives; batch of lines | write, rotate, flush | no line is lost by a rotation |

How they interact: the registry calls `Enqueue`, which starts the hook as a
goroutine (`OnEnqueue`); the hook writes scans, findings and decisions and
wakes the handlers that wait on a channel per request id (`SubscribeByID`,
`NotifyScanDone`); the registry also starts the driver's `OnQuarantine`, which
prefetches what the artifact needs and enqueues it in turn. The administration
interface decides, changes rules and starts `rescanPending`; the MCP server
does the same from another process, without the re-evaluation. Everything
persistent is in SQLite, with one connection (`MaxOpenConns(1)`), so that each
statement or transaction is atomic and whatever lies between two is not.

Where the behaviour is hard: `Enqueue` is three statements and no transaction;
the hook is five, and the process may die between any two; `rescanPending`
works from a list and findings that age while it runs; the registry asks for
the status, then reads the cache, then serves; a wait can end by a
notification, a timeout or a disconnection, in any order with the scan; the
cache keeps two files per entry and rewrites one of them behind the lock; the
indexes of the drivers live in memory and lag behind the database; a request
reads its rights one group at a time while groups change.

## The modules

**QuarantineStore** - the most general client of the store. `rows` is the table
`requests` by cache key (id, status, `require_human_review`, `sha256`), `audit`
the table `audit_log`, `issued` the in-memory row each call of `Enqueue` built
(what the hook gets), `enq` the progress of each goroutine inside `Enqueue`,
`launched` the hooks that were started and have not run. Actions:
`EnqueueExisting`, `EnqueueLookup`, `EnqueueParent`, `EnqueueInsert` are the
statements of `Enqueue` (the upsert writes id, status and date only: `Upsert`);
`Approve`, `Reject`, `Revoke` are one transaction each, with the cascade of
`updateLinked` in `Decided`; `Crash` forgets the goroutines. `Below` is the
relation `c LIKE k || '/%'` between keys. `SignedKeys` are the keys for which a
driver may demand a human: Docker manifests. Children are first inserted by the
prefetch, which does not validate, so that only a rejected child can be enqueued
again with a flag (`MayBeFlagged`).

**Rules** is the table of rules and what is computed from it: what each
operation writes (`Created`, `Updated`, `Deleted`, `Toggled`; `Stored` is the
column default that enables every new rule), `CheckRule` and `Passes`. It has
no variables: ScanPipeline keeps the table, Scanners asks it about findings.

**ScanPipeline** extends both with who really calls these operations: the hook
(`HookStart`, `HookScan`, `HookMark`, `HookDecide`, `HookApprove`,
`HookNotify`: one action per statement that reads or writes shared state),
`resumePendingScans` (`ResumeList`, `ResumeLaunch`), rule changes
(`ChangeRules` through the API, which starts a re-evaluation; `ToolReadsRule`
and `ToolWritesRule`, the two statements of the MCP tool, which start none and
may write a rule that was changed or deleted meanwhile), `rescanPending`
(`RescanList`, `RescanFindings`, `RescanEvaluate`, `RescanApprove`,
`RescanEnd`), the administrator (`AdminDecide`) and `Restart`. `Faults`
switches on failing scanners and failing writes of findings.

**Scanners** is the step `HookScan` of the pipeline in its parts: one goroutine
per source (`ask`), the mutex of each rate limiter (`holder`), the conversion
of advisories (`Converted`: an OSV advisory takes its CVE as its id, NVD
returns one page), the merge, the EPSS scores, and `SaveFindings` row by row
with the upsert of each. A source is queried in every scan and may answer
otherwise than before (`Report` gives the lists it may answer, `Epss` the
scores). `said` is a history of the answers behind a hook, `written` of the rows
that were ever written for a request, `whole` of the findings that were saved in
full.

**Registry** extends the pipeline with the clients. `client` holds, per handler
goroutine, the query it makes next, the key, the version it downloaded, the id
it waits for, the token of its channel and the last response. Each query of the
store is an action, because the status may change between two. `cache` keeps a
version per key, `subs` is `QuarantineStore.subs`, `pulls` what running
`OnQuarantine` goroutines have to prefetch. `ClientEnqueue` goes through the
statements of `Enqueue`, `Notify` is the hook's last step with whom it wakes.

**BruteForce** models the failure counter per IP and the middleware around an
authentication. It shares no state with the others. `blockedUntil` is kept as
the ticks that remain; each operation of the tracker is atomic under its mutex,
and between them the requests of several goroutines interleave.

**DiskStore** is the cache on disk: the two files of a key, the `RWMutex`
(`readers` and `writer`, taken and released by the steps that do so in the
code), `Get`, `Set`, `SetWithValidation`
(which copies the list of validators, runs them outside the lock and only then
locks), `Delete`, the goroutine `touchMeta` that `Get` leaves behind and that
rewrites the metadata without the lock, failing writes, removals whose failure
nobody is told (`RemoveData`, `RemoveMeta`) and a crash between any two file
operations. **Validators** has the validators themselves and the
chain. **BlobCache** is what callers may expect of the store: one content per
key, replaced as a whole, and two instants per call, the one at which it takes
effect and the one at which it answers; a `Delete` may answer without having
taken effect. `Registry.cache` is such a store.

**DockerIndex** has the two indexes of the Docker driver. A key is the path of
an artifact, tag first; a pull by tag or by digest goes through `FirstPass`
(the lookup, with the download where it is needed), and `ServeDirect`,
`ServeApproved` or `ServePending`; the prefetch of each key checks, fetches,
enqueues and indexes in steps of its own (`PrefetchCheck` ... `PrefetchIndex`);
`Restart` loses the indexes and rebuilds them from the rows.

**PackageDrivers** has the five drivers for packages. **UrlIndex** is the index
of the PyPI driver and its choice of a wheel; **DebVerifier** the keyring and
the verification of a Debian package. A request finds the address and the
checksum (`FindURL`, `Fetch`), then checks and files what came (`Serve`), while
package indexes are read in goroutines (`PullListing`, `RefreshIndex`, `Load`)
and the dependencies of a wheel are prefetched (`PrefetchPage` ...
`PrefetchEnqueue`). Bytes are their own digests. A Debian checksum is kept by
path, one of CRAN by name and version and again by the name alone (`SumKeysOf`),
so that the source and the binaries of one version share an entry.

**Accounts** has the tables of users and groups, the providers that name the
sender of a request (`NoAuth`, `Basic`, `Anonymous`, `Ldap`, `LdapFallback`,
`Session`, whose name is empty when the id token has no address), the resolution
of its rights (`Enrich`, one `Resolve` per group),
and everything that changes the tables: the administrator's handlers, which ask
for the resolved rights, the command line, which asks for none, and `Restart`,
which seeds what is missing. `held`, `could` and `barred` are histories: the
groups the sender of a request was in since it was named, the rights these gave
at any moment since, and the accounts that were disabled.

Refinements: `ScanPipeline` implements `QuarantineStore` (property `StoreSpec`)
and `Registry` implements `ScanPipeline` (property `PipeSpec`); the variables
are shared, so that the refinement mapping is the identity and what has to be
shown is that every step is one the abstract specification allows, or leaves its
variables alone. `DiskStore` implements `BlobCache` (property `BlobSpec`) under
a mapping: the content of a key is its data file, the call is what the goroutine
asked for until it returns (`Asked`), the answer is the bytes of its answer.
A hit takes effect when the data file is read, a write when the renamed data
file is in place; the metadata does not appear in the abstract store, and the
content type is not part of the promise, because the code does not keep it (see
the divergences below).

## The runs

| Run | Checks | Instance |
|---|---|---|
| MCQuarantineStore | `StoreTypeOK`, `IdNamesItsRow`, `ApprovalHasSource`, `RootHistoryExplainsStatus`, `HumanGate` | an image and its blob, two enqueuers, 3 ids, 3 decisions: two upserts can race and a third enqueue follow a rejection; 2.5 million states |
| MCScanPipeline | `PipeTypeOK`, `UnscannedIsOwned`, `StoreSpec` | one signed image that has a vulnerability, 2 ids, a rule change by the API or by the MCP process, a crash, a human decision; 860 000 states |
| MCScanLiveness | `ScanCompletes`, `CleanRequestApprovedAlive` | failing scanners and writes, two crashes, a rule change through the API; 52 000 states |
| MCScanners | `FoundIsKnown`, `KeptFindingsTrigger`, `ScanEnds` | one request, for a package that all sources know or an image; two advisories for one CVE of which a source may return one, two EPSS scores, a page of one; two scans of the request, a failing save, a crash; 180 000 states |
| MCRegistry | `RegTypeOK`, `ServedWasGranted`, `WaiterHasNotifier`, `NoLeakedSubscription` | two clients, two requests, timeouts, a crash, an administrator; 2 million states |
| MCRegistryPulls | `PipeSpec`, `RequestAnswered` | an image that passes the rules unless its driver demands a human, a blob it pulls that does not pass them, a prefetcher, one client with two requests, failing cache writes, disconnections, no timeout; 370 000 states |
| MCDiskStore | `DiskTypeOK`, `ExistsHasData`, `ValidatedBeforeWrite`, `BlobSpec`, `CallsReturn` | two callers, a key whose name carries a digest, two contents of which one passes the chain, one goroutine of `touchMeta`, writes and removals that fail, any number of crashes; 125 000 states |
| MCDocker | `IndexedHasRow`, `RowIsIndexed`, `ImageIsFiled` | a tag for a list with one platform and one layer, two pulls, a decision, a fault, a restart; 143 000 states |
| MCPackages | `CachedIsChecked`, `FragmentIsServed`, `DebSumsStay`, `DependenciesFiled`, `HonestIsAccepted`, `PrefetchEnds` | two wheels that need each other, one of them in two builds; a signed and an unsigned Debian package in two indexes, two versions of an R package, the first also as a binary with an index of its own, npm and Go; two pulls, two events (fault, decision, restart or act of an administrator); 276 000 states |
| MCAccounts | `AccountsTypeOK`, `AuthorityIsGranted`, `BarredPasswordsFail` | two clients, the administrator and the anonymous account, sessions with and without a name, five configurations, two changes of the tables; 860 000 states |
| MCBruteForce | `TrackerTypeOK`, `BareCountersAreInUse`, `BlockStands`, `EntryGoes` | three handlers, two addresses, threshold 2, blocks of 2 ticks; 7 000 states |

TLC also evaluates two assumptions of `MCScanners`: `SumsAreLoops` compares the
sums in `Rules`, which are over sets, with the loops of `checkRule` on every
list of at most two findings, and `RulesAreMonotone` says that more findings
trigger more rules. `KeptFindingsTrigger` goes by the lowest scores that were
ever written for a finding, because a later scan may overwrite them with lower
ones (quarantine.go:441-443: another answer, or none of EPSS); what it excludes
is that a scan takes away a row, or mixes up those of two sources.
`HonestIsAccepted` excepts an R file whose entry another file shares: the sum of
the source, when that index was read last, refuses the binary. `DebSumsStay` has
no counterpart for CRAN for the same reason.
`DependenciesFiled` speaks of packages whose pages agree on the addresses of
their files (`Stable`) and each have a wheel (`Wheeled`): otherwise a prefetch
may rightly end without filing anything. `WaiterHasNotifier` has the exception
that is explained below, under RegistryProofs.

The bounds: `MaxId` bounds how often a key is enqueued anew (two is a race or a
return after a rejection, three is both); `MaxAudit` the decisions on record;
`MaxRules`, `MaxCrashes`, `MaxHuman`, `MaxRequests`, `MaxPulls`, `MaxDecisions`,
`MaxFaults`, `MaxRestarts`, `MaxEvents` and `MaxChanges` the events of the
environment. In the liveness runs `MaxAudit` and `MaxId` are large enough that
no fair action is ever disabled by them: nobody rejects, so that a key is
enqueued once, and a request is approved once by each of its hooks and once per
re-evaluation. Two changes of the accounts are a change made with rights that
the other one has just taken away. Two pulls of an image are a pull by tag and
one by digest, in either order or at once with the prefetch.

`CHECK_DEADLOCK FALSE` is set where the system may come to rest: the registry,
Docker and the packages when all pulls are answered and nothing is being
fetched, and the accounts when the changes are used up and the last account
that may sign in was removed.

MCScanBeforeDone must find a violation: a re-evaluation approves a request
without findings because its scan is not over (`AutoApprovalAfterScan`,
README.md:461). `PROJECT.json` has it as a finding.

## Known divergences

These definitions say what a comment or a document of the repository says, and
the code does otherwise. They are kept beside the module they speak of, at its
end, and TLC refutes each of them when it is added to the run in brackets.

| Property | Statement | What the code does |
|---|---|---|
| `QuarantineStore!EnqueueNoRegression` | quarantine.go:160 | two enqueues race, the second upsert resets a row that was approved [MCQuarantineStore] |
| `ScanPipeline!FlaggedArtifactNeedsHuman` | README.md:707, driver.go:28 | the flag of a second enqueue is not stored, and the re-evaluation goes by the stored one [MCScanPipeline] |
| `ScanPipeline!CleanRequestApproved` | README.md:461 | the process dies after "done" and before the decision, and nothing takes the request up again [MCScanLiveness] |
| `Registry!ServedWasSubmitted` | README.md:5 | the cached bytes are not those of the approved request [MCRegistry with two versions] |
| `BruteForce!FailuresBlock` | tracker.go:2 | every query forgets the failures before it [MCBruteForce] |
| `DiskStore!DeletedIsGone` | store.go:28 | the error of `os.Remove` is thrown away, and `Delete` reports success [MCDiskStore] |
| `DiskStore!HitHasItsType` | store.go:25 | `touchMeta` writes back the metadata it read before a later `Set` [MCDiskStore] |
| `DockerIndex!ApprovedLayerServed` | README.md:14 | a layer is looked up under the image that brought it last [MCDocker with a second tag and a third pull] |
| `PackageDrivers!BinaryIsAccepted` | cran/driver.go:7-8, 19 | the source and the binaries of a version share an entry of the index: the one that was read last refuses the others [MCPackages] |
| `PackageDrivers!UnsignedIsRejected` | gpg/verifier.go:43 | the caller takes the refusal for a package to be marked [MCPackages] |
| `PackageDrivers!KeysStay` | gpg/verifier.go:97, 108 | keys are filed under the first bytes of the packet, which many share [MCPackages with two keys] |
| `Accounts!NoNameIsNoAuth` | admin.go:78 | an id token without an address makes a session with the empty name, which counts as a request without authentication [MCAccounts] |
| `Accounts!PasswordKeepsGroups` | admin.go:678 | a password change stores the account without groups [MCAccounts] |

## Fairness

`FairPipeSpec` assumes weak fairness of the steps of goroutines that are
running (`HookStep`, `ResumeList`, `ResumeLaunch`, `RescanStep`): the Go
scheduler runs them, the calls to the vulnerability databases have a time limit
(`root.go:501`), the statements on SQLite return. It assumes nothing of clients,
administrators, rule changes or crashes. `FairRegSpec` adds the handlers, with
a wait that is only ended by its token, so that `RequestAnswered` does not rest
on the timeout. `FairTrackerSpec` assumes that time passes, that the cleanup
ticker fires and that an authentication ends. `Scanners` assumes that of the
goroutines of a hook one that can go on does. `FairDockerSpec` and
`FairPackageSpec` assume that the goroutines of pulls and prefetches go on; each
of their requests has a timeout. Only `FairDiskSpec` has strong fairness, of the
steps of a call: a goroutine that waits for the `RWMutex` finds it free again
and again, not for ever, and Go's lock lets neither readers nor writers starve.

## The proofs

All theorems hold for every value of the constants that satisfies the named
assumptions in the modules: `BelowAssumption` (`Below` is irreflexive and
transitive, as prefixes are), `SignedAssumption`, `BoundAssumption`,
`PipelineAssumption`, `RegistryAssumption`, `TrackerAssumption`,
`ValidatorsAssumption`, `DiskAssumption`, `NameAssumption`, `GrantAssumption`,
`ScannersAssumption` (answers are finite lists, scores and thresholds whole
numbers), `DockerAssumption` (digests of manifests, of layers and tags are told
apart), `UrlAssumption`, `DriverAssumption` and `VerifierAssumption` (types; a
page gives the digest of the bytes at its address, or none) and
`HonestAssumption` (an archive of R, npm or Go starts like one). Every safety
property that a run checks, and every refinement, is the statement of a theorem.

- **QuarantineStoreProofs**: the five invariants of the store. They are not
  inductive; `StoreInv` adds that decisions name ids that were issued
  (`AuditNamesIssued`), that a process about to insert an approved row has a
  recorded approval above its key (`InheritanceHasSource`: the parent may be
  rejected by the time of the upsert, its approval remains on record), that
  only rows no cascade reaches carry the flag (`FlagOnRoots`), and that no
  automatic approval is recorded for a flagged row (`FlaggedDecisionsHuman`).
  One lemma per action.
- **ScanPipelineProofs**: `PipeImplementsStore`, every step of the pipeline is
  a step of the store or leaves it alone; the store's invariants follow for the
  pipeline. `NoScanIsForgotten` says that a row whose scan is not done has a
  hook, running or due. `PipeInv` adds what that needs: running hooks and the
  list of the restart speak of issued ids (`JobsAreIssued`), a key without a
  row has no id (`AbsentHasNoId`), and until the first crash every id that was
  issued, also one that a racing upsert replaced, is in the hands of a hook
  (`IssuedIsOwned`).
- **RegistryProofs**: `RegInv` is `StoreInv`, `RegTypeOK` and
  `CheckedIsCovered`: a handler past its check for approval has a recorded
  approval for its key. From it `ServedIsGranted` (what was served had been let
  through, although the status may have changed since the check),
  `RegistryImplementsPipe`, whose steps need the types of the handlers, and
  with both refinements `ProxyHumanGate`. `WaitInv` joins it with `PipeInv` and
  says of each handler that it is subscribed under the id it holds and nowhere
  else (`Sound`), and that a hook will come by for the id it waits for
  (`Served`); `NoWakeupIsLost` and `NoSubscriptionLeaks` follow. The attempt to
  prove the first without an exception failed for a good reason: after a
  restart, an administrator may reject the row and another client enqueue it
  under a new id before `resumePendingScans` lists the pending rows
  (root.go:163-164), and a handler that waits for the old id is then woken by
  `scanWaitTimeout` only. `WaiterHasNotifier` names this case.
- **ScannersProofs**: `ScanInv` says that what a hook has gathered is the merge
  of what its sources said, in whatever order they answered (`HooksAreGood`),
  from which `FoundIsReported`. `SaveInv` adds what the tables hold: every row
  was written by some scan (`TablesAreFound`), and a save under way has left
  behind a row for everything it has done (`SavedSoFar`), whatever another save
  has overwritten since. From it `FindingsSurviveRescans` (the row stays, not
  its scores) and its converse `NoFindingIsInvented`; and `KeptFindingsStand`,
  for all types of rules: what `Lowest` keeps is below what the table has
  (`LowestIsKept`), and higher scores trigger more (`HigherTriggersMore`). The
  rules on sums need the sums of `Rules` in general: that the recursion in
  `SumOfBest` has a solution (`SumExists`), that the order of the elements does
  not matter (`SumRemoves`), and that more and higher scores have a higher sum
  (`SumOfBestGrows`). These are inductions over finite sets; they are done
  without the induction theorems of the library, by taking a counterexample
  with the fewest elements (`LeastSubset`).
- **DockerIndexProofs**: `IndexLeadsToRows` and `RowsAreIndexed`, that the
  index of layers and the rows say the same of a layer over every pull,
  prefetch, decision and restart. `DockerInv` adds that the order from which a
  restart rebuilds the indexes is that of the rows (`OrderIsRows`), that a
  prefetch registers only what it has filed (`JobHasRow`), that the index of
  manifests leads to manifests (`ManifestsApart`), and that a pull on its way
  to a layer has found it in the index (`PullIsIndexed`).
- **PackageDriversProofs**: three invariants. `PackageInv` has the types, what
  the index of PyPI may hold (`UrlsOK`: an entry is a link of some page, and a
  file is in the list of its package when it has one), and what a pull and a
  prefetch carry on the way from a lookup to a check (`PullOK`, `JobOK`);
  `OnlyCheckedIsCached` and `FragmentNamesWhatIsServed` follow. `SumInv` adds
  what may be in the package indexes, including those that broke off and the
  entries that R files share (`SumsAreListed`, `HeldSum`); from it the action
  properties `HonestPackagesPass` and `DebSumsAreKept`. `NeedInv` says that
  while nothing failed the dependencies of a cached wheel are filed, or being
  filed, or due when the prefetch that cached it goes on (`NeedsAreDue`), from
  which `NeedsAreFiled`. That a page is read link by link is a recursive
  function; what holds of each link holds of the page by the least link at
  which it would fail (`PageKeepsUrls`).
- **AuthenticationProofs**: of the accounts, `AccountsInv` adds to the types
  and to `AuthorityIsGranted` what a request under way carries (`RequestInv`: the
  groups it still has to read were memberships of its sender, the groups that a
  directory names are its own) and that a barred account is there and disabled
  (`BarredDisabled`). The steps are first grouped by what they do to a request
  (`RequestMoves`) and to the tables (`TablesMove`); from the groups follow
  `Authority` and `Barred`. Of the tracker, `TrackerInv` is the types and
  `BareCountersAreInUse` together; the action property `BlocksStand` follows
  from the types.
- **DiskStoreProofs**: `DiskInv` is the types, that only calls inside the lock
  hold it (`HoldersInside`), a writer alone (`WriterAlone`), what a call has
  done at each of its steps (`CallProgress`), that a goroutine of `touchMeta`
  belongs to a key that has data or was deleted (`TouchHasData`, without which
  the metadata it creates anew would break `ExistsHasData`), and what the
  validators behind a call accepted (`ValidatedSoFar`). From it
  `ExistsTruthful`, `WritesAreValidated`, and with one lemma for the return of
  a call and one for stuttering `DiskImplementsBlob`.

Only model-checked: what needs fairness (`ScanCompletes`,
`CleanRequestApprovedAlive`, `ScanEnds`, `RequestAnswered`, `EntryGoes`,
`CallsReturn`, `ImageIsFiled`, `PrefetchEnds`), which is out of the prover's
reach; that the sums of `Rules` are those of the loops in the code
(`SumsAreLoops`), because the loops are folds over lists; and the divergences,
which TLC refutes.

## Not modelled

- Failing SQL statements other than those of `SaveFindings`; `SetComment`; usage
  counters, dates and statistics; `LIKE` wildcards in keys.
- Routing, access control by repository, `ModeNone` artifacts (served directly
  and cached), the unused `ModeGate`. `DockerIndex` and `PackageDrivers` have
  handlers of their own, with `Enqueue` as one step; their composition with
  `Registry` is by `Pulls`, the children a prefetch enqueues.
- In `Registry`, in `Prefetch`, the write to the cache and the first statement
  of `Enqueue` are one step.
- An upstream registry that names no digest with a manifest, for which nothing is
  compared. The Bearer tokens of the Docker driver and the `cosign` command (its
  outcome is the flag for human review); the parsing of HTML, METADATA, `.deb` archives
  and CVSS vectors (their outcomes are constants); the limit of four downloads at
  a time; the CRAN, npm and Go pages that are passed through.
- Password hashes, the signature of session cookies, the OIDC exchange, the LDAP
  search, routes with `auth_required: false`. A user with the empty name in the
  tables is left out.
- The HTTP clients of the vulnerability databases, templates and the web
  interface, and the configuration, which is read once.
- Logging (`logs/*`): it depends on the rest and nothing depends on it.

## Plan

1. `Scanners` as an implementation of the step `HookScan` of the pipeline.
   `NoFindingIsInvented` and `FindingsSurviveRescans` are the two halves of it.
2. The access control by repository in `Registry`, with the rights that
   `Accounts` resolves.
