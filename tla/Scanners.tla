------------------------------ MODULE Scanners ------------------------------
(***************************************************************************)
(* One scan in its parts: the hook asks every configured source at once    *)
(* (MultiScanner, security/security.go), a source converts its advisories  *)
(* and may wait at a rate limiter that all the scans share (security/osv,  *)
(* nvd, sonatype), EPSS adds its scores (security/epss), and the findings  *)
(* are saved row by row (SaveFindings, core/quarantine.go).  ScanPipeline  *)
(* has this as one step, and what comes before and after it.               *)
(***************************************************************************)
EXTENDS Rules, Sequences, FiniteSets

CONSTANTS
    Requests,   \* ids of requests
    Packages,   \* what they may ask for
    NoPackage,  \* what an id asks for that is not in use
    Supported,  \* packages of a repository type that has an ecosystem
    Sources,    \* the configured sources
    Report,     \* Report[s][p]: the lists of advisories that source s may
                \* return for package p, today or in a later scan
    PageSize,   \* what NVD returns of them (nvd.go:63)
    NoCve,      \* an advisory without a CVE
    Epss,       \* what EPSS may answer: the scores of some CVEs
    MaxFaults,  \* bound: failures of a save
    MaxCrashes  \* bound: number of crashes

ASSUME ScannersAssumption ==
    /\ Supported \subseteq Packages
    /\ NoPackage \notin Packages
    /\ Sources \subseteq {"OSV", "NVD", "Sonatype"}
    /\ \A s \in Sources, p \in Packages : \A list \in Report[s][p] :
         /\ list \in Seq({list[n] : n \in DOMAIN list})
         /\ \A n \in DOMAIN list : list[n].vector \in Nat /\ list[n].score \in Nat
    /\ PageSize \in Nat
    /\ \A e \in Epss : e \in [DOMAIN e -> Nat]
    /\ \A rule \in Forms : rule.threshold \in Int
    /\ {MaxFaults, MaxCrashes} \subseteq Nat

(* A hook runs for a request because Enqueue launched it or because the    *)
(* restart did; both may happen to the same request.                       *)
Hooks == Requests \X {"enqueue", "resume"}

(* The scanners with a rateLimit method (nvd.go:90, sonatype.go:103).      *)
Limited == Sources \intersect {"NVD", "Sonatype"}

VARIABLES
    asked,    \* table requests: the package of each
    scan,     \* table security_scans
    table,    \* table security_findings, by request
    hook,     \* the running hooks
    ask,      \* the goroutine of a hook for a source
    holder,   \* who holds the mutex of a rate limiter
    resumed,  \* resumePendingScans has run in this process
    written,  \* history: every row that was written, by request
    whole,    \* history: the findings that were saved without an error
    faults,   \* failed saves so far
    crashes   \* crashes so far

vars == <<asked, scan, table, hook, ask, holder, resumed, written, whole, faults, crashes>>

(* "said" is a history: what each source answered, which is nothing if it  *)
(* failed.                                                                 *)
NoHook ==
    [pc |-> "none", vulns |-> {}, said |-> [s \in Sources |-> << >>], todo |-> {}]

Init ==
    /\ asked = [r \in Requests |-> NoPackage]
    /\ scan = [r \in Requests |-> "none"]
    /\ table = [r \in Requests |-> {}]
    /\ hook = [h \in Hooks |-> NoHook]
    /\ ask = [h \in Hooks |-> [s \in Sources |-> "none"]]
    /\ holder = [s \in Limited |-> {}]
    /\ resumed = FALSE
    /\ written = [r \in Requests |-> {}]
    /\ whole = [r \in Requests |-> {}]
    /\ faults = 0
    /\ crashes = 0

tables == <<scan, table, written, whole, faults>>

-----------------------------------------------------------------------------
(* Conversion.  An advisory has an id, perhaps a CVE, the score of its     *)
(* CVSS vector (0 for one that is missing or not of version 3) and the     *)
(* score that the source states.                                           *)

IdOf(a) == IF a.cve # NoCve THEN a.cve ELSE a.id

Found(id, source, cvss) == [id |-> id, source |-> source, cvss |-> cvss, epss |-> 0]

(* convertVulns of osv.go:110-155, nvd.go:148-197 and sonatype.go:188-224  *)
FromOSV(a) == Found(IdOf(a), "OSV", a.vector)
FromNVD(a) == Found(a.cve, "NVD", a.score)
FromSonatype(a) == Found(IdOf(a), "Sonatype", IF a.vector > 0 THEN a.vector ELSE a.score)

Converted(s, a) ==
    CASE s = "OSV" -> FromOSV(a)
      [] s = "NVD" -> FromNVD(a)
      [] s = "Sonatype" -> FromSonatype(a)

(* The advisories of an answer: NVD returns one page, and it is not asked  *)
(* for another.                                                            *)
Answered(s, advisories) ==
    LET list == [n \in DOMAIN advisories |-> Converted(s, advisories[n])] IN
    IF s = "NVD" /\ Len(list) > PageSize THEN SubSeq(list, 1, PageSize) ELSE list

(* Packages that OSV and Sonatype do not know (osv.go:37, sonatype.go:55). *)
Skips(s, p) == s \in {"OSV", "Sonatype"} /\ p \notin Supported

(* A mutant: the findings of all sources are told apart by their id alone. *)
MergedById(vulns, list) ==
    vulns \union {list[n] : n \in {m \in DOMAIN list :
        /\ \A v \in vulns : v.id # list[m].id
        /\ \A l \in 1 .. m - 1 : list[l].id # list[m].id}}

(* security.go:92-104  of the findings of one source with one id the first *)
(* is kept, whatever its score.                                            *)
Merged(vulns, list) ==
    LET Key(v) == <<v.source, v.id>> IN
    vulns \union {list[n] : n \in {m \in DOMAIN list :
        /\ \A v \in vulns : Key(v) # Key(list[m])
        /\ \A l \in 1 .. m - 1 : Key(list[l]) # Key(list[m])}}

(* epss.go:37-73  an id that is no CVE, or that the answer leaves out,     *)
(* keeps what it has.                                                      *)
Enriched(vulns, scores) ==
    {IF v.id \in DOMAIN scores THEN [v EXCEPT !.epss = scores[v.id]] ELSE v : v \in vulns}

-----------------------------------------------------------------------------
(* Requests and restarts                                                   *)

At(h, pc) == hook[h].pc = pc
PackageOf(h) == asked[h[1]]

(* quarantine.go:196  a new request launches the hook.                     *)
Enqueue(r, p) ==
    /\ asked[r] = NoPackage
    /\ asked' = [asked EXCEPT ![r] = p]
    /\ hook' = [hook EXCEPT ![<<r, "enqueue">>].pc = "start"]
    /\ UNCHANGED <<ask, holder, resumed, crashes, tables>>

(* root.go:613-631  a request without a completed scan gets a hook.        *)
Resume ==
    /\ ~ resumed
    /\ resumed' = TRUE
    /\ hook' = [h \in Hooks |->
                  IF h[2] = "resume" /\ asked[h[1]] # NoPackage /\ scan[h[1]] # "done"
                  THEN [NoHook EXCEPT !.pc = "start"] ELSE hook[h]]
    /\ UNCHANGED <<asked, ask, holder, crashes, tables>>

Crash ==
    /\ crashes < MaxCrashes
    /\ crashes' = crashes + 1
    /\ hook' = [h \in Hooks |-> NoHook]
    /\ ask' = [h \in Hooks |-> [s \in Sources |-> "none"]]
    /\ holder' = [s \in Limited |-> {}]
    /\ resumed' = FALSE
    /\ UNCHANGED <<asked, tables>>

-----------------------------------------------------------------------------
(* The goroutine of hook h for source s                                    *)

Tell(h, s, list) ==
    /\ ask' = [ask EXCEPT ![h][s] = "told"]
    /\ hook' = [hook EXCEPT ![h].vulns = Merged(@, list), ![h].said[s] = list]

SkipPackage(h, s) ==
    /\ ask[h][s] = "ask"
    /\ Skips(s, PackageOf(h))
    /\ Tell(h, s, << >>)
    /\ UNCHANGED <<asked, holder, resumed, crashes, tables>>

(* nvd.go:91, sonatype.go:104                                              *)
Lock(h, s) ==
    /\ ask[h][s] = "ask"
    /\ s \in Limited /\ ~ Skips(s, PackageOf(h))
    /\ holder[s] = {}
    /\ holder' = [holder EXCEPT ![s] = {h}]
    /\ ask' = [ask EXCEPT ![h][s] = "sleep"]
    /\ UNCHANGED <<asked, hook, resumed, crashes, tables>>

(* nvd.go:93-97, sonatype.go:106-110  the mutex is held during the sleep.  *)
Unlock(h, s) ==
    /\ ask[h][s] = "sleep"
    /\ holder' = [holder EXCEPT ![s] = {}]
    /\ ask' = [ask EXCEPT ![h][s] = "query"]
    /\ UNCHANGED <<asked, hook, resumed, crashes, tables>>

Querying(h, s) ==
    \/ ask[h][s] = "query"
    \/ ask[h][s] = "ask" /\ s \notin Limited /\ ~ Skips(s, PackageOf(h))

(* A source is queried in every scan and need not answer as it did in the  *)
(* one before.  The answer goes into the channel, from which the hook takes*)
(* them in the order they come (security.go:87-97); the two are one step   *)
(* here.                                                                   *)
Answer(h, s) ==
    /\ Querying(h, s)
    /\ \E advisories \in Report[s][PackageOf(h)] : Tell(h, s, Answered(s, advisories))
    /\ UNCHANGED <<asked, holder, resumed, crashes, tables>>

(* A mutant: a source that fails puts nothing into the channel.            *)
FailSilently(h, s) ==
    /\ Querying(h, s)
    /\ ask' = [ask EXCEPT ![h][s] = "none"]
    /\ UNCHANGED <<asked, hook, holder, resumed, crashes, tables>>

(* security.go:89  an error, or the end of the 60 seconds that the wait at *)
(* the limiter counts towards (root.go:501), is an answer without          *)
(* findings.                                                               *)
Fail(h, s) ==
    /\ Querying(h, s)
    /\ Tell(h, s, << >>)
    /\ UNCHANGED <<asked, holder, resumed, crashes, tables>>

-----------------------------------------------------------------------------
(* The hook, cmd/root.go:488-556                                           *)

Goto(h, pc) == hook' = [hook EXCEPT ![h].pc = pc]

HookStart(h) ==
    /\ At(h, "start")
    /\ scan' = [scan EXCEPT ![h[1]] = "scanning"]
    /\ Goto(h, "gather")
    /\ ask' = [ask EXCEPT ![h] = [s \in Sources |-> "ask"]]
    /\ UNCHANGED <<asked, table, holder, resumed, written, whole, faults, crashes>>

(* security.go:94-95                                                       *)
Gathered(h) ==
    /\ At(h, "gather")
    /\ \A s \in Sources : ask[h][s] = "told"
    /\ Goto(h, "enrich")
    /\ ask' = [ask EXCEPT ![h] = [s \in Sources |-> "none"]]
    /\ UNCHANGED <<asked, holder, resumed, crashes, tables>>

(* root.go:516-536  also without EPSS, or when it fails.                   *)
Enrich(h) ==
    /\ At(h, "enrich")
    /\ \E found \in {hook[h].vulns} \union {Enriched(hook[h].vulns, e) : e \in Epss} :
         hook' = [hook EXCEPT ![h].pc = "save", ![h].vulns = found, ![h].todo = found]
    /\ UNCHANGED <<asked, ask, holder, resumed, crashes, tables>>

(* A mutant: a row of another source with the same id is overwritten.      *)
UpsertedById(rows, f) == {g \in rows : g.id # f.id} \union {f}

(* quarantine.go:437-445  request, id and source are the key; the scores   *)
(* of a row that is there are overwritten.                                 *)
Upserted(rows, f) == {g \in rows : <<g.source, g.id>> # <<f.source, f.id>>} \union {f}

(* quarantine.go:421-450  the order among the rows of a source is open.    *)
SaveRow(h) ==
    /\ At(h, "save")
    /\ \E f \in hook[h].todo :
         /\ table' = [table EXCEPT ![h[1]] = Upserted(@, f)]
         /\ hook' = [hook EXCEPT ![h].todo = @ \ {f}]
         /\ written' = [written EXCEPT ![h[1]] = @ \union {f}]
         /\ whole' = IF hook[h].todo = {f}
                     THEN [whole EXCEPT ![h[1]] = @ \union hook[h].vulns] ELSE whole
    /\ UNCHANGED <<asked, scan, ask, holder, resumed, faults, crashes>>

(* quarantine.go:446, root.go:555  the first error ends the save.          *)
SaveFails(h) ==
    /\ At(h, "save")
    /\ hook[h].todo # {}
    /\ faults < MaxFaults
    /\ faults' = faults + 1
    /\ hook' = [hook EXCEPT ![h].todo = {}]
    /\ UNCHANGED <<asked, scan, table, ask, holder, resumed, written, whole, crashes>>

(* root.go:556                                                             *)
Mark(h) ==
    /\ At(h, "save")
    /\ hook[h].todo = {}
    /\ scan' = [scan EXCEPT ![h[1]] = "done"]
    /\ hook' = [hook EXCEPT ![h] = NoHook]
    /\ UNCHANGED <<asked, table, ask, holder, resumed, written, whole, faults, crashes>>

SourceStep(h, s) ==
    SkipPackage(h, s) \/ Lock(h, s) \/ Unlock(h, s) \/ Answer(h, s) \/ Fail(h, s)

HookStep(h) ==
    HookStart(h) \/ Gathered(h) \/ Enrich(h) \/ SaveRow(h) \/ SaveFails(h) \/ Mark(h)

HookWork(h) == HookStep(h) \/ \E s \in Sources : SourceStep(h, s)

Next ==
    \/ \E r \in Requests, p \in Packages : Enqueue(r, p)
    \/ Resume
    \/ \E h \in Hooks : HookWork(h)
    \/ Crash

(* Of the goroutines of a hook one that can go on does, which is less than *)
(* Go promises; nobody has to send a request or to crash.                  *)
Fairness ==
    /\ WF_vars(Resume)
    /\ \A h \in Hooks : WF_vars(HookWork(h))

Spec == Init /\ [][Next]_vars /\ Fairness

-----------------------------------------------------------------------------
(* Properties                                                              *)

(* What a scan finds is what the sources answered, each on its own, in     *)
(* whatever order they answer, and with or without the scores of EPSS: no  *)
(* source hides what another one reports (security.go:65, 92-104).         *)
FoundIsKnown ==
    \A h \in Hooks : hook[h].pc \in {"enrich", "save"} =>
        LET known == UNION {Merged({}, hook[h].said[s]) : s \in Sources}
        IN  hook[h].vulns \in {known} \union {Enriched(known, e) : e \in Epss}

(* The findings that were saved in full, each with the lowest scores that  *)
(* were ever written for it.                                               *)
SameRow(g, f) == g.source = f.source /\ g.id = f.id
Lowest(r) ==
    {LET rows == {g \in written[r] : SameRow(g, f)} IN
     [id |-> f.id, source |-> f.source,
      cvss |-> Min({g.cvss : g \in rows}), epss |-> Min({g.epss : g \in rows})]
     : f \in whole[r]}

(* No scan takes away what another one has saved in full, and none mixes   *)
(* up the rows of two sources: a rule that triggers on the lowest scores   *)
(* written for these findings triggers on the rows that rescanPending      *)
(* reads, although two scans of a request may save at the same time,       *)
(* sources fail, and a save or the process ends halfway                    *)
(* (quarantine.go:420-450, admin.go:748-759).  The scores themselves are   *)
(* those of the last answer, which may be lower than the ones before.      *)
KeptFindingsTrigger ==
    \A r \in Requests, rule \in Forms :
        CheckRule(rule, Lowest(r)) => CheckRule(rule, table[r])

(* A scan ends, however many others wait at the same rate limiters and     *)
(* whichever sources fail (security.go:86-97, nvd.go:90-98).               *)
ScanEnds == \A h \in Hooks : ~ At(h, "none") ~> At(h, "none")
=============================================================================
