------------------------ MODULE PackageDriversProofs ------------------------
(* What is cached for a package was checked, what is needed is filed, and  *)
(* no honest package is refused, for every set of files, pages and package *)
(* indexes.                                                                *)
EXTENDS PackageDrivers, WellFoundedInduction, TLAPS

-----------------------------------------------------------------------------
(* Numbers.                                                                *)

LEMMA LeastIsThere ==
    ASSUME NEW T \in SUBSET Nat, T # {}
    PROVE  \E x \in T : \A y \in T : x =< y
<1> DEFINE R == OpToRel(<, Nat)
<1>1. \E x \in T : \A y \in T : ~ (<<y, x>> \in R)
  <2>1. IsWellFoundedOn(R, Nat)
    BY NatLessThanWellFounded
  <2> HIDE DEF R
  <2> QED
    BY <2>1, WFMin
<1>2. \A x, y \in Nat : x < y => <<x, y>> \in R
  BY DEF OpToRel
<1> HIDE DEF R
<1>3. PICK x \in T : \A y \in T : ~ (<<y, x>> \in R)
  BY <1>1
<1>4. \A y \in T : ~ (y < x)
  BY <1>2, <1>3
<1>5. \A y \in T : x =< y
  BY <1>4
<1> QED
  BY <1>5

LEMMA MinIsIn ==
    ASSUME NEW T \in SUBSET Nat, T # {}
    PROVE  Min(T) \in T
  BY LeastIsThere DEF Min

LEMMA MaxIsIn ==
    ASSUME NEW N \in Nat, NEW T \in SUBSET (1 .. N), T # {}
    PROVE  Max(T) \in T
<1> DEFINE D == {N - x : x \in T}
<1>1. D \in SUBSET Nat /\ D # {}
  <2>1. \A x \in T : N - x \in Nat
    OBVIOUS
  <2> QED
    BY <2>1
<1>2. PICK d \in D : \A y \in D : d =< y
  BY <1>1, LeastIsThere
<1>3. PICK x \in T : d = N - x
  BY <1>2
<1>4. \A y \in T : N - y \in D
  OBVIOUS
<1>5. \A y \in T : x >= y
  <2>1. \A y \in T : N - x =< N - y
    BY <1>2, <1>3, <1>4
  <2> QED
    BY <2>1
<1> QED
  BY <1>5 DEF Max

-----------------------------------------------------------------------------
(* Reading a page.                                                         *)

(* read is what becomes of an index over the first m links of a page.      *)
Reads(read, m, idx, page) ==
    read = [n \in 0 .. m |-> IF n = 0 THEN idx ELSE IndexLink(read[n - 1], page[n])]

LEMMA ReadingExists ==
    ASSUME NEW idx, NEW page, NEW len \in Nat
    PROVE  \E read : Reads(read, len, idx, page)
<1> DEFINE Stuck == {m \in Nat : ~ \E read : Reads(read, m, idx, page)}
<1> SUFFICES ASSUME Stuck # {} PROVE FALSE
  OBVIOUS
<1>1. PICK m \in Stuck : \A k \in Stuck : m =< k
  BY LeastIsThere
<1>2. CASE m = 0
  <2>1. Reads([n \in 0 .. 0 |-> idx], 0, idx, page)
    BY DEF Reads
  <2> QED
    BY <1>2, <2>1
<1>3. CASE m # 0
  <2>1. m \in Nat /\ m - 1 \in Nat /\ m - 1 \notin Stuck
    BY <1>1, <1>3
  <2>2. PICK read : Reads(read, m - 1, idx, page)
    BY <2>1
  <2> DEFINE more == [n \in 0 .. m |->
                        IF n = m THEN IndexLink(read[m - 1], page[m]) ELSE read[n]]
  <2>3. \A n \in 0 .. m - 1 : read[n] = IF n = 0 THEN idx ELSE IndexLink(read[n - 1], page[n])
    BY <2>2 DEF Reads
  <2>4. \A n \in 0 .. m : more[n] = IF n = 0 THEN idx ELSE IndexLink(more[n - 1], page[n])
    BY <1>3, <2>1, <2>3
  <2>5. Reads(more, m, idx, page)
    BY <2>4 DEF Reads
  <2> QED
    BY <1>1, <2>5
<1> QED
  BY <1>2, <1>3

LEMMA PageIsRead ==
    ASSUME NEW idx, NEW page, Len(page) \in Nat
    PROVE  \E read : Reads(read, Len(page), idx, page) /\ IndexPage(idx, page) = read[Len(page)]
<1> DEFINE all == CHOOSE read : Reads(read, Len(page), idx, page)
<1>1. Reads(all, Len(page), idx, page)
  BY ReadingExists
<1>2. IndexPage(idx, page) = all[Len(page)]
  BY DEF IndexPage, Reads
<1> QED
  BY <1>1, <1>2

(* An entry is what some page said of the file, and a file that has one is *)
(* listed for its package, and no other is.                                *)
IsEntry(f, entry) == \E link \in Links[f] : entry = [url |-> link.url, sha |-> link.sha]

InPackage(idx, p, f) == \E n \in 1 .. Len(idx.byPkg[p]) : idx.byPkg[p][n] = f

UrlsOK(idx) ==
    /\ idx.entries = [f \in Files |-> idx.entries[f]]
    /\ \A f \in Files : idx.entries[f] # NoEntry => f \in PipFiles /\ IsEntry(f, idx.entries[f])
    /\ idx.byPkg \in [Packages -> Seq(PipFiles)]
    /\ \A p \in Packages, f \in Files :
          InPackage(idx, p, f) <=> PackageOf[f] = p /\ idx.entries[f] # NoEntry

(* No file is forgotten.                                                   *)
Grows(idx, new) == \A f \in Files : idx.entries[f] # NoEntry => new.entries[f] # NoEntry

LEMMA LinkIsListed ==
    ASSUME NEW p \in Packages, NEW page \in Pages[p], NEW n \in 1 .. Len(page)
    PROVE  /\ page[n].file \in PipFiles /\ PackageOf[page[n].file] = p
           /\ page[n] \in Links[page[n].file]
           /\ [url |-> page[n].url, sha |-> page[n].sha] # NoEntry
<1> DEFINE Link == [file : PipFiles, url : Bytes, sha : Bytes \union {Unlisted}]
<1>0. page \in Seq(Link)
  BY DriverAssumption
<1>1. PackageOf[page[n].file] = p /\ page[n].sha \in {page[n].url, Unlisted}
  <2>1. n \in DOMAIN page
    BY <1>0
  <2> QED
    BY <2>1, DriverAssumption
<1>2. page[n] \in Link
  <2> HIDE DEF Link
  <2> QED
    BY <1>0
<1>3. page[n] \in Range(page)
  BY <1>0 DEF Range
<1>4. page[n] \in Links[page[n].file]
  BY <1>1, <1>2, <1>3 DEF Links
<1>5. Unlisted \notin Bytes
  BY DriverAssumption
<1>6. [url |-> page[n].url, sha |-> page[n].sha].url # NoEntry.url
  BY <1>2, <1>5 DEF NoEntry
<1> QED
  BY <1>1, <1>2, <1>4, <1>6

LEMMA LinkKeepsUrls ==
    ASSUME NEW idx, UrlsOK(idx), NEW f \in PipFiles, NEW link \in Links[f], link.file = f,
           [url |-> link.url, sha |-> link.sha] # NoEntry
    PROVE  LET new == IndexLink(idx, link) IN
           UrlsOK(new) /\ Grows(idx, new) /\ new.entries[f] # NoEntry
<1> DEFINE new == IndexLink(idx, link)
           entry == [url |-> link.url, sha |-> link.sha]
           p == PackageOf[f]
<1>1. f \in Files /\ p \in Packages
  BY UrlAssumption DEF PipFiles
<1>2. /\ new.entries = [idx.entries EXCEPT ![f] = entry]
      /\ new.byPkg = [idx.byPkg EXCEPT ![p] = IF Contains(@, f) THEN @ ELSE Append(@, f)]
  BY DEF IndexLink
<1>3. IsEntry(f, entry) /\ entry # NoEntry
  BY DEF IsEntry
<1>4. idx.byPkg \in [Packages -> Seq(PipFiles)]
  BY DEF UrlsOK
<1> HIDE DEF new, entry
<1>5. /\ new.entries = [g \in Files |-> new.entries[g]]
      /\ new.entries[f] = entry
      /\ \A g \in Files \ {f} : new.entries[g] = idx.entries[g]
  BY <1>1, <1>2 DEF UrlsOK
<1>6. /\ new.byPkg \in [Packages -> Seq(PipFiles)]
      /\ \A q \in Packages \ {p} : new.byPkg[q] = idx.byPkg[q]
      /\ \A g : InPackage(new, p, g) <=> InPackage(idx, p, g) \/ g = f
  <2> DEFINE old == idx.byPkg[p]
             list == IF Contains(old, f) THEN old ELSE Append(old, f)
  <2>1. old \in Seq(PipFiles)
    BY <1>1, <1>4
  <2>2. list \in Seq(PipFiles)
    BY <2>1
  <2>3. new.byPkg = [idx.byPkg EXCEPT ![p] = list]
    BY <1>2
  <2>4. \A g : (\E n \in 1 .. Len(list) : list[n] = g) <=>
               (\E n \in 1 .. Len(old) : old[n] = g) \/ g = f
    <3>1. CASE Contains(old, f)
      BY <3>1 DEF Contains
    <3>2. CASE ~ Contains(old, f)
      <4>1. /\ list = Append(old, f) /\ Len(list) = Len(old) + 1 /\ list[Len(old) + 1] = f
            /\ \A n \in 1 .. Len(old) : list[n] = old[n]
        BY <2>1, <3>2
      <4> HIDE DEF old, list
      <4> QED
        BY <2>1, <4>1
    <3> QED
      BY <3>1, <3>2
  <2> HIDE DEF list
  <2>5. new.byPkg[p] = list /\ new.byPkg \in [Packages -> Seq(PipFiles)]
    BY <1>1, <1>4, <2>2, <2>3
  <2>6. \A q \in Packages \ {p} : new.byPkg[q] = idx.byPkg[q]
    BY <1>4, <2>3
  <2> QED
    BY <2>4, <2>5, <2>6 DEF InPackage
<1>7. ASSUME NEW q \in Packages, NEW g \in Files
      PROVE  InPackage(new, q, g) <=> PackageOf[g] = q /\ new.entries[g] # NoEntry
  <2>1. InPackage(idx, q, g) <=> PackageOf[g] = q /\ idx.entries[g] # NoEntry
    BY DEF UrlsOK
  <2>2. CASE q = p
    BY <1>3, <1>5, <1>6, <2>1, <2>2
  <2>3. CASE q # p
    <3>1. InPackage(new, q, g) <=> InPackage(idx, q, g)
      BY <1>6, <2>3 DEF InPackage
    <3> QED
      BY <1>5, <2>1, <2>3, <3>1
  <2> QED
    BY <2>2, <2>3
<1>8. UrlsOK(new)
  BY <1>3, <1>5, <1>6, <1>7 DEF UrlsOK
<1>9. Grows(idx, new) /\ new.entries[f] # NoEntry
  BY <1>3, <1>5 DEF Grows
<1> QED
  BY <1>8, <1>9 DEF new

(* By the least number of links over which it fails.                       *)
LEMMA PageKeepsUrls ==
    ASSUME NEW idx, UrlsOK(idx), NEW p \in Packages, NEW page \in Pages[p]
    PROVE  LET new == IndexPage(idx, page) IN
           /\ UrlsOK(new) /\ Grows(idx, new)
           /\ \A n \in 1 .. Len(page) : new.entries[page[n].file] # NoEntry
<1>1. Len(page) \in Nat
  BY DriverAssumption
<1>2. PICK read : Reads(read, Len(page), idx, page) /\ IndexPage(idx, page) = read[Len(page)]
  BY <1>1, PageIsRead
<1> DEFINE Good(m) == /\ UrlsOK(read[m]) /\ Grows(idx, read[m])
                      /\ \A n \in 1 .. m : read[m].entries[page[n].file] # NoEntry
           Bad == {m \in 0 .. Len(page) : ~ Good(m)}
<1>3. Bad = {}
  <2> SUFFICES ASSUME Bad # {} PROVE FALSE
    OBVIOUS
  <2>1. PICK m \in Bad : \A k \in Bad : m =< k
    <3>1. Bad \in SUBSET Nat
      BY <1>1
    <3> HIDE DEF Bad
    <3> QED
      BY <3>1, LeastIsThere
  <2>2. CASE m = 0
    <3>1. read[0] = idx
      BY <1>1, <1>2 DEF Reads
    <3>2. Good(0)
      BY <3>1 DEF Grows
    <3> QED
      BY <2>1, <2>2, <3>2
  <2>3. CASE m # 0
    <3>1. m \in 1 .. Len(page) /\ m - 1 \in 0 .. Len(page) /\ m - 1 \notin Bad
      BY <1>1, <2>1, <2>3
    <3>2. Good(m - 1)
      BY <3>1
    <3>3. read[m] = IndexLink(read[m - 1], page[m])
      BY <1>2, <3>1 DEF Reads
    <3> DEFINE f == page[m].file
    <3>4. /\ f \in PipFiles /\ page[m] \in Links[f]
          /\ [url |-> page[m].url, sha |-> page[m].sha] # NoEntry
      BY <3>1, LinkIsListed
    <3>5. UrlsOK(read[m]) /\ Grows(read[m - 1], read[m]) /\ read[m].entries[f] # NoEntry
      BY <3>2, <3>3, <3>4, LinkKeepsUrls
    <3>6. Grows(idx, read[m])
      BY <3>2, <3>5 DEF Grows
    <3>7. ASSUME NEW n \in 1 .. m PROVE read[m].entries[page[n].file] # NoEntry
      <4>1. CASE n = m
        BY <3>5, <4>1
      <4>2. CASE n # m
        <5>1. n \in 1 .. m - 1 /\ n \in 1 .. Len(page)
          BY <1>1, <3>1, <4>2
        <5>2. page[n].file \in Files
          BY <5>1, LinkIsListed DEF PipFiles
        <5> QED
          BY <3>2, <3>5, <5>1, <5>2 DEF Grows
      <4> QED
        BY <4>1, <4>2
    <3>8. Good(m)
      BY <3>5, <3>6, <3>7
    <3> QED
      BY <2>1, <3>8
  <2> QED
    BY <2>2, <2>3
<1>4. Good(Len(page))
  BY <1>1, <1>3
<1> QED
  BY <1>2, <1>4

LEMMA BestIsListed ==
    ASSUME NEW idx, UrlsOK(idx), NEW p \in Packages
    PROVE  LET best == BestWheel(idx, p) IN
           /\ best # Unlisted => /\ best \in PipFiles /\ PackageOf[best] = p
                                 /\ idx.entries[best] # NoEntry
           /\ best = Unlisted => \A f \in Files :
                PackageOf[f] = p /\ idx.entries[f] # NoEntry => Tag[f] = "sdist"
<1> DEFINE files == idx.byPkg[p]
           wheels == {n \in DOMAIN files : Tag[files[n]] # "sdist"}
           Lacks(n) == 100 - WheelScore(files[n])
           best == {n \in wheels : \A k \in wheels : WheelScore(files[k]) <= WheelScore(files[n])}
<1>1. files \in Seq(PipFiles)
  BY DEF UrlsOK
<1>2. \A n : WheelScore(files[n]) \in 0 .. 100
  BY DEF WheelScore
<1>3. BestWheel(idx, p) = IF wheels = {} THEN Unlisted ELSE files[Min(best)]
  BY DEF BestWheel
<1>4. CASE wheels = {}
  <2>1. \A f \in Files : InPackage(idx, p, f) => Tag[f] = "sdist"
    BY <1>1, <1>4 DEF InPackage
  <2> QED
    BY <1>3, <1>4, <2>1 DEF UrlsOK
<1>5. CASE wheels # {}
  <2>1. wheels \in SUBSET (1 .. Len(files)) /\ wheels \in SUBSET Nat
    BY <1>1
  <2>2. best # {}
    <3> DEFINE T == {Lacks(n) : n \in wheels}
    <3> HIDE DEF wheels
    <3>1. T \in SUBSET Nat /\ T # {}
      <4>1. \A n : 100 - WheelScore(files[n]) \in Nat
        BY <1>2
      <4> QED
        BY <1>5, <4>1
    <3>2. PICK t \in T : \A u \in T : t =< u
      BY <3>1, LeastIsThere
    <3>3. PICK n \in wheels : t = Lacks(n)
      BY <3>2
    <3>4. \A k \in wheels : Lacks(n) =< Lacks(k)
      BY <3>2, <3>3
    <3>5. \A k \in wheels : WheelScore(files[k]) <= WheelScore(files[n])
      BY <1>2, <3>4
    <3> QED
      BY <3>5
  <2>3. Min(best) \in best
    <3>1. best \in SUBSET Nat
      BY <2>1
    <3> HIDE DEF best
    <3> QED
      BY <2>2, <3>1, MinIsIn
  <2> DEFINE m == Min(best)
             f == files[m]
  <2>4. f \in PipFiles /\ InPackage(idx, p, f)
    <3>1. m \in 1 .. Len(files)
      BY <2>1, <2>3
    <3> HIDE DEF m
    <3> QED
      BY <1>1, <3>1 DEF InPackage
  <2>5. f \in Files /\ f # Unlisted
    BY <2>4, UrlAssumption DEF PipFiles
  <2>6. BestWheel(idx, p) = f
    BY <1>3, <1>5
  <2> HIDE DEF f
  <2> QED
    BY <2>4, <2>5, <2>6 DEF UrlsOK
<1> QED
  BY <1>4, <1>5

-----------------------------------------------------------------------------
(* The invariants.                                                         *)

Row == [status : {"absent", "pending", "approved", "rejected"}, marked : BOOLEAN]
JobState == [pc : {"none", "page", "fetch", "verify", "enqueue"},
             file : Files \union {Nothing}, url : Bytes \union {Nothing},
             bytes : Bytes \union {Nothing}]
ClientState == [pc : {"idle", "page", "fetch", "check"}, want : Files \union {Nothing},
                bytes : Bytes \union {Nothing}, sum : Bytes \union {Nothing, Cut},
                got : {"none", "error", "served", "pending"}]

PackageTypeOK ==
    /\ row \in [Files -> Row]
    /\ cache \in [Files -> Bytes \union {Nothing}]
    /\ UrlsOK(urls)
    /\ sums \in [SumKeys -> Bytes \union {Nothing, Cut}]
    /\ job \in [Jobs -> JobState]
    /\ client \in [Clients -> ClientState]
    /\ faults \in Nat /\ restarts \in Nat

(* A request has an entry for its wheel before it downloads it, and checks *)
(* it against the digest of some link.                                     *)
PullOK(x, idx) ==
    /\ x.pc # "idle" => x.want \in Files /\ x.got = "none"
    /\ x.pc = "page" => x.want \in PipFiles
    /\ x.pc = "fetch" /\ x.want \in PipFiles => idx.entries[x.want] # NoEntry
    /\ x.pc = "check" =>
         /\ x.bytes \in Bytes
         /\ x.want \in PipFiles => /\ x.bytes \in BytesOf(x.want)
                                   /\ \E link \in Links[x.want] : x.sum = link.sha

(* A prefetch has chosen a wheel of its package that is listed, so that    *)
(* there is an entry when it looks the digest up again.                    *)
JobOK(j, x, idx) ==
    x.pc \in {"fetch", "verify", "enqueue"} =>
        /\ x.file \in PipFiles /\ PackageOf[x.file] = j[2] /\ idx.entries[x.file] # NoEntry
        /\ \E link \in Links[x.file] : x.url = link.url
        /\ x.pc # "fetch" => x.bytes \in BytesOf(x.file)

PackageInv ==
    /\ PackageTypeOK
    /\ \A c \in Clients : PullOK(client[c], urls)
    /\ \A j \in Jobs : JobOK(j, job[j], urls)
    /\ CachedIsChecked

(* What a checksum may be: that of a file which shares the key; a broken   *)
(* stream leaves parts under the keys of R files.                          *)
SumsOf(k) ==
    {Content[g] : g \in {h \in Listed : k \in SumKeysOf(h)}}
        \union (IF k \in Files THEN {} ELSE {Cut})
SumsAreListed == \A k \in SumKeys : sums[k] \in SumsOf(k) \union {Nothing}

(* The checksum that a request for an R package holds is one of those that *)
(* share its key.                                                          *)
HeldSum(x) ==
    x.pc = "check" /\ Driver[x.want] = "r" =>
        x.sum \in {Nothing, Cut} \union {Content[g] : g \in Sharing(x.want)}

KeyringOK == keyring \in [Slots -> PublicKeys \union {NoKey}]

SumInv ==
    /\ PackageInv
    /\ KeyringOK
    /\ SumsAreListed
    /\ \A c \in Clients : HeldSum(client[c])

(* While nothing has failed, what a cached wheel needs is filed, or on its *)
(* way, or will be when the prefetch that cached it goes on.               *)
Filed(rows, p) == \E g \in PipFiles : PackageOf[g] = p /\ rows[g].status # "absent"
Running(jobs, j) == j \in Jobs /\ jobs[j].pc # "none"
Filing(x, f, b) == x.pc = "enqueue" /\ x.file = f /\ x.bytes = b
OnItsWay(rows, jobs, f, b, p) ==
    \/ Filed(rows, p)
    \/ Running(jobs, <<f, p>>)
    \/ \E j \in Jobs : Filing(jobs[j], f, b)

Sound == faults = 0 /\ restarts = 0

NeedsAreDue ==
    /\ \A f \in Files : row[f].status # "absent" => cache[f] # Nothing
    /\ \A j \in Jobs : job[j].pc = "enqueue" => cache[job[j].file] # Nothing
    /\ \A j \in Jobs : job[j].pc \in {"verify", "enqueue"} => job[j].bytes = job[j].url
    /\ \A f \in PipFiles : cache[f] # Nothing =>
          \A p \in Needs[cache[f]] \intersect Stable \intersect Wheeled :
              OnItsWay(row, job, f, cache[f], p)

NeedInv == PackageInv /\ (Sound => NeedsAreDue)

(* The check that a file of its kind is put to.                            *)
Checked(f, b) ==
    /\ Driver[f] = "pip" => \E link \in Links[f] : link.sha \in {Unlisted, b}
    /\ Driver[f] = "apt" => (Verifies => SignedBy[b] # Unreadable)
    /\ Driver[f] = "r" => Magic[b] = Archive(f)
    /\ Driver[f] = "npm" => Magic[b] = "gzip"
    /\ Driver[f] = "go" => Magic[b] = "zip"

LEMMA CachedIsWhatIsChecked ==
    CachedIsChecked <=> \A f \in Files : cache[f] # Nothing => Checked(f, cache[f])
<1>1. ASSUME NEW f \in Files
      PROVE  Driver[f] \in {"pip", "apt", "r", "npm", "go"}
  BY DriverAssumption
<1> QED
  BY <1>1 DEF CachedIsChecked, Checked

LEMMA BytesAreBytes ==
    ASSUME NEW f \in PipFiles
    PROVE  /\ f \in Files
           /\ \A link \in Links[f] : link.url \in Bytes /\ link.sha \in {link.url, Unlisted}
           /\ BytesOf(f) \subseteq Bytes
<1>1. f \in Files /\ PackageOf[f] \in Packages
  BY UrlAssumption DEF PipFiles
<1>2. ASSUME NEW link \in Links[f]
      PROVE  link.url \in Bytes /\ link.sha \in {link.url, Unlisted}
  <2>1. PICK page \in Pages[PackageOf[f]] : link \in Range(page)
    BY <1>2 DEF Links
  <2>2. PICK n \in DOMAIN page : link = page[n]
    BY <2>1 DEF Range
  <2> DEFINE Link == [file : PipFiles, url : Bytes, sha : Bytes \union {Unlisted}]
  <2>3. page \in Seq(Link) /\ link.sha \in {link.url, Unlisted}
    BY <1>1, <2>2, DriverAssumption
  <2>4. page[n] \in Link
    <3> HIDE DEF Link
    <3> QED
      BY <2>3
  <2> QED
    BY <2>2, <2>3, <2>4
<1> QED
  BY <1>1, <1>2, DriverAssumption DEF BytesOf

LEMMA EntryIsFromALink ==
    ASSUME NEW idx, UrlsOK(idx), NEW f \in Files, idx.entries[f] # NoEntry
    PROVE  \E link \in Links[f] : /\ idx.entries[f].url = link.url /\ link.url \in Bytes
                                  /\ idx.entries[f].sha = link.sha
<1>1. f \in PipFiles /\ IsEntry(f, idx.entries[f])
  BY DEF UrlsOK
<1>2. PICK link \in Links[f] : idx.entries[f] = [url |-> link.url, sha |-> link.sha]
  BY <1>1 DEF IsEntry
<1>3. link.url \in Bytes
  BY <1>1, BytesAreBytes
<1> QED
  BY <1>2, <1>3

(* What is left of the invariant when each part has moved on its own.      *)
LEMMA PackagePartsKeep ==
    ASSUME PackageInv,
           row' \in [Files -> Row], sums' \in [SumKeys -> Bytes \union {Nothing, Cut}],
           faults' \in Nat, restarts' \in Nat,
           UrlsOK(urls'), Grows(urls, urls'),
           cache' \in [Files -> Bytes \union {Nothing}],
           \A f \in Files : cache'[f] = cache[f] \/ (cache'[f] # Nothing => Checked(f, cache'[f])),
           job' \in [Jobs -> JobState],
           \A j \in Jobs : job'[j] = job[j] \/ JobOK(j, job'[j], urls'),
           client' \in [Clients -> ClientState],
           \A c \in Clients : client'[c] = client[c] \/ PullOK(client'[c], urls')
    PROVE  PackageInv'
<1>1. PackageTypeOK'
  BY DEF PackageTypeOK
<1>2. \A f \in PipFiles : f \in Files
  BY DEF PipFiles
<1>3. \A c \in Clients : PullOK(client'[c], urls')
  <2>1. \A c \in Clients : PullOK(client[c], urls) => PullOK(client[c], urls')
    BY <1>2 DEF PullOK, Grows
  <2> QED
    BY <2>1 DEF PackageInv
<1>4. \A j \in Jobs : JobOK(j, job'[j], urls')
  <2>1. \A j \in Jobs : JobOK(j, job[j], urls) => JobOK(j, job[j], urls')
    BY <1>2 DEF JobOK, Grows
  <2> QED
    BY <2>1 DEF PackageInv
<1>5. CachedIsChecked'
  <2>1. \A f \in Files : cache[f] # Nothing => Checked(f, cache[f])
    BY CachedIsWhatIsChecked DEF PackageInv
  <2>2. \A f \in Files : cache'[f] # Nothing => Checked(f, cache'[f])
    BY <2>1
  <2>3. \A f \in Files : Driver[f] \in {"pip", "apt", "r", "npm", "go"}
    BY DriverAssumption
  <2> QED
    BY <2>2, <2>3 DEF CachedIsChecked, Checked
<1> QED
  BY <1>1, <1>3, <1>4, <1>5 DEF PackageInv

-----------------------------------------------------------------------------
(* Records.                                                                *)

LEMMA NothingIsNoFile == Nothing \notin Files /\ Nothing \notin Bytes /\ Cut \notin Bytes /\ Cut # Nothing
  BY UrlAssumption, DriverAssumption DEF Nothing

LEMMA NoPullState ==
    /\ NoPull = [pc |-> "idle", want |-> Nothing, bytes |-> Nothing, sum |-> Nothing, got |-> "none"]
    /\ NoJob = [pc |-> "none", file |-> Nothing, url |-> Nothing, bytes |-> Nothing]
  BY DEF NoPull, NoJob

LEMMA FinishedState ==
    ASSUME NEW got \in {"none", "error", "served", "pending"}
    PROVE  /\ [NoPull EXCEPT !.got = got] \in ClientState
           /\ [NoPull EXCEPT !.got = got].pc = "idle"
           /\ \A idx : PullOK([NoPull EXCEPT !.got = got], idx)
  BY NoPullState DEF ClientState, PullOK

LEMMA StartedState ==
    ASSUME NEW f \in Files, NEW pc
    PROVE  [NoPull EXCEPT !.want = f, !.pc = pc] =
             [pc |-> pc, want |-> f, bytes |-> Nothing, sum |-> Nothing, got |-> "none"]
<1> DEFINE r1 == [NoPull EXCEPT !.want = f]
           r2 == [r1 EXCEPT !.pc = pc]
<1>1. [NoPull EXCEPT !.want = f, !.pc = pc] = r2
  OBVIOUS
<1>2. r1 = [pc |-> "idle", want |-> f, bytes |-> Nothing, sum |-> Nothing, got |-> "none"]
  BY NoPullState
<1> HIDE DEF r1
<1>3. r2 = [pc |-> pc, want |-> f, bytes |-> Nothing, sum |-> Nothing, got |-> "none"]
  BY <1>2
<1> QED
  BY <1>1, <1>3

LEMMA FetchedState ==
    ASSUME NEW x \in ClientState, NEW b, NEW sum
    PROVE  [x EXCEPT !.pc = "check", !.bytes = b, !.sum = sum] =
             [pc |-> "check", want |-> x.want, bytes |-> b, sum |-> sum, got |-> x.got]
<1> DEFINE r1 == [x EXCEPT !.pc = "check"]
           r2 == [r1 EXCEPT !.bytes = b]
           r3 == [r2 EXCEPT !.sum = sum]
<1>1. [x EXCEPT !.pc = "check", !.bytes = b, !.sum = sum] = r3
  OBVIOUS
<1>2. r1 = [pc |-> "check", want |-> x.want, bytes |-> x.bytes, sum |-> x.sum, got |-> x.got]
  BY DEF ClientState
<1> HIDE DEF r1
<1>3. r2 = [pc |-> "check", want |-> x.want, bytes |-> b, sum |-> x.sum, got |-> x.got]
  BY <1>2
<1> HIDE DEF r2
<1>4. r3 = [pc |-> "check", want |-> x.want, bytes |-> b, sum |-> sum, got |-> x.got]
  BY <1>3
<1> QED
  BY <1>1, <1>4

LEMMA VerifyState ==
    ASSUME NEW x \in JobState, NEW b
    PROVE  [x EXCEPT !.pc = "verify", !.bytes = b] =
             [pc |-> "verify", file |-> x.file, url |-> x.url, bytes |-> b]
<1> DEFINE r1 == [x EXCEPT !.pc = "verify"]
           r2 == [r1 EXCEPT !.bytes = b]
<1>1. [x EXCEPT !.pc = "verify", !.bytes = b] = r2
  OBVIOUS
<1>2. r1 = [pc |-> "verify", file |-> x.file, url |-> x.url, bytes |-> x.bytes]
  BY DEF JobState
<1> HIDE DEF r1
<1>3. r2 = [pc |-> "verify", file |-> x.file, url |-> x.url, bytes |-> b]
  BY <1>2
<1> QED
  BY <1>1, <1>3

LEMMA ChosenState ==
    ASSUME NEW f, NEW url
    PROVE  [NoJob EXCEPT !.pc = "fetch", !.file = f, !.url = url] =
             [pc |-> "fetch", file |-> f, url |-> url, bytes |-> Nothing]
<1> DEFINE r1 == [NoJob EXCEPT !.pc = "fetch"]
           r2 == [r1 EXCEPT !.file = f]
           r3 == [r2 EXCEPT !.url = url]
<1>1. [NoJob EXCEPT !.pc = "fetch", !.file = f, !.url = url] = r3
  OBVIOUS
<1>2. r1 = [pc |-> "fetch", file |-> Nothing, url |-> Nothing, bytes |-> Nothing]
  BY NoPullState
<1> HIDE DEF r1
<1>3. r2 = [pc |-> "fetch", file |-> f, url |-> Nothing, bytes |-> Nothing]
  BY <1>2
<1> HIDE DEF r2
<1>4. r3 = [pc |-> "fetch", file |-> f, url |-> url, bytes |-> Nothing]
  BY <1>3
<1> QED
  BY <1>1, <1>4

LEMMA LaunchedState ==
    /\ [NoJob EXCEPT !.pc = "page"] \in JobState
    /\ [NoJob EXCEPT !.pc = "page"].pc = "page"
    /\ NoJob \in JobState /\ NoJob.pc = "none"
  BY NoPullState DEF JobState

-----------------------------------------------------------------------------
(* Operations.                                                             *)

LEMMA LaunchedKeeps ==
    ASSUME NEW jobs \in [Jobs -> JobState], NEW f, NEW b
    PROVE  /\ Launched(jobs, f, b) \in [Jobs -> JobState]
           /\ \A j \in Jobs : \/ Launched(jobs, f, b)[j] = jobs[j]
                              \/ /\ jobs[j].pc = "none"
                                 /\ Launched(jobs, f, b)[j].pc = "page"
           /\ f \in PipFiles /\ b \in BytesOf(f) =>
                \A p \in Needs[b] : <<f, p>> \in Jobs /\ Launched(jobs, f, b)[<<f, p>>].pc # "none"
<1> DEFINE new == [NoJob EXCEPT !.pc = "page"]
<1>1. new \in JobState /\ new.pc = "page"
  BY LaunchedState
<1>2. Launched(jobs, f, b) =
        [j \in Jobs |-> IF f \in PipFiles /\ j[1] = f /\ j[2] \in Needs[b] /\ jobs[j].pc = "none"
                        THEN new ELSE jobs[j]]
  BY DEF Launched
<1> HIDE DEF new
<1>3. ASSUME f \in PipFiles, b \in BytesOf(f), NEW p \in Needs[b]
      PROVE  <<f, p>> \in Jobs /\ Launched(jobs, f, b)[<<f, p>>].pc # "none"
  <2>1. <<f, p>> \in Jobs
    BY <1>3 DEF Jobs
  <2> QED
    BY <1>1, <1>2, <1>3, <2>1
<1>4. Launched(jobs, f, b) \in [Jobs -> JobState]
  BY <1>1, <1>2
<1>5. \A j \in Jobs : \/ Launched(jobs, f, b)[j] = jobs[j]
                      \/ jobs[j].pc = "none" /\ Launched(jobs, f, b)[j].pc = "page"
  BY <1>1, <1>2
<1> QED
  BY <1>3, <1>4, <1>5

LEMMA EnqueueKeeps ==
    ASSUME row \in [Files -> Row], NEW f \in Files, NEW marked \in BOOLEAN, Enqueue(f, marked)
    PROVE  /\ row' \in [Files -> Row]
           /\ row'[f].status # "absent"
           /\ \A g \in Files \ {f} : row'[g] = row[g]
<1>1. CASE Live(f)
  BY <1>1 DEF Enqueue, Live
<1>2. CASE ~ Live(f)
  <2> DEFINE new == [status |-> "pending",
                     marked |-> IF row[f].status = "absent" THEN marked ELSE row[f].marked]
  <2>1. row' = [row EXCEPT ![f] = new]
    BY <1>2 DEF Enqueue
  <2>2. new \in Row /\ new.status = "pending"
    BY DEF Row
  <2> HIDE DEF new
  <2> QED
    BY <2>1, <2>2
<1> QED
  BY <1>1, <1>2

LEMMA DecideKeeps ==
    ASSUME row \in [Files -> Row], NEW f \in Files,
           NEW status \in {"pending", "approved", "rejected"}, Decide(f, status)
    PROVE  /\ row' \in [Files -> Row]
           /\ \A g \in Files : row'[g].status = "absent" <=> row[g].status = "absent"
<1> DEFINE new == [row[f] EXCEPT !.status = status]
<1>1. row' = [row EXCEPT ![f] = new] /\ row[f].status # "absent"
  BY DEF Decide
<1>2. new \in Row /\ new.status = status
  BY DEF Row
<1> HIDE DEF new
<1> QED
  BY <1>1, <1>2

LEMMA NewUrlsOK == UrlsOK(NewIndex)
  BY DEF UrlsOK, NewIndex, NoEntry, InPackage

LEMMA SamePage ==
    ASSUME NEW idx, UrlsOK(idx)
    PROVE  Grows(idx, idx)
  BY DEF Grows

(* What a validation accepts has passed the check of its kind.             *)
LEMMA ValidIsChecked ==
    ASSUME NEW f \in Files, NEW b, NEW sum, Validate(f, b, sum),
           f \in PipFiles => \E link \in Links[f] : sum = link.sha
    PROVE  Checked(f, b)
<1>1. Driver[f] \in {"pip", "apt", "r", "npm", "go"}
  BY DriverAssumption
<1>2. CASE Driver[f] = "pip"
  <2>1. f \in PipFiles /\ Matches(b, sum)
    BY <1>2 DEF PipFiles, Validate, PipValid
  <2> QED
    BY <1>2, <2>1 DEF Checked, Matches, Nothing
<1>3. CASE Driver[f] = "apt"
  <2>1. Verifies => VerifyDeb(keyring, b) \in {"ok", "ErrNoSignature"}
    BY <1>3 DEF Validate, AptValid
  <2>2. SignedBy[b] = Unreadable => VerifyDeb(keyring, b) = "error"
    BY VerifierAssumption DEF VerifyDeb
  <2> QED
    BY <1>3, <2>1, <2>2 DEF Checked
<1>4. CASE Driver[f] \in {"r", "npm", "go"}
  BY <1>4 DEF Checked, Validate, CranValid, NpmValid, GoValid
<1> QED
  BY <1>1, <1>2, <1>3, <1>4

-----------------------------------------------------------------------------
(* The steps of a request keep the invariant.                              *)

LEMMA FaultsCount ==
    ASSUME faults \in Nat, Fault \/ NoFault
    PROVE  faults' \in Nat
  BY DEF Fault, NoFault

LEMMA OnlyPullMoves ==
    ASSUME PackageInv, NEW c \in Clients, NEW new \in ClientState,
           client' = [client EXCEPT ![c] = new],
           UrlsOK(urls'), Grows(urls, urls'), PullOK(new, urls'),
           UNCHANGED <<row, cache, sums, job, restarts>>, faults' \in Nat
    PROVE  PackageInv'
<1>1. /\ row' \in [Files -> Row] /\ sums' \in [SumKeys -> Bytes \union {Nothing, Cut}]
      /\ restarts' \in Nat /\ cache' \in [Files -> Bytes \union {Nothing}]
      /\ job' \in [Jobs -> JobState]
  BY DEF PackageInv, PackageTypeOK
<1>2. /\ client' \in [Clients -> ClientState]
      /\ \A d \in Clients : client'[d] = client[d] \/ PullOK(client'[d], urls')
  BY DEF PackageInv, PackageTypeOK
<1> QED
  BY <1>1, <1>2, PackagePartsKeep

LEMMA PullKeeps ==
    ASSUME PackageInv, NEW c \in Clients, NEW f \in Files, Pull(c, f)
    PROVE  PackageInv'
<1> DEFINE pc == IF f \in PipFiles /\ urls.entries[f] = NoEntry THEN "page" ELSE "fetch"
           got == IF row[f].status = "approved" THEN "served" ELSE "pending"
           new == IF Live(f) /\ cache[f] # Nothing THEN [NoPull EXCEPT !.got = got]
                  ELSE [NoPull EXCEPT !.want = f, !.pc = pc]
<1>1. client' = [client EXCEPT ![c] = new]
  BY DEF Pull
<1>2. new \in ClientState /\ PullOK(new, urls)
  <2>1. CASE Live(f) /\ cache[f] # Nothing
    <3>1. got \in {"none", "error", "served", "pending"}
      OBVIOUS
    <3> HIDE DEF got
    <3> QED
      BY <2>1, <3>1, FinishedState
  <2>2. CASE ~ (Live(f) /\ cache[f] # Nothing)
    <3>1. /\ pc \in {"page", "fetch"}
          /\ pc = "page" => f \in PipFiles
          /\ pc = "fetch" /\ f \in PipFiles => urls.entries[f] # NoEntry
      OBVIOUS
    <3> HIDE DEF pc
    <3>2. new = [pc |-> pc, want |-> f, bytes |-> Nothing, sum |-> Nothing, got |-> "none"]
      BY <2>2, StartedState
    <3> HIDE DEF new
    <3> QED
      BY <3>1, <3>2 DEF ClientState, PullOK
  <2> QED
    BY <2>1, <2>2
<1> HIDE DEF new
<1>3. /\ UNCHANGED <<row, cache, urls, sums, job, restarts>> /\ faults' \in Nat
      /\ UrlsOK(urls') /\ Grows(urls, urls')
  BY SamePage DEF Pull, disk, listings, PackageInv, PackageTypeOK
<1> QED
  BY <1>1, <1>2, <1>3, OnlyPullMoves

LEMMA FindKeeps ==
    ASSUME PackageInv, NEW c \in Clients, FindURL(c)
    PROVE  PackageInv'
<1> DEFINE f == client[c].want
<1>1. /\ client[c].pc = "page" /\ client[c] \in ClientState /\ f \in PipFiles
      /\ client[c].got = "none"
      /\ client \in [Clients -> ClientState]
  BY DEF FindURL, PackageInv, PackageTypeOK, PullOK
<1>2. f \in Files /\ PackageOf[f] \in Packages
  BY <1>1, UrlAssumption DEF PipFiles
<1>3. PICK page \in Pages[PackageOf[f]] :
        /\ urls' = IndexPage(urls, page)
        /\ IF urls'.entries[f] = NoEntry THEN Finish(c, "error")
           ELSE client' = [client EXCEPT ![c].pc = "fetch"]
  BY DEF FindURL
<1>4. UrlsOK(urls') /\ Grows(urls, urls')
  BY <1>2, <1>3, PageKeepsUrls DEF PackageInv, PackageTypeOK
<1>5. UNCHANGED <<row, cache, sums, job, restarts>> /\ faults' \in Nat
  BY DEF FindURL, disk, counts, PackageInv, PackageTypeOK
<1>6. CASE urls'.entries[f] = NoEntry
  <2>1. client' = [client EXCEPT ![c] = [NoPull EXCEPT !.got = "error"]]
    BY <1>3, <1>6 DEF Finish
  <2> QED
    BY <1>4, <1>5, <2>1, FinishedState, OnlyPullMoves
<1>7. CASE urls'.entries[f] # NoEntry
  <2> DEFINE new == [client[c] EXCEPT !.pc = "fetch"]
  <2>1. client' = [client EXCEPT ![c] = new]
    BY <1>1, <1>3, <1>7
  <2>2. new \in ClientState /\ new.pc = "fetch" /\ new.want = f /\ new.got = "none"
    BY <1>1 DEF ClientState
  <2>3. PullOK(new, urls')
    BY <1>2, <1>7, <2>2 DEF PullOK
  <2> HIDE DEF new
  <2> QED
    BY <1>4, <1>5, <2>1, <2>2, <2>3, OnlyPullMoves
<1> QED
  BY <1>6, <1>7

LEMMA FetchKeeps ==
    ASSUME PackageInv, NEW c \in Clients, Fetch(c)
    PROVE  PackageInv'
<1> DEFINE x == client[c]
           f == x.want
<1>1. /\ x \in ClientState /\ x.pc = "fetch" /\ f \in Files /\ x.got = "none"
      /\ f \in PipFiles => urls.entries[f] # NoEntry
      /\ client \in [Clients -> ClientState] /\ UrlsOK(urls)
      /\ sums \in [SumKeys -> Bytes \union {Nothing, Cut}]
  BY DEF Fetch, PackageInv, PackageTypeOK, PullOK
<1>2. PICK b \in Bytes :
        /\ Answers(Asked(f), b)
        /\ client' = [client EXCEPT ![c].pc = "check", ![c].bytes = b, ![c].sum = LookedUp(f)]
  BY DEF Fetch
<1> DEFINE sum == LookedUp(f)
           new == [x EXCEPT !.pc = "check", !.bytes = b, !.sum = sum]
<1>3. client' = [client EXCEPT ![c] = new]
  BY <1>1, <1>2
<1>4. new = [pc |-> "check", want |-> f, bytes |-> b, sum |-> sum, got |-> x.got]
  <2>1. x \in ClientState
    BY <1>1
  <2> QED
    BY <2>1, FetchedState
<1>5. f \in PipFiles => b \in BytesOf(f) /\ \E link \in Links[f] : sum = link.sha
  <2> SUFFICES ASSUME f \in PipFiles
               PROVE  b \in BytesOf(f) /\ \E link \in Links[f] : sum = link.sha
    OBVIOUS
  <2>1. PICK link \in Links[f] : /\ urls.entries[f].url = link.url
                                 /\ urls.entries[f].sha = link.sha
    BY <1>1, EntryIsFromALink
  <2>2. sum = link.sha
    BY <2>1 DEF LookedUp
  <2>3. b = link.url \/ b \in Wrong
    BY <1>2, <2>1 DEF Answers, Asked
  <2> QED
    BY <2>2, <2>3 DEF BytesOf
<1>6. sum \in Bytes \union {Nothing, Cut}
  <2>1. CASE f \in PipFiles
    BY <1>5, <2>1, BytesAreBytes DEF Nothing
  <2>2. CASE f \notin PipFiles /\ Driver[f] = "r"
    <3>1. SumKey(f) \in SumKeys
      BY <1>1, <2>2, UrlAssumption DEF SumKeys, SumKey, Releases
    <3> QED
      BY <1>1, <2>2, <3>1 DEF LookedUp, SumFor
  <2>3. CASE f \notin PipFiles /\ Driver[f] # "r"
    BY <2>3 DEF LookedUp
  <2> QED
    BY <2>1, <2>2, <2>3
<1>7. new \in ClientState /\ PullOK(new, urls)
  <2>1. x.got \in {"none", "error", "served", "pending"}
    BY <1>1 DEF ClientState
  <2> HIDE DEF new, sum, f
  <2> QED
    BY <1>1, <1>4, <1>5, <1>6, <2>1 DEF ClientState, PullOK
<1>8. /\ UNCHANGED <<row, cache, urls, sums, job, restarts>> /\ faults' \in Nat
  BY <1>2, FaultsCount DEF Fetch, Answers, Fault, NoFault, disk, counts, listings, PackageInv, PackageTypeOK
<1>9. UrlsOK(urls') /\ Grows(urls, urls') /\ PullOK(new, urls')
  BY <1>1, <1>7, <1>8, SamePage
<1> HIDE DEF new
<1> QED
  BY <1>3, <1>7, <1>8, <1>9, OnlyPullMoves

LEMMA FetchFailsKeeps ==
    ASSUME PackageInv, NEW c \in Clients, FetchFails(c)
    PROVE  PackageInv'
<1>1. client' = [client EXCEPT ![c] = [NoPull EXCEPT !.got = "error"]]
  BY DEF FetchFails, Finish
<1>2. /\ UNCHANGED <<row, cache, urls, sums, job, restarts>> /\ faults' \in Nat
      /\ UrlsOK(urls') /\ Grows(urls, urls')
  BY SamePage, FaultsCount DEF FetchFails, disk, listings, counts, PackageInv, PackageTypeOK
<1> QED
  BY <1>1, <1>2, FinishedState, OnlyPullMoves

LEMMA ServeKeeps ==
    ASSUME PackageInv, NEW c \in Clients, Serve(c)
    PROVE  PackageInv'
<1> DEFINE f == client[c].want
           b == client[c].bytes
           sum == client[c].sum
           valid == Validate(f, b, sum)
<1>1. /\ client[c].pc = "check" /\ client[c] \in ClientState /\ f \in Files /\ b \in Bytes
      /\ f \in PipFiles => \E link \in Links[f] : sum = link.sha
      /\ cache \in [Files -> Bytes \union {Nothing}] /\ row \in [Files -> Row]
      /\ job \in [Jobs -> JobState] /\ client \in [Clients -> ClientState]
      /\ UrlsOK(urls) /\ faults \in Nat /\ restarts \in Nat
      /\ sums \in [SumKeys -> Bytes \union {Nothing, Cut}]
  BY DEF Serve, PackageInv, PackageTypeOK, PullOK
<1>2. PICK got \in {"served", "pending", "error"} :
        client' = [client EXCEPT ![c] = [NoPull EXCEPT !.got = got]]
  BY DEF Serve, Finish
<1>3. /\ client' \in [Clients -> ClientState]
      /\ \A d \in Clients : client'[d] = client[d] \/ PullOK(client'[d], urls')
  <2> DEFINE new == [NoPull EXCEPT !.got = got]
  <2>1. new \in ClientState /\ PullOK(new, urls')
    BY FinishedState
  <2>2. client' = [client EXCEPT ![c] = new]
    BY <1>2
  <2> HIDE DEF new
  <2> QED
    BY <1>1, <2>1, <2>2
<1>4. /\ faults' \in Nat /\ restarts' \in Nat /\ UrlsOK(urls') /\ Grows(urls, urls')
      /\ sums' \in [SumKeys -> Bytes \union {Nothing, Cut}]
  <2>1. UNCHANGED <<urls, sums, restarts>> /\ (Fault \/ NoFault)
    BY DEF Serve, listings, counts
  <2> QED
    BY <1>1, <2>1, SamePage, FaultsCount
<1>5. /\ cache' \in [Files -> Bytes \union {Nothing}]
      /\ \A g \in Files : cache'[g] = cache[g] \/ (cache'[g] # Nothing => Checked(g, cache'[g]))
  <2>1. cache' = cache \/ (valid /\ cache' = [cache EXCEPT ![f] = b])
    BY DEF Serve, disk
  <2>2. valid => Checked(f, b)
    BY <1>1, ValidIsChecked
  <2> HIDE DEF valid
  <2> QED
    BY <1>1, <2>1, <2>2
<1>6. /\ row' \in [Files -> Row]
  <2>1. row' = row \/ Enqueue(f, Marked(f, b))
    BY DEF Serve, disk
  <2>2. Marked(f, b) \in BOOLEAN
    BY DEF Marked
  <2> QED
    BY <1>1, <2>1, <2>2, EnqueueKeeps
<1>7. /\ job' \in [Jobs -> JobState]
      /\ \A j \in Jobs : job'[j] = job[j] \/ JobOK(j, job'[j], urls')
  <2>1. job' = job \/ job' = Launched(job, f, b)
    BY DEF Serve
  <2>2. /\ Launched(job, f, b) \in [Jobs -> JobState]
        /\ \A j \in Jobs : \/ Launched(job, f, b)[j] = job[j]
                           \/ Launched(job, f, b)[j].pc = "page"
    BY <1>1, LaunchedKeeps
  <2> QED
    BY <1>1, <2>1, <2>2 DEF JobOK
<1> QED
  BY <1>3, <1>4, <1>5, <1>6, <1>7, PackagePartsKeep

-----------------------------------------------------------------------------
(* The steps of a prefetch keep the invariant.                             *)

LEMMA JobIsOfAPackage ==
    ASSUME NEW j \in Jobs
    PROVE  \E f \in PipFiles : \E p \in Packages : \E b \in BytesOf(f) :
             j = <<f, p>> /\ j[2] = p /\ p \in Needs[b]
<1>1. PICK f \in PipFiles : j \in {<<f, p>> : p \in UNION {Needs[b] : b \in BytesOf(f)}}
  BY DEF Jobs
<1>2. PICK p \in UNION {Needs[b] : b \in BytesOf(f)} : j = <<f, p>>
  BY <1>1
<1>3. PICK b \in BytesOf(f) : p \in Needs[b]
  BY <1>2
<1>4. p \in Packages
  BY <1>3, BytesAreBytes, DriverAssumption
<1> QED
  BY <1>2, <1>3, <1>4

LEMMA OnlyJobMoves ==
    ASSUME PackageInv, NEW j \in Jobs, NEW new \in JobState,
           job' = [job EXCEPT ![j] = new],
           UrlsOK(urls'), Grows(urls, urls'), JobOK(j, new, urls'),
           UNCHANGED <<row, cache, sums, client, restarts>>, faults' \in Nat
    PROVE  PackageInv'
<1>1. /\ row' \in [Files -> Row] /\ sums' \in [SumKeys -> Bytes \union {Nothing, Cut}]
      /\ restarts' \in Nat /\ cache' \in [Files -> Bytes \union {Nothing}]
      /\ client' \in [Clients -> ClientState]
  BY DEF PackageInv, PackageTypeOK
<1>2. /\ job' \in [Jobs -> JobState]
      /\ \A i \in Jobs : job'[i] = job[i] \/ JobOK(i, job'[i], urls')
  BY DEF PackageInv, PackageTypeOK
<1> QED
  BY <1>1, <1>2, PackagePartsKeep

(* What the page that a prefetch reads makes of its job.                   *)
LEMMA PrefetchChooses ==
    ASSUME PackageInv, NEW j \in Jobs, PrefetchPage(j)
    PROVE  /\ UrlsOK(urls') /\ Grows(urls, urls')
           /\ \E new \in JobState :
                /\ job' = [job EXCEPT ![j] = new] /\ JobOK(j, new, urls')
                /\ new.pc \in {"none", "fetch"}
                /\ new.pc = "none" /\ j[2] \in Wheeled =>
                     \E g \in PipFiles : PackageOf[g] = j[2] /\ Live(g)
<1> DEFINE p == j[2]
<1>1. p \in Packages /\ UrlsOK(urls)
  BY JobIsOfAPackage DEF PackageInv, PackageTypeOK
<1>2. PICK page \in Pages[p] :
        LET idx == IndexPage(urls, page)
            best == BestWheel(idx, p)
        IN /\ urls' = idx
           /\ job' = [job EXCEPT ![j] = IF best = Unlisted \/ Live(best) THEN NoJob
                        ELSE [NoJob EXCEPT !.pc = "fetch", !.file = best,
                                           !.url = idx.entries[best].url]]
  BY DEF PrefetchPage
<1> DEFINE best == BestWheel(urls', p)
           url == urls'.entries[best].url
           new == IF best = Unlisted \/ Live(best) THEN NoJob
                  ELSE [NoJob EXCEPT !.pc = "fetch", !.file = best, !.url = url]
<1>3. urls' = IndexPage(urls, page) /\ job' = [job EXCEPT ![j] = new]
  BY <1>2
<1>4. /\ UrlsOK(urls') /\ Grows(urls, urls')
      /\ \A n \in 1 .. Len(page) : urls'.entries[page[n].file] # NoEntry
  BY <1>1, <1>3, PageKeepsUrls
<1>5. best # Unlisted => /\ best \in PipFiles /\ PackageOf[best] = p
                         /\ urls'.entries[best] # NoEntry
  BY <1>1, <1>4, BestIsListed
<1>6. best = Unlisted => p \notin Wheeled
  <2> SUFFICES ASSUME best = Unlisted, p \in Wheeled PROVE FALSE
    OBVIOUS
  <2>1. \A f \in Files : PackageOf[f] = p /\ urls'.entries[f] # NoEntry => Tag[f] = "sdist"
    BY <1>1, <1>4, BestIsListed
  <2>2. PICK n \in DOMAIN page : Tag[page[n].file] # "sdist"
    BY <1>1 DEF Wheeled
  <2>3. n \in 1 .. Len(page)
    BY <1>1, <2>2, DriverAssumption
  <2>4. page[n].file \in Files /\ PackageOf[page[n].file] = p
    BY <1>1, <2>3, LinkIsListed DEF PipFiles
  <2> QED
    BY <1>4, <2>1, <2>2, <2>3, <2>4
<1>7. CASE best = Unlisted \/ Live(best)
  <2>1. new = NoJob /\ NoJob \in JobState /\ NoJob.pc = "none"
    BY <1>7, LaunchedState
  <2>2. JobOK(j, NoJob, urls')
    BY <2>1 DEF JobOK
  <2>3. p \in Wheeled => best \in PipFiles /\ PackageOf[best] = p /\ Live(best)
    BY <1>5, <1>6, <1>7
  <2> HIDE DEF new, best
  <2> QED
    BY <1>3, <1>4, <2>1, <2>2, <2>3
<1>8. CASE ~ (best = Unlisted \/ Live(best))
  <2>1. new = [pc |-> "fetch", file |-> best, url |-> url, bytes |-> Nothing]
    <3> HIDE DEF best, url
    <3>1. best \in Files
      BY <1>5, <1>8, BytesAreBytes
    <3> QED
      BY <1>8, <3>1, ChosenState
  <2>2. PICK link \in Links[best] : url = link.url /\ url \in Bytes
    BY <1>4, <1>5, <1>8, BytesAreBytes, EntryIsFromALink
  <2>3. best \in Files
    BY <1>5, <1>8, BytesAreBytes
  <2> HIDE DEF best, url, new
  <2>4. new \in JobState /\ JobOK(j, new, urls') /\ new.pc = "fetch"
    BY <1>5, <1>8, <2>1, <2>2, <2>3 DEF JobState, JobOK
  <2> QED
    BY <1>3, <1>4, <2>4
<1> QED
  BY <1>7, <1>8

LEMMA PrefetchPageKeeps ==
    ASSUME PackageInv, NEW j \in Jobs, PrefetchPage(j)
    PROVE  PackageInv'
<1>1. PICK new \in JobState : job' = [job EXCEPT ![j] = new] /\ JobOK(j, new, urls')
  BY PrefetchChooses
<1>2. UrlsOK(urls') /\ Grows(urls, urls')
  BY PrefetchChooses
<1>3. UNCHANGED <<row, cache, sums, client, restarts>> /\ faults' \in Nat
  BY DEF PrefetchPage, disk, counts, PackageInv, PackageTypeOK
<1> QED
  BY <1>1, <1>2, <1>3, OnlyJobMoves

LEMMA PrefetchFetches ==
    ASSUME PackageInv, NEW j \in Jobs, PrefetchFetch(j)
    PROVE  \E b \in Bytes :
             /\ Answers(job[j].url, b)
             /\ job' = [job EXCEPT ![j] = [pc |-> "verify", file |-> job[j].file,
                                           url |-> job[j].url, bytes |-> b]]
<1>1. job[j] \in JobState
  BY DEF PackageInv, PackageTypeOK
<1>2. PICK b \in Bytes : /\ Answers(job[j].url, b)
                         /\ job' = [job EXCEPT ![j].pc = "verify", ![j].bytes = b]
  BY DEF PrefetchFetch
<1> DEFINE new == [job[j] EXCEPT !.pc = "verify", !.bytes = b]
<1>3. job' = [job EXCEPT ![j] = new]
  BY <1>2 DEF PackageInv, PackageTypeOK
<1>4. new = [pc |-> "verify", file |-> job[j].file, url |-> job[j].url, bytes |-> b]
  BY <1>1, VerifyState
<1> QED
  BY <1>2, <1>3, <1>4

LEMMA PrefetchFetchKeeps ==
    ASSUME PackageInv, NEW j \in Jobs, PrefetchFetch(j)
    PROVE  PackageInv'
<1> DEFINE x == job[j]
<1>1. x \in JobState /\ x.pc = "fetch" /\ JobOK(j, x, urls)
  BY DEF PrefetchFetch, PackageInv, PackageTypeOK
<1>2. PICK b \in Bytes :
        /\ Answers(x.url, b)
        /\ job' = [job EXCEPT ![j] = [pc |-> "verify", file |-> x.file, url |-> x.url, bytes |-> b]]
  BY PrefetchFetches
<1> DEFINE new == [pc |-> "verify", file |-> x.file, url |-> x.url, bytes |-> b]
<1>3. b \in BytesOf(x.file)
  BY <1>1, <1>2 DEF JobOK, Answers, BytesOf
<1>4. new \in JobState /\ JobOK(j, new, urls)
  <2> HIDE DEF x
  <2> QED
    BY <1>1, <1>3 DEF JobState, JobOK
<1>5. UNCHANGED <<row, cache, urls, sums, client, restarts>> /\ faults' \in Nat
  BY <1>2, FaultsCount DEF PrefetchFetch, Answers, disk, listings, counts, PackageInv, PackageTypeOK
<1>6. UrlsOK(urls') /\ Grows(urls, urls')
  BY <1>5, SamePage DEF PackageInv, PackageTypeOK
<1> HIDE DEF x
<1>7. job' = [job EXCEPT ![j] = new] /\ JobOK(j, new, urls')
  BY <1>2, <1>4, <1>5
<1> HIDE DEF new
<1> QED
  BY <1>4, <1>5, <1>6, <1>7, OnlyJobMoves

LEMMA PrefetchFailsKeeps ==
    ASSUME PackageInv, NEW j \in Jobs, PrefetchFails(j)
    PROVE  PackageInv'
<1>1. job' = [job EXCEPT ![j] = NoJob] /\ NoJob \in JobState /\ JobOK(j, NoJob, urls')
  BY LaunchedState DEF PrefetchFails, JobOK
<1>2. /\ UNCHANGED <<row, cache, urls, sums, client, restarts>> /\ faults' \in Nat
      /\ UrlsOK(urls') /\ Grows(urls, urls')
  BY SamePage, FaultsCount DEF PrefetchFails, disk, listings, counts, PackageInv, PackageTypeOK
<1> QED
  BY <1>1, <1>2, OnlyJobMoves

LEMMA PrefetchVerifyKeeps ==
    ASSUME PackageInv, NEW j \in Jobs, PrefetchVerify(j)
    PROVE  PackageInv'
<1> DEFINE x == job[j]
           f == x.file
           b == x.bytes
           match == Matches(b, urls.entries[f].sha)
           next == [x EXCEPT !.pc = "enqueue"]
           new == IF match THEN next ELSE NoJob
<1>1. /\ x \in JobState /\ x.pc = "verify" /\ JobOK(j, x, urls)
      /\ job \in [Jobs -> JobState] /\ cache \in [Files -> Bytes \union {Nothing}]
  BY DEF PrefetchVerify, PackageInv, PackageTypeOK
<1>2. f \in PipFiles /\ f \in Files /\ b \in Bytes /\ urls.entries[f] # NoEntry
  BY <1>1, BytesAreBytes DEF JobOK
<1>3. job' = [job EXCEPT ![j] = new]
  BY <1>1 DEF PrefetchVerify
<1>4. new \in JobState /\ JobOK(j, new, urls)
  <2>1. /\ next = [pc |-> "enqueue", file |-> x.file, url |-> x.url, bytes |-> x.bytes]
        /\ next \in JobState
    BY <1>1 DEF JobState
  <2> HIDE DEF next, x
  <2>2. JobOK(j, next, urls)
    BY <1>1, <2>1 DEF JobOK
  <2>3. JobOK(j, NoJob, urls) /\ NoJob \in JobState
    BY LaunchedState DEF JobOK
  <2> QED
    BY <2>1, <2>2, <2>3
<1>5. /\ cache' \in [Files -> Bytes \union {Nothing}]
      /\ \A g \in Files : cache'[g] = cache[g] \/ (cache'[g] # Nothing => Checked(g, cache'[g]))
  <2>1. match => Checked(f, b)
    <3>1. \E link \in Links[f] : urls.entries[f].sha = link.sha
      BY <1>2, EntryIsFromALink DEF PackageInv, PackageTypeOK
    <3>2. Driver[f] = "pip"
      BY <1>2 DEF PipFiles
    <3> QED
      BY <3>1, <3>2 DEF Checked, Matches, Nothing
  <2>2. cache' = cache \/ (match /\ cache' = [cache EXCEPT ![f] = b])
    BY DEF PrefetchVerify
  <2> HIDE DEF match, f, b
  <2> QED
    BY <1>1, <1>2, <2>1, <2>2
<1>6. UNCHANGED <<row, urls, sums, client, restarts, faults>>
  BY DEF PrefetchVerify, listings, counts
<1> HIDE DEF new
<1>7. /\ job' \in [Jobs -> JobState]
      /\ \A i \in Jobs : job'[i] = job[i] \/ JobOK(i, job'[i], urls')
  BY <1>1, <1>3, <1>4, <1>6
<1>8. /\ row' \in [Files -> Row] /\ sums' \in [SumKeys -> Bytes \union {Nothing, Cut}]
      /\ faults' \in Nat /\ restarts' \in Nat /\ client' \in [Clients -> ClientState]
      /\ UrlsOK(urls') /\ Grows(urls, urls')
      /\ \A c \in Clients : client'[c] = client[c]
  BY <1>6, SamePage DEF PackageInv, PackageTypeOK
<1> QED
  BY <1>5, <1>7, <1>8, PackagePartsKeep

LEMMA PrefetchEnqueueKeeps ==
    ASSUME PackageInv, NEW j \in Jobs, PrefetchEnqueue(j)
    PROVE  PackageInv'
<1> DEFINE f == job[j].file
           b == job[j].bytes
           rest == [job EXCEPT ![j] = NoJob]
<1>1. /\ job[j].pc = "enqueue" /\ JobOK(j, job[j], urls)
      /\ job \in [Jobs -> JobState] /\ row \in [Files -> Row]
  BY DEF PrefetchEnqueue, PackageInv, PackageTypeOK
<1>2. f \in Files
  BY <1>1, BytesAreBytes DEF JobOK
<1>3. row' \in [Files -> Row]
  BY <1>1, <1>2, EnqueueKeeps DEF PrefetchEnqueue
<1>4. rest \in [Jobs -> JobState] /\ \A i \in Jobs : rest[i] = job[i] \/ rest[i].pc = "none"
  BY <1>1, LaunchedState
<1>5. job' = Launched(rest, f, b)
  BY DEF PrefetchEnqueue
<1> HIDE DEF rest
<1>6. /\ job' \in [Jobs -> JobState]
      /\ \A i \in Jobs : job'[i] = job[i] \/ job'[i].pc \in {"none", "page"}
  BY <1>4, <1>5, LaunchedKeeps
<1>7. \A i \in Jobs : job'[i] = job[i] \/ JobOK(i, job'[i], urls')
  BY <1>6 DEF JobOK
<1>8. UNCHANGED <<cache, urls, sums, client, restarts, faults>>
  BY DEF PrefetchEnqueue, listings, counts
<1>9. /\ sums' \in [SumKeys -> Bytes \union {Nothing, Cut}]
      /\ faults' \in Nat /\ restarts' \in Nat /\ client' \in [Clients -> ClientState]
      /\ cache' \in [Files -> Bytes \union {Nothing}]
      /\ UrlsOK(urls') /\ Grows(urls, urls')
      /\ \A c \in Clients : client'[c] = client[c]
      /\ \A g \in Files : cache'[g] = cache[g]
  BY <1>8, SamePage DEF PackageInv, PackageTypeOK
<1> QED
  BY <1>3, <1>6, <1>7, <1>9, PackagePartsKeep

-----------------------------------------------------------------------------
(* Checksums, and the steps outside requests and prefetches.               *)

LEMMA SumKeysKnown ==
    ASSUME NEW f \in Files
    PROVE  /\ Driver[f] \in {"apt", "r"} =>
                f \in Listed /\ SumKeysOf(f) \subseteq SumKeys /\ SumKey(f) \in SumKeysOf(f)
           /\ Driver[f] = "apt" => SumKeysOf(f) = {f} /\ SumKey(f) = f
           /\ Driver[f] = "r" => SumKeysOf(f) \intersect Files = {}
  BY UrlAssumption, DriverAssumption DEF SumKeysOf, SumKey, SumKeys, Listed, Releases

(* The path of a Debian package is the key of no other.                    *)
LEMMA DebKeysAreOwn ==
    ASSUME NEW k \in Files, Driver[k] = "apt"
    PROVE  k \in SumKeys /\ SumsOf(k) = {Content[k]}
<1>1. k \in SumKeys /\ k \in Listed
  BY SumKeysKnown DEF SumKeys
<1>2. \A h \in Listed : h \in Files /\ Driver[h] \in {"apt", "r"}
  BY DEF Listed
<1>3. \A h \in Listed : k \in SumKeysOf(h) <=> h = k
  BY <1>1, <1>2, SumKeysKnown
<1> QED
  BY <1>1, <1>3 DEF SumsOf

(* A key gets the checksum of the last stanza for it, or keeps its own.    *)
LEMMA LoadedIsLast ==
    ASSUME NEW S, NEW files \in Seq(S), NEW k \in SumKeys
    PROVE  \/ /\ Loaded(files)[k] = sums[k]
              /\ \A n \in 1 .. Len(files) : k \notin SumKeysOf(files[n])
           \/ \E n \in 1 .. Len(files) : /\ k \in SumKeysOf(files[n])
                                         /\ Loaded(files)[k] = Content[files[n]]
<1> DEFINE I == {i \in 1 .. Len(files) : k \in SumKeysOf(files[i])}
<1>1. Len(files) \in Nat
  OBVIOUS
<1>2. Loaded(files)[k] =
        LET n == IF I # {} THEN Max(I) ELSE 0
        IN  IF n = 0 THEN sums[k] ELSE Content[files[n]]
  BY DEF Loaded, SelectLastInSeq
<1>3. CASE I = {}
  BY <1>2, <1>3
<1>4. CASE I # {}
  <2>1. Max(I) \in I
    <3>1. I \in SUBSET (1 .. Len(files))
      OBVIOUS
    <3> HIDE DEF I
    <3> QED
      BY <1>1, <1>4, <3>1, MaxIsIn
  <2>2. Max(I) # 0
    BY <1>1, <2>1
  <2>3. Loaded(files)[k] = Content[files[Max(I)]]
    BY <1>2, <1>4, <2>2
  <2> QED
    BY <2>1, <2>3
<1> QED
  BY <1>3, <1>4

LEMMA LoadedIsListed ==
    ASSUME NEW d \in {"apt", "r"}, NEW files \in Seq({f \in Files : Driver[f] = d}),
           NEW k \in SumKeys
    PROVE  Loaded(files)[k] = sums[k] \/ Loaded(files)[k] \in SumsOf(k) \intersect Bytes
<1> DEFINE S == {f \in Files : Driver[f] = d}
<1>0. files \in Seq(S)
  OBVIOUS
<1>1. ASSUME NEW n \in 1 .. Len(files)
      PROVE  files[n] \in Listed /\ Content[files[n]] \in Bytes
  <2>1. files[n] \in S
    <3> HIDE DEF S
    <3> QED
      BY <1>0
  <2> QED
    BY <2>1, DriverAssumption DEF PipFiles, Listed
<1>2. ASSUME NEW n \in 1 .. Len(files), k \in SumKeysOf(files[n])
      PROVE  Content[files[n]] \in SumsOf(k) \intersect Bytes
  BY <1>1, <1>2 DEF SumsOf
<1> HIDE DEF S
<1> QED
  BY <1>0, <1>2, LoadedIsLast

(* A list of stanzas without its end is one of some of them.               *)
LEMMA PrefixIsListed ==
    ASSUME NEW S, NEW files \in Seq(S), NEW n \in 0 .. Len(files)
    PROVE  SubSeq(files, 1, n) \in Seq(S)
  OBVIOUS

LEMMA StanzasAreListed ==
    ASSUME NEW d \in {"apt", "r"}, NEW l \in Listings[d]
    PROVE  Stanzas(d, l) \in Seq({f \in Files : Driver[f] = d})
<1> DEFINE S == {f \in Files : Driver[f] = d}
<1>1. l.files \in Seq(S) /\ l.files # << >>
  BY DriverAssumption
<1> HIDE DEF S
<1>2. Len(l.files) - 1 \in 0 .. Len(l.files)
  BY <1>1
<1>3. Front(l.files) \in Seq(S)
  BY <1>1, <1>2, PrefixIsListed DEF Front
<1>4. Stanzas(d, l) \in {l.files, Front(l.files)}
  BY DEF Stanzas, CranStanzas, AptStanzas
<1>5. Stanzas(d, l) \in Seq(S)
  BY <1>1, <1>3, <1>4
<1> QED
  BY <1>5 DEF S

(* What reading an index makes of the checksums, whether or not it breaks  *)
(* off: those of Debian packages are never taken away.                     *)
SumsMove ==
    /\ sums' \in [SumKeys -> Bytes \union {Nothing, Cut}]
    /\ \A k \in SumKeys : sums'[k] \in SumsOf(k) \union {Nothing, sums[k]}
    /\ \A k \in SumKeys \intersect Files : sums'[k] \in SumsOf(k) \union {sums[k]}
    /\ faults' \in Nat

LEMMA LoadMoves ==
    ASSUME NEW d \in {"apt", "r"}, NEW l \in Listings[d], Load(d, l), faults \in Nat,
           sums \in [SumKeys -> Bytes \union {Nothing, Cut}]
    PROVE  SumsMove
<1> DEFINE S == {f \in Files : Driver[f] = d}
<1>0. l.files \in Seq(S)
  BY DriverAssumption
<1>1. ASSUME NEW files \in Seq(S)
      PROVE  /\ Loaded(files) \in [SumKeys -> Bytes \union {Nothing, Cut}]
             /\ \A k \in SumKeys : Loaded(files)[k] \in SumsOf(k) \union {sums[k]}
  <2>1. \A k \in SumKeys : Loaded(files)[k] = sums[k] \/ Loaded(files)[k] \in SumsOf(k) \intersect Bytes
    BY LoadedIsListed
  <2>2. Loaded(files) = [k \in SumKeys |-> Loaded(files)[k]]
    BY DEF Loaded
  <2> QED
    BY <2>1, <2>2
<1>2. CASE NoFault /\ sums' = Loaded(Stanzas(d, l))
  <2>1. Stanzas(d, l) \in Seq(S) /\ faults' \in Nat
    BY <1>2, StanzasAreListed DEF NoFault
  <2> HIDE DEF S
  <2> QED
    BY <1>1, <1>2, <2>1 DEF SumsMove
<1>3. CASE Fault /\ sums' \in Broken(d, l)
  <2>1. faults' \in Nat
    BY <1>3 DEF Fault
  <2> DEFINE read(n) == Loaded(SubSeq(l.files, 1, n - 1))
             keys(n) == SumKeysOf(l.files[n])
             Cutting(n, part) == [k \in SumKeys |-> IF k \in keys(n) THEN part ELSE read(n)[k]]
  <2>2. PICK n \in DOMAIN l.files :
          \/ sums' = read(n)
          \/ d = "r" /\ (sums' = Cutting(n, Nothing) \/ sums' = Cutting(n, Cut))
    BY <1>3 DEF Broken
  <2>3. n - 1 \in 0 .. Len(l.files) /\ n \in 1 .. Len(l.files)
    BY <1>0
  <2>4. SubSeq(l.files, 1, n - 1) \in Seq(S)
    <3> HIDE DEF S
    <3> QED
      BY <1>0, <2>3, PrefixIsListed
  <2>5. /\ read(n) \in [SumKeys -> Bytes \union {Nothing, Cut}]
        /\ \A k \in SumKeys : read(n)[k] \in SumsOf(k) \union {sums[k]}
    <3> HIDE DEF S
    <3> QED
      BY <1>1, <2>4
  <2>6. d = "r" => \A k \in keys(n) : k \notin Files /\ Cut \in SumsOf(k)
    <3> SUFFICES ASSUME d = "r", NEW k \in keys(n) PROVE k \notin Files /\ Cut \in SumsOf(k)
      OBVIOUS
    <3>1. l.files[n] \in S
      <4> HIDE DEF S
      <4> QED
        BY <1>0, <2>3
    <3>2. k \notin Files
      BY <3>1, SumKeysKnown
    <3> QED
      BY <3>2 DEF SumsOf
  <2> HIDE DEF read, keys, S
  <2>7. ASSUME NEW part \in {Nothing, Cut}, d = "r", sums' = Cutting(n, part)
        PROVE  SumsMove
    BY <2>1, <2>5, <2>6, <2>7 DEF SumsMove
  <2>8. CASE sums' = read(n)
    BY <2>1, <2>5, <2>8 DEF SumsMove
  <2> HIDE DEF Cutting
  <2> QED
    BY <2>2, <2>7, <2>8
<1> QED
  BY <1>2, <1>3 DEF Load

-----------------------------------------------------------------------------
(* Every step keeps the invariant.                                         *)

LEMMA SumsMoveKeeps ==
    ASSUME PackageInv, UNCHANGED <<row, cache, urls, job, client, restarts>>,
           sums' \in [SumKeys -> Bytes \union {Nothing, Cut}], faults' \in Nat
    PROVE  PackageInv'
<1>1. /\ row' \in [Files -> Row] /\ restarts' \in Nat
      /\ cache' \in [Files -> Bytes \union {Nothing}] /\ job' \in [Jobs -> JobState]
      /\ client' \in [Clients -> ClientState] /\ UrlsOK(urls') /\ Grows(urls, urls')
      /\ \A f \in Files : cache'[f] = cache[f]
      /\ \A j \in Jobs : job'[j] = job[j]
      /\ \A c \in Clients : client'[c] = client[c]
  BY SamePage DEF PackageInv, PackageTypeOK
<1> QED
  BY <1>1, PackagePartsKeep

LEMMA PageAskedKeeps ==
    ASSUME PackageInv, NEW p \in Packages, PullPage(p)
    PROVE  PackageInv'
<1>1. UrlsOK(urls') /\ Grows(urls, urls')
  BY PageKeepsUrls DEF PullPage, PackageInv, PackageTypeOK
<1>2. /\ UNCHANGED <<row, cache, sums, job, client, restarts, faults>>
  BY DEF PullPage, disk
<1>3. /\ row' \in [Files -> Row] /\ restarts' \in Nat /\ faults' \in Nat
      /\ sums' \in [SumKeys -> Bytes \union {Nothing, Cut}]
      /\ cache' \in [Files -> Bytes \union {Nothing}] /\ job' \in [Jobs -> JobState]
      /\ client' \in [Clients -> ClientState]
      /\ \A f \in Files : cache'[f] = cache[f]
      /\ \A j \in Jobs : job'[j] = job[j]
      /\ \A c \in Clients : client'[c] = client[c]
  BY <1>2 DEF PackageInv, PackageTypeOK
<1> QED
  BY <1>1, <1>3, PackagePartsKeep

LEMMA DecisionKeeps ==
    ASSUME PackageInv, NEW f \in Files,
           NEW status \in {"pending", "approved", "rejected"}, Decide(f, status)
    PROVE  PackageInv'
<1>1. row' \in [Files -> Row]
  BY DecideKeeps DEF PackageInv, PackageTypeOK
<1>2. UNCHANGED <<urls, cache, sums, job, client, restarts, faults>>
  BY DEF Decide, listings
<1>3. /\ restarts' \in Nat /\ faults' \in Nat /\ UrlsOK(urls') /\ Grows(urls, urls')
      /\ sums' \in [SumKeys -> Bytes \union {Nothing, Cut}]
      /\ cache' \in [Files -> Bytes \union {Nothing}] /\ job' \in [Jobs -> JobState]
      /\ client' \in [Clients -> ClientState]
      /\ \A g \in Files : cache'[g] = cache[g]
      /\ \A j \in Jobs : job'[j] = job[j]
      /\ \A c \in Clients : client'[c] = client[c]
  BY <1>2, SamePage DEF PackageInv, PackageTypeOK
<1> QED
  BY <1>1, <1>3, PackagePartsKeep

(* The indexes are gone, and with them the requests that relied on them.   *)
LEMMA FreshMemory ==
    ASSUME urls' = NewIndex, sums' = [k \in SumKeys |-> Nothing],
           job' = [j \in Jobs |-> NoJob], client' = [c \in Clients |-> NoPull]
    PROVE  /\ UrlsOK(urls') /\ sums' \in [SumKeys -> Bytes \union {Nothing, Cut}]
           /\ job' \in [Jobs -> JobState] /\ client' \in [Clients -> ClientState]
           /\ \A c \in Clients : PullOK(client'[c], urls')
           /\ \A j \in Jobs : JobOK(j, job'[j], urls')
  BY NewUrlsOK, NoPullState DEF JobState, ClientState, PullOK, JobOK

LEMMA RestartKeeps ==
    ASSUME PackageInv, Restart
    PROVE  PackageInv'
<1>1. /\ UrlsOK(urls') /\ sums' \in [SumKeys -> Bytes \union {Nothing, Cut}]
      /\ job' \in [Jobs -> JobState] /\ client' \in [Clients -> ClientState]
      /\ \A c \in Clients : PullOK(client'[c], urls')
      /\ \A j \in Jobs : JobOK(j, job'[j], urls')
  BY FreshMemory DEF Restart
<1>2. /\ row' = row /\ cache' = cache /\ faults' = faults /\ restarts' \in Nat
  BY DEF Restart, disk, PackageInv, PackageTypeOK
<1>3. PackageTypeOK'
  BY <1>1, <1>2 DEF PackageInv, PackageTypeOK
<1>4. CachedIsChecked'
  BY <1>2 DEF PackageInv, CachedIsChecked
<1> QED
  BY <1>1, <1>3, <1>4 DEF PackageInv

LEMMA PackageInitInv == PackageInit => PackageInv
<1> SUFFICES ASSUME PackageInit PROVE PackageInv
  OBVIOUS
<1>1. NoRow \in Row
  BY DEF NoRow, Row
<1>2. UrlsOK(urls)
  BY NewUrlsOK DEF PackageInit
<1>3. /\ job \in [Jobs -> JobState] /\ client \in [Clients -> ClientState]
      /\ \A c \in Clients : PullOK(client[c], urls)
      /\ \A j \in Jobs : JobOK(j, job[j], urls)
  BY NoPullState DEF PackageInit, JobState, ClientState, PullOK, JobOK
<1>4. PackageTypeOK
  BY <1>1, <1>2, <1>3 DEF PackageInit, PackageTypeOK
<1>5. CachedIsChecked
  BY DEF PackageInit, CachedIsChecked
<1> QED
  BY <1>3, <1>4, <1>5 DEF PackageInv

LEMMA PackageNextInv == PackageInv /\ [PackageNext]_packageVars => PackageInv'
<1> SUFFICES ASSUME PackageInv, [PackageNext]_packageVars PROVE PackageInv'
  OBVIOUS
<1>1. ASSUME NEW c \in Clients, Handle(c) PROVE PackageInv'
  BY <1>1, FindKeeps, FetchKeeps, FetchFailsKeeps, ServeKeeps DEF Handle
<1>2. ASSUME NEW j \in Jobs, Prefetch(j) PROVE PackageInv'
  BY <1>2, PrefetchPageKeeps, PrefetchFetchKeeps, PrefetchVerifyKeeps, PrefetchEnqueueKeeps,
     PrefetchFailsKeeps DEF Prefetch
<1>3. ASSUME NEW d \in {"apt", "r"}, NEW l \in Listings[d], Load(d, l) PROVE PackageInv'
  <2>1. sums' \in [SumKeys -> Bytes \union {Nothing, Cut}] /\ faults' \in Nat
    BY <1>3, LoadMoves DEF SumsMove, PackageInv, PackageTypeOK
  <2>2. UNCHANGED <<row, cache, urls, job, client, restarts>>
    BY <1>3 DEF Load, disk, counts
  <2> QED
    BY <2>1, <2>2, SumsMoveKeeps
<1>4. ASSUME NEW c \in Clients, NEW f \in Files, Pull(c, f) PROVE PackageInv'
  BY <1>4, PullKeeps
<1>5. ASSUME NEW p \in Packages, PullPage(p) PROVE PackageInv'
  BY <1>5, PageAskedKeeps
<1>6. ASSUME NEW d \in {"apt", "r"}, NEW l \in Listings[d], PullListing(d, l) \/ RefreshIndex(d, l)
      PROVE  PackageInv'
  <2>1. UNCHANGED <<row, cache, urls, sums, job, client, restarts, faults>>
    BY <1>6 DEF PullListing, RefreshIndex, disk
  <2> QED
    BY <2>1, SumsMoveKeeps DEF PackageInv, PackageTypeOK
<1>7. ASSUME NEW k \in PublicKeys, AddGPGKey(k) PROVE PackageInv'
  <2>1. UNCHANGED <<row, cache, urls, sums, job, client, restarts, faults>>
    BY <1>7 DEF AddGPGKey, disk, listings
  <2> QED
    BY <2>1, SumsMoveKeeps DEF PackageInv, PackageTypeOK
<1>8. ASSUME NEW f \in Files, NEW status \in {"pending", "approved", "rejected"}, Decide(f, status)
      PROVE  PackageInv'
  BY <1>8, DecisionKeeps
<1>9. CASE Restart
  BY <1>9, RestartKeeps
<1>10. CASE UNCHANGED packageVars
  <2>1. UNCHANGED <<row, cache, urls, sums, job, client, restarts, faults>>
    BY <1>10 DEF packageVars, disk, listings, counts
  <2> QED
    BY <2>1, SumsMoveKeeps DEF PackageInv, PackageTypeOK
<1> QED
  BY <1>1, <1>2, <1>3, <1>4, <1>5, <1>6, <1>7, <1>8, <1>9, <1>10 DEF PackageNext, Goroutine

LEMMA PackageIsInv == PackageSpec => []PackageInv
<1> QED
  BY PackageInitInv, PackageNextInv, PTL DEF PackageSpec

(* No wheel whose digest is listed, and no archive of R, npm or Go, is     *)
(* cached as something else, whatever pages and indexes were read while it *)
(* was fetched, prefetched or asked for by several clients                 *)
(* (pypi/driver.go:257, registry.go:191).                                  *)
THEOREM OnlyCheckedIsCached == PackageSpec => []CachedIsChecked
<1>1. PackageInv => CachedIsChecked
  BY DEF PackageInv
<1> QED
  BY <1>1, PackageIsInv, PTL

(* The digest that a page gives with an approved wheel is the one of the   *)
(* bytes that are served for it, also after a restart, as long as the      *)
(* pages of the package agree on it (pypi/driver.go:418-424).              *)
THEOREM FragmentNamesWhatIsServed == PackageSpec => []FragmentIsServed
<1>1. PackageInv => FragmentIsServed
  <2> SUFFICES ASSUME PackageInv, NEW f \in PipFiles, PackageOf[f] \in Stable,
                      Fragment(f) # Unlisted, cache[f] # Nothing
               PROVE  cache[f] = Fragment(f)
    BY DEF FragmentIsServed
  <2>1. f \in Files /\ Driver[f] = "pip" /\ UrlsOK(urls)
    BY DEF PipFiles, PackageInv, PackageTypeOK
  <2>2. Fragment(f) = urls.entries[f].sha /\ urls.entries[f].sha # Unlisted
    BY DEF Fragment
  <2>3. PICK x \in Links[f] : urls.entries[f].sha = x.sha
    <3>1. urls.entries[f] # NoEntry
      BY <2>2 DEF NoEntry
    <3> QED
      BY <2>1, <3>1, EntryIsFromALink
  <2>4. PICK y \in Links[f] : y.sha \in {Unlisted, cache[f]}
    BY <2>1, CachedIsWhatIsChecked DEF PackageInv, Checked
  <2>5. x = y
    BY DEF Stable
  <2> QED
    BY <2>2, <2>3, <2>4, <2>5
<1> QED
  BY <1>1, PackageIsInv, PTL

-----------------------------------------------------------------------------
(* Checksums are those of an index, and a request holds its own.           *)

LEMMA FaultsStay ==
    ASSUME PackageInv, [PackageNext]_packageVars
    PROVE  faults' = 0 => faults = 0
<1>1. faults \in Nat
  BY DEF PackageInv, PackageTypeOK
<1>2. Fault \/ NoFault => (faults' = 0 => faults = 0)
  BY <1>1 DEF Fault, NoFault
<1>3. ASSUME NEW c \in Clients, Handle(c) PROVE faults' = 0 => faults = 0
  BY <1>2, <1>3 DEF Handle, FindURL, Fetch, FetchFails, Serve, Answers, NoFault
<1>4. ASSUME NEW j \in Jobs, Prefetch(j) PROVE faults' = 0 => faults = 0
  BY <1>2, <1>4 DEF Prefetch, PrefetchPage, PrefetchFetch, PrefetchVerify, PrefetchEnqueue,
     PrefetchFails, Answers, NoFault
<1>5. ASSUME NEW d, NEW l, Load(d, l) \/ PullListing(d, l) \/ RefreshIndex(d, l)
      PROVE  faults' = 0 => faults = 0
  BY <1>2, <1>5 DEF Load, PullListing, RefreshIndex, NoFault
<1>6. ASSUME NEW c \in Clients, NEW f \in Files, Pull(c, f) PROVE NoFault
  BY <1>6 DEF Pull, NoFault
<1>7. ASSUME NEW p \in Packages, PullPage(p) PROVE NoFault
  BY <1>7 DEF PullPage, NoFault
<1>8. ASSUME NEW k \in PublicKeys, AddGPGKey(k) PROVE NoFault
  BY <1>8 DEF AddGPGKey, NoFault
<1>9. ASSUME NEW f \in Files, NEW status \in {"pending", "approved", "rejected"}, Decide(f, status)
      PROVE  NoFault
  BY <1>9 DEF Decide, NoFault
<1>10. Restart \/ UNCHANGED packageVars => NoFault
  BY DEF Restart, packageVars, NoFault
<1> QED
  BY <1>2, <1>3, <1>4, <1>5, <1>6, <1>7, <1>8, <1>9, <1>10 DEF PackageNext, Goroutine

(* Who writes the checksums and the keyring, and who the requests.         *)
LEMMA SumsAreLoaded ==
    ASSUME [PackageNext]_packageVars
    PROVE  \/ UNCHANGED sums
           \/ sums' = [k \in SumKeys |-> Nothing] /\ restarts' = restarts + 1
           \/ \E d \in {"apt", "r"} : \E l \in Listings[d] : Load(d, l)
<1>1. ASSUME NEW c \in Clients, Handle(c) PROVE UNCHANGED sums
  BY <1>1 DEF Handle, FindURL, Fetch, FetchFails, Serve, listings
<1>2. ASSUME NEW j \in Jobs, Prefetch(j) PROVE UNCHANGED sums
  BY <1>2 DEF Prefetch, PrefetchPage, PrefetchFetch, PrefetchVerify, PrefetchEnqueue,
     PrefetchFails, listings
<1>3. ASSUME NEW d, NEW l, PullListing(d, l) \/ RefreshIndex(d, l) PROVE UNCHANGED sums
  BY <1>3 DEF PullListing, RefreshIndex
<1>4. ASSUME NEW c \in Clients, NEW f \in Files, Pull(c, f) PROVE UNCHANGED sums
  BY <1>4 DEF Pull, listings
<1>5. ASSUME NEW p \in Packages, PullPage(p) PROVE UNCHANGED sums
  BY <1>5 DEF PullPage
<1>6. ASSUME NEW k \in PublicKeys, AddGPGKey(k) PROVE UNCHANGED sums
  BY <1>6 DEF AddGPGKey, listings
<1>7. ASSUME NEW f \in Files, NEW status \in {"pending", "approved", "rejected"}, Decide(f, status)
      PROVE  UNCHANGED sums
  BY <1>7 DEF Decide, listings
<1>8. Restart => sums' = [k \in SumKeys |-> Nothing] /\ restarts' = restarts + 1
  BY DEF Restart
<1>9. UNCHANGED packageVars => UNCHANGED sums
  BY DEF packageVars, listings
<1> QED
  BY <1>1, <1>2, <1>3, <1>4, <1>5, <1>6, <1>7, <1>8, <1>9 DEF PackageNext, Goroutine

LEMMA KeysAreAdded ==
    ASSUME [PackageNext]_packageVars
    PROVE  UNCHANGED keyring \/ \E k \in PublicKeys : keyring' = AddKey(keyring, k)
<1>1. ASSUME NEW c \in Clients, Handle(c) PROVE UNCHANGED keyring
  BY <1>1 DEF Handle, FindURL, Fetch, FetchFails, Serve
<1>2. ASSUME NEW j \in Jobs, Prefetch(j) PROVE UNCHANGED keyring
  BY <1>2 DEF Prefetch, PrefetchPage, PrefetchFetch, PrefetchVerify, PrefetchEnqueue, PrefetchFails
<1>3. ASSUME NEW d, NEW l, Load(d, l) \/ PullListing(d, l) \/ RefreshIndex(d, l)
      PROVE  UNCHANGED keyring
  BY <1>3 DEF Load, PullListing, RefreshIndex
<1>4. ASSUME NEW c \in Clients, NEW f \in Files, Pull(c, f) PROVE UNCHANGED keyring
  BY <1>4 DEF Pull
<1>5. ASSUME NEW p \in Packages, PullPage(p) PROVE UNCHANGED keyring
  BY <1>5 DEF PullPage
<1>6. ASSUME NEW k \in PublicKeys, AddGPGKey(k) PROVE keyring' = AddKey(keyring, k)
  BY <1>6 DEF AddGPGKey
<1>7. ASSUME NEW f \in Files, NEW status \in {"pending", "approved", "rejected"}, Decide(f, status)
      PROVE  UNCHANGED keyring
  BY <1>7 DEF Decide
<1>8. Restart \/ UNCHANGED packageVars => UNCHANGED keyring
  BY DEF Restart, packageVars
<1> QED
  BY <1>1, <1>2, <1>3, <1>4, <1>5, <1>6, <1>7, <1>8 DEF PackageNext, Goroutine

(* A request moves by itself, or is gone with the process.                 *)
LEMMA RequestsMove ==
    ASSUME [PackageNext]_packageVars
    PROVE  \/ UNCHANGED client
           \/ client' = [c \in Clients |-> NoPull]
           \/ \E c \in Clients : Handle(c) \/ \E f \in Files : Pull(c, f)
<1>1. ASSUME NEW j \in Jobs, Prefetch(j) PROVE UNCHANGED client
  BY <1>1 DEF Prefetch, PrefetchPage, PrefetchFetch, PrefetchVerify, PrefetchEnqueue, PrefetchFails
<1>2. ASSUME NEW d, NEW l, Load(d, l) \/ PullListing(d, l) \/ RefreshIndex(d, l)
      PROVE  UNCHANGED client
  BY <1>2 DEF Load, PullListing, RefreshIndex
<1>3. ASSUME NEW p \in Packages, PullPage(p) PROVE UNCHANGED client
  BY <1>3 DEF PullPage
<1>4. ASSUME NEW k \in PublicKeys, AddGPGKey(k) PROVE UNCHANGED client
  BY <1>4 DEF AddGPGKey
<1>5. ASSUME NEW f \in Files, NEW status \in {"pending", "approved", "rejected"}, Decide(f, status)
      PROVE  UNCHANGED client
  BY <1>5 DEF Decide
<1>6. Restart => client' = [c \in Clients |-> NoPull]
  BY DEF Restart
<1>7. UNCHANGED packageVars => UNCHANGED client
  BY DEF packageVars
<1> QED
  BY <1>1, <1>2, <1>3, <1>4, <1>5, <1>6, <1>7 DEF PackageNext, Goroutine

LEMMA OthersStay ==
    ASSUME client \in [Clients -> ClientState], NEW d \in Clients,
           Handle(d) \/ (\E f \in Files : Pull(d, f)), NEW c \in Clients, c # d
    PROVE  client'[c] = client[c]
<1>1. ASSUME NEW new, client' = [client EXCEPT ![d] = new] PROVE client'[c] = client[c]
  BY <1>1
<1>2. ASSUME NEW got, Finish(d, got) PROVE client'[c] = client[c]
  BY <1>2 DEF Finish
<1>3. CASE FindURL(d)
  BY <1>2, <1>3 DEF FindURL
<1>4. CASE Fetch(d)
  BY <1>4 DEF Fetch
<1>5. CASE FetchFails(d) \/ Serve(d)
  <2>1. \E got : Finish(d, got)
    BY <1>5 DEF FetchFails, Serve
  <2> QED
    BY <1>2, <2>1
<1>6. ASSUME NEW f \in Files, Pull(d, f) PROVE client'[c] = client[c]
  BY <1>6 DEF Pull
<1> QED
  BY <1>3, <1>4, <1>5, <1>6 DEF Handle

(* Of all steps only a validation refuses a request that the upstream has  *)
(* answered.                                                               *)
LEMMA OnlyServeRefuses ==
    ASSUME PackageInv, [PackageNext]_packageVars, NEW c \in Clients,
           client[c].pc = "check", client'[c].got = "error"
    PROVE  ~ Validate(client[c].want, client[c].bytes, client[c].sum)
<1>1. client \in [Clients -> ClientState] /\ client'[c] # client[c]
  BY DEF PackageInv, PackageTypeOK, PullOK
<1>2. client' # [d \in Clients |-> NoPull]
  BY NoPullState
<1>3. PICK d \in Clients : Handle(d) \/ \E f \in Files : Pull(d, f)
  BY <1>1, <1>2, RequestsMove
<1>4. d = c
  BY <1>1, <1>3, OthersStay
<1>5. Serve(c)
  BY <1>3, <1>4 DEF Handle, FindURL, Fetch, FetchFails, Pull
<1>6. ASSUME NEW got \in {"served", "pending"}, Finish(c, got) PROVE FALSE
  <2>1. [NoPull EXCEPT !.got = got].got = got
    BY NoPullState
  <2> QED
    BY <1>1, <1>6, <2>1 DEF Finish
<1> QED
  BY <1>5, <1>6 DEF Serve

LEMMA NothingIsHeld ==
    ASSUME NEW x, x.pc # "check"
    PROVE  HeldSum(x)
  BY DEF HeldSum

(* The checksum that is looked up for an R package is that of a file which *)
(* shares its key, or a part of one.                                       *)
LEMMA SharedSum ==
    ASSUME SumsAreListed, NEW f \in Files, Driver[f] = "r"
    PROVE  LookedUp(f) \in {Nothing, Cut} \union {Content[g] : g \in Sharing(f)}
<1>1. LookedUp(f) = sums[SumKey(f)]
  BY DEF PipFiles, LookedUp, SumFor
<1>2. SumKey(f) \in SumKeys
  BY SumKeysKnown
<1>3. SumsOf(SumKey(f)) \subseteq {Content[g] : g \in Sharing(f)} \union {Cut}
  BY DEF SumsOf, Sharing
<1> QED
  BY <1>1, <1>2, <1>3 DEF SumsAreListed

LEMMA HeldKeeps ==
    ASSUME PackageInv, SumsAreListed, \A c \in Clients : HeldSum(client[c]),
           [PackageNext]_packageVars
    PROVE  \A c \in Clients : HeldSum(client'[c])
<1>0. client \in [Clients -> ClientState]
  BY DEF PackageInv, PackageTypeOK
<1>1. ASSUME NEW c \in Clients, NEW new, HeldSum(new), client' = [client EXCEPT ![c] = new]
      PROVE  \A d \in Clients : HeldSum(client'[d])
  BY <1>0, <1>1
<1>2. ASSUME NEW c \in Clients, NEW got, Finish(c, got)
      PROVE  \A d \in Clients : HeldSum(client'[d])
  <2>1. [NoPull EXCEPT !.got = got].pc = "idle"
    BY NoPullState
  <2> QED
    BY <1>1, <1>2, <2>1, NothingIsHeld DEF Finish
<1>3. ASSUME NEW c \in Clients, FindURL(c) PROVE \A d \in Clients : HeldSum(client'[d])
  <2> DEFINE new == [client[c] EXCEPT !.pc = "fetch"]
  <2>1. Finish(c, "error") \/ client' = [client EXCEPT ![c] = new]
    BY <1>0, <1>3 DEF FindURL
  <2>2. new.pc = "fetch"
    BY <1>0 DEF ClientState
  <2> HIDE DEF new
  <2> QED
    BY <1>1, <1>2, <2>1, <2>2, NothingIsHeld
<1>4. ASSUME NEW c \in Clients, Fetch(c) PROVE \A d \in Clients : HeldSum(client'[d])
  <2> DEFINE x == client[c]
             f == x.want
  <2>1. x \in ClientState /\ f \in Files
    BY <1>0, <1>4 DEF Fetch, PackageInv, PullOK
  <2>2. PICK b \in Bytes :
          client' = [client EXCEPT ![c].pc = "check", ![c].bytes = b, ![c].sum = LookedUp(f)]
    BY <1>4 DEF Fetch
  <2> DEFINE sum == LookedUp(f)
             new == [x EXCEPT !.pc = "check", !.bytes = b, !.sum = sum]
  <2>3. client' = [client EXCEPT ![c] = new]
    BY <1>0, <2>2
  <2>4. new = [pc |-> "check", want |-> f, bytes |-> b, sum |-> sum, got |-> x.got]
    BY <2>1, FetchedState
  <2>5. Driver[f] = "r" => sum \in {Nothing, Cut} \union {Content[g] : g \in Sharing(f)}
    BY <2>1, SharedSum
  <2> HIDE DEF new, sum, f
  <2>6. HeldSum(new)
    BY <2>4, <2>5 DEF HeldSum
  <2> QED
    BY <1>1, <2>3, <2>6
<1>5. ASSUME NEW c \in Clients, FetchFails(c) \/ Serve(c)
      PROVE  \A d \in Clients : HeldSum(client'[d])
  <2>1. \E got : Finish(c, got)
    BY <1>5 DEF FetchFails, Serve
  <2> QED
    BY <1>2, <2>1
<1>6. ASSUME NEW c \in Clients, NEW f \in Files, Pull(c, f)
      PROVE  \A d \in Clients : HeldSum(client'[d])
  <2> DEFINE pc == IF f \in PipFiles /\ urls.entries[f] = NoEntry THEN "page" ELSE "fetch"
             got == IF row[f].status = "approved" THEN "served" ELSE "pending"
             new == [NoPull EXCEPT !.want = f, !.pc = pc]
  <2>1. Finish(c, got) \/ client' = [client EXCEPT ![c] = new]
    BY <1>6 DEF Pull, Finish
  <2>2. pc # "check"
    OBVIOUS
  <2> HIDE DEF pc, got
  <2>3. new.pc # "check"
    BY <2>2, StartedState
  <2> HIDE DEF new
  <2> QED
    BY <1>1, <1>2, <2>1, <2>3, NothingIsHeld
<1>7. CASE client' = [c \in Clients |-> NoPull]
  <2>1. HeldSum(NoPull)
    BY NoPullState, NothingIsHeld
  <2> QED
    BY <1>7, <2>1
<1> QED
  BY <1>3, <1>4, <1>5, <1>6, <1>7, RequestsMove DEF Handle

LEMMA ListedKeeps ==
    ASSUME PackageInv, SumsAreListed, [PackageNext]_packageVars
    PROVE  SumsAreListed'
<1>1. sums \in [SumKeys -> Bytes \union {Nothing, Cut}] /\ faults \in Nat
  BY DEF PackageInv, PackageTypeOK
<1>2. CASE UNCHANGED sums
  BY <1>2 DEF SumsAreListed
<1>3. CASE sums' = [k \in SumKeys |-> Nothing]
  BY <1>3 DEF SumsAreListed
<1>4. ASSUME NEW d \in {"apt", "r"}, NEW l \in Listings[d], Load(d, l)
      PROVE  SumsAreListed'
  <2>1. SumsMove
    BY <1>1, <1>4, LoadMoves
  <2> QED
    BY <2>1 DEF SumsMove, SumsAreListed
<1> QED
  BY <1>2, <1>3, <1>4, SumsAreLoaded

LEMMA KeyringKeeps ==
    ASSUME KeyringOK, [PackageNext]_packageVars
    PROVE  KeyringOK'
<1>1. ASSUME NEW k \in PublicKeys, keyring' = AddKey(keyring, k) PROVE KeyringOK'
  BY <1>1 DEF KeyringOK, AddKey
<1> QED
  BY <1>1, KeysAreAdded DEF KeyringOK

LEMMA SumIsInv == PackageSpec => []SumInv
<1>1. PackageInit => SumInv
  <2> SUFFICES ASSUME PackageInit PROVE SumInv
    OBVIOUS
  <2>1. KeyringOK
    BY DEF PackageInit, KeyringOK, EmptyKeyring
  <2>2. \A k \in SumKeys : sums[k] = Nothing
    BY DEF PackageInit
  <2>3. \A c \in Clients : HeldSum(client[c])
    BY NoPullState, NothingIsHeld DEF PackageInit
  <2> QED
    BY <2>1, <2>2, <2>3, PackageInitInv DEF SumInv, SumsAreListed
<1>2. SumInv /\ [PackageNext]_packageVars => SumInv'
  BY PackageNextInv, KeyringKeeps, ListedKeeps, HeldKeeps DEF SumInv
<1> QED
  BY <1>1, <1>2, PTL DEF PackageSpec

(* A Debian package whose checksum is known stays so until the process     *)
(* ends, whatever other indexes are read and wherever they break off       *)
(* (apt/driver.go:221-253).                                                *)
THEOREM DebSumsAreKept == PackageSpec => DebSumsStay
<1>1. SumInv /\ [PackageNext]_packageVars =>
        [\A f \in Files : Driver[f] = "apt" /\ sums[f] # Nothing =>
            sums'[f] = sums[f] \/ restarts' # restarts]_packageVars
  <2> SUFFICES ASSUME SumInv, [PackageNext]_packageVars,
                      NEW f \in Files, Driver[f] = "apt", sums[f] # Nothing
               PROVE  sums'[f] = sums[f] \/ restarts' # restarts
    OBVIOUS
  <2>1. /\ sums \in [SumKeys -> Bytes \union {Nothing, Cut}] /\ faults \in Nat
        /\ restarts \in Nat /\ SumsAreListed
    BY DEF SumInv, PackageInv, PackageTypeOK
  <2>2. f \in SumKeys /\ SumsOf(f) = {Content[f]} /\ sums[f] = Content[f]
    BY <2>1, DebKeysAreOwn DEF SumsAreListed
  <2>3. ASSUME NEW d \in {"apt", "r"}, NEW l \in Listings[d], Load(d, l)
        PROVE  sums'[f] = sums[f]
    <3>1. SumsMove
      BY <2>1, <2>3, LoadMoves
    <3> QED
      BY <2>2, <3>1 DEF SumsMove
  <2> QED
    BY <2>1, <2>3, SumsAreLoaded
<1>2. PackageSpec => [][PackageNext]_packageVars
  BY DEF PackageSpec
<1> QED
  BY <1>1, <1>2, SumIsInv, PTL DEF DebSumsStay

(* A key that is in the directory vouches for what it signed.              *)
LEMMA ImportedVouches ==
    ASSUME KeyringOK, NEW b, SignedBy[b] \in Imported(keyring)
    PROVE  VerifyDeb(keyring, b) = "ok"
<1>1. SignedBy[b] \in PublicKeys
  BY DEF KeyringOK, Imported
<1>2. SignedBy[b] # Unreadable /\ SignedBy[b] # Unsigned /\ Imported(keyring) # {}
  BY <1>1, VerifierAssumption
<1> HIDE DEF Imported
<1> QED
  BY <1>1, <1>2 DEF VerifyDeb

(* The right bytes of a package are refused only because the key is        *)
(* missing, the index broke off in the checksum, or the entry is that of   *)
(* another file which shares it; never because of a file with an entry of  *)
(* its own, whatever was read, fetched or restarted before                 *)
(* (apt/driver.go:147, cran/driver.go:111-128, 232-257).                   *)
THEOREM HonestPackagesPass == PackageSpec => HonestIsAccepted
<1>1. SumInv /\ [PackageNext]_packageVars =>
        [\A c \in Clients : HonestRefused(c) =>
            LET f == client[c].want IN
            \/ Driver[f] = "apt" /\ SignedBy[Content[f]] \notin Imported(keyring)
            \/ client[c].sum = Cut
            \/ \E g \in Sharing(f) \ {f} : client[c].sum = Content[g]]_packageVars
  <2> SUFFICES ASSUME SumInv, [PackageNext]_packageVars, NEW c \in Clients,
                      client[c].pc = "check", client'[c].got = "error",
                      client[c].want \notin PipFiles, client[c].bytes = Content[client[c].want],
                      client[c].sum # Cut,
                      \A g \in Sharing(client[c].want) \ {client[c].want} :
                          client[c].sum # Content[g]
               PROVE  /\ Driver[client[c].want] = "apt"
                      /\ SignedBy[Content[client[c].want]] \notin Imported(keyring)
    BY DEF HonestRefused
  <2> DEFINE f == client[c].want
             sum == client[c].sum
  <2>1. /\ f \in Files /\ client[c].got = "none" /\ client \in [Clients -> ClientState]
        /\ HeldSum(client[c]) /\ KeyringOK /\ SumsAreListed
    BY DEF SumInv, PackageInv, PackageTypeOK, PullOK
  <2>2. ~ Validate(f, Content[f], sum)
    BY OnlyServeRefuses DEF SumInv
  <2>3. Driver[f] \in {"apt", "r", "npm", "go"}
    BY <2>1, DriverAssumption DEF PipFiles
  <2>4. Driver[f] \notin {"npm", "go"}
    BY <2>1, <2>2, HonestAssumption DEF Validate, NpmValid, GoValid
  <2>5. Driver[f] # "r"
    <3> SUFFICES ASSUME Driver[f] = "r" PROVE FALSE
      OBVIOUS
    <3>1. sum \in {Nothing, Content[f]}
      BY <2>1 DEF HeldSum
    <3>2. Matches(Content[f], sum)
      BY <3>1 DEF Matches
    <3>3. Magic[Content[f]] = Archive(f)
      BY <2>1, HonestAssumption
    <3> QED
      BY <2>2, <3>2, <3>3 DEF Validate, CranValid
  <2>6. Driver[f] = "apt"
    BY <2>3, <2>4, <2>5
  <2>7. Matches(Content[f], SumFor(f))
    <3>1. SumFor(f) = sums[f]
      BY <2>6 DEF SumFor, SumKey
    <3>2. sums[f] \in {Content[f], Nothing}
      BY <2>1, <2>6, DebKeysAreOwn DEF SumsAreListed
    <3> QED
      BY <3>1, <3>2 DEF Matches
  <2>8. SignedBy[Content[f]] \notin Imported(keyring)
    <3> SUFFICES ASSUME SignedBy[Content[f]] \in Imported(keyring) PROVE FALSE
      OBVIOUS
    <3>1. VerifyDeb(keyring, Content[f]) = "ok"
      BY <2>1, ImportedVouches
    <3> QED
      BY <2>2, <2>6, <2>7, <3>1 DEF Validate, AptValid
  <2> QED
    BY <2>6, <2>8
<1>2. PackageSpec => [][PackageNext]_packageVars
  BY DEF PackageSpec
<1> QED
  BY <1>1, <1>2, SumIsInv, PTL DEF HonestIsAccepted

-----------------------------------------------------------------------------
(* What a wheel needs is filed.                                            *)

LEMMA DueStays ==
    ASSUME NEW f \in PipFiles, NEW b, NEW p, OnItsWay(row, job, f, b, p),
           \A g \in Files : row[g].status # "absent" => row'[g].status # "absent",
           \A j \in Jobs : \/ job'[j] = job[j]
                           \/ job[j].pc = "none"
                           \/ ~ Filing(job[j], f, b) /\ (job'[j].pc # "none" \/ j # <<f, p>>)
                           \/ Filed(row', p)
    PROVE  OnItsWay(row', job', f, b, p)
<1>1. CASE Filed(row, p)
  <2>1. \A g \in PipFiles : g \in Files
    BY DEF PipFiles
  <2> QED
    BY <1>1, <2>1 DEF Filed, OnItsWay
<1>2. CASE Running(job, <<f, p>>)
  BY <1>2 DEF Running, OnItsWay
<1>3. ASSUME NEW j \in Jobs, Filing(job[j], f, b)
      PROVE  OnItsWay(row', job', f, b, p)
  BY <1>3 DEF Filing, OnItsWay
<1> QED
  BY <1>1, <1>2, <1>3 DEF OnItsWay

(* Nothing that is due has moved.                                          *)
LEMMA QuietIsDue ==
    ASSUME NeedsAreDue, UNCHANGED <<cache, job>>,
           \A g \in Files : row'[g].status = "absent" <=> row[g].status = "absent"
    PROVE  NeedsAreDue'
<1>1. ASSUME NEW f \in PipFiles, cache'[f] # Nothing,
             NEW p \in Needs[cache'[f]] \intersect Stable \intersect Wheeled
      PROVE  OnItsWay(row', job', f, cache'[f], p)
  <2>1. OnItsWay(row, job, f, cache[f], p)
    BY <1>1 DEF NeedsAreDue
  <2> QED
    BY <2>1, DueStays
<1>2. \A f \in Files : row'[f].status # "absent" => cache'[f] # Nothing
  BY DEF NeedsAreDue
<1> QED
  BY <1>1, <1>2 DEF NeedsAreDue

(* The parts of a step that says what it does to one job.                  *)
LEMMA JobStepIsDue ==
    ASSUME PackageInv, NeedsAreDue, UNCHANGED <<row, cache>>,
           NEW j \in Jobs, NEW new, job' = [job EXCEPT ![j] = new],
           job[j].pc # "enqueue", new.pc # "enqueue",
           new.pc = "verify" => new.bytes = new.url,
           new.pc = "none" /\ j[2] \in Stable \intersect Wheeled => Filed(row, j[2])
    PROVE  NeedsAreDue'
<1>0. job \in [Jobs -> JobState]
  BY DEF PackageInv, PackageTypeOK
<1>1. ASSUME NEW f \in PipFiles, cache'[f] # Nothing,
             NEW p \in Needs[cache'[f]] \intersect Stable \intersect Wheeled
      PROVE  OnItsWay(row', job', f, cache'[f], p)
  <2>1. OnItsWay(row, job, f, cache[f], p)
    BY <1>1 DEF NeedsAreDue
  <2>2. \A i \in Jobs : i # j => job'[i] = job[i]
    BY <1>0
  <2>3. job'[j] = new
    BY <1>0
  <2>4. ~ Filing(job[j], f, cache[f])
    BY DEF Filing
  <2>5. j = <<f, p>> /\ new.pc = "none" => Filed(row', p)
    BY DEF Filed
  <2> QED
    BY <2>1, <2>2, <2>3, <2>4, <2>5, DueStays
<1>2. /\ \A f \in Files : row'[f].status # "absent" => cache'[f] # Nothing
      /\ \A i \in Jobs : job'[i].pc = "enqueue" => cache'[job'[i].file] # Nothing
      /\ \A i \in Jobs : job'[i].pc \in {"verify", "enqueue"} => job'[i].bytes = job'[i].url
  BY <1>0 DEF NeedsAreDue
<1> QED
  BY <1>1, <1>2 DEF NeedsAreDue

LEMMA PrefetchPageIsDue ==
    ASSUME PackageInv, NeedsAreDue, NEW j \in Jobs, PrefetchPage(j)
    PROVE  NeedsAreDue'
<1>1. PICK new \in JobState :
        /\ job' = [job EXCEPT ![j] = new] /\ new.pc \in {"none", "fetch"}
        /\ new.pc = "none" /\ j[2] \in Wheeled =>
             \E g \in PipFiles : PackageOf[g] = j[2] /\ Live(g)
  BY PrefetchChooses
<1>2. new.pc = "none" /\ j[2] \in Wheeled => Filed(row, j[2])
  BY <1>1 DEF Filed, Live
<1>3. UNCHANGED <<row, cache>> /\ job[j].pc = "page"
  BY DEF PrefetchPage, disk
<1> QED
  BY <1>1, <1>2, <1>3, JobStepIsDue

LEMMA PrefetchFetchIsDue ==
    ASSUME PackageInv, NeedsAreDue, NEW j \in Jobs, PrefetchFetch(j), NoFault
    PROVE  NeedsAreDue'
<1>1. PICK b \in Bytes :
        /\ Answers(job[j].url, b)
        /\ job' = [job EXCEPT ![j] = [pc |-> "verify", file |-> job[j].file,
                                      url |-> job[j].url, bytes |-> b]]
  BY PrefetchFetches
<1> DEFINE new == [pc |-> "verify", file |-> job[j].file, url |-> job[j].url, bytes |-> b]
<1>2. b = job[j].url
  <2>1. ~ Fault
    BY DEF Fault, NoFault, PackageInv, PackageTypeOK
  <2> QED
    BY <1>1, <2>1 DEF Answers
<1>3. new.pc = "verify" /\ new.bytes = new.url
  BY <1>2
<1>4. UNCHANGED <<row, cache>> /\ job[j].pc = "fetch" /\ job' = [job EXCEPT ![j] = new]
  BY <1>1 DEF PrefetchFetch, disk
<1> HIDE DEF new
<1> QED
  BY <1>3, <1>4, JobStepIsDue

(* The address and the digest of a stable package are of one link, so that *)
(* what came from the address is what the digest is of.                    *)
LEMMA StableMatches ==
    ASSUME PackageInv, NeedsAreDue, NEW j \in Jobs, job[j].pc = "verify", j[2] \in Stable
    PROVE  Matches(job[j].bytes, urls.entries[job[j].file].sha)
<1> DEFINE f == job[j].file
<1>1. /\ f \in PipFiles /\ PackageOf[f] = j[2] /\ urls.entries[f] # NoEntry
      /\ job[j].bytes = job[j].url /\ UrlsOK(urls)
  BY DEF PackageInv, PackageTypeOK, JobOK, NeedsAreDue
<1>2. PICK x \in Links[f] : job[j].url = x.url
  BY DEF PackageInv, JobOK
<1>3. PICK y \in Links[f] : urls.entries[f].sha = y.sha
  BY <1>1, BytesAreBytes, EntryIsFromALink
<1>4. x = y
  BY <1>1 DEF Stable
<1>5. y.sha \in {y.url, Unlisted}
  BY <1>1, BytesAreBytes
<1> QED
  BY <1>1, <1>2, <1>3, <1>4, <1>5 DEF Matches, Nothing

LEMMA PrefetchVerifyIsDue ==
    ASSUME PackageInv, NeedsAreDue, NEW j \in Jobs, PrefetchVerify(j)
    PROVE  NeedsAreDue'
<1> DEFINE x == job[j]
           file == x.file
           bytes == x.bytes
           match == Matches(bytes, urls.entries[file].sha)
           next == [x EXCEPT !.pc = "enqueue"]
<1>1. /\ x \in JobState /\ x.pc = "verify" /\ row' = row
      /\ job \in [Jobs -> JobState] /\ cache \in [Files -> Bytes \union {Nothing}]
      /\ file \in PipFiles /\ file \in Files /\ bytes \in Bytes /\ bytes = x.url
  BY BytesAreBytes DEF PrefetchVerify, PackageInv, PackageTypeOK, JobOK, NeedsAreDue
<1>2. CASE ~ match
  <2>1. j[2] \notin Stable
    BY <1>1, <1>2, StableMatches
  <2>2. UNCHANGED <<row, cache>> /\ job' = [job EXCEPT ![j] = NoJob]
    BY <1>1, <1>2 DEF PrefetchVerify
  <2>3. NoJob.pc = "none" /\ job[j].pc = "verify"
    BY <1>1, NoPullState
  <2> HIDE DEF x, file, bytes, match, next
  <2> QED
    BY <2>1, <2>2, <2>3, JobStepIsDue
<1>3. CASE match
  <2>1. cache' = [cache EXCEPT ![file] = bytes]
    BY <1>3 DEF PrefetchVerify
  <2>2. job' = [job EXCEPT ![j] = next]
    BY <1>1, <1>3 DEF PrefetchVerify
  <2>3. next.pc = "enqueue" /\ next.file = file /\ next.bytes = bytes /\ next.url = x.url
    BY <1>1 DEF JobState
  <2> HIDE DEF next
  <2>4. job'[j] = next /\ \A i \in Jobs : i # j => job'[i] = job[i]
    BY <1>1, <2>2
  <2>5. /\ cache'[file] = bytes /\ bytes # Nothing
        /\ \A g \in Files : g # file => cache'[g] = cache[g]
    BY <1>1, <2>1, NothingIsNoFile
  <2>6. ASSUME NEW f \in PipFiles, cache'[f] # Nothing,
               NEW p \in Needs[cache'[f]] \intersect Stable \intersect Wheeled
        PROVE  OnItsWay(row', job', f, cache'[f], p)
    <3>1. CASE f = file
      <4>1. Filing(job'[j], f, cache'[f])
        BY <2>3, <2>4, <2>5, <3>1 DEF Filing
      <4> QED
        BY <4>1 DEF OnItsWay
    <3>2. CASE f # file
      <4>1. cache'[f] = cache[f]
        BY <2>5, <3>2 DEF PipFiles
      <4>2. OnItsWay(row, job, f, cache[f], p)
        BY <2>6, <4>1 DEF NeedsAreDue
      <4>3. ~ Filing(job[j], f, cache[f]) /\ job'[j].pc # "none"
        BY <1>1, <2>3, <2>4 DEF Filing
      <4>4. OnItsWay(row', job', f, cache[f], p)
        BY <1>1, <2>4, <4>2, <4>3, DueStays DEF x
      <4> QED
        BY <4>1, <4>4
    <3> QED
      BY <3>1, <3>2
  <2>7. /\ \A f \in Files : row'[f].status # "absent" => cache'[f] # Nothing
        /\ \A i \in Jobs : job'[i].pc = "enqueue" => cache'[job'[i].file] # Nothing
        /\ \A i \in Jobs : job'[i].pc \in {"verify", "enqueue"} => job'[i].bytes = job'[i].url
    <3>1. \A g \in Files : cache[g] # Nothing => cache'[g] # Nothing
      BY <2>5
    <3>2. \A i \in Jobs : job[i].pc = "enqueue" => job[i].file \in Files
      BY BytesAreBytes DEF PackageInv, JobOK
    <3> QED
      BY <1>1, <2>3, <2>4, <2>5, <3>1, <3>2 DEF NeedsAreDue
  <2> QED
    BY <2>6, <2>7 DEF NeedsAreDue
<1> QED
  BY <1>2, <1>3

LEMMA PrefetchEnqueueIsDue ==
    ASSUME PackageInv, NeedsAreDue, NEW j \in Jobs, PrefetchEnqueue(j)
    PROVE  NeedsAreDue'
<1> DEFINE file == job[j].file
           bytes == job[j].bytes
           rest == [job EXCEPT ![j] = NoJob]
<1>1. /\ job[j].pc = "enqueue" /\ cache' = cache
      /\ job \in [Jobs -> JobState] /\ row \in [Files -> Row]
      /\ file \in PipFiles /\ file \in Files /\ PackageOf[file] = j[2] /\ bytes \in BytesOf(file)
      /\ cache[file] # Nothing
  BY BytesAreBytes DEF PrefetchEnqueue, PackageInv, PackageTypeOK, JobOK, NeedsAreDue
<1>2. /\ row'[file].status # "absent"
      /\ \A g \in Files \ {file} : row'[g] = row[g]
  BY <1>1, EnqueueKeeps DEF PrefetchEnqueue
<1>3. /\ rest \in [Jobs -> JobState] /\ rest[j].pc = "none"
      /\ \A i \in Jobs : i # j => rest[i] = job[i]
  BY <1>1, LaunchedState
<1>4. job' = Launched(rest, file, bytes)
  BY DEF PrefetchEnqueue
<1> HIDE DEF rest
<1>5. /\ \A i \in Jobs : job'[i] = rest[i] \/ (rest[i].pc = "none" /\ job'[i].pc = "page")
      /\ \A p \in Needs[bytes] : Running(job', <<file, p>>)
  BY <1>1, <1>3, <1>4, LaunchedKeeps DEF Running
<1>6. ASSUME NEW f \in PipFiles, cache'[f] # Nothing,
             NEW p \in Needs[cache'[f]] \intersect Stable \intersect Wheeled
      PROVE  OnItsWay(row', job', f, cache'[f], p)
  <2> DEFINE b == cache[f]
  <2>1. OnItsWay(row, job, f, b, p)
    BY <1>1, <1>6 DEF NeedsAreDue
  <2>2. p \in Needs[b]
    BY <1>1, <1>6
  <2> HIDE DEF b
  <2>3. CASE Filing(job[j], f, b)
    <3>1. Running(job', <<f, p>>)
      BY <1>5, <2>2, <2>3 DEF Filing
    <3> QED
      BY <1>1, <3>1 DEF OnItsWay, b
  <2>4. CASE ~ Filing(job[j], f, b)
    <3>1. j = <<f, p>> => Filed(row', p)
      BY <1>1, <1>2 DEF Filed
    <3>2. \A i \in Jobs : i # j => job'[i] = job[i] \/ job[i].pc = "none"
      BY <1>3, <1>5
    <3>3. \A g \in Files : row[g].status # "absent" => row'[g].status # "absent"
      BY <1>2
    <3> QED
      BY <1>1, <2>1, <2>4, <3>1, <3>2, <3>3, DueStays DEF b
  <2> QED
    BY <2>3, <2>4
<1>7. /\ \A f \in Files : row'[f].status # "absent" => cache'[f] # Nothing
      /\ \A i \in Jobs : job'[i].pc = "enqueue" => cache'[job'[i].file] # Nothing
      /\ \A i \in Jobs : job'[i].pc \in {"verify", "enqueue"} => job'[i].bytes = job'[i].url
  <2>1. \A i \in Jobs : job'[i] = job[i] \/ job'[i].pc \in {"none", "page"}
    BY <1>3, <1>5
  <2> QED
    BY <1>1, <1>2, <2>1 DEF NeedsAreDue
<1> QED
  BY <1>6, <1>7 DEF NeedsAreDue

LEMMA ServeIsDue ==
    ASSUME PackageInv, NeedsAreDue, NEW c \in Clients, Serve(c), NoFault
    PROVE  NeedsAreDue'
<1> DEFINE file == client[c].want
           bytes == client[c].bytes
<1>1. /\ job \in [Jobs -> JobState] /\ row \in [Files -> Row]
      /\ cache \in [Files -> Bytes \union {Nothing}]
      /\ file \in Files /\ bytes \in Bytes /\ bytes # Nothing
      /\ file \in PipFiles => bytes \in BytesOf(file)
      /\ row[file].status = "approved" => cache[file] # Nothing
      /\ ~ Fault
  BY NothingIsNoFile DEF Serve, PackageInv, PackageTypeOK, PullOK, NeedsAreDue, Fault, NoFault
<1>2. CASE UNCHANGED <<disk, job>>
  <2>1. UNCHANGED <<row, cache, job>>
    BY <1>2 DEF disk
  <2> QED
    BY <2>1, QuietIsDue
<1>3. CASE /\ cache' = [cache EXCEPT ![file] = bytes] /\ Enqueue(file, Marked(file, bytes))
           /\ job' = Launched(job, file, bytes)
  <2>1. /\ row'[file].status # "absent"
        /\ \A g \in Files \ {file} : row'[g] = row[g]
    <3>1. Marked(file, bytes) \in BOOLEAN
      BY DEF Marked
    <3> QED
      BY <1>1, <1>3, <3>1, EnqueueKeeps
  <2>2. /\ \A i \in Jobs : job'[i] = job[i] \/ (job[i].pc = "none" /\ job'[i].pc = "page")
        /\ file \in PipFiles => \A p \in Needs[bytes] : Running(job', <<file, p>>)
    BY <1>1, <1>3, LaunchedKeeps DEF Running
  <2>3. cache'[file] = bytes /\ \A g \in Files : g # file => cache'[g] = cache[g]
    BY <1>1, <1>3
  <2>4. ASSUME NEW f \in PipFiles, cache'[f] # Nothing,
               NEW p \in Needs[cache'[f]] \intersect Stable \intersect Wheeled
        PROVE  OnItsWay(row', job', f, cache'[f], p)
    <3>1. CASE f = file
      BY <2>2, <2>3, <2>4, <3>1 DEF OnItsWay
    <3>2. CASE f # file
      <4>1. cache'[f] = cache[f]
        BY <2>3, <3>2 DEF PipFiles
      <4>2. OnItsWay(row, job, f, cache[f], p)
        BY <2>4, <4>1 DEF NeedsAreDue
      <4>3. \A g \in Files : row[g].status # "absent" => row'[g].status # "absent"
        BY <2>1
      <4>4. OnItsWay(row', job', f, cache[f], p)
        BY <2>2, <4>2, <4>3, DueStays
      <4> QED
        BY <4>1, <4>4
    <3> QED
      BY <3>1, <3>2
  <2>5. /\ \A f \in Files : row'[f].status # "absent" => cache'[f] # Nothing
        /\ \A i \in Jobs : job'[i].pc = "enqueue" => cache'[job'[i].file] # Nothing
        /\ \A i \in Jobs : job'[i].pc \in {"verify", "enqueue"} => job'[i].bytes = job'[i].url
    <3>1. \A g \in Files : cache[g] # Nothing => cache'[g] # Nothing
      BY <1>1, <2>3
    <3>2. \A i \in Jobs : job[i].pc = "enqueue" => job[i].file \in Files
      BY BytesAreBytes DEF PackageInv, JobOK
    <3> QED
      BY <1>1, <2>1, <2>2, <2>3, <3>1, <3>2 DEF NeedsAreDue
  <2> QED
    BY <2>4, <2>5 DEF NeedsAreDue
<1> QED
  BY <1>1, <1>2, <1>3 DEF Serve

LEMMA NeedNextInv == NeedInv /\ [PackageNext]_packageVars => NeedInv'
<1> SUFFICES ASSUME PackageInv, Sound => NeedsAreDue, [PackageNext]_packageVars, Sound'
             PROVE  NeedsAreDue'
  BY PackageNextInv DEF NeedInv
<1>1. faults \in Nat /\ restarts \in Nat /\ faults = 0 /\ faults' = 0 /\ restarts' = 0
  BY FaultsStay DEF PackageInv, PackageTypeOK, Sound
<1>2. NoFault /\ ~ Fault /\ ~ Restart
  BY <1>1 DEF NoFault, Fault, Restart
<1>3. UNCHANGED restarts
  <2>1. ASSUME NEW c \in Clients, Handle(c) PROVE UNCHANGED restarts
    BY <2>1 DEF Handle, FindURL, Fetch, FetchFails, Serve, counts
  <2>2. ASSUME NEW j \in Jobs, Prefetch(j) PROVE UNCHANGED restarts
    BY <2>2 DEF Prefetch, PrefetchPage, PrefetchFetch, PrefetchVerify, PrefetchEnqueue,
       PrefetchFails, counts
  <2>3. ASSUME NEW d, NEW l, Load(d, l) \/ PullListing(d, l) \/ RefreshIndex(d, l)
        PROVE  UNCHANGED restarts
    BY <2>3 DEF Load, PullListing, RefreshIndex, counts
  <2>4. ASSUME NEW c \in Clients, NEW f \in Files, Pull(c, f) PROVE UNCHANGED restarts
    BY <2>4 DEF Pull
  <2>5. ASSUME NEW p \in Packages, PullPage(p) PROVE UNCHANGED restarts
    BY <2>5 DEF PullPage
  <2>6. ASSUME NEW k \in PublicKeys, AddGPGKey(k) PROVE UNCHANGED restarts
    BY <2>6 DEF AddGPGKey
  <2>7. ASSUME NEW f \in Files, NEW status \in {"pending", "approved", "rejected"},
               Decide(f, status)
        PROVE  UNCHANGED restarts
    BY <2>7 DEF Decide
  <2>8. UNCHANGED packageVars => UNCHANGED restarts
    BY DEF packageVars, counts
  <2> QED
    BY <1>2, <2>1, <2>2, <2>3, <2>4, <2>5, <2>6, <2>7, <2>8 DEF PackageNext, Goroutine
<1>4. NeedsAreDue
  BY <1>1, <1>3 DEF Sound
<1>5. ASSUME UNCHANGED <<row, cache, job>> PROVE NeedsAreDue'
  BY <1>4, <1>5, QuietIsDue
<1>6. ASSUME NEW c \in Clients, Handle(c) PROVE NeedsAreDue'
  <2>1. CASE FindURL(c) \/ Fetch(c) \/ FetchFails(c)
    <3>1. UNCHANGED <<row, cache, job>>
      BY <2>1 DEF FindURL, Fetch, FetchFails, disk
    <3> QED
      BY <1>5, <3>1
  <2>2. CASE Serve(c)
    BY <1>2, <1>4, <2>2, ServeIsDue
  <2> QED
    BY <1>6, <2>1, <2>2 DEF Handle
<1>7. ASSUME NEW j \in Jobs, Prefetch(j) PROVE NeedsAreDue'
  <2>1. ~ PrefetchFails(j)
    BY <1>2 DEF PrefetchFails
  <2> QED
    BY <1>2, <1>4, <1>7, <2>1, PrefetchPageIsDue, PrefetchFetchIsDue, PrefetchVerifyIsDue,
       PrefetchEnqueueIsDue DEF Prefetch
<1>8. ASSUME NEW d, NEW l, Load(d, l) \/ PullListing(d, l) \/ RefreshIndex(d, l)
      PROVE  NeedsAreDue'
  <2>1. UNCHANGED <<row, cache, job>>
    BY <1>8 DEF Load, PullListing, RefreshIndex, disk
  <2> QED
    BY <1>5, <2>1
<1>9. ASSUME NEW c \in Clients, NEW f \in Files, Pull(c, f) PROVE NeedsAreDue'
  <2>1. UNCHANGED <<row, cache, job>>
    BY <1>9 DEF Pull, disk
  <2> QED
    BY <1>5, <2>1
<1>10. ASSUME NEW p \in Packages, PullPage(p) PROVE NeedsAreDue'
  <2>1. UNCHANGED <<row, cache, job>>
    BY <1>10 DEF PullPage, disk
  <2> QED
    BY <1>5, <2>1
<1>11. ASSUME NEW k \in PublicKeys, AddGPGKey(k) PROVE NeedsAreDue'
  <2>1. UNCHANGED <<row, cache, job>>
    BY <1>11 DEF AddGPGKey, disk
  <2> QED
    BY <1>5, <2>1
<1>12. ASSUME NEW f \in Files, NEW status \in {"pending", "approved", "rejected"},
              Decide(f, status)
       PROVE  NeedsAreDue'
  <2>1. \A g \in Files : row'[g].status = "absent" <=> row[g].status = "absent"
    BY <1>12, DecideKeeps DEF PackageInv, PackageTypeOK
  <2>2. UNCHANGED <<cache, job>>
    BY <1>12 DEF Decide
  <2> QED
    BY <1>4, <2>1, <2>2, QuietIsDue
<1>13. UNCHANGED packageVars => UNCHANGED <<row, cache, job>>
  BY DEF packageVars, disk
<1> QED
  BY <1>2, <1>5, <1>6, <1>7, <1>8, <1>9, <1>10, <1>11, <1>12, <1>13 DEF PackageNext, Goroutine

LEMMA NeedIsInv == PackageSpec => []NeedInv
<1>1. PackageInit => NeedInv
  <2> SUFFICES ASSUME PackageInit PROVE NeedInv
    OBVIOUS
  <2>1. /\ \A f \in Files : row[f].status = "absent" /\ cache[f] = Nothing
        /\ \A j \in Jobs : job[j].pc = "none"
    BY NoPullState DEF PackageInit, NoRow
  <2>2. \A f \in PipFiles : cache[f] = Nothing
    BY <2>1 DEF PipFiles
  <2>3. NeedsAreDue
    BY <2>1, <2>2 DEF NeedsAreDue
  <2> QED
    BY <2>3, PackageInitInv DEF NeedInv
<1> QED
  BY <1>1, NeedNextInv, PTL DEF PackageSpec

(* When no prefetch is running, a wheel that waits for a decision has what *)
(* it needs in quarantine beside it, however requests and prefetches of    *)
(* the same wheels interleave and packages need each other                 *)
(* (pypi/driver.go:222-287).                                               *)
THEOREM NeedsAreFiled == PackageSpec => []DependenciesFiled
<1>1. NeedInv => DependenciesFiled
  <2> SUFFICES ASSUME NeedInv, \A j \in Jobs : job[j].pc = "none", faults = 0, restarts = 0,
                      NEW f \in PipFiles, row[f].status = "pending",
                      NEW p \in Needs[cache[f]] \intersect Stable \intersect Wheeled
               PROVE  Filed(row, p)
    BY DEF DependenciesFiled, Filed
  <2>1. NeedsAreDue /\ f \in Files
    BY DEF NeedInv, Sound, PipFiles
  <2>2. cache[f] # Nothing
    BY <2>1 DEF NeedsAreDue
  <2>3. OnItsWay(row, job, f, cache[f], p)
    BY <2>1, <2>2 DEF NeedsAreDue
  <2> QED
    BY <2>3 DEF OnItsWay, Running, Filing
<1> QED
  BY <1>1, NeedIsInv, PTL

=============================================================================
