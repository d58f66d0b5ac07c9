--------------------------- MODULE ScannersProofs ---------------------------
(* What a scan has found is what the sources answered, in whatever order   *)
(* they did, and what it has saved in full keeps its rows through every    *)
(* other scan of the request, whatever those were told.                    *)
EXTENDS Scanners, FiniteSetTheorems, WellFoundedInduction, TLAPS

Stages == {"none", "start", "gather", "enrich", "save"}
Turns == {"none", "ask", "sleep", "query", "told"}

HookState(x) ==
    /\ x = [pc |-> x.pc, vulns |-> x.vulns, said |-> x.said, todo |-> x.todo]
    /\ x.pc \in Stages
    /\ x.said = [s \in Sources |-> x.said[s]]

ScanTypeOK ==
    /\ asked \in [Requests -> Packages \union {NoPackage}]
    /\ hook = [h \in Hooks |-> hook[h]]
    /\ ask \in [Hooks -> [Sources -> Turns]]
    /\ resumed \in BOOLEAN

(* What source s may say of package p, in one scan or another.             *)
CouldSay(s, p) ==
    {<< >>} \union (IF Skips(s, p) THEN {} ELSE {Answered(s, a) : a \in Report[s][p]})

Known(said) == UNION {Merged({}, said[s]) : s \in Sources}

FoundBy(x) == x.vulns \in {Known(x.said)} \union {Enriched(Known(x.said), e) : e \in Epss}

(* A hook x with the turns of its sources, for package p: it runs for a    *)
(* request that was made, its sources are asked while it gathers, and what *)
(* it has found so far is what they said.                                  *)
HookGood(x, turns, p) ==
    /\ HookState(x)
    /\ x.pc # "none" => p # NoPackage
    /\ x.pc \in {"none", "start"} => x = [NoHook EXCEPT !.pc = x.pc]
    /\ x.pc # "gather" => \A s \in Sources : turns[s] = "none"
    /\ x.pc \in {"gather", "enrich", "save"} => \A s \in Sources : x.said[s] \in CouldSay(s, p)
    /\ x.pc = "gather" =>
         \A s \in Sources : /\ turns[s] # "told" => x.said[s] = << >>
                            /\ turns[s] \in {"sleep", "query"} => ~ Skips(s, p)
    /\ x.pc \in {"gather", "enrich"} => x.vulns = Known(x.said)
    /\ x.pc = "save" => FoundBy(x)

HooksAreGood ==
    \A h \in Hooks :
        /\ HookGood(hook[h], ask[h], PackageOf(h))
        /\ h[2] = "resume" /\ ~ resumed => hook[h] = NoHook

ScanInv == ScanTypeOK /\ HooksAreGood

-----------------------------------------------------------------------------
(* Conversion.                                                             *)

LEMMA AnsweredIsConverted ==
    ASSUME NEW s \in Sources, NEW p \in Packages, NEW advisories \in Report[s][p]
    PROVE  /\ \E n \in Nat : DOMAIN Answered(s, advisories) = 1 .. n
           /\ \A n \in DOMAIN Answered(s, advisories) :
                /\ n \in DOMAIN advisories
                /\ Answered(s, advisories)[n] = Converted(s, advisories[n])
<1> DEFINE list == [n \in DOMAIN advisories |-> Converted(s, advisories[n])]
           S == {list[n] : n \in DOMAIN advisories}
<1>1. advisories \in Seq({advisories[n] : n \in DOMAIN advisories})
  BY ScannersAssumption
<1>2. list \in Seq(S) /\ Len(list) \in Nat /\ DOMAIN list = 1 .. Len(list)
  <2>1. DOMAIN advisories = 1 .. Len(advisories) /\ Len(advisories) \in Nat
    BY <1>1
  <2> QED
    BY <2>1
<1>3. \A n \in DOMAIN list : n \in DOMAIN advisories /\ list[n] = Converted(s, advisories[n])
  OBVIOUS
<1>4. CASE s = "NVD" /\ Len(list) > PageSize
  <2>1. Answered(s, advisories) = SubSeq(list, 1, PageSize)
    BY <1>4, Zenon DEF Answered
  <2> HIDE DEF list, S
  <2>2. PageSize \in Nat
    BY ScannersAssumption
  <2>3. /\ DOMAIN SubSeq(list, 1, PageSize) = 1 .. PageSize
        /\ \A n \in 1 .. PageSize : SubSeq(list, 1, PageSize)[n] = list[n]
    BY <1>2, <1>4, <2>2
  <2>4. 1 .. PageSize \subseteq DOMAIN list
    BY <1>2, <1>4, <2>2
  <2> QED
    BY <1>3, <2>1, <2>2, <2>3, <2>4
<1>5. CASE ~ (s = "NVD" /\ Len(list) > PageSize)
  <2>1. Answered(s, advisories) = list
    BY <1>5, Zenon DEF Answered
  <2> HIDE DEF list, S
  <2> QED
    BY <1>2, <1>3, <2>1
<1> QED
  BY <1>4, <1>5

LEMMA ConvertedIsFound ==
    ASSUME NEW s \in Sources, NEW a
    PROVE  /\ \E id, cvss : Converted(s, a) = Found(id, s, cvss)
           /\ Converted(s, a).source = s
           /\ a.vector \in Nat /\ a.score \in Nat => Converted(s, a).cvss \in Nat
<1>1. s \in {"OSV", "NVD", "Sonatype"}
  BY ScannersAssumption
<1> QED
  BY <1>1 DEF Converted, FromOSV, FromNVD, FromSonatype, Found

(* What a source says is told apart from what the others say.              *)
LEMMA SaidIsOwn ==
    ASSUME NEW s \in Sources, NEW p \in Packages, NEW list \in CouldSay(s, p)
    PROVE  /\ \A n \in DOMAIN list : list[n].source = s
           /\ \A v \in Merged({}, list) : v.source = s
<1>1. \A n \in DOMAIN list : list[n].source = s
  <2>1. CASE list = << >>
    BY <2>1
  <2>2. CASE \E a \in Report[s][p] : list = Answered(s, a)
    BY <2>2, AnsweredIsConverted, ConvertedIsFound
  <2> QED
    BY <2>1, <2>2 DEF CouldSay
<1> QED
  BY <1>1 DEF Merged

(* An answer is added whole to what the other sources said.                *)
LEMMA MergedAddsAnswer ==
    ASSUME NEW s, NEW list, \A n \in DOMAIN list : list[n].source = s,
           NEW vulns, \A v \in vulns : v.source # s
    PROVE  Merged(vulns, list) = vulns \union Merged({}, list)
<1>1. \A m \in DOMAIN list, v \in vulns : <<v.source, v.id>> # <<list[m].source, list[m].id>>
  OBVIOUS
<1> QED
  BY <1>1 DEF Merged

LEMMA MergedNothing == Merged({}, << >>) = {}
  BY DEF Merged

LEMMA KnownAddsAnswer ==
    ASSUME NEW p \in Packages, NEW said, \A x \in Sources : said[x] \in CouldSay(x, p),
           said = [x \in Sources |-> said[x]],
           NEW s \in Sources, said[s] = << >>, NEW list \in CouldSay(s, p)
    PROVE  Merged(Known(said), list) = Known([said EXCEPT ![s] = list])
<1>1. \A v \in Known(said) : v.source # s
  <2>1. ASSUME NEW x \in Sources, NEW v \in Merged({}, said[x]) PROVE v.source # s
    <3>1. v.source = x
      BY SaidIsOwn
    <3>2. x # s
      BY <2>1, MergedNothing
    <3> QED
      BY <3>1, <3>2
  <2> QED
    BY <2>1 DEF Known
<1>2. Merged(Known(said), list) = Known(said) \union Merged({}, list)
  <2>1. \A n \in DOMAIN list : list[n].source = s
    BY SaidIsOwn
  <2> QED
    BY <1>1, <2>1, MergedAddsAnswer
<1> DEFINE said2 == [said EXCEPT ![s] = list]
<1>3. said2[s] = list /\ \A x \in Sources \ {s} : said2[x] = said[x]
  OBVIOUS
<1> HIDE DEF said2
<1>4. Known(said2) = Known(said) \union Merged({}, list)
  BY <1>3, MergedNothing DEF Known
<1> QED
  BY <1>2, <1>4 DEF said2

-----------------------------------------------------------------------------
(* The hooks.                                                              *)

LEMMA FoundIsFoundBy == ScanInv => FoundIsKnown
<1> SUFFICES ASSUME ScanInv, NEW h \in Hooks, hook[h].pc \in {"enrich", "save"}
             PROVE  FoundBy(hook[h])
  BY DEF FoundIsKnown, FoundBy, Known
<1> QED
  BY DEF ScanInv, HooksAreGood, HookGood, FoundBy

(* The goroutine of a hook, or one of its sources, takes a step.           *)
LEMMA OneHookMoves ==
    ASSUME ScanInv, NEW h \in Hooks, ~ At(h, "none"),
           NEW new, hook' = [hook EXCEPT ![h] = new],
           NEW turns \in [Sources -> Turns], ask' = [ask EXCEPT ![h] = turns],
           UNCHANGED <<asked, resumed>>, HookGood(new, turns, PackageOf(h))
    PROVE  ScanInv'
<1>1. /\ hook'[h] = new /\ ask'[h] = turns
      /\ \A g \in Hooks \ {h} : hook'[g] = hook[g] /\ ask'[g] = ask[g]
      /\ \A g \in Hooks : PackageOf(g)' = PackageOf(g)
  BY DEF ScanInv, ScanTypeOK, PackageOf
<1>2. ScanTypeOK'
  BY DEF ScanInv, ScanTypeOK
<1>3. ~ (h[2] = "resume" /\ ~ resumed)
  BY DEF ScanInv, HooksAreGood, At, NoHook
<1>4. HooksAreGood'
  <2>1. ASSUME NEW g \in Hooks
        PROVE  /\ HookGood(hook'[g], ask'[g], PackageOf(g)')
               /\ g[2] = "resume" /\ ~ resumed' => hook'[g] = NoHook
    <3>1. HookGood(hook[g], ask[g], PackageOf(g)) /\ (g[2] = "resume" /\ ~ resumed => hook[g] = NoHook)
      BY DEF ScanInv, HooksAreGood
    <3>2. CASE g = h
      BY <1>1, <1>3, <3>2
    <3>3. CASE g # h
      BY <1>1, <3>1, <3>3
    <3> QED
      BY <3>2, <3>3
  <2> QED
    BY <2>1 DEF HooksAreGood
<1> QED
  BY <1>2, <1>4 DEF ScanInv

LEMMA ExceptOne ==
    ASSUME NEW x, HookState(x), NEW a
    PROVE  /\ [x EXCEPT !.pc = a] =
                [pc |-> a, vulns |-> x.vulns, said |-> x.said, todo |-> x.todo]
           /\ [x EXCEPT !.vulns = a] =
                [pc |-> x.pc, vulns |-> a, said |-> x.said, todo |-> x.todo]
           /\ [x EXCEPT !.todo = a] =
                [pc |-> x.pc, vulns |-> x.vulns, said |-> x.said, todo |-> a]
<1>1. PICK p, v, w, t : x = [pc |-> p, vulns |-> v, said |-> w, todo |-> t]
  BY DEF HookState
<1>2. x.pc = p /\ x.vulns = v /\ x.said = w /\ x.todo = t
  BY <1>1
<1>3. /\ [x EXCEPT !.pc = a] = [pc |-> a, vulns |-> v, said |-> w, todo |-> t]
      /\ [x EXCEPT !.vulns = a] = [pc |-> p, vulns |-> a, said |-> w, todo |-> t]
      /\ [x EXCEPT !.todo = a] = [pc |-> p, vulns |-> v, said |-> w, todo |-> a]
  BY <1>1
<1> QED
  BY <1>2, <1>3

LEMMA ExceptFound ==
    ASSUME NEW x, HookState(x), NEW a, NEW b
    PROVE  [x EXCEPT !.pc = a, !.vulns = b, !.todo = b] =
             [pc |-> a, vulns |-> b, said |-> x.said, todo |-> b]
<1>1. PICK p, v, w, t : x = [pc |-> p, vulns |-> v, said |-> w, todo |-> t]
  BY DEF HookState
<1>2. x.said = w
  BY <1>1
<1> DEFINE y == [x EXCEPT !.pc = a]
           z == [y EXCEPT !.vulns = b]
<1>3. y = [pc |-> a, vulns |-> v, said |-> w, todo |-> t]
  BY <1>1
<1>4. [x EXCEPT !.pc = a, !.vulns = b, !.todo = b] = [z EXCEPT !.todo = b]
  OBVIOUS
<1> HIDE DEF y
<1>5. z = [pc |-> a, vulns |-> b, said |-> w, todo |-> t]
  BY <1>3
<1> HIDE DEF z
<1>6. [z EXCEPT !.todo = b] = [pc |-> a, vulns |-> b, said |-> w, todo |-> b]
  BY <1>5
<1> QED
  BY <1>2, <1>4, <1>6

LEMMA AskedForAPackage ==
    ASSUME ScanInv, NEW h \in Hooks, ~ At(h, "none")
    PROVE  PackageOf(h) \in Packages
<1>1. h[1] \in Requests
  BY DEF Hooks
<1> QED
  BY <1>1 DEF ScanInv, ScanTypeOK, HooksAreGood, HookGood, PackageOf, At

(* A source that has not answered yet, while the hook gathers.             *)
LEMMA AskedWhileGathering ==
    ASSUME ScanInv, NEW h \in Hooks, NEW s \in Sources,
           ask[h][s] \in {"ask", "sleep", "query"}
    PROVE  hook[h].pc = "gather" /\ ~ At(h, "none") /\ hook[h].said[s] = << >>
<1>1. HookGood(hook[h], ask[h], PackageOf(h))
  BY DEF ScanInv, HooksAreGood
<1>2. hook[h].pc = "gather"
  BY <1>1 DEF HookGood
<1> QED
  BY <1>1, <1>2 DEF HookGood, At

(* The answer of one more source, or the end of its turn.                  *)
LEMMA TellKeeps ==
    ASSUME ScanInv, NEW h \in Hooks, NEW s \in Sources,
           ask[h][s] \in {"ask", "sleep", "query"},
           NEW list \in CouldSay(s, PackageOf(h)), Tell(h, s, list),
           UNCHANGED <<asked, resumed>>
    PROVE  ScanInv'
<1>1. hook[h].pc = "gather" /\ ~ At(h, "none") /\ hook[h].said[s] = << >>
  BY AskedWhileGathering
<1>2. PackageOf(h) \in Packages
  BY <1>1, AskedForAPackage
<1> DEFINE x == hook[h]
           p == PackageOf(h)
           said == [x.said EXCEPT ![s] = list]
           new == [pc |-> "gather", vulns |-> Merged(x.vulns, list), said |-> said,
                   todo |-> x.todo]
           turns == [ask[h] EXCEPT ![s] = "told"]
<1>3. HookGood(x, ask[h], p)
  BY DEF ScanInv, HooksAreGood
<1>4. /\ HookState(x) /\ p # NoPackage /\ x.vulns = Known(x.said)
      /\ \A y \in Sources : /\ x.said[y] \in CouldSay(y, p)
                            /\ ask[h][y] # "told" => x.said[y] = << >>
                            /\ ask[h][y] \in {"sleep", "query"} => ~ Skips(y, p)
  BY <1>1, <1>3 DEF HookGood
<1>5. hook = [g \in Hooks |-> hook[g]] /\ ask \in [Hooks -> [Sources -> Turns]]
  BY DEF ScanInv, ScanTypeOK
<1>6. hook' = [hook EXCEPT ![h] = new]
  <2> DEFINE found == Merged(x.vulns, list)
             first == [hook EXCEPT ![h].vulns = found]
             y == [pc |-> x.pc, vulns |-> found, said |-> x.said, todo |-> x.todo]
  <2>1. hook' = [first EXCEPT ![h].said[s] = list]
    BY <1>5 DEF Tell
  <2>2. first = [hook EXCEPT ![h] = y]
    <3>1. first = [hook EXCEPT ![h] = [x EXCEPT !.vulns = found]]
      BY <1>5
    <3> HIDE DEF x, found
    <3>2. [x EXCEPT !.vulns = found] = y
      BY <1>4, ExceptOne
    <3> QED
      BY <3>1, <3>2 DEF x
  <2> HIDE DEF first
  <2>3. first[h] = y /\ hook' = [first EXCEPT ![h] = [y EXCEPT !.said[s] = list]]
    BY <1>5, <2>1, <2>2
  <2>4. [y EXCEPT !.said[s] = list] = new
    BY <1>1
  <2> HIDE DEF new, y
  <2> QED
    BY <1>5, <2>2, <2>3, <2>4
<1>7. turns \in [Sources -> Turns] /\ ask' = [ask EXCEPT ![h] = turns]
  BY <1>5 DEF Tell, Turns
<1>8. x.said = [y \in Sources |-> x.said[y]]
  BY <1>4 DEF HookState
<1>9. Merged(x.vulns, list) = Known(said)
  BY <1>1, <1>2, <1>4, <1>8, KnownAddsAnswer
<1>10. /\ said = [y \in Sources |-> said[y]]
       /\ \A y \in Sources : said[y] = IF y = s THEN list ELSE x.said[y]
       /\ \A y \in Sources : turns[y] = IF y = s THEN "told" ELSE ask[h][y]
  BY <1>5, <1>8
<1> HIDE DEF said, turns
<1>11. new.pc = "gather" /\ new.vulns = Known(said) /\ new.said = said /\ HookState(new)
  BY <1>9, <1>10 DEF HookState, Stages
<1> HIDE DEF new, x
<1>12. HookGood(new, turns, p)
  BY <1>4, <1>10, <1>11 DEF HookGood
<1> QED
  BY <1>1, <1>6, <1>7, <1>12, OneHookMoves

LEMMA SourceStepKeeps ==
    ASSUME ScanInv, NEW h \in Hooks, NEW s \in Sources, SourceStep(h, s)
    PROVE  ScanInv'
<1>1. HookGood(hook[h], ask[h], PackageOf(h))
  BY DEF ScanInv, HooksAreGood
<1>2. ASSUME ask[h][s] \in {"sleep", "query"} PROVE ~ Skips(s, PackageOf(h))
  <2>1. hook[h].pc = "gather"
    BY <1>2, AskedWhileGathering
  <2> QED
    BY <1>1, <1>2, <2>1 DEF HookGood
<1>3. CASE SkipPackage(h, s) \/ Fail(h, s)
  <2>1. Tell(h, s, << >>) /\ UNCHANGED <<asked, resumed>> /\ ask[h][s] \in {"ask", "query"}
    BY <1>3 DEF SkipPackage, Fail, Querying
  <2>2. << >> \in CouldSay(s, PackageOf(h))
    BY DEF CouldSay
  <2> QED
    BY <2>1, <2>2, TellKeeps
<1>4. CASE Answer(h, s)
  <2>1. PICK a \in Report[s][PackageOf(h)] : Tell(h, s, Answered(s, a))
    BY <1>4 DEF Answer
  <2>2. ask[h][s] \in {"ask", "query"} /\ ~ Skips(s, PackageOf(h)) /\ UNCHANGED <<asked, resumed>>
    BY <1>2, <1>4 DEF Answer, Querying
  <2>3. Answered(s, a) \in CouldSay(s, PackageOf(h))
    BY <2>2 DEF CouldSay
  <2> QED
    BY <2>1, <2>2, <2>3, TellKeeps
<1>5. CASE Lock(h, s) \/ Unlock(h, s)
  <2>1. PICK turn \in {"sleep", "query"} : ask' = [ask EXCEPT ![h][s] = turn]
    BY <1>5 DEF Lock, Unlock
  <2>2. /\ ask[h][s] \in {"ask", "sleep"}
        /\ ask[h][s] = "ask" => ~ Skips(s, PackageOf(h))
        /\ UNCHANGED <<asked, hook, resumed>>
    BY <1>5 DEF Lock, Unlock
  <2>3. hook[h].pc = "gather" /\ ~ At(h, "none") /\ hook[h].said[s] = << >>
    BY <2>2, AskedWhileGathering
  <2> DEFINE turns == [ask[h] EXCEPT ![s] = turn]
  <2>4. /\ hook' = [hook EXCEPT ![h] = hook[h]]
        /\ turns \in [Sources -> Turns] /\ ask' = [ask EXCEPT ![h] = turns]
        /\ \A x \in Sources : turns[x] = IF x = s THEN turn ELSE ask[h][x]
    BY <2>1, <2>2 DEF ScanInv, ScanTypeOK, Turns
  <2>5. ~ Skips(s, PackageOf(h))
    BY <1>2, <2>2
  <2> HIDE DEF turns
  <2>6. HookGood(hook[h], turns, PackageOf(h))
    BY <1>1, <2>3, <2>4, <2>5 DEF HookGood
  <2> QED
    BY <2>2, <2>3, <2>4, <2>6, OneHookMoves
<1> QED
  BY <1>3, <1>4, <1>5 DEF SourceStep

LEMMA NoHookStays == NoHook = [NoHook EXCEPT !.pc = "none"]
<1> DEFINE none == [s \in Sources |-> << >>]
<1>1. NoHook = [pc |-> "none", vulns |-> {}, said |-> none, todo |-> {}]
  BY DEF NoHook
<1> HIDE DEF none
<1> QED
  BY <1>1

(* The goroutine of the hook itself.                                       *)
LEMMA HookStepKeeps ==
    ASSUME ScanInv, NEW h \in Hooks, HookStep(h)
    PROVE  ScanInv'
<1> DEFINE x == hook[h]
           p == PackageOf(h)
<1>1. /\ HookGood(x, ask[h], p) /\ HookState(x)
      /\ ask \in [Hooks -> [Sources -> Turns]] /\ hook = [g \in Hooks |-> hook[g]]
  BY DEF ScanInv, ScanTypeOK, HooksAreGood, HookGood
<1>2. CASE HookStart(h)
  <2> DEFINE none == [s \in Sources |-> << >>]
             new == [pc |-> "gather", vulns |-> {}, said |-> none, todo |-> {}]
             turns == [s \in Sources |-> "ask"]
  <2>1. x = [NoHook EXCEPT !.pc = "start"] /\ x.pc = "start" /\ p # NoPackage
    BY <1>1, <1>2 DEF HookStart, At, HookGood
  <2>2. x.vulns = {} /\ x.said = none /\ x.todo = {}
    BY <2>1 DEF NoHook
  <2>3. hook' = [hook EXCEPT ![h] = new]
    <3>1. hook' = [hook EXCEPT ![h] = [x EXCEPT !.pc = "gather"]]
      BY <1>2 DEF HookStart, Goto
    <3>2. [x EXCEPT !.pc = "gather"] =
            [pc |-> "gather", vulns |-> x.vulns, said |-> x.said, todo |-> x.todo]
      BY <1>1, ExceptOne
    <3> QED
      BY <2>2, <3>1, <3>2
  <2>4. /\ turns \in [Sources -> Turns] /\ ask' = [ask EXCEPT ![h] = turns]
        /\ UNCHANGED <<asked, resumed>> /\ ~ At(h, "none")
        /\ \A s \in Sources : turns[s] = "ask" /\ none[s] = << >>
    BY <1>2, <2>1 DEF HookStart, Turns, At
  <2>5. HookState(new) /\ new.pc = "gather" /\ new.vulns = {} /\ new.said = none
    BY DEF HookState, Stages
  <2> HIDE DEF new, turns, none
  <2>6. HookGood(new, turns, p)
    <3>1. Known(none) = {}
      BY <2>4, MergedNothing DEF Known
    <3>2. \A s \in Sources : new.said[s] = << >> /\ new.said[s] \in CouldSay(s, p)
      BY <2>4, <2>5 DEF CouldSay
    <3> QED
      BY <2>1, <2>4, <2>5, <3>1, <3>2 DEF HookGood
  <2> QED
    BY <2>3, <2>4, <2>6, OneHookMoves
<1>3. CASE Gathered(h)
  <2> DEFINE new == [x EXCEPT !.pc = "enrich"]
             turns == [s \in Sources |-> "none"]
  <2>1. x.pc = "gather" /\ ~ At(h, "none")
    BY <1>3 DEF Gathered, At
  <2>2. new = [pc |-> "enrich", vulns |-> x.vulns, said |-> x.said, todo |-> x.todo]
    BY <1>1, ExceptOne
  <2>3. hook' = [hook EXCEPT ![h] = new]
    BY <1>3 DEF Gathered, Goto
  <2>4. /\ turns \in [Sources -> Turns] /\ ask' = [ask EXCEPT ![h] = turns]
        /\ UNCHANGED <<asked, resumed>>
        /\ \A s \in Sources : turns[s] = "none"
    BY <1>3 DEF Gathered, Turns
  <2>5. HookState(new) /\ new.pc = "enrich" /\ new.vulns = x.vulns /\ new.said = x.said
    BY <1>1, <2>2 DEF HookState, Stages
  <2> HIDE DEF new, turns
  <2>6. HookGood(new, turns, p)
    BY <1>1, <2>1, <2>4, <2>5 DEF HookGood
  <2> QED
    BY <2>1, <2>3, <2>4, <2>6, OneHookMoves
<1>4. ASSUME x.pc \in {"enrich", "save"}, UNCHANGED <<asked, ask, resumed>>,
             NEW new, HookState(new), hook' = [hook EXCEPT ![h] = new],
             \/ new = NoHook
             \/ new.pc = "save" /\ new.said = x.said /\ FoundBy(new)
      PROVE  ScanInv'
  <2>1. ask[h] \in [Sources -> Turns] /\ ask' = [ask EXCEPT ![h] = ask[h]] /\ ~ At(h, "none")
    BY <1>1, <1>4 DEF At
  <2>2. /\ p # NoPackage /\ \A s \in Sources : ask[h][s] = "none" /\ x.said[s] \in CouldSay(s, p)
    BY <1>1, <1>4 DEF HookGood
  <2>3. NoHook.pc = "none" /\ NoHook = [NoHook EXCEPT !.pc = NoHook.pc]
    BY NoHookStays DEF NoHook
  <2>4. HookGood(new, ask[h], p)
    BY <1>4, <2>2, <2>3 DEF HookGood
  <2> QED
    BY <1>4, <2>1, <2>4, OneHookMoves
<1>5. CASE Enrich(h)
  <2>1. PICK found \in {x.vulns} \union {Enriched(x.vulns, e) : e \in Epss} :
          hook' = [hook EXCEPT ![h].pc = "save", ![h].vulns = found, ![h].todo = found]
    BY <1>5 DEF Enrich
  <2> DEFINE new == [pc |-> "save", vulns |-> found, said |-> x.said, todo |-> found]
  <2>2. hook' = [hook EXCEPT ![h] = [x EXCEPT !.pc = "save", !.vulns = found, !.todo = found]]
    BY <1>1, <2>1
  <2>3. hook' = [hook EXCEPT ![h] = new]
    <3>1. [x EXCEPT !.pc = "save", !.vulns = found, !.todo = found] = new
      BY <1>1, ExceptFound
    <3> QED
      BY <2>2, <3>1
  <2>4. x.pc = "enrich" /\ x.vulns = Known(x.said) /\ UNCHANGED <<asked, ask, resumed>>
    BY <1>1, <1>5 DEF Enrich, At, HookGood
  <2>5. HookState(new) /\ new.pc = "save" /\ new.said = x.said /\ new.vulns = found
    BY <1>1 DEF HookState, Stages
  <2> HIDE DEF new
  <2>6. FoundBy(new)
    BY <2>1, <2>4, <2>5 DEF FoundBy
  <2> QED
    BY <1>4, <2>3, <2>4, <2>5, <2>6
<1>6. CASE SaveRow(h) \/ SaveFails(h)
  <2>1. PICK todo : hook' = [hook EXCEPT ![h].todo = todo]
    BY <1>6 DEF SaveRow, SaveFails
  <2> DEFINE new == [pc |-> x.pc, vulns |-> x.vulns, said |-> x.said, todo |-> todo]
  <2>2. hook' = [hook EXCEPT ![h] = [x EXCEPT !.todo = todo]]
    BY <1>1, <2>1
  <2>3. hook' = [hook EXCEPT ![h] = new]
    BY <1>1, <2>2, ExceptOne
  <2>4. x.pc = "save" /\ FoundBy(x) /\ UNCHANGED <<asked, ask, resumed>>
    BY <1>1, <1>6 DEF SaveRow, SaveFails, At, HookGood
  <2>5. HookState(new) /\ new.pc = "save" /\ new.said = x.said /\ new.vulns = x.vulns
    BY <1>1, <2>4 DEF HookState
  <2> HIDE DEF new
  <2>6. FoundBy(new)
    BY <2>4, <2>5 DEF FoundBy
  <2> QED
    BY <1>4, <2>3, <2>4, <2>5, <2>6
<1>7. CASE Mark(h)
  <2>1. /\ x.pc = "save" /\ UNCHANGED <<asked, ask, resumed>>
        /\ hook' = [hook EXCEPT ![h] = NoHook]
    BY <1>7 DEF Mark, At
  <2>2. HookState(NoHook)
    BY DEF HookState, NoHook, Stages
  <2> QED
    BY <1>4, <2>1, <2>2
<1> QED
  BY <1>2, <1>3, <1>5, <1>6, <1>7 DEF HookStep

(* A hook that runs for no source yet.                                     *)
LEMMA StartIsGood ==
    ASSUME NEW turns, \A s \in Sources : turns[s] = "none", NEW p
    PROVE  /\ HookGood(NoHook, turns, p)
           /\ p # NoPackage => HookGood([NoHook EXCEPT !.pc = "start"], turns, p)
<1> DEFINE new == [NoHook EXCEPT !.pc = "start"]
           none == [s \in Sources |-> << >>]
<1>1. /\ HookState(NoHook) /\ NoHook.pc = "none" /\ NoHook = [NoHook EXCEPT !.pc = NoHook.pc]
      /\ HookState(new) /\ new.pc = "start" /\ new = [NoHook EXCEPT !.pc = new.pc]
  <2>1. none = [s \in Sources |-> none[s]]
    OBVIOUS
  <2>2. NoHook = [pc |-> "none", vulns |-> {}, said |-> none, todo |-> {}]
    BY DEF NoHook
  <2> HIDE DEF none
  <2>3. new = [pc |-> "start", vulns |-> {}, said |-> none, todo |-> {}]
    BY <2>2
  <2> QED
    BY <2>1, <2>2, <2>3 DEF HookState, Stages
<1> HIDE DEF new
<1> QED
  BY <1>1 DEF HookGood, new

LEMMA RequestKeeps ==
    ASSUME ScanInv, NEW r \in Requests, NEW p \in Packages, Enqueue(r, p)
    PROVE  ScanInv'
<1> DEFINE h == <<r, "enqueue">>
           new == [NoHook EXCEPT !.pc = "start"]
<1>1. h \in Hooks /\ h[1] = r /\ h[2] # "resume"
  BY DEF Hooks
<1>2. /\ asked[r] = NoPackage /\ asked' = [asked EXCEPT ![r] = p]
      /\ hook' = [hook EXCEPT ![h].pc = "start"] /\ UNCHANGED <<ask, resumed>>
  BY DEF Enqueue
<1>3. \A g \in Hooks : HookGood(hook[g], ask[g], PackageOf(g))
  BY DEF ScanInv, HooksAreGood
<1>4. \A g \in Hooks : g[1] = r =>
         /\ hook[g] = NoHook
         /\ \A s \in Sources : ask[g][s] = "none"
  <2> SUFFICES ASSUME NEW g \in Hooks, g[1] = r
               PROVE  hook[g] = NoHook /\ \A s \in Sources : ask[g][s] = "none"
    OBVIOUS
  <2>1. PackageOf(g) = NoPackage
    BY <1>2 DEF PackageOf
  <2>2. hook[g].pc = "none"
    BY <1>3, <2>1 DEF HookGood
  <2>3. NoHook = [NoHook EXCEPT !.pc = "none"]
    BY NoHookStays
  <2> QED
    BY <1>3, <2>2, <2>3 DEF HookGood
<1>5. hook' = [hook EXCEPT ![h] = new]
  BY <1>1, <1>2, <1>4 DEF ScanInv, ScanTypeOK
<1> HIDE DEF new, h
<1>6. ScanTypeOK'
  BY <1>2, <1>5 DEF ScanInv, ScanTypeOK
<1>7. HooksAreGood'
  <2>1. ASSUME NEW g \in Hooks
        PROVE  /\ HookGood(hook'[g], ask'[g], PackageOf(g)')
               /\ g[2] = "resume" /\ ~ resumed' => hook'[g] = NoHook
    <3>0. g[1] \in Requests /\ ask' = ask /\ resumed' = resumed
      BY <1>2 DEF Hooks
    <3>1. CASE g = h
      <4>1. hook'[g] = new /\ PackageOf(g)' = p /\ p # NoPackage
        BY <1>1, <1>2, <1>5, <3>1, ScannersAssumption DEF PackageOf, ScanInv, ScanTypeOK
      <4>2. \A s \in Sources : ask[g][s] = "none"
        BY <1>1, <1>4, <3>1
      <4>3. HookGood(new, ask[g], p)
        BY <4>1, <4>2, StartIsGood DEF new
      <4> QED
        BY <1>1, <3>0, <3>1, <4>1, <4>3
    <3>2. CASE g # h
      <4>1. hook'[g] = hook[g] /\ (g[2] = "resume" /\ ~ resumed => hook[g] = NoHook)
        BY <1>5, <3>2 DEF ScanInv, ScanTypeOK, HooksAreGood
      <4>2. CASE g[1] = r
        <5>1. HookGood(NoHook, ask[g], PackageOf(g)')
          BY <1>4, <4>2, StartIsGood
        <5> QED
          BY <1>4, <3>0, <4>1, <4>2, <5>1
      <4>3. CASE g[1] # r
        <5>1. PackageOf(g)' = PackageOf(g)
          BY <1>2, <3>0, <4>3 DEF PackageOf, ScanInv, ScanTypeOK
        <5> QED
          BY <1>3, <3>0, <4>1, <5>1
      <4> QED
        BY <4>2, <4>3
    <3> QED
      BY <3>1, <3>2
  <2> QED
    BY <2>1 DEF HooksAreGood
<1> QED
  BY <1>6, <1>7 DEF ScanInv

(* The hooks of resumePendingScans.                                        *)
LEMMA ResumeKeeps ==
    ASSUME ScanInv, Resume
    PROVE  ScanInv'
<1> DEFINE new == [NoHook EXCEPT !.pc = "start"]
<1>1. /\ ~ resumed /\ resumed' = TRUE /\ UNCHANGED <<asked, ask>>
      /\ hook' = [h \in Hooks |->
                   IF h[2] = "resume" /\ asked[h[1]] # NoPackage /\ scan[h[1]] # "done"
                   THEN new ELSE hook[h]]
  BY DEF Resume
<1> HIDE DEF new
<1>2. ScanTypeOK'
  BY <1>1 DEF ScanInv, ScanTypeOK
<1>3. HooksAreGood'
  <2>1. ASSUME NEW h \in Hooks
        PROVE  /\ HookGood(hook'[h], ask'[h], PackageOf(h)')
               /\ h[2] = "resume" /\ ~ resumed' => hook'[h] = NoHook
    <3>1. /\ HookGood(hook[h], ask[h], PackageOf(h))
          /\ h[2] = "resume" => hook[h] = NoHook
          /\ PackageOf(h)' = PackageOf(h) /\ ask' = ask
      BY <1>1 DEF ScanInv, HooksAreGood, PackageOf
    <3>2. CASE hook'[h] = hook[h]
      BY <1>1, <3>1, <3>2
    <3>3. CASE hook'[h] # hook[h]
      <4>1. h[2] = "resume" /\ hook'[h] = new /\ PackageOf(h) # NoPackage
        BY <1>1, <3>3 DEF PackageOf
      <4>2. \A s \in Sources : ask[h][s] = "none"
        BY <3>1, <4>1 DEF HookGood, NoHook
      <4>3. HookGood(new, ask[h], PackageOf(h))
        BY <4>1, <4>2, StartIsGood DEF new
      <4> QED
        BY <1>1, <3>1, <4>1, <4>3
    <3> QED
      BY <3>2, <3>3
  <2> QED
    BY <2>1 DEF HooksAreGood
<1> QED
  BY <1>2, <1>3 DEF ScanInv

NothingRuns ==
    /\ hook = [h \in Hooks |-> NoHook]
    /\ ask = [h \in Hooks |-> [s \in Sources |-> "none"]]
    /\ resumed = FALSE
    /\ asked \in [Requests -> Packages \union {NoPackage}]

LEMMA NothingRunsInv == NothingRuns => ScanInv
<1> SUFFICES ASSUME NothingRuns
             PROVE  ScanInv
  OBVIOUS
<1>1. ScanTypeOK
  BY DEF NothingRuns, ScanTypeOK, Turns
<1>2. HooksAreGood
  BY StartIsGood DEF NothingRuns, HooksAreGood
<1> QED
  BY <1>1, <1>2 DEF ScanInv

LEMMA ScanStepKeeps ==
    ASSUME ScanInv, [Next]_vars
    PROVE  ScanInv'
<1>1. CASE \E r \in Requests, p \in Packages : Enqueue(r, p)
  BY <1>1, RequestKeeps
<1>2. CASE Resume
  BY <1>2, ResumeKeeps
<1>3. CASE \E h \in Hooks : HookWork(h)
  BY <1>3, HookStepKeeps, SourceStepKeeps DEF HookWork
<1>4. CASE Crash
  <2>1. NothingRuns'
    BY <1>4 DEF Crash, NothingRuns, ScanInv, ScanTypeOK
  <2>2. NothingRuns' => ScanInv'
    BY NothingRunsInv, PTL
  <2> QED
    BY <2>1, <2>2
<1>5. CASE UNCHANGED vars
  BY <1>5 DEF vars, ScanInv, ScanTypeOK, HooksAreGood, PackageOf
<1> QED
  BY <1>1, <1>2, <1>3, <1>4, <1>5 DEF Next

(* What a scan found is what the sources answered, each on its own,        *)
(* whatever the order of the answers, the failures and the crashes         *)
(* (security.go:86-104).                                                   *)
THEOREM FoundIsReported == Spec => []FoundIsKnown
<1>1. ASSUME Init
      PROVE  ScanInv
  BY <1>1, NothingRunsInv DEF Init, NothingRuns
<1>2. ScanInv /\ [Next]_vars => ScanInv'
  BY ScanStepKeeps
<1>3. ScanInv => FoundIsKnown
  BY FoundIsFoundBy
<1> QED
  BY <1>1, <1>2, <1>3, PTL DEF Spec

-----------------------------------------------------------------------------
(* What is saved.  Two scans of a request may be told different things,    *)
(* and their rows go into one table.                                       *)

Covered(rows, F) == \A f \in F : \E g \in rows : SameRow(g, f)

(* A finding that a scan for package p can come to: what some source may   *)
(* answer, with the score of EPSS that it had then, or with none.          *)
Reportable(g, p) ==
    \E s \in Sources :
        /\ ~ Skips(s, p)
        /\ \E a \in Report[s][p] : \E n \in DOMAIN a :
             LET v == Converted(s, a[n])
             IN  g = v \/ \E e \in Epss : v.id \in DOMAIN e /\ g = [v EXCEPT !.epss = e[v.id]]

TablesAreFound ==
    \A r \in Requests :
        /\ asked[r] = NoPackage => table[r] = {} /\ written[r] = {} /\ whole[r] = {}
        /\ IsFiniteSet(table[r]) /\ IsFiniteSet(whole[r])
        /\ table[r] \subseteq written[r]
        /\ \A g \in written[r] : Reportable(g, asked[r])
        /\ Covered(table[r], whole[r])

(* A save that has not failed has left behind every row it has done.       *)
SavedSoFar ==
    \A h \in Hooks : At(h, "save") =>
        /\ hook[h].todo \subseteq hook[h].vulns
        /\ hook[h].todo # {} => Covered(table[h[1]], hook[h].vulns \ hook[h].todo)

TableTypeOK ==
    /\ table = [r \in Requests |-> table[r]]
    /\ written = [r \in Requests |-> written[r]]
    /\ whole = [r \in Requests |-> whole[r]]

SaveInv == ScanInv /\ TableTypeOK /\ TablesAreFound /\ SavedSoFar

(* A finding that was saved in full keeps a row.                           *)
SavedStays == \A r \in Requests : Covered(table[r], whole[r])

-----------------------------------------------------------------------------
(* The findings that a request can have.                                   *)

LEMMA ImageIsFinite ==
    ASSUME NEW S, IsFiniteSet(S), NEW f
    PROVE  IsFiniteSet({f[x] : x \in S})
<1> DEFINE T == {f[x] : x \in S}
           g == [x \in S |-> f[x]]
<1>1. g \in Surjection(S, T)
  BY DEF Surjection
<1> QED
  BY <1>1, FS_Surjection

LEMMA ReportableIsScored ==
    ASSUME NEW p \in Packages, NEW g, Reportable(g, p)
    PROVE  g.cvss \in Nat /\ g.epss \in Nat
<1>1. PICK s \in Sources : \E a \in Report[s][p] : \E n \in DOMAIN a :
         LET v == Converted(s, a[n])
         IN  g = v \/ \E e \in Epss : v.id \in DOMAIN e /\ g = [v EXCEPT !.epss = e[v.id]]
  BY DEF Reportable
<1>2. PICK a \in Report[s][p] : \E n \in DOMAIN a :
         LET v == Converted(s, a[n])
         IN  g = v \/ \E e \in Epss : v.id \in DOMAIN e /\ g = [v EXCEPT !.epss = e[v.id]]
  BY <1>1
<1>3. PICK n \in DOMAIN a :
         LET v == Converted(s, a[n])
         IN  g = v \/ \E e \in Epss : v.id \in DOMAIN e /\ g = [v EXCEPT !.epss = e[v.id]]
  BY <1>2
<1> DEFINE v == Converted(s, a[n])
<1>4. v.cvss \in Nat
  BY ConvertedIsFound, ScannersAssumption
<1>5. PICK id, cvss : v = [id |-> id, source |-> s, cvss |-> cvss, epss |-> 0]
  BY ConvertedIsFound DEF Found
<1>6. g = v \/ \E e \in Epss : v.id \in DOMAIN e /\ g = [v EXCEPT !.epss = e[v.id]]
  BY <1>3
<1> HIDE DEF v
<1>7. CASE g = v
  BY <1>4, <1>5, <1>7
<1>8. ASSUME NEW e \in Epss, v.id \in DOMAIN e, g = [v EXCEPT !.epss = e[v.id]]
      PROVE  g.cvss \in Nat /\ g.epss \in Nat
  <2>1. e[v.id] \in Nat
    BY <1>8, ScannersAssumption
  <2> DEFINE score == e[v.id]
  <2> HIDE DEF score
  <2>2. g = [id |-> id, source |-> s, cvss |-> cvss, epss |-> score]
    BY <1>5, <1>8 DEF score
  <2>3. v.cvss = cvss /\ g.cvss = cvss /\ g.epss = score
    BY <1>5, <2>2
  <2> QED
    BY <1>4, <2>1, <2>3 DEF score
<1> QED
  BY <1>6, <1>7, <1>8

(* What a hook has been told is finite, and each finding of it is one that *)
(* a source converted.                                                     *)
LEMMA KnownIsReported ==
    ASSUME NEW p \in Packages, NEW said, \A s \in Sources : said[s] \in CouldSay(s, p)
    PROVE  /\ IsFiniteSet(Known(said))
           /\ \A v \in Known(said) : \E s \in Sources :
                /\ ~ Skips(s, p)
                /\ \E a \in Report[s][p] : \E n \in DOMAIN a : v = Converted(s, a[n])
<1>1. ASSUME NEW s \in Sources
      PROVE  /\ IsFiniteSet(Merged({}, said[s]))
             /\ \A v \in Merged({}, said[s]) :
                  /\ ~ Skips(s, p)
                  /\ \E a \in Report[s][p] : \E n \in DOMAIN a : v = Converted(s, a[n])
  <2>1. CASE said[s] = << >>
    BY <2>1, MergedNothing, FS_EmptySet
  <2>2. ASSUME ~ Skips(s, p), NEW a \in Report[s][p], said[s] = Answered(s, a)
        PROVE  /\ IsFiniteSet(Merged({}, said[s]))
               /\ \A v \in Merged({}, said[s]) : \E n \in DOMAIN a : v = Converted(s, a[n])
    <3> DEFINE list == Answered(s, a)
    <3>1. PICK n \in Nat : DOMAIN list = 1 .. n
      BY AnsweredIsConverted
    <3>2. \A m \in DOMAIN list : m \in DOMAIN a /\ list[m] = Converted(s, a[m])
      BY AnsweredIsConverted
    <3> HIDE DEF list
    <3>3. Merged({}, list) \subseteq {list[m] : m \in 1 .. n}
      BY <3>1 DEF Merged
    <3>4. IsFiniteSet({list[m] : m \in 1 .. n})
      <4>1. IsFiniteSet(1 .. n)
        BY FS_Interval
      <4> QED
        BY <4>1, ImageIsFinite
    <3>5. IsFiniteSet(Merged({}, list))
      BY <3>3, <3>4, FS_Subset
    <3>6. said[s] = list
      BY <2>2 DEF list
    <3> QED
      BY <3>1, <3>2, <3>3, <3>5, <3>6
  <2> QED
    BY <2>1, <2>2 DEF CouldSay
<1>2. IsFiniteSet(Sources)
  <2>1. IsFiniteSet({"OSV", "NVD", "Sonatype"})
    <3>1. IsFiniteSet({"OSV"} \union {"NVD"})
      BY FS_Singleton, FS_AddElement
    <3>2. IsFiniteSet(({"OSV"} \union {"NVD"}) \union {"Sonatype"})
      BY <3>1, FS_AddElement
    <3>3. ({"OSV"} \union {"NVD"}) \union {"Sonatype"} = {"OSV", "NVD", "Sonatype"}
      OBVIOUS
    <3> QED
      BY <3>2, <3>3
  <2> QED
    BY <2>1, ScannersAssumption, FS_Subset
<1> DEFINE parts == [s \in Sources |-> Merged({}, said[s])]
<1>3. \A s \in Sources : parts[s] = Merged({}, said[s])
  OBVIOUS
<1> HIDE DEF parts
<1>4. IsFiniteSet({parts[s] : s \in Sources})
  BY <1>2, ImageIsFinite
<1>5. Known(said) = UNION {parts[s] : s \in Sources}
  BY <1>3 DEF Known
<1>6. \A T \in {parts[s] : s \in Sources} : IsFiniteSet(T)
  BY <1>1, <1>3
<1>7. IsFiniteSet(Known(said))
  BY <1>4, <1>5, <1>6, FS_UNION
<1> QED
  BY <1>1, <1>7 DEF Known

(* What a hook saves is finite, and some source may answer it.             *)
LEMMA FoundIsReportable ==
    ASSUME ScanInv, NEW h \in Hooks, At(h, "save")
    PROVE  /\ IsFiniteSet(hook[h].vulns)
           /\ \A v \in hook[h].vulns : Reportable(v, PackageOf(h))
<1> DEFINE p == PackageOf(h)
           known == Known(hook[h].said)
<1>1. HookGood(hook[h], ask[h], p) /\ hook[h].pc = "save"
  BY DEF ScanInv, HooksAreGood, At
<1>2. FoundBy(hook[h]) /\ \A s \in Sources : hook[h].said[s] \in CouldSay(s, p)
  BY <1>1 DEF HookGood
<1>3. p \in Packages
  BY AskedForAPackage DEF At
<1>4. /\ IsFiniteSet(known)
      /\ \A v \in known : \E s \in Sources :
           /\ ~ Skips(s, p)
           /\ \E a \in Report[s][p] : \E n \in DOMAIN a : v = Converted(s, a[n])
  <2> HIDE DEF p
  <2> QED
    BY <1>2, <1>3, KnownIsReported
<1>5. hook[h].vulns = known \/ \E e \in Epss : hook[h].vulns = Enriched(known, e)
  BY <1>2 DEF FoundBy
<1> HIDE DEF p, known
<1>6. CASE hook[h].vulns = known
  BY <1>4, <1>6 DEF Reportable, p
<1>7. ASSUME NEW e \in Epss, hook[h].vulns = Enriched(known, e)
      PROVE  /\ IsFiniteSet(hook[h].vulns)
             /\ \A v \in hook[h].vulns : Reportable(v, p)
  <2> DEFINE score == [v \in known |-> IF v.id \in DOMAIN e THEN [v EXCEPT !.epss = e[v.id]] ELSE v]
  <2>1. Enriched(known, e) = {score[v] : v \in known}
    BY DEF Enriched
  <2>2. \A v \in known : Reportable(score[v], p)
    <3> SUFFICES ASSUME NEW v \in known PROVE Reportable(score[v], p)
      OBVIOUS
    <3>1. PICK s \in Sources : /\ ~ Skips(s, p)
                               /\ \E a \in Report[s][p] : \E n \in DOMAIN a : v = Converted(s, a[n])
      BY <1>4
    <3>2. score[v] = v \/ (v.id \in DOMAIN e /\ score[v] = [v EXCEPT !.epss = e[v.id]])
      OBVIOUS
    <3> HIDE DEF score
    <3> QED
      BY <3>1, <3>2 DEF Reportable
  <2> HIDE DEF score
  <2>3. IsFiniteSet({score[v] : v \in known})
    BY <1>4, ImageIsFinite
  <2> QED
    BY <1>7, <2>1, <2>2, <2>3
<1> QED
  BY <1>5, <1>6, <1>7 DEF p

(* A row that is written hides no other finding.                           *)
LEMMA UpsertCovers ==
    ASSUME NEW rows, NEW f, NEW F, Covered(rows, F)
    PROVE  Covered(Upserted(rows, f), F \union {f})
<1>1. ASSUME NEW e \in F \union {f}
      PROVE  \E g \in Upserted(rows, f) : SameRow(g, e)
  <2>1. CASE SameRow(f, e)
    BY <2>1 DEF Upserted
  <2>2. CASE ~ SameRow(f, e)
    <3>1. PICK g \in rows : SameRow(g, e)
      BY <2>2 DEF Covered, SameRow
    <3>2. g \in Upserted(rows, f)
      BY <2>2, <3>1 DEF Upserted, SameRow
    <3> QED
      BY <3>1, <3>2
  <2> QED
    BY <2>1, <2>2
<1> QED
  BY <1>1 DEF Covered

-----------------------------------------------------------------------------
(* Steps that save nothing.                                                *)

SaveGoesOn(old, new) ==
    \/ old.pc = "save" /\ new.vulns = old.vulns /\ new.todo = old.todo
    \/ new.todo = {}
    \/ new.todo = new.vulns

LEMMA TablesKept ==
    ASSUME SaveInv, UNCHANGED <<table, written, whole>>,
           \A r \in Requests : asked'[r] = asked[r] \/ asked[r] = NoPackage,
           \A h \in Hooks : hook'[h].pc = "save" => SaveGoesOn(hook[h], hook'[h])
    PROVE  TableTypeOK' /\ TablesAreFound' /\ SavedSoFar'
<1>1. TableTypeOK'
  BY DEF SaveInv, TableTypeOK
<1>2. TablesAreFound'
  <2>1. ASSUME NEW r \in Requests
        PROVE  /\ asked'[r] = NoPackage => table[r] = {} /\ written[r] = {} /\ whole[r] = {}
               /\ IsFiniteSet(table[r]) /\ IsFiniteSet(whole[r])
               /\ table[r] \subseteq written[r]
               /\ \A g \in written[r] : Reportable(g, asked'[r])
               /\ Covered(table[r], whole[r])
    BY <2>1 DEF SaveInv, TablesAreFound
  <2> QED
    BY <2>1 DEF TablesAreFound
<1>3. SavedSoFar'
  <2> SUFFICES ASSUME NEW h \in Hooks, hook'[h].pc = "save"
               PROVE  /\ hook'[h].todo \subseteq hook'[h].vulns
                      /\ hook'[h].todo # {} =>
                           Covered(table[h[1]], hook'[h].vulns \ hook'[h].todo)
    BY DEF SavedSoFar, At
  <2>1. SaveGoesOn(hook[h], hook'[h])
    OBVIOUS
  <2>2. CASE hook[h].pc = "save" /\ hook'[h].vulns = hook[h].vulns /\ hook'[h].todo = hook[h].todo
    BY <2>2 DEF SaveInv, SavedSoFar, At
  <2>3. CASE hook'[h].todo = {} \/ hook'[h].todo = hook'[h].vulns
    BY <2>3 DEF Covered
  <2> QED
    BY <2>1, <2>2, <2>3 DEF SaveGoesOn
<1> QED
  BY <1>1, <1>2, <1>3

(* The rows of a hook, one at a time.                                      *)
LEMMA SaveRowKeeps ==
    ASSUME SaveInv, NEW h \in Hooks, SaveRow(h)
    PROVE  TableTypeOK' /\ TablesAreFound' /\ SavedSoFar'
<1> DEFINE q == h[1]
           found == hook[h].vulns
           todo == hook[h].todo
<1>1. PICK f \in todo :
        /\ table' = [table EXCEPT ![q] = Upserted(@, f)]
        /\ hook' = [hook EXCEPT ![h].todo = @ \ {f}]
        /\ written' = [written EXCEPT ![q] = @ \union {f}]
        /\ whole' = IF todo = {f} THEN [whole EXCEPT ![q] = @ \union found] ELSE whole
  BY DEF SaveRow
<1>2. /\ q \in Requests /\ At(h, "save") /\ hook[h].pc = "save" /\ asked' = asked
      /\ HookState(hook[h]) /\ hook = [g \in Hooks |-> hook[g]]
      /\ asked[q] \in Packages /\ NoPackage \notin Packages
  <2>1. q \in Requests /\ At(h, "save") /\ hook[h].pc = "save" /\ asked' = asked /\ ~ At(h, "none")
    BY DEF SaveRow, Hooks, At
  <2> QED
    BY <2>1, AskedForAPackage, ScannersAssumption
       DEF SaveInv, ScanInv, ScanTypeOK, HooksAreGood, HookGood, PackageOf
<1>3. /\ hook'[h].vulns = found /\ hook'[h].todo = todo \ {f} /\ hook'[h].pc = "save"
      /\ \A g \in Hooks \ {h} : hook'[g] = hook[g]
  <2>1. hook' = [hook EXCEPT ![h] = [hook[h] EXCEPT !.todo = todo \ {f}]]
    BY <1>1, <1>2
  <2>2. [hook[h] EXCEPT !.todo = todo \ {f}] =
          [pc |-> hook[h].pc, vulns |-> found, said |-> hook[h].said, todo |-> todo \ {f}]
    BY <1>2, ExceptOne
  <2>3. hook'[h] = [pc |-> hook[h].pc, vulns |-> found, said |-> hook[h].said,
                    todo |-> todo \ {f}]
    BY <1>2, <2>1, <2>2
  <2>4. \A g \in Hooks \ {h} : hook'[g] = hook[g]
    BY <1>2, <2>1
  <2> QED
    BY <1>2, <2>3, <2>4
<1>4. todo \subseteq found /\ Covered(table[q], found \ todo)
  BY <1>1, <1>2 DEF SaveInv, SavedSoFar
<1>5. IsFiniteSet(found) /\ Reportable(f, asked[q])
  BY <1>1, <1>2, <1>4, FoundIsReportable DEF SaveInv, PackageOf
<1>6. TableTypeOK'
  BY <1>1 DEF SaveInv, TableTypeOK
<1>7. /\ table'[q] = Upserted(table[q], f) /\ written'[q] = written[q] \union {f}
      /\ whole'[q] = IF todo = {f} THEN whole[q] \union found ELSE whole[q]
      /\ \A r \in Requests \ {q} : /\ table'[r] = table[r] /\ written'[r] = written[r]
                                   /\ whole'[r] = whole[r]
  BY <1>1, <1>2 DEF SaveInv, TableTypeOK
<1>8. \A F : Covered(table[q], F) => Covered(table'[q], F \union {f})
  BY <1>7, UpsertCovers
<1>9. todo = {f} => Covered(table'[q], found)
  <2>1. Covered(table'[q], (found \ todo) \union {f})
    BY <1>4, <1>8
  <2> QED
    BY <2>1 DEF Covered
<1> HIDE DEF q, found, todo
<1>10. TablesAreFound'
  <2>1. ASSUME NEW r \in Requests
        PROVE  /\ asked[r] = NoPackage => table[r] = {} /\ written[r] = {} /\ whole[r] = {}
               /\ IsFiniteSet(table[r]) /\ IsFiniteSet(whole[r])
               /\ table[r] \subseteq written[r]
               /\ \A g \in written[r] : Reportable(g, asked[r])
               /\ Covered(table[r], whole[r])
    BY DEF SaveInv, TablesAreFound
  <2>2. /\ IsFiniteSet(table'[q]) /\ IsFiniteSet(whole'[q])
        /\ table'[q] \subseteq written'[q]
        /\ \A g \in written'[q] : Reportable(g, asked[q])
        /\ Covered(table'[q], whole'[q])
    <3>1. table'[q] \subseteq table[q] \union {f}
      BY <1>7 DEF Upserted
    <3>2. IsFiniteSet(table[q] \union {f}) /\ IsFiniteSet(whole[q] \union found)
      BY <1>2, <1>5, <2>1, FS_AddElement, FS_Union
    <3>3. IsFiniteSet(table'[q]) /\ IsFiniteSet(whole'[q])
      BY <1>2, <1>7, <2>1, <3>1, <3>2, FS_Subset
    <3>4. table'[q] \subseteq written'[q]
      BY <1>2, <1>7, <2>1, <3>1
    <3>5. \A g \in written'[q] : Reportable(g, asked[q])
      BY <1>2, <1>5, <1>7, <2>1
    <3>6. Covered(table'[q], whole'[q])
      <4>1. Covered(table'[q], whole[q] \union {f})
        BY <1>2, <1>8, <2>1
      <4> QED
        BY <1>7, <1>9, <4>1 DEF Covered
    <3> QED
      BY <3>3, <3>4, <3>5, <3>6
  <2>3. ASSUME NEW r \in Requests
        PROVE  /\ asked'[r] = NoPackage => table'[r] = {} /\ written'[r] = {} /\ whole'[r] = {}
               /\ IsFiniteSet(table'[r]) /\ IsFiniteSet(whole'[r])
               /\ table'[r] \subseteq written'[r]
               /\ \A g \in written'[r] : Reportable(g, asked'[r])
               /\ Covered(table'[r], whole'[r])
    <3>1. CASE r = q
      BY <1>2, <2>2, <3>1
    <3>2. CASE r # q
      BY <1>2, <1>7, <2>1, <3>2
    <3> QED
      BY <3>1, <3>2
  <2> QED
    BY <2>3 DEF TablesAreFound
<1>11. SavedSoFar'
  <2>1. ASSUME NEW g \in Hooks, hook'[g].pc = "save"
        PROVE  /\ hook'[g].todo \subseteq hook'[g].vulns
               /\ hook'[g].todo # {} => Covered(table'[g[1]], hook'[g].vulns \ hook'[g].todo)
    <3>1. CASE g = h
      <4>1. Covered(table'[q], (found \ todo) \union {f})
        BY <1>4, <1>8
      <4>2. found \ (todo \ {f}) = (found \ todo) \union {f}
        BY <1>1, <1>4 DEF todo, found
      <4> QED
        BY <1>3, <1>4, <3>1, <4>1, <4>2 DEF q
    <3>2. CASE g # h
      <4>1. /\ hook[g].todo \subseteq hook[g].vulns /\ hook'[g] = hook[g]
            /\ hook[g].todo # {} => Covered(table[g[1]], hook[g].vulns \ hook[g].todo)
        BY <1>3, <2>1, <3>2 DEF SaveInv, SavedSoFar, At
      <4>2. g[1] \in Requests
        BY DEF Hooks
      <4>3. \A F : Covered(table[g[1]], F) => Covered(table'[g[1]], F)
        <5>1. CASE g[1] = q
          BY <1>8, <5>1 DEF Covered
        <5>2. CASE g[1] # q
          BY <1>7, <4>2, <5>2
        <5> QED
          BY <5>1, <5>2
      <4> QED
        BY <4>1, <4>3
    <3> QED
      BY <3>1, <3>2
  <2> QED
    BY <2>1 DEF SavedSoFar, At
<1> QED
  BY <1>6, <1>10, <1>11

LEMMA SaveStepKeeps ==
    ASSUME SaveInv, [Next]_vars
    PROVE  SaveInv'
<1>1. ScanInv'
  BY ScanStepKeeps DEF SaveInv
<1>2. TableTypeOK' /\ TablesAreFound' /\ SavedSoFar'
  <2>0. /\ \A h \in Hooks : HookState(hook[h])
        /\ hook = [h \in Hooks |-> hook[h]]
    BY DEF SaveInv, ScanInv, ScanTypeOK, HooksAreGood, HookGood
  <2>1. CASE \E r \in Requests, p \in Packages : Enqueue(r, p)
    <3>1. PICK r \in Requests, p \in Packages : Enqueue(r, p)
      BY <2>1
    <3>2. /\ UNCHANGED <<table, written, whole>>
          /\ \A x \in Requests : asked'[x] = asked[x] \/ asked[x] = NoPackage
      BY <3>1 DEF Enqueue, tables, SaveInv, ScanInv, ScanTypeOK
    <3>3. \A h \in Hooks : hook'[h].pc = "save" => SaveGoesOn(hook[h], hook'[h])
      <4> DEFINE g == <<r, "enqueue">>
      <4>1. /\ \A h \in Hooks \ {g} : hook'[h] = hook[h]
            /\ hook' = [hook EXCEPT ![g] = [hook[g] EXCEPT !.pc = "start"]]
        BY <2>0, <3>1 DEF Enqueue
      <4>2. g \in Hooks
        BY DEF Hooks
      <4>3. hook'[g].pc = "start"
        <5>1. hook'[g] = [hook[g] EXCEPT !.pc = "start"]
          BY <2>0, <4>1, <4>2
        <5>2. [hook[g] EXCEPT !.pc = "start"].pc = "start"
          BY <2>0, <4>2, ExceptOne
        <5> QED
          BY <5>1, <5>2
      <4> QED
        BY <4>1, <4>3 DEF SaveGoesOn
    <3> QED
      BY <3>2, <3>3, TablesKept
  <2>2. CASE Resume \/ Crash
    <3>1. UNCHANGED <<asked, table, written, whole>>
      BY <2>2 DEF Resume, Crash, tables
    <3>2. NoHook.pc = "none" /\ [NoHook EXCEPT !.pc = "start"].pc = "start"
      BY DEF NoHook
    <3>3. \A h \in Hooks : \/ hook'[h] = NoHook
                           \/ hook'[h] = [NoHook EXCEPT !.pc = "start"]
                           \/ hook'[h] = hook[h]
      BY <2>2 DEF Resume, Crash
    <3>4. \A h \in Hooks : hook'[h].pc = "save" => SaveGoesOn(hook[h], hook'[h])
      BY <3>2, <3>3 DEF SaveGoesOn
    <3> QED
      BY <3>1, <3>4, TablesKept
  <2>3. ASSUME NEW h \in Hooks, NEW new, hook' = [hook EXCEPT ![h] = new],
               new.pc = "save" => SaveGoesOn(hook[h], new),
               UNCHANGED <<asked, table, written, whole>>
        PROVE  TableTypeOK' /\ TablesAreFound' /\ SavedSoFar'
    <3>1. hook'[h] = new /\ \A g \in Hooks \ {h} : hook'[g] = hook[g]
      BY <2>0, <2>3
    <3>2. \A g \in Hooks : hook'[g].pc = "save" => SaveGoesOn(hook[g], hook'[g])
      BY <2>3, <3>1 DEF SaveGoesOn
    <3> QED
      BY <2>3, <3>2, TablesKept
  <2>4. ASSUME NEW h \in Hooks, HookStep(h)
        PROVE  TableTypeOK' /\ TablesAreFound' /\ SavedSoFar'
    <3>1. CASE HookStart(h) \/ Gathered(h)
      <4>1. PICK pc \in {"gather", "enrich"} : hook' = [hook EXCEPT ![h].pc = pc]
        BY <3>1 DEF HookStart, Gathered, Goto
      <4>2. hook' = [hook EXCEPT ![h] = [hook[h] EXCEPT !.pc = pc]]
        BY <2>0, <4>1
      <4>3. [hook[h] EXCEPT !.pc = pc].pc = pc
        BY <2>0, ExceptOne
      <4>4. UNCHANGED <<asked, table, written, whole>>
        BY <3>1 DEF HookStart, Gathered, tables
      <4> QED
        BY <2>3, <4>2, <4>3, <4>4
    <3>2. CASE Enrich(h)
      <4>1. PICK found :
              hook' = [hook EXCEPT ![h].pc = "save", ![h].vulns = found, ![h].todo = found]
        BY <3>2 DEF Enrich
      <4> DEFINE new == [hook[h] EXCEPT !.pc = "save", !.vulns = found, !.todo = found]
      <4>2. hook' = [hook EXCEPT ![h] = new]
        BY <2>0, <4>1
      <4>3. new.vulns = found /\ new.todo = found
        BY <2>0, ExceptFound
      <4>4. UNCHANGED <<asked, table, written, whole>>
        BY <3>2 DEF Enrich, tables
      <4>5. SaveGoesOn(hook[h], new)
        BY <4>3 DEF SaveGoesOn
      <4> HIDE DEF new
      <4> QED
        BY <2>3, <4>2, <4>4, <4>5
    <3>3. CASE SaveFails(h)
      <4>1. hook' = [hook EXCEPT ![h] = [hook[h] EXCEPT !.todo = {}]]
        BY <2>0, <3>3 DEF SaveFails
      <4>2. [hook[h] EXCEPT !.todo = {}].todo = {}
        BY <2>0, ExceptOne
      <4>3. UNCHANGED <<asked, table, written, whole>>
        BY <3>3 DEF SaveFails
      <4>4. SaveGoesOn(hook[h], [hook[h] EXCEPT !.todo = {}])
        BY <4>2 DEF SaveGoesOn
      <4> QED
        BY <2>3, <4>1, <4>3, <4>4
    <3>4. CASE Mark(h)
      <4>1. /\ hook' = [hook EXCEPT ![h] = NoHook] /\ NoHook.pc = "none"
            /\ UNCHANGED <<asked, table, written, whole>>
        BY <3>4 DEF Mark, NoHook
      <4> QED
        BY <2>3, <4>1
    <3>5. CASE SaveRow(h)
      BY <3>5, SaveRowKeeps
    <3> QED
      BY <2>4, <3>1, <3>2, <3>3, <3>4, <3>5 DEF HookStep
  <2>5. ASSUME NEW h \in Hooks, NEW s \in Sources, SourceStep(h, s)
        PROVE  TableTypeOK' /\ TablesAreFound' /\ SavedSoFar'
    <3>1. UNCHANGED <<asked, table, written, whole>>
      BY <2>5 DEF SourceStep, SkipPackage, Lock, Unlock, Answer, Fail, tables
    <3>2. CASE UNCHANGED hook
      <4>1. \A g \in Hooks : hook'[g].pc = "save" => SaveGoesOn(hook[g], hook'[g])
        BY <3>2 DEF SaveGoesOn
      <4> QED
        BY <3>1, <4>1, TablesKept
    <3>3. CASE \E list : Tell(h, s, list)
      <4>1. PICK list : Tell(h, s, list)
        BY <3>3
      <4>2. ask[h][s] \in {"ask", "sleep", "query"}
        BY <2>5 DEF SourceStep, SkipPackage, Lock, Unlock, Answer, Fail, Querying
      <4>3. hook[h].pc = "gather"
        BY <4>2, AskedWhileGathering DEF SaveInv
      <4> DEFINE y == [hook[h] EXCEPT !.vulns = Merged(@, list)]
                 new == [y EXCEPT !.said[s] = list]
      <4>4. hook' = [hook EXCEPT ![h] = new]
        BY <2>0, <4>1 DEF Tell
      <4>5. new.pc = hook[h].pc
        <5>1. y = [pc |-> hook[h].pc, vulns |-> Merged(hook[h].vulns, list),
                   said |-> hook[h].said, todo |-> hook[h].todo]
          BY <2>0, ExceptOne
        <5> HIDE DEF y
        <5> QED
          BY <5>1
      <4> HIDE DEF new
      <4> QED
        BY <2>3, <3>1, <4>3, <4>4, <4>5
    <3> QED
      BY <2>5, <3>2, <3>3 DEF SourceStep, SkipPackage, Lock, Unlock, Answer, Fail
  <2>6. CASE UNCHANGED vars
    <3>1. /\ UNCHANGED <<asked, table, written, whole>>
          /\ \A g \in Hooks : hook'[g].pc = "save" => SaveGoesOn(hook[g], hook'[g])
      BY <2>6 DEF vars, SaveGoesOn
    <3> QED
      BY <3>1, TablesKept
  <2> QED
    BY <2>1, <2>2, <2>4, <2>5, <2>6 DEF Next, HookWork
<1> QED
  BY <1>1, <1>2 DEF SaveInv

LEMMA InitSaveInv == Init => SaveInv
<1> SUFFICES ASSUME Init
             PROVE  SaveInv
  OBVIOUS
<1>1. ScanInv
  BY NothingRunsInv DEF Init, NothingRuns
<1>2. \A h \in Hooks : ~ At(h, "save")
  BY DEF Init, At, NoHook
<1>3. TablesAreFound
  BY FS_EmptySet DEF Init, TablesAreFound, Covered
<1> QED
  BY <1>1, <1>2, <1>3 DEF Init, SaveInv, TableTypeOK, SavedSoFar

(* A finding that was saved in full has a row for rescanPending to read,   *)
(* whatever other scans of the request are told and save, at the same time *)
(* or later, and wherever they fail (quarantine.go:420-450).  Its scores   *)
(* are those of the last answer.                                           *)
THEOREM FindingsSurviveRescans == Spec => []SavedStays
<1>1. Init => SaveInv
  BY InitSaveInv
<1>2. SaveInv /\ [Next]_vars => SaveInv'
  BY SaveStepKeeps
<1>3. SaveInv => SavedStays
  BY DEF SaveInv, TablesAreFound, SavedStays
<1> QED
  BY <1>1, <1>2, <1>3, PTL DEF Spec

(* Every row of a request is what a configured source that knows the       *)
(* package may have answered, with a score of EPSS or with none.           *)
RowsAreReported == \A r \in Requests : \A g \in table[r] : Reportable(g, asked[r])

(* No scan leaves a finding that nobody made, however the saves of two     *)
(* scans are mixed and wherever they stop (quarantine.go:420-450).         *)
THEOREM NoFindingIsInvented == Spec => []RowsAreReported
<1>1. Init => SaveInv
  BY InitSaveInv
<1>2. SaveInv /\ [Next]_vars => SaveInv'
  BY SaveStepKeeps
<1>3. SaveInv => RowsAreReported
  BY DEF SaveInv, TablesAreFound, RowsAreReported
<1> QED
  BY <1>1, <1>2, <1>3, PTL DEF Spec

-----------------------------------------------------------------------------
(* Sums over finite sets.                                                  *)

LEMMA SomeLeast ==
    ASSUME NEW T \in SUBSET Nat, T # {}
    PROVE  \E x \in T : \A y \in T : x =< y
<1> DEFINE R == OpToRel(<, Nat)
<1>1. \E x \in T : \A y \in T : ~ (<<y, x>> \in R)
  <2>1. IsWellFoundedOn(R, Nat)
    BY NatLessThanWellFounded
  <2> HIDE DEF R
  <2> QED
    BY <2>1, WFMin
<1>2. \A x, y \in Nat : x < y => <<x, y>> \in R
  BY DEF OpToRel
<1> HIDE DEF R
<1>3. PICK x \in T : \A y \in T : ~ (<<y, x>> \in R)
  BY <1>1
<1>4. \A y \in T : ~ (y < x)
  BY <1>2, <1>3
<1> QED
  BY <1>4

(* Of the subsets of a finite set that have a property, one has the least  *)
(* number of elements.                                                     *)
LEMMA LeastSubset ==
    ASSUME NEW S, IsFiniteSet(S), NEW Bad \in SUBSET SUBSET S, Bad # {}
    PROVE  \E T \in Bad : \A x \in T : T \ {x} \notin Bad
<1>1. ASSUME NEW T \in SUBSET S
      PROVE  IsFiniteSet(T) /\ Cardinality(T) \in Nat
  BY FS_Subset, FS_CardinalityType
<1> DEFINE sizes == {Cardinality(T) : T \in Bad}
<1>2. sizes \in SUBSET Nat /\ sizes # {}
  BY <1>1
<1>3. PICK n \in sizes : \A m \in sizes : n =< m
  <2> HIDE DEF sizes
  <2> QED
    BY <1>2, SomeLeast
<1>4. PICK T \in Bad : n = Cardinality(T)
  BY <1>3
<1>5. ASSUME NEW x \in T, T \ {x} \in Bad PROVE FALSE
  <2>1. Cardinality(T \ {x}) = Cardinality(T) - 1
    BY <1>1, FS_RemoveElement
  <2>2. n =< Cardinality(T \ {x})
    BY <1>3, <1>5
  <2> QED
    BY <1>1, <1>4, <2>1, <2>2
<1> QED
  BY <1>5

(* What to add to the sum over the rest.                                   *)
Some(T) == CHOOSE x \in T : TRUE
IsSum(sum, f, S) ==
    sum = [T \in SUBSET S |-> IF T = {} THEN 0 ELSE f[Some(T)] + sum[T \ {Some(T)}]]

LEMMA SomeIsIn == \A T : T # {} => Some(T) \in T
  BY DEF Some

LEMMA SumExists ==
    ASSUME NEW S, IsFiniteSet(S), NEW f
    PROVE  \E sum : IsSum(sum, f, S)
<1> DEFINE Upto(m) == {T \in SUBSET S : Cardinality(T) =< m}
           Sums(sum, m) == sum = [T \in Upto(m) |->
                                    IF T = {} THEN 0 ELSE f[Some(T)] + sum[T \ {Some(T)}]]
           Stuck == {m \in Nat : ~ \E sum : Sums(sum, m)}
<1>1. ASSUME NEW T \in SUBSET S
      PROVE  /\ Cardinality(T) \in Nat /\ (Cardinality(T) = 0 <=> T = {})
             /\ T # {} => /\ Cardinality(T \ {Some(T)}) = Cardinality(T) - 1
                          /\ T \ {Some(T)} \in SUBSET S
             /\ Cardinality(T) =< Cardinality(S)
  BY FS_Subset, FS_CardinalityType, FS_EmptySet, FS_RemoveElement, SomeIsIn
<1>2. Stuck = {}
  <2> SUFFICES ASSUME Stuck # {} PROVE FALSE
    OBVIOUS
  <2>1. PICK m \in Stuck : \A k \in Stuck : m =< k
    BY SomeLeast
  <2>2. CASE m = 0
    <3>1. ASSUME NEW T \in Upto(0) PROVE T = {}
      <4>1. T \in SUBSET S /\ Cardinality(T) =< 0
        OBVIOUS
      <4>2. Cardinality(T) \in Nat /\ (Cardinality(T) = 0 <=> T = {})
        BY <1>1, <4>1
      <4>3. Cardinality(T) = 0
        BY <4>1, <4>2
      <4> QED
        BY <4>2, <4>3
    <3>2. Sums([T \in Upto(0) |-> 0], 0)
      BY <3>1
    <3> QED
      BY <2>1, <2>2, <3>2
  <2>3. CASE m # 0
    <3>1. m \in Nat /\ m - 1 \in Nat /\ m - 1 \notin Stuck
      <4>1. m \in Nat
        OBVIOUS
      <4> HIDE DEF Stuck
      <4>2. m - 1 \in Nat /\ ~ m =< m - 1
        BY <2>3, <4>1
      <4> QED
        BY <2>1, <4>1, <4>2
    <3>2. PICK less : Sums(less, m - 1)
      BY <3>1
    <3> DEFINE more == [T \in Upto(m) |->
                          IF T = {} THEN 0 ELSE f[Some(T)] + less[T \ {Some(T)}]]
    <3>3. ASSUME NEW T \in Upto(m), T # {}
          PROVE  more[T \ {Some(T)}] = less[T \ {Some(T)}]
      <4> DEFINE U == T \ {Some(T)}
      <4>1. U \in Upto(m - 1) /\ U \in Upto(m)
        BY <1>1, <3>1, <3>3
      <4> HIDE DEF U
      <4>2. less[U] = IF U = {} THEN 0 ELSE f[Some(U)] + less[U \ {Some(U)}]
        <5> HIDE DEF Upto
        <5> QED
          BY <3>2, <4>1
      <4>3. more[U] = less[U]
        <5> HIDE DEF Upto
        <5> QED
          BY <4>1, <4>2
      <4> QED
        BY <4>3 DEF U
    <3>4. \A T \in Upto(m) :
            more[T] = IF T = {} THEN 0 ELSE f[Some(T)] + more[T \ {Some(T)}]
      <4> HIDE DEF Upto
      <4> QED
        BY <3>3
    <3>5. Sums(more, m)
      <4> HIDE DEF Upto
      <4> QED
        BY <3>4
    <3> QED
      BY <2>1, <3>5
  <2> QED
    BY <2>2, <2>3
<1>3. Cardinality(S) \in Nat /\ Upto(Cardinality(S)) = SUBSET S
  BY <1>1
<1>4. PICK sum : Sums(sum, Cardinality(S))
  BY <1>2, <1>3
<1> QED
  BY <1>3, <1>4 DEF IsSum

LEMMA SumSteps ==
    ASSUME NEW S, NEW f, NEW sum, IsSum(sum, f, S)
    PROVE  /\ sum[{}] = 0
           /\ \A T \in SUBSET S : T # {} =>
                /\ Some(T) \in T /\ T \ {Some(T)} \in SUBSET S
                /\ sum[T] = f[Some(T)] + sum[T \ {Some(T)}]
  BY SomeIsIn DEF IsSum

LEMMA SumIsNat ==
    ASSUME NEW S, IsFiniteSet(S), NEW f \in [S -> Nat], NEW sum, IsSum(sum, f, S)
    PROVE  \A T \in SUBSET S : sum[T] \in Nat
<1> DEFINE Bad == {T \in SUBSET S : sum[T] \notin Nat}
<1> SUFFICES ASSUME Bad # {} PROVE FALSE
  OBVIOUS
<1>1. PICK T \in Bad : \A x \in T : T \ {x} \notin Bad
  BY LeastSubset
<1>2. T \in SUBSET S /\ sum[T] \notin Nat
  BY <1>1
<1>3. T # {}
  <2>1. sum[{}] = 0
    BY SumSteps
  <2> HIDE DEF Bad
  <2> QED
    BY <1>2, <2>1
<1>4. /\ sum[T] = f[Some(T)] + sum[T \ {Some(T)}]
      /\ Some(T) \in T /\ T \ {Some(T)} \in SUBSET S
  BY <1>2, <1>3, SumSteps
<1> QED
  BY <1>1, <1>2, <1>4

(* In whatever order the elements are added.                               *)
LEMMA SumRemoves ==
    ASSUME NEW S, IsFiniteSet(S), NEW f \in [S -> Nat], NEW sum, IsSum(sum, f, S)
    PROVE  \A T \in SUBSET S : \A x \in T : sum[T] = f[x] + sum[T \ {x}]
<1> DEFINE Bad == {T \in SUBSET S : \E x \in T : sum[T] # f[x] + sum[T \ {x}]}
<1> SUFFICES ASSUME Bad # {} PROVE FALSE
  OBVIOUS
<1>1. PICK T \in Bad : \A x \in T : T \ {x} \notin Bad
  <2> HIDE DEF Bad
  <2>1. Bad \in SUBSET SUBSET S
    BY DEF Bad
  <2> QED
    BY <2>1, LeastSubset
<1>2. PICK x \in T : sum[T] # f[x] + sum[T \ {x}]
  BY <1>1
<1> DEFINE y == Some(T)
           U == T \ {x, y}
<1>3. T \in SUBSET S /\ y \in T /\ sum[T] = f[y] + sum[T \ {y}]
  BY <1>1, <1>2, SumSteps
<1> HIDE DEF y
<1>4. x # y
  BY <1>2, <1>3
<1>5. T \ {x} \in SUBSET S /\ T \ {y} \in SUBSET S /\ U \in SUBSET S
  BY <1>3
<1>6. sum[T \ {y}] = f[x] + sum[U]
  <2>1. T \ {y} \notin Bad /\ x \in T \ {y} /\ (T \ {y}) \ {x} = U
    BY <1>1, <1>3, <1>4
  <2> QED
    BY <1>5, <2>1
<1>7. sum[T \ {x}] = f[y] + sum[U]
  <2>1. T \ {x} \notin Bad /\ y \in T \ {x} /\ (T \ {x}) \ {y} = U
    BY <1>1, <1>3, <1>4
  <2> QED
    BY <1>5, <2>1
<1>8. f[x] \in Nat /\ f[y] \in Nat /\ sum[U] \in Nat
  <2> HIDE DEF U
  <2> QED
    BY <1>3, <1>5, SumIsNat
<1> HIDE DEF U, Bad
<1> QED
  BY <1>2, <1>3, <1>6, <1>7, <1>8

(* More and larger numbers have a larger sum.                              *)
LEMMA SumGrows ==
    ASSUME NEW S, IsFiniteSet(S), NEW f \in [S -> Nat], NEW sum, IsSum(sum, f, S),
           NEW S2, IsFiniteSet(S2), NEW f2 \in [S2 -> Nat], NEW sum2, IsSum(sum2, f2, S2),
           S \subseteq S2, \A x \in S : f[x] =< f2[x]
    PROVE  sum[S] =< sum2[S2]
<1> DEFINE Bad == {T \in SUBSET S : \E T2 \in SUBSET S2 : T \subseteq T2 /\ ~ sum[T] =< sum2[T2]}
<1> SUFFICES ASSUME Bad # {} PROVE FALSE
  OBVIOUS
<1>1. PICK T \in Bad : \A x \in T : T \ {x} \notin Bad
  <2> HIDE DEF Bad
  <2>1. Bad \in SUBSET SUBSET S
    BY DEF Bad
  <2> QED
    BY <2>1, LeastSubset
<1>2. PICK T2 \in SUBSET S2 : T \subseteq T2 /\ ~ sum[T] =< sum2[T2]
  BY <1>1
<1>3. sum2[T2] \in Nat /\ T \in SUBSET S
  BY <1>1, SumIsNat
<1>4. T # {}
  <2>1. sum[{}] = 0
    BY SumSteps
  <2> HIDE DEF Bad
  <2> QED
    BY <1>2, <1>3, <2>1
<1> DEFINE x == Some(T)
<1>5. x \in T /\ T \ {x} \in SUBSET S /\ sum[T] = f[x] + sum[T \ {x}]
  BY <1>3, <1>4, SumSteps
<1> HIDE DEF x
<1>6. x \in T2 /\ T2 \ {x} \in SUBSET S2 /\ T \ {x} \subseteq T2 \ {x}
  BY <1>2, <1>5
<1>7. sum2[T2] = f2[x] + sum2[T2 \ {x}]
  BY <1>6, SumRemoves
<1>8. sum[T \ {x}] =< sum2[T2 \ {x}]
  BY <1>1, <1>5, <1>6
<1>9. /\ sum[T \ {x}] \in Nat /\ sum2[T2 \ {x}] \in Nat
      /\ f[x] \in Nat /\ f2[x] \in Nat /\ f[x] =< f2[x]
  BY <1>3, <1>5, <1>6, SumIsNat
<1> HIDE DEF Bad
<1> QED
  BY <1>2, <1>5, <1>7, <1>8, <1>9

(* The highest of finitely many numbers.                                   *)
LEMMA HighestIsMax ==
    ASSUME NEW S \in SUBSET Int, IsFiniteSet(S), S # {}
    PROVE  Max(S) \in S /\ \A y \in S : Max(S) >= y
<1> DEFINE Tops == {T \in SUBSET S : T # {} /\ ~ \E x \in T : \A y \in T : x >= y}
<1>1. Tops = {}
  <2> SUFFICES ASSUME Tops # {} PROVE FALSE
    OBVIOUS
  <2>1. PICK T \in Tops : \A x \in T : T \ {x} \notin Tops
    <3>1. Tops \in SUBSET SUBSET S
      OBVIOUS
    <3> HIDE DEF Tops
    <3> QED
      BY <3>1, LeastSubset
  <2>2. PICK x \in T : TRUE
    OBVIOUS
  <2>3. CASE T = {x}
    BY <2>3
  <2>4. CASE T # {x}
    <3>1. PICK top \in T \ {x} : \A y \in T \ {x} : top >= y
      BY <2>1, <2>2, <2>4
    <3>2. x \in Int /\ top \in Int
      BY <2>2
    <3>3. CASE top >= x
      BY <3>1, <3>3
    <3>4. CASE x >= top
      <4>1. \A y \in T : y \in Int
        OBVIOUS
      <4>2. \A y \in T : x >= y
        BY <2>2, <3>1, <3>2, <3>4, <4>1
      <4> QED
        BY <2>2, <4>2
    <3> QED
      BY <3>2, <3>3, <3>4
  <2> QED
    BY <2>3, <2>4
<1>2. \E x \in S : \A y \in S : x >= y
  BY <1>1
<1> QED
  BY <1>2 DEF Max

-----------------------------------------------------------------------------
(* Sums of scores.                                                         *)

Scores(G) == IsFiniteSet(G) /\ \A s \in G : s.score \in Int

LEMMA BestIsHighest ==
    ASSUME NEW G, Scores(G), NEW id
    PROVE  /\ Best(G, id) \in Nat
           /\ \A s \in G : s.id = id => s.score =< Best(G, id)
           /\ Best(G, id) = 0 \/ \E s \in G : s.id = id /\ Best(G, id) = s.score
<1> DEFINE H == {x \in G : x.id = id}
           all == {0} \union {s.score : s \in H}
<1>1. IsFiniteSet(H)
  BY FS_Subset DEF Scores
<1>2. IsFiniteSet({s.score : s \in H})
  <2> DEFINE f == [s \in H |-> s.score]
  <2>1. {f[s] : s \in H} = {s.score : s \in H}
    OBVIOUS
  <2> HIDE DEF f
  <2>2. IsFiniteSet({f[s] : s \in H})
    BY <1>1, ImageIsFinite
  <2> QED
    BY <2>1, <2>2
<1>3. all \in SUBSET Int /\ all # {}
  BY DEF Scores
<1>4. IsFiniteSet(all)
  BY <1>2, FS_Union, FS_Singleton
<1>5. Max(all) \in all /\ \A y \in all : Max(all) >= y
  <2> HIDE DEF all
  <2> QED
    BY <1>3, <1>4, HighestIsMax
<1>6. Best(G, id) = Max(all)
  BY DEF Best
<1>7. 0 \in all /\ \A s \in H : s.score \in all
  OBVIOUS
<1> DEFINE top == Max(all)
<1>8. top = 0 \/ \E s \in H : top = s.score
  BY <1>5
<1>9. \A s \in H : s.score =< top
  BY <1>5, <1>7
<1>10. top \in Nat
  <2>1. top \in Int /\ top >= 0
    BY <1>3, <1>5, <1>7
  <2> HIDE DEF top
  <2> QED
    BY <2>1
<1> HIDE DEF top, all
<1> QED
  BY <1>6, <1>8, <1>9, <1>10 DEF top

Ids(G) == {s.id : s \in G}
BestOf(G) == [id \in Ids(G) |-> Best(G, id)]

LEMMA IdsAreFinite == \A G : Scores(G) => IsFiniteSet(Ids(G)) /\ BestOf(G) \in [Ids(G) -> Nat]
<1> SUFFICES ASSUME NEW G, Scores(G)
             PROVE  IsFiniteSet(Ids(G)) /\ BestOf(G) \in [Ids(G) -> Nat]
  OBVIOUS
<1> DEFINE f == [s \in G |-> s.id]
<1>1. {f[s] : s \in G} = Ids(G)
  BY DEF Ids
<1>2. IsFiniteSet(G)
  BY DEF Scores
<1> HIDE DEF f
<1>3. IsFiniteSet({f[s] : s \in G})
  BY <1>2, ImageIsFinite
<1>4. \A id \in Ids(G) : Best(G, id) \in Nat
  BY BestIsHighest
<1> QED
  BY <1>1, <1>3, <1>4 DEF BestOf

LEMMA SumOfBestIsSum ==
    ASSUME NEW G, Scores(G)
    PROVE  \E sum : IsSum(sum, BestOf(G), Ids(G)) /\ SumOfBest(G) = sum[Ids(G)]
<1> DEFINE Goes(sum) ==
             sum = [T \in SUBSET Ids(G) |->
                     IF T = {} THEN 0
                     ELSE Best(G, CHOOSE x \in T : TRUE) + sum[T \ {CHOOSE x \in T : TRUE}]]
           iter == CHOOSE sum : Goes(sum)
<1>1. \A sum : IsSum(sum, BestOf(G), Ids(G)) <=> Goes(sum)
  <2>1. \A T \in SUBSET Ids(G) : T # {} => BestOf(G)[Some(T)] = Best(G, CHOOSE x \in T : TRUE)
    BY SomeIsIn DEF BestOf, Some
  <2> QED
    BY <2>1 DEF IsSum, Some
<1>2. \E sum : Goes(sum)
  <2> HIDE DEF Goes
  <2> QED
    BY <1>1, SumExists, IdsAreFinite
<1>3. Goes(iter)
  <2> HIDE DEF Goes
  <2> QED
    BY <1>2
<1>4. SumOfBest(G) = iter[Ids(G)]
  BY DEF SumOfBest, MapThenSumSet, MapThenFoldSet, Ids
<1> HIDE DEF Goes, iter
<1> QED
  BY <1>1, <1>3, <1>4

(* A sum of best scores is a number, and it grows with the findings and    *)
(* their scores (rules.go:128-158).                                        *)
LEMMA SumOfBestIsNat == \A G : Scores(G) => SumOfBest(G) \in Nat
  BY SumOfBestIsSum, IdsAreFinite, SumIsNat

LEMMA SumOfBestGrows ==
    ASSUME NEW G, Scores(G), NEW H, Scores(H),
           \A s \in G : \E t \in H : t.id = s.id /\ s.score =< t.score
    PROVE  SumOfBest(G) =< SumOfBest(H)
<1>1. Ids(G) \subseteq Ids(H)
  BY DEF Ids
<1>2. ASSUME NEW id \in Ids(G) PROVE BestOf(G)[id] =< BestOf(H)[id]
  <2>1. Best(G, id) \in Nat /\ Best(H, id) \in Nat
    BY BestIsHighest
  <2>2. CASE Best(G, id) = 0
    BY <1>1, <2>1, <2>2 DEF BestOf
  <2>3. CASE Best(G, id) # 0
    <3>1. PICK s \in G : s.id = id /\ Best(G, id) = s.score
      BY <2>3, BestIsHighest
    <3>2. PICK t \in H : t.id = id /\ s.score =< t.score
      BY <3>1
    <3>3. t.score =< Best(H, id)
      BY <3>2, BestIsHighest
    <3>4. s.score \in Int /\ t.score \in Int
      BY <3>1, <3>2 DEF Scores
    <3>5. Best(G, id) =< Best(H, id)
      BY <2>1, <3>1, <3>2, <3>3, <3>4
    <3> QED
      BY <1>1, <3>5 DEF BestOf
  <2> QED
    BY <2>2, <2>3
<1>3. PICK sum : IsSum(sum, BestOf(G), Ids(G)) /\ SumOfBest(G) = sum[Ids(G)]
  BY SumOfBestIsSum
<1>4. PICK sum2 : IsSum(sum2, BestOf(H), Ids(H)) /\ SumOfBest(H) = sum2[Ids(H)]
  BY SumOfBestIsSum
<1>5. /\ IsFiniteSet(Ids(G)) /\ BestOf(G) \in [Ids(G) -> Nat]
      /\ IsFiniteSet(Ids(H)) /\ BestOf(H) \in [Ids(H) -> Nat]
  BY IdsAreFinite
<1>6. sum[Ids(G)] =< sum2[Ids(H)]
  BY <1>1, <1>2, <1>3, <1>4, <1>5, SumGrows
<1> QED
  BY <1>3, <1>4, <1>6

-----------------------------------------------------------------------------
(* Rules that trigger on what was saved in full trigger on the table.      *)

LEMMA ScoredFindings ==
    ASSUME NEW F, IsFiniteSet(F), \A f \in F : f.cvss \in Nat /\ f.epss \in Nat
    PROVE  Scores(Cvss(F)) /\ Scores(Risk(F))
<1> DEFINE cvss == [f \in F |-> [id |-> f.id, score |-> f.cvss]]
           risk == [f \in F |-> [id |-> f.id, score |-> f.cvss * f.epss]]
<1>1. Cvss(F) = {cvss[f] : f \in F} /\ Risk(F) = {risk[f] : f \in F}
  BY DEF Cvss, Risk
<1> HIDE DEF cvss, risk
<1>2. IsFiniteSet(Cvss(F)) /\ IsFiniteSet(Risk(F))
  BY <1>1, ImageIsFinite
<1>3. \A s \in Cvss(F) : s.score \in Int
  BY DEF Cvss
<1>4. \A s \in Risk(F) : s.score \in Int
  <2>1. \A a, b \in Nat : a * b \in Int
    OBVIOUS
  <2> QED
    BY <2>1 DEF Risk
<1> QED
  BY <1>2, <1>3, <1>4 DEF Scores

(* More findings, or higher scores, trigger more rules (rules.go:113-162). *)
LEMMA HigherTriggersMore ==
    ASSUME NEW rule \in Forms,
           NEW F, IsFiniteSet(F), \A f \in F : f.cvss \in Nat /\ f.epss \in Nat,
           NEW G, IsFiniteSet(G), \A g \in G : g.cvss \in Nat /\ g.epss \in Nat,
           \A f \in F : \E g \in G : g.id = f.id /\ f.cvss =< g.cvss /\ f.epss =< g.epss,
           CheckRule(rule, F)
    PROVE  CheckRule(rule, G)
<1> rule.threshold \in Int
  BY ScannersAssumption
<1>1. CASE rule.type \in {"cvss_max", "epss_max"}
  <2>1. ASSUME NEW f \in F, f.cvss > rule.threshold
        PROVE  \E g \in G : g.cvss > rule.threshold
    <3>1. PICK g \in G : f.cvss =< g.cvss
      OBVIOUS
    <3> QED
      BY <2>1, <3>1
  <2>2. ASSUME NEW f \in F, f.epss > rule.threshold
        PROVE  \E g \in G : g.epss > rule.threshold
    <3>1. PICK g \in G : f.epss =< g.epss
      OBVIOUS
    <3> QED
      BY <2>2, <3>1
  <2> QED
    BY <1>1, <2>1, <2>2 DEF CheckRule
<1>2. CASE rule.type = "cvss_sum"
  <2>1. Scores(Cvss(F)) /\ Scores(Cvss(G))
    BY ScoredFindings
  <2>2. ASSUME NEW s \in Cvss(F)
        PROVE  \E t \in Cvss(G) : t.id = s.id /\ s.score =< t.score
    <3>1. PICK f \in F : s = [id |-> f.id, score |-> f.cvss]
      BY DEF Cvss
    <3>2. PICK g \in G : g.id = f.id /\ f.cvss =< g.cvss
      OBVIOUS
    <3>3. [id |-> g.id, score |-> g.cvss] \in Cvss(G)
      BY DEF Cvss
    <3> QED
      BY <3>1, <3>2, <3>3
  <2>3. SumOfBest(Cvss(F)) =< SumOfBest(Cvss(G))
    BY <2>1, <2>2, SumOfBestGrows
  <2>4. SumOfBest(Cvss(F)) \in Nat /\ SumOfBest(Cvss(G)) \in Nat
    BY <2>1, SumOfBestIsNat
  <2>5. SumOfBest(Cvss(F)) > rule.threshold
    BY <1>2 DEF CheckRule
  <2> QED
    BY <1>2, <2>3, <2>4, <2>5 DEF CheckRule
<1>3. CASE rule.type = "cvss_epss_sum"
  <2>1. Scores(Risk(F)) /\ Scores(Risk(G))
    BY ScoredFindings
  <2>2. ASSUME NEW s \in Risk(F)
        PROVE  \E t \in Risk(G) : t.id = s.id /\ s.score =< t.score
    <3>1. PICK f \in F : s = [id |-> f.id, score |-> f.cvss * f.epss]
      BY DEF Risk
    <3>2. PICK g \in G : g.id = f.id /\ f.cvss =< g.cvss /\ f.epss =< g.epss
      OBVIOUS
    <3>3. \A a, b, c, d \in Nat : a =< b /\ c =< d => a * c =< b * d
      <4> SUFFICES ASSUME NEW a \in Nat, NEW b \in Nat, NEW c \in Nat, NEW d \in Nat,
                          a =< b, c =< d
                   PROVE  a * c =< b * d
        OBVIOUS
      <4> DEFINE k == b - a
                 m == d - c
      <4>1. k \in Nat /\ m \in Nat /\ b = a + k /\ d = c + m
        OBVIOUS
      <4> HIDE DEF k, m
      <4>2. b * d = a * c + (a * m + k * c + k * m)
        BY <4>1
      <4>3. \A x, y \in Nat : x * y \in Nat
        OBVIOUS
      <4>4. a * c \in Nat /\ a * m \in Nat /\ k * c \in Nat /\ k * m \in Nat
        BY <4>1, <4>3
      <4> QED
        BY <4>2, <4>4
    <3>4. f.cvss * f.epss =< g.cvss * g.epss
      BY <3>2, <3>3
    <3>5. [id |-> g.id, score |-> g.cvss * g.epss] \in Risk(G)
      BY DEF Risk
    <3> QED
      BY <3>1, <3>2, <3>4, <3>5
  <2>3. SumOfBest(Risk(F)) =< SumOfBest(Risk(G))
    BY <2>1, <2>2, SumOfBestGrows
  <2>4. SumOfBest(Risk(F)) \in Nat /\ SumOfBest(Risk(G)) \in Nat
    BY <2>1, SumOfBestIsNat
  <2>5. SumOfBest(Risk(F)) > rule.threshold
    BY <1>3 DEF CheckRule
  <2> QED
    BY <1>3, <2>3, <2>4, <2>5 DEF CheckRule
<1> QED
  BY <1>1, <1>2, <1>3 DEF CheckRule

LEMMA LowestIsMin ==
    ASSUME NEW S \in SUBSET Nat, NEW x \in S
    PROVE  Min(S) \in Nat /\ Min(S) =< x
  BY SomeLeast DEF Min

(* The row of a finding that was saved in full is no lower than the lowest *)
(* that was written for it.                                                *)
LEMMA LowestIsKept ==
    ASSUME SaveInv, NEW r \in Requests, asked[r] \in Packages
    PROVE  /\ IsFiniteSet(Lowest(r))
           /\ \A l \in Lowest(r) :
                /\ l.cvss \in Nat /\ l.epss \in Nat
                /\ \E g \in table[r] : g.id = l.id /\ l.cvss =< g.cvss /\ l.epss =< g.epss
<1> DEFINE rows(f) == {g \in written[r] : SameRow(g, f)}
           low == [f \in whole[r] |->
                     [id |-> f.id, source |-> f.source,
                      cvss |-> Min({g.cvss : g \in rows(f)}),
                      epss |-> Min({g.epss : g \in rows(f)})]]
<1>1. Lowest(r) = {low[f] : f \in whole[r]}
  BY DEF Lowest
<1>2. /\ IsFiniteSet(whole[r]) /\ table[r] \subseteq written[r]
      /\ \A g \in written[r] : Reportable(g, asked[r])
      /\ Covered(table[r], whole[r])
  BY DEF SaveInv, TablesAreFound
<1>3. IsFiniteSet(Lowest(r))
  <2> HIDE DEF low
  <2> QED
    BY <1>1, <1>2, ImageIsFinite
<1>4. \A g \in written[r] : g.cvss \in Nat /\ g.epss \in Nat
  BY <1>2, ReportableIsScored
<1>5. ASSUME NEW f \in whole[r]
      PROVE  /\ low[f].cvss \in Nat /\ low[f].epss \in Nat
             /\ \E g \in table[r] : /\ g.id = low[f].id /\ low[f].cvss =< g.cvss
                                    /\ low[f].epss =< g.epss
  <2>1. PICK g \in table[r] : SameRow(g, f)
    BY <1>2 DEF Covered
  <2> DEFINE cvss == {x.cvss : x \in rows(f)}
             epss == {x.epss : x \in rows(f)}
  <2>2. /\ cvss \in SUBSET Nat /\ g.cvss \in cvss
        /\ epss \in SUBSET Nat /\ g.epss \in epss
    BY <1>2, <1>4, <2>1
  <2>3. low[f] = [id |-> f.id, source |-> f.source, cvss |-> Min(cvss), epss |-> Min(epss)]
    OBVIOUS
  <2> HIDE DEF low, cvss, epss
  <2>4. /\ Min(cvss) \in Nat /\ Min(cvss) =< g.cvss
        /\ Min(epss) \in Nat /\ Min(epss) =< g.epss
    BY <2>2, LowestIsMin
  <2> QED
    BY <2>1, <2>3, <2>4 DEF SameRow
<1> HIDE DEF low
<1> QED
  BY <1>1, <1>3, <1>5

LEMMA KeptFollows == SaveInv => KeptFindingsTrigger
<1> SUFFICES ASSUME SaveInv, NEW r \in Requests, NEW rule \in Forms, CheckRule(rule, Lowest(r))
             PROVE  CheckRule(rule, table[r])
  BY DEF KeptFindingsTrigger
<1>1. CASE asked[r] = NoPackage
  <2>1. Lowest(r) = {} /\ table[r] = {}
    BY <1>1 DEF SaveInv, TablesAreFound, Lowest
  <2> QED
    BY <2>1
<1>2. CASE asked[r] \in Packages
  <2>1. /\ IsFiniteSet(table[r])
        /\ \A g \in table[r] : g.cvss \in Nat /\ g.epss \in Nat
    BY <1>2, ReportableIsScored DEF SaveInv, TablesAreFound
  <2> QED
    BY <1>2, <2>1, LowestIsKept, HigherTriggersMore
<1> QED
  BY <1>1, <1>2 DEF SaveInv, ScanInv, ScanTypeOK

(* The proxy may scan a request twice, also at once, and be told different *)
(* things.  A rule that triggers on the lowest scores ever written for the *)
(* findings that were saved in full triggers on the rows that              *)
(* rescanPending reads (admin.go:748-759), whichever type the rule is of.  *)
THEOREM KeptFindingsStand == Spec => []KeptFindingsTrigger
<1>1. Init => SaveInv
  BY InitSaveInv
<1>2. SaveInv /\ [Next]_vars => SaveInv'
  BY SaveStepKeeps
<1> QED
  BY <1>1, <1>2, KeptFollows, PTL DEF Spec
=============================================================================
