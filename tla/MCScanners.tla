----------------------------- MODULE MCScanners -----------------------------
(* A request for a package that OSV and Sonatype know or for an image,     *)
(* which only NVD is asked about.  OSV has two advisories for one CVE, of  *)
(* which it returns only the second at times; NVD has more than a page;    *)
(* and Sonatype has the CVE as the id of its advisory.  EPSS has one score *)
(* for the CVE, then a lower one.                                          *)
EXTENDS Scanners, SequencesExt

CONSTANTS pkg, img, cve1, cve2, osv1, osv2

Advisory(id, cve, vector, score) == [id |-> id, cve |-> cve, vector |-> vector, score |-> score]

Reports ==
    [OSV |-> [p \in Packages |-> LET late == Advisory(osv2, cve1, 5, 0) IN
                                 {<<Advisory(osv1, cve1, 9, 0), late>>, <<late>>}],
     NVD |-> [p \in Packages |->
                {IF p = img THEN <<Advisory(cve1, cve1, 0, 8), Advisory(cve2, cve2, 0, 5)>>
                            ELSE <<>>}],
     Sonatype |-> [p \in Packages |-> {<<Advisory(cve1, NoCve, 0, 8)>>}]]
EpssOfCve == {[c \in {cve1} |-> score] : score \in {2, 3}}

Form(type, threshold) ==
    [repo |-> "*", type |-> type, threshold |-> threshold, enabled |-> TRUE]
AllTypes == {Form("cvss_max", 7), Form("cvss_sum", 7),
             Form("epss_max", 1), Form("cvss_epss_sum", 15), Form("other", 0)}

-----------------------------------------------------------------------------
(* CheckRule against the loops of rules.go:113-162, on every list of at    *)
(* most two findings, repeated ones included.                              *)
SomeFindings ==
    [id : {cve1, cve2}, source : {"OSV"}, cvss : {0, 7}, epss : {0, 2}]
Lists == UNION {[1 .. n -> SomeFindings] : n \in 0 .. 2}

(* rules.go:131-139, 147-155  the best score of each id, in one pass.      *)
LoopSum(Score(_), list) ==
    LET best == FoldLeft(LAMBDA acc, f : IF Score(f) > acc[f.id]
                                         THEN [acc EXCEPT ![f.id] = Score(f)] ELSE acc,
                         [id \in {cve1, cve2} |-> 0], list)
    IN  best[cve1] + best[cve2]

(* The sums do not depend on the order or on repetitions.                  *)
ASSUME SumsAreLoops ==
    \A list \in Lists :
        /\ SumOfBest(Cvss(Range(list))) = LoopSum(LAMBDA f : f.cvss, list)
        /\ SumOfBest(Risk(Range(list))) = LoopSum(LAMBDA f : f.cvss * f.epss, list)

(* More findings trigger more rules: with them a request stays pending.    *)
ASSUME RulesAreMonotone ==
    \A F, G \in {Range(list) : list \in Lists}, rule \in AllTypes :
        F \subseteq G /\ CheckRule(rule, F) => CheckRule(rule, G)
=============================================================================
