-------------------------------- MODULE Rules --------------------------------
(***************************************************************************)
(* The rules of automatic approval (core/rules.go, core/db/db.go): a table *)
(* of rules by id, and what they say of the findings of a scan.            *)
(*                                                                         *)
(* A finding is a record with the fields id, cvss and epss, and others     *)
(* that no rule looks at.  Scores are whole numbers, and a threshold on    *)
(* products of scores is one of products; the arithmetic of floating point *)
(* numbers, which rounds, is left out.                                     *)
(***************************************************************************)
EXTENDS Integers, FiniteSetsExt

CONSTANTS
    RuleIds,   \* ids of rules
    Forms,     \* what an administrator may submit as a rule
    NoRule     \* no row

(* A rule that Create stores (rules.go:56-62, db.go:103-111): the column   *)
(* enabled has the default true, and a value that is false counts as none. *)
Stored(rule) == [rule EXCEPT !.enabled = TRUE]

Toggled(rule, on) == [rule EXCEPT !.enabled = on]

Rule == Forms \union {Toggled(rule, on) : rule \in Forms, on \in BOOLEAN}
Tables == [RuleIds -> Rule \union {NoRule}]

(* The table after Create, Update and Delete (rules.go:56-84); an update   *)
(* writes every column, and of an id that is gone writes nothing.          *)
Created(table, n, rule) == [table EXCEPT ![n] = Stored(rule)]
Updated(table, n, rule) == [table EXCEPT ![n] = IF @ = NoRule THEN @ ELSE rule]
Deleted(table, n) == [table EXCEPT ![n] = NoRule]

-----------------------------------------------------------------------------
(* Of several findings with one id, from several sources, the highest      *)
(* score counts, and no score counts as 0 (rules.go:131-136, 147-152).     *)
Best(scores, id) == Max({0} \union {s.score : s \in {x \in scores : x.id = id}})
SumOfBest(scores) == MapThenSumSet(LAMBDA id : Best(scores, id), {s.id : s \in scores})

Cvss(F) == {[id |-> f.id, score |-> f.cvss] : f \in F}
Risk(F) == {[id |-> f.id, score |-> f.cvss * f.epss] : f \in F}

(* checkRule (rules.go:113-162): whether the rule is triggered.  One of    *)
(* another type never is.                                                  *)
CheckRule(rule, F) ==
    \/ rule.type = "cvss_max" /\ \E f \in F : f.cvss > rule.threshold
    \/ rule.type = "epss_max" /\ \E f \in F : f.epss > rule.threshold
    \/ rule.type = "cvss_sum" /\ SumOfBest(Cvss(F)) > rule.threshold
    \/ rule.type = "cvss_epss_sum" /\ SumOfBest(Risk(F)) > rule.threshold

(* The enabled rules for a repository type (rules.go:93-95).               *)
Active(table, repo) ==
    {rule \in {table[n] : n \in RuleIds} \ {NoRule} :
        rule.enabled /\ rule.repo \in {repo, "*"}}

(* Evaluate (rules.go:91-110), as its callers use the answer (root.go:586, *)
(* admin.go:759): there are rules and none is triggered.                   *)
Passes(table, repo, F) ==
    /\ Active(table, repo) # {}
    /\ \A rule \in Active(table, repo) : ~ CheckRule(rule, F)
=============================================================================
