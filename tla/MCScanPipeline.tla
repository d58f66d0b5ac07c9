--------------------------- MODULE MCScanPipeline ---------------------------
(* One signed image with a vulnerability that the strict rule blocks and   *)
(* the lax one does not; a rule may be submitted as disabled.              *)
EXTENDS ScanPipeline

CONSTANTS image, cve

NoBelow == {}
AllDocker == [k \in Keys |-> "docker"]
Finding == [id |-> cve, cvss |-> 7, epss |-> 1]
OneFinding == {Finding}
AllVulnerable == [k \in Keys |-> {Finding}]

Strict == [repo |-> "docker", type |-> "cvss_max", threshold |-> 6, enabled |-> TRUE]
Lax == [repo |-> "*", type |-> "cvss_sum", threshold |-> 8, enabled |-> TRUE]
LaxOff == Toggled(Lax, FALSE)
AnyForm == {Strict, Lax, LaxOff}
AnyTable == [RuleIds -> {NoRule, Strict, Lax}]
=============================================================================
