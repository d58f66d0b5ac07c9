----------------------------- MODULE MCRegistry -----------------------------
(* Two clients that ask for an image, and a blob that it pulls.            *)
EXTENDS Registry, TLC

CONSTANTS image, blob, cve, c1, c2, puller

NoPairs == {}
BlobBelowImage == {<<blob, image>>}
ImagePullsBlob == {<<image, blob>>}
AllDocker == [k \in Keys |-> "docker"]
Finding == [id |-> cve, cvss |-> 7, epss |-> 1]
OneFinding == {Finding}
AllVulnerable == [k \in Keys |-> {Finding}]

Severe == [id |-> cve, cvss |-> 9, epss |-> 1]
TwoFindings == {Finding, Severe}
BlobIsWorse == [k \in Keys |-> {IF k = blob THEN Severe ELSE Finding}]

Lax == [repo |-> "*", type |-> "cvss_sum", threshold |-> 8, enabled |-> TRUE]
OnlyLax == {[n \in RuleIds |-> Lax]}
LaxForm == {Lax}
ClientSymmetry == Permutations({c1, c2})
=============================================================================
