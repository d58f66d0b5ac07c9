------------------------------ MODULE Validators ------------------------------
(***************************************************************************)
(* The validators of artifacts (core/validators.go), over keys and         *)
(* contents of which the constants give what the validators look at.       *)
(***************************************************************************)
EXTENDS Naturals

CONSTANTS
    Keys,         \* cache keys
    Contents,     \* bytes with their content type
    NoContent,    \* nothing stored
    Hash,         \* the hash of each content, SHA256 or MD5
    KeyDigest,    \* the digest a key ends with, or None
    Listed,       \* the MD5 that the repository's index lists for a key, or None
    Size,         \* length of each content
    Type,         \* content type of each content
    Family,       \* the prefix of a key that the tables below are indexed by, or None
    AllowedTypes, \* content types allowed for a family
    MinSize,      \* smallest size allowed for a family
    HTMLPages,    \* contents that begin like an HTML page
    TextTypes     \* content types that say json or text/plain

None == "none"
Links == {"sha256", "content-type", "min-size", "md5", "no-error-page"}
Kinds == Links \union {"chain"}

ASSUME ValidatorsAssumption ==
    /\ Keys # {}
    /\ Size \in [Contents -> Nat]
    /\ HTMLPages \subseteq Contents

(* validators.go:21-36  only a key that ends in a digest is compared.      *)
DigestMatches(k, c) == KeyDigest[k] \in {None, Hash[c]}

(* validators.go:90-106                                                    *)
TypeAllowed(k, c) == Family[k] = None \/ Type[c] \in AllowedTypes[Family[k]]

(* validators.go:132-140                                                   *)
LargeEnough(k, c) == Family[k] = None \/ Size[c] >= MinSize[Family[k]]

(* validators.go:152-166                                                   *)
MD5Matches(k, c) == Listed[k] \in {None, Hash[c]}

(* validators.go:177-193  text and JSON are not looked into.               *)
NotErrorPage(c) == Type[c] \in TextTypes \/ c \notin HTMLPages

(* A validator by its name.                                                *)
Passes(v, k, c) ==
    /\ v = "sha256" => DigestMatches(k, c)
    /\ v = "content-type" => TypeAllowed(k, c)
    /\ v = "min-size" => LargeEnough(k, c)
    /\ v = "md5" => MD5Matches(k, c)
    /\ v = "no-error-page" => NotErrorPage(c)

(* validators.go:226-242  the chain runs all of them, whatever they say,   *)
(* and refuses what one of them refuses.                                   *)
Accepts(v, k, c) == \A link \in IF v = "chain" THEN Links ELSE {v} : Passes(link, k, c)
=============================================================================
