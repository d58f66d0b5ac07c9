------------------------------ MODULE MCPackages ------------------------------
(* Two wheels that need each other, the second in two builds of which one  *)
(* page names the better; a signed and an unsigned Debian package in two   *)
(* indexes; two versions of an R package, the first also as a binary that  *)
(* has an index of its own; and a package for npm and for Go.              *)
EXTENDS PackageDrivers, TLC

CONSTANTS A, B, other, a1, b1, b2, deb, plain, r1, r2, rz, v1, v2, tgz, mod, junk, k1, k2, c1

MCDriver == [f \in {a1, b1, b2} |-> "pip"] @@ [f \in {deb, plain} |-> "apt"] @@
            [f \in {r1, r2, rz} |-> "r"] @@ tgz :> "npm" @@ mod :> "go"
MCPackageOf == a1 :> A @@ [f \in {b1, b2} |-> B] @@ [f \in Files |-> other]
MCTag == a1 :> "cp3" @@ b1 :> "cp3" @@ b2 :> "py3-none-any" @@ [f \in Files |-> "none"]
MCContent == [f \in Files |-> f]
MCMagic == [f \in {r1, r2, tgz} |-> "gzip"] @@ [f \in {mod, rz} |-> "zip"] @@ [b \in Bytes |-> "other"]
MCNeeds == a1 :> {B} @@ b1 :> {A} @@ b2 :> {A} @@ [b \in Bytes |-> {}]
Link(f) == [file |-> f, url |-> f, sha |-> f]
MCPages == A :> {<<Link(a1)>>} @@ B :> {<<Link(b1)>>, <<Link(b1), Link(b2)>>} @@ other :> {}
Index(files, ended) == [files |-> files, ended |-> ended]
MCListings == "apt" :> {Index(<<deb>>, TRUE), Index(<<plain, deb>>, FALSE)} @@
              "r" :> {Index(<<r1, r2>>, FALSE), Index(<<rz>>, TRUE)}
MCSlot == [k \in PublicKeys |-> "99010d04"]
MCSignedBy == deb :> k1 @@ plain :> Unsigned @@ [b \in Bytes |-> Unreadable]
MCRelease == r2 :> v2 @@ [f \in {r1, rz} |-> v1]
MCVersion == [f \in Files |-> TRUE]
=============================================================================
