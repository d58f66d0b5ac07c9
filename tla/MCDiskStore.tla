----------------------------- MODULE MCDiskStore -----------------------------
(* Two goroutines and a key that ends in the digest of one of its two      *)
(* contents: the other one is what a chain of validators refuses.          *)
EXTENDS DiskStore, TLC

CONSTANTS blob, v1, v2, p1, p2, t1

MCHash == v1 :> "h1" @@ v2 :> "h2"
MCKeyDigest == blob :> "h1"
MCListed == blob :> None
MCSize == v1 :> 2 @@ v2 :> 1
MCType == v1 :> "list" @@ v2 :> "html"
MCFamily == blob :> "blobs"
MCAllowedTypes == "blobs" :> {"list", "html"}
MCMinSize == "blobs" :> 2
=============================================================================
