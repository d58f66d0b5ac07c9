----------------------------- MODULE DebVerifier -----------------------------
(***************************************************************************)
(* The signature check of Debian packages (drivers/apt/gpg/verifier.go)    *)
(* against a keyring directory of one file per imported key.               *)
(***************************************************************************)
CONSTANTS
    PublicKeys,     \* keys that an administrator may import
    Slot,           \* Slot[k]: the first four bytes of the key k
    SignedBy,       \* SignedBy[b]: the key that signed b, Unsigned or Unreadable
    Unsigned,       \* an ar archive without a member _gpgorigin
    Unreadable,     \* no ar archive
    NoKey,          \* no file
    RejectUnsigned  \* Config.RejectUnsigned

ASSUME VerifierAssumption ==
    /\ {Unsigned, Unreadable, NoKey} \intersect PublicKeys = {} /\ Unsigned # Unreadable
    /\ RejectUnsigned \in BOOLEAN

Slots == {Slot[k] : k \in PublicKeys}

(* The directory: a key file for each name that is taken.                  *)
EmptyKeyring == [s \in Slots |-> NoKey]

(* ListKeys, verifier.go:109-120.                                          *)
Imported(keyring) == {keyring[s] : s \in Slots} \ {NoKey}

(* AddKey, verifier.go:79-106: the file is named by the first bytes of the *)
(* key.                                                                    *)
AddKey(keyring, k) == [keyring EXCEPT ![Slot[k]] = k]

(* verifier.go:132-200, 226-301; gpgv is asked only when the directory has *)
(* a key file, and accepts a signature by one of them.                     *)
VerifyDeb(keyring, b) ==
    CASE SignedBy[b] = Unreadable -> "error"
      [] SignedBy[b] = Unsigned /\ RejectUnsigned -> "ErrNoSignature"
      [] SignedBy[b] = Unsigned /\ ~ RejectUnsigned -> "ok"
      [] SignedBy[b] \in PublicKeys /\ Imported(keyring) = {} -> "error"
      [] SignedBy[b] \in PublicKeys /\ Imported(keyring) # {} ->
           IF SignedBy[b] \in Imported(keyring) THEN "ok" ELSE "ErrInvalidSignature"
=============================================================================
