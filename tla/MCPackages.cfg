SPECIFICATION FairPackageSpec
CONSTANTS
    A = A  B = B  other = other
    a1 = a1  b1 = b1  b2 = b2  deb = deb  plain = plain  r1 = r1  r2 = r2  rz = rz  v1 = v1  v2 = v2
    tgz = tgz  mod = mod  junk = junk  k1 = k1  k2 = k2  c1 = c1
    Unlisted = Unlisted  Unsigned = Unsigned  Unreadable = Unreadable  NoKey = NoKey
    Packages = {A, B, other}
    Files = {a1, b1, b2, deb, plain, r1, r2, rz, tgz, mod}
    Bytes = {a1, b1, b2, deb, plain, r1, r2, rz, tgz, mod, junk}
    Wrong = {junk}
    Cut = Cut
    PackageOf <- MCPackageOf
    Tag <- MCTag
    Driver <- MCDriver
    Content <- MCContent
    Magic <- MCMagic
    Needs <- MCNeeds
    Pages <- MCPages
    Listings <- MCListings
    HasVersion <- MCVersion
    Release <- MCRelease
    Zipped = {rz}
    PublicKeys = {k1}
    Slot <- MCSlot
    SignedBy <- MCSignedBy
    RejectUnsigned = TRUE
    Verifies = TRUE
    Clients = {c1}
    MaxPulls = 2
    MaxEvents = 2
INVARIANTS CachedIsChecked FragmentIsServed DependenciesFiled
PROPERTIES HonestIsAccepted DebSumsStay PrefetchEnds
CHECK_DEADLOCK FALSE
