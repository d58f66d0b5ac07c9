SPECIFICATION FairDiskSpec
CONSTANTS
    blob = blob  v1 = v1  v2 = v2  p1 = p1  p2 = p2  t1 = t1
    NoContent = NoContent
    Keys = {blob}
    Contents = {v1, v2}
    Callers = {p1, p2}
    Touches = {t1}
    Installable = {"chain"}
    Hash <- MCHash
    KeyDigest <- MCKeyDigest
    Listed <- MCListed
    Size <- MCSize
    Type <- MCType
    Family <- MCFamily
    AllowedTypes <- MCAllowedTypes
    MinSize <- MCMinSize
    HTMLPages = {v2}
    TextTypes = {}
INVARIANTS DiskTypeOK ExistsHasData ValidatedBeforeWrite
PROPERTIES BlobSpec CallsReturn
