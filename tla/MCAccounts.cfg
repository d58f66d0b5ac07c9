SPECIFICATION AccountsSpec
CONSTANTS
    c1 = c1
    c2 = c2
    NoUser = NoUser  NoGroup = NoGroup  NoName = NoName  NoSession = NoSession
    NoPassword = NoPassword
    Names = {"admin", "anonymous"}
    Passwords = {"admin"}
    GroupNames = {"ops", "qa"}
    Repos = {"pip"}
    Lists <- MCLists
    RightSets <- MCRightSets
    Clients = {c1, c2}
    Configs <- MCConfigs
    Htpasswd = {}
    Directory <- MCDirectory
    DirectoryGroups <- MCDirectoryGroups
    Databases <- MCDatabases
    MaxChanges = 2
SYMMETRY ClientSymmetry
INVARIANTS AccountsTypeOK AuthorityIsGranted
PROPERTY BarredPasswordsFail
CHECK_DEADLOCK FALSE
