------------------------------ MODULE Accounts ------------------------------
(* Who may do what: the tables of users and groups (auth/basic/store.go,   *)
(* core/groupstore.go), the authenticators that name the sender of a       *)
(* request (auth/), the rights resolved from the groups of the sender, and *)
(* the handlers and commands that change the tables                        *)
(* (serviceweb/api/admin.go, cmd/user.go).                                 *)
(*                                                                         *)
(* A step is one statement on the database: a request reads the password,  *)
(* the groups of its sender and each of these groups in statements of      *)
(* their own, and changes a table in a later one, while other requests and *)
(* the command line do the same.                                           *)
EXTENDS Naturals

CONSTANTS
    Names,          \* user names, "admin" and "anonymous" among them
    Passwords,      \* the passwords in use; the default one is "admin"
    NoPassword,     \* the empty password, and the hash of an account without one
    GroupNames,     \* names of groups other than the reserved "admin"
    Repos,          \* the repositories a group may give access to
    Lists,          \* the group lists that an administrator enters
    RightSets,      \* the rights that an administrator gives to a group
    Clients,        \* senders of requests
    Configs,        \* configurations the server may be started with
    Htpasswd,       \* name and password pairs of the htpasswd file
    Directory,      \* name and password pairs that the LDAP server accepts
    DirectoryGroups,\* per name, the local groups its LDAP groups map to
    Databases,      \* the tables that the server may find when it first starts
    MaxChanges,     \* bound: changes of the tables
    NoUser, NoGroup, NoName, NoSession

ASSUME BoundAssumption == MaxChanges \in Nat
ASSUME NameAssumption ==
    /\ {"admin", "anonymous"} \subseteq Names
    /\ NoName \notin Names /\ NoName # NoSession
    /\ "admin" \notin GroupNames
    /\ "admin" \in Passwords
    /\ NoPassword \notin Passwords
    /\ Lists \subseteq SUBSET (GroupNames \cup {"admin"})

Rights == {"manage", "approve", "refresh"} \cup Repos

Groups == GroupNames \cup {"admin"}
Hashes == Passwords \cup {NoPassword}
User == [hash : Hashes, groups : SUBSET Groups, enabled : BOOLEAN]

ASSUME GrantAssumption ==
    /\ NoUser \notin User
    /\ RightSets \subseteq SUBSET Rights
    /\ DirectoryGroups \in [Names -> SUBSET Groups]
    /\ Directory \subseteq Names \X Passwords
    /\ Databases \subseteq [users : [Names -> User \cup {NoUser}],
                            groups : [GroupNames -> (SUBSET Rights) \cup {NoGroup}]]
    /\ Configs \subseteq [provider : {"none", "basic", "ldap", "oidc"}, local : BOOLEAN,
                          groupBase : BOOLEAN, keepsSecret : BOOLEAN]

VARIABLES
    users,    \* table users: per name the hash, the groups and the enabled flag
    groups,   \* table groups: per name the rights it gives
    config,   \* the configuration the server runs with
    browser,  \* per client, the name in its OIDC session cookie
    request,  \* per client, the request under way
    held,     \* history: groups the sender was a member of since it was named
    could,    \* history: rights these groups gave at some moment since
    barred,   \* history: accounts disabled and neither enabled nor removed since
    changes   \* number of changes of the tables

vars == <<users, groups, config, browser, request, held, could, barred, changes>>

Request == [phase : {"idle", "named", "resolving", "disabling"}, name : Names \cup {NoName},
            by : {"none", "table", "fallback", "ldap", "directory", "session"},
            groups : SUBSET Groups, todo : SUBSET GroupNames, rights : SUBSET Rights,
            target : Names \cup {NoName}]

Idle == [phase |-> "idle", name |-> NoName, by |-> "none", groups |-> {}, todo |-> {},
         rights |-> {}, target |-> NoName]

-----------------------------------------------------------------------------
(* The tables.                                                             *)

(* An empty table gets the account admin (store.go:87-114).                *)
Seeded(us) ==
    IF \A n \in Names : us[n] = NoUser
    THEN [us EXCEPT !["admin"] = [hash |-> "admin", groups |-> {"admin"}, enabled |-> TRUE]]
    ELSE us

(* A mutant: the conflict clause also writes the flag.                     *)
UpsertedEnabled(us, n, hash, gs) ==
    [us EXCEPT ![n] = [hash |-> hash, groups |-> gs, enabled |-> TRUE]]

(* AddUser and AddUserAnonymous: an account that exists keeps its flag and *)
(* gets the new hash and the new groups (store.go:145-188).                *)
Upserted(us, n, hash, gs) ==
    [us EXCEPT ![n] = IF @ = NoUser
                      THEN [hash |-> hash, groups |-> gs, enabled |-> TRUE]
                      ELSE [@ EXCEPT !.hash = hash, !.groups = gs]]

(* A mutant: the whole row is saved, and no column is left as it was.      *)
WithGroupsSaved(n, gs) == [users EXCEPT ![n] = [hash |-> NoPassword, groups |-> gs]]

(* An update of an account that is gone changes no row (store.go:167-194). *)
WithEnabled(n, on) == [users EXCEPT ![n] = IF @ = NoUser THEN @ ELSE [@ EXCEPT !.enabled = on]]
WithGroups(n, gs) == [users EXCEPT ![n] = IF @ = NoUser THEN @ ELSE [@ EXCEPT !.groups = gs]]

(* DBStore.Verify (store.go:119-135).                                      *)
InTable(n, p) == users[n] # NoUser /\ users[n].enabled /\ users[n].hash = p

(* BasicAuth.verify asks the htpasswd file, then the table (basic.go:74-85, *)
(* store.go:33-69).                                                        *)
Verified(n, p) == <<n, p>> \in Htpasswd \/ InTable(n, p)

(* The fallback looks at the hash alone (store.go:138-142).                *)
HasAnonymous == users["anonymous"] # NoUser /\ users["anonymous"].hash = NoPassword

(* lookupGroupsFromDB (auth.go:149-168).                                   *)
GroupsOf(n) == IF users[n] = NoUser THEN {} ELSE users[n].groups

(* What one group adds to the rights (groupstore.go:139-159).              *)
RightsOf(g) == IF groups[g] = NoGroup THEN {} ELSE groups[g]

-----------------------------------------------------------------------------
(* Authentication: each action names the sender of a new request.          *)

Named(c, n, by, gs) ==
    /\ request[c].phase = "idle"
    /\ request' = [request EXCEPT ![c] = [Idle EXCEPT !.phase = "named", !.name = n,
                                                      !.by = by, !.groups = gs]]
    /\ UNCHANGED <<users, groups, config, browser, barred, changes>>

(* Provider none names nobody (auth.go:236-239).                           *)
NoAuth(c) == config.provider = "none" /\ Named(c, NoName, "none", {})

(* A Basic header; with OIDC the local accounts answer it (basic.go:48-68, *)
(* auth.go:296-306).                                                       *)
Basic(c) ==
    /\ config.provider = "basic" \/ (config.provider = "oidc" /\ config.local)
    /\ \E n \in Names, p \in Hashes : Verified(n, p) /\ Named(c, n, "table", {})

(* No header, and an account anonymous without a password (basic.go:59-63).*)
Anonymous(c) == config.provider = "basic" /\ HasAnonymous /\ Named(c, "anonymous", "fallback", {})

(* The directory accepts the password; with a group base it also decides   *)
(* the groups, none when that search fails (ldap.go:126-237,               *)
(* auth.go:259-265).                                                       *)
Ldap(c) ==
    /\ config.provider = "ldap"
    /\ \E pair \in Directory :
           IF config.groupBase
           THEN \E gs \in {DirectoryGroups[pair[1]], {}} : Named(c, pair[1], "directory", gs)
           ELSE Named(c, pair[1], "ldap", {})

(* The directory refuses or does not answer, the table accepts             *)
(* (auth.go:266-271).                                                      *)
LdapFallback(c) ==
    /\ config.provider = "ldap" /\ config.local
    /\ \E n \in Names, p \in Passwords : InTable(n, p) /\ Named(c, n, "table", {})

(* The session cookie of the browser, with whatever name it carries        *)
(* (oidc.go:75-84, session.go:35-74).                                      *)
Session(c) ==
    /\ config.provider = "oidc"
    /\ browser[c] # NoSession
    /\ Named(c, browser[c], "session", {})

(* Login redirects to the provider, which sends the browser back to the    *)
(* callback with the state cookie it was given; the cookie is signed there,*)
(* with the empty name if the token has no email claim or one that cannot  *)
(* be parsed.  Logout and expiry end the session of the browser            *)
(* (oidc.go:94-105, 109-164, 167-176, session.go:26-32).                   *)
SetSession(c, session) ==
    /\ config.provider = "oidc"
    /\ browser' = [browser EXCEPT ![c] = session]
    /\ UNCHANGED <<users, groups, config, request, barred, changes>>

Callback(c) == \E n \in Names \cup {NoName} : SetSession(c, n)

Logout(c) == browser[c] # NoSession /\ SetSession(c, NoSession)

-----------------------------------------------------------------------------
(* The rights of a request.                                                *)

(* A mutant: an answer of the directory without groups counts as none.     *)
MembershipsOrTable(r) ==
    IF r.groups # {} \/ r.name = NoName THEN r.groups ELSE GroupsOf(r.name)

(* The groups of the sender: those the directory has resolved, even none,  *)
(* or those of the table; the table is not asked without a name            *)
(* (auth.go:136-143, userctx.go:43-50).                                    *)
SenderGroups(r) ==
    IF r.name = NoName \/ r.by = "directory" THEN r.groups ELSE GroupsOf(r.name)

(* groupEnrichAuth reads the groups of the sender unless the directory has *)
(* resolved them, then ResolvePerms starts: a request without a name, of   *)
(* whatever provider, and the group admin have all rights (auth.go:134-147,*)
(* admin.go:77-82, groupstore.go:127-137, userctx.go:20-50).               *)
Enrich(c) ==
    LET r == request[c]
        gs == SenderGroups(r)
        all == r.name = NoName \/ "admin" \in gs
    IN
    /\ r.phase = "named"
    /\ request' = [request EXCEPT ![c].phase = "resolving", ![c].groups = {},
                       ![c].todo = IF all THEN {} ELSE gs,
                       ![c].rights = IF all THEN Rights ELSE {}]
    /\ UNCHANGED <<users, groups, config, browser, barred, changes>>

(* The next group is read (groupstore.go:138-160).                         *)
Resolve(c) ==
    /\ request[c].phase = "resolving"
    /\ \E g \in request[c].todo :
           request' = [request EXCEPT ![c].todo = @ \ {g}, ![c].rights = @ \cup RightsOf(g)]
    /\ UNCHANGED <<users, groups, config, browser, barred, changes>>

Resolved(c) == request[c].phase = "resolving" /\ request[c].todo = {}

(* A request that changes no table: a refusal, a list, a pull, a decision  *)
(* (admin.go:74-86, registry.go:92-98).                                    *)
Answer(c) ==
    /\ Resolved(c)
    /\ request' = [request EXCEPT ![c] = Idle]
    /\ UNCHANGED <<users, groups, config, browser, barred, changes>>

-----------------------------------------------------------------------------
(* The handlers that change the tables, with the right to manage.          *)

Manages(c) == Resolved(c) /\ "manage" \in request[c].rights

Changed(us, gs, out) ==
    /\ changes < MaxChanges
    /\ changes' = changes + 1
    /\ users' = us /\ groups' = gs /\ barred' = out
    /\ UNCHANGED <<config, browser>>

Done(c) == request' = [request EXCEPT ![c] = Idle]

(* POST /users: the account is written enabled, and disabled by a second   *)
(* statement when asked for (admin.go:569-607).                            *)
CreateUser(c) ==
    /\ Manages(c)
    /\ \E n \in Names, p \in Hashes, gs \in Lists :
           /\ Changed(Upserted(users, n, p, gs), groups, barred)
           /\ \/ Done(c)
              \/ request' = [request EXCEPT ![c].phase = "disabling", ![c].target = n]

DisableCreated(c) ==
    /\ request[c].phase = "disabling"
    /\ Done(c)
    /\ LET n == request[c].target IN
       \/ Changed(WithEnabled(n, FALSE), groups,
                  IF users[n] = NoUser THEN barred ELSE barred \cup {n})
       \/ UNCHANGED <<users, groups, config, browser, barred, changes>>

(* DELETE /users/{name} (admin.go:641-650).                                *)
RemoveUser(c) ==
    /\ Manages(c) /\ Done(c)
    /\ \E n \in Names \ {"admin"} :
           Changed([users EXCEPT ![n] = NoUser], groups, barred \ {n})

(* PUT /users/{name} (admin.go:652-664).                                   *)
UpdateGroups(c) ==
    /\ Manages(c) /\ Done(c)
    /\ \E n \in Names, gs \in Lists : Changed(WithGroups(n, gs), groups, barred)

(* PUT /users/{name}/password: AddUser without groups (admin.go:666-683).  *)
SetPassword(c, n) ==
    /\ Manages(c) /\ Done(c)
    /\ \E p \in Passwords : Changed(Upserted(users, n, p, {}), groups, barred)

(* PUT /users/{name}/enabled (admin.go:685-697).                           *)
SetEnabled(c) ==
    /\ Manages(c) /\ Done(c)
    /\ \E n \in Names :
           \/ Changed(WithEnabled(n, TRUE), groups, barred \ {n})
           \/ Changed(WithEnabled(n, FALSE), groups,
                      IF users[n] = NoUser THEN barred ELSE barred \cup {n})

(* POST /groups leaves a group that exists as it is, PUT creates one that  *)
(* does not (admin.go:445-469, 486-508, groupstore.go:101-116).            *)
CreateGroup(c) ==
    /\ Manages(c) /\ Done(c)
    /\ \E g \in GroupNames, rs \in RightSets :
           Changed(users, [groups EXCEPT ![g] = IF @ = NoGroup THEN rs ELSE @], barred)

UpdateGroup(c) ==
    /\ Manages(c) /\ Done(c)
    /\ \E g \in GroupNames, rs \in RightSets : Changed(users, [groups EXCEPT ![g] = rs], barred)

(* DELETE /groups/{name}; its members keep the name (admin.go:510-515,     *)
(* groupstore.go:119-121).                                                 *)
DeleteGroup(c) ==
    /\ Manages(c) /\ Done(c)
    /\ \E g \in GroupNames : Changed(users, [groups EXCEPT ![g] = NoGroup], barred)

-----------------------------------------------------------------------------
(* The command line, a process of its own that first opens the table       *)
(* (cmd/user.go:35-76, 78-95, 124-170).                                    *)
UserAdd ==
    /\ \E n \in Names, p \in Passwords, gs \in Lists :
           Changed(Upserted(Seeded(users), n, p, gs), groups, barred)
    /\ UNCHANGED request

UserRemove ==
    /\ \E n \in Names : Changed([Seeded(users) EXCEPT ![n] = NoUser], groups, barred \ {n})
    /\ UNCHANGED request

UserPasswd ==
    /\ \E n \in Names, p \in Passwords :
           Changed(Upserted(Seeded(users), n, p, {}), groups, barred)
    /\ UNCHANGED request

(* The server stops and is started again with its configuration; a random  *)
(* secret is a new one, and no session signed with the old one is accepted *)
(* again (auth.go:33-119, root.go:229-240).                                *)
Restart ==
    /\ users' = Seeded(users)
    /\ request' = [c \in Clients |-> Idle]
    /\ browser' = [c \in Clients |-> IF config.keepsSecret THEN browser[c] ELSE NoSession]
    /\ UNCHANGED <<groups, config, barred, changes>>

-----------------------------------------------------------------------------
(* The history: the memberships of the sender until the rights of its      *)
(* request are resolved, and what they gave.                               *)
Memberships(c) ==
    LET r == request[c] IN
    IF r.name = NoName THEN {}
    ELSE IF r.by = "directory" THEN DirectoryGroups[r.name] ELSE GroupsOf(r.name)

Given(c) ==
    IF "admin" \in held[c] THEN Rights ELSE UNION {RightsOf(g) : g \in held[c]}

Settled(c) == Resolved(c) \/ request[c].phase = "disabling"

Observe ==
    /\ held' = [c \in Clients |-> IF request'[c].phase = "idle" THEN {}
                                  ELSE IF Settled(c) THEN held[c]
                                  ELSE held[c] \cup Memberships(c)']
    /\ could' = [c \in Clients |-> IF request'[c].phase = "idle" THEN {}
                                   ELSE IF Settled(c) THEN could[c]
                                   ELSE could[c] \cup Given(c)']

Init ==
    /\ \E d \in Databases : users = Seeded(d.users) /\ groups = d.groups
    /\ config \in Configs
    /\ browser = [c \in Clients |-> NoSession]
    /\ request = [c \in Clients |-> Idle]
    /\ held = [c \in Clients |-> {}]
    /\ could = [c \in Clients |-> {}]
    /\ barred = {}
    /\ changes = 0

Authenticate(c) ==
    NoAuth(c) \/ Basic(c) \/ Anonymous(c) \/ Ldap(c) \/ LdapFallback(c) \/ Session(c)

Manage(c) ==
    \/ CreateUser(c) \/ DisableCreated(c) \/ RemoveUser(c) \/ UpdateGroups(c)
    \/ (\E n \in Names : SetPassword(c, n)) \/ SetEnabled(c)
    \/ CreateGroup(c) \/ UpdateGroup(c) \/ DeleteGroup(c)

Step ==
    \/ \E c \in Clients :
           \/ Authenticate(c) \/ Callback(c) \/ Logout(c)
           \/ Enrich(c) \/ Resolve(c) \/ Answer(c) \/ Manage(c)
    \/ UserAdd \/ UserRemove \/ UserPasswd \/ Restart

Next == Step /\ Observe

AccountsSpec == Init /\ [][Next]_vars

-----------------------------------------------------------------------------
(* Properties.                                                             *)

(* Every variable has its type: accounts and requests refer to groups that *)
(* may be gone, and no row of the table groups is named "admin".           *)
AccountsTypeOK ==
    /\ users \in [Names -> User \cup {NoUser}]
    /\ groups \in [GroupNames -> (SUBSET Rights) \cup {NoGroup}]
    /\ config \in Configs
    /\ browser \in [Clients -> Names \cup {NoName, NoSession}]
    /\ request \in [Clients -> Request]
    /\ held \in [Clients -> SUBSET Groups]
    /\ could \in [Clients -> SUBSET Rights]
    /\ barred \in SUBSET Names
    /\ changes \in 0 .. MaxChanges

(* A request with a name has no right that no group of its sender gave at  *)
(* any moment since the sender was named, whatever was changed, deleted or *)
(* created between the statements that read the groups; a session gives    *)
(* nothing that the tables do not give to its user now, and where the      *)
(* directory decides, the local table gives nothing (groupstore.go:127-162,*)
(* auth.go:136-144).  A request without a name has every right.            *)
AuthorityIsGranted ==
    \A c \in Clients : request[c].name # NoName => request[c].rights \subseteq could[c]

(* No password of the table lets in the sender of a request for an account *)
(* that was disabled, until the account is enabled or removed: neither a   *)
(* new password nor another creation brings it back (store.go:116-117,     *)
(* 145-188).  The account may still be named without one, by the fallback  *)
(* for requests without credentials, a directory, a session or the         *)
(* htpasswd file.                                                          *)
BarredPasswordsFail ==
    [][\A c \in Clients, n \in barred :
           /\ request[c].phase = "idle" /\ request'[c].phase = "named"
           /\ request'[c].name = n /\ request'[c].by = "table"
           => \E p \in Hashes : <<n, p>> \in Htpasswd]_vars

(* admin.go:78 "If no username is present (provider "none"), implicit      *)
(* superadmin": only provider none leaves a request without a name.        *)
NoNameIsNoAuth ==
    \A c \in Clients :
        request[c].phase # "idle" /\ request[c].name = NoName => config.provider = "none"

(* A new password changes only the hash of an account (admin.go:678). The  *)
(* code also takes the groups of the account away.                         *)
PasswordKeepsGroups ==
    [][\A c \in Clients, n \in Names :
           SetPassword(c, n) /\ users[n] # NoUser => users'[n].groups = users[n].groups]_vars
=============================================================================
