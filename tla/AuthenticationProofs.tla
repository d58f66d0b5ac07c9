------------------------ MODULE AuthenticationProofs ------------------------
(* The accounts for every set of names, groups, clients and configurations,*)
(* and the tracker of failed authentications for every set of addresses    *)
(* and handlers, every threshold and every duration of a block.            *)
EXTENDS Accounts, BruteForce, TLAPS

-----------------------------------------------------------------------------
(* Accounts and groups.                                                    *)

(* A request that is named has no right yet, and where the directory names *)
(* groups they are its own; the groups that are still to be read are       *)
(* memberships of the sender.                                              *)
RequestInv ==
    \A c \in Clients :
        LET r == request[c] IN
        /\ r.phase = "idle" => r = Idle
        /\ r.phase = "named" => r.todo = {} /\ r.rights = {}
        /\ r.by = "directory" => r.groups \subseteq DirectoryGroups[r.name]
        /\ r.todo \subseteq held[c]
        /\ r.phase = "disabling" => r.target \in Names

(* A barred account is there and disabled.                                 *)
BarredDisabled == \A n \in barred : users[n] # NoUser /\ users[n].enabled = FALSE

AccountsInv == AccountsTypeOK /\ RequestInv /\ AuthorityIsGranted /\ BarredDisabled

(* What a step does to the request of one client.                          *)
Starts(c) ==
    /\ request[c].phase = "idle"
    /\ \E n \in Names \cup {NoName}, by \in {"none", "table", "fallback", "ldap", "directory", "session"},
          gs \in SUBSET Groups :
           /\ request'[c] = [Idle EXCEPT !.phase = "named", !.name = n, !.by = by, !.groups = gs]
           /\ by = "directory" => gs \subseteq DirectoryGroups[n]
           /\ by = "table" /\ n \in barred => \E p \in Hashes : <<n, p>> \in Htpasswd

Enriches(c) ==
    LET r == request[c]
        gs == SenderGroups(r)
        all == r.name = NoName \/ "admin" \in gs
    IN
    /\ r.phase = "named"
    /\ request'[c] = [r EXCEPT !.phase = "resolving", !.groups = {},
                               !.todo = IF all THEN {} ELSE gs,
                               !.rights = IF all THEN Rights ELSE {}]
    /\ users' = users /\ groups' = groups

Resolves(c) ==
    /\ request[c].phase = "resolving"
    /\ \E g \in request[c].todo :
           request'[c] = [request[c] EXCEPT !.todo = @ \ {g}, !.rights = @ \cup RightsOf(g)]
    /\ users' = users /\ groups' = groups

Disables(c) ==
    /\ Resolved(c)
    /\ \E n \in Names : request'[c] = [request[c] EXCEPT !.phase = "disabling", !.target = n]

RequestMoves(c) ==
    \/ request'[c] = request[c] \/ request'[c] = Idle
    \/ Starts(c) \/ Enriches(c) \/ Resolves(c) \/ Disables(c)

(* What a step does to the tables.                                         *)
TablesMove ==
    /\ users' \in [Names -> User \cup {NoUser}]
    /\ groups' \in [GroupNames -> (SUBSET Rights) \cup {NoGroup}]
    /\ config' = config
    /\ browser' \in [Clients -> Names \cup {NoName, NoSession}]
    /\ barred' \in SUBSET Names
    /\ changes' \in 0 .. MaxChanges
    /\ request' = [c \in Clients |-> request'[c]]
    /\ BarredDisabled'

LEMMA SeededType ==
    ASSUME NEW us \in [Names -> User \cup {NoUser}]
    PROVE  /\ Seeded(us) \in [Names -> User \cup {NoUser}]
           /\ \A n \in Names : us[n] # NoUser => Seeded(us)[n] = us[n]
  BY NameAssumption DEF Seeded, User, Hashes, Groups

(* An account written again keeps its flag.                                *)
LEMMA UpsertedType ==
    ASSUME NEW us \in [Names -> User \cup {NoUser}], NEW n \in Names,
           NEW p \in Hashes, NEW gs \in SUBSET Groups
    PROVE  /\ Upserted(us, n, p, gs) \in [Names -> User \cup {NoUser}]
           /\ \A m \in Names : us[m] # NoUser /\ us[m].enabled = FALSE =>
                 Upserted(us, n, p, gs)[m] # NoUser /\ Upserted(us, n, p, gs)[m].enabled = FALSE
<1>1. Upserted(us, n, p, gs) \in [Names -> User \cup {NoUser}]
  BY DEF Upserted, User
<1>2. ASSUME NEW m \in Names, us[m] # NoUser, us[m].enabled = FALSE
      PROVE  Upserted(us, n, p, gs)[m] # NoUser /\ Upserted(us, n, p, gs)[m].enabled = FALSE
  <2>1. us[m] \in User
    BY <1>2
  <2>2. [us[m] EXCEPT !.hash = p, !.groups = gs] \in User
    BY <2>1 DEF User
  <2>3. [us[m] EXCEPT !.hash = p, !.groups = gs].enabled = FALSE
    BY <1>2, <2>1 DEF User
  <2>4. Upserted(us, n, p, gs)[m] =
           IF m = n THEN [us[m] EXCEPT !.hash = p, !.groups = gs] ELSE us[m]
    BY <1>2 DEF Upserted
  <2> QED
    BY <1>2, <2>2, <2>3, <2>4, GrantAssumption
<1> QED
  BY <1>1, <1>2

(* The requests that only read leave the tables as they are.               *)
LEMMA TablesKept ==
    ASSUME AccountsInv, UNCHANGED <<users, groups, config, browser, barred, changes>>,
           request' = [d \in Clients |-> request'[d]]
    PROVE  TablesMove
  BY DEF TablesMove, AccountsInv, AccountsTypeOK, BarredDisabled

(* A change of the tables to a well-typed one that keeps barred accounts   *)
(* disabled.                                                               *)
LEMMA ChangedMoves ==
    ASSUME AccountsInv, NEW us \in [Names -> User \cup {NoUser}],
           NEW gs \in [GroupNames -> (SUBSET Rights) \cup {NoGroup}], NEW out \in SUBSET Names,
           \A n \in out : us[n] # NoUser /\ us[n].enabled = FALSE,
           Changed(us, gs, out), request' = [d \in Clients |-> request'[d]]
    PROVE  TablesMove
  BY BoundAssumption DEF TablesMove, AccountsInv, AccountsTypeOK, BarredDisabled, Changed

(* What each authentication puts in the place of the request.              *)
LEMMA NamedMoves ==
    ASSUME AccountsInv, NEW c \in Clients, NEW n \in Names \cup {NoName},
           NEW by \in {"none", "table", "fallback", "ldap", "directory", "session"},
           NEW gs \in SUBSET Groups, Named(c, n, by, gs),
           by = "directory" => gs \subseteq DirectoryGroups[n],
           by = "table" /\ n \in barred => \E p \in Hashes : <<n, p>> \in Htpasswd
    PROVE  TablesMove /\ \A d \in Clients : RequestMoves(d)
<1>1. request' = [d \in Clients |-> request'[d]]
  BY DEF Named, AccountsInv, AccountsTypeOK
<1>2. TablesMove
  BY <1>1, TablesKept DEF Named
<1>3. /\ request[c].phase = "idle"
      /\ request'[c] = [Idle EXCEPT !.phase = "named", !.name = n, !.by = by, !.groups = gs]
  BY DEF Named, AccountsInv, AccountsTypeOK
<1>5. Starts(c)
  BY <1>3 DEF Starts
<1>4. \A d \in Clients \ {c} : request'[d] = request[d]
  BY DEF Named, AccountsInv, AccountsTypeOK
<1> QED
  BY <1>2, <1>4, <1>5 DEF RequestMoves

(* The table accepts no password of a barred account.                      *)
LEMMA TableRefusesBarred ==
    ASSUME AccountsInv, NEW n \in barred, NEW p
    PROVE  ~InTable(n, p)
  BY DEF AccountsInv, BarredDisabled, InTable

LEMMA AuthenticateMoves ==
    ASSUME AccountsInv, NEW c \in Clients, Authenticate(c)
    PROVE  TablesMove /\ \A d \in Clients : RequestMoves(d)
<1> USE NameAssumption
<1>1. CASE NoAuth(c)
  BY <1>1, NamedMoves DEF NoAuth
<1>2. CASE Basic(c)
  <2>1. PICK n \in Names, p \in Hashes : Verified(n, p) /\ Named(c, n, "table", {})
    BY <1>2 DEF Basic
  <2>2. n \in barred => <<n, p>> \in Htpasswd
    BY <2>1, TableRefusesBarred DEF Verified
  <2> QED
    BY <2>1, <2>2, NamedMoves
<1>3. CASE Anonymous(c)
  BY <1>3, NamedMoves DEF Anonymous
<1>4. CASE Ldap(c)
  <2>1. PICK pair \in Directory :
          IF config.groupBase
          THEN \E gs \in {DirectoryGroups[pair[1]], {}} : Named(c, pair[1], "directory", gs)
          ELSE Named(c, pair[1], "ldap", {})
    BY <1>4 DEF Ldap
  <2>2. pair[1] \in Names /\ DirectoryGroups[pair[1]] \subseteq Groups
    BY GrantAssumption
  <2>3. ASSUME NEW gs \in {DirectoryGroups[pair[1]], {}}, Named(c, pair[1], "directory", gs)
        PROVE  TablesMove /\ \A d \in Clients : RequestMoves(d)
    BY <2>2, <2>3, NamedMoves
  <2>4. ASSUME Named(c, pair[1], "ldap", {})
        PROVE  TablesMove /\ \A d \in Clients : RequestMoves(d)
    BY <2>2, <2>4, NamedMoves
  <2> QED
    BY <2>1, <2>3, <2>4
<1>5. CASE LdapFallback(c)
  <2>1. PICK n \in Names, p \in Passwords : InTable(n, p) /\ Named(c, n, "table", {})
    BY <1>5 DEF LdapFallback
  <2>2. n \notin barred
    BY <2>1, TableRefusesBarred
  <2> QED
    BY <2>1, <2>2, NamedMoves
<1>6. CASE Session(c)
  <2>1. browser[c] \in Names \cup {NoName}
    BY <1>6 DEF Session, AccountsInv, AccountsTypeOK
  <2> QED
    BY <1>6, <2>1, NamedMoves DEF Session
<1> QED
  BY <1>1, <1>2, <1>3, <1>4, <1>5, <1>6 DEF Authenticate

(* A handler that ends, and one that goes on to disable what it created.   *)
LEMMA DoneMoves ==
    ASSUME AccountsInv, NEW c \in Clients, Done(c)
    PROVE  request' = [d \in Clients |-> request'[d]] /\ \A d \in Clients : RequestMoves(d)
  BY DEF Done, RequestMoves, AccountsInv, AccountsTypeOK

LEMMA WithTypes ==
    ASSUME AccountsInv, NEW n \in Names, NEW gs \in SUBSET Groups, NEW on \in BOOLEAN
    PROVE  /\ WithGroups(n, gs) \in [Names -> User \cup {NoUser}]
           /\ WithEnabled(n, on) \in [Names -> User \cup {NoUser}]
           /\ \A m \in barred :
                 /\ WithGroups(n, gs)[m] # NoUser /\ WithGroups(n, gs)[m].enabled = FALSE
                 /\ ~on \/ m # n =>
                       WithEnabled(n, on)[m] # NoUser /\ WithEnabled(n, on)[m].enabled = FALSE
           /\ users[n] # NoUser =>
                 WithEnabled(n, FALSE)[n] # NoUser /\ WithEnabled(n, FALSE)[n].enabled = FALSE
<1> USE GrantAssumption DEF AccountsInv, AccountsTypeOK, BarredDisabled
<1>1. ASSUME NEW u \in User
      PROVE  /\ [u EXCEPT !.groups = gs] \in User /\ [u EXCEPT !.groups = gs].enabled = u.enabled
             /\ [u EXCEPT !.enabled = on] \in User
             /\ ~on => [u EXCEPT !.enabled = on].enabled = FALSE
             /\ [u EXCEPT !.enabled = FALSE] \in User /\ [u EXCEPT !.enabled = FALSE].enabled = FALSE
  BY DEF User
<1>2. /\ WithGroups(n, gs) \in [Names -> User \cup {NoUser}]
      /\ WithEnabled(n, on) \in [Names -> User \cup {NoUser}]
  BY <1>1 DEF WithGroups, WithEnabled
<1>3. ASSUME NEW m \in barred
      PROVE  /\ WithGroups(n, gs)[m] # NoUser /\ WithGroups(n, gs)[m].enabled = FALSE
             /\ ~on \/ m # n =>
                   WithEnabled(n, on)[m] # NoUser /\ WithEnabled(n, on)[m].enabled = FALSE
  <2>1. m \in Names /\ users[m] \in User /\ users[m].enabled = FALSE
    OBVIOUS
  <2>2. /\ WithGroups(n, gs)[m] = IF m = n THEN [users[m] EXCEPT !.groups = gs] ELSE users[m]
        /\ WithEnabled(n, on)[m] = IF m = n THEN [users[m] EXCEPT !.enabled = on] ELSE users[m]
    BY <2>1 DEF WithGroups, WithEnabled
  <2>3. CASE m = n
    <3>1. /\ [users[m] EXCEPT !.groups = gs] \in User
          /\ [users[m] EXCEPT !.groups = gs].enabled = FALSE
          /\ [users[m] EXCEPT !.enabled = on] \in User
          /\ ~on => [users[m] EXCEPT !.enabled = on].enabled = FALSE
      BY <1>1, <2>1
    <3> QED
      BY <2>2, <2>3, <3>1
  <2>4. CASE m # n
    BY <2>1, <2>2, <2>4
  <2> QED
    BY <2>3, <2>4
<1>4. ASSUME users[n] # NoUser
      PROVE  WithEnabled(n, FALSE)[n] # NoUser /\ WithEnabled(n, FALSE)[n].enabled = FALSE
  <2>1. WithEnabled(n, FALSE)[n] = [users[n] EXCEPT !.enabled = FALSE]
    BY <1>4 DEF WithEnabled
  <2>2. users[n] \in User
    BY <1>4
  <2>3. [users[n] EXCEPT !.enabled = FALSE] \in User
    BY <1>1, <2>2
  <2>4. [users[n] EXCEPT !.enabled = FALSE].enabled = FALSE
    BY <1>1, <2>2
  <2> QED
    BY <2>1, <2>3, <2>4
<1> QED
  BY <1>2, <1>3, <1>4

LEMMA ManageMoves ==
    ASSUME AccountsInv, NEW c \in Clients, Manage(c)
    PROVE  TablesMove /\ \A d \in Clients : RequestMoves(d)
<1>1. /\ users \in [Names -> User \cup {NoUser}]
      /\ groups \in [GroupNames -> (SUBSET Rights) \cup {NoGroup}]
      /\ barred \in SUBSET Names /\ BarredDisabled
      /\ \A gs \in Lists : gs \in SUBSET Groups
      /\ {} \in SUBSET Groups
      /\ \A rs \in RightSets : rs \in SUBSET Rights
      /\ Passwords \subseteq Hashes
  BY NameAssumption, GrantAssumption DEF AccountsInv, AccountsTypeOK, Groups, Hashes
<1>2. CASE CreateUser(c)
  <2>1. PICK n \in Names, p \in Hashes, gs \in Lists :
           /\ Changed(Upserted(users, n, p, gs), groups, barred)
           /\ \/ Done(c)
              \/ request' = [request EXCEPT ![c].phase = "disabling", ![c].target = n]
    BY <1>2 DEF CreateUser
  <2>2. request' = [d \in Clients |-> request'[d]] /\ \A d \in Clients : RequestMoves(d)
    <3>1. CASE Done(c)
      BY <3>1, DoneMoves
    <3>2. CASE request' = [request EXCEPT ![c].phase = "disabling", ![c].target = n]
      <4>1. request \in [Clients -> {request[d] : d \in Clients}] /\ request' = [d \in Clients |-> request'[d]]
        BY <3>2 DEF AccountsInv, AccountsTypeOK
      <4>2. Disables(c)
        BY <1>2, <3>2 DEF CreateUser, Manages, Disables, AccountsInv, AccountsTypeOK
      <4>3. \A d \in Clients \ {c} : request'[d] = request[d]
        BY <3>2 DEF AccountsInv, AccountsTypeOK
      <4> QED
        BY <4>1, <4>2, <4>3 DEF RequestMoves
    <3> QED
      BY <2>1, <3>1, <3>2
  <2>3. TablesMove
    <3>1. gs \in SUBSET Groups
      BY <1>1
    <3>2. \A m \in barred : Upserted(users, n, p, gs)[m] # NoUser
                             /\ Upserted(users, n, p, gs)[m].enabled = FALSE
      <4>1. \A m \in Names : users[m] # NoUser /\ users[m].enabled = FALSE =>
               Upserted(users, n, p, gs)[m] # NoUser /\ Upserted(users, n, p, gs)[m].enabled = FALSE
        BY <1>1, <3>1, UpsertedType
      <4> QED
        BY <1>1, <4>1 DEF BarredDisabled
    <3> QED
      BY <1>1, <2>1, <2>2, <3>1, <3>2, UpsertedType, ChangedMoves
  <2> QED
    BY <2>2, <2>3
<1>3. CASE DisableCreated(c)
  <2>1. request' = [d \in Clients |-> request'[d]] /\ \A d \in Clients : RequestMoves(d)
    BY <1>3, DoneMoves DEF DisableCreated
  <2>2. request[c].target \in Names
    BY <1>3 DEF DisableCreated, AccountsInv, RequestInv
  <2>3. CASE UNCHANGED <<users, groups, config, browser, barred, changes>>
    BY <2>1, <2>3, TablesKept
  <2>4. CASE Changed(WithEnabled(request[c].target, FALSE), groups,
                     IF users[request[c].target] = NoUser THEN barred
                     ELSE barred \cup {request[c].target})
    <3> DEFINE out == IF users[request[c].target] = NoUser THEN barred
                      ELSE barred \cup {request[c].target}
    <3>1. out \in SUBSET Names /\ {} \in SUBSET Groups
      BY <1>1, <2>2
    <3>2. WithEnabled(request[c].target, FALSE) \in [Names -> User \cup {NoUser}]
      BY <2>2, <3>1, WithTypes
    <3>3. \A n \in out : WithEnabled(request[c].target, FALSE)[n] # NoUser
                          /\ WithEnabled(request[c].target, FALSE)[n].enabled = FALSE
      BY <2>2, <3>1, WithTypes
    <3> QED
      BY <1>1, <2>1, <2>4, <3>1, <3>2, <3>3, ChangedMoves
  <2> QED
    BY <1>3, <2>1, <2>3, <2>4 DEF DisableCreated
<1>4. CASE RemoveUser(c)
  <2>1. request' = [d \in Clients |-> request'[d]] /\ \A d \in Clients : RequestMoves(d)
    BY <1>4, DoneMoves DEF RemoveUser
  <2>2. PICK n \in Names \ {"admin"} :
           Changed([users EXCEPT ![n] = NoUser], groups, barred \ {n})
    BY <1>4 DEF RemoveUser
  <2>3. /\ [users EXCEPT ![n] = NoUser] \in [Names -> User \cup {NoUser}]
        /\ barred \ {n} \in SUBSET Names
        /\ \A m \in barred \ {n} : /\ [users EXCEPT ![n] = NoUser][m] # NoUser
                                   /\ [users EXCEPT ![n] = NoUser][m].enabled = FALSE
    BY <1>1 DEF BarredDisabled
  <2> QED
    BY <1>1, <2>1, <2>2, <2>3, ChangedMoves
<1>5. CASE UpdateGroups(c)
  <2>1. request' = [d \in Clients |-> request'[d]] /\ \A d \in Clients : RequestMoves(d)
    BY <1>5, DoneMoves DEF UpdateGroups
  <2>2. PICK n \in Names, gs \in Lists : Changed(WithGroups(n, gs), groups, barred)
    BY <1>5 DEF UpdateGroups
  <2>3. gs \in SUBSET Groups /\ TRUE \in BOOLEAN
    BY <1>1
  <2>4. /\ WithGroups(n, gs) \in [Names -> User \cup {NoUser}]
        /\ \A m \in barred : WithGroups(n, gs)[m] # NoUser /\ WithGroups(n, gs)[m].enabled = FALSE
    BY <2>3, WithTypes
  <2> QED
    BY <1>1, <2>1, <2>2, <2>4, ChangedMoves
<1>6. CASE \E n \in Names : SetPassword(c, n)
  <2>1. PICK n \in Names : SetPassword(c, n)
    BY <1>6
  <2>2. request' = [d \in Clients |-> request'[d]] /\ \A d \in Clients : RequestMoves(d)
    BY <2>1, DoneMoves DEF SetPassword
  <2>3. PICK p \in Passwords : Changed(Upserted(users, n, p, {}), groups, barred)
    BY <2>1 DEF SetPassword
  <2>4. /\ Upserted(users, n, p, {}) \in [Names -> User \cup {NoUser}]
        /\ \A m \in barred : Upserted(users, n, p, {})[m] # NoUser
                             /\ Upserted(users, n, p, {})[m].enabled = FALSE
    <3>1. p \in Hashes
      BY <1>1
    <3>2. \A m \in Names : users[m] # NoUser /\ users[m].enabled = FALSE =>
             Upserted(users, n, p, {})[m] # NoUser /\ Upserted(users, n, p, {})[m].enabled = FALSE
      BY <1>1, <3>1, UpsertedType
    <3>3. Upserted(users, n, p, {}) \in [Names -> User \cup {NoUser}]
      BY <1>1, <3>1, UpsertedType
    <3> QED
      BY <1>1, <3>2, <3>3 DEF BarredDisabled
  <2> QED
    BY <1>1, <2>2, <2>3, <2>4, ChangedMoves
<1>7. CASE SetEnabled(c)
  <2>1. request' = [d \in Clients |-> request'[d]] /\ \A d \in Clients : RequestMoves(d)
    BY <1>7, DoneMoves DEF SetEnabled
  <2>2. ASSUME NEW n \in Names, Changed(WithEnabled(n, TRUE), groups, barred \ {n})
        PROVE  TablesMove
    <3>1. /\ WithEnabled(n, TRUE) \in [Names -> User \cup {NoUser}]
          /\ \A m \in barred \ {n} : WithEnabled(n, TRUE)[m] # NoUser
                                     /\ WithEnabled(n, TRUE)[m].enabled = FALSE
      BY <1>1, WithTypes
    <3> QED
      BY <1>1, <2>1, <2>2, <3>1, ChangedMoves
  <2>3. ASSUME NEW n \in Names,
               Changed(WithEnabled(n, FALSE), groups,
                       IF users[n] = NoUser THEN barred ELSE barred \cup {n})
        PROVE  TablesMove
    <3> DEFINE out == IF users[n] = NoUser THEN barred ELSE barred \cup {n}
    <3>1. /\ WithEnabled(n, FALSE) \in [Names -> User \cup {NoUser}]
          /\ out \in SUBSET Names
          /\ \A m \in out : WithEnabled(n, FALSE)[m] # NoUser
                            /\ WithEnabled(n, FALSE)[m].enabled = FALSE
      BY <1>1, WithTypes
    <3> QED
      BY <1>1, <2>1, <2>3, <3>1, ChangedMoves
  <2> QED
    BY <1>7, <2>1, <2>2, <2>3 DEF SetEnabled
<1>8. CASE CreateGroup(c) \/ UpdateGroup(c) \/ DeleteGroup(c)
  <2>1. request' = [d \in Clients |-> request'[d]] /\ \A d \in Clients : RequestMoves(d)
    BY <1>8, DoneMoves DEF CreateGroup, UpdateGroup, DeleteGroup
  <2>2. \E g \in GroupNames, rs \in RightSets \cup {NoGroup} :
           \/ Changed(users, [groups EXCEPT ![g] = IF @ = NoGroup THEN rs ELSE @], barred)
           \/ Changed(users, [groups EXCEPT ![g] = rs], barred)
    BY <1>8 DEF CreateGroup, UpdateGroup, DeleteGroup
  <2>3. \E gs \in [GroupNames -> (SUBSET Rights) \cup {NoGroup}] : Changed(users, gs, barred)
    BY <1>1, <2>2
  <2> QED
    BY <1>1, <2>1, <2>3, ChangedMoves DEF BarredDisabled
<1> QED
  BY <1>2, <1>3, <1>4, <1>5, <1>6, <1>7, <1>8 DEF Manage

(* The command line and a restart.                                         *)
LEMMA OtherProcessMoves ==
    ASSUME AccountsInv, UserAdd \/ UserRemove \/ UserPasswd \/ Restart
    PROVE  TablesMove /\ \A d \in Clients : RequestMoves(d)
<1> DEFINE su == Seeded(users)
<1>1. /\ su \in [Names -> User \cup {NoUser}]
      /\ groups \in [GroupNames -> (SUBSET Rights) \cup {NoGroup}]
      /\ barred \in SUBSET Names
      /\ \A m \in barred : su[m] # NoUser /\ su[m].enabled = FALSE
      /\ request = [d \in Clients |-> request[d]]
  BY SeededType DEF AccountsInv, AccountsTypeOK, BarredDisabled
<1>2. /\ \A gs \in Lists : gs \in SUBSET Groups
      /\ {} \in SUBSET Groups
      /\ Passwords \subseteq Hashes
  BY NameAssumption DEF Groups, Hashes
<1> HIDE DEF su
<1>3. ASSUME NEW n \in Names, NEW p \in Passwords, NEW gs \in SUBSET Groups, UNCHANGED request,
             Changed(Upserted(su, n, p, gs), groups, barred)
      PROVE  TablesMove
  <2>1. /\ Upserted(su, n, p, gs) \in [Names -> User \cup {NoUser}]
        /\ \A m \in Names : su[m] # NoUser /\ su[m].enabled = FALSE =>
             Upserted(su, n, p, gs)[m] # NoUser /\ Upserted(su, n, p, gs)[m].enabled = FALSE
    BY <1>1, <1>2, UpsertedType
  <2>2. \A m \in barred : Upserted(su, n, p, gs)[m] # NoUser
                          /\ Upserted(su, n, p, gs)[m].enabled = FALSE
    BY <1>1, <2>1
  <2> QED
    BY <1>1, <1>3, <2>1, <2>2, ChangedMoves
<1>4. CASE UserAdd \/ UserPasswd
  <2>1. UNCHANGED request
    BY <1>4 DEF UserAdd, UserPasswd
  <2>2. \E n \in Names, p \in Passwords, gs \in SUBSET Groups :
           Changed(Upserted(su, n, p, gs), groups, barred)
    BY <1>2, <1>4 DEF UserAdd, UserPasswd, su
  <2> QED
    BY <1>3, <2>1, <2>2 DEF RequestMoves
<1>5. CASE UserRemove
  <2>1. UNCHANGED request
    BY <1>5 DEF UserRemove
  <2>2. PICK n \in Names : Changed([su EXCEPT ![n] = NoUser], groups, barred \ {n})
    BY <1>5 DEF UserRemove, su
  <2>3. /\ [su EXCEPT ![n] = NoUser] \in [Names -> User \cup {NoUser}]
        /\ barred \ {n} \in SUBSET Names
        /\ \A m \in barred \ {n} : /\ [su EXCEPT ![n] = NoUser][m] # NoUser
                                   /\ [su EXCEPT ![n] = NoUser][m].enabled = FALSE
    BY <1>1
  <2>4. TablesMove
    BY <1>1, <2>1, <2>2, <2>3, ChangedMoves
  <2> QED
    BY <2>1, <2>4 DEF RequestMoves
<1>6. CASE Restart
  <2>1. /\ \A d \in Clients : request'[d] = Idle
        /\ request' = [d \in Clients |-> request'[d]]
        /\ users' = su /\ UNCHANGED <<groups, config, barred, changes>>
        /\ browser' \in [Clients -> Names \cup {NoName, NoSession}]
    BY <1>6 DEF Restart, su, AccountsInv, AccountsTypeOK
  <2>2. TablesMove
    BY <1>1, <2>1 DEF TablesMove, AccountsInv, AccountsTypeOK, BarredDisabled
  <2> QED
    BY <2>1, <2>2 DEF RequestMoves
<1> QED
  BY <1>4, <1>5, <1>6

(* Every step moves each request, and the tables, in one of these ways.    *)
LEMMA StepMoves ==
    ASSUME AccountsInv, Step
    PROVE  TablesMove /\ \A d \in Clients : RequestMoves(d)
<1>1. CASE UserAdd \/ UserRemove \/ UserPasswd \/ Restart
  BY <1>1, OtherProcessMoves
<1>2. ASSUME NEW c \in Clients, Authenticate(c) \/ Manage(c)
      PROVE  TablesMove /\ \A d \in Clients : RequestMoves(d)
  BY <1>2, AuthenticateMoves, ManageMoves
<1>3. ASSUME NEW c \in Clients, Callback(c) \/ Logout(c)
      PROVE  TablesMove /\ \A d \in Clients : RequestMoves(d)
  BY <1>3 DEF Callback, Logout, SetSession, RequestMoves, TablesMove, AccountsInv,
              AccountsTypeOK, BarredDisabled
<1>4. ASSUME NEW c \in Clients, Answer(c)
      PROVE  TablesMove /\ \A d \in Clients : RequestMoves(d)
  <2>1. UNCHANGED <<users, groups, config, browser, barred, changes>> /\ Done(c)
    BY <1>4 DEF Answer, Done
  <2> QED
    BY <2>1, DoneMoves, TablesKept
<1>5. ASSUME NEW c \in Clients, Enrich(c) \/ Resolve(c)
      PROVE  TablesMove /\ \A d \in Clients : RequestMoves(d)
  <2>1. /\ UNCHANGED <<users, groups, config, browser, barred, changes>>
        /\ request' = [d \in Clients |-> request'[d]]
        /\ \A d \in Clients \ {c} : request'[d] = request[d]
    BY <1>5 DEF Enrich, Resolve, AccountsInv, AccountsTypeOK
  <2>2. Enriches(c) \/ Resolves(c)
    <3>1. CASE Enrich(c)
      BY <3>1 DEF Enrich, Enriches, AccountsInv, AccountsTypeOK
    <3>2. CASE Resolve(c)
      BY <3>2 DEF Resolve, Resolves, AccountsInv, AccountsTypeOK
    <3> QED
      BY <1>5, <3>1, <3>2
  <2> QED
    BY <2>1, <2>2, TablesKept DEF RequestMoves
<1> QED
  BY <1>1, <1>2, <1>3, <1>4, <1>5 DEF Step

(* The history of one client, unfolded.                                    *)
LEMMA ObserveOne ==
    ASSUME Observe, NEW c \in Clients
    PROVE  /\ held'[c] = IF request'[c].phase = "idle" THEN {}
                         ELSE IF Settled(c) THEN held[c] ELSE held[c] \cup Memberships(c)'
           /\ could'[c] = IF request'[c].phase = "idle" THEN {}
                          ELSE IF Settled(c) THEN could[c] ELSE could[c] \cup Given(c)'
  BY DEF Observe

LEMMA RightsTyped ==
    ASSUME AccountsTypeOK, NEW g \in GroupNames
    PROVE  RightsOf(g) \subseteq Rights
  BY DEF AccountsTypeOK, RightsOf

(* The request of a client after a step has its type.                      *)
LEMMA RequestTyped ==
    ASSUME AccountsInv, NEW c \in Clients, RequestMoves(c)
    PROVE  request'[c] \in Request
<1> USE DEF AccountsInv, AccountsTypeOK
<1>1. request[c] \in Request /\ Idle \in Request
  BY DEF Idle, Request
<1>2. CASE Starts(c)
  <2>1. PICK n \in Names \cup {NoName}, by \in {"none", "table", "fallback", "ldap", "directory", "session"},
          gs \in SUBSET Groups :
           request'[c] = [Idle EXCEPT !.phase = "named", !.name = n, !.by = by, !.groups = gs]
    BY <1>2 DEF Starts
  <2> QED
    BY <2>1 DEF Idle, Request
<1>3. CASE Enriches(c)
  <2>1. SenderGroups(request[c]) \subseteq Groups
    <3>1. request[c].groups \subseteq Groups /\ request[c].name \in Names \cup {NoName}
      BY <1>1 DEF Request
    <3>2. \A n \in Names : GroupsOf(n) \subseteq Groups
      BY DEF GroupsOf, User
    <3> QED
      BY <3>1, <3>2 DEF SenderGroups
  <2>2. PICK T \in SUBSET GroupNames, R \in SUBSET Rights :
           request'[c] = [request[c] EXCEPT !.phase = "resolving", !.groups = {}, !.todo = T,
                                            !.rights = R]
    <3> DEFINE gs == SenderGroups(request[c])
               all == request[c].name = NoName \/ "admin" \in gs
    <3>1. request'[c] = [request[c] EXCEPT !.phase = "resolving", !.groups = {},
                            !.todo = IF all THEN {} ELSE gs, !.rights = IF all THEN Rights ELSE {}]
      BY <1>3 DEF Enriches
    <3>2. (IF all THEN {} ELSE gs) \in SUBSET GroupNames
      BY <2>1 DEF Groups
    <3>3. (IF all THEN Rights ELSE {}) \in SUBSET Rights
      OBVIOUS
    <3> QED
      BY <3>1, <3>2, <3>3
  <2> QED
    BY <1>1, <2>2 DEF Request
<1>4. CASE Resolves(c)
  <2>1. PICK g \in request[c].todo :
           request'[c] = [request[c] EXCEPT !.todo = @ \ {g}, !.rights = @ \cup RightsOf(g)]
    BY <1>4 DEF Resolves
  <2>2. g \in GroupNames
    BY <1>1 DEF Request
  <2>3. RightsOf(g) \subseteq Rights
    BY <2>2, RightsTyped
  <2> QED
    BY <1>1, <2>1, <2>3 DEF Request
<1>5. CASE Disables(c)
  BY <1>1, <1>5 DEF Disables, Request
<1> QED
  BY <1>1, <1>2, <1>3, <1>4, <1>5 DEF RequestMoves

(* The history after a step has its type and has only grown.               *)
LEMMA HistoryTyped ==
    ASSUME AccountsInv, TablesMove, Observe, NEW c \in Clients, RequestMoves(c)
    PROVE  /\ held'[c] \subseteq Groups /\ could'[c] \subseteq Rights
           /\ request'[c].phase # "idle" => held[c] \subseteq held'[c] /\ could[c] \subseteq could'[c]
<1>1. /\ held[c] \subseteq Groups /\ could[c] \subseteq Rights
      /\ users' \in [Names -> User \cup {NoUser}]
      /\ groups' \in [GroupNames -> (SUBSET Rights) \cup {NoGroup}]
  BY DEF AccountsInv, AccountsTypeOK, TablesMove
<1>2. request'[c] \in Request
  BY RequestTyped
<1>3. Memberships(c)' \subseteq Groups
  <2>1. request'[c].name \in Names \cup {NoName}
    BY <1>2 DEF Request
  <2>2. \A n \in Names : GroupsOf(n)' \subseteq Groups
    BY <1>1 DEF GroupsOf, User
  <2> QED
    BY <2>1, <2>2, GrantAssumption DEF Memberships
<1>4. CASE request'[c].phase = "idle"
  BY <1>4, ObserveOne
<1>5. CASE request'[c].phase # "idle"
  <2>1. held[c] \subseteq held'[c] /\ held'[c] \subseteq Groups
    BY <1>1, <1>3, <1>5, ObserveOne
  <2>2. Given(c)' \subseteq Rights
    <3>1. \A g \in GroupNames : RightsOf(g)' \subseteq Rights
      BY <1>1 DEF RightsOf
    <3> QED
      BY <2>1, <3>1 DEF Given, Groups
  <2>3. could[c] \subseteq could'[c] /\ could'[c] \subseteq Rights
    BY <1>1, <1>5, <2>2, ObserveOne
  <2> QED
    BY <2>1, <2>3
<1> QED
  BY <1>4, <1>5

(* The rights a step resolves were given, and what remains to be read are  *)
(* memberships.                                                            *)
LEMMA MovesGranted ==
    ASSUME AccountsInv, TablesMove, Observe, NEW c \in Clients, RequestMoves(c)
    PROVE  /\ request'[c].name # NoName => request'[c].rights \subseteq could'[c]
           /\ request'[c].todo \subseteq held'[c]
<1>1. /\ request[c] \in Request /\ request'[c] \in Request
      /\ request[c].name # NoName => request[c].rights \subseteq could[c]
      /\ request[c].todo \subseteq held[c]
  BY RequestTyped DEF AccountsInv, AccountsTypeOK, AuthorityIsGranted, RequestInv
<1>2. request'[c].phase # "idle" => held[c] \subseteq held'[c] /\ could[c] \subseteq could'[c]
  BY HistoryTyped
<1>3. CASE request'[c] = Idle \/ Starts(c)
  <2>1. request'[c].rights = {} /\ request'[c].todo = {}
    <3>1. CASE request'[c] = Idle
      BY <3>1 DEF Idle
    <3>2. CASE Starts(c)
      BY <3>2 DEF Starts, Idle
    <3> QED
      BY <1>3, <3>1, <3>2
  <2> QED
    BY <2>1
<1>4. CASE request'[c] = request[c] /\ request[c].phase # "idle"
  BY <1>1, <1>2, <1>4
<1>5. CASE request'[c] = request[c] /\ request[c].phase = "idle"
  BY <1>3, <1>5 DEF AccountsInv, RequestInv
<1>6. CASE Disables(c)
  BY <1>1, <1>2, <1>6 DEF Disables, Request
<1>7. CASE Enriches(c)
  <2> DEFINE gs == SenderGroups(request[c])
  <2>1. /\ request'[c].phase = "resolving"
        /\ request'[c].name = request[c].name /\ request'[c].by = request[c].by
        /\ request'[c].todo = IF request[c].name = NoName \/ "admin" \in gs THEN {} ELSE gs
        /\ request'[c].rights = IF request[c].name = NoName \/ "admin" \in gs THEN Rights ELSE {}
        /\ request[c].phase = "named" /\ users' = users
    BY <1>1, <1>7 DEF Enriches, Request
  <2>2. /\ held'[c] = held[c] \cup Memberships(c)'
        /\ could'[c] = could[c] \cup Given(c)'
    BY <2>1, ObserveOne DEF Settled, Resolved
  <2>3. request[c].name # NoName => gs \subseteq Memberships(c)'
    <3>1. request[c].by = "directory" => request[c].groups \subseteq DirectoryGroups[request[c].name]
      BY DEF AccountsInv, RequestInv
    <3> QED
      BY <2>1, <3>1 DEF Memberships, SenderGroups, GroupsOf
  <2>4. request[c].name # NoName /\ "admin" \in gs => Given(c)' = Rights
    BY <2>1, <2>2, <2>3 DEF Given
  <2> QED
    BY <2>1, <2>2, <2>3, <2>4
<1>8. CASE Resolves(c)
  <2>1. PICK g \in request[c].todo :
           request'[c] = [request[c] EXCEPT !.todo = @ \ {g}, !.rights = @ \cup RightsOf(g)]
    BY <1>8 DEF Resolves
  <2>2. /\ request'[c].phase = "resolving"
        /\ request'[c].todo = request[c].todo \ {g}
        /\ request'[c].rights = request[c].rights \cup RightsOf(g)
        /\ request'[c].name = request[c].name
        /\ ~Settled(c)
    BY <1>1, <1>8, <2>1 DEF Resolves, Request, Settled, Resolved
  <2>3. could'[c] = could[c] \cup Given(c)' /\ g \in held'[c]
    BY <1>1, <1>2, <2>2, ObserveOne
  <2>4. RightsOf(g) \subseteq Given(c)'
    <3>1. g \in GroupNames /\ RightsOf(g) \subseteq Rights
      <4>1. g \in GroupNames
        BY <1>1 DEF Request
      <4> QED
        BY <4>1, RightsTyped DEF AccountsInv
    <3>2. RightsOf(g)' = RightsOf(g)
      BY <1>8 DEF Resolves, RightsOf
    <3> QED
      BY <2>3, <3>1, <3>2 DEF Given
  <2> QED
    BY <1>1, <1>2, <2>2, <2>3, <2>4
<1> QED
  BY <1>3, <1>4, <1>5, <1>6, <1>7, <1>8 DEF RequestMoves

(* The rest of the invariant of one request.                               *)
LEMMA RequestKept ==
    ASSUME AccountsInv, NEW c \in Clients, RequestMoves(c)
    PROVE  LET r == request'[c] IN
           /\ r.phase = "idle" => r = Idle
           /\ r.phase = "named" => r.todo = {} /\ r.rights = {}
           /\ r.by = "directory" => r.groups \subseteq DirectoryGroups[r.name]
           /\ r.phase = "disabling" => r.target \in Names
<1>1. /\ request[c] \in Request
      /\ request[c].phase = "idle" => request[c] = Idle
      /\ request[c].phase = "named" => request[c].todo = {} /\ request[c].rights = {}
      /\ request[c].by = "directory" =>
            request[c].groups \subseteq DirectoryGroups[request[c].name]
      /\ request[c].phase = "disabling" => request[c].target \in Names
  BY DEF AccountsInv, AccountsTypeOK, RequestInv
<1>2. CASE request'[c] = request[c]
  BY <1>1, <1>2
<1>3. CASE request'[c] = Idle
  BY <1>3 DEF Idle
<1>4. CASE Starts(c)
  <2>1. PICK n \in Names \cup {NoName}, by \in {"none", "table", "fallback", "ldap", "directory", "session"},
          gs \in SUBSET Groups :
           /\ request'[c] = [Idle EXCEPT !.phase = "named", !.name = n, !.by = by, !.groups = gs]
           /\ by = "directory" => gs \subseteq DirectoryGroups[n]
    BY <1>4 DEF Starts
  <2> QED
    BY <2>1 DEF Idle
<1>5. CASE Enriches(c)
  <2>1. request'[c].groups = {} /\ request'[c].phase = "resolving"
    BY <1>1, <1>5 DEF Enriches, Request
  <2> QED
    BY <2>1
<1>6. CASE Resolves(c)
  <2>1. /\ request'[c].groups = request[c].groups /\ request'[c].by = request[c].by
        /\ request'[c].name = request[c].name /\ request'[c].phase = "resolving"
    BY <1>1, <1>6 DEF Resolves, Request
  <2> QED
    BY <1>1, <2>1
<1>7. CASE Disables(c)
  <2>1. /\ request'[c].groups = request[c].groups /\ request'[c].by = request[c].by
        /\ request'[c].name = request[c].name /\ request'[c].phase = "disabling"
        /\ request'[c].target \in Names
    BY <1>1, <1>7 DEF Disables, Request
  <2> QED
    BY <1>1, <2>1
<1> QED
  BY <1>2, <1>3, <1>4, <1>5, <1>6, <1>7 DEF RequestMoves

LEMMA InitInv == Init => AccountsInv
<1> SUFFICES ASSUME Init PROVE AccountsInv
  OBVIOUS
<1>1. Idle \in Request
  BY DEF Idle, Request
<1>2. PICK d \in Databases : users = Seeded(d.users) /\ groups = d.groups
  BY DEF Init
<1>3. /\ users \in [Names -> User \cup {NoUser}]
      /\ groups \in [GroupNames -> (SUBSET Rights) \cup {NoGroup}]
  BY <1>2, GrantAssumption, SeededType
<1>4. AccountsTypeOK
  BY <1>1, <1>3, BoundAssumption DEF Init, AccountsTypeOK
<1>5. RequestInv /\ AuthorityIsGranted /\ BarredDisabled
  BY DEF Init, RequestInv, AuthorityIsGranted, BarredDisabled, Idle
<1> QED
  BY <1>4, <1>5 DEF AccountsInv

LEMMA NextInv == AccountsInv /\ [Next]_vars => AccountsInv'
<1> SUFFICES ASSUME AccountsInv, [Next]_vars PROVE AccountsInv'
  OBVIOUS
<1>1. CASE UNCHANGED vars
  BY <1>1 DEF vars, AccountsInv, AccountsTypeOK, RequestInv, AuthorityIsGranted, BarredDisabled
<1>2. CASE Next
  <2>1. TablesMove /\ Observe /\ \A c \in Clients : RequestMoves(c)
    BY <1>2, StepMoves DEF Next
  <2>2. AccountsTypeOK'
    <3>1. request' \in [Clients -> Request]
      <4>1. request' = [c \in Clients |-> request'[c]]
        BY <2>1 DEF TablesMove
      <4> QED
        BY <2>1, <4>1, RequestTyped
    <3>2. held' \in [Clients -> SUBSET Groups] /\ could' \in [Clients -> SUBSET Rights]
      BY <2>1, HistoryTyped DEF Observe
    <3>3. config' \in Configs
      BY <2>1 DEF TablesMove, AccountsInv, AccountsTypeOK
    <3> QED
      BY <2>1, <3>1, <3>2, <3>3 DEF TablesMove, AccountsTypeOK
  <2>3. RequestInv' /\ AuthorityIsGranted'
    BY <2>1, RequestKept, MovesGranted DEF RequestInv, AuthorityIsGranted
  <2> QED
    BY <2>1, <2>2, <2>3 DEF AccountsInv, TablesMove
<1> QED
  BY <1>1, <1>2

(* The conjunction of the types, of what a request has read so far, and of *)
(* the state of barred accounts holds in every state.                      *)
THEOREM AccountsInvariant == AccountsSpec => []AccountsInv
  BY InitInv, NextInv, PTL DEF AccountsSpec

(* The types of Accounts.                                                  *)
THEOREM AccountsTypes == AccountsSpec => []AccountsTypeOK
<1>1. AccountsInv => AccountsTypeOK
  BY DEF AccountsInv
<1> QED
  BY <1>1, AccountsInvariant, PTL

(* For any number of clients, groups and administrators, no request with a *)
(* name has a right that none of its sender's groups gave since it was     *)
(* named (groupstore.go:127-162).                                          *)
THEOREM Authority == AccountsSpec => []AuthorityIsGranted
<1>1. AccountsInv => AuthorityIsGranted
  BY DEF AccountsInv
<1> QED
  BY <1>1, AccountsInvariant, PTL

(* Whatever is written to the tables and by whom, no password of the table *)
(* names an account that stays disabled (store.go:119-135, 145-188).       *)
THEOREM Barred == AccountsSpec => BarredPasswordsFail
<1>1. AccountsInv /\ [Next]_vars =>
        [\A c \in Clients, n \in barred :
            /\ request[c].phase = "idle" /\ request'[c].phase = "named"
            /\ request'[c].name = n /\ request'[c].by = "table"
            => \E p \in Hashes : <<n, p>> \in Htpasswd]_vars
  <2> SUFFICES ASSUME AccountsInv, Next, NEW c \in Clients, NEW n \in barred,
                      request[c].phase = "idle", request'[c].phase = "named",
                      request'[c].name = n, request'[c].by = "table"
               PROVE  \E p \in Hashes : <<n, p>> \in Htpasswd
    OBVIOUS
  <2>1. request[c] \in Request /\ RequestMoves(c)
    BY StepMoves DEF Next, AccountsInv, AccountsTypeOK
  <2>2. ~Enriches(c) /\ ~Resolves(c) /\ ~Disables(c) /\ request'[c] # Idle
    BY DEF Enriches, Resolves, Disables, Resolved, Idle
  <2>3. Starts(c)
    BY <2>1, <2>2 DEF RequestMoves
  <2>4. PICK m \in Names \cup {NoName},
              by \in {"none", "table", "fallback", "ldap", "directory", "session"},
              gs \in SUBSET Groups :
          /\ request'[c] = [Idle EXCEPT !.phase = "named", !.name = m, !.by = by, !.groups = gs]
          /\ by = "table" /\ m \in barred => \E p \in Hashes : <<m, p>> \in Htpasswd
    BY <2>3 DEF Starts
  <2>5. m = n /\ by = "table"
    BY <2>4 DEF Idle
  <2> QED
    BY <2>4, <2>5
<1>2. AccountsSpec => [][Next]_vars
  BY DEF AccountsSpec
<1> QED
  BY <1>1, <1>2, AccountsInvariant, PTL DEF BarredPasswordsFail

-----------------------------------------------------------------------------
(* The tracker.                                                            *)

TrackerInv == TrackerTypeOK /\ BareCountersAreInUse

(* What each operation makes of the entry of an address.                   *)
LEMMA EntryTypes ==
    ASSUME TrackerTypeOK, NEW ip \in IPs
    PROVE  /\ NoEntry \in Entry
           /\ FailedEntry(ip) \in Entry
           /\ Blocked(ip) => [entries[ip] EXCEPT !.left = @ - 1] \in Entry
<1>1. entries[ip] \in Entry
  BY DEF TrackerTypeOK
<1>2. Counted(ip) \in Nat
  BY <1>1 DEF Counted, Entry
<1>3. Duration \in 0 .. Duration
  BY TrackerAssumption
<1>4. FailedEntry(ip) \in Entry
  BY <1>1, <1>2, <1>3 DEF FailedEntry, Entry
<1>5. ASSUME Blocked(ip) PROVE [entries[ip] EXCEPT !.left = @ - 1] \in Entry
  BY <1>1, <1>5, TrackerAssumption DEF Blocked, Entry
<1> QED
  BY <1>4, <1>5 DEF NoEntry, Entry

LEMMA HandlerTypes ==
    /\ Free \in HandlerState
    /\ \A ip \in IPs : [pc |-> "auth", ip |-> ip] \in HandlerState
                       /\ [pc |-> "check", ip |-> ip] \in HandlerState
  BY DEF Free, HandlerState

LEMMA BusyHandler ==
    ASSUME TrackerTypeOK, NEW h \in Handlers, handler[h].pc \in {"auth", "check"}
    PROVE  handler[h].ip \in IPs
  BY DEF TrackerTypeOK, HandlerState

LEMMA TypeKept ==
    ASSUME TrackerTypeOK, [TrackerNext]_trackerVars
    PROVE  TrackerTypeOK'
<1> USE DEF TrackerTypeOK
<1>1. ASSUME NEW h \in Handlers, NEW ip \in IPs, Arrive(h, ip) PROVE TrackerTypeOK'
  BY <1>1, EntryTypes, HandlerTypes DEF Arrive, IsBlocked
<1>2. ASSUME NEW h \in Handlers, RecordFailure(h) PROVE TrackerTypeOK'
  <2> DEFINE ip == handler[h].ip
  <2>1. ip \in IPs
    BY <1>2, BusyHandler DEF RecordFailure
  <2>2. entries' \in [IPs -> Entry]
    BY <1>2, <2>1, EntryTypes DEF RecordFailure
  <2>3. handler' \in [Handlers -> HandlerState]
    BY <1>2, <2>1, HandlerTypes DEF RecordFailure
  <2>4. failed' \in [IPs -> 0 .. MaxFailures]
    <3> DEFINE n == IF FailedEntry(ip).left = Duration THEN 0
                    ELSE IF failed[ip] < MaxFailures THEN failed[ip] + 1 ELSE failed[ip]
    <3>1. failed' = [failed EXCEPT ![ip] = n]
      BY <1>2 DEF RecordFailure
    <3>2. failed[ip] \in 0 .. MaxFailures
      BY <2>1
    <3>3. n \in 0 .. MaxFailures
      BY <3>2, TrackerAssumption
    <3> HIDE DEF n
    <3> QED
      BY <2>1, <3>1, <3>3
  <2> QED
    BY <2>2, <2>3, <2>4
<1>3. ASSUME NEW h \in Handlers, CheckAfterFailure(h) PROVE TrackerTypeOK'
  BY <1>3, BusyHandler, EntryTypes, HandlerTypes DEF CheckAfterFailure, IsBlocked
<1>4. ASSUME NEW h \in Handlers, RecordSuccess(h) PROVE TrackerTypeOK'
  <2>1. handler[h].ip \in IPs
    BY <1>4, BusyHandler DEF RecordSuccess
  <2>2. entries' \in [IPs -> Entry]
    BY <1>4, <2>1, EntryTypes DEF RecordSuccess
  <2>3. handler' \in [Handlers -> HandlerState]
    BY <1>4, HandlerTypes DEF RecordSuccess
  <2>4. 0 \in 0 .. MaxFailures
    BY TrackerAssumption
  <2>5. failed' \in [IPs -> 0 .. MaxFailures]
    BY <1>4, <2>1, <2>4 DEF RecordSuccess
  <2> QED
    BY <2>2, <2>3, <2>5
<1>5. ASSUME NEW h \in Handlers, OtherError(h) PROVE TrackerTypeOK'
  BY <1>5, HandlerTypes DEF OtherError
<1>6. CASE Cleanup
  BY <1>6, EntryTypes DEF Cleanup
<1>7. CASE Tick
  BY <1>7, EntryTypes DEF Tick
<1>8. CASE UNCHANGED trackerVars
  BY <1>8 DEF trackerVars
<1> QED
  BY <1>1, <1>2, <1>3, <1>4, <1>5, <1>6, <1>7, <1>8 DEF TrackerNext, Finish

(* A handler leaves its check only after the check has settled the entry.  *)
LEMMA BareKept ==
    ASSUME TrackerInv, [TrackerNext]_trackerVars
    PROVE  BareCountersAreInUse'
<1> USE DEF TrackerInv, TrackerTypeOK, BareCountersAreInUse
<1>0. NoEntry = [present |-> FALSE, failures |-> 0, left |-> NotSet]
  BY DEF NoEntry
<1>1. ASSUME NEW h \in Handlers, NEW ip \in IPs, Arrive(h, ip) PROVE BareCountersAreInUse'
  BY <1>0, <1>1 DEF Arrive, IsBlocked, HandlerState
<1>2. ASSUME NEW h \in Handlers, RecordFailure(h) PROVE BareCountersAreInUse'
  <2>1. handler[h].ip \in IPs
    BY <1>2, BusyHandler DEF RecordFailure
  <2>2. entries'[handler[h].ip].present
    BY <1>2, <2>1 DEF RecordFailure, FailedEntry
  <2>3. handler'[h].pc = "check" /\ handler'[h].ip = handler[h].ip
    BY <1>2 DEF RecordFailure
  <2>4. \A i \in IPs : i # handler[h].ip => entries'[i] = entries[i]
    BY <1>2 DEF RecordFailure
  <2>5. \A g \in Handlers : handler[g].pc = "check" => handler'[g] = handler[g]
    BY <1>2 DEF RecordFailure
  <2> QED
    BY <2>1, <2>2, <2>3, <2>4, <2>5
<1>3. ASSUME NEW h \in Handlers, CheckAfterFailure(h) PROVE BareCountersAreInUse'
  <2>1. handler[h].ip \in IPs
    BY <1>3, BusyHandler DEF CheckAfterFailure
  <2>2. entries'[handler[h].ip] = NoEntry \/ entries'[handler[h].ip].left \in 1 .. Duration
    BY <1>3, <2>1 DEF CheckAfterFailure, IsBlocked, Blocked
  <2>3. \A i \in IPs : i # handler[h].ip => entries'[i] = entries[i]
    BY <1>3 DEF CheckAfterFailure, IsBlocked
  <2>4. entries'[handler[h].ip] = NoEntry \/ entries'[handler[h].ip] = entries[handler[h].ip]
    BY <1>3, <2>1 DEF CheckAfterFailure, IsBlocked
  <2>5. \A g \in Handlers : g # h => handler'[g] = handler[g]
    BY <1>3 DEF CheckAfterFailure
  <2>6. NotSet \notin 1 .. Duration
    BY TrackerAssumption
  <2> SUFFICES ASSUME NEW i \in IPs
               PROVE  /\ ~ entries'[i].present => entries'[i] = NoEntry
                      /\ entries'[i].present /\ entries'[i].left = NotSet =>
                            \E g \in Handlers : handler'[g].pc = "check" /\ handler'[g].ip = i
    OBVIOUS
  <2>7. CASE i = handler[h].ip
    BY <1>0, <2>2, <2>4, <2>6, <2>7
  <2>8. CASE i # handler[h].ip
    <3>1. entries'[i] = entries[i]
      BY <2>3, <2>8
    <3>2. \A g \in Handlers : handler[g].ip = i => g # h
      BY <2>8
    <3> QED
      BY <2>5, <3>1, <3>2
  <2> QED
    BY <2>7, <2>8
<1>4. ASSUME NEW h \in Handlers, RecordSuccess(h) PROVE BareCountersAreInUse'
  BY <1>0, <1>4, BusyHandler DEF RecordSuccess
<1>5. ASSUME NEW h \in Handlers, OtherError(h) PROVE BareCountersAreInUse'
  BY <1>5 DEF OtherError
<1>6. CASE Cleanup
  BY <1>0, <1>6 DEF Cleanup
<1>7. CASE Tick
  <2>1. ASSUME NEW ip \in IPs, Blocked(ip)
        PROVE  entries[ip].present /\ entries'[ip].present /\ entries'[ip].left # NotSet
    BY <1>0, <1>7, <2>1, TrackerAssumption DEF Tick, Blocked, Entry
  <2>2. \A ip \in IPs : ~ Blocked(ip) => entries'[ip] = entries[ip]
    BY <1>7 DEF Tick
  <2>3. handler' = handler
    BY <1>7 DEF Tick
  <2> QED
    BY <2>1, <2>2, <2>3
<1>8. CASE UNCHANGED trackerVars
  BY <1>8 DEF trackerVars
<1> QED
  BY <1>1, <1>2, <1>3, <1>4, <1>5, <1>6, <1>7, <1>8 DEF TrackerNext, Finish

LEMMA TrackerInvHolds == TrackerSpec => []TrackerInv
<1>1. TrackerInit => TrackerInv
  BY TrackerAssumption DEF TrackerInit, TrackerInv, TrackerTypeOK, BareCountersAreInUse, NoEntry, Entry,
     Free, HandlerState
<1>2. TrackerInv /\ [TrackerNext]_trackerVars => TrackerInv'
  BY TypeKept, BareKept DEF TrackerInv
<1> QED
  BY <1>1, <1>2, PTL DEF TrackerSpec

-----------------------------------------------------------------------------
(* Entries and handlers keep their shapes (tracker.go:13-24).              *)
THEOREM TrackerTypeCorrect == TrackerSpec => []TrackerTypeOK
<1>1. TrackerInv => TrackerTypeOK
  BY DEF TrackerInv
<1> QED
  BY <1>1, TrackerInvHolds, PTL

(* A counter that has not blocked is never left behind in the map          *)
(* (tracker.go:50, auth.go:197).                                           *)
THEOREM BareCountersGo == TrackerSpec => []BareCountersAreInUse
<1>1. TrackerInv => BareCountersAreInUse
  BY DEF TrackerInv
<1> QED
  BY <1>1, TrackerInvHolds, PTL

(* Only time and a success under way end a block (tracker.go:37-73).       *)
THEOREM BlocksStand == TrackerSpec => BlockStands
<1> DEFINE Stands == \A ip \in IPs :
       Blocked(ip) => \/ Blocked(ip)'
                      \/ Tick
                      \/ \E h \in Handlers : RecordSuccess(h) /\ handler[h].ip = ip
<1>1. ASSUME TrackerTypeOK, [TrackerNext]_trackerVars PROVE [Stands]_trackerVars
  <2> SUFFICES ASSUME NEW ip \in IPs, Blocked(ip), ~ Tick,
                      \A h \in Handlers : ~ (RecordSuccess(h) /\ handler[h].ip = ip)
               PROVE  Blocked(ip)'
    OBVIOUS
  <2> USE DEF TrackerTypeOK, Blocked
  <2>1. ASSUME NEW h \in Handlers, NEW i \in IPs, Arrive(h, i) PROVE Blocked(ip)'
    BY <2>1 DEF Arrive, IsBlocked
  <2>2. ASSUME NEW h \in Handlers, RecordFailure(h) PROVE Blocked(ip)'
    <3>1. CASE handler[h].ip = ip
      <4>1. ~ Expired(ip) /\ Duration \in 1 .. Duration
        BY TrackerAssumption DEF Expired
      <4>2. FailedEntry(ip).left \in 1 .. Duration
        BY <4>1 DEF FailedEntry
      <4> QED
        BY <2>2, <3>1, <4>2 DEF RecordFailure
    <3>2. CASE handler[h].ip # ip
      BY <2>2, <3>2 DEF RecordFailure
    <3> QED
      BY <3>1, <3>2
  <2>3. ASSUME NEW h \in Handlers, CheckAfterFailure(h) PROVE Blocked(ip)'
    BY <2>3 DEF CheckAfterFailure, IsBlocked
  <2>4. ASSUME NEW h \in Handlers, RecordSuccess(h) PROVE Blocked(ip)'
    <3>1. handler[h].ip # ip
      BY <2>4
    <3> QED
      BY <2>4, <3>1 DEF RecordSuccess
  <2>5. ASSUME NEW h \in Handlers, OtherError(h) PROVE Blocked(ip)'
    BY <2>5 DEF OtherError
  <2>6. CASE Cleanup
    <3>1. ~ Expired(ip)
      BY TrackerAssumption DEF Expired
    <3> QED
      BY <2>6, <3>1 DEF Cleanup
  <2>7. CASE UNCHANGED trackerVars
    BY <2>7 DEF trackerVars
  <2> HIDE DEF TrackerTypeOK, Blocked
  <2>8. CASE TrackerNext
    <3>1. CASE \E h \in Handlers, i \in IPs : Arrive(h, i)
      BY <2>1, <3>1
    <3>2. CASE \E h \in Handlers : Finish(h)
      BY <2>2, <2>3, <2>4, <2>5, <3>2 DEF Finish
    <3> QED
      BY <2>6, <2>8, <3>1, <3>2 DEF TrackerNext
  <2> QED
    BY <1>1, <2>7, <2>8
<1> QED
  BY <1>1, TrackerTypeCorrect, PTL DEF TrackerSpec, BlockStands
=============================================================================
