----------------------------- MODULE MCAccounts -----------------------------
(* The administrator, an operator whose group may manage, and the account  *)
(* for requests without credentials, with every kind of provider.          *)
EXTENDS Accounts, TLC

CONSTANTS c1, c2

MCLists == {{"ops"}}
MCRightSets == {{"manage"}}
Config(provider, local, base, keeps) ==
    [provider |-> provider, local |-> local, groupBase |-> base, keepsSecret |-> keeps]
MCConfigs == {Config("none", FALSE, FALSE, FALSE), Config("basic", FALSE, FALSE, FALSE),
              Config("ldap", TRUE, TRUE, FALSE), Config("ldap", FALSE, FALSE, FALSE),
              Config("oidc", TRUE, FALSE, TRUE)}
MCDirectory == {<<"anonymous", "admin">>}
MCDirectoryGroups == [n \in Names |-> IF n = "anonymous" THEN {"ops"} ELSE {}]
MCDatabases ==
    {[users |-> "admin" :> [hash |-> "admin", groups |-> {"admin"}, enabled |-> TRUE] @@
                "anonymous" :> [hash |-> NoPassword, groups |-> GroupNames, enabled |-> TRUE],
      groups |-> "ops" :> {"manage"} @@ "qa" :> {"pip"}]}
ClientSymmetry == Permutations(Clients)
=============================================================================
