------------------------ MODULE MCCredentialStore ------------------------
(* Instances of CredentialStore: which operations meet in each run. *)
EXTENDS CredentialStore, TLC

Req(k, a, b) == [kind |-> k, alias |-> a, other |-> b]

(* One process refreshes and deletes while the network is slow; the other   *)
(* moves live between the profiles, with and without the user's word, as    *)
(* Codex does too.                                                          *)
Networked ==
  {Req("refresh", 1, NoAlias), Req("readback", 1, NoAlias), Req("delete", 2, NoAlias),
   Req("delete", 1, NoAlias)}

Switches ==
  {Req("use", 2, NoAlias), Req("revive", 2, NoAlias), Req("auto", NoAlias, 2),
   Req("sync", 1, NoAlias)}

Moving ==
  LET one == CHOOSE p \in Proc : TRUE
  IN [p \in Proc |-> IF p = one THEN Networked ELSE Switches]

(* Profiles come, go and change their names, by operations that hold two    *)
(* leases and take them in both directions.                                 *)
Meeting ==
  [p \in Proc |->
    {Req("save", NoAlias, NoAlias), Req("save", NoAlias, 2), Req("login", NoAlias, 1),
     Req("rename", 1, 2), Req("rename", 2, 1), Req("delete", 1, NoAlias),
     Req("auto", NoAlias, 1), Req("auto", NoAlias, 2), Req("refresh", 1, NoAlias),
     Req("reauth", 1, NoAlias), Req("import", NoAlias, NoAlias)}]

Symmetry == Permutations(Account)

=============================================================================
