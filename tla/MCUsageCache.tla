----------------------------- MODULE MCUsageCache -----------------------------
(* Instance of UsageCache: two aliases, and the operations that meet. *)
EXTENDS UsageCache, TLC

CONSTANTS first, second

Req(k, a, b, z) == [kind |-> k, alias |-> a, other |-> b, account |-> z]
Does(k) == Req(k, 1, 1, first)

(* The profile 1 is read from everywhere, redeemed on the command line and  *)
(* in the panel, deleted, renamed and renamed back, and saved anew.         *)
Operations == {Does(k) : k \in {"list", "select", "panel", "redeem", "panelRedeem",
                                "delete"}}
              \cup {Req("save", 1, 1, second), Req("rename", 1, 2, first),
                    Req("rename", 2, 1, first)}

Symmetry == Permutations(Proc)

===============================================================================
