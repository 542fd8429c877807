--------------------------- MODULE ProfileRegistry ---------------------------
(***************************************************************************)
(* What the credential transactions of src/src/profile.rs promise about the *)
(* saved profiles, whatever processes, locks, failures and Codex do:        *)
(*   - an account never has two profiles;                                   *)
(*   - a profile keeps its account for as long as it has its name;          *)
(*   - its credential is replaced only by one that is at least as new, or   *)
(*     that was never presented to the server: no roll back onto a spent    *)
(*     refresh token;                                                       *)
(*   - a profile leaves by being archived or renamed, with its credential.  *)
(* CredentialStore implements this specification.                           *)
(***************************************************************************)
EXTENDS Naturals

CONSTANTS
  Alias,    \* profile names
  Account,  \* accounts
  Gen,      \* positions of a credential in the sequence issued to its account
  NoCred    \* no profile under this alias

Cred == [account : Account, gen : Gen]

VARIABLES
  profiles,  \* the credential saved under each alias
  archive,   \* the credentials of deleted profiles
  spent      \* refresh tokens the server has accepted once

vars == <<profiles, archive, spent>>

Saved(a) == profiles[a] # NoCred

Init ==
  /\ profiles \in [Alias -> Cred \cup {NoCred}]
  /\ \A a, b \in Alias :
       Saved(a) /\ Saved(b) /\ profiles[a].account = profiles[b].account => a = b
  /\ archive = {}
  /\ spent = {}

Create(a, c) ==
  /\ ~Saved(a)
  /\ \A b \in Alias : Saved(b) => profiles[b].account # c.account
  /\ profiles' = [profiles EXCEPT ![a] = c]
  /\ UNCHANGED <<archive, spent>>

Renew(a, c) ==
  /\ Saved(a)
  /\ c.account = profiles[a].account
  /\ c.gen >= profiles[a].gen \/ c \notin spent
  /\ profiles' = [profiles EXCEPT ![a] = c]
  /\ UNCHANGED <<archive, spent>>

Archive(a) ==
  /\ Saved(a)
  /\ archive' = archive \cup {profiles[a]}
  /\ profiles' = [profiles EXCEPT ![a] = NoCred]
  /\ UNCHANGED spent

Move(a, b) ==
  /\ Saved(a) /\ ~Saved(b)
  /\ profiles' = [profiles EXCEPT ![b] = profiles[a], ![a] = NoCred]
  /\ UNCHANGED <<archive, spent>>

(* A saved token, or one on its way to a profile, is presented.             *)
Spend(c) ==
  /\ spent' = spent \cup {c}
  /\ UNCHANGED <<profiles, archive>>

Next ==
  \/ \E a \in Alias, c \in Cred : Create(a, c) \/ Renew(a, c)
  \/ \E a \in Alias : Archive(a)
  \/ \E a, b \in Alias : Move(a, b)
  \/ \E c \in Cred : Spend(c)

Spec == Init /\ [][Next]_vars

----------------------------------------------------------------------------
(* Properties.                                                              *)

TypeOK ==
  /\ profiles \in [Alias -> Cred \cup {NoCred}]
  /\ archive \subseteq Cred
  /\ spent \subseteq Cred

(* No two profiles ever hold the same account (find_matching_profiles and   *)
(* plan_profile_write in profile.rs choose the account's own profile).      *)
OneProfilePerAccount ==
  \A a, b \in Alias :
    Saved(a) /\ Saved(b) /\ profiles[a].account = profiles[b].account => a = b

=============================================================================
