------------------------ MODULE MCAuthPublication ------------------------
(* The instance of AuthPublication that TLC checks. *)
EXTENDS AuthPublication, TLC

FileIdentities == Permutations(Inode)

=============================================================================
