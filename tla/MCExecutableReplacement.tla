----------------------- MODULE MCExecutableReplacement -----------------------
(* Instance of ExecutableReplacement. *)
EXTENDS ExecutableReplacement
==============================================================================
