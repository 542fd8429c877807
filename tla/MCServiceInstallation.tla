------------------------ MODULE MCServiceInstallation ------------------------
(* Instance of ServiceInstallation: the executables are interchangeable. *)
EXTENDS ServiceInstallation, TLC

Symmetry == Permutations(Executable)
==============================================================================
