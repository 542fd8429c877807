--------------------------- MODULE MCDaemonIdentity ---------------------------
(* Instance of DaemonIdentity. *)
EXTENDS DaemonIdentity

===============================================================================
