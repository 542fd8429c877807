-------------------------- MODULE MCUsageRequests --------------------------
(* Two aliases, for a switch from the one to the other.                     *)
EXTENDS UsageRequests

============================================================================
