--------------------------- MODULE MCHubLifecycle ---------------------------
(* An instance of HubLifecycle: a hub and its monitor on one file.         *)
EXTENDS HubLifecycle
=============================================================================
