---------------------------- MODULE MCLifecycle ----------------------------
(***************************************************************************)
(* Configurations for model-checking Lifecycle: the binary alone.          *)
(***************************************************************************)
EXTENDS Lifecycle

MCStandaloneSetups == {s \in Setup : s.standalone}
=============================================================================
