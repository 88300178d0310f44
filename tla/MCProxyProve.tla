----------------------------- MODULE MCProxyProve -----------------------------
(* Small instances of ProxyProve for TLC. *)
EXTENDS ProxyProve, TLC

CONSTANTS v1, b1

(* One version beside the enclave's default binary. *)
MCRelease == v1 :> b1
=============================================================================
