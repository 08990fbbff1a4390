-------------------------- MODULE MCBackendClient ---------------------------
(***************************************************************************)
(* Two calls, so that a late request of the first meets the second; two    *)
(* retries, so that the delay doubles; a Retry-After below the cap and one *)
(* above it.                                                               *)
(***************************************************************************)
EXTENDS BackendClient
=============================================================================
