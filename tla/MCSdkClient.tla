---------------------------- MODULE MCSdkClient ----------------------------
(* Small instances of SdkClient for TLC. *)
EXTENDS SdkClient
=============================================================================
