----------------------------- MODULE MCCoreServices -----------------------------
(* Small instances of CoreServices for TLC. *)
EXTENDS CoreServices
================================================================================
