----------------------------- MODULE MCVolumes -----------------------------
(***************************************************************************)
(* A small instance of Volumes: one volume, two servers, two callers and   *)
(* three sizes of a GiB of two bytes.                                      *)
(***************************************************************************)
EXTENDS Volumes
=============================================================================
