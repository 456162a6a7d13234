------------------------------- MODULE MCHost -------------------------------
(***************************************************************************)
(* A small instance of Host: one bus address, booted with a volume that is *)
(* detached and followed by another one.                                   *)
(***************************************************************************)
EXTENDS Host

CONSTANTS c1, c2, v1, OtherId

(* A hypervisor that sets serials, and one that does not; an instance-id   *)
(* file that was changed, and a blank one; a temporary directory that is   *)
(* empty, and one in use.                                                  *)
MCHosts ==
    { [file |-> OtherId, serials |-> TRUE, tempUsed |-> FALSE],
      [file |-> BlankId, serials |-> FALSE, tempUsed |-> TRUE] }

(* Both callers ask for the instance's ID, one of them also for its zone   *)
(* and where the volume is.                                                *)
MCRequests ==
    ({c1, c2} \X {"instanceID"} \X {Free}) \cup {<<c2, "identity", Free>>} \cup
    ({c2} \X {"path", "freshPath", "mountPath"} \X {v1})

MCBoots == { [s \in Slots |-> v1] }
=============================================================================
