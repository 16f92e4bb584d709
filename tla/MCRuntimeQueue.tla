--------------------------- MODULE MCRuntimeQueue ---------------------------
(* Instances of RuntimeQueue for TLC: a sensor window and three snapshots   *)
(* of one maintenance event, one of them under two uris and in a row of an  *)
(* earlier release.                                                         *)
EXTENDS RuntimeQueue

CONSTANTS
  j1, j2, j3,       \* the jobs of this release
  live,             \* a sensor window
  replay1, replay2, \* two snapshots replayed for one maintenance event
  old, copy,        \* a third, in the row of the earlier release, and at another uri
  ev1

MCSourceIdentity == [i \in Inputs |-> IF i = copy THEN old ELSE i]
MCDedupKey       == [i \in Inputs |-> i]
MCReplayEvent    == [i \in Inputs |-> IF i \in {replay1, replay2, old, copy} THEN ev1 ELSE NoEvent]
MCLegacyInput    == [j \in Legacy |-> old]
MCLegacySeq      == [j \in Legacy |-> 1]

(* Job ids are random and nothing compares them: an instance that takes them *)
(* in one order stands for all.  No fair action takes an id.                 *)
IdsInOrder == /\ status'[j2] # "absent" => status'[j1] # "absent"
              /\ status'[j3] # "absent" => status'[j2] # "absent"
=============================================================================
