---------------------------- MODULE MCQuarantine ----------------------------
(* Values for the constants of Quarantine that a cfg file cannot write down. *)
EXTENDS Quarantine, TLC

AllFaults == ApplyPCs \cup ReadPCs \cup TrashPCs
ButStatObject == AllFaults \ {"statobj"}
Perms     == Permutations(Requests) \cup Permutations(Operations) \cup Permutations(Payloads)
=============================================================================
