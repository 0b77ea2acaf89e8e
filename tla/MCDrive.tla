------------------------------ MODULE MCDrive ------------------------------
(* Small instances of Drive. *)
EXTENDS Drive, TLC

CONSTANTS a, z

CleanOnly == {[result |-> "clean", refs |-> 1, observed |-> 0, until |-> 1]}
OneBody   == {<<a>>}

\* The calls whose failure leaves work half done for the other component to meet.
AfterPublication == {"complete"}
HalfMoved        == {"remove", "finish", "tremove"}

Perms == Permutations(UploadIDs) \cup Permutations(Inodes)
=============================================================================
