----------------------------- MODULE MCUploads -----------------------------
(* Values for the constants of Uploads that a cfg file cannot write down. *)
EXTENDS Uploads, TLC

CONSTANTS a, b, z, r1, r2, u1, u2, i1, i2, i3

Verdict(result, refs, observed, until) ==
  [result |-> result, refs |-> refs, observed |-> observed, until |-> until]

CleanOnly   == {Verdict("clean", 1, 0, 1)}
TwoVerdicts == CleanOnly \cup {Verdict("malicious", 1, 0, 1)}

\* One chunk at the limit, two to tell apart, and one over the limit.
OneBody    == {<<a>>}
TwoBodies  == {<<a>>, <<b>>}
OverBodies == {<<a>>, <<b, b>>}

AllFaults    == PCs \ {"idle"}
NoFaults     == {}
AllButUnlink == AllFaults \ {"unlink"}

Perms == Permutations(Requests) \cup Permutations(UploadIDs) \cup Permutations(Inodes)
=============================================================================
