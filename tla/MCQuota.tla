------------------------------ MODULE MCQuota -------------------------------
(* A small instance of Quota: a bigint is at most 7, and the limits include *)
(* zero, the largest bigint and none.                                       *)
EXTENDS Quota, TLC

CONSTANTS c1, c2, c3

MCSizes == {-1, 0, 1, 3, 4}
MCLimits == {0, 4, 7, NoLimit}

CallerSymmetry == Permutations({c1, c2, c3})
=============================================================================
