-------------------------- MODULE MCScanDecisions --------------------------
(* Scan evidence for TLC: every combination of wrong identity fields, and    *)
(* every evidence window and result for evidence about the right resource.   *)
EXTENDS ScanDecisions

digests == [value : {"d1", "d2"}, case : {"lower", "upper"}, hex64 : {TRUE}]
           \cup {[value |-> "d1", case |-> "lower", hex64 |-> FALSE]}

MCResources == [space : {"", "s"}, node : {"n"}, size : {0, -1}, digest : digests]
               \cup [space : {"s"}, node : {""}, size : {0}, digest : digests]

\* Who speaks about what: every combination of right and wrong identities.
identityRecords ==
  [version : {RuntimeContractVersion, "0.2.0"}, type : {ScanRecordType, "other"},
   authoritative : BOOLEAN, producer : {" ", "wardveil"},
   scopeType : {DriveFileResourceType, "other"}, scopeID : {<<"s", "n">>, <<"s", "m">>},
   observed : {1}, until : {2}, result : {"clean", "malicious"}, refs : {1}]

\* When it was seen and what it says: every window, result and evidence count.
verdictRecords ==
  [version : {RuntimeContractVersion}, type : {ScanRecordType},
   authoritative : {TRUE}, producer : {"wardveil"},
   scopeType : {DriveFileResourceType}, scopeID : {<<"s", "n">>},
   observed : 0..3, until : 0..3, result : Results \cup {"no-such-result"}, refs : 0..1]

MCEnvelopes ==
  [resourceID : {<<"s", "n">>}, digest : {HexDigest("d1")}, record : verdictRecords]
  \cup
  [resourceID : {<<"s", "n">>, <<"s", "m">>}, digest : {HexDigest("d1"), HexDigest("d2")},
   record : identityRecords]

MCActions == {"upload_finalize", "restore_release", "erase"}
=============================================================================
