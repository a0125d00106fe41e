----------------------------- MODULE MCE2EStore -----------------------------
(* X, Y and Z in a row.  Reservation r1 goes from X to Z over the up-segment *)
(* su and the core-segment sc, stitched at Y; r2 goes from Y to Z over sc.   *)
(* Another up-segment, sv, ends at Y.                                        *)
EXTENDS E2EStore

mcRsvs == {"r1", "r2"}
mcPath == [r1 |-> <<"X", "Y", "Z">>, r2 |-> <<"Y", "Z">>]
mcSegments == [r1 |-> <<"su", "sc">>, r2 |-> <<"sc">>]
mcSegs == {"su", "sv", "sc"}
mcSegPath == [su |-> <<"X", "Y">>, sv |-> <<"V", "Y">>, sc |-> <<"Y", "Z">>]
mcPathType == [su |-> "up", sv |-> "up", sc |-> "core"]
mcSegBW == [su |-> 5, sv |-> 3, sc |-> 5]
mcRequests == [r1 |-> {2}, r2 |-> {1}]
\* r2 may come to ask for more than its share.
mcGrowing == [r1 |-> {2}, r2 |-> {1, 4}]
mcSplit == <<1, 2>>
=============================================================================
