--------------------------- MODULE MCSnapshotAds ---------------------------
(***************************************************************************)
(* The instance of SnapshotAds: two voters; threads and ads are            *)
(* interchangeable model values.                                           *)
(***************************************************************************)
EXTENDS SnapshotAds

CONSTANTS v1, v2

TwoVoters == <<v1, v2>>

Symmetry == Permutations(Recorders) \cup Permutations(Ads)
=============================================================================
