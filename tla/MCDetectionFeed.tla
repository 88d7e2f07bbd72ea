-------------------------- MODULE MCDetectionFeed --------------------------
(***************************************************************************)
(* The detection feed for TLC: the lookers are interchangeable, and so are *)
(* the kinds of detection.                                                 *)
(***************************************************************************)
EXTENDS DetectionFeed, TLC

Interchangeable == Permutations(Lookers) \cup Permutations(Kinds)
=============================================================================
