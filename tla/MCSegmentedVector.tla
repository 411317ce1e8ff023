-------------------------- MODULE MCSegmentedVector --------------------------
(* Two values, segments of two seats. *)
EXTENDS SegmentedVector

CONSTANTS v1, v2
=============================================================================
