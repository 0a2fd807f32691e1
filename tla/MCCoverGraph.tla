---------------------------- MODULE MCCoverGraph ----------------------------
(* Two buckets.  Three nodes fall in the second one, which overflows when it *)
(* holds two, and one in the first.  Three edges.                           *)
EXTENDS CoverGraph

MCNodes == 1 .. 4
MCEdges == 1 .. 3
MCKey == <<3, 3, 3, 2>>
=============================================================================
