---------------------------- MODULE MCConnectBack ----------------------------
(* Instances of ConnectBack for TLC. *)
EXTENDS ConnectBack, TLC

CONSTANTS a1, a2, a3

Segment(o) == [kind |-> "SW", offset |-> o]
FileList   == [kind |-> "LIST"]

(* The file list asked for twice and a segment in between; one segment.      *)
WantMixed   == a1 :> FileList @@ a2 :> FileList @@ a3 :> Segment(0)
WantSegment == a1 :> Segment(0)

=============================================================================
