------------------------- MODULE MCWebRtcSignalling -------------------------
(* Instances of WebRtcSignalling for TLC. *)
EXTENDS WebRtcSignalling
CONSTANTS p1, p2   \* the two pages, model values

=============================================================================
