-------------------------- MODULE MCWebRtcChannels --------------------------
(* Instances of WebRtcChannels for TLC. *)
EXTENDS WebRtcChannels
CONSTANTS p1, p2   \* the two pages, model values

=============================================================================
