---------------------------- MODULE MCAudioPump ----------------------------
(* Instances of AudioPump for TLC.                                           *)
EXTENDS AudioPump

(* Oboe calls back once per frame with one frame to fill; WASAPI's loop runs  *)
(* every 5 ms over a device buffer of several frames.                        *)
OboeAndWasapi == {[rounds |-> 1, frames |-> 1], [rounds |-> 4, frames |-> 4]}
=============================================================================
