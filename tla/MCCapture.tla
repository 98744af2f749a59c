---------------------------- MODULE MCCapture ----------------------------
(* A small instance of previews and replays for TLC. *)
EXTENDS Capture

(* Of five bytes the first two and the next two are a character each. *)
MCInside == {1, 3}
=============================================================================
