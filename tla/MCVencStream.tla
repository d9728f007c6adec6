---------------------------- MODULE MCVencStream ----------------------------
(* Two channels; the second one carries pictures.                          *)
EXTENDS VencStream
MCJpeg == {1}
=============================================================================
