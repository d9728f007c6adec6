----------------------------- MODULE MCNnnLive ------------------------------
(* Small instances of NnnLive.                                             *)
EXTENDS NnnLive
MCSlots  == {0}
MCData   == Blocks \cup {NoBlock}
=============================================================================
