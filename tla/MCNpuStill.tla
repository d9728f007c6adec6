----------------------------- MODULE MCNpuStill -----------------------------
(* Small instances of NpuStill.                                            *)
EXTENDS NpuStill
MCSlots == {0}
MCData  == {"dev"}
=============================================================================
