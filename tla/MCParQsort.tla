----------------------------- MODULE MCParQsort -----------------------------
(* The vector of N detections with the confidences given by a tuple; TLC   *)
(* starts from every arrangement of them.                                  *)
EXTENDS ParQsort
MCObjects == 1..N
MCConf    == [o \in MCObjects |-> o \div 3]     \* ties: 0 0 1 1 1 2 ...
=============================================================================
