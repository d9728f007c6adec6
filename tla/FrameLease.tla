----------------------------- MODULE FrameLease -----------------------------
(***************************************************************************)
(* What a user of a VPSS channel promises the channel's owner: a frame is  *)
(* taken only while the group runs, at most one is out at a time, it is    *)
(* mapped only while it is out, and the group is stopped only once the     *)
(* frame has come back.  A group stopped is never started again.           *)
(***************************************************************************)
VARIABLES
    group,      \* "idle", "running" or "stopped"
    lease       \* "none", "out" (frame taken) or "mapped"

leaseVars == <<group, lease>>

LeaseInit == group = "idle" /\ lease = "none"

StartGroup == group = "idle" /\ group' = "running" /\ UNCHANGED lease
AbandonGroup == group = "idle" /\ group' = "stopped" /\ UNCHANGED lease
StopGroup  == /\ group = "running" /\ lease = "none"
              /\ group' = "stopped" /\ UNCHANGED lease

TakeFrame  == group = "running" /\ lease = "none" /\ lease' = "out" /\ UNCHANGED group
MapFrame   == lease = "out"    /\ lease' = "mapped" /\ UNCHANGED group
UnmapFrame == lease = "mapped" /\ lease' = "out"    /\ UNCHANGED group
GiveBack   == lease = "out"    /\ lease' = "none"   /\ UNCHANGED group

LeaseNext == \/ StartGroup \/ AbandonGroup \/ StopGroup
             \/ TakeFrame \/ MapFrame \/ UnmapFrame \/ GiveBack

LeaseSpec == LeaseInit /\ [][LeaseNext]_leaseVars
=============================================================================
