------------------------------ MODULE VioRoute ------------------------------
(* The routes of sample_vio, run over the ladders of VioLadders: a stack   *)
(* of C functions, the objects the driver holds for the process, and the   *)
(* calls that have failed.  Any call may fail by itself, up to MaxFaults   *)
(* of them; a call that makes no sense to the driver (an object started    *)
(* twice, or stopped when it is down) is refused, which the code sees as   *)
(* a failure too where it looks at the result.                             *)
EXTENDS VioLadders

CONSTANT MaxFaults    \* bound on the calls that fail by themselves

ASSUME RouteAssumption == MaxFaults \in Nat

VARIABLES
    stack,    \* the functions entered, the innermost first
    up,       \* what the driver holds for the process
    failed,   \* the calls the code has seen fail, and whether in a switch
    faults    \* how many calls have failed by themselves

vars == <<stack, up, failed, faults>>

Frame(name, n) == [name |-> name, n |-> n, part |-> "climb", at |-> 1]

\* "left" is a function that met a return statement in its climb.
Parts == {"climb", "descent", "finish", "left"}

Steps(fr) == IF fr.part = "left" THEN <<>> ELSE Body(fr.name, fr.n)[fr.part]

AtEnd(fr) == fr.at > Len(Steps(fr))

\* The step the process is in, as a set: empty at the end of a function.
Pending == IF stack = <<>> \/ AtEnd(Head(stack)) THEN {}
           ELSE {Steps(Head(stack))[Head(stack).at]}

\* Mutant: a goto lands one label higher, on the undoing of what has failed.
Proceed_OneHigher(fr, s, ok) ==
    CASE ok \/ s.land = 0     -> [fr EXCEPT !.at = @ + 1]
      [] ~ok /\ s.land = Leave -> [fr EXCEPT !.part = "left", !.at = 1]
      [] OTHER                -> [fr EXCEPT !.part = "descent", !.at = IF s.land > 1 THEN s.land - 1 ELSE 1]

\* Where a function goes on after step s.
Proceed(fr, s, ok) ==
    CASE ok \/ s.land = 0     -> [fr EXCEPT !.at = @ + 1]
      [] ~ok /\ s.land = Leave -> [fr EXCEPT !.part = "left", !.at = 1]
      [] OTHER                -> [fr EXCEPT !.part = "descent", !.at = s.land]

Resume(s, ok) == stack' = <<Proceed(Head(stack), s, ok)>> \o Tail(stack)

\* Inside the restart of VI under a running ISP.
InSwitch(name) == name \in {"mode_switch_stop_vi", "mode_switch_start_vi"}
Switching == \E i \in 1..Len(stack) : InSwitch(stack[i].name)

\* What the driver takes down together with an object.
TakenAlong(o) ==
    CASE o[1] = "grp"     -> {o} \cup ({"grp_run", "vpss_chn0", "vpss_chn1"} \X {o[2]})
      [] o[1] = "pipe"    -> {o} \cup ({"pipe_run", "vi_chn", "ext_chn"} \X {o[2]})
      [] o[1] = "isp_mem" -> {o} \cup ({"isp"} \X {o[2]})
      [] OTHER            -> {o}

------------------------------------------------------------------------------
Init == /\ stack \in {<<Frame(r, 0)>> : r \in Routes}
        /\ up = {}
        /\ failed = {} /\ faults = 0

StartOk(s) == /\ s.op = "start"
              /\ s.what \notin up
              /\ up' = up \cup {s.what}
              /\ Resume(s, TRUE)
              /\ UNCHANGED <<failed, faults>>

StopOk(s) == /\ s.op = "stop"
             /\ s.what \in up
             /\ up' = up \ TakenAlong(s.what)
             /\ Resume(s, TRUE)
             /\ UNCHANGED <<failed, faults>>

SetOk(s) == /\ s.op = "set"
            /\ Resume(s, TRUE)
            /\ UNCHANGED <<up, failed, faults>>

Failure(s, switching) == [op |-> s.op, kind |-> s.what[1], n |-> s.what[2], switching |-> switching]

CallFails(s) == /\ s.op \in {"start", "stop", "set"}
                /\ faults < MaxFaults
                /\ faults' = faults + 1
                /\ failed' = failed \cup {Failure(s, Switching)}
                /\ Resume(s, FALSE)
                /\ UNCHANGED up

\* What is refused has failed too, when the code looks at the result.
CallRefused(s) == /\ \/ s.op = "start" /\ s.what \in up
                     \/ s.op = "stop" /\ s.what \notin up
                  /\ failed' = failed \cup {f \in {Failure(s, Switching)} : s.land # 0}
                  /\ Resume(s, FALSE)
                  /\ UNCHANGED <<up, faults>>

\* Mutant: the thread is told to end and never joined.
JoinThread_Forgotten(s) == /\ s.op = "join"
                           /\ Resume(s, TRUE)
                           /\ UNCHANGED <<up, failed, faults>>

\* The thread of an ISP ends with its ISP, that of the streams at the next
\* timeout of its select; a thread that was not started is not joined.
JoinThread(s) == /\ s.op = "join"
                 /\ s.what[1] = "isp_thread" /\ s.what \in up => <<"isp", s.what[2]>> \notin up
                 /\ up' = up \ {s.what}
                 /\ Resume(s, TRUE)
                 /\ UNCHANGED <<failed, faults>>

\* An ISP that runs switches some time; of one that is down the poll reads
\* a variable never set, which may hold any value.
PollIsp(s) == /\ s.op = "wait"
              /\ Resume(s, TRUE)
              /\ UNCHANGED <<up, failed, faults>>

KeyPressed(s) == /\ s.op = "key"
                 /\ Resume(s, TRUE)
                 /\ UNCHANGED <<up, failed, faults>>

Enter(s) == /\ s.op = "call"
            /\ stack' = <<Frame(s.what[1], s.what[2])>> \o stack
            /\ UNCHANGED <<up, failed, faults>>

\* A climb without failure goes on to what follows it in the function.
Turn == /\ stack # <<>>
        /\ AtEnd(Head(stack))
        /\ Head(stack).part = "climb"
        /\ stack' = <<[Head(stack) EXCEPT !.part = "finish", !.at = 1]>> \o Tail(stack)
        /\ UNCHANGED <<up, failed, faults>>

\* Mutant: a function that has gone down its ladder returns TD_SUCCESS.
Return_Succeeds == /\ stack # <<>>
                   /\ AtEnd(Head(stack))
                   /\ Head(stack).part # "climb"
                   /\ LET ok == Head(stack).part # "left"
                          caller == stack[2]
                      IN stack' = IF Len(stack) = 1 THEN <<>>
                                  ELSE <<Proceed(caller, Steps(caller)[caller.at], ok)>> \o Tail(Tail(stack))
                   /\ UNCHANGED <<up, failed, faults>>

Return == /\ stack # <<>>
          /\ AtEnd(Head(stack))
          /\ Head(stack).part # "climb"
          /\ LET ok == Head(stack).part = "finish"
                 caller == stack[2]
             IN stack' = IF Len(stack) = 1 THEN <<>>
                         ELSE <<Proceed(caller, Steps(caller)[caller.at], ok)>> \o Tail(Tail(stack))
          /\ UNCHANGED <<up, failed, faults>>

CallStep(s) == StartOk(s) \/ StopOk(s) \/ SetOk(s) \/ CallFails(s) \/ CallRefused(s) \/ JoinThread(s) \/ Enter(s)

\* The steps the process and the driver take by themselves.
Running == \/ \E s \in Pending : CallStep(s)
           \/ Turn
           \/ Return

Switched == \E s \in Pending : s.what \in up /\ PollIsp(s)

Next == \/ Running
        \/ \E s \in Pending : PollIsp(s) \/ KeyPressed(s)

Spec == Init /\ [][Next]_vars

\* A call returns and an ISP that runs finishes its switch; no key need
\* ever be pressed.
FairSpec == Spec /\ WF_vars(Running) /\ WF_vars(Switched)

------------------------------------------------------------------------------
(* What each failure costs: the objects the code loses track of, function  *)
(* by function.                                                            *)
Isp  == {"isp_mem", "isp", "isp_thread", "sns", "ae", "awb"}
Vi   == {"mipi_clk", "sns_clk", "dev", "vi_bind", "pipe", "pipe_run", "vi_chn"}
Hdmi == {"hdmi_init", "hdmi_open", "hdmi_run"}

AnyOf(kinds) == kinds \X (0..MaxDev)

LostByStart(kind, n) ==
    CASE kind = "sys"          -> {<<"vb", 0>>}                   \* no sys_exit after a failed sys_init
      [] kind \in {"vi_vpss_mode", "vi_video_mode"} -> {<<"vb", 0>>, <<"sys", 0>>}
      [] kind = "mipi_reset"   -> {<<"mipi_clk", n>>}             \* start_mipi_rx returns and its caller
      [] kind = "sns_clk"      -> AnyOf({"mipi_clk"})               \* starts its way down one step below
      [] kind = "mipi_attr"    -> AnyOf({"mipi_clk", "sns_clk"})
      [] kind = "isp"          -> (Isp \ {"isp", "isp_thread"}) \X {n}  \* "return -1"
      [] kind = "ext_chn"      -> (Vi \cup Isp) \X {n}            \* lands on start_vi_failed
      [] kind = "vo_chn"       -> {<<kind, i>> : i \in 0..n}      \* the layer goes, the channels stay
      [] kind \in Hdmi         -> Hdmi \X {0}                     \* hdmi_stop gives up at the first refusal
      [] kind = "vgs_task"     -> {<<"vgs_job", n>>}              \* the job is not cancelled
      [] kind = "venc_recv"    -> {<<kind, n>>, <<"venc", n>>}  \* the channel is not destroyed
      [] kind \in {"fpn_load", "fpn_on", "fpn_off"} -> {"blk", "pool"} \X {2}  \* released twice, or not at all
      [] kind \in {"pool", "blk"} -> {"blk", "pool"} \X {n}        \* released though never obtained
      [] OTHER                 -> {<<kind, n>>}

LostByStop(kind, n) ==
    CASE kind = "venc_recv" -> {<<"venc_recv", n>>, <<"venc_thread", 0>>}    \* returns before the join
      [] kind = "vo_chn"    -> AnyOf({"vo_chn"}) \cup {<<"vo_layer", 0>>, <<"vo_dev", 0>>}
      [] kind = "vo_layer"  -> {<<"vo_layer", 0>>, <<"vo_dev", 0>>}
      [] kind \in Hdmi      -> Hdmi \X {0}
      [] OTHER              -> TakenAlong(<<kind, n>>)

\* A restart that fails leaves the ISP of the first route up; a failure in
\* its last part is reported as success.
LostInSwitch(kind) ==
    CASE kind \in {"pipe_run", "vi_chn"} -> AnyOf({"pipe", "pipe_run", "vi_chn", "vi_bind", "ext_chn"})
      [] kind \in {"pipe", "chn_attr"}   -> AnyOf(Isp \cup {"pipe", "pipe_run", "vi_chn"})
      [] kind = "sns_clk"                -> AnyOf(Isp \cup {"mipi_clk"})
      [] OTHER                           -> AnyOf(Isp)

Lost(f) == (IF f.op = "stop" THEN LostByStop(f.kind, f.n) ELSE LostByStart(f.kind, f.n))
           \cup (IF f.switching THEN LostInSwitch(f.kind) ELSE {})

\* The pool of the calibrated frame is never destroyed: release_frame_blk
\* destroys the pool of the first frame only.
Always == {<<"pool", 1>>}

Costs == UNION {Lost(f) : f \in failed}
Loose == Always \cup Costs

\* What an object stands on.
Needs(o) ==
    LET same(kinds) == kinds \X {o[2]}
    IN CASE o[1] = "vb"                                    -> {}
         [] o[1] = "sys"                                   -> {<<"vb", 0>>}
         [] o[1] = "pipe"                                  -> same({"vi_bind"})
         [] o[1] \in {"pipe_run", "vi_chn", "ext_chn"}     -> same({"pipe"})
         [] o[1] = "isp_mem"                               -> same({"sns", "ae", "awb"})
         [] o[1] = "isp"                                   -> same({"isp_mem"})
         [] o[1] \in {"grp_run", "vpss_chn0", "vpss_chn1"} -> same({"grp"})
         [] o[1] = "vpss_vo"                               -> same({"grp", "vo_chn"})
         [] o[1] = "vpss_venc"                             -> same({"grp", "venc"})
         [] o[1] \in {"venc_recv", "venc_thread"}          -> same({"venc"})
         [] o[1] = "vo_chn"                                -> {<<"vo_layer", 0>>}
         [] o[1] \in {"vo_layer", "hdmi_run"}              -> {<<"vo_dev", 0>>}
         [] o[1] = "blk"                                   -> same({"pool"})
         [] o[1] = "nnn_thread"                            -> same({"grp"})
         [] o[1] = "send_thread"                           -> {<<"blk", 0>>}
         [] o[1] = "user_pic"                              -> {<<"blk", 3>>}
         [] OTHER                                          -> {<<"sys", 0>>}

------------------------------------------------------------------------------
(* Properties.                                                             *)

\* A route that ends, however far it came, has taken down everything it
\* brought up, the objects a failed call made it lose apart (the error
\* ladders of sample_vio and sample_comm_*).
NothingLeft == stack = <<>> => up \subseteq Loose

\* At every moment what is up stands on what it needs: no ladder takes a
\* group from under its channels, a pool from under its blocks or VB from
\* under everything.
Supported == \A o \in up \ Loose : Needs(o) \subseteq up

\* A way down stops only what its way up has started: every goto lands on
\* the label below what has failed.  (stop_venc stops every encoder channel
\* a second time and ignores that it is refused.)  And nothing is started
\* twice, not even by the restart of a switch or of a calibration.
Again(s)      == s.what[1] = "venc_recv" /\ s.land = 0
StopsWhatIsUp == \A s \in Pending : s.op = "stop" /\ s.what \notin up => Again(s) \/ s.what \in Loose
NeverTwice    == \A s \in Pending : s.op = "start" /\ s.what \in up => s.what \in Loose
InTurn        == StopsWhatIsUp /\ NeverTwice

\* Waiting on somebody else for good: on a key; on an ISP that a failure has
\* already stopped; on the thread of an ISP that could not be stopped.
MayWait == \E s \in Pending : \/ s.op = "key"
                              \/ s.op = "wait" /\ s.what \notin up
                              \/ s.op = "join" /\ \E f \in failed : f.op = "stop" /\ f.kind = "isp_mem"

\* Every route comes to its end, or to one of those waits.
RouteEnds == <>[](stack = <<>> \/ MayWait)
=============================================================================
