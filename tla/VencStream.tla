----------------------------- MODULE VencStream -----------------------------
(***************************************************************************)
(* The encoder channels of a route and the thread that empties them        *)
(* (sample_comm_venc.c): the main thread starts the channels and the       *)
(* get-stream thread, may stop and restart the thread for a calibration    *)
(* (sample_vio_do_fpn_calibrate_and_correction), and stops all of it.      *)
(* A thread that a failed stop leaves behind works next to its successor.  *)
(***************************************************************************)
EXTENDS Integers, FiniteSets

CONSTANTS
    NumChn,         \* channels of the route, para->cnt
    Jpeg,           \* those of payload OT_PT_JPEG
    BufCap,         \* streams an encoder channel holds before it stalls
    MaxPauses,      \* calibrations
    MaxFaults       \* bound on the failing calls

Channels == 0..(NumChn - 1)
Threads  == 1..(MaxPauses + 1)

ASSUME VencAssumption ==
    /\ NumChn \in Nat \ {0} /\ BufCap \in Nat \ {0}
    /\ Jpeg \subseteq Channels
    /\ MaxPauses \in Nat /\ MaxFaults \in Nat

VARIABLES
    pcM,            \* where the main thread is
    i,              \* its loop over the channels
    last,           \* stop_get_stream is called to end the route, not to pause
    pauses,         \* calibrations so far
    chan,           \* the channels: "none", "created" or "receiving"
    odd,            \* channels on which a start or a destroy has failed
    thread_start,   \* g_para.thread_start
    g_venc_pid,     \* the thread created last; 0 before the first
    joined,         \* threads joined
    stopFailed,     \* a stop_get_stream has returned TD_FAILURE
    createFailed,   \* a pthread_create has failed
    pcT,            \* where each thread is
    k,              \* its loop over the channels
    read_fds,       \* its channels with a stream, as of select
    open,           \* channels for which it has a FILE open
    errs,           \* calls of it that have failed
    pending,        \* streams waiting in each channel
    lost,           \* streams taken from a channel and never released
    faults          \* failing calls so far

mainVars   == <<pcM, i, last, pauses, chan, odd, thread_start, g_venc_pid, joined,
                stopFailed, createFailed>>
threadVars == <<pcT, k, read_fds, open, errs, lost>>
vencVars   == <<mainVars, threadVars, pending, faults>>

TypeOK ==
    /\ pcM \in {"start", "unwind", "create", "running", "stop_chn", "clear", "join",
                "restart", "destroy", "done"}
    /\ i \in -1..NumChn /\ last \in BOOLEAN /\ pauses \in 0..MaxPauses
    /\ chan \in [Channels -> {"none", "created", "receiving"}] /\ odd \subseteq Channels
    /\ thread_start \in BOOLEAN /\ g_venc_pid \in 0..(MaxPauses + 1)
    /\ joined \subseteq Threads
    /\ stopFailed \in BOOLEAN /\ createFailed \in BOOLEAN
    /\ pcT \in [Threads -> {"none", "setup", "test", "select", "get", "save", "release",
                            "close", "ended"}]
    /\ k \in [Threads -> 0..NumChn] /\ read_fds \in [Threads -> SUBSET Channels]
    /\ open \in [Threads -> SUBSET Channels] /\ errs \in [Threads -> Nat]
    /\ pending \in [Channels -> 0..BufCap] /\ lost \in [Channels -> Nat]
    /\ faults \in 0..MaxFaults

Init ==
    /\ pcM = "start" /\ i = 0 /\ last = FALSE /\ pauses = 0
    /\ chan = [c \in Channels |-> "none"] /\ odd = {}
    /\ thread_start = FALSE /\ g_venc_pid = 0 /\ joined = {}
    /\ stopFailed = FALSE /\ createFailed = FALSE
    /\ pcT = [t \in Threads |-> "none"] /\ k = [t \in Threads |-> 0]
    /\ read_fds = [t \in Threads |-> {}] /\ open = [t \in Threads |-> {}]
    /\ errs = [t \in Threads |-> 0]
    /\ pending = [c \in Channels |-> 0] /\ lost = [c \in Channels |-> 0]
    /\ faults = 0

Fault == faults < MaxFaults /\ faults' = faults + 1

-----------------------------------------------------------------------------
(* The main thread.                                                        *)
Goto(a, b)  == pcM = a /\ pcM' = b
SetChn(c, s) == chan' = [chan EXCEPT ![c] = s]
KeepThreads == UNCHANGED threadVars
KeepFlags   == UNCHANGED <<thread_start, g_venc_pid, joined, createFailed>>
KeepSession == UNCHANGED <<last, pauses, stopFailed>>

\* sample_comm_venc_start.  A channel whose ss_mpi_venc_start_chn fails stays
\* created, and the caller undoes only those before it.
StartChn ==
    /\ pcM = "start" /\ i < NumChn
    /\ \/ pcM' = "start" /\ SetChn(i, "receiving") /\ i' = i + 1 /\ UNCHANGED <<faults, odd>>
       \/ pcM' = "unwind" /\ i' = i - 1 /\ Fault /\ UNCHANGED <<chan, odd>>
       \/ pcM' = "unwind" /\ i' = i - 1 /\ Fault /\ SetChn(i, "created") /\ odd' = odd \cup {i}
    /\ UNCHANGED pending /\ KeepFlags /\ KeepSession /\ KeepThreads

StartedAll ==
    /\ Goto("start", "create") /\ i = NumChn
    /\ UNCHANGED <<i, chan, odd, faults, pending>> /\ KeepFlags /\ KeepSession /\ KeepThreads

\* sample_comm_venc_start_get_stream; thread_start stays set when there is no
\* thread to see it.
CreateThread(onFailure, j) ==
    /\ thread_start' = TRUE
    /\ \/ /\ pcM' = "running" /\ i' = 0
          /\ g_venc_pid' = g_venc_pid + 1
          /\ pcT' = [pcT EXCEPT ![g_venc_pid + 1] = "setup"]
          /\ UNCHANGED <<faults, createFailed>>
       \/ pcM' = onFailure /\ i' = j /\ Fault /\ createFailed' = TRUE /\ UNCHANGED <<g_venc_pid, pcT>>
    /\ UNCHANGED <<chan, odd, pending, joined, k, read_fds, open, errs, lost>>
    /\ KeepSession

Create == pcM = "create" /\ CreateThread("unwind", NumChn - 1)

\* sample_comm_venc_stop: nobody looks at the result.
StopVencChn(j) ==
    /\ \/ SetChn(j, "none") /\ pending' = [pending EXCEPT ![j] = 0] /\ UNCHANGED <<faults, odd>>
       \/ SetChn(j, "created") /\ Fault /\ odd' = odd \cup {j} /\ UNCHANGED pending
    /\ KeepFlags /\ KeepSession /\ KeepThreads

\* Slip: the channel just before the failure is forgotten.
Unwind_SkipsOne ==
    \/ Goto("unwind", "unwind") /\ i > 0 /\ i' = i - 1 /\ StopVencChn(i - 1)
    \/ /\ Goto("unwind", "done") /\ i <= 0
       /\ UNCHANGED <<i, chan, odd, faults, pending>> /\ KeepFlags /\ KeepSession /\ KeepThreads

Unwind ==
    \/ Goto("unwind", "unwind") /\ i >= 0 /\ i' = i - 1 /\ StopVencChn(i)
    \/ /\ Goto("unwind", "done") /\ i < 0
       /\ UNCHANGED <<i, chan, odd, faults, pending>> /\ KeepFlags /\ KeepSession /\ KeepThreads

\* The user lets the route pause for a calibration, or ends it.
Key ==
    /\ Goto("running", "stop_chn") /\ i' = 0
    /\ \/ pauses < MaxPauses /\ pauses' = pauses + 1 /\ last' = FALSE
       \/ last' = TRUE /\ UNCHANGED pauses
    /\ UNCHANGED <<chan, odd, faults, pending, stopFailed>> /\ KeepFlags /\ KeepThreads

AfterStop == IF last THEN "destroy" ELSE "restart"

\* sample_comm_venc_stop_get_stream: when a channel cannot be stopped it
\* returns, and the thread goes on.
StopRecv ==
    /\ pcM = "stop_chn" /\ i < NumChn
    /\ \/ pcM' = "stop_chn" /\ i' = i + 1 /\ SetChn(i, "created") /\ UNCHANGED <<faults, stopFailed>>
       \/ pcM' = AfterStop /\ i' = 0 /\ Fault /\ stopFailed' = TRUE /\ UNCHANGED chan
    /\ UNCHANGED <<odd, pending, last, pauses>> /\ KeepFlags /\ KeepThreads

\* Slip: thread_start is not tested.
StoppedAll_NoTest ==
    /\ Goto("stop_chn", "clear") /\ i = NumChn
    /\ UNCHANGED <<i, chan, odd, faults, pending>> /\ KeepFlags /\ KeepSession /\ KeepThreads

StoppedAll ==
    /\ pcM = "stop_chn" /\ i = NumChn
    /\ IF thread_start THEN pcM' = "clear" /\ UNCHANGED i ELSE pcM' = AfterStop /\ i' = 0
    /\ UNCHANGED <<chan, odd, faults, pending>> /\ KeepFlags /\ KeepSession /\ KeepThreads

Clear ==
    /\ Goto("clear", "join") /\ thread_start' = FALSE
    /\ UNCHANGED <<i, chan, odd, faults, pending, g_venc_pid, joined, createFailed>>
    /\ KeepSession /\ KeepThreads

\* Slip: no join.
Join_NoWait ==
    /\ Goto("join", AfterStop) /\ i' = 0
    /\ joined' = joined \cup ({g_venc_pid} \cap Threads)
    /\ UNCHANGED <<chan, odd, faults, pending, thread_start, g_venc_pid, createFailed>>
    /\ KeepSession /\ KeepThreads

\* A thread that was joined before, or never created, is not waited for.
Join ==
    /\ Goto("join", AfterStop) /\ i' = 0
    /\ g_venc_pid \in Threads => pcT[g_venc_pid] = "ended"
    /\ joined' = joined \cup ({g_venc_pid} \cap Threads)
    /\ UNCHANGED <<chan, odd, faults, pending, thread_start, g_venc_pid, createFailed>>
    /\ KeepSession /\ KeepThreads

\* sample_vio_restart_get_venc_stream gives up at the first channel that does
\* not start; nobody looks at either result.
RestartChn ==
    /\ pcM = "restart" /\ i < NumChn
    /\ \/ pcM' = "restart" /\ i' = i + 1 /\ SetChn(i, "receiving") /\ UNCHANGED faults
       \/ pcM' = "running" /\ i' = 0 /\ Fault /\ UNCHANGED chan
    /\ UNCHANGED <<odd, pending>> /\ KeepFlags /\ KeepSession /\ KeepThreads

Restart == pcM = "restart" /\ i = NumChn /\ CreateThread("running", 0)

Destroy ==
    \/ Goto("destroy", "destroy") /\ i < NumChn /\ i' = i + 1 /\ StopVencChn(i)
    \/ /\ Goto("destroy", "done") /\ i = NumChn
       /\ UNCHANGED <<i, chan, odd, faults, pending>> /\ KeepFlags /\ KeepSession /\ KeepThreads

MainStep ==
    \/ StartChn \/ StartedAll \/ Create \/ Unwind \/ StopRecv \/ StoppedAll
    \/ Clear \/ Join \/ RestartChn \/ Restart \/ Destroy

-----------------------------------------------------------------------------
(* The get-stream thread.                                                  *)
GotoT(t, a, b) == pcT[t] = a /\ pcT' = [pcT EXCEPT ![t] = b]
Err(t)         == Fault /\ errs' = [errs EXCEPT ![t] = @ + 1]
NoErr          == UNCHANGED <<faults, errs>>
Files(t, S)    == open' = [open EXCEPT ![t] = S]
At(t, c)       == k' = [k EXCEPT ![t] = c]

\* sample_comm_set_name_save_stream, one channel; a failure ends the thread
\* with the files open it has open so far.
Setup(t) ==
    /\ pcT[t] = "setup" /\ k[t] < NumChn
    /\ LET more == open[t] \cup ({k[t]} \ Jpeg) IN
         \/ GotoT(t, "setup", "setup") /\ At(t, k[t] + 1) /\ Files(t, more) /\ NoErr
         \/ /\ GotoT(t, "setup", "ended") /\ Err(t) /\ UNCHANGED k
            /\ \E S \in {open[t], more} : Files(t, S)
    /\ UNCHANGED <<mainVars, read_fds, lost, pending>>

SetupDone(t) ==
    /\ GotoT(t, "setup", "test") /\ k[t] = NumChn
    /\ NoErr /\ UNCHANGED <<mainVars, k, read_fds, open, lost, pending>>

TestRun(t) ==
    /\ GotoT(t, "test", IF thread_start THEN "select" ELSE "close")
    /\ NoErr /\ UNCHANGED <<mainVars, k, read_fds, open, lost, pending>>

WithStream == {c \in Channels : pending[c] > 0}

\* Slip: select without a timeout.
Select_NoTimeout(t) ==
    /\ \/ /\ GotoT(t, "select", "get") /\ WithStream # {} /\ At(t, 0) /\ NoErr
          /\ read_fds' = [read_fds EXCEPT ![t] = WithStream]
       \/ GotoT(t, "select", "close") /\ Err(t) /\ UNCHANGED <<k, read_fds>>
    /\ UNCHANGED <<mainVars, open, lost, pending>>

Select(t) ==
    /\ \/ /\ GotoT(t, "select", "get") /\ WithStream # {} /\ At(t, 0) /\ NoErr
          /\ read_fds' = [read_fds EXCEPT ![t] = WithStream]
       \/ GotoT(t, "select", "test") /\ WithStream = {} /\ NoErr /\ UNCHANGED <<k, read_fds>>
       \/ GotoT(t, "select", "close") /\ Err(t) /\ UNCHANGED <<k, read_fds>>
    /\ UNCHANGED <<mainVars, open, lost, pending>>

\* Slip: a channel without a stream ends the pass.
Get_StopsAtNone(t) ==
    /\ pcT[t] = "get" /\ k[t] < NumChn
    /\ LET c == k[t] IN
         \/ /\ c \in read_fds[t] /\ pending[c] > 0
            /\ GotoT(t, "get", "save") /\ pending' = [pending EXCEPT ![c] = @ - 1]
         \/ /\ c \notin read_fds[t] \/ pending[c] = 0
            /\ GotoT(t, "get", "test") /\ UNCHANGED pending
    /\ NoErr /\ UNCHANGED <<mainVars, k, read_fds, open, lost>>

\* sample_comm_fd_isset and the first half of
\* sample_comm_get_stream_from_one_channl.  A failure ends the pass over the
\* channels, so that those after this one wait for the next.
Get(t) ==
    /\ pcT[t] = "get" /\ k[t] < NumChn
    /\ LET c == k[t] IN
         \/ /\ c \in read_fds[t] /\ pending[c] > 0                          \* a stream
            /\ GotoT(t, "get", "save") /\ pending' = [pending EXCEPT ![c] = @ - 1]
            /\ NoErr /\ UNCHANGED k
         \/ /\ c \notin read_fds[t] \/ (pending[c] = 0 /\ chan[c] # "none")  \* none
            /\ GotoT(t, "get", "get") /\ At(t, c + 1)
            /\ NoErr /\ UNCHANGED pending
         \/ /\ c \in read_fds[t] /\ GotoT(t, "get", "test")                 \* failure
            /\ IF chan[c] = "none" THEN NoErr ELSE Err(t)
            /\ UNCHANGED <<k, pending>>
    /\ UNCHANGED <<mainVars, read_fds, open, lost>>

PassDone(t) ==
    /\ GotoT(t, "get", "test") /\ k[t] = NumChn
    /\ NoErr /\ UNCHANGED <<mainVars, k, read_fds, open, lost, pending>>

LoseStream(c) == lost' = [lost EXCEPT ![c] = @ + 1]

\* sample_comm_save_frame_to_file.  A picture whose file cannot be open is
\* dropped, its stream is not released, and the pass goes on.
Save(t) ==
    /\ pcT[t] = "save"
    /\ \/ /\ GotoT(t, "save", "release") /\ Files(t, open[t] \cup ({k[t]} \cap Jpeg))
          /\ NoErr /\ UNCHANGED <<k, lost>>
       \/ /\ k[t] \in Jpeg /\ GotoT(t, "save", "get") /\ At(t, k[t] + 1)
          /\ LoseStream(k[t]) /\ Err(t) /\ UNCHANGED open
    /\ UNCHANGED <<mainVars, read_fds, pending>>

\* Slip: the file of a picture stays open.
Release_KeepsFile(t) ==
    /\ pcT[t] = "release"
    /\ \/ GotoT(t, "release", "get") /\ At(t, k[t] + 1) /\ NoErr /\ UNCHANGED <<lost, open>>
       \/ GotoT(t, "release", "test") /\ LoseStream(k[t]) /\ Err(t) /\ UNCHANGED <<k, open>>
    /\ UNCHANGED <<mainVars, read_fds, pending>>

\* When the release fails, the file of a picture stays open too.
Release(t) ==
    /\ pcT[t] = "release"
    /\ \/ /\ GotoT(t, "release", "get") /\ At(t, k[t] + 1) /\ NoErr /\ UNCHANGED lost
          /\ Files(t, open[t] \ ({k[t]} \cap Jpeg))
       \/ GotoT(t, "release", "test") /\ LoseStream(k[t]) /\ Err(t) /\ UNCHANGED <<k, open>>
    /\ UNCHANGED <<mainVars, read_fds, pending>>

Close(t) ==
    /\ GotoT(t, "close", "ended") /\ Files(t, open[t] \cap Jpeg)
    /\ NoErr /\ UNCHANGED <<mainVars, k, read_fds, lost, pending>>

ThreadStep(t) ==
    \/ Setup(t) \/ SetupDone(t) \/ TestRun(t) \/ Select(t) \/ Get(t) \/ PassDone(t)
    \/ Save(t) \/ Release(t) \/ Close(t)

InHand(c) == Cardinality({t \in Threads : pcT[t] \in {"save", "release"} /\ k[t] = c})

\* The encoder: a channel that receives produces a stream when it has room.
Encode(c) ==
    /\ chan[c] = "receiving" /\ pending[c] + lost[c] + InHand(c) < BufCap
    /\ pending' = [pending EXCEPT ![c] = @ + 1]
    /\ UNCHANGED <<mainVars, threadVars, faults>>

Terminated == pcM = "done" /\ UNCHANGED vencVars

Next ==
    \/ MainStep \/ Key \/ Terminated
    \/ \E t \in Threads : ThreadStep(t)
    \/ \E c \in Channels : Encode(c)

Spec == Init /\ [][Next]_vencVars

\* The threads are scheduled and select has a timeout; the keys are optional.
FairSpec ==
    /\ Spec /\ WF_vencVars(MainStep)
    /\ \A t \in Threads : WF_vencVars(ThreadStep(t))

-----------------------------------------------------------------------------
(* Properties.                                                             *)
Alive(t) == pcT[t] \notin {"none", "ended"}

\* As long as every channel could be stopped, a thread works only on channels
\* that exist, and there is one thread at a time.
ThreadInsideChannels ==
    ~stopFailed => \A t \in Threads : Alive(t) =>
        /\ \A c \in Channels : chan[c] # "none"
        /\ \A u \in Threads : Alive(u) => u = t

\* Once stop_get_stream is through, its thread has ended.
StopEndsThread ==
    pcM \in {"restart", "destroy"} => \A t \in Threads : ~Alive(t)

\* pthread_join gets a thread that was not joined before, unless a restart
\* could not create one and left thread_start set.
JoinsOnce ==
    [][pcM = "join" /\ pcM' # "join" =>
          g_venc_pid \notin joined \/ createFailed]_vencVars

\* A thread that meets no failure closes every file it has open.
FilesClosed == \A t \in Threads : pcT[t] = "ended" /\ errs[t] = 0 => open[t] = {}

\* The route leaves no channel behind but one whose start or destroy failed.
NoChannelLeft == pcM = "done" => \A c \in Channels : chan[c] = "none" \/ c \in odd

\* stop_get_stream returns: the thread sees the flag even when no stream comes.
StopReturns == pcM = "join" ~> pcM # "join"

\* "get stream from each channels and save them": a stream of a channel is
\* fetched, or the thread ends.
EveryChannelServed ==
    \A c \in Channels :
        (pending[c] > 0 /\ pcT[1] = "test") ~>
           (\/ \E t \in Threads : pcT[t] = "save" /\ k[t] = c
            \/ pcT[1] = "ended" \/ chan[c] = "none")
(***************************************************************************)
(* The inductive invariant.                                                *)
(***************************************************************************)

IndexInv ==
    /\ pcM \notin {"unwind", "done"} => i >= 0
    /\ pcM = "unwind" => i < NumChn
    /\ \A t \in Threads : pcT[t] \in {"save", "release"} => k[t] < NumChn
    /\ \A t \in Threads : pcT[t] = "none" => k[t] = 0

\* Threads are numbered in the order of their creation, and a calibration
\* comes before each new one.
PidInv ==
    /\ \A t \in Threads : t > g_venc_pid => pcT[t] = "none"
    /\ \A t \in joined : t <= g_venc_pid
    /\ g_venc_pid <= pauses + 1
    /\ pcM \in {"start", "create"} => g_venc_pid = 0
    /\ pcM = "restart" \/ (pcM \in {"stop_chn", "clear", "join"} /\ ~last) => g_venc_pid <= pauses

\* A thread that no failed stop has left behind is the one created last, and
\* its channels are up.
AliveInv ==
    ~stopFailed => \A t \in Threads : Alive(t) =>
        /\ t = g_venc_pid
        /\ pcM \in {"running", "stop_chn", "clear", "join"}
        /\ thread_start \/ pcM = "join"

ChanInv ==
    /\ pcM = "start" => \A c \in Channels : chan[c] = IF c < i THEN "receiving" ELSE "none"
    /\ pcM \in {"create", "running", "stop_chn", "clear", "join", "restart"} =>
          \A c \in Channels : chan[c] # "none"
    /\ pcM = "unwind"  => \A c \in Channels : c > i => chan[c] = "none" \/ c \in odd
    /\ pcM = "destroy" => \A c \in Channels : c < i => chan[c] = "none" \/ c \in odd

JoinInv ==
    /\ pcM = "clear" => thread_start
    /\ pcM = "join" => ~thread_start
    /\ ~createFailed /\ (thread_start \/ pcM = "join") => g_venc_pid \notin joined

\* What a thread without failures has open, at place p of its loop, with c the
\* channel it is at.
FilesAt(p, c) ==
    CASE p \in {"none", "ended"} -> {}
      [] p = "setup"   -> {d \in Channels \ Jpeg : d < c}
      [] p = "release" -> (Channels \ Jpeg) \cup ({c} \cap Jpeg)
      [] OTHER -> Channels \ Jpeg

FilesInv == \A t \in Threads : errs[t] = 0 => open[t] = FilesAt(pcT[t], k[t])

VencInv ==
    /\ TypeOK /\ IndexInv /\ PidInv /\ AliveInv /\ ChanInv /\ JoinInv /\ FilesInv
    /\ NoChannelLeft
=============================================================================
