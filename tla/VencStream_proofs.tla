-------------------------- MODULE VencStream_proofs --------------------------
(***************************************************************************)
(* Safety of the encoder channels and their get-stream threads, for any    *)
(* number of channels and calibrations.  The steps of the main thread are  *)
(* looked at one by one; those of a get-stream thread only move its own    *)
(* state and never wake a thread that has ended.                           *)
(***************************************************************************)
EXTENDS VencStream, FiniteSetTheorems, TLAPS

(* What the constants, the channels and the threads are.                   *)
LEMMA Sizes ==
  /\ NumChn \in Nat /\ NumChn > 0 /\ MaxPauses \in Nat /\ MaxFaults \in Nat
  /\ BufCap \in Nat /\ BufCap > 0 /\ Jpeg \subseteq Channels
BY VencAssumption

\* Membership in the channels and the threads, as bounds on integers.
LEMMA Numbers ==
  /\ \A c : c \in Channels <=> (c \in Int /\ 0 <= c /\ c < NumChn)
  /\ \A t : t \in Threads <=> (t \in Int /\ 1 <= t /\ t <= MaxPauses + 1)
BY VencAssumption DEF Channels, Threads

(* The steps of the main thread that create no thread.                     *)
QuietStep ==
    \/ StartChn \/ StartedAll \/ Unwind \/ Key \/ StopRecv \/ StoppedAll
    \/ Clear \/ Join \/ RestartChn \/ Destroy

(* They keep the types.                                                    *)
LEMMA QuietTypes == VencInv /\ QuietStep => TypeOK' /\ IndexInv'
<1> SUFFICES ASSUME VencInv, QuietStep PROVE TypeOK' /\ IndexInv'
  OBVIOUS
<1> DEFINE At1(p, n) == /\ n \in -1..NumChn /\ (p \notin {"unwind", "done"} => n >= 0)
                       /\ (p = "unwind" => n < NumChn)
                       /\ p \in {"start", "unwind", "create", "running", "stop_chn", "clear",
                                "join", "restart", "destroy", "done"}
<1> DEFINE Bools(l, s, f, e) == l \in BOOLEAN /\ s \in BOOLEAN /\ f \in BOOLEAN /\ e \in BOOLEAN
<1> DEFINE Counts(p, g, d) == p \in 0..MaxPauses /\ g \in 0..(MaxPauses + 1) /\ d \in 0..MaxFaults
<1>a. At1(pcM, i)
  BY DEF VencInv, TypeOK, IndexInv
<1>b. Bools(last, stopFailed, thread_start, createFailed)
  BY DEF VencInv, TypeOK
<1>g. Counts(pauses, g_venc_pid, faults) /\ joined \subseteq Threads
  BY DEF VencInv, TypeOK
<1>c. /\ chan \in [Channels -> {"none", "created", "receiving"}]
      /\ pending \in [Channels -> 0..BufCap] /\ odd \subseteq Channels
  BY DEF VencInv, TypeOK
<1>d. UNCHANGED threadVars
  BY DEF QuietStep, StartChn, StartedAll, Unwind, Key, StopRecv, StoppedAll, Clear, Join,
     RestartChn, Destroy, StopVencChn, KeepThreads
<1>e. SUFFICES /\ At1(pcM', i')
               /\ Bools(last', stopFailed', thread_start', createFailed')
               /\ Counts(pauses', g_venc_pid', faults') /\ joined' \subseteq Threads
               /\ chan' \in [Channels -> {"none", "created", "receiving"}]
               /\ pending' \in [Channels -> 0..BufCap] /\ odd' \subseteq Channels
  BY <1>d DEF VencInv, TypeOK, IndexInv, threadVars
<1>f. NumChn \in Nat /\ NumChn > 0 /\ BufCap \in Nat /\ MaxPauses \in Nat /\ MaxFaults \in Nat
  BY Sizes
<1>1. CASE StartChn
  <2>1. At1(pcM', i')
    BY <1>1, <1>a, <1>f DEF StartChn, Goto, SetChn, KeepThreads, KeepFlags, KeepSession, Fault
  <2>2. Bools(last', stopFailed', thread_start', createFailed')
    BY <1>1, <1>b DEF StartChn, Goto, SetChn, KeepThreads, KeepFlags, KeepSession, Fault
  <2>5. Counts(pauses', g_venc_pid', faults')
    BY <1>1, <1>g, <1>f DEF StartChn, Goto, SetChn, KeepThreads, KeepFlags, KeepSession, Fault
  <2>6. joined' \subseteq Threads
    BY <1>1, <1>g DEF StartChn, Goto, SetChn, KeepThreads, KeepFlags, KeepSession, Fault
  <2>3. chan' \in [Channels -> {"none", "created", "receiving"}]
    BY <1>1, <1>c DEF StartChn, Goto, SetChn, KeepThreads, KeepFlags, KeepSession, Fault
  <2>4. pending' \in [Channels -> 0..BufCap]
    BY <1>1, <1>c, <1>f DEF StartChn, Goto, SetChn, KeepThreads, KeepFlags, KeepSession, Fault
  <2>7. odd' \subseteq Channels
    <3>1. i \in -1..NumChn /\ i \in Int
      BY <1>a, <1>f
    <3>2. odd' = odd \/ (odd' = odd \cup {i} /\ 0 <= i /\ i < NumChn)
      BY <1>1, <1>a, <3>1, <1>f DEF StartChn, Goto, SetChn, KeepThreads, KeepFlags, KeepSession, Fault
    <3>3. 0 <= i /\ i < NumChn => i \in Channels
      BY <3>1, <1>f DEF Channels
    <3> QED BY <3>2, <3>3, <1>c
  <2> QED BY <2>1, <2>2, <2>3, <2>4, <2>5, <2>6, <2>7
<1>2. CASE StartedAll
  <2>1. At1(pcM', i')
    BY <1>2, <1>a, <1>f DEF StartedAll, Goto, SetChn, KeepThreads, KeepFlags, KeepSession, Fault
  <2>2. Bools(last', stopFailed', thread_start', createFailed')
    BY <1>2, <1>b DEF StartedAll, Goto, SetChn, KeepThreads, KeepFlags, KeepSession, Fault
  <2>5. Counts(pauses', g_venc_pid', faults')
    BY <1>2, <1>g, <1>f DEF StartedAll, Goto, SetChn, KeepThreads, KeepFlags, KeepSession, Fault
  <2>6. joined' \subseteq Threads
    BY <1>2, <1>g DEF StartedAll, Goto, SetChn, KeepThreads, KeepFlags, KeepSession, Fault
  <2>3. chan' \in [Channels -> {"none", "created", "receiving"}]
    BY <1>2, <1>c DEF StartedAll, Goto, SetChn, KeepThreads, KeepFlags, KeepSession, Fault
  <2>4. pending' \in [Channels -> 0..BufCap]
    BY <1>2, <1>c, <1>f DEF StartedAll, Goto, SetChn, KeepThreads, KeepFlags, KeepSession, Fault
  <2>7. odd' \subseteq Channels
    BY <1>2, <1>c DEF StartedAll, Goto, SetChn, KeepThreads, KeepFlags, KeepSession, Fault
  <2> QED BY <2>1, <2>2, <2>3, <2>4, <2>5, <2>6, <2>7
<1>3. CASE Unwind
  <2>1. At1(pcM', i')
    BY <1>3, <1>a, <1>f DEF Unwind, Goto, SetChn, KeepThreads, KeepFlags, KeepSession, Fault, StopVencChn
  <2>2. Bools(last', stopFailed', thread_start', createFailed')
    BY <1>3, <1>b DEF Unwind, Goto, SetChn, KeepThreads, KeepFlags, KeepSession, Fault, StopVencChn
  <2>5. Counts(pauses', g_venc_pid', faults')
    BY <1>3, <1>g, <1>f DEF Unwind, Goto, SetChn, KeepThreads, KeepFlags, KeepSession, Fault, StopVencChn
  <2>6. joined' \subseteq Threads
    BY <1>3, <1>g DEF Unwind, Goto, SetChn, KeepThreads, KeepFlags, KeepSession, Fault, StopVencChn
  <2>3. chan' \in [Channels -> {"none", "created", "receiving"}]
    BY <1>3, <1>c DEF Unwind, Goto, SetChn, KeepThreads, KeepFlags, KeepSession, Fault, StopVencChn
  <2>4. pending' \in [Channels -> 0..BufCap]
    BY <1>3, <1>c, <1>f DEF Unwind, Goto, SetChn, KeepThreads, KeepFlags, KeepSession, Fault, StopVencChn
  <2>7. odd' \subseteq Channels
    <3>1. i \in -1..NumChn /\ i \in Int
      BY <1>a, <1>f
    <3>2. odd' = odd \/ (odd' = odd \cup {i} /\ 0 <= i /\ i < NumChn)
      BY <1>3, <1>a, <3>1, <1>f DEF Unwind, Goto, SetChn, KeepThreads, KeepFlags, KeepSession, Fault, StopVencChn
    <3>3. 0 <= i /\ i < NumChn => i \in Channels
      BY <3>1, <1>f DEF Channels
    <3> QED BY <3>2, <3>3, <1>c
  <2> QED BY <2>1, <2>2, <2>3, <2>4, <2>5, <2>6, <2>7
<1>4. CASE Key
  <2>1. At1(pcM', i')
    BY <1>4, <1>a, <1>f DEF Key, Goto, SetChn, KeepThreads, KeepFlags, KeepSession, Fault
  <2>2. Bools(last', stopFailed', thread_start', createFailed')
    BY <1>4, <1>b DEF Key, Goto, SetChn, KeepThreads, KeepFlags, KeepSession, Fault
  <2>5. Counts(pauses', g_venc_pid', faults')
    BY <1>4, <1>g, <1>f DEF Key, Goto, SetChn, KeepThreads, KeepFlags, KeepSession, Fault
  <2>6. joined' \subseteq Threads
    BY <1>4, <1>g DEF Key, Goto, SetChn, KeepThreads, KeepFlags, KeepSession, Fault
  <2>3. chan' \in [Channels -> {"none", "created", "receiving"}]
    BY <1>4, <1>c DEF Key, Goto, SetChn, KeepThreads, KeepFlags, KeepSession, Fault
  <2>4. pending' \in [Channels -> 0..BufCap]
    BY <1>4, <1>c, <1>f DEF Key, Goto, SetChn, KeepThreads, KeepFlags, KeepSession, Fault
  <2>7. odd' \subseteq Channels
    BY <1>4, <1>c DEF Key, Goto, SetChn, KeepThreads, KeepFlags, KeepSession, Fault
  <2> QED BY <2>1, <2>2, <2>3, <2>4, <2>5, <2>6, <2>7
<1>5. CASE StopRecv
  <2>1. At1(pcM', i')
    BY <1>5, <1>a, <1>f DEF StopRecv, Goto, SetChn, KeepThreads, KeepFlags, KeepSession, Fault, AfterStop
  <2>2. Bools(last', stopFailed', thread_start', createFailed')
    BY <1>5, <1>b DEF StopRecv, Goto, SetChn, KeepThreads, KeepFlags, KeepSession, Fault, AfterStop
  <2>5. Counts(pauses', g_venc_pid', faults')
    BY <1>5, <1>g, <1>f DEF StopRecv, Goto, SetChn, KeepThreads, KeepFlags, KeepSession, Fault, AfterStop
  <2>6. joined' \subseteq Threads
    BY <1>5, <1>g DEF StopRecv, Goto, SetChn, KeepThreads, KeepFlags, KeepSession, Fault, AfterStop
  <2>3. chan' \in [Channels -> {"none", "created", "receiving"}]
    BY <1>5, <1>c DEF StopRecv, Goto, SetChn, KeepThreads, KeepFlags, KeepSession, Fault, AfterStop
  <2>4. pending' \in [Channels -> 0..BufCap]
    BY <1>5, <1>c, <1>f DEF StopRecv, Goto, SetChn, KeepThreads, KeepFlags, KeepSession, Fault, AfterStop
  <2>7. odd' \subseteq Channels
    BY <1>5, <1>c DEF StopRecv, Goto, SetChn, KeepThreads, KeepFlags, KeepSession, Fault, AfterStop
  <2> QED BY <2>1, <2>2, <2>3, <2>4, <2>5, <2>6, <2>7
<1>6. CASE StoppedAll
  <2>1. At1(pcM', i')
    BY <1>6, <1>a, <1>f DEF StoppedAll, Goto, SetChn, KeepThreads, KeepFlags, KeepSession, Fault, AfterStop
  <2>2. Bools(last', stopFailed', thread_start', createFailed')
    BY <1>6, <1>b DEF StoppedAll, Goto, SetChn, KeepThreads, KeepFlags, KeepSession, Fault, AfterStop
  <2>5. Counts(pauses', g_venc_pid', faults')
    BY <1>6, <1>g, <1>f DEF StoppedAll, Goto, SetChn, KeepThreads, KeepFlags, KeepSession, Fault, AfterStop
  <2>6. joined' \subseteq Threads
    BY <1>6, <1>g DEF StoppedAll, Goto, SetChn, KeepThreads, KeepFlags, KeepSession, Fault, AfterStop
  <2>3. chan' \in [Channels -> {"none", "created", "receiving"}]
    BY <1>6, <1>c DEF StoppedAll, Goto, SetChn, KeepThreads, KeepFlags, KeepSession, Fault, AfterStop
  <2>4. pending' \in [Channels -> 0..BufCap]
    BY <1>6, <1>c, <1>f DEF StoppedAll, Goto, SetChn, KeepThreads, KeepFlags, KeepSession, Fault, AfterStop
  <2>7. odd' \subseteq Channels
    BY <1>6, <1>c DEF StoppedAll, Goto, SetChn, KeepThreads, KeepFlags, KeepSession, Fault, AfterStop
  <2> QED BY <2>1, <2>2, <2>3, <2>4, <2>5, <2>6, <2>7
<1>7. CASE Clear
  <2>1. At1(pcM', i')
    BY <1>7, <1>a, <1>f DEF Clear, Goto, SetChn, KeepThreads, KeepFlags, KeepSession, Fault
  <2>2. Bools(last', stopFailed', thread_start', createFailed')
    BY <1>7, <1>b DEF Clear, Goto, SetChn, KeepThreads, KeepFlags, KeepSession, Fault
  <2>5. Counts(pauses', g_venc_pid', faults')
    BY <1>7, <1>g, <1>f DEF Clear, Goto, SetChn, KeepThreads, KeepFlags, KeepSession, Fault
  <2>6. joined' \subseteq Threads
    BY <1>7, <1>g DEF Clear, Goto, SetChn, KeepThreads, KeepFlags, KeepSession, Fault
  <2>3. chan' \in [Channels -> {"none", "created", "receiving"}]
    BY <1>7, <1>c DEF Clear, Goto, SetChn, KeepThreads, KeepFlags, KeepSession, Fault
  <2>4. pending' \in [Channels -> 0..BufCap]
    BY <1>7, <1>c, <1>f DEF Clear, Goto, SetChn, KeepThreads, KeepFlags, KeepSession, Fault
  <2>7. odd' \subseteq Channels
    BY <1>7, <1>c DEF Clear, Goto, SetChn, KeepThreads, KeepFlags, KeepSession, Fault
  <2> QED BY <2>1, <2>2, <2>3, <2>4, <2>5, <2>6, <2>7
<1>8. CASE Join
  <2>1. At1(pcM', i')
    BY <1>8, <1>a, <1>f DEF Join, Goto, SetChn, KeepThreads, KeepFlags, KeepSession, Fault, AfterStop
  <2>2. Bools(last', stopFailed', thread_start', createFailed')
    BY <1>8, <1>b DEF Join, Goto, SetChn, KeepThreads, KeepFlags, KeepSession, Fault, AfterStop
  <2>5. Counts(pauses', g_venc_pid', faults')
    BY <1>8, <1>g, <1>f DEF Join, Goto, SetChn, KeepThreads, KeepFlags, KeepSession, Fault, AfterStop
  <2>6. joined' \subseteq Threads
    BY <1>8, <1>g DEF Join, Goto, SetChn, KeepThreads, KeepFlags, KeepSession, Fault, AfterStop
  <2>3. chan' \in [Channels -> {"none", "created", "receiving"}]
    BY <1>8, <1>c DEF Join, Goto, SetChn, KeepThreads, KeepFlags, KeepSession, Fault, AfterStop
  <2>4. pending' \in [Channels -> 0..BufCap]
    BY <1>8, <1>c, <1>f DEF Join, Goto, SetChn, KeepThreads, KeepFlags, KeepSession, Fault, AfterStop
  <2>7. odd' \subseteq Channels
    BY <1>8, <1>c DEF Join, Goto, SetChn, KeepThreads, KeepFlags, KeepSession, Fault, AfterStop
  <2> QED BY <2>1, <2>2, <2>3, <2>4, <2>5, <2>6, <2>7
<1>9. CASE RestartChn
  <2>1. At1(pcM', i')
    BY <1>9, <1>a, <1>f DEF RestartChn, Goto, SetChn, KeepThreads, KeepFlags, KeepSession, Fault
  <2>2. Bools(last', stopFailed', thread_start', createFailed')
    BY <1>9, <1>b DEF RestartChn, Goto, SetChn, KeepThreads, KeepFlags, KeepSession, Fault
  <2>5. Counts(pauses', g_venc_pid', faults')
    BY <1>9, <1>g, <1>f DEF RestartChn, Goto, SetChn, KeepThreads, KeepFlags, KeepSession, Fault
  <2>6. joined' \subseteq Threads
    BY <1>9, <1>g DEF RestartChn, Goto, SetChn, KeepThreads, KeepFlags, KeepSession, Fault
  <2>3. chan' \in [Channels -> {"none", "created", "receiving"}]
    BY <1>9, <1>c DEF RestartChn, Goto, SetChn, KeepThreads, KeepFlags, KeepSession, Fault
  <2>4. pending' \in [Channels -> 0..BufCap]
    BY <1>9, <1>c, <1>f DEF RestartChn, Goto, SetChn, KeepThreads, KeepFlags, KeepSession, Fault
  <2>7. odd' \subseteq Channels
    BY <1>9, <1>c DEF RestartChn, Goto, SetChn, KeepThreads, KeepFlags, KeepSession, Fault
  <2> QED BY <2>1, <2>2, <2>3, <2>4, <2>5, <2>6, <2>7
<1>10. CASE Destroy
  <2>1. At1(pcM', i')
    BY <1>10, <1>a, <1>f DEF Destroy, Goto, SetChn, KeepThreads, KeepFlags, KeepSession, Fault, StopVencChn
  <2>2. Bools(last', stopFailed', thread_start', createFailed')
    BY <1>10, <1>b DEF Destroy, Goto, SetChn, KeepThreads, KeepFlags, KeepSession, Fault, StopVencChn
  <2>5. Counts(pauses', g_venc_pid', faults')
    BY <1>10, <1>g, <1>f DEF Destroy, Goto, SetChn, KeepThreads, KeepFlags, KeepSession, Fault, StopVencChn
  <2>6. joined' \subseteq Threads
    BY <1>10, <1>g DEF Destroy, Goto, SetChn, KeepThreads, KeepFlags, KeepSession, Fault, StopVencChn
  <2>3. chan' \in [Channels -> {"none", "created", "receiving"}]
    BY <1>10, <1>c DEF Destroy, Goto, SetChn, KeepThreads, KeepFlags, KeepSession, Fault, StopVencChn
  <2>4. pending' \in [Channels -> 0..BufCap]
    BY <1>10, <1>c, <1>f DEF Destroy, Goto, SetChn, KeepThreads, KeepFlags, KeepSession, Fault, StopVencChn
  <2>7. odd' \subseteq Channels
    <3>1. i \in -1..NumChn /\ i \in Int
      BY <1>a, <1>f
    <3>2. odd' = odd \/ (odd' = odd \cup {i} /\ 0 <= i /\ i < NumChn)
      BY <1>10, <1>a, <3>1, <1>f DEF Destroy, Goto, SetChn, KeepThreads, KeepFlags, KeepSession, Fault, StopVencChn
    <3>3. 0 <= i /\ i < NumChn => i \in Channels
      BY <3>1, <1>f DEF Channels
    <3> QED BY <3>2, <3>3, <1>c
  <2> QED BY <2>1, <2>2, <2>3, <2>4, <2>5, <2>6, <2>7
<1> QED BY <1>1, <1>2, <1>3, <1>4, <1>5, <1>6, <1>7, <1>8, <1>9, <1>10 DEF QuietStep

(* They keep the numbering of the threads.                                 *)
LEMMA QuietPids == VencInv /\ QuietStep => PidInv'
<1> SUFFICES ASSUME VencInv, QuietStep PROVE PidInv'
  OBVIOUS
<1> USE Sizes, Numbers
<1>1. CASE StartChn
  BY <1>1 DEF StartChn, Goto, SetChn, KeepThreads, KeepFlags, KeepSession, Fault, VencInv, TypeOK, PidInv, threadVars
<1>2. CASE StartedAll
  BY <1>2 DEF StartedAll, Goto, SetChn, KeepThreads, KeepFlags, KeepSession, Fault, VencInv, TypeOK, PidInv, threadVars
<1>3. CASE Unwind
  BY <1>3 DEF Unwind, Goto, SetChn, KeepThreads, KeepFlags, KeepSession, Fault, StopVencChn, VencInv, TypeOK, PidInv, threadVars
<1>4. CASE Key
  BY <1>4 DEF Key, Goto, SetChn, KeepThreads, KeepFlags, KeepSession, Fault, VencInv, TypeOK, PidInv, threadVars
<1>5. CASE StopRecv
  BY <1>5 DEF StopRecv, Goto, SetChn, KeepThreads, KeepFlags, KeepSession, Fault, AfterStop, VencInv, TypeOK, PidInv, threadVars
<1>6. CASE StoppedAll
  BY <1>6 DEF StoppedAll, Goto, SetChn, KeepThreads, KeepFlags, KeepSession, Fault, AfterStop, VencInv, TypeOK, PidInv, threadVars
<1>7. CASE Clear
  BY <1>7 DEF Clear, Goto, SetChn, KeepThreads, KeepFlags, KeepSession, Fault, VencInv, TypeOK, PidInv, threadVars
<1>8. CASE Join
  BY <1>8 DEF Join, Goto, SetChn, KeepThreads, KeepFlags, KeepSession, Fault, AfterStop, VencInv, TypeOK, PidInv, threadVars
<1>9. CASE RestartChn
  BY <1>9 DEF RestartChn, Goto, SetChn, KeepThreads, KeepFlags, KeepSession, Fault, VencInv, TypeOK, PidInv, threadVars
<1>10. CASE Destroy
  BY <1>10 DEF Destroy, Goto, SetChn, KeepThreads, KeepFlags, KeepSession, Fault, StopVencChn, VencInv, TypeOK, PidInv, threadVars
<1> QED BY <1>1, <1>2, <1>3, <1>4, <1>5, <1>6, <1>7, <1>8, <1>9, <1>10 DEF QuietStep

(* They stop a thread before they touch its channels.                      *)
LEMMA QuietAlive == VencInv /\ QuietStep => AliveInv'
<1> SUFFICES ASSUME VencInv, QuietStep PROVE AliveInv'
  OBVIOUS
<1> USE Sizes, Numbers
<1>1. CASE StartChn
  BY <1>1 DEF StartChn, Goto, SetChn, KeepThreads, KeepFlags, KeepSession, Fault, VencInv, TypeOK, PidInv, AliveInv, Alive, threadVars
<1>2. CASE StartedAll
  BY <1>2 DEF StartedAll, Goto, SetChn, KeepThreads, KeepFlags, KeepSession, Fault, VencInv, TypeOK, PidInv, AliveInv, Alive, threadVars
<1>3. CASE Unwind
  BY <1>3 DEF Unwind, Goto, SetChn, KeepThreads, KeepFlags, KeepSession, Fault, StopVencChn, VencInv, TypeOK, PidInv, AliveInv, Alive, threadVars
<1>4. CASE Key
  BY <1>4 DEF Key, Goto, SetChn, KeepThreads, KeepFlags, KeepSession, Fault, VencInv, TypeOK, PidInv, AliveInv, Alive, threadVars
<1>5. CASE StopRecv
  BY <1>5 DEF StopRecv, Goto, SetChn, KeepThreads, KeepFlags, KeepSession, Fault, AfterStop, VencInv, TypeOK, PidInv, AliveInv, Alive, threadVars
<1>6. CASE StoppedAll
  BY <1>6 DEF StoppedAll, Goto, SetChn, KeepThreads, KeepFlags, KeepSession, Fault, AfterStop, VencInv, TypeOK, PidInv, AliveInv, Alive, threadVars
<1>7. CASE Clear
  BY <1>7 DEF Clear, Goto, SetChn, KeepThreads, KeepFlags, KeepSession, Fault, VencInv, TypeOK, PidInv, AliveInv, Alive, threadVars
<1>8. CASE Join
  BY <1>8 DEF Join, Goto, SetChn, KeepThreads, KeepFlags, KeepSession, Fault, AfterStop, VencInv, TypeOK, PidInv, AliveInv, Alive, threadVars
<1>9. CASE RestartChn
  BY <1>9 DEF RestartChn, Goto, SetChn, KeepThreads, KeepFlags, KeepSession, Fault, VencInv, TypeOK, PidInv, AliveInv, Alive, threadVars
<1>10. CASE Destroy
  BY <1>10 DEF Destroy, Goto, SetChn, KeepThreads, KeepFlags, KeepSession, Fault, StopVencChn, VencInv, TypeOK, PidInv, AliveInv, Alive, threadVars
<1> QED BY <1>1, <1>2, <1>3, <1>4, <1>5, <1>6, <1>7, <1>8, <1>9, <1>10 DEF QuietStep

(* They keep track of the channels.                                        *)
LEMMA QuietChannels == VencInv /\ QuietStep => ChanInv' /\ NoChannelLeft'
<1> SUFFICES ASSUME VencInv, QuietStep PROVE ChanInv' /\ NoChannelLeft'
  OBVIOUS
<1> USE Sizes, Numbers
<1>1. CASE StartChn
  <2>1. /\ i \in Channels /\ 0 <= i /\ i < NumChn
        /\ \A c \in Channels : c < i => chan[c] = "receiving"
        /\ \A c \in Channels : ~(c < i) => chan[c] = "none"
    BY <1>1 DEF StartChn, VencInv, TypeOK, IndexInv, ChanInv, Channels
  <2>2. /\ \A c \in Channels : c # i => chan'[c] = chan[c]
        /\ \/ pcM' = "start" /\ i' = i + 1 /\ chan'[i] = "receiving"
           \/ pcM' = "unwind" /\ i' = i - 1 /\ (chan'[i] = chan[i] \/ i \in odd') /\ odd \subseteq odd'
    BY <1>1, <2>1 DEF StartChn, SetChn, VencInv, TypeOK
  <2>3. \A c \in Channels : c < i + 1 <=> (c = i \/ c < i)
    BY <2>1 DEF Channels
  <2>4. \A c \in Channels : c > i - 1 => ~(c < i)
    BY <2>1 DEF Channels
  <2>5. CASE pcM' = "start"
    BY <2>1, <2>2, <2>3, <2>5 DEF ChanInv, NoChannelLeft
  <2>6. CASE pcM' = "unwind"
    BY <2>1, <2>2, <2>4, <2>6 DEF ChanInv, NoChannelLeft
  <2> QED BY <2>2, <2>5, <2>6
<1>2. CASE StartedAll
  BY <1>2 DEF StartedAll, Goto, SetChn, KeepThreads, KeepFlags, KeepSession, Fault, VencInv, TypeOK, IndexInv, ChanInv, NoChannelLeft
<1>3. CASE Unwind
  <2>1. CASE pcM' = "unwind"
    <3>1. /\ pcM = "unwind" /\ i \in Int /\ 0 <= i /\ i < NumChn /\ i' = i - 1
          /\ i \in Channels
      BY <1>3, <2>1 DEF Unwind, Goto, VencInv, TypeOK, IndexInv, Channels
    <3>2. /\ \A c \in Channels : c # i => chan'[c] = chan[c]
          /\ chan'[i] = "none" \/ i \in odd'
          /\ odd \subseteq odd'
      BY <1>3, <2>1, <3>1 DEF Unwind, Goto, SetChn, Fault, StopVencChn, VencInv, TypeOK
    <3>3. \A c \in Channels : c > i => chan[c] = "none" \/ c \in odd
      BY <3>1 DEF VencInv, ChanInv
    <3>4. \A c \in Channels : c > i' => c = i \/ c > i
      BY <3>1 DEF Channels
    <3> QED BY <2>1, <3>2, <3>3, <3>4 DEF ChanInv, NoChannelLeft
  <2>2. CASE pcM' = "done"
    BY <1>3, <2>2 DEF Unwind, Goto, SetChn, KeepThreads, KeepFlags, KeepSession, Fault, VencInv, TypeOK, IndexInv, ChanInv, NoChannelLeft
  <2> QED BY <1>3, <2>1, <2>2 DEF Unwind, Goto

<1>4. CASE Key
  BY <1>4 DEF Key, Goto, SetChn, KeepThreads, KeepFlags, KeepSession, Fault, VencInv, TypeOK, IndexInv, ChanInv, NoChannelLeft
<1>5. CASE StopRecv
  BY <1>5 DEF StopRecv, Goto, SetChn, KeepThreads, KeepFlags, KeepSession, Fault, AfterStop, VencInv, TypeOK, IndexInv, ChanInv, NoChannelLeft
<1>6. CASE StoppedAll
  BY <1>6 DEF StoppedAll, Goto, SetChn, KeepThreads, KeepFlags, KeepSession, Fault, AfterStop, VencInv, TypeOK, IndexInv, ChanInv, NoChannelLeft
<1>7. CASE Clear
  BY <1>7 DEF Clear, Goto, SetChn, KeepThreads, KeepFlags, KeepSession, Fault, VencInv, TypeOK, IndexInv, ChanInv, NoChannelLeft
<1>8. CASE Join
  BY <1>8 DEF Join, Goto, SetChn, KeepThreads, KeepFlags, KeepSession, Fault, AfterStop, VencInv, TypeOK, IndexInv, ChanInv, NoChannelLeft
<1>9. CASE RestartChn
  BY <1>9 DEF RestartChn, Goto, SetChn, KeepThreads, KeepFlags, KeepSession, Fault, VencInv, TypeOK, IndexInv, ChanInv, NoChannelLeft
<1>10. CASE Destroy
  <2>1. CASE pcM' = "destroy"
    <3>1. /\ pcM = "destroy" /\ i \in Int /\ 0 <= i /\ i < NumChn /\ i' = i + 1
          /\ i \in Channels
      BY <1>10, <2>1 DEF Destroy, Goto, VencInv, TypeOK, IndexInv, Channels
    <3>2. /\ \A c \in Channels : c # i => chan'[c] = chan[c]
          /\ chan'[i] = "none" \/ i \in odd'
          /\ odd \subseteq odd'
      BY <1>10, <2>1, <3>1 DEF Destroy, Goto, SetChn, Fault, StopVencChn, VencInv, TypeOK
    <3>3. \A c \in Channels : c < i => chan[c] = "none" \/ c \in odd
      BY <3>1 DEF VencInv, ChanInv
    <3>4. \A c \in Channels : c < i' => c = i \/ c < i
      BY <3>1 DEF Channels
    <3> QED BY <2>1, <3>2, <3>3, <3>4 DEF ChanInv, NoChannelLeft
  <2>2. CASE pcM' = "done"
    BY <1>10, <2>2 DEF Destroy, Goto, SetChn, KeepThreads, KeepFlags, KeepSession, Fault, VencInv, TypeOK, IndexInv, ChanInv, NoChannelLeft
  <2> QED BY <1>10, <2>1, <2>2 DEF Destroy, Goto

<1> QED BY <1>1, <1>2, <1>3, <1>4, <1>5, <1>6, <1>7, <1>8, <1>9, <1>10 DEF QuietStep

(* They join a thread once.                                                *)
LEMMA QuietJoins == VencInv /\ QuietStep => JoinInv'
<1> SUFFICES ASSUME VencInv, QuietStep PROVE JoinInv'
  OBVIOUS
<1> USE Sizes
<1>1. CASE StartChn
  BY <1>1 DEF StartChn, Goto, SetChn, KeepThreads, KeepFlags, KeepSession, Fault, VencInv, TypeOK, JoinInv
<1>2. CASE StartedAll
  BY <1>2 DEF StartedAll, Goto, SetChn, KeepThreads, KeepFlags, KeepSession, Fault, VencInv, TypeOK, JoinInv
<1>3. CASE Unwind
  BY <1>3 DEF Unwind, Goto, SetChn, KeepThreads, KeepFlags, KeepSession, Fault, StopVencChn, VencInv, TypeOK, JoinInv
<1>4. CASE Key
  BY <1>4 DEF Key, Goto, SetChn, KeepThreads, KeepFlags, KeepSession, Fault, VencInv, TypeOK, JoinInv
<1>5. CASE StopRecv
  BY <1>5 DEF StopRecv, Goto, SetChn, KeepThreads, KeepFlags, KeepSession, Fault, AfterStop, VencInv, TypeOK, JoinInv
<1>6. CASE StoppedAll
  BY <1>6 DEF StoppedAll, Goto, SetChn, KeepThreads, KeepFlags, KeepSession, Fault, AfterStop, VencInv, TypeOK, JoinInv
<1>7. CASE Clear
  BY <1>7 DEF Clear, Goto, SetChn, KeepThreads, KeepFlags, KeepSession, Fault, VencInv, TypeOK, JoinInv
<1>8. CASE Join
  BY <1>8 DEF Join, Goto, SetChn, KeepThreads, KeepFlags, KeepSession, Fault, AfterStop, VencInv, TypeOK, JoinInv
<1>9. CASE RestartChn
  BY <1>9 DEF RestartChn, Goto, SetChn, KeepThreads, KeepFlags, KeepSession, Fault, VencInv, TypeOK, JoinInv
<1>10. CASE Destroy
  BY <1>10 DEF Destroy, Goto, SetChn, KeepThreads, KeepFlags, KeepSession, Fault, StopVencChn, VencInv, TypeOK, JoinInv
<1> QED BY <1>1, <1>2, <1>3, <1>4, <1>5, <1>6, <1>7, <1>8, <1>9, <1>10 DEF QuietStep

(* They leave the files alone.                                             *)
LEMMA QuietFiles == VencInv /\ QuietStep => FilesInv'
<1> SUFFICES ASSUME VencInv, QuietStep PROVE FilesInv'
  OBVIOUS
<1>1. UNCHANGED threadVars
  BY DEF QuietStep, StartChn, StartedAll, Unwind, Key, StopRecv, StoppedAll, Clear, Join,
     RestartChn, Destroy, StopVencChn, KeepThreads, threadVars
<1> QED BY <1>1 DEF VencInv, FilesInv, threadVars

(* A step of thread t alone: the main thread's state, and that of every    *)
(* other get-stream thread, stay as they are.                              *)
LEMMA OneThreadMoves ==
  ASSUME VencInv, NEW t \in Threads, UNCHANGED mainVars, TypeOK',
         pcT[t] \notin {"none", "ended"}, pcT'[t] # "none",
         \A u \in Threads \ {t} : /\ pcT'[u] = pcT[u] /\ k'[u] = k[u]
                                  /\ open'[u] = open[u] /\ errs'[u] = errs[u],
         pcT'[t] \in {"save", "release"} => k'[t] < NumChn,
         errs'[t] = 0 => open'[t] = FilesAt(pcT'[t], k'[t])
  PROVE  VencInv'
<1>1. IndexInv'
  BY DEF VencInv, IndexInv, mainVars
<1>2. PidInv'
  BY DEF VencInv, PidInv, mainVars
<1>3. AliveInv'
  BY DEF VencInv, AliveInv, Alive, mainVars
<1>4. ChanInv' /\ NoChannelLeft'
  BY DEF VencInv, ChanInv, NoChannelLeft, mainVars
<1>5. JoinInv'
  BY DEF VencInv, JoinInv, mainVars
<1>6. FilesInv'
  <2> SUFFICES ASSUME NEW u \in Threads, errs'[u] = 0 PROVE open'[u] = FilesAt(pcT'[u], k'[u])
    BY DEF FilesInv, FilesAt
  <2>1. CASE u = t
    BY <2>1 DEF FilesAt
  <2>2. CASE u # t
    BY <2>2 DEF VencInv, FilesInv
  <2> QED BY <2>1, <2>2
<1> QED BY <1>1, <1>2, <1>3, <1>4, <1>5, <1>6 DEF VencInv

(* What a thread of this place and this channel has open, as the failures  *)
(* of it go.                                                               *)
LEMMA FilesOf == ASSUME VencInv, NEW t \in Threads, errs[t] = 0 PROVE open[t] = FilesAt(pcT[t], k[t])
BY DEF VencInv, FilesInv

(* The step of a get-stream thread, by the line it is at.                  *)
LEMMA ThreadMoves == ASSUME VencInv, NEW t \in Threads, ThreadStep(t) PROVE VencInv'
<1> USE Sizes
<1> DEFINE Places == {"none", "setup", "test", "select", "get", "save", "release", "close", "ended"}
<1> DEFINE Typed == /\ pcT' \in [Threads -> Places] /\ k' \in [Threads -> 0..NumChn]
                    /\ read_fds' \in [Threads -> SUBSET Channels]
                    /\ open' \in [Threads -> SUBSET Channels] /\ errs' \in [Threads -> Nat]
                    /\ pending' \in [Channels -> 0..BufCap] /\ lost' \in [Channels -> Nat]
                    /\ faults' \in 0..MaxFaults
<1> DEFINE Moved == /\ pcT[t] \notin {"none", "ended"} /\ pcT'[t] # "none"
                    /\ UNCHANGED mainVars
                    /\ \A u \in Threads \ {t} : /\ pcT'[u] = pcT[u] /\ k'[u] = k[u]
                                                /\ open'[u] = open[u] /\ errs'[u] = errs[u]
<1> DEFINE Kept == /\ pcT'[t] \in {"save", "release"} => k'[t] < NumChn
                   /\ errs'[t] = 0 => open'[t] = FilesAt(pcT'[t], k'[t])
<1>a. /\ pcT \in [Threads -> Places] /\ k \in [Threads -> 0..NumChn]
      /\ read_fds \in [Threads -> SUBSET Channels]
      /\ open \in [Threads -> SUBSET Channels] /\ errs \in [Threads -> Nat]
      /\ pending \in [Channels -> 0..BufCap] /\ lost \in [Channels -> Nat]
      /\ faults \in 0..MaxFaults
  BY DEF VencInv, TypeOK
<1>b. /\ errs[t] = 0 => open[t] = FilesAt(pcT[t], k[t])
      /\ pcT[t] \in {"save", "release"} => k[t] < NumChn
      /\ k[t] \in 0..NumChn /\ open[t] \subseteq Channels /\ errs[t] \in Nat /\ faults \in Nat
  BY <1>a DEF VencInv, FilesInv, IndexInv
<1>c. k[t] < NumChn => k[t] \in Channels
  BY <1>b DEF Channels
<1>d. SUFFICES Typed /\ Moved /\ Kept
  <2>1. TypeOK'
    BY <1>d DEF VencInv, TypeOK, mainVars
  <2> QED BY <1>d, <2>1, OneThreadMoves
<1> HIDE DEF Places
<1>1. CASE Setup(t)
  <2>1. Typed
    BY <1>1, <1>a, <1>b, <1>c DEF Setup, GotoT, Err, NoErr, Files, At, LoseStream, Fault, Places
  <2>2. Moved
    BY <1>1, <1>a DEF Setup, GotoT, Err, NoErr, Files, At, LoseStream, Fault
  <2>3. Kept
    <3>1. CASE errs'[t] = 0
      <4>1. /\ pcT'[t] = "setup" /\ k'[t] = k[t] + 1 /\ pcT[t] = "setup" /\ k[t] < NumChn
            /\ open'[t] = open[t] \cup ({k[t]} \ Jpeg) /\ errs[t] = 0
        BY <1>1, <1>a, <1>b, <3>1 DEF Setup, GotoT, Err, NoErr, Files, At, LoseStream, Fault
      <4>2. open[t] = {d \in Channels \ Jpeg : d < k[t]}
        BY <4>1, <1>b DEF FilesAt
      <4>3. \A d \in Channels : d < k[t] + 1 <=> (d < k[t] \/ d = k[t])
        BY <1>b DEF Channels
      <4>4. open'[t] = {d \in Channels \ Jpeg : d < k[t] + 1}
        BY <4>1, <4>2, <4>3, <1>c
      <4> QED BY <4>1, <4>4 DEF FilesAt
    <3>2. CASE errs'[t] # 0
      BY <3>2, <1>1, <1>a DEF Setup, GotoT
    <3> QED BY <3>1, <3>2
  <2> QED BY <2>1, <2>2, <2>3
<1>2. CASE SetupDone(t)
  <2>1. Typed
    BY <1>2, <1>a, <1>b, <1>c DEF SetupDone, GotoT, Err, NoErr, Files, At, LoseStream, Fault, Places
  <2>2. Moved
    BY <1>2, <1>a DEF SetupDone, GotoT, Err, NoErr, Files, At, LoseStream, Fault
  <2>3. Kept
    <3>1. /\ pcT'[t] = "test" /\ pcT[t] = "setup" /\ k[t] = NumChn
          /\ open'[t] = open[t] /\ errs'[t] = errs[t]
      BY <1>2, <1>a DEF SetupDone, GotoT, Err, NoErr, Files, At, LoseStream, Fault
    <3>2. \A d \in Channels : d < NumChn
      BY DEF Channels
    <3>3. errs[t] = 0 => open[t] = {d \in Channels \ Jpeg : d < NumChn}
      BY <3>1, <1>b DEF FilesAt
    <3> QED BY <3>1, <3>2, <3>3 DEF FilesAt
  <2> QED BY <2>1, <2>2, <2>3
<1>3. CASE TestRun(t)
  <2>1. Typed
    BY <1>3, <1>a, <1>b, <1>c DEF TestRun, GotoT, Err, NoErr, Files, At, LoseStream, Fault, Places
  <2>2. Moved
    BY <1>3, <1>a DEF TestRun, GotoT, Err, NoErr, Files, At, LoseStream, Fault
  <2>3. Kept
    BY <1>3, <1>a, <1>b, <1>c DEF TestRun, GotoT, Err, NoErr, Files, At, LoseStream, Fault, FilesAt
  <2> QED BY <2>1, <2>2, <2>3
<1>4. CASE Select(t)
  <2>1. Typed
    BY <1>4, <1>a, <1>b, <1>c DEF Select, GotoT, Err, NoErr, Files, At, LoseStream, Fault, WithStream, Places
  <2>2. Moved
    BY <1>4, <1>a DEF Select, GotoT, Err, NoErr, Files, At, LoseStream, Fault, WithStream
  <2>3. Kept
    BY <1>4, <1>a, <1>b, <1>c DEF Select, GotoT, Err, NoErr, Files, At, LoseStream, Fault, FilesAt
  <2> QED BY <2>1, <2>2, <2>3
<1>5. CASE Get(t)
  <2>1. Typed
    BY <1>5, <1>a, <1>b, <1>c DEF Get, GotoT, Err, NoErr, Files, At, LoseStream, Fault, Places
  <2>2. Moved
    BY <1>5, <1>a DEF Get, GotoT, Err, NoErr, Files, At, LoseStream, Fault
  <2>3. Kept
    BY <1>5, <1>a, <1>b, <1>c DEF Get, GotoT, Err, NoErr, Files, At, LoseStream, Fault, FilesAt
  <2> QED BY <2>1, <2>2, <2>3
<1>6. CASE PassDone(t)
  <2>1. Typed
    BY <1>6, <1>a, <1>b, <1>c DEF PassDone, GotoT, Err, NoErr, Files, At, LoseStream, Fault, Places
  <2>2. Moved
    BY <1>6, <1>a DEF PassDone, GotoT, Err, NoErr, Files, At, LoseStream, Fault
  <2>3. Kept
    BY <1>6, <1>a, <1>b, <1>c DEF PassDone, GotoT, Err, NoErr, Files, At, LoseStream, Fault, FilesAt
  <2> QED BY <2>1, <2>2, <2>3
<1>7. CASE Save(t)
  <2>1. Typed
    BY <1>7, <1>a, <1>b, <1>c DEF Save, GotoT, Err, NoErr, Files, At, LoseStream, Fault, Places
  <2>2. Moved
    BY <1>7, <1>a DEF Save, GotoT, Err, NoErr, Files, At, LoseStream, Fault
  <2>3. Kept
    <3>1. CASE errs'[t] = 0
      <4>1. /\ pcT'[t] = "release" /\ pcT[t] = "save" /\ errs[t] = 0
            /\ open'[t] = open[t] \cup ({k[t]} \cap Jpeg) /\ k'[t] = k[t]
        BY <1>7, <1>a, <1>b, <3>1 DEF Save, GotoT, Err, NoErr, Files, At, LoseStream, Fault
      <4>2. /\ open[t] = FilesAt("save", k[t])
            /\ k[t] < NumChn
        BY <4>1, <1>b
      <4> QED BY <4>1, <4>2 DEF FilesAt
    <3>2. CASE errs'[t] # 0
      BY <3>2, <1>7, <1>a, <1>b DEF Save, GotoT, Err, NoErr, Files, At, LoseStream, Fault
    <3> QED BY <3>1, <3>2
  <2> QED BY <2>1, <2>2, <2>3
<1>8. CASE Release(t)
  <2>1. Typed
    BY <1>8, <1>a, <1>b, <1>c DEF Release, GotoT, Err, NoErr, Files, At, LoseStream, Fault, Places
  <2>2. Moved
    BY <1>8, <1>a DEF Release, GotoT, Err, NoErr, Files, At, LoseStream, Fault
  <2>3. Kept
    <3>1. CASE errs'[t] = 0
      <4>1. /\ pcT'[t] = "get" /\ pcT[t] = "release" /\ errs[t] = 0
            /\ open'[t] = open[t] \ ({k[t]} \cap Jpeg)
        BY <1>8, <1>a, <1>b, <3>1 DEF Release, GotoT, Err, NoErr, Files, At, LoseStream, Fault
      <4>2. /\ open[t] = FilesAt("release", k[t])
            /\ k[t] < NumChn
        BY <4>1, <1>b
      <4> QED BY <4>1, <4>2 DEF FilesAt
    <3>2. CASE errs'[t] # 0
      BY <3>2, <1>8, <1>a, <1>b DEF Release, GotoT, Err, NoErr, Files, At, LoseStream, Fault
    <3> QED BY <3>1, <3>2
  <2> QED BY <2>1, <2>2, <2>3
<1>9. CASE Close(t)
  <2>1. Typed
    BY <1>9, <1>a, <1>b, <1>c DEF Close, GotoT, Err, NoErr, Files, At, LoseStream, Fault, Places
  <2>2. Moved
    BY <1>9, <1>a DEF Close, GotoT, Err, NoErr, Files, At, LoseStream, Fault
  <2>3. Kept
    BY <1>9, <1>a, <1>b, <1>c DEF Close, GotoT, Err, NoErr, Files, At, LoseStream, Fault, FilesAt
  <2> QED BY <2>1, <2>2, <2>3
<1> QED BY <1>1, <1>2, <1>3, <1>4, <1>5, <1>6, <1>7, <1>8, <1>9 DEF ThreadStep

(* A step that creates a thread: its number is new, so it starts with      *)
(* nothing open; a failure leaves the threads alone.                       *)
LEMMA ThreadCreated == VencInv /\ (Create \/ Restart) => VencInv'
<1> SUFFICES ASSUME VencInv, Create \/ Restart PROVE VencInv'
  OBVIOUS
<1> USE Sizes
<1> DEFINE g == g_venc_pid + 1
<1>a. /\ pcM \in {"create", "restart"} /\ i \in -1..NumChn /\ g_venc_pid \in Nat
      /\ pauses \in Nat /\ pauses <= MaxPauses /\ faults \in 0..MaxFaults
      /\ pcT \in [Threads -> {"none", "setup", "test", "select", "get", "save", "release",
                              "close", "ended"}]
      /\ k \in [Threads -> 0..NumChn] /\ open \in [Threads -> SUBSET Channels]
  BY DEF Create, Restart, VencInv, TypeOK
<1>b. g_venc_pid <= pauses /\ g \in Threads /\ g <= MaxPauses + 1 /\ g \in 0..(MaxPauses + 1)
  BY <1>a DEF VencInv, PidInv, Threads
<1>c. pcT[g] = "none" /\ k[g] = 0 /\ g \notin joined
  BY <1>a, <1>b DEF VencInv, PidInv, IndexInv, Threads
<1>d. ~stopFailed => \A t \in Threads : ~Alive(t)
  BY <1>a DEF VencInv, AliveInv
<1>e. \A c \in Channels : chan[c] # "none" /\ c < NumChn
  BY <1>a DEF VencInv, ChanInv, Channels
<1>f. /\ UNCHANGED <<chan, odd, pending, joined, k, read_fds, open, errs, lost>>
      /\ UNCHANGED <<last, pauses, stopFailed>> /\ thread_start' = TRUE
  BY DEF Create, Restart, CreateThread, KeepSession
<1>1. CASE /\ pcM' = "running" /\ i' = 0 /\ g_venc_pid' = g /\ pcT' = [pcT EXCEPT ![g] = "setup"]
           /\ UNCHANGED <<faults, createFailed>>
  <2>1. TypeOK'
    BY <1>1, <1>a, <1>b, <1>f DEF VencInv, TypeOK
  <2>2. IndexInv'
    BY <1>1, <1>a, <1>b, <1>c, <1>f DEF VencInv, IndexInv
  <2>3. PidInv'
    BY <1>1, <1>a, <1>b, <1>f DEF VencInv, TypeOK, PidInv, Threads
  <2>4. AliveInv'
    BY <1>1, <1>a, <1>b, <1>d, <1>f DEF AliveInv, Alive
  <2>5. ChanInv' /\ NoChannelLeft'
    BY <1>1, <1>e, <1>f DEF ChanInv, NoChannelLeft
  <2>6. JoinInv'
    BY <1>1, <1>c, <1>f DEF JoinInv
  <2>7. FilesInv'
    <3> SUFFICES ASSUME NEW u \in Threads, errs'[u] = 0 PROVE open'[u] = FilesAt(pcT'[u], k'[u])
      BY DEF FilesInv, FilesAt
    <3>1. open[u] = FilesAt(pcT[u], k[u])
      BY <1>f DEF VencInv, FilesInv
    <3>2. CASE u = g
      <4>1. open'[u] = {} /\ pcT'[u] = "setup" /\ k'[u] = 0
        <5>1. open'[u] = open[u] /\ k'[u] = 0 /\ pcT[u] = "none"
          BY <3>2, <1>c, <1>f
        <5>2. pcT'[u] = "setup"
          BY <3>2, <1>1, <1>a, <1>b
        <5> QED BY <5>1, <5>2, <3>1 DEF FilesAt
      <4>2. {d \in Channels \ Jpeg : d < 0} = {}
        BY DEF Channels
      <4> QED BY <4>1, <4>2 DEF FilesAt
    <3>3. CASE u # g
      BY <3>1, <3>3, <1>1, <1>a, <1>b, <1>f DEF FilesAt
    <3> QED BY <3>2, <3>3
  <2> QED BY <2>1, <2>2, <2>3, <2>4, <2>5, <2>6, <2>7 DEF VencInv
<1>2. CASE /\ \/ pcM = "create" /\ pcM' = "unwind" /\ i' = NumChn - 1
              \/ pcM = "restart" /\ pcM' = "running" /\ i' = 0
           /\ faults' \in 0..MaxFaults /\ createFailed' = TRUE /\ UNCHANGED <<g_venc_pid, pcT>>
  <2>1. TypeOK'
    BY <1>2, <1>a, <1>f DEF VencInv, TypeOK
  <2>2. IndexInv'
    BY <1>2, <1>a, <1>f DEF VencInv, IndexInv
  <2>3. PidInv'
    BY <1>2, <1>a, <1>f DEF VencInv, TypeOK, PidInv
  <2>4. AliveInv'
    BY <1>2, <1>d, <1>f DEF AliveInv, Alive
  <2>5. ChanInv' /\ NoChannelLeft'
    <3>1. \A c \in Channels : ~(c > NumChn - 1)
      BY DEF Channels
    <3> QED BY <3>1, <1>2, <1>e, <1>f DEF ChanInv, NoChannelLeft
  <2>6. JoinInv'
    BY <1>2, <1>f DEF JoinInv
  <2>7. FilesInv'
    BY <1>2, <1>f DEF VencInv, FilesInv
  <2> QED BY <2>1, <2>2, <2>3, <2>4, <2>5, <2>6, <2>7 DEF VencInv
<1>3. Fault => faults' \in 0..MaxFaults
  BY <1>a DEF Fault
<1>4. \/ pcM = "create" /\ CreateThread("unwind", NumChn - 1)
      \/ pcM = "restart" /\ CreateThread("running", 0)
  BY DEF Create, Restart
<1> QED BY <1>1, <1>2, <1>3, <1>4 DEF CreateThread

(* The encoder only fills a channel.                                       *)
LEMMA Encoded == ASSUME VencInv, NEW c \in Channels, Encode(c) PROVE VencInv'
<1>1. UNCHANGED <<mainVars, threadVars, faults>>
  BY DEF Encode
<1>2. pending' \in [Channels -> 0..BufCap]
  <2>1. pending \in [Channels -> 0..BufCap] /\ lost[c] \in Nat /\ BufCap \in Nat
    BY Sizes DEF VencInv, TypeOK
  <2>2. InHand(c) \in Nat
    <3>1. IsFiniteSet(Threads)
      BY Sizes, FS_Interval DEF Threads
    <3>2. IsFiniteSet({t \in Threads : pcT[t] \in {"save", "release"} /\ k[t] = c})
      BY <3>1, FS_Subset
    <3> QED BY <3>2, FS_CardinalityType DEF InHand
  <2> QED BY <2>1, <2>2 DEF Encode
<1>3. TypeOK'
  BY <1>1, <1>2 DEF VencInv, TypeOK, mainVars, threadVars
<1> QED BY <1>1, <1>3 DEF VencInv, IndexInv, PidInv, AliveInv, Alive, ChanInv, JoinInv, FilesInv,
      NoChannelLeft, mainVars, threadVars

(* The route before its first step.                                        *)
LEMMA InitInv == Init => VencInv
<1> SUFFICES ASSUME Init PROVE VencInv
  OBVIOUS
<1>1. TypeOK
  <2>1. /\ pcM = "start" /\ i \in -1..NumChn /\ pauses \in 0..MaxPauses
        /\ g_venc_pid \in 0..(MaxPauses + 1) /\ faults \in 0..MaxFaults
    BY Sizes DEF Init
  <2>2. /\ odd \subseteq Channels /\ joined \subseteq Threads
    BY DEF Init
  <2>4. last \in BOOLEAN /\ thread_start \in BOOLEAN /\ stopFailed \in BOOLEAN /\ createFailed \in BOOLEAN
    BY DEF Init
  <2>3. /\ k \in [Threads -> 0..NumChn] /\ pending \in [Channels -> 0..BufCap]
        /\ lost \in [Channels -> Nat] /\ errs \in [Threads -> Nat]
    BY Sizes DEF Init
  <2> QED BY <2>1, <2>2, <2>3, <2>4 DEF Init, TypeOK
<1>2. IndexInv /\ PidInv /\ AliveInv /\ ChanInv /\ JoinInv /\ NoChannelLeft
  BY Sizes, Numbers DEF Init, IndexInv, PidInv, AliveInv, Alive, ChanInv, JoinInv, NoChannelLeft
<1>3. FilesInv
  BY DEF Init, FilesInv, FilesAt
<1> QED BY <1>1, <1>2, <1>3 DEF VencInv

(* Every step keeps the invariant.                                         *)
LEMMA StepInv == VencInv /\ [Next]_vencVars => VencInv'
<1> SUFFICES ASSUME VencInv, [Next]_vencVars PROVE VencInv'
  OBVIOUS
<1>1. CASE QuietStep
  BY <1>1, QuietTypes, QuietPids, QuietAlive, QuietChannels, QuietJoins, QuietFiles DEF VencInv
<1>2. CASE Create \/ Restart
  BY <1>2, ThreadCreated
<1>3. CASE \E t \in Threads : ThreadStep(t)
  BY <1>3, ThreadMoves
<1>4. CASE \E c \in Channels : Encode(c)
  BY <1>4, Encoded
<1>5. CASE UNCHANGED vencVars
  BY <1>5 DEF VencInv, TypeOK, IndexInv, PidInv, AliveInv, Alive, ChanInv, JoinInv, FilesInv,
     NoChannelLeft, vencVars, mainVars, threadVars
<1> QED BY <1>1, <1>2, <1>3, <1>4, <1>5 DEF Next, MainStep, QuietStep, Terminated

(* The invariant holds throughout.                                         *)
THEOREM VencInvariance == Spec => []VencInv
<1> QED BY InitInv, StepInv, PTL DEF Spec

(* Type correctness: the loops over the channels stay within them.         *)
THEOREM VencTypes == Spec => []TypeOK
<1>1. VencInv => TypeOK
  BY DEF VencInv
<1> QED BY <1>1, VencInvariance, PTL

(* As long as every channel could be stopped, one get-stream thread at a   *)
(* time works, on channels that are up.                                    *)
THEOREM ThreadsInside == Spec => []ThreadInsideChannels
<1>1. VencInv => ThreadInsideChannels
  BY DEF VencInv, ThreadInsideChannels, AliveInv, ChanInv
<1> QED BY <1>1, VencInvariance, PTL

(* A thread that ends without a failure leaves no file open.               *)
THEOREM NoFileLeft == Spec => []FilesClosed
<1>1. VencInv => FilesClosed
  BY DEF VencInv, FilesInv, FilesAt, FilesClosed
<1> QED BY <1>1, VencInvariance, PTL

(* The route leaves no channel but one that could not be started or        *)
(* destroyed.                                                              *)
THEOREM ChannelsDestroyed == Spec => []NoChannelLeft
<1>1. VencInv => NoChannelLeft
  BY DEF VencInv
<1> QED BY <1>1, VencInvariance, PTL

(* pthread_join never gets a thread a second time, unless one could not be *)
(* created.                                                                *)
THEOREM ThreadsJoinedOnce == Spec => JoinsOnce
<1>1. VencInv /\ [Next]_vencVars =>
        [pcM = "join" /\ pcM' # "join" => g_venc_pid \notin joined \/ createFailed]_vencVars
  BY DEF VencInv, JoinInv
<1> QED BY <1>1, VencInvariance, PTL DEF Spec, JoinsOnce

=============================================================================
