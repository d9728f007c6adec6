# A verification project for ss928_yolov5_demo

The repository is a YOLOv5 detector for the SS928 camera SoC: a live demo that
takes frames from the video pipeline and runs a model on them, a detector for
single pictures, the menu of video routes it grew out of, and the helper library
both stand on. This directory holds TLA+ modules translated from its C and C++
sources, the TLC configurations that check them on small instances, and proofs for
TLAPS.

Paths below are relative to `src/`; `common/` stands for `ss928sdk/common/`,
`include/` for `ss928sdk/include/`.

## 1. The system

| part | sources | state it keeps | operations | what makes it hard | what makes it correct |
|---|---|---|---|---|---|
| live demo | `sample/sample_vio.c` (`sample_vio_lowdelay`, `sample_nnnn_proc`), `svp/npu/sample_svp_npu/sample_npu_process.c` (`nnn_init`, `nnn_execute`) | which parts of the media route run, `nnn_thd_run`, `g_sig_flag`, the frame in the thread's hands | bring the route up, wait for keys, stop the thread, take the route down; get, map, infer, send and release a frame | two threads and a signal; every MPI and AscendCL call can fail; the order of join, unbind and stop | the thread's frame lies inside the life of the VPSS group; the model runs on a complete slot and never on an earlier frame; leaks are bounded by failures; the route comes down in reverse, but for what a failing call keeps |
| NPU model table | `sample_npu_model.c` | `g_npu_acl_model[]`: model memory, description, data sets, buffers | load, create and destroy, execute | partial failure, ladders that run twice, pointers overwritten | nothing freed twice, nothing lost but by a failed call |
| still-picture detector | `sample_npu_main.c`, `sample_npu_process.c`, `yolov5.cpp` (conversion) | the picture file, AscendCL, one slot | convert, load, fill, execute, report, undo | goto ladder, results ignored, files that outlive a killed run, a signal handler over a pointer never set | a report is about the picture of its run; the ladder undoes exactly what succeeded |
| other NPU samples | `sample_npu_process.c`, `sample_npu_model.c` | several slots, a thread per slot; cached memory | a ladder over all slots, dynamic batches | a rung that fails undoes the rungs below, not what its own loop has done | as above, for every slot |
| post-processing | `yolov5.cpp` | static `proposals` and `objects`, the parallel quick sort | collect three heads, sort, suppress, scale back, report, draw | results that arrive per output buffer; OpenMP sections sorting one vector; two ways of laying out a picture | sections never share an element; no two boxes kept overlap; boxes come back to where they were |
| routes of the menu | `sample_vio.c`, `common/sample_comm_{vi,vo,vpss,sys,isp}.c` | MPI objects of a process | one ladder per route over some forty start and stop functions | hand-written error ladders three deep, mode switch under a running ISP | nothing left, nothing stopped twice, nothing standing on what is down |
| encoder stream thread | `common/sample_comm_venc.c` | thread parameters, open files, per-channel stream | start, select loop, save, stop, pause for a calibration | a thread against `thread_start`, a stop that gives up half-way | the thread ends before its channels; files closed; a stop returns |
| threads of VI, VENC, VDEC, audio, ISP | `common/*.c` | thread handles, run flags, frames, streams, files | start, loop, stop | flags and joins, a thread that ends by itself, objects both sides give back | nothing used, closed, freed or joined that is not there; nothing kept; a stop returns |
| ladders of VO, SYS, regions, MIPI Tx, SVP, codecs | `common/*.c`, `svp/common/*.c` | driver objects, files, memory | start and stop in steps | error paths that overwrite, repeat or skip | the same |
| attributes, sizes, layouts | `common/*.c`, `svp/common/*.c`, `include/ot_buffer.h`, `ncnn/include/mat.h`, `include/osal_list.h` | none of their own | tables, alignment, cutting of streams, geometry | tables that must agree, widths of integers, off-by-one at the ends of buffers | what is set aside is enough, what is placed fits, what is written twice agrees |

How they interact. `main1` dispatches one menu entry to one route, runs it on the
main thread and exits. A route calls the helpers of `common/`; they hold the MPI
objects in the driver (VB, SYS, VI devices and pipes, ISP, VPSS groups, VO, encoder
channels, binds). The live demo adds a thread of its own which shares with the main
thread the flag `nnn_thd_run` and the media route; every route with an encoder adds
the get-stream thread, which shares `g_para.thread_start` and the channels. A signal
handler sets `g_sig_flag`. The inference thread calls AscendCL through the model
table; the output buffers go to `ncnn_result` one by one. The other helpers of
`common/` and `svp/common/` are a library for samples that are not all in this
repository: their callers are modelled as the smallest program that starts, waits
and stops.

Everything below the repository (MPI, AscendCL, OpenCV, ncnn's library, pthreads)
appears as its result: a call succeeds or fails, a driver object is up or down.

## 2. Modules

| family | modules | checked by | proofs |
|---|---|---|---|
| NPU and live demo | `NpuModel` <- `NnnLive` (refines `FrameLease`), `NpuModel` <- `NpuStill` | `MCNnnLive`, `MCNpuStill` | `NpuModel_proofs` <- `NnnLive_proofs`, `NpuStill_proofs` |
| post-processing | `ParQsort`, `Detect` | `MCParQsort`, `MCDetect` | `PostProcess_proofs` |
| encoder stream | `VencStream` | `MCVencStream` | `VencStream_proofs` |
| routes | `VioLadders` <- `VioRoute` <- `VioLedger` | `VioLedger` | `VioRoute_proofs` |
| threads and ladders of the library | `Tasks` <- `ViTasks`, `VencTasks`, `AudioTasks`, `RegionTasks`, `OutputTasks`, `VdecTasks` <- `SvpTasks`, `NpuTasks` <- `SvpNpuTasks`; all <- `Workers` | `Workers` | - |
| algorithms | `EncoderRates`, `Buffers`, `Layouts`, `Screens` <- `Sensors`, `Regions`, `Pixels`, `Mats`, `Lists`, `Tensors`, `Feeds`; all <- `Calls` | `Calls` | `Buffers_proofs` <- `Calls_proofs` |

"A <- B" means B extends A. Modules named `MC...` define what the constants of a run
are given; `Workers` and `Calls` take the numbers of their bounds from the .cfg alone.
Operators whose comment begins with "Slip" or "Mutant" are deliberately wrong variants
of the definition that follows; nothing uses them, they exist to show that a property
notices that mistake (`PROJECT.json`, "mutants").

### NpuModel, NnnLive, FrameLease
* `slot` is `g_npu_acl_model[]`, `heap` counts what has been allocated for a slot and
  not freed: the difference between the two is what leaked. One action per function
  of `sample_npu_model.c`, with every place it can fail at; `faults` bounds failures.
* `pcM` walks `sample_vio_lowdelay` call by call, with each error label; `up` is the
  set of parts running, `lost` that of the parts whose own start or stop call has failed.
  A start that fails takes back what it had started, or leaves some of it (the ISP after
  a failed `ss_mpi_isp_init`, display channels, a created encoder channel): both are
  outcomes of `Start`. A stop that gives up (`sample_comm_vo_stop_vo`,
  `sample_comm_venc_stop_get_stream`) leaves its part up. `LowDelay` in `VioRoute` has
  the same route object by object, and names what each of these calls loses. `sample_get_char` is three steps (test of the flag, the call of
  `getchar`, the read), because a signal may fall between them.
* `pcT` walks `sample_nnnn_proc`, `nnn_init` and `nnn_execute`. `frame`, `held` and
  `mapped` are the frame in the thread's variable, the blocks it owes VPSS, and the
  mapping. Ignored results (binds, `pthread_create`, `dataset_prepare_init`) are
  choices with no effect on where the code goes on. Nor is the result of `mmap` looked at:
  after a failed one the input buffer is made on NULL, and the model run on it.
* Joining a thread id never assigned is undefined: the model returns or crashes.
* `FrameLease` is what a user of VPSS frames promises the group's owner. `KeepsLease`
  states that the live demo implements it, the group being idle, running or stopped
  according to `up` and `pcM`, the lease none, out or mapped according to `held` and
  `mapped`.

### NpuStill
The same table under `sample_svp_npu_acl_resnet50`, `main` and the conversion. `yuv`,
`image` and `report` are the three files; they survive a run, a kill between any two
calls, and a kill inside `fwrite`. A picture is a model value and a file's content is
"absent, empty, part or whole, of which picture".

### ParQsort, Detect
`ParQsort` is `qsort_descent_inplace` with each comparison a step and each OpenMP
section a call of its own; any set of calls interleaves. The barrier at the end of the
sections is the outermost call's return when no call is left. `Detect` is
`ncnn_result` per output buffer, `nms_sorted_bboxes` per proposal, and the report;
boxes are abstract with a relation "overlaps", and the sort is replaced by what
ParQsort proves about it. Between suppression and report each box is moved, scaled and cut
off at the picture's edge: `Clip` is any function from boxes to rectangles. `KeptApart` is
about the boxes kept; two rectangles may overlap once they are cut off, and do in the run.
Where a box comes back to is `Restore` in `Layouts`. Any buffer may be skipped, as `sample_npu_model.c` does for
one without an address or a length.

### VencStream
The main thread of a route with an encoder (start, pause for a calibration, restart,
stop, destroy) and the get-stream thread per channel; a thread that a failed stop left
behind goes on beside its successor. `lost` counts streams taken and not released,
which occupy the channel's buffer.

### VioLadders, VioRoute, VioLedger
A C function of the form "call, test, goto label" becomes a `Ladder`: its calls with
the place each failure lands at, the calls under its labels, and what runs after
success. `VioRoute` runs a stack of such functions; `up` is what the driver holds.
A call fails by itself (`CallFails`, at most `MaxFaults` of them), or is refused
because the object is already up, or already down (`CallRefused`). `failed` holds what
the code has seen fail, both ways; `faults` counts the first. Each route, the live demo's
main thread included, is an initial state; its inference thread is there only as what the
route creates and joins. Attributes, sizes and formats are left to the algorithms below;
settings are kept where their failure is tested.

`VioLedger` models no code: it is what the proofs start from. For each way in which a
route enters a function, `Run` works out from the ladders what must be up and what may
be up before each of its steps, and which failures lead to its labels (its account; there
are 469 for four devices). `LadderBooks` says of each account by itself that a start finds
its object down and what it needs up; that a stop finds its object up and leaves nothing
behind that needs it; that every failure lands at a label whose books it fits, the losses
of that very failure apart; that a call enters a function whose account fits, whatever
that function comes to; and that a route ends with nothing. It is an assumption about
`MaxDev` alone, which TLC evaluates before the run `vio_route`, for the four devices of the
SDK. It is also true of three, and not of five, since VO is opened with four windows.

### Tasks and the modules that use it, Workers
A thread is the sequence of its calls, written in the vocabulary of `Tasks`:

* `Take`, `Local`, `Create`, `StartThread` obtain an object, `Give`, `Drop`, `Free`,
  `Join` hand it back, `Use` needs it, `Of` is a call on it, `Try` a call that can fail
  without holding anything. `Drop` is the C idiom "if (p != NULL) free(p)" and goes by
  the pointer, which may still be set after the object has gone.
* `Mark`, `Jump`, `Fork`, `IfSet`, `While`, `For` are the control flow; a call that can
  fail names the mark it lands at, `Ret` for a return, `On` where the code ignores the
  result. `Raise` and `Lower` write flags, `Key` waits for the user.

`Workers` executes the texts: `held` is what exists, `ptr` what the variables point to,
`flags` the flags as last written, `faults` the calls that have failed. A job is a caller
(thread 0) with the threads it creates; the thirty-three jobs are the domain of `Code`.
Thread bodies and ladders carry the names of their C functions:

| module | models |
|---|---|
| `ViTasks` | WDR and FPN send-frame threads with their callers, FPN correction for a scene, virtual pipes and the ISP thread of each |
| `VencTasks` | QP-map, ROI-map, rate-auto, SVC-T, snap threads, photos and thumbnails, a plain channel |
| `AudioTasks` | AI, AENC, ADEC and volume threads, AO and HDMI; the codec chip's file; the AAC library and its coder states |
| `VdecTasks` | decoder channels, their pools, a sending thread per channel, once or in a circle |
| `RegionTasks` | overlays and mosaics of VO, bitmaps and their memory, the MIPI transmitter |
| `OutputTasks` | VO device, layers, picture in picture, write-back, HDMI, pools, system, all bindings |
| `SvpTasks` | the vision routes from a sensor and from a file, IVE and MAU images and matrices, DSP, memory and job helpers |
| `NpuTasks` | the multi-thread and the dynamic-batch sample |
| `SvpNpuTasks` | a model of the second NPU interface, its task and its buffers |

`Spoils` in `Workers` is to these jobs what `Loose` is to the routes: the objects the
code is known to lose or to treat twice, each tied to the call that failed in that run
(section 3, Losses).

### Calls and the algorithms
`Calls` puts one question at a time (`call`) to one helper and keeps the answer (`out`);
loops that may not end (the search for a threshold, the cutting and pacing of a stream)
go round by round. The helpers are operators:

| module | models |
|---|---|
| `EncoderRates` | bit rates and parameters of a video channel; attributes and recommended rates of AAC |
| `Buffers` | every inline size function of `ot_buffer.h`, with its widths |
| `Layouts` | windows of a layer, blobs and their threshold, the letterbox and the way back from it |
| `Sensors` | receiver, device, fusion group, pipes, channels and ISP of each sensor, the pools and the mode of a route |
| `Screens` | timings, layer attributes, HDMI formats, MIPI transmitter, sizes of pictures |
| `Regions` | handles, attributes and places of regions; a bitmap into a region's memory, colours and palettes |
| `Pixels` | the map of regions of interest, planes, the thumbnail of a JPEG, a stream in its ring, colours, labels, the report |
| `Mats` | where the elements of a Mat and of its views lie, who counts as owner |
| `Lists` | the kernel's lists and hash chains, each function on every heap of five links |
| `Tensors` | lines of a tensor, best classes, rectangles, thresholds |
| `Feeds` | cutting H.264, H.265 and JPEG, pacing, pools of decoders, decoder attributes, the FPN file, the user picture |

Properties compare a helper with what its result is used for, never with itself: a
block with the bytes the driver puts there, a window with its layer, the receiver's
lines with the device's, a piece cut from a stream with the pictures it was made of.

## 3. What the runs check

| run | instance | distinct states | what it shows |
|---|---|---|---|
| `live` | 2 blocks, 2 outputs, 2 keys, 2 failing calls | 286,000 | frame inside the route, model and input ready when executed, no double free, leak bound, buffers outlive users, route down and taken down in reverse but for parts whose own call failed, refinement of FrameLease; the join returns, a signal ends the demo |
| `live_finalize` | 2 blocks, 1 output, 1 key, no failure | - | finding: AscendCL stays initialised |
| `still_safety` | 2 pictures, 3 runs in one directory, 2 outputs, 2 failing calls per run | 56,000 | model ready when executed, the ladder gives back what was taken, reports on this run's picture |
| `still_free`, `still_signal` | 2 runs, 1 failing call | - | findings: `aclrtFree` of the pointer's own address; the handler's null pointer |
| `sort_safety` | 7 detections with ties, every arrangement | 162,000 | scans inside their range, no race, permutation, sorted, ends |
| `detect_safety` | 2 frames, 4 buffers, 3 boxes in a row, two of which overlap once cut off, 2 confidences | 2,250,000 | boxes kept apart and in falling order, nothing dropped without a better one, reports of this frame |
| `venc` | 2 channels, one of pictures, 1 pause, 2 failing calls | 157,000 | threads inside channels, files closed, no channel left, joined once, stop returns, every channel served |
| `venc_stop` | 2 channels, 1 failing call | - | finding: a stop returns with its thread running |
| `vio_route` | all 12 routes, 4 devices, 1 failing call | 96,000 | nothing left but what is named, everything stands on what it needs, started and stopped in turn, routes end |
| `workers` | 33 jobs, 2 channels, 3 slots, 2 failing calls as often as they like | 222,000 | nothing used, closed, freed or joined that is not there; nothing kept; a caller that joins returns |
| `calls` | every question of `Calls` | 457,000 | attributes hold, tables agree, pools serve, places hold, one picture at a time, calls end |

Why the bounds are enough.

* Two blocks are the least with which the thread can hold one frame while the display
  shows another; two outputs the least with a half-built output data set; two failures
  cover one in `nnn_init` and one in a frame, or two in consecutive frames.
* A third run of the still detector sees files of two earlier ones.
* Seven elements give three levels of the sort with both halves non-trivial and ties
  across the pivot. Two frames show what is carried from one to the next; three boxes in
  a row show that suppression is not transitive.
* Two channels, one of each kind of file, and one pause show a thread left behind beside
  its successor.
* With one fault per run of a route each rung of each ladder fails once. What more
  failures do to the safety of the routes is proved (section 5); that routes end is
  checked with one.
* In `workers` two channels show what one loses for the other, three slots a slot with
  neighbours on both sides; five tries are the code's own `try_time`; two faults let a
  way down fail after a way up has.
* In `calls` the sizes are scaled where only their ratios matter: thresholds of three
  bits instead of sixteen (`ThreshSize`), a buffer of 48 bytes (`MinBufSize`), a target
  square of 16 (`TargetSize`), three pools for three decoders, streams of three parts,
  files of seven bytes read four at a time, three classes shown, a beat of three ticks.
  Tables, sensors, timings, picture sizes and encoder parameters are not scaled: every
  entry is asked for. `MaxLate`, `MaxSent`, `MaxArea`, `MaxStride`, `MaxChannels` bound
  the inputs.

The theorems of section 5 hold for every value of the constants that their assumptions
admit and do not depend on these bounds.

Deadlock is checked except where the program may really stop: between runs of the still
detector, after the last frame of `Detect`, where a route or a job has ended or waits
for a key, and after the answer of a call.

### Fairness
* `NnnLive`: both threads are scheduled (`MainStep`, `ThreadStep` weakly fair); pressing
  a key and sending a signal are not fair. A thread that is runnable runs on Linux; a
  user owes the program nothing.
* `ParQsort`: `SortStep` weakly fair. The OpenMP runtime runs every section.
* `VencStream`: `MainStep` and each `ThreadStep(t)`. The select has a timeout of two
  seconds, so a thread with nothing to read still takes its step. Keys and the encoder
  are not fair.
* `VioRoute`: `Running` (a call returns) and `Switched` (an ISP that runs finishes its
  switch). Not fair: keys, and the poll of an ISP that is down, whose answer is a
  variable never set.
* `Workers`: the step of each thread of the job. No one has to press a key, and a call
  that has failed may fail for ever.
* `Calls`: `Goes`, the next round of a loop in one thread.

### Losses
`Loose` in `VioRoute` is the contract `NothingLeft` holds the routes to. A route that
ends has taken down all but the following; an object is allowed to stay only if the code
has seen that very call fail in that run. A route with no failing call sees none refused
either and leaves the last line of the table only (`CleanRoutes`):

| failing call | what stays, and why |
|---|---|
| `ss_mpi_sys_init`, setting the VI-VPSS mode | VB, or VB and SYS: `sample_vio_sys_init` returns and the route skips `sys_exit` |
| a step of `start_mipi_rx` | the clocks switched on before it: its caller's way down begins one step below |
| `ss_mpi_isp_init` | ISP memory and the sensor libraries: `return -1` in the middle |
| the extended channel of fisheye | the VI that was started: the route lands on `start_vi_failed` |
| a VO channel | the channels before it, on a layer that is disabled |
| HDMI open, start or stop | HDMI: the stop gives up at the first refusal |
| starting an encoder channel | the created channel, which does not receive |
| adding a VGS task | the job, which is not cancelled |
| FPN load, enable, disable | frame and pool, released twice or not at all |
| the restart of VI inside a mode switch | the ISP of the first route, and for a failing pipe the pipes and binds |
| stopping a VO channel or layer | layer and device |
| stopping an encoder channel | the get-stream thread |
| stopping anything else | the object and what the driver would have taken along |
| none | the pool of the calibrated frame: `release_frame_blk` destroys the first frame's pool only |

The same for the jobs of `Workers` (operator `Spoils`):

| job | failing call | what is lost or treated twice |
|---|---|---|
| `wdr` | getting a frame again after it was given back | the frame, released a second time (`common/sample_comm_vi.c:2726`); the user source is never taken back in any case |
| `fpn` | enabling the calibrated channel | the channel |
| `scene` | a missing file, a missing name, a correction that cannot be read or set | frame, mapping and pool: given back although success is reported, or kept |
| `roimap` | allocating a map | the maps allocated before |
| `svc_t` | any in setting up; none | the files; entries of the file table are shared by neighbouring channels, so files are lost without a failure |
| `snap`, `photo` | saving, `fdopen` | the stream; the file, of which `fclose(NULL)` is tried |
| `encode`, `loop`, `play` | creating a thread, a call a thread ends itself at | the thread: joined unset, or never; devices before a failed start |
| `acodec` | a setting of the inner codec | its file |
| `aac` | registering | the library's count; a decoder reset without a new state goes on with none |
| `overlay`, `mosaicex` | creating or attaching | regions used though not created (the result is overwritten, `common/sample_comm_region.c:339`) or detached though not attached |
| `mipi_tx` | stopping the transmitter | its file (`common/sample_comm_mipi_tx.c:568`) |
| `virt_pipe` | `isp_init` | sensor and libraries (`common/sample_comm_vi.c:1329`) |
| `binds` | `sys_init` | the pools |
| `output`, `layer` | PIP, a channel, HDMI, a stop | the main device stopped under its layer (`common/sample_comm_vo.c:773`), channels before the one that failed |
| `vdec`, `decode` | starting a channel, stopping one | the channels before it, those after it |
| `svp_vi`, `svp_vdec` | a start after the fourth step | all: success is reported and the route stopped again (`svp/common/sample_common_svp.c:608`); VO stopped twice (527, 894) |
| `svp_helpers` | `sys_init`, loading a DSP core | VB, the core's power |
| `svp_npu` | describing a model, adding a task or work buffer | description and model; the buffer freed again (`svp/common/sample_common_svp_npu_model.c:556`) |
| `multithread` | a rung at slot k | memory of slot k, data sets of the slots below |
| `dynamicbatch` | none; loading, a data set | AscendCL and its device; what was allocated before |

## 4. Findings

* `live_finalize`: `nnn_init` initialises AscendCL and the live demo never finalises it;
  `acl.h` asks for it "before the process exits".
* `still_free`: on a buffer that cannot be filled, `sample_npu_process.c:249` hands
  `aclrtFree` the address of the local pointer, not the buffer, which leaks.
* `still_signal`: the handler of `sample_npu_main.c` exists "to process abnormal case" but reads
  `g_npu_cmd_argv`, which nothing assigns: the first signal crashes the program.
* `venc_stop`: `sample_comm_venc_stop_get_stream` returns at the first channel that
  cannot be stopped, before the join; the callers destroy the channels under the thread.

### Noted while modelling
What follows the models show as they are; the properties are stated around it, each
condition named in its definition.

* **Encoder channels.** `venc_create` overwrites frame rate and GOP with 30. H.264 CBR
  gives 4000X3000 more than 7680X4320; 640X360 gets more than D1 in every mode with a rate;
  a size that is none of the eight gets no less than 1080P, however small.
* **AAC.** `audio_aac_adp.h:60-77` recommends EAAC at 22 kbit/s for 32000 Hz, of which
  the code's least is 32, and gives AACELD 32 to 320, of which the code takes 16 and 24
  with one channel (at 16000, 22050 and 24000 Hz). At 22050 Hz AAC-LC is advised more for one channel than for two.
* **Streams.** The length of a JPEG is counted from the first byte read while its address
  starts at the mark; a last H.264 picture shorter than two start codes is sent with
  stale bytes; an empty file sent in a circle yields eight of them. More sizes than
  common pools are dropped silently. Pacing forgets what is left of a gap once a picture
  was early: it may drift, but never runs ahead. Some settings of an MPEG-4 channel are
  left unset.
* **Blobs.** `sample_comm_ive_get_thresh` wraps at 16 bits and does not end with a step of
  0, or with more large regions than are wanted.
* **YOLOv5.** The picture is written into the 640 square with its rows packed, and both
  coordinates come back moved by `wpad/2`: boxes are right only when the picture is not
  higher than wide (`yolov5.cpp:772`); in a higher one they come back too high. Cutting boxes off
  at the edge (777-786) may make two that were kept overlap by more than the threshold. Copying a head as one block is right because
  6*g*g*4 is a multiple of 16 for its three sizes. The report's covering counts
  overlapping areas twice and takes 640x640 for the whole of a picture whose boxes are in
  original coordinates.
* **Sizes.** A compressed picture of more than 8 bits gets a block of size 0; a block gets
  smaller at width 257 in compact mode and where a raw frame passes 4096 heads. Noise
  reduction adds its border before the limit of 30000 is tested: a width or height of
  29979 to 30000 is left with the four bytes of the offset (`include/ot_buffer.h:493-542`).
  Sizes are counted in 32 bits: what an encoder keeps of a picture wraps above 41.9
  million pixels although 8192x8192 is admitted (665-673), the frames of motion compensation
  above 72.8 million, others above 2^28.
* **Sensors.** Two sensors have attributes for the linear types only, four for OS05A10
  only; the black lines are added twice for the others, so that the default build's
  four-sensor route clashes. IMX347's second receiver starts two lines lower.
* **Screens.** A rectangle equal to the default counts as not changed; a wished position
  is dropped; the lanes at 3840x2160_50/60 run below the rate their comment asks for.
* **Regions.** The 8th and the 16th line get thickness 0; a bitmap of 8 bits is written
  beyond its memory; of a pair of CLUT4 pixels the second is taken twice; bitmaps of 4 and
  2 bits never load; regions of other handles than 2 or 8 report success without being
  made.
* **Encoder pictures.** The map of regions of interest is sized with the width twice; the
  save of a snapshot writes nothing (its `fwrite` is commented out), so that a snapshot
  with a thumbnail fails and keeps its stream.
* **FPN.** The name of a file does not tell the compression, so a correction in another
  mode reads misaligned fields; a user picture of odd width loses its last column of
  colour.
* **Tensors, lists, Mats.** A tensor of one dimension counts as no lines; classes whose
  scores are not positive are never shown; regions of interest are not bounded by the
  table they are written to. A list spliced away is not usable. A view of a Mat is not
  counted and may outlive its memory.

## 5. What is proved

All proofs are checked by TLAPS from the named assumptions on constants only
(`LiveAssumption`, `SlotsAssumption`, `NumOutputsAssumption`, `MaxFaultsAssumption`,
`StillAssumption`, `SortAssumption`, `DetectAssumption`, `VencAssumption`,
`SquareAssumption`, `TimesAssumption`, `LadderBooks`), each as weak as the code justifies;
the runs evaluate them.

* **NpuModel_proofs.** What each function of the model table does to the slot and to the
  count of what is allocated, on success and at each of its failures; both users of the
  table stand on these lemmas.
* **NnnLive_proofs.** `IInv` is inductive. It strengthens the type invariant with
  `RouteInv` (where the main thread is decides whether VPSS runs and whether the
  inference thread may be alive; this carries the join-before-stop argument), `KeysInv`,
  `ShownInv`, `FrameInv` (a frame is out exactly in the body of the loop), `SlotInv`
  (what `nnn_init` and the frame loop have built at each step) and `HeapInv` (the heap
  is at most what this frame has built so far plus a price per failed call). From it:
  `TypeCorrect`, `FrameSafe`, `BuffersSafe`, `ExecuteReady`, `NoDoubleFree`,
  `LeaksBounded`, and `LeaseKept`, the refinement of FrameLease: initial states map to
  initial states and every step to a step or a stutter. `LeakBound` alone is not
  inductive: in mid-frame the heap is above it, and only `Building` says by how much.
  `LadderInv` gives each rung of the route a level that nothing running is above, but the
  parts whose own start or stop has failed (`lost`); with it `RouteComesDown` and
  `ReverseOrder` hold: all else that was started is stopped, the last first. `ExecuteReady`
  says what a run of the model is given: a complete slot, and an input on the mapping of
  the frame in hand, or on NULL if that mapping failed.
* **NpuStill_proofs.** `StillInv` is inductive for every number of pictures, runs, outputs
  and failing calls. Where the ladder stands says whether AscendCL is up (`AclInv`), what
  the slot holds (`SlotInv`), and of which picture the file and the input buffer are
  (`PictureInv`); all that is allocated is what the slot owns (`OwnInv`), but for the
  input buffer, which outlives its run only where it could not be filled (`BufferInv`);
  and a run that has ended left only what its failed function leaves (`EndInv`). From it
  `ReadyOnExecute`, `LadderBalanced`, `ReportsOwnPicture` (an action
  property) and `TypeCorrect`.
* **VioRoute_proofs.** For every number of failing calls, in any order: `RoutesLeaveNothing`
  (`NothingLeft`), `RoutesStaySupported` (`Supported`), `RoutesGoInTurn` (`InTurn`) and
  `CleanRoutes`. The inductive invariant is `Books`: the functions on the stack have
  accounts, each entered by the call the next one is in (`Chain`); a function that is on
  its way down was sent there by a failure its account knows of; and the books of the
  innermost place hold of what is up (`Holds`): what must be up is, or a failure has cost
  it with all that stands on it; what may not be up is not, or is lost. None of the three
  properties is inductive without it, since what is up says nothing of which labels are
  still to come. `Supported` is one of its parts: that a stop of what is already down takes
  nothing along rests on it. The facts about the texts are in `LadderBooks`, function by
  function; the proof is about the stack, the refusals and the failures, of which the
  books of one function know nothing.
* **PostProcess_proofs**, of `ParQsort`. `SortInv` is inductive for every length and every assignment of
  confidences: ahead of each scan there is an element that stops it (`ScansStayInside`),
  ranges of calls are disjoint (`SectionsDisjoint`), the vector stays a permutation
  (`KeepsDetections`), and two elements out of order are in the hands of one call, so
  that when none is left the vector is sorted (`SortsDescending`).
* **PostProcess_proofs**, of `Detect`. `DetectInv` is inductive for every set of boxes, overlap relation,
  order of the output buffers and number of classes: what has been looked at is kept or
  suppressed by something kept, and what is kept is in falling order. From it
  `ReportsApart`, `DropsForBetter`, `ReportsOwnFrame`. They hold for any way of cutting boxes
  off, since they are about the boxes the model gave.
* **VencStream_proofs.** `VencInv` is inductive for every number of channels, pauses and
  failures: as long as no stop has failed, a live thread is the last one created and the
  main thread is between creation and join. From it `ThreadsInside`, `NoFileLeft`,
  `ChannelsDestroyed`, and the action property `ThreadsJoinedOnce`.

* **Buffers_proofs.** The run `calls` asks for sizes on both sides of each step of
  `ot_buffer.h`; the proofs are about all of them (`Askable`, `AskableCoder`,
  `AskableMap`: any width, height and alignment, the depths and formats of the header).
  `EveryBlockFits`: the lines and planes of what is not compressed fit the block, of what is
  compressed the share that is meant to be left (of a picture of more than 8 bits nothing:
  its block is empty), the parts add up, and one more row or column gives no smaller block,
  unless the picture is the first to be compressed by a ratio. `EveryCoderFits`: what decoders and encoders keep
  covers planes, motion and the ratio asked for. `EveryMapFits`: every block of a picture
  has its place. The model's integers do not wrap and the code's words do; therefore
  `EveryBlockCounted`, `EveryCoderCounted` and `EveryMapCounted` show that what the code
  multiplies and adds on the way stays below 2^32 for pictures up to 8192x4096, which the
  first three are about (`Counted`).
* **Calls_proofs.** `CallsInv` is inductive: what is asked is what may be asked, what is
  answered is right, and a thread that sends pictures in time knows what has passed
  (`Asked`, `Told`, `PaceKnown`; without the last `BeatKept` is not inductive, since the
  gap still to wait says nothing of what has passed). From it `AttributesHold`,
  `PoolsServe`, `PlacesHold` and `BeatKept`. Each kind of answer has a theorem of its
  own, about more than the run asks: the rates of a channel, with the two places where the
  tables are out of order (`EveryChannelCoherent`), any rate asked of an AAC encoder, the
  advice to be accepted when it is asked for and the header's to be refused in one place only
  (`EveryAdviceHolds`), any place of any picture in the network's square, the way back of a
  picture higher than wide being wrong in the direction stated (`EveryBoxReturns`); any size
  of a layer, of a rectangle of interest and of a decoder, any square and stride, any way of sharing Mats, any time a sender is late, any ring and
  any pack in it, any two planes, any colour, any bitmap (`EveryBitmapFits`: rows turned
  round, pixels apart, inside the memory that was set aside) and any fixed pattern's file
  (`EveryPatternReturns`). `EveryMatPlaced` is about cubes and
  hypercubes of any size with elements of any length: numbers of four digits (column, row,
  plane, channel) tell the elements apart (`IndexTells`), since the room of a channel is
  aligned upward (`CreatedSpaced`), and every view counts from the same first byte
  (`ViewsAgree`). What is 6 wide is asked about as a head of the model is: three channels of
  any even side (`AskableMat`).

The inductive invariants were checked with TLC on the instances of section 3 before
they were proved, but for `Books`, whose accounts of a whole stack are too many to try;
the three properties it is for were checked with one failing call and with two (1,880,000
states). The type invariants of these modules are proved and not checked again
by the runs.

Model-checked only:

* `LadderBooks`, the assumption of `VioRoute_proofs`: some eighty tables and the folds over
  them, which TLC evaluates and the provers cannot.
* `HoldsWhatItUses` and `NothingKept` of `Workers`. What is true there is true of the texts
  of 33 jobs, most with threads of their own, and holds up to the failures named under
  Losses. An account of each text, as `VioLedger` has of each ladder, would have to be one
  of all interleavings of the threads of a job, which is what TLC goes through.
* `TablesAgree`, and of `OnePicture` all but `BeatKept`. The tables of sensors, timings
  and layers, the lists of five links and the tensors are finite and TLC goes through all of
  them; that a colour comes out the same both ways is proved by itself
  (`EveryColourAgrees`). The cutting of a stream and of a JPEG, the counting of a pool and
  the overlap of boxes are recursive functions or folds over sequences: what they compute
  for every input needs induction over data. The store of a user picture is built with
  `@@`, which no backend expands.
* All liveness properties (`JoinReturns`, `SignalEndsDemo`, `SortEnds`, `StopReturns`,
  `EveryChannelServed`, `RouteEnds`, `StopEnds`, `CallsEnd`): liveness under fairness and
  ENABLED are out of this prover's reach.

## 6. What is not modelled

* `nnn_thd_run`, `g_sig_flag` and `thread_start` are plain variables; the models read
  their current value. That a loop sees the change rests on the opaque calls in it,
  which the compiler cannot keep the variables across.
* The menu loops of `sample_vio.c`: `getchar`'s result is kept in a `td_char`.
* The contents of the encoder's files: each restart of the stream thread opens them with
  "wb" (`common/sample_comm_venc.c:2357`), so what was recorded before a calibration is
  overwritten. No property states this.
* Code that is compiled out or that nothing reaches: `common/sample_comm_venc.c` 79-215 and
  the HEIF stubs 2385-2450, BT.1120 of VO, `YoloV5Focus`, the user pools of VDEC
  (58-110, 232-254), the 4:0:0 and 4:2:2 and the tile branches of the user picture.
* Printing of status, usage texts, dumps for debugging, attributes copied from one struct
  to another unchanged.
* Third-party code: the MPI and AscendCL libraries, OpenCV, ncnn but for the inline code
  of `mat.h` and `allocator.h`, the AAC library behind its adapter, and the vendor's
  headers, which declare types and constants and have no behaviour. These headers
  (`ot_common_isp.h`, `simplevk.h`, `acl_mdl.h` and the like) are most of the lines the
  map does not cover; the rest are the items above.
* The models are not composed across families: a job of `Workers` sees VI, VPSS, VO or an
  encoder of another module as one object that is up or down, and `Calls` asks each
  helper by itself.

## 7. Plan

Done, in this order: `NpuModel` and `NnnLive` with their proofs; `NpuStill`; `ParQsort`
and `Detect` with proofs; `VencStream` with proofs; `VioLadders` and `VioRoute`; `Tasks`
and `Workers` with the threads and ladders of every helper; `Calls` with the algorithms;
the proofs of the still detector and of the live demo's way down; the proofs of `Buffers`
and `Calls`; `VioLedger` and the proofs of `VioRoute`.

Left:

1. The parts of `OnePicture` and `TablesAgree` that are left and need no induction: where
   the cells of a user's picture go, once its store is written without `@@`, and the
   packing of a colour into a pixel.
2. `HoldsWhatItUses` and `NothingKept` of `Workers`, from a check of each text with the
   objects of a job divided among its threads.
