---------------------------- MODULE RegionTasks ----------------------------
(***************************************************************************)
(* sample_comm_region.c: regions over the picture, with the bitmaps that   *)
(* loadbmp.c reads for them, and sample_comm_mipi_tx.c: the screen behind  *)
(* the output.  Regions 1 and 2 are overlays, 3 and 4 mosaics of VO.       *)
(***************************************************************************)
EXTENDS Tasks

Overlays   == 1..2
Mosaics    == 3..4
Region(i)   == <<"region", i>>
Attached(i) == <<"attached_region", i>>
BmpData    == <<"bmp.data", 0>>
ClutData   == <<"clut_data", 0>>
BmpPath(n) == <<"bmp_path", n>>              \* from realpath; n tells the calls apart
BmpFile(n) == <<"bmp_file", n>>
OrigBmpBuf(n) == <<"orig_bmp_buf", n>>

GetBmpInfo(n, failed) ==
    LET NotRead == <<"info_failed", n>> NotBmp == <<"not_bmp", n>> Done == <<"info_read", n>>
    IN <<Take(BmpPath(n), failed), Take(BmpFile(n), NotRead), Of(n, Use({BmpFile(n)}, "bf_type", NotBmp)),
         Free(BmpFile(n)), Free(BmpPath(n)), Jump(Done),
         Mark(NotBmp), Free(BmpFile(n)), Mark(NotRead), Free(BmpPath(n)), Jump(failed), Mark(Done)>>

\* Pixel by pixel; memcpy_s may refuse one.
CopyBmpData(n, target, failed) == <<Of(n, Use({OrigBmpBuf(n)} \cup target, "memcpy_s", failed))>>

\* A file that is too short goes unnoticed.
ReadBmpDataEx(n, target, failed) ==
    LET NotCopied == <<"not_copied", n>> Done == <<"copied", n>>
    IN <<Take(OrigBmpBuf(n), failed), Of(n, Use({BmpFile(n), OrigBmpBuf(n)}, "fread_bmp", On))>>
       \o CopyBmpData(n, target, NotCopied)
       \o <<Free(OrigBmpBuf(n)), Jump(Done), Mark(NotCopied), Free(OrigBmpBuf(n)), Jump(failed), Mark(Done)>>

LoadBmpEx(n, target, failed) ==
    LET Failed == <<"read_bmp_failed", n>> Close == <<"close_bmp", n>> Done == <<"bmp_loaded", n>>
    IN <<Take(BmpPath(n), failed)>> \o GetBmpInfo(n + 1, Failed)
       \o <<Of(n, Try("bmp_info", Failed)), Of(n, Try("is_support_bmp_file", Failed)), Take(BmpFile(n), Failed)>>
       \o ReadBmpDataEx(n, target, Close)
       \o <<Free(BmpFile(n)), Free(BmpPath(n)), Jump(Done), Mark(Close), Free(BmpFile(n)),
            Mark(Failed), Free(BmpPath(n)), Jump(failed), Mark(Done)>>
\* Another copy, the same way there and back.
LoadBmpCanvas(n, target, failed) == LoadBmpEx(n, target, failed)

CreateSurfaceByBitMap(n, target, failed) == <<Of(n, Try("get_ext_name", failed))>> \o LoadBmpEx(n, target, failed)
CreateSurfaceByCanvas(n, target, failed) == <<Of(n, Try("get_ext_name", failed))>> \o LoadBmpCanvas(n, target, failed)

GetClutData(none) == <<Take(ClutData, none), Use({BmpData, ClutData}, "clut_data", On)>>

\* The result of create_surface is ignored: what it left unset is read.  A
\* clut that cannot be allocated leaves the data as they were.
MstLoadBmp(failed) ==
    LET Surface == <<"surface", 0>> Done == <<"bmp_done", 0>>
    IN GetBmpInfo(1, failed) \o <<Try("bmp_limits", failed), Take(BmpData, failed)>>
       \o CreateSurfaceByBitMap(2, {BmpData}, Surface) \o <<Mark(Surface)>>
       \o <<Fork(Done)>> \o GetClutData(Done) \o <<Drop(BmpData), Mark(Done)>>

RegionSetBitMap(i) == <<Use({Region(i)}, "rgn_set_bmp", On)>>

\* The region is given what there is, or nothing.
SetBitMap(i) ==
    LET Set == <<"set_bmp", 0>>
    IN MstLoadBmp(Set) \o <<Mark(Set)>> \o RegionSetBitMap(i) \o <<Drop(BmpData), Drop(ClutData)>>

UpdateCanvas(i, failed) ==
    LET Surface == <<"canvas_surface", 0>>
    IN GetBmpInfo(4, failed) \o <<Try("canvas_format", failed)>>
       \o CreateSurfaceByCanvas(5, {Region(i)}, Surface) \o <<Mark(Surface)>>

GetUpCanvas(i, failed) ==
    <<Use({Region(i)}, "get_canvas_info", failed)>> \o UpdateCanvas(i, failed)
    \o <<Use({Region(i)}, "update_canvas", failed)>>

\* The canvas alone, shown as it is.
GetUpCanvasInfo(i, failed) ==
    <<Of(2, Use({Region(i)}, "get_canvas_info", failed)), Of(2, Use({Region(i)}, "update_canvas", failed))>>

------------------------------------------------------------------------------
(* Regions are created, attached, detached and destroyed by their number.  *)

\* Two overlays: the result is overwritten by "ret = TD_FALSE", which is
\* TD_SUCCESS.
CreateOverlay == [i \in Overlays |-> Take(Region(i), On)]

\* All of the other kinds: the first failure ends it, and nothing is undone.
CreateMosaicEx(failed) == [i \in 1..2 |-> Take(Region(i + 2), failed)]

RegionDestroy(i)      == Give(Region(i), On)
DestroyRegions(first) == [i \in 1..2 |-> RegionDestroy(i + first - 1)]

\* The driver refuses a region that does not exist.
AttachToChn(i, failed) == <<IfSet(Region(i), failed), Take(Attached(i), failed)>>

DetachFromChn(i)      == Give(Attached(i), On)
DetachFrmChn(regions) == [i \in regions |-> DetachFromChn(i)]

\* Detached are those up to and with the one that failed.  Covers, corners,
\* lines and mosaics go the same way.
SetOverlayChnAttr(failed) ==
    LET Undo(i) == <<"attach_failed", i>> Done == <<"overlays_attached", 0>>
    IN For([i \in Overlays |-> AttachToChn(i, Undo(i))]) \o <<Jump(Done)>>
       \o For([i \in Overlays |-> <<Mark(Undo(i))>> \o DetachFrmChn(1..i) \o <<Jump(failed)>>]) \o <<Mark(Done)>>

\* The first handle is passed for the type: detach refuses it.
SetMosaicExChnAttr(failed) == For([i \in 1..2 |-> AttachToChn(i + 2, failed)])

\* What was not attached is still destroyed.
OverlayCaller ==
    LET Detach == <<"detach", 0>> Destroy == <<"destroy", 0>>
    IN CreateOverlay \o SetOverlayChnAttr(Destroy) \o SetBitMap(1) \o GetUpCanvas(1, Detach)
       \o GetUpCanvasInfo(2, Detach) \o <<Key, Mark(Detach)>>
       \o DetachFrmChn(Overlays) \o <<Mark(Destroy)>> \o DestroyRegions(1)

MosaicExCaller ==
    LET Destroy == <<"destroy", 0>>
    IN CreateMosaicEx(Ret) \o SetMosaicExChnAttr(Destroy)
       \o <<Key, DetachFromChn(3), DetachFromChn(4), Mark(Destroy)>> \o DestroyRegions(3)

------------------------------------------------------------------------------
(* The MIPI Tx device is open only while it is set up or stopped.          *)
MipiFd == <<"g_sample_comm_mipi_fd", 0>>
Screen == <<"mipi_tx_enabled", 0>>

DoCloseFd == <<Drop(MipiFd)>>

\* check_config comes before the device is opened, get_config after.
InitScreen(failed) == [loop \in 1..2 |-> Of(loop, Use({MipiFd}, "mipi_tx_set_cmd", failed))]

StartMipiTx(failed) ==
    LET Failed == <<"mipi_failed", 0>> Done == <<"mipi_started", 0>>
    IN <<Try("check_config", failed), Take(MipiFd, failed), Try("get_config", Failed),
         Use({MipiFd}, "mipi_tx_disable", Failed), Use({MipiFd}, "mipi_tx_set_dev_cfg", Failed)>>
       \o InitScreen(Failed) \o <<Take(Screen, Failed)>> \o DoCloseFd
       \o <<Jump(Done), Mark(Failed)>> \o DoCloseFd \o <<Jump(failed), Mark(Done)>>

\* A device that cannot be disabled is left open.
StopMipiTx ==
    <<Retake(MipiFd, Ret), Give(Screen, Ret), Free(MipiFd), Null(MipiFd)>>

MipiTxCaller == StartMipiTx(Ret) \o <<Key>> \o StopMipiTx
=============================================================================
