------------------------------ MODULE Display ------------------------------
(***************************************************************************)
(* runtime::FirmwareLvglDisplay over hal::DisplayDevice: LVGL renders an   *)
(* area into one of two draw buffers on the UI task and flushes it.  A     *)
(* draw buffer the DMA can read is transferred as it is while LVGL renders *)
(* into the other; any other goes through the staging buffer, chunk by     *)
(* chunk.  The interrupt that ends a transfer gives a binary semaphore.    *)
(***************************************************************************)
EXTENDS Integers, Sequences, FiniteSetsExt

CONSTANTS AreaRows,      \* rows an invalid area may have
          StagingRows,   \* rows of it the staging buffer holds
          QueueDepth     \* trans_queue_depth of the panel, 2

ASSUME DisplayAssumption ==
  /\ AreaRows \subseteq Nat \ {0} /\ StagingRows \in Nat \ {0}
  /\ QueueDepth \in Nat \ {0}

VARIABLES
  draw,       \* where the draw buffers are: none, internal_dma, external
  frame,      \* what the UI task is doing
  area,       \* rows of the area in hand
  row,        \* rows of it that were staged
  buffer,     \* the draw buffer LVGL renders into, 1 or 2
  flushing,   \* LVGL holds the last flush to be pending
  done,       \* transfer_done_: is the token there?
  dma,        \* transfers under way, by the buffer they read, oldest first
  adrift      \* a wait gave up, and a transfer has not begun afresh since

displayVars == <<draw, frame, area, row, buffer, flushing, done, dma, adrift>>

DisplayInit ==
  /\ draw = "none" /\ frame = "idle"
  /\ area = 0 /\ row = 0 /\ buffer = 1
  /\ flushing = FALSE /\ done = FALSE /\ dma = <<>> /\ adrift = FALSE

Staging == 0

\* display_buffer_plan: where the buffers may go, in the order they are tried
Strategies == <<"internal_dma", "external">>

\* allocate_draw_buffers: the first placement with room for both
AllocateDrawBuffers ==
  /\ draw = "none"
  /\ \E room \in SUBSET {1, 2} : room # {} /\ draw' = Strategies[Min(room)]
  /\ UNCHANGED <<frame, area, row, buffer, flushing, done, dma, adrift>>

FreeDrawBuffers ==
  /\ draw' = "none"
  /\ UNCHANGED <<frame, area, row, buffer, flushing, done, dma, adrift>>

-----------------------------------------------------------------------------
(* LVGL: render, wait for the flush before, flush, change buffers           *)

Goes(from, to) == frame = from /\ frame' = to

Render ==
  /\ draw # "none"
  /\ Goes("idle", "render")
  /\ area' \in AreaRows /\ row' = 0
  /\ UNCHANGED <<draw, buffer, flushing, done, dma, adrift>>

Rendered ==
  /\ Goes("render", IF flushing THEN "await" ELSE "flush")
  /\ UNCHANGED <<draw, area, row, buffer, flushing, done, dma, adrift>>

\* wait_for_transfer: xSemaphoreTake for a second
Wait(from, to) ==
  /\ Goes(from, to)
  /\ done
  /\ done' = FALSE
  /\ UNCHANGED adrift

WaitGivesUp(from, to) ==
  /\ Goes(from, to)
  /\ ~done
  /\ adrift' = TRUE
  /\ UNCHANGED done

\* flush_wait_callback ignores the outcome.
FlushAwaited ==
  /\ Wait("await", "flush") \/ WaitGivesUp("await", "flush")
  /\ flushing' = FALSE
  /\ UNCHANGED <<draw, area, row, buffer, dma>>

\* flush_callback: the bytes of the pixels are swapped in place.
Flush ==
  /\ Goes("flush", IF draw = "internal_dma" THEN "clear" ELSE "copy")
  /\ UNCHANGED <<draw, area, row, buffer, flushing, done, dma, adrift>>

\* Back in LVGL, which goes on with the other buffer.
Returns(pending) ==
  /\ flushing' = pending
  /\ buffer' = 3 - buffer

-----------------------------------------------------------------------------
(* DisplayDevice::transfer                                                  *)

\* staged_display_transfer_chunk: how many rows.  The start of the device
\* refuses a plan whose staging buffer has none.
Chunk == IF area - row < StagingRows THEN area - row ELSE StagingRows

Copied ==
  /\ Goes("copy", "clear")
  /\ UNCHANGED <<draw, area, row, buffer, flushing, done, dma, adrift>>

\* Mutant: an old token stays.
ClearTokenForgotten ==
  /\ Goes("clear", "draw")
  /\ adrift' = (adrift /\ dma # <<>>)
  /\ UNCHANGED <<draw, area, row, buffer, flushing, done, dma>>

\* The semaphore is taken without waiting, whatever it holds.
ClearToken ==
  /\ Goes("clear", "draw")
  /\ done' = FALSE
  /\ adrift' = (adrift /\ dma # <<>>)
  /\ UNCHANGED <<draw, area, row, buffer, flushing, dma>>

DrawFails ==
  /\ Goes("draw", "idle")
  /\ Returns(FALSE)
  /\ UNCHANGED <<draw, area, row, done, dma, adrift>>

\* esp_lcd_panel_draw_bitmap queues the transfer, when there is room.
DrawDirect ==
  /\ draw = "internal_dma"
  /\ Goes("draw", "idle")
  /\ Len(dma) < QueueDepth /\ dma' = Append(dma, buffer)
  /\ Returns(TRUE)
  /\ UNCHANGED <<draw, area, row, done, adrift>>

DrawStaged ==
  /\ draw = "external"
  /\ Goes("draw", "sent")
  /\ Len(dma) < QueueDepth /\ dma' = Append(dma, Staging)
  /\ UNCHANGED <<draw, area, row, buffer, flushing, done, adrift>>

ChunkSent ==
  /\ Wait("sent", IF row + Chunk < area THEN "copy" ELSE "idle")
  /\ row' = row + Chunk
  /\ IF row' < area THEN UNCHANGED <<buffer, flushing>> ELSE Returns(FALSE)
  /\ UNCHANGED <<draw, area, dma>>

\* The rest of the area is given up.
ChunkLost ==
  /\ WaitGivesUp("sent", "idle")
  /\ Returns(FALSE)
  /\ UNCHANGED <<draw, area, row, dma>>

\* transfer_done_callback, at the end of the oldest transfer
TransferDone ==
  /\ dma # <<>> /\ dma' = Tail(dma)
  /\ done' = TRUE
  /\ UNCHANGED <<draw, frame, area, row, buffer, flushing, adrift>>

Frames ==
  \/ Render \/ Rendered \/ FlushAwaited \/ Flush
  \/ Copied \/ ClearToken \/ DrawFails \/ DrawDirect \/ DrawStaged
  \/ ChunkSent \/ ChunkLost
  \/ TransferDone

-----------------------------------------------------------------------------
(* Properties *)

Written ==
  CASE frame \in {"render", "flush"} -> {buffer}
    [] frame = "copy"                -> {Staging}
    [] OTHER                         -> {}

(***************************************************************************)
(* docs/architecture.md: the flush path "waits for each transfer           *)
(* completion before reusing" the staging buffer, and direct transfers     *)
(* overlap only the rendering into the other buffer: nothing writes the    *)
(* memory a transfer reads.  A wait that gives up breaks this until a      *)
(* transfer begins with no other under way; from then on the token left by *)
(* the late one misleads nobody.                                           *)
(***************************************************************************)
DmaReadsStillBuffer ==
  ~adrift => \A i \in DOMAIN dma : dma[i] \notin Written

=============================================================================
