------------------------------ MODULE Recorder ------------------------------
(***************************************************************************)
(* apps::RecorderApp: buttons on the UI task reserve the one command slot, *)
(* the job on the worker takes the command and records into, or plays      *)
(* from, the buffer.  The buffer is Capture chunks of samples; a chunk     *)
(* holds the number of the take it was recorded in, 0 when nothing was.    *)
(***************************************************************************)
EXTENDS Naturals, Sequences, CommandSlot

CONSTANT Capture   \* RecorderBufferPlan::capture_samples, in chunks of 1024

ASSUME CaptureAssumption == Capture \in Nat \ {0}

VARIABLE rec
(* rec.state, rec.command  state_, command_                                 *)
(* rec.samples             samples_, <<>> when not allocated                *)
(* rec.count               sample_count_ and captured_                      *)
(* rec.job, rec.offset     run()'s command and offset; "ended" when it has  *)
(*                         stored its result and not yet returned           *)
(* rec.built               the view has its buttons                         *)

RecorderCommands == {"record", "play"}

RecorderIdle ==
  [state |-> "ready", command |-> NoCommand, samples |-> <<>>, count |-> 0,
   job |-> "none", offset |-> 0, built |-> FALSE]

RecorderInit == rec = RecorderIdle

\* An unsupported sample rate or a refused allocation fails the start instead.
RecorderStart ==
  /\ ~rec.built
  /\ rec' = [RecorderIdle EXCEPT !.samples = [i \in 1..Capture |-> 0], !.built = TRUE]

CanRecord(state, command) == command = NoCommand /\ state \notin {"recording", "playing"}

RecorderPending(command) == IF command = "record" THEN "recording" ELSE "playing"
RecorderFailed(command) == IF command = "record" THEN "record_error" ELSE "play_error"

\* A button is pressed and the executor accepts the job.
RecorderSubmit(command) ==
  /\ rec.built /\ CanRecord(rec.state, rec.command) /\ MayReserve(rec.command, command)
  /\ rec' = [rec EXCEPT !.command = command, !.state = RecorderPending(command)]

RecorderRefused(command) ==
  /\ rec.built /\ CanRecord(rec.state, rec.command) /\ MayReserve(rec.command, command)
  /\ rec' = [rec EXCEPT !.state = RecorderFailed(command)]

-----------------------------------------------------------------------------
(* run() on the worker                                                      *)

RecorderTake ==
  /\ rec.job = "none" /\ rec.command # NoCommand
  /\ rec' = [rec EXCEPT !.job = rec.command, !.command = Emptied(@), !.offset = 0]

Takes == 1..Capture + 1

\* read_audio fills one chunk of the clip that is being recorded
ReadChunk ==
  /\ rec.job = "record" /\ rec.offset < Capture
  /\ LET take == IF rec.offset > 0 THEN rec.samples[1]
                 ELSE CHOOSE t \in Takes : \A i \in 1..Capture : rec.samples[i] # t
     IN rec' = [rec EXCEPT !.samples[rec.offset + 1] = take, !.offset = rec.offset + 1]

\* the loop ends with a full buffer or a read that returns nothing
RecordEnds ==
  /\ rec.job = "record"
  /\ rec' = [rec EXCEPT !.count = rec.offset, !.state = "captured", !.job = "ended"]

\* Mutant: a failed recording keeps the length of the one before.
RecordFailsKeeping ==
  /\ rec.job = "record" /\ rec.offset < Capture
  /\ rec' = [rec EXCEPT !.state = "record_error", !.job = "ended"]

RecordFails ==
  /\ rec.job = "record" /\ rec.offset < Capture
  /\ rec' = [rec EXCEPT !.count = 0, !.state = "record_error", !.job = "ended"]

WriteChunk ==
  /\ rec.job = "play" /\ rec.offset < rec.count
  /\ rec' = [rec EXCEPT !.offset = rec.offset + 1]

PlayEnds ==
  /\ rec.job = "play" /\ rec.offset = rec.count
  /\ rec' = [rec EXCEPT !.state = IF rec.count = 0 THEN "empty" ELSE "ready",
                     !.job = "ended"]

PlayFails ==
  /\ rec.job = "play" /\ rec.offset < rec.count
  /\ rec' = [rec EXCEPT !.state = "play_error", !.job = "ended"]

RecorderWorks == ReadChunk \/ WriteChunk
RecorderEnds == RecordEnds \/ RecordFails \/ PlayEnds \/ PlayFails

\* run() has returned and the executor counts the job as finished
RecorderReturns == rec.job = "ended" /\ rec' = [rec EXCEPT !.job = "none"]

-----------------------------------------------------------------------------
RecorderStop == rec' = RecorderIdle

\* A pending state is that of a command in the slot or in run()
RecorderUnderway ==
  rec.state \in {"recording", "playing"} <=>
    rec.command # NoCommand \/ rec.job \in RecorderCommands

=============================================================================
