-------------------------------- MODULE Notes --------------------------------
(***************************************************************************)
(* apps::NotesApp over FirmwareApplicationFiles: the editor on the UI      *)
(* task, one command slot, and a job on the worker that loads the note     *)
(* file into, or stores it from, the transfer buffer.                      *)
(***************************************************************************)
EXTENDS Naturals, CommandSlot

CONSTANT Texts   \* what can be typed; every longer text begins with Empty

Empty == "empty"
Absent == "absent"

ASSUME TextsAssumption == Absent \notin Texts

VARIABLES note, file
(* note.state, note.command  state_, command_                               *)
(* note.transfer             transfer_ and transfer_size_                   *)
(* note.job, note.opened     run()'s command, and that its file is open;    *)
(*                           "ended" when it has stored its result and not  *)
(*                           yet returned                                   *)
(* note.editor               the text in the view's text area               *)
(* note.built                the view has its widgets                       *)
(* file                      notes.txt on the card                          *)

NotesCommands == {"load", "save"}

NotesIdle ==
  [state |-> "ready", command |-> NoCommand, transfer |-> Empty,
   job |-> "none", opened |-> FALSE, editor |-> Empty, built |-> FALSE]

NotesInit == note = NotesIdle /\ file \in Texts \cup {Absent}

\* Mutant: only the slot is looked at.
CanSubmitSlot(n) == n.command = NoCommand

CanSubmit(n) == n.command = NoCommand /\ n.state \notin {"loading", "saving"}

NotesPending(command) == IF command = "load" THEN "loading" ELSE "saving"
NotesFailed(command) == IF command = "load" THEN "load_error" ELSE "save_error"

\* begin(command), and for a save the copy of the editor's text
Began(n, command) ==
  [n EXCEPT !.command = command, !.state = NotesPending(command),
            !.transfer = IF command = "save" THEN n.editor ELSE n.transfer]

\* Mutant: the slot is emptied, the state stays pending.
UnqueuedPending(n, command) ==
  [n EXCEPT !.command = Emptied(@), !.state = NotesPending(command),
            !.transfer = IF command = "save" THEN n.editor ELSE n.transfer]

\* enqueue(command) when the executor refuses the job
Unqueued(n, command) ==
  [n EXCEPT !.command = Emptied(@), !.state = NotesFailed(command),
            !.transfer = IF command = "save" THEN n.editor ELSE n.transfer]

\* The view is built with an empty editor; a load begins at once.
NotesBuilt == [NotesIdle EXCEPT !.built = TRUE]

NotesStart == ~note.built /\ note' = Began(NotesBuilt, "load") /\ UNCHANGED file
NotesStartRefused == ~note.built /\ note' = Unqueued(NotesBuilt, "load") /\ UNCHANGED file

NotesSubmit(command) ==
  /\ note.built /\ CanSubmit(note) /\ MayReserve(note.command, command)
  /\ note' = Began(note, command)
  /\ UNCHANGED file

NotesRefused(command) ==
  /\ note.built /\ CanSubmit(note) /\ MayReserve(note.command, command)
  /\ note' = Unqueued(note, command)
  /\ UNCHANGED file

Type ==
  /\ note.built
  /\ \E text \in Texts : note' = [note EXCEPT !.editor = text]
  /\ UNCHANGED file

\* tick: a loaded text goes to the editor, a result is shown once
NotesTick ==
  /\ note.built /\ note.state \notin {"ready", "loading", "saving"}
  /\ note' = [note EXCEPT !.state = "ready",
                !.editor = IF note.state = "loaded" THEN note.transfer ELSE note.editor]
  /\ UNCHANGED file

NotesStop == note' = NotesIdle /\ UNCHANGED file

-----------------------------------------------------------------------------
(* run() on the worker: write_text and read_text, a file call at a time     *)

NotesTake ==
  /\ note.job = "none" /\ note.command # NoCommand
  /\ note' = [note EXCEPT !.job = note.command, !.command = Emptied(@)]
  /\ UNCHANGED file

\* fopen for writing truncates the note that is there.
OpenForWriting ==
  /\ note.job = "save" /\ ~note.opened
  /\ note' = [note EXCEPT !.opened = TRUE]
  /\ file' = Empty

Done(state) == [note EXCEPT !.state = state, !.job = "ended", !.opened = FALSE]

OpenFails ==
  /\ note.job \in NotesCommands /\ ~note.opened
  /\ note' = Done(IF note.job = "load" /\ file = Absent THEN "load_missing"
                  ELSE NotesFailed(note.job))
  /\ UNCHANGED file

Written == note.job = "save" /\ note.opened /\ note' = Done("saved") /\ file' = note.transfer

\* A short write leaves a beginning of the text.
WriteFails == note.job = "save" /\ note.opened /\ note' = Done("save_error") /\ UNCHANGED file

OpenForReading ==
  /\ note.job = "load" /\ ~note.opened /\ file # Absent
  /\ note' = [note EXCEPT !.opened = TRUE]
  /\ UNCHANGED file

Read ==
  /\ note.job = "load" /\ note.opened
  /\ note' = [Done("loaded") EXCEPT !.transfer = file]
  /\ UNCHANGED file

\* An error or a file larger than the buffer leaves a beginning of the file.
ReadFails ==
  /\ note.job = "load" /\ note.opened
  /\ \E part \in {Empty, file} : note' = [Done("load_error") EXCEPT !.transfer = part]
  /\ UNCHANGED file

NotesWorks == OpenForWriting \/ OpenForReading
NotesEnds == OpenFails \/ Written \/ WriteFails \/ Read \/ ReadFails

\* run() has returned and the executor counts the job as finished
NotesReturns == note.job = "ended" /\ note' = [note EXCEPT !.job = "none"] /\ UNCHANGED file

-----------------------------------------------------------------------------
\* A pending state is that of a command in the slot or in run()
NotesUnderway ==
  note.state \in {"loading", "saving"} <=>
    note.command # NoCommand \/ note.job \in NotesCommands

=============================================================================
