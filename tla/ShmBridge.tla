----------------------------- MODULE ShmBridge -----------------------------
(***************************************************************************)
(* The shared memory between the audio driver (inferno_driver/shm.cpp) and *)
(* the capture thread of inferno_wasapi (shm_reader.rs, main.rs).          *)
(*                                                                         *)
(* The section is an array of cells of one frame of 8 channels, 16 bytes:  *)
(* cell 0 holds the header, the others the ring.  A frame is its number,   *)
(* counted from 1; the driver stores a batch frame by frame, the reader    *)
(* copies frame by frame, and nothing but write_index coordinates them.    *)
(***************************************************************************)
EXTENDS Naturals, Sequences

CONSTANTS
  Frames,        \* INFERNO_SHM_BUFFER_FRAMES
  Wrap,          \* values of write_index, 2^32
  Header,        \* what cell 0 holds
  MaxBatch,      \* bound: frames in one call of InfernoShmWrite
  MaxLag,        \* bound: frames the driver is ahead of the reader
  MaxFrames      \* bound: frames written in all

ASSUME FramesAssumption == Frames \in Nat \ {0} /\ Wrap \in Nat \ {0} /\ Wrap % Frames = 0
ASSUME BoundsAssumption == {MaxBatch, MaxLag, MaxFrames} \subseteq Nat \ {0}

VARIABLES
  driver,        \* "down", "mapped" (header not initialised), "up", "gone"
  mem,           \* the section
  write_index,   \* of the header
  wrote,         \* frames published in all
  batch, stored, \* the call of InfernoShmWrite that is under way
  reader,        \* "new", "open", "copying", "failed"
  last,          \* last_write_index
  current,       \* current_write_index of the read that is under way
  got,           \* the frames it has copied
  samples,       \* what the last read_samples has returned
  taken          \* frames up to which the reader has read, in all

section == <<driver, mem, write_index, wrote, batch, stored>>
capture == <<reader, last, current, got, samples, taken>>
vars    == <<section, capture>>

Cells == 0 .. Frames

Init ==
  /\ driver = "down"
  /\ mem = [c \in Cells |-> IF c = 0 THEN Header ELSE 0]
  /\ write_index = 0 /\ wrote = 0 /\ batch = 0 /\ stored = 0
  /\ reader = "new" /\ last = 0 /\ current = 0
  /\ got = <<>> /\ samples = <<>> /\ taken = 0

-----------------------------------------------------------------------------
(***************************************************************************)
(* The driver                                                              *)
(***************************************************************************)

\* InfernoShmInit creates and maps the section ...
MapSection ==
  /\ driver = "down"
  /\ driver' = "mapped"
  /\ UNCHANGED <<mem, write_index, wrote, batch, stored, capture>>

\* ... and fills in the header.
InitHeader ==
  /\ driver = "mapped"
  /\ driver' = "up"
  /\ UNCHANGED <<mem, write_index, wrote, batch, stored, capture>>

\* SaveData calls InfernoShmWrite with what an application has played.
BeginWrite ==
  /\ driver = "up" /\ batch = 0
  /\ \E n \in 1 .. MaxBatch :
       /\ wrote + n <= MaxFrames
       /\ reader # "new" => wrote + n - taken <= MaxLag
       /\ batch' = n
  /\ stored' = 0
  /\ UNCHANGED <<driver, mem, write_index, wrote, capture>>

\* The ring starts after the header.
RingCell(index) == 1 + (index % Frames)

StoreFrame ==
  /\ batch > 0 /\ stored < batch
  /\ mem' = [mem EXCEPT ![RingCell(write_index + stored)] = wrote + stored + 1]
  /\ stored' = stored + 1
  /\ UNCHANGED <<driver, write_index, wrote, batch, capture>>

\* Deliberate error: an index that would overflow starts over at zero.
PublishWrapped ==
  /\ batch > 0 /\ stored = batch
  /\ write_index' = IF write_index + batch >= Wrap THEN 0 ELSE write_index + batch
  /\ wrote' = wrote + batch
  /\ batch' = 0 /\ stored' = 0
  /\ UNCHANGED <<driver, mem, capture>>

\* InterlockedAdd of the number of frames
Publish ==
  /\ batch > 0 /\ stored = batch
  /\ write_index' = (write_index + batch) % Wrap
  /\ wrote' = wrote + batch
  /\ batch' = 0 /\ stored' = 0
  /\ UNCHANGED <<driver, mem, capture>>

\* InfernoShmCleanup; the reader's mapping stays.
Cleanup ==
  /\ driver = "up" /\ batch = 0
  /\ driver' = "gone"
  /\ UNCHANGED <<mem, write_index, wrote, batch, stored, capture>>

-----------------------------------------------------------------------------
(***************************************************************************)
(* The reader                                                              *)
(***************************************************************************)

\* ShmReader::open starts at the driver's write_index.  Without a section, or
\* with a header that is still zero, the capture thread ends.
Open ==
  /\ reader = "new"
  /\ IF driver = "up"
     THEN reader' = "open" /\ last' = write_index /\ taken' = wrote
     ELSE reader' = "failed" /\ UNCHANGED <<last, taken>>
  /\ UNCHANGED <<section, current, got, samples>>

start_frame == last % Frames
end_frame   == current % Frames

\* frames_to_read
FramesToRead(from, to) ==
  IF to > from THEN to - from ELSE IF to < from THEN Frames - from + to ELSE 0

\* read_samples, up to the copying.  Nothing is read when the index has not
\* changed, or has changed by exactly a ring.
BeginRead ==
  /\ reader = "open"
  /\ write_index # last
  /\ FramesToRead(start_frame, write_index % Frames) > 0
  /\ reader' = "copying"
  /\ current' = write_index
  /\ got' = <<>>
  /\ UNCHANGED <<section, last, samples, taken>>

\* Deliberate error: the second part of a read that wraps around starts at the
\* beginning of the section.
SourceCellUnskipped(k) ==
  IF end_frame > start_frame \/ k < Frames - start_frame THEN start_frame + k
  ELSE k - (Frames - start_frame)

\* Where the k-th frame is copied from.  Only the second part of a read that
\* wraps around is taken from behind the header.
SourceCell(k) ==
  IF end_frame > start_frame \/ k < Frames - start_frame THEN start_frame + k
  ELSE 1 + (k - (Frames - start_frame))

CopyFrame ==
  /\ reader = "copying"
  /\ Len(got) < FramesToRead(start_frame, end_frame)
  /\ got' = Append(got, mem[SourceCell(Len(got))])
  /\ UNCHANGED <<section, reader, last, current, samples, taken>>

\* The samples go to TxPusher.
EndRead ==
  /\ reader = "copying"
  /\ Len(got) = FramesToRead(start_frame, end_frame)
  /\ reader' = "open"
  /\ last' = current
  /\ samples' = got
  /\ taken' = taken + Len(got)
  /\ UNCHANGED <<section, current, got>>

-----------------------------------------------------------------------------

Driver == MapSection \/ InitHeader \/ BeginWrite \/ StoreFrame \/ Publish \/ Cleanup
Reader == Open \/ BeginRead \/ CopyFrame \/ EndRead

Next == Driver \/ Reader

Spec == Init /\ [][Next]_vars

\* The capture thread polls every 5 ms, and a call of the driver ends.
FairSpec == Spec /\ WF_vars(Reader) /\ WF_vars(StoreFrame \/ Publish)

-----------------------------------------------------------------------------
(***************************************************************************)
(* Properties                                                              *)
(***************************************************************************)

TypeOK ==
  /\ driver \in {"down", "mapped", "up", "gone"}
  /\ mem \in [Cells -> 0 .. MaxFrames \cup {Header}]
  /\ write_index \in 0 .. Wrap - 1 /\ last \in 0 .. Wrap - 1 /\ current \in 0 .. Wrap - 1
  /\ wrote \in 0 .. MaxFrames /\ taken \in 0 .. MaxFrames
  /\ batch \in 0 .. MaxBatch /\ stored \in 0 .. batch
  /\ reader \in {"new", "open", "copying", "failed"}
  /\ Len(got) <= Frames /\ Len(samples) <= Frames

\* No frame is lost or read twice while the reader is less than a ring behind:
\* what it has counted and what the two indices say is still to be read make up
\* what the driver has published, also where the index wraps around.  A reader
\* that was lapped has lost whole rings, and so reads on in step.
Behind == (write_index + Wrap - last) % Wrap
FramesCounted ==
  reader \in {"open", "copying"} =>
    /\ wrote - taken >= Behind
    /\ (wrote - taken - Behind) % Frames = 0

\* The part of a read that lies behind the end of the ring consists of the
\* frames that were published, complete, unless the driver has lapped the reader.
SecondPartRight ==
  (reader = "copying" /\ wrote + stored - taken <= Frames) =>
    \A k \in 0 .. Len(got) - 1 :
      (end_frame < start_frame /\ k >= Frames - start_frame) => got[k + 1] = taken + k + 1

\* Published frames are read in the end, unless the driver laps the reader.
CatchesUp ==
  \A n \in 1 .. MaxFrames :
    (reader = "open" /\ wrote = n) ~> (taken >= n \/ wrote - taken >= Frames)

-----------------------------------------------------------------------------

\* A read returns the frames that were published since the last one.
ReadsPublished ==
  \A k \in 1 .. Len(samples) : samples[k] = taken - Len(samples) + k
=============================================================================
