------------------------------ MODULE SaveData ------------------------------
(***************************************************************************)
(* CSaveData (savedata.cpp), through which the render stream of the driver *)
(* hands out its samples: WriteData copies them into a buffer of frames    *)
(* and to the shared memory bridge; a frame that is full is written to a   *)
(* file by a callback of one of the stream's work items, which run on      *)
(* system threads in any order. The stream object that calls it is not     *)
(* part of the source: it sets the format, initialises, perhaps sets the   *)
(* size of a frame, writes, waits for the work items when it is stopped,   *)
(* and is destroyed.                                                       *)
(*                                                                         *)
(* A sample is the number of the byte in the stream.                       *)
(***************************************************************************)
EXTENDS Integers, Sequences, SequencesExt, FiniteSets

CONSTANTS
    FrameCount,         \* DEFAULT_FRAME_COUNT
    DefaultFrameSize,   \* DEFAULT_FRAME_SIZE
    MaxWriteSizes,      \* arguments of SetMaxWriteSize
    Items,              \* work items, 1..MAX_WORKER_ITEM_COUNT
    Workers,            \* system threads that run callbacks
    WriteSizes,         \* arguments of WriteData
    MaxBytes,           \* bound: bytes of the stream
    Failures            \* bound: calls of the system that may fail

ASSUME SaveDataAssumption ==
    /\ FrameCount \in Nat \ {0} /\ DefaultFrameSize \in Nat \ {0} /\ Workers \in Nat \ {0}
    /\ Items \subseteq Nat \ {0} /\ Items = 1..Cardinality(Items)

\* A buffer of no bytes cannot be allocated.
ASSUME SizesAssumption ==
    IsFiniteSet(Items) /\ MaxWriteSizes \subseteq Nat \ {0} /\ WriteSizes \subseteq Nat

VARIABLES
    stream,             \* what its owner has done with it
    allocated,          \* members that point at memory
    m_pWorkItems,       \* [at, frame, size] of each; at = "Done": EventDone is set
    m_pDataBuffer, m_ulFrameSize, m_ulBufferOffset, m_ulFrameIndex, m_fFrameUsed,
    m_fWriteDisabled,
    write,              \* WriteData and SaveFrame: where, and their local variables
    m_FileSync,         \* the mutex: who holds it
    m_pFilePtr,
    file,               \* the bytes after the header, [header |-> dwDataLength]
    given, accepted,    \* bytes passed to WriteData; those it copied
    bridged,            \* bytes passed on to InfernoShmWrite
    overrun,            \* a copy went beyond its frame, into one that waited to be saved
    failures

buffer == <<m_pDataBuffer, m_ulBufferOffset, m_ulFrameIndex>>
disk == <<m_FileSync, m_pFilePtr, file>>
bytes == <<given, accepted, bridged, overrun>>
vars == <<stream, allocated, m_pWorkItems, buffer, m_ulFrameSize, m_fFrameUsed,
          m_fWriteDisabled, write, disk, bytes, failures>>

Nobody == 0             \* holds the mutex
HeaderSize == 1         \* the three parts of the header, as one unit
NoFrame == FrameCount
NotWriting == [at |-> "Idle", left |-> <<>>, save |-> NoFrame, size |-> 0]
NoItem == [at |-> "None", frame |-> NoFrame, size |-> 0]
Frames == 0..FrameCount - 1
m_ulBufferSize == FrameCount * m_ulFrameSize
InFrame(f) == f * m_ulFrameSize .. (f + 1) * m_ulFrameSize - 1

\* A call of the system gives ok.
Try(ok) == (ok \/ failures < Failures) /\ failures' = IF ok THEN failures ELSE failures + 1

(***************************************************************************)
(* The file. The handle is only open while the mutex is held.              *)
(***************************************************************************)
FileWrite(data, ok) ==
    /\ m_pFilePtr' = IF ok THEN m_pFilePtr + Len(data) ELSE m_pFilePtr
    /\ file' = IF ok THEN [file EXCEPT !.data = @ \o data] ELSE file

\* The three parts. A part that fails is skipped; the last one has the length.
FileWriteHeader(length, ok) ==
    /\ m_pFilePtr' = HeaderSize
    /\ file' = IF ok THEN [file EXCEPT !.header = length] ELSE file

(***************************************************************************)
(* Initialisation. What fails leaves the members that were set before.     *)
(***************************************************************************)
SetDataFormat ==
    /\ stream = "New"
    /\ \E ok \in BOOLEAN :
        /\ Try(ok)
        /\ stream' = IF ok THEN "Formatted" ELSE "Failed"
        /\ allocated' = IF ok THEN allocated \cup {"m_waveFormat"} ELSE allocated
    /\ UNCHANGED <<m_pWorkItems, buffer, m_ulFrameSize, m_fFrameUsed, m_fWriteDisabled,
                   write, disk, bytes>>

\* All work items, or those before the one that fails.
InitializeWorkItems(n) == m_pWorkItems' = [i \in Items |-> [NoItem EXCEPT !.at = IF i <= n THEN "Done" ELSE "None"]]

Members == <<"m_FileName", "m_pDataBuffer", "m_fFrameUsed", "m_pWorkItems">>

\* A folder cannot be made, or there is no memory for a member: those before it
\* are set.
InitializeFails ==
    /\ Try(FALSE) /\ stream' = "Failed"
    /\ \E n \in 0..Len(Members), items \in 0..Cardinality(Items) - 1 :
        /\ allocated' = allocated \cup {Members[i] : i \in 1..n}
        /\ IF n = Len(Members) THEN InitializeWorkItems(items)
           ELSE items = 0 /\ UNCHANGED m_pWorkItems
    /\ UNCHANGED <<m_pFilePtr, file>>

\* All members are set; the file is made, with its header.
InitializeFile ==
    /\ allocated' = allocated \cup Range(Members) \cup {"m_pFilePtr"}
    /\ InitializeWorkItems(Cardinality(Items))
    /\ \E open, header \in BOOLEAN :
        /\ Try(open /\ header) /\ (~open => header)
        /\ stream' = IF open /\ header THEN "Ready" ELSE "Failed"
        /\ IF open THEN FileWriteHeader(0, header) ELSE UNCHANGED <<m_pFilePtr, file>>

Initialize ==
    /\ stream = "Formatted" /\ (InitializeFails \/ InitializeFile)
    /\ UNCHANGED <<buffer, m_ulFrameSize, m_fFrameUsed, m_fWriteDisabled, write, m_FileSync, bytes>>

\* A buffer for frames of another size. Without memory the old one is kept.
SetMaxWriteSize(size) ==
    /\ stream = "Ready" /\ given = 0
    /\ \E ok \in BOOLEAN :
        /\ Try(ok)
        /\ m_ulFrameSize' = IF ok THEN size ELSE m_ulFrameSize
        /\ m_pDataBuffer' = IF ok THEN [b \in 0..FrameCount * size - 1 |-> 0] ELSE m_pDataBuffer
    /\ UNCHANGED <<stream, allocated, m_pWorkItems, m_ulBufferOffset, m_ulFrameIndex,
                   m_fFrameUsed, m_fWriteDisabled, write, disk, bytes>>

Disable(fDisable) ==
    /\ stream = "Ready" /\ write.at = "Idle"
    /\ m_fWriteDisabled # fDisable /\ m_fWriteDisabled' = fDisable
    /\ UNCHANGED <<stream, allocated, m_pWorkItems, buffer, m_ulFrameSize, m_fFrameUsed,
                   write, disk, bytes, failures>>

(***************************************************************************)
(* Saving a frame.                                                         *)
(***************************************************************************)
\* The first work item that is done.
GetNewWorkItem ==
    {i \in Items : m_pWorkItems[i].at = "Done" /\ \A j \in Items : m_pWorkItems[j].at = "Done" => i <= j}

\* Without a work item the frame is dropped.
SaveFrame(frame, size) ==
    m_pWorkItems' = [i \in Items |->
        IF i \in GetNewWorkItem THEN [at |-> "Queued", frame |-> frame, size |-> size] ELSE m_pWorkItems[i]]

Running == {i \in Items : m_pWorkItems[i].at \notin {"None", "Done", "Queued"}}

CallbackBegins(i) ==
    /\ m_pWorkItems[i].at = "Queued" /\ Cardinality(Running) < Workers
    /\ m_pWorkItems' = [m_pWorkItems EXCEPT ![i].at = "Wait"]
    /\ UNCHANGED <<stream, allocated, buffer, m_ulFrameSize, m_fFrameUsed,
                   m_fWriteDisabled, write, disk, bytes, failures>>

\* The mutex, and FileOpen.
CallbackOpens(i) ==
    /\ m_pWorkItems[i].at = "Wait" /\ m_FileSync = Nobody /\ m_FileSync' = i
    /\ \E ok \in BOOLEAN :
        Try(ok) /\ m_pWorkItems' = [m_pWorkItems EXCEPT ![i].at = IF ok THEN "Write" ELSE "Clear"]
    /\ UNCHANGED <<stream, allocated, buffer, m_ulFrameSize, m_fFrameUsed,
                   m_fWriteDisabled, write, m_pFilePtr, file, bytes>>

\* FileWrite, of what the frame holds now, and FileClose.
CallbackWrites(i) ==
    LET p == m_pWorkItems[i] IN
    /\ p.at = "Write" /\ m_pWorkItems' = [m_pWorkItems EXCEPT ![i].at = "Clear"]
    /\ \E ok \in BOOLEAN :
        /\ Try(ok)
        /\ FileWrite([k \in 1..p.size |-> m_pDataBuffer[p.frame * m_ulFrameSize + k - 1]], ok)
    /\ UNCHANGED <<stream, allocated, buffer, m_ulFrameSize, m_fFrameUsed,
                   m_fWriteDisabled, write, m_FileSync, bytes>>

\* Mutant: the frame stays in use when the file cannot be opened or written.
CallbackClearsWritten(i) ==
    /\ m_pWorkItems[i].at = "Clear" /\ m_FileSync' = Nobody
    /\ m_pWorkItems' = [m_pWorkItems EXCEPT ![i].at = "Signal"]
    /\ m_fFrameUsed' = [m_fFrameUsed EXCEPT ![m_pWorkItems[i].frame] = failures > 0 /\ @]
    /\ UNCHANGED <<stream, allocated, buffer, m_ulFrameSize, m_fWriteDisabled, write,
                   m_pFilePtr, file, bytes, failures>>

\* The frame can be used again, whether or not it was written.
CallbackClears(i) ==
    /\ m_pWorkItems[i].at = "Clear" /\ m_FileSync' = Nobody
    /\ m_pWorkItems' = [m_pWorkItems EXCEPT ![i].at = "Signal"]
    /\ m_fFrameUsed' = [m_fFrameUsed EXCEPT ![m_pWorkItems[i].frame] = FALSE]
    /\ UNCHANGED <<stream, allocated, buffer, m_ulFrameSize, m_fWriteDisabled, write,
                   m_pFilePtr, file, bytes, failures>>

CallbackSignals(i) ==
    /\ m_pWorkItems[i].at = "Signal"
    /\ m_pWorkItems' = [m_pWorkItems EXCEPT ![i] = [NoItem EXCEPT !.at = "Done"]]
    /\ UNCHANGED <<stream, allocated, buffer, m_ulFrameSize, m_fFrameUsed,
                   m_fWriteDisabled, write, disk, bytes, failures>>

SaveFrameWorkerCallback(i) ==
    CallbackBegins(i) \/ CallbackOpens(i) \/ CallbackWrites(i) \/ CallbackClears(i) \/ CallbackSignals(i)

(***************************************************************************)
(* WriteData.                                                              *)
(***************************************************************************)
\* data is copied to the position; at the end of the buffer it starts anew.
Copy(data) ==
    /\ m_pDataBuffer' = [b \in DOMAIN m_pDataBuffer |->
         IF b - m_ulBufferOffset \in 0..Len(data) - 1 THEN data[b - m_ulBufferOffset + 1] ELSE m_pDataBuffer[b]]
    /\ accepted' = accepted \cup Range(data)
    /\ overrun' = (overrun \/ \E f \in Frames \ {m_ulFrameIndex} : m_fFrameUsed[f]
                     /\ InFrame(f) \cap (m_ulBufferOffset .. m_ulBufferOffset + Len(data) - 1) # {})
    /\ m_ulBufferOffset' = (m_ulBufferOffset + Len(data)) % m_ulBufferSize

\* The write that the checks let through: at most a frame, if the current frame
\* is not in use; up to the end of the buffer. Only this part is passed on to the
\* bridge. A frame that is full is in use until it is saved.
WriteFirst(data) ==
    LET n == Min({Len(data), m_ulBufferSize - m_ulBufferOffset})
        first == SubSeq(data, 1, n)
        full == m_ulBufferOffset + n >= (m_ulFrameIndex + 1) * m_ulFrameSize
    IN  /\ Copy(first) /\ bridged' = bridged \cup Range(first)
        /\ write' = [at |-> IF n < Len(data) THEN "LeftOver" ELSE IF full THEN "Save" ELSE "Idle",
                     left |-> SubSeq(data, n + 1, Len(data)),
                     save |-> IF full THEN m_ulFrameIndex ELSE NoFrame, size |-> m_ulFrameSize]
        /\ IF full
           THEN /\ m_fFrameUsed' = [m_fFrameUsed EXCEPT ![m_ulFrameIndex] = TRUE]
                /\ m_ulFrameIndex' = (m_ulFrameIndex + 1) % FrameCount
           ELSE UNCHANGED <<m_fFrameUsed, m_ulFrameIndex>>

\* Mutant: the current frame is taken to be free.
WriteDataBlind(ulByteCount) ==
    /\ stream = "Ready" /\ write.at = "Idle" /\ given + ulByteCount <= MaxBytes
    /\ given' = given + ulByteCount /\ ~m_fWriteDisabled
    /\ WriteFirst([k \in 1..Min({ulByteCount, m_ulFrameSize}) |-> given + k])
    /\ UNCHANGED <<stream, allocated, m_pWorkItems, m_ulFrameSize, m_fWriteDisabled, disk, failures>>

WriteData(ulByteCount) ==
    /\ stream = "Ready" /\ write.at = "Idle" /\ given + ulByteCount <= MaxBytes
    /\ given' = given + ulByteCount
    /\ IF m_fWriteDisabled \/ ulByteCount = 0 \/ m_fFrameUsed[m_ulFrameIndex]
       THEN UNCHANGED <<buffer, m_fFrameUsed, write, accepted, bridged, overrun>>
       ELSE WriteFirst([k \in 1..Min({ulByteCount, m_ulFrameSize}) |-> given + k])
    /\ UNCHANGED <<stream, allocated, m_pWorkItems, m_ulFrameSize, m_fWriteDisabled, disk, failures>>

\* The rest, from the start of the buffer, if its frame is not in use.
WriteLeftOver ==
    /\ write.at = "LeftOver"
    /\ write' = [at |-> IF write.save = NoFrame THEN "Idle" ELSE "Save", left |-> <<>>,
                 save |-> write.save, size |-> write.size]
    /\ IF m_fFrameUsed[m_ulFrameIndex] THEN UNCHANGED <<buffer, accepted, overrun>>
       ELSE Copy(write.left) /\ UNCHANGED m_ulFrameIndex
    /\ UNCHANGED <<stream, allocated, m_pWorkItems, m_ulFrameSize, m_fFrameUsed,
                   m_fWriteDisabled, disk, given, bridged, failures>>

WriteSaves ==
    /\ write.at = "Save" /\ SaveFrame(write.save, write.size) /\ write' = NotWriting
    /\ UNCHANGED <<stream, allocated, buffer, m_ulFrameSize, m_fFrameUsed,
                   m_fWriteDisabled, disk, bytes, failures>>

(***************************************************************************)
(* The end of the stream.                                                  *)
(***************************************************************************)
\* The frame that is partly filled is saved as it is; the work items are then
\* waited for.
WaitAllWorkItems ==
    /\ stream = "Ready" /\ write.at = "Idle" /\ stream' = "Waiting"
    /\ IF m_ulBufferOffset > m_ulFrameIndex * m_ulFrameSize
       THEN SaveFrame(m_ulFrameIndex, m_ulBufferOffset - m_ulFrameIndex * m_ulFrameSize)
       ELSE UNCHANGED m_pWorkItems
    /\ UNCHANGED <<allocated, buffer, m_ulFrameSize, m_fFrameUsed, m_fWriteDisabled,
                   write, disk, bytes, failures>>

\* Mutant: only the first work item is waited for.
WaitedForFirst ==
    /\ stream = "Waiting" /\ m_pWorkItems[1].at = "Done" /\ stream' = "Stopped"
    /\ UNCHANGED <<allocated, m_pWorkItems, buffer, m_ulFrameSize, m_fFrameUsed,
                   m_fWriteDisabled, write, disk, bytes, failures>>

WaitedForAll ==
    /\ stream = "Waiting" /\ (\A i \in Items : m_pWorkItems[i].at = "Done") /\ stream' = "Stopped"
    /\ UNCHANGED <<allocated, m_pWorkItems, buffer, m_ulFrameSize, m_fFrameUsed,
                   m_fWriteDisabled, write, disk, bytes, failures>>

DestroyWorkItems == m_pWorkItems' = [i \in Items |-> NoItem]

\* ~CSaveData. "All write activity is done at this point."
Destroy ==
    /\ stream \in {"New", "Formatted", "Failed", "Stopped"} /\ stream' = "Gone"
    /\ DestroyWorkItems /\ allocated' = {}
    /\ \/ /\ "m_pFilePtr" \in allocated /\ m_FileSync = Nobody
          /\ \E ok \in BOOLEAN : Try(ok) /\ FileWriteHeader(m_pFilePtr - HeaderSize, ok)
       \/ /\ "m_pFilePtr" \notin allocated /\ UNCHANGED <<m_pFilePtr, file, failures>>
    /\ UNCHANGED <<buffer, m_ulFrameSize, m_fFrameUsed, m_fWriteDisabled, write, m_FileSync, bytes>>

(***************************************************************************)
(* The specification.                                                      *)
(***************************************************************************)
Init ==
    /\ stream = "New" /\ allocated = {} /\ m_pWorkItems = [i \in Items |-> NoItem]
    /\ m_ulFrameSize = DefaultFrameSize /\ m_ulBufferOffset = 0 /\ m_ulFrameIndex = 0
    /\ m_pDataBuffer = [b \in 0..FrameCount * DefaultFrameSize - 1 |-> 0]
    /\ m_fFrameUsed = [f \in Frames |-> FALSE] /\ m_fWriteDisabled = FALSE
    /\ write = NotWriting /\ m_FileSync = Nobody /\ m_pFilePtr = 0
    /\ file = [header |-> -1, data |-> <<>>]
    /\ given = 0 /\ accepted = {} /\ bridged = {} /\ overrun = FALSE /\ failures = 0

Writing == WriteLeftOver \/ WriteSaves
Ended == stream = "Gone" /\ UNCHANGED vars

Next ==
    \/ SetDataFormat \/ Initialize \/ \E size \in MaxWriteSizes : SetMaxWriteSize(size)
    \/ \E fDisable \in BOOLEAN : Disable(fDisable)
    \/ \E ulByteCount \in WriteSizes : WriteData(ulByteCount)
    \/ Writing \/ \E i \in Items : SaveFrameWorkerCallback(i)
    \/ WaitAllWorkItems \/ WaitedForAll \/ Destroy \/ Ended

\* The system runs the work items that are queued; a write goes on.
Fairness == WF_vars(Writing) /\ WF_vars(WaitedForAll) /\ \A i \in Items : WF_vars(SaveFrameWorkerCallback(i))

Spec == Init /\ [][Next]_vars /\ Fairness

(***************************************************************************)
(* Properties.                                                             *)
(***************************************************************************)
\* When the stream has stopped, the file holds every byte that was accepted,
\* once, although frames are reused while callbacks of earlier ones still run
\* and the last one was partly filled. (Unless a write has run over into a frame
\* that waited to be saved, or the file system has failed.)
Complete ==
    stream = "Stopped" /\ ~overrun /\ failures = 0 =>
        /\ Range(file.data) = accepted /\ Len(file.data) = Cardinality(accepted)

\* When the stream is destroyed no callback is queued or running ("All write
\* activity is done at this point"), and nobody holds the file.
NothingAfterFree ==
    stream \in {"Stopped", "Failed", "Gone"} =>
        (\A i \in Items : m_pWorkItems[i].at \in {"None", "Done"}) /\ m_FileSync = Nobody

\* The inductive invariant. While the stream writes, a frame that is to be saved
\* is in use and has one work item, so that WriteData keeps off it and no two
\* callbacks write it; the mutex is held by a callback that works on the file.
Busy(i) == m_pWorkItems[i].at \in {"Queued", "Wait", "Write", "Clear"}

FrameExclusive ==
    stream = "Ready" =>
        /\ \A i \in Items : Busy(i) =>
            /\ m_fFrameUsed[m_pWorkItems[i].frame] /\ m_pWorkItems[i].frame # write.save
            /\ \A j \in Items \ {i} : Busy(j) => m_pWorkItems[i].frame # m_pWorkItems[j].frame
        /\ write.save # NoFrame => m_fFrameUsed[write.save]

Shape ==
    /\ m_pWorkItems = [i \in Items |-> [at |-> m_pWorkItems[i].at, frame |-> m_pWorkItems[i].frame,
                                       size |-> m_pWorkItems[i].size]]
    /\ m_fFrameUsed \in [Frames -> BOOLEAN] /\ m_ulFrameIndex \in Frames
    /\ write.save \in Frames \cup {NoFrame} /\ (write.at = "Idle" => write.save = NoFrame)
    /\ (write.at = "Save" => write.save # NoFrame)
    /\ \A i \in Items : Busy(i) => m_pWorkItems[i].frame \in Frames

MutexHeld == m_FileSync # Nobody => m_FileSync \in Items /\ m_pWorkItems[m_FileSync].at \in {"Write", "Clear"}

BeforeIsQuiet ==
    stream \in {"New", "Formatted"} => \A i \in Items : m_pWorkItems[i].at = "None"

AfterIsIdle == stream \notin {"Ready"} => write.at = "Idle"

IndInv ==
    Shape /\ FrameExclusive /\ MutexHeld /\ BeforeIsQuiet /\ AfterIsIdle /\ NothingAfterFree

(***************************************************************************)
(* What Complete rests on, besides IndInv: as long as no write has run     *)
(* over and nothing has failed, every accepted byte is in one place, a     *)
(* place of the file or one of the buffer that is still to be saved.       *)
(***************************************************************************)
Undisturbed == ~overrun /\ failures = 0

\* A work item for each frame and one for each thread that has given its frame
\* free and not yet set its event: GetNewWorkItem always finds one.
EnoughItems == FrameCount + Workers <= Cardinality(Items)

Waits(i) == m_pWorkItems[i].at \in {"Queued", "Wait", "Write"}

\* The places that work item i saves, and those of the frame that is being filled
ToSave(i) ==
    LET start == m_pWorkItems[i].frame * m_ulFrameSize IN start .. start + m_pWorkItems[i].size - 1
Partial == m_ulFrameIndex * m_ulFrameSize .. m_ulBufferOffset - 1

Held == {b \in 0..m_ulBufferSize - 1 :
    \/ \E i \in Items : Waits(i) /\ b \in ToSave(i)
    \/ write.save # NoFrame /\ b \in InFrame(write.save)
    \/ stream = "Ready" /\ b \in Partial}

DataTypes ==
    /\ m_ulFrameSize \in Nat \ {0} /\ m_ulBufferOffset \in Nat /\ given \in Nat
    /\ m_pDataBuffer \in [0..m_ulBufferSize - 1 -> Nat] /\ accepted \subseteq 1..given
    /\ file = [header |-> file.header, data |-> file.data] /\ file.data \in Seq(Nat)
    /\ write.left \in Seq(Nat) /\ write.at \in {"Idle", "LeftOver", "Save"}
    /\ \A i \in Items : m_pWorkItems[i].at \in {"None", "Done", "Queued", "Wait", "Write", "Clear", "Signal"}

\* The size of a frame is only changed before the first write.
FirstWrite ==
    /\ stream \in {"New", "Formatted"} => given = 0
    /\ given = 0 => /\ m_ulBufferOffset = 0 /\ m_ulFrameIndex = 0 /\ write.save = NoFrame
                    /\ write.at # "LeftOver" /\ \A i \in Items : ~Waits(i)

\* Each thread runs one callback, and a stream that writes has all work items.
ThreadsBusy ==
    /\ Cardinality(Running) <= Workers
    /\ stream \in {"Ready", "Waiting"} => \A i \in Items : m_pWorkItems[i].at # "None"

\* The offset is in the current frame, at its start as long as it is in use; what
\* is left over goes to the first frame and does not fill it.
OffsetInFrame ==
    /\ m_ulFrameIndex * m_ulFrameSize <= m_ulBufferOffset
    /\ m_ulBufferOffset < (m_ulFrameIndex + 1) * m_ulFrameSize
    /\ m_fFrameUsed[m_ulFrameIndex] => m_ulBufferOffset = m_ulFrameIndex * m_ulFrameSize
    /\ write.at = "LeftOver" =>
         /\ m_ulFrameIndex = 0 /\ m_ulBufferOffset = 0
         /\ write.save # NoFrame /\ Len(write.left) < m_ulFrameSize

\* What is to be saved lies within frames, no two pieces in one.
PiecesApart ==
    /\ write.save # NoFrame => write.size = m_ulFrameSize
    /\ \A i \in Items : Waits(i) =>
         /\ m_pWorkItems[i].size \in 1..m_ulFrameSize
         /\ \A j \in Items \ {i} : Waits(j) => m_pWorkItems[i].frame # m_pWorkItems[j].frame

\* What is left over is new.
LeftIsNew ==
    /\ \A k \in DOMAIN write.left : write.left[k] \in (1..given) \ accepted
    /\ \A k, l \in DOMAIN write.left : write.left[k] = write.left[l] => k = l

EachByteOnce ==
    /\ \A k, l \in DOMAIN file.data : file.data[k] = file.data[l] => k = l
    /\ \A b, c \in Held : m_pDataBuffer[b] = m_pDataBuffer[c] => b = c
    /\ \A k \in DOMAIN file.data, b \in Held : file.data[k] # m_pDataBuffer[b]
    /\ accepted = {file.data[k] : k \in DOMAIN file.data} \cup {m_pDataBuffer[b] : b \in Held}

Accounted ==
    DataTypes /\ FirstWrite /\ ThreadsBusy /\ OffsetInFrame /\ PiecesApart /\ LeftIsNew /\ EachByteOnce

DataInv == failures \in Nat /\ (Undisturbed => Accounted)

\* A frame in use is free again in the end, whatever fails: the stream goes on.
\* (With a work item for every frame and every thread: GetNewWorkItem would
\* otherwise find none, and SaveFrame leave the frame in use.)
FramesFree == \A f \in Frames : m_fFrameUsed[f] ~> ~m_fFrameUsed[f]

\* What WriteData accepts it also passes on to the bridge ("INFERNO: Write audio
\* samples to shared memory bridge").
Bridged == bridged = accepted
=============================================================================
