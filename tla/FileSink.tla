------------------------------ MODULE FileSink ------------------------------
(***************************************************************************)
(* The file sink (internal/sinks/file.go): its worker appends records to   *)
(* the current file and rotates the file when the rotation interval has    *)
(* passed.  Files are numbered in the order their names were generated; a  *)
(* rotation in the second of the last one generates the same name again.   *)
(* The clock is left open: a rotation may be due at any record.            *)
(***************************************************************************)
EXTENDS AsyncSink

CONSTANT MaxFile    \* bound: file names generated

ASSUME FileAssumption == MaxFile \in Nat \ {0}

VARIABLES
    content,        \* what each file holds
    current,        \* the file f.file was opened on
    fileOpen,       \* f.file is an open descriptor
    fileMu          \* who holds f.mu between steps

fileVars == <<content, current, fileOpen, fileMu>>

FileTypeOK ==
    /\ content \in [1 .. MaxFile -> Seq(Record)]
    /\ current \in 1 .. MaxFile
    /\ fileOpen \in BOOLEAN
    /\ fileMu \in {"free", "ticker", "closer"}

FileInit ==
    /\ content = [f \in 1 .. MaxFile |-> <<>>]
    /\ current = 1
    /\ fileOpen = TRUE
    /\ fileMu = "free"

\* generateFilename and os.OpenFile with O_CREATE and O_APPEND; then what the
\* caller writes before it gives up f.mu.
OpenFile(f, written) ==
    /\ f \in {current, current + 1} \cap 1 .. MaxFile
    /\ content' = [content EXCEPT ![f] = @ \o written]
    /\ current' = f

\* rotateFileLocked returns no error.
Rotated(written) ==
    /\ fileOpen
    /\ \E f \in 1 .. MaxFile : OpenFile(f, written)
    /\ UNCHANGED fileOpen

\* rotateFileLocked fails: in the flush or the close of the old file, always so
\* when that is closed, or in the open of the new one, which leaves f.file closed.
RotationFails ==
    /\ fileOpen' \in {fileOpen, FALSE}
    /\ UNCHANGED <<content, current>>

\* The worker has a record and takes f.mu.
Handling == hand["file"] # None /\ fileMu = "free"

\* handleMessage without a rotation: the write may fail, and always does once
\* f.file is closed.
WriteRecord ==
    /\ Handling
    /\ \/ /\ fileOpen
          /\ content' = [content EXCEPT ![current] = Append(@, hand["file"])]
          /\ Handled("file", FALSE)
       \/ UNCHANGED content /\ Handled("file", TRUE)
    /\ UNCHANGED <<policy, queue, closed, current, fileOpen, fileMu>>

\* handleMessage rotates first.  It gives the record up when the rotation fails.
RotateAndWrite ==
    /\ Handling
    /\ \/ Rotated(<<hand["file"]>>) /\ Handled("file", FALSE)
       \/ Rotated(<<>>) /\ Handled("file", TRUE)
       \/ RotationFails /\ Handled("file", TRUE)
    /\ UNCHANGED <<policy, queue, closed, fileMu>>

\* The rest of Close, when the worker has drained the queue: flush and close of
\* the file, which fail once it is closed.
CloseFile(failed) ==
    /\ fileMu = "free"
    /\ failed \/ fileOpen
    /\ fileOpen' \in (IF failed THEN {fileOpen, FALSE} ELSE {FALSE})
    /\ UNCHANGED <<content, current, fileMu>>
=============================================================================
