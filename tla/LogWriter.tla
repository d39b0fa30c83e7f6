------------------------------ MODULE LogWriter ------------------------------
(***************************************************************************)
(* The log files of the bot: ManagedLogWriter in                           *)
(* src/src/logging/writer.rs.                                              *)
(*                                                                         *)
(* Records go to a file; a file that is full or from yesterday is closed,  *)
(* compressed into an archive next to it and removed.  Source files and    *)
(* archives together are kept below a total, the oldest going first.  Each *)
(* operation on a file may fail, and the process may be killed before any  *)
(* of them; the next one starts by tidying up.                             *)
(***************************************************************************)
EXTENDS Integers, FiniteSets, FiniteSetsExt

CONSTANTS
    None,
    MaxFile, MaxTotal,  \* max_file_bytes, max_total_bytes, in records
    MaxFiles,           \* bound: files that are opened
    MaxRecords          \* bound: records that are written

Files == 1..MaxFiles    \* in the order of their timestamps

VARIABLES
    source,         \* the .jsonl files: the records in each, None if it is not there
    archive,        \* the .jsonl.zst files: records and size
    temporary,      \* the .zst.tmp files: the records in each
    writer,         \* place, current file, files it has to archive, what comes after that
    opened,         \* files opened so far
    written,        \* history: records that were written
    evicted         \* history: records removed to make room

vars == <<source, archive, temporary, writer, opened, written, evicted>>
disk == <<source, archive, temporary>>

Off == [at |-> "off", current |-> None, pending |-> {}, then |-> "off"]

Init ==
    /\ source = [f \in Files |-> None]
    /\ archive = [f \in Files |-> None]
    /\ temporary = [f \in Files |-> None]
    /\ writer = Off
    /\ opened = 0 /\ written = 0 /\ evicted = {}

At(place) == writer.at = place
Move(place) == writer' = [writer EXCEPT !.at = place]

SourceSize(f) == IF source[f] = None THEN 0 ELSE Cardinality(source[f])
ArchiveSize(f) == IF archive[f] = None THEN 0 ELSE archive[f].size
managed_log_size == MapThenSumSet(SourceSize, Files) + MapThenSumSet(ArchiveSize, Files)

\* An error ends the operation: in new there is no writer, in write the record is not written.
Errs == writer' = IF writer.then = "idle" THEN Off ELSE [writer EXCEPT !.at = "idle", !.pending = {}]

Sources(active) == {f \in Files : source[f] # None /\ f # active}

(***************************************************************************)
(* new: under the lock of the directory                                    *)
(***************************************************************************)
Start ==
    /\ At("off")
    /\ writer' = [at |-> "archive", current |-> None, pending |-> Sources(None), then |-> "idle"]
    /\ UNCHANGED <<disk, opened, written, evicted>>

(***************************************************************************)
(* write: ensure_file, then room for the record, then the record           *)
(***************************************************************************)
IsFull == writer.current # None /\ SourceSize(writer.current) + 1 > MaxFile

Write ==
    /\ At("idle") /\ written < MaxRecords
    /\ \/ /\ writer.current # None /\ ~IsFull
          /\ writer' = [writer EXCEPT !.at = "room", !.then = "room"]
       \/ /\ writer.current = None
          /\ writer' = [writer EXCEPT !.at = "open", !.then = "open"]
       \/ /\ writer.current # None      \* it is full or of another day: rotate
          /\ writer' = [at |-> "archive", current |-> None, pending |-> {writer.current}, then |-> "open"]
    /\ UNCHANGED <<disk, opened, written, evicted>>

OpenFile ==
    /\ At("open") /\ opened < MaxFiles
    /\ opened' = opened + 1
    /\ source' = [source EXCEPT ![opened'] = {}]
    /\ writer' = [writer EXCEPT !.at = "room", !.current = opened']
    /\ UNCHANGED <<archive, temporary, written, evicted>>

\* It is checked while a record is written; afterwards the record goes on.
Maintain ==
    /\ At("room")
    /\ writer' = [writer EXCEPT !.at = "archive", !.pending = Sources(writer.current), !.then = "room"]
    /\ UNCHANGED <<disk, opened, written, evicted>>

Projected_Now == managed_log_size
\* The total with the record that comes.
Projected == managed_log_size + 1

MakeRoom ==
    /\ At("room")
    /\ IF Projected > MaxTotal THEN Move("evict") ELSE Move("append")
    /\ UNCHANGED <<disk, opened, written, evicted>>

Append ==
    /\ At("append")
    /\ written' = written + 1
    /\ source' = [source EXCEPT ![writer.current] = @ \cup {written'}]
    /\ Move("idle")
    /\ UNCHANGED <<archive, temporary, opened, evicted>>

(***************************************************************************)
(* archive_file, one file after another                                    *)
(***************************************************************************)
NextFile == Max(writer.pending)
Archived == writer' = [writer EXCEPT !.pending = @ \ {NextFile}]

\* An archive that is there has the records of its source; otherwise nothing is removed.
RemoveSource ==
    /\ At("archive") /\ writer.pending # {} /\ archive[NextFile] # None
    /\ IF archive[NextFile].records = source[NextFile]
       THEN source' = [source EXCEPT ![NextFile] = None] /\ Archived
       ELSE UNCHANGED source /\ Errs
    /\ UNCHANGED <<archive, temporary, opened, written, evicted>>

\* What an earlier process has left in the temporary file is removed first.
StartEncoding ==
    /\ At("archive") /\ writer.pending # {} /\ archive[NextFile] = None
    /\ temporary' = [temporary EXCEPT ![NextFile] = {}]
    /\ Move("encode")
    /\ UNCHANGED <<source, archive, opened, written, evicted>>

Encoded_Unflushed(f) == source[f] \ {written}

\* What the archive has when it is flushed: all that was written before the file was closed.
Encoded(f) == source[f]

Encode ==
    /\ At("encode")
    /\ temporary' = [temporary EXCEPT ![NextFile] = Encoded(NextFile)]
    /\ Move("encoded")
    /\ UNCHANGED <<source, archive, opened, written, evicted>>

\* The rename; a small file may grow by its compression.
PublishArchive ==
    /\ At("encoded")
    /\ \E size \in 1..SourceSize(NextFile) + 1 :
          archive' = [archive EXCEPT ![NextFile] = [records |-> temporary[NextFile], size |-> size]]
    /\ temporary' = [temporary EXCEPT ![NextFile] = None]
    /\ Move("publish")
    /\ UNCHANGED <<source, opened, written, evicted>>

RemoveArchived ==
    /\ At("publish")
    /\ source' = [source EXCEPT ![NextFile] = None]
    /\ writer' = [writer EXCEPT !.at = "archive", !.pending = @ \ {NextFile}]
    /\ UNCHANGED <<archive, temporary, opened, written, evicted>>

\* enforce_capacity, after the archiving
AllArchived ==
    /\ At("archive") /\ writer.pending = {}
    /\ Move(IF managed_log_size > MaxTotal THEN "evict all" ELSE writer.then)
    /\ UNCHANGED <<disk, opened, written, evicted>>

(***************************************************************************)
(* enforce_capacity: the oldest go until 90% of the limit are left         *)
(***************************************************************************)
Target == IF At("evict") THEN ((MaxTotal - 1) * 90) \div 100 ELSE (MaxTotal * 90) \div 100

Removable == {f \in Files \ {writer.current} : source[f] # None \/ archive[f] # None}

Oldest == Min(Removable)

EvictOldest ==
    /\ At("evict") \/ At("evict all")
    /\ managed_log_size > Target /\ Removable # {}
    /\ IF source[Oldest] # None
       THEN /\ evicted' = evicted \cup source[Oldest]
            /\ source' = [source EXCEPT ![Oldest] = None]
            /\ UNCHANGED archive
       ELSE /\ evicted' = evicted \cup archive[Oldest].records
            /\ archive' = [archive EXCEPT ![Oldest] = None]
            /\ UNCHANGED source
    /\ UNCHANGED <<temporary, writer, opened, written>>

Evicted ==
    /\ At("evict") \/ At("evict all")
    /\ managed_log_size <= Target \/ Removable = {}
    /\ IF At("evict all") THEN Move(writer.then)
       ELSE IF managed_log_size + 1 > MaxTotal THEN Errs ELSE Move("append")
    /\ UNCHANGED <<disk, opened, written, evicted>>

(***************************************************************************)
(* Faults                                                                  *)
(***************************************************************************)
\* A failed encoding removes its temporary file.
Fails ==
    /\ ~At("off") /\ ~At("idle")
    /\ Errs
    /\ IF At("encode") THEN temporary' = [temporary EXCEPT ![NextFile] = None] ELSE UNCHANGED temporary
    /\ UNCHANGED <<source, archive, opened, written, evicted>>

Killed ==
    /\ ~At("off")
    /\ writer' = Off
    /\ UNCHANGED <<disk, opened, written, evicted>>

Next ==
    \/ Start \/ Write \/ OpenFile \/ Maintain \/ MakeRoom \/ Append
    \/ RemoveSource \/ StartEncoding \/ Encode \/ PublishArchive \/ RemoveArchived \/ AllArchived
    \/ EvictOldest \/ Evicted
    \/ Fails \/ Killed

Spec == Init /\ [][Next]_vars
----------------------------------------------------------------------------
(***************************************************************************)
(* A record that was written is in its file or in the archive until it is  *)
(* removed to make room, and then every older record is gone: neither a    *)
(* failure nor a kill in the middle of archiving loses one (archive_file,  *)
(* enforce_capacity).                                                      *)
(***************************************************************************)
RecordsIn(f) == (IF source[f] = None THEN {} ELSE source[f])
                  \cup (IF archive[f] = None THEN {} ELSE archive[f].records)

NoRecordIsLost ==
    /\ \A r \in 1..written : r \in evicted \/ \E f \in Files : r \in RecordsIn(f)
    /\ \A r \in evicted : 1..r \subseteq evicted

(***************************************************************************)
(* A record is written only if all files are within the total with it,     *)
(* whatever an interrupted archiving has left behind (write).              *)
(***************************************************************************)
WritesWithin == written' # written => managed_log_size' <= MaxTotal

WithinTheTotal == [][WritesWithin]_vars
=============================================================================
