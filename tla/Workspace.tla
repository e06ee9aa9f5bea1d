------------------------------ MODULE Workspace ------------------------------
(***************************************************************************)
(* Where the files of a job come from: the clone and the scan of           *)
(* core/repository.py and the extraction of core/archive.py, as            *)
(* worker/processor.py runs them, each in a thread of its own.             *)
(*                                                                         *)
(* An entry of an archive says how long it is (declared) and is as long as *)
(* it is (real), in units of one block of a read.                          *)
(***************************************************************************)
EXTENDS Integers, Sequences, FiniteSets, SequencesExt, Orders

CONSTANTS
    MaxEntries,     \* entries of an archive
    MaxFileBytes,   \* of one file
    MaxTotalBytes,  \* of all files
    MaxFiles        \* files of a scan

ASSUME LimitsAssumption ==
    {MaxEntries, MaxFileBytes, MaxTotalBytes} \subseteq Nat /\ MaxFiles \in Nat \ {0}

Entries == [kind : {"source", "unsafe"}, path : Nat, declared : Nat, real : Nat]
Files == [kind : {"source", "binary", "blank", "other"}, path : Nat, size : Nat]

VARIABLES
    pc,         \* where the job is
    thread,     \* the thread that runs git: none, running, cloned, failed
    clone,      \* its directory: absent, partial, whole
    late,       \* the thread outlived the timeout
    warned,     \* a removal failed, and the log says so
    disk,       \* the extraction directory: the size of each file
    zip,        \* entries still to be extracted
    sink,       \* bytes of the first of them written so far
    written,    \* files_written and bytes_written
    walk,       \* files still to be scanned
    scan        \* RepoScan: the files and the counters

workspace == <<thread, clone, late, warned, disk, zip, sink, written, walk, scan>>

Goto(stage) == pc' = stage

NoFile == <<>>
NoScan == [files |-> <<>>, bytes |-> 0, large |-> 0, binary |-> 0, truncated |-> FALSE]

WorkspaceInit ==
    /\ thread = "none" /\ clone = "absent" /\ late = FALSE /\ warned = FALSE
    /\ disk = NoFile /\ sink = 0 /\ written = [files |-> 0, bytes |-> 0]
    /\ scan = NoScan

\* cleanup_directory, in every finally of the processor and after a clone that
\* did not come.  When something cannot be removed it logs a warning and returns
\* as ever; what is there may then all stay.
Removed(there) ==
    \/ disk' = NoFile /\ clone' = "absent" /\ UNCHANGED warned
    \/ /\ there # NoFile \/ clone # "absent"
       /\ warned' = TRUE
       /\ disk' = there /\ UNCHANGED clone
Cleanup == Removed(disk)

-----------------------------------------------------------------------------
(* clone()                                                                 *)

StartClone ==
    /\ pc = "clone" /\ thread = "none"
    /\ thread' = "running"
    /\ UNCHANGED <<pc, clone, late, warned, disk, zip, sink, written, walk, scan>>

\* git creates the directory and fills it; it does so whoever is waiting.
GitWrites ==
    /\ thread = "running" /\ clone = "absent"
    /\ clone' = "partial"
    /\ UNCHANGED <<pc, thread, late, warned, disk, zip, sink, written, walk, scan>>

GitEnds ==
    /\ thread = "running"
    /\ \/ clone = "partial" /\ clone' = "whole" /\ thread' = "cloned"
       \/ thread' = "failed" /\ UNCHANGED clone
    /\ UNCHANGED <<pc, late, warned, disk, zip, sink, written, walk, scan>>

CloneReturns ==
    /\ pc = "clone" /\ thread = "cloned"
    /\ Goto("scan")
    /\ UNCHANGED workspace

CloneFails ==
    /\ pc = "clone" /\ thread = "failed"
    /\ Goto("failed")
    /\ Cleanup
    /\ UNCHANGED <<thread, late, zip, sink, written, walk, scan>>

\* wait_for gives up; the thread does not know.
CloneTimesOut ==
    /\ pc = "clone" /\ thread = "running"
    /\ Goto("failed")
    /\ Cleanup
    /\ late' = TRUE
    /\ UNCHANGED <<thread, zip, sink, written, walk, scan>>

-----------------------------------------------------------------------------
(* safe_extract(): one entry after the other, block by block.              *)

Declared(entries) == [i \in DOMAIN entries |-> entries[i].declared]

Entry == Head(zip)

\* Directories, links, unsafe names, bombs, what is declared too long and what
\* is not source.
PassedOver == Entry.kind # "source" \/ Entry.declared > MaxFileBytes

\* Bug: the exception leaves without a finally.
ArchiveFailsUncleaned ==
    /\ pc \in {"manifest", "extract", "write"}
    /\ pc = "extract" => zip # <<>> /\ ~PassedOver
    /\ Goto("failed")
    /\ UNCHANGED workspace

\* zipfile or the disk raises: the archive is none (BadZipFile), an entry cannot
\* be opened (encrypted) or not be read or written to its end (a wrong CRC, no
\* space), and then half of it is on the disk until the finally.
ArchiveFails ==
    /\ pc \in {"manifest", "extract", "write"}
    /\ pc = "extract" => zip # <<>> /\ ~PassedOver
    /\ Goto("failed") /\ Cleanup
    /\ UNCHANGED <<thread, late, zip, sink, written, walk, scan>>

\* _reject_oversized_manifest: from the headers alone.
ManifestRefused ==
    /\ pc = "manifest"
    /\ \/ Len(zip) > MaxEntries
       \/ SumFunction(Declared(zip)) > MaxTotalBytes
    /\ Goto("failed") /\ Cleanup
    /\ UNCHANGED <<thread, late, zip, sink, written, walk, scan>>

ManifestAccepted ==
    /\ pc = "manifest"
    /\ Len(zip) <= MaxEntries
    /\ SumFunction(Declared(zip)) <= MaxTotalBytes
    /\ Goto("extract")
    /\ UNCHANGED workspace

SkipEntry ==
    /\ pc = "extract" /\ zip # <<>> /\ PassedOver
    /\ zip' = Tail(zip)
    /\ UNCHANGED <<pc, thread, clone, late, warned, disk, sink, written, walk, scan>>

\* open(target, "wb"): an earlier entry of the same name is truncated.
OpenEntry ==
    /\ pc = "extract" /\ zip # <<>> /\ ~PassedOver
    /\ Goto("write")
    /\ disk' = [p \in DOMAIN disk \cup {Entry.path} |->
                    IF p = Entry.path THEN 0 ELSE disk[p]]
    /\ sink' = 0
    /\ UNCHANGED <<thread, clone, late, warned, zip, written, walk, scan>>

Unlinked == [p \in DOMAIN disk \ {Entry.path} |-> disk[p]]

TooLongFile(length) == length > MaxFileBytes

\* Bug: the total is compared without the entry being written.
TooLongInAllBefore(length) == written.bytes > MaxTotalBytes

TooLongInAll(length) == written.bytes + length > MaxTotalBytes

\* The next block: real bytes are counted, whatever the header declared, and
\* none beyond a limit is written.
WriteBlock ==
    /\ pc = "write" /\ sink < Entry.real
    /\ ~TooLongFile(sink + 1) /\ ~TooLongInAll(sink + 1)
    /\ sink' = sink + 1
    /\ disk' = [disk EXCEPT ![Entry.path] = sink + 1]
    /\ UNCHANGED <<pc, thread, clone, late, warned, zip, written, walk, scan>>

RejectEntry ==
    /\ pc = "write" /\ sink < Entry.real /\ TooLongFile(sink + 1)
    /\ Goto("extract")
    /\ disk' = Unlinked
    /\ zip' = Tail(zip)
    /\ UNCHANGED <<thread, clone, late, warned, sink, written, walk, scan>>

RejectArchive ==
    /\ pc = "write" /\ sink < Entry.real
    /\ ~TooLongFile(sink + 1) /\ TooLongInAll(sink + 1)
    /\ Goto("failed") /\ Removed(Unlinked)
    /\ UNCHANGED <<thread, late, zip, sink, written, walk, scan>>

CloseEntry ==
    /\ pc = "write" /\ sink = Entry.real
    /\ Goto("extract")
    /\ written' = [files |-> written.files + 1, bytes |-> written.bytes + sink]
    /\ zip' = Tail(zip)
    /\ UNCHANGED <<thread, clone, late, warned, disk, sink, walk, scan>>

\* The files on the disk in the order of the walk, source or not as their
\* bytes say.
Found(kinds) ==
    LET paths == Ordered(DOMAIN disk, <)
        Kind(path) == IF disk[path] = 0 THEN "blank" ELSE kinds[path]
    IN  [i \in DOMAIN paths |->
            [path |-> paths[i], size |-> disk[paths[i]], kind |-> Kind(paths[i])]]

\* An archive without a supported file is an error; what is on the disk now is
\* what is scanned.
ExtractEnds ==
    /\ pc = "extract" /\ zip = <<>>
    /\ \/ written.files = 0 /\ Goto("failed") /\ Cleanup /\ UNCHANGED walk
       \/ /\ written.files > 0 /\ Goto("scan")
          /\ \E kinds \in [DOMAIN disk -> {"source", "binary"}] : walk' = Found(kinds)
          /\ UNCHANGED <<disk, clone, warned>>
    /\ UNCHANGED <<thread, late, zip, sink, written, scan>>

-----------------------------------------------------------------------------
(* scan(): the files in the order of the walk, without ignored directories. *)

File == Head(walk)

NoRoomFor(file) == scan.bytes + file.size > MaxTotalBytes

\* Bug: a file that does not fit is passed over in silence.
TruncatedSilently == scan

Truncated == [scan EXCEPT !.truncated = TRUE]

Collected(file) ==
    [scan EXCEPT !.files = Append(@, file), !.bytes = @ + file.size,
                 !.truncated = Len(scan.files) + 1 >= MaxFiles]

\* What one file does to the result; "other" is what is not wanted, not
\* supported, generated, or gone.
Scanned(file) ==
    IF file.kind = "other" THEN scan
    ELSE IF file.size > MaxFileBytes THEN [scan EXCEPT !.large = @ + 1]
    ELSE IF NoRoomFor(file) THEN Truncated
    ELSE CASE file.kind = "binary" -> [scan EXCEPT !.binary = @ + 1]
           [] file.kind = "blank"  -> scan
           [] file.kind = "source" -> Collected(file)

ScanFile ==
    /\ pc = "scan" /\ walk # <<>> /\ ~scan.truncated
    /\ scan' = Scanned(File)
    /\ walk' = Tail(walk)
    /\ UNCHANGED <<pc, thread, clone, late, warned, disk, zip, sink, written>>

\* The walk is over, or was broken off; without a file the job fails.
ScanEnds ==
    /\ pc = "scan" /\ (walk = <<>> \/ scan.truncated)
    /\ IF scan.files = <<>>
       THEN Goto("failed") /\ Cleanup
       ELSE Goto("index") /\ UNCHANGED <<disk, clone, warned>>
    /\ UNCHANGED <<thread, late, zip, sink, written, walk, scan>>

-----------------------------------------------------------------------------

(* However an archive lies about itself, what is on the disk never exceeds  *)
(* the limits of a file and of an extraction, at any block of it.           *)
DiskWithinLimits ==
    /\ \A p \in DOMAIN disk : disk[p] <= MaxFileBytes
    /\ SumFunction(disk) <= MaxTotalBytes

(* When a job is over nothing of it is on the disk, whichever way it ended, *)
(* an exception half-way through an archive included; unless a removal      *)
(* failed, or git outlived its timeout, see ClonesRemoved.                  *)
WorkspaceFreed ==
    pc \in {"done", "failed"} =>
        warned \/ (disk = NoFile /\ (clone = "absent" \/ late))

(* No clone stays behind once its thread is through ("`finally:             *)
(* cleanup_directory` sempre", docs/como-funciona.md), unless a warning     *)
(* says so.  The code does not keep this: the thread of a clone that was    *)
(* given up may write after the removal.                                    *)
ClonesRemoved ==
    pc \in {"done", "failed"} /\ thread # "running" /\ ~warned => clone = "absent"
=============================================================================
