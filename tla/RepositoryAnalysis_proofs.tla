----------------------- MODULE RepositoryAnalysis_proofs -----------------------
(***************************************************************************)
(* What an archive may leave on the disk, what is on it when a job is      *)
(* over, what a scan tells, that the chunks of a file cover it and that    *)
(* its prompts are filled with what is most relevant: for all limits, all  *)
(* jobs and all syntax trees.                                              *)
(***************************************************************************)
EXTENDS RepositoryAnalysis, Data_proofs

Stages == {"clone", "manifest", "extract", "write", "scan", "index", "file",
           "agents", "done", "failed"}
Scans == [files : Seq(Files), bytes : Nat, large : Nat, binary : Nat, truncated : BOOLEAN]

\* The sets the variables of the workspace take their values from.
WorkspaceOK ==
    /\ pc \in Stages /\ job \in Jobs
    /\ thread \in {"none", "running", "cloned", "failed"}
    /\ clone \in {"absent", "partial", "whole"} /\ late \in BOOLEAN /\ warned \in BOOLEAN
    /\ IsFiniteSet(DOMAIN disk) /\ DOMAIN disk \subseteq Nat /\ disk \in [DOMAIN disk -> Nat]
    /\ zip \in Seq(Entries) /\ sink \in Nat /\ written \in [files : Nat, bytes : Nat]
    /\ walk \in Seq(Files) /\ scan \in Scans

\* What has been counted covers what is on the disk: an entry that overwrites an
\* earlier one, or was removed, leaves less there than was counted.
Counted ==
    /\ pc \in {"clone", "manifest"} => disk = NoFile /\ written.bytes = 0
    /\ pc \in {"clone", "manifest", "extract"} =>
          SumFunction(disk) <= written.bytes /\ written.bytes <= MaxTotalBytes
    /\ pc = "write" =>
          /\ zip # <<>> /\ Entry.path \in DOMAIN disk /\ disk[Entry.path] = sink
          /\ SumFunction(disk) <= written.bytes + sink
          /\ written.bytes + sink <= MaxTotalBytes

\* A thread that still runs is waited for, or was given up with its job.
Watched == thread = "running" => pc = "clone" \/ (pc = "failed" /\ late)

\* The scan of a repository has seen the walk up to a place: the source files
\* before it, and, as long as it is not truncated, the counts and the rest.
SeenTo(m) ==
    /\ scan.files = At(job.walk, Small("source") \cap (1 .. m))
    /\ ~scan.truncated =>
          /\ walk = SubSeq(job.walk, m + 1, Len(job.walk))
          /\ scan.large = Cardinality(Large \cap (1 .. m))
          /\ scan.binary = Cardinality(Small("binary") \cap (1 .. m))
          /\ Len(scan.files) < MaxFiles

InScan ==
    /\ pc \in {"manifest", "extract", "write"} => job.type = "archive"
    /\ job.type = "repository" /\ pc \in {"clone", "scan", "index"} =>
          /\ Len(scan.files) <= MaxFiles /\ scan.bytes <= MaxTotalBytes
          /\ scan.bytes = SumFunction([i \in DOMAIN scan.files |-> scan.files[i].size])
          /\ \E m \in 0 .. Len(job.walk) : SeenTo(m)
          /\ pc = "index" => walk = <<>> \/ scan.truncated

WInv ==
    /\ WorkspaceOK /\ Counted /\ Watched /\ InScan
    /\ DiskWithinLimits /\ WorkspaceFreed

-----------------------------------------------------------------------------
(* The files of a directory: their number is finite and each has a size.   *)

Stored(d) == IsFiniteSet(DOMAIN d) /\ DOMAIN d \subseteq Nat /\ d \in [DOMAIN d -> Nat]

\* They add up to a natural, and no files to nothing.
LEMMA SumStored ==
  /\ \A d : Stored(d) => SumFunction(d) \in Nat
  /\ Stored(NoFile) /\ SumFunction(NoFile) = 0 /\ DOMAIN NoFile = {}
<1>1. ASSUME NEW d, Stored(d) PROVE SumFunction(d) \in Nat
  <2>1. IsFiniteSet(DOMAIN d) /\ \A p \in DOMAIN d : d[p] \in Nat
    BY <1>1 DEF Stored
  <2>. QED BY <2>1, SumNat DEF SumFunction
<1>2. DOMAIN NoFile = {}
  BY DEF NoFile
<1>3. Stored(NoFile)
  BY <1>2, FS_EmptySet DEF Stored, NoFile
<1>4. SumFunction(NoFile) = 0
  BY <1>2, SumEmpty DEF SumFunction
<1>. QED BY <1>1, <1>2, <1>3, <1>4

\* A file that is opened is empty, whatever it was.
LEMMA SumOpened ==
  ASSUME NEW d, Stored(d), NEW p \in Nat, NEW e,
         e = [q \in DOMAIN d \cup {p} |-> IF q = p THEN 0 ELSE d[q]]
  PROVE  Stored(e) /\ DOMAIN e = DOMAIN d \cup {p} /\ SumFunction(e) <= SumFunction(d)
<1> DEFINE D == DOMAIN d
           rest == D \ {p}
<1>1. /\ IsFiniteSet(D) /\ IsFiniteSet(D \cup {p}) /\ IsFiniteSet(rest)
      /\ D \subseteq Nat /\ \A q \in D : d[q] \in Nat
  BY FS_AddElement, FS_RemoveElement DEF Stored
<1>2. /\ DOMAIN e = D \cup {p} /\ \A q \in D \cup {p} : e[q] \in Nat
      /\ e[p] = 0 /\ \A q \in rest : e[q] = d[q]
  BY <1>1
<1>3. e \in [D \cup {p} -> Nat]
  BY <1>1
<1>4. (D \cup {p}) \ {p} = rest
  OBVIOUS
<1>5. SumFunction(e) = SumFunctionOnSet(e, D \cup {p}) /\ SumFunction(d) = SumFunctionOnSet(d, D)
  BY <1>2 DEF SumFunction
<1> HIDE DEF D, rest
<1>6. SumFunctionOnSet(e, D \cup {p}) = e[p] + SumFunctionOnSet(e, (D \cup {p}) \ {p})
  <2> DEFINE S == D \cup {p}
  <2>1. IsFiniteSet(S) /\ p \in S /\ \A q \in S : e[q] \in Nat
    BY <1>1, <1>2
  <2> HIDE DEF S
  <2>2. SumFunctionOnSet(e, S) = e[p] + SumFunctionOnSet(e, S \ {p})
    BY <2>1, SumTakeOut
  <2>. QED BY <2>2 DEF S
<1>7. SumFunctionOnSet(e, rest) = SumFunctionOnSet(d, rest)
  BY <1>1, <1>2, SumSame DEF rest
<1>8. SumFunctionOnSet(d, rest) <= SumFunctionOnSet(d, D) /\ SumFunctionOnSet(d, rest) \in Nat
  BY <1>1, SumPart, SumNat DEF rest
<1>9. SumFunction(e) <= SumFunction(d)
  BY <1>2, <1>4, <1>5, <1>6, <1>7, <1>8
<1>10. Stored(e)
  BY <1>1, <1>2, <1>3 DEF Stored, D
<1>. QED BY <1>2, <1>9, <1>10 DEF D

\* One block more.
LEMMA SumWritten ==
  ASSUME NEW d, Stored(d), NEW p \in DOMAIN d, NEW e, e = [d EXCEPT ![p] = d[p] + 1]
  PROVE  /\ Stored(e) /\ DOMAIN e = DOMAIN d /\ e[p] = d[p] + 1
         /\ SumFunction(e) = SumFunction(d) + 1
<1>1. /\ DOMAIN e = DOMAIN d /\ IsFiniteSet(DOMAIN d) /\ \A q \in DOMAIN d : d[q] \in Nat
      /\ e[p] = d[p] + 1 /\ \A q \in DOMAIN d : q # p => e[q] = d[q]
  BY DEF Stored
<1>2. Stored(e)
  BY <1>1 DEF Stored
<1> DEFINE D == DOMAIN d
<1>3. SumFunctionOnSet(e, D) = SumFunctionOnSet(d, D) + 1
  <2>1. /\ IsFiniteSet(D) /\ p \in D /\ (\A q \in D : d[q] \in Nat)
        /\ e[p] = d[p] + 1 /\ \A q \in D : q # p => e[q] = d[q]
    BY <1>1
  <2> HIDE DEF D
  <2>. QED BY ONLY <2>1, SumOneMore
<1>. QED BY <1>1, <1>2, <1>3 DEF SumFunction

\* A file is removed.
LEMMA SumUnlinked ==
  ASSUME NEW d, Stored(d), NEW p \in DOMAIN d, NEW e, e = [q \in DOMAIN d \ {p} |-> d[q]]
  PROVE  /\ Stored(e) /\ DOMAIN e = DOMAIN d \ {p}
         /\ SumFunction(d) = SumFunction(e) + d[p]
<1> DEFINE D == DOMAIN d
           rest == D \ {p}
<1>1. /\ IsFiniteSet(D) /\ IsFiniteSet(rest) /\ D \subseteq Nat /\ \A q \in D : d[q] \in Nat
  BY FS_RemoveElement DEF Stored
<1>2. /\ DOMAIN e = rest /\ \A q \in rest : e[q] = d[q]
  OBVIOUS
<1>3. Stored(e)
  BY <1>1, <1>2 DEF Stored
<1>4. SumFunction(e) = SumFunctionOnSet(e, rest) /\ SumFunction(d) = SumFunctionOnSet(d, D)
  BY <1>2 DEF SumFunction
<1> HIDE DEF D, rest
<1>5. SumFunctionOnSet(d, D) = d[p] + SumFunctionOnSet(d, D \ {p})
  BY <1>1, SumTakeOut DEF D
<1>6. SumFunctionOnSet(e, rest) = SumFunctionOnSet(d, rest)
  BY <1>1, <1>2, SumSame DEF rest
<1>7. SumFunctionOnSet(d, rest) \in Nat /\ d[p] \in Nat
  BY <1>1, SumNat DEF rest, D
<1>8. SumFunction(d) = SumFunction(e) + d[p]
  BY <1>4, <1>5, <1>6, <1>7 DEF rest
<1>. QED BY <1>2, <1>3, <1>8 DEF rest, D

-----------------------------------------------------------------------------
(* The first state.                                                        *)

\* The limits, and what is fetched, have their types.
LEMMA InputTypes ==
  /\ MaxEntries \in Nat /\ MaxFileBytes \in Nat /\ MaxTotalBytes \in Nat
  /\ MaxFiles \in Nat /\ MaxFiles > 0
  /\ \A j \in Jobs : /\ j.type \in {"archive", "repository"}
                     /\ j.entries \in Seq(Entries) /\ j.walk \in Seq(Files)
  BY LimitsAssumption, JobsAssumption

\* Nothing has been seen of the walk: no file, nothing counted.
LEMMA SeenNone ==
  ASSUME job \in Jobs, walk = job.walk, scan = NoScan
  PROVE  /\ SeenTo(0) /\ Len(scan.files) <= MaxFiles /\ scan.bytes <= MaxTotalBytes
         /\ scan.bytes = SumFunction([i \in DOMAIN scan.files |-> scan.files[i].size])
         /\ \E m \in 0 .. Len(job.walk) : SeenTo(m)
<1>1. job.walk \in Seq(Files)
  BY InputTypes
<1>2. /\ scan.files = <<>> /\ scan.bytes = 0 /\ scan.large = 0 /\ scan.binary = 0
      /\ scan.truncated = FALSE
  BY DEF NoScan
<1>3. \A S : S \cap (1 .. 0) = {}
  OBVIOUS
<1>4. Cardinality({}) = 0
  BY FS_EmptySet
<1>5. At(job.walk, {}) = <<>>
  <2>1. At(job.walk, {}) \in Seq(Files) /\ Len(At(job.walk, {})) = 0
    BY <1>1, <1>4, AtSeq
  <2>. QED BY <2>1, EmptySeq
<1>6. SubSeq(walk, 1, Len(walk)) = walk
  BY <1>1
<1>7. SeenTo(0)
  BY <1>2, <1>3, <1>4, <1>5, <1>6, InputTypes DEF SeenTo
<1>8. SumFunction([i \in DOMAIN scan.files |-> scan.files[i].size]) = 0
  <2> DEFINE sizes == [i \in DOMAIN scan.files |-> scan.files[i].size]
  <2>1. DOMAIN sizes = {}
    BY <1>2
  <2> HIDE DEF sizes
  <2>2. SumFunction(sizes) = 0
    BY <2>1, SumEmpty DEF SumFunction
  <2>. QED BY <2>2 DEF sizes
<1>. QED BY <1>1, <1>2, <1>7, <1>8, InputTypes

LEMMA InitWInv == Init => WInv
<1> SUFFICES ASSUME Init PROVE WInv
  OBVIOUS
<1>1. /\ job \in Jobs /\ job.type \in {"archive", "repository"}
      /\ pc = IF job.type = "repository" THEN "clone" ELSE "manifest"
      /\ thread = "none" /\ clone = "absent" /\ late = FALSE /\ warned = FALSE
      /\ disk = NoFile /\ sink = 0 /\ written = [files |-> 0, bytes |-> 0]
      /\ scan = NoScan /\ zip = job.entries /\ walk = job.walk
  BY InputTypes DEF Init, WorkspaceInit
<1>2. job.entries \in Seq(Entries) /\ job.walk \in Seq(Files)
  BY <1>1, InputTypes
<1>3. WorkspaceOK
  <2>1. scan \in Scans
    BY <1>1, EmptySeq DEF NoScan, Scans
  <2>2. IsFiniteSet(DOMAIN disk) /\ DOMAIN disk \subseteq Nat /\ disk \in [DOMAIN disk -> Nat]
    BY <1>1, SumStored DEF Stored
  <2>. QED BY <1>1, <1>2, <2>1, <2>2 DEF WorkspaceOK, Stages
<1>4. Counted /\ DiskWithinLimits
  BY <1>1, SumStored, InputTypes DEF Counted, DiskWithinLimits
<1>5. Watched /\ WorkspaceFreed
  BY <1>1 DEF Watched, WorkspaceFreed
<1>6. InScan
  BY <1>1, SeenNone DEF InScan
<1>. QED BY <1>3, <1>4, <1>5, <1>6 DEF WInv

-----------------------------------------------------------------------------
(* The types, action by action.                                            *)

\* What WorkspaceOK says of the disk.
LEMMA DiskStored == WorkspaceOK => Stored(disk)
  BY DEF WorkspaceOK, Stored

\* What a removal leaves: nothing, or with a warning what was there.
LEMMA RemovedTypes ==
  ASSUME NEW there, Removed(there)
  PROVE  /\ disk' = NoFile \/ disk' = there
         /\ clone' = "absent" \/ clone' = clone
         /\ warned' = warned \/ warned' = TRUE
         /\ warned' = TRUE \/ (disk' = NoFile /\ clone' = "absent")
  BY DEF Removed

\* An archive that is broken off removes what is there but the entry in hand.
LEMMA BrokenOff ==
  ASSUME WorkspaceOK, Counted, RejectArchive
  PROVE  /\ Stored(Unlinked) /\ DOMAIN Unlinked \subseteq DOMAIN disk
         /\ \A p \in DOMAIN Unlinked : Unlinked[p] = disk[p]
         /\ SumFunction(Unlinked) <= SumFunction(disk)
<1> DEFINE p == Entry.path
           e == [q \in DOMAIN disk \ {p} |-> disk[q]]
<1>1. p \in DOMAIN disk /\ Stored(disk)
  BY DiskStored DEF RejectArchive, Counted
<1>2. Unlinked = e
  BY DEF Unlinked
<1>3. DOMAIN e \subseteq DOMAIN disk /\ \A q \in DOMAIN e : e[q] = disk[q]
  OBVIOUS
<1>4. disk[p] \in Nat
  BY <1>1 DEF Stored
<1> HIDE DEF p
<1>5. Stored(e) /\ SumFunction(disk) = SumFunction(e) + disk[p]
  BY <1>1, SumUnlinked
<1>6. SumFunction(e) \in Nat
  BY <1>5, SumStored
<1> HIDE DEF e
<1>. QED BY <1>2, <1>3, <1>4, <1>5, <1>6

\* The actions around the clone, and the end of each part.
LEMMA CloneTypes ==
  ASSUME WorkspaceOK, Counted, UNCHANGED job,
         \/ StartClone \/ GitWrites \/ GitEnds \/ CloneReturns \/ CloneFails \/ CloneTimesOut
         \/ ManifestRefused \/ ManifestAccepted \/ RejectArchive \/ ArchiveFails \/ ScanEnds
  PROVE  WorkspaceOK'
<1>1. Stored(NoFile) /\ Stored(disk)
  BY SumStored, DiskStored
<1>2. CASE StartClone \/ GitWrites \/ GitEnds \/ CloneReturns \/ ManifestAccepted
  <2> USE DEF WorkspaceOK, Stages, Goto, workspace
  <2>1. CASE StartClone
    BY <2>1 DEF StartClone
  <2>2. CASE GitWrites
    BY <2>2 DEF GitWrites
  <2>3. CASE GitEnds
    BY <2>3 DEF GitEnds
  <2>4. CASE CloneReturns
    BY <2>4 DEF CloneReturns
  <2>5. CASE ManifestAccepted
    BY <2>5 DEF ManifestAccepted
  <2>. QED BY <1>2, <2>1, <2>2, <2>3, <2>4, <2>5
<1>3. ASSUME NEW there, Stored(there), pc' \in {"failed", "index"}, late' \in BOOLEAN,
             Removed(there) \/ UNCHANGED <<disk, clone, warned>>,
             UNCHANGED <<thread, zip, sink, written, walk, scan>>
      PROVE  WorkspaceOK'
  <2>1. /\ Stored(disk')
        /\ clone' = "absent" \/ clone' = clone
        /\ warned' = warned \/ warned' = TRUE
    BY <1>1, <1>3, RemovedTypes
  <2>. QED BY <1>3, <2>1 DEF WorkspaceOK, Stages, Stored
<1>4. late \in BOOLEAN
  BY DEF WorkspaceOK
<1>5. CASE CloneFails \/ CloneTimesOut \/ ManifestRefused \/ ArchiveFails \/ ScanEnds
  <2>1. /\ pc' \in {"failed", "index"} /\ late' \in BOOLEAN
        /\ Removed(disk) \/ UNCHANGED <<disk, clone, warned>>
        /\ UNCHANGED <<thread, zip, sink, written, walk, scan>>
    BY <1>4, <1>5 DEF CloneFails, CloneTimesOut, ManifestRefused, ArchiveFails, ScanEnds, Goto, Cleanup
  <2>. QED BY <1>1, <1>3, <2>1
<1>6. CASE RejectArchive
  <2>1. /\ pc' = "failed" /\ late' = late /\ Removed(Unlinked)
        /\ UNCHANGED <<thread, zip, sink, written, walk, scan>>
    BY <1>6 DEF RejectArchive, Goto
  <2>2. Stored(Unlinked)
    BY <1>6, BrokenOff
  <2>. QED BY <1>3, <1>4, <2>1, <2>2
<1>. QED BY <1>2, <1>5, <1>6

\* The entry in hand.
LEMMA EntryTypes ==
  ASSUME zip \in Seq(Entries), zip # <<>>
  PROVE  /\ Entry \in Entries /\ Tail(zip) \in Seq(Entries)
         /\ Entry.path \in Nat /\ Entry.real \in Nat /\ Entry.declared \in Nat
<1>1. Entry \in Entries /\ Tail(zip) \in Seq(Entries)
  BY HeadTailProperties DEF Entry
<1>. QED BY <1>1 DEF Entries

\* The files on the disk, as a walk.
LEMMA FoundFiles ==
  ASSUME WorkspaceOK, NEW kinds \in [DOMAIN disk -> {"source", "binary"}]
  PROVE  /\ Found(kinds) \in Seq(Files)
         /\ \A i \in DOMAIN Found(kinds) : Found(kinds)[i].path \in DOMAIN disk
<1> DEFINE P == DOMAIN disk
           Kind(path) == IF disk[path] = 0 THEN "blank" ELSE kinds[path]
           found == [i \in 1 .. Cardinality(P) |->
                        [path |-> Ascending(P)[i], size |-> disk[Ascending(P)[i]],
                         kind |-> Kind(Ascending(P)[i])]]
<1>1. IsFiniteSet(P) /\ P \in SUBSET Nat /\ disk \in [P -> Nat]
  BY DEF WorkspaceOK
<1>2. Found(kinds) = found
  <2>1. DOMAIN Ascending(P) = 1 .. Cardinality(P)
    BY DEF Ascending
  <2>. QED BY <2>1 DEF Found, Ordered, Nth, Ascending
<1>3. Cardinality(P) \in Nat /\ \A i \in 1 .. Cardinality(P) : Ascending(P)[i] \in P
  BY <1>1, AscendingAll
<1>4. \A p \in P : /\ p \in Nat /\ disk[p] \in Nat
                   /\ Kind(p) \in {"source", "binary", "blank", "other"}
  BY <1>1
<1>5. \A i \in 1 .. Cardinality(P) : found[i] \in Files
  BY <1>3, <1>4 DEF Files
<1> HIDE DEF Kind
<1>6. found \in [1 .. Cardinality(P) -> Files]
  BY <1>5
<1>7. \A i \in DOMAIN found : found[i].path \in P
  BY <1>3
<1> HIDE DEF found
<1>. QED BY <1>2, <1>3, <1>6, <1>7

\* The actions of the extraction.
LEMMA ExtractTypes ==
  ASSUME WorkspaceOK, Counted, UNCHANGED job,
         \/ SkipEntry \/ OpenEntry \/ WriteBlock \/ RejectEntry \/ CloseEntry \/ ExtractEnds
  PROVE  WorkspaceOK'
<1>1. zip \in Seq(Entries) /\ Stored(disk) /\ sink \in Nat /\ written \in [files : Nat, bytes : Nat]
  BY DiskStored DEF WorkspaceOK
<1>2. ASSUME Stored(disk'), zip' \in Seq(Entries), sink' \in Nat, pc' \in Stages,
             written' \in [files : Nat, bytes : Nat], walk' \in Seq(Files), clone' = clone \/ clone' = "absent",
             warned' = warned \/ warned' = TRUE, UNCHANGED <<thread, late, scan>>
      PROVE  WorkspaceOK'
  BY <1>2 DEF WorkspaceOK, Stored
<1>3. CASE SkipEntry
  BY <1>1, <1>2, <1>3, EntryTypes DEF SkipEntry, WorkspaceOK
<1>4. CASE OpenEntry
  <2>1. Stored(disk')
    <3> DEFINE p == Entry.path
    <3>1. p \in Nat
      BY <1>1, <1>4, EntryTypes DEF OpenEntry
    <3>2. disk' = [q \in DOMAIN disk \cup {p} |-> IF q = p THEN 0 ELSE disk[q]]
      BY <1>4 DEF OpenEntry
    <3> HIDE DEF p
    <3>. QED BY <1>1, <3>1, <3>2, SumOpened
  <2>. QED BY <1>1, <1>2, <1>4, <2>1 DEF OpenEntry, Goto, Stages, WorkspaceOK
<1>5. CASE WriteBlock
  <2>1. Stored(disk')
    <3>1. disk' = [disk EXCEPT ![Entry.path] = disk[Entry.path] + 1] /\ Entry.path \in DOMAIN disk
      BY <1>5 DEF WriteBlock, Counted
    <3>. QED BY <1>1, <3>1, SumWritten
  <2>. QED BY <1>1, <1>2, <1>5, <2>1 DEF WriteBlock, WorkspaceOK
<1>6. CASE RejectEntry
  <2>1. Entry.path \in DOMAIN disk /\ zip # <<>>
    BY <1>6 DEF RejectEntry, Counted
  <2>2. Stored(disk')
    BY <1>1, <1>6, <2>1, SumUnlinked DEF RejectEntry, Unlinked
  <2>. QED BY <1>1, <1>2, <1>6, <2>1, <2>2, EntryTypes DEF RejectEntry, Goto, Stages, WorkspaceOK
<1>7. CASE CloseEntry
  <2>1. zip # <<>>
    BY <1>7 DEF CloseEntry, Counted
  <2>. QED BY <1>1, <1>2, <1>7, <2>1, EntryTypes DEF CloseEntry, Goto, Stages, WorkspaceOK
<1>8. CASE ExtractEnds
  <2>1. /\ Stored(disk')
        /\ clone' = clone \/ clone' = "absent"
        /\ warned' = warned \/ warned' = TRUE
    <3>1. Removed(disk) \/ UNCHANGED <<disk, clone, warned>>
      BY <1>8 DEF ExtractEnds, Cleanup
    <3>. QED BY <1>1, <3>1, SumStored, RemovedTypes
  <2>2. walk' \in Seq(Files)
    <3>1. UNCHANGED walk \/ \E kinds \in [DOMAIN disk -> {"source", "binary"}] : walk' = Found(kinds)
      BY <1>8 DEF ExtractEnds
    <3>. QED BY <3>1, FoundFiles DEF WorkspaceOK
  <2>3. /\ pc' \in Stages /\ UNCHANGED <<thread, late, zip, sink, written, scan>>
    BY <1>8 DEF ExtractEnds, Goto, Stages
  <2>. QED BY <1>1, <1>2, <2>1, <2>2, <2>3
<1>. QED BY <1>3, <1>4, <1>5, <1>6, <1>7, <1>8

\* The result of a scan, field by field.
Result(f, b, l, n, t) == [files |-> f, bytes |-> b, large |-> l, binary |-> n, truncated |-> t]

\* One field of it replaced.
LEMMA ResultChanged ==
  ASSUME NEW r \in Scans, NEW v
  PROVE  /\ r = Result(r.files, r.bytes, r.large, r.binary, r.truncated)
         /\ [r EXCEPT !.files = v] = Result(v, r.bytes, r.large, r.binary, r.truncated)
         /\ [r EXCEPT !.bytes = v] = Result(r.files, v, r.large, r.binary, r.truncated)
         /\ [r EXCEPT !.large = v] = Result(r.files, r.bytes, v, r.binary, r.truncated)
         /\ [r EXCEPT !.binary = v] = Result(r.files, r.bytes, r.large, v, r.truncated)
         /\ [r EXCEPT !.truncated = v] = Result(r.files, r.bytes, r.large, r.binary, v)
  BY DEF Scans, Result

\* What a file does to the result of a scan, case by case.
LEMMA ScannedCases ==
  ASSUME scan \in Scans, NEW f \in Files, NEW s, s = Scanned(f)
  PROVE  /\ s \in Scans /\ (s.files = scan.files \/ s.files = Append(scan.files, f))
         /\ \/ f.kind = "other" /\ s = scan
            \/ /\ f.kind # "other" /\ f.size > MaxFileBytes
               /\ s = Result(scan.files, scan.bytes, scan.large + 1, scan.binary, scan.truncated)
            \/ /\ f.kind # "other" /\ f.size <= MaxFileBytes /\ NoRoomFor(f)
               /\ s = Result(scan.files, scan.bytes, scan.large, scan.binary, TRUE)
            \/ /\ f.kind = "binary" /\ f.size <= MaxFileBytes /\ ~NoRoomFor(f)
               /\ s = Result(scan.files, scan.bytes, scan.large, scan.binary + 1, scan.truncated)
            \/ f.kind = "blank" /\ f.size <= MaxFileBytes /\ ~NoRoomFor(f) /\ s = scan
            \/ /\ f.kind = "source" /\ f.size <= MaxFileBytes /\ ~NoRoomFor(f)
               /\ s = Result(Append(scan.files, f), scan.bytes + f.size, scan.large,
                             scan.binary, Len(scan.files) + 1 >= MaxFiles)
<1>1. /\ f.kind \in {"source", "binary", "blank", "other"} /\ f.size \in Nat
      /\ MaxFileBytes \in Nat
  BY InputTypes DEF Files
<1>2. /\ scan.files \in Seq(Files) /\ scan.bytes \in Nat /\ scan.large \in Nat
      /\ scan.binary \in Nat /\ scan.truncated \in BOOLEAN
  BY DEF Scans
<1> DEFINE full == Len(scan.files) + 1 >= MaxFiles
           larger == [scan EXCEPT !.large = @ + 1]
           more == [scan EXCEPT !.binary = @ + 1]
<1>3. full \in BOOLEAN
  BY <1>2, InputTypes
<1>4. Collected(f) = Result(Append(scan.files, f), scan.bytes + f.size, scan.large,
                            scan.binary, full)
  <2> DEFINE one == [scan EXCEPT !.files = Append(@, f)]
             two == [one EXCEPT !.bytes = one.bytes + f.size]
  <2>1. one = Result(Append(scan.files, f), scan.bytes, scan.large, scan.binary, scan.truncated)
    BY ResultChanged
  <2>2. Collected(f) = [two EXCEPT !.truncated = full]
    BY DEF Collected
  <2> HIDE DEF one, full
  <2>3. one \in Scans /\ one.files = Append(scan.files, f) /\ one.bytes = scan.bytes
        /\ one.large = scan.large /\ one.binary = scan.binary
    BY <1>2, <2>1 DEF Scans, Result
  <2>4. two = Result(one.files, one.bytes + f.size, one.large, one.binary, one.truncated)
    BY <2>3, ResultChanged
  <2> HIDE DEF two
  <2>5. /\ two \in Scans /\ two.files = one.files /\ two.bytes = one.bytes + f.size
        /\ two.large = one.large /\ two.binary = one.binary
    BY <1>1, <2>3, <2>4 DEF Scans, Result
  <2>6. [two EXCEPT !.truncated = full] = Result(two.files, two.bytes, two.large, two.binary, full)
    BY <2>5, ResultChanged
  <2>. QED BY <2>2, <2>3, <2>5, <2>6
<1>5. /\ larger = Result(scan.files, scan.bytes, scan.large + 1, scan.binary, scan.truncated)
      /\ more = Result(scan.files, scan.bytes, scan.large, scan.binary + 1, scan.truncated)
      /\ Truncated = Result(scan.files, scan.bytes, scan.large, scan.binary, TRUE)
  BY ResultChanged DEF Truncated
<1>6. Scanned(f) = IF f.kind = "other" THEN scan
                   ELSE IF f.size > MaxFileBytes THEN larger
                   ELSE IF NoRoomFor(f) THEN Truncated
                   ELSE CASE f.kind = "binary" -> more
                          [] f.kind = "blank" -> scan
                          [] f.kind = "source" -> Collected(f)
  BY DEF Scanned
<1>7. /\ Truncated \in Scans /\ larger \in Scans /\ more \in Scans /\ Collected(f) \in Scans
  <2> HIDE DEF larger, more, full
  <2>1. Append(scan.files, f) \in Seq(Files) /\ scan.bytes + f.size \in Nat
    BY <1>1, <1>2
  <2>. QED BY <1>2, <1>3, <1>4, <1>5, <2>1 DEF Scans, Result
<1> HIDE DEF larger, more
<1>8. \/ f.kind = "other" /\ Scanned(f) = scan
      \/ f.kind # "other" /\ f.size > MaxFileBytes /\ Scanned(f) = larger
      \/ f.kind # "other" /\ f.size <= MaxFileBytes /\ NoRoomFor(f) /\ Scanned(f) = Truncated
      \/ f.kind = "binary" /\ f.size <= MaxFileBytes /\ ~NoRoomFor(f) /\ Scanned(f) = more
      \/ f.kind = "blank" /\ f.size <= MaxFileBytes /\ ~NoRoomFor(f) /\ Scanned(f) = scan
      \/ f.kind = "source" /\ f.size <= MaxFileBytes /\ ~NoRoomFor(f) /\ Scanned(f) = Collected(f)
  BY <1>1, <1>6
<1>9. Scanned(f) \in Scans
  BY <1>7, <1>8
<1>10. Scanned(f).files = scan.files \/ Scanned(f).files = Append(scan.files, f)
  <2>1. /\ larger.files = scan.files /\ more.files = scan.files /\ Truncated.files = scan.files
        /\ Collected(f).files = Append(scan.files, f)
    BY <1>4, <1>5 DEF Result
  <2>. QED BY <1>8, <2>1
<1> HIDE DEF full
<1>. QED BY <1>4, <1>5, <1>8, <1>9, <1>10 DEF full

\* The scan.
LEMMA ScanTypes == ASSUME WorkspaceOK, UNCHANGED job, ScanFile PROVE WorkspaceOK'
<1>1. walk \in Seq(Files) /\ walk # <<>> /\ scan \in Scans
  BY DEF WorkspaceOK, ScanFile
<1>2. File \in Files /\ Tail(walk) \in Seq(Files)
  BY <1>1, HeadTailProperties DEF File
<1>3. Scanned(File) \in Scans
  BY <1>1, <1>2, ScannedCases
<1>. QED BY <1>2, <1>3 DEF WorkspaceOK, ScanFile

-----------------------------------------------------------------------------
(* What is on the disk, action by action.                                  *)

\* An empty disk is within the limits, whatever is counted.
LEMMA NothingCounted ==
  ASSUME disk' = NoFile, pc' \in {"done", "failed"}
  PROVE  Counted' /\ DiskWithinLimits'
  BY SumStored, InputTypes DEF Counted, DiskWithinLimits

\* Part of a disk within the limits is within them too.
LEMMA PartWithin ==
  ASSUME DiskWithinLimits, Stored(disk), NEW there, Stored(there), disk' = there,
         DOMAIN there \subseteq DOMAIN disk, \A p \in DOMAIN there : there[p] = disk[p],
         SumFunction(there) <= SumFunction(disk), pc' \in {"done", "failed"}
  PROVE  Counted' /\ DiskWithinLimits'
<1>1. SumFunction(there) \in Nat /\ SumFunction(disk) \in Nat
  BY SumStored
<1>2. SumFunction(there) <= MaxTotalBytes
  BY <1>1, InputTypes DEF DiskWithinLimits
<1>3. \A p \in DOMAIN there : there[p] <= MaxFileBytes
  BY DEF DiskWithinLimits
<1>4. SumFunction(disk') = SumFunction(there)
  OBVIOUS
<1>. QED BY <1>2, <1>3, <1>4 DEF Counted, DiskWithinLimits

\* The bounds of the disk, as they stand.
LEMMA DiskSums ==
  ASSUME WorkspaceOK
  PROVE  SumFunction(disk) \in Nat /\ sink \in Nat /\ written.bytes \in Nat /\ written.files \in Nat
  BY DiskStored, SumStored DEF WorkspaceOK

\* Actions that leave the disk and the counters alone.
LEMMA SameDisk ==
  ASSUME WInv, UNCHANGED <<disk, written>>,
         \/ pc' = pc /\ pc # "write"
         \/ pc' \in {"scan", "index", "file", "agents", "done", "failed"}
         \/ pc = "manifest" /\ pc' = "extract"
  PROVE  Counted' /\ DiskWithinLimits'
<1>1. DiskWithinLimits'
  BY DEF WInv, DiskWithinLimits
<1>2. SumFunction(disk') = SumFunction(disk)
  OBVIOUS
<1>. QED BY <1>1, <1>2 DEF WInv, Counted

\* An entry is opened.
LEMMA OpenCounted == ASSUME WInv, OpenEntry PROVE Counted' /\ DiskWithinLimits'
<1> DEFINE p == Entry.path
<1>1. /\ WorkspaceOK /\ Counted /\ DiskWithinLimits /\ pc = "extract" /\ pc' = "write"
      /\ zip # <<>> /\ UNCHANGED <<zip, written>> /\ sink' = 0 /\ p' = p
      /\ disk' = [q \in DOMAIN disk \cup {p} |-> IF q = p THEN 0 ELSE disk[q]]
  BY DEF WInv, OpenEntry, Goto, Entry
<1>2. p \in Nat
  BY <1>1, EntryTypes DEF WorkspaceOK
<1> HIDE DEF p
<1>3. DOMAIN disk' = DOMAIN disk \cup {p} /\ SumFunction(disk') <= SumFunction(disk) /\ Stored(disk')
  BY <1>1, <1>2, DiskStored, SumOpened
<1>4. SumFunction(disk) <= written.bytes /\ written.bytes <= MaxTotalBytes
  BY <1>1 DEF Counted
<1>5. SumFunction(disk) \in Nat /\ SumFunction(disk') \in Nat /\ written.bytes \in Nat
  BY <1>1, <1>3, DiskSums, SumStored
<1>6. \A q \in DOMAIN disk' : disk'[q] <= MaxFileBytes
  BY <1>1, InputTypes DEF DiskWithinLimits
<1>7. disk'[p] = 0 /\ p \in DOMAIN disk'
  BY <1>1
<1>8. Counted'
  BY <1>1, <1>3, <1>4, <1>5, <1>7, InputTypes DEF Counted, p
<1>. QED BY <1>3, <1>4, <1>5, <1>6, <1>8, InputTypes DEF DiskWithinLimits

\* A block is written.
LEMMA WriteCounted == ASSUME WInv, WriteBlock PROVE Counted' /\ DiskWithinLimits'
<1> DEFINE p == Entry.path
<1>1. /\ WorkspaceOK /\ Counted /\ DiskWithinLimits /\ pc = "write" /\ pc' = "write"
      /\ UNCHANGED <<zip, written>> /\ sink' = sink + 1 /\ p' = p
      /\ disk' = [disk EXCEPT ![p] = sink + 1]
      /\ ~(sink + 1 > MaxFileBytes) /\ ~(written.bytes + (sink + 1) > MaxTotalBytes)
  BY DEF WInv, WriteBlock, Entry, TooLongFile, TooLongInAll
<1>2. zip # <<>> /\ p \in DOMAIN disk /\ disk[p] = sink /\ SumFunction(disk) <= written.bytes + sink
  BY <1>1 DEF Counted
<1> HIDE DEF p
<1>3. /\ DOMAIN disk' = DOMAIN disk /\ disk'[p] = sink + 1
      /\ SumFunction(disk') = SumFunction(disk) + 1
  BY <1>1, <1>2, DiskStored, SumWritten
<1>4. SumFunction(disk) \in Nat /\ sink \in Nat /\ written.bytes \in Nat
  BY <1>1, DiskSums
<1>5. \A q \in DOMAIN disk' : disk'[q] <= MaxFileBytes
  BY <1>1, <1>3, <1>4, InputTypes DEF DiskWithinLimits
<1>6. Counted'
  BY <1>1, <1>2, <1>3, <1>4, InputTypes DEF Counted, p
<1>. QED BY <1>1, <1>2, <1>3, <1>4, <1>5, <1>6, InputTypes DEF DiskWithinLimits

\* An entry that is too long is removed.
LEMMA RejectCounted == ASSUME WInv, RejectEntry PROVE Counted' /\ DiskWithinLimits'
<1> DEFINE p == Entry.path
<1>1. /\ WorkspaceOK /\ Counted /\ DiskWithinLimits /\ pc = "write" /\ pc' = "extract"
      /\ UNCHANGED written /\ disk' = [q \in DOMAIN disk \ {p} |-> disk[q]]
  BY DEF WInv, RejectEntry, Goto, Unlinked
<1>2. /\ p \in DOMAIN disk /\ disk[p] = sink /\ SumFunction(disk) <= written.bytes + sink
      /\ written.bytes + sink <= MaxTotalBytes
  BY <1>1 DEF Counted
<1> HIDE DEF p
<1>3. Stored(disk') /\ DOMAIN disk' = DOMAIN disk \ {p} /\ SumFunction(disk) = SumFunction(disk') + disk[p]
  BY <1>1, <1>2, DiskStored, SumUnlinked
<1>4. SumFunction(disk') \in Nat /\ sink \in Nat /\ written.bytes \in Nat
  BY <1>1, <1>3, DiskSums, SumStored
<1>5. \A q \in DOMAIN disk' : disk'[q] <= MaxFileBytes
  BY <1>1, <1>3 DEF DiskWithinLimits
<1>6. SumFunction(disk') <= written.bytes /\ written.bytes <= MaxTotalBytes
  BY <1>2, <1>3, <1>4, InputTypes
<1>7. Counted'
  BY <1>1, <1>6 DEF Counted
<1>. QED BY <1>4, <1>5, <1>6, <1>7, InputTypes DEF DiskWithinLimits

\* An entry is complete.
LEMMA CloseCounted == ASSUME WInv, CloseEntry PROVE Counted' /\ DiskWithinLimits'
<1>1. /\ WorkspaceOK /\ Counted /\ DiskWithinLimits /\ pc = "write" /\ pc' = "extract"
      /\ UNCHANGED disk /\ written'.bytes = written.bytes + sink
  BY DEF WInv, CloseEntry, Goto
<1>2. SumFunction(disk) <= written.bytes + sink /\ written.bytes + sink <= MaxTotalBytes
  BY <1>1 DEF Counted
<1>3. Counted'
  BY <1>1, <1>2 DEF Counted
<1>. QED BY <1>1, <1>3 DEF DiskWithinLimits

-----------------------------------------------------------------------------
(* What the scan has seen, action by action.                               *)

\* One place more of a set of places.
LEMMA OnePlace ==
  ASSUME NEW T, NEW m \in Nat
  PROVE  /\ m + 1 \notin T => T \cap (1 .. m + 1) = T \cap (1 .. m)
         /\ m + 1 \in T =>
              /\ T \cap (1 .. m + 1) = (T \cap (1 .. m)) \cup {m + 1}
              /\ Cardinality(T \cap (1 .. m + 1)) = Cardinality(T \cap (1 .. m)) + 1
<1>1. 1 .. m + 1 = (1 .. m) \cup {m + 1} /\ m + 1 \notin 1 .. m
  OBVIOUS
<1>2. IsFiniteSet(T \cap (1 .. m))
  <2>1. IsFiniteSet(1 .. m)
    BY IntervalFinite
  <2>. QED BY <2>1, FS_Subset
<1>3. ASSUME m + 1 \in T
      PROVE  T \cap (1 .. m + 1) = (T \cap (1 .. m)) \cup {m + 1}
  BY <1>1, <1>3
<1>4. Cardinality((T \cap (1 .. m)) \cup {m + 1}) = Cardinality(T \cap (1 .. m)) + 1
  BY <1>1, <1>2, FS_AddElement
<1>5. m + 1 \notin T => T \cap (1 .. m + 1) = T \cap (1 .. m)
  BY <1>1
<1>. QED BY <1>3, <1>4, <1>5

\* The sizes of the files, with one more at the end.
LEMMA SumAppended ==
  ASSUME NEW s \in Seq(Files), NEW f \in Files
  PROVE  SumFunction([i \in DOMAIN Append(s, f) |-> Append(s, f)[i].size]) =
         SumFunction([i \in DOMAIN s |-> s[i].size]) + f.size
<1> DEFINE t == Append(s, f)
           D == DOMAIN s
           g == [i \in DOMAIN s |-> s[i].size]
           h == [i \in DOMAIN t |-> t[i].size]
           n == Len(s) + 1
<1>0. Len(s) \in Nat /\ D = 1 .. Len(s) /\ n \in Nat /\ n \notin D /\ 1 .. n = D \cup {n}
  OBVIOUS
<1>a. Len(t) = n /\ t \in Seq(Files) /\ t[n] = f /\ \A i \in D : t[i] = s[i]
  BY AppendProperties
<1>1. /\ D = 1 .. Len(s) /\ Len(s) \in Nat /\ n \in Nat /\ DOMAIN t = D \cup {n} /\ n \notin D
      /\ t[n] = f /\ \A i \in D : t[i] = s[i] /\ s[i] \in Files
  BY <1>0, <1>a
<1>2. f.size \in Nat /\ \A i \in D : s[i].size \in Nat
  BY <1>1 DEF Files
<1>3. /\ DOMAIN g = D /\ DOMAIN h = D \cup {n} /\ h[n] = f.size
      /\ \A i \in D : g[i] \in Nat /\ h[i] = g[i]
  BY <1>1, <1>2
<1>4. IsFiniteSet(D) /\ IsFiniteSet(D \cup {n})
  <2>1. IsFiniteSet(1 .. Len(s)) /\ IsFiniteSet(1 .. n)
    BY <1>0, IntervalFinite
  <2>. QED BY <1>0, <2>1
<1> DEFINE E == D \cup {n}
<1>5. IsFiniteSet(E) /\ n \in E /\ E \ {n} = D /\ \A i \in E : h[i] \in Nat
  BY <1>1, <1>2, <1>3, <1>4
<1> HIDE DEF g, h, D, t, E, n
<1>6. SumFunctionOnSet(h, E) = h[n] + SumFunctionOnSet(h, D)
  <2>1. SumFunctionOnSet(h, E) = h[n] + SumFunctionOnSet(h, E \ {n})
    BY <1>5, SumTakeOut
  <2>. QED BY <1>5, <2>1
<1>7. SumFunctionOnSet(h, D) = SumFunctionOnSet(g, D) /\ SumFunctionOnSet(g, D) \in Nat
  BY <1>3, <1>4, SumSame, SumNat
<1>8. SumFunction(h) = SumFunctionOnSet(h, E) /\ SumFunction(g) = SumFunctionOnSet(g, D)
  BY <1>3 DEF SumFunction, E
<1>9. SumFunction(h) = SumFunction(g) + f.size
  BY <1>2, <1>3, <1>6, <1>7, <1>8
<1>. QED BY <1>9 DEF g, h, t

\* Actions that leave the walk and its result alone.
LEMMA InScanSame ==
  ASSUME InScan, UNCHANGED <<job, walk, scan>>,
         \/ pc' = pc
         \/ pc' \in {"file", "agents", "done", "failed"}
         \/ pc = "clone" /\ pc' = "scan"
         \/ pc = "scan" /\ pc' = "index" /\ (walk = <<>> \/ scan.truncated)
         \/ {pc, pc'} \subseteq {"manifest", "extract", "write"}
  PROVE  InScan'
<1>1. \A m : SeenTo(m)' <=> SeenTo(m)
  BY DEF SeenTo, Small, Large
<1>2. job' = job /\ scan' = scan /\ walk' = walk
  OBVIOUS
<1>3. pc' \in {"manifest", "extract", "write"} => job'.type = "archive"
  BY <1>2 DEF InScan
<1>4. ASSUME job'.type = "repository", pc' \in {"clone", "scan", "index"}
      PROVE  pc \in {"clone", "scan", "index"} /\ (pc' = "index" => walk = <<>> \/ scan.truncated)
  BY <1>2, <1>4 DEF InScan
<1>. QED BY <1>1, <1>2, <1>3, <1>4 DEF InScan

\* A file is scanned.
LEMMA ScanSeen == ASSUME WInv, ScanFile PROVE job' = job => InScan'
<1>1. /\ pc = "scan" /\ pc' = "scan" /\ walk # <<>> /\ ~scan.truncated
      /\ scan' = Scanned(File) /\ walk' = Tail(walk) /\ scan \in Scans /\ job \in Jobs
  BY DEF ScanFile, WInv, WorkspaceOK
<1>2. SUFFICES ASSUME job' = job, job.type = "repository" PROVE InScan'
  BY <1>1 DEF InScan
<1>3. /\ Len(scan.files) <= MaxFiles /\ scan.bytes <= MaxTotalBytes
      /\ scan.bytes = SumFunction([i \in DOMAIN scan.files |-> scan.files[i].size])
  BY <1>1, <1>2 DEF WInv, InScan
<1>4. PICK m \in 0 .. Len(job.walk) : SeenTo(m)
  BY <1>1, <1>2 DEF WInv, InScan
<1> DEFINE W == job.walk
           n == m + 1
           f == job.walk[m + 1]
           S == Small("source")
           B == Small("binary")
<1>5. /\ W \in Seq(Files) /\ Len(W) \in Nat /\ DOMAIN W = 1 .. Len(W) /\ m \in Nat
  BY <1>1, <1>4, InputTypes
<1>6. /\ scan.files = At(W, S \cap (1 .. m)) /\ walk = SubSeq(W, n, Len(W))
      /\ scan.large = Cardinality(Large \cap (1 .. m))
      /\ scan.binary = Cardinality(B \cap (1 .. m)) /\ Len(scan.files) < MaxFiles
  BY <1>1, <1>4 DEF SeenTo
<1>7. n \in DOMAIN W /\ n \in 0 .. Len(W) /\ File = f /\ walk' = SubSeq(W, n + 1, Len(W))
  <2>1. m < Len(W)
    BY <1>1, <1>4, <1>5, <1>6
  <2>2. n \in 1 .. Len(W)
    BY <1>5, <2>1
  <2>3. walk[1] = W[n] /\ Tail(walk) = SubSeq(W, n + 1, Len(W))
    BY <1>5, <1>6, <2>2
  <2>. QED BY <1>1, <1>5, <2>2, <2>3 DEF File
<1>8. f \in Files /\ f.size \in Nat /\ scan.files \in Seq(Files) /\ scan.bytes \in Nat
  <2>1. f \in Files
    BY <1>5, <1>7, ElementOfSeq
  <2> HIDE DEF f
  <2>. QED BY <1>1, <2>1 DEF Scans, Files
<1>9. /\ (n \in S <=> f.kind = "source" /\ f.size <= MaxFileBytes)
      /\ (n \in B <=> f.kind = "binary" /\ f.size <= MaxFileBytes)
      /\ (n \in Large <=> f.kind # "other" /\ f.size > MaxFileBytes)
  BY <1>7 DEF Small, Large
<1>10. S' = S /\ B' = B /\ Large' = Large /\ job'.walk = W
  BY <1>2 DEF Small, Large
<1>11. /\ n \notin S => S \cap (1 .. n) = S \cap (1 .. m)
       /\ n \notin B => B \cap (1 .. n) = B \cap (1 .. m)
       /\ n \notin Large => Large \cap (1 .. n) = Large \cap (1 .. m)
       /\ n \in B => Cardinality(B \cap (1 .. n)) = Cardinality(B \cap (1 .. m)) + 1
       /\ n \in Large => Cardinality(Large \cap (1 .. n)) = Cardinality(Large \cap (1 .. m)) + 1
  BY <1>5, OnePlace
<1>12. n \in S => At(W, S \cap (1 .. n)) = Append(scan.files, f)
  <2>1. ASSUME n \in S PROVE S \cap (1 .. n) = (S \cap (1 .. m)) \cup {n}
    BY <1>5, <2>1, OnePlace
  <2> DEFINE P == S \cap (1 .. m)
  <2>2. P \in SUBSET (DOMAIN W) /\ \A p \in P : p < n
    BY <1>5, <1>7
  <2> HIDE DEF P, n
  <2>3. At(W, P \cup {n}) = Append(At(W, P), W[n])
    BY <1>5, <1>7, <2>2, AtNext
  <2>. QED BY <1>6, <2>1, <2>3 DEF P, n
<1>13. MaxFileBytes \in Nat /\ MaxTotalBytes \in Nat /\ MaxFiles \in Nat
  BY InputTypes
<1> DEFINE summed == scan'.bytes = SumFunction([i \in DOMAIN scan'.files |-> scan'.files[i].size])
<1> HIDE DEF S, B, W, f
<1> DEFINE Seen(k) ==
             /\ Len(scan'.files) <= MaxFiles /\ scan'.bytes <= MaxTotalBytes /\ summed
             /\ scan'.files = At(W, S \cap (1 .. k))
             /\ ~scan'.truncated =>
                   /\ walk' = SubSeq(W, k + 1, Len(W))
                   /\ scan'.large = Cardinality(Large \cap (1 .. k))
                   /\ scan'.binary = Cardinality(B \cap (1 .. k))
                   /\ Len(scan'.files) < MaxFiles
<1>14. ASSUME NEW k \in 0 .. Len(W), Seen(k) PROVE InScan'
  <2>1. SeenTo(k)'
    BY <1>10, <1>14 DEF SeenTo, S, B
  <2>2. k \in 0 .. Len(job'.walk)
    BY <1>10
  <2>. QED BY <1>1, <1>14, <2>1, <2>2 DEF InScan
<1> HIDE DEF summed
<1>15. CASE \/ f.kind = "other" /\ scan' = scan
            \/ f.kind = "blank" /\ f.size <= MaxFileBytes /\ scan' = scan
  <2>1. n \notin S /\ n \notin B /\ n \notin Large
    BY <1>8, <1>9, <1>13, <1>15
  <2>. QED BY <1>3, <1>6, <1>7, <1>11, <1>14, <1>15, <2>1 DEF summed
<1>16. CASE f.kind # "other" /\ f.size > MaxFileBytes
            /\ scan' = Result(scan.files, scan.bytes, scan.large + 1, scan.binary, scan.truncated)
  <2>1. n \notin S /\ n \notin B /\ n \in Large
    BY <1>8, <1>9, <1>13, <1>16
  <2>2. /\ scan'.files = scan.files /\ scan'.bytes = scan.bytes /\ scan'.large = scan.large + 1
        /\ scan'.binary = scan.binary /\ scan'.truncated = scan.truncated
    BY <1>16 DEF Result
  <2>. QED BY <1>3, <1>6, <1>7, <1>11, <1>14, <2>1, <2>2 DEF summed
<1>17. CASE scan' = Result(scan.files, scan.bytes, scan.large, scan.binary, TRUE)
  <2>1. scan'.files = scan.files /\ scan'.bytes = scan.bytes /\ scan'.truncated = TRUE
    BY <1>17 DEF Result
  <2>2. m \in 0 .. Len(W)
    BY <1>4 DEF W
  <2>. QED BY <1>3, <1>6, <1>14, <2>1, <2>2 DEF summed
<1>18. CASE f.kind = "binary" /\ f.size <= MaxFileBytes
            /\ scan' = Result(scan.files, scan.bytes, scan.large, scan.binary + 1, scan.truncated)
  <2>1. n \notin S /\ n \in B /\ n \notin Large
    BY <1>8, <1>9, <1>13, <1>18
  <2>2. /\ scan'.files = scan.files /\ scan'.bytes = scan.bytes /\ scan'.large = scan.large
        /\ scan'.binary = scan.binary + 1 /\ scan'.truncated = scan.truncated
    BY <1>18 DEF Result
  <2>. QED BY <1>3, <1>6, <1>7, <1>11, <1>14, <2>1, <2>2 DEF summed
<1>19. CASE /\ f.kind = "source" /\ f.size <= MaxFileBytes /\ ~NoRoomFor(f)
            /\ scan' = Result(Append(scan.files, f), scan.bytes + f.size, scan.large,
                              scan.binary, Len(scan.files) + 1 >= MaxFiles)
  <2>1. n \in S /\ n \notin B /\ n \notin Large
    BY <1>8, <1>9, <1>13, <1>19
  <2>2. /\ scan'.files = Append(scan.files, f) /\ scan'.bytes = scan.bytes + f.size
        /\ scan'.large = scan.large /\ scan'.binary = scan.binary
        /\ ~scan'.truncated => ~(Len(scan.files) + 1 >= MaxFiles)
    BY <1>19 DEF Result
  <2>3. scan'.bytes <= MaxTotalBytes
    BY <1>8, <1>13, <1>19, <2>2 DEF NoRoomFor
  <2>4. summed
    BY <1>3, <1>8, <2>2, SumAppended DEF summed
  <2>5. Len(scan'.files) = Len(scan.files) + 1 /\ Len(scan.files) \in Nat
    BY <1>8, <2>2
  <2>6. scan'.files = At(W, S \cap (1 .. n))
    BY <1>12, <2>1, <2>2
  <2>7. Len(scan'.files) <= MaxFiles /\ (~scan'.truncated => Len(scan'.files) < MaxFiles)
    BY <1>6, <1>13, <2>2, <2>5
  <2>8. /\ scan'.large = Cardinality(Large \cap (1 .. n))
        /\ scan'.binary = Cardinality(B \cap (1 .. n))
    BY <1>6, <1>11, <2>1, <2>2
  <2>9. n \in 0 .. Len(W) /\ walk' = SubSeq(W, n + 1, Len(W))
    BY <1>7
  <2> HIDE DEF n
  <2>10. Seen(n)
    BY <2>3, <2>4, <2>6, <2>7, <2>8, <2>9
  <2> HIDE DEF Seen
  <2>. QED BY <1>14, <2>9, <2>10
<1> HIDE DEF n, Seen
<1>20. scan' = Scanned(f)
  BY <1>1, <1>7
<1>21. \/ f.kind = "other" /\ scan' = scan
       \/ f.kind = "blank" /\ f.size <= MaxFileBytes /\ scan' = scan
       \/ f.kind # "other" /\ f.size > MaxFileBytes
          /\ scan' = Result(scan.files, scan.bytes, scan.large + 1, scan.binary, scan.truncated)
       \/ scan' = Result(scan.files, scan.bytes, scan.large, scan.binary, TRUE)
       \/ f.kind = "binary" /\ f.size <= MaxFileBytes
          /\ scan' = Result(scan.files, scan.bytes, scan.large, scan.binary + 1, scan.truncated)
       \/ /\ f.kind = "source" /\ f.size <= MaxFileBytes /\ ~NoRoomFor(f)
          /\ scan' = Result(Append(scan.files, f), scan.bytes + f.size, scan.large,
                            scan.binary, Len(scan.files) + 1 >= MaxFiles)
  BY <1>1, <1>8, <1>20, ScannedCases
<1>. QED BY <1>15, <1>16, <1>17, <1>18, <1>19, <1>21

-----------------------------------------------------------------------------
(* Every step keeps the invariant.                                         *)

\* Who still runs, and what is left when a job is over.
LEMMA FetchFreed ==
  ASSUME WInv, Fetch PROVE Watched' /\ WorkspaceFreed'
<1> USE DEF WInv, Watched, WorkspaceFreed, Goto, workspace, Cleanup, Removed, WorkspaceOK
<1>1. CASE StartClone
  BY <1>1 DEF StartClone
<1>2. CASE GitWrites
  BY <1>2 DEF GitWrites
<1>3. CASE GitEnds
  BY <1>3 DEF GitEnds
<1>4. CASE CloneReturns \/ CloneFails \/ CloneTimesOut
  BY <1>4 DEF CloneReturns, CloneFails, CloneTimesOut
<1>5. CASE ManifestRefused \/ ManifestAccepted \/ SkipEntry \/ OpenEntry \/ ArchiveFails
  BY <1>5 DEF ManifestRefused, ManifestAccepted, SkipEntry, OpenEntry, ArchiveFails
<1>6. CASE WriteBlock \/ RejectEntry \/ RejectArchive \/ CloseEntry
  BY <1>6 DEF WriteBlock, RejectEntry, RejectArchive, CloseEntry
<1>7. CASE ExtractEnds \/ ScanFile \/ ScanEnds
  BY <1>7 DEF ExtractEnds, ScanFile, ScanEnds
<1>. QED BY <1>1, <1>2, <1>3, <1>4, <1>5, <1>6, <1>7 DEF Fetch

\* What is on the disk.
LEMMA FetchCounted == ASSUME WInv, Fetch PROVE Counted' /\ DiskWithinLimits'
<1>1. CASE \/ StartClone \/ GitWrites \/ GitEnds \/ CloneReturns \/ ManifestAccepted
           \/ SkipEntry \/ ScanFile
  <2>1. /\ UNCHANGED <<disk, written>> /\ pc # "write"
        /\ pc' = pc \/ pc' = "scan" \/ (pc = "manifest" /\ pc' = "extract")
    <3> USE DEF workspace, Goto
    <3>1. CASE StartClone \/ CloneReturns \/ ManifestAccepted
      BY <3>1 DEF StartClone, CloneReturns, ManifestAccepted
    <3>2. CASE SkipEntry \/ ScanFile
      BY <3>2 DEF SkipEntry, ScanFile
    <3>3. CASE GitWrites \/ GitEnds
      <4>1. pc # "write"
        BY <3>3 DEF GitWrites, GitEnds, WInv, Watched
      <4>. QED BY <3>3, <4>1 DEF GitWrites, GitEnds
    <3>. QED BY <1>1, <3>1, <3>2, <3>3
  <2>. QED BY <2>1, SameDisk
<1>2. CASE CloneFails \/ CloneTimesOut \/ ManifestRefused \/ ArchiveFails
  <2>1. pc' = "failed" /\ UNCHANGED written /\ (disk' = NoFile \/ disk' = disk)
    BY <1>2, RemovedTypes
       DEF CloneFails, CloneTimesOut, ManifestRefused, ArchiveFails, Cleanup, Goto
  <2>. QED BY <2>1, NothingCounted, SameDisk
<1>5. CASE RejectArchive
  <2>1. pc' = "failed" /\ (disk' = NoFile \/ disk' = Unlinked)
    BY <1>5, RemovedTypes DEF RejectArchive, Goto
  <2>2. /\ Stored(Unlinked) /\ DOMAIN Unlinked \subseteq DOMAIN disk
        /\ \A p \in DOMAIN Unlinked : Unlinked[p] = disk[p]
        /\ SumFunction(Unlinked) <= SumFunction(disk)
    BY <1>5, BrokenOff DEF WInv
  <2> DEFINE there == Unlinked
  <2> HIDE DEF there
  <2>3. Stored(disk) /\ DiskWithinLimits
    BY DiskStored DEF WInv
  <2>. QED BY <2>1, <2>2, <2>3, NothingCounted, PartWithin DEF there
<1>3. CASE OpenEntry \/ WriteBlock \/ RejectEntry \/ CloseEntry
  BY <1>3, OpenCounted, WriteCounted, RejectCounted, CloseCounted
<1>4. CASE ExtractEnds \/ ScanEnds
  <2>1. CASE disk' = NoFile /\ pc' = "failed"
    BY <2>1, NothingCounted
  <2>2. CASE UNCHANGED <<disk, written>> /\ pc' \in {"scan", "index", "failed"}
    BY <2>2, SameDisk
  <2>. QED BY <1>4, <2>1, <2>2, RemovedTypes DEF ExtractEnds, ScanEnds, Goto, Cleanup
<1>. QED BY <1>1, <1>2, <1>3, <1>4, <1>5 DEF Fetch

\* What the scan has seen.
LEMMA FetchSeen == ASSUME WInv, Fetch PROVE InScan'
<1>1. job' = job /\ InScan /\ job \in Jobs /\ job.type \in {"archive", "repository"}
  BY InputTypes DEF Fetch, WInv, WorkspaceOK
<1>2. CASE \/ StartClone \/ GitWrites \/ GitEnds \/ CloneReturns \/ CloneFails \/ CloneTimesOut
           \/ ManifestRefused \/ ManifestAccepted \/ SkipEntry \/ OpenEntry \/ WriteBlock
           \/ RejectEntry \/ RejectArchive \/ ArchiveFails \/ CloseEntry
  <2>1. /\ UNCHANGED <<walk, scan>>
        /\ \/ pc' = pc
           \/ pc' = "failed"
           \/ pc = "clone" /\ pc' = "scan"
           \/ {pc, pc'} \subseteq {"manifest", "extract", "write"}
    <3> USE DEF workspace, Goto
    <3>1. CASE StartClone \/ GitWrites \/ GitEnds
      BY <3>1 DEF StartClone, GitWrites, GitEnds
    <3>2. CASE CloneReturns \/ CloneFails \/ CloneTimesOut \/ ManifestRefused \/ RejectArchive
      BY <3>2 DEF CloneReturns, CloneFails, CloneTimesOut, ManifestRefused, RejectArchive
    <3>3. CASE ManifestAccepted \/ SkipEntry \/ OpenEntry \/ WriteBlock
      BY <3>3 DEF ManifestAccepted, SkipEntry, OpenEntry, WriteBlock
    <3>4. CASE RejectEntry \/ CloseEntry \/ ArchiveFails
      BY <3>4 DEF RejectEntry, CloseEntry, ArchiveFails
    <3>. QED BY <1>2, <3>1, <3>2, <3>3, <3>4
  <2>. QED BY <1>1, <2>1, InScanSame
<1>3. CASE ExtractEnds
  <2>1. pc = "extract" /\ pc' \in {"scan", "failed"}
    BY <1>3 DEF ExtractEnds, Goto
  <2>2. job'.type = "archive"
    BY <1>1, <2>1 DEF InScan
  <2>. QED BY <2>1, <2>2 DEF InScan
<1>4. CASE ScanFile
  BY <1>1, <1>4, ScanSeen
<1>5. CASE ScanEnds
  <2>1. /\ UNCHANGED <<walk, scan>> /\ pc = "scan" /\ (walk = <<>> \/ scan.truncated)
        /\ pc' \in {"failed", "index"}
    BY <1>5 DEF ScanEnds, Goto
  <2>. QED BY <1>1, <2>1, InScanSame
<1>. QED BY <1>2, <1>3, <1>4, <1>5 DEF Fetch

\* The workspace is fetched.
LEMMA FetchInv == ASSUME WInv, Fetch PROVE WInv'
<1>1. WorkspaceOK'
  BY CloneTypes, ExtractTypes, ScanTypes DEF Fetch, WInv
<1>. QED BY <1>1, FetchFreed, FetchCounted, FetchSeen DEF WInv

\* The files are documented: nothing of the workspace changes but its end.
LEMMA AnalysisInv ==
  ASSUME WInv, BuildIndex \/ Prompt \/ SkipFile \/ Documented \/ Abandon \/ Finish
  PROVE  WInv'
<1>1. CASE BuildIndex \/ Prompt \/ SkipFile \/ Documented
  <2>1. /\ UNCHANGED <<workspace, job>>
        /\ pc \in {"index", "file", "agents"} /\ pc' \in {"file", "agents"}
    BY <1>1 DEF BuildIndex, Prompt, SkipFile, Documented, Goto
  <2>2. UNCHANGED <<thread, clone, late, warned, disk, zip, sink, written, walk, scan>>
    BY <2>1 DEF workspace
  <2>3. WorkspaceOK' /\ Watched' /\ WorkspaceFreed'
    BY <2>1, <2>2 DEF WInv, WorkspaceOK, Watched, WorkspaceFreed, Stages
  <2>4. Counted' /\ DiskWithinLimits'
    BY <2>1, <2>2, SameDisk
  <2>5. InScan'
    BY <2>1, <2>2, InScanSame DEF WInv
  <2>. QED BY <2>3, <2>4, <2>5 DEF WInv
<1>2. CASE Abandon \/ Finish
  <2>1. /\ UNCHANGED <<thread, late, zip, sink, written, walk, scan, job>>
        /\ pc \in {"file", "agents"} /\ pc' = "done" /\ Removed(disk)
    BY <1>2 DEF Abandon, Finish, Goto, Cleanup
  <2>6. /\ disk' = NoFile \/ disk' = disk
        /\ clone' = "absent" \/ clone' = clone
        /\ warned' = warned \/ warned' = TRUE
        /\ warned' = TRUE \/ (disk' = NoFile /\ clone' = "absent")
    BY <2>1, RemovedTypes
  <2>2. WorkspaceOK'
    <3>1. Stored(disk')
      BY <2>6, SumStored, DiskStored DEF WInv
    <3>. QED BY <2>1, <2>6, <3>1 DEF WInv, WorkspaceOK, Stages, Stored
  <2>3. Watched' /\ WorkspaceFreed'
    BY <2>1, <2>6 DEF WInv, Watched, WorkspaceFreed
  <2>4. Counted' /\ DiskWithinLimits'
    BY <2>1, <2>6, NothingCounted, SameDisk
  <2>5. InScan'
    BY <2>1, InScanSame DEF WInv
  <2>. QED BY <2>2, <2>3, <2>4, <2>5 DEF WInv
<1>. QED BY <1>1, <1>2

\* Nothing happens.
LEMMA StutterInv == ASSUME WInv, UNCHANGED vars PROVE WInv'
<1>1. /\ UNCHANGED <<pc, thread, clone, late, warned, disk, zip, sink, written, walk, scan, job>>
  BY DEF vars, workspace
<1>2. WorkspaceOK' /\ Watched' /\ WorkspaceFreed'
  BY <1>1 DEF WInv, WorkspaceOK, Watched, WorkspaceFreed
<1>3. Counted' /\ DiskWithinLimits'
  BY <1>1 DEF WInv, Counted, DiskWithinLimits, Entry
<1>4. InScan'
  BY <1>1, InScanSame DEF WInv
<1>. QED BY <1>2, <1>3, <1>4 DEF WInv

\* Every step keeps the invariant.
LEMMA WInductive == WInv /\ [Next]_vars => WInv'
<1> SUFFICES ASSUME WInv, [Next]_vars PROVE WInv'
  OBVIOUS
<1>. QED BY FetchInv, AnalysisInv, StutterInv DEF Next, Idle

\* What holds in every state of Workspace and RepositoryAnalysis.
THEOREM WorkspaceInvariant == Spec => []WInv
<1>. QED BY InitWInv, WInductive, PTL DEF Spec

\* safe_extract: whatever an archive declares and however often a name comes in
\* it, no file on the disk and no extraction exceeds its limit.
THEOREM DiskStaysWithinLimits == Spec => []DiskWithinLimits
<1>1. WInv => DiskWithinLimits
  BY DEF WInv
<1>. QED BY <1>1, WorkspaceInvariant, PTL

\* cleanup_directory: however a job ends, an exception of the archive included,
\* nothing of it is left on the disk, unless a warning said so or git outlived
\* its timeout.
THEOREM WorkspaceAlwaysFreed == Spec => []WorkspaceFreed
<1>1. WInv => WorkspaceFreed
  BY DEF WInv
<1>. QED BY <1>1, WorkspaceInvariant, PTL

\* scan(): a repository of any size is scanned to its end, or the result says
\* that it was not.
THEOREM ScanAlwaysTells == Spec => []ScanTellsWhatItLeft
<1>1. ASSUME WInv PROVE ScanTellsWhatItLeft
  <2>1. SUFFICES ASSUME pc = "index", job.type = "repository"
                 PROVE  /\ Len(scan.files) <= MaxFiles
                        /\ SumFunction([i \in DOMAIN scan.files |-> scan.files[i].size])
                              <= MaxTotalBytes
                        /\ IsPrefix(scan.files, At(job.walk, Small("source")))
                        /\ ~scan.truncated =>
                              /\ scan.files = At(job.walk, Small("source"))
                              /\ scan.large = Cardinality(Large)
                              /\ scan.binary = Cardinality(Small("binary"))
    BY DEF ScanTellsWhatItLeft
  <2>2. /\ Len(scan.files) <= MaxFiles /\ scan.bytes <= MaxTotalBytes
        /\ scan.bytes = SumFunction([i \in DOMAIN scan.files |-> scan.files[i].size])
        /\ (walk = <<>> \/ scan.truncated) /\ job \in Jobs
    BY <1>1, <2>1 DEF WInv, WorkspaceOK, InScan
  <2>3. PICK m \in 0 .. Len(job.walk) : SeenTo(m)
    BY <1>1, <2>1 DEF WInv, InScan
  <2> DEFINE W == job.walk
             S == Small("source")
             first == S \cap (1 .. m)
  <2>4. W \in Seq(Files) /\ DOMAIN W = 1 .. Len(W) /\ Len(W) \in Nat
    BY <2>2, InputTypes
  <2>5. S \in SUBSET (DOMAIN W) /\ Small("binary") \subseteq DOMAIN W /\ Large \subseteq DOMAIN W
    BY DEF Small, Large
  <2>6. scan.files = At(W, first)
    BY <2>3 DEF SeenTo
  <2>7. IsPrefix(scan.files, At(W, S))
    <3>1. first \in SUBSET S /\ \A p \in first, q \in S \ first : p < q
      BY <2>3, <2>4, <2>5
    <3> HIDE DEF W, S, first
    <3>. QED BY <2>4, <2>5, <2>6, <3>1, AtPrefix
  <2>8. ASSUME ~scan.truncated
        PROVE  scan.files = At(W, S) /\ scan.large = Cardinality(Large)
               /\ scan.binary = Cardinality(Small("binary"))
    <3>1. SubSeq(W, m + 1, Len(W)) = <<>>
      BY <2>2, <2>3, <2>8 DEF SeenTo
    <3>2. m = Len(W)
      <4>0. Len(<<>>) = 0
        OBVIOUS
      <4>1. Len(SubSeq(W, m + 1, Len(W))) = 0
        <5> DEFINE rest == SubSeq(W, m + 1, Len(W))
        <5>1. rest = <<>>
          BY <3>1
        <5> HIDE DEF rest
        <5>2. Len(rest) = 0
          BY <4>0, <5>1
        <5>. QED BY <5>2 DEF rest
      <4>2. m + 1 <= Len(W) => Len(SubSeq(W, m + 1, Len(W))) = Len(W) - m
        BY <2>3, <2>4
      <4>. QED BY <2>3, <2>4, <4>1, <4>2
    <3>3. /\ first = S /\ Large \cap (1 .. m) = Large
          /\ Small("binary") \cap (1 .. m) = Small("binary")
      BY <2>4, <2>5, <3>2
    <3>. QED BY <2>3, <2>6, <2>8, <3>3 DEF SeenTo
  <2>. QED BY <2>2, <2>7, <2>8
<1>. QED BY <1>1, WorkspaceInvariant, PTL

-----------------------------------------------------------------------------
(* The walk of a syntax tree: what Symbols finds, said without recursion.  *)

Symbol == [name : STRING, kind : {"function", "container", "other"}, parent : Seq(STRING),
           chars : Nat, calls : SUBSET STRING, at : Nat]

\* The nodes below node i, and those above node j that are below node i.
Inside(nodes, i) ==
    {j \in i + 1 .. Len(nodes) : \A k \in i + 1 .. j : nodes[k].depth > Depth(nodes, i)}
Between(nodes, i, j) == {a \in Above(nodes, j) : a > i}

\* The symbols below node i, and the named classes around one of them.
Seen(nodes, i) ==
    {j \in Inside(nodes, i) :
        /\ nodes[j].name # Unnamed /\ nodes[j].kind \in {"function", "container"}
        /\ \A a \in Between(nodes, i, j) : nodes[a].kind # "function"}
Around(nodes, i, j) ==
    {a \in Between(nodes, i, j) : nodes[a].kind = "container" /\ nodes[a].name # Unnamed}
NamesOf(nodes) == [k \in DOMAIN nodes |-> nodes[k].name]
Classes(nodes, i, j) == At(NamesOf(nodes), Around(nodes, i, j))

SymbolsFrom(nodes, i, parent) ==
    [j \in DOMAIN nodes |->
        [name |-> nodes[j].name, kind |-> nodes[j].kind,
         parent |-> parent \o Classes(nodes, i, j),
         chars |-> nodes[j].chars, calls |-> nodes[j].calls, at |-> j]]

\* What a tree is made of.
LEMMA TreeTypes ==
  ASSUME NEW nodes \in Tree
  PROVE  /\ nodes \in Seq(Node) /\ Len(nodes) \in Nat /\ DOMAIN nodes = 1 .. Len(nodes)
         /\ \A j \in 1 .. Len(nodes) :
              /\ nodes[j] \in Node /\ nodes[j].depth \in Nat /\ nodes[j].depth > 0
              /\ nodes[j].name \in STRING /\ nodes[j].chars \in Nat
              /\ nodes[j].kind \in {"function", "container", "other"}
              /\ nodes[j].calls \in SUBSET STRING
              /\ j > 1 => nodes[j].depth <= nodes[j - 1].depth + 1
              /\ j = 1 => nodes[j].depth = 1
         /\ \A i \in 0 .. Len(nodes) : Depth(nodes, i) \in Nat
<1>1. nodes \in Seq(Node) /\ Len(nodes) \in Nat /\ DOMAIN nodes = 1 .. Len(nodes)
  BY LenProperties DEF Tree
<1>2. \A j \in 1 .. Len(nodes) : nodes[j] \in Node
  BY <1>1, ElementOfSeq
<1>3. \A j \in 1 .. Len(nodes) :
        /\ nodes[j].depth \in Nat /\ nodes[j].name \in STRING /\ nodes[j].chars \in Nat
        /\ nodes[j].kind \in {"function", "container", "other"}
        /\ nodes[j].calls \in SUBSET STRING
  BY <1>2 DEF Node
<1>4. ASSUME NEW j \in 1 .. Len(nodes)
      PROVE  /\ nodes[j].depth > 0 /\ (j > 1 => nodes[j].depth <= nodes[j - 1].depth + 1)
             /\ (j = 1 => nodes[j].depth = 1)
  <2>1. nodes[j].depth \in 1 .. IF j = 1 THEN 1 ELSE nodes[j - 1].depth + 1
    BY <1>1 DEF Tree
  <2>2. CASE j = 1
    BY <2>1, <2>2
  <2>3. CASE j # 1
    <3>1. j - 1 \in 1 .. Len(nodes) /\ nodes[j].depth \in 1 .. nodes[j - 1].depth + 1
      BY <1>1, <2>1, <2>3
    <3>. QED BY <1>3, <2>3, <3>1
  <2>. QED BY <2>2, <2>3
<1>5. \A i \in 0 .. Len(nodes) : Depth(nodes, i) \in Nat
  BY <1>1, <1>3 DEF Depth
<1>. QED BY <1>1, <1>2, <1>3, <1>4, <1>5

\* A child, and what is below a child, is below the node; nothing but the child
\* lies between; and one child's nodes come before the next child.
LEMMA ChildInside ==
  ASSUME NEW nodes \in Tree, NEW i \in 0 .. Len(nodes), NEW c \in Children(nodes, i)
  PROVE  /\ c \in i + 1 .. Len(nodes) /\ c \in Inside(nodes, i)
         /\ Between(nodes, i, c) = {}
         /\ \A j \in Inside(nodes, c) :
              /\ j \in Inside(nodes, i) /\ j > c
              /\ Between(nodes, i, j) = {c} \cup Between(nodes, c, j)
         /\ \A d \in Children(nodes, i), j \in Inside(nodes, c) : c < d => j < d
<1> DEFINE L == Len(nodes)
           D == Depth(nodes, i)
<1>1. /\ L \in Nat /\ D \in Nat /\ \A j \in 1 .. L : nodes[j].depth \in Nat
  BY TreeTypes
<1>2. /\ c \in i + 1 .. L /\ nodes[c].depth = D + 1 /\ Depth(nodes, c) = D + 1
      /\ \A k \in i + 1 .. c : nodes[k].depth > D
  BY <1>1 DEF Children, Depth
<1> HIDE DEF D, L
<1>3. c \in Inside(nodes, i)
  BY <1>2 DEF Inside, D, L
<1>4. ASSUME NEW a \in i + 1 .. c - 1, NEW j \in c .. L, a \in Above(nodes, j) PROVE FALSE
  <2>1. nodes[c].depth > nodes[a].depth
    BY <1>1, <1>2, <1>4 DEF Above
  <2>2. nodes[a].depth > D /\ nodes[a].depth \in Nat
    BY <1>1, <1>2
  <2>. QED BY <1>1, <1>2, <2>1, <2>2
<1>5. Between(nodes, i, c) = {}
  <2>1. ASSUME NEW a \in Between(nodes, i, c) PROVE FALSE
    <3>1. a \in Above(nodes, c) /\ a \in i + 1 .. c - 1 /\ c \in c .. L
      BY <1>1, <1>2 DEF Between, Above
    <3>. QED BY <1>4, <3>1
  <2>. QED BY <2>1
<1>6. ASSUME NEW j \in Inside(nodes, c)
      PROVE  /\ j \in Inside(nodes, i) /\ j > c
             /\ Between(nodes, i, j) = {c} \cup Between(nodes, c, j)
  <2>1. j \in c + 1 .. L /\ \A k \in c + 1 .. j : nodes[k].depth > D + 1
    BY <1>2 DEF Inside, L
  <2>2. \A k \in i + 1 .. j : nodes[k].depth > D
    <3> SUFFICES ASSUME NEW k \in i + 1 .. j PROVE nodes[k].depth > D
      OBVIOUS
    <3>1. CASE k <= c
      BY <1>2, <3>1
    <3>2. CASE k > c
      <4>1. k \in c + 1 .. j /\ k \in 1 .. L
        BY <1>1, <1>2, <2>1, <3>2
      <4>2. nodes[k].depth \in Nat /\ nodes[k].depth > D + 1
        BY <1>1, <2>1, <4>1
      <4>. QED BY <1>1, <4>2
    <3>. QED BY <1>2, <3>1, <3>2
  <2>3. j \in i + 1 .. L /\ j > c
    BY <1>1, <1>2, <2>1
  <2>4. j \in Inside(nodes, i)
    BY <2>2, <2>3 DEF Inside, D, L
  <2>5. c \in Above(nodes, j)
    <3>1. c \in 1 .. j - 1
      BY <1>1, <1>2, <2>1
    <3>. QED BY <1>2, <2>1, <3>1 DEF Above
  <2>6. ASSUME NEW a \in Above(nodes, j), a > i, a # c PROVE a > c
    <3>1. a \in 1 .. j - 1
      BY DEF Above
    <3>2. a \notin i + 1 .. c - 1
      <4>1. j \in c .. L
        BY <1>1, <1>2, <2>1
      <4>. QED BY <1>4, <2>6, <4>1
    <3>. QED BY <1>1, <1>2, <2>6, <3>1, <3>2
  <2>7. \A a \in Above(nodes, j) : a > c => a > i
    <3>1. Above(nodes, j) \subseteq 1 .. j - 1
      BY DEF Above
    <3>2. \A a \in 1 .. j - 1 : a > c => a > i
      BY <1>1, <1>2, <2>1
    <3>. QED BY <3>1, <3>2
  <2>8. c > i
    BY <1>1, <1>2
  <2>9. Between(nodes, i, j) = {c} \cup Between(nodes, c, j)
    BY <2>5, <2>6, <2>7, <2>8 DEF Between
  <2>. QED BY <2>3, <2>4, <2>9
<1>7. ASSUME NEW d \in Children(nodes, i), NEW j \in Inside(nodes, c), c < d PROVE j < d
  <2>1. d \in i + 1 .. L /\ nodes[d].depth = D + 1
    BY DEF Children, D, L
  <2>2. j \in c + 1 .. L /\ \A k \in c + 1 .. j : nodes[k].depth > D + 1
    BY <1>2 DEF Inside, L
  <2>3. d \notin c + 1 .. j
    BY <1>1, <2>1, <2>2
  <2>. QED BY <1>1, <1>2, <1>7, <2>1, <2>2, <2>3
<1>. QED BY <1>2, <1>3, <1>5, <1>6, <1>7 DEF L

\* What is below a node is a child, or below one.
LEMMA InsideChild ==
  ASSUME NEW nodes \in Tree, NEW i \in 0 .. Len(nodes), NEW j \in Inside(nodes, i)
  PROVE  \E c \in Children(nodes, i) : j = c \/ j \in Inside(nodes, c)
<1> DEFINE L == Len(nodes)
           D == Depth(nodes, i)
           S == {c \in i + 1 .. j : nodes[c].depth <= D + 1}
<1>1. /\ L \in Nat /\ D \in Nat /\ \A k \in 1 .. L : nodes[k].depth \in Nat
  BY TreeTypes
<1>2. j \in i + 1 .. L /\ \A k \in i + 1 .. j : nodes[k].depth > D
  BY DEF Inside
<1>3. i + 1 \in S
  <2>1. i + 1 \in 1 .. L /\ i + 1 \in i + 1 .. j
    BY <1>1, <1>2
  <2>2. CASE i = 0
    <3>1. nodes[1].depth = 1
      BY <2>1, <2>2, TreeTypes
    <3>. QED BY <1>1, <2>1, <2>2, <3>1
  <2>3. CASE i # 0
    <3>1. i + 1 > 1 /\ (i + 1) - 1 = i
      BY <2>3
    <3>2. nodes[i + 1].depth <= nodes[(i + 1) - 1].depth + 1
      BY <2>1, <3>1, TreeTypes
    <3>. QED BY <2>1, <2>3, <3>1, <3>2 DEF Depth
  <2>. QED BY <2>2, <2>3
<1>4. S \in SUBSET (1 .. L) /\ S # {}
  BY <1>1, <1>2, <1>3
<1> DEFINE c == Max(S)
<1>5. c \in S /\ \A k \in S : c >= k
  BY <1>1, <1>4, GreatestIn
<1> HIDE DEF c, D, L
<1>6. c \in i + 1 .. j /\ nodes[c].depth <= D + 1 /\ c \in 1 .. L
  BY <1>4, <1>5
<1>7. nodes[c].depth = D + 1 /\ Depth(nodes, c) = D + 1
  <2>1. nodes[c].depth > D /\ nodes[c].depth \in Nat
    BY <1>1, <1>2, <1>6
  <2>2. nodes[c].depth = D + 1
    BY <1>1, <1>6, <2>1
  <2>. QED BY <1>6, <2>2 DEF Depth
<1>8. \A k \in i + 1 .. c : nodes[k].depth > D
  BY <1>1, <1>2, <1>6
<1>9. c \in Children(nodes, i)
  <2>1. c \in i + 1 .. L
    BY <1>1, <1>2, <1>6
  <2>. QED BY <1>7, <1>8, <2>1 DEF Children, D, L
<1>10. ASSUME j # c PROVE j \in Inside(nodes, c)
  <2>1. j \in c + 1 .. L
    BY <1>1, <1>2, <1>6, <1>10
  <2>2. ASSUME NEW k \in c + 1 .. j PROVE nodes[k].depth > D + 1
    <3>1. k \in i + 1 .. j /\ k \in 1 .. L /\ ~(c >= k)
      BY <1>1, <1>2, <1>6
    <3>2. ~(nodes[k].depth <= D + 1)
      BY <1>5, <3>1
    <3>. QED BY <1>1, <3>1, <3>2
  <2>. QED BY <1>7, <2>1, <2>2 DEF Inside, L
<1>. QED BY <1>9, <1>10

\* The names around a symbol and what is made of it have their types.
LEMMA SymbolTypes ==
  ASSUME NEW nodes \in Tree, NEW i \in 0 .. Len(nodes), NEW parent \in Seq(STRING)
  PROVE  /\ \A j \in 1 .. Len(nodes) :
              /\ Around(nodes, i, j) \in SUBSET (1 .. Len(nodes))
              /\ Classes(nodes, i, j) \in Seq(STRING)
              /\ parent \o Classes(nodes, i, j) \in Seq(STRING)
         /\ NamesOf(nodes) \in Seq(STRING) /\ DOMAIN NamesOf(nodes) = 1 .. Len(nodes)
         /\ SymbolsFrom(nodes, i, parent) \in Seq(Symbol)
         /\ DOMAIN SymbolsFrom(nodes, i, parent) = 1 .. Len(nodes)
         /\ Seen(nodes, i) \in SUBSET (1 .. Len(nodes)) /\ IsFiniteSet(Seen(nodes, i))
<1> DEFINE L == Len(nodes)
<1>1. L \in Nat /\ DOMAIN nodes = 1 .. L
  BY TreeTypes
<1>2. \A j \in 1 .. L : /\ nodes[j].name \in STRING /\ nodes[j].chars \in Nat
                        /\ nodes[j].kind \in {"function", "container", "other"}
                        /\ nodes[j].calls \in SUBSET STRING
  BY TreeTypes
<1> HIDE DEF L
<1>3. NamesOf(nodes) \in Seq(STRING) /\ DOMAIN NamesOf(nodes) = 1 .. L
  BY <1>1, <1>2 DEF NamesOf
<1>4. ASSUME NEW j \in 1 .. L
      PROVE  /\ Around(nodes, i, j) \in SUBSET (1 .. L)
             /\ Classes(nodes, i, j) \in Seq(STRING)
             /\ parent \o Classes(nodes, i, j) \in Seq(STRING)
  <2>1. Around(nodes, i, j) \in SUBSET (1 .. L)
    BY <1>1 DEF Around, Between, Above
  <2>2. Classes(nodes, i, j) \in Seq(STRING)
    BY <1>3, <2>1, AtSeq DEF Classes
  <2>. QED BY <2>1, <2>2, ConcatProperties
<1>5. SymbolsFrom(nodes, i, parent) \in [1 .. L -> Symbol]
  BY <1>1, <1>2, <1>4 DEF SymbolsFrom, Symbol
<1>6. Seen(nodes, i) \in SUBSET (1 .. L)
  BY <1>1 DEF Seen, Inside, L
<1>7. IsFiniteSet(Seen(nodes, i))
  <2>1. IsFiniteSet(1 .. L)
    BY <1>1, FS_Interval
  <2>. QED BY <1>6, <2>1, FS_Subset
<1>. QED BY <1>1, <1>3, <1>4, <1>5, <1>6, <1>7 DEF L

Pieces(nodes, walked, i, parent) ==
    [j \in DOMAIN nodes |->
        IF j \in Children(nodes, i) THEN OfChild(nodes, j, parent, walked[j]) ELSE <<>>]

\* The walk without recursion.
Listed(nodes) ==
    [i \in 0 .. Len(nodes) |-> [parent \in Seq(STRING) |->
        At(SymbolsFrom(nodes, i, parent), Seen(nodes, i))]]

\* BuildSymbol gives the node itself, if it has a name.
LEMMA BuiltSymbol ==
  ASSUME NEW nodes \in Tree, NEW i \in 0 .. Len(nodes), NEW parent \in Seq(STRING),
         NEW c \in Children(nodes, i)
  PROVE  /\ c \in 1 .. Len(nodes) /\ c \in DOMAIN nodes
         /\ nodes[c].name # Unnamed =>
              BuildSymbol(nodes, c, parent) = <<SymbolsFrom(nodes, i, parent)[c]>>
         /\ nodes[c].name = Unnamed => BuildSymbol(nodes, c, parent) = <<>>
<1>1. c \in i + 1 .. Len(nodes) /\ Between(nodes, i, c) = {}
  BY ChildInside
<1>2. c \in 1 .. Len(nodes) /\ DOMAIN nodes = 1 .. Len(nodes)
  BY <1>1, TreeTypes
<1>3. Around(nodes, i, c) = {}
  BY <1>1 DEF Around
<1>4. Classes(nodes, i, c) = <<>>
  BY <1>3, SymbolTypes, AtShort DEF Classes
<1>5. parent \o Classes(nodes, i, c) = parent
  BY <1>4, ConcatEmptySeq
<1>6. SymbolsFrom(nodes, i, parent)[c] =
        [name |-> nodes[c].name, kind |-> nodes[c].kind, parent |-> parent,
         chars |-> nodes[c].chars, calls |-> nodes[c].calls, at |-> c]
  BY <1>2, <1>5 DEF SymbolsFrom
<1>. QED BY <1>2, <1>6 DEF BuildSymbol

\* The symbols below a class carry its name, those below another node do not
\* change.
LEMMA BelowChild ==
  ASSUME NEW nodes \in Tree, NEW i \in 0 .. Len(nodes), NEW parent \in Seq(STRING),
         NEW c \in Children(nodes, i), nodes[c].kind \in {"container", "other"},
         NEW p, p = (IF nodes[c].kind = "container" THEN Qualified(parent, nodes[c].name)
                     ELSE parent)
  PROVE  /\ p \in Seq(STRING)
         /\ At(SymbolsFrom(nodes, c, p), Seen(nodes, c)) =
            At(SymbolsFrom(nodes, i, parent), Seen(nodes, c))
<1> DEFINE L == Len(nodes)
<1>1. L \in Nat /\ DOMAIN nodes = 1 .. L /\ \A j \in 1 .. L : nodes[j].name \in STRING
  BY TreeTypes
<1>2. c \in 1 .. L /\ c \in 0 .. L
  BY <1>1, ChildInside
<1>3. p \in Seq(STRING)
  BY <1>1, <1>2, AppendProperties DEF Qualified
<1>4. NamesOf(nodes) \in Seq(STRING) /\ DOMAIN NamesOf(nodes) = 1 .. L
  BY SymbolTypes
<1>5. ASSUME NEW j \in Seen(nodes, c)
      PROVE  p \o Classes(nodes, c, j) = parent \o Classes(nodes, i, j) /\ j \in 1 .. L
  <2> DEFINE A == Around(nodes, c, j)
             X == Classes(nodes, c, j)
  <2>1. j \in Inside(nodes, c) /\ j \in 1 .. L
    BY <1>1, <1>2 DEF Seen, Inside
  <2>2. Between(nodes, i, j) = {c} \cup Between(nodes, c, j)
    BY <2>1, ChildInside
  <2>3. A \in SUBSET (1 .. L) /\ X \in Seq(STRING)
    BY <1>2, <2>1, SymbolTypes
  <2>4. CASE nodes[c].kind = "container" /\ nodes[c].name # Unnamed
    <3>1. Around(nodes, i, j) = {c} \cup A
      BY <2>2, <2>4 DEF Around
    <3>2. \A a \in {c}, b \in A : a < b
      BY DEF Around, Between
    <3>3. At(NamesOf(nodes), {c} \cup A) = At(NamesOf(nodes), {c}) \o At(NamesOf(nodes), A)
      <4>1. {c} \in SUBSET (DOMAIN NamesOf(nodes)) /\ A \in SUBSET (DOMAIN NamesOf(nodes))
        BY <1>2, <1>4, <2>3
      <4> HIDE DEF A
      <4>. QED BY <1>4, <3>2, <4>1, AtConcat
    <3>4. At(NamesOf(nodes), {c}) = <<nodes[c].name>>
      <4>1. NamesOf(nodes)[c] = nodes[c].name
        BY <1>1, <1>2 DEF NamesOf
      <4>2. At(NamesOf(nodes), {c}) = <<NamesOf(nodes)[c]>>
        BY <1>2, <1>4, AtShort
      <4>. QED BY <4>1, <4>2
    <3>5. Classes(nodes, i, j) = <<nodes[c].name>> \o X
      BY <3>1, <3>3, <3>4 DEF Classes
    <3>6. p = parent \o <<nodes[c].name>>
      BY <1>1, <1>2, <2>4, AppendIsConcat DEF Qualified
    <3>7. <<nodes[c].name>> \in Seq(STRING)
      BY <1>1, <1>2
    <3> HIDE DEF X
    <3>8. (parent \o <<nodes[c].name>>) \o X = parent \o (<<nodes[c].name>> \o X)
      BY <2>3, <3>7, ConcatAssociative
    <3>. QED BY <2>1, <3>5, <3>6, <3>8 DEF X
  <2>5. CASE ~(nodes[c].kind = "container" /\ nodes[c].name # Unnamed)
    <3>1. Around(nodes, i, j) = A
      BY <2>2, <2>5 DEF Around
    <3>2. p = parent
      BY <2>5 DEF Qualified
    <3>. QED BY <2>1, <3>1, <3>2 DEF Classes
  <2>. QED BY <2>4, <2>5
<1>6. \A j \in Seen(nodes, c) : SymbolsFrom(nodes, c, p)[j] = SymbolsFrom(nodes, i, parent)[j]
  BY <1>1, <1>5 DEF SymbolsFrom
<1>7. Seen(nodes, c) \in SUBSET Nat /\ IsFiniteSet(Seen(nodes, c))
  BY <1>2, <1>3, SymbolTypes
<1>. QED BY <1>3, <1>6, <1>7, AtSame

\* A child gives the symbols at and below it.
LEMMA PieceListed ==
  ASSUME NEW nodes \in Tree, NEW i \in 0 .. Len(nodes), NEW parent \in Seq(STRING),
         NEW c \in Children(nodes, i)
  PROVE  OfChild(nodes, c, parent, Listed(nodes)[c]) =
         At(SymbolsFrom(nodes, i, parent), Seen(nodes, i) \cap ({c} \cup Inside(nodes, c)))
<1> DEFINE L == Len(nodes)
           F == SymbolsFrom(nodes, i, parent)
           Q == Seen(nodes, i) \cap ({c} \cup Inside(nodes, c))
           B == BuildSymbol(nodes, c, parent)
<1>1. L \in Nat /\ DOMAIN nodes = 1 .. L /\ F \in Seq(Symbol) /\ DOMAIN F = 1 .. L
  BY TreeTypes, SymbolTypes
<1>2. /\ c \in 1 .. L /\ c \in 0 .. L /\ c \in Inside(nodes, i) /\ Between(nodes, i, c) = {}
      /\ c \notin Inside(nodes, c)
      /\ nodes[c].kind \in {"function", "container", "other"}
  <2>1. c \in i + 1 .. L /\ c \in Inside(nodes, i) /\ Between(nodes, i, c) = {}
    BY ChildInside
  <2>2. c \in 1 .. L /\ c \in 0 .. L
    BY <1>1, <2>1
  <2>3. c \notin Inside(nodes, c)
    BY <2>2 DEF Inside
  <2>4. nodes[c].kind \in {"function", "container", "other"}
    BY <2>2, TreeTypes
  <2>. QED BY <2>1, <2>2, <2>3, <2>4
<1>3. \A j \in Inside(nodes, c) : j \in Inside(nodes, i) /\ j > c
        /\ Between(nodes, i, j) = {c} \cup Between(nodes, c, j)
  BY ChildInside
<1>4. /\ nodes[c].name # Unnamed => B = <<F[c]>> /\ B = At(F, {c})
      /\ nodes[c].name = Unnamed => B = <<>> /\ B = At(F, {})
  BY <1>1, <1>2, BuiltSymbol, AtShort
<1>5. c \in Seen(nodes, i) <=>
        nodes[c].name # Unnamed /\ nodes[c].kind \in {"function", "container"}
  BY <1>2 DEF Seen
<1>6. nodes[c].kind # "function" => Q \cap Inside(nodes, c) = Seen(nodes, c)
  BY <1>3 DEF Seen
<1>7. nodes[c].kind = "function" => Q \cap Inside(nodes, c) = {}
  BY <1>3 DEF Seen
<1>8. Seen(nodes, c) \in SUBSET (1 .. L) /\ \A j \in Seen(nodes, c) : c < j
  <2>1. Seen(nodes, c) \subseteq Inside(nodes, c)
    BY DEF Seen
  <2>. QED BY <1>2, <1>3, <2>1, SymbolTypes
<1>9. CASE nodes[c].kind = "function"
  <2>1. Q = IF nodes[c].name # Unnamed THEN {c} ELSE {}
    BY <1>5, <1>7, <1>9
  <2>2. OfChild(nodes, c, parent, Listed(nodes)[c]) = B
    BY <1>9 DEF OfChild
  <2>. QED BY <1>4, <2>1, <2>2
<1>10. CASE nodes[c].kind = "other"
  <2>1. Q = Seen(nodes, c)
    BY <1>5, <1>6, <1>10
  <2>2. OfChild(nodes, c, parent, Listed(nodes)[c]) = Listed(nodes)[c][parent]
    BY <1>10 DEF OfChild
  <2>3. Listed(nodes)[c][parent] = At(SymbolsFrom(nodes, c, parent), Seen(nodes, c))
    BY <1>2 DEF Listed
  <2>4. At(SymbolsFrom(nodes, c, parent), Seen(nodes, c)) = At(F, Seen(nodes, c))
    BY <1>10, BelowChild
  <2>. QED BY <2>1, <2>2, <2>3, <2>4
<1>11. CASE nodes[c].kind = "container"
  <2> DEFINE p == Qualified(parent, nodes[c].name)
             own == IF nodes[c].name # Unnamed THEN {c} ELSE {}
  <2>1. Q = own \cup Seen(nodes, c)
    BY <1>5, <1>6, <1>11
  <2>2. OfChild(nodes, c, parent, Listed(nodes)[c]) = B \o Listed(nodes)[c][p]
    BY <1>11 DEF OfChild
  <2>3. p \in Seq(STRING) /\ At(SymbolsFrom(nodes, c, p), Seen(nodes, c)) = At(F, Seen(nodes, c))
    BY <1>11, BelowChild
  <2>4. Listed(nodes)[c][p] = At(SymbolsFrom(nodes, c, p), Seen(nodes, c))
    BY <1>2, <2>3 DEF Listed
  <2>5. B = At(F, own)
    BY <1>4
  <2>6. own \in SUBSET (DOMAIN F) /\ \A a \in own, b \in Seen(nodes, c) : a < b
    BY <1>1, <1>2, <1>8
  <2>7. At(F, own \cup Seen(nodes, c)) = At(F, own) \o At(F, Seen(nodes, c))
    <3> HIDE DEF own, F
    <3>. QED BY <1>1, <1>8, <2>6, AtConcat
  <2> HIDE DEF Q, own, p, B, F
  <2>8. At(F, Q) = B \o Listed(nodes)[c][p]
    BY <2>1, <2>3, <2>4, <2>5, <2>7
  <2>. QED BY <2>2, <2>8 DEF Q, F
<1>. QED BY <1>2, <1>9, <1>10, <1>11

\* The children together give all that is below the node.
LEMMA PiecesListed ==
  ASSUME NEW nodes \in Tree, NEW i \in 0 .. Len(nodes), NEW parent \in Seq(STRING)
  PROVE  FlattenSeq(Pieces(nodes, Listed(nodes), i, parent)) =
         At(SymbolsFrom(nodes, i, parent), Seen(nodes, i))
<1> DEFINE L == Len(nodes)
           F == SymbolsFrom(nodes, i, parent)
           S == Seen(nodes, i)
           C == Children(nodes, i)
           P == Pieces(nodes, Listed(nodes), i, parent)
           Part(k) == {j \in S : \E c \in C : c <= k /\ (j = c \/ j \in Inside(nodes, c))}
<1>1. L \in Nat /\ DOMAIN nodes = 1 .. L /\ F \in Seq(Symbol) /\ DOMAIN F = 1 .. L
  BY TreeTypes, SymbolTypes
<1>2. S \in SUBSET (1 .. L) /\ C \in SUBSET (1 .. L)
  <2>1. \A c \in C : c \in i + 1 .. L
    BY ChildInside
  <2>2. i + 1 .. L \subseteq 1 .. L
    BY <1>1
  <2>. QED BY <2>1, <2>2, SymbolTypes
<1>3. /\ DOMAIN P = 1 .. L
      /\ \A k \in C : P[k] = At(F, S \cap ({k} \cup Inside(nodes, k)))
      /\ \A k \in (1 .. L) \ C : P[k] = <<>>
  BY <1>1, <1>2, PieceListed DEF Pieces
<1>4. \A c, d \in C : \A j \in Inside(nodes, c) : c < d => j < d
  BY ChildInside
<1>5. \A c \in C : \A j \in Inside(nodes, c) : j > c
  BY ChildInside
<1>6. \A j \in S : \E c \in C : j = c \/ j \in Inside(nodes, c)
  BY InsideChild DEF Seen
<1> HIDE DEF F, S, C, P, L
<1>7. ASSUME NEW k \in 1 .. L PROVE P[k] \in Seq(Symbol)
  <2>1. CASE k \in C
    <3> DEFINE Q == S \cap ({k} \cup Inside(nodes, k))
    <3>1. Q \in SUBSET (DOMAIN F)
      BY <1>1, <1>2
    <3>2. P[k] = At(F, Q)
      BY <1>3, <2>1
    <3> HIDE DEF Q
    <3>. QED BY <1>1, <3>1, <3>2, AtSeq
  <2>2. CASE k \notin C
    BY <1>3, <2>2, EmptySeq
  <2>. QED BY <2>1, <2>2
<1>8. P \in Seq(Seq(Symbol)) /\ Len(P) = L
  <2>1. P = [k \in 1 .. L |-> P[k]]
    BY <1>1 DEF P, Pieces
  <2> DEFINE T == Seq(Symbol)
  <2>2. \A k \in 1 .. L : P[k] \in T
    BY <1>7
  <2> HIDE DEF T
  <2>3. P \in [1 .. L -> T]
    BY <2>1, <2>2
  <2>4. P \in Seq(T) /\ Len(P) = L
    BY <1>1, <2>1, <2>3
  <2>. QED BY <2>4 DEF T
<1>9. PICK u \in [0 .. L -> Seq(Symbol)] :
        u[0] = <<>> /\ (\A k \in 1 .. L : u[k] = u[k - 1] \o P[k]) /\ FlattenSeq(P) = u[L]
  BY <1>8, FlattenStepwise
<1>10. Part(0) = {} /\ Part(L) = S
  <2>1. \A c \in C : ~(c <= 0) /\ c <= L
    BY <1>1, <1>2
  <2>. QED BY <1>6, <2>1
<1> DEFINE At2(k) == At(F, Part(k))
           w == [k \in 0 .. L |-> At2(k)]
<1>11. \A k \in 0 .. L : w[k] = At2(k)
  <2> HIDE DEF At2
  <2>. QED OBVIOUS
<1>12. u[0] = w[0]
  <2>1. w[0] = At(F, {})
    <3>1. w[0] = At2(0)
      <4> HIDE DEF At2
      <4>. QED BY <1>1, <1>11
    <3>. QED BY <1>10, <3>1
  <2>. QED BY <1>1, <1>9, <2>1, AtShort
<1> HIDE DEF w
<1>13. ASSUME NEW k \in 1 .. L, u[k - 1] = w[k - 1] PROVE u[k] = w[k]
  <2>1. /\ u[k] = At(F, Part(k - 1)) \o P[k]
        /\ w[k] = At(F, Part(k))
    <3>1. k - 1 \in 0 .. L /\ k \in 0 .. L
      BY <1>1
    <3>2. w[k - 1] = At2(k - 1) /\ w[k] = At2(k)
      BY <1>11, <3>1
    <3> HIDE DEF At2
    <3>3. u[k] = At2(k - 1) \o P[k]
      BY <1>9, <1>13, <3>2
    <3>. QED BY <3>2, <3>3 DEF At2
  <2>2. \A c \in C : c <= k <=> c <= k - 1 \/ c = k
    BY <1>2
  <2>3. Part(k) \in SUBSET (1 .. L) /\ Part(k - 1) \in SUBSET (1 .. L)
    BY <1>2
  <2>4. CASE k \notin C
    <3>1. Part(k) = Part(k - 1)
      BY <2>2, <2>4
    <3>2. At(F, Part(k - 1)) \in Seq(Symbol)
      <4> HIDE DEF Part
      <4>. QED BY <1>1, <2>3, AtSeq
    <3>3. P[k] = <<>>
      BY <1>3, <2>4
    <3> HIDE DEF Part
    <3>4. u[k] = At(F, Part(k - 1))
      BY <2>1, <3>2, <3>3, ConcatEmptySeq
    <3>. QED BY <2>1, <3>1, <3>4
  <2>5. CASE k \in C
    <3> DEFINE Q == S \cap ({k} \cup Inside(nodes, k))
    <3>1. Part(k) = Part(k - 1) \cup Q
      BY <2>2, <2>5
    <3>2. \A p \in Part(k - 1), q \in Q : p < q
      <4> SUFFICES ASSUME NEW p \in Part(k - 1), NEW q \in Q PROVE p < q
        OBVIOUS
      <4>1. PICK c \in C : c <= k - 1 /\ (p = c \/ p \in Inside(nodes, c))
        OBVIOUS
      <4>2. c < k
        BY <1>2, <4>1
      <4>3. p < k
        BY <1>4, <2>5, <4>1, <4>2
      <4>4. q = k \/ q > k
        BY <1>5, <2>5
      <4>. QED BY <1>2, <2>3, <4>3, <4>4
    <3>3. Q \in SUBSET (DOMAIN F) /\ Part(k - 1) \in SUBSET (DOMAIN F)
      BY <1>1, <1>2, <2>3
    <3>4. P[k] = At(F, Q)
      BY <1>3, <2>5
    <3> HIDE DEF Part, Q
    <3>5. At(F, Part(k - 1) \cup Q) = At(F, Part(k - 1)) \o At(F, Q)
      BY <1>1, <3>2, <3>3, AtConcat
    <3>. QED BY <2>1, <3>1, <3>4, <3>5
  <2>. QED BY <2>4, <2>5
<1>14. u[L] = w[L]
  <2>1. L \in Nat /\ u[0] = w[0] /\ \A k \in 1 .. L : u[k - 1] = w[k - 1] => u[k] = w[k]
    BY <1>1, <1>12, <1>13
  <2>2. \A k \in 0 .. L : u[k] = w[k]
    BY ONLY <2>1, SameUpTo
  <2>. QED BY <1>1, <2>2
<1>15. FlattenSeq(P) = At(F, S)
  <2>1. w[L] = At(F, Part(L))
    <3>1. w[L] = At2(L)
      <4> HIDE DEF At2
      <4>. QED BY <1>1, <1>11
    <3>. QED BY <3>1
  <2>. QED BY <1>9, <1>14, <1>10, <2>1
<1>. QED BY <1>15 DEF F, S, P

Walked(nodes, f) ==
    f = [i \in 0 .. Len(nodes) |-> [parent \in Seq(STRING) |->
            FlattenSeq(Pieces(nodes, f, i, parent))]]

\* What _collect yields at a node is determined by what it yields below it.
LEMMA WalkBelow ==
  ASSUME NEW nodes \in Tree, NEW i \in 0 .. Len(nodes), NEW f, NEW g,
         \A j \in i + 1 .. Len(nodes) : f[j] = g[j], NEW parent
  PROVE  Pieces(nodes, f, i, parent) = Pieces(nodes, g, i, parent)
<1>1. \A j \in Children(nodes, i) : j \in i + 1 .. Len(nodes)
  BY DEF Children
<1>2. \A j \in Children(nodes, i) : f[j] = g[j]
  BY <1>1
<1>3. \A j \in Children(nodes, i) : OfChild(nodes, j, parent, f[j]) = OfChild(nodes, j, parent, g[j])
  BY <1>2
<1>. QED BY <1>3 DEF Pieces

\* The symbols of a tree are those outside its functions, in the order of the
\* file.
LEMMA SymbolsListed ==
  ASSUME NEW nodes \in Tree
  PROVE  /\ Symbols(nodes) = At(SymbolsFrom(nodes, 0, <<>>), Visible(nodes))
         /\ SymbolsFrom(nodes, 0, <<>>) \in Seq(Symbol)
         /\ DOMAIN SymbolsFrom(nodes, 0, <<>>) = 1 .. Len(nodes)
         /\ Visible(nodes) \in SUBSET (1 .. Len(nodes))
         /\ Symbols(nodes) \in Seq(Symbol)
<1> DEFINE L == Len(nodes)
           sol == Listed(nodes)
           w == CHOOSE f : Walked(nodes, f)
<1>1. L \in Nat /\ DOMAIN nodes = 1 .. L /\ \A j \in 1 .. L : nodes[j].depth > 0
  BY TreeTypes
<1>2. Symbols(nodes) = w[0][<<>>]
  BY DEF Symbols, Walked, Pieces
<1>3. \A i \in 0 .. L : \A p \in Seq(STRING) : sol[i][p] = FlattenSeq(Pieces(nodes, sol, i, p))
  <2> SUFFICES ASSUME NEW i \in 0 .. L, NEW p \in Seq(STRING)
               PROVE  sol[i][p] = FlattenSeq(Pieces(nodes, sol, i, p))
    OBVIOUS
  <2>1. sol[i][p] = At(SymbolsFrom(nodes, i, p), Seen(nodes, i))
    BY DEF Listed
  <2>. QED BY <2>1, PiecesListed
<1>4. sol = [i \in 0 .. L |-> [p \in Seq(STRING) |-> sol[i][p]]]
  BY DEF Listed
<1> HIDE DEF sol
<1>5. Walked(nodes, sol)
  BY <1>3, <1>4 DEF Walked
<1>6. Walked(nodes, w)
  BY <1>5
<1> HIDE DEF w
<1>7. \A i \in 0 .. L : w[i] = [p \in Seq(STRING) |-> FlattenSeq(Pieces(nodes, w, i, p))]
  <2> DEFINE e(i) == [p \in Seq(STRING) |-> FlattenSeq(Pieces(nodes, w, i, p))]
  <2>1. w = [i \in 0 .. L |-> e(i)]
    BY <1>6 DEF Walked
  <2> HIDE DEF e
  <2>2. \A i \in 0 .. L : w[i] = e(i)
    BY <2>1
  <2>. QED BY <2>2 DEF e
<1>8. \A i \in 0 .. L : sol[i] = [p \in Seq(STRING) |-> FlattenSeq(Pieces(nodes, sol, i, p))]
  <2> DEFINE e(i) == [p \in Seq(STRING) |-> FlattenSeq(Pieces(nodes, sol, i, p))]
  <2>1. sol = [i \in 0 .. L |-> e(i)]
    BY <1>5 DEF Walked
  <2> HIDE DEF e
  <2>2. \A i \in 0 .. L : sol[i] = e(i)
    BY <2>1
  <2>. QED BY <2>2 DEF e
<1>9. ASSUME NEW i \in 0 .. L, \A j \in i + 1 .. L : w[j] = sol[j] PROVE w[i] = sol[i]
  <2>1. \A p : Pieces(nodes, w, i, p) = Pieces(nodes, sol, i, p)
    BY <1>9, WalkBelow
  <2>2. [p \in Seq(STRING) |-> FlattenSeq(Pieces(nodes, w, i, p))] =
        [p \in Seq(STRING) |-> FlattenSeq(Pieces(nodes, sol, i, p))]
    BY <2>1
  <2>3. w[i] = [p \in Seq(STRING) |-> FlattenSeq(Pieces(nodes, w, i, p))]
    BY <1>7
  <2>4. sol[i] = [p \in Seq(STRING) |-> FlattenSeq(Pieces(nodes, sol, i, p))]
    BY <1>8
  <2>. QED BY ONLY <2>2, <2>3, <2>4
<1> DEFINE C == {n \in 0 .. L : \A i \in L - n .. L : w[i] = sol[i]}
<1>10. 0 \in C
  <2>1. w[L] = sol[L]
    BY <1>1, <1>9
  <2>. QED BY <1>1, <2>1
<1>11. ASSUME NEW n \in 0 .. L - 1, n \in C PROVE n + 1 \in C
  <2>1. L - (n + 1) \in 0 .. L /\ n + 1 \in 0 .. L
    BY <1>1
  <2>2. \A j \in (L - (n + 1)) + 1 .. L : w[j] = sol[j]
    <3>1. (L - (n + 1)) + 1 = L - n
      BY <1>1
    <3>. QED BY <1>11, <3>1
  <2>3. w[L - (n + 1)] = sol[L - (n + 1)]
    BY <1>9, <2>1, <2>2
  <2>4. \A j \in L - (n + 1) .. L : j = L - (n + 1) \/ j \in (L - (n + 1)) + 1 .. L
    BY <1>1
  <2>. QED BY <2>1, <2>2, <2>3, <2>4
<1> HIDE DEF C
<1>12. L \in C
  <2>1. 0 .. L \subseteq C
    BY <1>1, <1>10, <1>11, UpTo
  <2>. QED BY <1>1, <2>1
<1>13. w[0] = sol[0]
  <2>1. 0 \in L - L .. L
    BY <1>1
  <2>. QED BY <1>12, <2>1 DEF C
<1>14. <<>> \in Seq(STRING) /\ 0 \in 0 .. L
  BY <1>1
<1>15. Visible(nodes) = Seen(nodes, 0)
  <2>1. Inside(nodes, 0) = 1 .. L
    <3>1. Depth(nodes, 0) = 0
      BY DEF Depth
    <3>. QED BY <1>1, <3>1 DEF Inside
  <2>2. \A j \in 1 .. L : Between(nodes, 0, j) = Above(nodes, j)
    BY <1>1 DEF Between, Above
  <2>. QED BY <1>1, <2>1, <2>2 DEF Visible, Seen
<1>16. Symbols(nodes) = At(SymbolsFrom(nodes, 0, <<>>), Visible(nodes))
  <2>1. sol[0][<<>>] = At(SymbolsFrom(nodes, 0, <<>>), Seen(nodes, 0))
    BY <1>14 DEF sol, Listed
  <2>. QED BY <1>2, <1>13, <1>15, <2>1
<1>17. /\ SymbolsFrom(nodes, 0, <<>>) \in Seq(Symbol)
       /\ DOMAIN SymbolsFrom(nodes, 0, <<>>) = 1 .. L
       /\ Visible(nodes) \in SUBSET (1 .. L)
  BY <1>14, <1>15, SymbolTypes
<1>. QED BY <1>16, <1>17, AtSeq

-----------------------------------------------------------------------------
(* The chunks of a file.                                                   *)

Chunk == [symbols : Seq(Symbol), truncated : BOOLEAN, chars : Int]
Filling == [chunks : Seq(Chunk), current : Seq(Symbol), tokens : Nat]

\* The symbols of all chunks, one chunk behind the other.
Sent(made) == FlattenSeq([k \in DOMAIN made |-> made[k].symbols])

\* The budgets have their types, and a token is no more than 3.6 characters.
LEMMA ChunkTypes ==
  /\ Budget \in Nat /\ Notice \in Nat /\ Chars(Budget) \in Nat /\ Chars(MaxTokens) \in Nat
  /\ \A c \in Nat : /\ EstimateTokens(c) \in Nat /\ EstimateTokens(c) > 0
                    /\ 5 * c <= 18 * EstimateTokens(c) - 1
<1>1. {MaxTokens, HeaderTokens, MinBudget, Notice} \subseteq Nat
  BY ParsingAssumption
<1>2. Budget \in Nat /\ Notice \in Nat
  BY <1>1 DEF Budget, LargerOf
<1>3. Chars(Budget) \in Nat /\ Chars(MaxTokens) \in Nat
  BY <1>1, <1>2 DEF Chars
<1>. QED BY <1>2, <1>3 DEF EstimateTokens

\* What a chunk of one symbol more is: MakeChunk adds up, with two characters
\* between two symbols.
Adds(s, f) == f = [i \in 0 .. Len(s) |-> IF i = 0 THEN 0 ELSE f[i - 1] + s[i].chars]

\* The characters of a chunk, symbol by symbol.
LEMMA AddedUp ==
  ASSUME NEW s \in Seq(Symbol)
  PROVE  \E u \in [0 .. Len(s) -> Nat] :
           /\ u[0] = 0 /\ \A k \in 1 .. Len(s) : u[k] = u[k - 1] + s[k].chars
           /\ MakeChunk(s) = [symbols |-> s, truncated |-> FALSE,
                              chars |-> u[Len(s)] + 2 * (Len(s) - 1)]
<1> DEFINE n == Len(s)
           g == [p \in (1 .. n) \X Nat |-> p[2] + s[p[1]].chars]
           w == CHOOSE f : Adds(s, f)
<1>1. n \in Nat /\ \A k \in 1 .. n : s[k].chars \in Nat
  <2>1. n \in Nat /\ \A k \in 1 .. n : s[k] \in Symbol
    BY LenProperties, ElementOfSeq
  <2>. QED BY <2>1 DEF Symbol
<1>2. g \in [(1 .. n) \X Nat -> Nat] /\ \A k \in 1 .. n, x \in Nat : g[<<k, x>>] = x + s[k].chars
  BY <1>1
<1> HIDE DEF g
<1>3. PICK u \in [0 .. n -> Nat] : u[0] = 0 /\ \A k \in 1 .. n : u[k] = g[<<k, u[k - 1]>>]
  <2>1. Leads(n, Nat, 0, g)
    BY <1>1, <1>2, Recursion
  <2>. QED BY <2>1 DEF Leads
<1>4. \A k \in 1 .. n : k - 1 \in 0 .. n /\ u[k] = u[k - 1] + s[k].chars
  <2>1. \A k \in 1 .. n : k - 1 \in 0 .. n /\ u[k - 1] \in Nat
    BY <1>1, <1>3
  <2>. QED BY <1>2, <1>3, <2>1
<1>5. Adds(s, u)
  <2>1. \A k \in 0 .. n : u[k] = IF k = 0 THEN 0 ELSE u[k - 1] + s[k].chars
    <3>1. \A k \in 0 .. n : k = 0 \/ k \in 1 .. n
      BY <1>1
    <3>. QED BY <1>3, <1>4, <3>1
  <2>2. u = [k \in 0 .. n |-> u[k]]
    BY <1>3
  <2>. QED BY <2>1, <2>2 DEF Adds
<1>6. Adds(s, w)
  BY <1>5
<1>7. MakeChunk(s) = [symbols |-> s, truncated |-> FALSE, chars |-> w[n] + 2 * (n - 1)]
  BY DEF MakeChunk, Adds
<1> HIDE DEF w, n
<1>8. \A k \in 0 .. n : w[k] = IF k = 0 THEN 0 ELSE w[k - 1] + s[k].chars
  BY <1>6 DEF Adds, n
<1>9. n \in Nat /\ w[0] = u[0] /\ \A k \in 1 .. n : w[k - 1] = u[k - 1] => w[k] = u[k]
  <2>1. \A k \in 1 .. n : k \in 0 .. n /\ k # 0
    BY <1>1
  <2>2. 0 \in 0 .. n
    BY <1>1
  <2>. QED BY <1>1, <1>3, <1>4, <1>8, <2>1, <2>2
<1>10. \A k \in 0 .. n : w[k] = u[k]
  BY ONLY <1>9, SameUpTo
<1>11. w[n] = u[n]
  BY <1>1, <1>10
<1>. QED BY <1>3, <1>4, <1>7, <1>11 DEF n

\* A chunk of one symbol more is larger by the symbol and what stands before it.
LEMMA ChunkGrows ==
  ASSUME NEW s \in Seq(Symbol)
  PROVE  /\ MakeChunk(s) \in Chunk /\ MakeChunk(s).symbols = s
         /\ MakeChunk(<<>>).chars = 0 - 2
         /\ \A x \in Symbol : MakeChunk(Append(s, x)).chars = MakeChunk(s).chars + 2 + x.chars
<1> DEFINE n == Len(s)
<1>1. n \in Nat
  BY LenProperties
<1>2. PICK u \in [0 .. n -> Nat] :
        /\ u[0] = 0 /\ \A k \in 1 .. n : u[k] = u[k - 1] + s[k].chars
        /\ MakeChunk(s) = [symbols |-> s, truncated |-> FALSE, chars |-> u[n] + 2 * (n - 1)]
  BY AddedUp
<1>3. MakeChunk(s) \in Chunk /\ MakeChunk(s).symbols = s /\ MakeChunk(s).chars = u[n] + 2 * (n - 1)
  BY <1>1, <1>2 DEF Chunk
<1>4. MakeChunk(<<>>).chars = 0 - 2
  <2>1. <<>> \in Seq(Symbol) /\ Len(<<>>) = 0
    BY EmptySeq
  <2>2. PICK v \in [0 .. Len(<<>>) -> Nat] :
          /\ v[0] = 0
          /\ MakeChunk(<<>>) = [symbols |-> <<>>, truncated |-> FALSE,
                                chars |-> v[Len(<<>>)] + 2 * (Len(<<>>) - 1)]
    BY <2>1, AddedUp
  <2>. QED BY <2>1, <2>2
<1>5. ASSUME NEW x \in Symbol PROVE MakeChunk(Append(s, x)).chars = MakeChunk(s).chars + 2 + x.chars
  <2> DEFINE t == Append(s, x)
  <2>1. /\ t \in Seq(Symbol) /\ Len(t) = n + 1 /\ t[n + 1] = x
        /\ \A k \in 1 .. n : t[k] = s[k]
    BY AppendProperties
  <2> HIDE DEF t, n
  <2>2. PICK v \in [0 .. n + 1 -> Nat] :
          /\ v[0] = 0 /\ \A k \in 1 .. n + 1 : v[k] = v[k - 1] + t[k].chars
          /\ MakeChunk(t) = [symbols |-> t, truncated |-> FALSE,
                             chars |-> v[n + 1] + 2 * ((n + 1) - 1)]
    BY <2>1, AddedUp
  <2>3. n \in Nat /\ v[0] = u[0] /\ \A k \in 1 .. n : v[k - 1] = u[k - 1] => v[k] = u[k]
    <3>1. \A k \in 1 .. n : k \in 1 .. n + 1
      BY <1>1
    <3>. QED BY <1>1, <1>2, <2>1, <2>2, <3>1
  <2>4. \A k \in 0 .. n : v[k] = u[k]
    <3> DEFINE m == n
    <3>1. m \in Nat /\ v[0] = u[0] /\ \A k \in 1 .. m : v[k - 1] = u[k - 1] => v[k] = u[k]
      BY <2>3
    <3> HIDE DEF m
    <3>2. \A k \in 0 .. m : v[k] = u[k]
      BY ONLY <3>1, SameUpTo
    <3>. QED BY <3>2 DEF m
  <2>5. v[n + 1] = u[n] + x.chars
    <3>1. n + 1 \in 1 .. n + 1 /\ (n + 1) - 1 = n /\ n \in 0 .. n
      BY <1>1
    <3>. QED BY <2>1, <2>2, <2>4, <3>1
  <2>6. u[n] \in Nat /\ x.chars \in Nat
    BY <1>1, <1>2 DEF Symbol
  <2>7. MakeChunk(t).chars = u[n] + x.chars + 2 * n
    BY <1>1, <2>2, <2>5, <2>6
  <2>. QED BY <1>1, <1>3, <2>6, <2>7 DEF t
<1>. QED BY <1>3, <1>4, <1>5

\* One sequence more.
LEMMA FlattenMore ==
  ASSUME NEW T, NEW ss \in Seq(Seq(T)), NEW s \in Seq(T)
  PROVE  /\ FlattenSeq(<<>>) = <<>> /\ FlattenSeq(ss) \in Seq(T)
         /\ FlattenSeq(Append(ss, s)) = FlattenSeq(ss) \o s
<1> DEFINE n == Len(ss)
           tt == Append(ss, s)
<1>1. n \in Nat
  BY LenProperties
<1>2. PICK u \in [0 .. n -> Seq(T)] :
        u[0] = <<>> /\ (\A k \in 1 .. n : u[k] = u[k - 1] \o ss[k]) /\ FlattenSeq(ss) = u[n]
  BY FlattenStepwise
<1>3. FlattenSeq(<<>>) = <<>>
  BY DEF FlattenSeq
<1>4. tt \in Seq(Seq(T)) /\ Len(tt) = n + 1 /\ tt[n + 1] = s /\ \A k \in 1 .. n : tt[k] = ss[k]
  BY AppendProperties
<1> HIDE DEF tt, n
<1>5. PICK v \in [0 .. n + 1 -> Seq(T)] :
        /\ v[0] = <<>> /\ (\A k \in 1 .. n + 1 : v[k] = v[k - 1] \o tt[k])
        /\ FlattenSeq(tt) = v[n + 1]
  <2>1. \E v \in [0 .. Len(tt) -> Seq(T)] :
          /\ v[0] = <<>> /\ (\A k \in 1 .. Len(tt) : v[k] = v[k - 1] \o tt[k])
          /\ FlattenSeq(tt) = v[Len(tt)]
    BY <1>4, FlattenStepwise
  <2>. QED BY <1>4, <2>1
<1>6. n \in Nat /\ v[0] = u[0] /\ \A k \in 1 .. n : v[k - 1] = u[k - 1] => v[k] = u[k]
  <2>1. \A k \in 1 .. n : k \in 1 .. n + 1
    BY <1>1
  <2>. QED BY <1>1, <1>2, <1>4, <1>5, <2>1
<1>7. \A k \in 0 .. n : v[k] = u[k]
  BY ONLY <1>6, SameUpTo
<1>8. v[n + 1] = u[n] \o s
  <2>1. n + 1 \in 1 .. n + 1 /\ (n + 1) - 1 = n /\ n \in 0 .. n
    BY <1>1
  <2>. QED BY <1>4, <1>5, <1>7, <2>1
<1>. QED BY <1>1, <1>2, <1>3, <1>5, <1>8 DEF tt

\* One chunk more.
LEMMA SentMore ==
  ASSUME NEW made \in Seq(Chunk), NEW c \in Chunk
  PROVE  /\ Sent(<<>>) = <<>> /\ Sent(made) \in Seq(Symbol)
         /\ Append(made, c) \in Seq(Chunk)
         /\ Sent(Append(made, c)) = Sent(made) \o c.symbols
<1> DEFINE ss == [k \in DOMAIN made |-> made[k].symbols]
           more == Append(made, c)
           tt == [k \in DOMAIN more |-> more[k].symbols]
           n == Len(made)
           S == Seq(Symbol)
<1>1. n \in Nat /\ DOMAIN made = 1 .. n /\ \A k \in 1 .. n : made[k] \in Chunk
  BY LenProperties, ElementOfSeq
<1>2. /\ more \in Seq(Chunk) /\ Len(more) = n + 1 /\ DOMAIN more = 1 .. n + 1
      /\ more[n + 1] = c /\ \A k \in 1 .. n : more[k] = made[k]
  BY AppendProperties, LenProperties
<1>3. (\A k \in 1 .. n : made[k].symbols \in S) /\ c.symbols \in S
  BY <1>1 DEF Chunk
<1> HIDE DEF n, more, S
<1>4. ss \in Seq(S) /\ Len(ss) = n /\ DOMAIN ss = 1 .. n
  BY <1>1, <1>3
<1>5. tt = Append(ss, c.symbols)
  <2>1. DOMAIN tt = 1 .. n + 1 /\ \A k \in 1 .. n + 1 : tt[k] = more[k].symbols
    BY <1>2
  <2>2. \A k \in 1 .. n : ss[k] = made[k].symbols
    BY <1>1
  <2> DEFINE aa == Append(ss, c.symbols)
  <2> HIDE DEF ss
  <2>3. /\ aa \in Seq(S) /\ Len(aa) = n + 1 /\ aa[n + 1] = c.symbols
        /\ \A k \in 1 .. n : aa[k] = ss[k]
    BY <1>3, <1>4, AppendProperties
  <2>4. DOMAIN aa = 1 .. n + 1
    BY <1>1, <2>3, LenProperties
  <2>5. \A k \in 1 .. n + 1 : tt[k] = aa[k]
    <3>1. \A k \in 1 .. n + 1 : k \in 1 .. n \/ k = n + 1
      BY <1>1
    <3>. QED BY <1>2, <2>1, <2>2, <2>3, <3>1
  <2>6. aa = [k \in 1 .. n + 1 |-> aa[k]]
    BY <1>1, <2>3, LenProperties
  <2>7. tt = [k \in 1 .. n + 1 |-> tt[k]]
    BY <1>2
  <2> HIDE DEF aa, tt
  <2>8. tt = aa
    BY <2>5, <2>6, <2>7
  <2>. QED BY <2>8 DEF aa
<1>6. Sent(made) = FlattenSeq(ss) /\ Sent(more) = FlattenSeq(tt)
  BY DEF Sent
<1>7. Sent(<<>>) = <<>>
  <2>1. [k \in DOMAIN <<>> |-> <<>>[k].symbols] = <<>>
    OBVIOUS
  <2>. QED BY <1>4, <2>1, FlattenMore DEF Sent, FlattenSeq
<1> HIDE DEF ss, tt
<1>8. FlattenSeq(ss) \in Seq(Symbol) /\ FlattenSeq(tt) = FlattenSeq(ss) \o c.symbols
  BY <1>3, <1>4, <1>5, FlattenMore DEF S
<1>. QED BY <1>2, <1>6, <1>7, <1>8 DEF more

\* A chunk of several symbols is no larger than the budget and the blank lines
\* between them.
PieceFits(chunk) ==
    Len(chunk.symbols) > 1 => EstimateTokens(chunk.chars) <= Budget + Len(chunk.symbols) - 1

\* What the loop has made of the symbols it has seen.
CharsOf(symbols) == MakeChunk(symbols).chars - 2 * (Len(symbols) - 1)
Holds(loop, seen) ==
    /\ loop \in Filling
    /\ Sent(loop.chunks) \o loop.current = seen
    /\ \A k \in DOMAIN loop.chunks : PieceFits(loop.chunks[k])
    /\ loop.tokens <= Budget
    /\ loop.current = <<>> => loop.tokens = 0
    /\ 5 * CharsOf(loop.current) <= 18 * loop.tokens - Len(loop.current)

\* The chunk of what is being filled fits.
LEMMA FilledFits ==
  ASSUME NEW loop, NEW seen, Holds(loop, seen)
  PROVE  PieceFits(MakeChunk(loop.current))
<1> DEFINE s == loop.current
           n == Len(s)
           c == MakeChunk(s).chars
           t == loop.tokens
<1>1. s \in Seq(Symbol) /\ t \in Nat /\ t <= Budget /\ 5 * (c - 2 * (n - 1)) <= 18 * t - n
  BY DEF Holds, Filling, CharsOf
<1>2. MakeChunk(s) \in Chunk /\ MakeChunk(s).symbols = s
  BY <1>1, ChunkGrows
<1>3. c \in Int /\ n \in Nat /\ Budget \in Nat
  BY <1>1, <1>2, LenProperties, ChunkTypes DEF Chunk
<1> HIDE DEF s, n, c, t
<1>4. n > 1 => (c * 5) \div 18 + 1 <= Budget + n - 1
  <2> SUFFICES ASSUME n > 1 PROVE (c * 5) \div 18 + 1 <= Budget + n - 1
    OBVIOUS
  <2>1. c * 5 <= 18 * t + 9 * n - 10
    BY <1>1, <1>3
  <2>2. c * 5 < 18 * (t + n - 1)
    BY <1>1, <1>3, <2>1
  <2> DEFINE q == (c * 5) \div 18
             r == (c * 5) % 18
  <2>3. q \in Int /\ r \in 0 .. 17 /\ c * 5 = 18 * q + r
    BY <1>3
  <2> HIDE DEF q, r
  <2>4. q < t + n - 1
    BY <1>1, <1>3, <2>2, <2>3
  <2>5. q + 1 <= Budget + n - 1
    BY <1>1, <1>3, <2>3, <2>4
  <2>. QED BY <2>5 DEF q
<1>. QED BY <1>2, <1>4 DEF PieceFits, EstimateTokens, s, n, c

\* Closing a chunk changes nothing of what the symbols are sent in.
LEMMA Flushes ==
  ASSUME NEW loop \in Filling
  PROVE  /\ Flushed(loop) \in Filling
         /\ \A seen : Holds(loop, seen) =>
              /\ Holds(Flushed(loop), seen)
              /\ Flushed(loop).current = <<>> /\ Flushed(loop).tokens = 0
<1>1. loop.chunks \in Seq(Chunk) /\ loop.current \in Seq(Symbol) /\ loop.tokens \in Nat
  BY DEF Filling
<1>2. CASE loop.current = <<>>
  BY <1>2 DEF Flushed, Holds
<1>3. CASE loop.current # <<>>
  <2> DEFINE c == MakeChunk(loop.current)
             next == [chunks |-> Append(loop.chunks, c), current |-> <<>>, tokens |-> 0]
             n == Len(loop.chunks)
  <2>1. Flushed(loop) = next
    BY <1>3 DEF Flushed
  <2>2. c \in Chunk /\ c.symbols = loop.current
    BY <1>1, ChunkGrows
  <2>3. /\ next.chunks = Append(loop.chunks, c) /\ next.current = <<>> /\ next.tokens = 0
    OBVIOUS
  <2>4. /\ Append(loop.chunks, c) \in Seq(Chunk) /\ Sent(loop.chunks) \in Seq(Symbol)
        /\ Sent(Append(loop.chunks, c)) = Sent(loop.chunks) \o loop.current
    BY <1>1, <2>2, SentMore
  <2>5. next \in Filling
    <3>1. <<>> \in Seq(Symbol) /\ 0 \in Nat
      BY EmptySeq
    <3> HIDE DEF c
    <3>. QED BY <2>4, <3>1 DEF Filling
  <2>6. /\ DOMAIN Append(loop.chunks, c) = 1 .. n + 1 /\ Append(loop.chunks, c)[n + 1] = c
        /\ \A k \in 1 .. n : Append(loop.chunks, c)[k] = loop.chunks[k]
        /\ DOMAIN loop.chunks = 1 .. n /\ n \in Nat
    <3> HIDE DEF c
    <3>. QED BY <1>1, <2>2, AppendProperties, LenProperties
  <2>7. ASSUME NEW seen, Holds(loop, seen) PROVE Holds(next, seen)
    <3>1. Sent(next.chunks) \o next.current = seen
      <4>1. Sent(loop.chunks) \o loop.current = seen
        BY <2>7 DEF Holds
      <4>2. Sent(Append(loop.chunks, c)) \in Seq(Symbol)
        <5> HIDE DEF c
        <5>. QED BY <1>1, <2>4, ConcatProperties
      <4> HIDE DEF c, next
      <4>. QED BY <2>3, <2>4, <4>1, <4>2, ConcatEmptySeq
    <3>2. PieceFits(c)
      BY <2>7, FilledFits
    <3>3. \A k \in DOMAIN loop.chunks : PieceFits(loop.chunks[k])
      BY <2>7 DEF Holds
    <3> HIDE DEF c, n
    <3>4. \A k \in DOMAIN next.chunks : PieceFits(next.chunks[k])
      <4> SUFFICES ASSUME NEW k \in 1 .. n + 1 PROVE PieceFits(Append(loop.chunks, c)[k])
        BY <2>6
      <4>1. k \in 1 .. n \/ k = n + 1
        BY <2>6
      <4>. QED BY <2>6, <3>2, <3>3, <4>1
    <3>5. CharsOf(<<>>) = 0 /\ Len(<<>>) = 0
      <4>1. <<>> \in Seq(Symbol) /\ Len(<<>>) = 0
        BY EmptySeq
      <4>2. MakeChunk(<<>>).chars = 0 - 2
        BY <4>1, ChunkGrows
      <4>. QED BY <4>1, <4>2 DEF CharsOf
    <3>6. Budget \in Nat
      BY ChunkTypes
    <3> HIDE DEF next
    <3>7. next.tokens <= Budget
      BY <2>3, <3>6
    <3>8. 5 * CharsOf(next.current) <= 18 * next.tokens - Len(next.current)
      BY <2>3, <3>5
    <3>. QED BY <2>3, <2>5, <3>1, <3>4, <3>7, <3>8 DEF Holds
  <2>. QED BY <2>1, <2>3, <2>5, <2>7
<1>. QED BY <1>2, <1>3

\* An element is put behind two sequences as it is behind the second of them.
LEMMA AppendBehind ==
  ASSUME NEW T, NEW a \in Seq(T), NEW b \in Seq(T), NEW x \in T
  PROVE  a \o Append(b, x) = Append(a \o b, x)
<1>1. a \o b \in Seq(T) /\ <<x>> \in Seq(T)
  BY ConcatProperties
<1>2. Append(b, x) = b \o <<x>> /\ Append(a \o b, x) = (a \o b) \o <<x>>
  BY <1>1, AppendIsConcat
<1> DEFINE e == <<x>>
<1>3. e \in Seq(T)
  BY <1>1
<1> HIDE DEF e
<1>4. (a \o b) \o e = a \o (b \o e)
  BY <1>3, ConcatAssociative
<1>. QED BY <1>2, <1>4 DEF e

\* One symbol more behind what is being filled.
LEMMA Fills ==
  ASSUME NEW loop \in Filling, NEW x \in Symbol, NEW next,
         next = [chunks |-> loop.chunks, current |-> Append(loop.current, x),
                 tokens |-> loop.tokens + TokensOf(x)]
  PROVE  /\ next \in Filling
         /\ \A seen : Holds(loop, seen) /\ loop.tokens + TokensOf(x) <= Budget =>
              Holds(next, Append(seen, x))
<1> DEFINE s == loop.current
           n == Len(s)
           t == loop.tokens
           d == TokensOf(x)
<1>1. loop.chunks \in Seq(Chunk) /\ s \in Seq(Symbol) /\ t \in Nat /\ n \in Nat
  BY LenProperties DEF Filling
<1>2. x.chars \in Nat /\ d \in Nat /\ d > 0 /\ 5 * x.chars <= 18 * d - 1
  BY ChunkTypes DEF Symbol, TokensOf
<1>3. Append(s, x) \in Seq(Symbol) /\ Len(Append(s, x)) = n + 1 /\ Append(s, x) # <<>>
  BY <1>1, AppendProperties, EmptySeq
<1>4. next.chunks = loop.chunks /\ next.current = Append(s, x) /\ next.tokens = t + d
  OBVIOUS
<1>5. next \in Filling
  BY <1>1, <1>2, <1>3 DEF Filling
<1>6. ASSUME NEW seen, Holds(loop, seen), t + d <= Budget PROVE Holds(next, Append(seen, x))
  <2>1. Sent(next.chunks) \o next.current = Append(seen, x)
    <3>1. Sent(loop.chunks) \o s = seen /\ Sent(loop.chunks) \in Seq(Symbol)
      <4>1. MakeChunk(s) \in Chunk
        BY <1>1, ChunkGrows
      <4>. QED BY <1>1, <1>6, <4>1, SentMore DEF Holds
    <3> DEFINE a == Sent(loop.chunks)
    <3> HIDE DEF a, s
    <3>2. a \in Seq(Symbol) /\ a \o s = seen
      BY <3>1 DEF a
    <3>3. a \o Append(s, x) = Append(a \o s, x)
      BY <1>1, <3>2, AppendBehind
    <3>4. Sent(next.chunks) \o next.current = a \o Append(s, x)
      BY <1>4 DEF a
    <3>. QED BY <3>2, <3>3, <3>4
  <2>2. 5 * CharsOf(Append(s, x)) <= 18 * (t + d) - (n + 1)
    <3> DEFINE c == MakeChunk(s).chars
    <3>1. MakeChunk(Append(s, x)).chars = c + 2 + x.chars /\ MakeChunk(s) \in Chunk
      BY <1>1, ChunkGrows
    <3>2. c \in Int
      BY <3>1 DEF Chunk
    <3>3. 5 * (c - 2 * (n - 1)) <= 18 * t - n
      BY <1>6 DEF Holds, CharsOf
    <3> HIDE DEF c, n, t, d, s
    <3>4. 5 * ((c + 2 + x.chars) - 2 * ((n + 1) - 1)) <= 18 * (t + d) - (n + 1)
      BY <1>1, <1>2, <3>2, <3>3
    <3>. QED BY <1>3, <3>1, <3>4 DEF CharsOf, c
  <2>3. \A k \in DOMAIN loop.chunks : PieceFits(loop.chunks[k])
    BY <1>6 DEF Holds
  <2> HIDE DEF n, t, d, s
  <2>. QED BY <1>3, <1>4, <1>5, <1>6, <2>1, <2>2, <2>3 DEF Holds
<1>. QED BY <1>5, <1>6

\* A symbol above the budget gets a chunk of its own, cut.
LEMMA OversizedChunk ==
  ASSUME NEW x \in Symbol
  PROVE  /\ MakeOversizedChunk(x) \in Chunk /\ MakeOversizedChunk(x).symbols = <<x>>
         /\ PieceFits(MakeOversizedChunk(x))
<1> DEFINE c == MakeOversizedChunk(x)
           most == Chars(Budget)
<1>1. most \in Nat /\ Notice \in Nat /\ x.chars \in Nat
  BY ChunkTypes DEF Symbol
<1> HIDE DEF most
<1>2. c = [symbols |-> <<x>>, truncated |-> x.chars > most,
           chars |-> IF x.chars > most THEN most + Notice ELSE x.chars]
  BY DEF MakeOversizedChunk, most
<1>3. <<x>> \in Seq(Symbol) /\ Len(<<x>>) = 1
  OBVIOUS
<1>4. (x.chars > most) \in BOOLEAN
  OBVIOUS
<1>5. (IF x.chars > most THEN most + Notice ELSE x.chars) \in Int
  BY <1>1
<1>6. c \in Chunk /\ c.symbols = <<x>>
  BY <1>2, <1>3, <1>4, <1>5 DEF Chunk
<1>7. PieceFits(c)
  BY <1>3, <1>6 DEF PieceFits
<1>. QED BY <1>6, <1>7

\* A step of the loop sends one symbol more.
LEMMA Adding ==
  ASSUME NEW loop \in Filling, NEW x \in Symbol
  PROVE  /\ AddSymbol(loop, x) \in Filling
         /\ \A seen : Holds(loop, seen) => Holds(AddSymbol(loop, x), Append(seen, x))
<1>1. TokensOf(x) \in Nat /\ Budget \in Nat
  BY ChunkTypes DEF TokensOf, Symbol
<1>2. Flushed(loop) \in Filling
  BY Flushes
<1>3. CASE Oversized(x)
  <2> DEFINE done == Flushed(loop)
             c == MakeOversizedChunk(x)
             next == [chunks |-> Append(done.chunks, c), current |-> done.current,
                      tokens |-> done.tokens]
             n == Len(done.chunks)
  <2>1. c \in Chunk /\ c.symbols = <<x>> /\ PieceFits(c)
    BY OversizedChunk
  <2>2. done \in [chunks : Seq(Chunk), current : Seq(Symbol), tokens : Nat]
    BY <1>2 DEF Filling
  <2> HIDE DEF done, c
  <2>3. [done EXCEPT !.chunks = Append(@, c)] = next
    <3>1. done = [chunks |-> done.chunks, current |-> done.current, tokens |-> done.tokens]
      BY <2>2
    <3>. QED BY <3>1
  <2>4. AddSymbol(loop, x) = next
    BY <1>3, <2>3 DEF AddSymbol, done, c
  <2>5. /\ done.chunks \in Seq(Chunk) /\ done.current \in Seq(Symbol) /\ done.tokens \in Nat
        /\ next.chunks = Append(done.chunks, c) /\ next.current = done.current
        /\ next.tokens = done.tokens
    BY <2>2
  <2>6. /\ Append(done.chunks, c) \in Seq(Chunk) /\ Sent(done.chunks) \in Seq(Symbol)
        /\ Sent(Append(done.chunks, c)) = Sent(done.chunks) \o <<x>>
    BY <2>1, <2>5, SentMore
  <2>7. next \in Filling
    BY <2>5, <2>6 DEF Filling
  <2>8. /\ DOMAIN Append(done.chunks, c) = 1 .. n + 1 /\ Append(done.chunks, c)[n + 1] = c
        /\ \A k \in 1 .. n : Append(done.chunks, c)[k] = done.chunks[k]
        /\ DOMAIN done.chunks = 1 .. n /\ n \in Nat
    BY <2>1, <2>5, AppendProperties, LenProperties
  <2> HIDE DEF next, n
  <2>9. ASSUME NEW seen, Holds(loop, seen) PROVE Holds(next, Append(seen, x))
    <3>1. Holds(done, seen) /\ done.current = <<>> /\ done.tokens = 0
      BY <2>9, Flushes DEF done
    <3>2. Sent(next.chunks) \o next.current = Append(seen, x)
      <4> DEFINE a == Sent(done.chunks)
      <4>1. a \in Seq(Symbol) /\ a \o <<>> = seen
        BY <2>6, <3>1 DEF Holds
      <4>2. Sent(next.chunks) = a \o <<x>> /\ next.current = <<>>
        BY <2>5, <2>6, <3>1
      <4> HIDE DEF a
      <4>3. a = seen /\ Append(a, x) = a \o <<x>> /\ Append(a, x) \in Seq(Symbol)
        BY <4>1, ConcatEmptySeq, AppendIsConcat, AppendProperties
      <4>4. Append(a, x) \o <<>> = Append(a, x)
        BY <4>3, ConcatEmptySeq
      <4>. QED BY <4>2, <4>3, <4>4
    <3>3. \A k \in DOMAIN done.chunks : PieceFits(done.chunks[k])
      BY <3>1 DEF Holds
    <3>4. \A k \in DOMAIN next.chunks : PieceFits(next.chunks[k])
      <4> SUFFICES ASSUME NEW k \in 1 .. n + 1 PROVE PieceFits(Append(done.chunks, c)[k])
        BY <2>5, <2>8
      <4>1. k \in 1 .. n \/ k = n + 1
        BY <2>8
      <4>. QED BY <2>1, <2>8, <3>3, <4>1
    <3>. QED BY <2>5, <2>7, <3>1, <3>2, <3>4 DEF Holds
  <2>. QED BY <2>4, <2>7, <2>9
<1>4. CASE ~Oversized(x)
  <2> DEFINE room == IF OverBudget(loop, x) THEN Flushed(loop) ELSE loop
             next == [chunks |-> room.chunks, current |-> Append(room.current, x),
                      tokens |-> room.tokens + TokensOf(x)]
  <2>1. room \in Filling
    BY <1>2
  <2>2. \A seen : Holds(loop, seen) =>
          Holds(room, seen) /\ room.tokens + TokensOf(x) <= Budget
    <3>1. CASE OverBudget(loop, x)
      <4>1. TokensOf(x) <= Budget
        BY <1>1, <1>4 DEF Oversized
      <4>2. room = Flushed(loop)
        BY <3>1
      <4>. QED BY <1>1, <4>1, <4>2, Flushes
    <3>2. CASE ~OverBudget(loop, x)
      <4>1. room = loop
        BY <3>2
      <4>2. loop.tokens \in Nat
        BY DEF Filling
      <4>3. loop.tokens + TokensOf(x) <= Budget
        BY <1>1, <3>2, <4>2 DEF OverBudget
      <4>. QED BY <4>1, <4>3
    <3>. QED BY <3>1, <3>2
  <2>3. AddSymbol(loop, x) = next
    BY <1>4 DEF AddSymbol
  <2> HIDE DEF room
  <2>4. /\ next \in Filling
        /\ \A seen : Holds(room, seen) /\ room.tokens + TokensOf(x) <= Budget =>
             Holds(next, Append(seen, x))
    BY <2>1, Fills
  <2> HIDE DEF next
  <2>. QED BY <2>2, <2>3, <2>4
<1>. QED BY <1>3, <1>4

\* The loop over the symbols of a file.
EmptyFilling == [chunks |-> <<>>, current |-> <<>>, tokens |-> 0]
Loops(s, f) ==
    f = [i \in 0 .. Len(s) |-> IF i = 0 THEN EmptyFilling
                               ELSE LET before == f[i - 1] IN AddSymbol(before, s[i])]

\* A sequence grows element by element.
LEMMA NextElement ==
  ASSUME NEW T, NEW s \in Seq(T), NEW k \in 1 .. Len(s)
  PROVE  SubSeq(s, 1, k) = Append(SubSeq(s, 1, k - 1), s[k])
<1> DEFINE a == SubSeq(s, 1, k)
           b == SubSeq(s, 1, k - 1)
<1>1. Len(s) \in Nat /\ \A i \in 1 .. Len(s) : s[i] \in T
  BY LenProperties, ElementOfSeq
<1>2. a \in Seq(T) /\ Len(a) = k /\ \A i \in 1 .. k : a[i] = s[i]
  BY <1>1
<1>3. b \in Seq(T) /\ Len(b) = k - 1 /\ \A i \in 1 .. k - 1 : b[i] = s[i]
  BY <1>1
<1> HIDE DEF a, b
<1>4. /\ Append(b, s[k]) \in Seq(T) /\ Len(Append(b, s[k])) = (k - 1) + 1
      /\ Append(b, s[k])[(k - 1) + 1] = s[k]
      /\ \A i \in 1 .. k - 1 : Append(b, s[k])[i] = b[i]
  BY <1>1, <1>3, AppendProperties
<1>5. \A i \in 1 .. k : a[i] = Append(b, s[k])[i]
  <2>1. (k - 1) + 1 = k /\ \A i \in 1 .. k : i = k \/ i \in 1 .. k - 1
    BY <1>1
  <2>. QED BY <1>2, <1>3, <1>4, <2>1
<1>6. Len(Append(b, s[k])) = k
  BY <1>1, <1>4
<1>7. a = Append(b, s[k])
  BY <1>2, <1>4, <1>5, <1>6, SeqEqual
<1>. QED BY <1>7 DEF a, b

\* The chunks of a file hold its symbols, each one once and in their order.
LEMMA SymbolsChunked ==
  ASSUME NEW s \in Seq(Symbol)
  PROVE  /\ SymbolChunks(s) \in Seq(Chunk) /\ Sent(SymbolChunks(s)) = s
         /\ \A k \in DOMAIN SymbolChunks(s) : PieceFits(SymbolChunks(s)[k])
<1> DEFINE n == Len(s)
           g == [p \in (1 .. n) \X Filling |-> AddSymbol(p[2], s[p[1]])]
           w == CHOOSE f : Loops(s, f)
           seen(k) == SubSeq(s, 1, k)
<1>1. n \in Nat /\ \A k \in 1 .. n : s[k] \in Symbol
  BY LenProperties, ElementOfSeq
<1>2. EmptyFilling \in Filling /\ Holds(EmptyFilling, <<>>)
  <2>1. <<>> \in Seq(Symbol) /\ Len(<<>>) = 0 /\ <<>> \in Seq(Chunk) /\ DOMAIN <<>> = {}
    BY EmptySeq
  <2>2. EmptyFilling \in Filling
    BY <2>1 DEF EmptyFilling, Filling
  <2>3. Sent(<<>>) \o <<>> = <<>>
    <3>1. MakeChunk(<<>>) \in Chunk
      BY <2>1, ChunkGrows
    <3>2. Sent(<<>>) = <<>>
      BY <2>1, <3>1, SentMore
    <3>. QED BY <3>2
  <2>4. CharsOf(<<>>) = 0
    <3>1. MakeChunk(<<>>).chars = 0 - 2
      BY <2>1, ChunkGrows
    <3>. QED BY <2>1, <3>1 DEF CharsOf
  <2>. QED BY <2>1, <2>2, <2>3, <2>4, ChunkTypes DEF Holds, EmptyFilling
<1>3. ASSUME NEW k \in 1 .. n, NEW l \in Filling
      PROVE  g[<<k, l>>] = AddSymbol(l, s[k]) /\ AddSymbol(l, s[k]) \in Filling
  BY <1>1, Adding
<1>4. g \in [(1 .. n) \X Filling -> Filling]
  <2>1. \A p \in (1 .. n) \X Filling : p[1] \in 1 .. n /\ p[2] \in Filling
    OBVIOUS
  <2>. QED BY <1>3, <2>1
<1> HIDE DEF g, n
<1>5. PICK u \in [0 .. n -> Filling] :
        u[0] = EmptyFilling /\ \A k \in 1 .. n : u[k] = g[<<k, u[k - 1]>>]
  <2>1. Leads(n, Filling, EmptyFilling, g)
    BY <1>1, <1>2, <1>4, Recursion
  <2>. QED BY <2>1 DEF Leads
<1>6. \A k \in 1 .. n : k - 1 \in 0 .. n /\ u[k - 1] \in Filling
                        /\ u[k] = AddSymbol(u[k - 1], s[k])
  <2>1. \A k \in 1 .. n : k - 1 \in 0 .. n /\ u[k - 1] \in Filling
    BY <1>1, <1>5
  <2>. QED BY <1>3, <1>5, <2>1
<1>7. Loops(s, u)
  <2>1. \A k \in 0 .. n : u[k] = IF k = 0 THEN EmptyFilling ELSE AddSymbol(u[k - 1], s[k])
    <3>1. \A k \in 0 .. n : k = 0 \/ k \in 1 .. n
      BY <1>1
    <3>. QED BY <1>5, <1>6, <3>1
  <2>2. u = [k \in 0 .. n |-> u[k]]
    BY <1>5
  <2>. QED BY <2>1, <2>2 DEF Loops, n
<1>8. Loops(s, w)
  BY <1>7
<1>9. SymbolChunks(s) = Flushed(w[n]).chunks
  BY DEF SymbolChunks, Loops, EmptyFilling, n
<1> HIDE DEF w
<1>10. \A k \in 0 .. n : w[k] = IF k = 0 THEN EmptyFilling ELSE AddSymbol(w[k - 1], s[k])
  BY <1>8 DEF Loops, n
<1>11. n \in Nat /\ w[0] = u[0] /\ \A k \in 1 .. n : w[k - 1] = u[k - 1] => w[k] = u[k]
  <2>1. 0 \in 0 .. n /\ \A k \in 1 .. n : k \in 0 .. n /\ k # 0
    BY <1>1
  <2>. QED BY <1>1, <1>5, <1>6, <1>10, <2>1
<1>12. \A k \in 0 .. n : w[k] = u[k]
  BY ONLY <1>11, SameUpTo
<1> DEFINE C == {k \in 0 .. n : Holds(u[k], seen(k))}
<1>13. 0 \in C
  <2>1. seen(0) = <<>> /\ 0 \in 0 .. n
    BY <1>1
  <2> HIDE DEF seen
  <2>2. Holds(u[0], seen(0))
    BY <1>2, <1>5, <2>1
  <2>. QED BY <2>1, <2>2
<1>14. ASSUME NEW k \in 0 .. n - 1, k \in C PROVE k + 1 \in C
  <2>1. k + 1 \in 1 .. n /\ (k + 1) - 1 = k /\ k + 1 \in 0 .. n
    BY <1>1
  <2>2. Holds(u[k], seen(k)) /\ u[k] \in Filling /\ s[k + 1] \in Symbol
    BY <1>1, <1>5, <1>14, <2>1
  <2>3. u[k + 1] = AddSymbol(u[k], s[k + 1])
    BY <1>6, <2>1
  <2>4. seen(k + 1) = Append(seen(k), s[k + 1])
    BY <2>1, NextElement DEF n
  <2> HIDE DEF seen
  <2>5. Holds(u[k + 1], seen(k + 1))
    BY <2>2, <2>3, <2>4, Adding
  <2>. QED BY <2>1, <2>5
<1> HIDE DEF C
<1>15. Holds(u[n], seen(n)) /\ u[n] \in Filling /\ w[n] = u[n]
  <2>1. 0 .. n \subseteq C
    BY <1>1, <1>13, <1>14, UpTo
  <2>2. n \in 0 .. n
    BY <1>1
  <2>. QED BY <1>5, <1>12, <2>1, <2>2 DEF C
<1>16. seen(n) = s
  BY <1>1 DEF n
<1> HIDE DEF seen
<1> DEFINE last == Flushed(u[n])
<1>17. Holds(last, s) /\ last.current = <<>> /\ last \in Filling /\ SymbolChunks(s) = last.chunks
  BY <1>9, <1>15, <1>16, Flushes
<1> HIDE DEF last
<1>18. last.chunks \in Seq(Chunk) /\ Sent(last.chunks) \o <<>> = s
  BY <1>17 DEF Holds, Filling
<1>19. Sent(last.chunks) \in Seq(Symbol)
  <2>1. MakeChunk(<<>>) \in Chunk
    BY EmptySeq, ChunkGrows
  <2>. QED BY <1>18, <2>1, SentMore
<1>20. Sent(last.chunks) = s
  BY <1>18, <1>19, ConcatEmptySeq
<1>. QED BY <1>17, <1>18, <1>20 DEF Holds

\* The order of the visible nodes, and the classes around one of them.
LEMMA OrderedNodes ==
  ASSUME NEW nodes \in Tree
  PROVE  /\ Ordered(Visible(nodes), LAMBDA a, b : a < b) = Ascending(Visible(nodes))
         /\ \A j \in DOMAIN nodes : ClassOf(nodes, j) = Classes(nodes, 0, j)
<1>1. \A P : Ordered(P, LAMBDA a, b : a < b) = Ascending(P)
  BY DEF Ordered, Nth, Ascending
<1>2. ASSUME NEW j \in DOMAIN nodes PROVE ClassOf(nodes, j) = Classes(nodes, 0, j)
  <2> DEFINE A == Around(nodes, 0, j)
             order == Ascending(A)
             m == Cardinality(A)
  <2>1. Len(nodes) \in Nat /\ DOMAIN nodes = 1 .. Len(nodes)
    BY TreeTypes
  <2>2. A = {a \in Above(nodes, j) : nodes[a].kind = "container" /\ nodes[a].name # Unnamed}
    <3>1. Between(nodes, 0, j) = Above(nodes, j)
      BY <2>1 DEF Between, Above
    <3>. QED BY <3>1 DEF Around
  <2>3. A \in SUBSET (DOMAIN nodes)
    BY <2>1 DEF Around, Between, Above
  <2> HIDE DEF A
  <2>4. ClassOf(nodes, j) = [i \in DOMAIN order |-> nodes[order[i]].name]
    BY <2>2 DEF ClassOf, Ordered, Nth, Ascending
  <2>5. IsFiniteSet(A) /\ A \in SUBSET Nat
    <3>1. IsFiniteSet(1 .. Len(nodes))
      BY <2>1, FS_Interval
    <3>. QED BY <2>1, <2>3, <3>1, FS_Subset
  <2>6. DOMAIN order = 1 .. m /\ \A i \in 1 .. m : order[i] \in DOMAIN nodes
    BY <2>3, <2>5, AscendingAll DEF Ascending
  <2>7. Classes(nodes, 0, j) = [i \in 1 .. m |-> NamesOf(nodes)[order[i]]]
    BY AtAscending DEF Classes, A
  <2> HIDE DEF order, m
  <2>8. \A i \in 1 .. m : NamesOf(nodes)[order[i]] = nodes[order[i]].name
    BY <2>6 DEF NamesOf
  <2>. QED BY <2>4, <2>6, <2>7, <2>8
<1>. QED BY <1>1, <1>2

\* The symbols of a file are sent in the order of the file, under their classes.
LEMMA ChunksInOrder ==
  ASSUME NEW nodes \in Tree, NEW sent, sent = Symbols(nodes),
         NEW order, order = Ascending(Visible(nodes))
  PROVE  /\ order # <<>> <=> Symbols(nodes) # <<>>
         /\ [i \in DOMAIN sent |-> <<sent[i].at, sent[i].parent>>] =
            [i \in DOMAIN order |-> <<order[i], ClassOf(nodes, order[i])>>]
<1> DEFINE V == Visible(nodes)
           F == SymbolsFrom(nodes, 0, <<>>)
           m == Cardinality(V)
<1>1. /\ Symbols(nodes) = At(F, V) /\ F \in Seq(Symbol) /\ DOMAIN F = 1 .. Len(nodes)
      /\ V \in SUBSET (1 .. Len(nodes)) /\ Len(nodes) \in Nat /\ DOMAIN nodes = 1 .. Len(nodes)
  BY SymbolsListed, TreeTypes
<1>2. order = Ascending(V) /\ \A j \in DOMAIN nodes : ClassOf(nodes, j) = Classes(nodes, 0, j)
  BY OrderedNodes
<1>3. \A j \in 1 .. Len(nodes) : F[j].at = j /\ F[j].parent = ClassOf(nodes, j)
  <2> SUFFICES ASSUME NEW j \in 1 .. Len(nodes)
               PROVE  F[j].at = j /\ F[j].parent = ClassOf(nodes, j)
    OBVIOUS
  <2>1. F[j].at = j /\ F[j].parent = <<>> \o Classes(nodes, 0, j)
    BY <1>1 DEF SymbolsFrom
  <2>2. Classes(nodes, 0, j) \in Seq(STRING)
    <3>1. 0 \in 0 .. Len(nodes) /\ <<>> \in Seq(STRING)
      BY <1>1
    <3>. QED BY <3>1, SymbolTypes
  <2>3. <<>> \o Classes(nodes, 0, j) = Classes(nodes, 0, j)
    BY <2>2, ConcatEmptySeq
  <2>. QED BY <1>1, <1>2, <2>1, <2>3
<1> HIDE DEF V, F
<1>4. IsFiniteSet(V) /\ V \in SUBSET Nat /\ m \in Nat
  <2>1. IsFiniteSet(1 .. Len(nodes))
    BY <1>1, IntervalFinite
  <2>2. IsFiniteSet(V)
    BY <1>1, <2>1, FS_Subset
  <2>. QED BY <1>1, <2>2, FS_CardinalityType
<1>5. DOMAIN order = 1 .. m /\ \A i \in 1 .. m : order[i] \in 1 .. Len(nodes)
  <2>1. \A i \in 1 .. m : Ascending(V)[i] \in V
    BY <1>4, AscendingAll
  <2>. QED BY <1>1, <1>2, <2>1 DEF Ascending
<1>6. sent = [i \in 1 .. m |-> F[order[i]]]
  BY <1>1, <1>2, AtAscending
<1> HIDE DEF m
<1>7. \A i \in 1 .. m : sent[i].at = order[i] /\ sent[i].parent = ClassOf(nodes, order[i])
  BY <1>3, <1>5, <1>6
<1>8. DOMAIN sent = 1 .. m
  BY <1>6
<1>9. [i \in DOMAIN sent |-> <<sent[i].at, sent[i].parent>>] =
      [i \in DOMAIN order |-> <<order[i], ClassOf(nodes, order[i])>>]
  BY <1>5, <1>7, <1>8
<1>10. order # <<>> <=> Symbols(nodes) # <<>>
  <2>1. order = <<>> <=> m = 0
    <3>1. order = [i \in 1 .. m |-> order[i]]
      BY <1>2, <1>5 DEF Ascending, m
    <3>2. order \in Seq(Nat) /\ Len(order) = m
      BY <1>1, <1>4, <1>5, <3>1
    <3>. QED BY <3>2, EmptySeq
  <2>2. sent = <<>> <=> m = 0
    <3>1. sent \in Seq(Symbol) /\ Len(sent) = m
      <4>1. \A i \in 1 .. m : F[order[i]] \in Symbol
        BY <1>1, <1>5, ElementOfSeq
      <4>. QED BY <1>4, <1>6, <4>1
    <3>. QED BY <3>1, EmptySeq
  <2>. QED BY <2>1, <2>2
<1>. QED BY <1>9, <1>10

-----------------------------------------------------------------------------
(* A file without symbols: the ranges of its lines.                        *)

Ranges == [from : Nat, to : Nat]
Cutting == [chunks : Seq(Ranges), start : Nat, chars : Nat]

\* The ranges a line is in; each line up to m is in exactly one, the others in
\* none.
In(ranges, j) == {k \in DOMAIN ranges : j \in ranges[k].from .. ranges[k].to}
Tiled(ranges, m) ==
    /\ ranges \in Seq(Ranges)
    /\ \A j \in Nat : j > m => In(ranges, j) = {}
    /\ \A j \in 1 .. m : \E k \in DOMAIN ranges : In(ranges, j) = {k}
Cuts(loop, i) == loop.start \in 1 .. i + 1 /\ Tiled(loop.chunks, loop.start - 1)

\* One range more.
LEMMA TiledMore ==
  ASSUME NEW ranges, NEW m \in Nat, NEW i \in Nat, m <= i, Tiled(ranges, m)
  PROVE  Tiled(Append(ranges, [from |-> m + 1, to |-> i]), i)
<1> DEFINE r == [from |-> m + 1, to |-> i]
           more == Append(ranges, r)
           n == Len(ranges)
<1>1. ranges \in Seq(Ranges) /\ n \in Nat /\ DOMAIN ranges = 1 .. n
  BY LenProperties DEF Tiled
<1>2. r \in Ranges /\ r.from = m + 1 /\ r.to = i
  BY DEF Ranges
<1> HIDE DEF r
<1>3. /\ more \in Seq(Ranges) /\ DOMAIN more = 1 .. n + 1 /\ more[n + 1] = r
      /\ \A k \in 1 .. n : more[k] = ranges[k]
  BY <1>1, <1>2, AppendProperties, LenProperties
<1> HIDE DEF more, n
<1>4. \A j : In(more, j) = In(ranges, j) \cup (IF j \in m + 1 .. i THEN {n + 1} ELSE {})
  <2>1. \A k \in 1 .. n + 1 : k \in 1 .. n \/ k = n + 1
    BY <1>1
  <2>2. 1 .. n \subseteq 1 .. n + 1 /\ n + 1 \in 1 .. n + 1
    BY <1>1
  <2>. QED BY <1>1, <1>2, <1>3, <2>1, <2>2 DEF In
<1>5. ASSUME NEW j \in Nat, j > i PROVE In(more, j) = {}
  <2>1. j > m /\ j \notin m + 1 .. i
    BY <1>5
  <2>. QED BY <1>4, <2>1 DEF Tiled
<1>6. ASSUME NEW j \in 1 .. i PROVE \E k \in DOMAIN more : In(more, j) = {k}
  <2>1. CASE j \in 1 .. m
    <3>1. j \notin m + 1 .. i
      BY <2>1
    <3>2. PICK k \in DOMAIN ranges : In(ranges, j) = {k}
      BY <2>1 DEF Tiled
    <3>3. k \in DOMAIN more
      BY <1>1, <1>3, <3>2
    <3>. QED BY <1>4, <3>1, <3>2, <3>3
  <2>2. CASE j \in m + 1 .. i
    <3>1. j \in Nat /\ j > m /\ n + 1 \in DOMAIN more
      BY <1>1, <1>3, <2>2
    <3>2. In(ranges, j) = {}
      BY <3>1 DEF Tiled
    <3>. QED BY <1>4, <2>2, <3>1, <3>2
  <2>. QED BY <1>6, <2>1, <2>2
<1>7. Tiled(more, i)
  BY <1>3, <1>5, <1>6 DEF Tiled
<1>. QED BY <1>7 DEF more, r

\* A step of the loop over the lines.
LEMMA AddingLine ==
  ASSUME NEW loop \in Cutting, NEW lines \in Seq(Nat), NEW i \in 1 .. Len(lines)
  PROVE  /\ AddLine(loop, lines, i) \in Cutting
         /\ Cuts(loop, i - 1) => Cuts(AddLine(loop, lines, i), i)
<1> DEFINE chars == loop.chars + lines[i] + 1
           r == [from |-> loop.start, to |-> i]
           next == AddLine(loop, lines, i)
<1>1. Len(lines) \in Nat /\ lines[i] \in Nat
  BY LenProperties, ElementOfSeq
<1>2. /\ loop.chunks \in Seq(Ranges) /\ loop.start \in Nat /\ loop.chars \in Nat
      /\ loop = [chunks |-> loop.chunks, start |-> loop.start, chars |-> loop.chars]
  BY DEF Cutting
<1>3. chars \in Nat /\ r \in Ranges
  BY <1>1, <1>2 DEF Ranges
<1> HIDE DEF chars
<1>4. CASE chars >= Chars(MaxTokens)
  <2>1. next = [chunks |-> Append(loop.chunks, r), start |-> i + 1, chars |-> 0]
    BY <1>4 DEF AddLine, chars
  <2>2. next.chunks = Append(loop.chunks, r) /\ next.start = i + 1
    BY <2>1
  <2>3. Append(loop.chunks, r) \in Seq(Ranges)
    <3> HIDE DEF r
    <3>. QED BY <1>2, <1>3, AppendProperties
  <2>4. next \in Cutting
    <3> HIDE DEF r, next
    <3>. QED BY <2>1, <2>3 DEF Cutting
  <2>5. ASSUME Cuts(loop, i - 1) PROVE Cuts(next, i)
    <3>1. loop.start \in 1 .. i /\ Tiled(loop.chunks, loop.start - 1)
      BY <2>5 DEF Cuts
    <3>2. /\ loop.start - 1 \in Nat /\ loop.start - 1 <= i /\ i \in Nat
          /\ (loop.start - 1) + 1 = loop.start
      BY <3>1
    <3>3. Tiled(Append(loop.chunks, [from |-> (loop.start - 1) + 1, to |-> i]), i)
      BY <3>1, <3>2, TiledMore
    <3>4. Tiled(Append(loop.chunks, r), i)
      BY <3>2, <3>3
    <3> HIDE DEF next, r
    <3>5. next.start - 1 = i /\ next.start \in 1 .. i + 1
      BY <2>2, <3>2
    <3>. QED BY <2>2, <3>4, <3>5 DEF Cuts
  <2>. QED BY <2>4, <2>5
<1>5. CASE ~(chars >= Chars(MaxTokens))
  <2>1. next = [loop EXCEPT !.chars = chars]
    BY <1>5 DEF AddLine, chars
  <2>2. next = [chunks |-> loop.chunks, start |-> loop.start, chars |-> chars]
    BY <1>2, <2>1
  <2> HIDE DEF next
  <2>3. next \in Cutting
    BY <1>2, <1>3, <2>2 DEF Cutting
  <2>4. next.chunks = loop.chunks /\ next.start = loop.start
    BY <2>2
  <2>5. ASSUME Cuts(loop, i - 1) PROVE Cuts(next, i)
    <3>1. loop.start \in 1 .. i /\ Tiled(loop.chunks, loop.start - 1)
      BY <2>5 DEF Cuts
    <3>2. loop.start \in 1 .. i + 1
      BY <3>1
    <3>. QED BY <2>4, <3>1, <3>2 DEF Cuts
  <2>. QED BY <2>3, <2>5 DEF next
<1>. QED BY <1>4, <1>5

\* The loop over the lines of a file.
EmptyCutting == [chunks |-> <<>>, start |-> 1, chars |-> 0]
LoopsLines(lines, f) ==
    f = [i \in 0 .. Len(lines) |-> IF i = 0 THEN EmptyCutting
                                   ELSE LET before == f[i - 1] IN AddLine(before, lines, i)]

\* Each line is in one range, but for blank ones at the end.
LEMMA LinesCut ==
  ASSUME NEW lines \in Seq(Nat)
  PROVE  \A i \in DOMAIN lines :
           LET in == In(LineChunks(lines), i) IN
           \/ Cardinality(in) = 1
           \/ in = {} /\ \A j \in i .. Len(lines) : lines[j] = 0
<1> DEFINE n == Len(lines)
           g == [p \in (1 .. n) \X Cutting |-> AddLine(p[2], lines, p[1])]
           w == CHOOSE f : LoopsLines(lines, f)
<1>1. n \in Nat /\ DOMAIN lines = 1 .. n /\ \A k \in 1 .. n : lines[k] \in Nat
  BY LenProperties, ElementOfSeq
<1>2. EmptyCutting \in Cutting /\ Cuts(EmptyCutting, 0)
  <2>1. <<>> \in Seq(Ranges) /\ DOMAIN <<>> = {}
    BY EmptySeq
  <2>2. EmptyCutting \in Cutting
    BY <2>1 DEF EmptyCutting, Cutting
  <2>3. Tiled(<<>>, 1 - 1)
    <3>1. \A j \in 1 .. 1 - 1 : FALSE
      OBVIOUS
    <3>. QED BY <2>1, <3>1 DEF Tiled, In
  <2>4. EmptyCutting.start = 1 /\ EmptyCutting.chunks = <<>>
    BY DEF EmptyCutting
  <2>. QED BY <2>2, <2>3, <2>4 DEF Cuts
<1>3. ASSUME NEW k \in 1 .. n, NEW l \in Cutting
      PROVE  g[<<k, l>>] = AddLine(l, lines, k) /\ AddLine(l, lines, k) \in Cutting
  BY <1>1, AddingLine
<1>4. g \in [(1 .. n) \X Cutting -> Cutting]
  <2>1. \A p \in (1 .. n) \X Cutting : p[1] \in 1 .. n /\ p[2] \in Cutting
    OBVIOUS
  <2>. QED BY <1>3, <2>1
<1> HIDE DEF g, n
<1>5. PICK u \in [0 .. n -> Cutting] :
        u[0] = EmptyCutting /\ \A k \in 1 .. n : u[k] = g[<<k, u[k - 1]>>]
  <2>1. Leads(n, Cutting, EmptyCutting, g)
    BY <1>1, <1>2, <1>4, Recursion
  <2>. QED BY <2>1 DEF Leads
<1>6. \A k \in 1 .. n : k - 1 \in 0 .. n /\ u[k - 1] \in Cutting
                        /\ u[k] = AddLine(u[k - 1], lines, k)
  <2>1. \A k \in 1 .. n : k - 1 \in 0 .. n /\ u[k - 1] \in Cutting
    BY <1>1, <1>5
  <2>. QED BY <1>3, <1>5, <2>1
<1>7. LoopsLines(lines, u)
  <2>1. \A k \in 0 .. n : u[k] = IF k = 0 THEN EmptyCutting ELSE AddLine(u[k - 1], lines, k)
    <3>1. \A k \in 0 .. n : k = 0 \/ k \in 1 .. n
      BY <1>1
    <3>. QED BY <1>5, <1>6, <3>1
  <2>2. u = [k \in 0 .. n |-> u[k]]
    BY <1>5
  <2>. QED BY <2>1, <2>2 DEF LoopsLines, n
<1>8. LoopsLines(lines, w)
  BY <1>7
<1>9. LineChunks(lines) = IF \E i \in w[n].start .. n : lines[i] > 0
                          THEN Append(w[n].chunks, [from |-> w[n].start, to |-> n])
                          ELSE w[n].chunks
  BY DEF LineChunks, LoopsLines, EmptyCutting, n
<1> HIDE DEF w
<1>10. \A k \in 0 .. n : w[k] = IF k = 0 THEN EmptyCutting ELSE AddLine(w[k - 1], lines, k)
  BY <1>8 DEF LoopsLines, n
<1>11. n \in Nat /\ w[0] = u[0] /\ \A k \in 1 .. n : w[k - 1] = u[k - 1] => w[k] = u[k]
  <2>1. 0 \in 0 .. n /\ \A k \in 1 .. n : k \in 0 .. n /\ k # 0
    BY <1>1
  <2>. QED BY <1>1, <1>5, <1>6, <1>10, <2>1
<1>12. \A k \in 0 .. n : w[k] = u[k]
  BY ONLY <1>11, SameUpTo
<1> DEFINE C == {k \in 0 .. n : Cuts(u[k], k)}
<1>13. 0 \in C
  <2>1. 0 \in 0 .. n
    BY <1>1
  <2>. QED BY <1>2, <1>5, <2>1
<1>14. ASSUME NEW k \in 0 .. n - 1, k \in C PROVE k + 1 \in C
  <2>1. k + 1 \in 1 .. n /\ (k + 1) - 1 = k /\ k + 1 \in 0 .. n /\ k \in 0 .. n
    BY <1>1
  <2>2. Cuts(u[k], (k + 1) - 1) /\ u[k] \in Cutting /\ u[k + 1] = AddLine(u[k], lines, k + 1)
    BY <1>5, <1>6, <1>14, <2>1
  <2>3. Cuts(u[k + 1], k + 1)
    BY <2>1, <2>2, AddingLine DEF n
  <2>. QED BY <2>1, <2>3
<1> HIDE DEF C
<1> DEFINE start == w[n].start
           made == w[n].chunks
<1>15. start \in 1 .. n + 1 /\ Tiled(made, start - 1)
  <2>1. 0 .. n \subseteq C
    BY <1>1, <1>13, <1>14, UpTo
  <2>2. n \in 0 .. n
    BY <1>1
  <2>3. Cuts(w[n], n)
    BY <1>12, <2>1, <2>2 DEF C
  <2>. QED BY <2>3 DEF Cuts
<1> HIDE DEF start, made
<1>16. start - 1 \in Nat /\ start - 1 <= n /\ (start - 1) + 1 = start /\ start \in Nat
  BY <1>1, <1>15
<1>17. CASE \E i \in start .. n : lines[i] > 0
  <2>1. LineChunks(lines) = Append(made, [from |-> (start - 1) + 1, to |-> n])
    BY <1>9, <1>16, <1>17 DEF start, made
  <2>2. Tiled(LineChunks(lines), n)
    BY <1>1, <1>15, <1>16, <2>1, TiledMore
  <2>. QED BY <1>1, <2>2, FS_Singleton DEF Tiled
<1>18. CASE ~ \E i \in start .. n : lines[i] > 0
  <2>1. LineChunks(lines) = made
    BY <1>9, <1>18 DEF start, made
  <2>2. ASSUME NEW i \in 1 .. n
        PROVE  LET in == In(made, i) IN
               Cardinality(in) = 1 \/ (in = {} /\ \A j \in i .. n : lines[j] = 0)
    <3>1. CASE i <= start - 1
      <4>1. i \in 1 .. start - 1
        BY <1>1, <1>16, <3>1
      <4>. QED BY <1>15, <4>1, FS_Singleton DEF Tiled
    <3>2. CASE i > start - 1
      <4>1. i \in Nat /\ In(made, i) = {}
        BY <1>1, <1>15, <3>2 DEF Tiled
      <4>2. ASSUME NEW j \in i .. n PROVE lines[j] = 0
        <5>1. j \in start .. n /\ j \in 1 .. n
          BY <1>1, <1>16, <3>2
        <5>2. lines[j] \in Nat /\ ~(lines[j] > 0)
          BY <1>1, <1>18, <5>1
        <5>. QED BY <5>2
      <4>. QED BY <4>1, <4>2
    <3>. QED BY <1>1, <1>16, <3>1, <3>2
  <2>. QED BY <1>1, <2>1, <2>2 DEF n
<1>. QED BY <1>17, <1>18

-----------------------------------------------------------------------------
(* The files of a job are among its texts.                                 *)

Known == DOMAIN job.text
KnownEntries == {e \in Entries : e.path \in Known}
KnownFiles == {f \in Files : f.path \in Known}

\* What is fetched, found and to be documented is known; a file is in hand as
\* long as the agents have one.
PathsKnown ==
    /\ zip \in Seq(KnownEntries) /\ DOMAIN disk \subseteq Known
    /\ walk \in Seq(KnownFiles) /\ scan.files \in Seq(KnownFiles) /\ files \in Seq(KnownFiles)
    /\ at \in Nat /\ (pc \in {"file", "agents"} => at > 0)
    /\ pc = "agents" => at <= Len(files)

AInv == WInv /\ PathsKnown /\ ChunksCoverTheFile

\* What a job is about has its types.
LEMMA JobTypes ==
  ASSUME job \in Jobs
  PROVE  /\ job.plan \in Nat
         /\ job.entries \in Seq(KnownEntries) /\ job.walk \in Seq(KnownFiles)
         /\ \A p \in Known : /\ Nodes(p) \in Tree /\ Lines(p) \in Seq(Nat)
                            /\ Says(p) \in Seq(SUBSET STRING)
<1>1. /\ job.plan \in Nat /\ job.entries \in Seq(Entries) /\ job.walk \in Seq(Files)
      /\ {x.path : x \in Range(job.entries) \cup Range(job.walk)} \subseteq Known
      /\ \A p \in Known : /\ Nodes(p) \in Tree /\ Lines(p) \in Seq(Nat)
                         /\ Says(p) \in Seq(SUBSET STRING)
  BY JobsAssumption DEF Known, Nodes, Lines, Says
<1>2. /\ \A i \in DOMAIN job.entries : job.entries[i].path \in Known
      /\ \A i \in DOMAIN job.walk : job.walk[i].path \in Known
  BY <1>1 DEF Range
<1>3. job.entries \in Seq(KnownEntries)
  <2>1. \A i \in 1 .. Len(job.entries) : job.entries[i] \in KnownEntries
    BY <1>1, <1>2, ElementOfSeq, LenProperties DEF KnownEntries
  <2>. QED BY <1>1, <2>1
<1>4. job.walk \in Seq(KnownFiles)
  <2>1. \A i \in 1 .. Len(job.walk) : job.walk[i] \in KnownFiles
    BY <1>1, <1>2, ElementOfSeq, LenProperties DEF KnownFiles
  <2>. QED BY <1>1, <2>1
<1>. QED BY <1>1, <1>3, <1>4

\* The first state.
LEMMA InitAInv == Init => AInv
<1> SUFFICES ASSUME Init PROVE AInv
  OBVIOUS
<1>1. /\ job \in Jobs /\ zip = job.entries /\ walk = job.walk /\ disk = NoFile
      /\ scan = NoScan /\ files = <<>> /\ at = 0 /\ pc \in {"clone", "manifest"}
  BY DEF Init, WorkspaceInit
<1>2. scan.files = <<>> /\ DOMAIN disk = {} /\ <<>> \in Seq(KnownFiles)
  BY <1>1, SumStored, EmptySeq DEF NoScan
<1>3. PathsKnown
  BY <1>1, <1>2, JobTypes DEF PathsKnown
<1>4. ChunksCoverTheFile
  BY <1>1 DEF ChunksCoverTheFile
<1>. QED BY <1>3, <1>4, InitWInv DEF AInv

\* The workspace is fetched.
LEMMA FetchKnown == ASSUME WInv, PathsKnown, Fetch PROVE PathsKnown' /\ pc' # "agents"
<1>1. /\ UNCHANGED <<job, files, at>> /\ job \in Jobs /\ Known' = Known
      /\ KnownEntries' = KnownEntries /\ KnownFiles' = KnownFiles
  BY DEF Fetch, analysis, WInv, WorkspaceOK, Known, KnownEntries, KnownFiles
<1>2. ASSUME pc' \notin {"file", "agents"}, zip' \in Seq(KnownEntries), DOMAIN disk' \subseteq Known,
             walk' \in Seq(KnownFiles), scan'.files \in Seq(KnownFiles)
      PROVE  PathsKnown' /\ pc' # "agents"
  BY <1>1, <1>2 DEF PathsKnown
<1>3. zip # <<>> => Tail(zip) \in Seq(KnownEntries) /\ Entry.path \in Known
  <2>1. zip # <<>> => Entry \in KnownEntries /\ Tail(zip) \in Seq(KnownEntries)
    BY HeadTailProperties DEF PathsKnown, Entry
  <2>. QED BY <2>1 DEF KnownEntries
<1>4. DOMAIN NoFile \subseteq Known
  BY SumStored
<1>5. CASE \/ StartClone \/ CloneReturns \/ CloneFails \/ CloneTimesOut
           \/ ManifestRefused \/ ManifestAccepted \/ ArchiveFails
  <2>1. /\ UNCHANGED <<zip, walk, scan>> /\ pc' \notin {"file", "agents"}
        /\ disk' = NoFile \/ disk' = disk
    BY <1>5, RemovedTypes DEF StartClone, CloneReturns, CloneFails, CloneTimesOut,
       ManifestRefused, ManifestAccepted, ArchiveFails, Goto, Cleanup, workspace
  <2>. QED BY <1>2, <1>4, <2>1 DEF PathsKnown
<1>6. CASE GitWrites \/ GitEnds
  <2>1. pc \in {"clone", "failed"} /\ UNCHANGED <<pc, disk, zip, walk, scan>>
    BY <1>6 DEF GitWrites, GitEnds, WInv, Watched
  <2>. QED BY <1>2, <2>1 DEF PathsKnown
<1>7. CASE SkipEntry
  BY <1>2, <1>3, <1>7 DEF SkipEntry, PathsKnown
<1>8. CASE OpenEntry
  <2>1. DOMAIN disk' = DOMAIN disk \cup {Entry.path} /\ zip # <<>>
    BY <1>8 DEF OpenEntry
  <2>2. UNCHANGED <<zip, walk, scan>> /\ pc' = "write"
    BY <1>8 DEF OpenEntry, Goto
  <2>. QED BY <1>2, <1>3, <2>1, <2>2 DEF PathsKnown
<1>9. CASE WriteBlock
  <2>1. DOMAIN disk' = DOMAIN disk /\ UNCHANGED <<pc, zip, walk, scan>> /\ pc = "write"
    BY <1>9 DEF WriteBlock
  <2>. QED BY <1>2, <2>1 DEF PathsKnown
<1>10. CASE RejectEntry \/ CloseEntry
  <2>1. /\ DOMAIN disk' \subseteq DOMAIN disk /\ zip' = Tail(zip) /\ UNCHANGED <<walk, scan>>
        /\ pc = "write" /\ pc' = "extract"
    BY <1>10 DEF RejectEntry, CloseEntry, Unlinked, Goto
  <2>2. zip # <<>>
    BY <2>1 DEF WInv, Counted
  <2>. QED BY <1>2, <1>3, <2>1, <2>2 DEF PathsKnown
<1>11. CASE RejectArchive \/ ScanEnds
  <2>1. /\ UNCHANGED <<zip, walk, scan>> /\ pc' \in {"failed", "index"}
        /\ disk' \in {NoFile, disk, Unlinked}
    BY <1>11, RemovedTypes DEF RejectArchive, ScanEnds, Goto, Cleanup
  <2>2. DOMAIN Unlinked \subseteq DOMAIN disk
    BY DEF Unlinked
  <2>. QED BY <1>2, <1>4, <2>1, <2>2 DEF PathsKnown
<1>12. CASE ExtractEnds
  <2>1. /\ UNCHANGED <<zip, scan>> /\ pc' \in {"failed", "scan"}
        /\ disk' = NoFile \/ disk' = disk
        /\ UNCHANGED walk \/ \E kinds \in [DOMAIN disk -> {"source", "binary"}] : walk' = Found(kinds)
    BY <1>12, RemovedTypes DEF ExtractEnds, Goto, Cleanup
  <2>2. ASSUME NEW kinds \in [DOMAIN disk -> {"source", "binary"}]
        PROVE  Found(kinds) \in Seq(KnownFiles)
    <3> DEFINE found == Found(kinds)
    <3>1. found \in Seq(Files) /\ \A i \in DOMAIN found : found[i].path \in DOMAIN disk
      BY FoundFiles DEF WInv
    <3> HIDE DEF found
    <3>2. \A i \in 1 .. Len(found) : found[i] \in KnownFiles
      BY <3>1, ElementOfSeq, LenProperties DEF PathsKnown, KnownFiles
    <3>3. found \in Seq(KnownFiles)
      BY <3>1, <3>2
    <3>. QED BY <3>3 DEF found
  <2>3. walk' \in Seq(KnownFiles)
    BY <2>1, <2>2 DEF PathsKnown
  <2>. QED BY <1>2, <1>4, <2>1, <2>3 DEF PathsKnown
<1>13. CASE ScanFile
  <2> DEFINE f == File
             s == Scanned(f)
  <2>1. /\ UNCHANGED <<pc, disk, zip>> /\ pc = "scan" /\ walk # <<>>
        /\ scan' = s /\ walk' = Tail(walk)
    BY <1>13 DEF ScanFile
  <2>2. f \in KnownFiles /\ Tail(walk) \in Seq(KnownFiles)
    BY <2>1, HeadTailProperties DEF PathsKnown, File
  <2>3. scan \in Scans /\ f \in Files
    BY <2>2 DEF WInv, WorkspaceOK, KnownFiles
  <2> HIDE DEF f
  <2>4. s.files = scan.files \/ s.files = Append(scan.files, f)
    BY <2>3, ScannedCases
  <2> HIDE DEF s
  <2>5. scan.files \in Seq(KnownFiles)
    BY DEF PathsKnown
  <2>6. Append(scan.files, f) \in Seq(KnownFiles)
    BY <2>2, <2>5, AppendProperties
  <2>7. scan'.files \in Seq(KnownFiles)
    BY <2>1, <2>4, <2>5, <2>6
  <2>. QED BY <1>2, <2>1, <2>2, <2>7 DEF PathsKnown
<1>. QED BY <1>5, <1>6, <1>7, <1>8, <1>9, <1>10, <1>11, <1>12, <1>13 DEF Fetch

\* The files are documented.
LEMMA AnalysisKnown ==
  ASSUME WInv, PathsKnown, BuildIndex \/ Prompt \/ SkipFile \/ Documented \/ Abandon \/ Finish
  PROVE  PathsKnown'
<1>1. job' = job /\ Known' = Known /\ KnownEntries' = KnownEntries /\ KnownFiles' = KnownFiles
  <2>1. job' = job
    BY DEF BuildIndex, Prompt, SkipFile, Documented, Abandon, Finish
  <2>. QED BY <2>1 DEF Known, KnownEntries, KnownFiles
<1>2. ASSUME UNCHANGED <<zip, walk, scan>>, DOMAIN disk' \subseteq Known,
             files' \in Seq(KnownFiles), at' \in Nat, at' > 0 \/ pc' = "done",
             pc' = "agents" => at' <= Len(files')
      PROVE  PathsKnown'
  BY <1>1, <1>2 DEF PathsKnown
<1>3. CASE BuildIndex
  <2> DEFINE n == Min({Len(scan.files), job.plan})
  <2>1. /\ files' = SubSeq(scan.files, 1, n) /\ at' = 1 /\ pc' = "file"
        /\ UNCHANGED <<disk, zip, walk, scan>>
    BY <1>3 DEF BuildIndex, Goto, workspace
  <2>2. scan.files \in Seq(KnownFiles) /\ Len(scan.files) \in Nat /\ job.plan \in Nat
    BY JobTypes, LenProperties DEF PathsKnown, WInv, WorkspaceOK
  <2>3. n \in Nat /\ n <= Len(scan.files)
    BY <2>2, LeastIn
  <2> HIDE DEF n
  <2>4. SubSeq(scan.files, 1, n) \in Seq(KnownFiles)
    BY <2>2, <2>3
  <2>. QED BY <1>2, <2>1, <2>4 DEF PathsKnown
<1>4. CASE Prompt
  <2>1. /\ UNCHANGED <<disk, zip, walk, scan, files, at>> /\ pc = "file" /\ at <= Len(files)
    BY <1>4 DEF Prompt, workspace
  <2>. QED BY <1>2, <2>1 DEF PathsKnown
<1>5. CASE SkipFile \/ Documented
  <2>1. /\ UNCHANGED <<disk, zip, walk, scan, files>> /\ at' = at + 1 /\ pc' = "file"
    BY <1>5 DEF SkipFile, Documented, Goto, workspace
  <2>. QED BY <1>2, <2>1 DEF PathsKnown
<1>6. CASE Abandon \/ Finish
  <2>1. /\ UNCHANGED <<zip, walk, scan, files, at>> /\ pc' = "done"
        /\ disk' = NoFile \/ disk' = disk
    BY <1>6, RemovedTypes DEF Abandon, Finish, Goto, Cleanup, analysis
  <2>2. DOMAIN disk' \subseteq Known
    BY <2>1, SumStored DEF PathsKnown
  <2>. QED BY <1>2, <2>1, <2>2 DEF PathsKnown
<1>. QED BY <1>3, <1>4, <1>5, <1>6

\* What ChunksCoverTheFile says of the chunks made of a text.
Covers(made, nodes, lines) ==
    LET order == Ascending(Visible(nodes))
        sent  == Sent(made)
    IN  IF order # <<>>
        THEN /\ [i \in DOMAIN sent |-> <<sent[i].at, sent[i].parent>>] =
                [i \in DOMAIN order |-> <<order[i], ClassOf(nodes, order[i])>>]
             /\ \A k \in DOMAIN made : PieceFits(made[k])
        ELSE \A i \in DOMAIN lines :
                \/ Cardinality(In(made, i)) = 1
                \/ In(made, i) = {} /\ \A j \in i .. Len(lines) : lines[j] = 0

LEMMA CoversSaid ==
  /\ ChunksCoverTheFile <=> (pc = "agents" => Covers(chunks, Nodes(Path), Lines(Path)))
  /\ ChunksCoverTheFile' <=> (pc = "agents" => Covers(chunks, Nodes(Path), Lines(Path)))'
<1>1. ChunksCoverTheFile <=> (pc = "agents" => Covers(chunks, Nodes(Path), Lines(Path)))
  BY DEF ChunksCoverTheFile, Covers, Ordered, Nth, Ascending, Sent, PieceFits, In
<1>2. ChunksCoverTheFile' <=> (pc = "agents" => Covers(chunks, Nodes(Path), Lines(Path)))'
  BY DEF ChunksCoverTheFile, Covers, Ordered, Nth, Ascending, Sent, PieceFits, In
<1>. QED BY <1>1, <1>2

\* The chunks of a text cover it.
LEMMA ChunksCover ==
  ASSUME NEW nodes \in Tree, NEW lines \in Seq(Nat), NEW made,
         made = IF Symbols(nodes) = <<>> THEN LineChunks(lines) ELSE SymbolChunks(Symbols(nodes))
  PROVE  Covers(made, nodes, lines)
<1> DEFINE order == Ascending(Visible(nodes))
<1>1. Symbols(nodes) \in Seq(Symbol)
  BY SymbolsListed
<1>2. order # <<>> <=> Symbols(nodes) # <<>>
  BY ChunksInOrder
<1>3. CASE order # <<>>
  <2>1. made = SymbolChunks(Symbols(nodes))
    BY <1>2, <1>3
  <2>2. Sent(made) = Symbols(nodes) /\ \A k \in DOMAIN made : PieceFits(made[k])
    BY <1>1, <2>1, SymbolsChunked
  <2>3. [i \in DOMAIN Sent(made) |-> <<Sent(made)[i].at, Sent(made)[i].parent>>] =
        [i \in DOMAIN order |-> <<order[i], ClassOf(nodes, order[i])>>]
    BY <2>2, ChunksInOrder
  <2>. QED BY <1>3, <2>2, <2>3 DEF Covers
<1>4. CASE order = <<>>
  <2>1. made = LineChunks(lines)
    BY <1>2, <1>4
  <2>. QED BY <1>4, <2>1, LinesCut DEF Covers
<1>. QED BY <1>3, <1>4

\* The chunks are made before the agents have the file, and are not changed as
\* long as they have it.
LEMMA AInductive == AInv /\ [Next]_vars => AInv'
<1> SUFFICES ASSUME AInv, [Next]_vars PROVE AInv'
  OBVIOUS
<1>1. WInv /\ PathsKnown /\ ChunksCoverTheFile /\ WInv'
  BY WInductive DEF AInv
<1>2. CASE Fetch
  BY <1>1, <1>2, FetchKnown, CoversSaid DEF AInv
<1>3. CASE BuildIndex \/ SkipFile \/ Documented \/ Abandon \/ Finish
  <2>1. pc' = "file" \/ pc' = "done"
    BY <1>3 DEF BuildIndex, SkipFile, Documented, Abandon, Finish, Goto
  <2>. QED BY <1>1, <1>3, <2>1, AnalysisKnown, CoversSaid DEF AInv
<1>4. CASE Prompt
  <2>1. /\ job' = job /\ files' = files /\ at' = at /\ at <= Len(files) /\ pc = "file"
        /\ chunks' = IF Symbols(Nodes(Path)) = <<>> THEN LineChunks(Lines(Path))
                     ELSE SymbolChunks(Symbols(Nodes(Path)))
    BY <1>4 DEF Prompt
  <2>2. Path' = Path /\ Nodes(Path)' = Nodes(Path) /\ Lines(Path)' = Lines(Path)
    BY <2>1 DEF Path, Nodes, Lines
  <2>3. Path \in Known
    <3>1. files \in Seq(KnownFiles) /\ at \in 1 .. Len(files)
      BY <1>1, <2>1, LenProperties DEF PathsKnown
    <3>2. files[at] \in KnownFiles
      BY <3>1, ElementOfSeq
    <3>. QED BY <3>2 DEF KnownFiles, Path
  <2>4. Nodes(Path) \in Tree /\ Lines(Path) \in Seq(Nat)
    BY <1>1, <2>3, JobTypes DEF WInv, WorkspaceOK
  <2>5. Covers(chunks', Nodes(Path), Lines(Path))
    BY <2>1, <2>4, ChunksCover
  <2>6. ChunksCoverTheFile'
    BY <2>2, <2>5, CoversSaid
  <2>. QED BY <1>1, <1>4, <2>6, AnalysisKnown DEF AInv
<1>5. CASE UNCHANGED vars
  <2>1. UNCHANGED <<pc, disk, zip, walk, scan, job, files, at, chunks>>
    BY <1>5 DEF vars, workspace, analysis
  <2>2. PathsKnown'
    BY <1>1, <2>1 DEF PathsKnown, Known, KnownEntries, KnownFiles
  <2>3. Path' = Path /\ Nodes(Path)' = Nodes(Path) /\ Lines(Path)' = Lines(Path)
    BY <2>1 DEF Path, Nodes, Lines
  <2>4. ChunksCoverTheFile'
    BY <1>1, <2>1, <2>3, CoversSaid
  <2>. QED BY <1>1, <2>2, <2>4 DEF AInv
<1>. QED BY <1>2, <1>3, <1>4, <1>5 DEF Next, Idle

\* Symbols, build_chunks and the lines of a file without symbols: whatever the
\* tree and the budgets, nothing of a file is lost between two chunks or sent
\* twice.
THEOREM ChunksAlwaysCover == Spec => []ChunksCoverTheFile
<1>1. AInv => ChunksCoverTheFile
  BY DEF AInv
<1>. QED BY <1>1, InitAInv, AInductive, PTL DEF Spec

-----------------------------------------------------------------------------
(* The loop of _fit_within_budget, for any candidates.                     *)

\* The cost of the first m kept ones.
Costs(kept, cost) == [t \in DOMAIN kept |-> cost[kept[t]]]
Spent(kept, cost, m) == SumFunctionOnSet(Costs(kept, cost), 1 .. m)

\* Why a candidate was passed over behind the first m kept ones.
NoRoom(kept, cost, same, room, most, m, x) ==
    \/ m = most
    \/ Spent(kept, cost, m) + cost[x] > room
    \/ \E t \in 1 .. m : <<kept[t], x>> \in same

\* The loop has seen the first i candidates: it kept some of them, within the
\* room, and each other one was passed over behind some that come before it.
Gathered(loop, c, cost, same, room, most, i) ==
    /\ Len(loop.kept) <= most
    /\ loop.used = Spent(loop.kept, cost, Len(loop.kept)) /\ loop.used <= room
    /\ \A t \in 1 .. Len(loop.kept) : \E p \in 1 .. i : loop.kept[t] = c[p]
    /\ \A j \in 1 .. i :
          \/ \E t \in 1 .. Len(loop.kept) : loop.kept[t] = c[j]
          \/ \E m \in 0 .. Len(loop.kept) :
                /\ \A t \in 1 .. m : \E p \in 1 .. j - 1 : loop.kept[t] = c[p]
                /\ NoRoom(loop.kept, cost, same, room, most, m, c[j])

Nothing == [kept |-> <<>>, used |-> 0]
Twice(kept, x, same) == \E k \in Range(kept) : <<k, x>> \in same
Gathering(D) == [kept : Seq(D), used : Nat]

\* The costs of some kept ones, and of one more.
LEMMA SpentTypes ==
  ASSUME NEW D, NEW kept \in Seq(D), NEW cost \in [D -> Nat]
  PROVE  /\ Costs(kept, cost) \in [1 .. Len(kept) -> Nat]
         /\ \A m \in 0 .. Len(kept) : Spent(kept, cost, m) \in Nat
         /\ Spent(kept, cost, 0) = 0
<1>1. Len(kept) \in Nat /\ DOMAIN kept = 1 .. Len(kept) /\ \A t \in 1 .. Len(kept) : kept[t] \in D
  BY LenProperties, ElementOfSeq
<1>2. Costs(kept, cost) \in [1 .. Len(kept) -> Nat]
  BY <1>1 DEF Costs
<1>3. ASSUME NEW m \in 0 .. Len(kept) PROVE Spent(kept, cost, m) \in Nat
  <2>1. IsFiniteSet(1 .. m) /\ \A t \in 1 .. m : Costs(kept, cost)[t] \in Nat
    BY <1>1, <1>2, IntervalFinite
  <2>. QED BY <2>1, SumNat DEF Spent
<1>4. Spent(kept, cost, 0) = 0
  <2>1. 1 .. 0 = {}
    OBVIOUS
  <2>. QED BY <2>1, SumEmpty DEF Spent
<1>. QED BY <1>2, <1>3, <1>4

\* Counting one further.
LEMMA OneFurther ==
  ASSUME NEW n \in Nat
  PROVE  /\ n + 1 \in 1 .. n + 1 /\ 1 .. n \subseteq 1 .. n + 1 /\ (1 .. n + 1) \ {n + 1} = 1 .. n
         /\ \A t \in 1 .. n + 1 : t = n + 1 \/ t \in 1 .. n
         /\ IsFiniteSet(1 .. n) /\ IsFiniteSet(1 .. n + 1)
  BY IntervalFinite

\* One more at the end costs as much more.
LEMMA SpentMore ==
  ASSUME NEW D, NEW kept \in Seq(D), NEW cost \in [D -> Nat], NEW x \in D
  PROVE  /\ \A m \in 0 .. Len(kept) : Spent(Append(kept, x), cost, m) = Spent(kept, cost, m)
         /\ Spent(Append(kept, x), cost, Len(kept) + 1) = Spent(kept, cost, Len(kept)) + cost[x]
<1> DEFINE n == Len(kept)
           more == Append(kept, x)
           f == Costs(kept, cost)
           g == Costs(more, cost)
<1>1. n \in Nat /\ \A t \in 1 .. n : kept[t] \in D
  BY LenProperties, ElementOfSeq
<1>2. more \in Seq(D) /\ Len(more) = n + 1 /\ more[n + 1] = x /\ \A t \in 1 .. n : more[t] = kept[t]
  BY AppendProperties
<1>3. f \in [1 .. n -> Nat] /\ g \in [1 .. n + 1 -> Nat]
  BY <1>2, SpentTypes
<1>4. g[n + 1] = cost[x] /\ \A t \in 1 .. n : g[t] = f[t]
  <2>1. DOMAIN more = 1 .. n + 1 /\ DOMAIN kept = 1 .. n
    BY <1>1, <1>2, LenProperties
  <2>2. n + 1 \in 1 .. n + 1 /\ \A t \in 1 .. n : t \in 1 .. n + 1
    BY <1>1
  <2>. QED BY <1>2, <2>1, <2>2 DEF Costs
<1> HIDE DEF f, g
<1>5. ASSUME NEW m \in 0 .. n PROVE SumFunctionOnSet(g, 1 .. m) = SumFunctionOnSet(f, 1 .. m)
  <2>1. IsFiniteSet(1 .. m) /\ \A t \in 1 .. m : f[t] \in Nat /\ g[t] = f[t]
    BY <1>1, <1>3, <1>4, IntervalFinite
  <2>. QED BY <2>1, SumSame
<1>6. SumFunctionOnSet(g, 1 .. n + 1) = g[n + 1] + SumFunctionOnSet(g, 1 .. n)
  <2> DEFINE S == 1 .. n + 1
             l == n + 1
  <2>1. IsFiniteSet(S) /\ l \in S /\ S \ {l} = 1 .. n
    BY <1>1, OneFurther
  <2>2. \A t \in S : g[t] \in Nat
    BY <1>3
  <2> HIDE DEF S, l
  <2>3. SumFunctionOnSet(g, S) = g[l] + SumFunctionOnSet(g, S \ {l})
    BY <2>1, <2>2, SumTakeOut
  <2>. QED BY <2>1, <2>3 DEF S, l
<1>7. SumFunctionOnSet(f, 1 .. n) \in Nat
  BY <1>1, SpentTypes DEF Spent, f
<1>8. SumFunctionOnSet(g, 1 .. n + 1) = SumFunctionOnSet(f, 1 .. n) + cost[x]
  <2>1. n \in 0 .. n /\ cost[x] \in Nat
    BY <1>1
  <2>. QED BY <1>4, <1>5, <1>6, <1>7, <2>1
<1>. QED BY <1>5, <1>8 DEF Spent, f, g

\* What was passed over stays so when one more is kept.
LEMMA NoRoomStays ==
  ASSUME NEW D, NEW kept \in Seq(D), NEW cost \in [D -> Nat], NEW x \in D, NEW same, NEW room,
         NEW most, NEW y, NEW m \in 0 .. Len(kept), NoRoom(kept, cost, same, room, most, m, y)
  PROVE  NoRoom(Append(kept, x), cost, same, room, most, m, y)
<1>1. \A t \in 1 .. m : Append(kept, x)[t] = kept[t]
  <2>1. Len(kept) \in Nat /\ \A t \in 1 .. m : t \in 1 .. Len(kept)
    BY LenProperties
  <2>. QED BY <2>1, AppendProperties
<1>2. Spent(Append(kept, x), cost, m) = Spent(kept, cost, m)
  BY SpentMore
<1>. QED BY <1>1, <1>2 DEF NoRoom

\* One step of the loop.
LEMMA GatheredMore ==
  ASSUME NEW D, NEW c \in Seq(D), NEW cost \in [D -> Nat], NEW same,
         NEW room \in Nat, NEW most \in Nat, NEW loop \in Gathering(D),
         NEW i \in 0 .. Len(c) - 1, Gathered(loop, c, cost, same, room, most, i),
         NEW next, next = Taken(loop, c[i + 1], cost[c[i + 1]], Twice(loop.kept, c[i + 1], same),
                                room, most)
  PROVE  next \in Gathering(D) /\ Gathered(next, c, cost, same, room, most, i + 1)
<1> DEFINE x == c[i + 1]
           kept == loop.kept
           n == Len(kept)
<1>1. Len(c) \in Nat /\ i \in Nat /\ i + 1 \in 1 .. Len(c) /\ x \in D /\ cost[x] \in Nat
  <2>1. Len(c) \in Nat /\ i + 1 \in 1 .. Len(c)
    BY LenProperties
  <2>. QED BY <2>1, ElementOfSeq
<1>2. kept \in Seq(D) /\ n \in Nat /\ loop.used \in Nat /\ DOMAIN kept = 1 .. n
  BY LenProperties DEF Gathering
<1>3. /\ n <= most /\ loop.used = Spent(kept, cost, n) /\ loop.used <= room
      /\ \A t \in 1 .. n : \E p \in 1 .. i : kept[t] = c[p]
      /\ \A j \in 1 .. i :
            \/ \E t \in 1 .. n : kept[t] = c[j]
            \/ \E m \in 0 .. n :
                  /\ \A t \in 1 .. m : \E p \in 1 .. j - 1 : kept[t] = c[p]
                  /\ NoRoom(kept, cost, same, room, most, m, c[j])
  BY DEF Gathered
<1>4. (i + 1) - 1 = i /\ \A p \in 1 .. i : p \in 1 .. i + 1
  BY <1>1
<1>5. \A j \in 1 .. i + 1 : j = i + 1 \/ j \in 1 .. i
  BY <1>1
<1>6. CASE n < most /\ loop.used + cost[x] <= room /\ ~Twice(kept, x, same)
  <2> DEFINE more == Append(kept, x)
  <2>1. next = [kept |-> more, used |-> loop.used + cost[x]]
    BY <1>6 DEF Taken, Fits
  <2>2. /\ more \in Seq(D) /\ Len(more) = n + 1 /\ more[n + 1] = x
        /\ \A t \in 1 .. n : more[t] = kept[t]
    BY <1>1, <1>2, AppendProperties
  <2>3. next \in Gathering(D)
    BY <1>1, <1>2, <2>1, <2>2 DEF Gathering
  <2>4. n + 1 <= most /\ loop.used + cost[x] = Spent(more, cost, n + 1)
    <3>1. Spent(more, cost, n + 1) = Spent(kept, cost, n) + cost[x]
      <4> HIDE DEF kept, x
      <4>1. kept \in Seq(D) /\ cost \in [D -> Nat] /\ x \in D
        BY <1>1, <1>2
      <4>. QED BY ONLY <4>1, SpentMore
    <3>2. n + 1 <= most
      BY ONLY <1>2, <1>6, most \in Nat
    <3>. QED BY <1>3, <3>1, <3>2
  <2>5. \A t \in 1 .. n + 1 : \E p \in 1 .. i + 1 : more[t] = c[p]
    <3> SUFFICES ASSUME NEW t \in 1 .. n + 1 PROVE \E p \in 1 .. i + 1 : more[t] = c[p]
      OBVIOUS
    <3>1. t = n + 1 \/ t \in 1 .. n
      BY <1>2, OneFurther
    <3>. QED BY <1>1, <1>3, <1>4, <2>2, <3>1
  <2>6. ASSUME NEW j \in 1 .. i + 1
        PROVE  \/ \E t \in 1 .. n + 1 : more[t] = c[j]
               \/ \E m \in 0 .. n + 1 :
                     /\ \A t \in 1 .. m : \E p \in 1 .. j - 1 : more[t] = c[p]
                     /\ NoRoom(more, cost, same, room, most, m, c[j])
    <3>0. n + 1 \in 1 .. n + 1 /\ (\A t \in 1 .. n : t \in 1 .. n + 1)
          /\ (\A m \in 0 .. n : m \in 0 .. n + 1 /\ \A t \in 1 .. m : t \in 1 .. n)
      BY <1>2
    <3>1. CASE j = i + 1
      BY <2>2, <3>0, <3>1
    <3>2. CASE \E t \in 1 .. n : kept[t] = c[j]
      BY <2>2, <3>0, <3>2
    <3>3. ASSUME NEW m \in 0 .. n,
                 \A t \in 1 .. m : \E p \in 1 .. j - 1 : kept[t] = c[p],
                 NoRoom(kept, cost, same, room, most, m, c[j])
          PROVE  /\ \A t \in 1 .. m : \E p \in 1 .. j - 1 : more[t] = c[p]
                 /\ NoRoom(more, cost, same, room, most, m, c[j])
      <4>1. NoRoom(more, cost, same, room, most, m, c[j])
        BY <1>1, <1>2, <3>3, NoRoomStays
      <4>. QED BY <2>2, <3>0, <3>3, <4>1
    <3>. QED BY <1>3, <1>5, <3>0, <3>1, <3>2, <3>3
  <2> HIDE DEF more
  <2>7. next.kept = more /\ next.used = loop.used + cost[x]
    BY <2>1
  <2>. QED BY <1>6, <2>2, <2>3, <2>4, <2>5, <2>6, <2>7 DEF Gathered
<1>7. CASE ~(n < most /\ loop.used + cost[x] <= room /\ ~Twice(kept, x, same))
  <2>1. next = loop
    BY <1>7 DEF Taken, Fits
  <2>2. NoRoom(kept, cost, same, room, most, n, x)
    <3>1. CASE Twice(kept, x, same)
      BY <1>2, <3>1 DEF Twice, NoRoom, Range
    <3>2. CASE ~(n < most)
      BY <1>2, <1>3, <3>2 DEF NoRoom
    <3>3. CASE ~(loop.used + cost[x] <= room)
      <4>1. Spent(kept, cost, n) + cost[x] > room
        BY <1>1, <1>2, <1>3, <3>3
      <4>. QED BY <4>1 DEF NoRoom
    <3>. QED BY <1>7, <3>1, <3>2, <3>3
  <2>3. ASSUME NEW j \in 1 .. i + 1
        PROVE  \/ \E t \in 1 .. n : kept[t] = c[j]
               \/ \E m \in 0 .. n :
                     /\ \A t \in 1 .. m : \E p \in 1 .. j - 1 : kept[t] = c[p]
                     /\ NoRoom(kept, cost, same, room, most, m, c[j])
    <3>1. CASE j = i + 1
      <4>1. n \in 0 .. n /\ j - 1 = i /\ c[j] = x
        BY <1>1, <1>2, <3>1
      <4>. QED BY <1>3, <2>2, <4>1
    <3>. QED BY <1>3, <1>5, <3>1
  <2>4. \A t \in 1 .. n : \E p \in 1 .. i + 1 : kept[t] = c[p]
    BY <1>3, <1>4
  <2>. QED BY <1>3, <2>1, <2>3, <2>4 DEF Gathered
<1>. QED BY <1>6, <1>7

\* The loop, and what it has gathered in the end.
Gathers(w, c, cost, same, room, most) ==
    w = [i \in 0 .. Len(c) |->
            IF i = 0 THEN Nothing
            ELSE Taken(w[i - 1], c[i], cost[c[i]], Twice(w[i - 1].kept, c[i], same), room, most)]

\* What each round of it has gathered.
LEMMA GatheredAll ==
  ASSUME NEW D, NEW c \in Seq(D), NEW cost \in [D -> Nat], NEW same,
         NEW room \in Nat, NEW most \in Nat, NEW w, Gathers(w, c, cost, same, room, most)
  PROVE  \A i \in 0 .. Len(c) :
           w[i] \in Gathering(D) /\ Gathered(w[i], c, cost, same, room, most, i)
<1> DEFINE n == Len(c)
           C == {i \in 0 .. n : w[i] \in Gathering(D) /\ Gathered(w[i], c, cost, same, room, most, i)}
<1>1. n \in Nat
  BY LenProperties
<1>2. 0 \in C
  <2>1. w[0] = Nothing /\ 0 \in 0 .. n
    BY <1>1 DEF Gathers
  <2>2. <<>> \in Seq(D) /\ Len(<<>>) = 0
    BY EmptySeq
  <2>3. Spent(<<>>, cost, 0) = 0
    BY <2>2, SpentTypes
  <2>4. Nothing \in Gathering(D)
    BY <2>2 DEF Nothing, Gathering
  <2>5. Gathered(Nothing, c, cost, same, room, most, 0)
    BY <2>2, <2>3 DEF Nothing, Gathered
  <2>. QED BY <2>1, <2>4, <2>5
<1>3. ASSUME NEW i \in 0 .. n - 1, i \in C PROVE i + 1 \in C
  <2>1. i + 1 \in 0 .. n /\ i + 1 # 0 /\ (i + 1) - 1 = i
    BY <1>1
  <2>2. w[i + 1] = Taken(w[i], c[i + 1], cost[c[i + 1]], Twice(w[i].kept, c[i + 1], same), room, most)
    BY <2>1 DEF Gathers
  <2>3. w[i] \in Gathering(D) /\ Gathered(w[i], c, cost, same, room, most, i)
    BY <1>3
  <2>4. w[i + 1] \in Gathering(D) /\ Gathered(w[i + 1], c, cost, same, room, most, i + 1)
    BY <2>2, <2>3, GatheredMore
  <2>. QED BY <2>1, <2>4
<1> HIDE DEF C
<1>4. 0 .. n \subseteq C
  BY <1>1, <1>2, <1>3, UpTo
<1>. QED BY <1>4 DEF C

\* There is such a loop.
LEMMA GathersSome ==
  ASSUME NEW D, NEW c \in Seq(D), NEW cost \in [D -> Nat], NEW same,
         NEW room \in Nat, NEW most \in Nat
  PROVE  \E w : Gathers(w, c, cost, same, room, most)
<1> DEFINE n == Len(c)
           A == Gathering(D)
           G(k, l) == Taken(l, c[k], cost[c[k]], Twice(l.kept, c[k], same), room, most)
           g == [p \in (1 .. n) \X A |-> G(p[1], p[2])]
<1>1. n \in Nat /\ \A k \in 1 .. n : c[k] \in D
  BY LenProperties, ElementOfSeq
<1>2. Nothing \in A
  BY EmptySeq DEF Nothing, Gathering
<1>3. ASSUME NEW k \in 1 .. n, NEW l \in A PROVE G(k, l) \in A
  <2>1. /\ c[k] \in D /\ cost[c[k]] \in Nat /\ l.kept \in Seq(D) /\ l.used \in Nat
        /\ Append(l.kept, c[k]) \in Seq(D)
    BY <1>1, AppendProperties DEF Gathering
  <2>. QED BY <2>1 DEF Taken, Gathering
<1> HIDE DEF G, n, A
<1>4. g \in [(1 .. n) \X A -> A]
  <2>1. \A p \in (1 .. n) \X A : p[1] \in 1 .. n /\ p[2] \in A
    OBVIOUS
  <2>. QED BY <1>3, <2>1
<1>5. \A k \in 1 .. n, l \in A : g[<<k, l>>] = G(k, l)
  OBVIOUS
<1> HIDE DEF g
<1>6. PICK u \in [0 .. n -> A] : u[0] = Nothing /\ \A k \in 1 .. n : u[k] = g[<<k, u[k - 1]>>]
  <2>1. Leads(n, A, Nothing, g)
    BY <1>1, <1>2, <1>4, Recursion
  <2>. QED BY <2>1 DEF Leads
<1>7. \A k \in 0 .. n : u[k] = IF k = 0 THEN Nothing ELSE G(k, u[k - 1])
  <2>1. \A k \in 0 .. n : k = 0 \/ (k \in 1 .. n /\ k - 1 \in 0 .. n)
    BY <1>1
  <2>. QED BY <1>5, <1>6, <2>1
<1>8. u = [k \in 0 .. n |-> IF k = 0 THEN Nothing ELSE G(k, u[k - 1])]
  <2>1. u = [k \in 0 .. n |-> u[k]]
    BY <1>6
  <2>. QED BY <1>7, <2>1
<1>9. Gathers(u, c, cost, same, room, most)
  BY <1>8 DEF Gathers, G, n
<1>. QED BY <1>9


\* The numbers up to one.
LEMMA Counting == ASSUME NEW n \in Nat PROVE IsFiniteSet(1 .. n) /\ Cardinality(1 .. n) = n
<1>1. 1 \in Int /\ n \in Int /\ (n >= 1 => n - 1 + 1 = n) /\ (~(1 <= n) => n = 0)
  OBVIOUS
<1>. QED BY <1>1, FS_Interval

\* A candidate that was left out had no room behind the kept ones of any set
\* that has all that come before it, or they were as many as are kept.
LEMMA RoomUsed ==
  ASSUME NEW D, NEW c \in Seq(D), NEW cost \in [D -> Nat], NEW same,
         NEW room \in Nat, NEW most \in Nat, NEW loop \in Gathering(D),
         Gathered(loop, c, cost, same, room, most, Len(c)),
         NEW j \in 1 .. Len(c),
         \A t \in 1 .. Len(loop.kept) : loop.kept[t] # c[j] /\ <<loop.kept[t], c[j]>> \notin same,
         NEW first \in SUBSET (1 .. Len(loop.kept)),
         \A t \in 1 .. Len(loop.kept), p \in 1 .. j - 1 : loop.kept[t] = c[p] => t \in first
  PROVE  \/ Cardinality(first) = most
         \/ SumFunctionOnSet(Costs(loop.kept, cost), first) + cost[c[j]] > room
<1> DEFINE kept == loop.kept
           n == Len(kept)
<1>1. kept \in Seq(D) /\ n \in Nat
  BY LenProperties DEF Gathering
<1>2. n <= most
  BY DEF Gathered
<1>3. c[j] \in D /\ cost[c[j]] \in Nat
  BY ElementOfSeq
<1>4. PICK m \in 0 .. n : /\ \A t \in 1 .. m : \E p \in 1 .. j - 1 : kept[t] = c[p]
                          /\ NoRoom(kept, cost, same, room, most, m, c[j])
  BY DEF Gathered
<1>5. 1 .. m \subseteq first
  <2>1. \A t \in 1 .. m : t \in 1 .. n
    BY <1>1
  <2>. QED BY <1>4, <2>1
<1> HIDE DEF n
<1>6. IsFiniteSet(1 .. m) /\ Cardinality(1 .. m) = m /\ IsFiniteSet(1 .. n) /\ Cardinality(1 .. n) = n
  <2>1. m \in Nat
    BY <1>1
  <2>. QED BY <1>1, <2>1, Counting
<1>7. first \in SUBSET (1 .. n)
  BY DEF n
<1>8. IsFiniteSet(first) /\ Cardinality(first) <= n /\ Cardinality(first) \in Nat
  <2> DEFINE S == 1 .. n
  <2>1. IsFiniteSet(S) /\ Cardinality(S) = n /\ first \in SUBSET S
    BY <1>6, <1>7
  <2> HIDE DEF S
  <2>. QED BY <2>1, FS_Subset, FS_CardinalityType
<1>9. CASE m = most
  <2>1. Cardinality(1 .. m) <= Cardinality(first)
    BY <1>5, <1>8, FS_Subset
  <2>. QED BY <1>1, <1>2, <1>6, <1>8, <1>9, <2>1
<1>10. CASE Spent(kept, cost, m) + cost[c[j]] > room
  <2>1. \A t \in first : Costs(kept, cost)[t] \in Nat
    BY <1>1, <1>7, SpentTypes DEF n
  <2>2. SumFunctionOnSet(Costs(kept, cost), 1 .. m) <= SumFunctionOnSet(Costs(kept, cost), first)
    BY <1>5, <1>8, <2>1, SumPart
  <2>3. /\ SumFunctionOnSet(Costs(kept, cost), 1 .. m) \in Nat
        /\ SumFunctionOnSet(Costs(kept, cost), first) \in Nat
    <3>1. \A t \in 1 .. m : Costs(kept, cost)[t] \in Nat
      BY <1>5, <2>1
    <3>. QED BY <1>6, <1>8, <2>1, <3>1, SumNat
  <2>4. SumFunctionOnSet(Costs(kept, cost), 1 .. m) + cost[c[j]] > room
    BY <1>10 DEF Spent
  <2>. QED BY <1>3, <2>2, <2>3, <2>4
<1>11. ~\E t \in 1 .. m : <<kept[t], c[j]>> \in same
  <2>1. \A t \in 1 .. m : t \in 1 .. n
    BY <1>1
  <2>. QED BY <2>1 DEF n
<1>. QED BY <1>4, <1>9, <1>10, <1>11 DEF NoRoom

\* What is kept costs no more than the room.
LEMMA RoomKept ==
  ASSUME NEW D, NEW c \in Seq(D), NEW cost \in [D -> Nat], NEW same,
         NEW room \in Nat, NEW most \in Nat, NEW loop \in Gathering(D),
         Gathered(loop, c, cost, same, room, most, Len(c))
  PROVE  /\ loop.kept \in Seq(D) /\ DOMAIN loop.kept = 1 .. Len(loop.kept)
         /\ Len(loop.kept) <= most
         /\ SumFunctionOnSet(Costs(loop.kept, cost), DOMAIN loop.kept) <= room
         /\ \A t \in DOMAIN loop.kept : \E p \in 1 .. Len(c) : loop.kept[t] = c[p]
<1>1. loop.kept \in Seq(D) /\ DOMAIN loop.kept = 1 .. Len(loop.kept)
  BY LenProperties DEF Gathering
<1>2. /\ Len(loop.kept) <= most /\ loop.used = Spent(loop.kept, cost, Len(loop.kept))
      /\ loop.used <= room
      /\ \A t \in 1 .. Len(loop.kept) : \E p \in 1 .. Len(c) : loop.kept[t] = c[p]
  BY DEF Gathered
<1>. QED BY <1>1, <1>2 DEF Spent

\* The sum of the costs of some kept ones, as Filled states it.
LEMMA SumOfSome ==
  ASSUME NEW D, NEW kept \in Seq(D), NEW cost \in [D -> Nat], NEW I \in SUBSET (DOMAIN kept),
         NEW f, f = [i \in I |-> cost[kept[i]]]
  PROVE  SumFunction(f) = SumFunctionOnSet(Costs(kept, cost), I)
<1>1. DOMAIN kept = 1 .. Len(kept) /\ Len(kept) \in Nat
  BY LenProperties
<1>2. IsFiniteSet(I)
  BY <1>1, IntervalFinite, FS_Subset
<1>3. \A i \in I : Costs(kept, cost)[i] \in Nat /\ f[i] = Costs(kept, cost)[i]
  <2>1. \A i \in I : Costs(kept, cost)[i] \in Nat
    BY <1>1, SpentTypes
  <2>. QED BY <2>1 DEF Costs
<1>4. SumFunctionOnSet(f, I) = SumFunctionOnSet(Costs(kept, cost), I)
  BY <1>2, <1>3, SumSame
<1>. QED BY <1>4 DEF SumFunction

-----------------------------------------------------------------------------
(* The context.                                                            *)

\* Multiplication keeps an order.
LEMMA Times ==
  ASSUME NEW x \in Int, NEW y \in Int, NEW z \in Nat \ {0}
  PROVE  (x < y => x * z < y * z) /\ (x <= y => x * z <= y * z)
  OBVIOUS

\* Fractions are compared crosswise.
LEMMA Fractions ==
  ASSUME NEW a \in Nat, NEW c \in Nat, NEW e \in Nat,
         NEW b \in Nat \ {0}, NEW d \in Nat \ {0}, NEW f \in Nat \ {0}
  PROVE  /\ a * d > c * b /\ c * f >= e * d => a * f > e * b
         /\ a * d >= c * b /\ c * f > e * d => a * f > e * b
         /\ a * d >= c * b /\ c * f >= e * d => a * f >= e * b
<1>1. /\ a * d \in Int /\ c * b \in Int /\ c * f \in Int /\ e * d \in Int
      /\ a * f \in Int /\ e * b \in Int
  OBVIOUS
<1>2. /\ (a * d) * f = (a * f) * d /\ (c * b) * f = (c * f) * b /\ (e * d) * b = (e * b) * d
  OBVIOUS
<1> DEFINE ad == a * d
           cb == c * b
           cf == c * f
           ed == e * d
           af == a * f
           eb == e * b
<1>3. /\ (cb < ad => cb * f < ad * f) /\ (cb <= ad => cb * f <= ad * f)
      /\ (ed < cf => ed * b < cf * b) /\ (ed <= cf => ed * b <= cf * b)
  BY <1>1, Times
<1>4. (af <= eb => af * d <= eb * d) /\ (af < eb => af * d < eb * d)
  BY <1>1, Times
<1>5. ad * f = af * d /\ cb * f = cf * b /\ ed * b = eb * d
  BY <1>2
<1>6. /\ ad \in Int /\ cb \in Int /\ cf \in Int /\ ed \in Int /\ af \in Int /\ eb \in Int
      /\ ad * f \in Int /\ cb * f \in Int /\ ed * b \in Int
      /\ af * d \in Int /\ cf * b \in Int /\ eb * d \in Int
  BY <1>1
<1> HIDE DEF ad, cb, cf, ed, af, eb
<1> DEFINE adf == ad * f
           cbf == cb * f
           edb == ed * b
<1>7. /\ adf \in Int /\ cbf \in Int /\ edb \in Int
      /\ (cb < ad => cbf < adf) /\ (cb <= ad => cbf <= adf)
      /\ (ed < cf => edb < cbf) /\ (ed <= cf => edb <= cbf)
      /\ (af <= eb => adf <= edb) /\ (af < eb => adf < edb)
  BY <1>3, <1>4, <1>5, <1>6
<1> HIDE DEF adf, cbf, edb
<1>8. /\ ad > cb /\ cf >= ed => af > eb
      /\ ad >= cb /\ cf > ed => af > eb
      /\ ad >= cb /\ cf >= ed => af >= eb
  BY <1>6, <1>7
<1>. QED BY <1>8 DEF ad, cb, cf, ed, af, eb

\* The scores of three entries.
LEMMA Scores ==
  ASSUME NEW x \in Items, NEW y \in Items, NEW z \in Items
  PROVE  /\ ~Higher(x, x)
         /\ Higher(x, y) => ~Higher(y, x)
         /\ Higher(x, y) /\ ~Higher(z, y) => Higher(x, z)
         /\ ~Higher(y, x) /\ Higher(y, z) => Higher(x, z)
         /\ ~Higher(y, x) /\ ~Higher(z, y) => ~Higher(z, x)
<1>1. \A i \in Items : Score(i).points \in Nat /\ Score(i).per \in Nat \ {0}
  <2> SUFFICES ASSUME NEW i \in Items PROVE Score(i).points \in Nat /\ Score(i).per \in Nat \ {0}
    OBVIOUS
  <2>1. i.words \in Nat /\ i.overlap \in Nat /\ i.weight \in Nat
    BY DEF Items
  <2> DEFINE words == IF i.words = 0 THEN 1 ELSE i.words
             score == 100 * i.overlap + i.weight + (IF i.glob = "hits" THEN 2500 ELSE 0)
  <2>2. words \in Nat \ {0} /\ score \in Nat
    BY <2>1
  <2>3. Score(i).points = score * words + 500 * i.overlap /\ Score(i).per = words
    BY DEF Score
  <2> HIDE DEF words, score
  <2>. QED BY <2>1, <2>2, <2>3
<1> DEFINE a == Score(x).points
           b == Score(x).per
           c == Score(y).points
           d == Score(y).per
           e == Score(z).points
           f == Score(z).per
<1>2. /\ a \in Nat /\ c \in Nat /\ e \in Nat
      /\ b \in Nat \ {0} /\ d \in Nat \ {0} /\ f \in Nat \ {0}
  BY <1>1
<1>3. /\ Higher(x, x) <=> a * b > a * b
      /\ Higher(x, y) <=> a * d > c * b
      /\ Higher(y, x) <=> c * b > a * d
      /\ Higher(y, z) <=> c * f > e * d
      /\ Higher(z, y) <=> e * d > c * f
      /\ Higher(x, z) <=> a * f > e * b
      /\ Higher(z, x) <=> e * b > a * f
  BY DEF Higher
<1> HIDE DEF a, b, c, d, e, f
<1>4. /\ a * d > c * b /\ c * f >= e * d => a * f > e * b
      /\ a * d >= c * b /\ c * f > e * d => a * f > e * b
      /\ a * d >= c * b /\ c * f >= e * d => a * f >= e * b
  BY <1>2, Fractions
<1>5. /\ a * b \in Int /\ a * d \in Int /\ c * b \in Int /\ c * f \in Int /\ e * d \in Int
      /\ a * f \in Int /\ e * b \in Int
  BY <1>2
<1>. QED BY <1>3, <1>4, <1>5


\* The entries that may be told, the more relevant before the others.
Chosen(items) == {i \in DOMAIN items : Relevant(items[i])}
BeforeOther(items) ==
    {p \in Chosen(items) \X Chosen(items) :
        \/ Higher(items[p[1]], items[p[2]])
        \/ ~Higher(items[p[2]], items[p[1]]) /\ p[1] < p[2]}
ByRelevance(items) ==
    [n \in 1 .. Cardinality(Chosen(items)) |-> items[Sorted(BeforeOther(items), Chosen(items))[n]]]

\* Their order is strict.
LEMMA RelevanceOrders ==
  ASSUME NEW items \in Seq(Items)
  PROVE  /\ IsFiniteSet(Chosen(items)) /\ Chosen(items) \in SUBSET (1 .. Len(items))
         /\ Orders(BeforeOther(items), Chosen(items))
<1> DEFINE S == Chosen(items)
           R == BeforeOther(items)
<1>1. Len(items) \in Nat /\ DOMAIN items = 1 .. Len(items) /\ \A i \in 1 .. Len(items) : items[i] \in Items
  BY LenProperties, ElementOfSeq
<1>2. S \in SUBSET (1 .. Len(items))
  BY <1>1 DEF Chosen
<1>3. IsFiniteSet(S)
  BY <1>1, <1>2, Counting, FS_Subset
<1>4. \A i \in S : i \in Nat /\ items[i] \in Items
  BY <1>1, <1>2
<1>5. \A i, j \in S : <<i, j>> \in R <=>
        \/ Higher(items[i], items[j])
        \/ ~Higher(items[j], items[i]) /\ i < j
  BY DEF BeforeOther
<1> HIDE DEF S, R
<1>6. \A i \in S : <<i, i>> \notin R
  BY <1>4, <1>5, Scores
<1>7. \A i, j \in S : i # j => <<i, j>> \in R \/ <<j, i>> \in R
  BY <1>4, <1>5
<1>8. ASSUME NEW i \in S, NEW j \in S, NEW k \in S, <<i, j>> \in R, <<j, k>> \in R
      PROVE  <<i, k>> \in R
  <2> DEFINE x == items[i]
             y == items[j]
             z == items[k]
  <2>1. x \in Items /\ y \in Items /\ z \in Items /\ i \in Nat /\ j \in Nat /\ k \in Nat
    BY <1>4
  <2>2. /\ Higher(x, y) \/ (~Higher(y, x) /\ i < j)
        /\ Higher(y, z) \/ (~Higher(z, y) /\ j < k)
        /\ Higher(x, z) \/ (~Higher(z, x) /\ i < k) => <<i, k>> \in R
    BY <1>5, <1>8
  <2> HIDE DEF x, y, z
  <2>3. /\ Higher(y, z) => ~Higher(z, y)
        /\ Higher(x, y) => ~Higher(y, x)
        /\ Higher(x, y) /\ ~Higher(z, y) => Higher(x, z)
        /\ ~Higher(y, x) /\ Higher(y, z) => Higher(x, z)
        /\ ~Higher(y, x) /\ ~Higher(z, y) => ~Higher(z, x)
    BY <2>1, Scores
  <2>4. i < j /\ j < k => i < k
    BY <2>1
  <2>. QED BY <2>2, <2>3, <2>4
<1>9. Orders(R, S)
  BY <1>6, <1>7, <1>8 DEF Orders
<1>. QED BY <1>2, <1>3, <1>9 DEF S, R

\* The loop of select_context.
SelectLoop(s, w) ==
    w = [i \in 0 .. Len(s) |->
            IF i = 0 THEN [kept |-> <<>>, used |-> 0]
            ELSE LET before == w[i - 1]
                     c == s[i]
                 IN  Taken(before, c, c.chars, \E k \in Range(before.kept) : FALSE,
                           MaxContextChars, MaxContextItems)]

\* select_context is this loop over them.
LEMMA ContextSelected ==
  ASSUME NEW items \in Seq(Items)
  PROVE  SelectContext(items) =
           (CHOOSE w : SelectLoop(ByRelevance(items), w))[Len(ByRelevance(items))].kept
<1> DEFINE S == Chosen(items)
           order == [n \in 1 .. Cardinality(S) |->
                        CHOOSE x \in S : Cardinality({y \in S :
                            \/ Higher(items[y], items[x])
                            \/ ~Higher(items[x], items[y]) /\ y < x}) = n - 1]
           s == [n \in DOMAIN order |-> items[order[n]]]
<1>1. SelectContext(items) = (CHOOSE w : SelectLoop(s, w))[Len(s)].kept
  BY DEF SelectContext, Greedy, SelectLoop, Ordered, Nth, Chosen
<1>2. s = ByRelevance(items)
  <2>1. \A x \in S : {y \in S : \/ Higher(items[y], items[x])
                                \/ ~Higher(items[x], items[y]) /\ y < x} =
                     {y \in S : <<y, x>> \in BeforeOther(items)}
    BY DEF BeforeOther
  <2>2. ASSUME NEW n \in 1 .. Cardinality(S) PROVE order[n] = Sorted(BeforeOther(items), S)[n]
    <3>1. order[n] = CHOOSE x \in S : Cardinality({y \in S :
                            \/ Higher(items[y], items[x])
                            \/ ~Higher(items[x], items[y]) /\ y < x}) = n - 1
      OBVIOUS
    <3>2. Sorted(BeforeOther(items), S)[n] =
            CHOOSE x \in S : Cardinality({y \in S : <<y, x>> \in BeforeOther(items)}) = n - 1
      BY DEF Sorted
    <3>. QED BY <2>1, <3>1, <3>2
  <2>3. DOMAIN order = 1 .. Cardinality(S)
    OBVIOUS
  <2> HIDE DEF order
  <2>. QED BY <2>2, <2>3 DEF ByRelevance
<1> HIDE DEF s
<1>. QED BY <1>1, <1>2

\* What PromptsFilled says of the context.
ContextFilled(kept, context) ==
    LET fitting == {c \in Range(context) : Relevant(c)}
        Used(I) == SumFunction([i \in I |-> kept[i].chars])
    IN  /\ Range(kept) \subseteq fitting
        /\ Used(DOMAIN kept) <= MaxContextChars /\ Len(kept) <= MaxContextItems
        /\ \A x \in fitting \ Range(kept) :
              LET first == {i \in DOMAIN kept : ~Higher(x, kept[i])}
              IN  Cardinality(first) = MaxContextItems \/ Used(first) + x.chars > MaxContextChars

\* The selected entries are what PromptsFilled says of them.
LEMMA ContextFills ==
  ASSUME NEW items \in Seq(Items)
  PROVE  ContextFilled(SelectContext(items), items)
<1> DEFINE S == Chosen(items)
           R == BeforeOther(items)
           N == Cardinality(S)
           order == Sorted(R, S)
           c == ByRelevance(items)
           cost == [x \in Items |-> x.chars]
           room == MaxContextChars
           most == MaxContextItems
           w == CHOOSE f : SelectLoop(c, f)
           loop == w[Len(c)]
           kept == loop.kept
<1>1. room \in Nat /\ most \in Nat
  BY IndexAssumption
<1>2. Len(items) \in Nat /\ DOMAIN items = 1 .. Len(items) /\ \A i \in 1 .. Len(items) : items[i] \in Items
  BY LenProperties, ElementOfSeq
<1>3. IsFiniteSet(S) /\ S \in SUBSET (1 .. Len(items)) /\ Orders(R, S)
  BY RelevanceOrders
<1>4. /\ N \in Nat /\ \A n \in 1 .. N : order[n] \in S
      /\ \A x \in S : \E n \in 1 .. N : order[n] = x
      /\ \A m, n \in 1 .. N : m < n => <<order[m], order[n]>> \in R
  BY <1>3, SortedAll
<1>5. c = [n \in 1 .. N |-> items[order[n]]]
  BY DEF ByRelevance
<1> HIDE DEF N, order, c
<1>6. c \in Seq(Items) /\ Len(c) = N
  <2>1. \A n \in 1 .. N : items[order[n]] \in Items
    BY <1>2, <1>3, <1>4
  <2>. QED BY <1>4, <1>5, <2>1
<1>7. cost \in [Items -> Nat]
  BY DEF Items
<1>8. ASSUME NEW f PROVE SelectLoop(c, f) <=> Gathers(f, c, cost, {}, room, most)
  <2>1. \A i \in 1 .. Len(c) : cost[c[i]] = c[i].chars
    BY <1>6, ElementOfSeq
  <2>2. \A i \in 0 .. Len(c) : i # 0 => i \in 1 .. Len(c)
    BY <1>4, <1>6
  <2>3. \A k, x : ~Twice(k, x, {})
    BY DEF Twice
  <2> DEFINE a(i) == IF i = 0 THEN Nothing
                     ELSE Taken(f[i - 1], c[i], c[i].chars, FALSE, room, most)
             b(i) == IF i = 0 THEN Nothing
                     ELSE Taken(f[i - 1], c[i], cost[c[i]], Twice(f[i - 1].kept, c[i], {}), room, most)
  <2>4. \A i \in 0 .. Len(c) : a(i) = b(i)
    <3> SUFFICES ASSUME NEW i \in 0 .. Len(c), i # 0
                 PROVE  Taken(f[i - 1], c[i], c[i].chars, FALSE, room, most) =
                        Taken(f[i - 1], c[i], cost[c[i]], Twice(f[i - 1].kept, c[i], {}), room, most)
      OBVIOUS
    <3>1. cost[c[i]] = c[i].chars
      BY <2>1, <2>2
    <3>2. ~Twice(f[i - 1].kept, c[i], {})
      BY <2>3
    <3>. QED BY <3>1, <3>2 DEF Taken
  <2>5. SelectLoop(c, f) <=> f = [i \in 0 .. Len(c) |-> a(i)]
    BY DEF SelectLoop, Nothing
  <2>6. Gathers(f, c, cost, {}, room, most) <=> f = [i \in 0 .. Len(c) |-> b(i)]
    BY DEF Gathers
  <2> HIDE DEF a, b
  <2>7. [i \in 0 .. Len(c) |-> a(i)] = [i \in 0 .. Len(c) |-> b(i)]
    BY <2>4
  <2>. QED BY <2>5, <2>6, <2>7
<1> HIDE DEF cost
<1>9. Gathers(w, c, cost, {}, room, most)
  <2>1. \E f : Gathers(f, c, cost, {}, room, most)
    BY <1>1, <1>6, <1>7, GathersSome
  <2>2. \E f : SelectLoop(c, f)
    BY <1>8, <2>1
  <2>3. SelectLoop(c, w)
    BY <2>2
  <2>. QED BY <1>8, <2>3
<1>10. SelectContext(items) = kept
  BY ContextSelected DEF c
<1> DEFINE none == {}
<1> HIDE DEF w
<1>11. loop \in Gathering(Items) /\ Gathered(loop, c, cost, none, room, most, Len(c))
  <2>1. Len(c) \in 0 .. Len(c)
    BY <1>6, LenProperties
  <2>. QED BY <1>1, <1>6, <1>7, <1>9, <2>1, GatheredAll
<1> HIDE DEF loop, none
<1>12. /\ kept \in Seq(Items) /\ DOMAIN kept = 1 .. Len(kept) /\ Len(kept) <= most
       /\ SumFunctionOnSet(Costs(kept, cost), DOMAIN kept) <= room
       /\ \A t \in DOMAIN kept : \E p \in 1 .. Len(c) : kept[t] = c[p]
  <2>1. kept \in Seq(Items) /\ DOMAIN kept = 1 .. Len(kept)
    BY <1>11, LenProperties DEF Gathering
  <2>2. \A t \in 1 .. Len(kept) : \E p \in 1 .. Len(c) : kept[t] = c[p]
    BY <1>11 DEF Gathered
  <2>3. Len(kept) <= most
    BY <1>1, <1>6, <1>7, <1>11, RoomKept
  <2>4. SumFunctionOnSet(Costs(kept, cost), DOMAIN kept) <= room
    BY <1>1, <1>6, <1>7, <1>11, RoomKept
  <2>. QED BY <2>1, <2>2, <2>3, <2>4
<1>13. ASSUME NEW I \in SUBSET (DOMAIN kept)
       PROVE  SumFunction([i \in I |-> kept[i].chars]) = SumFunctionOnSet(Costs(kept, cost), I)
  <2>1. \A i \in I : cost[kept[i]] = kept[i].chars
    BY <1>12, ElementOfSeq DEF cost
  <2>2. [i \in I |-> cost[kept[i]]] = [i \in I |-> kept[i].chars]
    BY <2>1
  <2> DEFINE f == [i \in I |-> cost[kept[i]]]
  <2>3. f = [i \in I |-> cost[kept[i]]]
    OBVIOUS
  <2> HIDE DEF f
  <2>4. SumFunction(f) = SumFunctionOnSet(Costs(kept, cost), I)
    BY <1>7, <1>12, <2>3, SumOfSome
  <2>. QED BY <2>2, <2>3, <2>4
<1> DEFINE fitting == {x \in Range(items) : Relevant(x)}
<1>14. Range(kept) \subseteq fitting
  <2> SUFFICES ASSUME NEW t \in DOMAIN kept PROVE kept[t] \in fitting
    BY DEF Range
  <2>1. PICK n \in 1 .. N : kept[t] = items[order[n]]
    BY <1>5, <1>6, <1>12
  <2>2. order[n] \in DOMAIN items /\ Relevant(items[order[n]])
    BY <1>4 DEF Chosen
  <2>. QED BY <2>1, <2>2 DEF Range
<1>15. ASSUME NEW x \in fitting \ Range(kept),
              NEW first, first = {i \in DOMAIN kept : ~Higher(x, kept[i])}
       PROVE  \/ Cardinality(first) = most
              \/ SumFunction([i \in first |-> kept[i].chars]) + x.chars > room
  <2>1. PICK i \in DOMAIN items : items[i] = x /\ Relevant(x)
    BY DEF Range
  <2>2. i \in S
    BY <2>1 DEF Chosen
  <2>3. PICK j \in 1 .. N : order[j] = i
    BY <1>4, <2>2
  <2>4. c[j] = x /\ x \in Items /\ j \in 1 .. Len(c)
    BY <1>2, <1>5, <1>6, <2>1, <2>3
  <2>5. ASSUME NEW p \in 1 .. j - 1 PROVE ~Higher(x, c[p])
    <3>1. p \in 1 .. N /\ p < j
      BY <1>4
    <3>2. <<order[p], order[j]>> \in R /\ c[p] = items[order[p]]
      BY <1>4, <1>5, <3>1
    <3>3. Higher(items[order[p]], x) \/ ~Higher(x, items[order[p]])
      BY <2>1, <2>3, <3>2 DEF BeforeOther
    <3>4. items[order[p]] \in Items
      BY <1>2, <1>3, <1>4, <3>1
    <3>5. ~Higher(x, items[order[p]])
      BY <2>4, <3>3, <3>4, Scores
    <3>. QED BY <2>4, <3>2, <3>5
  <2>6. \A t \in 1 .. Len(kept) : kept[t] # c[j] /\ <<kept[t], c[j]>> \notin none
    BY <1>12, <2>4 DEF Range, none
  <2>7. /\ first \in SUBSET (1 .. Len(kept))
        /\ \A t \in 1 .. Len(kept), p \in 1 .. j - 1 : kept[t] = c[p] => t \in first
    BY <1>12, <1>15, <2>5
  <2>8. \/ Cardinality(first) = most
        \/ SumFunctionOnSet(Costs(kept, cost), first) + cost[c[j]] > room
    BY <1>1, <1>6, <1>7, <1>11, <2>4, <2>6, <2>7, RoomUsed
  <2>9. cost[c[j]] = x.chars
    BY <2>4 DEF cost
  <2>10. first \in SUBSET (DOMAIN kept)
    BY <1>15
  <2>11. SumFunction([t \in first |-> kept[t].chars]) = SumFunctionOnSet(Costs(kept, cost), first)
    BY <1>13, <2>10
  <2>. QED BY <2>8, <2>9, <2>11
<1>16. SumFunction([i \in DOMAIN kept |-> kept[i].chars]) <= room
  BY <1>12, <1>13
<1> HIDE DEF kept
<1>17. ContextFilled(kept, items)
  BY <1>12, <1>14, <1>15, <1>16 DEF ContextFilled
<1>. QED BY <1>10, <1>17


-----------------------------------------------------------------------------
(* The references.                                                         *)

\* The entries of the index are kept under their names, and a summary is one
\* that its own file gave.
Definitions == [name : STRING, path : Nat, parent : Seq(STRING), summary : Nat]
IndexOK(ix) ==
    /\ ix \in [Names -> Seq(Definitions)]
    /\ \A n \in Names : \A i \in DOMAIN ix[n] :
          ix[n][i].name = n /\ ix[n][i].summary \in {NoSummary, ix[n][i].path}

\* The definitions that may be told, and their order.
MentionedIn(mentions) == {n \in DOMAIN mentions \cap Names : Indexable(n) /\ mentions[n] > 0}
Elsewhere(ix, mentions, path) ==
    UNION {{<<n, i>> : i \in {k \in DOMAIN ix[n] : ix[n][k].path # path}} : n \in MentionedIn(mentions)}
PlaceOf(ix, mentions, d) == <<0 - mentions[d[1]], ix[d[1]][d[2]].path, NameRank(d[1]), d[2]>>
ComesBefore(ix, mentions, d, e) ==
    \E k \in 1 .. 4 : /\ PlaceOf(ix, mentions, d)[k] < PlaceOf(ix, mentions, e)[k]
                      /\ \A l \in 1 .. k - 1 :
                            PlaceOf(ix, mentions, d)[l] = PlaceOf(ix, mentions, e)[l]
BeforeIn(ix, mentions, path) ==
    {p \in Elsewhere(ix, mentions, path) \X Elsewhere(ix, mentions, path) :
        ComesBefore(ix, mentions, p[1], p[2])}
ByMentions(ix, mentions, path) ==
    LET found == Elsewhere(ix, mentions, path)
        order == Sorted(BeforeIn(ix, mentions, path), found)
    IN  [n \in 1 .. Cardinality(found) |-> ix[order[n][1]][order[n][2]]]

\* A name is known by its rank.
LEMMA Ranks ==
  /\ IsFiniteSet(Names)
  /\ \A n \in Names : NameRank(n) \in Nat
  /\ \A m, n \in Names : NameRank(m) = NameRank(n) => m = n
<1>1. NameOrder \in Seq(STRING) /\ Len(NameOrder) \in Nat /\ DOMAIN NameOrder = 1 .. Len(NameOrder)
  BY IndexAssumption, LenProperties
<1>2. \A n \in Names : NameRank(n) \in DOMAIN NameOrder /\ NameOrder[NameRank(n)] = n
  BY DEF Names, Range, NameRank
<1>3. IsFiniteSet(Names)
  <2>1. NameOrder \in Surjection(1 .. Len(NameOrder), Names)
    BY <1>1 DEF Surjection, Names, Range
  <2>. QED BY <1>1, <2>1, Counting, FS_Surjection
<1>. QED BY <1>1, <1>2, <1>3

\* What may be told: finitely many places of the index.
LEMMA ElsewhereFinite ==
  ASSUME NEW ix, IndexOK(ix), NEW mentions \in [Names -> Nat], NEW path
  PROVE  /\ IsFiniteSet(Elsewhere(ix, mentions, path))
         /\ \A d : d \in Elsewhere(ix, mentions, path) <=>
              \E n \in MentionedIn(mentions) : \E i \in DOMAIN ix[n] : d = <<n, i>> /\ ix[n][i].path # path
         /\ \A d \in Elsewhere(ix, mentions, path) :
              /\ d = <<d[1], d[2]>> /\ d[1] \in Names /\ Indexable(d[1]) /\ mentions[d[1]] > 0
              /\ d[2] \in Nat /\ d[2] \in DOMAIN ix[d[1]]
              /\ ix[d[1]][d[2]] \in Definitions /\ ix[d[1]][d[2]].name = d[1]
              /\ ix[d[1]][d[2]].path # path
<1> DEFINE M == MentionedIn(mentions)
           Of(n) == {<<n, i>> : i \in {k \in DOMAIN ix[n] : ix[n][k].path # path}}
           found == Elsewhere(ix, mentions, path)
<1>1. M \in SUBSET Names
  BY DEF MentionedIn
<1>2. \A n \in Names : /\ ix[n] \in Seq(Definitions) /\ Len(ix[n]) \in Nat
                       /\ DOMAIN ix[n] = 1 .. Len(ix[n])
                       /\ \A i \in DOMAIN ix[n] : ix[n][i] \in Definitions /\ ix[n][i].name = n
  BY LenProperties, ElementOfSeq DEF IndexOK
<1>3. found = UNION {Of(n) : n \in M}
  BY DEF Elsewhere
<1>4. \A d : d \in found <=>
        \E n \in M : \E i \in DOMAIN ix[n] : d = <<n, i>> /\ ix[n][i].path # path
  BY <1>3
<1>5. IsFiniteSet(found)
  <2>1. IsFiniteSet(M)
    BY <1>1, Ranks, FS_Subset
  <2>2. ASSUME NEW n \in M PROVE IsFiniteSet(Of(n))
    <3> DEFINE I == {k \in DOMAIN ix[n] : ix[n][k].path # path}
               g == [i \in I |-> <<n, i>>]
    <3>1. IsFiniteSet(I)
      <4>1. I \in SUBSET (1 .. Len(ix[n])) /\ Len(ix[n]) \in Nat
        BY <1>1, <1>2
      <4>. QED BY <4>1, Counting, FS_Subset
    <3> HIDE DEF I
    <3>2. g \in Surjection(I, Of(n))
      BY DEF Surjection, I
    <3> HIDE DEF g
    <3>. QED BY <3>1, <3>2, FS_Surjection
  <2> HIDE DEF Of, M
  <2> DEFINE h == [n \in M |-> Of(n)]
             all == {Of(n) : n \in M}
  <2>3. h \in Surjection(M, all)
    BY DEF Surjection
  <2>4. \A T \in all : IsFiniteSet(T)
    BY <2>2
  <2>5. found = UNION all
    BY <1>3
  <2> HIDE DEF h, all, found
  <2>6. IsFiniteSet(all)
    BY <2>1, <2>3, FS_Surjection
  <2>. QED BY <2>4, <2>5, <2>6, FS_UNION
<1>6. ASSUME NEW d \in found
      PROVE  /\ d = <<d[1], d[2]>> /\ d[1] \in Names /\ Indexable(d[1]) /\ mentions[d[1]] > 0
             /\ d[2] \in Nat /\ d[2] \in DOMAIN ix[d[1]]
             /\ ix[d[1]][d[2]] \in Definitions /\ ix[d[1]][d[2]].name = d[1]
             /\ ix[d[1]][d[2]].path # path
  <2>1. PICK n \in M : \E i \in DOMAIN ix[n] : d = <<n, i>> /\ ix[n][i].path # path
    BY <1>4, <1>6
  <2>2. PICK i \in DOMAIN ix[n] : d = <<n, i>> /\ ix[n][i].path # path
    BY <2>1
  <2>3. n \in Names /\ Indexable(n) /\ mentions[n] > 0
    BY <2>1 DEF MentionedIn
  <2>4. d[1] = n /\ d[2] = i /\ i \in Nat /\ d = <<d[1], d[2]>>
    BY <1>2, <2>2, <2>3
  <2>. QED BY <1>2, <2>2, <2>3, <2>4
<1>. QED BY <1>4, <1>5, <1>6

\* Their order is strict, and the more mentioned come first.
LEMMA MentionsOrder ==
  ASSUME NEW ix, IndexOK(ix), NEW mentions \in [Names -> Nat], NEW path
  PROVE  /\ Orders(BeforeIn(ix, mentions, path), Elsewhere(ix, mentions, path))
         /\ \A d, e \in Elsewhere(ix, mentions, path) :
              <<d, e>> \in BeforeIn(ix, mentions, path) => mentions[d[1]] >= mentions[e[1]]
<1> DEFINE found == Elsewhere(ix, mentions, path)
           R == BeforeIn(ix, mentions, path)
           W(d) == PlaceOf(ix, mentions, d)
<1>1. \A d \in found :
        /\ d = <<d[1], d[2]>> /\ d[1] \in Names /\ d[2] \in Nat /\ mentions[d[1]] \in Nat
        /\ ix[d[1]][d[2]] \in Definitions /\ NameRank(d[1]) \in Nat
  BY ElsewhereFinite, Ranks
<1>2. \A d \in found :
        /\ W(d)[1] = 0 - mentions[d[1]] /\ W(d)[2] = ix[d[1]][d[2]].path
        /\ W(d)[3] = NameRank(d[1]) /\ W(d)[4] = d[2]
        /\ W(d)[1] \in Int /\ W(d)[2] \in Int /\ W(d)[3] \in Int /\ W(d)[4] \in Int
  BY <1>1 DEF PlaceOf, Definitions
<1>3. \A d, e \in found : <<d, e>> \in R <=>
        \E k \in 1 .. 4 : W(d)[k] < W(e)[k] /\ \A l \in 1 .. k - 1 : W(d)[l] = W(e)[l]
  BY DEF BeforeIn, ComesBefore
<1>4. \A d, e \in found : W(d)[3] = W(e)[3] /\ W(d)[4] = W(e)[4] => d = e
  BY <1>1, <1>2, Ranks
<1> HIDE DEF W, found, R
<1>5. \A d, e \in found : <<d, e>> \in R <=>
        \/ W(d)[1] < W(e)[1]
        \/ W(d)[1] = W(e)[1] /\ W(d)[2] < W(e)[2]
        \/ W(d)[1] = W(e)[1] /\ W(d)[2] = W(e)[2] /\ W(d)[3] < W(e)[3]
        \/ W(d)[1] = W(e)[1] /\ W(d)[2] = W(e)[2] /\ W(d)[3] = W(e)[3] /\ W(d)[4] < W(e)[4]
  <2> SUFFICES ASSUME NEW d \in found, NEW e \in found
               PROVE  <<d, e>> \in R <=>
                        \/ W(d)[1] < W(e)[1]
                        \/ W(d)[1] = W(e)[1] /\ W(d)[2] < W(e)[2]
                        \/ W(d)[1] = W(e)[1] /\ W(d)[2] = W(e)[2] /\ W(d)[3] < W(e)[3]
                        \/ W(d)[1] = W(e)[1] /\ W(d)[2] = W(e)[2] /\ W(d)[3] = W(e)[3] /\ W(d)[4] < W(e)[4]
    OBVIOUS
  <2> DEFINE B(k) == W(d)[k] < W(e)[k] /\ \A l \in 1 .. k - 1 : W(d)[l] = W(e)[l]
  <2>1. <<d, e>> \in R <=> \E k \in 1 .. 4 : B(k)
    BY <1>3
  <2>2. /\ B(1) <=> W(d)[1] < W(e)[1]
        /\ B(2) <=> W(d)[1] = W(e)[1] /\ W(d)[2] < W(e)[2]
        /\ B(3) <=> W(d)[1] = W(e)[1] /\ W(d)[2] = W(e)[2] /\ W(d)[3] < W(e)[3]
        /\ B(4) <=> W(d)[1] = W(e)[1] /\ W(d)[2] = W(e)[2] /\ W(d)[3] = W(e)[3] /\ W(d)[4] < W(e)[4]
    <3>1. 1 .. 1 - 1 = {} /\ 1 .. 2 - 1 = {1} /\ 1 .. 3 - 1 = {1, 2} /\ 1 .. 4 - 1 = {1, 2, 3}
      OBVIOUS
    <3>. QED BY <3>1
  <2> HIDE DEF B
  <2>3. 1 .. 4 = {1, 2, 3, 4}
    OBVIOUS
  <2>. QED BY <2>1, <2>2, <2>3
<1>6. \A d \in found : <<d, d>> \notin R
  BY <1>2, <1>5
<1>7. \A d, e \in found : d # e => <<d, e>> \in R \/ <<e, d>> \in R
  BY <1>2, <1>4, <1>5
<1>8. \A d, e, f \in found : <<d, e>> \in R /\ <<e, f>> \in R => <<d, f>> \in R
  BY <1>2, <1>5
<1>9. \A d, e \in found : <<d, e>> \in R => mentions[d[1]] >= mentions[e[1]]
  <2> SUFFICES ASSUME NEW d \in found, NEW e \in found, <<d, e>> \in R
               PROVE  mentions[d[1]] >= mentions[e[1]]
    OBVIOUS
  <2>1. W(d)[1] <= W(e)[1]
    BY <1>2, <1>5
  <2>2. /\ W(d)[1] = 0 - mentions[d[1]] /\ W(e)[1] = 0 - mentions[e[1]]
        /\ mentions[d[1]] \in Nat /\ mentions[e[1]] \in Nat
    BY <1>1, <1>2
  <2>. QED BY <2>1, <2>2
<1>. QED BY <1>6, <1>7, <1>8, <1>9 DEF Orders, found, R


\* The loop of references_in.
ReferenceLoop(s, w) ==
    w = [i \in 0 .. Len(s) |->
            IF i = 0 THEN [kept |-> <<>>, used |-> 0]
            ELSE LET before == w[i - 1]
                     c == s[i]
                 IN  Taken(before, c, Rendered(c),
                           \E k \in Range(before.kept) : k.name = c.name /\ k.path = c.path,
                           MaxReferenceChars, MaxReferences)]

\* references_in is this loop over the definitions in their order.
LEMMA ReferencesSelected ==
  ASSUME NEW ix, NEW mentions, NEW path
  PROVE  ReferencesIn(ix, mentions, path) =
           (CHOOSE w : ReferenceLoop(ByMentions(ix, mentions, path), w))
              [Len(ByMentions(ix, mentions, path))].kept
<1> DEFINE S == Elsewhere(ix, mentions, path)
           R == BeforeIn(ix, mentions, path)
           order == [n \in 1 .. Cardinality(S) |->
                        CHOOSE d \in S : Cardinality({e \in S :
                            ComesBefore(ix, mentions, e, d)}) = n - 1]
           s == [n \in DOMAIN order |-> ix[order[n][1]][order[n][2]]]
<1>1. ReferencesIn(ix, mentions, path) = (CHOOSE w : ReferenceLoop(s, w))[Len(s)].kept
  BY DEF ReferencesIn, Greedy, ReferenceLoop, Ordered, Nth, Elsewhere, MentionedIn, ComesBefore, PlaceOf
<1>2. s = ByMentions(ix, mentions, path)
  <2>1. \A d \in S : {e \in S : ComesBefore(ix, mentions, e, d)} = {e \in S : <<e, d>> \in R}
    BY DEF BeforeIn
  <2>2. ASSUME NEW n \in 1 .. Cardinality(S) PROVE order[n] = Sorted(R, S)[n]
    <3>1. order[n] = CHOOSE d \in S : Cardinality({e \in S : ComesBefore(ix, mentions, e, d)}) = n - 1
      OBVIOUS
    <3>2. Sorted(R, S)[n] = CHOOSE d \in S : Cardinality({e \in S : <<e, d>> \in R}) = n - 1
      BY DEF Sorted
    <3>. QED BY <2>1, <3>1, <3>2
  <2>3. DOMAIN order = 1 .. Cardinality(S)
    OBVIOUS
  <2> HIDE DEF order
  <2>. QED BY <2>2, <2>3 DEF ByMentions
<1> HIDE DEF s
<1>. QED BY <1>1, <1>2

\* What PromptsFilled says of the references.
ReferencesFilled(kept, ix, mentions, path) ==
    LET known == UNION {Range(ix[n]) : n \in {m \in Names : Indexable(m) /\ mentions[m] > 0}}
        left == {d \in known : d.path # path /\ \A i \in DOMAIN kept :
                    <<kept[i].path, kept[i].name>> # <<d.path, d.name>>}
        Used(I) == SumFunction([i \in I |-> Rendered(kept[i])])
    IN  /\ \A i \in DOMAIN kept :
              kept[i].path # path /\ kept[i].summary \in {NoSummary, kept[i].path}
        /\ Used(DOMAIN kept) <= MaxReferenceChars /\ Len(kept) <= MaxReferences
        /\ \A x \in left :
              LET first == {i \in DOMAIN kept : ~(mentions[x.name] > mentions[kept[i].name])}
              IN  Cardinality(first) = MaxReferences \/ Used(first) + Rendered(x) > MaxReferenceChars

\* The references told are what PromptsFilled says of them.
LEMMA ReferencesFill ==
  ASSUME NEW ix, IndexOK(ix), NEW mentions \in [Names -> Nat], NEW path
  PROVE  ReferencesFilled(ReferencesIn(ix, mentions, path), ix, mentions, path)
<1> DEFINE D == Definitions
           S == Elsewhere(ix, mentions, path)
           R == BeforeIn(ix, mentions, path)
           N == Cardinality(S)
           order == Sorted(R, S)
           c == ByMentions(ix, mentions, path)
           cost == [x \in D |-> Rendered(x)]
           same == {p \in D \X D : p[1].name = p[2].name /\ p[1].path = p[2].path}
           room == MaxReferenceChars
           most == MaxReferences
           w == CHOOSE f : ReferenceLoop(c, f)
<1>1. room \in Nat /\ most \in Nat
  BY IndexAssumption
<1>2. \A d \in S : /\ ix[d[1]][d[2]] \in D /\ ix[d[1]][d[2]].name = d[1] /\ d[1] \in Names
                   /\ d[2] \in DOMAIN ix[d[1]] /\ ix[d[1]][d[2]].path # path
  BY ElsewhereFinite
<1>3. IsFiniteSet(S) /\ Orders(R, S)
  BY ElsewhereFinite, MentionsOrder
<1>4. /\ N \in Nat /\ \A n \in 1 .. N : order[n] \in S
      /\ \A x \in S : \E n \in 1 .. N : order[n] = x
      /\ \A m, n \in 1 .. N : m < n => <<order[m], order[n]>> \in R
  BY <1>3, SortedAll
<1>5. c = [n \in 1 .. N |-> ix[order[n][1]][order[n][2]]]
  BY DEF ByMentions
<1> HIDE DEF N, order, c, S, R
<1>6. c \in Seq(D) /\ Len(c) = N
  <2>1. \A n \in 1 .. N : ix[order[n][1]][order[n][2]] \in D
    BY <1>2, <1>4
  <2>. QED BY <1>4, <1>5, <2>1
<1>7. cost \in [D -> Nat]
  BY DEF Rendered
<1>8. PICK u : Gathers(u, c, cost, same, room, most)
  <2> HIDE DEF cost, same
  <2>. QED BY <1>1, <1>6, <1>7, GathersSome
<1>9. \A i \in 0 .. Len(c) : u[i] \in Gathering(D) /\ Gathered(u[i], c, cost, same, room, most, i)
  <2> HIDE DEF cost, same
  <2>. QED BY <1>1, <1>6, <1>7, <1>8, GatheredAll
<1>10. \A i \in 1 .. Len(c) : c[i] \in D /\ cost[c[i]] = Rendered(c[i])
  BY <1>6, ElementOfSeq
<1> DEFINE There(kept, x) == \E k \in Range(kept) : k.name = x.name /\ k.path = x.path
<1>11. \A i \in 0 .. Len(c) : \A x \in D : Twice(u[i].kept, x, same) <=> There(u[i].kept, x)
  <2> SUFFICES ASSUME NEW i \in 0 .. Len(c), NEW x \in D
               PROVE  Twice(u[i].kept, x, same) <=> There(u[i].kept, x)
    OBVIOUS
  <2>1. u[i].kept \in Seq(D)
    BY <1>9 DEF Gathering
  <2>2. \A k \in Range(u[i].kept) : k \in D
    BY <2>1, RangeOfSeq
  <2>. QED BY <2>2 DEF Twice
<1> DEFINE Step(l, x) == Taken(l, x, Rendered(x), There(l.kept, x), room, most)
           rec(f) == [i \in 0 .. Len(c) |-> IF i = 0 THEN Nothing ELSE Step(f[i - 1], c[i])]
<1>12. \A f : ReferenceLoop(c, f) <=> f = rec(f)
  BY DEF ReferenceLoop, Nothing
<1>13. \A i \in 0 .. Len(c) : u[i] = IF i = 0 THEN Nothing ELSE Step(u[i - 1], c[i])
  <2> SUFFICES ASSUME NEW i \in 0 .. Len(c)
               PROVE  u[i] = IF i = 0 THEN Nothing ELSE Step(u[i - 1], c[i])
    OBVIOUS
  <2>1. u[i] = IF i = 0 THEN Nothing
               ELSE Taken(u[i - 1], c[i], cost[c[i]], Twice(u[i - 1].kept, c[i], same), room, most)
    <3> HIDE DEF cost, same
    <3>. QED BY <1>8 DEF Gathers
  <2>2. ASSUME i # 0
        PROVE  /\ cost[c[i]] = Rendered(c[i])
               /\ Twice(u[i - 1].kept, c[i], same) <=> There(u[i - 1].kept, c[i])
    <3>1. i \in 1 .. Len(c) /\ i - 1 \in 0 .. Len(c)
      BY <1>4, <1>6, <2>2
    <3> HIDE DEF There, cost, same
    <3>. QED BY <1>10, <1>11, <3>1
  <2> HIDE DEF There, cost, same
  <2>. QED BY <2>1, <2>2 DEF Taken
<1> HIDE DEF There
<1>14. ReferenceLoop(c, w)
  <2>1. u = [i \in 0 .. Len(c) |-> u[i]]
    <3> HIDE DEF cost, same
    <3>. QED BY <1>8 DEF Gathers
  <2>2. u = rec(u)
    <3> HIDE DEF Step
    <3>. QED BY <1>13, <2>1
  <2> HIDE DEF rec
  <2>. QED BY <1>12, <2>2
<1>15. \A i \in 0 .. Len(c) : w[i] = IF i = 0 THEN Nothing ELSE Step(w[i - 1], c[i])
  <2> HIDE DEF w, Step
  <2>1. w = rec(w)
    BY <1>12, <1>14
  <2>. QED BY <2>1
<1>16. ReferencesIn(ix, mentions, path) = w[Len(c)].kept
  BY ReferencesSelected DEF c
<1> HIDE DEF w, cost, same, Step
<1>17. N \in Nat /\ w[0] = u[0] /\ \A k \in 1 .. N : w[k - 1] = u[k - 1] => w[k] = u[k]
  <2>1. 0 \in 0 .. Len(c) /\ \A k \in 1 .. N : k \in 0 .. Len(c) /\ k # 0
    BY <1>4, <1>6
  <2>. QED BY <1>4, <1>13, <1>15, <2>1
<1>18. \A k \in 0 .. N : w[k] = u[k]
  BY ONLY <1>17, SameUpTo
<1> DEFINE loop == u[Len(c)]
           kept == loop.kept
<1>19. ReferencesIn(ix, mentions, path) = kept
  <2>1. Len(c) \in 0 .. N
    BY <1>4, <1>6
  <2>. QED BY <1>16, <1>18, <2>1
<1>20. loop \in Gathering(D) /\ Gathered(loop, c, cost, same, room, most, Len(c))
  <2>1. Len(c) \in 0 .. Len(c)
    BY <1>4, <1>6
  <2>. QED BY <1>9, <2>1
<1> HIDE DEF loop
<1>21. /\ kept \in Seq(D) /\ DOMAIN kept = 1 .. Len(kept) /\ Len(kept) <= most
       /\ SumFunctionOnSet(Costs(kept, cost), DOMAIN kept) <= room
       /\ \A t \in DOMAIN kept : \E p \in 1 .. Len(c) : kept[t] = c[p]
  <2>1. kept \in Seq(D) /\ DOMAIN kept = 1 .. Len(kept)
    BY <1>20, LenProperties DEF Gathering
  <2>2. \A t \in 1 .. Len(kept) : \E p \in 1 .. Len(c) : kept[t] = c[p]
    BY <1>20 DEF Gathered
  <2>3. Len(kept) <= most
    BY <1>1, <1>6, <1>7, <1>20, RoomKept
  <2>4. SumFunctionOnSet(Costs(kept, cost), DOMAIN kept) <= room
    BY <1>1, <1>6, <1>7, <1>20, RoomKept
  <2>. QED BY <2>1, <2>2, <2>3, <2>4
<1>22. ASSUME NEW I \in SUBSET (DOMAIN kept)
       PROVE  SumFunction([i \in I |-> Rendered(kept[i])]) = SumFunctionOnSet(Costs(kept, cost), I)
  <2>1. \A i \in I : cost[kept[i]] = Rendered(kept[i])
    BY <1>21, ElementOfSeq DEF cost
  <2>2. [i \in I |-> cost[kept[i]]] = [i \in I |-> Rendered(kept[i])]
    BY <2>1
  <2> DEFINE f == [i \in I |-> cost[kept[i]]]
  <2>3. f = [i \in I |-> cost[kept[i]]]
    OBVIOUS
  <2> HIDE DEF f
  <2>4. SumFunction(f) = SumFunctionOnSet(Costs(kept, cost), I)
    BY <1>7, <1>21, <2>3, SumOfSome
  <2>. QED BY <2>2, <2>3, <2>4
<1>23. ASSUME NEW t \in DOMAIN kept
       PROVE  kept[t].path # path /\ kept[t].summary \in {NoSummary, kept[t].path}
  <2>1. PICK p \in 1 .. N : kept[t] = c[p]
    BY <1>6, <1>21
  <2>2. order[p] \in S /\ kept[t] = ix[order[p][1]][order[p][2]]
    BY <1>4, <1>5, <2>1
  <2>. QED BY <1>2, <2>2 DEF IndexOK
<1> DEFINE known == UNION {Range(ix[n]) : n \in {m \in Names : Indexable(m) /\ mentions[m] > 0}}
           left == {d \in known : d.path # path /\ \A i \in DOMAIN kept :
                       <<kept[i].path, kept[i].name>> # <<d.path, d.name>>}
<1>24. ASSUME NEW x \in left,
              NEW first, first = {i \in DOMAIN kept : ~(mentions[x.name] > mentions[kept[i].name])}
       PROVE  \/ Cardinality(first) = most
              \/ SumFunction([i \in first |-> Rendered(kept[i])]) + Rendered(x) > room
  <2>1. PICK n \in Names : Indexable(n) /\ mentions[n] > 0 /\ x \in Range(ix[n])
    OBVIOUS
  <2>2. PICK i \in DOMAIN ix[n] : x = ix[n][i]
    BY <2>1 DEF Range
  <2>3. <<n, i>> \in S
    <3>1. n \in MentionedIn(mentions) /\ ix[n][i].path # path
      BY <2>1, <2>2 DEF MentionedIn
    <3>. QED BY <2>2, <3>1, ElsewhereFinite DEF S
  <2>4. PICK j \in 1 .. N : order[j] = <<n, i>>
    BY <1>4, <2>3
  <2>5. c[j] = x /\ x \in D /\ x.name = n /\ j \in 1 .. Len(c)
    <3> DEFINE d == <<n, i>>
    <3>1. d[1] = n /\ d[2] = i
      OBVIOUS
    <3>2. c[j] = ix[order[j][1]][order[j][2]] /\ j \in 1 .. Len(c)
      BY <1>4, <1>5, <1>6
    <3>3. d \in S /\ order[j] = d
      BY <2>3, <2>4
    <3> HIDE DEF d
    <3>4. ix[d[1]][d[2]] \in D /\ ix[d[1]][d[2]].name = d[1]
      BY <1>2, <3>3
    <3>. QED BY <2>2, <3>1, <3>2, <3>3, <3>4
  <2>6. ASSUME NEW p \in 1 .. j - 1 PROVE ~(mentions[x.name] > mentions[c[p].name])
    <3>1. p \in 1 .. N /\ p < j
      BY <1>4
    <3>2. order[p] \in S /\ order[j] \in S /\ <<order[p], order[j]>> \in R
      BY <1>4, <3>1
    <3>3. mentions[order[p][1]] >= mentions[order[j][1]]
      BY <3>2, MentionsOrder DEF S, R
    <3>4. c[p].name = order[p][1] /\ order[p][1] \in Names /\ order[j][1] = x.name /\ x.name \in Names
      BY <1>2, <1>5, <2>4, <2>5, <3>1, <3>2
    <3>5. mentions[order[p][1]] \in Nat /\ mentions[order[j][1]] \in Nat
      BY <3>4
    <3>. QED BY <3>3, <3>4, <3>5
  <2>7. \A t \in 1 .. Len(kept) : kept[t] # c[j] /\ <<kept[t], c[j]>> \notin same
    <3> SUFFICES ASSUME NEW t \in 1 .. Len(kept)
                 PROVE  kept[t] # c[j] /\ <<kept[t], c[j]>> \notin same
      OBVIOUS
    <3>1. <<kept[t].path, kept[t].name>> # <<x.path, x.name>>
      BY <1>21
    <3>. QED BY <2>5, <3>1 DEF same
  <2>8. /\ first \in SUBSET (1 .. Len(kept))
        /\ \A t \in 1 .. Len(kept), p \in 1 .. j - 1 : kept[t] = c[p] => t \in first
    BY <1>21, <1>24, <2>6
  <2>9. \/ Cardinality(first) = most
        \/ SumFunctionOnSet(Costs(kept, cost), first) + cost[c[j]] > room
    BY <1>1, <1>6, <1>7, <1>20, <2>5, <2>7, <2>8, RoomUsed
  <2>10. cost[c[j]] = Rendered(x)
    BY <2>5 DEF cost
  <2>11. first \in SUBSET (DOMAIN kept)
    BY <1>24
  <2>12. SumFunction([t \in first |-> Rendered(kept[t])]) = SumFunctionOnSet(Costs(kept, cost), first)
    BY <1>22, <2>11
  <2>. QED BY <2>9, <2>10, <2>12
<1>25. SumFunction([i \in DOMAIN kept |-> Rendered(kept[i])]) <= room
  BY <1>21, <1>22
<1> HIDE DEF kept
<1>26. ReferencesFilled(kept, ix, mentions, path)
  BY <1>21, <1>23, <1>24, <1>25 DEF ReferencesFilled
<1>. QED BY <1>19, <1>26


-----------------------------------------------------------------------------
(* The index.                                                              *)

\* The names of a file go to the end of the index.
LEMMA FileAdded ==
  ASSUME NEW ix, IndexOK(ix), NEW path \in Nat, NEW symbols \in Seq(Symbol)
  PROVE  IndexOK(AddFile(ix, path, symbols))
<1> DEFINE Own(n) == At(symbols, {i \in DOMAIN symbols : symbols[i].name = n})
           New(n) == [i \in DOMAIN Own(n) |->
                        [name |-> n, path |-> path, parent |-> Own(n)[i].parent,
                         summary |-> NoSummary]]
           Now(n) == IF ~Indexable(n) THEN ix[n] ELSE ix[n] \o New(n)
<1>1. AddFile(ix, path, symbols) = [n \in Names |-> Now(n)]
  BY DEF AddFile
<1>2. ASSUME NEW n \in Names
      PROVE  Now(n) \in Seq(Definitions) /\ \A i \in DOMAIN Now(n) :
                Now(n)[i].name = n /\ Now(n)[i].summary \in {NoSummary, Now(n)[i].path}
  <2>1. n \in STRING
    <3>1. NameOrder \in Seq(STRING)
      BY IndexAssumption
    <3>. QED BY <3>1, RangeOfSeq DEF Names
  <2>2. /\ ix[n] \in Seq(Definitions) /\ Len(ix[n]) \in Nat /\ DOMAIN ix[n] = 1 .. Len(ix[n])
        /\ \A i \in DOMAIN ix[n] : ix[n][i].name = n /\ ix[n][i].summary \in {NoSummary, ix[n][i].path}
    BY LenProperties DEF IndexOK
  <2>3. Own(n) \in Seq(Symbol)
    <3> DEFINE P == {i \in DOMAIN symbols : symbols[i].name = n}
    <3>1. P \in SUBSET (DOMAIN symbols)
      OBVIOUS
    <3> HIDE DEF P
    <3>2. At(symbols, P) \in Seq(Symbol)
      BY <3>1, AtSeq
    <3>. QED BY <3>2 DEF P
  <2> HIDE DEF Own
  <2>4. DOMAIN Own(n) = 1 .. Len(Own(n)) /\ Len(Own(n)) \in Nat
        /\ \A i \in DOMAIN Own(n) : Own(n)[i].parent \in Seq(STRING)
    <3>1. DOMAIN Own(n) = 1 .. Len(Own(n)) /\ Len(Own(n)) \in Nat
      BY <2>3, LenProperties
    <3>2. \A i \in DOMAIN Own(n) : Own(n)[i] \in Symbol
      BY <2>3, <3>1, ElementOfSeq
    <3>. QED BY <3>1, <3>2 DEF Symbol
  <2>5. \A i \in DOMAIN Own(n) : New(n)[i] \in Definitions
    BY <2>1, <2>4 DEF Definitions, NoSummary
  <2>6. New(n) \in Seq(Definitions) /\ DOMAIN New(n) = DOMAIN Own(n) /\ Len(New(n)) = Len(Own(n))
        /\ \A i \in 1 .. Len(New(n)) : New(n)[i].name = n /\ New(n)[i].summary = NoSummary
    BY <2>4, <2>5
  <2> HIDE DEF New
  <2>7. CASE Indexable(n)
    <3> DEFINE now == ix[n] \o New(n)
               a == Len(ix[n])
               b == Len(New(n))
    <3>1. a \in Nat /\ b \in Nat
      BY <2>2, <2>4, <2>6
    <3>2. /\ now \in Seq(Definitions) /\ Len(now) = a + b
          /\ \A i \in 1 .. a + b : now[i] = IF i <= a THEN ix[n][i] ELSE New(n)[i - a]
      <4>1. ix[n] \in Seq(Definitions) /\ New(n) \in Seq(Definitions)
        BY <2>2, <2>6
      <4>. QED BY ONLY <4>1, ConcatProperties
    <3>3. DOMAIN now = 1 .. a + b
      BY <3>2, LenProperties
    <3> HIDE DEF now
    <3>4. ASSUME NEW i \in 1 .. a + b
          PROVE  now[i].name = n /\ now[i].summary \in {NoSummary, now[i].path}
      <4>1. CASE i <= a
        <5>1. i \in DOMAIN ix[n] /\ now[i] = ix[n][i]
          BY <2>2, <3>1, <3>2, <4>1
        <5>. QED BY <2>2, <5>1
      <4>2. CASE i > a
        <5>1. i - a \in 1 .. b /\ now[i] = New(n)[i - a]
          BY <3>1, <3>2, <4>2
        <5>. QED BY <2>6, <5>1
      <4>. QED BY <3>1, <4>1, <4>2
    <3>5. Now(n) = now
      BY <2>7 DEF now
    <3> HIDE DEF Now
    <3>. QED BY <3>2, <3>3, <3>4, <3>5
  <2>. QED BY <2>2, <2>7
<1> HIDE DEF Now
<1>3. [n \in Names |-> Now(n)] \in [Names -> Seq(Definitions)]
  BY <1>2
<1>. QED BY <1>1, <1>2, <1>3 DEF IndexOK

\* The summaries of a file go to its own definitions.
LEMMA SummariesAttached ==
  ASSUME NEW ix, IndexOK(ix), NEW path \in Nat, NEW names
  PROVE  IndexOK(AttachSummaries(ix, path, [n \in names |-> path]))
<1> DEFINE Told(d) == IF Mine(d, path) THEN [d EXCEPT !.summary = path] ELSE d
           Now(n) == IF n \notin names THEN ix[n] ELSE [i \in DOMAIN ix[n] |-> Told(ix[n][i])]
<1>1. AttachSummaries(ix, path, [n \in names |-> path]) = [n \in Names |-> Now(n)]
  <2> DEFINE sums == [n \in names |-> path]
             Was(n) == IF n \notin DOMAIN sums THEN ix[n]
                       ELSE [i \in DOMAIN ix[n] |->
                               IF Mine(ix[n][i], path) THEN [ix[n][i] EXCEPT !.summary = sums[n]]
                               ELSE ix[n][i]]
  <2>1. AttachSummaries(ix, path, sums) = [n \in Names |-> Was(n)]
    BY DEF AttachSummaries
  <2>2. DOMAIN sums = names /\ \A n \in names : sums[n] = path
    OBVIOUS
  <2> HIDE DEF sums
  <2>3. \A n \in Names : Was(n) = Now(n)
    BY <2>2
  <2> HIDE DEF Was, Now
  <2>. QED BY <2>1, <2>3 DEF sums
<1>2. ASSUME NEW d \in Definitions, d.summary \in {NoSummary, d.path}
      PROVE  Told(d) \in Definitions /\ Told(d).name = d.name
             /\ Told(d).summary \in {NoSummary, Told(d).path}
  <2>1. CASE Mine(d, path)
    <3>1. d = [name |-> d.name, path |-> d.path, parent |-> d.parent, summary |-> d.summary]
      BY DEF Definitions
    <3>2. Told(d) = [name |-> d.name, path |-> d.path, parent |-> d.parent, summary |-> path]
      BY <2>1, <3>1
    <3>3. d.path = path
      BY <2>1 DEF Mine
    <3> HIDE DEF Told
    <3>. QED BY <3>2, <3>3 DEF Definitions
  <2>. QED BY <1>2, <2>1
<1> HIDE DEF Told
<1>3. ASSUME NEW n \in Names
      PROVE  Now(n) \in Seq(Definitions) /\ \A i \in DOMAIN Now(n) :
                Now(n)[i].name = n /\ Now(n)[i].summary \in {NoSummary, Now(n)[i].path}
  <2>1. /\ ix[n] \in Seq(Definitions) /\ Len(ix[n]) \in Nat /\ DOMAIN ix[n] = 1 .. Len(ix[n])
        /\ \A i \in DOMAIN ix[n] : /\ ix[n][i] \in Definitions /\ ix[n][i].name = n
                                   /\ ix[n][i].summary \in {NoSummary, ix[n][i].path}
    BY LenProperties, ElementOfSeq DEF IndexOK
  <2>2. CASE n \in names
    <3> DEFINE now == [i \in DOMAIN ix[n] |-> Told(ix[n][i])]
    <3>1. \A i \in DOMAIN ix[n] : /\ now[i] \in Definitions /\ now[i].name = n
                                  /\ now[i].summary \in {NoSummary, now[i].path}
      BY <1>2, <2>1
    <3>2. DOMAIN now = 1 .. Len(ix[n]) /\ now \in Seq(Definitions)
      <4> DEFINE l == Len(ix[n])
      <4>1. l \in Nat /\ now \in [1 .. l -> Definitions]
        BY <2>1, <3>1
      <4> HIDE DEF l, now
      <4>2. now \in Seq(Definitions) /\ DOMAIN now = 1 .. l
        BY <4>1
      <4>. QED BY <4>2 DEF l
    <3>3. Now(n) = now
      BY <2>2
    <3> HIDE DEF now, Now
    <3>. QED BY <2>1, <3>1, <3>2, <3>3
  <2>. QED BY <2>1, <2>2
<1> HIDE DEF Now
<1>4. [n \in Names |-> Now(n)] \in [Names -> Seq(Definitions)]
  BY <1>3
<1>. QED BY <1>1, <1>3, <1>4 DEF IndexOK

\* The index of a job is made file by file.
Indexes == {ix \in [Names -> Seq(Definitions)] : IndexOK(ix)}
IndexLoop(fs, text, f) ==
    f = [i \in 0 .. Len(fs) |->
            IF i = 0 THEN EmptyIndex
            ELSE LET before == f[i - 1]
                     path == fs[i].path
                 IN  AddFile(before, path, Symbols(text[path].nodes))]

LEMMA IndexBuilt ==
  ASSUME NEW fs, NEW n \in Nat, n = Len(fs), NEW text,
         \A k \in 1 .. n : fs[k].path \in Nat /\ text[fs[k].path].nodes \in Tree
  PROVE  IndexOK((CHOOSE f : IndexLoop(fs, text, f))[n])
<1> DEFINE Step(k, ix) == AddFile(ix, fs[k].path, Symbols(text[fs[k].path].nodes))
           g == [p \in (1 .. n) \X Indexes |-> Step(p[1], p[2])]
           w == CHOOSE f : IndexLoop(fs, text, f)
<1>1. EmptyIndex \in Indexes
  <2>1. <<>> \in Seq(Definitions) /\ DOMAIN <<>> = {}
    BY EmptySeq
  <2>2. EmptyIndex \in [Names -> Seq(Definitions)] /\ \A m \in Names : EmptyIndex[m] = <<>>
    BY <2>1 DEF EmptyIndex
  <2>. QED BY <2>1, <2>2 DEF Indexes, IndexOK
<1>2. ASSUME NEW k \in 1 .. n, NEW ix \in Indexes PROVE Step(k, ix) \in Indexes
  <2>1. Symbols(text[fs[k].path].nodes) \in Seq(Symbol)
    BY SymbolsListed
  <2>2. IndexOK(Step(k, ix))
    BY <2>1, FileAdded DEF Indexes
  <2>. QED BY <2>2 DEF Indexes, IndexOK
<1>3. \A f : IndexLoop(fs, text, f) <=>
              f = [i \in 0 .. n |-> IF i = 0 THEN EmptyIndex ELSE Step(i, f[i - 1])]
  BY DEF IndexLoop
<1> HIDE DEF Step
<1>4. g \in [(1 .. n) \X Indexes -> Indexes]
  <2>1. \A p \in (1 .. n) \X Indexes : p[1] \in 1 .. n /\ p[2] \in Indexes
    OBVIOUS
  <2>. QED BY <1>2, <2>1
<1>5. \A k \in 1 .. n, ix \in Indexes : g[<<k, ix>>] = Step(k, ix)
  OBVIOUS
<1> HIDE DEF g
<1>6. PICK u \in [0 .. n -> Indexes] :
        u[0] = EmptyIndex /\ \A k \in 1 .. n : u[k] = g[<<k, u[k - 1]>>]
  <2>1. Leads(n, Indexes, EmptyIndex, g)
    BY <1>1, <1>4, Recursion
  <2>. QED BY <2>1 DEF Leads
<1>7. \A k \in 0 .. n : u[k] = IF k = 0 THEN EmptyIndex ELSE Step(k, u[k - 1])
  <2>1. \A k \in 0 .. n : k = 0 \/ (k \in 1 .. n /\ k - 1 \in 0 .. n)
    OBVIOUS
  <2>. QED BY <1>5, <1>6, <2>1
<1>8. IndexLoop(fs, text, u)
  <2>1. u = [k \in 0 .. n |-> u[k]]
    BY <1>6
  <2>. QED BY <1>3, <1>7, <2>1
<1>9. IndexLoop(fs, text, w)
  BY <1>8
<1> HIDE DEF w
<1>10. \A k \in 0 .. n : w[k] = IF k = 0 THEN EmptyIndex ELSE Step(k, w[k - 1])
  BY <1>3, <1>9
<1>11. n \in Nat /\ w[0] = u[0] /\ \A k \in 1 .. n : w[k - 1] = u[k - 1] => w[k] = u[k]
  <2>1. 0 \in 0 .. n /\ \A k \in 1 .. n : k \in 0 .. n /\ k # 0
    OBVIOUS
  <2>. QED BY <1>7, <1>10, <2>1
<1>12. \A k \in 0 .. n : w[k] = u[k]
  BY ONLY <1>11, SameUpTo
<1>13. w[n] \in Indexes
  <2>1. n \in 0 .. n
    OBVIOUS
  <2>. QED BY <1>6, <1>12, <2>1
<1>. QED BY <1>13 DEF Indexes, w

\* How often a chunk mentions the names.
LEMMA MentionsCounted ==
  ASSUME NEW symbols \in Seq(Symbol), NEW says \in Seq(SUBSET STRING), NEW chunk,
         symbols # <<>> => chunk \in Chunk
  PROVE  Mentions(symbols, says, chunk) \in [Names -> Nat]
<1>2. ASSUME NEW s \in Seq(Symbol), NEW P \in SUBSET (DOMAIN s) PROVE Cardinality(P) \in Nat
  <2>1. DOMAIN s = 1 .. Len(s) /\ Len(s) \in Nat
    BY LenProperties
  <2>. QED BY <2>1, Counting, FS_Subset, FS_CardinalityType
<1>3. ASSUME NEW n \in Names, symbols # <<>>
      PROVE  /\ Cardinality({i \in DOMAIN symbols : symbols[i].name = n}) \in Nat
             /\ Cardinality({i \in DOMAIN chunk.symbols : n \in chunk.symbols[i].calls}) \in Nat
  <2>1. Cardinality({i \in DOMAIN symbols : symbols[i].name = n}) \in Nat
    BY <1>2
  <2>2. chunk.symbols \in Seq(Symbol)
    BY <1>3 DEF Chunk
  <2>3. Cardinality({i \in DOMAIN chunk.symbols : n \in chunk.symbols[i].calls}) \in Nat
    BY <1>2, <2>2
  <2>. QED BY <2>1, <2>3
<1>4. ASSUME NEW n \in Names
      PROVE  Cardinality({i \in DOMAIN says :
                            i \in chunk.from .. chunk.to /\ n \in says[i]}) \in Nat
  <2>1. DOMAIN says = 1 .. Len(says) /\ Len(says) \in Nat
    BY LenProperties
  <2>. QED BY <2>1, Counting, FS_Subset, FS_CardinalityType
<1> DEFINE Header(n) == Cardinality({i \in DOMAIN symbols : symbols[i].name = n}) +
                        Cardinality({i \in DOMAIN chunk.symbols : n \in chunk.symbols[i].calls})
           Line(n) == Cardinality({i \in DOMAIN says :
                                     i \in chunk.from .. chunk.to /\ n \in says[i]})
           M(n) == IF symbols = <<>> THEN Line(n) ELSE Header(n)
<1>5. Mentions(symbols, says, chunk) = [n \in Names |-> M(n)]
  BY DEF Mentions
<1>6. \A n \in Names : symbols # <<>> => Header(n) \in Nat
  BY <1>3
<1>7. \A n \in Names : Line(n) \in Nat
  BY <1>4
<1> HIDE DEF Header, Line
<1>8. \A n \in Names : M(n) \in Nat
  BY <1>6, <1>7
<1> HIDE DEF M
<1>. QED BY <1>5, <1>8

-----------------------------------------------------------------------------
(* The prompts of a file.                                                  *)

\* PromptsFilled, file by file and chunk by chunk.
Prompted(nodes, says, path, made, words, ix, context, chosen) ==
    /\ \A k \in DOMAIN words :
          ReferencesFilled(words[k], ix, Mentions(Symbols(nodes), says, made[k]), path)
    /\ ContextFilled(chosen, context)

\* PromptsFilled in these words.
LEMMA PromptsSaid ==
  /\ PromptsFilled <=>
       (pc = "agents" => Prompted(Nodes(Path), Says(Path), Path, chunks, told, index, job.context,
                                    selected))
  /\ PromptsFilled' <=>
       (pc = "agents" => Prompted(Nodes(Path), Says(Path), Path, chunks, told, index, job.context,
                                    selected))'
<1>1. PromptsFilled <=>
       (pc = "agents" => Prompted(Nodes(Path), Says(Path), Path, chunks, told, index, job.context,
                                    selected))
  BY DEF PromptsFilled, Filled, Prompted, ReferencesFilled, ContextFilled
<1>2. PromptsFilled' <=>
       (pc = "agents" => Prompted(Nodes(Path), Says(Path), Path, chunks, told, index, job.context,
                                    selected))'
  BY DEF PromptsFilled, Filled, Prompted, ReferencesFilled, ContextFilled
<1>. QED BY <1>1, <1>2

\* The prompts made of a file.
LEMMA PromptFills ==
  ASSUME NEW nodes \in Tree, NEW says \in Seq(SUBSET STRING), NEW path, NEW made, NEW words, NEW ix, IndexOK(ix),
         NEW context \in Seq(Items),
         Symbols(nodes) # <<>> => made = SymbolChunks(Symbols(nodes)),
         words = [k \in DOMAIN made |->
                    ReferencesIn(ix, Mentions(Symbols(nodes), says, made[k]), path)]
  PROVE  Prompted(nodes, says, path, made, words, ix, context, SelectContext(context))
<1>1. ContextFilled(SelectContext(context), context)
  BY ContextFills
<1>2. ASSUME NEW k \in DOMAIN words
      PROVE  ReferencesFilled(words[k], ix, Mentions(Symbols(nodes), says, made[k]), path)
  <2> DEFINE mentions == Mentions(Symbols(nodes), says, made[k])
  <2>1. Symbols(nodes) \in Seq(Symbol)
    BY SymbolsListed
  <2>2. k \in DOMAIN made
    OBVIOUS
  <2>3. ASSUME Symbols(nodes) # <<>> PROVE made[k] \in Chunk
    <3>1. made \in Seq(Chunk)
      BY <2>1, <2>3, SymbolsChunked
    <3>. QED BY <2>2, <3>1, ElementOfSeq, LenProperties
  <2>4. mentions \in [Names -> Nat]
    BY <2>1, <2>3, MentionsCounted
  <2>5. words[k] = ReferencesIn(ix, mentions, path)
    BY <2>2
  <2> HIDE DEF mentions
  <2>6. ReferencesFilled(words[k], ix, mentions, path)
    BY <2>4, <2>5, ReferencesFill
  <2>. QED BY <2>6 DEF mentions
<1>. QED BY <1>1, <1>2 DEF Prompted

PInv == AInv /\ IndexOK(index) /\ PromptsFilled

\* The file in hand is known.
LEMMA PathKnown ==
  ASSUME WInv, PathsKnown, pc \in {"file", "agents"}, at <= Len(files)
  PROVE  Path \in Known /\ Path \in Nat
<1>1. files \in Seq(KnownFiles) /\ at \in 1 .. Len(files)
  BY LenProperties DEF PathsKnown
<1>2. files[at] \in KnownFiles
  BY <1>1, ElementOfSeq
<1>. QED BY <1>2 DEF KnownFiles, Files, Path

\* The index of the files the plan covers.
LEMMA BuildIndexOK == ASSUME WInv, PathsKnown, BuildIndex PROVE IndexOK(index')
<1> DEFINE n == Len(files')
<1>1. index' = (CHOOSE f : IndexLoop(files', job.text, f))[n]
  BY DEF BuildIndex, IndexLoop, Nodes
<1>2. PathsKnown' /\ job' = job /\ KnownFiles' = KnownFiles /\ job \in Jobs
  <2>1. job' = job
    BY DEF BuildIndex
  <2>. QED BY <2>1, AnalysisKnown DEF WInv, WorkspaceOK, KnownFiles, Known
<1>3. files' \in Seq(KnownFiles) /\ n \in Nat
  BY <1>2, LenProperties DEF PathsKnown
<1>4. \A k \in 1 .. n : files'[k].path \in Nat /\ job.text[files'[k].path].nodes \in Tree
  <2>1. \A k \in 1 .. n : files'[k].path \in Nat /\ files'[k].path \in Known
    BY <1>3, ElementOfSeq DEF KnownFiles, Files
  <2>. QED BY <1>2, <2>1, JobTypes DEF Nodes
<1> DEFINE fs == files'
<1>5. n = Len(fs) /\ n \in Nat
      /\ \A k \in 1 .. n : fs[k].path \in Nat /\ job.text[fs[k].path].nodes \in Tree
  BY <1>3, <1>4
<1> HIDE DEF n, fs
<1>6. IndexOK((CHOOSE f : IndexLoop(fs, job.text, f))[n])
  BY <1>5, IndexBuilt
<1>. QED BY <1>1, <1>6 DEF fs

\* The first state.
LEMMA InitPInv == Init => PInv
<1> SUFFICES ASSUME Init PROVE PInv
  OBVIOUS
<1>1. index = EmptyIndex /\ pc # "agents"
  BY DEF Init
<1>2. IndexOK(index)
  <2>1. <<>> \in Seq(Definitions) /\ DOMAIN <<>> = {}
    BY EmptySeq
  <2>2. index \in [Names -> Seq(Definitions)] /\ \A m \in Names : index[m] = <<>>
    BY <1>1, <2>1 DEF EmptyIndex
  <2>. QED BY <2>1, <2>2 DEF IndexOK
<1>. QED BY <1>1, <1>2, InitAInv, PromptsSaid DEF PInv

\* The prompts are made from the index as it is, which a file changes only when
\* the agents are through with it.
LEMMA PInductive == PInv /\ [Next]_vars => PInv'
<1> SUFFICES ASSUME PInv, [Next]_vars PROVE PInv'
  OBVIOUS
<1>1. AInv /\ IndexOK(index) /\ PromptsFilled /\ AInv' /\ WInv /\ PathsKnown
  BY AInductive DEF PInv, AInv
<1>2. ASSUME index' = index PROVE IndexOK(index)'
  BY <1>1, <1>2
<1>3. CASE Fetch
  <2>1. index' = index /\ pc' # "agents"
    BY <1>1, <1>3, FetchKnown DEF Fetch, analysis
  <2>. QED BY <1>1, <1>2, <2>1, PromptsSaid DEF PInv
<1>4. CASE BuildIndex
  <2>1. pc' = "file"
    BY <1>4 DEF BuildIndex, Goto
  <2>. QED BY <1>1, <1>4, <2>1, BuildIndexOK, PromptsSaid DEF PInv
<1>5. CASE SkipFile \/ Abandon \/ Finish
  <2>1. index' = index /\ pc' \in {"file", "done"}
    BY <1>5 DEF SkipFile, Abandon, Finish, Goto, analysis
  <2>. QED BY <1>1, <1>2, <2>1, PromptsSaid DEF PInv
<1>6. CASE Documented
  <2>1. /\ pc = "agents" /\ pc' = "file"
        /\ \E names : index' = AttachSummaries(index, Path, [n \in names |-> Path])
    BY <1>6 DEF Documented, Goto
  <2>2. Path \in Nat
    BY <1>1, <2>1, PathKnown DEF PathsKnown
  <2>3. IndexOK(index')
    BY <1>1, <2>1, <2>2, SummariesAttached
  <2>. QED BY <1>1, <2>1, <2>3, PromptsSaid DEF PInv
<1>7. CASE Prompt
  <2> DEFINE nodes == Nodes(Path)
  <2>1. /\ job' = job /\ files' = files /\ at' = at /\ index' = index
        /\ at <= Len(files) /\ pc = "file"
        /\ Symbols(nodes) # <<>> => chunks' = SymbolChunks(Symbols(nodes))
        /\ told' = [k \in DOMAIN chunks' |->
                      ReferencesIn(index, Mentions(Symbols(nodes), Says(Path), chunks'[k]), Path)]
        /\ selected' = SelectContext(job.context)
    BY <1>7 DEF Prompt
  <2>2. Path' = Path /\ Nodes(Path)' = nodes /\ Says(Path)' = Says(Path)
    BY <2>1 DEF Path, Nodes, Says
  <2>3. nodes \in Tree /\ Says(Path) \in Seq(SUBSET STRING) /\ job.context \in Seq(Items)
    <3>1. job \in Jobs /\ Path \in Known
      BY <1>1, <2>1, PathKnown DEF WInv, WorkspaceOK
    <3>. QED BY <3>1, JobTypes, JobsAssumption
  <2> HIDE DEF nodes
  <2>4. Prompted(nodes, Says(Path), Path, chunks', told', index, job.context,
                SelectContext(job.context))
    BY <1>1, <2>1, <2>3, PromptFills
  <2>5. Prompted(Nodes(Path), Says(Path), Path, chunks, told, index, job.context,
                                    selected)'
    BY <2>1, <2>2, <2>4
  <2>. QED BY <1>1, <1>2, <2>1, <2>5, PromptsSaid DEF PInv
<1>8. CASE UNCHANGED vars
  <2>1. UNCHANGED <<pc, job, files, at, index, chunks, told, selected>>
    BY <1>8 DEF vars, analysis
  <2>2. Path' = Path /\ Nodes(Path)' = Nodes(Path) /\ Says(Path)' = Says(Path)
    BY <2>1 DEF Path, Nodes, Says
  <2>3. PromptsFilled'
    BY <1>1, <2>1, <2>2, PromptsSaid
  <2>. QED BY <1>1, <1>2, <2>1, <2>3 DEF PInv
<1>. QED BY <1>3, <1>4, <1>5, <1>6, <1>7, <1>8 DEF Next, Idle

\* references_in and select_context: whatever the index, the mentions, the
\* scores and the budgets, nothing is left out of a prompt for something less
\* relevant, and the budgets are kept.
THEOREM PromptsAlwaysFilled == Spec => []PromptsFilled
<1>1. PInv => PromptsFilled
  BY DEF PInv
<1>. QED BY <1>1, InitPInv, PInductive, PTL DEF Spec
==============================================================================
