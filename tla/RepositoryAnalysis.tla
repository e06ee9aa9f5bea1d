------------------------- MODULE RepositoryAnalysis -------------------------
(***************************************************************************)
(* From a repository or an archive to the prompts of its files: the path   *)
(* of worker/processor.py through the workspace, the parser, the chunks    *)
(* and the index.  The agents are DocumentationPipeline; here a file comes *)
(* back documented or not.                                                 *)
(***************************************************************************)
EXTENDS Workspace, Parsing, SymbolIndex

CONSTANT Jobs
    \* each with what is fetched, the files its plan covers, the texts of the
    \* files, those an earlier attempt has documented, and the project context

ASSUME JobsAssumption ==
    \A j \in Jobs :
        /\ j.type \in {"archive", "repository"} /\ j.plan \in Nat
        /\ j.entries \in Seq(Entries) /\ j.walk \in Seq(Files)
        /\ {x.path : x \in Range(j.entries) \cup Range(j.walk)} \subseteq DOMAIN j.text
        /\ \A p \in DOMAIN j.text :
               /\ j.text[p].nodes \in Tree /\ j.text[p].lines \in Seq(Nat)
               /\ j.text[p].says \in Seq(SUBSET STRING)
        /\ j.context \in Seq(Items)

VARIABLES
    job,        \* what the job is about: one of Jobs
    files,      \* the files to document
    at,         \* the one in hand
    index,      \* the symbol index of the job
    chunks,     \* the chunks of the file in hand
    told,       \* what the writer is told with each of them
    selected    \* the project context of the file in hand

analysis == <<files, at, index, chunks, told, selected>>
vars == <<pc, workspace, job, analysis>>

-----------------------------------------------------------------------------
Init ==
    /\ job \in Jobs
    /\ pc = IF job.type = "repository" THEN "clone" ELSE "manifest"
    /\ WorkspaceInit
    /\ zip = job.entries /\ walk = job.walk
    /\ files = <<>> /\ at = 0 /\ index = EmptyIndex
    /\ chunks = <<>> /\ told = <<>> /\ selected = <<>>

\* The syntax tree of a path, its lines and the names each of them mentions.
Nodes(path) == job.text[path].nodes
Lines(path) == job.text[path].lines
Says(path) == job.text[path].says

\* _build_index over the files the plan covers; one that cannot be parsed is
\* not in it.
BuildIndex ==
    /\ pc = "index"
    /\ files' = SubSeq(scan.files, 1, Min({Len(scan.files), job.plan}))
    /\ LET added[i \in 0 .. Len(files')] ==
               IF i = 0 THEN EmptyIndex
               ELSE LET before == added[i - 1]
                        path == files'[i].path
                    IN  AddFile(before, path, Symbols(Nodes(path)))
       IN  index' = added[Len(files')]
    /\ at' = 1
    /\ Goto("file")
    /\ UNCHANGED <<workspace, job, chunks, told, selected>>

\* How often a chunk mentions each name: the header of a chunk of symbols names
\* all those of its file, a range of lines has no header.
Mentions(symbols, says, chunk) ==
    [n \in Names |->
        IF symbols = <<>>
        THEN Cardinality({i \in DOMAIN says :
                             i \in chunk.from .. chunk.to /\ n \in says[i]})
        ELSE Cardinality({i \in DOMAIN symbols : symbols[i].name = n}) +
             Cardinality({i \in DOMAIN chunk.symbols : n \in chunk.symbols[i].calls})]

Path == files[at].path

\* The first half of pipeline.run: the chunks, the context and the references.
Prompt ==
    /\ pc = "file" /\ at <= Len(files) /\ Path \notin job.documented
    /\ \E symbols \in {Symbols(Nodes(Path))} :
        /\ chunks' = IF symbols = <<>> THEN LineChunks(Lines(Path))
                     ELSE SymbolChunks(symbols)
        /\ told' = [k \in DOMAIN chunks' |->
                        ReferencesIn(index, Mentions(symbols, Says(Path), chunks'[k]), Path)]
    /\ selected' = SelectContext(job.context)
    /\ Goto("agents")
    /\ UNCHANGED <<workspace, job, files, at, index>>

\* A file that an earlier attempt has documented; its summaries stay where
\* they are, in the documents.
SkipFile ==
    /\ pc = "file" /\ at <= Len(files) /\ Path \in job.documented
    /\ at' = at + 1
    /\ UNCHANGED <<pc, workspace, job, files, index, chunks, told, selected>>

\* The lease was lost, or the commit of a file failed.
Abandon ==
    /\ pc \in {"file", "agents"} /\ at <= Len(files)
    /\ Goto("done")
    /\ Cleanup
    /\ UNCHANGED <<thread, late, zip, sink, written, walk, scan, job, analysis>>

\* The agents have documented some of the file's symbols, or failed: the files
\* that follow see their summaries.  A summary is the path it was made from.
Documented ==
    /\ pc = "agents"
    /\ \E names \in SUBSET {s.name : s \in Range(Symbols(Nodes(Path)))} :
           index' = AttachSummaries(index, Path, [n \in names |-> Path])
    /\ at' = at + 1
    /\ Goto("file")
    /\ chunks' = <<>> /\ told' = <<>> /\ selected' = <<>>
    /\ UNCHANGED <<workspace, job, files>>

Finish ==
    /\ pc = "file" /\ at > Len(files)
    /\ Goto("done")
    /\ Cleanup
    /\ UNCHANGED <<thread, late, zip, sink, written, walk, scan, job, analysis>>

Fetch ==
    /\ \/ StartClone \/ GitWrites \/ GitEnds \/ CloneReturns \/ CloneFails \/ CloneTimesOut
       \/ ManifestRefused \/ ManifestAccepted \/ SkipEntry \/ OpenEntry \/ WriteBlock
       \/ RejectEntry \/ RejectArchive \/ ArchiveFails \/ CloseEntry \/ ExtractEnds
       \/ ScanFile \/ ScanEnds
    /\ UNCHANGED <<job, analysis>>

Over == pc \in {"done", "failed"}
Idle == Over /\ UNCHANGED vars

Next ==
    \/ Fetch \/ BuildIndex
    \/ Prompt \/ SkipFile \/ Documented \/ Abandon \/ Finish
    \/ Idle

Spec == Init /\ [][Next]_vars

-----------------------------------------------------------------------------

\* The places of the walk where a file is too large, or is one of this kind.
Large == {i \in DOMAIN job.walk :
             job.walk[i].kind # "other" /\ job.walk[i].size > MaxFileBytes}
Small(kind) == {i \in DOMAIN job.walk :
                   job.walk[i].kind = kind /\ job.walk[i].size <= MaxFileBytes}

(* What a scan leaves out it counts, or says that it stopped: without the   *)
(* truncation mark every source file of the repository is among the files,  *)
(* or it is too large and counted; and the files never exceed the limits.   *)
ScanTellsWhatItLeft ==
    pc = "index" /\ job.type = "repository" =>
        LET sources == At(job.walk, Small("source")) IN
        /\ Len(scan.files) <= MaxFiles
        /\ SumFunction([i \in DOMAIN scan.files |-> scan.files[i].size]) <= MaxTotalBytes
        /\ IsPrefix(scan.files, sources)
        /\ ~scan.truncated =>
              /\ scan.files = sources
              /\ scan.large = Cardinality(Large)
              /\ scan.binary = Cardinality(Small("binary"))

\* The symbols of a tree, said without a recursion: what has a name and is not
\* inside a function; its parent are the named containers around it.
Above(nodes, j) ==
    {a \in 1 .. j - 1 : \A k \in a + 1 .. j : nodes[k].depth > nodes[a].depth}
Visible(nodes) ==
    {j \in DOMAIN nodes :
        /\ nodes[j].name # Unnamed /\ nodes[j].kind \in {"function", "container"}
        /\ \A a \in Above(nodes, j) : nodes[a].kind # "function"}
ClassOf(nodes, j) ==
    LET around == {a \in Above(nodes, j) :
                      nodes[a].kind = "container" /\ nodes[a].name # Unnamed}
        order == Ordered(around, LAMBDA a, b : a < b)
    IN  [i \in DOMAIN order |-> nodes[order[i]].name]

(* Every symbol outside a function goes to the agents in exactly one chunk, *)
(* in the order of the file and under its class; no chunk of several exceeds *)
(* its budget by more than the blank lines between them; and a file without *)
(* symbols is cut into ranges of lines that leave out none but a blank end. *)
ChunksCoverTheFile ==
    pc = "agents" =>
        LET nodes == Nodes(Path)
            lines == Lines(Path)
            order == Ordered(Visible(nodes), LAMBDA a, b : a < b)
            sent  == FlattenSeq([k \in DOMAIN chunks |-> chunks[k].symbols])
        IN  IF order # <<>>
            THEN /\ [i \in DOMAIN sent |-> <<sent[i].at, sent[i].parent>>] =
                    [i \in DOMAIN order |-> <<order[i], ClassOf(nodes, order[i])>>]
                 /\ \A k \in DOMAIN chunks : Len(chunks[k].symbols) > 1 =>
                        EstimateTokens(chunks[k].chars) <=
                            Budget + Len(chunks[k].symbols) - 1
            ELSE \A i \in DOMAIN lines :
                    LET in == {k \in DOMAIN chunks : i \in chunks[k].from .. chunks[k].to}
                    IN  \/ Cardinality(in) = 1
                        \/ in = {} /\ \A j \in i .. Len(lines) : lines[j] = 0

\* Each one left out had no room behind the kept ones that do not rank below
\* it, or they were as many as are told.
Filled(kept, left, Cost(_), Better(_, _), room, most) ==
    LET Used(I) == SumFunction([i \in I |-> Cost(kept[i])])
    IN  /\ Used(DOMAIN kept) <= room /\ Len(kept) <= most
        /\ \A x \in left :
              LET first == {i \in DOMAIN kept : ~Better(x, kept[i])}
              IN  Cardinality(first) = most \/ Used(first) + Cost(x) > room

(* The references and the context of a prompt keep within their budgets and *)
(* use them: nothing is left out for something less relevant, what is too   *)
(* long for the rest does not keep out what is not; a summary is one its    *)
(* own file gave, the references are to other files, and an entry whose     *)
(* globs miss the file is never among the context.                          *)
PromptsFilled ==
    pc = "agents" =>
        /\ \A k \in DOMAIN told :
              LET mentions == Mentions(Symbols(Nodes(Path)), Says(Path), chunks[k])
                  known == UNION {Range(index[n]) : n \in
                              {m \in Names : Indexable(m) /\ mentions[m] > 0}}
                  left == {d \in known : d.path # Path /\ \A i \in DOMAIN told[k] :
                              <<told[k][i].path, told[k][i].name>> # <<d.path, d.name>>}
              IN  /\ \A i \in DOMAIN told[k] :
                        /\ told[k][i].path # Path
                        /\ told[k][i].summary \in {NoSummary, told[k][i].path}
                  /\ Filled(told[k], left, Rendered,
                         LAMBDA d, e : mentions[d.name] > mentions[e.name],
                         MaxReferenceChars, MaxReferences)
        /\ LET fitting == {c \in Range(job.context) : Relevant(c)}
           IN  /\ Range(selected) \subseteq fitting
               /\ Filled(selected, fitting \ Range(selected), LAMBDA c : c.chars,
                         Higher, MaxContextChars, MaxContextItems)
=============================================================================
