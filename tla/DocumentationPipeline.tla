----------------------- MODULE DocumentationPipeline -----------------------
(***************************************************************************)
(* The agents on one file: packages/agents, pipeline.py, with the depth of *)
(* core/plans.py, over the provider router.                                *)
(*                                                                         *)
(* A symbol is found by the parser (a span) and written about by a model   *)
(* (an entry).  Names of symbols and classes are strings, a class is the   *)
(* sequence of the names around a symbol, and a name as a model may give   *)
(* it, qualified or not, is a sequence that ends in the symbol's own.      *)
(***************************************************************************)
EXTENDS ProviderRouter, FiniteSets, FiniteSetsExt

CONSTANTS
    NameOrder,          \* the names of symbols, in alphabetical order
    Sources,            \* the files, as the sequence of the spans of each chunk
    ChunkConcurrency,   \* chunks under way at a time
    MaxReviewRounds,    \* rewrites after a rejection
    MaxAudited,         \* symbols that fit into what the verifier is shown
    Writes(_),          \* what the writer may answer about these spans
    Improves(_),        \* what the improver may answer about them
    Guesses             \* the classes the writer may guess when it rewrites

\* A name stands in NameOrder if a span or an entry has it.  A model also claims
\* a line; 0 is none.
Names == Range(NameOrder)
Spans == [name : Names, parent : Seq(STRING), line : Nat]
Entries == [label : {l \in Seq(STRING) : l # <<>> /\ Last(l) \in Names},
            guess : Seq(STRING), line : Nat, length : Nat]
Drafts == [title : STRING, label : Seq(STRING), line : Nat, severity : Nat]

ASSUME PipelineAssumption ==
    /\ NameOrder \in Seq(STRING) /\ IsInjective(NameOrder)
    /\ Sources \subseteq Seq(Seq(Spans))
    /\ \A chunk \in UNION {Range(file) : file \in Sources} :
           Writes(chunk) \subseteq Seq(Entries) /\ Improves(chunk) \subseteq Seq(Drafts)
    \* without a parser a name is a word like any other, dots or not
    /\ \A answer \in Writes(<<>>) : \A i \in DOMAIN answer : Len(answer[i].label) = 1
    /\ \A file \in Sources : \A k \in DOMAIN file :
           {<<"writer", k>>, <<"improver", k>>} \subseteq Calls
    /\ Guesses \subseteq Seq(STRING)
    /\ {<<role, 0>> : role \in {"reader", "verifier", "summarizer"}} \subseteq Calls
    /\ {ChunkConcurrency, MaxAudited} \subseteq Nat \ {0} /\ MaxReviewRounds \in Nat

VARIABLES
    chunks,     \* the file: build_chunks
    depth,      \* the depth the job runs at
    pc,         \* where run() waits
    output,     \* what the calls that have returned gave
    symbols,    \* the list run() holds
    draft,      \* result.documentation.symbols
    findings,   \* result.documentation.findings
    warnings,   \* result.warnings
    verdict,    \* the last audit, with the draft it was given
    rounds,     \* result.review_rounds
    rewritten,  \* what the rewrites under way have given so far, by name
    digest      \* the symbols the summary was written from

results == <<draft, findings, warnings, verdict, rounds, rewritten, digest>>
vars == <<configured, call, chunks, depth, pc, output, symbols, results>>

-----------------------------------------------------------------------------
(* core/plans.py                                                           *)

Depths == <<"basic", "standard", "pro">>
Rank(d) == CHOOSE i \in DOMAIN Depths : Depths[i] = d
MaxDepth == [free |-> "basic", pro |-> "pro", team |-> "pro"]

RunsImprover(d) == Rank(d) >= Rank("standard")
RunsVerifier(d) == Rank(d) >= Rank("pro")

\* What was asked, capped by the plan; an unknown or missing wish is the most.
ResolveDepth(requested, tier) ==
    IF requested \in Range(Depths) /\ Rank(requested) <= Rank(MaxDepth[tier])
    THEN requested
    ELSE MaxDepth[tier]

-----------------------------------------------------------------------------
(* Anchoring: what the models say is tied to what the parser saw.          *)

None == "none"

Name(label) == Last(label)

\* The names a model might use for a span.
Labels(span) ==
    {<<span.name>>} \cup
    IF span.parent = <<>> THEN {}
    ELSE {Append(span.parent, span.name), <<Last(span.parent), span.name>>}

\* _spans_by_name: of several spans with a name in common the last one has it.
Named(chunk, label) == {i \in DOMAIN chunk : label \in Labels(chunk[i])}
SpanOf(chunk, label) == chunk[Max(Named(chunk, label))]

Seen(chunk, label) == chunk = <<>> \/ Named(chunk, label) # {}

\* Without spans there is nothing to hold the entry against: it stays as the
\* model gave it, name and line.
Anchored(chunk, entry) ==
    IF chunk = <<>>
    THEN [name |-> Name(entry.label), parent |-> entry.guess,
          line |-> entry.line, length |-> entry.length]
    ELSE LET span == SpanOf(chunk, entry.label) IN
         [name |-> span.name, line |-> span.line, length |-> entry.length,
          parent |-> IF span.parent # <<>> THEN span.parent ELSE entry.guess]

Enrich(chunk, entries) ==
    LET known == At(entries, {i \in DOMAIN entries : Seen(chunk, entries[i].label)})
    IN  [i \in DOMAIN known |-> Anchored(chunk, known[i])]

\* Without spans the findings stay as the model gave them; with them, one about
\* the file is kept without a line.
AnchorFindings(chunk, drafts) ==
    LET AboutFile(f) == f.label = <<>>
        known == At(drafts, {i \in DOMAIN drafts :
                                AboutFile(drafts[i]) \/ Seen(chunk, drafts[i].label)})
        Placed(f, label, line) == [title |-> f.title, severity |-> f.severity,
                                   label |-> label, line |-> line]
    IN  [i \in DOMAIN known |->
            LET f == known[i]
                span == SpanOf(chunk, f.label)
            IN  IF chunk = <<>> THEN Placed(f, f.label, f.line)
                ELSE IF AboutFile(f) THEN Placed(f, f.label, 0)
                ELSE Placed(f, <<span.name>>, span.line)]

Invented(chunk, answers) ==
    {a.label : a \in {x \in Range(answers) : x.label # <<>> /\ ~Seen(chunk, x.label)}}

\* _dedupe_symbols: the longest entry of a key, sorted by line and name, and
\* then at the place of the first of its key.
Key(symbol) == <<symbol.name, symbol.parent>>
NameRank(name) == CHOOSE i \in DOMAIN NameOrder : NameOrder[i] = name

DedupeSymbols(entries) ==
    LET Rivals(i) == {j \in DOMAIN entries : Key(entries[j]) = Key(entries[i])}
        \* the first of the longest of its key
        best == {i \in DOMAIN entries : \A j \in Rivals(i) :
                    \/ entries[j].length < entries[i].length
                    \/ entries[j].length = entries[i].length /\ i <= j}
        Place(i) == <<entries[i].line, NameRank(entries[i].name), Min(Rivals(i))>>
        Before(i, j) == \E k \in 1 .. 3 : /\ Place(i)[k] < Place(j)[k]
                                          /\ \A l \in 1 .. k - 1 : Place(i)[l] = Place(j)[l]
    IN  [n \in 1 .. Cardinality(best) |-> entries[Nth(best, Before, n)]]

\* _dedupe_findings: the first of a title, a category and a symbol; the
\* severity sorts them.
DedupeFindings(drafts) ==
    LET Same(i, j) == drafts[i].title = drafts[j].title /\ drafts[i].label = drafts[j].label
        kept == {i \in DOMAIN drafts : \A j \in 1 .. i - 1 : ~Same(i, j)}
        Before(i, j) == \/ drafts[i].severity < drafts[j].severity
                        \/ drafts[i].severity = drafts[j].severity /\ i < j
    IN  [n \in 1 .. Cardinality(kept) |-> drafts[Nth(kept, Before, n)]]

-----------------------------------------------------------------------------
(* The calls of one file.                                                  *)

NumChunks == Len(chunks)

\* Only the calls of this file; Calls holds those of any.
Reader == <<"reader", 0>>
Verifier == <<"verifier", 0>>
Summarizer == <<"summarizer", 0>>
Writer(k) == <<"writer", k>>
Improver(k) == <<"improver", k>>
Rewrite(i) == <<"rewrite", i>>

RoleOf(c) == IF c[1] = "rewrite" THEN "writer" ELSE c[1]
Ask(starting, forgotten) ==
    /\ call' = Calling(starting, forgotten, [c \in Calls |-> RoleOf(c)])
    /\ output' = [c \in Calls |-> IF c \in forgotten THEN <<>> ELSE output[c]]
    /\ UNCHANGED configured

CallsOf(k) == IF RunsImprover(depth) THEN {Writer(k), Improver(k)} ELSE {Writer(k)}
ChunkCalls == UNION {CallsOf(k) : k \in 1 .. NumChunks}
Waiting == {k \in 1 .. NumChunks : call[Writer(k)].state = "idle"}
Finished(k) == \A c \in CallsOf(k) : Ended(c)

\* Bug: a chunk whose writer failed does not give its permit back.
RunningLeaky == {k \in 1 .. NumChunks \ Waiting : ~Finished(k) \/ Failed(Writer(k))}

Running == {k \in 1 .. NumChunks \ Waiting : ~Finished(k)}

\* What a returned call may hold: a verdict may name what the draft does not
\* have, and a rewrite may have no candidate of the name asked for.
NoSuchName == <<"?">>

Verdicts == {[approved |-> TRUE, rejected |-> {}]} \cup
    [approved : {FALSE}, rejected : SUBSET ({<<s.name>> : s \in Range(draft)} \cup {NoSuchName})]

Candidates == {<<>>} \cup {<<[parent |-> p]>> : p \in Guesses}

Answers(c) ==
    CASE c[1] = "writer"   -> Writes(chunks[c[2]])
      [] c[1] = "improver" -> Improves(chunks[c[2]])
      [] c[1] = "verifier" -> Verdicts
      [] c[1] = "rewrite"  -> Candidates
      [] OTHER             -> {<<>>}

-----------------------------------------------------------------------------
Init ==
    /\ RouterInit
    /\ chunks \in Sources
    /\ \E tier \in DOMAIN MaxDepth, requested \in Range(Depths) \cup {None} :
           depth = ResolveDepth(requested, tier)
    /\ pc = "parse"
    /\ output = [c \in Calls |-> <<>>]
    /\ symbols = <<>> /\ draft = <<>> /\ findings = <<>>
    /\ warnings = {} /\ rounds = 0 /\ rewritten = <<>>
    /\ verdict = [approved |-> TRUE, of |-> <<>>] /\ digest = <<>>

Goto(stage) == pc' = stage

\* A file without content is done; any other goes to the reader.
Parse ==
    /\ pc = "parse"
    /\ IF chunks = <<>>
       THEN /\ Goto("done")
            /\ warnings' = {"no content"}
            /\ UNCHANGED <<configured, call, output>>
       ELSE /\ Goto("reader")
            /\ warnings' = IF <<>> \in Range(chunks) THEN {"no grammar"} ELSE {}
            /\ Ask({Reader}, {})
    /\ UNCHANGED <<chunks, depth, symbols, draft, findings, verdict, rounds,
                   rewritten, digest>>

\* What the reader says, or that it failed, is advice.
Read ==
    /\ pc = "reader" /\ Ended(Reader)
    /\ Goto("chunks")
    /\ Ask({}, {Reader})
    /\ UNCHANGED <<chunks, depth, symbols, results>>

\* The semaphore lets the next chunk in: its writer and improver start together.
Enter ==
    /\ pc = "chunks" /\ Waiting # {}
    /\ Cardinality(Running) < ChunkConcurrency
    /\ Ask(CallsOf(Min(Waiting)), {})
    /\ UNCHANGED <<chunks, depth, pc, symbols, results>>

Wrote(k) == IF Answered(Writer(k)) THEN output[Writer(k)] ELSE <<>>
Improved(k) ==
    IF RunsImprover(depth) /\ Answered(Improver(k)) THEN output[Improver(k)] ELSE <<>>
FailedChunks == {k \in 1 .. NumChunks : Failed(Writer(k))}

\* Bug: an improver that failed counts as a block that failed.
AllFailedOrImprovers == \A k \in 1 .. NumChunks : \E c \in CallsOf(k) : Failed(c)

AllFailed == FailedChunks = 1 .. NumChunks

\* What the chunks have given, in their order.
Concatenated(part) ==
    LET upTo[k \in 0 .. NumChunks] == IF k = 0 THEN <<>> ELSE upTo[k - 1] \o part[k]
    IN  upTo[NumChunks]
Documented == Concatenated([k \in 1 .. NumChunks |-> Enrich(chunks[k], Wrote(k))])
Found == Concatenated([k \in 1 .. NumChunks |-> AnchorFindings(chunks[k], Improved(k))])
Discarded == UNION {Invented(chunks[k], Wrote(k)) \cup Invented(chunks[k], Improved(k))
                        : k \in 1 .. NumChunks}

\* After the last call of a stage: the audit, the summary or the end.
Audit(forgotten) == Goto("audit") /\ Ask({Verifier}, forgotten)
Summarize(list, forgotten) ==
    /\ Goto("summary")
    /\ Ask({Summarizer}, forgotten)
    /\ digest' = list

\* gather() is over: the answers are put together in the order of the chunks.
Merge ==
    /\ pc = "chunks" /\ Waiting = {} /\ Running = {}
    /\ IF AllFailed
       THEN /\ Goto("error")
            /\ Ask({}, ChunkCalls)
            /\ UNCHANGED <<symbols, draft, findings, warnings, digest>>
       ELSE \E list \in {DedupeSymbols(e) : e \in {Documented}} :
            /\ symbols' = list
            /\ draft' = list
            /\ \E drafts \in {Found} : findings' = DedupeFindings(drafts)
            /\ warnings' = warnings
                  \cup (IF FailedChunks # {} THEN {"chunks failed"} ELSE {})
                  \cup (IF Discarded # {} THEN {"invented"} ELSE {})
            /\ IF list = <<>>
               THEN Goto("done") /\ Ask({}, ChunkCalls) /\ UNCHANGED digest
               ELSE IF RunsVerifier(depth)
               THEN Audit(ChunkCalls) /\ UNCHANGED digest
               ELSE Summarize(list, ChunkCalls)
    /\ UNCHANGED <<chunks, depth, verdict, rounds, rewritten>>

-----------------------------------------------------------------------------
(* The review loop.                                                        *)

Shown(list) == SubSeq(list, 1, Min({Len(list), MaxAudited}))

Targets(rejected) == {i \in DOMAIN draft : <<draft[i].name>> \in rejected}

\* The verifier cannot be reached: the draft stays as it is.
AuditUnavailable ==
    /\ pc = "audit" /\ Failed(Verifier)
    /\ warnings' = warnings \cup {"audit unavailable"}
    /\ Summarize(symbols, {Verifier})
    /\ UNCHANGED <<chunks, depth, symbols, draft, findings, verdict, rounds, rewritten>>

\* The audit ends the review: approved, nothing named, or no round left.
AuditEnds ==
    /\ pc = "audit" /\ Answered(Verifier)
    /\ LET v == output[Verifier] IN
       /\ verdict' = [approved |-> v.approved, of |-> Shown(draft)]
       /\ \/ /\ v.approved \/ v.rejected = {}
             /\ UNCHANGED warnings
          \/ /\ ~v.approved /\ v.rejected # {}
             /\ rounds >= MaxReviewRounds
             /\ warnings' = warnings \cup {"audit survived"}
    /\ Summarize(symbols, {Verifier})
    /\ UNCHANGED <<chunks, depth, symbols, draft, findings, rounds, rewritten>>

\* The symbols named are rewritten, all at once; if the draft has none of
\* these names it is audited again as it is.
AuditRejects ==
    /\ pc = "audit" /\ Answered(Verifier)
    /\ LET v == output[Verifier]
           targets == Targets(v.rejected)
       IN  /\ ~v.approved /\ v.rejected # {} /\ rounds < MaxReviewRounds
           /\ verdict' = [approved |-> FALSE, of |-> Shown(draft)]
           /\ rounds' = rounds + 1
           /\ IF targets = {} THEN Audit({Verifier})
              ELSE Goto("rewrite") /\ Ask({Rewrite(i) : i \in targets}, {Verifier})
    /\ UNCHANGED <<chunks, depth, symbols, draft, findings, warnings, rewritten, digest>>

RewriteCalls == {c \in Calls : c[1] = "rewrite" /\ call[c].state # "idle"}

\* Bug: the candidate is taken over as the model gave it.
CorrectedUnplaced(symbol, candidate) ==
    [name |-> symbol.name, parent |-> candidate.parent, line |-> 0, length |-> 1]

\* A candidate takes over the lines of its symbol, and not its class.
Corrected(symbol, candidate) ==
    [name |-> symbol.name, parent |-> candidate.parent,
     line |-> symbol.line, length |-> 1]

\* rewritten is keyed by the name alone.
Collect(i, candidate) ==
    IF candidate = <<>> THEN rewritten
    ELSE [n \in DOMAIN rewritten \cup {draft[i].name} |->
             IF n = draft[i].name THEN Corrected(draft[i], candidate[1]) ELSE rewritten[n]]

Replaced ==
    [i \in DOMAIN draft |->
        IF draft[i].name \in DOMAIN rewritten THEN rewritten[draft[i].name] ELSE draft[i]]

\* Bug: the last rewrite is delivered unread.
AfterRewritesNoTurn(forgotten) ==
    IF rounds = MaxReviewRounds THEN Summarize(symbols, forgotten)
    ELSE Audit(forgotten) /\ UNCHANGED digest

\* Every rewrite is followed by an audit, for which the loop has one more turn.
AfterRewrites(forgotten) == Audit(forgotten) /\ UNCHANGED digest

ApplyRewrites ==
    /\ pc = "rewrite" /\ \A c \in RewriteCalls : Ended(c)
    /\ draft' = Replaced
    /\ rewritten' = <<>>
    /\ AfterRewrites(RewriteCalls)
    /\ UNCHANGED <<chunks, depth, symbols, findings, warnings, verdict, rounds>>

\* The summary, or an empty one if the summarizer failed.
Finish ==
    /\ pc = "summary" /\ Ended(Summarizer)
    /\ Goto("done")
    /\ Ask({}, {Summarizer})
    /\ UNCHANGED <<chunks, depth, symbols, results>>

-----------------------------------------------------------------------------
\* One of the calls under way returns what its vendor answered.
Return(c) ==
    /\ Returns(c)
    /\ \E answer \in Answers(c) :
        /\ output' = [output EXCEPT ![c] = answer]
        /\ rewritten' = IF c[1] = "rewrite" THEN Collect(c[2], answer) ELSE rewritten
    /\ UNCHANGED <<chunks, depth, pc, symbols, draft, findings, warnings, verdict,
                   rounds, digest>>

NextVendorAsked(c) ==
    /\ FallsThrough(c)
    /\ UNCHANGED <<chunks, depth, pc, output, symbols, results>>

Over == pc \in {"done", "error"}

\* The caller persists or warns, and goes on with the next file.
Idle == Over /\ UNCHANGED vars

Next ==
    \/ Parse \/ Read \/ Enter \/ Merge
    \/ AuditUnavailable \/ AuditEnds \/ AuditRejects \/ ApplyRewrites \/ Finish
    \/ \E c \in Calls : Return(c) \/ NextVendorAsked(c)
    \/ Idle

\* Each vendor call ends: the SDKs have a timeout and a limit of retries.
Spec == Init /\ [][Next]_vars /\ WF_vars(Next)

-----------------------------------------------------------------------------

Grounded(name, line) ==
    \E k \in 1 .. NumChunks : \E i \in DOMAIN chunks[k] :
        chunks[k][i].name = name /\ chunks[k][i].line = line

\* The chunks are made of spans: the grammar of the language is known.
Parseable == <<>> \notin Range(chunks)

(* Whatever the models claim, and however often a symbol is rewritten, each *)
(* symbol and each finding about one stands at a line where the parser saw  *)
(* a symbol of that name ("a defesa contra alucinacao", docs/como-funciona). *)
DeliveredIsGrounded ==
    Parseable =>
        /\ \A s \in Range(draft) : Grounded(s.name, s.line)
        /\ \A f \in Range(findings) : IF f.label = <<>> THEN f.line = 0
                                      ELSE Grounded(Name(f.label), f.line)

(* A file that is delivered at the depth that audits was audited as it is   *)
(* delivered, as far as the verifier is shown it, or a warning says that    *)
(* the audit did not take place: no rewrite goes out unread.                *)
AuditedAsDelivered ==
    pc = "done" /\ RunsVerifier(depth) /\ draft # <<>> =>
        verdict.of = Shown(draft) \/ "audit unavailable" \in warnings

(* One block is enough: a file is an error only if the writer failed on     *)
(* every block of it, and blocks that are missing are told.  A failure of   *)
(* the reader, the improver, the verifier or the summarizer costs no file.  *)
FailsOnlyWhole ==
    [][ /\ (pc' = "error" => (FailedChunks = 1 .. NumChunks))
        /\ (pc = "chunks" /\ pc' \notin {"chunks", "error"} =>
              /\ ~(FailedChunks = 1 .. NumChunks)
              /\ \A k \in 1 .. NumChunks :
                    Failed(Writer(k)) => "chunks failed" \in warnings') ]_vars

(* Every file comes to an end: no permit of the semaphore is lost, no audit *)
(* is repeated for ever.                                                    *)
Ends == <>Over
=============================================================================
