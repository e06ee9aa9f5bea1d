-------------------------- MODULE Pipeline_proofs --------------------------
(***************************************************************************)
(* For any files, any number of chunks, any answers of the models and any  *)
(* set of vendors: what a call leaves in usage_records, that a symbol      *)
(* stands where the parser saw one of its name, that no rewrite is         *)
(* delivered unread, and that only a file that failed as a whole is one.   *)
(***************************************************************************)
EXTENDS DocumentationPipeline, Data_proofs

-----------------------------------------------------------------------------
(* The router.                                                             *)

\* The chain of a role is never empty: every vendor is one of the writer's.
LEMMA ChainNotEmpty ==
  ASSUME configured \in (SUBSET Vendors) \ {{}}, NEW role \in Roles
  PROVE  Len(ResolveChain(role)) \in Nat \ {0}
<1> DEFINE Places(chain) == {i \in DOMAIN chain : chain[i] \in configured}
           Available(chain) == At(chain, Places(chain))
<1>1. \A r \in Roles : DefaultRoutes[r] \in Seq(Vendors)
  <2>1. /\ <<"openai", "gemini">> \in Seq(Vendors)
        /\ <<"openai", "gemini", "anthropic">> \in Seq(Vendors)
        /\ <<"anthropic", "openai">> \in Seq(Vendors)
    BY DEF Vendors
  <2>2. Roles = {"reader", "writer", "improver", "verifier", "summarizer"}
    BY DEF Roles, DefaultRoutes
  <2>3. \A r \in Roles : DefaultRoutes[r] \in
          {<<"openai", "gemini">>, <<"openai", "gemini", "anthropic">>, <<"anthropic", "openai">>}
    BY <2>2 DEF DefaultRoutes
  <2>. QED BY <2>1, <2>3
<1>2. ASSUME NEW chain \in Seq(Vendors)
      PROVE  /\ Available(chain) \in Seq(Vendors)
             /\ Len(Available(chain)) = Cardinality(Places(chain))
             /\ IsFiniteSet(Places(chain))
  BY AtSeq
<1>3. "writer" \in Roles
  BY DEF Roles, DefaultRoutes
<1>4. Places(DefaultRoutes["writer"]) # {}
  <2>1. PICK v : v \in configured /\ v \in Vendors
    OBVIOUS
  <2>2. \E i \in 1 .. 3 : <<"openai", "gemini", "anthropic">>[i] = v
    BY <2>1 DEF Vendors
  <2>3. DefaultRoutes["writer"] = <<"openai", "gemini", "anthropic">>
    BY DEF DefaultRoutes
  <2>. QED BY <2>1, <2>2, <2>3
<1>5. \A chain \in Seq(Vendors) : Available(chain) # <<>> => Len(Available(chain)) \in Nat \ {0}
  BY <1>2, EmptySeq
<1> DEFINE spare == Available(DefaultRoutes["writer"])
<1>6. Len(spare) \in Nat \ {0}
  <2>1. DefaultRoutes["writer"] \in Seq(Vendors)
    BY <1>1, <1>3
  <2>2. IsFiniteSet(Places(DefaultRoutes["writer"]))
        /\ Len(spare) = Cardinality(Places(DefaultRoutes["writer"]))
    BY <1>2, <2>1
  <2> HIDE DEF Places, Available
  <2>. QED BY <1>4, <2>2, FS_EmptySet, FS_CardinalityType
<1>7. ResolveChain(role) = IF Available(DefaultRoutes[role]) # <<>>
                           THEN Available(DefaultRoutes[role]) ELSE spare
  BY DEF ResolveChain
<1>. QED BY <1>1, <1>5, <1>6, <1>7

CallState ==
  [role : Roles, state : {"idle", "asking", "answered", "failed"},
   attempt : Nat, succeeded : Nat, failed : Nat]

\* Every vendor asked so far but the one under way has left the row of a failure.
Told ==
  /\ configured \in (SUBSET Vendors) \ {{}}
  /\ call \in [Calls -> CallState]
  /\ \A c \in Calls :
       LET it == call[c] IN
       /\ Asking(c) => /\ it.succeeded = 0 /\ it.failed = it.attempt - 1
                       /\ it.attempt \in 1 .. Len(ResolveChain(it.role))
       /\ Answered(c) => it.succeeded = 1 /\ it.failed = it.attempt - 1
       /\ Failed(c) => it.succeeded = 0 /\ it.failed = Len(ResolveChain(it.role))

\* The columns of a call, and of one that is told a success or a failure.
LEMMA CallFields ==
  ASSUME NEW x \in CallState
  PROVE  /\ x.role \in Roles /\ x.attempt \in Nat /\ x.succeeded \in Nat /\ x.failed \in Nat
         /\ Record(x) = [role |-> x.role, state |-> x.state, attempt |-> x.attempt,
                         succeeded |-> x.succeeded + 1, failed |-> x.failed]
         /\ RecordFailure(x) = [role |-> x.role, state |-> x.state, attempt |-> x.attempt,
                                succeeded |-> x.succeeded, failed |-> x.failed + 1]
  BY DEF CallState, Record, RecordFailure

\* What complete() does to the call of another does nothing to this one.
LEMMA ChainSame ==
  ASSUME UNCHANGED configured, NEW role
  PROVE  ResolveChain(role)' = ResolveChain(role)
  BY DEF ResolveChain

\* A vendor that answers.
LEMMA ReturnsTold ==
  ASSUME Told, NEW c \in Calls, Returns(c)
  PROVE  Told'
<1> DEFINE x == [Record(call[c]) EXCEPT !.state = "answered"]
<1>1. call[c] \in CallState /\ call[c].state = "asking"
  BY DEF Told, Returns, Asking
<1>2. /\ x \in CallState
      /\ x.state = "answered" /\ x.succeeded = call[c].succeeded + 1
      /\ x.failed = call[c].failed /\ x.attempt = call[c].attempt
  <2>1. x = [role |-> call[c].role, state |-> "answered", attempt |-> call[c].attempt,
             succeeded |-> call[c].succeeded + 1, failed |-> call[c].failed]
    BY <1>1, CallFields
  <2> HIDE DEF x
  <2>. QED BY <1>1, <2>1, CallFields DEF CallState
<1>3. call' = [call EXCEPT ![c] = x] /\ UNCHANGED configured
  BY DEF Returns
<1> HIDE DEF x
<1>4. call' \in [Calls -> CallState] /\ call'[c] = x /\ \A d \in Calls : d # c => call'[d] = call[d]
  BY <1>2, <1>3 DEF Told
<1>5. call[c].succeeded = 0 /\ call[c].failed = call[c].attempt - 1
  BY <1>1 DEF Told, Asking
<1>6. \A role : ResolveChain(role)' = ResolveChain(role)
  BY <1>3, ChainSame
<1>. QED BY <1>2, <1>3, <1>4, <1>5, <1>6 DEF Told, Asking, Answered, Failed

\* A vendor that fails.
LEMMA FallsThroughTold ==
  ASSUME Told, NEW c \in Calls, FallsThrough(c)
  PROVE  Told'
<1> DEFINE x == NextVendor(RecordFailure(call[c]))
           N == Len(ResolveChain(call[c].role))
<1>1. call[c] \in CallState /\ call[c].state = "asking"
  BY DEF Told, FallsThrough, Asking
<1>2. N \in Nat \ {0}
  BY <1>1, ChainNotEmpty DEF Told, CallState
<1>3. call[c].succeeded = 0 /\ call[c].failed = call[c].attempt - 1 /\ call[c].attempt \in 1 .. N
  BY <1>1 DEF Told, Asking
<1>4. \/ /\ x = [role |-> call[c].role, state |-> "asking", attempt |-> call[c].attempt + 1,
                 succeeded |-> 0, failed |-> call[c].attempt]
         /\ call[c].attempt < N
      \/ /\ x = [role |-> call[c].role, state |-> "failed", attempt |-> call[c].attempt,
                 succeeded |-> 0, failed |-> call[c].attempt]
         /\ call[c].attempt = N
  <2> DEFINE y == [role |-> call[c].role, state |-> "asking", attempt |-> call[c].attempt,
                   succeeded |-> 0, failed |-> call[c].attempt]
  <2>1. RecordFailure(call[c]) = y
    BY <1>1, <1>3, CallFields
  <2>2. x = NextVendor(y)
    BY <2>1
  <2> HIDE DEF x, N
  <2>3. \/ x = [y EXCEPT !.attempt = @ + 1] /\ call[c].attempt < N
        \/ x = [y EXCEPT !.state = "failed"] /\ ~(call[c].attempt < N)
    BY <2>2 DEF NextVendor, N
  <2>. QED BY <1>2, <1>3, <2>3
<1>5. /\ x \in CallState /\ x.role = call[c].role /\ x.succeeded = 0
      /\ \/ x.state = "asking" /\ x.attempt = call[c].attempt + 1 /\ x.failed = call[c].attempt
            /\ call[c].attempt < N
         \/ x.state = "failed" /\ x.failed = N
  <2>1. call[c].role \in Roles /\ call[c].attempt \in Nat
    BY <1>1, CallFields
  <2> HIDE DEF x, N
  <2>. QED BY <1>4, <2>1 DEF CallState
<1>6. call' = [call EXCEPT ![c] = x] /\ UNCHANGED configured
  BY DEF FallsThrough
<1> HIDE DEF x
<1>7. call' \in [Calls -> CallState] /\ call'[c] = x /\ \A d \in Calls : d # c => call'[d] = call[d]
  BY <1>5, <1>6 DEF Told
<1>8. \A role : ResolveChain(role)' = ResolveChain(role)
  BY <1>6, ChainSame
<1>. QED BY <1>2, <1>3, <1>5, <1>6, <1>7, <1>8 DEF Told, Asking, Answered, Failed

-----------------------------------------------------------------------------
(* What the models say, tied to what the parser saw.                       *)

\* The symbols and the findings that stand where the parser saw one of the name.
OfFile ==
  {s \in [name : Names, parent : Seq(STRING), line : Nat, length : Nat] : Grounded(s.name, s.line)}

AboutFile ==
  {f \in [title : STRING, severity : Nat, label : Seq(STRING), line : Nat] :
     IF f.label = <<>> THEN f.line = 0 ELSE Grounded(Name(f.label), f.line)}

\* The file is one of those of the model.
LEMMA FileTypes ==
  ASSUME chunks \in Sources
  PROVE  /\ NumChunks \in Nat /\ DOMAIN chunks = 1 .. NumChunks
         /\ \A k \in 1 .. NumChunks :
              /\ chunks[k] \in Seq(Spans)
              /\ Writes(chunks[k]) \subseteq Seq(Entries)
              /\ Improves(chunks[k]) \subseteq Seq(Drafts)
              /\ Writer(k) \in Calls /\ Improver(k) \in Calls
              /\ Parseable => chunks[k] # <<>>
<1>1. chunks \in Seq(Seq(Spans))
  BY PipelineAssumption
<1>2. /\ Len(chunks) \in Nat /\ DOMAIN chunks = 1 .. Len(chunks)
      /\ \A k \in 1 .. Len(chunks) : chunks[k] \in Seq(Spans)
  BY <1>1, LenProperties, ElementOfSeq
<1>3. Range(chunks) \in {Range(file) : file \in Sources}
  OBVIOUS
<1>4. ASSUME NEW k \in DOMAIN chunks
      PROVE  /\ Writes(chunks[k]) \subseteq Seq(Entries) /\ Improves(chunks[k]) \subseteq Seq(Drafts)
             /\ Writer(k) \in Calls /\ Improver(k) \in Calls
             /\ Parseable => chunks[k] # <<>>
  <2>1. chunks[k] \in Range(chunks)
    BY DEF Range
  <2>2. chunks[k] \in UNION {Range(file) : file \in Sources}
    BY <1>3, <2>1
  <2>. QED BY <2>1, <2>2, PipelineAssumption DEF Writer, Improver, Parseable
<1>. QED BY <1>2, <1>4 DEF NumChunks

\* A name that is not an invention belongs to a span of the chunk.
LEMMA SpanIn ==
  ASSUME NEW chunk \in Seq(Spans), chunk # <<>>, NEW label, Seen(chunk, label)
  PROVE  \E i \in DOMAIN chunk : SpanOf(chunk, label) = chunk[i] /\ chunk[i] \in Spans
<1>1. Len(chunk) \in Nat /\ DOMAIN chunk = 1 .. Len(chunk)
  BY LenProperties
<1>2. Named(chunk, label) \in SUBSET (1 .. Len(chunk)) /\ Named(chunk, label) # {}
  BY <1>1 DEF Named, Seen
<1>3. Max(Named(chunk, label)) \in 1 .. Len(chunk)
  BY <1>1, <1>2, GreatestIn
<1>4. chunk[Max(Named(chunk, label))] \in Spans
  BY <1>3, ElementOfSeq
<1>. QED BY <1>1, <1>3, <1>4 DEF SpanOf

\* The entries of a chunk that are kept stand at one of its spans (_enrich).
LEMMA EnrichSeq ==
  ASSUME chunks \in Sources, Parseable, NEW k \in 1 .. NumChunks, NEW entries \in Seq(Entries)
  PROVE  Enrich(chunks[k], entries) \in Seq(OfFile)
<1> DEFINE chunk == chunks[k]
           places == {i \in DOMAIN entries : Seen(chunk, entries[i].label)}
           known == At(entries, places)
<1>1. chunk \in Seq(Spans) /\ chunk # <<>> /\ DOMAIN chunks = 1 .. NumChunks
  BY FileTypes
<1>2. /\ known \in Seq(Entries) /\ Len(known) = Cardinality(places) /\ Cardinality(places) \in Nat
      /\ \A n \in 1 .. Cardinality(places) : \E i \in places : known[n] = entries[i]
  <2>1. places \in SUBSET (DOMAIN entries)
    OBVIOUS
  <2> HIDE DEF places
  <2>. QED BY <2>1, AtSeq, FS_CardinalityType
<1>3. ASSUME NEW n \in 1 .. Len(known) PROVE Anchored(chunk, known[n]) \in OfFile
  <2> DEFINE entry == known[n]
             span == SpanOf(chunk, entry.label)
  <2>1. entry \in Entries
    BY <1>2, ElementOfSeq
  <2>2. Seen(chunk, entry.label)
    BY <1>2
  <2> HIDE DEF entry, known
  <2>3. PICK i \in DOMAIN chunk : span = chunk[i] /\ chunk[i] \in Spans
    BY <1>1, <2>2, SpanIn
  <2> HIDE DEF span
  <2>4. span.name \in Names /\ span.parent \in Seq(STRING) /\ span.line \in Nat
        /\ entry.guess \in Seq(STRING) /\ entry.length \in Nat
    BY <2>1, <2>3 DEF Spans, Entries
  <2>5. Grounded(span.name, span.line)
    BY <2>3 DEF Grounded
  <2>6. Anchored(chunk, entry) = [name |-> span.name, line |-> span.line, length |-> entry.length,
                                  parent |-> IF span.parent # <<>> THEN span.parent ELSE entry.guess]
    BY <1>1 DEF Anchored, span
  <2>. QED BY <2>4, <2>5, <2>6 DEF OfFile, entry
<1>4. Enrich(chunk, entries) = [i \in DOMAIN known |-> Anchored(chunk, known[i])]
  BY DEF Enrich
<1>5. DOMAIN known = 1 .. Len(known) /\ Len(known) \in Nat
  BY <1>2, LenProperties
<1> HIDE DEF known, chunk
<1>6. Enrich(chunk, entries) \in Seq(OfFile)
  BY <1>3, <1>4, <1>5
<1>. QED BY <1>6 DEF chunk

\* And so do the findings (_anchor_findings); one about the file has no line.
LEMMA AnchorSeq ==
  ASSUME chunks \in Sources, Parseable, NEW k \in 1 .. NumChunks, NEW drafts \in Seq(Drafts)
  PROVE  AnchorFindings(chunks[k], drafts) \in Seq(AboutFile)
<1> DEFINE chunk == chunks[k]
           places == {i \in DOMAIN drafts : drafts[i].label = <<>> \/ Seen(chunk, drafts[i].label)}
           known == At(drafts, places)
           Put(f, label, line) == [title |-> f.title, severity |-> f.severity,
                                   label |-> label, line |-> line]
           Placed(f) == IF f.label = <<>> THEN Put(f, f.label, 0)
                        ELSE Put(f, <<SpanOf(chunk, f.label).name>>, SpanOf(chunk, f.label).line)
<1>1. chunk \in Seq(Spans) /\ chunk # <<>> /\ DOMAIN chunks = 1 .. NumChunks
  BY FileTypes
<1>2. /\ known \in Seq(Drafts) /\ Len(known) = Cardinality(places) /\ Cardinality(places) \in Nat
      /\ \A n \in 1 .. Cardinality(places) : \E i \in places : known[n] = drafts[i]
  <2>1. places \in SUBSET (DOMAIN drafts)
    OBVIOUS
  <2> HIDE DEF places
  <2>. QED BY <2>1, AtSeq, FS_CardinalityType
<1>3. ASSUME NEW n \in 1 .. Len(known) PROVE Placed(known[n]) \in AboutFile
  <2> DEFINE f == known[n]
             span == SpanOf(chunk, f.label)
  <2>1. f \in Drafts
    BY <1>2, ElementOfSeq
  <2>2. f.label = <<>> \/ Seen(chunk, f.label)
    BY <1>2
  <2> HIDE DEF f, known
  <2>3. f.title \in STRING /\ f.severity \in Nat /\ f.label \in Seq(STRING)
    BY <2>1 DEF Drafts
  <2>4. CASE f.label = <<>>
    <3>1. Placed(f) = Put(f, f.label, 0)
      BY <2>4
    <3>. QED BY <2>3, <2>4, <3>1 DEF AboutFile, f
  <2>5. CASE f.label # <<>>
    <3>1. PICK i \in DOMAIN chunk : span = chunk[i] /\ chunk[i] \in Spans
      BY <1>1, <2>2, <2>5, SpanIn
    <3>2. Placed(f) = Put(f, <<span.name>>, span.line)
      BY <2>5
    <3> HIDE DEF span, Placed
    <3>3. span.name \in STRING /\ span.line \in Nat /\ Grounded(span.name, span.line)
      <4>1. span.name \in Names /\ span.line \in Nat
        BY <3>1 DEF Spans
      <4>2. span.name \in STRING
        BY <4>1, PipelineAssumption DEF Names, Range
      <4>. QED BY <3>1, <4>1, <4>2 DEF Grounded
    <3>4. <<span.name>> \in Seq(STRING) /\ <<span.name>> # <<>> /\ Name(<<span.name>>) = span.name
      BY <3>3 DEF Name, Last
    <3>5. Placed(f) \in AboutFile
      <4> DEFINE l == <<span.name>>
                 p == Put(f, l, span.line)
      <4>1. l \in Seq(STRING) /\ l # <<>> /\ Name(l) = span.name
        BY <3>4
      <4> HIDE DEF l
      <4>2. p \in [title : STRING, severity : Nat, label : Seq(STRING), line : Nat]
        BY <2>3, <3>3, <4>1
      <4>3. p.label = l /\ p.line = span.line
        OBVIOUS
      <4> HIDE DEF p
      <4>4. p \in AboutFile
        BY <3>3, <4>1, <4>2, <4>3 DEF AboutFile
      <4>. QED BY <3>2, <4>4 DEF l, p
    <3>. QED BY <3>5 DEF f
  <2>. QED BY <2>4, <2>5
<1>4. AnchorFindings(chunk, drafts) = [i \in DOMAIN known |-> Placed(known[i])]
  BY <1>1 DEF AnchorFindings
<1>5. DOMAIN known = 1 .. Len(known) /\ Len(known) \in Nat
  BY <1>2, LenProperties
<1> HIDE DEF known, chunk, Placed
<1>6. AnchorFindings(chunk, drafts) \in Seq(AboutFile)
  BY <1>3, <1>4, <1>5
<1>. QED BY <1>6 DEF chunk

\* The places of a sequence.
LEMMA PlacesOf ==
  ASSUME NEW T, NEW s \in Seq(T)
  PROVE  /\ DOMAIN s = 1 .. Len(s) /\ Len(s) \in Nat
         /\ DOMAIN s \in SUBSET Nat /\ IsFiniteSet(DOMAIN s)
<1>1. DOMAIN s = 1 .. Len(s) /\ Len(s) \in Nat
  BY LenProperties
<1>2. IsFiniteSet(1 .. Len(s))
  BY <1>1, FS_Interval
<1>. QED BY <1>1, <1>2

\* A name has a rank.
LEMMA RankType == ASSUME NEW name \in Names PROVE NameRank(name) \in Nat
<1>1. DOMAIN NameOrder = 1 .. Len(NameOrder) /\ Len(NameOrder) \in Nat
  BY PipelineAssumption, LenProperties
<1>2. \E i \in DOMAIN NameOrder : NameOrder[i] = name
  BY DEF Names, Range
<1>3. NameRank(name) \in DOMAIN NameOrder
  BY <1>2 DEF NameRank
<1>. QED BY <1>1, <1>3

\* A triple is before another by the first number in which they differ.
Sooner(p, q) ==
  \/ p[1] < q[1]
  \/ p[1] = q[1] /\ p[2] < q[2]
  \/ p[1] = q[1] /\ p[2] = q[2] /\ p[3] < q[3]

\* The symbols that are left of a list are symbols of it (_dedupe_symbols): the
\* order by line, name and first rival has no ties.
LEMMA DedupeSymbolsSeq ==
  ASSUME NEW entries \in Seq(OfFile)
  PROVE  DedupeSymbols(entries) \in Seq(OfFile)
<1> DEFINE D == DOMAIN entries
           Rivals(i) == {j \in D : Key(entries[j]) = Key(entries[i])}
           best == {i \in D : \A j \in Rivals(i) :
                      \/ entries[j].length < entries[i].length
                      \/ entries[j].length = entries[i].length /\ i <= j}
           Place(i) == <<entries[i].line, NameRank(entries[i].name), Min(Rivals(i))>>
           Before(i, j) == \E k \in 1 .. 3 : /\ Place(i)[k] < Place(j)[k]
                                             /\ \A l \in 1 .. k - 1 : Place(i)[l] = Place(j)[l]
           R == {p \in best \X best : Before(p[1], p[2])}
<1>1. D = 1 .. Len(entries) /\ Len(entries) \in Nat /\ D \in SUBSET Nat /\ IsFiniteSet(D)
  BY PlacesOf
<1>2. \A i \in D : entries[i] \in OfFile
  BY <1>1, ElementOfSeq
<1>3. \A i \in D : entries[i].line \in Nat /\ entries[i].length \in Nat /\ entries[i].name \in Names
  BY <1>2 DEF OfFile
<1>4. ASSUME NEW i \in D PROVE Min(Rivals(i)) \in D /\ Key(entries[Min(Rivals(i))]) = Key(entries[i])
  <2>1. Rivals(i) \in SUBSET Nat /\ Rivals(i) # {}
    BY <1>1
  <2>2. Min(Rivals(i)) \in Rivals(i)
    BY <2>1, LeastIn
  <2>. QED BY <2>2
<1>5. \A i \in D : /\ Place(i)[1] \in Nat /\ Place(i)[2] \in Nat /\ Place(i)[3] \in Nat
                   /\ Place(i)[3] = Min(Rivals(i))
  BY <1>1, <1>3, <1>4, RankType
<1>6. best \in SUBSET D /\ IsFiniteSet(best)
  BY <1>1, FS_Subset
<1>7. Cardinality(best) \in Nat
  BY <1>6, FS_CardinalityType
<1>8. ASSUME NEW i \in best, NEW j \in best, Place(i)[3] = Place(j)[3] PROVE i = j
  <2>1. i \in D /\ j \in D
    BY <1>6
  <2>2. Key(entries[i]) = Key(entries[j])
    BY <1>4, <1>5, <1>8, <2>1
  <2>3. i \in Rivals(j) /\ j \in Rivals(i)
    BY <2>1, <2>2
  <2>. QED BY <1>1, <1>3, <2>1, <2>3
<1>9. \A i, j : Before(i, j) <=> Sooner(Place(i), Place(j))
  <2> HIDE DEF Place
  <2> SUFFICES ASSUME NEW i, NEW j PROVE Before(i, j) <=> Sooner(Place(i), Place(j))
    OBVIOUS
  <2>1. 1 .. 3 = {1, 2, 3} /\ 1 .. 1 - 1 = {} /\ 1 .. 2 - 1 = {1} /\ 1 .. 3 - 1 = {1, 2}
    OBVIOUS
  <2>. QED BY <2>1 DEF Sooner
<1> HIDE DEF Place, Before, Rivals
<1>10. /\ \A x \in best : <<x, x>> \notin R
       /\ \A x, y \in best : x # y => <<x, y>> \in R \/ <<y, x>> \in R
       /\ \A x, y, z \in best : <<x, y>> \in R /\ <<y, z>> \in R => <<x, z>> \in R
  <2> HIDE DEF best
  <2>1. \A x, y \in best : <<x, y>> \in R <=> Sooner(Place(x), Place(y))
    BY <1>9
  <2>2. \A x \in best : Place(x)[1] \in Nat /\ Place(x)[2] \in Nat /\ Place(x)[3] \in Nat
    BY <1>5, <1>6
  <2> HIDE DEF R
  <2>3. \A x \in best : <<x, x>> \notin R
    BY <2>1, <2>2 DEF Sooner
  <2>4. \A x, y \in best : x # y => <<x, y>> \in R \/ <<y, x>> \in R
    BY <1>8, <2>1, <2>2 DEF Sooner
  <2>5. \A x, y, z \in best : <<x, y>> \in R /\ <<y, z>> \in R => <<x, z>> \in R
    <3> SUFFICES ASSUME NEW x \in best, NEW y \in best, NEW z \in best,
                        <<x, y>> \in R, <<y, z>> \in R
                 PROVE  <<x, z>> \in R
      OBVIOUS
    <3> DEFINE p == Place(x)
               q == Place(y)
               r == Place(z)
    <3>1. Sooner(p, q) /\ Sooner(q, r)
      BY <2>1
    <3>2. /\ p[1] \in Nat /\ p[2] \in Nat /\ p[3] \in Nat
          /\ q[1] \in Nat /\ q[2] \in Nat /\ q[3] \in Nat
          /\ r[1] \in Nat /\ r[2] \in Nat /\ r[3] \in Nat
      BY <2>2
    <3>3. Sooner(p, r)
      <4> HIDE DEF p, q, r
      <4>1. p[1] <= q[1] /\ q[1] <= r[1]
        BY <3>1, <3>2 DEF Sooner
      <4>2. CASE p[1] < q[1] \/ q[1] < r[1]
        <5>1. p[1] < r[1]
          BY <3>2, <4>1, <4>2
        <5>. QED BY <5>1 DEF Sooner
      <4>3. CASE p[1] = q[1] /\ q[1] = r[1]
        <5>1. /\ p[2] < q[2] \/ (p[2] = q[2] /\ p[3] < q[3])
              /\ q[2] < r[2] \/ (q[2] = r[2] /\ q[3] < r[3])
          BY <3>1, <3>2, <4>3 DEF Sooner
        <5>2. p[2] < r[2] \/ (p[2] = r[2] /\ p[3] < r[3])
          BY <3>2, <5>1
        <5>. QED BY <4>3, <5>2 DEF Sooner
      <4>. QED BY <3>2, <4>1, <4>2, <4>3
    <3>. QED BY <2>1, <3>3
  <2>. QED BY <2>3, <2>4, <2>5
<1>11. ASSUME NEW n \in 1 .. Cardinality(best)
       PROVE  (CHOOSE x \in best : Cardinality({y \in best : Before(y, x)}) = n - 1) \in best
  <2> HIDE DEF best
  <2>1. \A x \in best : {y \in best : <<y, x>> \in R} = {y \in best : Before(y, x)}
    OBVIOUS
  <2> HIDE DEF R
  <2>2. \E x \in best : Cardinality({y \in best : <<y, x>> \in R}) = n - 1
    BY <1>6, <1>10, <1>11, PlaceTaken DEF Orders, Preceding
  <2>. QED BY <2>1, <2>2
<1>12. \A n \in 1 .. Cardinality(best) : DedupeSymbols(entries)[n] \in OfFile
  <2>1. \A n \in 1 .. Cardinality(best) : DedupeSymbols(entries)[n] =
          entries[CHOOSE x \in best : Cardinality({y \in best : Before(y, x)}) = n - 1]
    BY DEF DedupeSymbols, Nth, Before, Place, Rivals
  <2>. QED BY <1>2, <1>6, <1>11, <2>1
<1>13. DedupeSymbols(entries) = [n \in 1 .. Cardinality(best) |-> DedupeSymbols(entries)[n]]
  BY DEF DedupeSymbols, Rivals
<1> HIDE DEF best
<1>. QED BY <1>7, <1>12, <1>13

\* And the findings that are left are findings of the list (_dedupe_findings).
LEMMA DedupeFindingsSeq ==
  ASSUME NEW drafts \in Seq(AboutFile)
  PROVE  DedupeFindings(drafts) \in Seq(AboutFile)
<1> DEFINE D == DOMAIN drafts
           Same(i, j) == drafts[i].title = drafts[j].title /\ drafts[i].label = drafts[j].label
           kept == {i \in D : \A j \in 1 .. i - 1 : ~Same(i, j)}
           Before(i, j) == \/ drafts[i].severity < drafts[j].severity
                           \/ drafts[i].severity = drafts[j].severity /\ i < j
           R == {p \in kept \X kept : Before(p[1], p[2])}
<1>1. D = 1 .. Len(drafts) /\ Len(drafts) \in Nat /\ D \in SUBSET Nat /\ IsFiniteSet(D)
  BY PlacesOf
<1>2. \A i \in D : drafts[i] \in AboutFile
  BY <1>1, ElementOfSeq
<1>3. \A i \in D : drafts[i].severity \in Nat
  BY <1>2 DEF AboutFile
<1>4. kept \in SUBSET D /\ IsFiniteSet(kept)
  BY <1>1, FS_Subset
<1>5. Cardinality(kept) \in Nat
  BY <1>4, FS_CardinalityType
<1> HIDE DEF kept
<1>6. /\ \A x \in kept : <<x, x>> \notin R
      /\ \A x, y \in kept : x # y => <<x, y>> \in R \/ <<y, x>> \in R
      /\ \A x, y, z \in kept : <<x, y>> \in R /\ <<y, z>> \in R => <<x, z>> \in R
  <2>1. \A x, y \in kept : <<x, y>> \in R <=> Before(x, y)
    OBVIOUS
  <2>2. \A x \in kept : x \in Nat /\ drafts[x].severity \in Nat
    BY <1>1, <1>3, <1>4
  <2> DEFINE sev(x) == drafts[x].severity
  <2>3. \A x, y \in kept : <<x, y>> \in R <=> sev(x) < sev(y) \/ (sev(x) = sev(y) /\ x < y)
    BY <2>1
  <2>4. \A x \in kept : x \in Nat /\ sev(x) \in Nat
    BY <2>2
  <2> HIDE DEF R, Before, sev
  <2>5. \A x \in kept : <<x, x>> \notin R
    BY <2>3, <2>4
  <2>6. \A x, y \in kept : x # y => <<x, y>> \in R \/ <<y, x>> \in R
    BY <2>3, <2>4
  <2>7. ASSUME NEW x \in kept, NEW y \in kept, NEW z \in kept, <<x, y>> \in R, <<y, z>> \in R
        PROVE  <<x, z>> \in R
    <3>1. sev(x) < sev(y) \/ (sev(x) = sev(y) /\ x < y)
      BY <2>3, <2>7
    <3>2. sev(y) < sev(z) \/ (sev(y) = sev(z) /\ y < z)
      BY <2>3, <2>7
    <3>3. sev(x) < sev(z) \/ (sev(x) = sev(z) /\ x < z)
      BY <2>4, <3>1, <3>2
    <3>. QED BY <2>3, <3>3
  <2>. QED BY <2>5, <2>6, <2>7
<1> HIDE DEF Before
<1>7. ASSUME NEW n \in 1 .. Cardinality(kept)
      PROVE  (CHOOSE x \in kept : Cardinality({y \in kept : Before(y, x)}) = n - 1) \in kept
  <2>1. \A x \in kept : {y \in kept : <<y, x>> \in R} = {y \in kept : Before(y, x)}
    OBVIOUS
  <2> HIDE DEF R
  <2>2. \E x \in kept : Cardinality({y \in kept : <<y, x>> \in R}) = n - 1
    BY <1>4, <1>6, <1>7, PlaceTaken DEF Orders, Preceding
  <2>. QED BY <2>1, <2>2
<1>8. \A n \in 1 .. Cardinality(kept) : DedupeFindings(drafts)[n] \in AboutFile
  <2>1. \A n \in 1 .. Cardinality(kept) : DedupeFindings(drafts)[n] =
          drafts[CHOOSE x \in kept : Cardinality({y \in kept : Before(y, x)}) = n - 1]
    BY DEF DedupeFindings, Nth, Before, kept
  <2>. QED BY <1>2, <1>4, <1>7, <2>1
<1>9. DedupeFindings(drafts) = [n \in 1 .. Cardinality(kept) |-> DedupeFindings(drafts)[n]]
  BY DEF DedupeFindings, kept
<1>. QED BY <1>5, <1>8, <1>9

-----------------------------------------------------------------------------
(* The invariant.                                                          *)

\* The calls that may be under way or unread where run() waits.
StageCalls ==
  CASE pc = "reader"  -> {Reader}
    [] pc = "chunks"  -> ChunkCalls
    [] pc = "audit"   -> {Verifier}
    [] pc = "rewrite" -> {Rewrite(i) : i \in DOMAIN draft}
    [] pc = "summary" -> {Summarizer}
    [] OTHER          -> {}

InStage == \A c \in Calls : call[c].state # "idle" => c \in StageCalls

\* What the chunks have given is what the models may say.
Written ==
  /\ DOMAIN output = Calls
  /\ \A k \in 1 .. NumChunks :
       /\ Answered(Writer(k)) => output[Writer(k)] \in Seq(Entries)
       /\ Answered(Improver(k)) => output[Improver(k)] \in Seq(Drafts)

\* What is in hand stands in the file, the rewrites of the round included.
InFile ==
  Parseable =>
    /\ draft \in Seq(OfFile) /\ findings \in Seq(AboutFile)
    /\ \A n \in DOMAIN rewritten : rewritten[n] \in OfFile /\ rewritten[n].name = n

\* The review is over only with an audit of this draft, or a warning.
Audited ==
  /\ pc \in {"parse", "reader", "chunks"} => draft = <<>>
  /\ pc \in {"summary", "done"} /\ RunsVerifier(depth) /\ draft # <<>> =>
       verdict.of = Shown(draft) \/ "audit unavailable" \in warnings

IInv == chunks \in Sources /\ Told /\ InStage /\ Written /\ InFile /\ Audited

\* The file does not change.
LEMMA FileSame ==
  ASSUME UNCHANGED chunks
  PROVE  OfFile' = OfFile /\ AboutFile' = AboutFile /\ Parseable' = Parseable
         /\ NumChunks' = NumChunks
  BY DEF OfFile, AboutFile, Grounded, NumChunks, Parseable

\* The calls of a file are apart by their names.
LEMMA CallNames ==
  /\ RoleOf(Reader) \in Roles /\ RoleOf(Verifier) \in Roles /\ RoleOf(Summarizer) \in Roles
  /\ \A k : /\ RoleOf(Writer(k)) \in Roles /\ RoleOf(Improver(k)) \in Roles
            /\ RoleOf(Rewrite(k)) \in Roles
            /\ Writer(k)[1] = "writer" /\ Writer(k)[2] = k
            /\ Improver(k)[1] = "improver" /\ Improver(k)[2] = k
            /\ Rewrite(k)[1] = "rewrite" /\ Rewrite(k)[2] = k
  /\ Reader[1] = "reader" /\ Verifier[1] = "verifier" /\ Summarizer[1] = "summarizer"
  BY DEF RoleOf, Reader, Verifier, Summarizer, Writer, Improver, Rewrite, Roles, DefaultRoutes

\* A call that begins.
LEMMA BeginningCall ==
  ASSUME NEW r
  PROVE  [NoCall EXCEPT !.role = r, !.state = "asking", !.attempt = 1] =
           [role |-> r, state |-> "asking", attempt |-> 1, succeeded |-> 0, failed |-> 0]
<1> DEFINE a == [NoCall EXCEPT !.role = r]
           b == [a EXCEPT !.state = "asking"]
<1>1. a = [role |-> r, state |-> "idle", attempt |-> 0, succeeded |-> 0, failed |-> 0]
  BY DEF NoCall
<1> HIDE DEF a
<1>2. b = [role |-> r, state |-> "asking", attempt |-> 0, succeeded |-> 0, failed |-> 0]
  BY <1>1
<1> HIDE DEF b
<1>3. [b EXCEPT !.attempt = 1] =
        [role |-> r, state |-> "asking", attempt |-> 1, succeeded |-> 0, failed |-> 0]
  BY <1>2
<1>. QED BY <1>3 DEF a, b

\* A step of run() begins some calls and reads others.
LEMMA AskLeaves ==
  ASSUME Told, DOMAIN output = Calls, NEW starting, NEW forgotten, Ask(starting, forgotten),
         \A c \in starting : RoleOf(c) \in Roles
  PROVE  /\ Told' /\ DOMAIN output' = Calls
         /\ \A c \in Calls : call'[c].state # "idle" =>
              c \in starting \/ (c \notin forgotten /\ call[c].state # "idle")
         /\ \A c \in Calls : Answered(c)' => Answered(c) /\ output'[c] = output[c]
<1> DEFINE fresh(c) == [role |-> RoleOf(c), state |-> "asking", attempt |-> 1,
                        succeeded |-> 0, failed |-> 0]
<1>1. UNCHANGED configured /\ DOMAIN output' = Calls
      /\ \A c \in Calls : output'[c] = IF c \in forgotten THEN <<>> ELSE output[c]
  BY DEF Ask
<1>2. /\ DOMAIN call' = Calls
      /\ call' = [c \in Calls |-> call'[c]]
      /\ \A c \in Calls : call'[c] = IF c \in starting THEN fresh(c)
                                     ELSE IF c \in forgotten THEN NoCall ELSE call[c]
  <2>1. \A c \in Calls : [NoCall EXCEPT !.role = RoleOf(c), !.state = "asking", !.attempt = 1] = fresh(c)
    BY BeginningCall
  <2>2. call' = [c \in Calls |->
                   IF c \in starting
                   THEN [NoCall EXCEPT !.role = RoleOf(c), !.state = "asking", !.attempt = 1]
                   ELSE IF c \in forgotten THEN NoCall ELSE call[c]]
    BY DEF Ask, Calling
  <2> HIDE DEF fresh
  <2>. QED BY <2>1, <2>2
<1>3. \A role : ResolveChain(role)' = ResolveChain(role)
  BY <1>1, ChainSame
<1>4. NoCall \in CallState /\ NoCall.state = "idle"
  BY DEF NoCall, CallState, Roles, DefaultRoutes
<1>5. \A c \in starting : fresh(c) \in CallState
  BY DEF CallState
<1>6. \A c : /\ fresh(c).state = "asking" /\ fresh(c).attempt = 1 /\ fresh(c).succeeded = 0
             /\ fresh(c).failed = 0 /\ fresh(c).role = RoleOf(c)
  OBVIOUS
<1>7. \A c \in starting : Len(ResolveChain(RoleOf(c))) \in Nat \ {0}
  BY ChainNotEmpty DEF Told
<1> HIDE DEF fresh
<1>8. call' \in [Calls -> CallState]
  BY <1>2, <1>4, <1>5 DEF Told
<1>9. Told'
  BY <1>1, <1>2, <1>3, <1>4, <1>6, <1>7, <1>8 DEF Told, Asking, Answered, Failed
<1>10. \A c \in Calls : call'[c].state # "idle" =>
              c \in starting \/ (c \notin forgotten /\ call[c].state # "idle")
  BY <1>2, <1>4
<1>11. \A c \in Calls : Answered(c)' => Answered(c) /\ output'[c] = output[c]
  BY <1>1, <1>2, <1>4, <1>6 DEF Answered
<1>. QED BY <1>1, <1>9, <1>10, <1>11

\* What it reads of the chunks is still what the models have said.
LEMMA AskWritten ==
  ASSUME chunks \in Sources, Told, Written, UNCHANGED chunks,
         NEW starting, NEW forgotten, Ask(starting, forgotten),
         \A c \in starting : RoleOf(c) \in Roles
  PROVE  Written'
<1>1. /\ DOMAIN output' = Calls
      /\ \A c \in Calls : Answered(c)' => Answered(c) /\ output'[c] = output[c]
  BY AskLeaves DEF Written
<1>2. NumChunks' = NumChunks
  BY FileSame
<1>3. \A k \in 1 .. NumChunks : Writer(k) \in Calls /\ Improver(k) \in Calls
  BY FileTypes
<1>4. ASSUME NEW k \in 1 .. NumChunks
      PROVE  /\ Answered(Writer(k))' => output'[Writer(k)] \in Seq(Entries)
             /\ Answered(Improver(k))' => output'[Improver(k)] \in Seq(Drafts)
  BY <1>1, <1>3 DEF Written
<1>. QED BY <1>1, <1>2, <1>4 DEF Written

\* The recursion of Concatenated.
Joins(part, n, u) ==
  u = [k \in 0 .. n |-> IF k = 0 THEN <<>> ELSE u[k - 1] \o part[k]]

\* It has a solution, and what it adds up to is a sequence over the same set.
LEMMA JoinsSeq ==
  ASSUME NEW N \in Nat, NEW T, NEW part, \A k \in 1 .. N : part[k] \in Seq(T)
  PROVE  (CHOOSE u : Joins(part, N, u))[N] \in Seq(T)
<1> DEFINE C == {n \in 0 .. N : \E u : Joins(part, n, u) /\ u[n] \in Seq(T)}
<1>1. 0 \in C
  <2> DEFINE u == [k \in 0 .. 0 |-> <<>>]
  <2>1. Joins(part, 0, u) /\ u[0] \in Seq(T)
    BY EmptySeq DEF Joins
  <2>. QED BY <2>1
<1>2. ASSUME NEW n \in 0 .. N - 1, n \in C PROVE n + 1 \in C
  <2>1. PICK u : Joins(part, n, u) /\ u[n] \in Seq(T)
    BY <1>2
  <2> DEFINE v == [k \in 0 .. n + 1 |-> IF k <= n THEN u[k] ELSE u[n] \o part[n + 1]]
  <2>2. /\ \A k \in 0 .. n : v[k] = u[k] /\ u[k] = IF k = 0 THEN <<>> ELSE u[k - 1] \o part[k]
        /\ v[n + 1] = u[n] \o part[n + 1]
    BY <2>1 DEF Joins
  <2>3. \A k \in 0 .. n + 1 : v[k] = IF k = 0 THEN <<>> ELSE v[k - 1] \o part[k]
    <3> SUFFICES ASSUME NEW k \in 0 .. n + 1
                 PROVE  v[k] = IF k = 0 THEN <<>> ELSE v[k - 1] \o part[k]
      OBVIOUS
    <3> HIDE DEF v
    <3>1. CASE k = n + 1
      <4>1. k # 0 /\ k - 1 = n /\ n \in 0 .. n
        BY <3>1
      <4>2. v[k] = v[n] \o part[k]
        BY <2>2, <3>1, <4>1
      <4>. QED BY <4>1, <4>2
    <3>2. CASE k \in 1 .. n
      <4>1. k - 1 \in 0 .. n
        BY <3>2
      <4>. QED BY <2>2, <3>2, <4>1
    <3>3. CASE k = 0
      BY <2>2, <3>3
    <3>. QED BY <3>1, <3>2, <3>3
  <2>4. v = [k \in 0 .. n + 1 |-> v[k]]
    OBVIOUS
  <2>5. v[n + 1] \in Seq(T)
    BY <2>1, <2>2, ConcatProperties
  <2> HIDE DEF v
  <2>6. Joins(part, n + 1, v)
    BY <2>3, <2>4 DEF Joins
  <2>. QED BY <2>5, <2>6
<1> HIDE DEF C
<1>3. N \in C
  <2>1. \A n \in 0 .. N - 1 : n \in C => n + 1 \in C
    BY <1>2
  <2>2. 0 .. N \subseteq C
    BY <1>1, <2>1, UpTo
  <2>. QED BY <2>2
<1> USE DEF C
<1> DEFINE w == CHOOSE u : Joins(part, N, u)
           D == {n \in 0 .. N : w[n] \in Seq(T)}
<1>4. Joins(part, N, w)
  BY <1>3
<1> HIDE DEF C, w
<1>5. \A k \in 0 .. N : w[k] = IF k = 0 THEN <<>> ELSE w[k - 1] \o part[k]
  BY <1>4 DEF Joins
<1>6. 0 \in D
  <2>1. w[0] = <<>>
    BY <1>5
  <2>2. w[0] \in Seq(T)
    BY <2>1, EmptySeq
  <2>3. 0 \in 0 .. N
    OBVIOUS
  <2>. QED BY <2>2, <2>3
<1>7. ASSUME NEW n \in 0 .. N - 1, n \in D PROVE n + 1 \in D
  <2>1. w[n + 1] = w[n] \o part[n + 1]
    <3>1. n + 1 \in 0 .. N /\ n + 1 # 0 /\ (n + 1) - 1 = n
      OBVIOUS
    <3>. QED BY <1>5, <3>1
  <2>2. w[n] \in Seq(T) /\ part[n + 1] \in Seq(T)
    BY <1>7
  <2>3. w[n + 1] \in Seq(T)
    BY <2>1, <2>2, ConcatProperties
  <2>. QED BY <2>3
<1> HIDE DEF D
<1>8. N \in D
  <2>1. \A n \in 0 .. N - 1 : n \in D => n + 1 \in D
    BY <1>7
  <2>2. 0 .. N \subseteq D
    BY <1>6, <2>1, UpTo
  <2>. QED BY <2>2
<1>. QED BY <1>8 DEF D, w

\* What is put together from sequences over a set is one.
LEMMA ConcatenatedSeq ==
  ASSUME NumChunks \in Nat, NEW T, NEW part, \A k \in 1 .. NumChunks : part[k] \in Seq(T)
  PROVE  Concatenated(part) \in Seq(T)
<1>1. Concatenated(part) = (CHOOSE u : Joins(part, NumChunks, u))[NumChunks]
  BY DEF Concatenated, Joins
<1> HIDE DEF NumChunks
<1>. QED BY <1>1, JoinsSeq

\* What the chunks have given together stands in the file.
LEMMA MergedInFile ==
  ASSUME chunks \in Sources, Written, Parseable
  PROVE  DedupeSymbols(Documented) \in Seq(OfFile) /\ DedupeFindings(Found) \in Seq(AboutFile)
<1>1. NumChunks \in Nat
  BY FileTypes
<1>2. ASSUME NEW k \in 1 .. NumChunks
      PROVE  /\ Enrich(chunks[k], Wrote(k)) \in Seq(OfFile)
             /\ AnchorFindings(chunks[k], Improved(k)) \in Seq(AboutFile)
  <2>1. Wrote(k) \in Seq(Entries) /\ Improved(k) \in Seq(Drafts)
    BY EmptySeq DEF Written, Wrote, Improved
  <2>. QED BY <2>1, EnrichSeq, AnchorSeq
<1>3. Documented \in Seq(OfFile)
  <2> DEFINE part == [k \in 1 .. NumChunks |-> Enrich(chunks[k], Wrote(k))]
  <2>1. \A k \in 1 .. NumChunks : part[k] \in Seq(OfFile)
    BY <1>2
  <2> HIDE DEF part
  <2>2. Concatenated(part) \in Seq(OfFile)
    BY <1>1, <2>1, ConcatenatedSeq
  <2>. QED BY <2>2 DEF Documented, part
<1>4. Found \in Seq(AboutFile)
  <2> DEFINE part == [k \in 1 .. NumChunks |-> AnchorFindings(chunks[k], Improved(k))]
  <2>1. \A k \in 1 .. NumChunks : part[k] \in Seq(AboutFile)
    BY <1>2
  <2> HIDE DEF part
  <2>2. Concatenated(part) \in Seq(AboutFile)
    BY <1>1, <2>1, ConcatenatedSeq
  <2>. QED BY <2>2 DEF Found, part
<1>. QED BY <1>3, <1>4, DedupeSymbolsSeq, DedupeFindingsSeq

\* The first state.
LEMMA InitIInv == Init => IInv
<1> SUFFICES ASSUME Init PROVE IInv
  OBVIOUS
<1>1. chunks \in Sources /\ configured \in (SUBSET Vendors) \ {{}}
  BY KeySetsAssumption DEF Init, RouterInit
<1>2. NoCall \in CallState /\ NoCall.state = "idle"
  BY DEF NoCall, CallState, Roles, DefaultRoutes
<1>3. \A c \in Calls : call[c] = NoCall
  BY DEF Init, RouterInit
<1>4. Told
  BY <1>1, <1>2, <1>3 DEF Init, RouterInit, Told, Asking, Answered, Failed
<1>5. InStage
  BY <1>2, <1>3 DEF InStage
<1>6. Written
  <2>1. \A k \in 1 .. NumChunks : Writer(k) \in Calls /\ Improver(k) \in Calls
    BY <1>1, FileTypes
  <2>. QED BY <1>2, <1>3, <2>1 DEF Init, Written, Answered
<1>7. InFile
  BY EmptySeq DEF Init, InFile
<1>8. Audited
  BY DEF Init, Audited
<1>. QED BY <1>1, <1>4, <1>5, <1>6, <1>7, <1>8 DEF IInv

\* What all the steps of run() have in common.
LEMMA StepOfRun ==
  ASSUME IInv, UNCHANGED chunks, NEW starting, NEW forgotten, Ask(starting, forgotten),
         \A c \in starting : RoleOf(c) \in Roles, StageCalls \subseteq forgotten,
         starting \subseteq StageCalls'
  PROVE  chunks' \in Sources /\ Told' /\ InStage' /\ Written'
<1>1. Told' /\ Written' /\ \A c \in Calls : call'[c].state # "idle" =>
        c \in starting \/ (c \notin forgotten /\ call[c].state # "idle")
  BY AskLeaves, AskWritten DEF IInv, Written
<1>2. InStage'
  BY <1>1 DEF IInv, InStage
<1>. QED BY <1>1, <1>2 DEF IInv

\* A draft that is left alone, and with it the rest, stays where it was.
LEMMA InFileSame ==
  ASSUME InFile, UNCHANGED <<chunks, draft, findings, rewritten>>
  PROVE  InFile'
<1>1. OfFile' = OfFile /\ AboutFile' = AboutFile /\ Parseable' = Parseable
  BY FileSame
<1>. QED BY <1>1 DEF InFile

\* Parse.
LEMMA ParseInv == ASSUME IInv, Parse PROVE IInv'
<1>1. pc = "parse" /\ draft' = draft /\ draft = <<>> /\ chunks' = chunks /\ chunks \in Sources
  BY DEF Parse, IInv, Audited
<1>2. InFile'
  BY InFileSame DEF Parse, IInv
<1>3. Audited'
  BY <1>1 DEF Parse, Goto, Audited
<1>4. Told' /\ InStage' /\ Written'
  <2>1. CASE chunks = <<>>
    <3>1. UNCHANGED <<configured, call, output, chunks>> /\ pc' = "done"
      BY <2>1 DEF Parse, Goto
    <3>2. StageCalls = {} /\ StageCalls' = {}
      BY <1>1, <3>1 DEF StageCalls
    <3>3. InStage'
      BY <3>1, <3>2 DEF IInv, InStage
    <3>4. Told'
      BY <3>1, ChainSame DEF IInv, Told, Asking, Answered, Failed
    <3>5. Written'
      BY <3>1, FileSame DEF IInv, Written, Answered
    <3>. QED BY <3>3, <3>4, <3>5
  <2>2. CASE chunks # <<>>
    <3>1. Ask({Reader}, {}) /\ pc' = "reader"
      BY <2>2 DEF Parse, Goto
    <3>2. StageCalls = {} /\ StageCalls' = {Reader}
      BY <1>1, <3>1 DEF StageCalls
    <3>. QED BY <1>1, <3>1, <3>2, StepOfRun, CallNames
  <2>. QED BY <2>1, <2>2
<1>. QED BY <1>1, <1>2, <1>3, <1>4 DEF IInv

\* Read.
LEMMA ReadInv == ASSUME IInv, Read PROVE IInv'
<1>1. /\ pc = "reader" /\ pc' = "chunks" /\ Ask({}, {Reader})
      /\ UNCHANGED <<chunks, draft, findings, rewritten>> /\ draft = <<>>
  BY DEF Read, Goto, results, IInv, Audited
<1>2. StageCalls = {Reader}
  BY <1>1 DEF StageCalls
<1>3. chunks' \in Sources /\ Told' /\ InStage' /\ Written'
  BY <1>1, <1>2, StepOfRun
<1>4. InFile'
  BY <1>1, InFileSame DEF IInv
<1>5. Audited'
  BY <1>1 DEF Audited
<1>. QED BY <1>3, <1>4, <1>5 DEF IInv

\* Enter.
LEMMA EnterInv == ASSUME IInv, Enter PROVE IInv'
<1> DEFINE k == Min(Waiting)
<1>1. /\ pc = "chunks" /\ pc' = "chunks" /\ Ask(CallsOf(k), {}) /\ draft = <<>>
      /\ UNCHANGED <<chunks, depth, draft, findings, rewritten>>
  BY DEF Enter, results, IInv, Audited
<1>2. k \in 1 .. NumChunks
  <2>1. Waiting \in SUBSET Nat /\ Waiting # {} /\ Waiting \subseteq 1 .. NumChunks
    BY FileTypes DEF Enter, Waiting, IInv
  <2>. QED BY <2>1, LeastIn
<1>3. StageCalls = ChunkCalls /\ StageCalls' = ChunkCalls
  <2>1. ChunkCalls' = ChunkCalls
    BY <1>1 DEF ChunkCalls, CallsOf, NumChunks, RunsImprover
  <2>. QED BY <1>1, <2>1 DEF StageCalls
<1> HIDE DEF k
<1>4. CallsOf(k) \subseteq ChunkCalls /\ \A c \in CallsOf(k) : RoleOf(c) \in Roles
  BY <1>2, CallNames DEF ChunkCalls, CallsOf
<1>5. Told' /\ Written' /\ \A c \in Calls : call'[c].state # "idle" =>
        c \in CallsOf(k) \/ call[c].state # "idle"
  BY <1>1, <1>4, AskLeaves, AskWritten DEF IInv, Written
<1>6. InStage'
  BY <1>3, <1>4, <1>5 DEF IInv, InStage
<1>7. InFile'
  BY <1>1, InFileSame DEF IInv
<1>8. Audited'
  BY <1>1 DEF Audited
<1>. QED BY <1>1, <1>5, <1>6, <1>7, <1>8 DEF IInv

\* Merge.
LEMMA MergeInv == ASSUME IInv, Merge PROVE IInv'
<1>1. /\ pc = "chunks" /\ draft = <<>> /\ UNCHANGED <<chunks, depth, rewritten>>
      /\ StageCalls = ChunkCalls
  BY DEF Merge, IInv, Audited, StageCalls
<1>2. CASE AllFailed
  <2>1. pc' = "error" /\ Ask({}, ChunkCalls) /\ UNCHANGED <<draft, findings>>
    BY <1>2 DEF Merge, Goto
  <2>2. chunks' \in Sources /\ Told' /\ InStage' /\ Written'
    BY <1>1, <2>1, StepOfRun
  <2>3. InFile'
    BY <1>1, <2>1, InFileSame DEF IInv
  <2>4. Audited'
    BY <2>1 DEF Audited
  <2>. QED BY <2>2, <2>3, <2>4 DEF IInv
<1>3. CASE ~AllFailed
  <2> DEFINE list == DedupeSymbols(Documented)
  <2>1. /\ draft' = list /\ findings' = DedupeFindings(Found)
        /\ \/ list = <<>> /\ pc' = "done" /\ Ask({}, ChunkCalls)
           \/ RunsVerifier(depth) /\ pc' = "audit" /\ Ask({Verifier}, ChunkCalls)
           \/ ~RunsVerifier(depth) /\ pc' = "summary" /\ Ask({Summarizer}, ChunkCalls)
    BY <1>3 DEF Merge, Goto, Audit, Summarize
  <2> HIDE DEF list
  <2>2. \E starting : /\ Ask(starting, ChunkCalls) /\ starting \subseteq StageCalls'
                      /\ \A c \in starting : RoleOf(c) \in Roles
    <3>1. /\ pc' = "audit" => StageCalls' = {Verifier}
          /\ pc' = "summary" => StageCalls' = {Summarizer}
      BY DEF StageCalls
    <3>. QED BY <2>1, <3>1, CallNames
  <2>3. chunks' \in Sources /\ Told' /\ InStage' /\ Written'
    BY <1>1, <2>2, StepOfRun
  <2>4. InFile'
    <3>1. OfFile' = OfFile /\ AboutFile' = AboutFile /\ Parseable' = Parseable
      BY <1>1, FileSame
    <3>2. Parseable => draft' \in Seq(OfFile) /\ findings' \in Seq(AboutFile)
      BY <2>1, MergedInFile DEF IInv, list
    <3>. QED BY <1>1, <3>1, <3>2 DEF IInv, InFile
  <2>5. Audited'
    BY <1>1, <2>1 DEF Audited, RunsVerifier
  <2>. QED BY <2>3, <2>4, <2>5 DEF IInv
<1>. QED BY <1>2, <1>3

\* The audit: it fails, it is the last, or symbols are named.
LEMMA AuditInv ==
  ASSUME IInv, AuditUnavailable \/ AuditEnds \/ AuditRejects
  PROVE  IInv'
<1>1. /\ pc = "audit" /\ UNCHANGED <<chunks, depth, draft, findings, rewritten>>
      /\ StageCalls = {Verifier}
  BY DEF AuditUnavailable, AuditEnds, AuditRejects, StageCalls
<1>2. InFile'
  BY <1>1, InFileSame DEF IInv
<1>3. CASE AuditUnavailable
  <2>1. pc' = "summary" /\ Ask({Summarizer}, {Verifier}) /\ "audit unavailable" \in warnings'
    BY <1>3 DEF AuditUnavailable, Summarize, Goto
  <2>2. StageCalls' = {Summarizer}
    BY <2>1 DEF StageCalls
  <2>3. chunks' \in Sources /\ Told' /\ InStage' /\ Written'
    BY <1>1, <2>1, <2>2, StepOfRun, CallNames
  <2>4. Audited'
    BY <2>1 DEF Audited
  <2>. QED BY <1>2, <2>3, <2>4 DEF IInv
<1>4. CASE AuditEnds
  <2>1. pc' = "summary" /\ Ask({Summarizer}, {Verifier}) /\ verdict'.of = Shown(draft)
    BY <1>4 DEF AuditEnds, Summarize, Goto
  <2>2. StageCalls' = {Summarizer}
    BY <2>1 DEF StageCalls
  <2>3. chunks' \in Sources /\ Told' /\ InStage' /\ Written'
    BY <1>1, <2>1, <2>2, StepOfRun, CallNames
  <2>4. Audited'
    BY <1>1, <2>1 DEF Audited, Shown
  <2>. QED BY <1>2, <2>3, <2>4 DEF IInv
<1>5. CASE AuditRejects
  <2> DEFINE targets == Targets(output[Verifier].rejected)
  <2>1. \/ pc' = "audit" /\ Ask({Verifier}, {Verifier})
        \/ pc' = "rewrite" /\ Ask({Rewrite(i) : i \in targets}, {Verifier})
    BY <1>5 DEF AuditRejects, Audit, Goto
  <2>2. {Rewrite(i) : i \in targets} \subseteq {Rewrite(i) : i \in DOMAIN draft}
    BY DEF Targets
  <2>3. /\ pc' = "audit" => StageCalls' = {Verifier}
        /\ pc' = "rewrite" => StageCalls' = {Rewrite(i) : i \in DOMAIN draft}
    BY <1>1 DEF StageCalls
  <2>4. \A c \in {Rewrite(i) : i \in targets} : RoleOf(c) \in Roles
    BY CallNames
  <2> HIDE DEF targets
  <2>5. chunks' \in Sources /\ Told' /\ InStage' /\ Written'
    <3>1. CASE pc' = "audit" /\ Ask({Verifier}, {Verifier})
      BY <1>1, <2>3, <3>1, StepOfRun, CallNames
    <3>2. CASE pc' = "rewrite" /\ Ask({Rewrite(i) : i \in targets}, {Verifier})
      <4> DEFINE starting == {Rewrite(i) : i \in targets}
      <4>1. Ask(starting, {Verifier}) /\ starting \subseteq StageCalls'
            /\ \A c \in starting : RoleOf(c) \in Roles
        BY <2>2, <2>3, <2>4, <3>2
      <4> HIDE DEF starting
      <4>. QED BY <1>1, <4>1, StepOfRun
    <3>. QED BY <2>1, <3>1, <3>2
  <2>6. Audited'
    BY <2>1 DEF Audited
  <2>. QED BY <1>2, <2>5, <2>6 DEF IInv
<1>. QED BY <1>3, <1>4, <1>5

\* ApplyRewrites.
LEMMA ApplyRewritesInv == ASSUME IInv, ApplyRewrites PROVE IInv'
<1>1. /\ pc = "rewrite" /\ pc' = "audit" /\ Ask({Verifier}, RewriteCalls)
      /\ draft' = Replaced /\ rewritten' = <<>> /\ UNCHANGED <<chunks, depth, findings>>
  BY DEF ApplyRewrites, AfterRewrites, Audit, Goto
<1>2. StageCalls = {Rewrite(i) : i \in DOMAIN draft} /\ StageCalls' = {Verifier}
  BY <1>1 DEF StageCalls
<1>3. Told' /\ Written' /\ \A c \in Calls : call'[c].state # "idle" =>
        c \in {Verifier} \/ (c \notin RewriteCalls /\ call[c].state # "idle")
  BY <1>1, AskLeaves, AskWritten, CallNames DEF IInv, Written
<1>4. \A c \in Calls : call[c].state # "idle" => c \in RewriteCalls
  BY <1>2, CallNames DEF IInv, InStage, RewriteCalls
<1>5. InStage'
  BY <1>2, <1>3, <1>4 DEF InStage
<1>6. InFile'
  <2>1. OfFile' = OfFile /\ AboutFile' = AboutFile /\ Parseable' = Parseable
    BY <1>1, FileSame
  <2>2. ASSUME Parseable PROVE draft' \in Seq(OfFile)
    <3>1. draft \in Seq(OfFile)
          /\ \A n \in DOMAIN rewritten : rewritten[n] \in OfFile
      BY <2>2 DEF IInv, InFile
    <3>2. DOMAIN draft = 1 .. Len(draft) /\ Len(draft) \in Nat
      BY <3>1, LenProperties
    <3>3. \A i \in DOMAIN draft : draft[i] \in OfFile
      BY <3>1, <3>2, ElementOfSeq
    <3>4. \A i \in DOMAIN draft : Replaced[i] \in OfFile
      BY <3>1, <3>3 DEF Replaced
    <3>5. Replaced = [i \in 1 .. Len(draft) |-> Replaced[i]]
      BY <3>2 DEF Replaced
    <3>. QED BY <1>1, <3>2, <3>4, <3>5
  <2>. QED BY <1>1, <2>1, <2>2 DEF IInv, InFile
<1>7. Audited'
  BY <1>1 DEF Audited
<1>. QED BY <1>1, <1>3, <1>5, <1>6, <1>7 DEF IInv

\* Finish.
LEMMA FinishInv == ASSUME IInv, Finish PROVE IInv'
<1>1. /\ pc = "summary" /\ pc' = "done" /\ Ask({}, {Summarizer})
      /\ UNCHANGED <<chunks, depth, symbols, results>>
  BY DEF Finish, Goto
<1>2. StageCalls = {Summarizer}
  BY <1>1 DEF StageCalls
<1>3. chunks' \in Sources /\ Told' /\ InStage' /\ Written'
  BY <1>1, <1>2, StepOfRun
<1>4. InFile'
  BY <1>1, InFileSame DEF IInv, results
<1>5. Audited'
  BY <1>1 DEF IInv, Audited, results, Shown
<1>. QED BY <1>3, <1>4, <1>5 DEF IInv

\* A call that ends or goes on was under way, and the others stay what they are.
LEMMA StageSame ==
  ASSUME IInv, NEW c \in Calls, Asking(c), NEW x, call' = [call EXCEPT ![c] = x],
         UNCHANGED <<chunks, depth, pc, draft>>
  PROVE  InStage' /\ StageCalls' = StageCalls /\ c \in StageCalls
<1>1. call[c].state # "idle" /\ c \in StageCalls
  BY DEF Asking, IInv, InStage
<1>2. StageCalls' = StageCalls
  BY DEF StageCalls, ChunkCalls, CallsOf, NumChunks, RunsImprover
<1>3. \A d \in Calls : call'[d].state # "idle" => d = c \/ call[d].state # "idle"
  BY DEF IInv, Told
<1>. QED BY <1>1, <1>2, <1>3 DEF IInv, InStage

\* A rewrite that is taken over stands where its symbol stood.
LEMMA CollectInFile ==
  ASSUME InFile, PipelineAssumption, NEW i \in DOMAIN draft, NEW answer \in Candidates,
         UNCHANGED <<chunks, draft, findings>>, rewritten' = Collect(i, answer)
  PROVE  InFile'
<1>1. OfFile' = OfFile /\ AboutFile' = AboutFile /\ Parseable' = Parseable
  BY FileSame
<1>2. ASSUME Parseable
      PROVE  \A n \in DOMAIN rewritten' : rewritten'[n] \in OfFile /\ rewritten'[n].name = n
  <2>1. draft \in Seq(OfFile)
        /\ \A n \in DOMAIN rewritten : rewritten[n] \in OfFile /\ rewritten[n].name = n
    BY <1>2 DEF InFile
  <2>2. CASE answer = <<>>
    BY <2>1, <2>2 DEF Collect
  <2>3. CASE answer # <<>>
    <3> DEFINE s == Corrected(draft[i], answer[1])
    <3>1. PICK p \in Guesses : answer = <<[parent |-> p]>>
      BY <2>3 DEF Candidates
    <3>2. draft[i] \in OfFile
      BY <2>1, LenProperties, ElementOfSeq
    <3>3. s = [name |-> draft[i].name, parent |-> p, line |-> draft[i].line, length |-> 1]
      BY <3>1 DEF Corrected
    <3>4. p \in Seq(STRING)
      BY <3>1, PipelineAssumption
    <3> HIDE DEF s
    <3>5. s \in OfFile /\ s.name = draft[i].name
      BY <3>2, <3>3, <3>4 DEF OfFile
    <3>6. rewritten' = [n \in DOMAIN rewritten \cup {draft[i].name} |->
                          IF n = draft[i].name THEN s ELSE rewritten[n]]
      BY <2>3 DEF Collect, s
    <3>. QED BY <2>1, <3>5, <3>6
  <2>. QED BY <2>2, <2>3
<1>. QED BY <1>1, <1>2 DEF InFile

\* Return.
LEMMA ReturnInv == ASSUME IInv, NEW c \in Calls, Return(c) PROVE IInv'
<1>1. /\ Asking(c) /\ call' = [call EXCEPT ![c] = [Record(call[c]) EXCEPT !.state = "answered"]]
      /\ UNCHANGED <<chunks, depth, pc, symbols, draft, findings, warnings, verdict>>
  BY DEF Return, Returns
<1>2. PICK answer \in Answers(c) :
        /\ output' = [output EXCEPT ![c] = answer]
        /\ rewritten' = IF c[1] = "rewrite" THEN Collect(c[2], answer) ELSE rewritten
  BY DEF Return
<1>3. InStage' /\ StageCalls' = StageCalls /\ c \in StageCalls
  <2> DEFINE x == [Record(call[c]) EXCEPT !.state = "answered"]
  <2>1. call' = [call EXCEPT ![c] = x]
    BY <1>1
  <2> HIDE DEF x
  <2>. QED BY <1>1, <2>1, StageSame
<1>4. Told'
  BY ReturnsTold DEF Return, IInv
<1>5. Written'
  <2>1. NumChunks' = NumChunks
    BY <1>1, FileSame
  <2>2. /\ DOMAIN output' = Calls
        /\ \A d \in Calls : output'[d] = IF d = c THEN answer ELSE output[d]
        /\ \A d \in Calls : d # c => call'[d] = call[d]
    BY <1>1, <1>2 DEF IInv, Written, Told
  <2>3. ASSUME NEW k \in 1 .. NumChunks
        PROVE  /\ c = Writer(k) => answer \in Seq(Entries)
               /\ c = Improver(k) => answer \in Seq(Drafts)
    <3>1. /\ Writes(chunks[k]) \subseteq Seq(Entries) /\ Improves(chunks[k]) \subseteq Seq(Drafts)
      BY <2>3, FileTypes DEF IInv
    <3>2. c = Writer(k) => Answers(c) = Writes(chunks[k])
      BY CallNames DEF Answers
    <3>3. c = Improver(k) => Answers(c) = Improves(chunks[k])
      BY CallNames DEF Answers
    <3>. QED BY <3>1, <3>2, <3>3
  <2>4. \A k \in 1 .. NumChunks : Writer(k) \in Calls /\ Improver(k) \in Calls
    BY FileTypes DEF IInv
  <2>. QED BY <2>1, <2>2, <2>3, <2>4 DEF IInv, Written, Answered
<1>6. InFile'
  <2>1. CASE c[1] = "rewrite"
    <3>1. PICK i \in DOMAIN draft : c = Rewrite(i)
      <4>1. pc = "rewrite"
        BY <1>3, <2>1, CallNames DEF StageCalls, ChunkCalls, CallsOf
      <4>. QED BY <1>3, <4>1 DEF StageCalls
    <3>2. Answers(c) = Candidates /\ c[2] = i
      BY <3>1, CallNames DEF Answers
    <3>. QED BY <1>1, <1>2, <2>1, <3>2, CollectInFile, PipelineAssumption DEF IInv
  <2>2. CASE c[1] # "rewrite"
    BY <1>1, <1>2, <2>2, InFileSame DEF IInv
  <2>. QED BY <2>1, <2>2
<1>7. Audited'
  BY <1>1 DEF IInv, Audited, Shown
<1>. QED BY <1>1, <1>3, <1>4, <1>5, <1>6, <1>7 DEF IInv

\* NextVendorAsked.
LEMMA NextVendorInv == ASSUME IInv, NEW c \in Calls, NextVendorAsked(c) PROVE IInv'
<1> DEFINE x == NextVendor(RecordFailure(call[c]))
<1>1. /\ Asking(c) /\ call' = [call EXCEPT ![c] = x] /\ FallsThrough(c)
      /\ UNCHANGED <<chunks, depth, pc, output, symbols, results>>
  BY DEF NextVendorAsked, FallsThrough
<1>2. UNCHANGED <<chunks, depth, pc, draft, findings, warnings, verdict, rewritten, output>>
  BY <1>1 DEF results
<1>3. x.state # "answered"
  <2>1. call[c] \in CallState /\ call[c].state = "asking"
    BY <1>1 DEF IInv, Told, Asking
  <2> DEFINE y == RecordFailure(call[c])
  <2>2. y = [role |-> call[c].role, state |-> "asking", attempt |-> call[c].attempt,
             succeeded |-> call[c].succeeded, failed |-> call[c].failed + 1]
    BY <2>1, CallFields
  <2>3. x = NextVendor(y)
    OBVIOUS
  <2> HIDE DEF x, y
  <2>4. x = [y EXCEPT !.attempt = @ + 1] \/ x = [y EXCEPT !.state = "failed"]
    BY <2>3 DEF NextVendor
  <2>. QED BY <2>2, <2>4
<1> HIDE DEF x
<1>4. InStage'
  BY <1>1, <1>2, StageSame
<1>5. Told'
  BY <1>1, FallsThroughTold DEF IInv
<1>6. Written'
  <2>1. NumChunks' = NumChunks
    BY <1>2, FileSame
  <2>2. \A d \in Calls : call'[d] = IF d = c THEN x ELSE call[d]
    BY <1>1 DEF IInv, Told
  <2>3. \A k \in 1 .. NumChunks : Writer(k) \in Calls /\ Improver(k) \in Calls
    BY FileTypes DEF IInv
  <2>. QED BY <1>2, <1>3, <2>1, <2>2, <2>3 DEF IInv, Written, Answered
<1>7. InFile'
  BY <1>2, InFileSame DEF IInv
<1>8. Audited'
  BY <1>2 DEF IInv, Audited, Shown
<1>. QED BY <1>2, <1>4, <1>5, <1>6, <1>7, <1>8 DEF IInv

\* A step that changes nothing.
LEMMA IdleInv == ASSUME IInv, UNCHANGED vars PROVE IInv'
<1>1. UNCHANGED <<configured, call, chunks, depth, pc, output, symbols, draft, findings, warnings,
                  verdict, rounds, rewritten, digest>>
  BY DEF vars, results
<1>2. Told'
  BY <1>1, ChainSame DEF IInv, Told, Asking, Answered, Failed
<1>3. InStage'
  BY <1>1 DEF IInv, InStage, StageCalls, ChunkCalls, CallsOf, NumChunks, RunsImprover
<1>4. Written'
  BY <1>1, FileSame DEF IInv, Written, Answered
<1>5. InFile'
  BY <1>1, InFileSame DEF IInv
<1>6. Audited'
  BY <1>1 DEF IInv, Audited, Shown
<1>. QED BY <1>1, <1>2, <1>3, <1>4, <1>5, <1>6 DEF IInv

\* Every step.
LEMMA Inductive == IInv /\ [Next]_vars => IInv'
<1> SUFFICES ASSUME IInv, [Next]_vars PROVE IInv'
  OBVIOUS
<1>1. CASE UNCHANGED vars
  BY <1>1, IdleInv
<1>2. CASE Next
  <2>1. CASE Parse \/ Read \/ Enter \/ Merge
    BY <2>1, ParseInv, ReadInv, EnterInv, MergeInv
  <2>2. CASE AuditUnavailable \/ AuditEnds \/ AuditRejects
    BY <2>2, AuditInv
  <2>3. CASE ApplyRewrites \/ Finish
    BY <2>3, ApplyRewritesInv, FinishInv
  <2>4. CASE \E c \in Calls : Return(c) \/ NextVendorAsked(c)
    BY <2>4, ReturnInv, NextVendorInv
  <2>5. CASE Idle
    BY <2>5, IdleInv DEF Idle
  <2>. QED BY <1>2, <2>1, <2>2, <2>3, <2>4, <2>5 DEF Next
<1>. QED BY <1>1, <1>2

-----------------------------------------------------------------------------

\* The inductive invariant of the agents on one file (pipeline.py, router.py).
THEOREM PipelineInvariant == Spec => []IInv
BY InitIInv, Inductive, PTL DEF Spec

\* A call that has ended has a row for every vendor it asked (complete), for any
\* set of vendors with a key and any number of calls under way.
THEOREM UsageAlwaysTells == Spec => []UsageTellsTheCalls
<1>1. IInv => UsageTellsTheCalls
  BY DEF IInv, Told, UsageTellsTheCalls
<1>. QED BY <1>1, PipelineInvariant, PTL

\* Every symbol and every finding stands where the parser saw one of its name
\* (_enrich, _anchor_findings), whatever the models say, for any file of a
\* language with a grammar and any number of rounds.
THEOREM DeliveredStaysGrounded == Spec => []DeliveredIsGrounded
<1>1. IInv => DeliveredIsGrounded
  <2> SUFFICES ASSUME IInv, Parseable
               PROVE  /\ \A s \in Range(draft) : Grounded(s.name, s.line)
                      /\ \A f \in Range(findings) : IF f.label = <<>> THEN f.line = 0
                                                    ELSE Grounded(Name(f.label), f.line)
    BY DEF DeliveredIsGrounded
  <2>1. draft \in Seq(OfFile) /\ findings \in Seq(AboutFile)
    BY DEF IInv, InFile
  <2>2. Range(draft) \subseteq OfFile
    BY <2>1, LenProperties, ElementOfSeq DEF Range
  <2>3. Range(findings) \subseteq AboutFile
    BY <2>1, LenProperties, ElementOfSeq DEF Range
  <2>. QED BY <2>2, <2>3 DEF OfFile, AboutFile
<1>. QED BY <1>1, PipelineInvariant, PTL

\* No rewrite is delivered unread (the review loop of run), for any number of
\* rounds.
THEOREM AuditedWhatIsDelivered == Spec => []AuditedAsDelivered
<1>1. IInv => AuditedAsDelivered
  BY DEF IInv, Audited, AuditedAsDelivered
<1>. QED BY <1>1, PipelineInvariant, PTL

\* Only a file whose every block failed is an error (run, after gather), and
\* blocks that are missing are told.
THEOREM OnlyWholeFails == Spec => FailsOnlyWhole
<1> DEFINE A == /\ (pc' = "error" => (FailedChunks = 1 .. NumChunks))
                /\ (pc = "chunks" /\ pc' \notin {"chunks", "error"} =>
                      /\ ~(FailedChunks = 1 .. NumChunks)
                      /\ \A k \in 1 .. NumChunks :
                            Failed(Writer(k)) => "chunks failed" \in warnings')
<1>1. IInv /\ [Next]_vars => [A]_vars
  <2> SUFFICES ASSUME IInv, Next, ~(UNCHANGED vars) PROVE A
    OBVIOUS
  <2>1. CASE Merge
    <3>1. pc = "chunks" /\ (pc' = "error" <=> AllFailed)
      BY <2>1 DEF Merge, Goto, Audit, Summarize
    <3>2. ~AllFailed /\ FailedChunks # {} => "chunks failed" \in warnings'
      BY <2>1 DEF Merge
    <3>. QED BY <3>1, <3>2 DEF AllFailed, FailedChunks
  <2>2. CASE Parse \/ Read \/ Enter
    BY <2>2 DEF Parse, Read, Enter, Goto
  <2>3. CASE AuditUnavailable \/ AuditEnds \/ AuditRejects \/ ApplyRewrites \/ Finish
    BY <2>3 DEF AuditUnavailable, AuditEnds, AuditRejects, ApplyRewrites, AfterRewrites,
                Finish, Summarize, Audit, Goto
  <2>4. ASSUME NEW c \in Calls, Return(c) \/ NextVendorAsked(c) PROVE A
    <3>1. Asking(c) /\ pc' = pc
      BY <2>4 DEF Return, Returns, NextVendorAsked, FallsThrough
    <3>2. pc # "error"
      <4>1. c \in StageCalls
        BY <3>1 DEF IInv, InStage, Asking
      <4>. QED BY <4>1 DEF StageCalls
    <3>. QED BY <3>1, <3>2
  <2>5. CASE Idle
    BY <2>5 DEF Idle
  <2>. QED BY <2>1, <2>2, <2>3, <2>4, <2>5 DEF Next
<1>. QED BY <1>1, PipelineInvariant, PTL DEF Spec, FailsOnlyWhole
=============================================================================
