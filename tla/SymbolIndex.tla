----------------------------- MODULE SymbolIndex -----------------------------
(***************************************************************************)
(* What the writer is told about the rest of the repository and the        *)
(* project: packages/parsing, symbol_index.py, and packages/agents,        *)
(* context_selector.py.                                                    *)
(*                                                                         *)
(* Paths are numbers in the order of their names; names are ranked by      *)
(* NameOrder.  The index is a function from names to the definitions of    *)
(* that name, in the order they were added.                                *)
(***************************************************************************)
EXTENDS Integers, Sequences, FiniteSets, SequencesExt, Orders

CONSTANTS
    NameOrder,          \* the names, in alphabetical order
    CommonNames,        \* too short or too common to be looked up
    MaxReferences,      \* symbols told to one chunk
    MaxReferenceChars,  \* and their length
    MaxContextItems,    \* entries of the project context told to a file
    MaxContextChars     \* and their length

ASSUME IndexAssumption ==
    /\ NameOrder \in Seq(STRING) /\ IsInjective(NameOrder)
    /\ {MaxReferences, MaxReferenceChars, MaxContextItems, MaxContextChars} \subseteq Nat

\* An entry of the project context has globs that hit the file in hand, that
\* miss it, or none; the number of its words, and of those the file has too; a
\* weight and a length.
Items == [glob : {"hits", "misses", "none"}, words : Nat, overlap : Nat,
          weight : Nat, chars : Nat]

Names == Range(NameOrder)
NameRank(name) == CHOOSE i \in DOMAIN NameOrder : NameOrder[i] = name

NoSummary == 0

Indexable(name) == name \notin CommonNames

-----------------------------------------------------------------------------
EmptyIndex == [n \in Names |-> <<>>]

AddFile(index, path, symbols) ==
    [n \in Names |->
        IF ~Indexable(n) THEN index[n]
        ELSE LET own == At(symbols, {i \in DOMAIN symbols : symbols[i].name = n})
             IN  index[n] \o [i \in DOMAIN own |->
                    [name |-> n, path |-> path, parent |-> own[i].parent,
                     summary |-> NoSummary]]]

Mine(definition, path) == definition.path = path /\ definition.summary = NoSummary

\* summaries: the summary of each documented name, the last of a name.
AttachSummaries(index, path, summaries) ==
    [n \in Names |->
        IF n \notin DOMAIN summaries THEN index[n]
        ELSE [i \in DOMAIN index[n] |->
                IF Mine(index[n][i], path)
                THEN [index[n][i] EXCEPT !.summary = summaries[n]]
                ELSE index[n][i]]]

\* The length of what is told of a definition; a summary makes it longer.
Rendered(definition) == IF definition.summary = NoSummary THEN 1 ELSE 2

\* Bug: the room is measured before the candidate takes its part.
FitsBefore(used, cost, room) == used < room

Fits(used, cost, room) == used + cost <= room

\* The loop of _fit_within_budget: what is too long for the rest of the room,
\* or there already, is passed over.
Taken(loop, candidate, cost, there, room, most) ==
    IF Len(loop.kept) < most /\ Fits(loop.used, cost, room) /\ ~there
    THEN [kept |-> Append(loop.kept, candidate), used |-> loop.used + cost]
    ELSE loop

\* The first `most` that fit, none of them twice.
Greedy(candidates, Cost(_), Same(_, _), room, most) ==
    LET after[i \in 0 .. Len(candidates)] ==
            IF i = 0 THEN [kept |-> <<>>, used |-> 0]
            ELSE LET before == after[i - 1]
                     c == candidates[i]
                 IN  Taken(before, c, Cost(c),
                           \E k \in Range(before.kept) : Same(k, c), room, most)
    IN  after[Len(candidates)].kept

\* The definitions elsewhere of the names a chunk mentions: the most mentioned
\* first, then by path and name; one definition of a name in a file.
ReferencesIn(index, mentions, excluded) ==
    LET Mentioned == {n \in DOMAIN mentions \cap Names : Indexable(n) /\ mentions[n] > 0}
        found == UNION {{<<n, i>> : i \in {k \in DOMAIN index[n] :
                            index[n][k].path # excluded}} : n \in Mentioned}
        Definition(c) == index[c[1]][c[2]]
        Where(c) == <<0 - mentions[c[1]], Definition(c).path, NameRank(c[1]), c[2]>>
        Before(c, d) == \E k \in 1 .. 4 : /\ Where(c)[k] < Where(d)[k]
                                          /\ \A l \in 1 .. k - 1 : Where(c)[l] = Where(d)[l]
        candidates == Ordered(found, Before)
    IN  Greedy([i \in DOMAIN candidates |-> Definition(candidates[i])], Rendered,
               LAMBDA d, e : d.name = e.name /\ d.path = e.path,
               MaxReferenceChars, MaxReferences)

-----------------------------------------------------------------------------
(* select_context                                                          *)

Relevant(item) ==
    /\ item.glob # "misses"
    /\ item.glob = "hits" \/ item.overlap > 0

\* A hundred times the score, and times the entry's words; the 5 points of
\* coverage are a quotient.
Score(item) ==
    LET words == IF item.words = 0 THEN 1 ELSE item.words
    IN  [points |-> (100 * item.overlap + item.weight
                        + (IF item.glob = "hits" THEN 2500 ELSE 0)) * words
                    + 500 * item.overlap,
         per |-> words]

Higher(a, b) == Score(a).points * Score(b).per > Score(b).points * Score(a).per

SelectContext(items) ==
    LET chosen == {i \in DOMAIN items : Relevant(items[i])}
        Before(i, j) == \/ Higher(items[i], items[j])
                        \/ ~Higher(items[j], items[i]) /\ i < j
        order == Ordered(chosen, Before)
    IN  Greedy([n \in DOMAIN order |-> items[order[n]]], LAMBDA item : item.chars,
               LAMBDA a, b : FALSE, MaxContextChars, MaxContextItems)
=============================================================================
