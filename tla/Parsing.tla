------------------------------- MODULE Parsing -------------------------------
(***************************************************************************)
(* packages/parsing: the symbols of a syntax tree (symbols.py) and the     *)
(* chunks they are sent in (chunking.py).                                  *)
(*                                                                         *)
(* A tree is the sequence of its nodes in the order of their first byte,   *)
(* each with its depth below the root; a text is measured in characters.   *)
(***************************************************************************)
EXTENDS Integers, Sequences, FiniteSets, SequencesExt

CONSTANTS
    MaxTokens,      \* max_tokens_per_chunk
    HeaderTokens,   \* the header that names the file and its symbols
    MinBudget,      \* what a chunk has at least, however long the header
    Notice          \* the characters of the mark of a truncation

ASSUME ParsingAssumption == {MaxTokens, HeaderTokens, MinBudget, Notice} \subseteq Nat

\* A node of a tree; calls are the names its text mentions.
Node == [kind : {"function", "container", "other"}, name : STRING,
         depth : Nat, chars : Nat, calls : SUBSET STRING]

\* Each is one below the root, or one below a node before it.
Tree == {nodes \in Seq(Node) : \A i \in DOMAIN nodes :
            nodes[i].depth \in 1 .. IF i = 1 THEN 1 ELSE nodes[i - 1].depth + 1}

Unnamed == ""

\* CHARS_PER_TOKEN = 3.6
EstimateTokens(chars) == (chars * 5) \div 18 + 1
Chars(tokens) == (tokens * 18) \div 5

-----------------------------------------------------------------------------
(* symbols.py                                                              *)

\* The nodes right below node i; 0 is the root.
Depth(nodes, i) == IF i = 0 THEN 0 ELSE nodes[i].depth
Children(nodes, i) ==
    {j \in i + 1 .. Len(nodes) :
        /\ nodes[j].depth = Depth(nodes, i) + 1
        /\ \A k \in i + 1 .. j : nodes[k].depth > Depth(nodes, i)}

BuildSymbol(nodes, i, parent) ==
    IF nodes[i].name = Unnamed THEN <<>>
    ELSE <<[name |-> nodes[i].name, kind |-> nodes[i].kind, parent |-> parent,
            chars |-> nodes[i].chars, calls |-> nodes[i].calls, at |-> i]>>

\* Bug: the methods of a class without a name get no parent at all.
QualifiedOrNone(parent, name) == IF name = Unnamed THEN <<>> ELSE Append(parent, name)

Qualified(parent, name) == IF name = Unnamed THEN parent ELSE Append(parent, name)

\* What a child adds, of which below collects what is below it: functions are
\* not entered, containers are, under their name, and any other node hands its
\* parent on.
OfChild(nodes, j, parent, below) ==
    CASE nodes[j].kind = "function"  -> BuildSymbol(nodes, j, parent)
      [] nodes[j].kind = "container" ->
            BuildSymbol(nodes, j, parent) \o below[Qualified(parent, nodes[j].name)]
      [] nodes[j].kind = "other"     -> below[parent]

\* _collect, from the root.
Symbols(nodes) ==
    LET Collect[i \in 0 .. Len(nodes)] == [parent \in Seq(STRING) |->
            FlattenSeq([j \in DOMAIN nodes |->
                IF j \in Children(nodes, i) THEN OfChild(nodes, j, parent, Collect[j])
                ELSE <<>>])]
    IN  Collect[0][<<>>]

-----------------------------------------------------------------------------
(* chunking.py                                                             *)

LargerOf(a, b) == IF a > b THEN a ELSE b
Budget == LargerOf(MaxTokens - HeaderTokens, MinBudget)

TokensOf(symbol) == EstimateTokens(symbol.chars)

\* Two characters stand between two symbols of a chunk.
MakeChunk(symbols) ==
    LET upTo[i \in 0 .. Len(symbols)] ==
            IF i = 0 THEN 0 ELSE upTo[i - 1] + symbols[i].chars
    IN  [symbols |-> symbols, truncated |-> FALSE,
         chars |-> upTo[Len(symbols)] + 2 * (Len(symbols) - 1)]

MakeOversizedChunk(symbol) ==
    LET most == Chars(Budget) IN
    [symbols |-> <<symbol>>, truncated |-> symbol.chars > most,
     chars |-> IF symbol.chars > most THEN most + Notice ELSE symbol.chars]

\* The loop of build_chunks: the chunks made, and the one being filled.
Flushed(loop) ==
    IF loop.current = <<>> THEN loop
    ELSE [chunks |-> Append(loop.chunks, MakeChunk(loop.current)),
          current |-> <<>>, tokens |-> 0]

\* Bug: the chunk is measured before the symbol is added to it.
OverBudgetLate(loop, symbol) == loop.tokens > Budget

OverBudget(loop, symbol) == loop.tokens + TokensOf(symbol) > Budget

Oversized(symbol) == TokensOf(symbol) > Budget

AddSymbol(loop, symbol) ==
    IF Oversized(symbol)
    THEN LET done == Flushed(loop)
         IN  [done EXCEPT !.chunks = Append(@, MakeOversizedChunk(symbol))]
    ELSE LET room == IF OverBudget(loop, symbol) THEN Flushed(loop) ELSE loop
         IN  [chunks |-> room.chunks, current |-> Append(room.current, symbol),
              tokens |-> room.tokens + TokensOf(symbol)]

SymbolChunks(symbols) ==
    LET after[i \in 0 .. Len(symbols)] ==
            IF i = 0 THEN [chunks |-> <<>>, current |-> <<>>, tokens |-> 0]
            ELSE LET before == after[i - 1] IN AddSymbol(before, symbols[i])
    IN  Flushed(after[Len(symbols)]).chunks

\* Without symbols the file is cut by lines, given here by their lengths; a
\* rest that is blank is dropped.
AddLine(loop, lines, i) ==
    LET chars == loop.chars + lines[i] + 1
    IN  IF chars >= Chars(MaxTokens)
        THEN [chunks |-> Append(loop.chunks, [from |-> loop.start, to |-> i]),
              start |-> i + 1, chars |-> 0]
        ELSE [loop EXCEPT !.chars = chars]

LineChunks(lines) ==
    LET after[i \in 0 .. Len(lines)] ==
            IF i = 0 THEN [chunks |-> <<>>, start |-> 1, chars |-> 0]
            ELSE LET before == after[i - 1] IN AddLine(before, lines, i)
        loop == after[Len(lines)]
    IN  IF \E i \in loop.start .. Len(lines) : lines[i] > 0
        THEN Append(loop.chunks, [from |-> loop.start, to |-> Len(lines)])
        ELSE loop.chunks
=============================================================================
