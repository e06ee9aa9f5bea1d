------------------------- MODULE MCRepositoryAnalysis -------------------------
(* Four families of jobs: archives that lie about themselves, repositories *)
(* that outgrow a scan, the shapes of one syntax tree, and files that      *)
(* mention each other, with and without a project context.                 *)
EXTENDS RepositoryAnalysis

MCNameOrder == <<"load", "save", "id">>

Upto(S, n) == UNION {[1 .. k -> S] : k \in 0 .. n}

TreeNode(kind, name, depth, chars, calls) ==
    [kind |-> kind, name |-> name, depth |-> depth, chars |-> chars, calls |-> calls]
Function(name, calls) == TreeNode("function", name, 1, 20, calls)

Text(nodes) == [nodes |-> nodes, lines |-> <<>>, says |-> <<>>]
Prose(lines, says) == [nodes |-> <<>>, lines |-> lines, says |-> says]
Plain == [p \in 1 .. 4 |-> Text(<<Function("load", {"save"})>>)]

File1 == <<[path |-> 1, size |-> 1, kind |-> "source"]>>
Repository(found, plan, text, documented, context) ==
    [type |-> "repository", entries |-> <<>>, walk |-> found, plan |-> plan,
     text |-> text, documented |-> documented, context |-> context]

\* Archives: up to three entries under two names, and one too many.
ZipEntries ==
    [kind : {"source"}, path : {1, 2}, declared : {1, 3}, real : 0 .. 3]
        \cup {[kind |-> "unsafe", path |-> 1, declared |-> 1, real |-> 1]}
Archive(entries) ==
    [type |-> "archive", entries |-> entries, walk |-> <<>>, plan |-> 2,
     text |-> Plain, documented |-> {}, context |-> <<>>]
Archives ==
    {Archive(e) : e \in Upto({x \in ZipEntries : x.real > 0}, 3)} \cup
    {Archive([i \in 1 .. 4 |-> e]) : e \in ZipEntries}

\* Repositories: four files of a walk.
FoundFiles ==
    {<<"source", 1>>, <<"source", 2>>, <<"source", 3>>, <<"binary", 1>>,
     <<"binary", 3>>, <<"blank", 1>>, <<"other", 1>>}
Repositories ==
    {Repository([i \in DOMAIN w |-> [path |-> i, kind |-> w[i][1], size |-> w[i][2]]],
                2, Plain, {}, <<>>) : w \in Upto(FoundFiles, 4)}

\* Trees: up to three nodes of any kind, and files without symbols.
Shapes ==
    {d \in Upto(1 .. 3, 3) : \A i \in DOMAIN d : d[i] <= IF i = 1 THEN 1 ELSE d[i - 1] + 1}
Kinds ==
    {<<"function", Unnamed, 20>>, <<"function", "load", 20>>, <<"function", "load", 60>>,
     <<"function", "save", 9>>, <<"container", Unnamed, 20>>, <<"container", "save", 20>>,
     <<"other", Unnamed, 20>>}
Trees ==
    UNION {{[i \in DOMAIN d |-> TreeNode(k[i][1], k[i][2], d[i], k[i][3], {})] :
                k \in [DOMAIN d -> Kinds]} : d \in Shapes}
OneFile ==
    {Repository(File1, 1, 1 :> Text(t), {}, <<>>) : t \in Trees} \cup
    {Repository(File1, 1, 1 :> Prose(l, [i \in DOMAIN l |-> {}]), {}, <<>>) :
        l \in Upto({0, 1, 30}, 4)}

\* Files that mention each other, with symbols or without, the third beyond what the plan covers or not;
\* perhaps an earlier attempt has documented the first.
Bodies ==
    {Text(<<Function("load", {})>>),
     Text(<<Function("load", {"save"}), Function("load", {"save"})>>),
     Text(<<Function("save", {"load", "id"})>>),
     Text(<<Function("id", {}), Function("save", {"load"})>>),
     Text(<<Function("load", {"save"}), Function("save", {})>>),
     Prose(<<20, 60, 1>>, <<{"load"}, {"save", "load"}, {"save", "id"}>>)}
Linked ==
    {Repository([i \in 1 .. 3 |-> [path |-> i, kind |-> "source", size |-> 1]],
                plan, b, documented, <<>>) :
        b \in [1 .. 3 -> Bodies], plan \in {2, 3}, documented \in {{}, {1}}}

Item(glob, words, overlap, weight, chars) ==
    [glob |-> glob, words |-> words, overlap |-> overlap, weight |-> weight, chars |-> chars]
ContextItems ==
    {Item("none", 2, 1, 50, 1), Item("none", 9, 1, 50, 2), Item("none", 0, 0, 100, 1),
     Item("none", 3, 3, 0, 3), Item("hits", 5, 0, 10, 2), Item("hits", 5, 2, 10, 3),
     Item("misses", 4, 4, 100, 1)}
Contexts ==
    {Repository(File1, 1, Plain, {}, c) : c \in Upto(ContextItems, 3)}

OneRepository == {Repository(File1, 1, Plain, {}, <<>>)}
MCJobs == Archives \cup Repositories \cup OneFile \cup Linked \cup Contexts
===============================================================================
