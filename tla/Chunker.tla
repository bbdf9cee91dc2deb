------------------------------- MODULE Chunker -------------------------------
(***************************************************************************)
(* How a file becomes documents (internal/indexer/chunker.go, store.go).   *)
(* The parser gives a tree of nodes; the nodes of the kinds that the       *)
(* language's table names become chunks, one that is too large is parsed   *)
(* again on its own and split, and the store keeps one document for a      *)
(* range of lines.                                                         *)
(*                                                                         *)
(* A file is a sequence of pieces, bits of text that are each on one line  *)
(* and that nodes, of either parse, begin and end with.  A line may have   *)
(* several.  A chunk is the pieces from .. to, which need not be whole     *)
(* lines; first and last are the numbers the code computes for its lines.  *)
(***************************************************************************)
EXTENDS Integers, Sequences, FiniteSetsExt

CONSTANTS
    MaxPiece,       \* bound: pieces of a file
    MaxNodes,       \* bound: nodes of a file
    MaxLength,      \* bound: characters of a file
    maxChunkSize, minChunkSize, linesPerChunk

ASSUME ChunkerAssumption ==
    /\ {MaxPiece, MaxNodes, MaxLength, maxChunkSize, minChunkSize} \subseteq Nat
    /\ linesPerChunk \in Nat \ {0}

(* What langNodeConfigs says of a node's kind: nothing, a chunk, or a chunk
   whose inside is left to splitting (splitKinds). *)
Kinds == {"other", "chunk", "whole"}

VARIABLES
    nodes,      \* the tree: [kind, from, to], in the order of collectChunks
    rows,       \* per piece: its line
    offset,     \* per piece: the characters up to its end
    unsplit,    \* chunks that are yet to be split
    chunks,     \* chunks that ChunkFile returns
    docs,       \* documents in the store
    uncovered   \* history: pieces that no node of a second parse covers

chunkVars == <<nodes, rows, offset, unsplit, chunks, docs, uncovered>>

ChunkerInit ==
    /\ nodes = <<>> /\ rows = <<>> /\ offset = <<>>
    /\ unsplit = {} /\ chunks = {} /\ docs = {}
    /\ uncovered = {}

-----------------------------------------------------------------------------
(* Files and their trees. *)

PieceNumbers == 1 .. MaxPiece

(* No line is without a piece, which may have no characters. *)
RowSets ==
    {r \in [PieceNumbers -> PieceNumbers] :
        /\ \A i, j \in PieceNumbers : i <= j => r[i] <= r[j]
        /\ \A i \in PieceNumbers : r[i] = 1 \/ (i > 1 /\ r[i] <= r[i - 1] + 1)}

Offsets ==
    {o \in [0 .. MaxPiece -> 0 .. MaxLength] :
        o[0] = 0 /\ \A i, j \in 0 .. MaxPiece : i <= j => o[i] <= o[j]}

Nodes == {n \in [kind : Kinds, from : PieceNumbers, to : PieceNumbers] : n.from <= n.to}

Inside(m, n) == n.from <= m.from /\ m.to <= n.to

(* Each node is inside of an earlier one, or after it.  Bound: the first begins
   with the file, and one ends with it. *)
Trees ==
    {ns \in UNION {[1 .. k -> Nodes] : k \in 1 .. MaxNodes} :
        /\ ns[1].from = 1
        /\ \E i \in DOMAIN ns : ns[i].to = MaxPiece
        /\ \A i, j \in DOMAIN ns : j < i => Inside(ns[i], ns[j]) \/ ns[j].to < ns[i].from}

Ancestors(ns, i) == {j \in 1 .. i - 1 : Inside(ns[i], ns[j])}

(* Characters of some pieces. *)
Size(from, to) == offset[to] - offset[from - 1]

-----------------------------------------------------------------------------
(* collectChunks: the named kinds from the root down, and nothing below a node
   whose kind has splitKinds. *)
Collected ==
    {[node |-> i, first |-> rows[nodes[i].from], last |-> rows[nodes[i].to],
      from |-> nodes[i].from, to |-> nodes[i].to] :
        i \in {i \in DOMAIN nodes :
                  /\ nodes[i].kind # "other"
                  /\ \A j \in Ancestors(nodes, i) : nodes[j].kind # "whole"}}

(* Lines of a chunk's text, from 0, and the pieces they begin and end with. *)
LineOf(c, k) == rows[k] - rows[c.from]
LineBegins(c, k) == k = c.from \/ rows[k - 1] # rows[k]
LineEnds(c, k) == k = c.to \/ rows[k + 1] # rows[k]

Part(c, first, last, from, to) ==
    [node |-> c.node, first |-> first, last |-> last, from |-> from, to |-> to]

(* Segments of linesPerChunk lines, with a rest; one that is short is left out
   unless it is the last. *)
Segments(c) ==
    LET n == LineOf(c, c.to) + 1
    IN {s \in (c.from .. c.to) \X (c.from .. c.to) :
           /\ s[1] <= s[2]
           /\ LineBegins(c, s[1]) /\ LineOf(c, s[1]) % linesPerChunk = 0
           /\ LineEnds(c, s[2])
           /\ \/ LineOf(c, s[2]) = LineOf(c, s[1]) + linesPerChunk - 1
              \/ LineOf(c, s[2]) = n - 1 /\ LineOf(c, s[1]) + linesPerChunk > n
           /\ \/ Size(s[1], s[2]) >= minChunkSize
              \/ LineOf(c, s[1]) + linesPerChunk >= n}

(* Bug: the last line is taken for the one after it. *)
SplitOneOff(c) ==
    {Part(c, c.first + LineOf(c, s[1]), c.first + LineOf(c, s[2]) + 1, s[1], s[2]) : s \in Segments(c)}

splitByLines(c) ==
    IF LineOf(c, c.to) = 0 THEN {c}
    ELSE {Part(c, c.first + LineOf(c, s[1]), c.first + LineOf(c, s[2]), s[1], s[2]) :
             s \in Segments(c)}

(* The named children of the root of a second parse of a chunk's text: any that
   do not overlap. *)
Apart ==
    {ns \in SUBSET {n \in [from : PieceNumbers, to : PieceNumbers] : n.from <= n.to} :
        \A m, n \in ns : m # n => m.to < n.from \/ n.to < m.from}
Reparsed(c) == {children \in Apart : \A n \in children : Inside(n, c)}

(* splitLargeChunk: the configuration is looked up by the type of the chunk
   ("class") in a table by kinds of nodes ("class_declaration"), so there are
   never any splitKinds and each child becomes a part or is split by lines. *)
splitLargeChunk(c, children) ==
    LET part(n) == Part(c, c.first + LineOf(c, n.from), c.first + LineOf(c, n.to), n.from, n.to)
    IN IF children = {} THEN splitByLines(c)
       ELSE UNION {IF Size(n.from, n.to) <= maxChunkSize THEN {part(n)}
                   ELSE splitByLines(part(n)) : n \in children}

-----------------------------------------------------------------------------
FileArrives ==
    /\ nodes = <<>>
    /\ offset' \in Offsets
    /\ rows' \in RowSets
    /\ nodes' \in Trees
    /\ unsplit' = Collected'
    /\ UNCHANGED <<chunks, docs, uncovered>>

(* ChunkFile goes through the chunks in their order. *)
IsNext(c) == c \in unsplit /\ \A d \in unsplit : c.node <= d.node

KeepChunk(c) ==
    /\ IsNext(c)
    /\ Size(c.from, c.to) <= maxChunkSize
    /\ chunks' = chunks \cup {c}
    /\ unsplit' = unsplit \ {c}
    /\ UNCHANGED <<nodes, rows, offset, docs, uncovered>>

SplitChunk(c) ==
    /\ IsNext(c)
    /\ Size(c.from, c.to) > maxChunkSize
    /\ \E children \in Reparsed(c) :
          /\ chunks' = chunks \cup splitLargeChunk(c, children)
          /\ uncovered' = uncovered \cup
                {k \in c.from .. c.to :
                    children # {} /\ \A n \in children : k \notin n.from .. n.to}
    /\ unsplit' = unsplit \ {c}
    /\ UNCHANGED <<nodes, rows, offset, docs>>

SameLines(c, d) == c.first = d.first /\ c.last = d.last

(* AddChunks: the documents are added side by side, and FmtChunkID names one by
   its lines: of several for the same lines any one stays. *)
AddChunks ==
    /\ nodes # <<>> /\ unsplit = {} /\ chunks # {} /\ docs = {}
    /\ docs' \in {ds \in SUBSET chunks :
                     /\ \A c \in chunks : \E d \in ds : SameLines(c, d)
                     /\ \A c, d \in ds : SameLines(c, d) => c = d}
    /\ UNCHANGED <<nodes, rows, offset, unsplit, chunks, uncovered>>

ChunkerNext ==
    \/ FileArrives
    \/ \E c \in unsplit : KeepChunk(c) \/ SplitChunk(c)
    \/ AddChunks

ChunkerSpec == ChunkerInit /\ [][ChunkerNext]_chunkVars

-----------------------------------------------------------------------------
(* The lines that a document names are the lines its text begins and ends on,
   through both ways of splitting and the offset of the second parse, and the
   text is the declaration's own.  (chunker.go:283-446; the tools show the range
   and not the text.) *)
RangesTrue ==
    \A d \in docs :
        /\ d.first = rows[d.from] /\ d.last = rows[d.to]
        /\ Inside(d, nodes[d.node])

(* Text of a declaration that is long enough to make a segment of its own is in
   a document, unless the second parse had no node for it, or the document of
   the same lines has replaced it, as happens to two declarations on one line:
   then that document names its line.  (chunker.go:407-446, 486, store.go:64.) *)
LongTextFound ==
    docs # {} =>
        \A i \in DOMAIN nodes : \A k \in nodes[i].from .. nodes[i].to :
            nodes[i].kind # "other" /\ Size(k, k) >= minChunkSize /\ k \notin uncovered
                => \E d \in docs :
                      /\ rows[k] \in d.first .. d.last
                      /\ \/ k \in d.from .. d.to
                         \/ \E c \in chunks \ docs :
                               SameLines(c, d) /\ k \in c.from .. c.to

(* What is stored of a file is where it says it is, and all of it that is long
   enough is found there.  (chunker.go:283-446.) *)
DocsTrue == RangesTrue /\ LongTextFound
=============================================================================
