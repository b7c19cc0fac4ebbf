---------------------------- MODULE LineGeometry ----------------------------
(***************************************************************************)
(* How an oeSENC chart turns the line segments of its features into one    *)
(* buffer of points (eSENCChart.cpp).  The file gives a table of edges, a  *)
(* table of connected nodes, and, for each feature, a list of segments     *)
(* (first node, edge and direction, last node).  BuildRAZFromSENCFile      *)
(* hashes the tables and files the features by display priority;           *)
(* AssembleLineGeometry counts the points, walks the features, making the  *)
(* connectors node-edge, edge-node and node-node once for all that share   *)
(* them, allocates the buffer and copies edges and connectors into it.     *)
(*                                                                         *)
(* A point is <<"node", n>> or <<"edge", e, k>>; offsets count points, not *)
(* bytes.  Bounding boxes and coordinates are left out.                    *)
(***************************************************************************)
EXTENDS Integers, Sequences, SequencesExt, FiniteSetsExt

CONSTANTS
  Features,     \* the features that have line segments
  FileOrder,    \* the order of the features in the file
  Lup,          \* feature -> [type, disc, dpri], its look-up table entries
  LastLevel,    \* the highest display priority, 9 in the code
  Nodes, Edges, \* the indices the file may hold, from 1
  EdgeSize,     \* edge -> its number of points, if it has any
  Topologies,   \* the maps edge -> <<from, to>> of the charts considered
  Paths         \* [Features -> sets of sequences of <<edge, forward>>]

Null == -1                     \* a null pointer in m_ve_hash
NoIndex == 0                   \* the index of a node or edge that is not there
Levels == 0..LastLevel
Styles == {"plain", "symbolized"}
Lists == {2, 3, 4}             \* LINES, plain and symbolized boundaries

ASSUME LineGeometryAssumption ==
  /\ LastLevel \in Nat
  /\ FileOrder \in Seq(Features) /\ ToSet(FileOrder) = Features
  /\ \A i, j \in DOMAIN FileOrder : FileOrder[i] = FileOrder[j] => i = j
  /\ \A f \in Features, s \in Styles : Lup[f].dpri[s] \in Levels
  /\ IsFiniteSet(Edges) /\ \A e \in Edges : EdgeSize[e] \in Nat \ {0}
  /\ \A f \in Features : Paths[f] \subseteq Seq(Edges \X BOOLEAN)
  /\ NoIndex \notin Nodes \cup Edges

VARIABLES
  version,    \* m_sencReadVersion, 200 or 201
  tables,     \* the nodes, and the edges with points, the file holds
  ends,       \* where the edges of this chart begin and end
  path,       \* the segments each feature has on the chart
  style,      \* ps52plib->m_nBoundaryStyle
  razRules,   \* [Levels \X Lists -> Seq(Features)]
  ve_hash,    \* m_ve_hash: index -> number of points, or Null; m_pve_vector
              \* when it has been cleared
  vc_hash,    \* m_vc_hash: index -> is there a node
  lsindex,    \* feature -> m_lsindex_array, the segments still to walk
  todo,       \* the features the object walk has still to visit
  ls_list,    \* feature -> m_ls_list
  pairs,      \* connector_segment_vector
  nPoints,    \* the points counted so far, with ndelta
  vbo_offset, \* edge or connector -> offset; of a pair until it is copied
  buffer,     \* m_line_vertex_buffer, as far as it has been written
  allocated,  \* the points m_line_vertex_buffer has room for
  pc

\* A map with the entries of another set in it (the prover has no @@).
With(m, new) ==
  [x \in DOMAIN new \cup DOMAIN m |-> IF x \in DOMAIN new THEN new[x] ELSE m[x]]

input == <<version, tables, ends, path>>
gvars == <<version, tables, ends, path, style, razRules, ve_hash, vc_hash, lsindex,
           todo, ls_list, pairs, nPoints, vbo_offset, buffer, allocated, pc>>

-----------------------------------------------------------------------------
\* The list a look-up table entry belongs to, and its priority.
ListOf(f, s) == IF Lup[f].type = "line" THEN 2 ELSE IF s = "plain" THEN 3 ELSE 4
\* Mutant: priorities counted from 1.
LevelFromOne(f, s) == Lup[f].dpri[s] - 1

LevelOf(f, s) == Lup[f].dpri[s]

\* _insertRules: append to the list of the entry's priority and type.
InsertRules(raz, f, s) ==
  [raz EXCEPT ![<<LevelOf(f, s), ListOf(f, s)>>] = Append(@, f)]

\* The object loop of BuildRAZFromSENCFile.
FileFeatures(s) ==
  FoldLeft(LAMBDA raz, f : InsertRules(raz, f, s),
           [c \in Levels \X Lists |-> <<>>], FileOrder)

\* All the features of razRules, in the order of a walk over it.
WalkOrder(raz) ==
  LET cells == [i \in 1..(3 * (LastLevel + 1)) |-> <<(i - 1) \div 3, ((i - 1) % 3) + 2>>]
  IN  FlattenSeq([i \in DOMAIN cells |-> raz[cells[i]]])

\* A feature's segment table, as the file has it.
SegmentOf(step) ==
  LET e == step[1]
      fwd == step[2]
  IN  [inode |-> ends[e][IF fwd THEN 1 ELSE 2], edge |-> e, forward |-> fwd,
       enode |-> ends[e][IF fwd THEN 2 ELSE 1]]

GInit ==
  /\ version \in {200, 201}
  /\ ends \in Topologies
  /\ path \in {p \in [Features -> UNION {Paths[f] : f \in Features}] :
                 \A f \in Features : p[f] \in Paths[f]}
  /\ style \in Styles
  /\ razRules = FileFeatures(style)
  /\ tables \in [nodes : SUBSET Nodes, edges : SUBSET Edges]
  /\ \E empty \in SUBSET (Edges \ tables.edges) :
       ve_hash = [e \in tables.edges \cup empty |->
                    IF e \in empty THEN 0 ELSE EdgeSize[e]]
  /\ vc_hash = [n \in tables.nodes |-> TRUE]
  /\ lsindex = [f \in Features |-> [i \in DOMAIN path[f] |-> SegmentOf(path[f][i])]]
  /\ todo = WalkOrder(razRules)
  /\ ls_list = [f \in Features |-> <<>>]
  /\ pairs = <<>>
  /\ nPoints = 0
  /\ vbo_offset = <<>>
  /\ buffer = <<>>
  /\ allocated = 0
  /\ pc = "validate"

\* The index tables of a version 200 file: what the tables lack becomes 0.
ValidSegment(s) ==
  LET found == s.edge \in DOMAIN ve_hash IN
  [inode   |-> IF s.inode \in DOMAIN vc_hash THEN s.inode ELSE NoIndex,
   edge    |-> IF found THEN s.edge ELSE NoIndex,
   forward |-> IF found THEN s.forward ELSE TRUE,
   enode   |-> IF s.enode \in DOMAIN vc_hash THEN s.enode ELSE NoIndex]

ValidateHashmaps ==
  /\ pc = "validate"
  /\ lsindex' = IF version = 200
                THEN [f \in Features |->
                        [i \in DOMAIN lsindex[f] |-> ValidSegment(lsindex[f][i])]]
                ELSE lsindex
  /\ pc' = "count"
  /\ UNCHANGED <<input, style, razRules, ve_hash, vc_hash, todo, ls_list, pairs,
                 nPoints, vbo_offset, buffer, allocated>>

PointsOf(hash, e) == IF hash[e] = Null THEN 0 ELSE hash[e]

CountPoints ==
  /\ pc = "count"
  /\ nPoints' = MapThenSumSet(LAMBDA e : PointsOf(ve_hash, e), DOMAIN ve_hash)
  /\ pc' = "walk"
  /\ UNCHANGED <<input, style, razRules, ve_hash, vc_hash, lsindex, todo,
                 ls_list, pairs, vbo_offset, buffer, allocated>>

-----------------------------------------------------------------------------
(* The object walk: one segment at a time. *)

EdgeThere(s) == s.edge \in DOMAIN ve_hash /\ PointsOf(ve_hash, s.edge) > 0
NodeThere(n) == n \in DOMAIN vc_hash /\ vc_hash[n]

\* Mutant: the last point whatever the direction.
LastOfForward(s) == <<"edge", s.edge, ve_hash[s.edge]>>

FirstOf(s) == <<"edge", s.edge, IF s.forward THEN 1 ELSE ve_hash[s.edge]>>
LastOf(s)  == <<"edge", s.edge, IF s.forward THEN ve_hash[s.edge] ELSE 1>>

\* The keys of the three connector maps.
CE(s) == <<"CE", s.inode, s.edge>>
EC(s) == <<"EC", s.edge, s.enode>>
CC(s) == <<"CC", s.inode, s.enode>>

\* The list elements a segment adds, each with the pair of points its
\* connector would be made of.
Elements(s) ==
  LET in == NodeThere(s.inode)
      out == NodeThere(s.enode)
      edge == EdgeThere(s)
  IN  (IF in /\ edge
       THEN << [id |-> CE(s), pair |-> << <<"node", s.inode>>, FirstOf(s)>>] >>
       ELSE <<>>)
   \o (IF edge THEN << [id |-> <<"EE", s.edge>>, pair |-> <<>>] >> ELSE <<>>)
   \o (CASE in /\ out /\ edge ->
              << [id |-> EC(s), pair |-> <<LastOf(s), <<"node", s.enode>> >>] >>
         [] in /\ out /\ ~edge ->
              << [id |-> CC(s),
                  pair |-> << <<"node", s.inode>>, <<"node", s.enode>> >>] >>
         [] OTHER -> <<>>)

\* operator[] of the hash maps adds a null for an index it does not have.
Touched(hash, indices, nothing) ==
  [i \in DOMAIN hash \cup indices |-> IF i \in DOMAIN hash THEN hash[i] ELSE nothing]

\* The connector of an element, if it has one, is made for the first that
\* needs it.
Connect(made, x) ==
  IF x.pair = <<>> \/ x.id \in DOMAIN made.offset THEN made
  ELSE [offset |-> With(made.offset, [id \in {x.id} |-> Len(made.pairs)]),
        pairs  |-> Append(made.pairs, x.pair)]

\* Mutant: a connector between two nodes is not counted.
NewPointsNoCC(made) ==
  2 * Cardinality({id \in DOMAIN made.offset \ DOMAIN vbo_offset : id[1] # "CC"})

\* ndelta: what the new connectors of a segment add to the count.
NewPoints(made) == 2 * (Len(made.pairs) - Len(pairs))

WalkSegment ==
  /\ pc = "walk" /\ todo # <<>>
  /\ LET f == Head(todo) IN
     /\ lsindex[f] # <<>>
     /\ LET s == Head(lsindex[f])
            added == Elements(s)
            made == FoldLeft(Connect, [offset |-> vbo_offset, pairs |-> pairs], added)
        IN  /\ ls_list' = [ls_list EXCEPT ![f] =
                             @ \o [i \in DOMAIN added |-> added[i].id]]
            /\ vbo_offset' = made.offset
            /\ pairs' = made.pairs
            /\ nPoints' = nPoints + NewPoints(made)
            /\ ve_hash' = Touched(ve_hash, {s.edge}, Null)
            /\ vc_hash' = Touched(vc_hash, {s.inode, s.enode}, FALSE)
            /\ lsindex' = [lsindex EXCEPT ![f] = Tail(@)]
  /\ UNCHANGED <<input, style, razRules, todo, buffer, allocated, pc>>

\* The list is the object's, its index array is freed.
FinishObject ==
  /\ pc = "walk" /\ todo # <<>> /\ lsindex[Head(todo)] = <<>>
  /\ todo' = Tail(todo)
  /\ UNCHANGED <<input, style, razRules, ve_hash, vc_hash, lsindex, ls_list,
                 pairs, nPoints, vbo_offset, buffer, allocated, pc>>

-----------------------------------------------------------------------------
(* The buffer. *)

Allocate ==
  /\ pc = "walk" /\ todo = <<>>
  /\ allocated' = nPoints
  /\ pc' = "edges"
  /\ UNCHANGED <<input, style, razRules, ve_hash, vc_hash, lsindex, todo,
                 ls_list, pairs, nPoints, vbo_offset, buffer>>

EdgePoints(e, n) == [k \in 1..n |-> <<"edge", e, k>>]
EdgesToCopy == {e \in DOMAIN ve_hash : ve_hash[e] # Null
                                       /\ <<"EE", e>> \notin DOMAIN vbo_offset}

\* The edges, in the order of an unordered map.
CopyEdge(e) ==
  /\ pc = "edges" /\ e \in EdgesToCopy
  /\ vbo_offset' = With(vbo_offset, [id \in {<<"EE", e>>} |-> Len(buffer)])
  /\ buffer' = buffer \o EdgePoints(e, ve_hash[e])
  /\ UNCHANGED <<input, style, razRules, ve_hash, vc_hash, lsindex, todo,
                 ls_list, pairs, nPoints, allocated, pc>>

\* The connectors of the three maps, each in an order of its own.
ConnectorsOf(kind) == {c \in DOMAIN vbo_offset : c[1] = kind}
ConnectorOrder ==
  SetToSeq(ConnectorsOf("CE")) \o SetToSeq(ConnectorsOf("EC")) \o SetToSeq(ConnectorsOf("CC"))

CopyConnectors ==
  /\ pc = "edges" /\ EdgesToCopy = {}
  /\ LET order == ConnectorOrder
         place(c) == CHOOSE i \in DOMAIN order : order[i] = c
     IN  /\ buffer' = buffer \o FlattenSeq([i \in DOMAIN order |->
                                              pairs[vbo_offset[order[i]] + 1]])
         /\ vbo_offset' = [c \in DOMAIN vbo_offset |->
                             IF c[1] = "EE" THEN vbo_offset[c]
                             ELSE Len(buffer) + 2 * (place(c) - 1)]
  /\ pairs' = <<>>
  /\ pc' = "release"
  /\ UNCHANGED <<input, style, razRules, ve_hash, vc_hash, lsindex, todo,
                 ls_list, nPoints, allocated>>

\* The hash maps are cleared; the edges themselves are kept for the lists.
ReleaseHashes ==
  /\ pc = "release"
  /\ ve_hash' = [e \in {i \in DOMAIN ve_hash : ve_hash[i] # Null} |-> ve_hash[e]]
  /\ vc_hash' = <<>>
  /\ pc' = "built"
  /\ UNCHANGED <<input, style, razRules, lsindex, todo, ls_list, pairs, nPoints,
                 vbo_offset, buffer, allocated>>

GNext ==
  \/ ValidateHashmaps
  \/ CountPoints
  \/ WalkSegment
  \/ FinishObject
  \/ Allocate
  \/ \E e \in Edges : CopyEdge(e)
  \/ CopyConnectors
  \/ ReleaseHashes

-----------------------------------------------------------------------------
(* What those who draw a feature read. *)

SizeOf(id) == IF id[1] = "EE" THEN ve_hash[id[2]] ELSE 2
InBuffer(id) == /\ id \in DOMAIN vbo_offset
                /\ id[1] = "EE" => id[2] \in DOMAIN ve_hash
                /\ vbo_offset[id] + SizeOf(id) <= Len(buffer)
Slice(id) == SubSeq(buffer, vbo_offset[id] + 1, vbo_offset[id] + SizeOf(id))

\* buildExtendedGeom: the elements of a feature joined into contours.  Each
\* is turned so that it goes on where the one before it ended, if it can be.
\* The first of a contour is turned to meet the one after it.
Turned(points, forward) == IF forward THEN points ELSE Reverse(points)

\* Mutant: only the first point of the next element is compared.
FirstForwardToHead(points, next) == Last(points) = Head(next)

FirstForward(points, next) == Last(points) \in {Head(next), Last(next)}

Join(acc, i, slices) ==
  LET points == slices[i]
      last == i = Len(slices)
      forward == IF acc.open = <<>> /\ ~last THEN FirstForward(points, slices[i + 1])
                 ELSE acc.forward
      open == acc.open \o Turned(points, forward)
      end == Last(open)
      goesOn == ~last /\ end \in {Head(slices[i + 1]), Last(slices[i + 1])}
  IN  [contours |-> IF goesOn THEN acc.contours ELSE Append(acc.contours, open),
       open     |-> IF goesOn THEN open ELSE <<>>,
       forward  |-> IF goesOn THEN end = Head(slices[i + 1]) ELSE forward]

ExtendedGeom(slices) ==
  FoldLeft(LAMBDA acc, i : Join(acc, i, slices),
           [contours |-> <<>>, open |-> <<>>, forward |-> TRUE],
           [i \in DOMAIN slices |-> i]).contours

-----------------------------------------------------------------------------
(* Properties. *)

SlicesOf(f) == [i \in DOMAIN ls_list[f] |-> Slice(ls_list[f][i])]

\* The lines between neighbours in a sequence of points.
LinesOf(points) == {{points[i], points[i + 1]} : i \in 1..(Len(points) - 1)}

DrawnBy(f) == UNION {LinesOf(Slice(ls_list[f][i])) : i \in DOMAIN ls_list[f]}

\* The points a segment stands for, by the tables of the file: its first
\* node, its edge in the direction it is taken, its last node.
NodePoint(n) == IF n \in tables.nodes THEN << <<"node", n>> >> ELSE <<>>
Chain(s) ==
  NodePoint(s.inode)
  \o (IF s.edge \in tables.edges
      THEN Turned(EdgePoints(s.edge, EdgeSize[s.edge]), s.forward) ELSE <<>>)
  \o NodePoint(s.enode)

Described(f) == UNION {LinesOf(Chain(SegmentOf(path[f][i]))) : i \in DOMAIN path[f]}
NodesOf(f) == UNION {{SegmentOf(path[f][i]).inode, SegmentOf(path[f][i]).enode} :
                     i \in DOMAIN path[f]}

GeometryTypeOK ==
  /\ version \in {200, 201} /\ style \in Styles
  /\ razRules \in [Levels \X Lists -> Seq(Features)]
  /\ \A e \in DOMAIN ve_hash : ve_hash[e] \in Nat \cup {Null}
  /\ nPoints \in Nat /\ allocated \in Nat
  /\ pc \in {"validate", "count", "walk", "edges", "release", "built"}

(* The buffer of points is allocated from a count made before the walk,    *)
(* which adds entries to the maps that are copied after it, plus two       *)
(* points for each new connector.  Nothing is written past its end, and it *)
(* is full when everything has been copied: the rest of it would be drawn  *)
(* as it was left by malloc.                                               *)
BufferIsExact ==
  /\ pc \in {"edges", "release", "built"} => Len(buffer) <= allocated
  /\ pc \in {"release", "built"} => Len(buffer) = allocated

(* The list of a feature draws what the tables of the file describe: each  *)
(* line of a segment once its nodes and edge are there, whichever feature  *)
(* was the first to need a connector, and in whichever direction it took   *)
(* the edge; an entry the tables lack costs lines, but adds none.          *)
DrawsWhatIsDescribed ==
  pc = "built" =>
    \A f \in Features :
      /\ \A i \in DOMAIN ls_list[f] : InBuffer(ls_list[f][i])
      /\ DrawnBy(f) \subseteq Described(f)
      /\ NodesOf(f) \subseteq tables.nodes => DrawnBy(f) = Described(f)

(* The contours of an area are found again from the elements, by matching  *)
(* the points where they end.  Segments that follow one another make one   *)
(* contour, from the first node to the last, along lines of the feature.   *)
Follows(f) == \A i \in 1..(Len(path[f]) - 1) :
                SegmentOf(path[f][i]).enode = SegmentOf(path[f][i + 1]).inode
ChainIsOneContour ==
  pc = "built" =>
    \A f \in Features :
      path[f] # <<>> /\ Follows(f) /\ NodesOf(f) \subseteq tables.nodes =>
        LET contours == ExtendedGeom(SlicesOf(f))
            n == Len(path[f])
        IN  /\ Len(contours) = 1
            /\ Head(contours[1]) = <<"node", SegmentOf(path[f][1]).inode>>
            /\ Last(contours[1]) = <<"node", SegmentOf(path[f][n]).enode>>
            /\ {l \in LinesOf(contours[1]) : Cardinality(l) = 2}
               = {l \in Described(f) : Cardinality(l) = 2}
=============================================================================
