----------------------------- MODULE SketchGraph -----------------------------
(***************************************************************************)
(* The roof sketch as a graph, and the canvas that edits it: the shared    *)
(* engine of packages/roof-sketch-core (editorCommands, gestures, snapping,*)
(* topology) under the two canvases that call it, the Office one           *)
(* (frontend/src/components/roof-sketch) and the Field one (mobile).       *)
(*                                                                         *)
(* A document is                                                           *)
(*   mode    "connected" (facets are loops of edges) or "manual" (facets   *)
(*           are rings of vertices)                                        *)
(*   at      the vertices: a function from vertex id to point              *)
(*   edges   a sequence of [id, v1, v2, type, held]; `held` stands for     *)
(*           mapped, locked or confirmed (edgeIsProtected)                 *)
(*   facets  a sequence of [id, edges, verts]                              *)
(*   kept    the "keep current" decisions on unmapped edges, with the ends *)
(*           the edge had when its length was kept                         *)
(* Points are a small integer grid, and a tap lands on a grid point: the   *)
(* snap tolerance is the grid itself. Lengths, areas, labels, pitches and  *)
(* penetrations are left out: no operation below reads them.               *)
(***************************************************************************)
EXTENDS Integers, Sequences, FiniteSets, SequencesExt, FiniteSetsExt

CONSTANTS Width, Height,  \* the grid is (0..Width) \X (0..Height)
          Sketches,       \* the documents the canvas may open
          FirstId,        \* ids from here on are fresh
          MaxActs,        \* bound: edits and undos
          MaxRing,        \* bound: edges or corners picked for a facet
          Windows         \* the schedules left out unless named: "stale"

Null == 0
Points == (0..Width) \X (0..Height)
EdgeTypes == {"unclassified", "eave", "ridge"}

ASSUME GraphAssumption ==
    /\ Width \in Nat \ {0} /\ Height \in Nat \ {0} /\ MaxActs \in Nat /\ MaxRing \in Nat
    /\ FirstId \in Nat \ {0} /\ Windows \subseteq {"stale"}

VARIABLES
    client,   \* "office" or "field"
    doc,      \* the document on the canvas
    past,     \* undo stack
    future,   \* redo stack
    shown,    \* the mode the canvas works in (Field keeps its own copy)
    tool,     \* "select", "draw" or "facet"
    chain,    \* lastVertex: the vertex the next drawn point is joined to
    ring,     \* the facet under construction: edge ids, or vertex ids
    ids,      \* the next fresh id
    acts      \* edits made

vars == <<client, doc, past, future, shown, tool, chain, ring, ids, acts>>

(***************************************************************************)
(* Reading a document.                                                     *)
(***************************************************************************)
\* the k-th of the places in I, and the entries of a sequence at those places, in their order
Place(I, k) == CHOOSE i \in I : Cardinality({j \in I : j < i}) = k - 1
Only(s, I) == [k \in 1..Cardinality(I) |-> s[Place(I, k)]]

EdgeIds(d) == {d.edges[i].id : i \in DOMAIN d.edges}
EdgeOf(d, id) == d.edges[CHOOSE i \in DOMAIN d.edges : d.edges[i].id = id]
EdgeSet(d) == {d.edges[i] : i \in DOMAIN d.edges}
FacetSet(d) == {d.facets[i] : i \in DOMAIN d.facets}
Ends(e) == {e.v1, e.v2}
EdgesAt(d, v) == {e \in EdgeSet(d) : v \in Ends(e)}
Far(e, v) == IF e.v1 = v THEN e.v2 ELSE e.v1
Whole(d, e) == Ends(e) \subseteq DOMAIN d.at
Span(d, e) == {d.at[v] : v \in Ends(e) \cap DOMAIN d.at}

(***************************************************************************)
(* Geometry.                                                               *)
(***************************************************************************)
Turn(a, b, c) == (b[2] - a[2]) * (c[1] - b[1]) - (b[1] - a[1]) * (c[2] - b[2])
Side(n) == IF n = 0 THEN 0 ELSE IF n > 0 THEN 1 ELSE 2

\* geometry.js segmentsCross
Crosses(p, q, r, s) ==
    /\ {p, q} \cap {r, s} = {}
    /\ Side(Turn(p, q, r)) # Side(Turn(p, q, s))
    /\ Side(Turn(r, s, p)) # Side(Turn(r, s, q))

\* projectPointToSegment with an interior answer: the point is on the segment,
\* away from its ends
Inside(p, a, b) ==
    /\ Turn(a, b, p) = 0 /\ p # a /\ p # b
    /\ (p[1] - a[1]) * (p[1] - b[1]) <= 0
    /\ (p[2] - a[2]) * (p[2] - b[2]) <= 0

InsideEdge(d, p, e) == Whole(d, e) /\ Inside(p, d.at[e.v1], d.at[e.v2])

\* the entries after and before a place, round a cycle
Next1(s, i) == s[IF i = Len(s) THEN 1 ELSE i + 1]
Prev1(s, i) == s[IF i = 1 THEN Len(s) ELSE i - 1]

\* polygonSelfIntersects: two sides that are not neighbours cross
SelfIntersects(pts) ==
    /\ Len(pts) >= 4
    /\ \E i, j \in DOMAIN pts :
        /\ j > i + 1 /\ ~(i = 1 /\ j = Len(pts))
        /\ Crosses(pts[i], Next1(pts, i), pts[j], Next1(pts, j))

\* polygonSignedArea, doubled
Area2(pts) ==
    MapThenSumSet(LAMBDA i : pts[i][1] * Next1(pts, i)[2] - Next1(pts, i)[1] * pts[i][2],
                  DOMAIN pts)

\* polygonCycleKey: the same cycle of points, from any start in either direction
SameCycle(p, q) ==
    /\ Len(p) = Len(q)
    /\ \E s \in 0..(Len(p) - 1) :
        LET turned == [i \in DOMAIN p |-> p[((i - 1 + s) % Len(p)) + 1]]
        IN  turned = q \/ turned = Reverse(q)

(***************************************************************************)
(* topology.js: the one boundary resolver and the hard errors.             *)
(***************************************************************************)
\* edgeLoopVertices: the edges, in the order given, thread one simple cycle
Corners(es) == [i \in DOMAIN es |-> Ends(es[i]) \cap Ends(Next1(es, i))]
ClosedLoop(es) ==
    /\ Len(es) >= 3
    /\ \A i \in DOMAIN es : Cardinality(Corners(es)[i]) = 1
    /\ \A i, j \in DOMAIN es : i # j => Corners(es)[i] # Corners(es)[j]

Placed(d, vs) ==
    LET there == Only(vs, {i \in DOMAIN vs : vs[i] \in DOMAIN d.at})
    IN  [i \in DOMAIN there |-> d.at[there[i]]]

EdgeList(d, f) == [i \in DOMAIN f.edges |-> EdgeOf(d, f.edges[i])]

\* every edge has its vertices, every facet its edges, and a facet's edges are a closed loop
Resolves(d) ==
    /\ \A e \in EdgeSet(d) : Whole(d, e)
    /\ \A f \in FacetSet(d) : ToSet(f.edges) \subseteq EdgeIds(d)
    /\ \A f \in FacetSet(d) : f.edges # <<>> => ClosedLoop(EdgeList(d, f))

\* what a document is, with the ids of its edges given out before n and each of them once
Modes == {"connected", "manual"}
EdgeRecords == [id : Nat, v1 : Nat, v2 : Nat, type : EdgeTypes, held : BOOLEAN]
FacetRecords == [id : Nat, edges : Seq(Nat), verts : Seq(Nat)]
Decisions == [edge : Nat, ends : SUBSET Points]
IsDocument(d, n) ==
    /\ d \in [mode : Modes, at : {d.at}, edges : Seq(EdgeRecords), facets : Seq(FacetRecords),
              kept : SUBSET Decisions]
    /\ DOMAIN d.at \subseteq Nat /\ d.at \in [DOMAIN d.at -> Points]
    /\ \A i \in DOMAIN d.edges : d.edges[i].id < n
    /\ \A i, j \in DOMAIN d.edges : d.edges[i].id = d.edges[j].id => i = j

ASSUME SketchAssumption == \A d \in Sketches : IsDocument(d, FirstId) /\ Resolves(d)

\* resolveFacetBoundary
Boundary(d, f) ==
    IF d.mode = "manual" THEN Placed(d, f.verts)
    ELSE LET corners == Corners(EdgeList(d, f))
         IN  Placed(d, [i \in DOMAIN corners |-> CHOOSE v \in corners[i] : TRUE])

\* the error a facet has by itself: the first that applies, as validateSketch returns early
FacetError(d, f) ==
    IF d.mode = "connected" /\ f.edges = <<>> THEN "facet_missing_edges"
    ELSE IF d.mode = "connected" /\ ~(ToSet(f.edges) \subseteq EdgeIds(d)) THEN "broken_edge_reference"
    ELSE IF d.mode = "connected" /\ ~ClosedLoop(EdgeList(d, f)) THEN "open_facet_loop"
    ELSE LET pts == Boundary(d, f)
         IN  IF Len(pts) < 3 THEN "open_facet_loop"
             ELSE IF SelfIntersects(pts) THEN "self_intersection"
             ELSE IF Area2(pts) = 0 THEN "non_positive_area"
             ELSE "sound"

SharesEdge(f, g) == ToSet(f.edges) \cap ToSet(g.edges) # {}

\* facetComponents > 1: the facets fall into two parts with no shared edge between them
Disconnected(d) ==
    \E S \in SUBSET FacetSet(d) :
        /\ S # {} /\ S # FacetSet(d)
        /\ \A f \in S, g \in FacetSet(d) \ S : ~SharesEdge(f, g)

\* validateSketch: every hard error, as <<code, where>>
Errors(d) ==
    LET found == [i \in DOMAIN d.facets |-> FacetError(d, d.facets[i])]
        sound == {i \in DOMAIN d.facets : found[i] = "sound"}
    IN  {<<"dangling_edge", e.id>> : e \in {x \in EdgeSet(d) : ~Whole(d, x)}}
        \cup {<<"zero_length_edge", e.id>> :
                e \in {x \in EdgeSet(d) : Whole(d, x) /\ Cardinality(Span(d, x)) = 1}}
        \cup {<<"duplicate_edge", d.edges[i].id>> :
                i \in {j \in DOMAIN d.edges :
                        /\ d.mode = "connected" /\ Whole(d, d.edges[j])
                        /\ \E k \in 1..(j - 1) : Ends(d.edges[k]) = Ends(d.edges[j])}}
        \cup {<<found[i], d.facets[i].id>> : i \in DOMAIN d.facets \ sound}
        \cup {<<"duplicate_facet", d.facets[i].id>> :
                i \in {j \in sound : \E k \in sound : k < j /\
                        SameCycle(Boundary(d, d.facets[k]), Boundary(d, d.facets[j]))}}
        \cup {<<"disconnected_component", x>> :
                x \in {y \in {Null} : /\ d.mode = "connected" /\ Cardinality(sound) >= 2
                                      /\ sound = DOMAIN d.facets /\ Disconnected(d)}}

CountOf(errors, code) == Cardinality({x \in errors : x[1] = code})

\* validateMutation: no code occurs more often than before
Accepted(before, after) ==
    LET a == Errors(after)
        b == Errors(before)
    IN  a = {} \/ \A x \in a : CountOf(a, x[1]) <= CountOf(b, x[1])

(***************************************************************************)
(* editorCommands.js: the commands, each a function from document to       *)
(* document.                                                               *)
(***************************************************************************)
DropKept(d, es) == {k \in d.kept : k.edge \notin es}

AddVertex(d, v, p) == [d EXCEPT !.at = [x \in DOMAIN d.at \cup {v} |-> IF x = v THEN p ELSE d.at[x]]]

Joined(d, v, w) == v = w \/ \E e \in EdgeSet(d) : Ends(e) = {v, w}

\* addEdge: nothing when the two are the same vertex or already joined
AddEdge(d, v, w, id) ==
    IF Joined(d, v, w) THEN d
    ELSE [d EXCEPT !.edges = Append(@, [id |-> id, v1 |-> v, v2 |-> w,
                                        type |-> "unclassified", held |-> FALSE])]

IdsAt(d, v) == {e.id : e \in EdgesAt(d, v)}

\* moveVertexFinal: the decisions on the edges whose geometry changes are stale
MoveVertex(d, v, p) == [d EXCEPT !.at[v] = p, !.kept = DropKept(d, IdsAt(d, v))]

\* deleteEdge, for several edges: the facets bounded by one of them go with it
DeleteEdges(d, es) ==
    [d EXCEPT !.edges = Only(@, {i \in DOMAIN d.edges : d.edges[i].id \notin es}),
              !.facets = Only(@, {i \in DOMAIN d.facets : ToSet(d.facets[i].edges) \cap es = {}})]

\* mutant: the vertex goes and its edges stay
DeleteVertex_KeepEdges(d, v) ==
    [d EXCEPT !.at = [x \in DOMAIN d.at \ {v} |-> d.at[x]]]

DeleteVertex(d, v) ==
    [DeleteEdges(d, IdsAt(d, v)) EXCEPT !.at = [x \in DOMAIN d.at \ {v} |-> d.at[x]]]

DeleteFacet(d, id) == [d EXCEPT !.facets = Only(@, {i \in DOMAIN d.facets : d.facets[i].id # id})]

\* the place of an edge in a facet's loop
PlaceIn(f, id) == CHOOSE i \in DOMAIN f.edges : f.edges[i] = id

\* the halves enter the loop in the order in which it runs through the edge
LoopWithHalves(d, f, e, a, b) ==
    IF e.id \notin ToSet(f.edges) THEN f
    ELSE LET i == PlaceIn(f, e.id)
             before == Prev1(f.edges, i)
             forward == before \in EdgeIds(d) /\ e.v1 \in Ends(EdgeOf(d, before))
         IN  [f EXCEPT !.edges = SubSeq(@, 1, i - 1) \o (IF forward THEN <<a, b>> ELSE <<b, a>>)
                                 \o SubSeq(@, i + 1, Len(@)),
                       !.verts = <<>>]

\* the edge e replaced by two halves that meet at vertex v
Halved(d, e, v, a, b) ==
    [d EXCEPT !.edges = Only(@, {i \in DOMAIN d.edges : d.edges[i].id # e.id})
                \o << [e EXCEPT !.id = a, !.v2 = v], [e EXCEPT !.id = b, !.v1 = v] >>,
              !.facets = [i \in DOMAIN d.facets |-> LoopWithHalves(d, d.facets[i], e, a, b)]]

\* splitEdgeSafe at an interior point, as a document; CanSplit is its refusals
Split(d, e, p, n) ==
    AddVertex([Halved(d, e, n, n + 1, n + 2) EXCEPT !.kept = DropKept(d, {e.id})], n, p)

CanSplit(d, e, p, n) ==
    /\ d.mode = "connected" /\ ~e.held /\ InsideEdge(d, p, e)
    /\ Accepted(d, Split(d, e, p, n))

\* insertExistingVertexIntoEdge: the vertex is moved onto the edge and the edge halved around it
Insert(d, v, e, p, n) ==
    LET h == Halved(d, e, v, n + 1, n + 2)
    IN  [h EXCEPT !.at[v] = p, !.kept = DropKept(d, IdsAt(d, v) \cup {e.id})]

CanInsert(d, v, e, p, n) ==
    /\ d.mode = "connected" /\ ~e.held /\ v \notin Ends(e) /\ v \in DOMAIN d.at
    /\ InsideEdge(d, p, e)
    /\ ~Joined(d, e.v1, v) /\ ~Joined(d, v, e.v2)
    /\ Accepted(d, Insert(d, v, e, p, n))

\* a loop without an element that repeats its (cyclic) predecessor
Collapsed(s) == Only(s, {i \in DOMAIN s : s[i] # Prev1(s, i)})

\* mergeVertices: m is folded onto t
Rewired(e, m, t) == [e EXCEPT !.v1 = IF @ = m THEN t ELSE @, !.v2 = IF @ = m THEN t ELSE @]
SelfLoop(e) == e.v1 = e.v2

\* the edges that come to join the same two vertices as e
Group(d, e, m, t) ==
    LET ends == Ends(Rewired(e, m, t)) IN {x \in EdgeSet(d) : Ends(Rewired(x, m, t)) = ends}
Classes(es) == {e.type : e \in es} \ {"unclassified"}

\* the edge of a group that stays: the first in the document
FirstOf(d, es) == d.edges[Min({i \in DOMAIN d.edges : d.edges[i] \in es})]

\* mutant: the edge that stays keeps its own type, and the classification is lost with the other
TypeOfGroup_First(d, es) == FirstOf(d, es).type

TypeOfGroup(d, es) == IF Classes(es) = {} THEN "unclassified" ELSE CHOOSE c \in Classes(es) : TRUE

\* the edges folded onto themselves, and the edge that stays for an edge
Loops(d, m, t) == {e.id : e \in {x \in EdgeSet(d) : SelfLoop(Rewired(x, m, t))}}
Heir(d, id, m, t) == FirstOf(d, Group(d, EdgeOf(d, id), m, t)).id

Folded(d, e, m, t) == [Rewired(e, m, t) EXCEPT !.type = TypeOfGroup(d, Group(d, e, m, t))]
FoldedEdges(d, m, t) ==
    Only([i \in DOMAIN d.edges |-> Folded(d, d.edges[i], m, t)],
         {i \in DOMAIN d.edges : /\ d.edges[i].id \notin Loops(d, m, t)
                                 /\ d.edges[i].id = Heir(d, d.edges[i].id, m, t)})

\* remap: the loop of a facet over the edges that stay
FoldedLoop(d, f, m, t) ==
    LET stay == Only(f.edges, {i \in DOMAIN f.edges : f.edges[i] \in EdgeIds(d) \ Loops(d, m, t)})
    IN  Collapsed([i \in DOMAIN stay |-> Heir(d, stay[i], m, t)])
FoldedFacet(d, f, m, t) ==
    IF f.edges = <<>> THEN f ELSE [f EXCEPT !.edges = FoldedLoop(d, f, m, t), !.verts = <<>>]

Merge(d, m, t) ==
    LET edges == FoldedEdges(d, m, t)
        gone == EdgeIds(d) \ {edges[i].id : i \in DOMAIN edges}
    IN  [d EXCEPT !.at = [x \in DOMAIN d.at \ {m} |-> d.at[x]],
                  !.edges = edges,
                  !.facets = [i \in DOMAIN d.facets |-> FoldedFacet(d, d.facets[i], m, t)],
                  !.kept = DropKept(d, gone \cup IdsAt(d, m))]

CanMerge(d, m, t) ==
    /\ d.mode = "connected" /\ m # t /\ {m, t} \subseteq DOMAIN d.at
    /\ \A e \in EdgeSet(d) : LET g == Group(d, e, m, t) IN
        IF SelfLoop(Rewired(e, m, t)) THEN ~e.held
        ELSE Cardinality(g) > 1 => /\ ~(\E x \in g : x.held)
                                   /\ Cardinality(Classes(g)) <= 1
    /\ Accepted(d, Merge(d, m, t))

\* joinEdges: a and b meet at a vertex nothing else touches, and become one edge under a's id
Middle(a, b) == CHOOSE v \in Ends(a) \cap Ends(b) : TRUE

JoinedFacet(f, a, b) ==
    IF {a.id, b.id} \cap ToSet(f.edges) = {} THEN f
    ELSE [f EXCEPT !.edges = Collapsed([i \in DOMAIN @ |-> IF @[i] = b.id THEN a.id ELSE @[i]]),
                   !.verts = <<>>]

Join(d, a, b, type) ==
    LET mid == Middle(a, b)
        one == [id |-> a.id, v1 |-> Far(a, mid), v2 |-> Far(b, mid), type |-> type, held |-> FALSE]
    IN  [d EXCEPT !.at = [x \in DOMAIN d.at \ {mid} |-> d.at[x]],
                  !.edges = Append(Only(@, {i \in DOMAIN d.edges : d.edges[i].id \notin {a.id, b.id}}), one),
                  !.facets = [i \in DOMAIN d.facets |-> JoinedFacet(d.facets[i], a, b)],
                  !.kept = DropKept(d, {a.id, b.id})]

\* the types the joined edge may take: one of the two classifications, chosen when both have one
JoinTypes(a, b) ==
    IF a.type = b.type THEN {a.type}
    ELSE IF Cardinality(Classes({a, b})) = 1 THEN Classes({a, b})
    ELSE EdgeTypes

InSequence(f, a, b) ==
    \E i \in DOMAIN f.edges : {f.edges[i], Next1(f.edges, i)} = {a.id, b.id}

CanJoin(d, a, b, type) ==
    /\ d.mode = "connected" /\ a # b /\ ~a.held /\ ~b.held
    /\ Cardinality(Ends(a) \cap Ends(b)) = 1
    /\ Cardinality(EdgesAt(d, Middle(a, b))) = 2
    /\ ~(\E e \in EdgeSet(d) : Ends(e) = {Far(a, Middle(a, b)), Far(b, Middle(a, b))})
    /\ \A f \in FacetSet(d) :
        {a.id, b.id} \cap ToSet(f.edges) # {} => InSequence(f, a, b)
    /\ type \in JoinTypes(a, b)
    /\ Accepted(d, Join(d, a, b, type))

SetEdge(d, e, new) == [d EXCEPT !.edges = [i \in DOMAIN @ |-> IF @[i] = e THEN new ELSE @[i]]]

AddFacet(d, id, edges, verts) ==
    [d EXCEPT !.facets = Append(@, [id |-> id, edges |-> edges, verts |-> verts])]

(***************************************************************************)
(* The canvas.                                                             *)
(***************************************************************************)
Init ==
    /\ client \in {"office", "field"}
    /\ doc \in Sketches
    /\ past = <<>> /\ future = <<>>
    /\ shown = doc.mode /\ tool = "select"
    /\ chain = Null /\ ring = <<>>
    /\ ids = FirstId /\ acts = 0

Idle == UNCHANGED <<client, doc, past, future, shown, ids, acts>>
Building == chain # Null \/ ring # <<>>

\* one edit: hist.commit in Office, editor.commit in Field
Commit(d) ==
    /\ acts < MaxActs /\ acts' = acts + 1
    /\ past' = Append(past, doc) /\ future' = <<>>
    /\ doc' = d /\ ids' = ids + 4
    /\ UNCHANGED client

Edit(d) == Commit(d) /\ UNCHANGED <<shown, tool, chain, ring>>

\* the toolbar, and in Office the Escape key: what was being built is forgotten
PickTool(t) ==
    /\ t # tool
    /\ tool' = t /\ chain' = Null /\ ring' = <<>> /\ Idle

\* switchMode / changeMode
SwitchMode ==
    LET m == IF shown = "manual" THEN "connected" ELSE "manual" IN
    /\ Commit([doc EXCEPT !.mode = m])
    /\ shown' = m /\ chain' = Null /\ ring' = <<>>
    /\ UNCHANGED tool

\* what a point of the canvas snaps to: a vertex before an edge, the first edge before the others
VertexAt(d, p) == {v \in DOMAIN d.at : d.at[v] = p}
EdgesUnder(d, p) == {i \in DOMAIN d.edges : InsideEdge(d, p, d.edges[i])}
FirstUnder(d, is) == d.edges[Min(is)]

\* applyDrawPoint, and vertexDown for an existing vertex: the point joins the chain
DrawOnVertex(p) ==
    /\ tool = "draw" /\ shown = "connected"
    /\ \E v \in VertexAt(doc, p) :
        /\ chain # Null => Commit(AddEdge(doc, chain, v, ids))
        /\ chain = Null => UNCHANGED <<client, doc, past, future, ids, acts>>
        /\ chain' = v /\ chain # v
    /\ UNCHANGED <<shown, tool, ring>>

DrawOnEdge(p) ==
    /\ tool = "draw" /\ shown = "connected"
    /\ VertexAt(doc, p) = {} /\ EdgesUnder(doc, p) # {}
    /\ LET e == FirstUnder(doc, EdgesUnder(doc, p))
           halved == Split(doc, e, p, ids)
       IN  /\ CanSplit(doc, e, p, ids)
           /\ Commit(IF chain = Null THEN halved ELSE AddEdge(halved, chain, ids, ids + 3))
    /\ chain' = ids
    /\ UNCHANGED <<shown, tool, ring>>

DrawFree(p) ==
    /\ tool = "draw" /\ shown = "connected"
    /\ VertexAt(doc, p) = {} /\ EdgesUnder(doc, p) = {}
    /\ LET placed == AddVertex(doc, ids, p)
       IN  Commit(IF chain = Null THEN placed ELSE AddEdge(placed, chain, ids, ids + 1))
    /\ chain' = ids
    /\ UNCHANGED <<shown, tool, ring>>

\* drawing a polygon ring: an existing vertex, or a new one (edges are no snap target)
RingOnVertex(p) ==
    /\ tool = "draw" /\ shown = "manual"
    /\ Len(ring) < MaxRing
    /\ \E v \in VertexAt(doc, p) \ ToSet(ring) : ring' = Append(ring, v)
    /\ UNCHANGED <<tool, chain>> /\ Idle

RingOnFree(p) ==
    /\ tool = "draw" /\ shown = "manual" /\ VertexAt(doc, p) = {}
    /\ Commit(AddVertex(doc, ids, p))
    /\ ring' = Append(ring, ids)
    /\ UNCHANGED <<shown, tool, chain>>

\* the facet tool: edges tapped one after the other, here loops in order
PickLoop ==
    /\ tool = "facet" /\ shown = "connected" /\ ring = <<>>
    /\ \E n \in 3..MaxRing : \E f \in [1..n -> DOMAIN doc.edges] :
        /\ \A i \in 2..n : f[i] > f[1]
        /\ IsInjective(f) /\ f[2] < f[n]
        /\ ClosedLoop([i \in 1..n |-> doc.edges[f[i]]])
        /\ ring' = [i \in 1..n |-> doc.edges[f[i]].id]
    /\ UNCHANGED <<tool, chain>> /\ Idle

\* commitFacet (Office, ungated) / createFacetFromSelection, createManualPolygon (Field, gated)
CommitFacet ==
    /\ Len(ring) >= 3
    /\ LET d == IF shown = "manual" THEN AddFacet(doc, ids, <<>>, ring)
                ELSE AddFacet(doc, ids, ring, <<>>)
       IN  /\ client = "field" => Accepted(doc, d)
           /\ Commit(d)
    /\ ring' = <<>> /\ chain' = Null
    /\ UNCHANGED <<shown, tool>>

\* applyVertexDrop: a vertex dragged onto another one, onto an edge, or to a free place
DropOnVertex(v, p) ==
    /\ tool = "select"
    /\ \E t \in VertexAt(doc, p) \ {v} : CanMerge(doc, v, t) /\ Edit(Merge(doc, v, t))

Targets(v, p) == {i \in EdgesUnder(doc, p) : v \notin Ends(doc.edges[i])}

DropOnEdge(v, p) ==
    /\ tool = "select" /\ VertexAt(doc, p) = {} /\ Targets(v, p) # {}
    /\ LET e == FirstUnder(doc, Targets(v, p))
       IN  CanInsert(doc, v, e, p, ids) /\ Edit(Insert(doc, v, e, p, ids))

DropFree(v, p) ==
    /\ tool = "select" /\ VertexAt(doc, p) = {} /\ Targets(v, p) = {}
    /\ Edit(MoveVertex(doc, v, p))

\* edgeDouble (Office)
DoubleClick(e, p) ==
    /\ client = "office" /\ tool = "select" /\ shown = "connected"
    /\ CanSplit(doc, e, p, ids) /\ Edit(Split(doc, e, p, ids))

\* the inspector
JoinWith(a, b, type) ==
    /\ tool = "select" /\ CanJoin(doc, a, b, type) /\ Edit(Join(doc, a, b, type))

Classify(e, type) ==
    /\ tool = "select" /\ type # e.type /\ Edit(SetEdge(doc, e, [e EXCEPT !.type = type]))

\* lock and unlock, confirm or clear a length, map and unmap
Hold(e) ==
    /\ tool = "select" /\ Edit(SetEdge(doc, e, [e EXCEPT !.held = ~@]))

\* keepCurrent on an unmapped edge (a mapped edge's decision is filed under the measurement's id)
Keep(e) ==
    /\ tool = "select" /\ ~e.held /\ Whole(doc, e)
    /\ Edit([doc EXCEPT !.kept = DropKept(doc, {e.id}) \cup {[edge |-> e.id, ends |-> Span(doc, e)]}])

\* deleteSelected and the inspector's buttons. In Office the Delete key works under every tool
Deletable == tool = "select" \/ (client = "office" /\ "stale" \in Windows)

Delete(d) == Deletable /\ Edit(d)

\* undo and redo work under every tool: the chain and the ring survive them, unless the canvas
\* sees its mode change (Office, where the mode shown is the document's)
Restore(d) ==
    /\ "stale" \notin Windows => ~Building
    /\ doc' = d
    /\ shown' = IF client = "office" THEN d.mode ELSE shown
    /\ chain' = IF shown' # shown THEN Null ELSE chain
    /\ ring' = IF shown' # shown THEN <<>> ELSE ring
    /\ UNCHANGED <<client, tool, ids>>

Undo ==
    /\ past # <<>>
    /\ acts < MaxActs /\ acts' = acts + 1
    /\ Restore(Last(past))
    /\ past' = Front(past) /\ future' = <<doc>> \o future

Redo ==
    /\ future # <<>>
    /\ Restore(Head(future))
    /\ UNCHANGED acts
    /\ past' = Append(past, doc) /\ future' = Tail(future)

Next ==
    \/ \E t \in {"select", "draw", "facet"} : PickTool(t)
    \/ SwitchMode \/ PickLoop \/ CommitFacet \/ Undo \/ Redo
    \/ \E p \in Points :
        \/ DrawOnVertex(p) \/ DrawOnEdge(p) \/ DrawFree(p) \/ RingOnVertex(p) \/ RingOnFree(p)
        \/ \E v \in DOMAIN doc.at : DropOnVertex(v, p) \/ DropOnEdge(v, p) \/ DropFree(v, p)
        \/ \E e \in EdgeSet(doc) : DoubleClick(e, p)
    \/ \E e \in EdgeSet(doc) :
        \/ Hold(e) \/ Keep(e) \/ Delete(DeleteEdges(doc, {e.id}))
        \/ \E type \in EdgeTypes : Classify(e, type) \/ \E b \in EdgeSet(doc) : JoinWith(e, b, type)
    \/ \E v \in DOMAIN doc.at : Delete(DeleteVertex(doc, v))
    \/ \E f \in FacetSet(doc) : Delete(DeleteFacet(doc, f.id))

Spec == Init /\ [][Next]_vars

(***************************************************************************)
(* Properties.                                                             *)
(***************************************************************************)
\* Whatever the user draws, drags, joins, deletes or undoes, no edge is left without its vertices,
\* no connected facet without its edges, and the edges of a facet still thread one loop:
\* validateSketch never reports dangling_edge, broken_edge_reference or open_facet_loop of a
\* connected facet (editorCommands.js: every command that removes something repairs what refers
\* to it, and what would open a loop is refused).
ReferencesResolve == Resolves(doc)

\* Folding one vertex onto another never removes or changes a mapped, locked or confirmed edge,
\* never loses a classification, and leaves no facet of a sound sketch with a different outline
\* than the one the fold gives its corners (mergeVertices).
Outline(d, f) == UNION {Corners(EdgeList(d, f))[i] : i \in DOMAIN f.edges}
MeaningSurvives ==
    tool = "select" => \A m, t \in DOMAIN doc.at : CanMerge(doc, m, t) =>
        LET after == Merge(doc, m, t) IN
        /\ \A e \in EdgeSet(doc) : e.held => Rewired(e, m, t) \in EdgeSet(after)
        /\ \A e \in EdgeSet(doc) : e.type # "unclassified" /\ ~SelfLoop(Rewired(e, m, t)) =>
            \E x \in EdgeSet(after) : Ends(x) = Ends(Rewired(e, m, t)) /\ x.type = e.type
        /\ Errors(doc) = {} => \A i \in DOMAIN doc.facets :
            doc.mode = "connected" =>
            Outline(after, after.facets[i]) =
                {IF v = m THEN t ELSE v : v \in Outline(doc, doc.facets[i])}
=============================================================================
