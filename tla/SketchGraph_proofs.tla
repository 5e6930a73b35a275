------------------------- MODULE SketchGraph_proofs -------------------------
(***************************************************************************)
(* The canvas keeps its references: whatever is drawn, dragged, joined,    *)
(* deleted or undone, every edge has its vertices, every facet its edges,  *)
(* and the edges of a facet thread one closed loop.                        *)
(*                                                                         *)
(* The commands fall into two kinds. Those that pass the gate              *)
(* (validateMutation) are treated together: a document that resolves has   *)
(* no error of the graph, the gate lets no kind of error in, and a         *)
(* document without an error of the graph resolves (GateKeepsReferences).  *)
(* The others repair what refers to what they remove, or remove nothing    *)
(* (EditKeepsReferences).                                                  *)
(*                                                                         *)
(* And a fold keeps what the sketch means: at the end, the edges and loops *)
(* a fold of one vertex onto another leaves, and with them the held edges, *)
(* the classifications and the outlines.                                   *)
(***************************************************************************)
EXTENDS SketchGraph, TLAPS, FiniteSetTheorems, WellFoundedInduction

-----------------------------------------------------------------------------
(* The entries of a sequence at some of its places. *)

Below(I, i) == {j \in I : j < i}

(* The places below a place of a finite set are finitely many, and fewer than all. *)
LEMMA BelowIsFewer ==
  ASSUME NEW I \in SUBSET Nat, IsFiniteSet(I), NEW i \in I
  PROVE  /\ IsFiniteSet(Below(I, i))
         /\ Cardinality(Below(I, i)) \in Nat
         /\ Cardinality(Below(I, i)) < Cardinality(I)
<1>1. Below(I, i) \in SUBSET I /\ i \notin Below(I, i)
  BY DEF Below
<1>2. Cardinality(I) \in Nat
  BY FS_CardinalityType
<1>3. /\ IsFiniteSet(Below(I, i)) /\ Cardinality(Below(I, i)) <= Cardinality(I)
      /\ Cardinality(I) = Cardinality(Below(I, i)) => I = Below(I, i)
  BY <1>1, FS_Subset
<1>4. Cardinality(Below(I, i)) \in Nat
  BY <1>3, FS_CardinalityType
<1> QED
  BY <1>1, <1>2, <1>3, <1>4

(* Two places have different numbers of places below them. *)
LEMMA BelowIsInjective ==
  ASSUME NEW I \in SUBSET Nat, IsFiniteSet(I), NEW i \in I, NEW k \in I,
         Cardinality(Below(I, i)) = Cardinality(Below(I, k))
  PROVE  i = k
<1>1. ASSUME NEW a \in I, NEW b \in I, a < b, Cardinality(Below(I, a)) = Cardinality(Below(I, b))
      PROVE FALSE
  <2>1. IsFiniteSet(Below(I, b))
    BY BelowIsFewer
  <2>0. a \in Nat /\ b \in Nat /\ \A j \in I : j \in Nat
    OBVIOUS
  <2>2a. a \in Below(I, b) /\ a \notin Below(I, a)
    BY <1>1, <2>0 DEF Below
  <2>2b. \A j \in Nat : j < a => j < b
    BY <1>1, <2>0
  <2>2. Below(I, a) \in SUBSET Below(I, b) /\ a \in Below(I, b) /\ a \notin Below(I, a)
    BY <2>0, <2>2a, <2>2b DEF Below
  <2>3. Below(I, b) = Below(I, a)
    BY <1>1, <2>1, <2>2, FS_Subset
  <2> QED
    BY <2>2, <2>3
<1> QED
  BY <1>1

(* Every number below the size of the set is the rank of one of its places. *)
LEMMA PlaceOfRank ==
  ASSUME NEW I \in SUBSET Nat, IsFiniteSet(I), NEW k \in 1..Cardinality(I)
  PROVE  Place(I, k) \in I /\ Cardinality(Below(I, Place(I, k))) = k - 1
<1> DEFINE n == Cardinality(I)
           T == 0..(n - 1)
           rank == [i \in I |-> Cardinality(Below(I, i))]
<1>1. n \in Nat
  BY FS_CardinalityType
<1>2. rank \in [I -> T]
  BY <1>1, BelowIsFewer
<1>3. rank \in Injection(I, T)
  BY <1>2, BelowIsInjective DEF Injection, IsInjective
<1>4. IsFiniteSet(T) /\ Cardinality(T) = n
  <2> HIDE DEF n
  <2>1. 0 \in Int /\ n - 1 \in Int
    BY <1>1
  <2>2. IsFiniteSet(0..(n - 1)) /\ Cardinality(0..(n - 1)) = IF 0 > n - 1 THEN 0 ELSE (n - 1) - 0 + 1
    BY <2>1, FS_Interval
  <2> QED
    BY <1>1, <2>2
<1>5. rank \in Surjection(I, T)
  BY <1>3, <1>4, FS_Injection
<1>6. k - 1 \in T
  BY <1>1
<1>7. PICK i \in I : rank[i] = k - 1
  BY <1>5, <1>6 DEF Surjection
<1>8. Cardinality({j \in I : j < i}) = k - 1
  BY <1>7 DEF Below
<1> QED
  BY <1>8 DEF Place, Below

(* What the entries at the places in I are: a sequence, of these entries, each place once. *)
LEMMA OnlyIs ==
  ASSUME NEW S, NEW s \in Seq(S), NEW I \in SUBSET (DOMAIN s)
  PROVE  /\ IsFiniteSet(I) /\ Cardinality(I) \in Nat
         /\ Only(s, I) \in Seq(S)
         /\ Len(Only(s, I)) = Cardinality(I) /\ DOMAIN Only(s, I) = 1..Cardinality(I)
         /\ \A k \in DOMAIN Only(s, I) : Place(I, k) \in I /\ Only(s, I)[k] = s[Place(I, k)]
         /\ \A k, l \in DOMAIN Only(s, I) : Place(I, k) = Place(I, l) => k = l
         /\ \A i \in I : \E k \in DOMAIN Only(s, I) : Place(I, k) = i
<1>1. I \in SUBSET Nat /\ IsFiniteSet(I)
  <2>1. DOMAIN s = 1..Len(s) /\ Len(s) \in Nat
    OBVIOUS
  <2>2. IsFiniteSet(1..Len(s))
    BY <2>1, FS_Interval
  <2> QED
    BY <2>1, <2>2, FS_Subset
<1>2. Cardinality(I) \in Nat
  BY <1>1, FS_CardinalityType
<1>3. \A k \in 1..Cardinality(I) : Place(I, k) \in I /\ Cardinality(Below(I, Place(I, k))) = k - 1
  BY <1>1, PlaceOfRank
<1>4. DOMAIN Only(s, I) = 1..Cardinality(I) /\ \A k \in 1..Cardinality(I) : Only(s, I)[k] = s[Place(I, k)]
  BY DEF Only
<1>5. Only(s, I) \in Seq(S) /\ Len(Only(s, I)) = Cardinality(I)
  <2>1. \A k \in 1..Cardinality(I) : s[Place(I, k)] \in S
    BY <1>3
  <2>2. [k \in 1..Cardinality(I) |-> s[Place(I, k)]] \in Seq(S)
    BY <1>2, <2>1
  <2>3. Only(s, I) \in Seq(S)
    BY <2>2 DEF Only
  <2> QED
    BY <1>2, <1>4, <2>3
<1>6. \A k, l \in 1..Cardinality(I) : Place(I, k) = Place(I, l) => k = l
  BY <1>2, <1>3
<1>7. ASSUME NEW i \in I PROVE \E k \in 1..Cardinality(I) : Place(I, k) = i
  <2> DEFINE k == Cardinality(Below(I, i)) + 1
  <2>1. k \in 1..Cardinality(I)
    BY <1>1, <1>2, BelowIsFewer
  <2>2. Cardinality(Below(I, Place(I, k))) = Cardinality(Below(I, i))
    BY <1>1, <1>3, <2>1, BelowIsFewer
  <2>3. Place(I, k) = i
    BY <1>1, <1>3, <2>1, <2>2, BelowIsInjective
  <2> QED
    BY <2>1, <2>3
<1> QED
  BY <1>1, <1>2, <1>3, <1>4, <1>5, <1>6, <1>7

(* All the places of a sequence give the whole length. *)
LEMMA OnlyAll ==
  ASSUME NEW S, NEW s \in Seq(S)
  PROVE  Len(Only(s, DOMAIN s)) = Len(s)
<1>1. DOMAIN s = 1..Len(s) /\ Len(s) \in Nat
  OBVIOUS
<1>2. Cardinality(1..Len(s)) = IF 1 > Len(s) THEN 0 ELSE Len(s) - 1 + 1
  BY <1>1, FS_Interval
<1>3. Cardinality(DOMAIN s) = Len(s)
  BY <1>1, <1>2
<1> QED
  BY <1>3, OnlyIs

(* A set of numbers that is not empty has a least one. *)
LEMMA LeastIs ==
  ASSUME NEW S \in SUBSET Nat, S # {}
  PROVE  Min(S) \in S /\ \A y \in S : Min(S) <= y
<1>1. PICK x \in S : \A y \in S : ~(<<y, x>> \in OpToRel(<, Nat))
  BY NatLessThanWellFounded, WFMin
<1>2. OpToRel(<, Nat) = {ss \in Nat \X Nat : ss[1] < ss[2]}
  BY Zenon DEF OpToRel
<1>3. \A y \in S : ~(<<y, x>> \in {ss \in Nat \X Nat : ss[1] < ss[2]})
  BY Zenon, <1>1, <1>2
<1>4. ASSUME NEW y \in S PROVE x <= y
  <2>1. x \in Nat /\ y \in Nat
    OBVIOUS
  <2>2. y < x => <<y, x>> \in {ss \in Nat \X Nat : ss[1] < ss[2]}
    BY <2>1
  <2>3. ~(y < x)
    BY Zenon, <1>3, <2>2
  <2> QED
    BY <2>1, <2>3
<1>5. \E z \in S : \A y \in S : z <= y
  BY <1>4
<1> QED
  BY <1>5 DEF Min

-----------------------------------------------------------------------------
(* Documents. *)

Good(d, n) == IsDocument(d, n) /\ Resolves(d)

(* What a document's parts are. *)
LEMMA PartsOf ==
  ASSUME NEW d, NEW n \in Nat, IsDocument(d, n)
  PROVE  /\ d = [mode |-> d.mode, at |-> d.at, edges |-> d.edges, facets |-> d.facets, kept |-> d.kept]
         /\ d.mode \in Modes /\ d.edges \in Seq(EdgeRecords) /\ d.facets \in Seq(FacetRecords)
         /\ d.kept \in SUBSET Decisions /\ DOMAIN d.at \subseteq Nat /\ d.at \in [DOMAIN d.at -> Points]
         /\ DOMAIN d.edges = 1..Len(d.edges) /\ Len(d.edges) \in Nat
         /\ DOMAIN d.facets = 1..Len(d.facets) /\ Len(d.facets) \in Nat
         /\ \A i \in DOMAIN d.edges : d.edges[i] \in EdgeRecords
         /\ \A i \in DOMAIN d.facets : d.facets[i] \in FacetRecords
         /\ \A i \in DOMAIN d.edges : d.edges[i].id < n
         /\ \A i, j \in DOMAIN d.edges : d.edges[i].id = d.edges[j].id => i = j
<1>1. d \in [mode : Modes, at : {d.at}, edges : Seq(EdgeRecords), facets : Seq(FacetRecords)
            , kept : SUBSET Decisions]
  BY DEF IsDocument
<1>2. d.edges \in Seq(EdgeRecords) /\ d.facets \in Seq(FacetRecords)
  BY <1>1
<1>3. /\ DOMAIN d.edges = 1..Len(d.edges) /\ Len(d.edges) \in Nat
      /\ DOMAIN d.facets = 1..Len(d.facets) /\ Len(d.facets) \in Nat
      /\ \A i \in DOMAIN d.edges : d.edges[i] \in EdgeRecords
      /\ \A i \in DOMAIN d.facets : d.facets[i] \in FacetRecords
  BY <1>2
<1> QED
  BY <1>1, <1>2, <1>3 DEF IsDocument

(* The parts make a document. *)
LEMMA PartsMake ==
  ASSUME NEW mode \in Modes, NEW at, NEW edges \in Seq(EdgeRecords), NEW facets \in Seq(FacetRecords),
         NEW kept \in SUBSET Decisions, NEW n \in Nat,
         DOMAIN at \subseteq Nat, at \in [DOMAIN at -> Points],
         \A i \in DOMAIN edges : edges[i].id < n,
         \A i, j \in DOMAIN edges : edges[i].id = edges[j].id => i = j
  PROVE  IsDocument([mode |-> mode, at |-> at, edges |-> edges, facets |-> facets, kept |-> kept], n)
BY DEF IsDocument

(* The edge of an id that a document has is the one edge with that id. *)
LEMMA EdgeOfIs ==
  ASSUME NEW d, NEW n \in Nat, IsDocument(d, n)
  PROVE  /\ \A id \in EdgeIds(d) : EdgeOf(d, id) \in EdgeSet(d) /\ EdgeOf(d, id).id = id
         /\ \A e \in EdgeSet(d) : e.id \in EdgeIds(d) /\ EdgeOf(d, e.id) = e
         /\ \A e \in EdgeSet(d) : e \in EdgeRecords /\ e.id < n
<1>1. /\ \A i, j \in DOMAIN d.edges : d.edges[i].id = d.edges[j].id => i = j
      /\ \A i \in DOMAIN d.edges : d.edges[i] \in EdgeRecords /\ d.edges[i].id < n
  BY PartsOf
<1>2. ASSUME NEW id \in EdgeIds(d) PROVE EdgeOf(d, id) \in EdgeSet(d) /\ EdgeOf(d, id).id = id
  <2>1. PICK i \in DOMAIN d.edges : d.edges[i].id = id
    BY DEF EdgeIds
  <2>2. \E j \in DOMAIN d.edges : EdgeOf(d, id) = d.edges[j] /\ d.edges[j].id = id
    BY <2>1 DEF EdgeOf
  <2> QED
    BY <2>2 DEF EdgeSet
<1>3. ASSUME NEW e \in EdgeSet(d) PROVE e.id \in EdgeIds(d) /\ EdgeOf(d, e.id) = e
  <2>1. PICK i \in DOMAIN d.edges : d.edges[i] = e
    BY DEF EdgeSet
  <2>2. e.id \in EdgeIds(d)
    BY <2>1 DEF EdgeIds
  <2>3. PICK j \in DOMAIN d.edges : EdgeOf(d, e.id) = d.edges[j]
    BY <1>2, <2>2 DEF EdgeSet
  <2>4. d.edges[j].id = d.edges[i].id
    BY <1>2, <2>1, <2>2, <2>3
  <2> QED
    BY <1>1, <2>1, <2>2, <2>3, <2>4
<1> QED
  BY <1>1, <1>2, <1>3 DEF EdgeSet

(* Only the ends of its edges decide whether a list of edges is a closed loop. *)
LEMMA SameEndsSameLoop ==
  ASSUME NEW es, NEW fs, NEW k \in Nat, DOMAIN es = 1..k, DOMAIN fs = 1..k, Len(es) = k, Len(fs) = k,
         \A i \in 1..k : Ends(es[i]) = Ends(fs[i])
  PROVE  Corners(es) = Corners(fs) /\ (ClosedLoop(es) <=> ClosedLoop(fs))
<1>1. ASSUME NEW i \in 1..k PROVE (i % k) + 1 \in 1..k
  OBVIOUS
<1>2. \A i \in 1..k : Ends(Next1(es, i)) = Ends(Next1(fs, i))
  BY <1>1 DEF Next1
<1>3. Corners(es) = [i \in 1..k |-> Ends(es[i]) \cap Ends(Next1(es, i))]
  BY DEF Corners
<1>4. Corners(fs) = [i \in 1..k |-> Ends(fs[i]) \cap Ends(Next1(fs, i))]
  BY DEF Corners
<1>5. Corners(es) = Corners(fs)
  BY <1>2, <1>3, <1>4
<1> QED
  BY <1>5 DEF ClosedLoop

(* A facet keeps its loop when each of its edges is still there with the same ends. *)
LEMMA FacetKeepsLoop ==
  ASSUME NEW d, NEW n \in Nat, Good(d, n), NEW h, NEW m \in Nat, IsDocument(h, m),
         NEW f \in FacetSet(d), NEW g \in FacetRecords, g.edges = f.edges,
         \A e \in EdgeSet(d) : e.id \in ToSet(f.edges) =>
             \E x \in EdgeSet(h) : x.id = e.id /\ Ends(x) = Ends(e)
  PROVE  /\ ToSet(g.edges) \subseteq EdgeIds(h)
         /\ g.edges # <<>> => ClosedLoop(EdgeList(h, g))
<1>1. f \in FacetRecords /\ f.edges \in Seq(Nat)
  BY PartsOf DEF FacetSet, Good, FacetRecords
<1>2. \A id \in ToSet(f.edges) : id \in EdgeIds(h) /\ Ends(EdgeOf(h, id)) = Ends(EdgeOf(d, id))
  <2> SUFFICES ASSUME NEW id \in ToSet(f.edges)
               PROVE  id \in EdgeIds(h) /\ Ends(EdgeOf(h, id)) = Ends(EdgeOf(d, id))
    OBVIOUS
  <2>1. id \in EdgeIds(d)
    BY DEF Good, Resolves
  <2>2. EdgeOf(d, id) \in EdgeSet(d) /\ EdgeOf(d, id).id = id
    BY <2>1, EdgeOfIs DEF Good
  <2>3. PICK x \in EdgeSet(h) : x.id = id /\ Ends(x) = Ends(EdgeOf(d, id))
    BY <2>2
  <2> QED
    BY <2>3, EdgeOfIs
<1>3. DOMAIN f.edges = 1..Len(f.edges) /\ Len(f.edges) \in Nat
     /\ \A i \in 1..Len(f.edges) : f.edges[i] \in ToSet(f.edges)
  BY <1>1 DEF ToSet
<1> DEFINE k == Len(f.edges)
<1>4. EdgeList(d, f) = [i \in 1..k |-> EdgeOf(d, f.edges[i])]
      /\ EdgeList(h, g) = [i \in 1..k |-> EdgeOf(h, f.edges[i])]
  BY <1>3 DEF EdgeList
<1>5. Len(EdgeList(d, f)) = k /\ Len(EdgeList(h, g)) = k
      /\ DOMAIN EdgeList(d, f) = 1..k /\ DOMAIN EdgeList(h, g) = 1..k
  BY <1>3, <1>4
<1>6. \A i \in 1..k : Ends(EdgeList(d, f)[i]) = Ends(EdgeList(h, g)[i])
  BY <1>2, <1>3, <1>4
<1>7. ClosedLoop(EdgeList(d, f)) <=> ClosedLoop(EdgeList(h, g))
  <2> HIDE DEF k
  <2>1. k \in Nat
    BY <1>3 DEF k
  <2> QED
    BY <1>5, <1>6, <2>1, SameEndsSameLoop
<1>8. f.edges # <<>> => ClosedLoop(EdgeList(d, f))
  BY DEF Good, Resolves
<1> QED
  BY <1>2, <1>7, <1>8

-----------------------------------------------------------------------------
(* The gate of the topology commands. *)

(* A set that a function on finitely many places covers is finite. *)
LEMMA CoveredIsFinite ==
  ASSUME NEW n \in Nat, NEW f, DOMAIN f = 1..n, NEW S, \A x \in S : \E i \in 1..n : x = f[i]
  PROVE  IsFiniteSet(S)
<1> DEFINE T == {f[i] : i \in 1..n}
           g == [i \in 1..n |-> f[i]]
<1>1. g \in Surjection(1..n, T)
  BY DEF Surjection
<1>2. IsFiniteSet(1..n)
  BY FS_Interval
<1>3. IsFiniteSet(T)
  BY <1>1, <1>2, FS_Surjection
<1>4. S \in SUBSET T
  OBVIOUS
<1> QED
  BY <1>3, <1>4, FS_Subset

(* validateSketch reports finitely many errors. *)
LEMMA ErrorsAreFinite ==
  ASSUME NEW d, NEW n \in Nat, IsDocument(d, n)
  PROVE  IsFiniteSet(Errors(d))
<1> DEFINE found == [i \in DOMAIN d.facets |-> FacetError(d, d.facets[i])]
           sound == {i \in DOMAIN d.facets : found[i] = "sound"}
           E1 == {<<"dangling_edge", e.id>> : e \in {x \in EdgeSet(d) : ~Whole(d, x)}}
           E2 == {<<"zero_length_edge", e.id>> :
                    e \in {x \in EdgeSet(d) : Whole(d, x) /\ Cardinality(Span(d, x)) = 1}}
           E3 == {<<"duplicate_edge", d.edges[i].id>> :
                    i \in {j \in DOMAIN d.edges :
                            /\ d.mode = "connected" /\ Whole(d, d.edges[j])
                            /\ \E k \in 1..(j - 1) : Ends(d.edges[k]) = Ends(d.edges[j])}}
           E4 == {<<found[i], d.facets[i].id>> : i \in DOMAIN d.facets \ sound}
           E5 == {<<"duplicate_facet", d.facets[i].id>> :
                    i \in {j \in sound : \E k \in sound : k < j /\
                            SameCycle(Boundary(d, d.facets[k]), Boundary(d, d.facets[j]))}}
           E6 == {<<"disconnected_component", x>> :
                    x \in {y \in {Null} : /\ d.mode = "connected" /\ Cardinality(sound) >= 2
                                          /\ sound = DOMAIN d.facets /\ Disconnected(d)}}
<1>1. Errors(d) = E1 \cup E2 \cup E3 \cup E4 \cup E5 \cup E6
  BY DEF Errors
<1>2. /\ DOMAIN d.edges = 1..Len(d.edges) /\ Len(d.edges) \in Nat
      /\ DOMAIN d.facets = 1..Len(d.facets) /\ Len(d.facets) \in Nat
  BY PartsOf
<1>3. IsFiniteSet(E1)
  <2> DEFINE f == [i \in 1..Len(d.edges) |-> <<"dangling_edge", d.edges[i].id>>]
  <2>1. \A x \in E1 : \E i \in 1..Len(d.edges) : x = f[i]
    BY <1>2 DEF EdgeSet
  <2>2. DOMAIN f = 1..Len(d.edges)
    OBVIOUS
  <2> HIDE DEF f, E1
  <2> QED
    BY <1>2, <2>1, <2>2, CoveredIsFinite
<1>4. IsFiniteSet(E2)
  <2> DEFINE f == [i \in 1..Len(d.edges) |-> <<"zero_length_edge", d.edges[i].id>>]
  <2>1. \A x \in E2 : \E i \in 1..Len(d.edges) : x = f[i]
    BY <1>2 DEF EdgeSet
  <2>2. DOMAIN f = 1..Len(d.edges)
    OBVIOUS
  <2> HIDE DEF f, E2
  <2> QED
    BY <1>2, <2>1, <2>2, CoveredIsFinite
<1>5. IsFiniteSet(E3)
  <2> DEFINE f == [i \in 1..Len(d.edges) |-> <<"duplicate_edge", d.edges[i].id>>]
  <2>1. \A x \in E3 : \E i \in 1..Len(d.edges) : x = f[i]
    BY <1>2
  <2>2. DOMAIN f = 1..Len(d.edges)
    OBVIOUS
  <2> HIDE DEF f, E3
  <2> QED
    BY <1>2, <2>1, <2>2, CoveredIsFinite
<1>6. IsFiniteSet(E4)
  <2> DEFINE f == [i \in 1..Len(d.facets) |-> <<found[i], d.facets[i].id>>]
  <2>1. \A x \in E4 : \E i \in 1..Len(d.facets) : x = f[i]
    <3> HIDE DEF found, sound
    <3> QED BY <1>2
  <2>2. DOMAIN f = 1..Len(d.facets)
    OBVIOUS
  <2> HIDE DEF f, E4
  <2> QED
    BY <1>2, <2>1, <2>2, CoveredIsFinite
<1>7. IsFiniteSet(E5)
  <2> DEFINE f == [i \in 1..Len(d.facets) |-> <<"duplicate_facet", d.facets[i].id>>]
  <2>0. sound \subseteq DOMAIN d.facets
    OBVIOUS
  <2>1. \A x \in E5 : \E i \in 1..Len(d.facets) : x = f[i]
    <3> HIDE DEF found, sound
    <3> QED BY <1>2, <2>0
  <2>2. DOMAIN f = 1..Len(d.facets)
    OBVIOUS
  <2> HIDE DEF f, E5
  <2> QED
    BY <1>2, <2>1, <2>2, CoveredIsFinite
<1>8. IsFiniteSet(E6)
  <2> DEFINE f == [i \in 1..1 |-> <<"disconnected_component", Null>>]
  <2>1. \A x \in E6 : \E i \in 1..1 : x = f[i]
    <3> HIDE DEF found, sound
    <3>1. \A x \in E6 : x = <<"disconnected_component", Null>>
      OBVIOUS
    <3> QED BY <3>1
  <2> QED
    BY <2>1, CoveredIsFinite
<1> HIDE DEF E1, E2, E3, E4, E5, E6
<1> QED
  BY <1>1, <1>3, <1>4, <1>5, <1>6, <1>7, <1>8, FS_Union

(* What the gate lets through has no error of a kind that was not there before. *)
LEMMA GateAddsNoKind ==
  ASSUME NEW b, NEW a, NEW n \in Nat, IsDocument(a, n), Accepted(b, a),
         NEW c, \A x \in Errors(b) : x[1] # c
  PROVE  \A x \in Errors(a) : x[1] # c
<1> SUFFICES ASSUME NEW x \in Errors(a), x[1] = c PROVE FALSE
  OBVIOUS
<1>1. CountOf(Errors(a), c) <= CountOf(Errors(b), c)
  BY DEF Accepted
<1>2. {y \in Errors(b) : y[1] = c} = {}
  OBVIOUS
<1>3. CountOf(Errors(b), c) = 0
  BY <1>2, FS_EmptySet DEF CountOf
<1> DEFINE S == {y \in Errors(a) : y[1] = c}
<1>4. IsFiniteSet(S) /\ S # {}
  <2>1. IsFiniteSet(Errors(a)) /\ S \in SUBSET Errors(a)
    BY ErrorsAreFinite
  <2> QED
    BY <2>1, FS_Subset
<1>5. Cardinality(S) \in Nat /\ Cardinality(S) # 0
  BY <1>4, FS_CardinalityType, FS_EmptySet
<1>6. CountOf(Errors(a), c) = Cardinality(S)
  BY DEF CountOf
<1> QED
  BY <1>1, <1>3, <1>5, <1>6

(* The boundary of a facet whose edges are a loop has all the corners of the loop. *)
LEMMA BoundaryHasCorners ==
  ASSUME NEW d, NEW n \in Nat, Good(d, n), d.mode = "connected", NEW f \in FacetSet(d), f.edges # <<>>
  PROVE  Len(Boundary(d, f)) \in Nat /\ Len(Boundary(d, f)) >= 3
<1> DEFINE k == Len(f.edges)
           es == EdgeList(d, f)
           vs == [i \in DOMAIN Corners(es) |-> CHOOSE v \in Corners(es)[i] : TRUE]
<1>1. f \in FacetRecords /\ f.edges \in Seq(Nat)
  BY PartsOf DEF FacetSet, Good, FacetRecords
<1>2. k \in Nat /\ DOMAIN f.edges = 1..k /\ \A i \in 1..k : f.edges[i] \in ToSet(f.edges)
  BY <1>1 DEF ToSet
<1>3. es = [i \in 1..k |-> EdgeOf(d, f.edges[i])]
  BY <1>2 DEF EdgeList
<1>4. DOMAIN es = 1..k /\ Len(es) = k
  BY <1>2, <1>3
<1>5. ClosedLoop(es)
  BY DEF Good, Resolves
<1>6. k >= 3 /\ DOMAIN Corners(es) = 1..k /\ \A i \in 1..k : Cardinality(Corners(es)[i]) = 1
  BY <1>4, <1>5 DEF ClosedLoop, Corners
<1>7. ASSUME NEW i \in 1..k PROVE Ends(es[i]) \subseteq DOMAIN d.at
  <2>1. f.edges[i] \in EdgeIds(d)
    BY <1>2 DEF Good, Resolves
  <2>2. es[i] \in EdgeSet(d)
    BY <1>3, <2>1, EdgeOfIs DEF Good
  <2> QED
    BY <2>2 DEF Good, Resolves, Whole
<1>8. ASSUME NEW i \in 1..k PROVE vs[i] \in DOMAIN d.at
  <2> HIDE DEF es, k
  <2>0. Cardinality(Corners(es)[i]) = 1
    BY <1>6
  <2>0a. Cardinality({}) = 0 /\ 0 # 1
    BY FS_EmptySet
  <2>1. Corners(es)[i] # {}
    BY Zenon, <2>0, <2>0a
  <2>2. vs[i] \in Corners(es)[i]
    BY <1>6, <2>1 DEF vs
  <2>3. Corners(es)[i] \subseteq Ends(es[i])
    BY <1>4 DEF Corners
  <2> QED
    BY <1>7, <2>2, <2>3
<1>9. DOMAIN vs = 1..k
  BY <1>6
<1>10. vs \in Seq(Nat) /\ Len(vs) = k
  <2>1. DOMAIN d.at \subseteq Nat
    BY PartsOf DEF Good
  <2>2. vs \in [1..k -> Nat]
    <3> HIDE DEF k, es
    <3>1. \A i \in 1..k : vs[i] \in Nat
      BY <1>8, <2>1
    <3> QED
      BY <1>6, <3>1
  <2> HIDE DEF vs, k
  <2> QED
    BY <1>2, <1>9, <2>2 DEF k
<1> HIDE DEF vs, k, es
<1>11. {i \in DOMAIN vs : vs[i] \in DOMAIN d.at} = DOMAIN vs
  BY <1>8, <1>9
<1>12. Len(Only(vs, DOMAIN vs)) = k
  BY <1>10, OnlyAll
<1>13. Only(vs, DOMAIN vs) \in Seq(Nat)
  BY <1>10, OnlyIs
<1>14. Len(Placed(d, vs)) = k
  <2>1. DOMAIN Only(vs, DOMAIN vs) = 1..k
    BY <1>12, <1>13
  <2>2. Placed(d, vs) = [i \in 1..k |-> d.at[Only(vs, DOMAIN vs)[i]]]
    BY <1>11, <2>1 DEF Placed
  <2> QED
    BY <1>2, <2>2 DEF k
<1>15. Boundary(d, f) = Placed(d, vs)
  BY DEF Boundary, vs, es
<1> QED
  BY <1>2, <1>6, <1>14, <1>15 DEF k

GraphCodes == {"dangling_edge", "broken_edge_reference", "open_facet_loop"}

(* Where an error comes from. *)
LEMMA ErrorsComeFrom ==
  ASSUME NEW d, NEW x \in Errors(d)
  PROVE  \/ x[1] = "dangling_edge" /\ \E e \in EdgeSet(d) : ~Whole(d, e)
         \/ x[1] \in {"zero_length_edge", "duplicate_edge", "duplicate_facet", "disconnected_component"}
         \/ \E f \in FacetSet(d) : x[1] = FacetError(d, f) /\ x[1] # "sound"
<1> DEFINE found == [i \in DOMAIN d.facets |-> FacetError(d, d.facets[i])]
           sound == {i \in DOMAIN d.facets : found[i] = "sound"}
           E1 == {<<"dangling_edge", e.id>> : e \in {y \in EdgeSet(d) : ~Whole(d, y)}}
           E2 == {<<"zero_length_edge", e.id>> :
                    e \in {y \in EdgeSet(d) : Whole(d, y) /\ Cardinality(Span(d, y)) = 1}}
           E3 == {<<"duplicate_edge", d.edges[i].id>> :
                    i \in {j \in DOMAIN d.edges :
                            /\ d.mode = "connected" /\ Whole(d, d.edges[j])
                            /\ \E k \in 1..(j - 1) : Ends(d.edges[k]) = Ends(d.edges[j])}}
           E4 == {<<found[i], d.facets[i].id>> : i \in DOMAIN d.facets \ sound}
           E5 == {<<"duplicate_facet", d.facets[i].id>> :
                    i \in {j \in sound : \E k \in sound : k < j /\
                            SameCycle(Boundary(d, d.facets[k]), Boundary(d, d.facets[j]))}}
           E6 == {<<"disconnected_component", y>> :
                    y \in {z \in {Null} : /\ d.mode = "connected" /\ Cardinality(sound) >= 2
                                          /\ sound = DOMAIN d.facets /\ Disconnected(d)}}
<1>1. Errors(d) = E1 \cup E2 \cup E3 \cup E4 \cup E5 \cup E6
  BY DEF Errors
<1>2. CASE x \in E1
  BY <1>2
<1>3. CASE x \in E2
  BY <1>3
<1>4. CASE x \in E3
  BY <1>4
<1>5. CASE x \in E4
  <2>1. PICK i \in DOMAIN d.facets \ sound : x = <<found[i], d.facets[i].id>>
    BY <1>5
  <2>2. found[i] = FacetError(d, d.facets[i]) /\ found[i] # "sound" /\ d.facets[i] \in FacetSet(d)
    BY <2>1 DEF FacetSet
  <2>3. x[1] = found[i]
    BY <2>1
  <2> QED
    BY <2>2, <2>3
<1>6. CASE x \in E5
  <2> HIDE DEF found, sound
  <2>1. x[1] = "duplicate_facet"
    BY <1>6
  <2> QED
    BY <2>1
<1>7. CASE x \in E6
  <2> HIDE DEF found, sound
  <2>1. x[1] = "disconnected_component"
    BY <1>7
  <2> QED
    BY <2>1
<1> HIDE DEF E1, E2, E3, E4, E5, E6
<1> QED
  BY <1>1, <1>2, <1>3, <1>4, <1>5, <1>6, <1>7

(* A connected document whose references resolve has none of the errors of broken references. *)
LEMMA ResolvedHasNoGraphError ==
  ASSUME NEW d, NEW n \in Nat, Good(d, n), d.mode = "connected"
  PROVE  \A x \in Errors(d) : x[1] \notin GraphCodes
<1> SUFFICES ASSUME NEW x \in Errors(d) PROVE x[1] \notin GraphCodes
  OBVIOUS
<1>1. CASE x[1] = "dangling_edge" /\ \E e \in EdgeSet(d) : ~Whole(d, e)
  BY <1>1 DEF Good, Resolves
<1>2. CASE x[1] \in {"zero_length_edge", "duplicate_edge", "duplicate_facet", "disconnected_component"}
  BY <1>2 DEF GraphCodes
<1>3. CASE \E f \in FacetSet(d) : x[1] = FacetError(d, f) /\ x[1] # "sound"
  <2>1. PICK f \in FacetSet(d) : x[1] = FacetError(d, f)
    BY <1>3
  <2>2. CASE f.edges = <<>>
    BY <2>1, <2>2 DEF FacetError, GraphCodes
  <2>3. CASE f.edges # <<>>
    <3>1. ToSet(f.edges) \subseteq EdgeIds(d) /\ ClosedLoop(EdgeList(d, f))
      BY <2>3 DEF Good, Resolves
    <3>2. ~(Len(Boundary(d, f)) < 3)
      BY <2>3, BoundaryHasCorners
    <3>3. FacetError(d, f) \in {"self_intersection", "non_positive_area", "sound"}
      BY <2>3, <3>1, <3>2 DEF FacetError
    <3> QED
      BY <2>1, <3>3 DEF GraphCodes
  <2> QED
    BY <2>2, <2>3
<1> QED
  BY <1>1, <1>2, <1>3, ErrorsComeFrom

(* And the other way round. *)
LEMMA NoGraphErrorResolves ==
  ASSUME NEW d, NEW n \in Nat, IsDocument(d, n), d.mode = "connected",
         \A x \in Errors(d) : x[1] \notin GraphCodes
  PROVE  Resolves(d)
<1>1. ASSUME NEW e \in EdgeSet(d) PROVE Whole(d, e)
  <2>1. ~Whole(d, e) => <<"dangling_edge", e.id>> \in Errors(d)
    BY DEF Errors
  <2>2. <<"dangling_edge", e.id>>[1] = "dangling_edge"
    OBVIOUS
  <2> QED
    BY <2>1, <2>2 DEF GraphCodes
<1>2. ASSUME NEW f \in FacetSet(d)
      PROVE  ToSet(f.edges) \subseteq EdgeIds(d) /\ (f.edges # <<>> => ClosedLoop(EdgeList(d, f)))
  <2>1. PICK i \in DOMAIN d.facets : f = d.facets[i]
    BY DEF FacetSet
  <2>2. FacetError(d, f) # "sound" => <<FacetError(d, f), f.id>> \in Errors(d)
    BY <2>1 DEF Errors
  <2>3. <<FacetError(d, f), f.id>>[1] = FacetError(d, f)
    OBVIOUS
  <2>4. FacetError(d, f) \notin {"broken_edge_reference", "open_facet_loop"}
    BY <2>2, <2>3 DEF GraphCodes
  <2>5. CASE f.edges = <<>>
    BY <2>5 DEF ToSet
  <2>6. CASE f.edges # <<>>
    BY <2>4, <2>6 DEF FacetError
  <2> QED
    BY <2>5, <2>6
<1> QED
  BY <1>1, <1>2 DEF Resolves

(* What passes the gate of a connected document resolves as that document did. *)
LEMMA GateKeepsReferences ==
  ASSUME NEW b, NEW n \in Nat, Good(b, n), b.mode = "connected",
         NEW a, NEW m \in Nat, IsDocument(a, m), a.mode = "connected", Accepted(b, a)
  PROVE  Good(a, m)
<1>1. \A c \in GraphCodes : \A x \in Errors(b) : x[1] # c
  BY ResolvedHasNoGraphError
<1>2. \A c \in GraphCodes : \A x \in Errors(a) : x[1] # c
  BY <1>1, GateAddsNoKind
<1>3. Resolves(a)
  BY <1>2, NoGraphErrorResolves
<1> QED
  BY <1>3 DEF Good

-----------------------------------------------------------------------------
(* The commands that pass no gate. *)

(* An edit that takes facets away, and no edge of a facet that stays, keeps the references. *)
LEMMA EditKeepsReferences ==
  ASSUME NEW d, NEW n \in Nat, Good(d, n), NEW h, NEW m \in Nat, IsDocument(h, m),
         \A e \in EdgeSet(h) : Whole(h, e),
         \A g \in FacetSet(h) : \E f \in FacetSet(d) :
             /\ g.edges = f.edges
             /\ \A e \in EdgeSet(d) : e.id \in ToSet(f.edges) =>
                    \E x \in EdgeSet(h) : x.id = e.id /\ Ends(x) = Ends(e)
  PROVE  Good(h, m)
<1>1. ASSUME NEW g \in FacetSet(h)
      PROVE  ToSet(g.edges) \subseteq EdgeIds(h) /\ (g.edges # <<>> => ClosedLoop(EdgeList(h, g)))
  <2>1. PICK f \in FacetSet(d) :
             /\ g.edges = f.edges
             /\ \A e \in EdgeSet(d) : e.id \in ToSet(f.edges) =>
                    \E x \in EdgeSet(h) : x.id = e.id /\ Ends(x) = Ends(e)
    OBVIOUS
  <2>2. g \in FacetRecords
    BY PartsOf DEF FacetSet
  <2> QED
    BY <2>1, <2>2, FacetKeepsLoop
<1> QED
  BY <1>1 DEF Good, Resolves

(* The same edges and facets on at least the same vertices. *)
LEMMA SameGraphGood ==
  ASSUME NEW d, NEW n \in Nat, Good(d, n), NEW h, NEW m \in Nat, IsDocument(h, m),
         h.edges = d.edges, h.facets = d.facets, DOMAIN d.at \subseteq DOMAIN h.at
  PROVE  Good(h, m)
<1>1. EdgeSet(h) = EdgeSet(d) /\ FacetSet(h) = FacetSet(d)
  BY DEF EdgeSet, FacetSet
<1>2. \A e \in EdgeSet(h) : Whole(h, e)
  BY <1>1 DEF Whole, Good, Resolves
<1> QED
  BY <1>1, <1>2, EditKeepsReferences

(* Ids that were not given out do not matter. *)
LEMMA LaterIdsGood ==
  ASSUME NEW d, NEW n \in Nat, Good(d, n), NEW m \in Nat, n <= m
  PROVE  Good(d, m)
<1>1. \A i \in DOMAIN d.edges : d.edges[i].id < m
  <2>1. \A i \in DOMAIN d.edges : d.edges[i].id < n /\ d.edges[i] \in EdgeRecords
    BY PartsOf DEF Good
  <2>2. \A i \in DOMAIN d.edges : d.edges[i].id \in Nat
    BY <2>1 DEF EdgeRecords
  <2> QED
    BY <2>1, <2>2
<1> QED
  BY <1>1 DEF Good, IsDocument

(* What replacing some parts of a document leaves. *)
LEMMA ReplacedAt ==
  ASSUME NEW d, NEW n \in Nat, IsDocument(d, n), NEW at
  PROVE  [d EXCEPT !.at = at]
         = [mode |-> d.mode, at |-> at, edges |-> d.edges, facets |-> d.facets, kept |-> d.kept]
<1>1. d = [mode |-> d.mode, at |-> d.at, edges |-> d.edges, facets |-> d.facets, kept |-> d.kept]
  BY PartsOf
<1>2. PICK a, b, c, e, f : d = [mode |-> a, at |-> b, edges |-> c, facets |-> e, kept |-> f]
  BY <1>1
<1>3. d.mode = a /\ d.at = b /\ d.edges = c /\ d.facets = e /\ d.kept = f
  BY <1>2
<1>4. [d EXCEPT !.at = at] = [mode |-> a, at |-> at, edges |-> c, facets |-> e, kept |-> f]
  BY <1>2
<1> QED
  BY <1>3, <1>4

(* The edges. *)
LEMMA ReplacedEdges ==
  ASSUME NEW d, NEW n \in Nat, IsDocument(d, n), NEW edges
  PROVE  [d EXCEPT !.edges = edges]
         = [mode |-> d.mode, at |-> d.at, edges |-> edges, facets |-> d.facets, kept |-> d.kept]
<1>1. d = [mode |-> d.mode, at |-> d.at, edges |-> d.edges, facets |-> d.facets, kept |-> d.kept]
  BY PartsOf
<1>2. PICK a, b, c, e, f : d = [mode |-> a, at |-> b, edges |-> c, facets |-> e, kept |-> f]
  BY <1>1
<1>3. d.mode = a /\ d.at = b /\ d.edges = c /\ d.facets = e /\ d.kept = f
  BY <1>2
<1>4. [d EXCEPT !.edges = edges] = [mode |-> a, at |-> b, edges |-> edges, facets |-> e, kept |-> f]
  BY <1>2
<1> QED
  BY <1>3, <1>4

(* The facets. *)
LEMMA ReplacedFacets ==
  ASSUME NEW d, NEW n \in Nat, IsDocument(d, n), NEW facets
  PROVE  [d EXCEPT !.facets = facets]
         = [mode |-> d.mode, at |-> d.at, edges |-> d.edges, facets |-> facets, kept |-> d.kept]
<1>1. d = [mode |-> d.mode, at |-> d.at, edges |-> d.edges, facets |-> d.facets, kept |-> d.kept]
  BY PartsOf
<1>2. PICK a, b, c, e, f : d = [mode |-> a, at |-> b, edges |-> c, facets |-> e, kept |-> f]
  BY <1>1
<1>3. d.mode = a /\ d.at = b /\ d.edges = c /\ d.facets = e /\ d.kept = f
  BY <1>2
<1>4. [d EXCEPT !.facets = facets] = [mode |-> a, at |-> b, edges |-> c, facets |-> facets, kept |-> f]
  BY <1>2
<1> QED
  BY <1>3, <1>4

(* The place of a vertex, and the decisions. *)
LEMMA ReplacedPlace ==
  ASSUME NEW d, NEW n \in Nat, IsDocument(d, n), NEW v, NEW p, NEW kept
  PROVE  [d EXCEPT !.at[v] = p, !.kept = kept]
         = [mode |-> d.mode, at |-> [d.at EXCEPT ![v] = p], edges |-> d.edges, 
            facets |-> d.facets, kept |-> kept]
<1>1. d = [mode |-> d.mode, at |-> d.at, edges |-> d.edges, facets |-> d.facets, kept |-> d.kept]
  BY PartsOf
<1>2. PICK a, b, c, e, f : d = [mode |-> a, at |-> b, edges |-> c, facets |-> e, kept |-> f]
  BY <1>1
<1>3. d.mode = a /\ d.at = b /\ d.edges = c /\ d.facets = e /\ d.kept = f
  BY <1>2
<1>4. [d EXCEPT !.at[v] = p] = [mode |-> a, at |-> [b EXCEPT ![v] = p], edges |-> c, facets |-> e, kept |-> f]
  BY <1>2
<1>5. [d EXCEPT !.at[v] = p, !.kept = kept] = [[d EXCEPT !.at[v] = p] EXCEPT !.kept = kept]
  OBVIOUS
<1>6. [[mode |-> a, at |-> [b EXCEPT ![v] = p], edges |-> c, facets |-> e, kept |-> f] EXCEPT !.kept = kept] =
      [mode |-> a, at |-> [b EXCEPT ![v] = p], edges |-> c, facets |-> e, kept |-> kept]
  OBVIOUS
<1>7. [d EXCEPT !.at[v] = p, !.kept = kept] =
      [mode |-> a, at |-> [b EXCEPT ![v] = p], edges |-> c, facets |-> e, kept |-> kept]
  BY Zenon, <1>4, <1>5, <1>6
<1> QED
  BY <1>3, <1>7

(* The edges and the facets. *)
LEMMA ReplacedGraph ==
  ASSUME NEW d, NEW n \in Nat, IsDocument(d, n), NEW edges, NEW facets
  PROVE  [d EXCEPT !.edges = edges, !.facets = facets]
         = [mode |-> d.mode, at |-> d.at, edges |-> edges, facets |-> facets, kept |-> d.kept]
<1>1. d = [mode |-> d.mode, at |-> d.at, edges |-> d.edges, facets |-> d.facets, kept |-> d.kept]
  BY PartsOf
<1>2. PICK a, b, c, e, f : d = [mode |-> a, at |-> b, edges |-> c, facets |-> e, kept |-> f]
  BY <1>1
<1>3. d.mode = a /\ d.at = b /\ d.edges = c /\ d.facets = e /\ d.kept = f
  BY <1>2
<1>4. [d EXCEPT !.edges = edges] = [mode |-> a, at |-> b, edges |-> edges, facets |-> e, kept |-> f]
  BY <1>2
<1>5. [d EXCEPT !.edges = edges, !.facets = facets] = [[d EXCEPT !.edges = edges] EXCEPT !.facets = facets]
  OBVIOUS
<1>6. [[mode |-> a, at |-> b, edges |-> edges, facets |-> e, kept |-> f] EXCEPT !.facets = facets] =
      [mode |-> a, at |-> b, edges |-> edges, facets |-> facets, kept |-> f]
  OBVIOUS
<1>7. [d EXCEPT !.edges = edges, !.facets = facets] =
      [mode |-> a, at |-> b, edges |-> edges, facets |-> facets, kept |-> f]
  BY Zenon, <1>4, <1>5, <1>6
<1> QED
  BY <1>3, <1>7

(* All but the mode. *)
LEMMA ReplacedAll ==
  ASSUME NEW d, NEW n \in Nat, IsDocument(d, n), NEW at, NEW edges, NEW facets, NEW kept
  PROVE  [d EXCEPT !.at = at, !.edges = edges, !.facets = facets, !.kept = kept]
         = [mode |-> d.mode, at |-> at, edges |-> edges, facets |-> facets, kept |-> kept]
<1>1. d = [mode |-> d.mode, at |-> d.at, edges |-> d.edges, facets |-> d.facets, kept |-> d.kept]
  BY PartsOf
<1>2. PICK a, b, c, e, f : d = [mode |-> a, at |-> b, edges |-> c, facets |-> e, kept |-> f]
  BY <1>1
<1>3. d.mode = a /\ d.at = b /\ d.edges = c /\ d.facets = e /\ d.kept = f
  BY <1>2
<1>4. [d EXCEPT !.at = at] = [mode |-> a, at |-> at, edges |-> c, facets |-> e, kept |-> f]
  BY <1>2
<1>5. [d EXCEPT !.at = at, !.edges = edges, !.facets = facets, !.kept = kept] =
      [[[[d EXCEPT !.at = at] EXCEPT !.edges = edges] EXCEPT !.facets = facets] EXCEPT !.kept = kept]
  OBVIOUS
<1>6. [[mode |-> a, at |-> at, edges |-> c, facets |-> e, kept |-> f] EXCEPT !.edges = edges] =
      [mode |-> a, at |-> at, edges |-> edges, facets |-> e, kept |-> f]
  OBVIOUS
<1>7. [[mode |-> a, at |-> at, edges |-> edges, facets |-> e, kept |-> f] EXCEPT !.facets = facets] =
      [mode |-> a, at |-> at, edges |-> edges, facets |-> facets, kept |-> f]
  OBVIOUS
<1>8. [[mode |-> a, at |-> at, edges |-> edges, facets |-> facets, kept |-> f] EXCEPT !.kept = kept] =
      [mode |-> a, at |-> at, edges |-> edges, facets |-> facets, kept |-> kept]
  OBVIOUS
<1>9. [d EXCEPT !.at = at, !.edges = edges, !.facets = facets, !.kept = kept] =
      [mode |-> a, at |-> at, edges |-> edges, facets |-> facets, kept |-> kept]
  BY Zenon, <1>4, <1>5, <1>6, <1>7, <1>8
<1> QED
  BY <1>3, <1>9

(* addVertex. *)
LEMMA AddVertexGood ==
  ASSUME NEW d, NEW n \in Nat, Good(d, n), NEW v \in Nat, NEW p \in Points
  PROVE  LET h == AddVertex(d, v, p)
         IN  /\ Good(h, n)
             /\ DOMAIN h.at = DOMAIN d.at \cup {v} /\ h.edges = d.edges /\ h.mode = d.mode
<1> DEFINE at == [x \in DOMAIN d.at \cup {v} |-> IF x = v THEN p ELSE d.at[x]]
           h == AddVertex(d, v, p)
<1>0. h = [d EXCEPT !.at = at]
  BY DEF AddVertex
<1>1. h = [mode |-> d.mode, at |-> at, edges |-> d.edges, facets |-> d.facets, kept |-> d.kept]
  <2> HIDE DEF at, h
  <2> QED
    BY <1>0, ReplacedAt DEF Good
<1>2. at \in [DOMAIN at -> Points] /\ DOMAIN at \subseteq Nat /\ DOMAIN at = DOMAIN d.at \cup {v}
  BY PartsOf DEF Good
<1> HIDE DEF at, h
<1>3. IsDocument([mode |-> d.mode, at |-> at, edges |-> d.edges, facets |-> d.facets, kept |-> d.kept], n)
  BY <1>2, PartsOf, PartsMake DEF Good
<1>4. IsDocument(h, n) /\ h.edges = d.edges /\ h.facets = d.facets /\ h.mode = d.mode /\ h.at = at
  BY <1>1, <1>3
<1> QED
  BY <1>2, <1>4, SameGraphGood DEF h

(* addEdge, between two vertices of the document. *)
LEMMA AddEdgeGood ==
  ASSUME NEW d, NEW n \in Nat, Good(d, n), NEW v \in DOMAIN d.at, NEW w \in DOMAIN d.at,
         NEW id \in Nat, NEW m \in Nat, n <= id, id < m
  PROVE  Good(AddEdge(d, v, w, id), m) /\ AddEdge(d, v, w, id).at = d.at
<1>1. CASE Joined(d, v, w)
  BY <1>1, LaterIdsGood DEF AddEdge
<1>2. CASE ~Joined(d, v, w)
  <2> DEFINE e == [id |-> id, v1 |-> v, v2 |-> w, type |-> "unclassified", held |-> FALSE]
             es == Append(d.edges, e)
             h == AddEdge(d, v, w, id)
  <2>1. h = [mode |-> d.mode, at |-> d.at, edges |-> es, facets |-> d.facets, kept |-> d.kept]
    <3>1. h = [d EXCEPT !.edges = es]
      BY <1>2 DEF AddEdge
    <3> HIDE DEF h, es
    <3> QED
      BY <3>1, ReplacedEdges DEF Good
  <2>2. v \in Nat /\ w \in Nat
    BY PartsOf DEF Good
  <2>3. e \in EdgeRecords /\ e.id = id /\ Ends(e) = {v, w}
    BY <2>2 DEF EdgeRecords, EdgeTypes, Ends
  <2> HIDE DEF e
  <2> DEFINE k == Len(d.edges)
  <2>4. /\ k \in Nat /\ DOMAIN d.edges = 1..k /\ d.edges \in Seq(EdgeRecords)
        /\ \A i \in 1..k : d.edges[i].id < n /\ d.edges[i].id \in Nat
        /\ \A i, j \in 1..k : d.edges[i].id = d.edges[j].id => i = j
    <3>1. \A r \in EdgeRecords : r.id \in Nat
      BY DEF EdgeRecords
    <3> QED
      BY <3>1, PartsOf DEF Good
  <2>5. /\ es \in Seq(EdgeRecords) /\ DOMAIN es = 1..(k + 1)
        /\ es[k + 1] = e /\ \A i \in 1..k : es[i] = d.edges[i]
    BY <2>3, <2>4
  <2> HIDE DEF es, k, h
  <2>6. \A i \in 1..(k + 1) : i \in 1..k \/ i = k + 1
    BY <2>4
  <2>7. \A i \in DOMAIN es : es[i].id < m
    BY <2>3, <2>4, <2>5, <2>6
  <2>8. \A i, j \in DOMAIN es : es[i].id = es[j].id => i = j
    BY SMTT(40), <2>3, <2>4, <2>5, <2>6
  <2>9. IsDocument([mode |-> d.mode, at |-> d.at, edges |-> es, facets |-> d.facets, kept |-> d.kept], m)
    BY <2>5, <2>7, <2>8, PartsOf, PartsMake DEF Good
  <2>10. IsDocument(h, m) /\ h.edges = es /\ h.facets = d.facets /\ h.at = d.at
    BY <2>1, <2>9
  <2>11. EdgeSet(h) = EdgeSet(d) \cup {e} /\ FacetSet(h) = FacetSet(d)
    <3>1. \A x : x \in EdgeSet(h) <=> \E i \in 1..(k + 1) : x = es[i]
      BY <2>5, <2>10 DEF EdgeSet
    <3>2. \A x : x \in EdgeSet(d) <=> \E i \in 1..k : x = d.edges[i]
      BY <2>4 DEF EdgeSet
    <3>3. k + 1 \in 1..(k + 1) /\ \A i \in 1..k : i \in 1..(k + 1)
      BY <2>4
    <3>4. \A x \in EdgeSet(h) : x \in EdgeSet(d) \cup {e}
      BY <2>5, <2>6, <3>1, <3>2
    <3>5. \A x \in EdgeSet(d) \cup {e} : x \in EdgeSet(h)
      BY <2>5, <3>1, <3>2, <3>3
    <3> QED
      BY <2>10, <3>4, <3>5 DEF FacetSet
  <2>12. \A x \in EdgeSet(h) : Whole(h, x)
    BY <2>3, <2>10, <2>11 DEF Good, Resolves, Whole
  <2> QED
    BY <2>10, <2>11, <2>12, EditKeepsReferences DEF h
<1> QED
  BY <1>1, <1>2

(* moveVertexFinal. *)
LEMMA MoveVertexGood ==
  ASSUME NEW d, NEW n \in Nat, Good(d, n), NEW v \in DOMAIN d.at, NEW p \in Points
  PROVE  Good(MoveVertex(d, v, p), n)
<1> DEFINE at == [d.at EXCEPT ![v] = p]
           kept == DropKept(d, IdsAt(d, v))
           h == MoveVertex(d, v, p)
<1>1. h = [mode |-> d.mode, at |-> at, edges |-> d.edges, facets |-> d.facets, kept |-> kept]
  <2>1. h = [d EXCEPT !.at[v] = p, !.kept = kept]
    BY DEF MoveVertex
  <2>2. ASSUME NEW k
        PROVE  [d EXCEPT !.at[v] = p, !.kept = k] =
               [mode |-> d.mode, at |-> [d.at EXCEPT ![v] = p],
                 edges |-> d.edges, facets |-> d.facets, kept |-> k]
    <3>1. IsDocument(d, n)
      BY DEF Good
    <3> QED
      BY Zenon, <3>1, ReplacedPlace
  <2> HIDE DEF kept, h
  <2> QED
    BY Zenon, <2>1, <2>2 DEF at
<1>2. at \in [DOMAIN at -> Points] /\ DOMAIN at \subseteq Nat /\ DOMAIN at = DOMAIN d.at
  BY PartsOf DEF Good
<1>3. kept \in SUBSET Decisions
  BY PartsOf DEF Good, DropKept
<1> HIDE DEF at, kept, h
<1>4. IsDocument([mode |-> d.mode, at |-> at, edges |-> d.edges, facets |-> d.facets, kept |-> kept], n)
  BY <1>2, <1>3, PartsOf, PartsMake DEF Good
<1>5. IsDocument(h, n) /\ h.edges = d.edges /\ h.facets = d.facets /\ h.at = at
  BY <1>1, <1>4
<1> QED
  BY <1>2, <1>5, SameGraphGood DEF h

(* Another mode, and another set of decisions. *)
LEMMA ModeGood ==
  ASSUME NEW d, NEW n \in Nat, Good(d, n), NEW mode \in Modes
  PROVE  Good([d EXCEPT !.mode = mode], n)
<1> DEFINE h == [d EXCEPT !.mode = mode]
<1>1. h = [mode |-> mode, at |-> d.at, edges |-> d.edges, facets |-> d.facets, kept |-> d.kept]
  BY PartsOf DEF Good
<1> HIDE DEF h
<1>2. IsDocument([mode |-> mode, at |-> d.at, edges |-> d.edges, facets |-> d.facets, kept |-> d.kept], n)
  BY PartsOf, PartsMake DEF Good
<1>3. IsDocument(h, n) /\ h.edges = d.edges /\ h.facets = d.facets /\ h.at = d.at
  BY <1>1, <1>2
<1> QED
  BY <1>3, SameGraphGood DEF h

(* Decisions on edges refer to no part of the graph. *)
LEMMA KeptGood ==
  ASSUME NEW d, NEW n \in Nat, Good(d, n), NEW kept \in SUBSET Decisions
  PROVE  Good([d EXCEPT !.kept = kept], n)
<1> DEFINE h == [d EXCEPT !.kept = kept]
<1>1. h = [mode |-> d.mode, at |-> d.at, edges |-> d.edges, facets |-> d.facets, kept |-> kept]
  BY PartsOf DEF Good
<1> HIDE DEF h
<1>2. IsDocument([mode |-> d.mode, at |-> d.at, edges |-> d.edges, facets |-> d.facets, kept |-> kept], n)
  BY PartsOf, PartsMake DEF Good
<1>3. IsDocument(h, n) /\ h.edges = d.edges /\ h.facets = d.facets /\ h.at = d.at
  BY <1>1, <1>2
<1> QED
  BY <1>3, SameGraphGood DEF h

(* What some of the edges of a document are, as a list of edges. *)
LEMMA SomeEdges ==
  ASSUME NEW d, NEW n \in Nat, IsDocument(d, n), NEW I \in SUBSET (DOMAIN d.edges)
  PROVE  LET o == Only(d.edges, I)
         IN  /\ o \in Seq(EdgeRecords)
             /\ \A k \in DOMAIN o : o[k].id < n
             /\ \A k, l \in DOMAIN o : o[k].id = o[l].id => k = l
             /\ \A k \in DOMAIN o : \E i \in I : o[k] = d.edges[i]
             /\ \A i \in I : \E k \in DOMAIN o : o[k] = d.edges[i]
<1> DEFINE o == Only(d.edges, I)
<1>1. /\ d.edges \in Seq(EdgeRecords)
      /\ \A i \in DOMAIN d.edges : d.edges[i].id < n
      /\ \A i, j \in DOMAIN d.edges : d.edges[i].id = d.edges[j].id => i = j
  BY PartsOf
<1>2. /\ o \in Seq(EdgeRecords)
      /\ \A k \in DOMAIN o : Place(I, k) \in I /\ o[k] = d.edges[Place(I, k)]
      /\ \A k, l \in DOMAIN o : Place(I, k) = Place(I, l) => k = l
      /\ \A i \in I : \E k \in DOMAIN o : Place(I, k) = i
  BY <1>1, OnlyIs
<1> HIDE DEF o
<1>3. \A k \in DOMAIN o : o[k].id < n
  BY <1>1, <1>2
<1>4. \A k, l \in DOMAIN o : o[k].id = o[l].id => k = l
  BY <1>1, <1>2
<1>5. \A k \in DOMAIN o : \E i \in I : o[k] = d.edges[i]
  BY <1>2
<1>6. \A i \in I : \E k \in DOMAIN o : o[k] = d.edges[i]
  BY <1>2
<1> QED
  BY <1>2, <1>3, <1>4, <1>5, <1>6 DEF o

(* And some of its facets. *)
LEMMA SomeFacets ==
  ASSUME NEW d, NEW n \in Nat, IsDocument(d, n), NEW J \in SUBSET (DOMAIN d.facets)
  PROVE  LET o == Only(d.facets, J)
         IN  /\ o \in Seq(FacetRecords)
             /\ \A k \in DOMAIN o : \E j \in J : o[k] = d.facets[j]
<1>1. d.facets \in Seq(FacetRecords)
  BY PartsOf
<1>2. /\ Only(d.facets, J) \in Seq(FacetRecords)
      /\ \A k \in DOMAIN Only(d.facets, J) : Place(J, k) \in J /\ Only(d.facets, J)[k] = d.facets[Place(J, k)]
  BY <1>1, OnlyIs
<1> QED
  BY <1>2

(* deleteEdge: the edges that stay, and what they and the facets that stay refer to. *)
LEMMA DeleteEdgesGood ==
  ASSUME NEW d, NEW n \in Nat, Good(d, n), NEW es
  PROVE  LET h == DeleteEdges(d, es)
         IN  /\ Good(h, n)
             /\ h.at = d.at
             /\ \A e : e \in EdgeSet(h) <=> e \in EdgeSet(d) /\ e.id \notin es
             /\ \A f \in FacetSet(h) : f \in FacetSet(d)
<1> DEFINE h == DeleteEdges(d, es)
           I == {i \in DOMAIN d.edges : d.edges[i].id \notin es}
           J == {i \in DOMAIN d.facets : ToSet(d.facets[i].edges) \cap es = {}}
           edges == Only(d.edges, I)
           facets == Only(d.facets, J)
<1>1. h = [mode |-> d.mode, at |-> d.at, edges |-> edges, facets |-> facets, kept |-> d.kept]
  <2>1. h = [d EXCEPT !.edges = edges, !.facets = facets]
    BY DEF DeleteEdges
  <2> HIDE DEF h, edges, facets
  <2> QED
    BY Zenon, <2>1, ReplacedGraph DEF Good
<1>2. /\ edges \in Seq(EdgeRecords)
      /\ \A k \in DOMAIN edges : edges[k].id < n
      /\ \A k, l \in DOMAIN edges : edges[k].id = edges[l].id => k = l
      /\ \A k \in DOMAIN edges : \E i \in I : edges[k] = d.edges[i]
      /\ \A i \in I : \E k \in DOMAIN edges : edges[k] = d.edges[i]
  <2>1. I \in SUBSET (DOMAIN d.edges)
    OBVIOUS
  <2> HIDE DEF I
  <2> QED
    BY <2>1, SomeEdges DEF Good
<1>3. /\ facets \in Seq(FacetRecords)
      /\ \A k \in DOMAIN facets : \E j \in J : facets[k] = d.facets[j]
  <2>1. J \in SUBSET (DOMAIN d.facets)
    OBVIOUS
  <2> HIDE DEF J
  <2> QED
    BY <2>1, SomeFacets DEF Good
<1>4. \A i : i \in I <=> i \in DOMAIN d.edges /\ d.edges[i].id \notin es
  OBVIOUS
<1>5. \A j \in J : j \in DOMAIN d.facets /\ \A x \in ToSet(d.facets[j].edges) : x \notin es
  OBVIOUS
<1> HIDE DEF h, I, J, edges, facets
<1>6. IsDocument([mode |-> d.mode, at |-> d.at, edges |-> edges, facets |-> facets, kept |-> d.kept], n)
  <2>1. /\ d.mode \in Modes /\ d.kept \in SUBSET Decisions
        /\ DOMAIN d.at \subseteq Nat /\ d.at \in [DOMAIN d.at -> Points]
    BY PartsOf DEF Good
  <2> QED
    BY ZenonT(60), <1>2, <1>3, <2>1, PartsMake
<1>7. IsDocument(h, n) /\ h.edges = edges /\ h.facets = facets /\ h.at = d.at
  BY <1>1, <1>6
<1>8. ASSUME NEW e PROVE e \in EdgeSet(h) <=> e \in EdgeSet(d) /\ e.id \notin es
  <2>1. e \in EdgeSet(h) <=> \E k \in DOMAIN edges : e = edges[k]
    BY <1>7 DEF EdgeSet
  <2>2. e \in EdgeSet(d) <=> \E i \in DOMAIN d.edges : e = d.edges[i]
    BY DEF EdgeSet
  <2>3. e \in EdgeSet(h) => \E i \in I : e = d.edges[i]
    BY <1>2, <2>1
  <2>4. (\E i \in I : e = d.edges[i]) => e \in EdgeSet(h)
    BY <1>2, <2>1
  <2> QED
    BY <1>4, <2>2, <2>3, <2>4
<1>9. ASSUME NEW f \in FacetSet(h)
      PROVE  f \in FacetSet(d) /\ \A x \in ToSet(f.edges) : x \notin es
  <2>1. PICK k \in DOMAIN facets : f = facets[k]
    BY <1>7 DEF FacetSet
  <2> QED
    BY <1>3, <1>5, <2>1 DEF FacetSet
<1>10. \A e \in EdgeSet(h) : Whole(h, e)
  BY <1>7, <1>8 DEF Whole, Good, Resolves
<1>11. \A g \in FacetSet(h) : \E f \in FacetSet(d) :
             /\ g.edges = f.edges
             /\ \A e \in EdgeSet(d) : e.id \in ToSet(f.edges) =>
                    \E x \in EdgeSet(h) : x.id = e.id /\ Ends(x) = Ends(e)
  BY <1>8, <1>9
<1>12. Good(h, n)
  BY <1>7, <1>10, <1>11, EditKeepsReferences
<1> QED
  BY <1>7, <1>8, <1>9, <1>12 DEF h

(* deleteVertex: no edge at the vertex is left, so none misses it. *)
LEMMA DeleteVertexGood ==
  ASSUME NEW d, NEW n \in Nat, Good(d, n), NEW v \in DOMAIN d.at
  PROVE  Good(DeleteVertex(d, v), n)
<1> DEFINE c == DeleteEdges(d, IdsAt(d, v))
           at == [x \in DOMAIN d.at \ {v} |-> d.at[x]]
           h == DeleteVertex(d, v)
<1>1. /\ Good(c, n) /\ c.at = d.at
      /\ \A e : e \in EdgeSet(c) <=> e \in EdgeSet(d) /\ e.id \notin IdsAt(d, v)
  BY DeleteEdgesGood
<1>2. h = [c EXCEPT !.at = at]
  BY DEF DeleteVertex
<1>3. at \in [DOMAIN at -> Points] /\ DOMAIN at \subseteq Nat /\ DOMAIN at = DOMAIN d.at \ {v}
  BY PartsOf DEF Good
<1> HIDE DEF c, at, h
<1>4. h = [mode |-> c.mode, at |-> at, edges |-> c.edges, facets |-> c.facets, kept |-> c.kept]
  BY Zenon, <1>1, <1>2, ReplacedAt DEF Good
<1>5. IsDocument([mode |-> c.mode, at |-> at, edges |-> c.edges, facets |-> c.facets, kept |-> c.kept], n)
  BY <1>1, <1>3, PartsOf, PartsMake DEF Good
<1>6. IsDocument(h, n) /\ EdgeSet(h) = EdgeSet(c) /\ FacetSet(h) = FacetSet(c) /\ h.at = at
  BY <1>4, <1>5 DEF EdgeSet, FacetSet
<1>7. ASSUME NEW e \in EdgeSet(h) PROVE Whole(h, e)
  <2>1. e \in EdgeSet(d) /\ e.id \notin IdsAt(d, v)
    BY <1>1, <1>6
  <2>2. v \notin Ends(e)
    BY <2>1 DEF IdsAt, EdgesAt
  <2>3. Ends(e) \subseteq DOMAIN d.at
    BY <2>1 DEF Good, Resolves, Whole
  <2> QED
    BY <1>3, <1>6, <2>2, <2>3 DEF Whole
<1> QED
  BY <1>1, <1>6, <1>7, EditKeepsReferences DEF h

(* deleteFacet. *)
LEMMA DeleteFacetGood ==
  ASSUME NEW d, NEW n \in Nat, Good(d, n), NEW id
  PROVE  Good(DeleteFacet(d, id), n)
<1> DEFINE J == {i \in DOMAIN d.facets : d.facets[i].id # id}
           facets == Only(d.facets, J)
           h == DeleteFacet(d, id)
<1>1. h = [d EXCEPT !.facets = facets]
  BY DEF DeleteFacet
<1>2. J \in SUBSET (DOMAIN d.facets)
  OBVIOUS
<1> HIDE DEF J, h
<1>3. /\ facets \in Seq(FacetRecords)
      /\ \A k \in DOMAIN facets : \E j \in J : facets[k] = d.facets[j]
  BY <1>2, SomeFacets DEF Good
<1> HIDE DEF facets
<1>4. h = [mode |-> d.mode, at |-> d.at, edges |-> d.edges, facets |-> facets, kept |-> d.kept]
  BY Zenon, <1>1, ReplacedFacets DEF Good
<1>5. IsDocument([mode |-> d.mode, at |-> d.at, edges |-> d.edges, facets |-> facets, kept |-> d.kept], n)
  BY <1>3, PartsOf, PartsMake DEF Good
<1>6. IsDocument(h, n) /\ EdgeSet(h) = EdgeSet(d) /\ h.facets = facets /\ h.at = d.at
  BY <1>4, <1>5 DEF EdgeSet
<1>7. \A f \in FacetSet(h) : f \in FacetSet(d)
  BY <1>2, <1>3, <1>6 DEF FacetSet
<1>8. \A e \in EdgeSet(h) : Whole(h, e)
  BY <1>6 DEF Whole, Good, Resolves
<1> QED
  BY <1>6, <1>7, <1>8, EditKeepsReferences DEF h

(* setEdgeType, and every other edit of one edge that leaves its id and its ends. *)
LEMMA SetEdgeGood ==
  ASSUME NEW d, NEW n \in Nat, Good(d, n), NEW e \in EdgeSet(d), NEW new \in EdgeRecords,
         new.id = e.id, Ends(new) = Ends(e)
  PROVE  Good(SetEdge(d, e, new), n)
<1> DEFINE edges == [i \in DOMAIN d.edges |-> IF d.edges[i] = e THEN new ELSE d.edges[i]]
           h == SetEdge(d, e, new)
<1>1. h = [d EXCEPT !.edges = edges]
  BY DEF SetEdge
<1>2. /\ DOMAIN d.edges = 1..Len(d.edges) /\ Len(d.edges) \in Nat
      /\ \A i \in DOMAIN d.edges : d.edges[i] \in EdgeRecords /\ d.edges[i].id < n
      /\ \A i, j \in DOMAIN d.edges : d.edges[i].id = d.edges[j].id => i = j
  BY PartsOf DEF Good
<1>3. /\ edges \in Seq(EdgeRecords) /\ DOMAIN edges = DOMAIN d.edges
      /\ \A i \in DOMAIN d.edges : /\ edges[i].id = d.edges[i].id /\ Ends(edges[i]) = Ends(d.edges[i])
  <2>1. \A i \in DOMAIN d.edges : edges[i] \in EdgeRecords
    BY <1>2
  <2>2. edges \in [1..Len(d.edges) -> EdgeRecords]
    BY <1>2, <2>1
  <2>3. edges \in Seq(EdgeRecords)
    <3> HIDE DEF edges
    <3> QED BY <1>2, <2>2
  <2> QED
    BY <2>3
<1> HIDE DEF edges, h
<1>4. h = [mode |-> d.mode, at |-> d.at, edges |-> edges, facets |-> d.facets, kept |-> d.kept]
  BY Zenon, <1>1, ReplacedEdges DEF Good
<1>5. (\A i \in DOMAIN edges : edges[i].id < n) /\ \A i, j \in DOMAIN edges : edges[i].id = edges[j].id => i = j
  BY <1>2, <1>3
<1>6. IsDocument([mode |-> d.mode, at |-> d.at, edges |-> edges, facets |-> d.facets, kept |-> d.kept], n)
  BY <1>3, <1>5, PartsOf, PartsMake DEF Good
<1>7. IsDocument(h, n) /\ h.edges = edges /\ FacetSet(h) = FacetSet(d) /\ h.at = d.at
  BY <1>4, <1>6 DEF FacetSet
<1>8. \A x \in EdgeSet(h) : \E y \in EdgeSet(d) : x.id = y.id /\ Ends(x) = Ends(y)
  BY <1>3, <1>7 DEF EdgeSet
<1>9. \A y \in EdgeSet(d) : \E x \in EdgeSet(h) : x.id = y.id /\ Ends(x) = Ends(y)
  BY <1>3, <1>7 DEF EdgeSet
<1>10. \A x \in EdgeSet(h) : Whole(h, x)
  BY <1>7, <1>8 DEF Whole, Good, Resolves
<1> QED
  BY <1>7, <1>9, <1>10, EditKeepsReferences DEF h

(* createFacet and createManualFacet: a ring of vertices, or edges of the document in a loop. *)
LEMMA AddFacetGood ==
  ASSUME NEW d, NEW n \in Nat, Good(d, n), NEW id \in Nat, NEW edges \in Seq(Nat), NEW verts \in Seq(Nat),
         \/ edges = <<>>
         \/ /\ ToSet(edges) \subseteq EdgeIds(d)
            /\ ClosedLoop([i \in DOMAIN edges |-> EdgeOf(d, edges[i])])
  PROVE  Good(AddFacet(d, id, edges, verts), n)
<1> DEFINE f == [id |-> id, edges |-> edges, verts |-> verts]
           facets == Append(d.facets, f)
           h == AddFacet(d, id, edges, verts)
           k == Len(d.facets)
<1>1. h = [d EXCEPT !.facets = facets]
  BY DEF AddFacet
<1>2. f \in FacetRecords /\ f.edges = edges
  BY DEF FacetRecords
<1>3. k \in Nat /\ DOMAIN d.facets = 1..k /\ d.facets \in Seq(FacetRecords)
  BY PartsOf DEF Good
<1> HIDE DEF f
<1>4. /\ facets \in Seq(FacetRecords) /\ DOMAIN facets = 1..(k + 1)
      /\ facets[k + 1] = f /\ \A i \in 1..k : facets[i] = d.facets[i]
  BY <1>2, <1>3
<1> HIDE DEF facets, h, k
<1>5. h = [mode |-> d.mode, at |-> d.at, edges |-> d.edges, facets |-> facets, kept |-> d.kept]
  BY Zenon, <1>1, ReplacedFacets DEF Good
<1>6. IsDocument([mode |-> d.mode, at |-> d.at, edges |-> d.edges, facets |-> facets, kept |-> d.kept], n)
  <2>1. facets \in Seq(FacetRecords)
    BY <1>4
  <2> QED
    BY <2>1, PartsOf, PartsMake DEF Good
<1>7. IsDocument(h, n) /\ h.edges = d.edges /\ h.facets = facets /\ h.at = d.at
  BY <1>5, <1>6
<1>8. EdgeSet(h) = EdgeSet(d) /\ EdgeIds(h) = EdgeIds(d) /\ \A x : EdgeOf(h, x) = EdgeOf(d, x)
  BY <1>7 DEF EdgeSet, EdgeIds, EdgeOf
<1>9. \A e \in EdgeSet(h) : Whole(h, e)
  BY <1>7, <1>8 DEF Whole, Good, Resolves
<1>10. ASSUME NEW g \in FacetSet(h)
       PROVE  ToSet(g.edges) \subseteq EdgeIds(h) /\ (g.edges # <<>> => ClosedLoop(EdgeList(h, g)))
  <2>1. EdgeList(h, g) = EdgeList(d, g)
    BY <1>8 DEF EdgeList
  <2>2. PICK i \in 1..(k + 1) : g = facets[i]
    BY <1>4, <1>7 DEF FacetSet
  <2>3. CASE i \in 1..k
    <3>1. g \in FacetSet(d)
      BY <1>3, <1>4, <2>2, <2>3 DEF FacetSet
    <3> QED
      BY <1>8, <2>1, <3>1 DEF Good, Resolves
  <2>4. CASE i = k + 1
    <3>1. g.edges = edges
      BY <1>2, <1>4, <2>2, <2>4
    <3>2. CASE edges = <<>>
      <4>1. ToSet(edges) = {}
        BY <3>2 DEF ToSet
      <4> QED
        BY <3>1, <3>2, <4>1
    <3>3. CASE ToSet(edges) \subseteq EdgeIds(d) /\ ClosedLoop([j \in DOMAIN edges |-> EdgeOf(d, edges[j])])
      <4>1. EdgeList(d, g) = [j \in DOMAIN edges |-> EdgeOf(d, edges[j])]
        BY <3>1 DEF EdgeList
      <4> QED
        BY <1>8, <2>1, <3>1, <3>3, <4>1
    <3> QED
      BY <3>2, <3>3
  <2> QED
    BY <1>3, <2>3, <2>4
<1> QED
  BY <1>7, <1>9, <1>10 DEF Good, Resolves, h

-----------------------------------------------------------------------------
(* The topology commands. *)

(* A facet with the halves of a split edge in its loop is a facet. *)
LEMMA LoopWithHalvesIs ==
  ASSUME NEW d, NEW f \in FacetRecords, NEW e, NEW a \in Nat, NEW b \in Nat
  PROVE  LoopWithHalves(d, f, e, a, b) \in FacetRecords
<1> DEFINE i == PlaceIn(f, e.id)
           mid == IF Prev1(f.edges, i) \in EdgeIds(d) /\ e.v1 \in Ends(EdgeOf(d, Prev1(f.edges, i)))
                  THEN <<a, b>> ELSE <<b, a>>
           edges == SubSeq(f.edges, 1, i - 1) \o mid \o SubSeq(f.edges, i + 1, Len(f.edges))
<1>1. f.edges \in Seq(Nat) /\ f.id \in Nat /\ f.verts \in Seq(Nat)
  BY DEF FacetRecords
<1>2. CASE e.id \notin ToSet(f.edges)
  BY <1>2 DEF LoopWithHalves
<1>3. CASE e.id \in ToSet(f.edges)
  <2>1. i \in DOMAIN f.edges
    BY <1>3 DEF PlaceIn, ToSet
  <2>2. i \in Nat /\ i >= 1 /\ i <= Len(f.edges) /\ Len(f.edges) \in Nat
    BY <1>1, <2>1
  <2>3. mid \in Seq(Nat)
    <3>1. <<a, b>> \in Seq(Nat) /\ <<b, a>> \in Seq(Nat)
      OBVIOUS
    <3> QED
      BY <3>1
  <2>4. LoopWithHalves(d, f, e, a, b) = [f EXCEPT !.edges = edges, !.verts = <<>>]
    BY <1>3 DEF LoopWithHalves
  <2> HIDE DEF i, mid
  <2>5. SubSeq(f.edges, 1, i - 1) \in Seq(Nat) /\ SubSeq(f.edges, i + 1, Len(f.edges)) \in Seq(Nat)
    BY <1>1, <2>2
  <2>6. edges \in Seq(Nat) /\ <<>> \in Seq(Nat)
    BY <2>3, <2>5
  <2> HIDE DEF edges
  <2> QED
    BY <2>4, <2>6 DEF FacetRecords
<1> QED
  BY <1>2, <1>3

(* Replacing an edge by two halves with fresh ids gives a document; whether its loops are closed
   is left to the gate. *)
LEMMA HalvedIs ==
  ASSUME NEW d, NEW n \in Nat, IsDocument(d, n), NEW e \in EdgeSet(d), NEW v \in Nat,
         NEW a \in Nat, NEW b \in Nat, NEW m \in Nat, n <= a, a < b, b < m
  PROVE  LET h == Halved(d, e, v, a, b)
         IN  IsDocument(h, m) /\ h.at = d.at /\ h.mode = d.mode /\ h.kept = d.kept
<1> DEFINE I == {i \in DOMAIN d.edges : d.edges[i].id # e.id}
           o == Only(d.edges, I)
           ea == [e EXCEPT !.id = a, !.v2 = v]
           eb == [e EXCEPT !.id = b, !.v1 = v]
           edges == o \o <<ea, eb>>
           facets == [i \in DOMAIN d.facets |-> LoopWithHalves(d, d.facets[i], e, a, b)]
           h == Halved(d, e, v, a, b)
           k == Len(o)
<1>1. h = [d EXCEPT !.edges = edges, !.facets = facets]
  BY DEF Halved
<1>2. I \in SUBSET (DOMAIN d.edges)
  OBVIOUS
<1>3. e \in EdgeRecords
  BY EdgeOfIs
<1>4. ea \in EdgeRecords /\ ea.id = a /\ eb \in EdgeRecords /\ eb.id = b
  BY <1>3 DEF EdgeRecords
<1> HIDE DEF I, ea, eb, h
<1>5. /\ o \in Seq(EdgeRecords)
      /\ \A j \in DOMAIN o : o[j].id < n
      /\ \A j, l \in DOMAIN o : o[j].id = o[l].id => j = l
  BY <1>2, SomeEdges
<1> HIDE DEF o
<1>6. k \in Nat /\ DOMAIN o = 1..k /\ \A j \in 1..k : o[j].id \in Nat /\ o[j].id < n
  <2>1. \A r \in EdgeRecords : r.id \in Nat
    BY DEF EdgeRecords
  <2> QED
    BY <1>5, <2>1
<1>7. /\ edges \in Seq(EdgeRecords) /\ DOMAIN edges = 1..(k + 2)
      /\ \A j \in 1..k : edges[j] = o[j]
      /\ edges[k + 1] = ea /\ edges[k + 2] = eb
  <2>1. <<ea, eb>> \in Seq(EdgeRecords) /\ Len(<<ea, eb>>) = 2
    BY <1>4
  <2> QED
    BY <1>5, <1>6, <2>1
<1>8. facets \in Seq(FacetRecords)
  <2>1. DOMAIN d.facets = 1..Len(d.facets) /\ Len(d.facets) \in Nat
    BY PartsOf
  <2>2. \A i \in DOMAIN d.facets : LoopWithHalves(d, d.facets[i], e, a, b) \in FacetRecords
    BY PartsOf, LoopWithHalvesIs
  <2>3. facets \in [1..Len(d.facets) -> FacetRecords]
    BY <2>1, <2>2
  <2> HIDE DEF facets
  <2> QED
    BY <2>1, <2>3
<1> HIDE DEF edges, facets, k
<1>9. \A j \in 1..(k + 2) : j \in 1..k \/ j = k + 1 \/ j = k + 2
  BY <1>6
<1>10. \A j \in 1..(k + 2) : \/ j \in 1..k /\ edges[j] = o[j] /\ edges[j].id < n
                             \/ j = k + 1 /\ edges[j].id = a
                             \/ j = k + 2 /\ edges[j].id = b
  <2>1. \A j \in 1..k : edges[j] = o[j] /\ edges[j].id < n
    BY <1>6, <1>7
  <2>2. edges[k + 1].id = a /\ edges[k + 2].id = b
    BY <1>4, <1>7
  <2> TAKE j \in 1..(k + 2)
  <2>3. CASE j \in 1..k
    BY <2>1, <2>3
  <2>4. CASE j = k + 1
    BY Zenon, <2>2, <2>4
  <2>5. CASE j = k + 2
    BY Zenon, <2>2, <2>5
  <2> QED
    BY Zenon, <1>9, <2>3, <2>4, <2>5
<1>11. \A j \in DOMAIN edges : edges[j].id < m
  <2>1. \A r \in EdgeRecords : r.id \in Nat
    BY DEF EdgeRecords
  <2>2. \A j \in 1..k : o[j].id < m
    BY <1>6
  <2> QED
    BY <1>7, <1>10, <2>2
<1>12. ASSUME NEW j \in DOMAIN edges, NEW l \in DOMAIN edges, edges[j].id = edges[l].id PROVE j = l
  <2>1. j \in 1..(k + 2) /\ l \in 1..(k + 2)
    BY <1>7
  <2>2. CASE j \in 1..k /\ l \in 1..k
    BY <1>5, <1>6, <1>7, <1>12, <2>2
  <2>3. ASSUME NEW x \in 1..(k + 2), NEW y \in 1..(k + 2), x \in 1..k, y \notin 1..k, edges[x].id = edges[y].id
        PROVE  FALSE
    <3>1. edges[x].id \in Nat /\ edges[x].id < n
      BY <1>6, <1>7, <2>3
    <3>2. edges[y].id = a \/ edges[y].id = b
      BY <1>10, <2>3
    <3> QED
      BY <2>3, <3>1, <3>2
  <2>4. CASE j \notin 1..k /\ l \notin 1..k
    <3>1. (j = k + 1 /\ edges[j].id = a) \/ (j = k + 2 /\ edges[j].id = b)
      BY <1>10, <2>1, <2>4
    <3>2. (l = k + 1 /\ edges[l].id = a) \/ (l = k + 2 /\ edges[l].id = b)
      BY <1>10, <2>1, <2>4
    <3>3. a # b
      OBVIOUS
    <3> QED
      BY <1>12, <3>1, <3>2, <3>3
  <2> QED
    BY <1>12, <2>1, <2>2, <2>3, <2>4
<1>13. h = [mode |-> d.mode, at |-> d.at, edges |-> edges, facets |-> facets, kept |-> d.kept]
  BY Zenon, <1>1, ReplacedGraph
<1>14. IsDocument([mode |-> d.mode, at |-> d.at, edges |-> edges, facets |-> facets, kept |-> d.kept], m)
  <2>1. edges \in Seq(EdgeRecords)
    BY <1>7
  <2>2. \A j, l \in DOMAIN edges : edges[j].id = edges[l].id => j = l
    BY <1>12
  <2> QED
    BY <1>8, <1>11, <2>1, <2>2, PartsOf, PartsMake
<1> QED
  BY <1>13, <1>14 DEF h

(* splitEdgeSafe. *)
LEMMA SplitGood ==
  ASSUME NEW d, NEW n \in Nat, Good(d, n), NEW e \in EdgeSet(d), NEW p \in Points, CanSplit(d, e, p, n)
  PROVE  Good(Split(d, e, p, n), n + 3) /\ n \in DOMAIN Split(d, e, p, n).at
         /\ DOMAIN d.at \subseteq DOMAIN Split(d, e, p, n).at
<1> DEFINE h == Halved(d, e, n, n + 1, n + 2)
           kept == DropKept(d, {e.id})
           at == [x \in DOMAIN d.at \cup {n} |-> IF x = n THEN p ELSE d.at[x]]
           c == [h EXCEPT !.kept = kept]
           a == Split(d, e, p, n)
<1>1. n + 1 \in Nat /\ n + 2 \in Nat /\ n + 3 \in Nat /\ n <= n + 1 /\ n + 1 < n + 2 /\ n + 2 < n + 3
  OBVIOUS
<1>2. IsDocument(h, n + 3) /\ h.at = d.at /\ h.mode = d.mode /\ h.kept = d.kept
  BY <1>1, HalvedIs DEF Good
<1>3. kept \in SUBSET Decisions
  BY PartsOf DEF Good, DropKept
<1>4. at \in [DOMAIN at -> Points] /\ DOMAIN at \subseteq Nat /\ DOMAIN at = DOMAIN d.at \cup {n}
  BY PartsOf DEF Good
<1>5. a = AddVertex(c, n, p)
  BY DEF Split
<1> HIDE DEF h, kept, a
<1>6. h = [mode |-> h.mode, at |-> h.at, edges |-> h.edges, facets |-> h.facets, kept |-> h.kept]
  BY <1>1, <1>2, PartsOf
<1>7. c = [mode |-> d.mode, at |-> d.at, edges |-> h.edges, facets |-> h.facets, kept |-> kept]
  <2>1. [[mode |-> h.mode, at |-> h.at, edges |-> h.edges, facets |-> h.facets, kept |-> h.kept]
          EXCEPT !.kept = kept]
        = [mode |-> h.mode, at |-> h.at, edges |-> h.edges, facets |-> h.facets, kept |-> kept]
    OBVIOUS
  <2>2. c = [h EXCEPT !.kept = kept]
    OBVIOUS
  <2> HIDE DEF c
  <2>3. c = [mode |-> h.mode, at |-> h.at, edges |-> h.edges, facets |-> h.facets, kept |-> kept]
    BY Zenon, <1>6, <2>1, <2>2
  <2> QED
    BY Zenon, <1>2, <2>3
<1> HIDE DEF c
<1>8. IsDocument([mode |-> d.mode, at |-> d.at, edges |-> h.edges, facets |-> h.facets, kept |-> kept], n + 3)
  <2>1. /\ h.edges \in Seq(EdgeRecords) /\ h.facets \in Seq(FacetRecords)
        /\ \A i \in DOMAIN h.edges : h.edges[i].id < n + 3
        /\ \A i, j \in DOMAIN h.edges : h.edges[i].id = h.edges[j].id => i = j
    BY <1>1, <1>2, PartsOf
  <2>2. d.mode \in Modes /\ DOMAIN d.at \subseteq Nat /\ d.at \in [DOMAIN d.at -> Points]
    BY PartsOf DEF Good
  <2> QED
    BY <1>1, <1>3, <2>1, <2>2, PartsMake
<1>9. IsDocument(c, n + 3) /\ c.at = d.at /\ c.mode = d.mode
      /\ c.edges = h.edges /\ c.facets = h.facets /\ c.kept = kept
  BY <1>7, <1>8
<1>10. a = [c EXCEPT !.at = at]
  <2>1. at = [x \in DOMAIN c.at \cup {n} |-> IF x = n THEN p ELSE c.at[x]]
    BY <1>9
  <2> QED
    BY <1>5, <2>1 DEF AddVertex
<1> HIDE DEF at
<1>11. a = [mode |-> d.mode, at |-> at, edges |-> h.edges, facets |-> h.facets, kept |-> kept]
  <2>1. a = [mode |-> c.mode, at |-> at, edges |-> c.edges, facets |-> c.facets, kept |-> c.kept]
    BY Zenon, <1>1, <1>9, <1>10, ReplacedAt
  <2> QED
    BY Zenon, <1>9, <2>1
<1>12. IsDocument([mode |-> d.mode, at |-> at, edges |-> h.edges, facets |-> h.facets, kept |-> kept], n + 3)
  <2>1. /\ h.edges \in Seq(EdgeRecords) /\ h.facets \in Seq(FacetRecords)
        /\ \A i \in DOMAIN h.edges : h.edges[i].id < n + 3
        /\ \A i, j \in DOMAIN h.edges : h.edges[i].id = h.edges[j].id => i = j
    BY <1>1, <1>2, PartsOf
  <2>2. d.mode \in Modes
    BY PartsOf DEF Good
  <2> QED
    BY <1>1, <1>3, <1>4, <2>1, <2>2, PartsMake
<1>13. IsDocument(a, n + 3) /\ a.mode = d.mode /\ a.at = at
  BY <1>11, <1>12
<1>14. d.mode = "connected" /\ Accepted(d, a)
  BY DEF CanSplit, a
<1>15. Good(a, n + 3)
  BY <1>1, <1>13, <1>14, GateKeepsReferences
<1> QED
  BY <1>4, <1>13, <1>15 DEF a

(* insertExistingVertexIntoEdge. *)
LEMMA InsertGood ==
  ASSUME NEW d, NEW n \in Nat, Good(d, n), NEW v, NEW e \in EdgeSet(d), NEW p \in Points,
         CanInsert(d, v, e, p, n)
  PROVE  Good(Insert(d, v, e, p, n), n + 3)
<1> DEFINE h == Halved(d, e, v, n + 1, n + 2)
           kept == DropKept(d, IdsAt(d, v) \cup {e.id})
           at == [d.at EXCEPT ![v] = p]
           a == Insert(d, v, e, p, n)
<1>1. n + 1 \in Nat /\ n + 2 \in Nat /\ n + 3 \in Nat /\ n <= n + 1 /\ n + 1 < n + 2 /\ n + 2 < n + 3
  OBVIOUS
<1>2. v \in DOMAIN d.at /\ v \in Nat /\ d.mode = "connected" /\ Accepted(d, a)
  BY PartsOf DEF CanInsert, Good, a
<1>3. IsDocument(h, n + 3) /\ h.at = d.at /\ h.mode = d.mode
  BY <1>1, <1>2, HalvedIs DEF Good
<1>4. kept \in SUBSET Decisions
  BY PartsOf DEF Good, DropKept
<1>5. at \in [DOMAIN at -> Points] /\ DOMAIN at \subseteq Nat
  BY <1>2, PartsOf DEF Good
<1>6. a = [h EXCEPT !.at[v] = p, !.kept = kept]
  BY DEF Insert
<1> HIDE DEF h, kept, a
<1>7. a = [mode |-> h.mode, at |-> [h.at EXCEPT ![v] = p], edges |-> h.edges
        , facets |-> h.facets, kept |-> kept]
  BY Zenon, <1>1, <1>3, <1>6, ReplacedPlace
<1>8. a = [mode |-> d.mode, at |-> at, edges |-> h.edges, facets |-> h.facets, kept |-> kept]
  BY Zenon, <1>3, <1>7
<1> HIDE DEF at
<1>9. IsDocument([mode |-> d.mode, at |-> at, edges |-> h.edges, facets |-> h.facets, kept |-> kept], n + 3)
  <2>1. /\ h.edges \in Seq(EdgeRecords) /\ h.facets \in Seq(FacetRecords)
        /\ \A i \in DOMAIN h.edges : h.edges[i].id < n + 3
        /\ \A i, j \in DOMAIN h.edges : h.edges[i].id = h.edges[j].id => i = j
    BY <1>1, <1>3, PartsOf
  <2>2. d.mode \in Modes
    BY PartsOf DEF Good
  <2> QED
    BY <1>1, <1>4, <1>5, <2>1, <2>2, PartsMake
<1>10. IsDocument(a, n + 3) /\ a.mode = d.mode
  BY <1>8, <1>9
<1> QED
  BY <1>1, <1>2, <1>10, GateKeepsReferences DEF a

(* The first edge of some edges of a document is one of them. *)
LEMMA FirstOfIs ==
  ASSUME NEW d, NEW n \in Nat, IsDocument(d, n), NEW es \in SUBSET EdgeSet(d), es # {}
  PROVE  FirstOf(d, es) \in es
<1> DEFINE I == {i \in DOMAIN d.edges : d.edges[i] \in es}
<1>1. I \in SUBSET Nat /\ I \in SUBSET (DOMAIN d.edges)
  <2>1. DOMAIN d.edges = 1..Len(d.edges) /\ Len(d.edges) \in Nat
    BY PartsOf
  <2> QED
    BY <2>1
<1>2. I # {}
  BY DEF EdgeSet
<1>3. \A i \in I : d.edges[i] \in es
  OBVIOUS
<1>4. FirstOf(d, es) = d.edges[Min(I)]
  BY DEF FirstOf
<1> HIDE DEF I
<1> QED
  BY <1>1, <1>2, <1>3, <1>4, LeastIs

(* Moving the end of an edge changes nothing else of it. *)
LEMMA RewiredIs ==
  ASSUME NEW e \in EdgeRecords, NEW m \in Nat, NEW t \in Nat
  PROVE  /\ Rewired(e, m, t) \in EdgeRecords
         /\ Rewired(e, m, t).id = e.id /\ Rewired(e, m, t).type = e.type /\ Rewired(e, m, t).held = e.held
         /\ Rewired(e, m, t).v1 = IF e.v1 = m THEN t ELSE e.v1
         /\ Rewired(e, m, t).v2 = IF e.v2 = m THEN t ELSE e.v2
         /\ Ends(Rewired(e, m, t)) = {IF v = m THEN t ELSE v : v \in Ends(e)}
<1>1. /\ Rewired(e, m, t) \in EdgeRecords
      /\ Rewired(e, m, t).id = e.id /\ Rewired(e, m, t).type = e.type /\ Rewired(e, m, t).held = e.held
      /\ Rewired(e, m, t).v1 = IF e.v1 = m THEN t ELSE e.v1
      /\ Rewired(e, m, t).v2 = IF e.v2 = m THEN t ELSE e.v2
  BY DEF Rewired, EdgeRecords
<1>2. Ends(e) = {e.v1, e.v2} /\ Ends(Rewired(e, m, t)) = {Rewired(e, m, t).v1, Rewired(e, m, t).v2}
  BY DEF Ends
<1>3. Ends(Rewired(e, m, t)) = {IF v = m THEN t ELSE v : v \in Ends(e)}
  BY <1>1, <1>2
<1> QED
  BY <1>1, <1>3

(* The edges that come to join the same two vertices, and the one of them that stays. *)
LEMMA GroupIs ==
  ASSUME NEW d, NEW n \in Nat, IsDocument(d, n), NEW e \in EdgeSet(d), NEW m, NEW t
  PROVE  /\ e \in Group(d, e, m, t) /\ Group(d, e, m, t) \subseteq EdgeSet(d)
         /\ FirstOf(d, Group(d, e, m, t)) \in Group(d, e, m, t)
         /\ Heir(d, e.id, m, t) = FirstOf(d, Group(d, e, m, t)).id
         /\ Heir(d, e.id, m, t) \in EdgeIds(d) /\ Heir(d, e.id, m, t) \in Nat
         /\ \/ Classes(Group(d, e, m, t)) = {} /\ TypeOfGroup(d, Group(d, e, m, t)) = "unclassified"
            \/ TypeOfGroup(d, Group(d, e, m, t)) \in Classes(Group(d, e, m, t))
         /\ TypeOfGroup(d, Group(d, e, m, t)) \in EdgeTypes
<1> DEFINE G == Group(d, e, m, t)
<1>1. e \in G /\ G \subseteq EdgeSet(d)
  BY DEF Group
<1>2. EdgeOf(d, e.id) = e
  BY EdgeOfIs
<1>3. Heir(d, e.id, m, t) = FirstOf(d, G).id
  BY <1>2 DEF Heir
<1> HIDE DEF G
<1>4. FirstOf(d, G) \in G
  BY <1>1, FirstOfIs
<1>5. Heir(d, e.id, m, t) \in EdgeIds(d) /\ Heir(d, e.id, m, t) \in Nat
  <2>1. FirstOf(d, G) \in EdgeSet(d)
    BY <1>1, <1>4
  <2>2. FirstOf(d, G).id \in EdgeIds(d) /\ FirstOf(d, G) \in EdgeRecords
    BY <2>1, EdgeOfIs
  <2> QED
    BY <1>3, <2>2 DEF EdgeRecords
<1>6. \/ Classes(G) = {} /\ TypeOfGroup(d, G) = "unclassified"
      \/ TypeOfGroup(d, G) \in Classes(G)
  BY DEF TypeOfGroup
<1>7. Classes(G) \subseteq EdgeTypes
  <2>1. \A x \in G : x.type \in EdgeTypes
    BY <1>1, EdgeOfIs DEF EdgeRecords
  <2> QED
    BY <2>1 DEF Classes
<1>8. TypeOfGroup(d, G) \in EdgeTypes
  BY <1>6, <1>7 DEF EdgeTypes
<1> QED
  BY <1>1, <1>3, <1>4, <1>5, <1>6, <1>8 DEF G

(* An edge that is moved and classified is an edge still, with its id. *)
LEMMA FoldedIs ==
  ASSUME NEW d, NEW n \in Nat, IsDocument(d, n), NEW m \in Nat, NEW t \in Nat, NEW e \in EdgeSet(d)
  PROVE  /\ Folded(d, e, m, t) \in EdgeRecords /\ Folded(d, e, m, t).id = e.id
         /\ Ends(Folded(d, e, m, t)) = Ends(Rewired(e, m, t))
         /\ Folded(d, e, m, t).type = TypeOfGroup(d, Group(d, e, m, t))
<1> DEFINE r == Rewired(e, m, t)
           c == TypeOfGroup(d, Group(d, e, m, t))
<1>1. r \in EdgeRecords /\ r.id = e.id
  BY EdgeOfIs, RewiredIs
<1>2. c \in EdgeTypes
  BY GroupIs
<1>3. Folded(d, e, m, t) = [r EXCEPT !.type = c]
  BY DEF Folded
<1> HIDE DEF r, c
<1>4. [r EXCEPT !.type = c] \in EdgeRecords /\ [r EXCEPT !.type = c].id = r.id
      /\ [r EXCEPT !.type = c].v1 = r.v1 /\ [r EXCEPT !.type = c].v2 = r.v2
      /\ [r EXCEPT !.type = c].type = c
  BY <1>1, <1>2 DEF EdgeRecords
<1>5. Folded(d, e, m, t).type = c /\ Folded(d, e, m, t) \in EdgeRecords /\ Folded(d, e, m, t).id = e.id
  BY <1>1, <1>3, <1>4
<1>6. Ends(Folded(d, e, m, t)) = Ends(r)
  BY <1>3, <1>4 DEF Ends
<1> QED
  BY <1>5, <1>6 DEF r, c

(* The edges after a fold: each is an edge of the document, moved and classified. *)
LEMMA FoldedEdgesAre ==
  ASSUME NEW d, NEW n \in Nat, IsDocument(d, n), NEW m \in Nat, NEW t \in Nat
  PROVE  /\ FoldedEdges(d, m, t) \in Seq(EdgeRecords)
         /\ \A k \in DOMAIN FoldedEdges(d, m, t) : FoldedEdges(d, m, t)[k].id < n
         /\ \A k, l \in DOMAIN FoldedEdges(d, m, t) :
                FoldedEdges(d, m, t)[k].id = FoldedEdges(d, m, t)[l].id => k = l
         /\ \A k \in DOMAIN FoldedEdges(d, m, t) : \E e \in EdgeSet(d) :
                FoldedEdges(d, m, t)[k] = Folded(d, e, m, t)
<1> DEFINE s == [i \in DOMAIN d.edges |-> Folded(d, d.edges[i], m, t)]
           I == {i \in DOMAIN d.edges : /\ d.edges[i].id \notin Loops(d, m, t)
                                        /\ d.edges[i].id = Heir(d, d.edges[i].id, m, t)}
           o == FoldedEdges(d, m, t)
<1>1. ASSUME NEW e \in EdgeSet(d)
      PROVE  Folded(d, e, m, t) \in EdgeRecords /\ Folded(d, e, m, t).id = e.id
  BY FoldedIs
<1>2. /\ DOMAIN d.edges = 1..Len(d.edges) /\ Len(d.edges) \in Nat
      /\ \A i \in DOMAIN d.edges : d.edges[i] \in EdgeSet(d) /\ d.edges[i].id < n
      /\ \A i, j \in DOMAIN d.edges : d.edges[i].id = d.edges[j].id => i = j
  BY PartsOf DEF EdgeSet
<1>3. s \in Seq(EdgeRecords) /\ DOMAIN s = DOMAIN d.edges
  <2>1. s \in [1..Len(d.edges) -> EdgeRecords] /\ DOMAIN s = 1..Len(d.edges)
    BY <1>1, <1>2
  <2> HIDE DEF s
  <2> QED
    BY <1>2, <2>1
<1>4. \A i \in DOMAIN d.edges : s[i] = Folded(d, d.edges[i], m, t) /\ s[i].id = d.edges[i].id
  BY <1>1, <1>2
<1>5. I \in SUBSET (DOMAIN d.edges)
  OBVIOUS
<1>6. \A i \in DOMAIN d.edges : d.edges[i].id \notin Loops(d, m, t)
                                       /\ d.edges[i].id = Heir(d, d.edges[i].id, m, t)
                                => i \in I
  OBVIOUS
<1>7. o = Only(s, I)
  BY DEF FoldedEdges
<1> HIDE DEF s, I, o
<1>8. I \in SUBSET (DOMAIN s)
  BY <1>3, <1>5
<1>9. /\ o \in Seq(EdgeRecords)
      /\ \A k \in DOMAIN o : Place(I, k) \in I /\ o[k] = s[Place(I, k)]
      /\ \A k, l \in DOMAIN o : Place(I, k) = Place(I, l) => k = l
      /\ \A i \in I : \E k \in DOMAIN o : Place(I, k) = i
  BY <1>3, <1>7, <1>8, OnlyIs
<1>10. \A k \in DOMAIN o : /\ Place(I, k) \in DOMAIN d.edges /\ o[k].id = d.edges[Place(I, k)].id
                            /\ o[k] = Folded(d, d.edges[Place(I, k)], m, t)
  BY <1>4, <1>5, <1>9
<1>11. \A k \in DOMAIN o : o[k].id < n
  BY <1>2, <1>10
<1>12. \A k, l \in DOMAIN o : o[k].id = o[l].id => k = l
  BY <1>2, <1>9, <1>10
<1>13. \A k \in DOMAIN o : \E e \in EdgeSet(d) : o[k] = Folded(d, e, m, t)
  BY <1>2, <1>10
<1> QED
  BY <1>9, <1>11, <1>12, <1>13 DEF o

(* The first edge of a group stays. *)
LEMMA FoldedEdgeStays ==
  ASSUME NEW d, NEW n \in Nat, IsDocument(d, n), NEW m \in Nat, NEW t \in Nat, NEW e \in EdgeSet(d),
         e.id \notin Loops(d, m, t), e.id = Heir(d, e.id, m, t)
  PROVE  \E k \in DOMAIN FoldedEdges(d, m, t) : FoldedEdges(d, m, t)[k] = Folded(d, e, m, t)
<1> DEFINE s == [i \in DOMAIN d.edges |-> Folded(d, d.edges[i], m, t)]
           I == {i \in DOMAIN d.edges : /\ d.edges[i].id \notin Loops(d, m, t)
                                        /\ d.edges[i].id = Heir(d, d.edges[i].id, m, t)}
           o == FoldedEdges(d, m, t)
<1>1. PICK i \in DOMAIN d.edges : e = d.edges[i]
  BY DEF EdgeSet
<1>2. i \in I /\ I \in SUBSET (DOMAIN d.edges) /\ s[i] = Folded(d, e, m, t) /\ DOMAIN s = DOMAIN d.edges
  BY <1>1
<1>3. o = Only(s, I)
  BY DEF FoldedEdges
<1>4. s \in Seq(EdgeRecords)
  <2>1. DOMAIN d.edges = 1..Len(d.edges) /\ Len(d.edges) \in Nat
    BY PartsOf
  <2>2. \A j \in DOMAIN d.edges : Folded(d, d.edges[j], m, t) \in EdgeRecords
    BY FoldedIs DEF EdgeSet
  <2>3. s \in [1..Len(d.edges) -> EdgeRecords]
    BY <2>1, <2>2
  <2> HIDE DEF s
  <2> QED
    BY <2>1, <2>3
<1> HIDE DEF s, I, o
<1>5. /\ \A k \in DOMAIN o : o[k] = s[Place(I, k)]
      /\ \E k \in DOMAIN o : Place(I, k) = i
  BY <1>2, <1>3, <1>4, OnlyIs
<1> QED
  BY <1>2, <1>5 DEF o

(* A facet after a fold. *)
LEMMA FoldedFacetIs ==
  ASSUME NEW d, NEW n \in Nat, IsDocument(d, n), NEW m, NEW t, NEW f \in FacetRecords
  PROVE  /\ FoldedLoop(d, f, m, t) \in Seq(Nat)
         /\ FoldedFacet(d, f, m, t) \in FacetRecords
         /\ FoldedFacet(d, f, m, t).edges = IF f.edges = <<>> THEN <<>> ELSE FoldedLoop(d, f, m, t)
<1> DEFINE I == {i \in DOMAIN f.edges : f.edges[i] \in EdgeIds(d) \ Loops(d, m, t)}
           stay == Only(f.edges, I)
           path == [i \in DOMAIN stay |-> Heir(d, stay[i], m, t)]
           J == {i \in DOMAIN path : path[i] # Prev1(path, i)}
<1>1. f.edges \in Seq(Nat) /\ f.id \in Nat /\ f.verts \in Seq(Nat)
  BY DEF FacetRecords
<1>2. I \in SUBSET (DOMAIN f.edges) /\ \A i \in I : f.edges[i] \in EdgeIds(d)
  OBVIOUS
<1>3. FoldedLoop(d, f, m, t) = Only(path, J)
  BY DEF FoldedLoop, Collapsed
<1>4. J \in SUBSET (DOMAIN path)
  OBVIOUS
<1> HIDE DEF I, J
<1>5. /\ DOMAIN stay = 1..Cardinality(I) /\ Cardinality(I) \in Nat
      /\ \A k \in DOMAIN stay : Place(I, k) \in I /\ stay[k] = f.edges[Place(I, k)]
  BY <1>1, <1>2, OnlyIs
<1> HIDE DEF stay
<1>6. \A k \in DOMAIN stay : Heir(d, stay[k], m, t) \in Nat
  <2> TAKE k \in DOMAIN stay
  <2>1. stay[k] \in EdgeIds(d)
    BY <1>2, <1>5
  <2>2. EdgeOf(d, stay[k]) \in EdgeSet(d) /\ EdgeOf(d, stay[k]).id = stay[k]
    BY <2>1, EdgeOfIs
  <2> QED
    BY <2>2, GroupIs
<1>7. path \in Seq(Nat)
  <2>1. path \in [1..Cardinality(I) -> Nat]
    BY <1>5, <1>6
  <2> HIDE DEF path
  <2> QED
    BY <1>5, <2>1
<1> HIDE DEF path
<1>8. FoldedLoop(d, f, m, t) \in Seq(Nat)
  BY <1>3, <1>4, <1>7, OnlyIs
<1>9. FoldedFacet(d, f, m, t) \in FacetRecords
      /\ FoldedFacet(d, f, m, t).edges = IF f.edges = <<>> THEN <<>> ELSE FoldedLoop(d, f, m, t)
  <2>1. CASE f.edges = <<>>
    BY <2>1 DEF FoldedFacet
  <2>2. CASE f.edges # <<>>
    <3>1. <<>> \in Seq(Nat)
      OBVIOUS
    <3>2. FoldedFacet(d, f, m, t) = [f EXCEPT !.edges = FoldedLoop(d, f, m, t), !.verts = <<>>]
      BY <2>2 DEF FoldedFacet
    <3> QED
      BY <1>8, <2>2, <3>1, <3>2 DEF FacetRecords
  <2> QED
    BY <2>1, <2>2
<1> QED
  BY <1>8, <1>9

(* mergeVertices. *)
LEMMA MergeGood ==
  ASSUME NEW d, NEW n \in Nat, Good(d, n), NEW m \in DOMAIN d.at, NEW t \in DOMAIN d.at, CanMerge(d, m, t)
  PROVE  /\ Good(Merge(d, m, t), n)
         /\ Merge(d, m, t).edges = FoldedEdges(d, m, t)
         /\ Merge(d, m, t).facets = [i \in DOMAIN d.facets |-> FoldedFacet(d, d.facets[i], m, t)]
         /\ Merge(d, m, t).mode = "connected"
<1> DEFINE edges == FoldedEdges(d, m, t)
           gone == EdgeIds(d) \ {edges[i].id : i \in DOMAIN edges}
           at == [x \in DOMAIN d.at \ {m} |-> d.at[x]]
           facets == [i \in DOMAIN d.facets |-> FoldedFacet(d, d.facets[i], m, t)]
           kept == DropKept(d, gone \cup IdsAt(d, m))
           a == Merge(d, m, t)
<1>1. IsDocument(d, n) /\ m \in Nat /\ t \in Nat /\ d.mode = "connected" /\ Accepted(d, a)
  BY PartsOf DEF Good, CanMerge, a
<1>2. a = [d EXCEPT !.at = at, !.edges = edges, !.facets = facets, !.kept = kept]
  BY DEF Merge
<1>3. kept \in SUBSET Decisions
  BY <1>1, PartsOf DEF DropKept
<1>4. at \in [DOMAIN at -> Points] /\ DOMAIN at \subseteq Nat
  BY <1>1, PartsOf
<1>5. facets \in Seq(FacetRecords)
  <2>1. DOMAIN d.facets = 1..Len(d.facets) /\ Len(d.facets) \in Nat
    BY <1>1, PartsOf
  <2>2. \A i \in DOMAIN d.facets : FoldedFacet(d, d.facets[i], m, t) \in FacetRecords
    BY <1>1, PartsOf, FoldedFacetIs
  <2>3. facets \in [1..Len(d.facets) -> FacetRecords]
    BY <2>1, <2>2
  <2> HIDE DEF facets
  <2> QED
    BY <2>1, <2>3
<1> HIDE DEF kept, a, at, facets
<1>6. edges \in Seq(EdgeRecords)
  BY <1>1, FoldedEdgesAre
<1>7. \A k \in DOMAIN edges : edges[k].id < n
  BY <1>1, FoldedEdgesAre
<1>8. \A k, l \in DOMAIN edges : edges[k].id = edges[l].id => k = l
  BY <1>1, FoldedEdgesAre
<1> HIDE DEF edges
<1>9. a = [mode |-> d.mode, at |-> at, edges |-> edges, facets |-> facets, kept |-> kept]
  BY ZenonT(60), <1>1, <1>2, ReplacedAll
<1>10. IsDocument([mode |-> d.mode, at |-> at, edges |-> edges, facets |-> facets, kept |-> kept], n)
  <2>1. d.mode \in Modes
    BY <1>1, PartsOf
  <2> QED
    BY <1>3, <1>4, <1>5, <1>6, <1>7, <1>8, <2>1, PartsMake
<1>11. IsDocument(a, n) /\ a.mode = "connected" /\ a.edges = edges /\ a.facets = facets
  BY <1>1, <1>9, <1>10
<1>12. Good(a, n)
  BY <1>1, <1>11, GateKeepsReferences
<1> QED
  BY <1>11, <1>12 DEF a, edges, facets

(* A facet in which two edges became one. *)
LEMMA JoinedFacetIs ==
  ASSUME NEW f \in FacetRecords, NEW a \in EdgeRecords, NEW b
  PROVE  JoinedFacet(f, a, b) \in FacetRecords
<1> DEFINE path == [i \in DOMAIN f.edges |-> IF f.edges[i] = b.id THEN a.id ELSE f.edges[i]]
           J == {i \in DOMAIN path : path[i] # Prev1(path, i)}
<1>1. f.edges \in Seq(Nat) /\ f.id \in Nat /\ f.verts \in Seq(Nat) /\ a.id \in Nat
  BY DEF FacetRecords, EdgeRecords
<1>2. CASE {a.id, b.id} \cap ToSet(f.edges) = {}
  BY <1>2 DEF JoinedFacet
<1>3. CASE {a.id, b.id} \cap ToSet(f.edges) # {}
  <2>1. JoinedFacet(f, a, b) = [f EXCEPT !.edges = Only(path, J), !.verts = <<>>]
    BY <1>3 DEF JoinedFacet, Collapsed
  <2>2. path \in [1..Len(f.edges) -> Nat] /\ Len(f.edges) \in Nat
    BY <1>1
  <2>3. J \in SUBSET (DOMAIN path)
    OBVIOUS
  <2> HIDE DEF J, path
  <2>4. path \in Seq(Nat)
    BY <2>2
  <2>5. Only(path, J) \in Seq(Nat) /\ <<>> \in Seq(Nat)
    BY <2>3, <2>4, OnlyIs
  <2> QED
    BY <2>1, <2>5 DEF FacetRecords
<1> QED
  BY <1>2, <1>3

(* joinEdges. *)
LEMMA JoinGood ==
  ASSUME NEW d, NEW n \in Nat, Good(d, n), NEW a \in EdgeSet(d), NEW b \in EdgeSet(d), NEW type,
         CanJoin(d, a, b, type)
  PROVE  Good(Join(d, a, b, type), n)
<1> DEFINE mid == Middle(a, b)
           one == [id |-> a.id, v1 |-> Far(a, mid), v2 |-> Far(b, mid), type |-> type, held |-> FALSE]
           I == {i \in DOMAIN d.edges : d.edges[i].id \notin {a.id, b.id}}
           o == Only(d.edges, I)
           edges == Append(o, one)
           at == [x \in DOMAIN d.at \ {mid} |-> d.at[x]]
           facets == [i \in DOMAIN d.facets |-> JoinedFacet(d.facets[i], a, b)]
           kept == DropKept(d, {a.id, b.id})
           h == Join(d, a, b, type)
           k == Len(o)
<1>1. IsDocument(d, n) /\ d.mode = "connected" /\ Accepted(d, h) /\ type \in JoinTypes(a, b)
  BY DEF Good, CanJoin, h
<1>2. a \in EdgeRecords /\ b \in EdgeRecords /\ a.id < n
  BY <1>1, EdgeOfIs
<1>3. h = [d EXCEPT !.at = at, !.edges = edges, !.facets = facets, !.kept = kept]
  BY DEF Join
<1>4. kept \in SUBSET Decisions
  BY <1>1, PartsOf DEF DropKept
<1>5. at \in [DOMAIN at -> Points] /\ DOMAIN at \subseteq Nat
  BY <1>1, PartsOf
<1>6. facets \in Seq(FacetRecords)
  <2>1. DOMAIN d.facets = 1..Len(d.facets) /\ Len(d.facets) \in Nat
    BY <1>1, PartsOf
  <2>2. \A i \in DOMAIN d.facets : JoinedFacet(d.facets[i], a, b) \in FacetRecords
    BY <1>1, <1>2, PartsOf, JoinedFacetIs
  <2>3. facets \in [1..Len(d.facets) -> FacetRecords]
    BY <2>1, <2>2
  <2> HIDE DEF facets
  <2> QED
    BY <2>1, <2>3
<1>7. type \in EdgeTypes
  <2>1. a.type \in EdgeTypes /\ b.type \in EdgeTypes
    BY <1>2 DEF EdgeRecords
  <2> QED
    BY <1>1, <2>1 DEF JoinTypes, Classes
<1>8. one \in EdgeRecords /\ one.id = a.id
  <2>1. Far(a, mid) \in Nat /\ Far(b, mid) \in Nat /\ a.id \in Nat
    BY <1>2 DEF Far, EdgeRecords
  <2> HIDE DEF mid
  <2> QED
    BY <1>7, <2>1 DEF EdgeRecords
<1>9. I \in SUBSET (DOMAIN d.edges)
  OBVIOUS
<1>10. \A i \in I : d.edges[i].id # a.id
  OBVIOUS
<1> HIDE DEF kept, h, at, facets, one, I
<1>11. o \in Seq(EdgeRecords)
  BY <1>1, <1>9, SomeEdges
<1>12. \A i \in DOMAIN o : o[i].id < n
  BY <1>1, <1>9, SomeEdges
<1>13. \A i, j \in DOMAIN o : o[i].id = o[j].id => i = j
  BY <1>1, <1>9, SomeEdges
<1>14. \A i \in DOMAIN o : o[i].id # a.id
  <2>1. \A i \in DOMAIN o : \E j \in I : o[i] = d.edges[j]
    BY <1>1, <1>9, SomeEdges
  <2> QED
    BY <1>10, <2>1
<1> HIDE DEF o
<1>15. /\ edges \in Seq(EdgeRecords) /\ DOMAIN edges = 1..(k + 1) /\ k \in Nat /\ DOMAIN o = 1..k
       /\ \A i \in 1..k : edges[i] = o[i]
       /\ edges[k + 1] = one
  BY <1>8, <1>11
<1> HIDE DEF edges, k
<1>16. \A i \in 1..(k + 1) : i \in 1..k \/ i = k + 1
  BY <1>15
<1>17. \A i \in DOMAIN edges : edges[i].id < n
  <2> TAKE i \in DOMAIN edges
  <2>1. CASE i \in 1..k
    BY <1>12, <1>15, <2>1
  <2>2. CASE i = k + 1
    BY <1>2, <1>8, <1>15, <2>2
  <2> QED
    BY <1>15, <1>16, <2>1, <2>2
<1>18. \A i, j \in DOMAIN edges : edges[i].id = edges[j].id => i = j
  <2>1. \A i \in 1..k : edges[i].id # edges[k + 1].id
    BY <1>8, <1>14, <1>15
  <2>2. \A i, j \in 1..k : edges[i].id = edges[j].id => i = j
    BY <1>13, <1>15
  <2> QED
    BY <1>15, <1>16, <2>1, <2>2
<1>19. h = [mode |-> d.mode, at |-> at, edges |-> edges, facets |-> facets, kept |-> kept]
  BY ZenonT(60), <1>1, <1>3, ReplacedAll
<1>20. IsDocument([mode |-> d.mode, at |-> at, edges |-> edges, facets |-> facets, kept |-> kept], n)
  <2>1. d.mode \in Modes /\ edges \in Seq(EdgeRecords)
    BY <1>1, <1>15, PartsOf
  <2> QED
    BY <1>4, <1>5, <1>6, <1>17, <1>18, <2>1, PartsMake
<1>21. IsDocument(h, n) /\ h.mode = "connected"
  BY <1>1, <1>19, <1>20
<1> QED
  BY <1>1, <1>21, GateKeepsReferences DEF h

-----------------------------------------------------------------------------
(* The canvas: the undo and redo stacks, the chain and the ring. *)
Documents == [mode : Modes, at : UNION {[V -> Points] : V \in SUBSET Nat}, edges : Seq(EdgeRecords),
              facets : Seq(FacetRecords), kept : SUBSET Decisions]
Stack(s, n) == s \in Seq(Documents) /\ \A i \in DOMAIN s : Good(s[i], n)

DocumentsGood == ids \in Nat /\ FirstId <= ids /\ Good(doc, ids) /\ Stack(past, ids) /\ Stack(future, ids)
ChainOnCanvas == chain # Null => tool = "draw" /\ chain \in DOMAIN doc.at
RingOnCanvas ==
    /\ ring \in Seq(Nat)
    /\ \/ ring = <<>>
       \/ tool = "draw" /\ shown = "manual"
       \/ /\ tool = "facet" /\ shown = "connected" /\ ToSet(ring) \subseteq EdgeIds(doc)
          /\ ClosedLoop([i \in DOMAIN ring |-> EdgeOf(doc, ring[i])])
CanvasInv == DocumentsGood /\ ChainOnCanvas /\ RingOnCanvas

(* A document of the canvas is one the stacks may hold. *)
LEMMA GoodIsDocument ==
  ASSUME NEW d, NEW n \in Nat, Good(d, n)
  PROVE  d \in Documents
<1>1. /\ d = [mode |-> d.mode, at |-> d.at, edges |-> d.edges, facets |-> d.facets, kept |-> d.kept]
      /\ d.mode \in Modes /\ d.edges \in Seq(EdgeRecords) /\ d.facets \in Seq(FacetRecords)
      /\ d.kept \in SUBSET Decisions /\ DOMAIN d.at \subseteq Nat /\ d.at \in [DOMAIN d.at -> Points]
  BY PartsOf DEF Good
<1>2. d.at \in UNION {[V -> Points] : V \in SUBSET Nat}
  BY <1>1
<1> QED
  BY <1>1, <1>2 DEF Documents

(* The stacks stay stacks of documents when one is pushed, at either end, or popped. *)
LEMMA StackLater ==
  ASSUME NEW n \in Nat, NEW m \in Nat, n <= m, NEW s, Stack(s, n)
  PROVE  Stack(s, m)
BY LaterIdsGood DEF Stack

(* Pushed, at the top or at the bottom. *)
LEMMA StackPush ==
  ASSUME NEW n \in Nat, NEW s, Stack(s, n), NEW d, Good(d, n)
  PROVE  Stack(Append(s, d), n) /\ Stack(<<d>> \o s, n)
<1>1. d \in Documents /\ s \in Seq(Documents) /\ \A i \in DOMAIN s : Good(s[i], n)
  BY GoodIsDocument DEF Stack
<1>2. /\ Append(s, d) \in Seq(Documents) /\ DOMAIN Append(s, d) = 1..(Len(s) + 1)
      /\ \A i \in 1..(Len(s) + 1) : Append(s, d)[i] = d \/ (i \in DOMAIN s /\ Append(s, d)[i] = s[i])
  BY <1>1
<1>3. <<d>> \in Seq(Documents) /\ Len(<<d>>) = 1 /\ <<d>>[1] = d
  BY <1>1
<1>4. /\ <<d>> \o s \in Seq(Documents) /\ DOMAIN (<<d>> \o s) = 1..(Len(s) + 1)
      /\ \A i \in 1..(Len(s) + 1) :
            (<<d>> \o s)[i] = d \/ (i - 1 \in DOMAIN s /\ (<<d>> \o s)[i] = s[i - 1])
  BY <1>1, <1>3
<1>5. Stack(Append(s, d), n)
  BY <1>1, <1>2 DEF Stack
<1>6. Stack(<<d>> \o s, n)
  BY <1>1, <1>4 DEF Stack
<1> QED
  BY <1>5, <1>6

(* Popped, at either end. *)
LEMMA StackPop ==
  ASSUME NEW n \in Nat, NEW s, Stack(s, n), s # <<>>
  PROVE  /\ Good(Last(s), n) /\ Stack(Front(s), n)
         /\ Good(Head(s), n) /\ Stack(Tail(s), n)
<1>1. s \in Seq(Documents) /\ \A i \in DOMAIN s : Good(s[i], n)
  BY DEF Stack
<1>2. Len(s) \in Nat /\ Len(s) >= 1 /\ DOMAIN s = 1..Len(s)
  BY <1>1
<1>3. Last(s) = s[Len(s)] /\ Front(s) = SubSeq(s, 1, Len(s) - 1)
  BY DEF Last, Front
<1>4. /\ SubSeq(s, 1, Len(s) - 1) \in Seq(Documents) /\ DOMAIN SubSeq(s, 1, Len(s) - 1) = 1..(Len(s) - 1)
      /\ \A i \in 1..(Len(s) - 1) : SubSeq(s, 1, Len(s) - 1)[i] = s[i]
  BY <1>1, <1>2
<1>5. /\ Tail(s) \in Seq(Documents) /\ DOMAIN Tail(s) = 1..(Len(s) - 1)
      /\ \A i \in 1..(Len(s) - 1) : Tail(s)[i] = s[i + 1]
  BY <1>1, <1>2
<1>6. Good(Last(s), n) /\ Good(Head(s), n)
  BY <1>1, <1>2, <1>3
<1>7. Stack(Front(s), n)
  BY <1>1, <1>2, <1>3, <1>4 DEF Stack
<1>8. Stack(Tail(s), n)
  BY <1>1, <1>2, <1>5 DEF Stack
<1> QED
  BY <1>6, <1>7, <1>8

(* One edit: the stacks take the old document, and the new one has ids below the next fresh one. *)
LEMMA CommitGood ==
  ASSUME DocumentsGood, NEW d, Good(d, ids + 4), Commit(d)
  PROVE  DocumentsGood'
<1>1. ids \in Nat /\ FirstId <= ids /\ Good(doc, ids) /\ Stack(past, ids) /\ FirstId \in Nat
  BY GraphAssumption DEF DocumentsGood
<1>2. /\ past' = Append(past, doc) /\ future' = <<>> /\ doc' = d /\ ids' = ids + 4
  BY DEF Commit
<1>3. ids + 4 \in Nat /\ ids <= ids + 4 /\ FirstId <= ids + 4
  BY <1>1
<1>4. Stack(Append(past, doc), ids + 4)
  BY <1>1, <1>3, StackPush, StackLater
<1>5. Stack(<<>>, ids + 4)
  BY DEF Stack
<1> QED
  BY <1>1, <1>2, <1>3, <1>4, <1>5 DEF DocumentsGood

(* An edit under the select tool, where nothing is being built. *)
LEMMA EditGood ==
  ASSUME CanvasInv, tool = "select", NEW d, Good(d, ids + 4), Edit(d)
  PROVE  CanvasInv'
<1>1. Commit(d) /\ UNCHANGED <<shown, tool, chain, ring>>
  BY DEF Edit
<1>2. DocumentsGood'
  BY <1>1, CommitGood DEF CanvasInv
<1>3. chain = Null /\ ring = <<>>
  BY DEF CanvasInv, ChainOnCanvas, RingOnCanvas
<1> QED
  BY <1>1, <1>2, <1>3 DEF CanvasInv, ChainOnCanvas, RingOnCanvas

(* What the edits are made from: the document as it is, and the ids to come. *)
LEMMA CanvasFacts ==
  ASSUME CanvasInv
  PROVE  /\ ids \in Nat /\ Good(doc, ids) /\ IsDocument(doc, ids) /\ DOMAIN doc.at \subseteq Nat
         /\ ids + 1 \in Nat /\ ids + 3 \in Nat /\ ids + 4 \in Nat
         /\ \A d : Good(d, ids) => Good(d, ids + 4)
         /\ \A d : Good(d, ids + 3) => Good(d, ids + 4)
<1>1. ids \in Nat /\ Good(doc, ids)
  BY DEF CanvasInv, DocumentsGood
<1>2. IsDocument(doc, ids) /\ DOMAIN doc.at \subseteq Nat
  BY <1>1, PartsOf DEF Good
<1>3. ids + 1 \in Nat /\ ids + 3 \in Nat /\ ids + 4 \in Nat /\ ids <= ids + 4 /\ ids + 3 <= ids + 4
  BY <1>1
<1> QED
  BY <1>1, <1>2, <1>3, LaterIdsGood

(* The first edge of the document under a point is an edge of the document. *)
LEMMA FirstUnderIs ==
  ASSUME CanvasInv, NEW is \in SUBSET (DOMAIN doc.edges), is # {}
  PROVE  FirstUnder(doc, is) \in EdgeSet(doc)
<1>1. is \in SUBSET Nat
  <2>1. DOMAIN doc.edges = 1..Len(doc.edges) /\ Len(doc.edges) \in Nat
    BY CanvasFacts, PartsOf
  <2> QED
    BY <2>1
<1>2. Min(is) \in is
  BY <1>1, LeastIs
<1> QED
  BY <1>2 DEF FirstUnder, EdgeSet

(* The canvas opens a document of the store, with nothing undone and nothing being built. *)
LEMMA InitHolds == Init => CanvasInv
<1> SUFFICES ASSUME Init PROVE CanvasInv
  OBVIOUS
<1>1. ids = FirstId /\ FirstId \in Nat /\ doc \in Sketches
      /\ past = <<>> /\ future = <<>> /\ chain = Null /\ ring = <<>>
  BY GraphAssumption DEF Init
<1>2. Good(doc, ids)
  BY <1>1, SketchAssumption DEF Good
<1>3. Stack(<<>>, ids)
  BY DEF Stack
<1> QED
  BY <1>1, <1>2, <1>3 DEF CanvasInv, DocumentsGood, ChainOnCanvas, RingOnCanvas

(* The tools. *)
LEMMA PickToolKeeps ==
  ASSUME CanvasInv, NEW t, PickTool(t)
  PROVE  CanvasInv'
<1>1. UNCHANGED <<doc, past, future, ids>> /\ chain' = Null /\ ring' = <<>>
  BY DEF PickTool, Idle
<1> QED
  BY <1>1 DEF CanvasInv, DocumentsGood, ChainOnCanvas, RingOnCanvas

(* Switching the mode forgets what was being built. *)
LEMMA SwitchModeKeeps ==
  ASSUME CanvasInv, SwitchMode
  PROVE  CanvasInv'
<1> DEFINE m == IF shown = "manual" THEN "connected" ELSE "manual"
<1>1. Commit([doc EXCEPT !.mode = m]) /\ chain' = Null /\ ring' = <<>>
  BY DEF SwitchMode
<1>2. m \in Modes
  BY DEF Modes
<1> HIDE DEF m
<1>3. Good([doc EXCEPT !.mode = m], ids + 4)
  BY <1>2, CanvasFacts, ModeGood
<1>4. DocumentsGood'
  BY <1>1, <1>3, CommitGood DEF CanvasInv
<1> QED
  BY <1>1, <1>4 DEF CanvasInv, ChainOnCanvas, RingOnCanvas

(* The ring picked by the facet tool names edges of the document that thread a loop. *)
LEMMA PickLoopKeeps ==
  ASSUME CanvasInv, PickLoop
  PROVE  CanvasInv'
<1>1. PICK n \in 3..MaxRing : \E f \in [1..n -> DOMAIN doc.edges] :
        /\ ClosedLoop([i \in 1..n |-> doc.edges[f[i]]])
        /\ ring' = [i \in 1..n |-> doc.edges[f[i]].id]
  BY DEF PickLoop
<1>2. PICK f \in [1..n -> DOMAIN doc.edges] :
        /\ ClosedLoop([i \in 1..n |-> doc.edges[f[i]]])
        /\ ring' = [i \in 1..n |-> doc.edges[f[i]].id]
  BY <1>1
<1>3. tool = "facet" /\ shown = "connected" /\ UNCHANGED <<tool, chain, doc, past, future, shown, ids>>
  BY DEF PickLoop, Idle
<1>4. n \in Nat
  BY GraphAssumption
<1>5. \A i \in 1..n : /\ doc.edges[f[i]] \in EdgeSet(doc) /\ doc.edges[f[i]].id \in EdgeIds(doc)
                      /\ doc.edges[f[i]].id \in Nat
                      /\ EdgeOf(doc, doc.edges[f[i]].id) = doc.edges[f[i]]
  <2> TAKE i \in 1..n
  <2>1. doc.edges[f[i]] \in EdgeSet(doc)
    BY <1>2 DEF EdgeSet
  <2> QED
    BY <2>1, CanvasFacts, EdgeOfIs DEF EdgeRecords
<1>6. ring' \in Seq(Nat) /\ DOMAIN ring' = 1..n
  BY <1>2, <1>4, <1>5
<1>7. ToSet(ring') \subseteq EdgeIds(doc)
  BY <1>2, <1>5, <1>6 DEF ToSet
<1>8. [i \in DOMAIN ring' |-> EdgeOf(doc, ring'[i])] = [i \in 1..n |-> doc.edges[f[i]]]
  BY <1>2, <1>5, <1>6
<1>9. ClosedLoop([i \in DOMAIN ring' |-> EdgeOf(doc, ring'[i])])
  BY <1>2, <1>8
<1>10. (tool = "facet" /\ shown = "connected" /\ ToSet(ring) \subseteq EdgeIds(doc)
        /\ ClosedLoop([i \in DOMAIN ring |-> EdgeOf(doc, ring[i])]))'
  BY <1>3, <1>7, <1>9
<1>11. RingOnCanvas'
  BY <1>6, <1>10 DEF RingOnCanvas
<1> QED
  BY <1>3, <1>11 DEF CanvasInv, DocumentsGood, ChainOnCanvas

(* The facet made of the ring is one whose loop is closed, or one without edges. *)
LEMMA CommitFacetKeeps ==
  ASSUME CanvasInv, CommitFacet
  PROVE  CanvasInv'
<1> DEFINE d == IF shown = "manual" THEN AddFacet(doc, ids, <<>>, ring) ELSE AddFacet(doc, ids, ring, <<>>)
<1>1. Len(ring) >= 3 /\ Commit(d) /\ ring' = <<>> /\ chain' = Null
  BY DEF CommitFacet
<1>2. ring \in Seq(Nat) /\ <<>> \in Seq(Nat) /\ ring # <<>>
  BY <1>1 DEF CanvasInv, RingOnCanvas
<1>3. Good(d, ids)
  <2>1. CASE shown = "manual"
    BY <1>2, <2>1, CanvasFacts, AddFacetGood
  <2>2. CASE shown # "manual"
    <3>1. /\ ToSet(ring) \subseteq EdgeIds(doc)
          /\ ClosedLoop([i \in DOMAIN ring |-> EdgeOf(doc, ring[i])])
      BY <1>2, <2>2 DEF CanvasInv, RingOnCanvas
    <3> QED
      BY <1>2, <2>2, <3>1, CanvasFacts, AddFacetGood
  <2> QED
    BY <2>1, <2>2
<1> HIDE DEF d
<1>4. DocumentsGood'
  BY <1>1, <1>3, CanvasFacts, CommitGood DEF CanvasInv
<1> QED
  BY <1>1, <1>4 DEF CanvasInv, ChainOnCanvas, RingOnCanvas

(* Drawing. *)
LEMMA DrawOnVertexKeeps ==
  ASSUME CanvasInv, NEW p, DrawOnVertex(p)
  PROVE  CanvasInv'
<1>1. PICK v \in VertexAt(doc, p) :
        /\ chain # Null => Commit(AddEdge(doc, chain, v, ids))
        /\ chain = Null => UNCHANGED <<client, doc, past, future, ids, acts>>
        /\ chain' = v /\ chain # v
  BY DEF DrawOnVertex
<1>2. tool = "draw" /\ shown = "connected" /\ UNCHANGED <<shown, tool, ring>>
  BY DEF DrawOnVertex
<1>3. v \in DOMAIN doc.at
  BY DEF VertexAt
<1>4. ring = <<>>
  BY <1>2 DEF CanvasInv, RingOnCanvas
<1>5. CASE chain = Null
  BY <1>1, <1>2, <1>3, <1>4, <1>5 DEF CanvasInv, DocumentsGood, ChainOnCanvas, RingOnCanvas
<1>6. CASE chain # Null
  <2> DEFINE d == AddEdge(doc, chain, v, ids)
  <2>1. chain \in DOMAIN doc.at
    BY <1>6 DEF CanvasInv, ChainOnCanvas
  <2>2. ids <= ids /\ ids < ids + 4
    BY CanvasFacts
  <2>3. Good(d, ids + 4) /\ d.at = doc.at
    BY <1>3, <2>1, <2>2, CanvasFacts, AddEdgeGood
  <2>4. Commit(d)
    BY <1>1, <1>6
  <2> HIDE DEF d
  <2>5. DocumentsGood' /\ doc' = d
    BY <2>3, <2>4, CommitGood DEF CanvasInv, Commit
  <2> QED
    BY <1>1, <1>2, <1>3, <1>4, <2>3, <2>5 DEF CanvasInv, ChainOnCanvas, RingOnCanvas
<1> QED
  BY <1>5, <1>6

(* A point drawn on an edge splits it, and is joined to the chain. *)
LEMMA DrawOnEdgeKeeps ==
  ASSUME CanvasInv, NEW p \in Points, DrawOnEdge(p)
  PROVE  CanvasInv'
<1> DEFINE e == FirstUnder(doc, EdgesUnder(doc, p))
           halved == Split(doc, e, p, ids)
           d == IF chain = Null THEN halved ELSE AddEdge(halved, chain, ids, ids + 3)
<1>1. /\ tool = "draw" /\ shown = "connected" /\ UNCHANGED <<shown, tool, ring>>
      /\ EdgesUnder(doc, p) # {} /\ CanSplit(doc, e, p, ids) /\ Commit(d) /\ chain' = ids
  BY DEF DrawOnEdge
<1>2. e \in EdgeSet(doc)
  BY <1>1, FirstUnderIs DEF EdgesUnder
<1> HIDE DEF e
<1>3. Good(halved, ids + 3) /\ ids \in DOMAIN halved.at /\ DOMAIN doc.at \subseteq DOMAIN halved.at
  BY <1>1, <1>2, CanvasFacts, SplitGood
<1> HIDE DEF halved
<1>4. Good(d, ids + 4) /\ ids \in DOMAIN d.at
  <2>1. CASE chain = Null
    BY <1>3, <2>1, CanvasFacts
  <2>2. CASE chain # Null
    <3>1. chain \in DOMAIN halved.at
      BY <1>3, <2>2 DEF CanvasInv, ChainOnCanvas
    <3>2. ids + 3 <= ids + 3 /\ ids + 3 < ids + 4
      BY CanvasFacts
    <3>3. Good(AddEdge(halved, chain, ids, ids + 3), ids + 4)
           /\ AddEdge(halved, chain, ids, ids + 3).at = halved.at
      BY <1>3, <3>1, <3>2, CanvasFacts, AddEdgeGood
    <3> QED
      BY <1>3, <2>2, <3>3
  <2> QED
    BY <2>1, <2>2
<1> HIDE DEF d
<1>5. DocumentsGood' /\ doc' = d
  BY <1>1, <1>4, CommitGood DEF CanvasInv, Commit
<1>6. ring = <<>>
  BY <1>1 DEF CanvasInv, RingOnCanvas
<1> QED
  BY <1>1, <1>4, <1>5, <1>6 DEF CanvasInv, ChainOnCanvas, RingOnCanvas

(* A point drawn elsewhere is a new vertex, joined to the chain. *)
LEMMA DrawFreeKeeps ==
  ASSUME CanvasInv, NEW p \in Points, DrawFree(p)
  PROVE  CanvasInv'
<1> DEFINE placed == AddVertex(doc, ids, p)
           d == IF chain = Null THEN placed ELSE AddEdge(placed, chain, ids, ids + 1)
<1>1. /\ tool = "draw" /\ shown = "connected" /\ UNCHANGED <<shown, tool, ring>>
      /\ Commit(d) /\ chain' = ids
  BY DEF DrawFree
<1>2. Good(placed, ids) /\ DOMAIN placed.at = DOMAIN doc.at \cup {ids}
  BY CanvasFacts, AddVertexGood
<1> HIDE DEF placed
<1>3. Good(d, ids + 4) /\ ids \in DOMAIN d.at
  <2>1. CASE chain = Null
    BY <1>2, <2>1, CanvasFacts
  <2>2. CASE chain # Null
    <3>1. chain \in DOMAIN placed.at /\ ids \in DOMAIN placed.at
      BY <1>2, <2>2 DEF CanvasInv, ChainOnCanvas
    <3>2. ids \in Nat /\ ids + 1 \in Nat /\ ids + 4 \in Nat /\ ids <= ids + 1 /\ ids + 1 < ids + 4
      BY CanvasFacts
    <3>3. Good(AddEdge(placed, chain, ids, ids + 1), ids + 4)
           /\ AddEdge(placed, chain, ids, ids + 1).at = placed.at
      BY ZenonT(60), <1>2, <3>1, <3>2, AddEdgeGood
    <3> QED
      BY <2>2, <3>1, <3>3
  <2> QED
    BY <2>1, <2>2
<1> HIDE DEF d
<1>4. DocumentsGood' /\ doc' = d
  BY <1>1, <1>3, CommitGood DEF CanvasInv, Commit
<1>5. ring = <<>>
  BY <1>1 DEF CanvasInv, RingOnCanvas
<1> QED
  BY <1>1, <1>3, <1>4, <1>5 DEF CanvasInv, ChainOnCanvas, RingOnCanvas

(* A corner of a polygon: an existing vertex. *)
LEMMA RingOnVertexKeeps ==
  ASSUME CanvasInv, NEW p, RingOnVertex(p)
  PROVE  CanvasInv'
<1>1. PICK v \in VertexAt(doc, p) : ring' = Append(ring, v)
  BY DEF RingOnVertex
<1>2. /\ tool = "draw" /\ shown = "manual" /\ UNCHANGED <<tool, chain, doc, past, future, shown, ids>>
  BY DEF RingOnVertex, Idle
<1>3. v \in Nat
  BY CanvasFacts DEF VertexAt
<1>4. ring' \in Seq(Nat)
  BY <1>1, <1>3 DEF CanvasInv, RingOnCanvas
<1> QED
  BY <1>2, <1>4 DEF CanvasInv, DocumentsGood, ChainOnCanvas, RingOnCanvas

(* A corner of a polygon: a new vertex. *)
LEMMA RingOnFreeKeeps ==
  ASSUME CanvasInv, NEW p \in Points, RingOnFree(p)
  PROVE  CanvasInv'
<1> DEFINE d == AddVertex(doc, ids, p)
<1>1. /\ tool = "draw" /\ shown = "manual" /\ UNCHANGED <<tool, chain, shown>>
      /\ Commit(d) /\ ring' = Append(ring, ids)
  BY DEF RingOnFree
<1>2. Good(d, ids + 4) /\ DOMAIN d.at = DOMAIN doc.at \cup {ids}
  BY CanvasFacts, AddVertexGood
<1> HIDE DEF d
<1>3. DocumentsGood' /\ doc' = d
  BY <1>1, <1>2, CommitGood DEF CanvasInv, Commit
<1>4. ring' \in Seq(Nat)
  BY <1>1, CanvasFacts DEF CanvasInv, RingOnCanvas
<1> QED
  BY <1>1, <1>2, <1>3, <1>4 DEF CanvasInv, ChainOnCanvas, RingOnCanvas

(* Dragging a vertex, and the inspector. *)
LEMMA DropOnVertexKeeps ==
  ASSUME CanvasInv, NEW p, NEW v \in DOMAIN doc.at, DropOnVertex(v, p)
  PROVE  CanvasInv'
<1>1. PICK t \in VertexAt(doc, p) : CanMerge(doc, v, t) /\ Edit(Merge(doc, v, t))
  BY DEF DropOnVertex
<1>2. t \in DOMAIN doc.at /\ tool = "select"
  BY DEF VertexAt, DropOnVertex
<1>3. Good(Merge(doc, v, t), ids + 4)
  BY <1>1, <1>2, CanvasFacts, MergeGood
<1> QED
  BY <1>1, <1>2, <1>3, EditGood

(* Dropped on an edge, the vertex is inserted into it. *)
LEMMA DropOnEdgeKeeps ==
  ASSUME CanvasInv, NEW p \in Points, NEW v \in DOMAIN doc.at, DropOnEdge(v, p)
  PROVE  CanvasInv'
<1> DEFINE e == FirstUnder(doc, Targets(v, p))
<1>1. /\ tool = "select" /\ Targets(v, p) # {}
      /\ CanInsert(doc, v, e, p, ids) /\ Edit(Insert(doc, v, e, p, ids))
  BY DEF DropOnEdge
<1>2. e \in EdgeSet(doc)
  BY <1>1, FirstUnderIs DEF Targets, EdgesUnder
<1> HIDE DEF e
<1>3. Good(Insert(doc, v, e, p, ids), ids + 4)
  BY <1>1, <1>2, CanvasFacts, InsertGood
<1> QED
  BY <1>1, <1>3, EditGood

(* Dropped elsewhere, the vertex moves. *)
LEMMA DropFreeKeeps ==
  ASSUME CanvasInv, NEW p \in Points, NEW v \in DOMAIN doc.at, DropFree(v, p)
  PROVE  CanvasInv'
<1>1. tool = "select" /\ Edit(MoveVertex(doc, v, p))
  BY DEF DropFree
<1>2. Good(MoveVertex(doc, v, p), ids + 4)
  BY CanvasFacts, MoveVertexGood
<1> QED
  BY <1>1, <1>2, EditGood

(* A double click splits an edge. *)
LEMMA DoubleClickKeeps ==
  ASSUME CanvasInv, NEW p \in Points, NEW e \in EdgeSet(doc), DoubleClick(e, p)
  PROVE  CanvasInv'
<1>1. tool = "select" /\ CanSplit(doc, e, p, ids) /\ Edit(Split(doc, e, p, ids))
  BY DEF DoubleClick
<1>2. Good(Split(doc, e, p, ids), ids + 4)
  BY <1>1, CanvasFacts, SplitGood
<1> QED
  BY <1>1, <1>2, EditGood

(* Joining two edges. *)
LEMMA JoinWithKeeps ==
  ASSUME CanvasInv, NEW a \in EdgeSet(doc), NEW b \in EdgeSet(doc), NEW type, JoinWith(a, b, type)
  PROVE  CanvasInv'
<1>1. tool = "select" /\ CanJoin(doc, a, b, type) /\ Edit(Join(doc, a, b, type))
  BY DEF JoinWith
<1>2. Good(Join(doc, a, b, type), ids + 4)
  BY <1>1, CanvasFacts, JoinGood
<1> QED
  BY <1>1, <1>2, EditGood

(* Classifying an edge. *)
LEMMA ClassifyKeeps ==
  ASSUME CanvasInv, NEW e \in EdgeSet(doc), NEW type \in EdgeTypes, Classify(e, type)
  PROVE  CanvasInv'
<1> DEFINE new == [e EXCEPT !.type = type]
<1>1. tool = "select" /\ Edit(SetEdge(doc, e, new))
  BY DEF Classify
<1>2. e \in EdgeRecords
  BY CanvasFacts, EdgeOfIs
<1>3. new \in EdgeRecords /\ new.id = e.id /\ Ends(new) = Ends(e)
  BY <1>2 DEF EdgeRecords, Ends
<1> HIDE DEF new
<1>4. Good(SetEdge(doc, e, new), ids + 4)
  BY <1>3, CanvasFacts, SetEdgeGood
<1> QED
  BY <1>1, <1>4, EditGood

(* Locking, confirming or mapping an edge. *)
LEMMA HoldKeeps ==
  ASSUME CanvasInv, NEW e \in EdgeSet(doc), Hold(e)
  PROVE  CanvasInv'
<1> DEFINE new == [e EXCEPT !.held = ~@]
<1>1. tool = "select" /\ Edit(SetEdge(doc, e, new))
  BY DEF Hold
<1>2. e \in EdgeRecords
  BY CanvasFacts, EdgeOfIs
<1>3. new \in EdgeRecords /\ new.id = e.id /\ Ends(new) = Ends(e)
  <2>1. (~e.held) \in BOOLEAN
    OBVIOUS
  <2> DEFINE b == ~e.held
  <2>2. new = [e EXCEPT !.held = b]
    OBVIOUS
  <2> HIDE DEF b, new
  <2>3. b \in BOOLEAN
    BY DEF b
  <2> QED
    BY <1>2, <2>2, <2>3 DEF EdgeRecords, Ends
<1> HIDE DEF new
<1>4. Good(SetEdge(doc, e, new), ids + 4)
  BY <1>3, CanvasFacts, SetEdgeGood
<1> QED
  BY <1>1, <1>4, EditGood

(* Keeping the length an edge has. *)
LEMMA KeepKeeps ==
  ASSUME CanvasInv, NEW e \in EdgeSet(doc), Keep(e)
  PROVE  CanvasInv'
<1> DEFINE kept == DropKept(doc, {e.id}) \cup {[edge |-> e.id, ends |-> Span(doc, e)]}
<1>1. tool = "select" /\ Edit([doc EXCEPT !.kept = kept])
  BY DEF Keep
<1>2. e.id \in Nat
  BY CanvasFacts, EdgeOfIs DEF EdgeRecords
<1>3. Span(doc, e) \in SUBSET Points
  BY CanvasFacts, PartsOf DEF Span
<1>4. DropKept(doc, {e.id}) \in SUBSET Decisions
  BY CanvasFacts, PartsOf DEF DropKept
<1>5. [edge |-> e.id, ends |-> Span(doc, e)] \in Decisions
  BY <1>2, <1>3 DEF Decisions
<1>6. kept \in SUBSET Decisions
  BY <1>4, <1>5
<1> HIDE DEF kept
<1>7. Good([doc EXCEPT !.kept = kept], ids + 4)
  BY <1>6, CanvasFacts, KeptGood
<1> QED
  BY <1>1, <1>7, EditGood

(* Deleting, which without the stale schedule happens under the select tool only. *)
LEMMA DeleteKeeps ==
  ASSUME "stale" \notin Windows, CanvasInv, NEW d, Good(d, ids), Delete(d)
  PROVE  CanvasInv'
<1>1. tool = "select" /\ Edit(d)
  BY DEF Delete, Deletable
<1>2. Good(d, ids + 4)
  BY CanvasFacts
<1> QED
  BY <1>1, <1>2, EditGood

(* Undo and redo, which without the stale schedule happen when nothing is being built. *)
LEMMA RestoreKeeps ==
  ASSUME "stale" \notin Windows, CanvasInv, NEW d, Good(d, ids),
         Restore(d), Stack(past', ids), Stack(future', ids)
  PROVE  CanvasInv'
<1>1. chain = Null /\ ring = <<>> /\ doc' = d /\ ids' = ids /\ tool' = tool
  BY DEF Restore, Building
<1>2. chain' = Null /\ ring' = <<>>
  BY <1>1 DEF Restore
<1>3. DocumentsGood'
  BY <1>1 DEF CanvasInv, DocumentsGood
<1> QED
  BY <1>2, <1>3 DEF CanvasInv, ChainOnCanvas, RingOnCanvas

(* Undo takes a document off the past stack. *)
LEMMA UndoKeeps ==
  ASSUME "stale" \notin Windows, CanvasInv, Undo
  PROVE  CanvasInv'
<1>1. Good(doc, ids) /\ Stack(past, ids) /\ Stack(future, ids) /\ ids \in Nat
  BY DEF CanvasInv, DocumentsGood
<1>2. past # <<>> /\ Restore(Last(past)) /\ past' = Front(past) /\ future' = <<doc>> \o future
  BY DEF Undo
<1>3. Good(Last(past), ids) /\ Stack(Front(past), ids)
  BY <1>1, <1>2, StackPop
<1>4. Stack(<<doc>> \o future, ids)
  BY <1>1, StackPush
<1> QED
  BY <1>2, <1>3, <1>4, RestoreKeeps

(* Redo takes a document off the future stack. *)
LEMMA RedoKeeps ==
  ASSUME "stale" \notin Windows, CanvasInv, Redo
  PROVE  CanvasInv'
<1>1. Good(doc, ids) /\ Stack(past, ids) /\ Stack(future, ids) /\ ids \in Nat
  BY DEF CanvasInv, DocumentsGood
<1>2. future # <<>> /\ Restore(Head(future)) /\ past' = Append(past, doc) /\ future' = Tail(future)
  BY DEF Redo
<1>3. Good(Head(future), ids) /\ Stack(Tail(future), ids)
  BY <1>1, <1>2, StackPop
<1>4. Stack(Append(past, doc), ids)
  BY <1>1, StackPush
<1> QED
  BY <1>2, <1>3, <1>4, RestoreKeeps

(* Every step of the canvas keeps the invariant, when the stale schedule is left out. *)
LEMMA StepKeeps ==
  ASSUME "stale" \notin Windows, CanvasInv, [Next]_vars
  PROVE  CanvasInv'
<1>1. CASE \E t \in {"select", "draw", "facet"} : PickTool(t)
  BY <1>1, PickToolKeeps
<1>2. CASE SwitchMode
  BY <1>2, SwitchModeKeeps
<1>3. CASE PickLoop
  BY <1>3, PickLoopKeeps
<1>4. CASE CommitFacet
  BY <1>4, CommitFacetKeeps
<1>5. CASE Undo
  BY <1>5, UndoKeeps
<1>6. CASE Redo
  BY <1>6, RedoKeeps
<1>7. ASSUME NEW p \in Points,
             DrawOnVertex(p) \/ DrawOnEdge(p) \/ DrawFree(p) \/ RingOnVertex(p) \/ RingOnFree(p)
      PROVE  CanvasInv'
  BY <1>7, DrawOnVertexKeeps, DrawOnEdgeKeeps, DrawFreeKeeps, RingOnVertexKeeps, RingOnFreeKeeps
<1>8. ASSUME NEW p \in Points, NEW v \in DOMAIN doc.at, DropOnVertex(v, p) \/ DropOnEdge(v, p) \/ DropFree(v, p)
      PROVE  CanvasInv'
  BY <1>8, DropOnVertexKeeps, DropOnEdgeKeeps, DropFreeKeeps
<1>9. ASSUME NEW p \in Points, NEW e \in EdgeSet(doc), DoubleClick(e, p)
      PROVE  CanvasInv'
  BY <1>9, DoubleClickKeeps
<1>10. ASSUME NEW e \in EdgeSet(doc), Hold(e) \/ Keep(e) \/ Delete(DeleteEdges(doc, {e.id}))
       PROVE  CanvasInv'
  <2>1. Good(DeleteEdges(doc, {e.id}), ids)
    BY CanvasFacts, DeleteEdgesGood
  <2> QED
    BY <1>10, <2>1, HoldKeeps, KeepKeeps, DeleteKeeps
<1>11. ASSUME NEW e \in EdgeSet(doc), NEW type \in EdgeTypes,
              Classify(e, type) \/ \E b \in EdgeSet(doc) : JoinWith(e, b, type)
       PROVE  CanvasInv'
  BY <1>11, ClassifyKeeps, JoinWithKeeps
<1>12. ASSUME NEW v \in DOMAIN doc.at, Delete(DeleteVertex(doc, v))
       PROVE  CanvasInv'
  <2>1. Good(DeleteVertex(doc, v), ids)
    BY CanvasFacts, DeleteVertexGood
  <2> QED
    BY <1>12, <2>1, DeleteKeeps
<1>13. ASSUME NEW f \in FacetSet(doc), Delete(DeleteFacet(doc, f.id))
       PROVE  CanvasInv'
  <2>1. Good(DeleteFacet(doc, f.id), ids)
    BY CanvasFacts, DeleteFacetGood
  <2> QED
    BY <1>13, <2>1, DeleteKeeps
<1>14. CASE UNCHANGED vars
  BY <1>14 DEF vars, CanvasInv, DocumentsGood, ChainOnCanvas, RingOnCanvas
<1> QED
  BY <1>1, <1>2, <1>3, <1>4, <1>5, <1>6, <1>7, <1>8, <1>9, <1>10, <1>11, <1>12, <1>13, <1>14 DEF Next

(* With the stale schedule left out, whatever is drawn, dragged, joined, deleted or undone, every *)
(* edge has its vertices, every facet its edges, and a facet's edges thread one closed loop.      *)
THEOREM ReferencesHold ==
  ASSUME "stale" \notin Windows
  PROVE  Spec => []ReferencesResolve
<1>1. CanvasInv => ReferencesResolve
  BY DEF CanvasInv, DocumentsGood, Good, ReferencesResolve
<1>2. CanvasInv /\ [Next]_vars => CanvasInv'
  BY StepKeeps
<1> QED
  BY InitHolds, <1>1, <1>2, PTL DEF Spec

-----------------------------------------------------------------------------
(* Folding a vertex onto another one: what the sketch means survives. *)

(* Of a set with at most one element all elements are the same. *)
LEMMA OneElement ==
  ASSUME NEW S, IsFiniteSet(S), Cardinality(S) <= 1, NEW x \in S, NEW y \in S
  PROVE  x = y
<1> SUFFICES ASSUME x # y PROVE FALSE
  OBVIOUS
<1> DEFINE T == S \ {x}
<1>1. IsFiniteSet(T) /\ Cardinality(T) = Cardinality(S) - 1
  BY FS_RemoveElement
<1>2. IsFiniteSet(T \ {y}) /\ Cardinality(T \ {y}) = Cardinality(T) - 1
  <2>1. y \in T
    OBVIOUS
  <2> QED
    BY <1>1, <2>1, FS_RemoveElement
<1>3. Cardinality(S) \in Nat /\ Cardinality(T \ {y}) \in Nat
  BY <1>2, FS_CardinalityType
<1> QED
  BY <1>1, <1>2, <1>3

(* The edges of a document are finitely many. *)
LEMMA EdgesAreFinite ==
  ASSUME NEW d, NEW n \in Nat, IsDocument(d, n), NEW es \in SUBSET EdgeSet(d)
  PROVE  IsFiniteSet(es) /\ IsFiniteSet(Classes(es))
<1>1. DOMAIN d.edges = 1..Len(d.edges) /\ Len(d.edges) \in Nat
  BY PartsOf
<1>2. \A x \in EdgeSet(d) : \E i \in 1..Len(d.edges) : x = d.edges[i]
  BY <1>1 DEF EdgeSet
<1>3. IsFiniteSet(EdgeSet(d))
  BY <1>1, <1>2, CoveredIsFinite
<1>4. IsFiniteSet(es)
  BY <1>3, FS_Subset
<1>5. Classes(es) \in SUBSET EdgeTypes
  <2>1. \A e \in es : e.type \in EdgeTypes
    BY EdgeOfIs DEF EdgeRecords
  <2> QED
    BY <2>1 DEF Classes
<1>6. IsFiniteSet(EdgeTypes)
  <2>1. IsFiniteSet({"unclassified", "eave", "ridge"})
    <3> DEFINE f == <<"unclassified", "eave", "ridge">>
    <3>1. DOMAIN f = 1..3 /\ f[1] = "unclassified" /\ f[2] = "eave" /\ f[3] = "ridge" /\ 3 \in Nat
      OBVIOUS
    <3> HIDE DEF f
    <3>2. \A x \in {"unclassified", "eave", "ridge"} : \E i \in 1..3 : x = f[i]
      BY <3>1
    <3> QED
      BY <3>1, <3>2, CoveredIsFinite
  <2> QED
    BY <2>1 DEF EdgeTypes
<1>7. IsFiniteSet(Classes(es))
  BY <1>5, <1>6, FS_Subset
<1> QED
  BY <1>4, <1>7

(* The edges that come to join the same two vertices agree on their classification. *)
LEMMA OneClass ==
  ASSUME NEW d, NEW n \in Nat, IsDocument(d, n), NEW m, NEW t, CanMerge(d, m, t),
         NEW e \in EdgeSet(d), ~SelfLoop(Rewired(e, m, t))
  PROVE  /\ e.type # "unclassified" => TypeOfGroup(d, Group(d, e, m, t)) = e.type
         /\ e.held => /\ \A x \in Group(d, e, m, t) : x = e
                      /\ TypeOfGroup(d, Group(d, e, m, t)) = e.type
<1> DEFINE G == Group(d, e, m, t)
<1>1. e \in G /\ G \in SUBSET EdgeSet(d)
  BY GroupIs
<1>2. \/ Classes(G) = {} /\ TypeOfGroup(d, G) = "unclassified"
      \/ TypeOfGroup(d, G) \in Classes(G)
  BY GroupIs
<1>3. Cardinality(G) > 1 => ~(\E x \in G : x.held) /\ Cardinality(Classes(G)) <= 1
  BY DEF CanMerge
<1> HIDE DEF G
<1>4. IsFiniteSet(G) /\ IsFiniteSet(Classes(G)) /\ Cardinality(G) \in Nat
  BY <1>1, EdgesAreFinite, FS_CardinalityType
<1>5. Cardinality(G) <= 1 => \A x \in G : x = e
  BY <1>1, <1>4, OneElement
<1>6. ASSUME \A x \in G : x = e
      PROVE  TypeOfGroup(d, G) = e.type
  <2>1. Classes(G) = {e.type} \ {"unclassified"}
    BY <1>1, <1>6 DEF Classes
  <2> QED
    BY <1>2, <2>1
<1>7. ASSUME e.type # "unclassified"
      PROVE  TypeOfGroup(d, G) = e.type
  <2>1. CASE Cardinality(G) <= 1
    BY <1>5, <1>6, <2>1
  <2>2. CASE Cardinality(G) > 1
    <3>1. e.type \in Classes(G)
      BY <1>1, <1>7 DEF Classes
    <3>2. TypeOfGroup(d, G) \in Classes(G)
      BY <1>2, <3>1
    <3> QED
      BY <1>3, <1>4, <2>2, <3>1, <3>2, OneElement
  <2> QED
    BY <1>4, <2>1, <2>2
<1>8. ASSUME e.held
      PROVE  (\A x \in G : x = e) /\ TypeOfGroup(d, G) = e.type
  <2>1. ~(Cardinality(G) > 1)
    BY <1>1, <1>3, <1>8
  <2> QED
    BY <1>4, <1>5, <1>6, <2>1
<1> QED
  BY <1>7, <1>8 DEF G

(* An edge that is not folded onto itself is represented by the first of its group. *)
LEMMA HeirStays ==
  ASSUME NEW d, NEW n \in Nat, IsDocument(d, n), NEW m \in Nat, NEW t \in Nat,
         NEW e \in EdgeSet(d), ~SelfLoop(Rewired(e, m, t))
  PROVE  \E x \in Group(d, e, m, t), k \in DOMAIN FoldedEdges(d, m, t) :
            /\ FoldedEdges(d, m, t)[k] = Folded(d, x, m, t)
            /\ x.id = Heir(d, e.id, m, t) /\ Folded(d, x, m, t).id = Heir(d, e.id, m, t)
            /\ Ends(Folded(d, x, m, t)) = Ends(Rewired(e, m, t))
            /\ Group(d, x, m, t) = Group(d, e, m, t)
<1> DEFINE x == FirstOf(d, Group(d, e, m, t))
<1>1. x \in Group(d, e, m, t) /\ x \in EdgeSet(d) /\ x.id = Heir(d, e.id, m, t)
  BY GroupIs
<1> HIDE DEF x
<1>2. Ends(Rewired(x, m, t)) = Ends(Rewired(e, m, t))
  BY <1>1 DEF Group
<1>3. Group(d, x, m, t) = Group(d, e, m, t)
  BY <1>2 DEF Group
<1>4. ~SelfLoop(Rewired(x, m, t))
  BY <1>2 DEF SelfLoop, Ends
<1>5. x.id \notin Loops(d, m, t)
  <2> SUFFICES ASSUME NEW y \in EdgeSet(d), SelfLoop(Rewired(y, m, t)), y.id = x.id PROVE FALSE
    BY DEF Loops
  <2>1. y = x
    BY <1>1, EdgeOfIs
  <2> QED
    BY <1>4, <2>1
<1>6. Heir(d, x.id, m, t) = x.id
  <2>1. Heir(d, x.id, m, t) = FirstOf(d, Group(d, x, m, t)).id
    BY <1>1, GroupIs
  <2> QED
    BY <1>3, <2>1 DEF x
<1>7. \E k \in DOMAIN FoldedEdges(d, m, t) : FoldedEdges(d, m, t)[k] = Folded(d, x, m, t)
  <2>1. x.id = Heir(d, x.id, m, t)
    BY <1>6
  <2> QED
    BY <1>1, <1>5, <2>1, FoldedEdgeStays
<1>8. Folded(d, x, m, t).id = x.id /\ Ends(Folded(d, x, m, t)) = Ends(Rewired(x, m, t))
  BY <1>1, FoldedIs
<1> QED
  BY <1>1, <1>2, <1>3, <1>7, <1>8

(* A mapped, locked or confirmed edge is still there, moved with its ends. *)
LEMMA HeldSurvives ==
  ASSUME NEW d, NEW n \in Nat, Good(d, n), NEW m \in DOMAIN d.at, NEW t \in DOMAIN d.at, CanMerge(d, m, t),
         NEW e \in EdgeSet(d), e.held
  PROVE  Rewired(e, m, t) \in EdgeSet(Merge(d, m, t))
<1>1. IsDocument(d, n) /\ m \in Nat /\ t \in Nat
  BY PartsOf DEF Good
<1>2. ~SelfLoop(Rewired(e, m, t))
  BY DEF CanMerge
<1>3. PICK x \in Group(d, e, m, t), k \in DOMAIN FoldedEdges(d, m, t)
          : FoldedEdges(d, m, t)[k] = Folded(d, x, m, t)
  BY <1>1, <1>2, HeirStays
<1>4. x = e /\ TypeOfGroup(d, Group(d, e, m, t)) = e.type
  BY <1>1, <1>2, OneClass
<1>5. Folded(d, e, m, t) = Rewired(e, m, t)
  <2> DEFINE r == Rewired(e, m, t)
  <2>1. e \in EdgeRecords
    BY <1>1, EdgeOfIs
  <2>2. r \in EdgeRecords /\ r.type = e.type
    <3>1. m \in Nat /\ t \in Nat
      BY <1>1
    <3>2. Rewired(e, m, t) \in EdgeRecords
      BY <2>1, <3>1, RewiredIs
    <3>3. Rewired(e, m, t).type = e.type
      BY <2>1, <3>1 DEF Rewired, EdgeRecords
    <3> QED
      BY <3>2, <3>3
  <2>3. Folded(d, e, m, t) = [r EXCEPT !.type = e.type]
    BY <1>4 DEF Folded
  <2> HIDE DEF r
  <2>4. [r EXCEPT !.type = r.type] = r
    BY <2>2 DEF EdgeRecords
  <2> QED
    BY <2>2, <2>3, <2>4 DEF r
<1>6. Merge(d, m, t).edges = FoldedEdges(d, m, t)
  BY MergeGood
<1> QED
  BY <1>3, <1>4, <1>5, <1>6 DEF EdgeSet

(* A classification is still there, on the edge that stays. *)
LEMMA ClassSurvives ==
  ASSUME NEW d, NEW n \in Nat, Good(d, n), NEW m \in DOMAIN d.at, NEW t \in DOMAIN d.at, CanMerge(d, m, t),
         NEW e \in EdgeSet(d), e.type # "unclassified", ~SelfLoop(Rewired(e, m, t))
  PROVE  \E x \in EdgeSet(Merge(d, m, t)) : Ends(x) = Ends(Rewired(e, m, t)) /\ x.type = e.type
<1>1. IsDocument(d, n) /\ m \in Nat /\ t \in Nat
  BY PartsOf DEF Good
<1>2. PICK x \in Group(d, e, m, t), k \in DOMAIN FoldedEdges(d, m, t) :
            /\ FoldedEdges(d, m, t)[k] = Folded(d, x, m, t)
            /\ Ends(Folded(d, x, m, t)) = Ends(Rewired(e, m, t))
            /\ Group(d, x, m, t) = Group(d, e, m, t)
  BY <1>1, HeirStays
<1>3. Folded(d, x, m, t).type = TypeOfGroup(d, Group(d, x, m, t))
  <2>1. x \in EdgeSet(d)
    BY <1>1, GroupIs
  <2> QED
    BY <1>1, <2>1, FoldedIs
<1>4. TypeOfGroup(d, Group(d, e, m, t)) = e.type
  BY <1>1, OneClass
<1>5. Merge(d, m, t).edges = FoldedEdges(d, m, t)
  BY MergeGood
<1> QED
  BY <1>2, <1>3, <1>4, <1>5 DEF EdgeSet

(* Two edges that share one vertex, and a loop of such edges: each edge joins two different *)
(* vertices, and the vertices of the loop are the ends of its edges.                        *)
LEMMA CornerIs ==
  ASSUME NEW a, NEW b, Cardinality(Ends(a) \cap Ends(b)) = 1
  PROVE  \E v : Ends(a) \cap Ends(b) = {v}
<1>1. IsFiniteSet({a.v1} \cup {a.v2})
  BY FS_Singleton, FS_AddElement
<1>2. Ends(a) = {a.v1} \cup {a.v2}
  BY DEF Ends
<1>3. IsFiniteSet(Ends(a))
  BY <1>1, <1>2
<1>4. IsFiniteSet(Ends(a) \cap Ends(b))
  BY <1>3, FS_Subset
<1> QED
  BY <1>4, FS_Singleton

LEMMA LoopEnds ==
  ASSUME NEW es, NEW k \in Nat, DOMAIN es = 1..k, Len(es) = k, ClosedLoop(es)
  PROVE  /\ k >= 3
         /\ \A i \in 1..k : Ends(es[i]) = Corners(es)[i] \cup Corners(es)[IF i = 1 THEN k ELSE i - 1]
         /\ \A i \in 1..k : es[i].v1 # es[i].v2
         /\ \A i \in 1..k : Cardinality(Ends(es[i]) \cap Ends(es[IF i = k THEN 1 ELSE i + 1])) = 1
<1>1. /\ k >= 3 /\ DOMAIN Corners(es) = 1..k
      /\ \A i \in 1..k : Cardinality(Corners(es)[i]) = 1
      /\ \A i, j \in 1..k : i # j => Corners(es)[i] # Corners(es)[j]
      /\ \A i \in 1..k : Corners(es)[i] = Ends(es[i]) \cap Ends(es[IF i = k THEN 1 ELSE i + 1])
  BY DEF ClosedLoop, Corners, Next1
<1>2. ASSUME NEW i \in 1..k
      PROVE  /\ Ends(es[i]) = Corners(es)[i] \cup Corners(es)[IF i = 1 THEN k ELSE i - 1]
             /\ es[i].v1 # es[i].v2
  <2> DEFINE j == IF i = 1 THEN k ELSE i - 1
             after == es[IF i = k THEN 1 ELSE i + 1]
             here == Corners(es)[i]
             back == Corners(es)[j]
  <2>1. j \in 1..k /\ j # i /\ (IF j = k THEN 1 ELSE j + 1) = i
    BY <1>1
  <2> HIDE DEF j
  <2>2. back = Ends(es[j]) \cap Ends(es[i]) /\ here = Ends(es[i]) \cap Ends(after)
    BY <1>1, <2>1
  <2>3. here # back /\ Cardinality(here) = 1 /\ Cardinality(back) = 1
    BY <1>1, <2>1
  <2> HIDE DEF here, back, after
  <2>4. PICK v : here = {v}
    BY <2>2, <2>3, CornerIs
  <2>5. PICK w : back = {w}
    BY <2>2, <2>3, CornerIs
  <2>6. Ends(es[i]) = {es[i].v1, es[i].v2}
    BY DEF Ends
  <2>7. v # w /\ v \in Ends(es[i]) /\ w \in Ends(es[i])
    BY <2>2, <2>3, <2>4, <2>5
  <2> QED
    BY <2>4, <2>5, <2>6, <2>7 DEF here, back, j
<1> QED
  BY <1>1, <1>2

(* The vertices round a facet are the ends of its edges. *)
LEMMA OutlineIs ==
  ASSUME NEW d, NEW f, f.edges \in Seq(Nat), ClosedLoop(EdgeList(d, f))
  PROVE  \A v : v \in Outline(d, f) <=> \E id \in ToSet(f.edges) : v \in Ends(EdgeOf(d, id))
<1> DEFINE es == EdgeList(d, f)
           k == Len(f.edges)
<1>1. k \in Nat /\ DOMAIN f.edges = 1..k /\ ToSet(f.edges) = {f.edges[i] : i \in 1..k}
  BY DEF ToSet
<1>2. es = [i \in 1..k |-> EdgeOf(d, f.edges[i])]
  BY <1>1 DEF EdgeList
<1>3. DOMAIN es = 1..k /\ Len(es) = k /\ \A i \in 1..k : es[i] = EdgeOf(d, f.edges[i])
  BY <1>1, <1>2
<1>4. \A v : v \in Outline(d, f) <=> \E i \in 1..k : v \in Corners(es)[i]
  BY <1>1 DEF Outline
<1>5. \A v : (\E id \in ToSet(f.edges) : v \in Ends(EdgeOf(d, id))) <=> \E i \in 1..k : v \in Ends(es[i])
  BY <1>1, <1>3
<1>6. ClosedLoop(es)
  OBVIOUS
<1> HIDE DEF es, k
<1>7. /\ k >= 3
      /\ \A i \in 1..k : Ends(es[i]) = Corners(es)[i] \cup Corners(es)[IF i = 1 THEN k ELSE i - 1]
  BY <1>1, <1>3, <1>6, LoopEnds
<1>8. \A i \in 1..k : (IF i = 1 THEN k ELSE i - 1) \in 1..k
  BY <1>1, <1>7
<1>9. \A v : (\E i \in 1..k : v \in Corners(es)[i]) <=> \E i \in 1..k : v \in Ends(es[i])
  BY <1>7, <1>8
<1> QED
  BY <1>4, <1>5, <1>9

(* Leaving out what repeats its predecessor on a cycle leaves every value, or nothing. *)
LEMMA CollapsedHas ==
  ASSUME NEW p \in Seq(Nat), Collapsed(p) # <<>>
  PROVE  ToSet(Collapsed(p)) = ToSet(p)
<1> DEFINE k == Len(p)
           J == {i \in DOMAIN p : p[i] # Prev1(p, i)}
           o == Collapsed(p)
<1>1. k \in Nat /\ DOMAIN p = 1..k /\ J \in SUBSET (DOMAIN p)
  OBVIOUS
<1>2. \A i \in 1..k : i \notin J => p[i] = p[IF i = 1 THEN k ELSE i - 1]
  BY <1>1 DEF Prev1
<1>3. o = Only(p, J)
  BY DEF Collapsed
<1> HIDE DEF J, k, o
<1>4. /\ \A l \in DOMAIN o : Place(J, l) \in J /\ o[l] = p[Place(J, l)]
      /\ \A i \in J : \E l \in DOMAIN o : Place(J, l) = i
      /\ o \in Seq(Nat) /\ DOMAIN o = 1..Cardinality(J) /\ Len(o) = Cardinality(J)
  BY <1>1, <1>3, OnlyIs
<1>5. \A x : x \in ToSet(o) <=> \E i \in J : x = p[i]
  BY <1>4 DEF ToSet
<1>6. \A x : x \in ToSet(p) <=> \E i \in 1..k : x = p[i]
  BY <1>1 DEF ToSet
<1>7. J # {}
  <2>1. o # <<>>
    BY DEF o
  <2>2. Len(o) # 0
    BY <1>4, <2>1
  <2>3. Cardinality({}) = 0
    BY FS_EmptySet
  <2>4. Cardinality(J) # 0
    BY <1>4, <2>2
  <2> QED
    BY Zenon, <2>3, <2>4
<1>8. ASSUME NEW x, \E i \in 1..k : x = p[i]
      PROVE  \E i \in J : x = p[i]
  <2> SUFFICES ASSUME \A i \in J : x # p[i] PROVE FALSE
    OBVIOUS
  <2> DEFINE S == {i \in 1..k : p[i] = x}
             C == {i \in 1..k : p[k + 1 - i] # x}
  <2>1. S \in SUBSET Nat /\ S # {} /\ \A i \in S : i \in 1..k /\ i \notin J
    BY <1>1, <1>8
  <2>2. \A i \in S : (IF i = 1 THEN k ELSE i - 1) \in S
    BY <1>1, <1>2, <2>1
  <2>3. 1 \in S
    <3> DEFINE l == Min(S)
    <3>1. l \in S /\ \A y \in S : l <= y
      BY <2>1, LeastIs
    <3> HIDE DEF l
    <3>2. l = 1 \/ l - 1 \in S
      BY <2>2, <3>1
    <3>3. l \in Nat
      BY <2>1, <3>1
    <3> QED
      BY <3>1, <3>2, <3>3
  <2>4. k \in S
    BY <2>2, <2>3
  <2>5. PICK j \in J : TRUE
    BY <1>7
  <2>6. j \in 1..k /\ p[j] # x
    BY <1>1, <2>5
  <2>7. k + 1 - j \in C /\ C \in SUBSET Nat
    BY <1>1, <2>6
  <2> DEFINE l == Min(C)
  <2>8. l \in C /\ \A y \in C : l <= y
    BY <2>7, LeastIs
  <2> HIDE DEF l
  <2>9. l \in 1..k /\ p[k + 1 - l] # x
    BY <2>8
  <2>10. l # 1
    BY <1>1, <2>4, <2>9
  <2>11. l - 1 \in 1..k /\ l - 1 \notin C
    BY <1>1, <2>8, <2>9, <2>10
  <2>12. p[k + 1 - (l - 1)] = x
    BY <2>11
  <2> DEFINE q == k + 1 - (l - 1)
  <2>13. q \in 1..k /\ q # 1 /\ q - 1 = k + 1 - l /\ p[q] = x
    BY <1>1, <2>9, <2>10, <2>12
  <2> HIDE DEF q
  <2>14. q \in S
    BY <2>13
  <2>15. q - 1 \in S
    BY <2>2, <2>13, <2>14
  <2>16. p[q - 1] = x
    BY <2>15
  <2> QED
    BY <2>9, <2>13, <2>16
<1>9. \A x : x \in ToSet(o) <=> x \in ToSet(p)
  BY <1>1, <1>5, <1>6, <1>8
<1> QED
  BY <1>9 DEF o

(* After a fold the loop of a facet names the edges that stay for its edges. *)
LEMMA FoldedLoopHas ==
  ASSUME NEW d, NEW n \in Nat, IsDocument(d, n), NEW m, NEW t, NEW f \in FacetRecords,
         ToSet(f.edges) \subseteq EdgeIds(d), FoldedLoop(d, f, m, t) # <<>>
  PROVE  \A x : x \in ToSet(FoldedLoop(d, f, m, t)) <=>
            \E id \in ToSet(f.edges) \ Loops(d, m, t) : x = Heir(d, id, m, t)
<1> DEFINE I == {i \in DOMAIN f.edges : f.edges[i] \in EdgeIds(d) \ Loops(d, m, t)}
           stay == Only(f.edges, I)
           path == [i \in DOMAIN stay |-> Heir(d, stay[i], m, t)]
<1>1. f.edges \in Seq(Nat)
  BY DEF FacetRecords
<1>2. I \in SUBSET (DOMAIN f.edges) /\ \A i \in I : f.edges[i] \in EdgeIds(d)
  OBVIOUS
<1>3. FoldedLoop(d, f, m, t) = Collapsed(path)
  BY DEF FoldedLoop
<1>4. \A i \in DOMAIN f.edges : i \in I <=> f.edges[i] \notin Loops(d, m, t)
  BY DEF ToSet
<1> HIDE DEF I
<1>5. /\ DOMAIN stay = 1..Cardinality(I) /\ Cardinality(I) \in Nat
      /\ \A k \in DOMAIN stay : Place(I, k) \in I /\ stay[k] = f.edges[Place(I, k)]
      /\ \A i \in I : \E k \in DOMAIN stay : Place(I, k) = i
  BY <1>1, <1>2, OnlyIs
<1> HIDE DEF stay
<1>6. \A k \in DOMAIN stay : Heir(d, stay[k], m, t) \in Nat
  <2> TAKE k \in DOMAIN stay
  <2>1. stay[k] \in EdgeIds(d)
    BY <1>2, <1>5
  <2>2. EdgeOf(d, stay[k]) \in EdgeSet(d) /\ EdgeOf(d, stay[k]).id = stay[k]
    BY <2>1, EdgeOfIs
  <2> QED
    BY <2>2, GroupIs
<1>7. path \in Seq(Nat)
  <2>1. path \in [1..Cardinality(I) -> Nat]
    BY <1>5, <1>6
  <2> HIDE DEF path
  <2> QED
    BY <1>5, <2>1
<1>8. DOMAIN path = DOMAIN stay /\ \A k \in DOMAIN stay : path[k] = Heir(d, stay[k], m, t)
  OBVIOUS
<1> HIDE DEF path
<1>9. ToSet(FoldedLoop(d, f, m, t)) = ToSet(path)
  BY <1>3, <1>7, CollapsedHas
<1>10. \A x : x \in ToSet(path) <=> \E k \in DOMAIN stay : x = Heir(d, stay[k], m, t)
  BY <1>8 DEF ToSet
<1>11. \A y : (\E k \in DOMAIN stay : y = stay[k]) <=> y \in ToSet(f.edges) \ Loops(d, m, t)
  BY <1>2, <1>4, <1>5 DEF ToSet
<1> QED
  BY <1>9, <1>10, <1>11

(* A sketch without errors: the edges of a facet thread a loop. *)
LEMMA SoundFacet ==
  ASSUME NEW d, Errors(d) = {}, d.mode = "connected", NEW i \in DOMAIN d.facets
  PROVE  /\ d.facets[i].edges # <<>> /\ ToSet(d.facets[i].edges) \subseteq EdgeIds(d)
         /\ ClosedLoop(EdgeList(d, d.facets[i]))
<1> DEFINE f == d.facets[i]
<1>1. FacetError(d, f) = "sound"
  <2> SUFFICES ASSUME FacetError(d, f) # "sound" PROVE FALSE
    OBVIOUS
  <2>1. <<FacetError(d, f), f.id>> \in Errors(d)
    BY DEF Errors
  <2> QED
    BY <2>1
<1> QED
  BY <1>1 DEF FacetError

(* A fold accepted on a sketch without errors leaves one. *)
LEMMA FoldStaysSound ==
  ASSUME NEW d, NEW n \in Nat, Good(d, n), NEW m \in DOMAIN d.at, NEW t \in DOMAIN d.at, CanMerge(d, m, t),
         Errors(d) = {}
  PROVE  Errors(Merge(d, m, t)) = {}
<1>1. IsDocument(Merge(d, m, t), n)
  BY MergeGood DEF Good
<1>2. Accepted(d, Merge(d, m, t))
  BY DEF CanMerge
<1>3. ASSUME NEW x \in Errors(Merge(d, m, t)) PROVE FALSE
  <2>1. \A y \in Errors(d) : y[1] # x[1]
    OBVIOUS
  <2>2. \A y \in Errors(Merge(d, m, t)) : y[1] # x[1]
    BY <1>1, <1>2, <2>1, GateAddsNoKind
  <2> QED
    BY <1>3, <2>2
<1> QED
  BY <1>3

(* Next to an edge of a loop that is folded onto itself there is one that is not, and that keeps the vertex. *)
LEMMA LoopTouches ==
  ASSUME NEW d, NEW f, f.edges \in Seq(Nat), ClosedLoop(EdgeList(d, f)), NEW m, NEW t,
         NEW id \in ToSet(f.edges),
         Ends(EdgeOf(d, id)) = {m, t}
  PROVE  \E x \in ToSet(f.edges) : /\ Ends(EdgeOf(d, x)) # {m, t}
                                   /\ m \in Ends(EdgeOf(d, x)) \/ t \in Ends(EdgeOf(d, x))
<1> DEFINE es == EdgeList(d, f)
           k == Len(f.edges)
<1>1. k \in Nat /\ DOMAIN f.edges = 1..k /\ ToSet(f.edges) = {f.edges[i] : i \in 1..k}
  BY DEF ToSet
<1>2. es = [i \in 1..k |-> EdgeOf(d, f.edges[i])]
  BY <1>1 DEF EdgeList
<1>3. DOMAIN es = 1..k /\ Len(es) = k /\ \A i \in 1..k : es[i] = EdgeOf(d, f.edges[i])
  BY <1>1, <1>2
<1>4. ClosedLoop(es)
  OBVIOUS
<1> HIDE DEF es, k
<1>5. PICK i \in 1..k : id = f.edges[i]
  BY <1>1
<1> DEFINE j == IF i = k THEN 1 ELSE i + 1
<1>6. j \in 1..k
  BY <1>1
<1>7. es[i].v1 # es[i].v2 /\ Cardinality(Ends(es[i]) \cap Ends(es[j])) = 1
  <2>1. /\ \A l \in 1..k : es[l].v1 # es[l].v2
        /\ \A l \in 1..k : Cardinality(Ends(es[l]) \cap Ends(es[IF l = k THEN 1 ELSE l + 1])) = 1
    BY <1>1, <1>3, <1>4, LoopEnds
  <2> QED
    BY <2>1
<1> HIDE DEF j
<1>8. PICK v : Ends(es[i]) \cap Ends(es[j]) = {v}
  BY <1>7, CornerIs
<1>9. Ends(es[i]) = {m, t} /\ m # t
  <2>1. Ends(es[i]) = {m, t}
    BY <1>3, <1>5
  <2> DEFINE a == es[i].v1
             b == es[i].v2
  <2>2. {a, b} = {m, t} /\ a # b
    BY <1>7, <2>1 DEF Ends
  <2> HIDE DEF a, b
  <2>3. m # t
    <3>1. a \in {m, t} /\ b \in {m, t}
      BY Zenon, <2>2
    <3> QED
      BY <2>2, <3>1
  <2> QED
    BY <2>1, <2>3
<1>10. Ends(es[j]) # {m, t} /\ (m \in Ends(es[j]) \/ t \in Ends(es[j]))
  <2> DEFINE there == Ends(es[j])
  <2>1. {m, t} \cap there = {v}
    BY <1>8, <1>9
  <2> HIDE DEF there
  <2>2. there # {m, t}
    <3> SUFFICES ASSUME there = {m, t} PROVE FALSE
      OBVIOUS
    <3>1. m \in {v} /\ t \in {v}
      BY <2>1
    <3> QED
      BY <1>9, <3>1
  <2>3. m \in there \/ t \in there
    BY <2>1
  <2> QED
    BY <2>2, <2>3 DEF there
<1>11. f.edges[j] \in ToSet(f.edges) /\ es[j] = EdgeOf(d, f.edges[j])
  BY <1>1, <1>3, <1>6
<1> QED
  BY <1>10, <1>11

(* An edge of a facet that is folded onto itself joins the two vertices. *)
LEMMA LoopIsFolded ==
  ASSUME NEW d, NEW n \in Nat, IsDocument(d, n), NEW m \in Nat, NEW t \in Nat, NEW f, f.edges \in Seq(Nat),
         ToSet(f.edges) \subseteq EdgeIds(d), ClosedLoop(EdgeList(d, f)),
         NEW id \in ToSet(f.edges), id \in Loops(d, m, t)
  PROVE  Ends(EdgeOf(d, id)) = {m, t}
<1> DEFINE es == EdgeList(d, f)
           k == Len(f.edges)
           e == EdgeOf(d, id)
<1>1. k \in Nat /\ DOMAIN f.edges = 1..k /\ ToSet(f.edges) = {f.edges[i] : i \in 1..k}
  BY DEF ToSet
<1>2. es = [i \in 1..k |-> EdgeOf(d, f.edges[i])]
  BY <1>1 DEF EdgeList
<1>3. DOMAIN es = 1..k /\ Len(es) = k /\ \A i \in 1..k : es[i] = EdgeOf(d, f.edges[i])
  BY <1>1, <1>2
<1>4. ClosedLoop(es)
  OBVIOUS
<1>5. PICK i \in 1..k : id = f.edges[i]
  BY <1>1
<1> HIDE DEF es, k
<1>6. \A l \in 1..k : es[l].v1 # es[l].v2
  BY <1>1, <1>3, <1>4, LoopEnds
<1>7. e.v1 # e.v2
  BY <1>3, <1>5, <1>6
<1>8. e \in EdgeSet(d) /\ e.id = id
  BY EdgeOfIs
<1>9. e \in EdgeRecords
  BY <1>8, EdgeOfIs
<1>10. SelfLoop(Rewired(e, m, t))
  <2>1. PICK x \in EdgeSet(d) : SelfLoop(Rewired(x, m, t)) /\ x.id = id
    BY DEF Loops
  <2>2. EdgeOf(d, x.id) = x
    BY EdgeOfIs
  <2> QED
    BY <2>1, <2>2
<1> HIDE DEF e
<1>11. /\ Rewired(e, m, t).v1 = IF e.v1 = m THEN t ELSE e.v1
       /\ Rewired(e, m, t).v2 = IF e.v2 = m THEN t ELSE e.v2
  BY <1>9 DEF Rewired, EdgeRecords
<1>12. (e.v1 = m /\ e.v2 = t) \/ (e.v1 = t /\ e.v2 = m)
  BY <1>7, <1>10, <1>11 DEF SelfLoop
<1>13. Ends(e) = {m, t}
  BY <1>12 DEF Ends
<1> QED
  BY <1>13 DEF e

(* The edge that stays for an edge has its ends, moved. *)
LEMMA HeirEnds ==
  ASSUME NEW d, NEW n \in Nat, Good(d, n), NEW m \in DOMAIN d.at, NEW t \in DOMAIN d.at, CanMerge(d, m, t),
         NEW id \in EdgeIds(d), id \notin Loops(d, m, t)
  PROVE  Ends(EdgeOf(Merge(d, m, t), Heir(d, id, m, t))) = {IF v = m THEN t ELSE v : v \in Ends(EdgeOf(d, id))}
<1> DEFINE e == EdgeOf(d, id)
           a == Merge(d, m, t)
<1>1. IsDocument(d, n) /\ m \in Nat /\ t \in Nat
  BY PartsOf DEF Good
<1>2. e \in EdgeSet(d) /\ e.id = id
  BY <1>1, EdgeOfIs
<1>3. e \in EdgeRecords
  BY <1>1, <1>2, EdgeOfIs
<1>4. IsDocument(a, n) /\ a.edges = FoldedEdges(d, m, t)
  BY MergeGood DEF Good
<1> HIDE DEF e, a
<1>5. ~SelfLoop(Rewired(e, m, t))
  BY <1>2 DEF Loops
<1>6. PICK x \in Group(d, e, m, t), k \in DOMAIN FoldedEdges(d, m, t) :
            /\ FoldedEdges(d, m, t)[k] = Folded(d, x, m, t)
            /\ Folded(d, x, m, t).id = Heir(d, e.id, m, t)
            /\ Ends(Folded(d, x, m, t)) = Ends(Rewired(e, m, t))
  BY <1>1, <1>2, <1>5, HeirStays
<1> DEFINE y == Folded(d, x, m, t)
<1>7. y \in EdgeSet(a)
  BY <1>4, <1>6 DEF EdgeSet
<1>8. EdgeOf(a, y.id) = y
  BY <1>4, <1>7, EdgeOfIs
<1>9. Ends(EdgeOf(a, Heir(d, id, m, t))) = Ends(Rewired(e, m, t))
  BY <1>2, <1>6, <1>8
<1>10. Ends(Rewired(e, m, t)) = {IF v = m THEN t ELSE v : v \in Ends(e)}
  BY <1>1, <1>3, RewiredIs
<1> QED
  BY <1>9, <1>10 DEF e, a

(* The facets of a sound sketch keep their outline, up to the fold. *)
KeepsOutline(d, m, t, i) ==
    Outline(Merge(d, m, t), Merge(d, m, t).facets[i]) = {IF v = m THEN t ELSE v : v \in Outline(d, d.facets[i])}

LEMMA OutlineSurvives ==
  ASSUME NEW d, NEW n \in Nat, Good(d, n), NEW m \in DOMAIN d.at, NEW t \in DOMAIN d.at, CanMerge(d, m, t),
         Errors(d) = {}, NEW i \in DOMAIN d.facets
  PROVE  KeepsOutline(d, m, t, i)
<1> DEFINE a == Merge(d, m, t)
           f == d.facets[i]
           g == a.facets[i]
           old == ToSet(f.edges)
           stay == ToSet(f.edges) \ Loops(d, m, t)
<1>1. IsDocument(d, n) /\ m \in Nat /\ t \in Nat /\ d.mode = "connected"
  BY PartsOf DEF Good, CanMerge
<1>2. /\ f \in FacetRecords /\ f.edges \in Seq(Nat)
  BY <1>1, PartsOf DEF FacetRecords
<1>3. f.edges # <<>> /\ ToSet(f.edges) \subseteq EdgeIds(d) /\ ClosedLoop(EdgeList(d, f))
  BY <1>1, SoundFacet
<1>4. IsDocument(a, n) /\ a.mode = "connected"
      /\ a.facets = [j \in DOMAIN d.facets |-> FoldedFacet(d, d.facets[j], m, t)]
  BY MergeGood DEF Good
<1>5. g = FoldedFacet(d, f, m, t) /\ i \in DOMAIN a.facets
  BY <1>4
<1>6. g \in FacetRecords /\ g.edges = FoldedLoop(d, f, m, t)
  BY <1>1, <1>2, <1>3, <1>5, FoldedFacetIs
<1>7. g.edges # <<>> /\ ToSet(g.edges) \subseteq EdgeIds(a) /\ ClosedLoop(EdgeList(a, g))
  <2>1. Errors(a) = {}
    BY FoldStaysSound
  <2> HIDE DEF a
  <2> QED
    BY <1>4, <1>5, <2>1, SoundFacet DEF g
<1>8. g.edges \in Seq(Nat)
  BY <1>6 DEF FacetRecords
<1> HIDE DEF a, f, g
<1>9. \A v : v \in Outline(d, f) <=> \E id \in old : v \in Ends(EdgeOf(d, id))
  BY <1>2, <1>3, OutlineIs
<1>10. \A v : v \in Outline(a, g) <=> \E x \in ToSet(g.edges) : v \in Ends(EdgeOf(a, x))
  BY <1>7, <1>8, OutlineIs
<1>11. \A x : x \in ToSet(g.edges) <=> \E id \in stay : x = Heir(d, id, m, t)
  BY <1>1, <1>2, <1>3, <1>6, <1>7, FoldedLoopHas
<1>12. \A id \in stay : Ends(EdgeOf(a, Heir(d, id, m, t)))
         = {IF v = m THEN t ELSE v : v \in Ends(EdgeOf(d, id))}
  BY <1>3, HeirEnds DEF a
<1>13. \A id \in old \ stay : Ends(EdgeOf(d, id)) = {m, t}
  BY <1>1, <1>2, <1>3, LoopIsFolded
<1>14. \A id \in old \ stay : \E x \in stay : m \in Ends(EdgeOf(d, x)) \/ t \in Ends(EdgeOf(d, x))
  <2> TAKE id \in old \ stay
  <2>1. PICK x \in old : /\ Ends(EdgeOf(d, x)) # {m, t}
                         /\ m \in Ends(EdgeOf(d, x)) \/ t \in Ends(EdgeOf(d, x))
    BY <1>2, <1>3, <1>13, LoopTouches
  <2> QED
    BY <1>13, <2>1
<1>15. stay \subseteq old
  OBVIOUS
<1> HIDE DEF old, stay
<1>16. \A w : w \in Outline(a, g) <=> \E id \in stay : \E v \in Ends(EdgeOf(d, id)) : w = IF v = m THEN t ELSE v
  BY <1>10, <1>11, <1>12
<1>17. ASSUME NEW w, w \in Outline(a, g)
       PROVE  \E v \in Outline(d, f) : w = IF v = m THEN t ELSE v
  BY <1>9, <1>15, <1>16, <1>17
<1>18. ASSUME NEW v \in Outline(d, f)
       PROVE  (IF v = m THEN t ELSE v) \in Outline(a, g)
  <2>1. PICK id \in old : v \in Ends(EdgeOf(d, id))
    BY <1>9
  <2>2. CASE id \in stay
    BY <1>16, <2>1, <2>2
  <2>3. CASE id \notin stay
    <3>1. v = m \/ v = t
      BY <1>13, <2>1, <2>3
    <3>2. PICK x \in stay : m \in Ends(EdgeOf(d, x)) \/ t \in Ends(EdgeOf(d, x))
      BY <1>14, <2>3
    <3> QED
      BY <1>16, <3>1, <3>2
  <2> QED
    BY <2>2, <2>3
<1>19. \A w : w \in Outline(a, g) <=> \E v \in Outline(d, f) : w = IF v = m THEN t ELSE v
  BY <1>17, <1>18
<1>20. Outline(a, g) = {IF v = m THEN t ELSE v : v \in Outline(d, f)}
  BY <1>19
<1> QED
  BY <1>20 DEF KeepsOutline, a, f, g

(* With the stale schedule left out: folding one vertex onto another never removes or changes a       *)
(* mapped, locked or confirmed edge, never loses a classification, and leaves every facet of a sound  *)
(* sketch with the outline the fold gives its corners.                                                *)
THEOREM MeaningHolds ==
  ASSUME "stale" \notin Windows
  PROVE  Spec => []MeaningSurvives
<1>1. CanvasInv => MeaningSurvives
  <2> SUFFICES ASSUME CanvasInv, tool = "select", NEW m \in DOMAIN doc.at, NEW t \in DOMAIN doc.at,
                      CanMerge(doc, m, t)
               PROVE  LET after == Merge(doc, m, t) IN
                      /\ \A e \in EdgeSet(doc) : e.held => Rewired(e, m, t) \in EdgeSet(after)
                      /\ \A e \in EdgeSet(doc) : e.type # "unclassified" /\ ~SelfLoop(Rewired(e, m, t)) =>
                          \E x \in EdgeSet(after) : Ends(x) = Ends(Rewired(e, m, t)) /\ x.type = e.type
                      /\ Errors(doc) = {} => \A i \in DOMAIN doc.facets :
                          doc.mode = "connected" =>
                          Outline(after, after.facets[i]) =
                              {IF v = m THEN t ELSE v : v \in Outline(doc, doc.facets[i])}
    BY DEF MeaningSurvives
  <2>1. ids \in Nat /\ Good(doc, ids)
    BY CanvasFacts
  <2>2. \A e \in EdgeSet(doc) : e.held => Rewired(e, m, t) \in EdgeSet(Merge(doc, m, t))
    BY <2>1, HeldSurvives
  <2>3. \A e \in EdgeSet(doc) : e.type # "unclassified" /\ ~SelfLoop(Rewired(e, m, t)) =>
            \E x \in EdgeSet(Merge(doc, m, t)) : Ends(x) = Ends(Rewired(e, m, t)) /\ x.type = e.type
    BY <2>1, ClassSurvives
  <2>4. ASSUME Errors(doc) = {}, NEW i \in DOMAIN doc.facets
        PROVE  KeepsOutline(doc, m, t, i)
    BY Zenon, <2>1, <2>4, OutlineSurvives
  <2> QED
    BY <2>2, <2>3, <2>4 DEF KeepsOutline
<1>2. CanvasInv /\ [Next]_vars => CanvasInv'
  BY StepKeeps
<1> QED
  BY InitHolds, <1>1, <1>2, PTL DEF Spec
=============================================================================
