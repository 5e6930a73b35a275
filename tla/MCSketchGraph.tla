---------------------------- MODULE MCSketchGraph ----------------------------
(***************************************************************************)
(* SketchGraph on a grid of six points: an empty sketch, a rectangle whose *)
(* long sides have an interior point, two triangles that share an edge, a  *)
(* path beside a triangle, and a polygon drawn by hand.                    *)
(***************************************************************************)
EXTENDS SketchGraph

Edge(id, v1, v2, type, held) == [id |-> id, v1 |-> v1, v2 |-> v2, type |-> type, held |-> held]
Facet(id, edges, verts) == [id |-> id, edges |-> edges, verts |-> verts]
Sheet(mode, at, edges, facets, kept) ==
    [mode |-> mode, at |-> at, edges |-> edges, facets |-> facets, kept |-> kept]

Empty == Sheet("connected", <<>>, <<>>, <<>>, {})

Rectangle == Sheet("connected", <<<<0, 0>>, <<2, 0>>, <<2, 1>>, <<0, 1>>>>,
    << Edge(11, 1, 2, "eave", FALSE), Edge(12, 3, 2, "unclassified", FALSE),
       Edge(13, 3, 4, "ridge", FALSE), Edge(14, 1, 4, "unclassified", TRUE) >>,
    << Facet(15, <<11, 12, 13, 14>>, <<>>) >>,
    {[edge |-> 11, ends |-> {<<0, 0>>, <<2, 0>>}]})

Triangles == Sheet("connected", <<<<0, 0>>, <<2, 0>>, <<2, 1>>, <<0, 1>>>>,
    << Edge(11, 1, 2, "eave", FALSE), Edge(12, 2, 4, "unclassified", FALSE),
       Edge(13, 4, 1, "unclassified", FALSE), Edge(14, 3, 2, "ridge", FALSE),
       Edge(16, 4, 3, "eave", FALSE) >>,
    << Facet(17, <<11, 12, 13>>, <<>>), Facet(18, <<12, 14, 16>>, <<>>) >>, {})

Polygon == Sheet("manual", <<<<0, 0>>, <<2, 0>>, <<1, 1>>>>, <<>>, << Facet(15, <<>>, <<1, 2, 3>>) >>, {})

MCSketches == {Empty, Rectangle, Triangles, Polygon}
=============================================================================
