--------------------------- MODULE MCOfficePages ----------------------------
(***************************************************************************)
(* The business pages of the Office on small instances, with the solver of *)
(* RoofProposal behind the proposed sketches.                              *)
(***************************************************************************)
EXTENDS OfficePages

MCFiles == {{"m"}, {"m", "n"}}
MCActs == [estimating |-> 4, sales |-> 4, stock |-> 3, purchasing |-> 4, canvass |-> 4, materials |-> 5, backups |-> 4,
           site |-> 3, proposal |-> 3]
MCEvents == [estimating |-> 1, sales |-> 1, stock |-> 1, purchasing |-> 2, canvass |-> 1, materials |-> 1, backups |-> 1,
             site |-> 1]

\* Two structures and a third without planes, or all three with planes.
Footprint(w, h) == [w |-> w, h |-> h]
MCMeasures == {<<Footprint(40, 20), Footprint(10, 10), Footprint(0, 0)>>,
               <<Footprint(40, 20), Footprint(10, 10), Footprint(12, 8)>>}
MCMoves == {[x |-> -46, y |-> 5]}

\* Structures as measured: each shape the solver recognises, one it frames with a dormer, one
\* known by its planes alone, and two it can only draw in part.
NoLine == -1
Plane(w, l) == [st |-> 1, pitch |-> 9, width |-> w, length |-> l, area |-> w * l, offset |-> 0]
Line(t, d, p, s) == [type |-> t, length |-> d, p |-> p, s |-> s]
Eave(d, p) == Line("eave", d, p, NoLine)
Lone == [planes |-> <<Plane(10, 30), [Plane(10, 20) EXCEPT !.st = 2]>>,
         lines |-> <<Eave(30, 1), Line("rake", 10, 1, NoLine), Line("ridge", 30, 2, NoLine)>>]
GableRoof == [planes |-> <<Plane(10, 30), Plane(15, 30)>>,
              lines |-> <<Line("ridge", 30, 1, 2), Eave(30, 1), Eave(30, 2), Line("rake", 15, 2, NoLine)>>]
HipRoof == [planes |-> <<Plane(15, 60), Plane(15, 60), Plane(15, 25), Plane(15, 25)>>,
            lines |-> <<Line("ridge", 35, 1, 2), Line("hip", 20, 1, 3), Line("hip", 20, 2, 3), Line("hip", 20, 1, 4),
                        Line("hip", 20, 4, 2), Eave(60, 1), Eave(60, 2), Eave(25, 3), Eave(25, 4)>>]
LRoof == [planes |-> <<Plane(10, 30), Plane(10, 15), Plane(10, 40), Plane(10, 25)>>,
          lines |-> <<Line("ridge", 20, 1, 2), Line("ridge", 30, 3, 4), Line("hip", 10, 1, 3),
                      Line("valley", 10, 2, 4), Eave(30, 1)>>]
CrossRoof == [planes |-> <<Plane(15, 60), Plane(15, 60), Plane(10, 20), Plane(10, 20)>>,
              lines |-> <<Line("ridge", 60, 1, 2), Line("ridge", 20, 3, 4), Line("valley", 10, 3, 1),
                          Line("valley", 10, 1, 4), Eave(60, 1), Eave(20, 4)>>]
DormerRoof == [planes |-> <<Plane(15, 60), Plane(15, 60), Plane(5, 10), Plane(5, 10)>>,
               lines |-> <<Line("ridge", 60, 1, 2), Line("ridge", 10, 3, 4), Line("valley", 10, 3, 1),
                           Line("valley", 10, 1, 4), Eave(60, 1)>>]
Shed == [planes |-> <<Plane(15, 60), Plane(15, 60), Plane(5, 10)>>,
         lines |-> <<Line("ridge", 60, 1, 2), Line("valley", 10, 3, 1), Eave(60, 2)>>]
Bare == [planes |-> <<Plane(15, 60), Plane(15, 60), [Plane(15, 25) EXCEPT !.pitch = 0], Plane(15, 20)>>, lines |-> <<>>]
Annexed == [planes |-> <<Plane(15, 40), Plane(10, 20), Plane(10, 40)>>,
             lines |-> <<Line("hip", 10, 2, 1), Line("eave", 40, 1, 3), Eave(40, 3)>>]
MCRoofs == {Lone, GableRoof, HipRoof, LRoof, CrossRoof, DormerRoof, Shed, Bare, Annexed}

Solver == INSTANCE RoofProposal
MCProposed(in, sides) == Solver!Generated(in, sides)

\* A proposed drawing accounts for every plane and keeps lines where measured (generateSketch.js:11).
ProposalKeepsIdentity == part = "proposal" => Solver!KeepsIdentity(Rev!Now, screen.sides)
=============================================================================
