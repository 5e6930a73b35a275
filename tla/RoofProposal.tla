---------------------------- MODULE RoofProposal ----------------------------
(***************************************************************************)
(* The proposed roof sketch: packages/roof-sketch-core turns the planes    *)
(* and roof lines measured for one structure into a drawing                *)
(* (generateSketch.js, generateSketchGeometry.js, frameRoof.js,            *)
(* resolvePlacement.js, inferTopology.js).                                 *)
(*                                                                         *)
(* A drawing gives each plane drawn the edges around it. The layouts built *)
(* from a recognised shape name their corners; the layout from the user's  *)
(* side choices computes them, in eighths of a foot. Feet are whole        *)
(* numbers, so the half-foot tolerance LEN_TOL is equality; a width is a   *)
(* multiple of 5 and a pitch 0 or 9 in 12, so that a plan run is whole.    *)
(***************************************************************************)
EXTENDS RoofMeasure, Sequences, FiniteSets, FiniteSetsExt, TLC

Sides == {"N", "E", "S", "W"}

Named(in, l) == in.named[l]
Shared(in) == in.shared
Of(in, types) == {l \in DOMAIN in.lines : in.lines[l].type \in types}
Joining(in, types) == {l \in in.shared : in.lines[l].type \in types}
Exterior(in, p) == {l \in DOMAIN in.lines : p \in Named(in, l)} \ Shared(in)

\* The one exterior eave of a plane, if it has just one.
SoleEave(in, p) == LET E == Exterior(in, p) \cap Of(in, {"eave"})
                   IN  IF Cardinality(E) = 1 THEN Min(E) ELSE None
Len_(in, l) == IF l = None THEN None ELSE in.lines[l].length
EaveOf(in, p) == Len_(in, SoleEave(in, p))
First(S) == IF S = {} THEN None ELSE Min(S)

\* planRunFromSlope: the sloped width seen from above.
Run(q) == IF q.pitch = 0 THEN q.width ELSE (q.width * 4) \div 5

SamePitch(in, S) == \A p, q \in S : in.planes[p].pitch = in.planes[q].pitch

RECURSIVE Reached(_, _)
Reached(S, links) == LET T == S \cup UNION {k \in links : k \cap S # {}}
                     IN  IF T = S THEN S ELSE Reached(T, links)

Sections(S, links) == {Reached({p}, links) : p \in S}

(***************************************************************************)
(* Drawings.                                                               *)
(***************************************************************************)
\* An edge drawn for a roof line takes the line's type; any other edge is derived.
Edge(in, a, b, type, line) ==
    [ends |-> {a, b}, type |-> IF line = None THEN type ELSE in.lines[line].type, line |-> line,
     length |-> Len_(in, line)]

Corners(E) == UNION {e.ends : e \in E}
Closed(E) == /\ Cardinality(E) >= 3
             /\ \A v \in Corners(E) : Cardinality({e \in E : v \in e.ends}) = 2
             /\ Reached(CHOOSE e \in {x.ends : x \in E} : TRUE, {x.ends : x \in E}) = Corners(E)

\* validateSketch in connected mode: closed outlines, no two alike, all joined by shared edges.
Valid(draw) ==
    LET P == DOMAIN draw
        ends(p) == {e.ends : e \in draw[p]}
    IN  /\ \A p \in P : Closed(draw[p])
        /\ \A p, q \in P : ends(p) = ends(q) => p = q
        /\ Cardinality(Sections(P, {k \in SUBSET P : Cardinality(k) = 2 /\ \A p, q \in k : draw[p] \cap draw[q] # {}})) <= 1

(***************************************************************************)
(* The outcomes of generateSketchGeometry.                                 *)
(***************************************************************************)
Insufficient == {"missing_structure", "no_roof_planes", "missing_pitch", "missing_area", "insufficient_dimensions"}

\* _classifyReadiness
Readiness(codes) == IF codes # {} /\ codes \subseteq Insufficient THEN "insufficient_information" ELSE "needs_review"

Outcome(geometry, readiness, draw, resolved, unresolved, how) ==
    [geometry |-> geometry, readiness |-> readiness, draw |-> draw, resolved |-> resolved,
     unresolved |-> unresolved, how |-> how, asks |-> {}]

NotAttempted(in, codes) == Outcome("not_attempted", Readiness(codes), <<>>, {}, Own(in), "none")
NeedsReview(in, code) == Outcome("needs_review", Readiness({code}), <<>>, {}, Own(in), "none")
Success(draw, how) == Outcome("generated", "high_confidence", draw, DOMAIN draw, {}, how)
Partial(draw, resolved, unresolved, how) == Outcome("partial", "needs_review", draw, resolved, unresolved, how)

(***************************************************************************)
(* One rectangle, or two sharing a ridge.                                  *)
(***************************************************************************)
LinesOf(in, p, ridge) == {l \in DOMAIN in.lines : p \in Named(in, l)} \ {ridge}
Long == {"eave", "ridge"}

\* The i-th of a set of lines in row order.
Nth(S, i) == IF Cardinality(S) < i THEN None
             ELSE CHOOSE x \in S : Cardinality({y \in S : y <= x}) = i

\* _assignLines: eaves and ridges on the long sides, rakes on the cross sides, nothing else.
AssignError(in, lines, sides) ==
    IF lines \ Of(in, Long \cup {"rake"}) # {} THEN "unsupported_edge_type_for_simple_roof"
    ELSE IF Cardinality(lines \cap Of(in, Long)) > sides \/ Cardinality(lines \cap Of(in, {"rake"})) > 2
         THEN "ambiguous_roof_lines" ELSE "ok"

\* A length measured for a line placed on a side must be the side's.
Contradicts(in, lines, long, cross) ==
    \E l \in lines : in.lines[l].length \notin {None, IF in.lines[l].type = "rake" THEN cross ELSE long}

\* _layoutSinglePlane
SinglePlane(in) ==
    LET p == Min(Own(in))
        q == in.planes[p]
        lines == LinesOf(in, p, None)
        long(i) == Nth(lines \cap Of(in, Long), i)
        rake(i) == Nth(lines \cap Of(in, {"rake"}), i)
    IN  IF q.width = 0 \/ q.length = 0 THEN NeedsReview(in, "insufficient_dimensions")
        ELSE IF AssignError(in, lines, 2) # "ok" THEN NeedsReview(in, AssignError(in, lines, 2))
        ELSE IF Contradicts(in, lines, q.length, q.width) THEN NeedsReview(in, "contradictory_dimensions")
        ELSE Success(p :> {Edge(in, "v0", "v1", "eave", long(1)), Edge(in, "v1", "v2", "rake", rake(2)),
                           Edge(in, "v2", "v3", "eave", long(2)), Edge(in, "v3", "v0", "rake", rake(1))}, "rectangle")

\* _layoutGable. A ridge naming one plane twice draws it twice, which fails validation.
Gable(in) ==
    LET ridge == Min(Shared(in))
        R == in.lines[ridge].length
        a == in.lines[ridge].p
        b == in.lines[ridge].s
        lines(p) == LinesOf(in, p, ridge)
        refused == {AssignError(in, lines(p), 1) : p \in {a, b}} \ {"ok"}
        slope(p, v) == {Edge(in, "rA", "rB", "ridge", ridge),
                        Edge(in, "rB", v \o "R", "rake", Nth(lines(p) \cap Of(in, {"rake"}), 2)),
                        Edge(in, v \o "R", v \o "L", "eave", Nth(lines(p) \cap Of(in, Long), 1)),
                        Edge(in, v \o "L", "rA", "rake", Nth(lines(p) \cap Of(in, {"rake"}), 1))}
    IN  IF R <= 0 \/ \E p \in {a, b} : in.planes[p].width = 0 \/ in.planes[p].length = 0
        THEN NeedsReview(in, "insufficient_dimensions")
        ELSE IF \E p \in {a, b} : in.planes[p].length # R THEN NeedsReview(in, "contradictory_dimensions")
        ELSE IF refused # {} THEN NeedsReview(in, CHOOSE c \in refused : TRUE)
        ELSE IF \E p \in {a, b} : Contradicts(in, lines(p), R, in.planes[p].width)
        THEN NeedsReview(in, "contradictory_dimensions")
        ELSE IF a = b THEN NeedsReview(in, "generated_geometry_invalid")
        ELSE Success(a :> slope(a, "a") @@ b :> slope(b, "b"), "gable")

(***************************************************************************)
(* Connected roofs recognised by their adjacency.                          *)
(***************************************************************************)
\* _contradictoryAdjacency: a junction line that does not join two planes of the structure.
Contradictory(in) == \E l \in Of(in, Junctions) : Cardinality(Named(in, l)) = 1

\* _tryStandardHip: two long planes on a ridge, two ends, the four hips between them, eaves only.
Main(in) == LET r == Min(Joining(in, {"ridge"})) IN Named(in, r)
IsStandardHip(in) ==
    LET hips == Joining(in, {"hip"})
    IN  /\ Cardinality(Own(in)) = 4
        /\ Shared(in) = hips \cup Joining(in, {"ridge"})
        /\ Cardinality(hips) = 4 /\ Cardinality(Shared(in)) = 5
        /\ {Named(in, h) : h \in hips} = {{m, e} : m \in Main(in), e \in Own(in) \ Main(in)}
        /\ \A p \in Own(in) : Exterior(in, p) \subseteq Of(in, {"eave"})
        /\ SamePitch(in, Own(in))

\* The hip line between an end and a long plane, the first in row order.
Hip(in, e, m) == Min({h \in Joining(in, {"hip"}) : Named(in, h) = {e, m}})

\* The outline of a core seen from above: a ridge, two long planes and 0, 1 or 2 hipped ends.
\* Ridge ends are "r" and "R", the corners of the footprint "f", "F" in front and "b", "B" behind.
CoreDraw(in, ends) ==
    LET main == Main(in)
        ridge == Edge(in, "r", "R", "ridge", Min(Joining(in, {"ridge"})))
        end(n) == Nth(ends, n)
        rise(p, n, corner) == LET top == IF n = 1 THEN "r" ELSE "R"
                              IN  IF end(n) = None THEN Edge(in, corner, top, "rake", None)
                                  ELSE Edge(in, corner, top, "hip", Hip(in, end(n), p))
        slope(p, c1, c2) == {Edge(in, c1, c2, "eave", SoleEave(in, p)), rise(p, 2, c2), ridge, rise(p, 1, c1)}
        cap(n, c1, c2) == {Edge(in, c1, c2, "eave", SoleEave(in, end(n))), rise(Max(main), n, c2), rise(Min(main), n, c1)}
    IN  [p \in main \cup ends |->
            IF p = Min(main) THEN slope(p, "f", "F") ELSE IF p = Max(main) THEN slope(p, "b", "B")
            ELSE IF p = end(1) THEN cap(1, "f", "b") ELSE cap(2, "F", "B")]

\* _layoutStandardHip: the measured eaves and ridge must agree.
HipFrom(in, ridge, main, ends, eave) ==
    IF ridge <= 0 \/ \E p \in Own(in) : eave[p] <= 0 THEN NeedsReview(in, "insufficient_dimensions")
    ELSE IF \/ eave[Min(main)] # eave[Max(main)] \/ eave[Min(ends)] # eave[Max(ends)]
            \/ eave[Min(main)] <= eave[Min(ends)] \/ ridge # eave[Min(main)] - eave[Min(ends)]
         THEN NeedsReview(in, "contradictory_dimensions")
    ELSE Success(CoreDraw(in, ends), "hip")
StandardHip(in) == HipFrom(in, in.lines[Min(Joining(in, {"ridge"}))].length, Main(in), Own(in) \ Main(in),
                           [p \in Own(in) |-> EaveOf(in, p)])

(***************************************************************************)
(* The framing solver, frameRoof.js.                                       *)
(***************************************************************************)
\* trySingleCore: one ridge, and 0..2 ends each hipped to both long planes.
Ends(in) == UNION {Named(in, h) : h \in Joining(in, {"hip"})} \ Main(in)
Longest(in, S) == Max({0} \cup {in.lines[l].length : l \in {k \in Of(in, {"eave"}) : Named(in, k) \cap S # {}}})
CoreLength(in) == LET e == Longest(in, Main(in)) IN IF e > 0 THEN e ELSE in.planes[Min(Main(in))].length
CoreDepth(in) == LET e == Longest(in, Ends(in))
                 IN  IF Ends(in) # {} /\ e > 0 THEN e
                     ELSE Run(in.planes[Min(Main(in))]) + Run(in.planes[Max(Main(in))])
TwiceInset(in) == LET R == in.lines[Min(Joining(in, {"ridge"}))].length
                  IN  CASE Ends(in) = {} -> 0
                        [] Ends(in) # {} /\ R > 0 /\ R < CoreLength(in) -> 2 * (CoreLength(in) - R)
                        [] OTHER -> Cardinality(Ends(in)) * CoreDepth(in)
IsCore(in) ==
    /\ Joining(in, Valleys) = {} /\ Cardinality(Joining(in, {"ridge"})) = 1 /\ Cardinality(Main(in)) = 2
    /\ \A h \in Joining(in, {"hip"}) : Cardinality(Named(in, h)) = 2 /\ Cardinality(Named(in, h) \cap Main(in)) = 1
    /\ \A e \in Ends(in), m \in Main(in) : \E h \in Joining(in, {"hip"}) : Named(in, h) = {e, m}
    /\ Cardinality(Ends(in)) <= 2 /\ Own(in) = Main(in) \cup Ends(in)
    /\ CoreLength(in) > 0 /\ CoreDepth(in) > 0 /\ TwiceInset(in) < 2 * CoreLength(in)

\* tryLRoof: two arms, each a ridge between a plane at the hip and a plane at the valley.
Arms(in) == LET at(r, types) == Named(in, r) \cap UNION {Named(in, l) : l \in Joining(in, types)}
            IN  {[ridge |-> r, hip |-> at(r, {"hip"}), val |-> at(r, Valleys)] : r \in Joining(in, {"ridge"})}
ArmLength(in, a) == LET e == EaveOf(in, Min(a.hip)) IN IF e # None THEN e ELSE in.planes[Min(a.hip)].length
ArmReach(in, a) == LET e == EaveOf(in, Min(a.hip)) IN IF e > 0 THEN e ELSE in.planes[Min(a.hip)].length

\* The longer arm lies across; of two alike, the one with the earlier hip plane.
Across(in, arms) == CHOOSE a \in arms : \A b \in arms \ {a} :
                 \/ ArmLength(in, a) > ArmLength(in, b)
                 \/ ArmLength(in, a) = ArmLength(in, b) /\ Min(a.hip) < Min(b.hip)
ArmWidth(in, a) == LET r == Run(in.planes[Min(a.hip)])
                       out == EaveOf(in, Min(a.hip))
                       inner == EaveOf(in, Min(a.val))
                   IN  IF r > 0 THEN 2 * r ELSE IF out # None /\ inner # None THEN out - inner ELSE 0

\* The arms are as wide as each other, to a foot, and each reaches past the other.
ArmsMeet(in, arms, W, v) ==
    LET out == EaveOf(in, Min(v.hip))
        inner == EaveOf(in, Min(v.val))
        twice == 2 * Run(in.planes[Min(v.hip)])
    IN  /\ W > 0 /\ \A a \in arms : ArmReach(in, a) > W
        /\ twice > 0 => twice - W \in -1..1
        /\ out # None /\ inner # None => out - inner - W \in -1..1
IsL(in, arms) ==
    /\ Cardinality(Own(in)) = 4 /\ Shared(in) \subseteq Of(in, Junctions)
    /\ Cardinality(Joining(in, {"ridge"})) = 2
    /\ Cardinality(Joining(in, {"hip"})) = 1 /\ Cardinality(Joining(in, Valleys)) = 1
    /\ UNION {Named(in, r) : r \in Joining(in, {"ridge"})} = Own(in)
    /\ \A a \in arms : Cardinality(a.hip) = 1 /\ Cardinality(a.val) = 1 /\ a.hip # a.val
    /\ SamePitch(in, Own(in))
    /\ \E a, v \in arms : a = Across(in, arms) /\ v # a /\ ArmsMeet(in, arms, ArmWidth(in, a), v)

\* The arms' ridges handed over in row order, whichever arm lies across.
ArmRidge_ByRow(in, arms, a) ==
    LET R == {b.ridge : b \in arms} IN IF a = Across(in, arms) THEN Min(R) ELSE Max(R)

\* The ridge drawn along an arm is the one its planes share.
ArmRidge(in, arms, a) == a.ridge

\* The arms meet at "J"; the hip falls to the outer corner "O", the valley to the inner one "I".
ArmDraw(in, arms, a, n) ==
    LET hip == Edge(in, "O", "J", "hip", Min(Joining(in, {"hip"})))
        valley == Edge(in, "I", "J", "valley", Min(Joining(in, Valleys)))
        ridge == Edge(in, "J", n \o "m", "ridge", ArmRidge(in, arms, a))
    IN  Min(a.hip) :> {Edge(in, "O", n \o "o", "eave", SoleEave(in, Min(a.hip))),
                       Edge(in, n \o "o", n \o "m", "rake", None), ridge, hip}
        @@ Min(a.val) :> {Edge(in, "I", n \o "i", "eave", SoleEave(in, Min(a.val))),
                          Edge(in, n \o "m", n \o "i", "rake", None), ridge, valley}
LDraw(in, arms, across) == ArmDraw(in, arms, across, "h") @@ ArmDraw(in, arms, CHOOSE a \in arms : a # across, "v")

\* tryCrossGable: a main gable whose host slope carries every valley, and gable wings on it. A
\* wing sits along the host's eave, in (N+1)ths of a foot: pinned by an offset, or spread evenly.
Hosts(in) == {p \in Own(in) : \A v \in Joining(in, Valleys) : p \in Named(in, v)}
HostLength(in, host) == LET e == EaveOf(in, host) IN IF e > 0 THEN e ELSE in.planes[host].length
WingAt(in, left, right, slots, even) ==
    LET pinned == {in.planes[p].offset : p \in {left, right}} \ {0}
    IN  IF pinned = {} THEN even
        ELSE slots * (IF in.planes[left].offset # 0 THEN in.planes[left].offset ELSE in.planes[right].offset)
WingOf(in, ridge, ridges, length) ==
    LET left(r) == Min(Named(in, r))
        place == Cardinality({r \in ridges : left(r) <= left(ridge)})
        slots == Cardinality(ridges) + 1
    IN  [ridge |-> ridge, left |-> left(ridge), right |-> Max(Named(in, ridge)), place |-> place,
         at |-> WingAt(in, left(ridge), Max(Named(in, ridge)), slots, length * place),
         half |-> slots * Run(in.planes[left(ridge)])]
CrossOf(in, host, main, length) ==
    [host |-> host, main |-> main, back |-> First(Named(in, main) \ {host}),
     length |-> (Cardinality(Joining(in, {"ridge"}))) * length,
     wings |-> {WingOf(in, r, Joining(in, {"ridge"}) \ {main}, length) : r \in Joining(in, {"ridge"}) \ {main}}]
ToHost(in, c, p) == {v \in Joining(in, Valleys) : Named(in, v) = {p, c.host}}

IsCross(in, c) ==
    /\ Shared(in) = Joining(in, Valleys) \cup Joining(in, {"ridge"})
    /\ c.wings # {} /\ Cardinality(Joining(in, Valleys)) = 2 * Cardinality(c.wings)
    /\ \A v \in Joining(in, Valleys) : c.back \notin Named(in, v)
    /\ \A w \in c.wings : /\ {w.left, w.right} \cap {c.host, c.back} = {}
                          /\ ToHost(in, c, w.left) # {} /\ ToHost(in, c, w.right) # {}
    /\ Cardinality(Own(in)) = 2 + 2 * Cardinality(c.wings)
    /\ Own(in) = {c.host, c.back} \cup UNION {{w.left, w.right} : w \in c.wings}
    /\ SamePitch(in, Own(in)) /\ Run(in.planes[c.host]) > 0 /\ c.length > 0
    /\ \A w \in c.wings : /\ 2 * Run(in.planes[w.left]) >= Run(in.planes[c.host])
                          /\ Run(in.planes[w.left]) \in 1..Run(in.planes[c.host])
                          /\ w.at - w.half > 0 /\ w.at + w.half < c.length
    /\ \A w, x \in c.wings : w.place < x.place => w.at + w.half < x.at - x.half

\* The host's front eave is cut by a notch per wing; a wing's corners are named by where it sits.
CrossDraw(in, c) ==
    LET at(w, v) == v \o ToString(w.at)
        valley(w, p, v) == Edge(in, at(w, v), at(w, "t"), "valley", Min(ToHost(in, c, p)))
        side(w, p, v, out) == {valley(w, p, v), Edge(in, at(w, "t"), at(w, "a"), "ridge", w.ridge),
                               Edge(in, at(w, v), at(w, out), "eave", SoleEave(in, p)),
                               Edge(in, at(w, out), at(w, "a"), "rake", None)}
        eave(a, b) == Edge(in, a, b, "eave", SoleEave(in, c.host))
        back == {Edge(in, "m", "M", "ridge", c.main), Edge(in, "M", "B", "rake", None),
                 Edge(in, "B", "b", "eave", SoleEave(in, c.back)), Edge(in, "b", "m", "rake", None)}
        \* A notch runs from the end of the one before it, or from the eave's own end.
        notch(w, prior) == {eave(IF prior = {} THEN "f" ELSE at(CHOOSE x \in prior : TRUE, "r"), at(w, "l")),
                            valley(w, w.left, "l"), valley(w, w.right, "r")}
        front == UNION {notch(w, {x \in c.wings : x.place = w.place - 1}) : w \in c.wings}
                 \cup {eave(at(w, "r"), "F") : w \in {x \in c.wings : x.place = Cardinality(c.wings)}}
                 \cup {Edge(in, "F", "M", "rake", None), Edge(in, "m", "M", "ridge", c.main), Edge(in, "f", "m", "rake", None)}
        wing(w, p) == IF p = w.left THEN side(w, p, "l", "L") ELSE side(w, p, "r", "R")
    IN  [p \in Own(in) |-> IF p = c.host THEN front ELSE IF p = c.back THEN back
                           ELSE wing(CHOOSE w \in c.wings : p \in {w.left, w.right}, p)]

\* classifyDormers: the largest part held together by ridges and hips is the core, the others dormers.
Frames(in) == Sections(Own(in), {Named(in, l) : l \in Joining(in, {"ridge", "hip"})})
HasRidge(in, S) == \E r \in Joining(in, {"ridge"}) : Named(in, r) \subseteq S
CorePart(in) == CHOOSE S \in Frames(in) : \A T \in Frames(in) \ {S} :
    \/ Cardinality(S) > Cardinality(T)
    \/ /\ Cardinality(S) = Cardinality(T)
       /\ HasRidge(in, T) => HasRidge(in, S)
       /\ HasRidge(in, S) = HasRidge(in, T) => Min(S) < Min(T)
Seats(in, core, p) == {v \in Joining(in, Valleys) : p \in Named(in, v) /\ Named(in, v) \cap core # {}}
DormerHost(in, core, D) == Min(Named(in, Min(Seats(in, core, Min(D)))) \cap core)
HasDormers(in, core) == core # Own(in) /\ \A p \in Own(in) \ core : Seats(in, core, p) # {}

\* scopeBase: the core by itself.
CoreOf(in, S) == Known(Restrict(in.planes, S),
                       Restrict(in.lines, {l \in DOMAIN in.lines : in.lines[l].p \in S /\ in.lines[l].s \in S \cup {None}}))

\* seatDormer: two triangles at a ridge or, for any other dormer, one of its first plane.
SeatAt(in, core, D, peak, front, left, right) ==
    LET valley(p, v) == Edge(in, v, peak, "valley", Min(Seats(in, core, p)))
        ridge == Edge(in, front, peak, "ridge", First({r \in Joining(in, {"ridge"}) : Named(in, r) \subseteq D}))
        half(p, v) == {ridge, valley(p, v), Edge(in, front, v, "eave", None)}
    IN  IF Cardinality(D) = 2 THEN [p \in D |-> IF p = Min(D) THEN half(p, left) ELSE half(p, right)]
        ELSE Min(D) :> {valley(Min(D), left), Edge(in, left, right, "eave", None), Edge(in, right, peak, "rake", None)}
SeatOf(in, core, D, at) == SeatAt(in, core, D, "peak" \o at, "front" \o at, "left" \o at, "right" \o at)
Seat(in, core, D) == SeatOf(in, core, D, ToString(Min(D)) \o "@" \o ToString(in.planes[Min(D)].offset))

RECURSIVE Joined(_)
Joined(draws) == IF draws = {} THEN <<>> ELSE LET d == CHOOSE d \in draws : TRUE IN d @@ Joined(draws \ {d})

\* frameWithDormers: a dormer on a hipped end is left unresolved.
Seated(in, core, base, D) ==
    LET draw == Joined({Seat(in, core, d) : d \in D} \cup {CoreDraw(base, Ends(base))})
        rest == Own(in) \ (core \cup UNION D)
    IN  IF rest = {} THEN Success(draw, "dormers") ELSE Partial(draw, Own(in) \ rest, rest, "dormers")
WithDormers(in, core, base) ==
    Seated(in, core, base, {D \in Frames(in) \ {core} : DormerHost(in, core, D) \in Main(base)})

\* frameRoof: cross gable, dormers, single core, L; the first that fits.
Unframed == Outcome("not_attempted", "needs_review", <<>>, {}, {}, "none")
OtherFrame(in, core, arms) ==
    IF HasDormers(in, core) /\ IsCore(CoreOf(in, core)) THEN WithDormers(in, core, CoreOf(in, core))
    ELSE IF IsCore(in) THEN Success(CoreDraw(in, Ends(in)), "core")
    ELSE IF IsL(in, arms) THEN Success(LDraw(in, arms, Across(in, arms)), "L") ELSE Unframed
CrossOrOther(in, c) == IF IsCross(in, c) THEN Success(CrossDraw(in, c), "cross")
                       ELSE OtherFrame(in, CorePart(in), Arms(in))
frameRoof(in) ==
    LET host == First(Hosts(in))
        main == First({r \in Joining(in, {"ridge"}) : host \in Named(in, r)})
    IN  IF host = None \/ main = None THEN OtherFrame(in, CorePart(in), Arms(in))
        ELSE CrossOrOther(in, CrossOf(in, host, main, HostLength(in, host)))

(***************************************************************************)
(* The layout from the user's side choices, resolvePlacement.js.           *)
(***************************************************************************)
\* planPlacement: breadth first from the largest plane, each with the junction that found it.
Anchor(in) == CHOOSE p \in Own(in) : \A q \in Own(in) \ {p} :
                 \/ in.planes[p].area > in.planes[q].area
                 \/ in.planes[p].area = in.planes[q].area /\ p < q
Found(in, p, q) == Min({l \in Shared(in) : Named(in, l) = {p, q}})

RECURSIVE Walk(_, _, _)
Walk(in, queue, seen) ==
    IF queue = <<>> THEN <<>>
    ELSE LET p == Head(queue)
             new == {q \in Own(in) \ seen : \E l \in Shared(in) : Named(in, l) = {p, q}}
             inRow == [i \in 1..Cardinality(new) |-> Nth(new, i)]
         IN  [i \in DOMAIN inRow |-> [plane |-> inRow[i], parent |-> p, via |-> Found(in, p, inRow[i])]]
             \o Walk(in, Tail(queue) \o inRow, seen \cup new)
planPlacement(in) == Walk(in, <<Anchor(in)>>, {Anchor(in)})

Depth(q) == 8 * (IF Run(q) > 0 THEN Run(q) ELSE q.length)
Along(q) == 8 * (IF q.length > 0 THEN q.length ELSE Run(q))

\* A box is <<west, north, east, south>>; cardinalSides of it, as pairs of corners.
SideOf(b, k) == CASE k = "N" -> <<<<b[1], b[2]>>, <<b[3], b[2]>>>>
                  [] k = "S" -> <<<<b[1], b[4]>>, <<b[3], b[4]>>>>
                  [] k = "E" -> <<<<b[3], b[2]>>, <<b[3], b[4]>>>>
                  [] k = "W" -> <<<<b[1], b[2]>>, <<b[1], b[4]>>>>
Opposite == [N |-> "S", S |-> "N", E |-> "W", W |-> "E"]
\* placeRect, and the box of a triangle: the same depth outward from a side.
Outward(b, k, d) == CASE k = "N" -> <<b[1], b[2] - d, b[3], b[2]>>
                      [] k = "S" -> <<b[1], b[4], b[3], b[4] + d>>
                      [] k = "E" -> <<b[3], b[2], b[3] + d, b[4]>>
                      [] k = "W" -> <<b[1] - d, b[2], b[1], b[4]>>
Apex(b, k, d) == LET n == Outward(b, k, d)
                 IN  CASE k = "N" -> <<(n[1] + n[3]) \div 2, n[2]>> [] k = "S" -> <<(n[1] + n[3]) \div 2, n[4]>>
                       [] k = "E" -> <<n[3], (n[2] + n[4]) \div 2>> [] k = "W" -> <<n[1], (n[2] + n[4]) \div 2>>

\* pushEdge: an edge already drawn between the two points is used as it is.
Drawn(edges, e) == LET same == {x \in edges : x.ends = e.ends} IN IF same = {} THEN e ELSE CHOOSE x \in same : TRUE
Push(in, edges, pair, type, line) == Drawn(edges, Edge(in, ToString(pair[1]), ToString(pair[2]), type, line))
Box(in, edges, b, first, shared) ==
    {IF k = first THEN shared ELSE Push(in, edges, SideOf(b, k), IF k \in {"E", "W"} THEN "rake" ELSE "eave", None)
     : k \in Sides}

\* What is drawn of a plane on a shared edge: a triangle on a hip or a valley, else a box.
Rise(in, edges, shared, type, apex) ==
    {shared} \cup {Drawn(edges, Edge(in, v, apex, type, None)) : v \in shared.ends}
DrawnOn(in, edges, shared, type, box, out, k, d) ==
    IF type # "ridge" /\ type \in Junctions
    THEN Rise(in, edges \cup {shared}, shared, type, ToString(Apex(box, k, d)))
    ELSE Box(in, edges \cup {shared}, out, Opposite[k], shared)
PutDown(at, plane, out, drawn) ==
    [at EXCEPT !.boxes = @ @@ plane :> out, !.draw = @ @@ plane :> drawn, !.edges = @ \cup drawn]
LayOn(in, at, step, box, k, d) ==
    IF d = 0 THEN [at EXCEPT !.unresolved = @ \cup {step.plane}, !.short = TRUE]
    ELSE PutDown(at, step.plane, Outward(box, k, d),
                 DrawnOn(in, at.edges, Push(in, at.edges, SideOf(box, k), in.lines[step.via].type, step.via),
                         in.lines[step.via].type, box, Outward(box, k, d), k, d))

\* One plane of the walk put down, or left unresolved; `at` is what is laid out so far.
Lay(in, sides, at, step) ==
    IF step.parent \notin DOMAIN at.boxes \/ step.plane \notin DOMAIN sides
    THEN [at EXCEPT !.unresolved = @ \cup {step.plane}]
    ELSE LayOn(in, at, step, at.boxes[step.parent], sides[step.plane], Depth(in.planes[step.plane]))

RECURSIVE LayAll(_, _, _, _)
LayAll(in, sides, at, steps) ==
    IF steps = <<>> THEN at ELSE LayAll(in, sides, Lay(in, sides, at, Head(steps)), Tail(steps))

\* layoutFromResolutions
Laid(in, sides) ==
    LET a == Anchor(in)
        b == <<0, 0, Along(in.planes[a]), Depth(in.planes[a])>>
        first == Box(in, {}, b, "none", None)
    IN  LayAll(in, sides, [boxes |-> a :> b, draw |-> a :> first, edges |-> first, unresolved |-> {}, short |-> FALSE],
               planPlacement(in))

\* The scaffold asks for the side of every plane but the anchor.
Asking(in, r) == [r EXCEPT !.asks = Own(in) \ {Anchor(in)}]

PlacedFrom(in, sides, laid, ask) ==
    IF DOMAIN sides = {} \/ Along(in.planes[Anchor(in)]) = 0 THEN ask
    ELSE IF ~Valid(laid.draw) THEN ask
    ELSE IF laid.unresolved = {} /\ ~laid.short THEN Asking(in, Success(laid.draw, "placed"))
    ELSE Asking(in, Partial(laid.draw, DOMAIN laid.draw, laid.unresolved, "placed"))
Placed(in, sides) == PlacedFrom(in, sides, Laid(in, sides), Asking(in, NeedsReview(in, "unresolved_complex_topology")))

\* One plane laid over another, which the validator only warns of.
Overlaps(in, sides) ==
    LET B == Laid(in, sides).boxes
    IN  \E p, q \in DOMAIN B : /\ p # q /\ B[p][1] < B[q][3] /\ B[q][1] < B[p][3]
                              /\ B[p][2] < B[q][4] /\ B[q][2] < B[p][4]

(***************************************************************************)
(* generateSketchGeometry.                                                 *)
(***************************************************************************)
\* inferTopologyEdges, for planes without any line: a ridge between the two that match best,
\* an eave on each, and the next two planes hipped to both.
Bigger(in, p, q) == LET a == in.planes[p].area
                        b == in.planes[q].area
                    IN  a > b \/ (a = b /\ p < q)
Largest(in, S) == CHOOSE p \in S : \A q \in S \ {p} : Bigger(in, p, q)
Sig(q) == <<q.pitch, q.width, q.length>>
Matched(in, p) == {q \in Own(in) \ {p} : /\ Sig(in.planes[q]) = Sig(in.planes[p]) /\ Bigger(in, p, q)
                                         /\ in.planes[p].width > 0 /\ in.planes[p].length > 0}
Pair(in) == LET firsts == {p \in Own(in) : Matched(in, p) # {}}
                a == Largest(in, IF firsts = {} THEN Own(in) ELSE firsts)
            IN  {a, Largest(in, IF firsts = {} THEN Own(in) \ {a} ELSE Matched(in, a))}

PairLength(in, pair) == LET L == {in.planes[p].length : p \in pair} \ {0} IN IF L = {} THEN 0 ELSE Min(L)
Inset(in, p, length) == IF in.planes[p].width > 0 THEN Run(in.planes[p]) ELSE (length * 3) \div 10
HipEnds(in, pair) == LET rest == Own(in) \ pair
                     IN  {p \in rest : Cardinality({q \in rest : Bigger(in, q, p)}) < 2}

inferTopologyEdges(in, pair, length, ends) ==
    LET a == Largest(in, pair)
        b == Min(pair \ {a})
        left == length - MapThenSumSet(LAMBDA p : Inset(in, p, length), ends)
        line(type, f1, f2, d) == [type |-> type, length |-> d, p |-> f1, s |-> f2]
        hips(n, e) == n :> line("hip", e, a, in.planes[e].width) @@ (n + 1) :> line("hip", e, b, in.planes[e].width)
    IN  1 :> line("ridge", a, b, IF left > 0 THEN left ELSE None)
        @@ 2 :> line("eave", a, None, length) @@ 3 :> line("eave", b, None, length)
        @@ (IF ends = {} THEN <<>> ELSE hips(4, Largest(in, ends)))
        @@ (IF Cardinality(ends) < 2 THEN <<>> ELSE hips(6, Largest(in, ends \ {Largest(in, ends)})))

Inferred(in, pair, length) ==
    IF length = 0 THEN in ELSE Known(in.planes, inferTopologyEdges(in, pair, length, HipEnds(in, pair)))
Completed(in) ==
    IF DOMAIN in.lines # {} \/ Cardinality(Own(in)) < 2 \/ \E p \in Own(in) : in.planes[p].pitch = None
    THEN in ELSE Inferred(in, Pair(in), PairLength(in, Pair(in)))

\* generateProposedSketch: what keeps the foundation itself from being complete.
BaseErrors(in) == (IF Own(in) = {} THEN {"no_roof_planes"} ELSE {})
                  \cup (IF \E p \in Own(in) : in.planes[p].pitch = None THEN {"missing_pitch"} ELSE {})
                  \cup (IF \E p \in Own(in) : in.planes[p].area = 0 THEN {"missing_area"} ELSE {})

\* _components, the largest first; _subInput of one.
Parts(in) == Sections(Own(in), {Named(in, l) : l \in Shared(in)})
FirstPart(parts) == CHOOSE S \in parts : \A T \in parts \ {S} :
    Cardinality(S) > Cardinality(T) \/ (Cardinality(S) = Cardinality(T) /\ Min(S) < Min(T))
Section(in, S) == Known(Restrict(in.planes, S), Restrict(in.lines, {l \in DOMAIN in.lines : Named(in, l) \cap S # {}}))

\* A part no shape was recognised in is laid out by the side choices.
FramedOrPlaced(in, framed, sides) == IF framed = Unframed THEN Placed(in, sides) ELSE framed

RECURSIVE Generated(_, _), Connected(_, _)

\* _layoutConnected: one part is recognised, framed or laid out by choices; of several, one is drawn.
Connected(in, sides) ==
    LET parts == Parts(in)
        sub == [S \in parts |-> Generated(Section(in, S), <<>>)]
        solved == {S \in parts : sub[S].geometry = "generated"}
        drawn == FirstPart(solved)
    IN  IF Contradictory(in) THEN NeedsReview(in, "contradictory_adjacency")
        ELSE IF Cardinality(parts) = 1
        THEN IF IsStandardHip(in) THEN StandardHip(in) ELSE FramedOrPlaced(in, frameRoof(in), sides)
        ELSE IF solved # {} /\ solved # parts
        THEN Partial(sub[drawn].draw, drawn, Own(in) \ drawn, sub[drawn].how)
        ELSE NeedsReview(in, IF solved = parts THEN "disconnected_planes" ELSE "unresolved_complex_topology")

Generated(raw, sides) ==
    LET in == Completed(raw)
    IN  CASE BaseErrors(in) # {} -> NotAttempted(in, BaseErrors(in))
          [] BaseErrors(in) = {} /\ Cardinality(Own(in)) = 1 -> SinglePlane(in)
          [] BaseErrors(in) = {} /\ Cardinality(Own(in)) = 2 /\ Cardinality(Shared(in)) = 1
             /\ Shared(in) \subseteq Of(in, {"ridge"}) -> Gable(in)
          [] OTHER -> Connected(in, sides)

(***************************************************************************)
(* Properties.                                                             *)
(***************************************************************************)
\* Every plane of the structure is either drawn or named as unresolved, and no other.
EveryPlaneAccounted(in, r) ==
    /\ r.resolved \cup r.unresolved = Own(in) /\ r.resolved \cap r.unresolved = {}
    /\ DOMAIN r.draw = r.resolved
\* An edge drawn for a roof line bounds only planes that line names, unless the side choices
\* laid one plane over another.
LinesKeepTheirPlanes(in, r, sides) == (r.how = "placed" => ~Overlaps(in, sides)) =>
    \A p \in DOMAIN r.draw : \A e \in r.draw[p] : e.line # None => p \in Named(in, e.line)
\* In a roof recognised as a whole, planes a junction joins share an edge.
JunctionsDrawn(in, r) ==
    r.geometry = "generated" /\ r.how \notin {"placed", "dormers"} =>
        \A l \in Joining(in, Junctions) : \E e \in UNION {r.draw[p] : p \in Own(in)} :
            \A p \in Named(in, l) : e \in r.draw[p]

\* A proposal keeps the measured identity: whatever the lines and planes say, the drawing
\* accounts for every plane once and puts a roof line only where it is measured
\* (generateSketch.js:11 "Identity is RELATIONAL ONLY"; generateSketchGeometry.js).
KeepsIdentity(raw, sides) ==
    LET r == Generated(raw, sides)
        in == Completed(raw)
    IN  /\ \A p \in DOMAIN r.draw : Closed(r.draw[p])
        /\ EveryPlaneAccounted(in, r) /\ LinesKeepTheirPlanes(in, r, sides) /\ JunctionsDrawn(in, r)
=============================================================================
