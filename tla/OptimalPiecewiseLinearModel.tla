--------------------- MODULE OptimalPiecewiseLinearModel ---------------------
(***************************************************************************)
(* lemonhash::pgm::internal::OptimalPiecewiseLinearModel, as operators on  *)
(* the record of its fields: the points seen so far are spread to vertical *)
(* bars, of which the two convex hulls that bound the lines through all of *)
(* them are kept, with the two extreme lines, the rectangle.  Arithmetic   *)
(* is exact: the code computes in 128 bits.                                *)
(***************************************************************************)
EXTENDS Integers, Sequences, FiniteSetsExt

Minus(a, b) == [dx |-> a.x - b.x, dy |-> a.y - b.y]

SlopeLess(s, t) == s.dy * t.dx < s.dx * t.dy

cross(O, A, B) == LET OA == Minus(A, O)
                      OB == Minus(B, O)
                  IN  OA.dx * OB.dy - OA.dy * OB.dx

\* what the constructor and a rejected point leave
NoPoints == [points_in_hull |-> 0, last_x |-> 0, first |-> <<>>, rectangle |-> <<>>,
             lower |-> <<>>, lower_start |-> 1, upper |-> <<>>, upper_start |-> 1]

\* "Points must be increasing by x."
MustIncrease(opt, p) == opt.points_in_hull > 0 /\ p.x <= opt.last_x

\* p1 and p2; ranks are unsigned
Bar(p, epsilon_lower, epsilon_upper) ==
    [top |-> [x |-> p.x, y |-> p.y + epsilon_upper],
     bottom |-> [x |-> p.x,
                 y |-> IF p.y <= epsilon_lower THEN 0 ELSE p.y - epsilon_lower]]

slope1(r) == Minus(r[3], r[1])
slope2(r) == Minus(r[4], r[2])

\* variant that only looks at one of the two lines
OutsideOneLine(opt, bar) ==
    LET r == opt.rectangle
    IN  SlopeLess(Minus(bar.top, r[3]), slope1(r))

\* variant that rejects points on the lines
TouchingLine(opt, bar) ==
    LET r == opt.rectangle
    IN  \/ ~ SlopeLess(slope1(r), Minus(bar.top, r[3]))
        \/ ~ SlopeLess(Minus(bar.bottom, r[4]), slope2(r))

\* outside_line1 || outside_line2
Outside(opt, bar) ==
    LET r == opt.rectangle
    IN  \/ SlopeLess(Minus(bar.top, r[3]), slope1(r))
        \/ SlopeLess(slope2(r), Minus(bar.bottom, r[4]))

\* from `start`, the last of the points whose slopes to p do not get worse
Extreme(hull, start, p, Worse(_, _)) ==
    LET To(i) == Minus(hull[i], p)
    IN  Max({e \in start .. Len(hull) :
                \A i \in start + 1 .. e : ~ Worse(To(i), To(i - 1))})

\* the hull up to the last point that stays convex in front of p, and p
HullWith(hull, start, p, Redundant(_)) ==
    LET end == Max({e \in 0 .. Len(hull) :
                       e < start + 1 \/ ~ Redundant(cross(hull[e - 1], hull[e], p))})
    IN  Append(SubSeq(hull, 1, end), p)

\* the upper end of the bar lowers the steeper line
LowerSteepest(opt, p1) ==
    LET e == Extreme(opt.lower, opt.lower_start, p1, LAMBDA s, t : SlopeLess(t, s))
    IN  IF SlopeLess(Minus(p1, opt.rectangle[2]), slope2(opt.rectangle))
        THEN [opt EXCEPT !.rectangle[2] = opt.lower[e], !.rectangle[4] = p1,
                         !.lower_start = e,
                         !.upper = HullWith(opt.upper, opt.upper_start, p1,
                                            LAMBDA c : c <= 0)]
        ELSE opt

\* the lower end of the bar raises the flatter line
RaiseFlattest(opt, slope, p2) ==
    LET e == Extreme(opt.upper, opt.upper_start, p2, SlopeLess)
    IN  IF SlopeLess(slope, Minus(p2, opt.rectangle[1]))
        THEN [opt EXCEPT !.rectangle[1] = opt.upper[e], !.rectangle[3] = p2,
                         !.upper_start = e,
                         !.lower = HullWith(opt.lower, opt.lower_start, p2,
                                            LAMBDA c : c >= 0)]
        ELSE opt

(***************************************************************************)
(* add_point for a point that does not throw.  It returns whether the      *)
(* point was accepted: points_in_hull is 0 if not.  The hulls a rejection  *)
(* leaves behind are cleared by the next point.                            *)
(***************************************************************************)
add_point(opt, p, epsilon_lower, epsilon_upper) ==
    LET bar == Bar(p, epsilon_lower, epsilon_upper)
        seen == [opt EXCEPT !.last_x = p.x, !.points_in_hull = @ + 1]
    IN  CASE opt.points_in_hull = 0 ->
               [NoPoints EXCEPT !.points_in_hull = 1, !.last_x = p.x, !.first = p,
                                !.rectangle = <<bar.top, bar.bottom>>,
                                !.upper = <<bar.top>>, !.lower = <<bar.bottom>>]
          [] opt.points_in_hull = 1 ->
               [seen EXCEPT !.rectangle = @ \o <<bar.bottom, bar.top>>,
                            !.upper = Append(@, bar.top), !.lower = Append(@, bar.bottom)]
          [] OTHER ->
               IF Outside(opt, bar) THEN NoPoints
               ELSE RaiseFlattest(LowerSteepest(seen, bar.top),
                                  slope1(opt.rectangle), bar.bottom)

\* get_segment
get_segment(opt) ==
    [first |-> opt.first,
     rectangle |-> IF opt.points_in_hull = 1 THEN opt.rectangle \o opt.rectangle
                   ELSE opt.rectangle]

-----------------------------------------------------------------------------
\* CanonicalSegment.  Rationals are records with a positive denominator.
one_point(cs) == cs.rectangle[1] = cs.rectangle[3] /\ cs.rectangle[2] = cs.rectangle[4]

Positive(num, den) == IF den < 0 THEN [num |-> - num, den |-> - den]
                      ELSE [num |-> num, den |-> den]

\* the point both extreme lines pass through, over a common denominator
get_intersection(cs) ==
    LET p0 == cs.rectangle[1]
        s1 == slope1(cs.rectangle)
        s2 == slope2(cs.rectangle)
        p0p1 == Minus(cs.rectangle[2], p0)
        a == s1.dx * s2.dy - s1.dy * s2.dx
        b == p0p1.dx * s2.dy - p0p1.dy * s2.dx
    IN  IF a = 0 THEN [x |-> p0.x, y |-> p0.y, den |-> 1]
        ELSE [x |-> p0.x * a + b * s1.dx, y |-> p0.y * a + b * s1.dy, den |-> a]

\* the mean of the slope range, whose lower end is raised to 0
MeanSlope(cs) ==
    LET s1 == slope1(cs.rectangle)
        s2 == slope2(cs.rectangle)
        low == IF s1.dy < 0 THEN 0 ELSE s1.dy
    IN  IF one_point(cs) THEN [num |-> 0, den |-> 1]
        ELSE [num |-> low * s2.dx + s2.dy * s1.dx, den |-> 2 * s1.dx * s2.dx]

(***************************************************************************)
(* The intercept at origin, converted to an integer: a value that should   *)
(* be whole may have been computed as a little closer to zero.             *)
(***************************************************************************)
Intercepts(cs, origin) ==
    IF one_point(cs) THEN {(cs.rectangle[1].y + cs.rectangle[2].y) \div 2}
    ELSE LET i == get_intersection(cs)
             s == MeanSlope(cs)
             v == Positive(i.y * s.den - (i.x - origin * i.den) * s.num, i.den * s.den)
             w == IF v.num >= 0 THEN v.num \div v.den ELSE - ((- v.num) \div v.den)
         IN  IF v.num % v.den # 0 \/ w = 0 THEN {w}
             ELSE {w, IF w > 0 THEN w - 1 ELSE w + 1}

\* the line through p with slope s passes through a vertical bar
Passes(p, s, bar) ==
    LET y == s.dx * p.y + (bar.top.x - p.x) * s.dy
    IN  s.dx * bar.bottom.y <= y /\ y <= s.dx * bar.top.y

(***************************************************************************)
(* The reference for what the hulls compute: a line passes through all     *)
(* vertical bars exactly if one passes through every three of them.        *)
(***************************************************************************)
SomeLineThrough(bars) ==
    \A a, b, c \in bars : a.top.x < b.top.x /\ b.top.x < c.top.x =>
        /\ cross(a.bottom, c.bottom, b.top) >= 0
        /\ cross(a.top, c.top, b.bottom) <= 0
=============================================================================
