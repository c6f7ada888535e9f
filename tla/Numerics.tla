------------------------------- MODULE Numerics -------------------------------
(***************************************************************************)
(* The geometry of Cbasic (cvxhull.c, lint.c, arclen.c, geodist.c), its    *)
(* recursive functions (fact.c, facttail.c, factor.c), its string hash     *)
(* (hashpjw.c) and its numerical methods (interpol.c, lsqe.c, root.c).     *)
(* What the code computes in double is exact here: points have integer     *)
(* coordinates, angles are quarter turns, and quotients are rationals.     *)
(***************************************************************************)
EXTENDS Integers, Sequences, FiniteSets, SequencesExt, FiniteSetsExt, Bitwise

CONSTANTS IntBits,   \* the width of an int
          Shift,     \* by how much hashpjw shifts, 4 for an int of 32 bits
          TableSize, \* PRIME_TBLSIZ
          Inputs     \* records with a function and its arguments

VARIABLES
    input,     \* what was called
    output     \* what it returned, or NotYet

vars == <<input, output>>

NotYet    == [code |-> 1]
Undefined == -2     \* a pointer without a value is followed

Orientation(p, q, r) == (r[1] - p[1]) * (q[2] - p[2]) - (r[2] - p[2]) * (q[1] - p[1])
Length2(p, q)        == (p[1] - q[1]) * (p[1] - q[1]) + (p[2] - q[2]) * (p[2] - q[2])

-----------------------------------------------------------------------------
\* cvxhull.  P is the list of points, and a Point * the place of one.  low is
\* set only by a point that is lower than the first: when none is, it is read
\* without a value.
Lower(p, q) == p[2] < q[2] \/ (p[2] = q[2] /\ p[1] < q[1])
Lowest(P) == CHOOSE i \in DOMAIN P : /\ \A j \in DOMAIN P : ~Lower(P[j], P[i])
                                     /\ \A j \in 1 .. i - 1 : Lower(P[i], P[j])

\* The next vertex: the point that all others are on one side of, seen from
\* p0, and of those in line with it the farthest.
BetterNearest(P, p0, pc, pi) ==
    LET z == Orientation(P[p0], P[pc], P[pi])
    IN  z > 0 \/ (z = 0 /\ Length2(P[pi], P[p0]) < Length2(P[pc], P[p0]))
Better(P, p0, pc, pi) ==
    LET z == Orientation(P[p0], P[pc], P[pi])
    IN  z > 0 \/ (z = 0 /\ Length2(P[pi], P[p0]) > Length2(P[pc], P[p0]))
NextVertex(P, p0) ==
    LET Pick(pc, pi) == IF Better(P, p0, pc, pi) THEN pi ELSE pc
        others == SelectSeq([i \in DOMAIN P |-> i], LAMBDA i : i # p0)
    IN  FoldLeft(Pick, Head(others), Tail(others))
RECURSIVE Wrap(_, _, _)
Wrap(P, low, polygon) ==
    LET p0 == NextVertex(P, Last(polygon))
    IN  IF p0 = low THEN polygon ELSE Wrap(P, low, Append(polygon, p0))

CvxHull(P) ==
    IF Lowest(P) = 1 THEN [code |-> Undefined]
    ELSE [code |-> 0, polygon |-> Wrap(P, Lowest(P), <<Lowest(P)>>)]

\* lint: the boxes of the segments meet, and neither segment has the ends of
\* the other strictly on one side.
Abs(z)  == IF z < 0 THEN -z ELSE z
Sign(z) == IF z < 0 THEN -1 ELSE IF z > 0 THEN 1 ELSE 0
BoxesMeet(p1, p2, p3, p4) ==
    \A c \in {1, 2} : /\ Max({p1[c], p2[c]}) >= Min({p3[c], p4[c]})
                      /\ Max({p3[c], p4[c]}) >= Min({p1[c], p2[c]})
Straddles(p, q, r, s) == Sign(Orientation(p, q, r)) * Sign(Orientation(p, q, s)) <= 0
Lint(p) ==
    IF /\ BoxesMeet(p[1], p[2], p[3], p[4])
       /\ Straddles(p[1], p[2], p[3], p[4]) /\ Straddles(p[3], p[4], p[1], p[2])
    THEN 1 ELSE 0

-----------------------------------------------------------------------------
\* fact and facttail multiply in an int, which wraps around.
Wrapped(x) == LET u == x % 2 ^ IntBits
              IN  IF u >= 2 ^ (IntBits - 1) THEN u - 2 ^ IntBits ELSE u
RECURSIVE Fact(_)
Fact(n) == IF n < 0 THEN 0 ELSE IF n <= 1 THEN 1 ELSE Wrapped(n * Fact(n - 1))
RECURSIVE FactTail(_, _)
FactTail(n, a) ==
    IF n < 0 THEN 0 ELSE IF n = 0 THEN 1 ELSE IF n = 1 THEN a
    ELSE FactTail(n - 1, Wrapped(n * a))

\* factor prints the factors from the least one on.
RECURSIVE Factor(_, _)
Factor(n, j) ==
    LET divisors == {i \in j .. n : i * i <= n /\ n % i = 0}
    IN  IF n = 1 THEN <<>>
        ELSE IF divisors = {} THEN <<n>>
        ELSE <<Min(divisors)>> \o Factor(n \div Min(divisors), Min(divisors))

\* hashpjw shifts a letter in, and folds the bits that reach the top back to
\* the bottom.  tmp is an int, so that its shift to the right takes copies of
\* the sign with it, and so does a letter below 0, of a char with a sign, when
\* it is added.  Values are kept modulo 2^IntBits.
PjwStep(val, letter) ==
    LET sum == (val * 2 ^ Shift + letter) % 2 ^ IntBits
        tmp == sum - (sum % 2 ^ (IntBits - Shift))
        low == (Wrapped(tmp) \div 2 ^ (IntBits - 2 * Shift)) % 2 ^ IntBits
    IN  IF tmp = 0 THEN sum ELSE (sum ^^ low) ^^ tmp
CRemainder(x, n) == IF x < 0 THEN -((-x) % n) ELSE x % n
HashPjw(word) == CRemainder(Wrapped(FoldLeft(PjwStep, 0, word)), TableSize)

-----------------------------------------------------------------------------
\* arclen and geodist.  Angles and lengths are in quarter turns, so that the
\* sines are -1, 0 and 1, and the radius of the earth is 1.
Sine(q)   == CASE q % 4 = 1 -> 1 [] q % 4 = 3 -> -1 [] OTHER -> 0
Cosine(q) == Sine(q + 1)
ArcCosine(c) == 1 - c
Rectangular(p) ==
    <<Sine(p.phi) * Cosine(p.theta), Sine(p.phi) * Sine(p.theta), Cosine(p.phi)>>
ArcLen(p1, p2) ==
    LET r1 == Rectangular(p1)
        r2 == Rectangular(p2)
    IN  ArcCosine(r1[1] * r2[1] + r1[2] * r2[2] + r1[3] * r2[3])
GeoDist(lat1, lon1, lat2, lon2) ==
    IF \/ lat1 < -1 \/ lat1 > 1 \/ lat2 < -1 \/ lat2 > 1
       \/ lon1 < -2 \/ lon1 > 2 \/ lon2 < -2 \/ lon2 > 2
    THEN [code |-> -1]
    ELSE [code |-> 0, d |-> ArcLen([theta |-> -lon1, phi |-> 1 - lat1],
                                   [theta |-> -lon2, phi |-> 1 - lat2])]

\* Rationals in lowest terms, and the quotient of two.
Rat(n, d) ==
    LET g == Max({c \in 1 .. Abs(d) : n % c = 0 /\ d % c = 0})
    IN  <<Sign(d) * (n \div g), Abs(d) \div g>>
Plus(p, q)  == Rat(p[1] * q[2] + q[1] * p[2], p[2] * q[2])
Minus(p, q) == Rat(p[1] * q[2] - q[1] * p[2], p[2] * q[2])
Times(p, q) == Rat(p[1] * q[1], p[2] * q[2])
Over(p, q)  == Rat(p[1] * q[2], p[2] * q[1])
Zero == <<0, 1>>
Sum(s)     == FoldLeft(Plus, Zero, s)

\* interpol: the divided differences of order k stand in the table after the
\* round k, and the first is the coefficient.
Coefficients(x, fx) ==
    LET table[k \in 0 .. Len(x) - 1] ==
            IF k = 0 THEN fx
            ELSE [i \in 1 .. Len(x) - k |->
                    Over(Minus(table[k - 1][i + 1], table[k - 1][i]), Minus(x[i + k], x[i]))]
    IN  [k \in 1 .. Len(x) |-> table[k - 1][1]]
Term(c, x, j, z) == FoldLeft(LAMBDA term, i : Times(term, Minus(z, x[i])), c, [i \in 1 .. j - 1 |-> i])
Interpol(x, fx, z) ==
    LET coeff == Coefficients(x, fx)
    IN  [k \in DOMAIN z |-> Sum([j \in DOMAIN x |-> Term(coeff[j], x, j, z[k])])]

\* lsqe: the line y = b0 + b1 x; points above one another have none.
Lsqe(x, y) ==
    LET n     == <<Len(x), 1>>
        sumx  == Sum(x)
        sumy  == Sum(y)
        sumx2 == Sum([i \in DOMAIN x |-> Times(x[i], x[i])])
        sumxy == Sum([i \in DOMAIN x |-> Times(x[i], y[i])])
        below == Minus(sumx2, Over(Times(sumx, sumx), n))
        b1    == Over(Minus(sumxy, Over(Times(sumx, sumy), n)), below)
    IN  IF below = Zero THEN [code |-> Undefined]
        ELSE [code |-> 0, b1 |-> b1, b0 |-> Over(Minus(sumy, Times(b1, sumx)), n)]

\* root: the approximations from x[0] on, of which there is room for n; step
\* is f / g, by the remainder of x.
StepAt(in, x) == in.step[x % 3]
RECURSIVE Newton(_, _)
Newton(in, x) ==
    LET i    == Len(x)
        next == Append(x, x[i] - StepAt(in, x[i]))
    IN  IF i >= in.n THEN [code |-> -1, x |-> x]
        ELSE IF Abs(next[i + 1] - x[i]) < in.delta THEN [code |-> 0, x |-> next]
        ELSE Newton(in, next)
Root(in) == Newton(in, <<in.x>>)

Result(in) ==
    CASE in.fun = "cvxhull" -> CvxHull(in.points)
      [] in.fun = "lint"    -> [code |-> Lint(in.points)]
      [] in.fun = "fact"    -> [code |-> 0, fact |-> Fact(in.n), tail |-> FactTail(in.n, 1)]
      [] in.fun = "factor"  -> [code |-> 0, printed |-> Factor(in.n, 2)]
      [] in.fun = "hashpjw" -> [code |-> HashPjw(in.word)]
      [] in.fun = "geodist" -> GeoDist(in.p[1], in.p[2], in.q[1], in.q[2])
      [] in.fun = "interpol" -> [code |-> 0, pz |-> Interpol(in.x, in.fx, in.z)]
      [] in.fun = "lsqe"    -> Lsqe(in.x, in.y)
      [] in.fun = "root"    -> Root(in)

Init == input \in Inputs /\ output = NotYet
Call == output = NotYet /\ output' = Result(input) /\ UNCHANGED input
\* There is no memory for the table of interpol or its coefficients.
NoMemory ==
    /\ output = NotYet /\ input.fun = "interpol"
    /\ output' = [code |-> -1] /\ UNCHANGED input
Next == Call \/ NoMemory

Spec == Init /\ [][Next]_vars

-----------------------------------------------------------------------------
\* HullRight: unless low was never set, the polygon begins at the lowest
\* point, visits no point twice, and has every point on the same side of each
\* of its edges; no point in line with an edge lies beyond its ends.
HullRight ==
    input.fun = "cvxhull" /\ output.code = 0 =>
        LET P == input.points
            polygon == output.polygon
            Edge(k) == <<P[polygon[k]], P[polygon[(k % Len(polygon)) + 1]]>>
        IN  /\ polygon[1] = Lowest(P) /\ Cardinality(ToSet(polygon)) = Len(polygon)
            /\ \A k \in DOMAIN polygon, r \in ToSet(P) :
                LET z == Orientation(Edge(k)[1], Edge(k)[2], r)
                IN  /\ z <= 0
                    /\ z = 0 => BoxesMeet(Edge(k)[1], Edge(k)[2], r, r)

\* MeetsRight: lint answers 1 exactly when some point is on both segments,
\* those that are a single point and those in line included.
SegmentsMeet(p, most) ==
    \E n \in 1 .. most : \E a, b \in 0 .. n : \A c \in {1, 2} :
        n * p[1][c] + a * (p[2][c] - p[1][c]) = n * p[3][c] + b * (p[4][c] - p[3][c])
MeetsRight ==
    input.fun = "lint" /\ output # NotYet =>
        (output.code = 1 <=> SegmentsMeet(input.points, 8))

\* FactorsRight: the two factorials agree, wrapped or not; the factors are
\* primes in order whose product is the number.
Product(s) == FoldLeft(LAMBDA x, y : x * y, 1, s)
FactorsRight ==
    /\ input.fun = "fact" /\ output # NotYet => output.fact = output.tail
    /\ input.fun = "factor" /\ output # NotYet =>
        /\ Product(output.printed) = input.n
        /\ \A i \in DOMAIN output.printed :
            /\ output.printed[i] > 1
            /\ \A d \in 2 .. output.printed[i] - 1 : output.printed[i] % d # 0
            /\ i > 1 => output.printed[i - 1] <= output.printed[i]

\* DistancesRight: a distance is the same from both ends, none from a place to
\* itself, whatever the longitude of a pole is called, half a turn to the
\* place opposite, and never longer than the way over a third place.
Places == (-1 .. 1) \X (-2 .. 2)
SamePlace(p, q) == p[1] = q[1] /\ (Abs(p[1]) = 1 \/ p[2] % 4 = q[2] % 4)
DistancesRight ==
    input.fun = "geodist" /\ output # NotYet =>
        /\ (output.code = 0) = (input.p \in Places /\ input.q \in Places)
        /\ output.code = 0 =>
            LET D(p, q) == GeoDist(p[1], p[2], q[1], q[2]).d
            IN  /\ output.d = D(input.q, input.p)
                /\ (output.d = 0) = SamePlace(input.p, input.q)
                /\ (output.d = 2) = SamePlace(<<-input.p[1], input.p[2] + 2>>, input.q)
                /\ \A r \in Places : output.d <= D(input.p, r) + D(r, input.q)

\* MethodsRight: the polynomial of interpol is that of Lagrange; what the line
\* of lsqe leaves of the points sums to nothing, alone and times x; root says
\* 0 when the last two approximations are close, having stopped at the first
\* such two, and stays in the room it was given unless that was none.
Lagrange(x, fx, z) ==
    Sum([i \in DOMAIN x |->
            FoldLeft(LAMBDA p, j : IF j = i THEN p
                                   ELSE Times(p, Over(Minus(z, x[j]), Minus(x[i], x[j]))),
                     fx[i], [j \in DOMAIN x |-> j])])
MethodsRight ==
    /\ input.fun = "interpol" /\ output.code = 0 =>
        \A k \in DOMAIN input.z : output.pz[k] = Lagrange(input.x, input.fx, input.z[k])
    /\ input.fun = "lsqe" /\ output.code = 0 =>
        LET left == [i \in DOMAIN input.x |->
                        Minus(input.y[i], Plus(output.b0, Times(output.b1, input.x[i])))]
        IN  Sum(left) = Zero /\ Sum([i \in DOMAIN left |-> Times(left[i], input.x[i])]) = Zero
    /\ input.fun = "root" /\ output # NotYet =>
        LET close == {i \in 2 .. Len(output.x) :
                        Abs(output.x[i] - output.x[i - 1]) < input.delta}
        IN  /\ close = IF output.code = 0 THEN {Len(output.x)} ELSE {}
            /\ Len(output.x) <= Max({input.n, 1})
            /\ output.code = -1 => Len(output.x) = Max({input.n, 1})

\* HashInTable: the hash of a string is a place in the table, and may have the
\* wrong sign only when some sum has reached the sign bit, as it does with a
\* letter below 0 in front.
ReachesSign(word) ==
    \E n \in DOMAIN word :
        (FoldLeft(PjwStep, 0, SubSeq(word, 1, n - 1)) * 2 ^ Shift + word[n]) % 2 ^ IntBits
            >= 2 ^ (IntBits - 1)
HashInTable ==
    input.fun = "hashpjw" /\ output # NotYet =>
        /\ Abs(output.code) < TableSize
        /\ output.code < 0 => ReachesSign(input.word)
=============================================================================
