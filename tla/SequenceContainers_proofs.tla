----------------------- MODULE SequenceContainers_proofs -----------------------
(***************************************************************************)
(* The compressed sequences return the values appended to them: for each   *)
(* container, that appending and completing keep it in step with the       *)
(* values, and what its position lookup then finds; at the end, the        *)
(* invariant of all of them and the theorems.                              *)
(***************************************************************************)
EXTENDS SequenceContainers, Counting_proofs

\* the empty sequence
LEMMA EmptySequence ==
    /\ Len(<<>>) = 0 /\ <<>> \in Seq(Nat)
    /\ \A s \in Seq(Nat) : Len(s) \in Nat /\ (s = <<>> <=> Len(s) = 0)
  OBVIOUS

-----------------------------------------------------------------------------
(* DuplicateFilterRank. *)

\* values of an area
G == FILTER_GRANULARITY

\* the area of a value behind m whole areas
LEMMA AreaOf ==
    ASSUME NEW m \in Nat, NEW h \in Nat, h = m * G, NEW i \in h .. h + G - 1
    PROVE  i \div G = m /\ i % G = i - h
<1> DEFINE r == i - h
<1>1. G \in Nat \ {0}
  BY FilterAssumption DEF G
<1>2. r \in 0 .. G - 1 /\ i = h + r
  BY <1>1
<1> HIDE DEF r
<1>3. (m * G + r) \div G = m /\ (m * G + r) % G = r
  BY <1>1, <1>2, QuotientIs
<1>4. QED
  BY <1>1, <1>2, <1>3 DEF r

\* the area of a value within m whole areas
LEMMA AreaBelow ==
    ASSUME NEW m \in Nat, NEW h \in Nat, h = m * G, NEW i \in 0 .. h - 1
    PROVE  i \div G \in 0 .. m - 1
<1>1. G \in Nat \ {0}
  BY FilterAssumption DEF G
<1>0. i \in Nat
  OBVIOUS
<1>2. i \in Nat /\ i \div G \in Nat /\ i % G \in 0 .. G - 1 /\ i = (i \div G) * G + (i % G)
  BY <1>0, <1>1, Division
<1> DEFINE a == i \div G
<1>3. a \in Nat /\ a * G <= i
  <2>1. a * G \in Nat
    BY <1>1, <1>2
  <2>2. QED
    BY <1>1, <1>2, <2>1
<1> HIDE DEF a
<1>4. CASE a >= m
  <2>1. a * G >= m * G
    BY <1>1, <1>3, <1>4
  <2>2. QED
    BY <1>1, <1>3, <2>1
<1>5. QED
  BY <1>3, <1>4 DEF a

\* the elements of a concatenation
LEMMA Concatenated ==
    ASSUME NEW s \in Seq(Nat), NEW t \in Seq(Nat)
    PROVE  /\ s \o t \in Seq(Nat) /\ Len(s \o t) = Len(s) + Len(t)
           /\ \A k \in 1 .. Len(s) : (s \o t)[k] = s[k]
           /\ \A k \in 1 .. Len(t) : (s \o t)[Len(s) + k] = t[k]
  OBVIOUS

\* a place in the part that is appended
LEMMA NewPlace ==
    ASSUME NEW l \in Nat, NEW h \in Nat, l <= h, NEW n \in Nat, NEW k \in 1 .. n
    PROVE  /\ l + (k - 1) \in 0 .. h + k - 1 /\ l + (k - 1) < l + n
           /\ (l + (k - 1)) + 1 = l + k
  OBVIOUS

\* the child holds the stored ones of m areas, and the rest of the h values
\* are copies
Whole(f, m, h) ==
    /\ h \in Nat /\ h = m * G
    /\ f.stored \in SUBSET (0 .. m - 1) /\ f.child \in Seq(Nat)
    /\ Len(f.child) = G * Cardinality(f.stored) /\ Len(f.child) <= h

\* g is f with area m stored
Stores(f, g, m, b) == g.stored = f.stored \cup {m} /\ g.child = f.child \o b

\* b holds the values of vs behind the first h
Buffered(b, vs, h) == \A k \in 1 .. Len(b) : b[k] = vs[h + k]

(***************************************************************************)
(* Storing an area: it is found behind the areas stored before, and the    *)
(* places of earlier values stay as they are.                              *)
(***************************************************************************)
LEMMA StoredArea ==
    ASSUME NEW f, NEW g, NEW vs, NEW m \in Nat \ {0}, NEW h, NEW b \in Seq(Nat),
           Whole(f, m, h),
           FilterFinds(f, vs, h),
           Len(b) \in 1 .. G, Buffered(b, vs, h), Stores(f, g, m, b)
    PROVE  /\ FilterFinds(g, vs, h + Len(b))
           /\ Cardinality(g.stored) = Cardinality(f.stored) + 1
<1>1. /\ G \in Nat \ {0} /\ h \in Nat /\ Len(b) \in Nat /\ f.child \in Seq(Nat)
      /\ Len(f.child) \in Nat /\ Len(f.child) <= h
  BY FilterAssumption DEF G, Whole
<1>2. /\ IsFiniteSet(f.stored) /\ Cardinality(f.stored) \in Nat /\ m \notin f.stored
  <2>1. IsFiniteSet(0 .. m - 1)
    BY FS_Interval
  <2>2. f.stored \in SUBSET (0 .. m - 1)
    BY DEF Whole
  <2>3. QED
    BY <2>1, <2>2, FS_Subset, FS_CardinalityType
<1>3. Cardinality(g.stored) = Cardinality(f.stored) + 1
  BY <1>2, FS_AddElement DEF Stores
<1>4. /\ Len(g.child) = Len(f.child) + Len(b)
      /\ \A k \in 1 .. Len(f.child) : g.child[k] = f.child[k]
      /\ \A k \in 1 .. Len(b) : g.child[Len(f.child) + k] = b[k]
  <2>1. /\ Len(f.child \o b) = Len(f.child) + Len(b)
        /\ \A k \in 1 .. Len(f.child) : (f.child \o b)[k] = f.child[k]
        /\ \A k \in 1 .. Len(b) : (f.child \o b)[Len(f.child) + k] = b[k]
    BY Concatenated
  <2>2. QED
    BY <2>1 DEF Stores
<1>5. ASSUME NEW i \in 0 .. h - 1
      PROVE  FilterIndex(g, i) = FilterIndex(f, i)
  <2> DEFINE area == i \div G
  <2>1. area \in 0 .. m - 1
    BY AreaBelow DEF Whole
  <2>2. area \in g.stored <=> area \in f.stored
    BY <2>1 DEF Stores
  <2>3. g.stored \cap 0 .. area - 1 = f.stored \cap 0 .. area - 1
    BY <2>1 DEF Stores
  <2>4. QED
    BY <2>2, <2>3 DEF FilterIndex, G
<1>6. ASSUME NEW i \in h .. h + Len(b) - 1
      PROVE  FilterIndex(g, i) = Len(f.child) + (i - h)
  <2>1. i \in h .. h + G - 1
    BY <1>1
  <2>2. i \div G = m /\ i % G = i - h
    BY <2>1, AreaOf DEF Whole
  <2>3. g.stored \cap 0 .. m - 1 = f.stored
    BY DEF Whole, Stores
  <2>4. m \in g.stored
    BY DEF Stores
  <2>5. FilterIndex(g, i) = G * Cardinality(f.stored) + (i % G)
    BY <2>2, <2>3, <2>4 DEF FilterIndex, G
  <2>6. Len(f.child) = G * Cardinality(f.stored)
    BY DEF Whole
  <2>7. QED
    BY <2>2, <2>5, <2>6
<1>7. ASSUME NEW i \in 0 .. h + Len(b) - 1
      PROVE  /\ FilterIndex(g, i) \in 0 .. i /\ FilterIndex(g, i) < Len(g.child)
             /\ g.child[FilterIndex(g, i) + 1] = vs[i + 1]
  <2>1. CASE i < h
    <3>1. i \in 0 .. h - 1
      BY <1>1, <2>1
    <3>2. /\ FilterIndex(f, i) \in 0 .. i /\ FilterIndex(f, i) < Len(f.child)
          /\ f.child[FilterIndex(f, i) + 1] = vs[i + 1]
      BY <3>1 DEF FilterFinds, FilterAt
    <3> DEFINE place == FilterIndex(f, i)
    <3>3. FilterIndex(g, i) = place
      BY <1>5, <3>1
    <3>4. place \in Nat /\ place < Len(f.child)
      BY <3>2
    <3> HIDE DEF place
    <3>5. Len(g.child) \in Nat /\ Len(f.child) <= Len(g.child)
      BY <1>1, <1>4
    <3>6. place < Len(g.child) /\ g.child[place + 1] = f.child[place + 1]
      <4> DEFINE s == f.child
                 t == g.child
      <4>1. /\ Len(s) \in Nat /\ Len(t) \in Nat /\ Len(s) <= Len(t)
            /\ \A k \in 1 .. Len(s) : t[k] = s[k]
            /\ place \in Nat /\ place < Len(s)
        BY <1>1, <1>4, <3>4, <3>5
      <4> HIDE DEF s, t
      <4>2. place < Len(t) /\ t[place + 1] = s[place + 1]
        BY SMTT(20), <4>1
      <4>3. QED
        BY <4>2 DEF s, t
    <3>7. QED
      BY <3>2, <3>3, <3>6 DEF place
  <2>2. CASE i >= h
    <3> DEFINE k == i - h + 1
    <3>1. i \in h .. h + Len(b) - 1 /\ k \in 1 .. Len(b) /\ h + k = i + 1
          /\ k \in Nat /\ i = h + k - 1 /\ i - h = k - 1
      BY <1>1, <2>2
    <3>2. b[k] = vs[i + 1] /\ g.child[Len(f.child) + k] = b[k]
      <4> HIDE DEF k
      <4>1. b[k] = vs[h + k]
        BY <3>1 DEF Buffered
      <4>2. QED
        BY <1>4, <3>1, <4>1
    <3>3. FilterIndex(g, i) = Len(f.child) + (k - 1)
      BY <1>6, <3>1
    <3> HIDE DEF k
    <3> DEFINE l == Len(f.child)
    <3>4. /\ l + (k - 1) \in 0 .. h + k - 1 /\ l + (k - 1) < l + Len(b)
          /\ (l + (k - 1)) + 1 = l + k
      BY <1>1, <3>1, NewPlace
    <3>5. Len(g.child) = l + Len(b) /\ FilterIndex(g, i) = l + (k - 1)
          /\ g.child[l + k] = vs[i + 1]
      BY <1>4, <3>2, <3>3
    <3> HIDE DEF l
    <3>6. QED
      BY <3>1, <3>4, <3>5
  <2>3. QED
    BY <1>1, <2>1, <2>2
<1>8. FilterFinds(g, vs, h + Len(b))
  BY <1>1, <1>7 DEF FilterFinds, FilterAt
<1>9. QED
  BY <1>3, <1>8

(***************************************************************************)
(* Not storing an area of copies of the last value before it: rank leads   *)
(* to the end of the last area stored.                                     *)
(***************************************************************************)
LEMMA SkippedArea ==
    ASSUME NEW f, NEW g, NEW vs, NEW m \in Nat \ {0}, NEW h, NEW n \in 0 .. G,
           Whole(f, m, h), f.child # <<>>,
           FilterFinds(f, vs, h),
           \A k \in 1 .. n : vs[h + k] = LastOf(f.child),
           g.stored = f.stored, g.child = f.child
    PROVE  FilterFinds(g, vs, h + n)
<1>1. /\ G \in Nat \ {0} /\ h \in Nat /\ n \in Nat /\ f.child \in Seq(Nat)
      /\ Len(f.child) \in Nat /\ Len(f.child) <= h /\ Len(f.child) > 0
  BY FilterAssumption DEF G, Whole
<1>2. \A i \in 0 .. h - 1 : FilterIndex(g, i) = FilterIndex(f, i)
  BY DEF FilterIndex
<1>3. ASSUME NEW i \in h .. h + n - 1
      PROVE  FilterIndex(g, i) = Len(f.child) - 1
  <2>1. i \in h .. h + G - 1
    BY <1>1
  <2>2. i \div G = m
    BY <2>1, AreaOf DEF Whole
  <2>3. g.stored \cap 0 .. m - 1 = f.stored /\ m \notin g.stored
    BY DEF Whole
  <2>4. FilterIndex(g, i) = G * Cardinality(f.stored) - 1
    BY <2>2, <2>3 DEF FilterIndex, G
  <2>5. QED
    BY <2>4 DEF Whole
<1>4. ASSUME NEW i \in 0 .. h + n - 1
      PROVE  /\ FilterIndex(g, i) \in 0 .. i /\ FilterIndex(g, i) < Len(g.child)
             /\ g.child[FilterIndex(g, i) + 1] = vs[i + 1]
  <2>1. CASE i < h
    <3>1. i \in 0 .. h - 1
      BY <1>1, <2>1
    <3>2. QED
      BY <1>2, <3>1 DEF FilterFinds, FilterAt
  <2>2. CASE i >= h
    <3> DEFINE k == i - h + 1
    <3>1. i \in h .. h + n - 1 /\ k \in 1 .. n /\ h + k = i + 1
      BY <1>1, <2>2
    <3>2. vs[i + 1] = LastOf(f.child)
      <4> HIDE DEF k
      <4>1. vs[h + k] = LastOf(f.child)
        BY <3>1
      <4>2. QED
        BY <3>1, <4>1
    <3>3. FilterIndex(g, i) = Len(f.child) - 1 /\ i >= h /\ i \in Nat
      BY <1>1, <1>3, <3>1
    <3>4. FilterIndex(g, i) + 1 = Len(f.child)
      BY <1>1, <3>3
    <3>5. g.child[FilterIndex(g, i) + 1] = vs[i + 1]
      BY <3>2, <3>4 DEF LastOf
    <3>6. QED
      BY <1>1, <3>3, <3>5
  <2>3. QED
    BY <1>1, <2>1, <2>2
<1>5. QED
  BY <1>1, <1>4 DEF FilterFinds, FilterAt

\* what is found depends on the stored areas and the child
LEMMA FindsSame ==
    ASSUME NEW f, NEW g, NEW vs, NEW ws, NEW h \in Nat, FilterFinds(f, vs, h),
           g.stored = f.stored, g.child = f.child,
           \A k \in 1 .. h : ws[k] = vs[k]
    PROVE  FilterFinds(g, ws, h)
<1>1. \A i : FilterIndex(g, i) = FilterIndex(f, i)
  BY DEF FilterIndex
<1>2. \A i \in 0 .. h - 1 : ws[i + 1] = vs[i + 1]
  OBVIOUS
<1>3. QED
  BY <1>1, <1>2 DEF FilterFinds, FilterAt

\* the values of the first area are stored where they are
LEMMA FirstArea ==
    ASSUME NEW f, NEW i \in 0 .. G - 1, f.stored = {0}
    PROVE  FilterIndex(f, i) = i
<1>1. G \in Nat \ {0}
  BY FilterAssumption DEF G
<1>2. i \div G = 0 /\ i % G = i
  <2>1. i \in 0 .. 0 + G - 1 /\ 0 = 0 * G
    BY <1>1
  <2>2. i \div G = 0 /\ i % G = i - 0
    BY <2>1, AreaOf
  <2>3. QED
    BY <2>2
<1>3. f.stored \cap 0 .. 0 - 1 = {} /\ 0 \in f.stored
  OBVIOUS
<1>4. Cardinality({}) = 0
  BY FS_EmptySet
<1>5. FilterIndex(f, i) = G * 0 + i
  BY <1>2, <1>3, <1>4 DEF FilterIndex, G
<1>6. QED
  BY <1>1, <1>5

\* while the first area fills, appending is appending to the child
LEMMA AppendToFirst ==
    ASSUME NEW f, NEW vs \in Seq(Nat), NEW x \in Nat, FilterFollows(f, vs, FALSE),
           Len(vs) + 1 <= G,
           NEW g, g.n = f.n + 1, g.child = Append(f.child, x),
           g.lastValueOfPreviousArea = x, g.insertionBuffer = f.insertionBuffer,
           g.stored = f.stored, g.areas = f.areas
    PROVE  FilterFollows(g, Append(vs, x), FALSE)
<1> DEFINE n == Len(vs)
           ws == Append(vs, x)
           c == f.child
           d == Append(c, x)
<1>1. /\ n \in Nat /\ n < G /\ G \in Nat \ {0} /\ f.n = n
      /\ f.insertionBuffer = <<>> /\ f.stored = {0} /\ c \in Seq(Nat) /\ Len(c) = n
      /\ f.areas \in Nat /\ 0 \in 0 .. f.areas - 1
      /\ FilterFinds(f, vs, n)
  <2>1. n \in Nat /\ n < G /\ G \in Nat \ {0} /\ Len(<<>>) = 0
    BY FilterAssumption, EmptySequence DEF G
  <2>2. f.insertionBuffer = <<>> /\ f.stored = {0} /\ Len(c) = n
    BY <2>1 DEF FilterFollows, G
  <2>3. n - Len(f.insertionBuffer) = n
    BY <2>1, <2>2
  <2>4. QED
    BY <2>1, <2>2, <2>3 DEF FilterFollows
<1>2. /\ ws \in Seq(Nat) /\ Len(ws) = n + 1 /\ d \in Seq(Nat) /\ Len(d) = n + 1
      /\ \A k \in 1 .. n : ws[k] = vs[k] /\ d[k] = c[k]
      /\ ws[n + 1] = x /\ d[n + 1] = x
  BY <1>1
<1>3. \A k \in 1 .. n : c[k] = vs[k]
  <2> SUFFICES ASSUME NEW k \in 1 .. n PROVE c[k] = vs[k]
    OBVIOUS
  <2>1. k - 1 \in 0 .. n - 1 /\ k - 1 \in 0 .. G - 1 /\ (k - 1) + 1 = k
    BY <1>1
  <2>2. FilterIndex(f, k - 1) = k - 1
    BY <1>1, <2>1, FirstArea
  <2>3. c[FilterIndex(f, k - 1) + 1] = vs[(k - 1) + 1]
    BY <1>1, <2>1 DEF FilterFinds, FilterAt
  <2>4. QED
    BY <2>1, <2>2, <2>3
<1>4. g.child = d
  OBVIOUS
<1> HIDE DEF n, ws, c, d
<1>5. FilterFinds(g, ws, n + 1)
  <2> SUFFICES ASSUME NEW i \in 0 .. (n + 1) - 1
               PROVE  /\ FilterIndex(g, i) \in 0 .. i /\ FilterIndex(g, i) < Len(d)
                      /\ d[FilterIndex(g, i) + 1] = ws[i + 1]
    BY <1>1, <1>4 DEF FilterFinds, FilterAt
  <2>1. i \in 0 .. G - 1 /\ i \in Nat /\ i + 1 \in 1 .. n + 1
    BY <1>1
  <2>2. g.stored = {0}
    BY <1>1
  <2>3. FilterIndex(g, i) = i
    BY <2>1, <2>2, FirstArea
  <2>4. d[i + 1] = ws[i + 1]
    <3>1. i + 1 \in 1 .. n \/ i + 1 = n + 1
      BY <1>1, <2>1
    <3>2. QED
      BY <1>2, <1>3, <3>1
  <2>5. QED
    BY <1>1, <1>2, <2>1, <2>3, <2>4
<1>6. /\ d # <<>> /\ g.lastValueOfPreviousArea = LastOf(d)
  BY <1>1, <1>2, EmptySequence DEF LastOf
<1>7. Cardinality({0}) = 1
  BY FS_Singleton
<1>8. n + 1 >= G => WholeAreas(g, n + 1)
  <2> SUFFICES ASSUME n + 1 >= G PROVE WholeAreas(g, n + 1)
    OBVIOUS
  <2>1. n + 1 = G /\ G % G = 0
    <3>1. n + 1 = G
      BY <1>1
    <3>2. G = 1 * G + 0 /\ 0 \in 0 .. G - 1
      BY <1>1
    <3>3. (1 * G + 0) % G = 0
      BY <1>1, <3>2, QuotientIs
    <3>4. QED
      BY <3>1, <3>2, <3>3
  <2>2. Len(d) = G * Cardinality(g.stored) /\ Len(d) <= n + 1
    BY <1>1, <1>2, <1>7, <2>1
  <2>3. \A a \in g.stored : (a + 1) * G <= n + 1
    BY <1>1, <2>1
  <2>4. QED
    BY <1>4, <2>1, <2>2, <2>3 DEF WholeAreas, G
<1>9. FilterFollows(g, ws, FALSE)
  <2>1. g.insertionBuffer = <<>> /\ Len(<<>>) = 0 /\ <<>> \in Seq(Nat) /\ 0 < G
        /\ (n + 1) - 0 = n + 1
    BY <1>1, EmptySequence
  <2>2. Len(ws) - Len(g.insertionBuffer) = n + 1
    BY <1>2, <2>1
  <2>3. /\ g.n = Len(ws) /\ g.stored = {0} /\ g.areas \in Nat /\ 0 \in 0 .. g.areas - 1
    BY <1>1, <1>2
  <2>4. \A k \in 1 .. Len(g.insertionBuffer) :
            g.insertionBuffer[k] = ws[Len(ws) - Len(g.insertionBuffer) + k]
    BY <2>1
  <2>5. Len(g.insertionBuffer) <= Len(ws) /\ Len(g.insertionBuffer) < G
    BY <1>1, <1>2, <2>1
  <2>6. g.child \in Seq(Nat) /\ Len(g.child) = Len(ws)
    BY <1>2, <1>4
  <2>7. g.child # <<>> /\ g.lastValueOfPreviousArea = LastOf(g.child)
    BY <1>4, <1>6
  <2>8. g.stored \subseteq 0 .. g.areas - 1
    BY <2>3
  <2>9. Len(ws) >= G => WholeAreas(g, Len(ws) - Len(g.insertionBuffer))
    BY <1>2, <1>8, <2>2
  <2>10. FilterFinds(g, ws, Len(ws) - Len(g.insertionBuffer))
    BY <1>5, <2>2
  <2>11. QED
    BY <2>1, <2>3, <2>4, <2>5, <2>6, <2>7, <2>8, <2>9, <2>10 DEF FilterFollows, G
<1>10. QED
  BY <1>9 DEF ws

\* a filter
FilterRecords ==
    [n : Nat, lastValueOfPreviousArea : Nat, insertionBuffer : Seq(Nat),
     stored : SUBSET Nat, areas : Nat, child : Seq(Nat)]

\* what flushInsertionBuffer makes of f with the buffer b: it waits for more,
\* drops the buffer or stores it
Waits(f, r, b) ==
    /\ r.insertionBuffer = b /\ r.stored = f.stored /\ r.areas = f.areas
    /\ r.child = f.child /\ r.lastValueOfPreviousArea = f.lastValueOfPreviousArea
Drops(f, r) ==
    /\ r.insertionBuffer = <<>> /\ r.stored = f.stored /\ r.areas = f.areas
    /\ r.child = f.child /\ r.lastValueOfPreviousArea = f.lastValueOfPreviousArea
Keeps(f, r, b, area) ==
    /\ r.insertionBuffer = <<>> /\ r.stored = f.stored \cup {area}
    /\ r.areas = Grown(f.areas, area) /\ r.child = f.child \o b
    /\ r.lastValueOfPreviousArea = LastOf(b)

\* flushInsertionBuffer does one of these, by what the buffer holds
LEMMA Flushed ==
    ASSUME NEW g \in FilterRecords, NEW force \in BOOLEAN, g.n \in Nat \ {0},
           NEW r, r = flushInsertionBuffer(g, force),
           NEW b, b = g.insertionBuffer
    PROVE  /\ r \in FilterRecords /\ r.n = g.n
           /\ \/ /\ b = <<>> \/ (Len(b) < G /\ ~ force)
                 /\ Waits(g, r, b)
              \/ /\ Len(b) >= G /\ ~ force /\ Drops(g, r)
                 /\ \A k \in 1 .. Len(b) : b[k] = g.lastValueOfPreviousArea
              \/ /\ b # <<>> /\ (force \/ Len(b) >= G)
                 /\ Keeps(g, r, b, (g.n - 1) \div G)
<1> DEFINE area == (g.n - 1) \div G
           allSame == \A k \in 1 .. Len(b) : b[k] = g.lastValueOfPreviousArea
<1>1. /\ G \in Nat \ {0} /\ b \in Seq(Nat) /\ Len(b) \in Nat /\ g.stored \in SUBSET Nat
      /\ g.areas \in Nat /\ g.child \in Seq(Nat) /\ g.n - 1 \in Nat
  BY FilterAssumption DEF G, FilterRecords
<1>2. area \in Nat
  BY <1>1, Division
<1> HIDE DEF area
<1>3. CASE b = <<>> \/ (Len(b) < G /\ ~ force)
  <2>1. r = g
    BY <1>3 DEF flushInsertionBuffer, G
  <2>2. QED
    BY <1>3, <2>1 DEF Waits
<1>4. CASE b # <<>> /\ (force \/ Len(b) >= G) /\ allSame /\ ~ force
  <2>1. r = [g EXCEPT !.insertionBuffer = <<>>]
    <3>1. ~ (b = <<>> \/ (Len(b) < G /\ ~ force))
      BY <1>1, <1>4
    <3>2. QED
      BY <1>4, <3>1 DEF flushInsertionBuffer, G
  <2> DEFINE e == <<>>
  <2>0. r = [g EXCEPT !.insertionBuffer = e] /\ e \in Seq(Nat)
    BY <2>1, EmptySequence
  <2> HIDE DEF e
  <2>2. /\ r \in FilterRecords /\ r.n = g.n /\ r.insertionBuffer = e
        /\ r.stored = g.stored /\ r.areas = g.areas /\ r.child = g.child
        /\ r.lastValueOfPreviousArea = g.lastValueOfPreviousArea
    BY <2>0 DEF FilterRecords
  <2>3. QED
    BY <1>4, <2>2 DEF Drops, e
<1>5. CASE b # <<>> /\ (force \/ Len(b) >= G) /\ ~ (allSame /\ ~ force)
  <2>1. r = [g EXCEPT !.insertionBuffer = <<>>, !.child = @ \o b,
                      !.lastValueOfPreviousArea = LastOf(b),
                      !.areas = Grown(@, area), !.stored = @ \cup {area}]
    <3>1. ~ (b = <<>> \/ (Len(b) < G /\ ~ force))
      BY <1>1, <1>5
    <3>2. QED
      BY <1>5, <3>1 DEF flushInsertionBuffer, G, area
  <2>2. /\ LastOf(b) \in Nat /\ Grown(g.areas, area) \in Nat
        /\ g.child \o b \in Seq(Nat) /\ g.stored \cup {area} \in SUBSET Nat
        /\ <<>> \in Seq(Nat)
    <3>1. Len(b) \in 1 .. Len(b)
      BY <1>1, <1>5, EmptySequence
    <3>2. LastOf(b) \in Nat
      BY <1>1, <3>1 DEF LastOf
    <3>3. Grown(g.areas, area) \in Nat
      BY <1>1, <1>2 DEF Grown
    <3>4. QED
      BY <1>1, <1>2, <3>2, <3>3
  <2> DEFINE c == g.child \o b
             v == LastOf(b)
             a == Grown(g.areas, area)
             s == g.stored \cup {area}
  <2>3. /\ r = [g EXCEPT !.insertionBuffer = <<>>, !.child = c,
                         !.lastValueOfPreviousArea = v, !.areas = a, !.stored = s]
        /\ v \in Nat /\ a \in Nat /\ c \in Seq(Nat) /\ s \in SUBSET Nat
    BY <2>1, <2>2
  <2> HIDE DEF c, v, a, s
  <2>4. /\ r \in FilterRecords /\ r.n = g.n /\ r.insertionBuffer = <<>>
        /\ r.stored = s /\ r.areas = a /\ r.child = c
        /\ r.lastValueOfPreviousArea = v
    BY <2>2, <2>3 DEF FilterRecords
  <2>5. Keeps(g, r, b, area)
    BY <2>4 DEF Keeps, c, v, a, s
  <2>6. QED
    BY <1>5, <2>4, <2>5 DEF area
<1>6. QED
  BY <1>1, <1>3, <1>4, <1>5

\* whole areas, as a multiple of their size
LEMMA WholeFrom ==
    ASSUME NEW f \in FilterRecords, NEW h \in Nat, WholeAreas(f, h), f.child # <<>>
    PROVE  \E m \in Nat \ {0} : Whole(f, m, h)
<1> DEFINE m == h \div G
<1>1. G \in Nat \ {0} /\ f.child \in Seq(Nat) /\ Len(f.child) \in Nat /\ f.stored \in SUBSET Nat
  BY FilterAssumption DEF G, FilterRecords
<1>2. m \in Nat /\ h = m * G + (h % G)
  BY <1>1, Division
<1> HIDE DEF m
<1>3. h = m * G
  <2>1. h % G = 0 /\ m * G \in Nat
    BY <1>1, <1>2 DEF WholeAreas, G
  <2>2. QED
    BY <1>2, <2>1
<1>4. m # 0
  <2>1. h > 0
    BY <1>1, EmptySequence DEF WholeAreas
  <2>2. QED
    BY <1>1, <1>3, <2>1
<1>5. f.stored \in SUBSET (0 .. m - 1)
  <2> SUFFICES ASSUME NEW a \in f.stored PROVE a \in 0 .. m - 1
    OBVIOUS
  <2>1. a \in Nat /\ (a + 1) * G <= m * G
    BY <1>1, <1>3 DEF WholeAreas, G
  <2>2. CASE a + 1 > m
    <3> DEFINE p == a + 1
    <3>1. p \in Nat /\ p * G <= m * G /\ p >= m + 1
      BY <1>2, <2>1, <2>2
    <3> HIDE DEF p
    <3>2. p * G >= (m + 1) * G /\ (m + 1) * G = m * G + G /\ m * G \in Nat
      BY <1>1, <1>2, <3>1
    <3>3. p * G \in Nat
      BY <1>1, <3>1
    <3>4. QED
      BY <1>1, <1>2, <3>1, <3>2, <3>3
  <2>3. QED
    BY <1>2, <2>1, <2>2
<1>6. Whole(f, m, h)
  BY <1>1, <1>3, <1>5 DEF WholeAreas, Whole, G
<1>7. QED
  BY <1>2, <1>4, <1>6

\* a whole area more
LEMMA WholeStored ==
    ASSUME NEW f, NEW g, NEW m \in Nat, NEW h, NEW b \in Seq(Nat), Len(b) = G,
           Whole(f, m, h), Stores(f, g, m, b),
           Cardinality(g.stored) = Cardinality(f.stored) + 1
    PROVE  WholeAreas(g, h + G)
<1>1. /\ G \in Nat \ {0} /\ h \in Nat /\ h = m * G /\ f.child \in Seq(Nat)
      /\ Len(f.child) \in Nat /\ Len(f.child) <= h
      /\ Len(f.child) = G * Cardinality(f.stored)
      /\ f.stored \in SUBSET (0 .. m - 1)
  BY FilterAssumption DEF G, Whole
<1>2. Cardinality(f.stored) \in Nat
  <2>1. IsFiniteSet(0 .. m - 1)
    BY FS_Interval
  <2>2. QED
    BY <1>1, <2>1, FS_Subset, FS_CardinalityType
<1>3. Len(g.child) = Len(f.child) + G
  BY <1>1, Concatenated DEF Stores
<1>4. Len(g.child) = G * Cardinality(g.stored)
  <2> DEFINE c == Cardinality(f.stored)
  <2>1. Cardinality(g.stored) = c + 1 /\ Len(f.child) = G * c /\ c \in Nat
    BY <1>1, <1>2
  <2> HIDE DEF c
  <2>2. G * (c + 1) = G * c + G
    BY <1>1, <2>1
  <2>3. QED
    BY <1>3, <2>1, <2>2
<1>5. (h + G) % G = 0
  BY <1>1, NextMultiple
<1>6. ASSUME NEW a \in g.stored PROVE (a + 1) * G <= h + G
  <2>1. a \in Nat /\ a <= m
    <3>1. a \in f.stored \cup {m}
      BY DEF Stores
    <3>2. QED
      BY <1>1, <3>1
  <2>2. (a + 1) * G <= (m + 1) * G /\ (m + 1) * G = m * G + G
    BY <1>1, <2>1
  <2>3. QED
    BY <1>1, <2>2
<1>7. Len(g.child) <= h + G
  BY <1>1, <1>3
<1>8. QED
  BY <1>4, <1>5, <1>6, <1>7 DEF WholeAreas, G

\* doubling the bit vector makes room for an area beyond it
LEMMA GrownEnough ==
    ASSUME NEW areas \in Nat, areas > 0, NEW area \in Nat
    PROVE  /\ Grown(areas, area) \in Nat /\ areas <= Grown(areas, area)
           /\ area < Grown(areas, area)
  BY DEF Grown

\* the last element of a concatenation
LEMMA LastAppended ==
    ASSUME NEW s \in Seq(Nat), NEW t \in Seq(Nat), t # <<>>
    PROVE  s \o t # <<>> /\ LastOf(s \o t) = LastOf(t)
<1>1. Len(s) \in Nat /\ Len(t) \in Nat /\ Len(t) # 0
  BY EmptySequence
<1>2. /\ s \o t \in Seq(Nat) /\ Len(s \o t) = Len(s) + Len(t)
      /\ (s \o t)[Len(s) + Len(t)] = t[Len(t)]
  BY <1>1, Concatenated
<1>3. Len(s \o t) # 0
  BY <1>1, <1>2
<1>4. QED
  BY <1>2, <1>3, EmptySequence DEF LastOf

\* behind the first area, what follows from FilterFollows
LEMMA FollowsWhole ==
    ASSUME NEW f \in FilterRecords, NEW vs \in Seq(Nat), FilterFollows(f, vs, FALSE),
           Len(vs) >= G,
           NEW b, b = f.insertionBuffer, NEW h, h = Len(vs) - Len(b)
    PROVE  /\ h \in Nat /\ f.n = Len(vs) /\ b \in Seq(Nat) /\ Len(b) \in 0 .. G - 1
           /\ Len(vs) = h + Len(b) /\ Buffered(b, vs, h)
           /\ f.areas \in Nat /\ 0 \in f.stored /\ f.stored \subseteq 0 .. f.areas - 1
           /\ f.child \in Seq(Nat) /\ f.child # <<>>
           /\ f.lastValueOfPreviousArea = LastOf(f.child)
           /\ FilterFinds(f, vs, h)
           /\ \E m \in Nat \ {0} : Whole(f, m, h)
<1>1. G \in Nat \ {0} /\ Len(vs) \in Nat /\ vs # <<>>
  <2>1. G \in Nat \ {0} /\ Len(vs) \in Nat
    BY FilterAssumption DEF G
  <2>2. QED
    BY <2>1, EmptySequence
<1>2. /\ f.n = Len(vs) /\ b \in Seq(Nat) /\ Len(b) <= Len(vs)
      /\ f.areas \in Nat /\ 0 \in f.stored /\ f.stored \subseteq 0 .. f.areas - 1
      /\ f.child \in Seq(Nat) /\ f.child # <<>>
      /\ f.lastValueOfPreviousArea = LastOf(f.child)
      /\ FilterFinds(f, vs, h) /\ Len(b) < G /\ WholeAreas(f, h)
      /\ Buffered(b, vs, h)
  BY <1>1 DEF FilterFollows, Buffered, G
<1>3. Len(b) \in Nat /\ h \in Nat /\ Len(b) \in 0 .. G - 1 /\ Len(vs) = h + Len(b)
  <2>1. Len(b) \in Nat
    BY <1>2
  <2>2. QED
    BY <1>1, <1>2, <2>1
<1>4. \E m \in Nat \ {0} : Whole(f, m, h)
  BY <1>2, <1>3, WholeFrom
<1>5. QED
  BY <1>2, <1>3, <1>4

\* the elements of a sequence with a value more
LEMMA Appended ==
    ASSUME NEW s \in Seq(Nat), NEW x \in Nat
    PROVE  /\ Len(s) \in Nat /\ Append(s, x) \in Seq(Nat)
           /\ Len(Append(s, x)) = Len(s) + 1
           /\ \A k \in 1 .. Len(s) : Append(s, x)[k] = s[k]
           /\ Append(s, x)[Len(s) + 1] = x
           /\ Append(s, x) # <<>>
<1>1. /\ Len(s) \in Nat /\ Append(s, x) \in Seq(Nat)
      /\ Len(Append(s, x)) = Len(s) + 1
      /\ \A k \in 1 .. Len(s) : Append(s, x)[k] = s[k]
      /\ Append(s, x)[Len(s) + 1] = x
  OBVIOUS
<1>2. Len(Append(s, x)) # 0
  BY <1>1
<1>3. Append(s, x) # <<>>
  BY <1>1, <1>2, EmptySequence
<1>4. QED
  BY <1>1, <1>3

\* ws are the values vs and another one, c the buffer b with it
MoreBuffered(vs, b, ws, c, h) ==
    /\ ws \in Seq(Nat) /\ Len(ws) = Len(vs) + 1 /\ ws # <<>>
    /\ c \in Seq(Nat) /\ Len(c) = Len(b) + 1 /\ c # <<>>
    /\ Len(ws) - Len(c) = h /\ Buffered(c, ws, h)
    /\ \A k \in 1 .. h : ws[k] = vs[k]

\* the buffer with a value more
LEMMA BufferMore ==
    ASSUME NEW vs \in Seq(Nat), NEW b \in Seq(Nat), NEW x \in Nat, NEW h \in Nat,
           Len(vs) = h + Len(b), Buffered(b, vs, h)
    PROVE  MoreBuffered(vs, b, Append(vs, x), Append(b, x), h)
<1> DEFINE ws == Append(vs, x)
           c == Append(b, x)
<1>1. /\ Len(vs) \in Nat /\ Len(b) \in Nat
      /\ ws \in Seq(Nat) /\ Len(ws) = Len(vs) + 1
      /\ c \in Seq(Nat) /\ Len(c) = Len(b) + 1
      /\ \A k \in 1 .. Len(vs) : ws[k] = vs[k]
      /\ \A k \in 1 .. Len(b) : c[k] = b[k]
      /\ ws[Len(vs) + 1] = x /\ c[Len(b) + 1] = x
      /\ ws # <<>> /\ c # <<>>
  <2>1. /\ ws \in Seq(Nat) /\ Len(ws) = Len(vs) + 1 /\ Len(vs) \in Nat
        /\ \A k \in 1 .. Len(vs) : ws[k] = vs[k]
        /\ ws[Len(vs) + 1] = x /\ ws # <<>>
    BY Appended
  <2>2. /\ c \in Seq(Nat) /\ Len(c) = Len(b) + 1 /\ Len(b) \in Nat
        /\ \A k \in 1 .. Len(b) : c[k] = b[k]
        /\ c[Len(b) + 1] = x /\ c # <<>>
    BY Appended
  <2>3. QED
    BY <2>1, <2>2
<1> HIDE DEF ws, c
<1>3. Len(ws) - Len(c) = h
  BY <1>1
<1>4. ASSUME NEW k \in 1 .. Len(c) PROVE c[k] = ws[h + k]
  <2>1. k \in 1 .. Len(b) \/ k = Len(b) + 1
    BY <1>1
  <2>2. CASE k \in 1 .. Len(b)
    <3>1. h + k \in 1 .. Len(vs) /\ k \in 1 .. Len(b)
      BY <1>1, <2>2
    <3>2. c[k] = b[k] /\ b[k] = vs[h + k]
      BY <1>1, <3>1 DEF Buffered
    <3> DEFINE l == h + k
    <3>3. ws[l] = vs[l]
      <4>1. l \in 1 .. Len(vs)
        BY <3>1
      <4> HIDE DEF l
      <4>2. QED
        BY <1>1, <4>1
    <3>4. QED
      BY <3>2, <3>3
  <2>3. CASE k = Len(b) + 1
    <3>1. h + k = Len(vs) + 1
      BY <1>1, <2>3
    <3>2. QED
      BY <1>1, <2>3, <3>1
  <2>4. QED
    BY <2>1, <2>2, <2>3
<1>5. \A k \in 1 .. h : ws[k] = vs[k]
  <2>1. \A k \in 1 .. h : k \in 1 .. Len(vs)
    BY <1>1
  <2>2. QED
    BY <1>1, <2>1
<1>6. QED
  BY <1>1, <1>3, <1>4, <1>5 DEF Buffered, MoreBuffered, ws, c

\* a whole area more handled is what a filter of so many values is about
LEMMA FollowsHandled ==
    ASSUME NEW g \in FilterRecords, NEW ws \in Seq(Nat), NEW h \in Nat, Len(ws) = h,
           ws # <<>>, h > G, g.n = h, g.insertionBuffer = <<>>,
           0 \in g.stored, g.stored \subseteq 0 .. g.areas - 1,
           g.child # <<>>, g.lastValueOfPreviousArea = LastOf(g.child),
           FilterFinds(g, ws, h), WholeAreas(g, h)
    PROVE  FilterFollows(g, ws, FALSE)
<1>1. /\ G \in Nat \ {0} /\ g.areas \in Nat /\ g.child \in Seq(Nat)
      /\ Len(<<>>) = 0 /\ <<>> \in Seq(Nat) /\ h - 0 = h
  BY FilterAssumption, EmptySequence DEF G, FilterRecords
<1>2. Len(ws) - Len(g.insertionBuffer) = h /\ Len(g.insertionBuffer) = 0
  BY <1>1
<1>3. ~ (Len(ws) < G) /\ 0 <= h /\ 0 < G
  BY <1>1
<1>4. \A k \in 1 .. Len(g.insertionBuffer) : FALSE
  BY <1>2
<1>5. QED
  BY <1>1, <1>2, <1>3, <1>4 DEF FilterFollows, G

(***************************************************************************)
(* Appending a value keeps the filter in step with the values.             *)
(***************************************************************************)
LEMMA FilterAppended ==
    ASSUME NEW f \in FilterRecords, NEW vs \in Seq(Nat), FilterFollows(f, vs, FALSE),
           NEW x \in Nat, NEW r, r = FilterAppend(f, x)
    PROVE  r \in FilterRecords /\ FilterFollows(r, Append(vs, x), FALSE)
<1> DEFINE b == f.insertionBuffer
           c == Append(b, x)
           ws == Append(vs, x)
           h == Len(vs) - Len(b)
<1>1. /\ G \in Nat \ {0} /\ Len(vs) \in Nat /\ f.n = Len(vs)
      /\ b \in Seq(Nat) /\ f.child \in Seq(Nat)
  BY FilterAssumption DEF G, FilterFollows
<1>2. CASE Len(vs) + 1 <= G
  <2>1. r = [f EXCEPT !.n = @ + 1, !.child = Append(@, x),
                      !.lastValueOfPreviousArea = x]
    BY <1>1, <1>2 DEF FilterAppend, G
  <2> DEFINE n == f.n + 1
             d == Append(f.child, x)
  <2>2. n \in Nat /\ d \in Seq(Nat)
    BY <1>1
  <2>3. r = [f EXCEPT !.n = n, !.child = d, !.lastValueOfPreviousArea = x]
    BY <2>1
  <2> HIDE DEF n, d
  <2>4. /\ r \in FilterRecords /\ r.n = n /\ r.child = d
        /\ r.lastValueOfPreviousArea = x /\ r.insertionBuffer = f.insertionBuffer
        /\ r.stored = f.stored /\ r.areas = f.areas
    BY <2>2, <2>3 DEF FilterRecords
  <2>5. QED
    BY <1>2, <2>4, AppendToFirst DEF n, d
<1>3. CASE Len(vs) + 1 > G
  <2> DEFINE n == f.n + 1
             g == [f EXCEPT !.n = n, !.insertionBuffer = c]
  <2>0. Len(vs) >= G
    BY <1>1, <1>3
  <2>1. /\ h \in Nat /\ Len(b) \in 0 .. G - 1 /\ Len(vs) = h + Len(b)
        /\ Buffered(b, vs, h)
        /\ 0 \in f.stored /\ f.stored \subseteq 0 .. f.areas - 1
        /\ f.areas \in Nat /\ f.child # <<>>
        /\ f.lastValueOfPreviousArea = LastOf(f.child)
        /\ FilterFinds(f, vs, h)
        /\ \E m \in Nat \ {0} : Whole(f, m, h)
    BY <2>0, FollowsWhole
  <2>2. PICK m \in Nat \ {0} : Whole(f, m, h)
    BY <2>1
  <2> HIDE DEF h, b
  <2>20. MoreBuffered(vs, b, ws, c, h)
    <3>1. b \in Seq(Nat) /\ h \in Nat /\ Len(vs) = h + Len(b) /\ Buffered(b, vs, h)
      BY <1>1, <2>1
    <3>2. QED
      BY <3>1, BufferMore
  <2> HIDE DEF c, ws
  <2>3. /\ ws \in Seq(Nat) /\ Len(ws) = Len(vs) + 1 /\ ws # <<>>
        /\ c \in Seq(Nat) /\ Len(c) = Len(b) + 1 /\ c # <<>>
        /\ Len(ws) - Len(c) = h /\ Buffered(c, ws, h)
        /\ \A k \in 1 .. h : ws[k] = vs[k]
    BY <2>20 DEF MoreBuffered
  <2>4. r = flushInsertionBuffer(g, FALSE)
    <3>1. ~ (f.n + 1 <= G)
      BY <1>1, <1>3
    <3>2. QED
      BY <3>1 DEF FilterAppend, G, b, c
  <2>5. n \in Nat /\ n \in Nat \ {0} /\ n = Len(ws)
    BY <1>1, <2>3
  <2> HIDE DEF n
  <2>6. /\ g \in FilterRecords /\ g.n = n /\ g.insertionBuffer = c
        /\ g.stored = f.stored /\ g.areas = f.areas /\ g.child = f.child
        /\ g.lastValueOfPreviousArea = f.lastValueOfPreviousArea
    BY <2>3, <2>5 DEF FilterRecords
  <2> HIDE DEF g
  <2>7. FilterFinds(g, ws, h)
    BY <2>1, <2>3, <2>6, FindsSame
  <2>8. Whole(g, m, h)
    BY <2>2, <2>6 DEF Whole
  <2>9. /\ r \in FilterRecords /\ r.n = n
        /\ \/ /\ c = <<>> \/ (Len(c) < G /\ ~ FALSE)
              /\ Waits(g, r, c)
           \/ /\ Len(c) >= G /\ Drops(g, r)
              /\ \A k \in 1 .. Len(c) : c[k] = g.lastValueOfPreviousArea
           \/ /\ Len(c) >= G
              /\ Keeps(g, r, c, (n - 1) \div G)
    BY <2>4, <2>5, <2>6, Flushed
  <2>10. Len(c) \in Nat /\ Len(c) <= G /\ Len(ws) = h + Len(c) /\ h + G \in Nat /\ Len(c) <= Len(ws)
    BY <1>1, <2>1, <2>3
  <2>15. h + G > G
    <3>1. h \in Nat /\ h = m * G
      BY <2>2 DEF Whole
    <3>2. h > 0
      BY <1>1, <3>1
    <3>3. QED
      BY <1>1, <3>1, <3>2
  <2>11. CASE Len(c) < G /\ Waits(g, r, c)
    <3>1. /\ r.insertionBuffer = c /\ r.stored = f.stored /\ r.areas = f.areas
          /\ r.child = f.child /\ r.lastValueOfPreviousArea = LastOf(f.child)
      BY <2>1, <2>6, <2>11 DEF Waits
    <3>2. FilterFinds(r, ws, h)
      BY <2>1, <2>3, <3>1, FindsSame
    <3>3. WholeAreas(f, h)
      BY <2>0 DEF FilterFollows, h, b, G
    <3>4. WholeAreas(r, h)
      BY <3>1, <3>3 DEF WholeAreas
    <3>5. ~ (Len(ws) < G)
      BY <1>1, <2>0, <2>3
    <3>6. \A k \in 1 .. Len(c) : c[k] = ws[h + k]
      BY <2>3 DEF Buffered
    <3>7. r.n = Len(ws)
      BY <2>5, <2>9
    <3>8. FilterFollows(r, ws, FALSE)
      BY <1>1, <2>1, <2>3, <2>10, <2>11, <3>1, <3>2, <3>4, <3>5, <3>6, <3>7
      DEF FilterFollows, G
    <3>9. QED
      BY <2>9, <3>8 DEF ws
  <2>12. CASE /\ Len(c) >= G /\ Drops(g, r)
              /\ \A k \in 1 .. Len(c) : c[k] = g.lastValueOfPreviousArea
    <3>1. /\ r.insertionBuffer = <<>> /\ r.stored = f.stored /\ r.areas = f.areas
          /\ r.child = f.child /\ r.lastValueOfPreviousArea = LastOf(f.child)
      BY <2>1, <2>6, <2>12 DEF Drops
    <3>2. Len(c) = G /\ Len(ws) = h + G /\ h + G > G
      <4>1. Len(c) = G
        BY <1>1, <2>10, <2>12
      <4>2. QED
        BY <2>10, <2>15, <4>1
    <3>3. \A k \in 1 .. G : ws[h + k] = LastOf(f.child)
      BY ZenonT(30), <2>1, <2>3, <2>6, <2>12, <3>2 DEF Buffered
    <3>4. FilterFinds(f, ws, h)
      BY <2>1, <2>3, FindsSame
    <3>5. FilterFinds(r, ws, h + G)
      <4>1. G \in 0 .. G
        BY <1>1
      <4>2. QED
        BY <2>1, <2>2, <3>1, <3>3, <3>4, <4>1, SkippedArea
    <3>6. WholeAreas(r, h + G)
      <4>1. WholeAreas(f, h)
        BY <2>0 DEF FilterFollows, h, b, G
      <4>2. /\ Len(f.child) = G * Cardinality(f.stored) /\ Len(f.child) <= h
            /\ \A a \in f.stored : (a + 1) * G <= h
            /\ f.stored \in SUBSET Nat /\ Len(f.child) \in Nat
        BY <1>1, <4>1 DEF WholeAreas, G, FilterRecords
      <4>3. (h + G) % G = 0
        <5>1. h = m * G /\ m \in Nat
          BY <2>2 DEF Whole
        <5>2. QED
          BY <1>1, <2>1, <5>1, NextMultiple
      <4>4. \A a \in f.stored : (a + 1) * G <= h + G
        <5> SUFFICES ASSUME NEW a \in f.stored PROVE (a + 1) * G <= h + G
          OBVIOUS
        <5> DEFINE q == (a + 1) * G
        <5>1. q \in Nat /\ q <= h
          BY <1>1, <4>2
        <5> HIDE DEF q
        <5>2. q <= h + G
          BY <1>1, <2>1, <5>1
        <5>3. QED
          BY <5>2 DEF q
      <4>5. Len(f.child) <= h + G
        BY <1>1, <2>1, <4>2
      <4>6. QED
        BY <3>1, <4>2, <4>3, <4>4, <4>5 DEF WholeAreas, G
    <3>7. /\ r.n = h + G /\ Len(ws) = h + G /\ 0 \in r.stored
          /\ r.stored \subseteq 0 .. r.areas - 1 /\ r.child # <<>>
          /\ r.lastValueOfPreviousArea = LastOf(r.child)
      BY <2>1, <2>5, <2>9, <3>1, <3>2
    <3>8. FilterFollows(r, ws, FALSE)
      BY <2>3, <2>9, <2>10, <3>1, <3>2, <3>5, <3>6, <3>7, FollowsHandled
    <3>9. QED
      BY <2>9, <3>8 DEF ws
  <2>13. CASE Len(c) >= G /\ Keeps(g, r, c, (n - 1) \div G)
    <3>1. Len(c) = G /\ Len(ws) = h + G /\ h + G > G
      <4>1. Len(c) = G
        BY <1>1, <2>10, <2>13
      <4>2. QED
        BY <2>10, <2>15, <4>1
    <3>2. (n - 1) \div G = m
      <4>1. n - 1 \in h .. h + G - 1
        BY <1>1, <2>1, <2>5, <3>1
      <4>2. h = m * G
        BY <2>2 DEF Whole
      <4>3. QED
        BY <2>1, <4>1, <4>2, AreaOf
    <3>3. /\ r.insertionBuffer = <<>> /\ r.stored = f.stored \cup {m}
          /\ r.areas = Grown(f.areas, m) /\ r.child = f.child \o c
          /\ r.lastValueOfPreviousArea = LastOf(c)
      BY <2>6, <2>13, <3>2 DEF Keeps
    <3>4. Stores(f, r, m, c)
      BY <3>3 DEF Stores
    <3>5. FilterFinds(f, ws, h)
      BY <2>1, <2>3, FindsSame
    <3>6. FilterFinds(r, ws, h + G) /\ Cardinality(r.stored) = Cardinality(f.stored) + 1
      <4>1. Len(c) \in 1 .. G
        BY <1>1, <3>1
      <4>2. FilterFinds(r, ws, h + Len(c)) /\ Cardinality(r.stored) = Cardinality(f.stored) + 1
        BY <2>2, <2>3, <3>4, <3>5, <4>1, StoredArea
      <4>3. QED
        BY <3>1, <4>2
    <3>7. WholeAreas(r, h + G)
      BY <2>2, <2>3, <3>1, <3>4, <3>6, WholeStored
    <3>8. 0 \in r.stored /\ r.stored \subseteq 0 .. r.areas - 1
      <4>1. m < r.areas /\ f.areas <= r.areas /\ r.areas \in Nat
        <5>1. f.areas > 0
          BY <2>1
        <5>2. QED
          BY <2>1, <3>3, <5>1, GrownEnough
      <4>2. ASSUME NEW a \in r.stored PROVE a \in 0 .. r.areas - 1
        <5>1. a \in 0 .. f.areas - 1 \/ a = m
          BY <2>1, <3>3
        <5>2. QED
          BY <2>1, <4>1, <5>1
      <4>3. r.stored \subseteq 0 .. r.areas - 1
        BY <4>2
      <4>4. 0 \in r.stored
        BY <2>1, <3>3
      <4>5. QED
        BY <4>3, <4>4
    <3>9. r.child # <<>> /\ r.lastValueOfPreviousArea = LastOf(r.child)
      <4>1. f.child \in Seq(Nat) /\ c \in Seq(Nat) /\ c # <<>>
        BY <1>1, <2>3
      <4>2. f.child \o c # <<>> /\ LastOf(f.child \o c) = LastOf(c)
        BY <4>1, LastAppended
      <4>3. QED
        BY <3>3, <4>2
    <3>10. FilterFollows(r, ws, FALSE)
      BY <2>3, <2>5, <2>9, <2>10, <3>1, <3>3, <3>6, <3>7, <3>8, <3>9, FollowsHandled
    <3>11. QED
      BY <2>9, <3>10 DEF ws
  <2>14. \/ Len(c) < G /\ Waits(g, r, c)
         \/ /\ Len(c) >= G /\ Drops(g, r)
            /\ \A k \in 1 .. Len(c) : c[k] = g.lastValueOfPreviousArea
         \/ Len(c) >= G /\ Keeps(g, r, c, (n - 1) \div G)
    <3>1. c # <<>>
      BY <2>3
    <3>2. QED
      BY <2>9, <3>1
  <2>16. QED
    BY <2>11, <2>12, <2>13, <2>14
<1>4. Len(vs) + 1 <= G \/ Len(vs) + 1 > G
  BY <1>1
<1>5. QED
  BY <1>2, <1>3, <1>4

(***************************************************************************)
(* Completing the filter stores what the buffer holds, however little it   *)
(* is; the bits cut off behind the last area are zero.                     *)
(***************************************************************************)
LEMMA FilterCompleted ==
    ASSUME NEW f \in FilterRecords, NEW vs \in Seq(Nat), FilterFollows(f, vs, FALSE),
           vs # <<>>, NEW r, r = FilterComplete(f)
    PROVE  r \in FilterRecords /\ FilterFollows(r, vs, TRUE)
<1> DEFINE n == Len(vs)
           b == f.insertionBuffer
           h == n - Len(b)
           g == flushInsertionBuffer(f, TRUE)
           areas == n \div G + 1
<1>1. /\ G \in Nat \ {0} /\ n \in Nat \ {0} /\ f.n = n /\ b \in Seq(Nat)
      /\ f.child \in Seq(Nat) /\ f.child # <<>> /\ 0 \in f.stored
      /\ f.lastValueOfPreviousArea = LastOf(f.child)
      /\ FilterFinds(f, vs, h)
  <2>1. G \in Nat \ {0} /\ n \in Nat \ {0}
    BY FilterAssumption, EmptySequence DEF G
  <2>2. FilterFinds(f, vs, h) /\ b \in Seq(Nat) /\ f.child \in Seq(Nat)
    BY DEF FilterFollows
  <2>3. f.child # <<>> /\ f.lastValueOfPreviousArea = LastOf(f.child)
    BY DEF FilterFollows
  <2>4. f.n = n /\ 0 \in f.stored
    BY DEF FilterFollows
  <2> HIDE DEF n, b, h
  <2>5. QED
    BY <2>1, <2>2, <2>3, <2>4
<1>2. n \div G \in Nat /\ areas \in Nat
  <2>1. n \in Nat /\ G \in Nat \ {0}
    BY <1>1
  <2> HIDE DEF n
  <2>2. n \div G \in Nat
    BY <2>1, Division
  <2>3. QED
    BY <2>2
<1> HIDE DEF n, b, h, g, areas
<1>3. /\ g \in FilterRecords /\ g.n = n
      /\ (b = <<>> /\ Waits(f, g, b)) \/ (b # <<>> /\ Keeps(f, g, b, (n - 1) \div G))
  <2>1. /\ g \in FilterRecords /\ g.n = f.n
        /\ \/ /\ b = <<>> \/ (Len(b) < G /\ ~ TRUE)
              /\ Waits(f, g, b)
           \/ /\ Len(b) >= G /\ ~ TRUE /\ Drops(f, g)
              /\ \A k \in 1 .. Len(b) : b[k] = f.lastValueOfPreviousArea
           \/ /\ b # <<>> /\ (TRUE \/ Len(b) >= G)
              /\ Keeps(f, g, b, (f.n - 1) \div G)
    BY <1>1, Flushed DEF g, b
  <2>2. QED
    BY <1>1, <2>1
<1>4. /\ g.insertionBuffer = <<>> /\ 0 \in g.stored /\ g.stored \subseteq 0 .. areas - 1
      /\ g.child # <<>> /\ g.lastValueOfPreviousArea = LastOf(g.child)
      /\ FilterFinds(g, vs, n)
      /\ n < G => g.stored = {0} /\ Len(g.child) = n
  <2>1. CASE n < G
    <3>1. b = <<>> /\ f.stored = {0} /\ Len(f.child) = n
      BY <2>1 DEF FilterFollows, G, n, b
    <3>2. h = n
      BY <1>1, <3>1, EmptySequence DEF h
    <3>3. /\ g.insertionBuffer = <<>> /\ g.stored = {0} /\ g.child = f.child
          /\ g.lastValueOfPreviousArea = f.lastValueOfPreviousArea
      BY <1>3, <3>1 DEF Waits
    <3>4. FilterFinds(g, vs, n)
      BY <1>1, <3>1, <3>2, <3>3, FindsSame
    <3>5. {0} \subseteq 0 .. areas - 1
      BY <1>2 DEF areas
    <3>6. QED
      BY <1>1, <3>1, <3>3, <3>4, <3>5
  <2>2. CASE n >= G
    <3>1. /\ h \in Nat /\ Len(b) \in 0 .. G - 1 /\ n = h + Len(b)
          /\ Buffered(b, vs, h)
          /\ \E m \in Nat \ {0} : Whole(f, m, h)
      BY <2>2, FollowsWhole DEF h, n, b
    <3>2. PICK m \in Nat \ {0} : Whole(f, m, h)
      BY <3>1
    <3>3. h = m * G /\ f.stored \in SUBSET (0 .. m - 1)
      BY <3>2 DEF Whole
    <3>4. areas = m + 1
      <4>1. n \in h .. h + G - 1
        BY <1>1, <3>1
      <4>2. n \div G = m
        BY <3>1, <3>3, <4>1, AreaOf
      <4>3. QED
        BY <4>2 DEF areas
    <3>5. CASE b = <<>>
      <4>1. /\ g.insertionBuffer = <<>> /\ g.stored = f.stored /\ g.child = f.child
            /\ g.lastValueOfPreviousArea = f.lastValueOfPreviousArea
        BY <1>3, <3>5 DEF Waits
      <4>2. h = n
        BY <1>1, <3>1, <3>5, EmptySequence
      <4>3. FilterFinds(g, vs, n)
        <5>1. FilterFinds(f, vs, n) /\ n \in Nat
          BY <1>1, <4>2
        <5>2. QED
          BY <4>1, <5>1, FindsSame
      <4>4. g.stored \subseteq 0 .. areas - 1
        BY <3>3, <3>4, <4>1
      <4>5. ~ (n < G)
        BY <1>1, <2>2
      <4>6. QED
        BY <1>1, <4>1, <4>3, <4>4, <4>5
    <3>6. CASE b # <<>>
      <4>1. Len(b) \in 1 .. G /\ n - 1 \in h .. h + G - 1
        <5>1. Len(b) # 0
          BY <1>1, <3>6, EmptySequence
        <5>2. QED
          BY <1>1, <3>1, <5>1
      <4>2. (n - 1) \div G = m
        BY <3>1, <3>3, <4>1, AreaOf
      <4>3. /\ g.insertionBuffer = <<>> /\ g.stored = f.stored \cup {m}
            /\ g.child = f.child \o b /\ g.lastValueOfPreviousArea = LastOf(b)
        BY <1>3, <3>6, <4>2 DEF Keeps
      <4>4. FilterFinds(g, vs, n)
        <5>1. Stores(f, g, m, b)
          BY <4>3 DEF Stores
        <5>2. FilterFinds(g, vs, h + Len(b))
          BY <1>1, <3>1, <3>2, <4>1, <5>1, StoredArea
        <5>3. QED
          BY <3>1, <5>2
      <4>5. ASSUME NEW a \in g.stored PROVE a \in 0 .. areas - 1
        <5>1. a \in 0 .. m - 1 \/ a = m
          BY <3>3, <4>3
        <5>2. QED
          BY <3>4, <5>1
      <4>6. g.child # <<>> /\ g.lastValueOfPreviousArea = LastOf(g.child)
        <5>1. f.child \o b # <<>> /\ LastOf(f.child \o b) = LastOf(b)
          BY <1>1, <3>6, LastAppended
        <5>2. QED
          BY <4>3, <5>1
      <4>7. ~ (n < G)
        BY <1>1, <2>2
      <4>8. 0 \in g.stored
        BY <1>1, <4>3
      <4>9. g.stored \subseteq 0 .. areas - 1
        BY <4>5
      <4>10. QED
        BY <4>3, <4>4, <4>6, <4>7, <4>8, <4>9
    <3>7. QED
      BY <3>5, <3>6
  <2>3. n < G \/ n >= G
    BY <1>1
  <2>4. QED
    BY <2>1, <2>2, <2>3
<1>5. /\ r \in FilterRecords /\ r.n = n /\ r.insertionBuffer = <<>>
      /\ r.stored = g.stored /\ r.areas = areas /\ r.child = g.child
      /\ r.lastValueOfPreviousArea = g.lastValueOfPreviousArea
  <2> DEFINE s == g.stored \cap 0 .. areas - 1
  <2>1. r = [g EXCEPT !.areas = areas, !.stored = s]
    <3>1. f.n # 0 /\ g.n = n
      BY <1>1, <1>3
    <3>2. QED
      BY <3>1 DEF FilterComplete, areas, G, g
  <2>2. s = g.stored /\ s \in SUBSET Nat
    BY <1>2, <1>4
  <2> HIDE DEF s
  <2>3. /\ r \in FilterRecords /\ r.n = g.n /\ r.insertionBuffer = g.insertionBuffer
        /\ r.stored = s /\ r.areas = areas /\ r.child = g.child
        /\ r.lastValueOfPreviousArea = g.lastValueOfPreviousArea
    BY <1>2, <1>3, <2>1, <2>2 DEF FilterRecords
  <2>4. QED
    BY <1>3, <1>4, <2>2, <2>3
<1>6. FilterFinds(r, vs, n)
  BY <1>1, <1>4, <1>5, FindsSame
<1>7. FilterFollows(r, vs, TRUE)
  <2>1. Len(<<>>) = 0 /\ <<>> \in Seq(Nat) /\ n - 0 = n /\ 0 <= n
    BY <1>1, EmptySequence
  <2>2. r.child \in Seq(Nat)
    BY <1>5 DEF FilterRecords
  <2>3. \A k \in 1 .. Len(r.insertionBuffer) : FALSE
    BY <1>5, <2>1
  <2>4. Len(vs) - Len(r.insertionBuffer) = n /\ Len(r.insertionBuffer) <= n
    BY <1>5, <2>1 DEF n
  <2>5. FilterFinds(r, vs, Len(vs) - Len(r.insertionBuffer))
    BY <1>6, <2>4
  <2>6. r.stored \subseteq 0 .. r.areas - 1 /\ 0 \in r.stored /\ r.areas \in Nat
    BY <1>2, <1>4, <1>5
  <2>7. r.child # <<>> /\ r.lastValueOfPreviousArea = LastOf(r.child)
    BY <1>4, <1>5
  <2>8. n < G => r.stored = {0} /\ Len(r.child) = n
    BY <1>4, <1>5
  <2>9. r.n = Len(vs) /\ r.insertionBuffer = <<>> /\ r.insertionBuffer \in Seq(Nat)
    BY <1>5, <2>1 DEF n
  <2>10. QED
    BY <2>2, <2>3, <2>4, <2>5, <2>6, <2>7, <2>8, <2>9 DEF FilterFollows, G, n
<1>8. QED
  BY <1>5, <1>7

\* a new filter
LEMMA FilterEmpty ==
    EmptyFilter \in FilterRecords /\ FilterFollows(EmptyFilter, <<>>, FALSE)
<1>1. /\ G \in Nat \ {0} /\ InitialAreas \in Nat \ {0}
      /\ Len(<<>>) = 0 /\ <<>> \in Seq(Nat) /\ 0 - 0 = 0
  BY FilterAssumption, EmptySequence DEF G
<1> DEFINE e == <<>>
<1>2. e \in Seq(Nat) /\ Len(e) = 0 /\ {0} \in SUBSET Nat /\ InitialAreas \in Nat
  BY <1>1
<1>3. EmptyFilter = [n |-> 0, lastValueOfPreviousArea |-> 0, insertionBuffer |-> e,
                     stored |-> {0}, areas |-> InitialAreas, child |-> e]
  BY DEF EmptyFilter
<1> HIDE DEF e
<1>4. /\ EmptyFilter \in FilterRecords
      /\ EmptyFilter.n = 0 /\ EmptyFilter.insertionBuffer = e
      /\ EmptyFilter.stored = {0} /\ EmptyFilter.areas = InitialAreas
      /\ EmptyFilter.child = e
  BY <1>2, <1>3 DEF FilterRecords
<1> DEFINE f == EmptyFilter
<1> HIDE DEF f
<1>5. FilterFollows(f, e, FALSE)
  <2>1. /\ f.n = 0 /\ f.insertionBuffer = e
        /\ f.stored = {0} /\ f.areas = InitialAreas /\ f.child = e
    BY <1>4 DEF f
  <2>11. Len(f.insertionBuffer) = Len(e)
    BY <2>1
  <2>2. Len(e) - Len(f.insertionBuffer) = 0 /\ Len(f.insertionBuffer) = 0
    BY <1>2, <2>11
  <2>3. FilterFinds(f, e, 0)
    BY DEF FilterFinds
  <2>4. e = <<>>
    BY DEF e
  <2>5. f.stored \subseteq 0 .. f.areas - 1 /\ 0 \in f.stored /\ f.areas \in Nat
    BY <1>1, <2>1
  <2>6. Len(e) < G
    BY <1>1, <1>2
  <2>7. \A k \in 1 .. Len(f.insertionBuffer) : FALSE
    BY <2>2
  <2>8. f.n = Len(e) /\ f.insertionBuffer \in Seq(Nat) /\ f.child \in Seq(Nat)
        /\ Len(f.child) = Len(e) /\ Len(f.insertionBuffer) <= Len(e)
    BY <1>2, <2>1
  <2>9. ~ (Len(e) >= G)
    BY <1>1, <1>2
  <2>10. QED
    BY <2>1, <2>2, <2>3, <2>4, <2>5, <2>6, <2>7, <2>8, <2>9 DEF FilterFollows, G
<1>6. QED
  BY <1>4, <1>5 DEF e, f

\* what a filter in step with the values answers
LEMMA FilterAnswers ==
    ASSUME NEW f \in FilterRecords, NEW vs \in Seq(Nat), NEW done \in BOOLEAN,
           FilterFollows(f, vs, done)
    PROVE  /\ \A a \in f.stored : a < f.areas
           /\ done => FilterFinds(f, vs, Len(vs))
<1>1. f.areas \in Nat /\ f.stored \subseteq 0 .. f.areas - 1
  BY DEF FilterFollows
<1>2. ASSUME done PROVE FilterFinds(f, vs, Len(vs))
  <2>1. f.insertionBuffer = <<>> /\ FilterFinds(f, vs, Len(vs) - Len(f.insertionBuffer))
    BY <1>2 DEF FilterFollows
  <2>2. Len(vs) - Len(f.insertionBuffer) = Len(vs)
    <3>1. Len(vs) \in Nat /\ Len(f.insertionBuffer) = 0
      BY <2>1, EmptySequence
    <3>2. QED
      BY <3>1
  <2>3. QED
    BY <2>1, <2>2
<1>3. QED
  BY <1>1, <1>2

-----------------------------------------------------------------------------
(* DuplicatesAwareEliasFano. *)

\* a duplicates-aware sequence
AwareRecords ==
    [n : Nat, distinct : Seq(Nat), duplicates : Seq(Nat),
     hasDuplicates : BOOLEAN, complement : BOOLEAN]

\* an element more, above the others
LEMMA StillIncreasing ==
    ASSUME NEW s \in Seq(Nat), NEW x \in Nat, Increasing(s),
           \A k \in 1 .. Len(s) : s[k] < x
    PROVE  Increasing(Append(s, x))
<1> DEFINE t == Append(s, x)
<1>1. /\ Len(s) \in Nat /\ Len(t) = Len(s) + 1
      /\ \A k \in 1 .. Len(s) : t[k] = s[k] /\ s[k] \in Nat
      /\ t[Len(s) + 1] = x
  BY Appended
<1> HIDE DEF t
<1>2. ASSUME NEW k \in 1 .. Len(t), NEW l \in 1 .. Len(t), k < l
      PROVE  t[k] < t[l]
  <2>1. k \in 1 .. Len(s)
    BY <1>1, <1>2
  <2>2. CASE l \in 1 .. Len(s)
    BY <1>1, <1>2, <2>1, <2>2 DEF Increasing
  <2>3. CASE l = Len(s) + 1
    BY <1>1, <2>1, <2>3
  <2>4. QED
    BY <1>1, <2>2, <2>3
<1>3. QED
  BY <1>2 DEF Increasing, t

\* a bound cuts s where it cuts s with a greater element behind it
LEMMA CutsShorter ==
    ASSUME NEW s \in Seq(Nat), NEW x \in Nat, NEW i \in Nat, i < x, NEW j,
           Cuts(Append(s, x), j, i)
    PROVE  Cuts(s, j, i)
<1> DEFINE t == Append(s, x)
<1>1. /\ Len(s) \in Nat /\ Len(t) = Len(s) + 1
      /\ \A k \in 1 .. Len(s) : t[k] = s[k]
      /\ t[Len(s) + 1] = x
  BY Appended
<1> HIDE DEF t
<1>2. /\ j \in 0 .. Len(t) /\ \A k \in 1 .. j : t[k] <= i
      /\ \A k \in j + 1 .. Len(t) : t[k] > i
  BY DEF Cuts, t
<1>3. j # Len(s) + 1
  <2> SUFFICES ASSUME j = Len(s) + 1 PROVE FALSE
    OBVIOUS
  <2>1. Len(s) + 1 \in 1 .. j
    BY <1>1
  <2>2. t[Len(s) + 1] <= i
    BY <1>2, <2>1
  <2>3. QED
    BY <1>1, <2>2
<1>4. j \in 0 .. Len(s)
  BY <1>1, <1>2, <1>3
<1>5. (\A k \in 1 .. j : s[k] <= i) /\ \A k \in j + 1 .. Len(s) : s[k] > i
  <2>1. \A k \in 1 .. j : k \in 1 .. Len(s)
    BY <1>1, <1>4
  <2>2. \A k \in j + 1 .. Len(s) : k \in 1 .. Len(s) /\ k \in j + 1 .. Len(t)
    BY <1>1, <1>4
  <2>3. QED
    BY <1>1, <1>2, <2>1, <2>2
<1>6. QED
  BY <1>4, <1>5 DEF Cuts

\* a bound not below any element cuts behind the last
LEMMA CutsAll ==
    ASSUME NEW s \in Seq(Nat), NEW i \in Nat, \A k \in 1 .. Len(s) : s[k] <= i,
           NEW j, Cuts(s, j, i)
    PROVE  j = Len(s)
<1>1. Len(s) \in Nat /\ j \in 0 .. Len(s)
  BY DEF Cuts
<1>2. CASE j < Len(s)
  <2>1. j + 1 \in j + 1 .. Len(s) /\ j + 1 \in 1 .. Len(s)
    BY <1>1, <1>2
  <2>2. s[j + 1] > i /\ s[j + 1] <= i /\ s[j + 1] \in Nat
    BY <2>1 DEF Cuts
  <2>3. QED
    BY <2>2
<1>3. QED
  BY <1>1, <1>2

(***************************************************************************)
(* Appending keeps the distinct values and the repeated positions in step  *)
(* with the values.                                                        *)
(***************************************************************************)
LEMMA AwareAppended ==
    ASSUME NEW d \in AwareRecords, NEW vs \in Seq(Nat), AwareFollows(d, vs),
           NEW x \in Nat, NEW r, r = AwareAppend(d, x)
    PROVE  r \in AwareRecords /\ AwareFollows(r, Append(vs, x))
<1> DEFINE n == Len(vs)
           ws == Append(vs, x)
           c == d.distinct
           s == d.duplicates
<1>1. /\ n \in Nat /\ d.n = n /\ ~ d.hasDuplicates /\ ~ d.complement
      /\ c \in Seq(Nat) /\ s \in Seq(Nat) /\ Len(c) \in Nat /\ Len(s) \in Nat
      /\ Len(c) + Len(s) = n
  <2>1. /\ d.n = n /\ c \in Seq(Nat) /\ s \in Seq(Nat) /\ Len(c) + Len(s) = n
    BY DEF AwareFollows
  <2>2. ~ d.hasDuplicates /\ ~ d.complement
    BY DEF AwareFollows
  <2>3. n \in Nat /\ Len(c) \in Nat /\ Len(s) \in Nat
    BY <2>1
  <2> HIDE DEF n, c, s
  <2>4. QED
    BY <2>1, <2>2, <2>3
<1>9. n \in Nat /\ Len(c) \in Nat /\ Len(s) \in Nat /\ Len(c) + Len(s) = n
  BY <1>1
<1>2. /\ vs # <<>> => c # <<>>
      /\ \A k \in 1 .. Len(s) : s[k] \in 1 .. n - 1
      /\ Increasing(s)
  BY DEF AwareFollows
<1>3. /\ ws \in Seq(Nat) /\ Len(ws) = n + 1 /\ ws # <<>> /\ ws[n + 1] = x
      /\ \A k \in 1 .. n : ws[k] = vs[k]
  BY Appended
<1>4. ASSUME NEW i \in 0 .. n - 1, NEW j, Cuts(s, j, i)
      PROVE  i - j \in 0 .. Len(c) - 1 /\ c[i - j + 1] = ws[i + 1]
  <2>1. j \in 0 .. Len(s)
    BY <1>4 DEF Cuts
  <2>2. i - j \in 0 .. Len(c) - 1 /\ c[i - j + 1] = vs[i + 1]
    BY <1>4, <2>1 DEF AwareFollows, AwareFinds
  <2>3. i + 1 \in 1 .. n
    BY <1>1
  <2>4. QED
    BY <1>3, <2>2, <2>3
<1>5. c # <<>> => Len(c) >= 1
  BY <1>1, EmptySequence
<1> HIDE DEF n, ws
<1>6. CASE d.n = 0 \/ c[Len(c)] # x
  <2> DEFINE e == Append(c, x)
             p == d.n + 1
  <2>1. /\ e \in Seq(Nat) /\ Len(e) = Len(c) + 1 /\ e # <<>>
        /\ \A k \in 1 .. Len(c) : e[k] = c[k]
        /\ e[Len(c) + 1] = x
    BY <1>1, Appended
  <2>2. r = [d EXCEPT !.distinct = e, !.n = p] /\ p \in Nat /\ p = n + 1
    BY <1>1, <1>6 DEF AwareAppend
  <2> HIDE DEF e, p
  <2>3. /\ r \in AwareRecords /\ r.n = p /\ r.distinct = e /\ r.duplicates = s
        /\ r.hasDuplicates = d.hasDuplicates /\ r.complement = d.complement
    BY <2>1, <2>2 DEF AwareRecords
  <2> HIDE DEF c, s
  <2>4. ASSUME NEW i \in 0 .. n, NEW j, Cuts(s, j, i)
        PROVE  i - j \in 0 .. Len(e) - 1 /\ e[i - j + 1] = ws[i + 1]
    <3>1. CASE i \in 0 .. n - 1
      <4>1. i - j \in 0 .. Len(c) - 1 /\ c[i - j + 1] = ws[i + 1]
        BY <1>4, <2>4, <3>1
      <4> DEFINE q == i - j
      <4> HIDE DEF q
      <4>2. q \in 0 .. Len(c) - 1 /\ c[q + 1] = ws[i + 1]
        BY <4>1 DEF q
      <4>6. q \in 0 .. Len(c) - 1 /\ Len(e) = Len(c) + 1
        BY <2>1, <4>2
      <4>3. q + 1 \in 1 .. Len(c) /\ q \in 0 .. Len(e) - 1
        BY <1>9, <4>6
      <4>4. e[q + 1] = ws[i + 1]
        BY <2>1, <4>2, <4>3
      <4>5. QED
        BY <4>3, <4>4 DEF q
    <3>2. CASE i = n
      <4>1. \A k \in 1 .. Len(s) : s[k] <= i
        BY SMTT(20), <1>1, <1>2, <3>2
      <4>2. j = Len(s)
        BY <1>1, <2>4, <3>2, <4>1, CutsAll
      <4>3. i - j = Len(c) /\ Len(c) \in 0 .. Len(e) - 1
        BY <1>1, <2>1, <3>2, <4>2
      <4>4. QED
        BY <1>3, <2>1, <3>2, <4>3
    <3>3. QED
      BY <1>1, <3>1, <3>2
  <2>5. AwareFinds(r, ws)
    <3>1. \A i \in 0 .. Len(ws) - 1 : i \in 0 .. n
      BY <1>1, <1>3
    <3>2. QED
      BY <2>3, <2>4, <3>1 DEF AwareFinds
  <2>6. \A k \in 1 .. Len(s) : s[k] \in 1 .. Len(ws) - 1
    <3>1. Len(ws) = n + 1 /\ \A k \in 1 .. Len(s) : s[k] \in 1 .. n - 1
      BY <1>2, <1>3
    <3>2. QED
      BY <1>9, <3>1
  <2>7. Len(e) + Len(s) = Len(ws) /\ p = Len(ws)
    BY <1>1, <1>3, <2>1, <2>2
  <2>8. AwareFollows(r, ws)
    BY <1>1, <1>2, <2>1, <2>3, <2>5, <2>6, <2>7 DEF AwareFollows, c
  <2>9. QED
    BY <2>3, <2>8 DEF ws
<1>7. CASE ~ (d.n = 0 \/ c[Len(c)] # x)
  <2> DEFINE t == Append(s, n)
             p == d.n + 1
  <2>1. /\ t \in Seq(Nat) /\ Len(t) = Len(s) + 1 /\ t # <<>>
        /\ \A k \in 1 .. Len(s) : t[k] = s[k]
        /\ t[Len(s) + 1] = n
    BY <1>1, Appended
  <2>2. r = [d EXCEPT !.duplicates = t, !.n = p] /\ p \in Nat /\ p = n + 1
    BY <1>1, <1>7 DEF AwareAppend
  <2>3. c[Len(c)] = x /\ n # 0
    BY <1>1, <1>7
  <2>12. n \in Nat /\ \A k \in 1 .. Len(s) : s[k] \in Nat /\ s[k] < n
    BY SMTT(20), <1>1, <1>2
  <2>4. Increasing(t)
    BY <1>1, <1>2, <2>12, StillIncreasing
  <2>13. ASSUME NEW i \in 0 .. n - 1, NEW j, Cuts(t, j, i)
         PROVE  Cuts(s, j, i)
    <3>1. i \in Nat /\ i < n
      BY <1>1
    <3>2. QED
      BY <1>1, <2>13, <3>1, CutsShorter
  <2> HIDE DEF t, p
  <2>5. /\ r \in AwareRecords /\ r.n = p /\ r.distinct = c /\ r.duplicates = t
        /\ r.hasDuplicates = d.hasDuplicates /\ r.complement = d.complement
    BY <2>1, <2>2 DEF AwareRecords
  <2>6. c # <<>> /\ Len(c) >= 1
    <3>1. vs # <<>>
      BY <2>3, EmptySequence DEF n
    <3>2. QED
      BY <1>2, <1>5, <3>1
  <2> HIDE DEF c, s
  <2>7. ASSUME NEW i \in 0 .. n, NEW j, Cuts(t, j, i)
        PROVE  i - j \in 0 .. Len(c) - 1 /\ c[i - j + 1] = ws[i + 1]
    <3>1. CASE i \in 0 .. n - 1
      BY <1>4, <2>7, <2>13, <3>1
    <3>2. CASE i = n
      <4>1. \A k \in 1 .. Len(t) : t[k] <= i
        <5> SUFFICES ASSUME NEW k \in 1 .. Len(t) PROVE t[k] <= n
          BY <3>2
        <5>1. k \in 1 .. Len(s) \/ k = Len(s) + 1
          BY <1>1, <2>1
        <5>2. CASE k \in 1 .. Len(s)
          <6>1. t[k] = s[k] /\ s[k] \in Nat /\ s[k] < n
            BY <2>1, <2>12, <5>2
          <6>2. QED
            BY <1>9, <6>1
        <5>3. CASE k = Len(s) + 1
          BY <1>9, <2>1, <5>3
        <5>4. QED
          BY <5>1, <5>2, <5>3
      <4>2. j = Len(t)
        BY <1>1, <2>1, <2>7, <3>2, <4>1, CutsAll
      <4>3. i - j = Len(c) - 1 /\ i - j \in 0 .. Len(c) - 1 /\ i - j + 1 = Len(c)
        BY <1>1, <2>1, <2>6, <3>2, <4>2
      <4>4. QED
        BY <1>3, <2>3, <3>2, <4>3
    <3>3. QED
      BY <1>1, <3>1, <3>2
  <2>8. AwareFinds(r, ws)
    <3>1. \A i \in 0 .. Len(ws) - 1 : i \in 0 .. n
      BY <1>1, <1>3
    <3>2. QED
      BY <2>5, <2>7, <3>1 DEF AwareFinds
  <2>9. ASSUME NEW k \in 1 .. Len(t) PROVE t[k] \in 1 .. Len(ws) - 1
    <3>1. k \in 1 .. Len(s) \/ k = Len(s) + 1
      BY <1>1, <2>1
    <3>2. CASE k \in 1 .. Len(s)
      <4>1. t[k] = s[k] /\ s[k] \in 1 .. n - 1 /\ Len(ws) = n + 1
        BY <1>2, <1>3, <2>1, <3>2
      <4>2. QED
        BY <1>9, <4>1
    <3>3. CASE k = Len(s) + 1
      <4>1. t[k] = n /\ Len(ws) = n + 1
        BY <1>3, <2>1, <3>3
      <4>2. QED
        BY <1>9, <2>3, <4>1
    <3>4. QED
      BY <3>1, <3>2, <3>3
  <2>10. Len(c) + Len(t) = Len(ws) /\ p = Len(ws)
    BY <1>1, <1>3, <2>1, <2>2
  <2>11. AwareFollows(r, ws)
    BY <1>1, <2>1, <2>4, <2>5, <2>6, <2>8, <2>9, <2>10 DEF AwareFollows, c
  <2>14. QED
    BY <2>5, <2>11 DEF ws
<1>8. QED
  BY <1>6, <1>7

\* next_geq finds an element not below i behind elements below
LEMMA NextGeq ==
    ASSUME NEW s \in Seq(Nat), NEW i \in Nat
    PROVE  \E p \in 0 .. Len(s) :
               /\ next_geq(s, i).pos = p /\ next_geq(s, i).val = Move(s, p)
               /\ p < Len(s) => s[p + 1] >= i
               /\ \A k \in 1 .. p : s[k] < i
<1> DEFINE Found(j) == /\ j < Len(s) => s[j + 1] >= i
                       /\ \A k \in 1 .. j : s[k] < i
           T == {j \in 0 .. Len(s) : \A k \in 1 .. j : s[k] < i}
           p == CHOOSE j \in 0 .. Len(s) : Found(j)
<1>1. Len(s) \in Nat /\ 0 \in T /\ T \in SUBSET Nat
  OBVIOUS
<1>2. PICK j \in T : \A l \in T : l <= j
  <2>1. \A l \in T : l <= Len(s)
    BY <1>1
  <2> HIDE DEF T
  <2>2. QED
    BY <1>1, <2>1, GreatestOf
<1>3. Found(j)
  <2> SUFFICES ASSUME j < Len(s), ~ (s[j + 1] >= i) PROVE FALSE
    OBVIOUS
  <2>1. j \in Nat /\ j + 1 \in 0 .. Len(s) /\ j + 1 \in 1 .. Len(s) /\ ~ (j + 1 <= j)
    BY <1>1
  <2>2. s[j + 1] \in Nat /\ s[j + 1] < i
    BY <2>1
  <2>3. \A k \in 1 .. j + 1 : k \in 1 .. j \/ k = j + 1
    BY <2>1
  <2>4. \A k \in 1 .. j + 1 : s[k] < i
    BY <1>2, <2>2, <2>3
  <2>5. j + 1 \in T
    BY <2>1, <2>4
  <2>6. QED
    BY <1>2, <2>1, <2>5
<1>4. p \in 0 .. Len(s) /\ Found(p)
  <2>1. j \in 0 .. Len(s)
    OBVIOUS
  <2> HIDE DEF Found, T
  <2>2. QED
    BY <1>3, <2>1
<1>5. next_geq(s, i) = [pos |-> p, val |-> Move(s, p)]
  BY DEF next_geq
<1> HIDE DEF p
<1>6. QED
  BY <1>4, <1>5

\* the sequence of the positions that are not repeated ones, step by step
LEMMA ComplementedIs ==
    ASSUME NEW d \in AwareRecords
    PROVE  \E c \in [0 .. d.n -> Seq(Nat)] :
              /\ Complemented(d) = c[d.n] /\ c[0] = <<>>
              /\ \A p \in 1 .. d.n :
                    c[p] = IF \E k \in 1 .. Len(d.duplicates) : d.duplicates[k] = p - 1
                           THEN c[p - 1] ELSE Append(c[p - 1], p - 1)
<1> DEFINE n == d.n
           Repeated(p) == \E k \in 1 .. Len(d.duplicates) : d.duplicates[k] = p
           Step(v, p) == IF Repeated(p - 1) THEN v ELSE Append(v, p - 1)
           body(f) == [p \in 0 .. n |-> IF p = 0 THEN <<>>
                                        ELSE IF Repeated(p - 1) THEN f[p - 1]
                                        ELSE Append(f[p - 1], p - 1)]
           c == CHOOSE f : f = body(f)
           V == Seq(Nat)
           F == [vp \in V \X Nat |-> IF vp[2] = 0 THEN <<>> ELSE Step(vp[1], vp[2])]
<1>1. Complemented(d) = c[n]
  BY DEF Complemented
<1>2. n \in Nat /\ <<>> \in V
  BY EmptySequence DEF AwareRecords
<1> HIDE DEF n, Repeated
<1>3. F \in [V \X Nat -> V]
  <2> SUFFICES ASSUME NEW vp \in V \X Nat
               PROVE  (IF vp[2] = 0 THEN <<>> ELSE Step(vp[1], vp[2])) \in V
    OBVIOUS
  <2>1. vp[1] \in Seq(Nat) /\ vp[2] \in Nat
    OBVIOUS
  <2>2. CASE vp[2] = 0
    BY <1>2, <2>2
  <2>3. CASE vp[2] # 0
    <3>1. vp[2] - 1 \in Nat
      BY <2>1, <2>3
    <3>2. Append(vp[1], vp[2] - 1) \in Seq(Nat)
      BY <2>1, <3>1, Appended
    <3>3. QED
      BY <2>1, <2>3, <3>2
  <2>4. QED
    BY <2>2, <2>3
<1>4. PICK f \in [0 .. n -> V] :
          f[0] = <<>> /\ \A p \in 1 .. n : f[p] = F[<<f[p - 1], p>>]
  <2> DEFINE z == <<>>
  <2>1. z \in V
    BY <1>2
  <2> HIDE DEF F, V, z
  <2>2. \E f \in [0 .. n -> V] :
            f[0] = z /\ \A p \in 1 .. n : f[p] = F[<<f[p - 1], p>>]
    <3>1. n \in Nat
      BY <1>2
    <3>2. \E f : Unfolds(f, V, z, F, n)
      BY <1>3, <2>1, <3>1, Recursion
    <3>3. QED
      BY <3>2 DEF Unfolds
  <2>3. QED
    BY <2>2 DEF z
<1>5. ASSUME NEW p \in 1 .. n
      PROVE  f[p] = Step(f[p - 1], p)
  <2>1. p - 1 \in 0 .. n /\ p \in Nat /\ p # 0
    BY <1>2
  <2>2. <<f[p - 1], p>> \in V \X Nat
    BY <1>4, <2>1
  <2>3. F[<<f[p - 1], p>>] = Step(f[p - 1], p)
    BY <2>1, <2>2
  <2>4. QED
    BY <1>4, <2>3
<1>6. f = body(f)
  <2>1. f = [p \in 0 .. n |-> f[p]]
    BY <1>4
  <2>2. ASSUME NEW p \in 0 .. n
        PROVE  f[p] = IF p = 0 THEN <<>>
                      ELSE IF Repeated(p - 1) THEN f[p - 1]
                      ELSE Append(f[p - 1], p - 1)
    <3>1. p = 0 \/ p \in 1 .. n
      BY <1>2
    <3>2. QED
      BY <1>4, <1>5, <3>1
  <2>3. QED
    BY <2>1, <2>2
<1>7. c = body(c)
  <2> HIDE DEF body
  <2>1. QED
    BY <1>6
<1> HIDE DEF c
<1>8. c[0] = <<>> /\ \A p \in 1 .. n : c[p] = Step(c[p - 1], p)
  <2>1. 0 \in 0 .. n /\ \A p \in 1 .. n : p \in 0 .. n /\ p # 0
    BY <1>2
  <2>2. QED
    BY <1>7, <2>1
<1>9. \A p \in 0 .. n : c[p] = f[p]
  <2> DEFINE T == {p \in Nat : p <= n => c[p] = f[p]}
  <2>1. 0 \in T
    BY <1>4, <1>8
  <2>2. ASSUME NEW p \in Nat, p \in T PROVE p + 1 \in T
    <3> SUFFICES ASSUME p + 1 <= n PROVE c[p + 1] = f[p + 1]
      OBVIOUS
    <3>1. p + 1 \in 1 .. n /\ (p + 1) - 1 = p /\ p <= n
      BY <1>2
    <3>2. c[p + 1] = Step(c[p], p + 1) /\ f[p + 1] = Step(f[p], p + 1)
      BY <1>5, <1>8, <3>1
    <3>3. QED
      BY <2>2, <3>1, <3>2
  <2>3. Nat \subseteq T
    <3> HIDE DEF T
    <3>1. QED
      BY <2>1, <2>2, AllNaturals
  <2>4. QED
    BY <1>2, <2>3
<1>10. c = [p \in 0 .. n |-> c[p]]
  BY <1>7
<1>11. c \in [0 .. n -> V]
  <2>1. \A p \in 0 .. n : c[p] \in V
    BY <1>4, <1>9
  <2> HIDE DEF V, body
  <2>2. QED
    BY <1>10, <2>1
<1>12. QED
  BY <1>1, <1>8, <1>11 DEF n, Repeated

\* the first q positions without the repeated ones s are the elements of t:
\* one more of them than the position's number, less the repeated ones up to it
Complements(t, s, q) ==
    /\ t \in Seq(Nat) /\ Increasing(t)
    /\ \A k \in 1 .. Len(t) : t[k] < q
    /\ q > 0 => Len(t) > 0 /\ t[1] = 0
    /\ \E j \in 0 .. Len(s) :
          /\ \A k \in 1 .. j : s[k] < q
          /\ \A k \in j + 1 .. Len(s) : s[k] >= q
          /\ Len(t) + j = q
    /\ \A i \in 0 .. q - 1 : \E j \in 0 .. Len(s) :
          Cuts(s, j, i) /\ i + 1 - j \in 1 .. Len(t) /\ Cuts(t, i + 1 - j, i)

\* a repeated position is left out
LEMMA ComplementSkips ==
    ASSUME NEW s \in Seq(Nat), Increasing(s), NEW t, NEW q \in Nat,
           Complements(t, s, q), q > 0, NEW l \in 1 .. Len(s), s[l] = q
    PROVE  Complements(t, s, q + 1)
<1>1. /\ t \in Seq(Nat) /\ Increasing(t) /\ Len(t) \in Nat /\ Len(s) \in Nat
      /\ \A k \in 1 .. Len(t) : t[k] < q
      /\ Len(t) > 0 /\ t[1] = 0
  BY DEF Complements
<1>2. PICK j \in 0 .. Len(s) : /\ \A k \in 1 .. j : s[k] < q
                               /\ \A k \in j + 1 .. Len(s) : s[k] >= q
                               /\ Len(t) + j = q
  BY DEF Complements
<1>3. l = j + 1
  <2>1. ~ (l \in 1 .. j)
    <3> SUFFICES ASSUME l \in 1 .. j PROVE FALSE
      OBVIOUS
    <3>1. s[l] < q
      BY <1>2
    <3>2. QED
      BY <3>1
  <2>2. l >= j + 1 /\ j + 1 \in 1 .. Len(s) /\ j + 1 \in j + 1 .. Len(s)
    BY <1>1, <2>1
  <2>3. s[j + 1] >= q /\ s[j + 1] \in Nat
    BY <1>2, <2>2
  <2>4. l > j + 1 => s[j + 1] < s[l]
    BY <2>2 DEF Increasing
  <2>5. ~ (l > j + 1)
    <3> SUFFICES ASSUME l > j + 1 PROVE FALSE
      OBVIOUS
    <3>1. s[j + 1] < q
      BY <2>4
    <3>2. QED
      BY <2>3, <3>1
  <2>6. l \in Nat /\ j \in Nat
    OBVIOUS
  <2>7. QED
    BY <2>2, <2>5, <2>6
<1>4. j + 1 \in 0 .. Len(s) /\ Len(t) + (j + 1) = q + 1
  <2>1. Len(t) \in Nat /\ Len(s) \in Nat /\ Len(t) + j = q
    BY <1>1, <1>2
  <2>2. j \in Nat /\ l \in 1 .. Len(s)
    OBVIOUS
  <2>3. QED
    BY <1>3, <2>1, <2>2
<1>5. ASSUME NEW k \in 1 .. j + 1 PROVE s[k] < q + 1
  <2>1. k \in 1 .. j \/ k = l
    BY <1>3
  <2>2. k \in 1 .. Len(s) /\ s[k] \in Nat
    BY SMTT(20), <1>1, <1>4
  <2>3. QED
    BY <1>2, <2>1, <2>2
<1>6. ASSUME NEW k \in (j + 1) + 1 .. Len(s) PROVE s[k] >= q + 1
  <2>1. k \in 1 .. Len(s) /\ l < k /\ s[k] \in Nat
    BY <1>1, <1>3
  <2>2. s[l] < s[k]
    BY <2>1 DEF Increasing
  <2>3. QED
    BY <2>1, <2>2
<1>7. \A k \in 1 .. Len(t) : t[k] < q + 1
  <2>1. \A k \in 1 .. Len(t) : t[k] \in Nat /\ t[k] < q
    BY SMTT(20), <1>1
  <2>2. QED
    BY <2>1
<1>8. ASSUME NEW i \in 0 .. (q + 1) - 1
      PROVE  \E m \in 0 .. Len(s) :
                Cuts(s, m, i) /\ i + 1 - m \in 1 .. Len(t) /\ Cuts(t, i + 1 - m, i)
  <2>1. CASE i \in 0 .. q - 1
    BY <2>1 DEF Complements
  <2>2. CASE i = q
    <3>1. Cuts(s, j + 1, i)
      <4>1. \A k \in 1 .. j + 1 : s[k] <= q
        <5>1. \A k \in 1 .. j + 1 : k \in 1 .. Len(s)
          BY <1>1, <1>4
        <5>2. \A k \in 1 .. j + 1 : s[k] \in Nat
          BY <5>1
        <5>3. QED
          BY <1>5, <5>2
      <4>2. \A k \in (j + 1) + 1 .. Len(s) : s[k] > q
        <5>1. \A k \in (j + 1) + 1 .. Len(s) : k \in 1 .. Len(s)
          BY <1>1
        <5>2. \A k \in (j + 1) + 1 .. Len(s) : s[k] \in Nat
          BY <5>1
        <5>3. QED
          BY <1>6, <5>2
      <4>3. QED
        BY <1>4, <2>2, <4>1, <4>2 DEF Cuts
    <3>2. i + 1 - (j + 1) = Len(t) /\ Len(t) \in 1 .. Len(t) /\ Len(t) \in 0 .. Len(t)
      BY SMTT(20), <1>1, <1>4, <2>2
    <3>3. Cuts(t, Len(t), i)
      <4>1. \A k \in 1 .. Len(t) : t[k] <= i
        <5>1. \A k \in 1 .. Len(t) : t[k] \in Nat /\ t[k] < q
          BY <1>1
        <5>2. QED
          BY <2>2, <5>1
      <4>2. \A k \in Len(t) + 1 .. Len(t) : FALSE
        BY <1>1
      <4>3. QED
        BY <3>2, <4>1, <4>2 DEF Cuts
    <3>4. QED
      BY <1>4, <3>1, <3>2, <3>3
  <2>3. QED
    BY <2>1, <2>2
<1>9. QED
  BY <1>1, <1>4, <1>5, <1>6, <1>7, <1>8 DEF Complements

\* another position is one more element
LEMMA ComplementTakes ==
    ASSUME NEW s \in Seq(Nat), NEW t, NEW q \in Nat,
           Complements(t, s, q), \A l \in 1 .. Len(s) : s[l] # q
    PROVE  Complements(Append(t, q), s, q + 1)
<1> DEFINE u == Append(t, q)
<1>1. /\ t \in Seq(Nat) /\ Increasing(t) /\ Len(t) \in Nat /\ Len(s) \in Nat
      /\ \A k \in 1 .. Len(t) : t[k] < q
      /\ q > 0 => Len(t) > 0 /\ t[1] = 0
  BY DEF Complements
<1>2. PICK j \in 0 .. Len(s) : /\ \A k \in 1 .. j : s[k] < q
                               /\ \A k \in j + 1 .. Len(s) : s[k] >= q
                               /\ Len(t) + j = q
  BY DEF Complements
<1>3. /\ u \in Seq(Nat) /\ Len(u) = Len(t) + 1
      /\ \A k \in 1 .. Len(t) : u[k] = t[k]
      /\ u[Len(t) + 1] = q
  BY <1>1, Appended
<1>4. Increasing(u)
  BY <1>1, StillIncreasing
<1> HIDE DEF u
<1>5. ASSUME NEW k \in 1 .. Len(u) PROVE u[k] < q + 1 /\ u[k] <= q
  <2>1. k \in 1 .. Len(t) \/ k = Len(t) + 1
    BY <1>1, <1>3
  <2>2. CASE k \in 1 .. Len(t)
    <3>1. t[k] \in Nat
      BY <1>1, <2>2
    <3>2. u[k] = t[k]
      BY <1>3, <2>2
    <3>3. t[k] < q
      BY <1>1, <2>2
    <3>4. QED
      BY <3>1, <3>2, <3>3
  <2>3. CASE k = Len(t) + 1
    BY <1>3, <2>3
  <2>4. QED
    BY <2>1, <2>2, <2>3
<1>6. Len(u) > 0 /\ u[1] = 0
  <2>1. CASE q = 0
    <3>1. Len(t) = 0
      BY <1>1, <1>2, <2>1
    <3>2. QED
      BY <1>3, <2>1, <3>1
  <2>2. CASE q > 0
    <3>1. 1 \in 1 .. Len(t) /\ t[1] = 0
      BY <1>1, <2>2
    <3>2. u[1] = 0
      BY <1>3, <3>1
    <3>3. QED
      BY <1>1, <1>3, <3>2
  <2>3. QED
    BY <2>1, <2>2
<1>7. /\ \A k \in 1 .. j : s[k] < q + 1
      /\ \A k \in j + 1 .. Len(s) : s[k] >= q + 1 /\ s[k] > q
      /\ Len(u) + j = q + 1
  <2>1. ASSUME NEW k \in 1 .. j PROVE s[k] < q + 1
    <3>1. k \in 1 .. Len(s) /\ s[k] < q
      BY <1>1, <1>2
    <3>2. s[k] \in Nat
      BY <3>1
    <3>3. QED
      BY <3>1, <3>2
  <2>2. ASSUME NEW k \in j + 1 .. Len(s) PROVE s[k] >= q + 1 /\ s[k] > q
    <3>1. k \in 1 .. Len(s) /\ s[k] >= q
      BY <1>1, <1>2
    <3>2. s[k] \in Nat /\ s[k] # q
      BY <3>1
    <3>3. QED
      BY <3>1, <3>2
  <2>3. Len(u) + j = q + 1
    BY <1>1, <1>2, <1>3
  <2>4. QED
    BY <2>1, <2>2, <2>3
<1>8. ASSUME NEW i \in 0 .. (q + 1) - 1
      PROVE  \E m \in 0 .. Len(s) :
                Cuts(s, m, i) /\ i + 1 - m \in 1 .. Len(u) /\ Cuts(u, i + 1 - m, i)
  <2>1. CASE i \in 0 .. q - 1
    <3>1. PICK m \in 0 .. Len(s) :
              Cuts(s, m, i) /\ i + 1 - m \in 1 .. Len(t) /\ Cuts(t, i + 1 - m, i)
      BY <2>1 DEF Complements
    <3> DEFINE r == i + 1 - m
    <3>2. Cuts(s, m, i) /\ r \in 1 .. Len(t) /\ Cuts(t, r, i)
      BY <3>1
    <3> HIDE DEF r
    <3>3. r \in 0 .. Len(t) /\ (\A k \in 1 .. r : t[k] <= i)
          /\ \A k \in r + 1 .. Len(t) : t[k] > i
      BY <3>2 DEF Cuts
    <3>4. r \in 1 .. Len(u) /\ r \in 0 .. Len(u)
      BY <1>1, <1>3, <3>2
    <3>5. ASSUME NEW k \in 1 .. r PROVE u[k] <= i
      <4>1. k \in 1 .. Len(t)
        BY <1>1, <3>2
      <4>2. u[k] = t[k] /\ t[k] <= i
        BY <1>3, <3>3, <4>1
      <4>3. QED
        BY <4>2
    <3>6. ASSUME NEW k \in r + 1 .. Len(u) PROVE u[k] > i
      <4>1. k \in r + 1 .. Len(t) \/ k = Len(t) + 1
        <5>1. Len(u) = Len(t) + 1 /\ Len(t) \in Nat /\ r \in Nat /\ r <= Len(t)
          BY <1>1, <1>3, <3>2
        <5>2. QED
          BY <5>1
      <4>2. CASE k \in r + 1 .. Len(t)
        <5>1. k \in 1 .. Len(t)
          BY <1>1, <3>2, <4>2
        <5>2. u[k] = t[k] /\ t[k] > i
          BY <1>3, <3>3, <4>2, <5>1
        <5>3. QED
          BY <5>2
      <4>3. CASE k = Len(t) + 1
        BY <1>3, <2>1, <4>3
      <4>4. QED
        BY <4>1, <4>2, <4>3
    <3>7. Cuts(u, r, i)
      BY <3>4, <3>5, <3>6 DEF Cuts
    <3>8. QED
      BY <3>2, <3>4, <3>7 DEF r
  <2>2. CASE i = q
    <3>1. Cuts(s, j, i)
      <4>1. \A k \in 1 .. j : s[k] <= i
        <5>1. \A k \in 1 .. j : k \in 1 .. Len(s) /\ s[k] < q
          BY <1>1, <1>2
        <5>2. \A k \in 1 .. j : s[k] \in Nat /\ s[k] < q
          BY <5>1
        <5>3. QED
          BY <2>2, <5>2
      <4>2. QED
        BY <1>7, <2>2, <4>1 DEF Cuts
    <3>2. i + 1 - j = Len(u) /\ Len(u) \in 1 .. Len(u) /\ Len(u) \in 0 .. Len(u)
      BY <1>1, <1>3, <1>7, <2>2
    <3>3. Cuts(u, Len(u), i)
      <4>1. \A k \in Len(u) + 1 .. Len(u) : FALSE
        BY <1>1, <1>3
      <4>2. \A k \in 1 .. Len(u) : u[k] <= i
        BY <1>5, <2>2
      <4>3. QED
        BY <3>2, <4>1, <4>2 DEF Cuts
    <3>4. QED
      BY <3>1, <3>2, <3>3
  <2>3. QED
    BY <2>1, <2>2
<1>9. Complements(u, s, q + 1)
  BY <1>3, <1>4, <1>5, <1>6, <1>7, <1>8 DEF Complements
<1>10. QED
  BY <1>9 DEF u

\* the positions that are not repeated ones complement the repeated ones
LEMMA ComplementedComplements ==
    ASSUME NEW d \in AwareRecords, NEW vs \in Seq(Nat), AwareFollows(d, vs)
    PROVE  Complements(Complemented(d), d.duplicates, Len(vs))
<1> DEFINE n == Len(vs)
           s == d.duplicates
<1>1. n \in Nat /\ d.n = n /\ s \in Seq(Nat) /\ Increasing(s)
  BY DEF AwareFollows
<1>2. \A k \in 1 .. Len(s) : s[k] \in 1 .. n - 1
  BY DEF AwareFollows
<1>3. PICK c \in [0 .. n -> Seq(Nat)] :
          /\ Complemented(d) = c[n] /\ c[0] = <<>>
          /\ \A p \in 1 .. n :
                c[p] = IF \E k \in 1 .. Len(s) : s[k] = p - 1
                       THEN c[p - 1] ELSE Append(c[p - 1], p - 1)
  BY <1>1, ComplementedIs
<1> HIDE DEF n, s
<1> DEFINE T == {q \in Nat : q <= n => Complements(c[q], s, q)}
<1>4. 0 \in T
  <2> DEFINE t == <<>>
  <2>1. t \in Seq(Nat) /\ Len(t) = 0 /\ Len(s) \in Nat
    BY <1>1, EmptySequence
  <2>2. c[0] = t
    BY <1>3
  <2> HIDE DEF t
  <2>3. Increasing(t) /\ \A k \in 1 .. Len(t) : t[k] < 0
    BY <2>1 DEF Increasing
  <2>4. \E j \in 0 .. Len(s) :
          /\ \A k \in 1 .. j : s[k] < 0
          /\ \A k \in j + 1 .. Len(s) : s[k] >= 0
          /\ Len(t) + j = 0
    <3>1. 0 \in 0 .. Len(s) /\ Len(t) + 0 = 0
      BY <2>1
    <3>2. \A k \in 0 + 1 .. Len(s) : s[k] >= 0
      <4>1. \A k \in 0 + 1 .. Len(s) : k \in 1 .. Len(s)
        OBVIOUS
      <4>2. QED
        BY <1>1, <4>1
    <3>3. QED
      BY <3>1, <3>2
  <2>5. Complements(t, s, 0)
    BY <2>1, <2>3, <2>4 DEF Complements
  <2>6. QED
    BY <2>2, <2>5
<1>5. ASSUME NEW q \in Nat, q \in T PROVE q + 1 \in T
  <2> SUFFICES ASSUME q + 1 <= n PROVE Complements(c[q + 1], s, q + 1)
    OBVIOUS
  <2>1. q <= n /\ q + 1 \in 1 .. n /\ (q + 1) - 1 = q
    BY <1>1
  <2>2. Complements(c[q], s, q)
    BY <1>5, <2>1
  <2>3. c[q + 1] = IF \E k \in 1 .. Len(s) : s[k] = q
                   THEN c[q] ELSE Append(c[q], q)
    BY <1>3, <2>1
  <2>4. CASE \E k \in 1 .. Len(s) : s[k] = q
    <3>1. PICK k \in 1 .. Len(s) : s[k] = q
      BY <2>4
    <3>2. q > 0
      BY <1>2, <3>1
    <3>3. Complements(c[q], s, q + 1)
      BY <1>1, <2>2, <3>1, <3>2, ComplementSkips
    <3>4. QED
      BY <2>3, <2>4, <3>3
  <2>5. CASE ~ \E k \in 1 .. Len(s) : s[k] = q
    <3>1. Complements(Append(c[q], q), s, q + 1)
      BY <1>1, <2>2, <2>5, ComplementTakes
    <3>2. QED
      BY <2>3, <2>5, <3>1
  <2>6. QED
    BY <2>4, <2>5
<1>6. n \in T
  <2> HIDE DEF T
  <2>1. QED
    BY <1>1, <1>4, <1>5, AllNaturals
<1>7. Complements(c[n], s, n)
  BY <1>1, <1>6
<1>8. QED
  BY <1>3, <1>7 DEF n, s

\* only one place cuts a sequence at a bound
LEMMA CutsOnce ==
    ASSUME NEW s \in Seq(Nat), NEW i \in Nat, NEW j, Cuts(s, j, i),
           NEW p \in 0 .. Len(s), \A k \in 1 .. p : s[k] <= i,
           p < Len(s) => s[p + 1] > i
    PROVE  j = p
<1>1. /\ Len(s) \in Nat /\ j \in 0 .. Len(s)
      /\ \A k \in 1 .. j : s[k] <= i
      /\ \A k \in j + 1 .. Len(s) : s[k] > i
  BY DEF Cuts
<1>2. CASE j < p
  <2>1. j + 1 \in 1 .. p /\ j + 1 \in j + 1 .. Len(s) /\ j + 1 \in 1 .. Len(s)
    BY <1>1, <1>2
  <2>2. s[j + 1] <= i /\ s[j + 1] > i /\ s[j + 1] \in Nat
    BY <1>1, <2>1
  <2>3. QED
    BY <2>2
<1>3. CASE p < j
  <2>1. p < Len(s) /\ p + 1 \in 1 .. j /\ p + 1 \in 1 .. Len(s)
    BY <1>1, <1>3
  <2>2. s[p + 1] <= i /\ s[p + 1] > i /\ s[p + 1] \in Nat
    BY <1>1, <2>1
  <2>3. QED
    BY <2>2
<1>4. QED
  BY <1>1, <1>2, <1>3

(***************************************************************************)
(* A completed sequence returns the values, except in the tail.            *)
(***************************************************************************)
LEMMA AwareCompleted ==
    ASSUME NEW d \in AwareRecords, NEW vs \in Seq(Nat), AwareFollows(d, vs),
           vs # <<>>, NEW r, r = AwareComplete(d),
           NEW i \in 0 .. Len(vs) - 1, ~ InTail(r, i)
    PROVE  AwareAt(r, i) = vs[i + 1]
<1> DEFINE n == Len(vs)
           s == d.duplicates
           c == d.distinct
           dups == Len(s)
           t == Complemented(d)
<1>1. /\ n \in Nat /\ d.n = n /\ s \in Seq(Nat) /\ Increasing(s) /\ dups \in Nat
      /\ c \in Seq(Nat) /\ Len(c) \in Nat
  <2>1. d.n = n /\ s \in Seq(Nat) /\ Increasing(s) /\ c \in Seq(Nat)
    BY DEF AwareFollows
  <2> HIDE DEF s, c
  <2>2. QED
    BY <2>1
<1>2. ~ d.hasDuplicates /\ ~ d.complement
  BY DEF AwareFollows
<1>3. ASSUME NEW j, Cuts(s, j, i)
      PROVE  i - j \in 0 .. Len(c) - 1 /\ Move(c, i - j) = vs[i + 1]
  <2>1. j \in 0 .. Len(s)
    BY <1>3 DEF Cuts
  <2>2. i - j \in 0 .. Len(c) - 1 /\ c[i - j + 1] = vs[i + 1]
    BY <1>3, <2>1 DEF AwareFollows, AwareFinds
  <2>3. Move(c, i - j) = c[i - j + 1]
    <3> DEFINE m == i - j
    <3>1. m \in 0 .. Len(c) - 1
      BY <2>2
    <3> HIDE DEF m
    <3>2. m < Len(c)
      BY <1>1, <3>1
    <3>3. Move(c, m) = c[m + 1]
      BY <3>2 DEF Move
    <3>4. QED
      BY <3>3 DEF m
  <2>4. QED
    BY <2>2, <2>3
<1>4. i \in Nat
  BY <1>1
<1> HIDE DEF n, t
<1>5. CASE dups = 0
  <2>1. r = d
    BY <1>5 DEF AwareComplete
  <2>2. AwareIndex(r, i) = i
    BY <1>2, <2>1 DEF AwareIndex
  <2>3. Cuts(s, 0, i)
    BY <1>5 DEF Cuts
  <2>4. i - 0 = i
    BY <1>4
  <2>5. QED
    BY <1>3, <2>1, <2>2, <2>3, <2>4 DEF AwareAt
<1>6. CASE dups # 0 /\ ~ (d.n - dups < dups)
  <2>1. r = [d EXCEPT !.hasDuplicates = TRUE]
    BY <1>6 DEF AwareComplete
  <2>2. /\ r.hasDuplicates /\ ~ r.complement /\ r.duplicates = s /\ r.distinct = c
    BY <1>2, <2>1 DEF AwareRecords
  <2> HIDE DEF s, c, dups
  <2> DEFINE found == next_geq(s, i)
  <2>3. PICK p \in 0 .. Len(s) :
            /\ found.pos = p /\ found.val = Move(s, p)
            /\ p < Len(s) => s[p + 1] >= i
            /\ \A k \in 1 .. p : s[k] < i
    BY <1>1, <1>4, NextGeq
  <2>4. AwareIndex(r, i) = IF found.val = i /\ p < Len(s) THEN i - p - 1 ELSE i - p
    BY <2>2, <2>3 DEF AwareIndex
  <2> HIDE DEF found
  <2>5. Len(s) \in Nat /\ \A k \in 1 .. Len(s) : s[k] \in Nat
    BY <1>1
  <2>6. \A k \in 1 .. p : k \in 1 .. Len(s) /\ s[k] <= i
    <3>1. \A k \in 1 .. p : k \in 1 .. Len(s)
      BY <2>5
    <3>2. \A k \in 1 .. p : s[k] < i /\ s[k] \in Nat
      BY <2>3, <2>5, <3>1
    <3>3. QED
      BY <1>4, <3>1, <3>2
  <2>7. CASE found.val = i /\ p < Len(s)
    <3>1. p + 1 \in 1 .. Len(s) /\ p + 1 \in 0 .. Len(s)
      BY <2>5, <2>7
    <3>2. s[p + 1] = i
      BY <2>3, <2>7 DEF Move
    <3>3. ASSUME NEW k \in 1 .. p + 1 PROVE s[k] <= i
      <4>1. k \in 1 .. p \/ k = p + 1
        OBVIOUS
      <4>2. QED
        BY <1>4, <2>6, <3>2, <4>1
    <3>4. ASSUME NEW k \in (p + 1) + 1 .. Len(s) PROVE s[k] > i
      <4>1. k \in 1 .. Len(s) /\ p + 1 < k
        BY <2>5
      <4>2. s[p + 1] < s[k] /\ s[k] \in Nat
        BY <1>1, <2>5, <3>1, <4>1 DEF Increasing
      <4>3. QED
        BY <1>4, <3>2, <4>2
    <3>5. Cuts(s, p + 1, i)
      BY <3>1, <3>3, <3>4 DEF Cuts
    <3>6. AwareIndex(r, i) = i - (p + 1)
      BY <1>4, <2>4, <2>7
    <3>7. QED
      BY <1>3, <2>2, <3>5, <3>6 DEF AwareAt
  <2>8. CASE ~ (found.val = i /\ p < Len(s))
    <3>1. ASSUME NEW k \in p + 1 .. Len(s) PROVE s[k] > i
      <4>1. k \in 1 .. Len(s) /\ p < Len(s) /\ p + 1 \in 1 .. Len(s) /\ p + 1 <= k
        BY <2>5
      <4>2. s[p + 1] >= i /\ s[p + 1] # i /\ s[p + 1] \in Nat /\ s[k] \in Nat
        BY <2>3, <2>5, <2>8, <4>1 DEF Move
      <4>3. p + 1 < k => s[p + 1] < s[k]
        BY <1>1, <4>1 DEF Increasing
      <4>4. CASE p + 1 = k
        BY <1>4, <4>2, <4>4
      <4>5. CASE p + 1 < k
        BY <1>4, <4>2, <4>3, <4>5
      <4>6. QED
        BY <4>1, <4>4, <4>5
    <3>2. Cuts(s, p, i)
      BY <2>6, <3>1 DEF Cuts
    <3>3. AwareIndex(r, i) = i - p
      BY <2>4, <2>8
    <3>4. QED
      BY <1>3, <2>2, <3>2, <3>3 DEF AwareAt
  <2>9. QED
    BY <2>7, <2>8
<1>7. CASE dups # 0 /\ d.n - dups < dups
  <2>1. r = [d EXCEPT !.hasDuplicates = TRUE, !.complement = TRUE, !.duplicates = t]
    BY <1>7 DEF AwareComplete, t
  <2>2. Complements(t, s, n)
    BY ComplementedComplements DEF t, n
  <2>3. t \in Seq(Nat) /\ Len(t) \in Nat /\ \A k \in 1 .. Len(t) : t[k] \in Nat
    BY SMTT(20), <2>2 DEF Complements
  <2>4. Increasing(t) /\ Len(t) > 0 /\ t[1] = 0
    <3>1. n > 0
      BY <1>1, EmptySequence DEF n
    <3>2. QED
      BY <2>2, <3>1 DEF Complements
  <2>5. PICK j \in 0 .. Len(s) :
            Cuts(s, j, i) /\ i + 1 - j \in 1 .. Len(t) /\ Cuts(t, i + 1 - j, i)
    <3>1. i \in 0 .. n - 1
      BY DEF n
    <3>2. QED
      BY <2>2, <3>1 DEF Complements
  <2>6. /\ r.hasDuplicates /\ r.complement /\ r.duplicates = t /\ r.distinct = c
    BY <2>1, <2>3 DEF AwareRecords
  <2>7. Move(c, i - j) = vs[i + 1] /\ j \in Nat
    BY <1>1, <1>3, <2>5
  <2> HIDE DEF s, c, dups
  <2> DEFINE found == next_geq(t, i)
  <2>8. PICK p \in 0 .. Len(t) :
            /\ found.pos = p /\ found.val = Move(t, p)
            /\ p < Len(t) => t[p + 1] >= i
            /\ \A k \in 1 .. p : t[k] < i
    BY <1>4, <2>3, NextGeq
  <2>9. AwareIndex(r, i) = IF found.val > i /\ p > 0 THEN p - 1 ELSE p
    BY <2>6, <2>8 DEF AwareIndex
  <2> HIDE DEF found
  <2>10. p < Len(t)
    <3> SUFFICES ASSUME p = Len(t) PROVE FALSE
      BY <2>3
    <3>1. InTail(r, i)
      BY <2>6, <2>8 DEF InTail
    <3>2. QED
      BY <3>1
  <2>11. p \in Nat /\ p + 1 \in 1 .. Len(t) /\ p + 1 \in 0 .. Len(t)
    BY <2>3, <2>10
  <2>12. found.val = t[p + 1] /\ t[p + 1] >= i /\ t[p + 1] \in Nat
    BY <2>3, <2>8, <2>10, <2>11 DEF Move
  <2>13. \A k \in 1 .. p : t[k] <= i
    <3>1. \A k \in 1 .. p : k \in 1 .. Len(t)
      BY <2>3, <2>11
    <3>2. \A k \in 1 .. p : t[k] < i /\ t[k] \in Nat
      BY <2>3, <2>8, <3>1
    <3>3. QED
      BY <1>4, <3>2
  <2>14. CASE found.val > i
    <3>1. p > 0
      <4> SUFFICES ASSUME p = 0 PROVE FALSE
        BY <2>11
      <4>1. t[1] > i
        BY <2>12, <2>14
      <4>2. QED
        BY <1>4, <2>4, <4>1
    <3>2. i + 1 - j = p
      <4>1. t[p + 1] > i
        BY <2>12, <2>14
      <4>2. QED
        BY <1>4, <2>3, <2>5, <2>13, <4>1, CutsOnce
    <3>3. AwareIndex(r, i) = i - j
      BY <1>4, <2>7, <2>9, <2>11, <2>14, <3>1, <3>2
    <3>4. QED
      BY <2>6, <2>7, <3>3 DEF AwareAt
  <2>15. CASE ~ (found.val > i)
    <3>1. t[p + 1] = i
      BY <1>4, <2>12, <2>15
    <3>2. \A k \in 1 .. p + 1 : t[k] <= i
      <4>1. \A k \in 1 .. p + 1 : k \in 1 .. p \/ k = p + 1
        BY <2>11
      <4>2. QED
        BY <1>4, <2>13, <3>1, <4>1
    <3>3. p + 1 < Len(t) => t[(p + 1) + 1] > i
      <4> SUFFICES ASSUME p + 1 < Len(t) PROVE t[(p + 1) + 1] > i
        OBVIOUS
      <4>1. (p + 1) + 1 \in 1 .. Len(t) /\ p + 1 < (p + 1) + 1
        BY <2>3, <2>11
      <4>2. t[p + 1] < t[(p + 1) + 1]
        BY <2>4, <2>11, <4>1 DEF Increasing
      <4>3. t[(p + 1) + 1] \in Nat
        BY <2>3, <4>1
      <4>4. QED
        BY <1>4, <3>1, <4>2, <4>3
    <3>4. i + 1 - j = p + 1
      BY <1>4, <2>3, <2>5, <2>11, <3>2, <3>3, CutsOnce
    <3>5. AwareIndex(r, i) = i - j
      BY SMTT(20), <1>4, <2>7, <2>9, <2>11, <2>15, <3>4
    <3>6. QED
      BY <2>6, <2>7, <3>5 DEF AwareAt
  <2>16. QED
    BY <2>14, <2>15
<1>8. QED
  BY <1>5, <1>6, <1>7

\* a new sequence
LEMMA AwareEmpty ==
    EmptyAware \in AwareRecords /\ AwareFollows(EmptyAware, <<>>)
<1> DEFINE e == <<>>
<1>1. e \in Seq(Nat) /\ Len(e) = 0
  BY EmptySequence
<1>2. EmptyAware = [n |-> 0, distinct |-> e, duplicates |-> e,
                    hasDuplicates |-> FALSE, complement |-> FALSE]
  BY DEF EmptyAware
<1>3. e = <<>>
  OBVIOUS
<1> HIDE DEF e
<1>4. /\ EmptyAware \in AwareRecords /\ EmptyAware.n = 0
      /\ EmptyAware.distinct = e /\ EmptyAware.duplicates = e
      /\ EmptyAware.hasDuplicates = FALSE /\ EmptyAware.complement = FALSE
  BY <1>1, <1>2 DEF AwareRecords
<1> DEFINE d == EmptyAware
<1> HIDE DEF d
<1>5. /\ d.n = 0 /\ d.distinct = e /\ d.duplicates = e
      /\ d.hasDuplicates = FALSE /\ d.complement = FALSE
  BY <1>4 DEF d
<1>6. AwareFinds(d, e) /\ Increasing(e) /\ \A k \in 1 .. Len(e) : FALSE
  BY <1>1 DEF AwareFinds, Increasing
<1>7. ~ d.hasDuplicates /\ ~ d.complement
  BY <1>5
<1>8. Len(e) + Len(e) = Len(e) /\ 0 = Len(e)
  BY <1>1
<1>9. AwareFollows(d, e)
  BY <1>1, <1>3, <1>5, <1>6, <1>7, <1>8 DEF AwareFollows
<1>10. QED
  BY <1>3, <1>4, <1>9 DEF d

-----------------------------------------------------------------------------
(* Bit arrays whose one bits are listed in order, rank, select and scans. *)

\* f lists the first n one bits in order
Rising(f, n) ==
    /\ n \in Nat /\ f \in [0 .. n - 1 -> Nat]
    /\ \A k, l \in 0 .. n - 1 : k < l => f[k] < f[l]

\* the first n one bits that f lists
OneBits(f, n) == {f[k] : k \in 0 .. n - 1}

\* as many different bits as are listed
LEMMA BitsCount ==
    ASSUME NEW f, NEW n, Rising(f, n), NEW m \in 0 .. n
    PROVE  /\ OneBits(f, m) \in SUBSET Nat
           /\ IsFiniteSet(OneBits(f, m)) /\ Cardinality(OneBits(f, m)) = m
<1>1. n \in Nat /\ f \in [0 .. n - 1 -> Nat]
      /\ \A k, l \in 0 .. n - 1 : k < l => f[k] < f[l]
  BY DEF Rising
<1> DEFINE T == {j \in Nat : j <= n => IsFiniteSet(OneBits(f, j))
                                       /\ Cardinality(OneBits(f, j)) = j}
<1>2. 0 \in T
  <2>1. OneBits(f, 0) = {}
    BY DEF OneBits
  <2>2. QED
    BY <2>1, FS_EmptySet
<1>3. ASSUME NEW j \in Nat, j \in T PROVE j + 1 \in T
  <2> SUFFICES ASSUME j + 1 <= n
               PROVE  IsFiniteSet(OneBits(f, j + 1)) /\ Cardinality(OneBits(f, j + 1)) = j + 1
    OBVIOUS
  <2>1. IsFiniteSet(OneBits(f, j)) /\ Cardinality(OneBits(f, j)) = j
    BY <1>1, <1>3
  <2>2. OneBits(f, j + 1) = OneBits(f, j) \cup {f[j]}
    <3>1. \A k : k \in 0 .. (j + 1) - 1 <=> k \in 0 .. j - 1 \/ k = j
      OBVIOUS
    <3>2. QED
      BY <3>1 DEF OneBits
  <2>3. f[j] \notin OneBits(f, j)
    <3>1. ASSUME NEW k \in 0 .. j - 1 PROVE f[k] # f[j]
      <4>1. k \in 0 .. n - 1 /\ j \in 0 .. n - 1 /\ k < j
        BY <1>1
      <4>2. f[k] < f[j] /\ f[k] \in Nat /\ f[j] \in Nat
        BY <1>1, <4>1
      <4>3. QED
        BY <4>2
    <3>2. QED
      BY <3>1 DEF OneBits
  <2>4. QED
    BY <2>1, <2>2, <2>3, FS_AddElement
<1>4. m \in T
  <2>1. m \in Nat
    BY <1>1
  <2> HIDE DEF T
  <2>2. QED
    BY <1>2, <1>3, <2>1, AllNaturals
<1>5. OneBits(f, m) \in SUBSET Nat
  <2>1. \A k \in 0 .. m - 1 : k \in 0 .. n - 1
    BY <1>1
  <2>2. QED
    BY <1>1, <2>1 DEF OneBits
<1>6. QED
  BY <1>1, <1>4, <1>5

\* the number of bits below a place
LEMMA BitsBelow ==
    ASSUME NEW f, NEW n, Rising(f, n), NEW b \in Nat, NEW c \in 0 .. n,
           \A k \in 0 .. c - 1 : f[k] < b, \A k \in c .. n - 1 : f[k] >= b
    PROVE  Below(OneBits(f, n), b) = OneBits(f, c) /\ RankIn(OneBits(f, n), b) = c
<1>1. n \in Nat /\ f \in [0 .. n - 1 -> Nat]
  BY DEF Rising
<1>2. Below(OneBits(f, n), b) = OneBits(f, c)
  <2>1. ASSUME NEW u \in Below(OneBits(f, n), b) PROVE u \in OneBits(f, c)
    <3>1. PICK k \in 0 .. n - 1 : u = f[k]
      BY DEF Below, OneBits
    <3>2. f[k] < b /\ f[k] \in Nat
      BY <1>1, <3>1 DEF Below
    <3>3. ~ (k \in c .. n - 1)
      <4> SUFFICES ASSUME k \in c .. n - 1 PROVE FALSE
        OBVIOUS
      <4>1. f[k] >= b
        OBVIOUS
      <4>2. QED
        BY <3>2, <4>1
    <3>4. k \in 0 .. c - 1
      BY <1>1, <3>3
    <3>5. QED
      BY <3>1, <3>4 DEF OneBits
  <2>2. ASSUME NEW u \in OneBits(f, c) PROVE u \in Below(OneBits(f, n), b)
    <3>1. PICK k \in 0 .. c - 1 : u = f[k]
      BY DEF OneBits
    <3>2. k \in 0 .. n - 1 /\ f[k] < b
      BY <1>1
    <3>3. QED
      BY <3>1, <3>2 DEF Below, OneBits
  <2>3. QED
    BY <2>1, <2>2
<1>3. Cardinality(OneBits(f, c)) = c
  BY BitsCount
<1>4. QED
  BY <1>2, <1>3 DEF RankIn

\* the bits up to b are those below it and b
LEMMA UpTo ==
    ASSUME NEW S \in SUBSET Nat, IsFiniteSet(S), NEW b \in S
    PROVE  Cardinality({c \in S : c <= b}) = RankIn(S, b) + 1
<1>1. IsFiniteSet(Below(S, b)) /\ b \notin Below(S, b)
  BY RankType DEF Below
<1>2. {c \in S : c <= b} = Below(S, b) \cup {b}
  <2>1. \A c \in S : c \in Nat /\ b \in Nat /\ (c <= b <=> c < b \/ c = b)
    OBVIOUS
  <2>2. QED
    BY <2>1 DEF Below
<1>3. QED
  BY <1>1, <1>2, FS_AddElement DEF RankIn

\* the rank of a listed bit is its place in the list
LEMMA BitsRank ==
    ASSUME NEW f, NEW n, Rising(f, n), NEW i \in 0 .. n - 1
    PROVE  /\ RankIn(OneBits(f, n), f[i]) = i
           /\ f[i] \in OneBits(f, n) /\ f[i] \in Nat
           /\ OneBits(f, n) \in SUBSET Nat /\ IsFiniteSet(OneBits(f, n))
<1>1. n \in Nat /\ f \in [0 .. n - 1 -> Nat] /\ i \in 0 .. n /\ i \in Nat
      /\ \A k, l \in 0 .. n - 1 : k < l => f[k] < f[l]
  BY DEF Rising
<1>2. ASSUME NEW k \in 0 .. i - 1 PROVE f[k] < f[i]
  <2>1. k \in 0 .. n - 1 /\ k < i
    BY <1>1
  <2>2. QED
    BY <1>1, <2>1
<1>3. ASSUME NEW k \in i .. n - 1 PROVE f[k] >= f[i]
  <2>1. k \in 0 .. n - 1 /\ (k = i \/ i < k)
    BY <1>1
  <2>2. f[k] \in Nat /\ f[i] \in Nat /\ (i < k => f[i] < f[k])
    BY <1>1, <2>1
  <2>3. QED
    BY <2>1, <2>2
<1>4. f[i] \in Nat
  BY <1>1
<1>5. RankIn(OneBits(f, n), f[i]) = i
  BY <1>1, <1>2, <1>3, <1>4, BitsBelow
<1>6. n \in 0 .. n
  BY <1>1
<1>7. QED
  BY <1>4, <1>5, <1>6, BitsCount DEF OneBits

\* select finds the listed bit
LEMMA BitsSelect ==
    ASSUME NEW f, NEW n, Rising(f, n), NEW i \in 0 .. n - 1,
           NEW ef, ef.H = OneBits(f, n)
    PROVE  select1(ef, i + 1) = f[i]
<1> DEFINE H == OneBits(f, n)
<1>1. /\ RankIn(H, f[i]) = i /\ f[i] \in H /\ H \in SUBSET Nat /\ IsFiniteSet(H)
  BY BitsRank
<1> HIDE DEF H
<1>2. ASSUME NEW b \in H
      PROVE  Cardinality({c \in H : c <= b}) = RankIn(H, b) + 1 /\ RankIn(H, b) \in Nat
  BY <1>1, UpTo, RankType
<1>3. ASSUME NEW b \in H
      PROVE  Cardinality({c \in H : c <= b}) = i + 1 <=> b = f[i]
  <2>1. Cardinality({c \in H : c <= b}) = i + 1 <=> RankIn(H, b) = i
    <3>1. i \in Nat
      BY DEF Rising
    <3>2. QED
      BY <1>2, <3>1
  <2>2. RankIn(H, b) = i <=> b = f[i]
    BY <1>1, RankOrder
  <2>3. QED
    BY <2>1, <2>2
<1>4. (CHOOSE b \in H : Cardinality({c \in H : c <= b}) = i + 1) = f[i]
  BY <1>1, <1>3
<1>5. QED
  BY <1>4 DEF select1, H

\* the lowest element of a set
LEMMA LowestIs ==
    ASSUME NEW S \in SUBSET Nat, NEW m \in S, \A c \in S : m <= c
    PROVE  Lowest(S) = m
<1>1. \A b \in S : (\A c \in S : b <= c) => b = m
  <2> SUFFICES ASSUME NEW b \in S, \A c \in S : b <= c PROVE b = m
    OBVIOUS
  <2>1. b <= m /\ m <= b /\ b \in Nat /\ m \in Nat
    OBVIOUS
  <2>2. QED
    BY <2>1
<1>2. QED
  BY <1>1 DEF Lowest

\* and the highest
LEMMA HighestIs ==
    ASSUME NEW S \in SUBSET Nat, NEW m \in S, \A c \in S : m >= c
    PROVE  Highest(S) = m
<1>1. \A b \in S : (\A c \in S : b >= c) => b = m
  <2> SUFFICES ASSUME NEW b \in S, \A c \in S : b >= c PROVE b = m
    OBVIOUS
  <2>1. b >= m /\ m >= b /\ b \in Nat /\ m \in Nat
    OBVIOUS
  <2>2. QED
    BY <2>1
<1>2. QED
  BY <1>1 DEF Highest

(***************************************************************************)
(* nextOne, whose scan takes the rest of a word first, finds the next bit. *)
(***************************************************************************)
LEMMA NextOneIs ==
    ASSUME NEW S \in SUBSET Nat, NEW b \in S, NEW m \in S, b < m,
           \A c \in S : b < c => m <= c
    PROVE  nextOne(S, b) = m
<1> DEFINE word == {c \in S : c \div WordBits = b \div WordBits /\ c >= b}
           rest == {c \in word : \E d \in word : d < c}
           behind == {c \in S : c \div WordBits > b \div WordBits}
<1>1. WordBits \in Nat \ {0} /\ b \in Nat /\ m \in Nat
  BY WordBitsAssumption
<1>2. \A c \in S : c \in Nat /\ c \div WordBits \in Nat
  BY <1>1, Division
<1>3. ASSUME NEW c \in rest PROVE c \in S /\ c \in Nat /\ m <= c /\ c \div WordBits = b \div WordBits
  <2>1. PICK d \in word : d < c
    OBVIOUS
  <2>2. c \in S /\ d \in S /\ d >= b /\ c \div WordBits = b \div WordBits
    OBVIOUS
  <2>3. b < c /\ c \in Nat
    BY <1>1, <1>2, <2>1, <2>2
  <2>4. QED
    BY <2>2, <2>3
<1>4. ASSUME NEW c \in behind PROVE c \in S /\ m <= c
  <2>1. c \in S /\ c \div WordBits > b \div WordBits
    OBVIOUS
  <2>2. b < c
    <3> SUFFICES ASSUME c <= b PROVE FALSE
      BY <1>1, <1>2
    <3>1. c \div WordBits <= b \div WordBits
      BY <1>1, <1>2, QuotientGrows
    <3>2. QED
      BY <1>2, <2>1, <3>1
  <2>3. QED
    BY <2>1, <2>2
<1>5. nextOne(S, b) = IF rest # {} THEN Lowest(rest) ELSE Lowest(behind)
  BY DEF nextOne
<1>6. b \div WordBits <= m \div WordBits
  BY <1>1, QuotientGrows
<1>7. CASE m \div WordBits = b \div WordBits
  <2>1. m \in rest
    <3>1. m \in word /\ b \in word
      BY <1>1, <1>7
    <3>2. QED
      BY <3>1
  <2>2. rest \in SUBSET Nat /\ \A c \in rest : m <= c
    BY <1>3
  <2> HIDE DEF rest, behind
  <2>3. Lowest(rest) = m
    BY <2>1, <2>2, LowestIs
  <2>4. QED
    BY <1>5, <2>1, <2>3
<1>8. CASE m \div WordBits # b \div WordBits
  <2>1. m \div WordBits > b \div WordBits
    BY <1>2, <1>6, <1>8
  <2>2. m \in behind /\ behind \in SUBSET Nat
    BY <2>1
  <2>3. rest = {}
    <3> SUFFICES ASSUME NEW c \in rest PROVE FALSE
      OBVIOUS
    <3>1. c \in Nat /\ m <= c /\ c \div WordBits = b \div WordBits
      BY <1>3
    <3>2. m \div WordBits <= c \div WordBits
      BY <1>1, <3>1, QuotientGrows
    <3>3. QED
      BY <1>2, <2>1, <3>1, <3>2
  <2>4. \A c \in behind : m <= c
    BY <1>4
  <2> HIDE DEF rest, behind
  <2>5. Lowest(behind) = m
    BY <2>2, <2>4, LowestIs
  <2>6. QED
    BY <1>5, <2>3, <2>5
<1>9. QED
  BY <1>7, <1>8

\* from a listed bit to the one listed behind it
LEMMA BitsNext ==
    ASSUME NEW f, NEW n, Rising(f, n), NEW i \in 0 .. n - 1, i + 1 \in 0 .. n - 1
    PROVE  nextOne(OneBits(f, n), f[i]) = f[i + 1]
<1> DEFINE H == OneBits(f, n)
<1>1. n \in Nat /\ f \in [0 .. n - 1 -> Nat]
      /\ \A k, l \in 0 .. n - 1 : k < l => f[k] < f[l]
  BY DEF Rising
<1>2. f[i] \in H /\ f[i + 1] \in H /\ H \in SUBSET Nat
  BY BitsRank
<1>3. f[i] < f[i + 1]
  <2>1. i < i + 1
    BY <1>1
  <2>2. QED
    BY <1>1, <2>1
<1>4. ASSUME NEW c \in H, f[i] < c PROVE f[i + 1] <= c
  <2>1. PICK k \in 0 .. n - 1 : c = f[k]
    BY DEF OneBits
  <2>2. f[k] \in Nat /\ f[i] \in Nat /\ f[i + 1] \in Nat
    BY <1>1
  <2>3. ~ (k < i) /\ k # i
    <3>1. k < i => f[k] < f[i]
      BY <1>1
    <3>2. QED
      BY <1>4, <2>1, <2>2, <3>1
  <2>4. k = i + 1 \/ i + 1 < k
    BY <1>1, <2>3
  <2>5. i + 1 < k => f[i + 1] < f[k]
    BY <1>1
  <2>6. QED
    BY <2>1, <2>2, <2>4, <2>5
<1> HIDE DEF H
<1>5. nextOne(H, f[i]) = f[i + 1]
  BY <1>2, <1>3, <1>4, NextOneIs
<1>6. QED
  BY <1>5 DEF H

\* from any place backwards to the last listed bit below it
LEMMA BitsPrev ==
    ASSUME NEW f, NEW n, Rising(f, n), NEW i \in 0 .. n - 1, NEW b \in Nat,
           f[i] < b, i + 1 \in 0 .. n - 1 => f[i + 1] >= b
    PROVE  prevOne(OneBits(f, n), b) = f[i]
<1> DEFINE S == {c \in OneBits(f, n) : c < b}
<1>1. n \in Nat /\ f \in [0 .. n - 1 -> Nat]
      /\ \A k, l \in 0 .. n - 1 : k < l => f[k] < f[l]
  BY DEF Rising
<1>2. f[i] \in OneBits(f, n) /\ OneBits(f, n) \in SUBSET Nat
  BY BitsRank
<1>3. f[i] \in S /\ S \in SUBSET Nat
  BY <1>2
<1>4. ASSUME NEW c \in S PROVE f[i] >= c
  <2>1. PICK k \in 0 .. n - 1 : c = f[k]
    BY DEF OneBits
  <2>2. f[k] \in Nat /\ f[i] \in Nat /\ f[k] < b
    BY <1>1, <2>1
  <2>3. CASE k <= i
    <3>1. k < i => f[k] < f[i]
      BY <1>1
    <3>2. QED
      BY <2>1, <2>2, <2>3, <3>1
  <2>4. CASE i < k
    <3>1. i + 1 \in 0 .. n - 1 /\ (k = i + 1 \/ i + 1 < k)
      BY <1>1, <2>4
    <3>2. f[i + 1] \in Nat /\ f[i + 1] >= b /\ (i + 1 < k => f[i + 1] < f[k])
      BY <1>1, <3>1
    <3>3. QED
      BY <2>2, <3>1, <3>2
  <2>5. QED
    BY <1>1, <2>3, <2>4
<1> HIDE DEF S
<1>5. Highest(S) = f[i]
  BY <1>3, <1>4, HighestIs
<1>6. QED
  BY <1>5 DEF prevOne, S

\* the first listed bit is the lowest
LEMMA BitsLowest ==
    ASSUME NEW f, NEW n, Rising(f, n), n # 0
    PROVE  Lowest(OneBits(f, n)) = f[0]
<1>1. n \in Nat /\ f \in [0 .. n - 1 -> Nat] /\ 0 \in 0 .. n - 1
      /\ \A k, l \in 0 .. n - 1 : k < l => f[k] < f[l]
  BY DEF Rising
<1>2. f[0] \in OneBits(f, n) /\ OneBits(f, n) \in SUBSET Nat
  BY <1>1, BitsRank
<1>3. ASSUME NEW c \in OneBits(f, n) PROVE f[0] <= c
  <2>1. PICK k \in 0 .. n - 1 : c = f[k]
    BY DEF OneBits
  <2>2. f[k] \in Nat /\ f[0] \in Nat /\ (0 < k => f[0] < f[k]) /\ (k = 0 \/ 0 < k)
    BY <1>1
  <2>3. QED
    BY <2>1, <2>2
<1>4. QED
  BY <1>2, <1>3, LowestIs

-----------------------------------------------------------------------------
(* The width of the low parts. *)

\* powers of two, up to the m-th
PowersTo(m) ==
    \A k \in 0 .. m : 2^k \in Nat \ {0} /\ 2^0 = 1 /\ 2^(k + 1) = 2 * 2^k

\* the numbers that powers are known for include those of a smaller one
LEMMA PowersFor ==
    ASSUME NEW n \in {MaxLength, MaxValue}, NEW u \in Nat, u <= n + 1
    PROVE  PowersTo(2 * u + 1)
<1>1. n \in Nat /\ 2 * u + 1 <= 2 * n + 3
  BY BoundsAssumption
<1>2. \A k \in 0 .. 2 * u + 1 : k \in 0 .. 2 * n + 3
  BY <1>1
<1>3. \A k \in 0 .. 2 * n + 3 : 2^k \in Nat \ {0} /\ 2^0 = 1 /\ 2^(k + 1) = 2 * 2^k
  BY PowersAssumption
<1>4. QED
  BY <1>2, <1>3 DEF PowersTo

\* a power above a square
LEMMA SquareBelow ==
    ASSUME NEW m \in Nat, PowersTo(m), NEW u \in Nat, 2 * u + 1 <= m
    PROVE  2^(2 * u + 1) > u * u
<1> DEFINE T == {k \in Nat : 2 * k + 1 <= m => 2^(2 * k + 1) > k * k}
<1>1. 0 \in T
  <2> SUFFICES ASSUME 2 * 0 + 1 <= m PROVE 2^(2 * 0 + 1) > 0 * 0
    OBVIOUS
  <2>1. 2 * 0 + 1 \in 0 .. m /\ 0 * 0 = 0
    OBVIOUS
  <2>2. 2^(2 * 0 + 1) \in Nat \ {0}
    BY <2>1 DEF PowersTo
  <2>3. QED
    BY <2>1, <2>2
<1>2. ASSUME NEW k \in Nat, k \in T PROVE k + 1 \in T
  <2> SUFFICES ASSUME 2 * (k + 1) + 1 <= m
               PROVE  2^(2 * (k + 1) + 1) > (k + 1) * (k + 1)
    OBVIOUS
  <2> DEFINE a == 2 * k + 1
             b == a + 1
             p == 2^a
             q == 2^b
             r == 2^(b + 1)
  <2>1. a \in 0 .. m /\ b \in 0 .. m /\ 2 * (k + 1) + 1 = b + 1
    OBVIOUS
  <2>2. p > k * k
    BY <1>2
  <2> HIDE DEF a
  <2>3. p \in Nat /\ q = 2 * p
    BY <2>1 DEF PowersTo
  <2> HIDE DEF b
  <2>4. r = 2 * q
    BY <2>1 DEF PowersTo
  <2>5. 2^(2 * (k + 1) + 1) = r
    BY <2>1
  <2> HIDE DEF p, q, r
  <2>6. r > (k + 1) * (k + 1)
    <3> DEFINE s == k * k
    <3>1. s \in Nat /\ (k + 1) * (k + 1) = s + 2 * k + 1 /\ k <= s
      OBVIOUS
    <3> HIDE DEF s
    <3>2. p > s
      BY <2>2 DEF s
    <3>3. r > s + 2 * k + 1
      BY <2>3, <2>4, <3>1, <3>2
    <3>4. QED
      BY <3>1, <3>3
  <2>7. QED
    BY <2>5, <2>6
<1>3. u \in T
  <2> HIDE DEF T
  <2>1. QED
    BY <1>1, <1>2, AllNaturals
<1>4. QED
  BY <1>3

\* the width is the one that the comparison of squares asks for
LEMMA WidthIs ==
    ASSUME NEW u \in Nat, NEW ones \in Nat, PowersTo(2 * u + 1)
    PROVE  /\ elias_fano_lo_width(u, ones) \in Nat \ {0}
           /\ elias_fano_lo_width(u, ones) <= 2 * u + 1
<1> DEFINE AtLeast(w) == 480 * u * u >= 1000 * 2^(2 * w - 1) * ones * ones
           T == {w \in 2 .. u : AtLeast(w)}
           Is(w) == AtLeast(w) /\ ~ AtLeast(w + 1)
           c == CHOOSE w \in 2 .. u : Is(w)
<1>1. elias_fano_lo_width(u, ones) =
          IF ones = 0 \/ ones > u \/ ~ AtLeast(2) THEN 1 ELSE c
  BY DEF elias_fano_lo_width
<1>2. CASE ones = 0 \/ ones > u \/ ~ AtLeast(2)
  <2> HIDE DEF AtLeast
  <2>1. elias_fano_lo_width(u, ones) = 1
    BY <1>1, <1>2
  <2>2. QED
    BY <2>1
<1>3. CASE ~ (ones = 0 \/ ones > u \/ ~ AtLeast(2))
  <2> DEFINE sq == ones * ones
             us == u * u
  <2>1. ones \in Nat /\ ones >= 1 /\ ones <= u /\ AtLeast(2)
    BY <1>3
  <2>2. sq \in Nat /\ sq >= 1 /\ us \in Nat
    BY <2>1
  <2>3. ASSUME NEW p \in Nat \ {0}
        PROVE  480 * u * u >= 1000 * p * ones * ones => us >= 2 * p
    <3> DEFINE e == 480
               t == 1000
               ps == p * sq
    <3>1. e \in Nat /\ t \in Nat /\ e > 0 /\ 2 * e <= t
      OBVIOUS
    <3> HIDE DEF e, t
    <3>2. e * u * u = e * us /\ t * p * ones * ones = t * ps
      BY <2>1, <3>1
    <3>3. ps \in Nat /\ ps >= p
      BY <2>2
    <3> HIDE DEF sq, us, ps
    <3>4. t * ps >= (2 * e) * ps /\ (2 * e) * ps = e * (2 * ps)
      BY <3>1, <3>3
    <3>5. ASSUME e * us >= t * ps PROVE us >= 2 * p
      <4>1. e * us >= e * (2 * ps) /\ 2 * ps \in Nat
        BY <2>2, <3>1, <3>3, <3>4, <3>5
      <4>2. us >= 2 * ps
        <5> DEFINE z == 2 * ps
        <5>1. z \in Nat /\ e * us >= e * z
          BY <4>1
        <5> HIDE DEF z
        <5>2. us >= z
          BY <2>2, <3>1, <5>1
        <5>3. QED
          BY <5>2 DEF z
      <4>3. QED
        BY <2>2, <3>3, <4>2
    <3>6. QED
      BY <3>2, <3>5 DEF e, t
  <2>4. u >= 2
    <3> SUFFICES ASSUME u = 1 PROVE FALSE
      BY <2>1
    <3>1. 2 * 2 - 1 \in 0 .. 2 * u + 1
      OBVIOUS
    <3>2. 2^(2 * 2 - 1) \in Nat \ {0}
      BY <3>1 DEF PowersTo
    <3> DEFINE p == 2^(2 * 2 - 1)
    <3>3. p \in Nat \ {0} /\ 480 * u * u >= 1000 * p * ones * ones
      BY <2>1, <3>2
    <3> HIDE DEF p
    <3>4. us >= 2 * p /\ us = 1
      BY <2>3, <3>3
    <3>5. QED
      BY <3>3, <3>4
  <2>5. ~ AtLeast(u + 1)
    <3> SUFFICES ASSUME AtLeast(u + 1) PROVE FALSE
      OBVIOUS
    <3> DEFINE p == 2^(2 * (u + 1) - 1)
    <3>1. 2 * (u + 1) - 1 = 2 * u + 1 /\ 2 * u + 1 \in 0 .. 2 * u + 1 /\ 2 * u + 1 \in Nat
      OBVIOUS
    <3>2. 2^(2 * u + 1) \in Nat \ {0} /\ 2^(2 * u + 1) > us
      BY <3>1, SquareBelow DEF PowersTo
    <3>3. p = 2^(2 * u + 1)
      BY <3>1
    <3>4. p \in Nat \ {0} /\ p > us /\ 480 * u * u >= 1000 * p * ones * ones
      BY <3>2, <3>3
    <3> HIDE DEF p, us
    <3>5. us >= 2 * p
      BY <2>3, <3>4
    <3>6. QED
      BY <2>2, <3>4, <3>5
  <2> HIDE DEF AtLeast
  <2>6. 2 \in T /\ T \in SUBSET Nat /\ \A w \in T : w <= u
    BY <2>1, <2>4
  <2>7. PICK g \in T : \A w \in T : w <= g
    <3> HIDE DEF T
    <3>1. QED
      BY <2>6, GreatestOf
  <2>8. g \in 2 .. u /\ AtLeast(g)
    OBVIOUS
  <2>9. ~ AtLeast(g + 1)
    <3>1. CASE g = u
      BY <2>5, <3>1
    <3>2. CASE g # u
      <4>1. g + 1 \in 2 .. u /\ ~ (g + 1 <= g)
        BY <2>8, <3>2
      <4>2. QED
        BY <2>7, <4>1
    <3>3. QED
      BY <3>1, <3>2
  <2>10. \E w \in 2 .. u : Is(w)
    BY <2>8, <2>9
  <2>11. c \in 2 .. u
    <3> HIDE DEF Is
    <3>1. QED
      BY <2>10
  <2>12. elias_fano_lo_width(u, ones) = c
    BY <1>1, <1>3
  <2> HIDE DEF c
  <2>13. QED
    BY <2>11, <2>12
<1>4. QED
  BY <1>2, <1>3

-----------------------------------------------------------------------------
(* EliasFanoM. *)

\* an EliasFanoM, whose powers of two are known
EFRecord(ef) ==
    /\ size(ef) \in Nat /\ 2^ef.width \in Nat \ {0}
    /\ ef \in [width : Nat, L : [0 .. size(ef) - 1 -> Nat], H : SUBSET Nat,
               H_size : Nat, count : Nat, maxValue : Nat]

\* the one bits for the high parts, behind o other bits
Bits(vs, p, o) == [k \in 0 .. Len(vs) - 1 |-> o + (vs[k + 1] \div p) + k]

\* the one bits of values in order are listed in order
LEMMA BitsRising ==
    ASSUME NEW vs \in Seq(Nat), NEW top, Ordered(vs, top), NEW p \in Nat \ {0},
           NEW o \in Nat
    PROVE  Rising(Bits(vs, p, o), Len(vs))
<1> DEFINE n == Len(vs)
           f == Bits(vs, p, o)
           Q(k) == vs[k + 1] \div p
<1>1. n \in Nat /\ \A k \in 0 .. n - 1 : k + 1 \in 1 .. n
  OBVIOUS
<1>2. \A k \in 0 .. n - 1 : vs[k + 1] \in Nat /\ Q(k) \in Nat
  <2>1. \A k \in 0 .. n - 1 : vs[k + 1] \in Nat
    BY <1>1
  <2>2. QED
    BY <2>1, Division
<1>3. ASSUME NEW k \in 0 .. n - 1, NEW l \in 0 .. n - 1, k < l
      PROVE  Q(k) <= Q(l)
  <2>1. k + 1 \in 1 .. n /\ l + 1 \in 1 .. n /\ k + 1 <= l + 1
    BY <1>1, <1>3
  <2>2. vs[k + 1] <= vs[l + 1]
    BY <2>1 DEF Ordered
  <2>3. QED
    BY <1>2, <2>2, QuotientGrows
<1> HIDE DEF Q
<1>4. \A k \in 0 .. n - 1 : f[k] = o + Q(k) + k
  BY DEF Bits, Q
<1>5. f \in [0 .. n - 1 -> Nat]
  <2>1. f = [k \in 0 .. n - 1 |-> o + Q(k) + k]
    BY DEF Bits, Q
  <2>2. \A k \in 0 .. n - 1 : o + Q(k) + k \in Nat
    BY <1>1, <1>2
  <2> HIDE DEF f
  <2>3. QED
    BY <2>1, <2>2
<1>6. ASSUME NEW k \in 0 .. n - 1, NEW l \in 0 .. n - 1, k < l
      PROVE  f[k] < f[l]
  <2>1. Q(k) \in Nat /\ Q(l) \in Nat /\ Q(k) <= Q(l)
    BY <1>2, <1>3, <1>6
  <2>2. f[k] = o + Q(k) + k /\ f[l] = o + Q(l) + l
    BY <1>4
  <2> HIDE DEF f
  <2>3. QED
    BY SMTT(20), <1>1, <1>6, <2>1, <2>2
<1> HIDE DEF f
<1>7. QED
  BY <1>1, <1>5, <1>6 DEF Rising, f

\* the parts make the number
LEMMA PartsMake ==
    ASSUME NEW v \in Nat, NEW p \in Nat \ {0}, NEW o \in Nat, NEW k \in Nat
    PROVE  ((o + (v \div p) + k) - o - k) * p + (v % p) = v
<1> DEFINE q == v \div p
<1>1. q \in Nat /\ v % p \in Nat /\ v = q * p + (v % p)
  BY Division
<1> HIDE DEF q
<1>2. (o + q + k) - o - k = q
  BY <1>1
<1>3. QED
  BY <1>1, <1>2 DEF q

\* what a query needs of the invariant
LEMMA CodesBits ==
    ASSUME NEW ef, EFRecord(ef), NEW vs \in Seq(Nat), NEW top, Ordered(vs, top),
           Codes(ef, vs), NEW p, p = 2^ef.width
    PROVE  /\ p \in Nat \ {0} /\ ef.count = Len(vs) /\ Len(vs) \in Nat
           /\ ef.H = OneBits(Bits(vs, p, 0), Len(vs))
           /\ Rising(Bits(vs, p, 0), Len(vs))
           /\ \A k \in 0 .. Len(vs) - 1 :
                 /\ ef.L[k] = vs[k + 1] % p /\ vs[k + 1] \in Nat
                 /\ Bits(vs, p, 0)[k] = (vs[k + 1] \div p) + k
<1>1. p \in Nat \ {0} /\ ef.count = Len(vs) /\ Len(vs) \in Nat
  BY DEF EFRecord, Codes
<1>2. Rising(Bits(vs, p, 0), Len(vs))
  BY <1>1, BitsRising
<1>3. \A k \in 0 .. Len(vs) - 1 :
          ef.L[k] = vs[k + 1] % p /\ vs[k + 1] \in Nat /\ vs[k + 1] \div p \in Nat
  <2>1. \A k \in 0 .. Len(vs) - 1 : k + 1 \in 1 .. Len(vs)
    BY <1>1
  <2>2. \A k \in 0 .. Len(vs) - 1 : vs[k + 1] \in Nat
    BY <2>1
  <2>3. \A k \in 0 .. Len(vs) - 1 : vs[k + 1] \div p \in Nat
    BY <1>1, <2>2, Division
  <2>4. \A k \in 0 .. Len(vs) - 1 : ef.L[k] = vs[k + 1] % p
    BY DEF Codes
  <2>5. QED
    BY <2>2, <2>3, <2>4
<1>4. ASSUME NEW k \in 0 .. Len(vs) - 1
      PROVE  Bits(vs, p, 0)[k] = (vs[k + 1] \div p) + k
  <2> DEFINE q == vs[k + 1] \div p
  <2>1. Bits(vs, p, 0)[k] = 0 + q + k
    BY DEF Bits
  <2>2. q \in Nat
    BY <1>3
  <2> HIDE DEF q
  <2>3. Bits(vs, p, 0)[k] = q + k
    BY <2>1, <2>2
  <2>4. QED
    BY <2>3 DEF q
<1>5. ef.H = OneBits(Bits(vs, p, 0), Len(vs))
  <2>1. ef.H = {vs[k + 1] \div p + k : k \in 0 .. Len(vs) - 1}
    BY DEF Codes
  <2>2. QED
    BY <1>4, <2>1 DEF OneBits
<1>6. QED
  BY <1>1, <1>2, <1>3, <1>4, <1>5

\* pushing a value codes it too
LEMMA PushBack ==
    ASSUME NEW ef, EFRecord(ef), NEW vs \in Seq(Nat), Codes(ef, vs),
           Len(vs) < size(ef), NEW x \in Nat, NEW r, r = push_back(ef, x)
    PROVE  /\ EFRecord(r) /\ Codes(r, Append(vs, x))
           /\ r.maxValue = ef.maxValue /\ size(r) = size(ef)
<1> DEFINE p == 2^ef.width
           n == Len(vs)
           ws == Append(vs, x)
           room == size(ef)
<1>1. /\ p \in Nat \ {0} /\ n \in Nat /\ room \in Nat /\ n < room /\ ef.count = n
      /\ ef.L \in [0 .. room - 1 -> Nat] /\ ef.H \in SUBSET Nat
      /\ ef.H = {vs[k + 1] \div p + k : k \in 0 .. n - 1}
      /\ \A k \in 0 .. n - 1 : ef.L[k] = vs[k + 1] % p
      /\ ef.H_size = ef.maxValue \div p + room + 1
  BY DEF EFRecord, Codes
<1>2. /\ ws \in Seq(Nat) /\ Len(ws) = n + 1 /\ ws[n + 1] = x
      /\ \A k \in 1 .. n : ws[k] = vs[k]
  BY Appended
<1>3. ef \in [width : Nat, L : [0 .. room - 1 -> Nat], H : SUBSET Nat,
              H_size : Nat, count : Nat, maxValue : Nat]
  BY DEF EFRecord
<1>4. x % p \in Nat /\ x \div p \in Nat
  <2>1. p \in Nat \ {0}
    BY <1>1
  <2> HIDE DEF p
  <2>2. x \div p \in Nat /\ x % p \in 0 .. p - 1
    BY <2>1, Division
  <2>3. QED
    BY <2>1, <2>2
<1> DEFINE low == x % p
           bit == (x \div p) + n
           L == [ef.L EXCEPT ![n] = low]
           H == ef.H \cup {bit}
           m == n + 1
<1>5. r = [ef EXCEPT !.L = L, !.H = H, !.count = m]
  BY <1>1, <1>3 DEF push_back
<1>6. L \in [0 .. room - 1 -> Nat] /\ H \in SUBSET Nat /\ m \in Nat
  <2>1. n \in 0 .. room - 1 /\ bit \in Nat
    BY <1>1, <1>4
  <2> HIDE DEF low, bit
  <2>2. low \in Nat
    BY <1>4 DEF low
  <2>3. QED
    BY SMTT(20), <1>1, <2>1, <2>2
<1>7. /\ L[n] = low /\ \A k \in 0 .. n - 1 : L[k] = ef.L[k]
  <2>1. n \in 0 .. room - 1 /\ \A k \in 0 .. n - 1 : k \in 0 .. room - 1 /\ k # n
    BY <1>1
  <2> HIDE DEF low
  <2>2. QED
    BY <1>1, <2>1
<1> HIDE DEF L, H, m, room
<1>8. /\ r \in [width : Nat, L : [0 .. room - 1 -> Nat], H : SUBSET Nat,
                H_size : Nat, count : Nat, maxValue : Nat]
      /\ r.width = ef.width /\ r.L = L /\ r.H = H /\ r.H_size = ef.H_size
      /\ r.count = m /\ r.maxValue = ef.maxValue
  BY <1>3, <1>5, <1>6
<1>9. size(r) = room
  <2>1. DOMAIN r.L = 0 .. room - 1 /\ DOMAIN ef.L = 0 .. room - 1
    BY <1>1, <1>6, <1>8
  <2>2. QED
    BY <2>1 DEF size, room
<1>10. EFRecord(r)
  BY <1>1, <1>8, <1>9 DEF EFRecord
<1>11. Codes(r, ws)
  <2>1. r.count = Len(ws) /\ Len(ws) <= size(r) /\ r.H_size = r.maxValue \div p + size(r) + 1
    BY <1>1, <1>2, <1>8, <1>9 DEF m
  <2>2. \A k \in 0 .. Len(ws) - 1 : k \in 0 .. n - 1 \/ k = n
    BY <1>1, <1>2
  <2>3. \A k \in 0 .. n - 1 : ws[k + 1] = vs[k + 1]
    <3>1. \A k \in 0 .. n - 1 : k + 1 \in 1 .. n
      BY <1>1
    <3>2. QED
      BY <1>2, <3>1
  <2>4. \A k \in 0 .. Len(ws) - 1 : r.L[k] = ws[k + 1] % p
    <3> SUFFICES ASSUME NEW k \in 0 .. Len(ws) - 1 PROVE r.L[k] = ws[k + 1] % p
      OBVIOUS
    <3>1. CASE k \in 0 .. n - 1
      <4>1. ws[k + 1] = vs[k + 1] /\ L[k] = ef.L[k] /\ ef.L[k] = vs[k + 1] % p
        BY <1>1, <1>7, <2>3, <3>1
      <4>2. QED
        BY <1>8, <4>1
    <3>2. CASE k = n
      BY <1>2, <1>7, <1>8, <3>2
    <3>3. QED
      BY <2>2, <3>1, <3>2
  <2>5. r.H = {ws[k + 1] \div p + k : k \in 0 .. Len(ws) - 1}
    <3> DEFINE B(k) == ws[k + 1] \div p + k
               C(k) == vs[k + 1] \div p + k
    <3>1. \A k \in 0 .. n - 1 : B(k) = C(k)
      BY <2>3
    <3>5. ef.H = {C(k) : k \in 0 .. n - 1}
      BY <1>1
    <3>3. bit = B(n)
      BY <1>2
    <3> HIDE DEF B, C, bit
    <3>2. ef.H = {B(k) : k \in 0 .. n - 1}
      BY <3>1, <3>5
    <3>4. H = {B(k) : k \in 0 .. Len(ws) - 1}
      <4>1. \A k : k \in 0 .. Len(ws) - 1 <=> k \in 0 .. n - 1 \/ k = n
        BY <1>1, <1>2
      <4>2. QED
        BY <3>2, <3>3, <4>1 DEF H
    <3>6. QED
      BY <1>8, <3>4 DEF B
  <2>6. p = 2^r.width
    BY <1>8
  <2> HIDE DEF p, ws
  <2>7. QED
    BY <2>1, <2>4, <2>5, <2>6 DEF Codes
<1>12. QED
  BY <1>8, <1>9, <1>10, <1>11 DEF room

\* a new one
LEMMA NewEliasFano ==
    ASSUME NEW num \in Nat, NEW maxValue \in Nat, PowersTo(2 * maxValue + 1),
           NEW r, r = EliasFanoM(num, maxValue)
    PROVE  /\ EFRecord(r) /\ Codes(r, <<>>) /\ size(r) = num /\ r.maxValue = maxValue
<1> DEFINE w == elias_fano_lo_width(maxValue, num)
           p == 2^w
           L == [k \in 0 .. num - 1 |-> 0]
           Hs == maxValue \div p + num + 1
<1>1. w \in Nat /\ p \in Nat \ {0}
  <2>1. w \in Nat \ {0} /\ w <= 2 * maxValue + 1
    BY WidthIs
  <2> HIDE DEF w
  <2>2. w \in 0 .. 2 * maxValue + 1
    BY <2>1
  <2>3. QED
    BY <2>1, <2>2 DEF PowersTo
<1>2. Hs \in Nat
  <2> HIDE DEF p
  <2>1. maxValue \div p \in Nat
    BY <1>1, Division
  <2>2. QED
    BY <2>1
<1>3. L \in [0 .. num - 1 -> Nat]
  OBVIOUS
<1>4. r = [width |-> w, L |-> L, H |-> {}, H_size |-> Hs, count |-> 0,
           maxValue |-> maxValue]
  BY DEF EliasFanoM
<1> HIDE DEF w, L, Hs
<1>5. /\ r \in [width : Nat, L : [0 .. num - 1 -> Nat], H : SUBSET Nat,
                H_size : Nat, count : Nat, maxValue : Nat]
      /\ r.width = w /\ r.L = L /\ r.H = {} /\ r.H_size = Hs /\ r.count = 0
      /\ r.maxValue = maxValue
  BY <1>1, <1>2, <1>3, <1>4
<1>6. size(r) = num
  <2>1. DOMAIN r.L = 0 .. num - 1 /\ Cardinality(0 .. num - 1) = num
    BY <1>3, <1>5, FS_Interval
  <2>2. QED
    BY <2>1 DEF size
<1>7. EFRecord(r)
  BY <1>1, <1>5, <1>6 DEF EFRecord
<1>8. Codes(r, <<>>)
  <2> DEFINE e == <<>>
  <2>1. Len(e) = 0
    BY EmptySequence
  <2> HIDE DEF e
  <2>2. \A k \in 0 .. Len(e) - 1 : FALSE
    BY <2>1
  <2>3. r.H = {e[k + 1] \div 2^r.width + k : k \in 0 .. Len(e) - 1}
    BY <1>5, <2>2
  <2>4. r.count = Len(e) /\ Len(e) <= size(r)
    BY <1>5, <1>6, <2>1
  <2>5. r.H_size = r.maxValue \div 2^r.width + size(r) + 1
    BY <1>5, <1>6 DEF Hs
  <2>6. Codes(r, e)
    BY <2>2, <2>3, <2>4, <2>5 DEF Codes
  <2>7. QED
    BY <2>6 DEF e
<1>9. QED
  BY <1>5, <1>6, <1>7, <1>8

\* the pointer to the i-th element, and the element
LEMMA AtIs ==
    ASSUME NEW ef, EFRecord(ef), NEW vs \in Seq(Nat), NEW top, Ordered(vs, top),
           Codes(ef, vs), NEW p, p = 2^ef.width, NEW i \in 0 .. Len(vs) - 1
    PROVE  /\ at(ef, i) = Pointer(Bits(vs, p, 0)[i], i)
           /\ Element(ef, at(ef, i)) = vs[i + 1]
<1> DEFINE f == Bits(vs, p, 0)
<1>1. /\ p \in Nat \ {0} /\ Len(vs) \in Nat
      /\ ef.H = OneBits(f, Len(vs)) /\ Rising(f, Len(vs))
      /\ ef.L[i] = vs[i + 1] % p /\ vs[i + 1] \in Nat
      /\ f[i] = (vs[i + 1] \div p) + i
  <2>1. /\ p \in Nat \ {0} /\ ef.count = Len(vs) /\ Len(vs) \in Nat
        /\ ef.H = OneBits(f, Len(vs)) /\ Rising(f, Len(vs))
        /\ \A k \in 0 .. Len(vs) - 1 :
              /\ ef.L[k] = vs[k + 1] % p /\ vs[k + 1] \in Nat
              /\ f[k] = (vs[k + 1] \div p) + k
    BY CodesBits
  <2> HIDE DEF f
  <2>2. QED
    BY <2>1
<1> HIDE DEF f
<1>2. at(ef, i) = Pointer(f[i], i)
  BY <1>1, BitsSelect DEF at
<1>3. Element(ef, at(ef, i)) = (f[i] - i) * p + ef.L[i]
  BY <1>2 DEF Element, Pointer
<1>4. (f[i] - i) * p + ef.L[i] = vs[i + 1]
  <2> DEFINE v == vs[i + 1]
             q == v \div p
  <2>1. v \in Nat /\ f[i] = q + i /\ ef.L[i] = v % p /\ i \in Nat
    BY <1>1
  <2> HIDE DEF v
  <2>5. v \in Nat /\ p \in Nat \ {0}
    BY <1>1, <2>1
  <2>2. q \in Nat /\ v % p \in 0 .. p - 1 /\ v = q * p + (v % p)
    BY <2>5, Division
  <2> HIDE DEF q
  <2>3. f[i] - i = q
    BY <2>1, <2>2
  <2> DEFINE r == v % p
  <2> HIDE DEF r
  <2>4. QED
    BY <2>1, <2>2, <2>3 DEF v, r
<1>5. QED
  BY <1>2, <1>3, <1>4 DEF f

(***************************************************************************)
(* The iterators of an EliasFanoM move between neighbours.                 *)
(***************************************************************************)
LEMMA EliasFanoIterates ==
    ASSUME NEW ef, EFRecord(ef), NEW vs \in Seq(Nat), NEW top, Ordered(vs, top),
           Codes(ef, vs), NEW i \in 0 .. Len(vs) - 1
    PROVE  /\ i = 0 => at(ef, i) = begin(ef)
           /\ i + 1 \in 0 .. Len(vs) - 1 => Increment(ef, at(ef, i)) = at(ef, i + 1)
           /\ Decrement(ef, Increment(ef, at(ef, i))) = at(ef, i)
<1> DEFINE p == 2^ef.width
           n == Len(vs)
           f == Bits(vs, p, 0)
<1>1. n \in Nat /\ ef.count = n /\ ef.H = OneBits(f, n) /\ Rising(f, n)
  BY CodesBits
<1>2. \A k \in 0 .. n - 1 : at(ef, k) = Pointer(f[k], k)
  BY AtIs
<1> HIDE DEF p, f, n
<1>3. at(ef, i) = Pointer(f[i], i) /\ i \in Nat /\ i \in 0 .. n - 1
  BY <1>1, <1>2 DEF n
<1>4. i = 0 => at(ef, i) = begin(ef)
  <2> SUFFICES ASSUME i = 0 PROVE at(ef, i) = begin(ef)
    OBVIOUS
  <2>1. n # 0
    BY <1>1, <1>3
  <2>2. Lowest(ef.H) = f[0]
    BY <1>1, <2>1, BitsLowest
  <2>3. QED
    BY <1>3, <2>2 DEF begin
<1>5. CASE i + 1 \in 0 .. n - 1
  <2>1. at(ef, i + 1) = Pointer(f[i + 1], i + 1)
    BY <1>2, <1>5
  <2>2. nextOne(ef.H, f[i]) = f[i + 1]
    BY <1>1, <1>3, <1>5, BitsNext
  <2>3. ~ (i >= n - 1) /\ ~ (i + 1 >= n) /\ (i + 1) - 1 = i
    BY <1>1, <1>3, <1>5
  <2>4. Increment(ef, at(ef, i)) = Pointer(f[i + 1], i + 1)
    BY <1>1, <1>3, <2>2, <2>3 DEF Increment, Pointer
  <2>5. prevOne(ef.H, f[i + 1]) = f[i]
    <3>1. f[i] < f[i + 1] /\ f[i + 1] \in Nat /\ f[i + 1] >= f[i + 1]
      <4>1. i < i + 1
        BY <1>3
      <4>2. f[i] \in Nat /\ f[i + 1] \in Nat /\ f[i] < f[i + 1]
        BY <1>3, <1>5, <1>1, <4>1 DEF Rising
      <4>3. QED
        BY <4>2
    <3>2. QED
      BY <1>1, <1>3, <3>1, BitsPrev
  <2>6. Decrement(ef, Pointer(f[i + 1], i + 1)) = Pointer(f[i], i)
    BY <1>1, <2>3, <2>5 DEF Decrement, Pointer
  <2>7. QED
    BY <1>3, <1>4, <2>1, <2>4, <2>6
<1>6. CASE ~ (i + 1 \in 0 .. n - 1)
  <2>1. i >= n - 1 /\ i + 1 >= n /\ (i + 1) - 1 = i
    BY <1>1, <1>3, <1>6
  <2>2. Increment(ef, at(ef, i)) = Pointer(f[i], i + 1)
    BY <1>1, <1>3, <2>1 DEF Increment, Pointer
  <2>3. Decrement(ef, Pointer(f[i], i + 1)) = Pointer(f[i], i)
    BY <1>1, <2>1 DEF Decrement, Pointer
  <2>4. QED
    BY <1>3, <1>4, <1>6, <2>2, <2>3 DEF n
<1>7. QED
  BY <1>5, <1>6

-----------------------------------------------------------------------------
(* SequentialEliasFano. *)

\* s codes vs: its bits are listed behind the place where the high part starts
SequentialCodes(s, vs) ==
    LET parts == 2^s.l
    IN  /\ parts \in Nat \ {0} /\ s.loEnd \in Nat
        /\ s.bits = OneBits(Bits(vs, parts, s.loEnd), Len(vs))
        /\ \A k \in 0 .. Len(vs) - 1 : s.lo[k] = vs[k + 1] % parts

\* write codes the values
LEMMA WriteIs ==
    ASSUME NEW offset \in Nat, NEW vs \in Seq(Nat), vs # <<>>,
           \A k \in 1 .. Len(vs) : vs[k] <= MaxValue
    PROVE  SequentialCodes(write(offset, vs), vs)
<1> DEFINE n == Len(vs)
           u == vs[n] + 1
           l == elias_fano_lo_width(u, n)
           p == 2^l
           f == Bits(vs, p, offset)
           lo == [k \in 0 .. n - 1 |-> vs[k + 1] % p]
           bits == {offset + vs[k] \div p + k - 1 : k \in 1 .. n}
           s == [l |-> l, loEnd |-> offset, n |-> n, lo |-> lo, bits |-> bits]
<1>1. write(offset, vs) = s
  BY DEF write
<1>2. n \in Nat \ {0} /\ vs[n] \in Nat /\ u \in Nat /\ u <= MaxValue + 1
  <2>1. n \in Nat \ {0}
    BY EmptySequence
  <2>2. vs[n] \in Nat /\ vs[n] <= MaxValue
    BY <2>1
  <2>3. QED
    BY <2>1, <2>2, BoundsAssumption
<1>3. p \in Nat \ {0}
  <2>1. PowersTo(2 * u + 1)
    <3> HIDE DEF u
    <3>1. MaxValue \in {MaxLength, MaxValue}
      OBVIOUS
    <3>2. QED
      BY <1>2, <3>1, PowersFor
  <2> HIDE DEF u, n
  <2>2. l \in Nat /\ l <= 2 * u + 1
    BY <1>2, <2>1, WidthIs
  <2>3. l \in 0 .. 2 * u + 1
    BY <1>2, <2>2
  <2>4. QED
    BY <2>1, <2>3 DEF PowersTo
<1>4. bits = OneBits(f, n)
  <2>1. \A k \in 0 .. n - 1 : f[k] = offset + (vs[k + 1] \div p) + k
    BY DEF Bits
  <2> HIDE DEF f, p
  <2>2. ASSUME NEW b \in bits PROVE b \in OneBits(f, n)
    <3>1. PICK k \in 1 .. n : b = offset + vs[k] \div p + k - 1
      OBVIOUS
    <3>2. vs[k] \div p \in Nat
      <4>1. vs[k] \in Nat
        OBVIOUS
      <4>2. QED
        BY <4>1, <1>3, Division
    <3>3. k - 1 \in 0 .. n - 1 /\ (k - 1) + 1 = k
      BY <1>2
    <3>4. f[k - 1] = b
      BY <2>1, <3>1, <3>2, <3>3
    <3>5. QED
      BY <3>3, <3>4 DEF OneBits
  <2>3. ASSUME NEW b \in OneBits(f, n) PROVE b \in bits
    <3>1. PICK k \in 0 .. n - 1 : b = f[k]
      BY DEF OneBits
    <3>2. k + 1 \in 1 .. n
      BY <1>2
    <3>3. vs[k + 1] \div p \in Nat
      <4>1. vs[k + 1] \in Nat
        BY <3>2
      <4>2. QED
        BY <4>1, <1>3, Division
    <3>4. b = offset + vs[k + 1] \div p + (k + 1) - 1
      BY <2>1, <3>1, <3>3, <1>2
    <3>5. QED
      BY <3>2, <3>4
  <2>4. QED
    BY <2>2, <2>3
<1> HIDE DEF l
<1>5. s.l = l /\ s.loEnd = offset /\ s.bits = bits /\ s.lo = lo
  OBVIOUS
<1>6. \A k \in 0 .. n - 1 : lo[k] = vs[k + 1] % p
  OBVIOUS
<1> HIDE DEF s, bits, lo, f
<1>7. SequentialCodes(s, vs)
  BY <1>3, <1>4, <1>5, <1>6 DEF SequentialCodes, f
<1>8. QED
  BY <1>1, <1>7

(***************************************************************************)
(* The iterator scans from the first one bit: if that is the first bit of  *)
(* the high part, it stays there.                                          *)
(***************************************************************************)
LEMMA SeekIs ==
    ASSUME NEW s, NEW vs \in Seq(Nat), NEW top, Ordered(vs, top), vs # <<>>,
           SequentialCodes(s, vs), NEW p, p = 2^s.l, vs[1] \div p = 0,
           NEW i \in 0 .. Len(vs) - 1
    PROVE  Seek(s, i) = [rank |-> i, hiPos |-> Bits(vs, p, s.loEnd)[i]]
<1> DEFINE n == Len(vs)
           f == Bits(vs, p, s.loEnd)
           e == [k \in 0 .. i |-> [rank |-> k, hiPos |-> f[k]]]
           body(g) == [k \in 0 .. i |-> IF k = 0 THEN Reset(s) ELSE Advance(s, g[k - 1])]
           c == CHOOSE g : g = body(g)
<1>1. p \in Nat \ {0} /\ s.loEnd \in Nat /\ s.bits = OneBits(f, n)
  BY DEF SequentialCodes
<1>2. Rising(f, n)
  BY <1>1, BitsRising
<1>3. n \in Nat \ {0} /\ i \in Nat
  BY EmptySequence
<1>4. f[0] = s.loEnd
  <2>1. 0 \in 0 .. n - 1 /\ 0 + 1 = 1
    BY <1>3
  <2>2. f[0] = s.loEnd + 0 + 0
    BY <2>1 DEF Bits
  <2>3. QED
    BY <1>1, <2>2
<1>5. Seek(s, i) = c[i]
  BY DEF Seek
<1> HIDE DEF f, n
<1>6. e[0] = Reset(s)
  <2>1. 0 \in 0 .. n - 1 /\ 0 \in 0 .. i
    BY <1>3
  <2>2. s.loEnd \in s.bits
    BY <1>1, <1>4, <2>1 DEF OneBits
  <2>3. QED
    BY <1>4, <2>1, <2>2 DEF Reset
<1>7. ASSUME NEW k \in 1 .. i
      PROVE  e[k] = Advance(s, e[k - 1])
  <2>1. k - 1 \in 0 .. n - 1 /\ (k - 1) + 1 = k /\ k \in 0 .. n - 1
        /\ k - 1 \in 0 .. i /\ k \in 0 .. i
    BY <1>3 DEF n
  <2>2. nextOne(s.bits, f[k - 1]) = f[k]
    BY <1>1, <1>2, <2>1, BitsNext
  <2>3. e[k - 1] = [rank |-> k - 1, hiPos |-> f[k - 1]] /\ e[k] = [rank |-> k, hiPos |-> f[k]]
    BY <2>1
  <2>4. QED
    BY <2>1, <2>2, <2>3 DEF Advance
<1>8. e = body(e)
  <2>1. ASSUME NEW k \in 0 .. i
        PROVE  e[k] = IF k = 0 THEN Reset(s) ELSE Advance(s, e[k - 1])
    <3>1. k # 0 => k \in 1 .. i
      BY <1>3
    <3> HIDE DEF e
    <3>2. QED
      BY <1>6, <1>7, <3>1
  <2>2. QED
    BY <2>1
<1>9. c = body(c)
  <2> HIDE DEF e
  <2>1. \E g : g = body(g)
    BY <1>8
  <2>2. QED
    BY <2>1
<1> HIDE DEF e, c
<1>10. \A k \in 0 .. i : c[k] = IF k = 0 THEN Reset(s) ELSE Advance(s, c[k - 1])
  BY <1>9
<1>11. c[i] = e[i]
  <2> DEFINE T == {k \in Nat : k <= i => c[k] = e[k]}
  <2>1. 0 \in T
    BY <1>3, <1>6, <1>10
  <2>2. ASSUME NEW k \in Nat, k \in T PROVE k + 1 \in T
    <3> SUFFICES ASSUME k + 1 <= i PROVE c[k + 1] = e[k + 1]
      OBVIOUS
    <3>1. k <= i /\ k + 1 \in 1 .. i /\ k + 1 \in 0 .. i /\ k + 1 # 0 /\ (k + 1) - 1 = k
      BY <1>3
    <3>2. c[k] = e[k]
      BY <2>2, <3>1
    <3>3. c[k + 1] = Advance(s, c[k])
      BY <1>10, <3>1
    <3>4. e[k + 1] = Advance(s, e[k])
      BY <1>7, <3>1
    <3>5. QED
      BY <3>2, <3>3, <3>4
  <2>3. Nat \subseteq T
    <3> HIDE DEF T
    <3> QED
      BY <2>1, <2>2, AllNaturals
  <2>4. i \in T
    BY <1>3, <2>3
  <2>5. QED
    BY <1>3, <2>4
<1>12. e[i] = [rank |-> i, hiPos |-> f[i]]
  <2>1. i \in 0 .. i
    BY <1>3
  <2>2. QED
    BY <2>1 DEF e
<1>13. QED
  BY <1>5, <1>11, <1>12 DEF f

(***************************************************************************)
(* It reads the values and steps back to the one before.                   *)
(***************************************************************************)
LEMMA SequentialIterates ==
    ASSUME NEW s, NEW vs \in Seq(Nat), NEW top, Ordered(vs, top), vs # <<>>,
           SequentialCodes(s, vs), vs[1] \div 2^s.l = 0,
           NEW i \in 0 .. Len(vs) - 1
    PROVE  /\ Read(s, Seek(s, i)) = vs[i + 1]
           /\ i > 0 => Retreat(s, Seek(s, i)) = Seek(s, i - 1)
<1> DEFINE p == 2^s.l
           n == Len(vs)
           o == s.loEnd
           f == Bits(vs, p, o)
<1>1. /\ p \in Nat \ {0} /\ o \in Nat /\ s.bits = OneBits(f, n) /\ n \in Nat
      /\ s.lo[i] = vs[i + 1] % p /\ i \in Nat /\ i \in 0 .. n - 1
      /\ vs[i + 1] \in Nat
  BY DEF SequentialCodes
<1>2. Rising(f, n)
  BY <1>1, BitsRising
<1>3. \A k \in 0 .. n - 1 : Seek(s, k) = [rank |-> k, hiPos |-> f[k]]
  BY SeekIs
<1>4. f[i] = o + (vs[i + 1] \div p) + i
  BY <1>1 DEF Bits
<1> HIDE DEF f, n
<1>5. Read(s, Seek(s, i)) = vs[i + 1]
  <2>1. Read(s, Seek(s, i)) = (f[i] - o - i) * p + s.lo[i]
    BY <1>1, <1>3 DEF Read
  <2> DEFINE v == vs[i + 1]
  <2>2. v \in Nat /\ f[i] = o + (v \div p) + i /\ s.lo[i] = v % p
    BY <1>1, <1>4
  <2> HIDE DEF v, o, p
  <2>3. ((o + (v \div p) + i) - o - i) * p + (v % p) = v
    BY <1>1, <2>2, PartsMake
  <2>4. QED
    BY <2>1, <2>2, <2>3 DEF v
<1>6. ASSUME i > 0
      PROVE  Retreat(s, Seek(s, i)) = Seek(s, i - 1)
  <2>1. i - 1 \in 0 .. n - 1 /\ (i - 1) + 1 = i /\ i - 1 < i
    BY <1>1, <1>6
  <2>2. f[i - 1] \in Nat /\ f[i] \in Nat /\ f[i - 1] < f[i]
    BY <1>1, <1>2, <2>1 DEF Rising
  <2>3. prevOne(s.bits, f[i]) = f[i - 1]
    <3> DEFINE j == i - 1
               b == f[i]
    <3>1. j \in 0 .. n - 1 /\ b \in Nat /\ f[j] < b /\ f[j + 1] >= b
      BY <2>1, <2>2
    <3> HIDE DEF j, b
    <3>2. prevOne(OneBits(f, n), b) = f[j]
      BY <1>2, <3>1, BitsPrev
    <3>3. QED
      BY <1>1, <3>2 DEF j, b
  <2>4. QED
    BY SMTT(20), <1>1, <1>3, <2>1, <2>3 DEF Retreat
<1>7. QED
  BY <1>5, <1>6

-----------------------------------------------------------------------------
(* The binary search of predecessorPosition. *)

\* one step of the search, which goes on with g
SearchStep(L, low, g, lo, bc) ==
    LET step == bc \div 2
    IN  IF bc = 0 THEN lo
        ELSE IF L[lo + step] <= low THEN g[<<lo + step + 1, bc - step - 1>>]
        ELSE g[<<lo, step>>]

\* g searches all buckets of at most k elements
Searches(L, low, g, k) ==
    g = [b \in Nat \X (0 .. k) |-> SearchStep(L, low, g, b[1], b[2])]

\* each step goes on with a smaller bucket
LEMMA SearchShrinks ==
    ASSUME NEW bc \in Nat \ {0}, NEW lo \in Nat, NEW step, step = bc \div 2
    PROVE  /\ step \in Nat /\ step < bc /\ bc - step - 1 \in Nat /\ bc - step - 1 < bc
           /\ lo + step + 1 \in Nat /\ lo + step \in Nat
           /\ (lo + step + 1) + (bc - step - 1) = lo + bc
  OBVIOUS

\* the search is defined for buckets of any size
LEMMA SearchDefined ==
    ASSUME NEW L, NEW low, NEW number \in Nat
    PROVE  \E g : Searches(L, low, g, number)
<1> DEFINE T == {k \in Nat : \E g : Searches(L, low, g, k)}
<1>1. 0 \in T
  <2> DEFINE g == [b \in Nat \X (0 .. 0) |-> b[1]]
  <2>1. ASSUME NEW lo \in Nat, NEW bc \in 0 .. 0 PROVE SearchStep(L, low, g, lo, bc) = lo
    BY DEF SearchStep
  <2>2. Searches(L, low, g, 0)
    <3> DEFINE R(lo, bc) == SearchStep(L, low, g, lo, bc)
    <3>1. \A lo \in Nat, bc \in 0 .. 0 : R(lo, bc) = lo
      BY <2>1
    <3> HIDE DEF R
    <3>2. g = [b \in Nat \X (0 .. 0) |-> R(b[1], b[2])]
      BY <3>1
    <3>3. QED
      BY <3>2 DEF R, Searches
  <2> HIDE DEF g
  <2>3. QED
    BY <2>2
<1>2. ASSUME NEW k \in Nat, k \in T PROVE k + 1 \in T
  <2>1. PICK g : Searches(L, low, g, k)
    BY <1>2
  <2> DEFINE R(lo, bc) == SearchStep(L, low, g, lo, bc)
             h == [b \in Nat \X (0 .. k + 1) |-> R(b[1], b[2])]
             S(lo, bc) == SearchStep(L, low, h, lo, bc)
  <2>2. \A lo \in Nat, bc \in 0 .. k : g[<<lo, bc>>] = R(lo, bc)
    <3>1. g = [b \in Nat \X (0 .. k) |-> R(b[1], b[2])]
      BY <2>1 DEF Searches
    <3> HIDE DEF R
    <3>2. QED
      BY <3>1
  <2>3. \A lo \in Nat, bc \in 0 .. k : h[<<lo, bc>>] = g[<<lo, bc>>]
    <3> HIDE DEF R
    <3>1. \A lo \in Nat, bc \in 0 .. k + 1 : h[<<lo, bc>>] = R(lo, bc)
      OBVIOUS
    <3>2. \A bc \in 0 .. k : bc \in 0 .. k + 1
      OBVIOUS
    <3>3. QED
      BY <2>2, <3>1, <3>2
  <2> HIDE DEF h
  <2>4. ASSUME NEW lo \in Nat, NEW bc \in 0 .. k + 1 PROVE R(lo, bc) = S(lo, bc)
    <3>1. CASE bc = 0
      BY <3>1 DEF SearchStep
    <3>2. CASE bc # 0
      <4> DEFINE step == bc \div 2
      <4>1. bc \in Nat \ {0} /\ bc <= k + 1
        BY <3>2
      <4>2. /\ step \in Nat /\ step < bc /\ bc - step - 1 \in Nat /\ bc - step - 1 < bc
            /\ lo + step + 1 \in Nat
        BY <4>1, SearchShrinks
      <4> HIDE DEF step
      <4>3. step \in 0 .. k /\ bc - step - 1 \in 0 .. k
        BY <4>1, <4>2
      <4>4. h[<<lo, step>>] = g[<<lo, step>>]
            /\ h[<<lo + step + 1, bc - step - 1>>] = g[<<lo + step + 1, bc - step - 1>>]
        BY <2>3, <4>2, <4>3
      <4>5. QED
        BY <3>2, <4>4 DEF SearchStep, step
    <3>3. QED
      BY <3>1, <3>2
  <2>5. Searches(L, low, h, k + 1)
    <3>1. h = [b \in Nat \X (0 .. k + 1) |-> R(b[1], b[2])]
      BY DEF h
    <3> HIDE DEF R, S
    <3>2. h = [b \in Nat \X (0 .. k + 1) |-> S(b[1], b[2])]
      BY <2>4, <3>1
    <3>3. QED
      BY <3>2 DEF S, Searches
  <2>6. QED
    BY <2>5
<1>3. number \in T
  <2> HIDE DEF T
  <2> QED
    BY <1>1, <1>2, AllNaturals
<1>4. QED
  BY <1>3

\* bc elements from lo are in order
Sorted(L, lo, bc) ==
    \A k, l \in lo .. lo + bc - 1 : L[k] \in Nat /\ L[l] \in Nat /\ (k <= l => L[k] <= L[l])

\* m is where those of them end that are not above low
Divides(L, low, lo, bc, m) ==
    /\ m \in lo .. lo + bc
    /\ \A k \in lo .. m - 1 : L[k] <= low
    /\ \A k \in m .. lo + bc - 1 : L[k] > low

(***************************************************************************)
(* The search finds the place behind the last element not above low.       *)
(***************************************************************************)
LEMMA SearchFinds ==
    ASSUME NEW ef, NEW first \in Nat, NEW number \in Nat, NEW low \in Nat,
           Sorted(ef.L, first, number)
    PROVE  Divides(ef.L, low, first, number, SearchBucket(ef, first, number, low))
<1> DEFINE L == ef.L
           s == CHOOSE g : Searches(L, low, g, number)
<1>1. SearchBucket(ef, first, number, low) = s[<<first, number>>]
  BY DEF SearchBucket, Searches, SearchStep
<1>2. Searches(L, low, s, number)
  <2> HIDE DEF L
  <2>1. QED
    BY SearchDefined
<1> HIDE DEF L, s
<1>3. \A lo \in Nat, bc \in 0 .. number : s[<<lo, bc>>] = SearchStep(L, low, s, lo, bc)
  <2> DEFINE R(lo, bc) == SearchStep(L, low, s, lo, bc)
  <2>1. s = [b \in Nat \X (0 .. number) |-> R(b[1], b[2])]
    BY <1>2 DEF Searches
  <2> HIDE DEF R
  <2>2. \A lo \in Nat, bc \in 0 .. number : s[<<lo, bc>>] = R(lo, bc)
    BY <2>1
  <2>3. QED
    BY <2>2 DEF R
<1> DEFINE Good(bc) == \A lo \in Nat : Sorted(L, lo, bc) => Divides(L, low, lo, bc, s[<<lo, bc>>])
           T == {k \in Nat : \A bc \in 0 .. k : bc <= number => Good(bc)}
<1>4. Good(0)
  <2> SUFFICES ASSUME NEW lo \in Nat PROVE Divides(L, low, lo, 0, s[<<lo, 0>>])
    OBVIOUS
  <2>1. s[<<lo, 0>>] = lo
    <3>1. 0 \in 0 .. number
      OBVIOUS
    <3>2. s[<<lo, 0>>] = SearchStep(L, low, s, lo, 0)
      BY <1>3, <3>1
    <3>3. QED
      BY <3>2 DEF SearchStep
  <2>2. QED
    BY <2>1 DEF Divides
<1>5. ASSUME NEW bc \in Nat \ {0}, bc <= number,
             \A c \in 0 .. bc - 1 : Good(c)
      PROVE  Good(bc)
  <2> SUFFICES ASSUME NEW lo \in Nat, Sorted(L, lo, bc)
               PROVE  Divides(L, low, lo, bc, s[<<lo, bc>>])
    OBVIOUS
  <2> DEFINE step == bc \div 2
             mid == lo + step
             rest == bc - step - 1
  <2>1. /\ step \in Nat /\ step < bc /\ rest \in Nat /\ rest < bc
        /\ mid + 1 \in Nat /\ mid \in Nat /\ (mid + 1) + rest = lo + bc
    BY SearchShrinks
  <2>2. s[<<lo, bc>>] = IF L[mid] <= low THEN s[<<mid + 1, rest>>] ELSE s[<<lo, step>>]
    <3>1. bc \in 0 .. number /\ bc # 0
      BY <1>5
    <3>2. QED
      BY <1>3, <3>1 DEF SearchStep
  <2> HIDE DEF step, rest
  <2>3. /\ \A k, l \in lo .. lo + bc - 1 : L[k] \in Nat /\ (k <= l => L[k] <= L[l])
        /\ mid \in lo .. lo + bc - 1 /\ L[mid] \in Nat
        /\ step \in 0 .. bc - 1 /\ rest \in 0 .. bc - 1 /\ bc <= number
    <3>1. mid \in lo .. lo + bc - 1 /\ step \in 0 .. bc - 1 /\ rest \in 0 .. bc - 1
      BY <2>1
    <3>2. QED
      BY <3>1, <1>5 DEF Sorted
  <2>4. CASE L[mid] <= low
    <3> DEFINE m == s[<<mid + 1, rest>>]
               from == mid + 1
    <3>1. Sorted(L, from, rest)
      <4>1. \A k \in from .. from + rest - 1 : k \in lo .. lo + bc - 1
        BY <2>1
      <4>2. QED
        BY <2>3, <4>1 DEF Sorted
    <3>2. Divides(L, low, from, rest, m)
      BY <1>5, <2>1, <2>3, <3>1
    <3>3. \A k \in lo .. mid : L[k] <= low
      <4>1. \A k \in lo .. mid : k \in lo .. lo + bc - 1 /\ k <= mid
        BY <2>1
      <4>2. QED
        BY <2>3, <2>4, <4>1
    <3>4. from + rest = lo + bc
      BY <2>1
    <3> HIDE DEF m
    <3>5. m \in from .. lo + bc /\ (\A k \in from .. m - 1 : L[k] <= low)
          /\ \A k \in m .. lo + bc - 1 : L[k] > low
      <4> DEFINE end == lo + bc
      <4>1. from + rest = end /\ from \in Nat /\ end \in Nat /\ rest \in Nat
        BY <2>1, <3>4
      <4> HIDE DEF end, from
      <4>2. /\ m \in from .. end /\ (\A k \in from .. m - 1 : L[k] <= low)
            /\ \A k \in m .. end - 1 : L[k] > low
        BY <3>2, <4>1 DEF Divides
      <4>3. QED
        BY <4>2 DEF end
    <3>6. \A k \in lo .. m - 1 : k \in lo .. mid \/ k \in from .. m - 1
      BY <2>1, <3>5
    <3>7. m \in lo .. lo + bc
      BY <2>1, <3>5
    <3>8. Divides(L, low, lo, bc, m)
      BY <3>3, <3>5, <3>6, <3>7 DEF Divides
    <3>9. QED
      BY <2>2, <2>4, <3>8 DEF m
  <2>5. CASE ~ (L[mid] <= low)
    <3> DEFINE m == s[<<lo, step>>]
    <3>1. Sorted(L, lo, step)
      <4>1. \A k \in lo .. lo + step - 1 : k \in lo .. lo + bc - 1
        BY <2>1
      <4>2. QED
        BY <2>3, <4>1 DEF Sorted
    <3>2. Divides(L, low, lo, step, m)
      BY <1>5, <2>1, <2>3, <3>1
    <3>3. \A k \in mid .. lo + bc - 1 : L[k] > low
      <4>1. \A k \in mid .. lo + bc - 1 : k \in lo .. lo + bc - 1 /\ mid <= k
        BY <2>1
      <4>2. L[mid] > low
        BY <2>3, <2>5
      <4>3. QED
        BY <2>3, <4>1, <4>2
    <3> HIDE DEF m
    <3>4. m \in lo .. mid /\ (\A k \in lo .. m - 1 : L[k] <= low)
          /\ \A k \in m .. mid - 1 : L[k] > low
      <4> HIDE DEF mid
      <4>1. lo + step = mid /\ mid \in Nat /\ step \in Nat
        BY <2>1 DEF mid
      <4>2. QED
        BY <3>2, <4>1 DEF Divides
    <3>5. \A k \in m .. lo + bc - 1 : k \in m .. mid - 1 \/ k \in mid .. lo + bc - 1
      BY <2>1, <3>4
    <3>6. m \in lo .. lo + bc
      BY <2>1, <3>4
    <3>7. Divides(L, low, lo, bc, m)
      BY <3>3, <3>4, <3>5, <3>6 DEF Divides
    <3>8. QED
      BY <2>2, <2>5, <3>7 DEF m
  <2>6. QED
    BY <2>4, <2>5
<1> HIDE DEF Good
<1>6. 0 \in T
  <2>1. \A bc \in 0 .. 0 : bc = 0
    OBVIOUS
  <2>2. QED
    BY <1>4, <2>1
<1>7. ASSUME NEW k \in Nat, k \in T PROVE k + 1 \in T
  <2> SUFFICES ASSUME NEW bc \in 0 .. k + 1, bc <= number PROVE Good(bc)
    OBVIOUS
  <2>1. CASE bc \in 0 .. k
    BY <1>7, <2>1
  <2>2. CASE bc = k + 1
    <3>1. bc \in Nat \ {0} /\ \A c \in 0 .. bc - 1 : c \in 0 .. k /\ c <= number
      BY <2>2
    <3>2. \A c \in 0 .. bc - 1 : Good(c)
      BY <1>7, <3>1
    <3>3. QED
      BY <1>5, <3>1, <3>2
  <2>3. QED
    BY <2>1, <2>2
<1>8. number \in T
  <2> HIDE DEF T
  <2> QED
    BY <1>6, <1>7, AllNaturals
<1>9. Good(number)
  <2>1. number \in 0 .. number /\ number <= number
    OBVIOUS
  <2>2. QED
    BY <1>8, <2>1
<1>10. QED
  BY <1>1, <1>9 DEF Good, L

-----------------------------------------------------------------------------
(* predecessorPosition. *)

\* a set of positions that holds all behind each of its own starts somewhere
LEMMA StartsSomewhere ==
    ASSUME NEW n \in Nat, NEW S \in SUBSET (0 .. n - 1),
           \A k \in S : \A l \in 0 .. n - 1 : k <= l => l \in S
    PROVE  \E c \in 0 .. n : \A k \in 0 .. n - 1 : k \in S <=> k >= c
<1>1. CASE S = {}
  <2>1. \A k \in 0 .. n - 1 : k \in S <=> k >= n
    BY <1>1
  <2>2. QED
    BY <2>1
<1>2. CASE S # {}
  <2>1. S \in SUBSET Nat
    OBVIOUS
  <2>2. PICK c \in S : \A m \in S : c <= m
    BY <1>2, <2>1, LeastOf
  <2>3. c \in 0 .. n /\ c \in Nat
    OBVIOUS
  <2>4. \A k \in 0 .. n - 1 : k \in S <=> k >= c
    BY <2>2, <2>3
  <2>5. QED
    BY <2>3, <2>4
<1>3. QED
  BY <1>1, <1>2

\* behind c one bits with smaller high parts, the zero that closes bucket j
LEMMA ZeroIs ==
    ASSUME NEW ef, NEW f, NEW n, Rising(f, n), ef.H = OneBits(f, n), ef.H_size \in Nat,
           NEW j \in Nat, NEW c \in 0 .. n, j + c < ef.H_size,
           \A k \in 0 .. c - 1 : f[k] < j + c, \A k \in c .. n - 1 : f[k] > j + c
    PROVE  select0(ef, j + 1) = j + c
<1> DEFINE H == ef.H
           b0 == j + c
           top == ef.H_size - 1
           Z == (0 .. top) \ H
<1>1. /\ n \in Nat /\ c \in Nat /\ b0 \in 0 .. top /\ b0 \in Nat /\ top \in Nat
      /\ f \in [0 .. n - 1 -> Nat]
  BY DEF Rising
<1>2. b0 \notin H
  <2> SUFFICES ASSUME b0 \in H PROVE FALSE
    OBVIOUS
  <2>1. PICK k \in 0 .. n - 1 : b0 = f[k]
    BY DEF OneBits
  <2>2. k \in 0 .. c - 1 \/ k \in c .. n - 1
    BY <1>1
  <2>3. QED
    BY <1>1, <2>1, <2>2
<1>3. OneBits(f, c) = H \cap (0 .. b0) /\ Cardinality(OneBits(f, c)) = c
  <2>1. \A k \in c .. n - 1 : f[k] >= b0
    <3>1. \A k \in c .. n - 1 : f[k] \in Nat /\ f[k] > b0
      BY <1>1
    <3>2. QED
      BY <1>1, <3>1
  <2>2. Below(H, b0) = OneBits(f, c) /\ RankIn(H, b0) = c
    <3>1. \A k \in 0 .. c - 1 : f[k] < b0
      OBVIOUS
    <3> HIDE DEF b0
    <3>2. QED
      BY <1>1, <2>1, <3>1, BitsBelow
  <2>3. H \in SUBSET Nat
    BY <1>1 DEF OneBits
  <2>4. Below(H, b0) = H \cap (0 .. b0)
    <3> HIDE DEF b0, H
    <3>1. \A m \in H : m < b0 <=> m \in 0 .. b0
      BY <1>1, <1>2, <2>3
    <3>2. QED
      BY <3>1 DEF Below
  <2>5. QED
    BY <2>2, <2>4 DEF RankIn
<1> HIDE DEF H
<1>4. Cardinality((0 .. b0) \ H) = j + 1
  <2> DEFINE A == 0 .. b0
  <2>1. IsFiniteSet(A) /\ Cardinality(A) = b0 + 1
    <3>1. IsFiniteSet(0 .. b0) /\ Cardinality(0 .. b0) = IF 0 > b0 THEN 0 ELSE b0 - 0 + 1
      <4> HIDE DEF b0
      <4>1. 0 \in Int /\ b0 \in Int
        BY <1>1
      <4>2. QED
        BY <4>1, FS_Interval
    <3>2. ~ (0 > b0) /\ b0 - 0 + 1 = b0 + 1
      BY <1>1
    <3>3. QED
      BY <3>1, <3>2
  <2>2. A \cap H = OneBits(f, c)
    BY <1>3
  <2> HIDE DEF A
  <2>3. Cardinality(A \ H) = Cardinality(A) - Cardinality(A \cap H)
    BY <2>1, FS_Difference
  <2>4. Cardinality(A \ H) = (b0 + 1) - c
    BY <1>3, <2>1, <2>2, <2>3
  <2>5. QED
    BY <1>1, <2>4 DEF A
<1>5. Z \in SUBSET Nat /\ IsFiniteSet(Z) /\ b0 \in Z
  <2>1. IsFiniteSet(0 .. top)
    <3> HIDE DEF top
    <3>1. QED
      BY <1>1, FS_Interval
  <2>2. IsFiniteSet(Z)
    <3> DEFINE A == 0 .. top
    <3> HIDE DEF A
    <3>1. IsFiniteSet(A)
      BY <2>1 DEF A
    <3>2. IsFiniteSet(A \ H)
      BY <3>1, FS_Difference
    <3>3. QED
      BY <3>2 DEF A
  <2>3. QED
    BY <1>1, <1>2, <2>2
<1>6. ASSUME NEW b \in Z
      PROVE  Cardinality((0 .. b) \ H) = RankIn(Z, b) + 1
  <2>1. b \in Nat /\ b <= top
    BY <1>1
  <2>2. (0 .. b) \ H = {u \in Z : u <= b}
    <3> HIDE DEF top
    <3>1. QED
      BY <1>1, <2>1
  <2>3. Cardinality({u \in Z : u <= b}) = RankIn(Z, b) + 1
    <3> HIDE DEF Z
    <3>1. QED
      BY <1>5, UpTo
  <2>4. QED
    BY <2>2, <2>3
<1>7. ASSUME NEW b \in 0 .. top, b \notin H, Cardinality((0 .. b) \ H) = j + 1
      PROVE  b = b0
  <2>1. b \in Z
    BY <1>7
  <2> HIDE DEF Z, b0, top
  <2>2. RankIn(Z, b) + 1 = j + 1 /\ RankIn(Z, b0) + 1 = j + 1
    BY <1>4, <1>5, <1>6, <1>7, <2>1
  <2>3. RankIn(Z, b) \in Nat /\ RankIn(Z, b0) \in Nat
    <3>1. b \in Nat /\ b0 \in Nat
      BY <1>5, <2>1
    <3>2. RankIn(Z, b) \in Nat
      BY <1>5, <3>1, RankType
    <3>3. RankIn(Z, b0) \in Nat
      BY <1>5, <3>1, RankType
    <3>4. QED
      BY <3>2, <3>3
  <2>4. RankIn(Z, b) = RankIn(Z, b0)
    BY <2>2, <2>3
  <2>5. QED
    BY <1>5, <2>1, <2>4, RankOrder
<1> DEFINE Is(b) == b \notin H /\ Cardinality((0 .. b) \ H) = j + 1
<1>8. select0(ef, j + 1) = CHOOSE b \in 0 .. top : Is(b)
  BY DEF select0, H
<1>9. Is(b0) /\ \A b \in 0 .. top : Is(b) => b = b0
  BY <1>2, <1>4, <1>7
<1> HIDE DEF Is
<1>10. (CHOOSE b \in 0 .. top : Is(b)) = b0
  <2> HIDE DEF b0, top
  <2>1. QED
    BY <1>1, <1>9
<1>11. QED
  BY <1>8, <1>10

\* c elements have high parts not above j, which may be -1
HighEnds(vs, p, j, c) ==
    /\ c \in 0 .. Len(vs)
    /\ \A k \in 0 .. c - 1 : vs[k + 1] \div p <= j
    /\ \A k \in c .. Len(vs) - 1 : vs[k + 1] \div p > j

\* the zero that ends a bucket exists
LEMMA HighEndsSomewhere ==
    ASSUME NEW vs \in Seq(Nat), NEW top, Ordered(vs, top), NEW p \in Nat \ {0}, NEW j \in Int
    PROVE  \E c : HighEnds(vs, p, j, c)
<1> DEFINE n == Len(vs)
           high(k) == vs[k + 1] \div p
           S == {k \in 0 .. n - 1 : high(k) > j}
<1>1. n \in Nat /\ \A k \in 0 .. n - 1 : k + 1 \in 1 .. n /\ vs[k + 1] \in Nat
  OBVIOUS
<1>2. ASSUME NEW k \in 0 .. n - 1, NEW l \in 0 .. n - 1, k <= l
      PROVE  high(k) \in Nat /\ high(l) \in Nat /\ high(k) <= high(l)
  <2>1. vs[k + 1] \in Nat /\ vs[l + 1] \in Nat /\ vs[k + 1] <= vs[l + 1]
    <3>1. k + 1 \in 1 .. n /\ l + 1 \in 1 .. n /\ k + 1 <= l + 1
      BY <1>1, <1>2
    <3>2. QED
      BY <1>1, <3>1 DEF Ordered
  <2>2. vs[k + 1] \div p \in Nat
    BY <2>1, Division
  <2>3. vs[l + 1] \div p \in Nat
    BY <2>1, Division
  <2>4. vs[k + 1] \div p <= vs[l + 1] \div p
    BY <2>1, QuotientGrows
  <2>5. QED
    BY <2>2, <2>3, <2>4
<1>3. \A k \in 0 .. n - 1 : high(k) \in Nat
  <2> HIDE DEF high
  <2>1. \A k \in 0 .. n - 1 : k <= k
    BY <1>1
  <2>2. QED
    BY <1>2, <2>1
<1>4. \A k \in S : \A l \in 0 .. n - 1 : k <= l => l \in S
  <2> HIDE DEF high
  <2>1. ASSUME NEW k \in 0 .. n - 1, NEW l \in 0 .. n - 1, k <= l, high(k) > j
        PROVE  high(l) > j
    <3>1. high(k) \in Nat /\ high(l) \in Nat /\ high(k) <= high(l)
      BY <1>2, <2>1
    <3>2. QED
      BY <2>1, <3>1
  <2>2. QED
    BY <2>1
<1> HIDE DEF high
<1>5. PICK c \in 0 .. n : \A k \in 0 .. n - 1 : k \in S <=> k >= c
  <2>1. S \in SUBSET (0 .. n - 1)
    OBVIOUS
  <2> HIDE DEF S, n
  <2>2. QED
    BY <1>1, <1>4, <2>1, StartsSomewhere
<1>6. \A k \in 0 .. c - 1 : high(k) <= j
  <2> SUFFICES ASSUME NEW k \in 0 .. c - 1 PROVE high(k) <= j
    OBVIOUS
  <2>1. k \in 0 .. n - 1 /\ ~ (k >= c)
    BY <1>1
  <2>2. ~ (high(k) > j) /\ high(k) \in Nat
    BY <1>3, <1>5, <2>1
  <2>3. QED
    BY <2>2
<1>7. \A k \in c .. n - 1 : high(k) > j
  <2> SUFFICES ASSUME NEW k \in c .. n - 1 PROVE high(k) > j
    OBVIOUS
  <2>1. k \in 0 .. n - 1 /\ k >= c
    BY <1>1
  <2>2. QED
    BY <1>5, <2>1
<1>8. HighEnds(vs, p, j, c)
  BY <1>6, <1>7 DEF HighEnds, high
<1>9. QED
  BY <1>8

\* the zero behind a bucket
LEMMA ZeroBehind ==
    ASSUME NEW ef, EFRecord(ef), NEW vs \in Seq(Nat), Ordered(vs, ef.maxValue),
           Codes(ef, vs), NEW p, p = 2^ef.width,
           NEW j \in Nat, NEW c, HighEnds(vs, p, j, c), j <= ef.maxValue \div p
    PROVE  select0(ef, j + 1) = j + c
<1> DEFINE n == Len(vs)
           f == Bits(vs, p, 0)
<1>1. /\ p \in Nat \ {0} /\ ef.count = n /\ n \in Nat /\ ef.H = OneBits(f, n) /\ Rising(f, n)
      /\ \A k \in 0 .. n - 1 : vs[k + 1] \in Nat /\ f[k] = (vs[k + 1] \div p) + k
  <2>1. Ordered(vs, ef.maxValue)
    OBVIOUS
  <2>2. QED
    BY <2>1, CodesBits
<1>2. \A k \in 0 .. n - 1 : vs[k + 1] \div p \in Nat
  <2> SUFFICES ASSUME NEW k \in 0 .. n - 1 PROVE vs[k + 1] \div p \in Nat
    OBVIOUS
  <2>1. vs[k + 1] \in Nat
    BY <1>1
  <2> DEFINE v == vs[k + 1]
  <2> HIDE DEF v
  <2>2. v \div p \in Nat
    BY <1>1, <2>1, Division DEF v
  <2>3. QED
    BY <2>2 DEF v
<1>3. /\ c \in 0 .. n
      /\ \A k \in 0 .. c - 1 : vs[k + 1] \div p <= j
      /\ \A k \in c .. n - 1 : vs[k + 1] \div p > j
  BY DEF HighEnds
<1>4. ef.H_size \in Nat /\ j + c < ef.H_size
  <2> DEFINE q == ef.maxValue \div p
  <2>1. ef.H_size = q + size(ef) + 1 /\ n <= size(ef)
    BY DEF Codes
  <2>2. size(ef) \in Nat /\ ef.maxValue \in Nat /\ ef.H_size \in Nat
    BY DEF EFRecord
  <2>3. q \in Nat
    BY <1>1, <2>2, Division
  <2> HIDE DEF q
  <2>4. j <= q
    BY DEF q
  <2>5. QED
    BY <1>1, <1>3, <2>1, <2>2, <2>3, <2>4
<1> HIDE DEF f
<1>5. \A k \in 0 .. c - 1 : f[k] < j + c
  <2> SUFFICES ASSUME NEW k \in 0 .. c - 1 PROVE f[k] < j + c
    OBVIOUS
  <2> DEFINE h == vs[k + 1] \div p
  <2>1. k \in 0 .. n - 1
    BY <1>1, <1>3
  <2>2. h \in Nat /\ h <= j /\ f[k] = h + k
    BY <1>1, <1>2, <1>3, <2>1
  <2> HIDE DEF h
  <2>3. QED
    BY <1>1, <1>3, <2>2
<1>6. \A k \in c .. n - 1 : f[k] > j + c
  <2> SUFFICES ASSUME NEW k \in c .. n - 1 PROVE f[k] > j + c
    OBVIOUS
  <2> DEFINE h == vs[k + 1] \div p
  <2>1. k \in 0 .. n - 1
    BY <1>1, <1>3
  <2>2. h \in Nat /\ h > j /\ f[k] = h + k
    BY <1>1, <1>2, <1>3, <2>1
  <2> HIDE DEF h
  <2>3. QED
    BY <1>1, <1>3, <2>2
<1> HIDE DEF n
<1>7. Rising(f, n) /\ ef.H = OneBits(f, n) /\ c \in 0 .. n
  BY <1>1, <1>3
<1>8. QED
  BY <1>4, <1>5, <1>6, <1>7, ZeroIs

\* comparing numbers by their high parts
Compares(v, x, p) ==
    /\ v \div p < x \div p => v < x
    /\ v \div p > x \div p => v > x
    /\ v \div p = x \div p => (v <= x <=> v % p <= x % p)

\* the high parts decide unless they are equal
LEMMA PartsCompare ==
    ASSUME NEW v \in Nat, NEW x \in Nat, NEW p \in Nat \ {0}
    PROVE  Compares(v, x, p)
<1>1. v <= x => v \div p <= x \div p
  BY QuotientGrows
<1>2. x <= v => x \div p <= v \div p
  BY QuotientGrows
<1>3. v \div p \in Nat /\ v % p \in 0 .. p - 1 /\ v = (v \div p) * p + (v % p)
  BY Division
<1>4. x \div p \in Nat /\ x % p \in 0 .. p - 1 /\ x = (x \div p) * p + (x % p)
  BY Division
<1> DEFINE a == v \div p
           b == x \div p
           r == v % p
           s == x % p
<1>5. a \in Nat /\ b \in Nat /\ r \in Nat /\ s \in Nat /\ v = a * p + r /\ x = b * p + s
      /\ (v <= x => a <= b) /\ (x <= v => b <= a)
  BY <1>1, <1>2, <1>3, <1>4
<1> HIDE DEF a, b, r, s
<1>6. (a < b => v < x) /\ (a > b => v > x)
  BY <1>5
<1>7. a = b => (v <= x <=> r <= s)
  <2> SUFFICES ASSUME a = b PROVE v <= x <=> r <= s
    OBVIOUS
  <2> DEFINE m == a * p
  <2>1. v = m + r /\ x = m + s /\ m \in Nat
    BY <1>5
  <2> HIDE DEF m
  <2>2. QED
    BY <1>5, <2>1
<1>8. QED
  BY <1>6, <1>7 DEF a, b, r, s, Compares

(***************************************************************************)
(* The bucket of x's high part lies between two zeros, and the search      *)
(* divides it; all elements in front of the place found are not above x.   *)
(***************************************************************************)
BucketDivided(ef, vs, x, p, to, m) ==
    LET e == x \div p
    IN  /\ to \in 0 .. Len(vs) /\ m \in 0 .. to
        /\ select0(ef, e + 1) = e + to
        /\ \E from \in 0 .. m :
              /\ from = IF e = 0 THEN 0 ELSE select0(ef, e) - e + 1
              /\ m = SearchBucket(ef, from, to - from, x % p)
        /\ \A k \in 0 .. m - 1 : vs[k + 1] <= x /\ vs[k + 1] \div p <= e
        /\ \A k \in m .. Len(vs) - 1 : vs[k + 1] > x /\ vs[k + 1] \div p >= e

\* the bucket found is divided
LEMMA BucketIsDivided ==
    ASSUME NEW ef, EFRecord(ef), NEW vs \in Seq(Nat), Ordered(vs, ef.maxValue),
           Codes(ef, vs), NEW p, p = 2^ef.width, NEW x \in Nat, x <= ef.maxValue
    PROVE  \E to, m : BucketDivided(ef, vs, x, p, to, m)
<1> DEFINE n == Len(vs)
           e == x \div p
           low == x % p
           high(k) == vs[k + 1] \div p
<1>1. /\ p \in Nat \ {0} /\ n \in Nat
      /\ \A k \in 0 .. n - 1 : ef.L[k] = vs[k + 1] % p /\ vs[k + 1] \in Nat
  <2>1. Ordered(vs, ef.maxValue)
    OBVIOUS
  <2>2. QED
    BY SMTT(20), <2>1, CodesBits
<1>2. e \in Nat /\ low \in Nat
  <2>1. e \in Nat /\ low \in 0 .. p - 1
    BY <1>1, Division
  <2> HIDE DEF low
  <2>2. QED
    BY <1>1, <2>1
<1>3. e <= ef.maxValue \div p
  <2>1. ef.maxValue \in Nat
    BY DEF EFRecord
  <2>2. QED
    BY <1>1, <2>1, QuotientGrows
<1>4. \A k \in 0 .. n - 1 :
          /\ high(k) \in Nat /\ vs[k + 1] % p \in Nat
          /\ high(k) < e => vs[k + 1] < x
          /\ high(k) > e => vs[k + 1] > x
          /\ high(k) = e => (vs[k + 1] <= x <=> vs[k + 1] % p <= low)
  <2> SUFFICES ASSUME NEW k \in 0 .. n - 1
               PROVE  /\ high(k) \in Nat /\ vs[k + 1] % p \in Nat
                      /\ high(k) < e => vs[k + 1] < x
                      /\ high(k) > e => vs[k + 1] > x
                      /\ high(k) = e => (vs[k + 1] <= x <=> vs[k + 1] % p <= low)
    OBVIOUS
  <2> DEFINE v == vs[k + 1]
  <2>1. v \in Nat
    BY <1>1
  <2> HIDE DEF v
  <2>2. v \div p \in Nat /\ v % p \in 0 .. p - 1
    BY <1>1, <2>1, Division
  <2>3. Compares(v, x, p)
    BY <1>1, <2>1, PartsCompare
  <2>4. v % p \in Nat
    <3> DEFINE r == v % p
    <3>1. r \in 0 .. p - 1
      BY <2>2
    <3> HIDE DEF r
    <3>2. r \in Nat
      BY <1>1, <3>1
    <3>3. QED
      BY <3>2 DEF r
  <2>5. QED
    BY <2>2, <2>3, <2>4 DEF v, Compares
<1> HIDE DEF e, low
<1>5. PICK to : HighEnds(vs, p, e, to)
  <2>1. e \in Int /\ Ordered(vs, ef.maxValue)
    BY <1>2
  <2>2. QED
    BY <1>1, <2>1, HighEndsSomewhere
<1>6. PICK from : HighEnds(vs, p, e - 1, from)
  <2>1. e - 1 \in Int /\ Ordered(vs, ef.maxValue)
    BY <1>2
  <2>2. QED
    BY <1>1, <2>1, HighEndsSomewhere
<1> HIDE DEF high
<1>7. /\ to \in 0 .. n /\ \A k \in 0 .. n - 1 : high(k) <= e <=> k < to
      /\ from \in 0 .. n /\ \A k \in 0 .. n - 1 : high(k) < e <=> k < from
  <2>1. /\ to \in 0 .. n /\ (\A k \in 0 .. to - 1 : high(k) <= e)
        /\ \A k \in to .. n - 1 : high(k) > e
    BY <1>5 DEF HighEnds, high
  <2>2. /\ from \in 0 .. n /\ (\A k \in 0 .. from - 1 : high(k) <= e - 1)
        /\ \A k \in from .. n - 1 : high(k) > e - 1
    BY <1>6 DEF HighEnds, high
  <2>3. ASSUME NEW k \in 0 .. n - 1
        PROVE  (high(k) <= e <=> k < to) /\ (high(k) < e <=> k < from)
    <3>1. high(k) \in Nat
      BY <1>4
    <3>2. k < to => k \in 0 .. to - 1
      BY <1>1, <2>1
    <3>3. k >= to => k \in to .. n - 1
      BY <1>1, <2>1
    <3>4. k < from => k \in 0 .. from - 1
      BY <1>1, <2>2
    <3>5. k >= from => k \in from .. n - 1
      BY <1>1, <2>2
    <3>6. high(k) <= e <=> k < to
      BY <1>2, <2>1, <3>1, <3>2, <3>3
    <3>7. high(k) < e <=> k < from
      BY <1>2, <2>2, <3>1, <3>4, <3>5
    <3>8. QED
      BY <3>6, <3>7
  <2>4. QED
    BY <2>1, <2>2, <2>3
<1>8. from <= to
  <2>1. CASE to < n
    <3>1. to \in 0 .. n - 1 /\ ~ (to < to)
      BY <1>1, <1>7, <2>1
    <3>2. ~ (high(to) <= e) /\ high(to) \in Nat
      BY <1>4, <1>7, <3>1
    <3>3. ~ (high(to) < e)
      BY <1>2, <3>2
    <3>4. ~ (to < from)
      BY <1>7, <3>1, <3>3
    <3>5. QED
      BY <1>7, <3>4
  <2>2. CASE to >= n
    BY <1>1, <1>7, <2>2
  <2>3. QED
    BY <1>1, <1>7, <2>1, <2>2
<1>9. select0(ef, e + 1) = e + to
  <2>1. QED
    BY <1>2, <1>3, <1>5, ZeroBehind
<1>10. from = IF e = 0 THEN 0 ELSE select0(ef, e) - e + 1
  <2>1. CASE e = 0
    <3>1. ~ (0 < from)
      <4> SUFFICES ASSUME 0 < from PROVE FALSE
        OBVIOUS
      <4>1. 0 \in 0 .. n - 1
        BY <1>1, <1>7
      <4>2. high(0) < e /\ high(0) \in Nat
        BY <1>4, <1>7, <4>1
      <4>3. QED
        BY <2>1, <4>2
    <3>2. QED
      BY <1>7, <2>1, <3>1
  <2>2. CASE e # 0
    <3> DEFINE j == e - 1
               M == ef.maxValue \div p
    <3>1. j \in Nat /\ j + 1 = e /\ HighEnds(vs, p, j, from)
      BY <1>2, <1>6, <2>2
    <3>2. j <= M
      <4>1. M \in Nat
        <5>1. ef.maxValue \in Nat
          BY DEF EFRecord
        <5>2. QED
          BY <1>1, <5>1, Division
      <4>2. e <= M
        BY <1>3
      <4> HIDE DEF M
      <4>3. QED
        BY <1>2, <4>1, <4>2
    <3> HIDE DEF j
    <3>3. select0(ef, j + 1) = j + from
      BY <3>1, <3>2, ZeroBehind
    <3>4. select0(ef, e) = j + from
      BY <3>1, <3>3
    <3>5. from = (j + from) - e + 1
      BY <1>2, <1>7, <3>1 DEF j
    <3>6. QED
      BY <2>2, <3>4, <3>5
  <2>3. QED
    BY <2>1, <2>2
<1> DEFINE number == to - from
           m == SearchBucket(ef, from, number, low)
<1>11. from \in Nat /\ number \in Nat /\ from + number = to
  BY <1>7, <1>8
<1>12. \A k \in from .. to - 1 : k \in 0 .. n - 1 /\ high(k) = e
  <2> SUFFICES ASSUME NEW k \in from .. to - 1 PROVE k \in 0 .. n - 1 /\ high(k) = e
    OBVIOUS
  <2>1. k \in 0 .. n - 1 /\ k < to /\ ~ (k < from)
    BY <1>1, <1>7
  <2>2. high(k) <= e /\ ~ (high(k) < e) /\ high(k) \in Nat
    BY <1>4, <1>7, <2>1
  <2>3. QED
    BY <1>2, <2>1, <2>2
<1>13. Sorted(ef.L, from, number)
  <2> SUFFICES ASSUME NEW k \in from .. to - 1, NEW l \in from .. to - 1
               PROVE  ef.L[k] \in Nat /\ ef.L[l] \in Nat /\ (k <= l => ef.L[k] <= ef.L[l])
    <3>1. from + number - 1 = to - 1
      BY <1>11
    <3> HIDE DEF number
    <3>2. QED
      BY <3>1 DEF Sorted
  <2>1. /\ k \in 0 .. n - 1 /\ l \in 0 .. n - 1 /\ high(k) = e /\ high(l) = e
    BY <1>12
  <2> DEFINE v == vs[k + 1]
             w == vs[l + 1]
  <2>2. /\ v \in Nat /\ w \in Nat /\ ef.L[k] = v % p /\ ef.L[l] = w % p
        /\ v % p \in Nat /\ w % p \in Nat
    BY <1>1, <1>4, <2>1
  <2>3. k <= l => v <= w
    <3>1. k + 1 \in 1 .. n /\ l + 1 \in 1 .. n /\ (k <= l => k + 1 <= l + 1)
      BY <1>1, <2>1
    <3>2. QED
      BY <3>1 DEF Ordered
  <2>4. v \div p = w \div p
    BY <2>1 DEF high
  <2> HIDE DEF v, w
  <2>5. Compares(v, w, p)
    BY <1>1, <2>2, PartsCompare
  <2>6. v <= w <=> v % p <= w % p
    BY <2>4, <2>5 DEF Compares
  <2>7. QED
    BY <2>2, <2>3, <2>6
<1>14. Divides(ef.L, low, from, number, m)
  <2> HIDE DEF number
  <2>1. QED
    BY <1>2, <1>11, <1>13, SearchFinds
<1> HIDE DEF m
<1>15. /\ m \in from .. to
       /\ \A k \in from .. m - 1 : ef.L[k] <= low
       /\ \A k \in m .. to - 1 : ef.L[k] > low
  <2> HIDE DEF number
  <2>1. QED
    BY <1>11, <1>14 DEF Divides
<1>16. \A k \in 0 .. m - 1 : vs[k + 1] <= x /\ high(k) <= e
  <2> SUFFICES ASSUME NEW k \in 0 .. m - 1 PROVE vs[k + 1] <= x /\ high(k) <= e
    OBVIOUS
  <2>1. k \in 0 .. n - 1 /\ k < to
    BY <1>1, <1>7, <1>15
  <2>2. vs[k + 1] \in Nat /\ high(k) \in Nat /\ high(k) <= e
    BY <1>1, <1>4, <1>7, <2>1
  <2>3. CASE k < from
    BY <1>4, <1>7, <2>1, <2>2, <2>3
  <2>4. CASE k >= from
    <3>1. k \in from .. m - 1 /\ k \in from .. to - 1
      BY <1>7, <1>15, <2>1, <2>4
    <3>2. ef.L[k] <= low /\ ef.L[k] = vs[k + 1] % p /\ high(k) = e
      BY <1>1, <1>12, <1>15, <2>1, <3>1
    <3>3. vs[k + 1] % p <= low
      BY <3>2
    <3>4. QED
      BY <1>4, <2>1, <2>2, <3>2, <3>3
  <2>5. k < from \/ k >= from
    BY <1>7, <2>1
  <2>6. QED
    BY <2>3, <2>4, <2>5
<1>17. \A k \in m .. n - 1 : vs[k + 1] > x /\ high(k) >= e
  <2> SUFFICES ASSUME NEW k \in m .. n - 1 PROVE vs[k + 1] > x /\ high(k) >= e
    OBVIOUS
  <2>1. k \in 0 .. n - 1 /\ k >= from
    BY <1>1, <1>7, <1>15
  <2>2. vs[k + 1] \in Nat /\ high(k) \in Nat /\ vs[k + 1] % p \in Nat
    BY <1>1, <1>4, <2>1
  <2>3. CASE k >= to
    <3>1. ~ (high(k) <= e)
      BY <1>7, <2>1, <2>3
    <3>2. high(k) > e
      BY <1>2, <2>2, <3>1
    <3>3. QED
      BY <1>2, <1>4, <2>1, <2>2, <3>2
  <2>4. CASE k < to
    <3>1. k \in m .. to - 1 /\ k \in from .. to - 1
      BY <1>7, <1>15, <2>1, <2>4
    <3>2. ef.L[k] > low /\ ef.L[k] = vs[k + 1] % p /\ high(k) = e
      BY <1>1, <1>12, <1>15, <2>1, <3>1
    <3> DEFINE r == vs[k + 1] % p
    <3>3. r \in Nat /\ r > low
      BY <2>2, <3>2
    <3>4. high(k) = e => (vs[k + 1] <= x <=> r <= low)
      BY <1>4, <2>1
    <3> HIDE DEF r
    <3>5. ~ (vs[k + 1] <= x)
      BY <1>2, <3>2, <3>3, <3>4
    <3>6. QED
      BY <1>2, <2>2, <3>2, <3>5
  <2>5. k < to \/ k >= to
    BY <1>7, <2>1
  <2>6. QED
    BY <2>3, <2>4, <2>5
<1>18. from \in 0 .. m /\ m \in 0 .. to
  BY <1>7, <1>15
<1>19. BucketDivided(ef, vs, x, p, to, m)
  <2>1. \E a \in 0 .. m : /\ a = IF e = 0 THEN 0 ELSE select0(ef, e) - e + 1
                          /\ m = SearchBucket(ef, a, to - a, low)
    BY <1>10, <1>18 DEF m
  <2>2. QED
    BY <1>7, <1>9, <1>16, <1>17, <1>18, <2>1 DEF BucketDivided, e, low, high
<1>20. QED
  BY <1>19

(***************************************************************************)
(* predecessorPosition returns the pointer to the last element that is not *)
(* above x, when there is one.                                             *)
(***************************************************************************)
LEMMA PredecessorIs ==
    ASSUME NEW ef, EFRecord(ef), NEW vs \in Seq(Nat), Ordered(vs, ef.maxValue),
           Codes(ef, vs), vs # <<>>, NEW x \in Nat, vs[1] <= x, x <= ef.maxValue
    PROVE  \E i \in 0 .. Len(vs) - 1 :
              /\ predecessorPosition(ef, x) = at(ef, i)
              /\ vs[i + 1] <= x
              /\ \A k \in i + 1 .. Len(vs) - 1 : vs[k + 1] > x
<1> DEFINE p == 2^ef.width
           n == Len(vs)
           f == Bits(vs, p, 0)
           e == x \div p
<1>1. /\ p \in Nat \ {0} /\ n \in Nat \ {0} /\ ef.H = OneBits(f, n) /\ Rising(f, n)
      /\ \A k \in 0 .. n - 1 : f[k] = (vs[k + 1] \div p) + k /\ vs[k + 1] \in Nat
  <2>1. Ordered(vs, ef.maxValue)
    OBVIOUS
  <2>2. /\ p \in Nat \ {0} /\ n \in Nat /\ ef.H = OneBits(f, n) /\ Rising(f, n)
        /\ \A k \in 0 .. n - 1 : f[k] = (vs[k + 1] \div p) + k /\ vs[k + 1] \in Nat
    BY <2>1, CodesBits
  <2>3. n # 0
    BY EmptySequence
  <2>4. QED
    BY <2>2, <2>3
<1>2. e \in Nat
  BY <1>1, Division
<1>3. PICK to, m : BucketDivided(ef, vs, x, p, to, m)
  BY BucketIsDivided
<1>4. \A k \in 0 .. n - 1 : at(ef, k) = Pointer(f[k], k)
  <2>1. Ordered(vs, ef.maxValue)
    OBVIOUS
  <2>2. QED
    BY <2>1, AtIs
<1>5. \A k \in 0 .. n - 1 : vs[k + 1] \div p \in Nat
  <2> SUFFICES ASSUME NEW k \in 0 .. n - 1 PROVE vs[k + 1] \div p \in Nat
    OBVIOUS
  <2> DEFINE v == vs[k + 1]
  <2>1. v \in Nat
    BY <1>1
  <2> HIDE DEF v
  <2>2. v \div p \in Nat
    BY <1>1, <2>1, Division
  <2>3. QED
    BY <2>2 DEF v
<1> HIDE DEF f
<1>6. /\ to \in 0 .. n /\ m \in 0 .. to /\ select0(ef, e + 1) = e + to
      /\ \A k \in 0 .. m - 1 : vs[k + 1] <= x /\ vs[k + 1] \div p <= e
      /\ \A k \in m .. n - 1 : vs[k + 1] > x /\ vs[k + 1] \div p >= e
  BY <1>3 DEF BucketDivided
<1>7. PICK from \in 0 .. m :
          /\ from = IF e = 0 THEN 0 ELSE select0(ef, e) - e + 1
          /\ m = SearchBucket(ef, from, to - from, x % p)
  BY <1>3 DEF BucketDivided
<1>8. m > 0 /\ to > 0 /\ m \in Nat /\ to \in Nat
  <2> SUFFICES ASSUME ~ (m > 0) PROVE FALSE
    BY <1>6
  <2>1. 0 \in m .. n - 1 /\ 0 + 1 = 1
    BY <1>1, <1>6
  <2>2. \A k \in m .. n - 1 : vs[k + 1] > x /\ vs[k + 1] \in Nat
    BY <1>1, <1>6
  <2>3. vs[1] > x /\ vs[1] \in Nat
    BY <2>1, <2>2
  <2>4. QED
    BY <2>3
<1> DEFINE i == m - 1
           posH == e + i
<1>9. i \in 0 .. n - 1 /\ i \in 0 .. m - 1 /\ posH \in Nat /\ i \in Nat
  BY <1>1, <1>2, <1>6, <1>8
<1>10. predecessorPosition(ef, x) =
           IF posH \in ef.H THEN Pointer(posH, i)
           ELSE Pointer(prevOne(ef.H, posH), i)
  <2> DEFINE end == select0(ef, e + 1)
             rankHi == end - e
             rankLo == IF e = 0 THEN 0 ELSE select0(ef, e) - e + 1
             after == SearchBucket(ef, rankLo, rankHi - rankLo, x % p)
             rank == IF after > 0 THEN after - 1 ELSE after
             pos == end - (rankHi - rank)
  <2>1. predecessorPosition(ef, x) =
            IF rankHi = 0 THEN Pointer(0, 0)
            ELSE IF pos \in ef.H THEN Pointer(pos, rank)
            ELSE Pointer(prevOne(ef.H, pos), rank)
    BY DEF predecessorPosition
  <2>2. rankHi = to /\ end = e + to
    BY <1>2, <1>6
  <2>3. rankLo = from
    BY <1>7
  <2> HIDE DEF rankHi, rankLo, end
  <2>4. after = m
    BY <1>7, <2>2, <2>3
  <2> HIDE DEF after
  <2>5. rank = i /\ rankHi # 0
    BY <1>8, <2>2, <2>4
  <2> HIDE DEF rank
  <2>6. pos = posH
    BY <1>2, <1>8, <1>9, <2>2, <2>5
  <2> HIDE DEF pos, posH, i
  <2>7. QED
    BY <2>1, <2>5, <2>6
<1>11. f[i] <= posH /\ f[i] \in Nat
  <2> DEFINE h == vs[i + 1] \div p
  <2>1. h \in Nat /\ h <= e /\ f[i] = h + i
    BY <1>1, <1>5, <1>6, <1>9
  <2> HIDE DEF h, e
  <2>2. QED
    BY <1>2, <1>9, <2>1
<1>12. i + 1 \in 0 .. n - 1 => f[i + 1] > posH
  <2> SUFFICES ASSUME i + 1 \in 0 .. n - 1 PROVE f[i + 1] > posH
    OBVIOUS
  <2> DEFINE k == i + 1
             h == vs[k + 1] \div p
  <2>1. k \in 0 .. n - 1 /\ k \in m .. n - 1
    BY <1>8, <1>9
  <2>2. h \in Nat /\ h >= e /\ f[k] = h + k
    BY <1>1, <1>5, <1>6, <2>1
  <2> HIDE DEF h, e
  <2>3. QED
    BY <1>2, <1>9, <2>2
<1>13. predecessorPosition(ef, x) = Pointer(f[i], i)
  <2> HIDE DEF i, posH
  <2>1. CASE posH \in ef.H
    <3>1. PICK k \in 0 .. n - 1 : posH = f[k]
      BY <1>1, <2>1 DEF OneBits
    <3>2. \A a, b \in 0 .. n - 1 : a < b => f[a] < f[b]
      BY <1>1 DEF Rising
    <3>3. \A a \in 0 .. n - 1 : f[a] \in Nat
      BY <1>1 DEF Rising
    <3>4. ~ (k < i)
      <4> SUFFICES ASSUME k < i PROVE FALSE
        OBVIOUS
      <4>1. f[k] < f[i] /\ f[k] \in Nat
        BY <1>9, <3>2, <3>3
      <4>2. QED
        BY <1>11, <3>1, <4>1
    <3>5. ~ (k > i)
      <4> SUFFICES ASSUME k > i PROVE FALSE
        OBVIOUS
      <4> DEFINE j == i + 1
      <4>1. j \in 0 .. n - 1 /\ (j < k \/ j = k)
        BY <1>1, <1>9
      <4>2. f[j] > posH
        BY <1>12, <4>1
      <4> HIDE DEF j
      <4>3. f[j] \in Nat /\ f[k] \in Nat
        BY <3>3, <4>1
      <4>4. j < k => f[j] < f[k]
        BY <3>2, <4>1
      <4>5. f[j] <= f[k]
        BY <4>1, <4>3, <4>4
      <4>6. posH \in Nat
        BY <1>9
      <4>7. QED
        BY <3>1, <4>2, <4>3, <4>5, <4>6
    <3>6. k = i
      BY <1>9, <3>4, <3>5
    <3>7. QED
      BY <1>10, <2>1, <3>1, <3>6
  <2>2. CASE posH \notin ef.H
    <3>1. f[i] # posH
      BY <1>1, <1>9, <2>2 DEF OneBits
    <3>2. f[i] < posH
      BY <1>9, <1>11, <3>1
    <3>3. i + 1 \in 0 .. n - 1 => f[i + 1] >= posH
      <4> SUFFICES ASSUME i + 1 \in 0 .. n - 1 PROVE f[i + 1] >= posH
        OBVIOUS
      <4>1. f[i + 1] \in Nat
        BY <1>1 DEF Rising
      <4>2. QED
        BY <1>9, <1>12, <4>1
    <3>4. prevOne(ef.H, posH) = f[i]
      <4>1. Rising(f, n) /\ ef.H = OneBits(f, n)
        BY <1>1
      <4>2. i \in 0 .. n - 1 /\ posH \in Nat
        BY <1>9
      <4>3. prevOne(OneBits(f, n), posH) = f[i]
        BY <4>1, <4>2, <3>2, <3>3, BitsPrev
      <4>4. QED
        BY <4>1, <4>3
    <3>5. QED
      BY <1>10, <2>2, <3>4
  <2>3. QED
    BY <2>1, <2>2
<1>14. predecessorPosition(ef, x) = at(ef, i)
  BY <1>4, <1>9, <1>13
<1>15. vs[i + 1] <= x
  BY <1>6, <1>9
<1>16. \A k \in i + 1 .. n - 1 : vs[k + 1] > x
  <2>1. i + 1 = m
    BY <1>8
  <2>2. QED
    BY <1>6, <2>1
<1>17. QED
  BY <1>9, <1>14, <1>15, <1>16

-----------------------------------------------------------------------------
(* DuplicateFilterRunlength. *)

\* what is known of the runs dropped
LEMMA LongRunsType ==
    ASSUME NEW s, NEW d, NEW end \in Nat, LongRuns(s, d, end)
    PROVE  /\ Len(s) \in Nat /\ Len(d) = Len(s) + 1 /\ d[1] = 0
           /\ s \in Seq(Nat) /\ d \in Seq(Nat) /\ Increasing(s)
           /\ \A k \in 1 .. Len(s) + 1 : d[k] \in Nat
           /\ \A k \in 1 .. Len(s) :
                 /\ s[k] \in Nat /\ d[k] \in Nat /\ d[k + 1] \in Nat
                 /\ d[k + 1] - d[k] >= MIN_DUPLICATES
                 /\ s[k] > 0 /\ s[k] + (d[k + 1] - d[k]) <= end /\ s[k] < end
<1>1. /\ Len(s) \in Nat /\ Len(d) = Len(s) + 1 /\ d[1] = 0
      /\ s \in Seq(Nat) /\ d \in Seq(Nat) /\ Increasing(s)
  BY DEF LongRuns
<1>2. \A k \in 1 .. Len(s) + 1 : d[k] \in Nat
  BY <1>1
<1>3. ASSUME NEW k \in 1 .. Len(s)
      PROVE  /\ s[k] \in Nat /\ d[k] \in Nat /\ d[k + 1] \in Nat
             /\ d[k + 1] - d[k] >= MIN_DUPLICATES
             /\ s[k] > 0 /\ s[k] + (d[k + 1] - d[k]) <= end /\ s[k] < end
  <2>1. s[k] \in Nat /\ d[k] \in Nat /\ d[k + 1] \in Nat
    BY SMTT(20), <1>1
  <2>2. /\ d[k + 1] - d[k] >= MIN_DUPLICATES
        /\ s[k] > 0 /\ s[k] + (d[k + 1] - d[k]) <= end
    BY DEF LongRuns
  <2>3. QED
    BY <2>1, <2>2, RunlengthAssumption
<1>4. QED
  BY <1>1, <1>2, <1>3

\* behind all runs, the place is the position less what was dropped
LEMMA BehindRuns ==
    ASSUME NEW s, NEW d, NEW end \in Nat, LongRuns(s, d, end), NEW i \in Nat, i >= end,
           NEW j, Cuts(s, j, i)
    PROVE  j = Len(s) /\ StoredAt(s, d, j, i) = i - d[Len(s) + 1]
<1>1. Len(s) \in Nat /\ s \in Seq(Nat) /\ d[1] = 0
  BY LongRunsType
<1>2. ASSUME NEW k \in 1 .. Len(s)
      PROVE  /\ s[k] \in Nat /\ d[k] \in Nat /\ d[k + 1] \in Nat
             /\ s[k] + (d[k + 1] - d[k]) <= end /\ s[k] < end
  BY LongRunsType
<1>3. j = Len(s)
  <2>1. \A k \in 1 .. Len(s) : s[k] <= i
    BY <1>2
  <2>2. QED
    BY <1>1, <2>1, CutsAll
<1>4. CASE Len(s) = 0
  <2>1. d[Len(s) + 1] = 0
    BY <1>1, <1>4
  <2>2. StoredAt(s, d, j, i) = i
    BY <1>3, <1>4 DEF StoredAt
  <2>3. QED
    BY <1>3, <2>1, <2>2
<1>5. CASE Len(s) # 0
  <2>1. j \in 1 .. Len(s) /\ j # 0
    BY <1>1, <1>3, <1>5
  <2>2. /\ s[j] \in Nat /\ d[j] \in Nat /\ d[j + 1] \in Nat
        /\ s[j] + (d[j + 1] - d[j]) <= end
    BY <1>2, <2>1
  <2>3. ~ (i - s[j] < d[j + 1] - d[j])
    BY <2>2
  <2>4. QED
    BY <1>3, <2>1, <2>3 DEF StoredAt
<1>6. QED
  BY <1>4, <1>5

(***************************************************************************)
(* Storing the values behind the runs: they are found at the end of the    *)
(* child, and the places of the earlier ones stay as they are.             *)
(***************************************************************************)
LEMMA StoredBehind ==
    ASSUME NEW s, NEW d, NEW c \in Seq(Nat), NEW vs, NEW ws,
           NEW h \in Nat, NEW end \in Nat, end <= h, NEW b \in Seq(Nat), NEW P \in Nat,
           LongRuns(s, d, end), d[Len(s) + 1] = P, Len(c) = h - P,
           RunsFind(s, d, c, vs, h),
           \A k \in 1 .. h : ws[k] = vs[k], \A k \in 1 .. Len(b) : ws[h + k] = b[k]
    PROVE  RunsFind(s, d, c \o b, ws, h + Len(b))
<1> DEFINE l == Len(c)
           n == Len(b)
           e == c \o b
<1>1. /\ l \in Nat /\ n \in Nat /\ e \in Seq(Nat) /\ Len(e) = l + n
      /\ \A k \in 1 .. l : e[k] = c[k]
      /\ \A k \in 1 .. n : e[l + k] = b[k]
  <2>1. /\ c \o b \in Seq(Nat) /\ Len(c \o b) = Len(c) + Len(b)
        /\ \A k \in 1 .. Len(c) : (c \o b)[k] = c[k]
        /\ \A k \in 1 .. Len(b) : (c \o b)[Len(c) + k] = b[k]
    BY Concatenated
  <2>2. Len(c) \in Nat /\ Len(b) \in Nat
    OBVIOUS
  <2>3. QED
    BY <2>1, <2>2
<1>2. l = h - P
  OBVIOUS
<1> HIDE DEF e, l, n
<1> DEFINE place(i, j) == StoredAt(s, d, j, i)
           Found(i, j) == /\ place(i, j) \in 0 .. Len(e) - 1
                          /\ e[place(i, j) + 1] = ws[i + 1]
           m == h + n
<1>3. ASSUME NEW i \in 0 .. m - 1, NEW j \in 0 .. Len(s), Cuts(s, j, i)
      PROVE  Found(i, j)
  <2> DEFINE k == StoredAt(s, d, j, i)
  <2>0. k = StoredAt(s, d, j, i)
    OBVIOUS
  <2> HIDE DEF k
  <2>1. CASE i < h
    <3>1. i \in 0 .. h - 1 /\ i + 1 \in 1 .. h
      BY <1>1, <2>1
    <3>2. k \in 0 .. Len(c) - 1 /\ c[k + 1] = vs[i + 1]
      BY <1>3, <2>0, <3>1 DEF RunsFind
    <3>3. k \in 0 .. Len(e) - 1 /\ k + 1 \in 1 .. l
      BY <1>1, <3>2 DEF l
    <3>4. e[k + 1] = c[k + 1] /\ ws[i + 1] = vs[i + 1]
      BY <1>1, <3>1, <3>3
    <3>5. k \in 0 .. Len(e) - 1 /\ e[k + 1] = ws[i + 1]
      BY <3>2, <3>3, <3>4
    <3>6. QED
      BY <3>5 DEF k
  <2>2. CASE i >= h
    <3>1. i \in Nat /\ i >= end
      BY <1>1, <2>2
    <3>2. k = i - P
      BY <1>3, <2>0, <3>1, BehindRuns
    <3> DEFINE a == i - h + 1
    <3>3. a \in 1 .. n /\ k + 1 = l + a /\ i + 1 = h + a /\ k \in 0 .. l + n - 1
      BY <1>1, <1>2, <2>2, <3>1, <3>2
    <3> HIDE DEF a
    <3>4. e[l + a] = b[a] /\ ws[h + a] = b[a]
      BY <1>1, <3>3 DEF n
    <3>5. k \in 0 .. Len(e) - 1
      BY SMTT(20), <1>1, <3>3
    <3>6. e[k + 1] = ws[i + 1]
      BY <3>3, <3>4
    <3>7. QED
      BY <3>5, <3>6 DEF k
  <2>3. i < h \/ i >= h
    BY <1>1
  <2>4. QED
    BY <2>1, <2>2, <2>3
<1> HIDE DEF m
<1>4. RunsFind(s, d, e, ws, m)
  BY <1>3 DEF RunsFind
<1>5. QED
  BY <1>4 DEF e, n, m

\* another run behind the others
MoreRuns(s, d, h, n, P, ss, dd) ==
    /\ LongRuns(ss, dd, h + n)
    /\ Len(ss) = Len(s) + 1 /\ ss[Len(s) + 1] = h
    /\ dd[Len(s) + 1] = P /\ dd[Len(s) + 2] = P + n
    /\ \A k \in 1 .. Len(s) : ss[k] = s[k] /\ s[k] < h /\ s[k] \in Nat
    /\ \A k \in 1 .. Len(s) + 1 : dd[k] = d[k]

\* a run more, behind the others
LEMMA LongRunsMore ==
    ASSUME NEW s, NEW d, NEW h \in Nat \ {0}, NEW n \in Nat, n >= MIN_DUPLICATES,
           NEW P \in Nat, LongRuns(s, d, h - 1), d[Len(s) + 1] = P,
           NEW ss, ss = Append(s, h), NEW dd, dd = Append(d, P + n)
    PROVE  MoreRuns(s, d, h, n, P, ss, dd)
<1> DEFINE R == Len(s)
<1>1. h - 1 \in Nat
  OBVIOUS
<1>2. /\ R \in Nat /\ Len(d) = R + 1 /\ d[1] = 0
      /\ s \in Seq(Nat) /\ d \in Seq(Nat) /\ Increasing(s)
      /\ \A k \in 1 .. R + 1 : d[k] \in Nat
  BY <1>1, LongRunsType
<1>3. \A k \in 1 .. R :
         /\ s[k] \in Nat /\ d[k] \in Nat /\ d[k + 1] \in Nat
         /\ d[k + 1] - d[k] >= MIN_DUPLICATES
         /\ s[k] > 0 /\ s[k] + (d[k + 1] - d[k]) <= h - 1 /\ s[k] < h - 1
  BY <1>1, LongRunsType
<1>4. /\ ss \in Seq(Nat) /\ Len(ss) = R + 1 /\ ss[R + 1] = h
      /\ \A k \in 1 .. R : ss[k] = s[k]
  BY <1>2, Appended
<1>5. /\ dd \in Seq(Nat) /\ Len(dd) = R + 2 /\ dd[R + 2] = P + n
      /\ \A k \in 1 .. R + 1 : dd[k] = d[k]
  <2>1. P + n \in Nat
    OBVIOUS
  <2>2. /\ dd \in Seq(Nat) /\ Len(dd) = Len(d) + 1 /\ dd[Len(d) + 1] = P + n
        /\ \A k \in 1 .. Len(d) : dd[k] = d[k]
    BY <1>2, <2>1, Appended
  <2>3. Len(d) + 1 = R + 2
    BY <1>2
  <2>4. QED
    BY <1>2, <2>2, <2>3
<1>6. Increasing(ss)
  <2>1. \A k \in 1 .. Len(s) : s[k] < h
    BY <1>3
  <2>2. h \in Nat
    OBVIOUS
  <2>3. Increasing(Append(s, h))
    BY <1>2, <2>1, <2>2, StillIncreasing
  <2>4. QED
    BY <2>3
<1>7. dd[R + 1] = P
  <2>1. R + 1 \in 1 .. R + 1
    BY <1>2
  <2>2. QED
    BY <1>5, <2>1
<1> HIDE DEF R
<1>8. ASSUME NEW k \in 1 .. R + 1
      PROVE  /\ dd[k + 1] - dd[k] >= MIN_DUPLICATES /\ ss[k] > 0
             /\ ss[k] + (dd[k + 1] - dd[k]) <= h + n
  <2>1. CASE k = R + 1
    <3>1. k + 1 = R + 2
      BY <1>2, <2>1
    <3>2. dd[k + 1] = P + n /\ dd[k] = P /\ ss[k] = h
      BY <1>4, <1>5, <1>7, <2>1, <3>1
    <3>3. (P + n) - P = n
      OBVIOUS
    <3>4. dd[k + 1] - dd[k] = n
      BY <3>2, <3>3
    <3> DEFINE x == dd[k + 1] - dd[k]
    <3>5. x = n
      BY <3>4
    <3> HIDE DEF x
    <3>6. x >= MIN_DUPLICATES /\ ss[k] > 0 /\ ss[k] + x <= h + n
      BY <3>2, <3>5, RunlengthAssumption
    <3>7. QED
      BY <3>6 DEF x
  <2>2. CASE k # R + 1
    <3>1. k \in 1 .. R /\ k \in 1 .. R + 1 /\ k + 1 \in 1 .. R + 1
      BY <1>2, <2>2
    <3>2. dd[k + 1] = d[k + 1] /\ dd[k] = d[k] /\ ss[k] = s[k]
      BY <1>4, <1>5, <3>1
    <3>3. /\ s[k] \in Nat /\ d[k] \in Nat /\ d[k + 1] \in Nat
          /\ d[k + 1] - d[k] >= MIN_DUPLICATES
          /\ s[k] > 0 /\ s[k] + (d[k + 1] - d[k]) <= h - 1
      BY <1>3, <3>1
    <3> DEFINE x == d[k + 1] - d[k]
             y == dd[k + 1] - dd[k]
             a == s[k]
    <3>4. y = x
      BY <3>2
    <3>5. x \in Int /\ x >= MIN_DUPLICATES /\ a \in Nat /\ a > 0 /\ a + x <= h - 1
      BY SMTT(20), <3>3
    <3> HIDE DEF x, y, a
    <3>6. y >= MIN_DUPLICATES /\ a > 0 /\ a + y <= h + n
      BY <3>4, <3>5, RunlengthAssumption
    <3>7. QED
      BY <3>2, <3>6 DEF y, a
  <2>3. QED
    BY <2>1, <2>2
<1>9. dd[1] = 0 /\ Len(dd) = Len(ss) + 1
  <2>1. 1 \in 1 .. R + 1 /\ (R + 1) + 1 = R + 2
    BY <1>2
  <2>2. QED
    BY <1>2, <1>4, <1>5, <2>1
<1>10. LongRuns(ss, dd, h + n)
  BY <1>4, <1>5, <1>6, <1>8, <1>9 DEF LongRuns
<1>11. \A k \in 1 .. R : s[k] < h
  BY <1>3
<1>12. QED
  BY <1>3, <1>4, <1>5, <1>7, <1>10, <1>11 DEF R, MoreRuns

(***************************************************************************)
(* Dropping the copies: another run, which leads to the value stored last. *)
(***************************************************************************)
LEMMA RunDropped ==
    ASSUME NEW s, NEW d, NEW c \in Seq(Nat), c # <<>>, NEW vs,
           NEW h \in Nat \ {0}, NEW n \in Nat, n >= MIN_DUPLICATES, NEW P \in Nat,
           LongRuns(s, d, h - 1), d[Len(s) + 1] = P, Len(c) = h - P,
           RunsFind(s, d, c, vs, h), \A k \in 1 .. n : vs[h + k] = LastOf(c),
           NEW ss, ss = Append(s, h), NEW dd, dd = Append(d, P + n)
    PROVE  RunsFind(ss, dd, c, vs, h + n)
<1> DEFINE R == Len(s)
           l == Len(c)
<1>1. l \in Nat \ {0} /\ l = h - P
  BY EmptySequence
<1>2. /\ LongRuns(ss, dd, h + n)
      /\ Len(ss) = R + 1 /\ ss[R + 1] = h
      /\ dd[R + 1] = P /\ dd[R + 2] = P + n
      /\ \A k \in 1 .. R : ss[k] = s[k] /\ s[k] < h /\ s[k] \in Nat
      /\ \A k \in 1 .. R + 1 : dd[k] = d[k]
  <2>1. MoreRuns(s, d, h, n, P, ss, dd)
    BY LongRunsMore
  <2>2. QED
    BY <2>1 DEF MoreRuns
<1>3. R \in Nat /\ s \in Seq(Nat) /\ ss \in Seq(Nat)
  BY <1>2 DEF LongRuns
<1> SUFFICES ASSUME NEW i \in 0 .. h + n - 1, NEW j \in 0 .. Len(ss), Cuts(ss, j, i),
                    NEW k, k = StoredAt(ss, dd, j, i)
             PROVE  k \in 0 .. Len(c) - 1 /\ c[k + 1] = vs[i + 1]
  BY DEF RunsFind
<1>4. CASE i < h
  <2>1. i \in 0 .. h - 1 /\ i \in Nat
    BY <1>4
  <2>2. Cuts(s, j, i)
    <3>1. h \in Nat /\ Cuts(Append(s, h), j, i)
      OBVIOUS
    <3>2. QED
      BY <1>3, <1>4, <2>1, <3>1, CutsShorter
  <2>3. j \in 0 .. R
    BY <2>2 DEF Cuts
  <2>4. k = StoredAt(s, d, j, i)
    <3>1. CASE j = 0
      BY <3>1 DEF StoredAt
    <3>2. CASE j # 0
      <4>1. j \in 1 .. R /\ j \in 1 .. R + 1 /\ j + 1 \in 1 .. R + 1
        BY <1>3, <2>3, <3>2
      <4>2. ss[j] = s[j] /\ dd[j] = d[j] /\ dd[j + 1] = d[j + 1]
        BY <1>2, <4>1
      <4>3. QED
        BY <4>2 DEF StoredAt
    <3>3. QED
      BY <3>1, <3>2
  <2>5. QED
    BY SMTT(20), <2>1, <2>2, <2>3, <2>4 DEF RunsFind
<1>5. CASE i >= h
  <2>1. i \in Nat
    OBVIOUS
  <2>2. j = R + 1
    <3>1. \A m \in 1 .. Len(ss) : ss[m] <= i
      <4> SUFFICES ASSUME NEW m \in 1 .. R + 1 PROVE ss[m] <= i
        BY <1>2
      <4>1. CASE m = R + 1
        BY <1>2, <1>5, <4>1
      <4>2. CASE m # R + 1
        <5>1. m \in 1 .. R
          BY SMTT(20), <1>3, <4>2
        <5>2. s[m] \in Nat /\ s[m] < h /\ ss[m] = s[m]
          BY <1>2, <5>1
        <5>3. QED
          BY SMTT(20), <1>5, <2>1, <5>2
      <4>3. QED
        BY <4>1, <4>2
    <3>2. j = Len(ss)
      BY <1>3, <2>1, <3>1, CutsAll
    <3>3. QED
      BY <1>2, <3>2
  <2>3. ss[j] = h /\ dd[j] = P /\ dd[j + 1] = P + n /\ j # 0
    <3>1. j + 1 = R + 2 /\ j # 0
      BY <1>3, <2>2
    <3>2. QED
      BY <1>2, <2>2, <3>1
  <2>4. i - h < (P + n) - P
    BY <1>5, <2>1
  <2>5. k = h - 1 - P
    BY <2>3, <2>4 DEF StoredAt
  <2>6. k \in 0 .. l - 1 /\ k + 1 = l
    BY SMTT(20), <1>1, <2>5
  <2> DEFINE a == i - h + 1
  <2>7. a \in 1 .. n /\ h + a = i + 1
    BY <1>5, <2>1
  <2> HIDE DEF a
  <2>8. vs[h + a] = LastOf(c)
    BY <2>7
  <2>9. QED
    BY <2>6, <2>7, <2>8 DEF LastOf
<1>6. i < h \/ i >= h
  OBVIOUS
<1>7. QED
  BY <1>4, <1>5, <1>6

\* while values are appended
RunsRecords ==
    [n : Nat, previousValue : Int, duplicatesOfPreviousValue : Nat,
     child : Seq(Nat), starts : Seq(Nat), prefixes : Seq(Nat), prefixTmp : Nat,
     startsEf : {<<>>}, prefixesEf : {<<>>}]

\* what is dropped in front of each run, and in all
LEMMA DroppedIs ==
    ASSUME NEW p \in Seq(Nat), NEW P \in Nat, NEW d, d = Append(p, P)
    PROVE  d \in Seq(Nat) /\ Len(d) = Len(p) + 1 /\ d[Len(p) + 1] = P
  BY Appended

\* copies of a value
LEMMA Copies ==
    ASSUME NEW v \in Nat, NEW n \in Nat, NEW b, b = [k \in 1 .. n |-> v]
    PROVE  b \in Seq(Nat) /\ Len(b) = n /\ \A k \in 1 .. n : b[k] = v
<1>1. b \in Seq(Nat) /\ Len(b) = n
  OBVIOUS
<1>2. QED
  BY <1>1

\* runs that end before a position end before a later one
LEMMA LongRunsLater ==
    ASSUME NEW s, NEW d, NEW end \in Nat, NEW later \in Nat, end <= later,
           LongRuns(s, d, end)
    PROVE  LongRuns(s, d, later)
<1>1. /\ Len(d) = Len(s) + 1 /\ d[1] = 0 /\ s \in Seq(Nat) /\ d \in Seq(Nat)
      /\ Increasing(s)
  BY DEF LongRuns
<1>2. ASSUME NEW k \in 1 .. Len(s)
      PROVE  /\ d[k + 1] - d[k] >= MIN_DUPLICATES /\ s[k] > 0
             /\ s[k] + (d[k + 1] - d[k]) <= later
  <2> DEFINE x == d[k + 1] - d[k]
             a == s[k]
  <2>1. /\ s[k] \in Nat /\ d[k] \in Nat /\ d[k + 1] \in Nat
        /\ d[k + 1] - d[k] >= MIN_DUPLICATES /\ s[k] > 0
        /\ s[k] + (d[k + 1] - d[k]) <= end
    BY LongRunsType
  <2>2. a \in Nat /\ x \in Int /\ x >= MIN_DUPLICATES /\ a > 0 /\ a + x <= end
    BY <2>1
  <2> HIDE DEF x, a
  <2>3. a + x <= later
    BY <2>2
  <2>4. QED
    BY <2>2, <2>3 DEF x, a
<1>3. QED
  BY <1>1, <1>2 DEF LongRuns

\* all values of vs have been handled
RunsHandled(f, vs) ==
    /\ f.n = Len(vs) /\ f.child # <<>>
    /\ Len(f.child) = Len(vs) - f.prefixTmp
    /\ Len(f.prefixes) = Len(f.starts)
    /\ LongRuns(f.starts, Dropped(f), Len(vs))
    /\ RunsFind(f.starts, Dropped(f), f.child, vs, Len(vs))

(***************************************************************************)
(* flushDuplicates handles the copies: few are stored, many are dropped.   *)
(***************************************************************************)
LEMMA RunsFlushed ==
    ASSUME NEW f \in RunsRecords, NEW vs \in Seq(Nat), vs # <<>>, RunsFollow(f, vs),
           NEW r, r = flushDuplicates(f)
    PROVE  r \in RunsRecords /\ RunsHandled(r, vs)
<1> DEFINE s == f.starts
           d == Dropped(f)
           c == f.child
           P == f.prefixTmp
           n == f.duplicatesOfPreviousValue
           h == Len(vs) - n
           v == f.previousValue
<1>1. /\ f \in RunsRecords /\ s \in Seq(Nat) /\ f.prefixes \in Seq(Nat) /\ c \in Seq(Nat)
      /\ P \in Nat /\ n \in Nat /\ f.n \in Nat
  BY DEF RunsRecords
<1>2. /\ f.n = Len(vs) /\ n \in 0 .. Len(vs) - 1
      /\ \A k \in h .. Len(vs) : vs[k] = v
      /\ c # <<>> /\ LastOf(c) = v /\ Len(c) = h - P
      /\ LongRuns(s, d, h - 1) /\ RunsFind(s, d, c, vs, h)
  BY DEF RunsFollow
<1>3. h \in Nat \ {0} /\ Len(vs) \in Nat /\ h + n = Len(vs) /\ h - 1 \in Nat
  BY <1>2
<1>4. /\ d \in Seq(Nat) /\ Len(d) = Len(f.prefixes) + 1 /\ d[Len(f.prefixes) + 1] = P
  <2>1. d = Append(f.prefixes, P)
    BY DEF Dropped
  <2>2. QED
    BY <1>1, <2>1, DroppedIs
<1>5. Len(d) = Len(s) + 1 /\ Len(s) \in Nat
  BY <1>2, <1>3, LongRunsType
<1>6. Len(f.prefixes) = Len(s) /\ d[Len(s) + 1] = P
  <2>1. Len(f.prefixes) \in Nat
    BY <1>1
  <2>2. Len(f.prefixes) = Len(s)
    BY SMTT(20), <1>4, <1>5, <2>1
  <2>3. QED
    BY <1>4, <2>2
<1>7. v \in Nat
  <2>1. Len(c) \in Nat \ {0}
    BY <1>1, <1>2, EmptySequence
  <2>2. c[Len(c)] \in Nat
    BY SMTT(20), <1>1, <2>1
  <2>3. QED
    BY <1>2, <2>2 DEF LastOf
<1>8. \A k \in 1 .. n : vs[h + k] = v
  <2> DEFINE m == Len(vs)
  <2>1. h \in Nat /\ m \in Nat /\ h + n = m /\ n \in Nat
    BY <1>1, <1>3
  <2>2. \A k \in h .. m : vs[k] = v
    BY <1>2
  <2> HIDE DEF h, n, m
  <2>3. \A k \in 1 .. n : h + k \in h .. m
    BY <2>1
  <2>4. QED
    BY <2>2, <2>3
<1>9. CASE n < MIN_DUPLICATES
  <2> DEFINE b == [k \in 1 .. n |-> v]
             e == c \o b
  <2>1. r = [f EXCEPT !.child = e]
    BY <1>9 DEF flushDuplicates
  <2>2. b \in Seq(Nat) /\ Len(b) = n /\ \A k \in 1 .. n : b[k] = v
    BY <1>1, <1>7, Copies
  <2> HIDE DEF b
  <2>3. e \in Seq(Nat) /\ Len(e) = Len(c) + n
    <3>1. c \o b \in Seq(Nat) /\ Len(c \o b) = Len(c) + Len(b)
      BY <1>1, <2>2, Concatenated
    <3>2. QED
      BY <2>2, <3>1
  <2>4. e # <<>>
    <3>1. Len(c) \in Nat /\ Len(c) # 0
      BY <1>1, <1>2, EmptySequence
    <3>2. Len(e) # 0
      BY <1>1, <2>3, <3>1
    <3>3. QED
      BY <2>3, <3>2, EmptySequence
  <2>5. RunsFind(s, d, e, vs, Len(vs))
    <3>1. \A k \in 1 .. Len(b) : vs[h + k] = b[k]
      BY <1>8, <2>2
    <3>2. \A k \in 1 .. h : vs[k] = vs[k]
      OBVIOUS
    <3> DEFINE end == h - 1
    <3>3. LongRuns(s, d, end) /\ end \in Nat /\ end <= h
      BY <1>2, <1>3
    <3> HIDE DEF end, s, d, c, P, h, n
    <3>4. RunsFind(s, d, c \o b, vs, h + Len(b))
      BY <1>1, <1>2, <1>3, <1>6, <2>2, <3>1, <3>2, <3>3, StoredBehind
    <3>5. h + Len(b) = Len(vs)
      BY <1>3, <2>2
    <3>6. QED
      BY <3>4, <3>5
  <2>6. LongRuns(s, d, Len(vs))
    <3> DEFINE end == h - 1
               later == Len(vs)
    <3>1. end \in Nat /\ later \in Nat /\ end <= later /\ LongRuns(s, d, end)
      BY <1>1, <1>2, <1>3
    <3> HIDE DEF s, d, end, later
    <3>2. LongRuns(s, d, later)
      BY <3>1, LongRunsLater
    <3>3. QED
      BY <3>2 DEF later
  <2> HIDE DEF e
  <2>7. /\ r \in RunsRecords /\ r.starts = s /\ r.prefixes = f.prefixes /\ r.prefixTmp = P
        /\ r.child = e /\ r.n = f.n
    BY <1>1, <2>1, <2>3 DEF RunsRecords
  <2>8. Dropped(r) = d
    BY <2>7 DEF Dropped
  <2>9. Len(e) = Len(vs) - P
    <3>1. Len(c) \in Nat /\ Len(c) = h - P
      BY SMTT(20), <1>1, <1>2
    <3> HIDE DEF c, P, h, n
    <3>2. QED
      BY <1>1, <1>3, <2>3, <3>1
  <2> HIDE DEF s, d, P
  <2>10. QED
    BY <1>2, <1>6, <2>4, <2>5, <2>6, <2>7, <2>8, <2>9 DEF RunsHandled
<1>10. CASE ~ (n < MIN_DUPLICATES)
  <2> DEFINE ss == Append(s, f.n - n)
             p == Append(f.prefixes, P)
             dd == Append(d, P + n)
             Q == P + n
  <2>1. r = [f EXCEPT !.starts = ss, !.prefixes = p, !.prefixTmp = Q]
    BY <1>10 DEF flushDuplicates
  <2>2. n >= MIN_DUPLICATES
    BY <1>1, <1>10, RunlengthAssumption
  <2>3. f.n - n = h
    BY <1>2
  <2>4. ss \in Seq(Nat) /\ p \in Seq(Nat) /\ Q \in Nat /\ Len(p) = Len(ss)
    <3>1. ss \in Seq(Nat) /\ Len(ss) = Len(s) + 1
      <4> HIDE DEF h
      <4>1. QED
        BY <1>1, <1>3, <2>3, Appended
    <3>2. p \in Seq(Nat) /\ Len(p) = Len(f.prefixes) + 1
      BY <1>1, Appended
    <3>3. QED
      BY <1>1, <1>6, <3>1, <3>2
  <2>5. p = d
    BY DEF Dropped
  <2> HIDE DEF ss, p, Q
  <2>6. /\ r \in RunsRecords /\ r.starts = ss /\ r.prefixes = p /\ r.prefixTmp = Q
        /\ r.child = c /\ r.n = f.n
    BY <1>1, <2>1, <2>4 DEF RunsRecords
  <2>7. Dropped(r) = dd
    BY <2>5, <2>6 DEF Dropped, Q
  <2>8. ss = Append(s, h)
    BY <2>3 DEF ss
  <2> HIDE DEF s, d, c, P, h, n, dd
  <2>9. dd = Append(d, P + n)
    BY DEF dd
  <2>10. MoreRuns(s, d, h, n, P, ss, dd)
    BY <1>1, <1>2, <1>3, <1>6, <2>2, <2>8, <2>9, LongRunsMore
  <2>11. RunsFind(ss, dd, c, vs, h + n)
    <3>1. \A k \in 1 .. n : vs[h + k] = LastOf(c)
      BY <1>2, <1>8
    <3>2. QED
      BY <1>1, <1>2, <1>3, <1>6, <2>2, <2>8, <2>9, <3>1, RunDropped
  <2>12. LongRuns(ss, dd, h + n)
    BY <2>10 DEF MoreRuns
  <2>13. Len(c) = Len(vs) - Q
    BY <1>1, <1>2, <1>3 DEF Q
  <2>14. QED
    BY <1>2, <1>3, <2>4, <2>6, <2>7, <2>11, <2>12, <2>13 DEF RunsHandled
<1>11. QED
  BY <1>9, <1>10

(***************************************************************************)
(* Another value behind the handled ones is stored.                        *)
(***************************************************************************)
LEMMA RunsTake ==
    ASSUME NEW g \in RunsRecords, NEW vs \in Seq(Nat), RunsHandled(g, vs),
           NEW x \in Nat,
           NEW r, r = [g EXCEPT !.child = Append(@, x), !.previousValue = x,
                                !.duplicatesOfPreviousValue = 0, !.n = @ + 1]
    PROVE  r \in RunsRecords /\ RunsFollow(r, Append(vs, x))
<1> DEFINE s == g.starts
           d == Dropped(g)
           c == g.child
           P == g.prefixTmp
           n == Len(vs)
           e == Append(c, x)
           ws == Append(vs, x)
<1>1. /\ s \in Seq(Nat) /\ g.prefixes \in Seq(Nat) /\ c \in Seq(Nat)
      /\ P \in Nat /\ g.n \in Nat
  BY DEF RunsRecords
<1>2. /\ g.n = n /\ Len(c) = n - P /\ Len(g.prefixes) = Len(s) /\ n \in Nat
      /\ LongRuns(s, d, n) /\ RunsFind(s, d, c, vs, n)
  BY DEF RunsHandled
<1>3. d[Len(s) + 1] = P
  <2>1. d = Append(g.prefixes, P)
    BY DEF Dropped
  <2>2. d[Len(g.prefixes) + 1] = P
    BY <1>1, <2>1, DroppedIs
  <2>3. QED
    BY <1>2, <2>2
<1>4. /\ ws \in Seq(Nat) /\ Len(ws) = n + 1 /\ ws[n + 1] = x /\ ws # <<>>
      /\ \A k \in 1 .. n : ws[k] = vs[k]
  BY Appended
<1>5. /\ e \in Seq(Nat) /\ Len(e) = Len(c) + 1 /\ e[Len(c) + 1] = x /\ e # <<>>
  BY <1>1, Appended
<1>6. r = [g EXCEPT !.child = e, !.previousValue = x,
                    !.duplicatesOfPreviousValue = 0, !.n = n + 1]
  BY <1>1, <1>2 DEF RunsRecords
<1>7. RunsFind(s, d, e, ws, n + 1)
  <2> DEFINE b == <<x>>
  <2>1. b \in Seq(Nat) /\ Len(b) = 1 /\ b[1] = x
    OBVIOUS
  <2>2. c \o b = e
    BY <1>1
  <2> HIDE DEF b, s, d, c, P, n, ws
  <2>3. \A k \in 1 .. Len(b) : ws[n + k] = b[k]
    <3> SUFFICES ASSUME NEW k \in 1 .. Len(b) PROVE ws[n + k] = b[k]
      OBVIOUS
    <3>1. k = 1
      BY <2>1
    <3>2. QED
      BY <1>4, <2>1, <3>1
  <2>4. n <= n
    BY <1>2
  <2>5. RunsFind(s, d, c \o b, ws, n + Len(b))
    BY <1>1, <1>2, <1>3, <1>4, <2>1, <2>3, <2>4, StoredBehind
  <2>6. QED
    BY <2>1, <2>2, <2>5
<1> HIDE DEF e
<1>8. /\ r \in RunsRecords /\ r.starts = s /\ r.prefixes = g.prefixes /\ r.prefixTmp = P
      /\ r.child = e /\ r.n = n + 1 /\ r.previousValue = x /\ r.duplicatesOfPreviousValue = 0
  <2> DEFINE m == n + 1
  <2>1. m \in Nat /\ x \in Int
    BY <1>2
  <2>2. r = [g EXCEPT !.child = e, !.previousValue = x,
                      !.duplicatesOfPreviousValue = 0, !.n = m]
    BY <1>6
  <2> HIDE DEF m
  <2>3. r \in RunsRecords
    <3>1. g \in RunsRecords /\ e \in Seq(Nat) /\ x \in Int /\ m \in Nat /\ 0 \in Nat
      BY <1>5, <2>1
    <3>2. QED
      BY <2>2, <3>1 DEF RunsRecords
  <2>4. r.starts = g.starts /\ r.prefixes = g.prefixes /\ r.prefixTmp = g.prefixTmp
    BY <2>2 DEF RunsRecords
  <2>5. r.child = e /\ r.n = m
    BY <2>2 DEF RunsRecords
  <2>6. r.previousValue = x /\ r.duplicatesOfPreviousValue = 0
    BY <2>2 DEF RunsRecords
  <2>7. QED
    BY <2>3, <2>4, <2>5, <2>6 DEF m
<1>9. Dropped(r) = d
  BY <1>8 DEF Dropped
<1> HIDE DEF s, d, P, c, n, ws
<1>10. /\ Len(ws) - 0 = n + 1 /\ (n + 1) - 1 = n /\ 0 \in 0 .. Len(ws) - 1
       /\ Len(e) = (n + 1) - P
  <2>1. P \in Nat /\ n \in Nat /\ Len(c) \in Nat /\ Len(c) = n - P
    BY <1>1, <1>2
  <2>2. Len(ws) = n + 1 /\ Len(e) = Len(c) + 1
    BY <1>4, <1>5
  <2> DEFINE a == Len(ws)
             b == Len(e)
             l == Len(c)
  <2>3. P \in Nat /\ n \in Nat /\ l \in Nat /\ l = n - P /\ a = n + 1 /\ b = l + 1
    BY <2>1, <2>2
  <2> HIDE DEF a, b, l
  <2>4. a - 0 = n + 1 /\ (n + 1) - 1 = n
    BY <2>3
  <2>5. 0 \in 0 .. a - 1
    BY <2>3
  <2>6. b = (n + 1) - P
    BY <2>3
  <2>7. QED
    BY <2>4, <2>5, <2>6 DEF a, b
<1>11. \A k \in n + 1 .. Len(ws) : ws[k] = x
  <2> SUFFICES ASSUME NEW k \in n + 1 .. Len(ws) PROVE ws[k] = x
    OBVIOUS
  <2>1. k = n + 1
    BY <1>2, <1>4
  <2>2. QED
    BY <1>4, <2>1
<1>12. LastOf(e) = x
  BY <1>5 DEF LastOf
<1>13. RunsFollow(r, ws)
  BY <1>2, <1>4, <1>5, <1>7, <1>8, <1>9, <1>10, <1>11, <1>12 DEF RunsFollow
<1>14. QED
  BY <1>8, <1>13 DEF ws

(***************************************************************************)
(* Appending a value keeps the filter in step with the values.             *)
(***************************************************************************)
LEMMA RunsAppended ==
    ASSUME NEW f \in RunsRecords, NEW vs \in Seq(Nat), RunsFollow(f, vs),
           NEW x \in Nat, NEW r, r = RunsAppend(f, x)
    PROVE  r \in RunsRecords /\ RunsFollow(r, Append(vs, x))
<1> DEFINE ws == Append(vs, x)
<1>1. f.n = Len(vs) /\ (vs = <<>> => f = EmptyRuns) /\ Len(vs) \in Nat
  BY DEF RunsFollow
<1>2. /\ ws \in Seq(Nat) /\ Len(ws) = Len(vs) + 1 /\ ws[Len(vs) + 1] = x /\ ws # <<>>
      /\ \A k \in 1 .. Len(vs) : ws[k] = vs[k]
  BY Appended
<1>3. CASE x = f.previousValue
  <2> DEFINE s == f.starts
             d == Dropped(f)
             c == f.child
             P == f.prefixTmp
             n == f.duplicatesOfPreviousValue
             m == Len(vs)
             h == m - n
             v == f.previousValue
             n1 == n + 1
             m1 == m + 1
  <2>1. vs # <<>>
    <3> SUFFICES ASSUME vs = <<>> PROVE FALSE
      OBVIOUS
    <3>1. f.previousValue = -1
      BY <1>1 DEF EmptyRuns
    <3>2. QED
      BY <1>3, <3>1
  <2>2. /\ n \in 0 .. m - 1
        /\ \A k \in h .. m : vs[k] = v
        /\ c \in Seq(Nat) /\ c # <<>> /\ LastOf(c) = v /\ Len(c) = h - P
        /\ LongRuns(s, d, h - 1) /\ RunsFind(s, d, c, vs, h)
    BY <2>1 DEF RunsFollow
  <2>3. r = [f EXCEPT !.duplicatesOfPreviousValue = n1, !.n = m1]
    <3>1. n \in Nat
      BY DEF RunsRecords
    <3>2. QED
      BY <1>1, <1>3, <3>1 DEF RunsAppend, RunsRecords
  <2>4. n1 \in Nat /\ m1 \in Nat /\ h \in Nat /\ m \in Nat /\ n \in Nat /\ m1 - n1 = h
        /\ n1 \in 0 .. m1 - 1
    <3>1. m \in Nat /\ n \in 0 .. m - 1
      BY <1>1, <2>2
    <3> HIDE DEF m, n
    <3>2. QED
      BY <3>1
  <2>5. f \in RunsRecords
    OBVIOUS
  <2> HIDE DEF n1, m1, m
  <2>6. r \in RunsRecords /\ r.starts = s /\ r.prefixes = f.prefixes /\ r.prefixTmp = P
        /\ r.child = c /\ r.n = m1 /\ r.duplicatesOfPreviousValue = n1 /\ r.previousValue = v
    BY <2>3, <2>4, <2>5 DEF RunsRecords
  <2>7. Dropped(r) = d
    BY <2>6 DEF Dropped
  <2>8. Len(ws) = m1
    BY <1>2 DEF m, m1
  <2>9. RunsFind(s, d, c, ws, h)
    <3> HIDE DEF s, d, c, h, ws
    <3>1. \A i \in 0 .. h - 1 : ws[i + 1] = vs[i + 1]
      <4> SUFFICES ASSUME NEW i \in 0 .. h - 1 PROVE ws[i + 1] = vs[i + 1]
        OBVIOUS
      <4>1. h <= m
        BY <2>4 DEF h, m
      <4>2. i + 1 \in 1 .. m
        BY <2>4, <4>1
      <4>3. QED
        BY <1>2, <4>2 DEF m
    <3>2. QED
      BY <2>2, <3>1 DEF RunsFind
  <2>10. \A k \in h .. m1 : ws[k] = v
    <3> SUFFICES ASSUME NEW k \in h .. m1 PROVE ws[k] = v
      OBVIOUS
    <3>1. CASE k = m1
      <4>1. ws[m1] = x
        BY <1>2 DEF m, m1
      <4>2. QED
        BY <1>3, <3>1, <4>1
    <3>2. CASE k # m1
      <4>1. m1 = m + 1 /\ h > 0
        BY <1>1, <2>2 DEF m, m1
      <4> HIDE DEF h, ws
      <4>2. k \in h .. m /\ k \in 1 .. m
        BY <2>4, <3>2, <4>1
      <4>3. QED
        BY <1>2, <2>2, <4>2 DEF m
    <3>3. QED
      BY <3>1, <3>2
  <2> HIDE DEF s, d, c, P, h, ws
  <2>11. RunsFollow(r, ws)
    BY <1>2, <2>2, <2>4, <2>6, <2>7, <2>8, <2>9, <2>10 DEF RunsFollow
  <2>12. QED
    BY <2>6, <2>11 DEF ws
<1>4. CASE x # f.previousValue /\ vs # <<>>
  <2> DEFINE g == flushDuplicates(f)
  <2>1. f.n # 0
    BY <1>1, <1>4, EmptySequence
  <2>2. r = [g EXCEPT !.child = Append(@, x), !.previousValue = x,
                      !.duplicatesOfPreviousValue = 0, !.n = @ + 1]
    BY <1>4, <2>1 DEF RunsAppend
  <2> HIDE DEF g
  <2>3. g \in RunsRecords /\ RunsHandled(g, vs)
    BY <1>4, RunsFlushed DEF g
  <2>4. QED
    BY <2>2, <2>3, RunsTake
<1>5. CASE x # f.previousValue /\ vs = <<>>
  <2> DEFINE c == <<x>>
             d == <<0>>
  <2>1. f = EmptyRuns /\ Len(vs) = 0 /\ ws = <<x>>
    BY <1>1, <1>5
  <2>2. r = [EmptyRuns EXCEPT !.child = Append(@, x), !.previousValue = x,
                      !.duplicatesOfPreviousValue = 0, !.n = @ + 1]
    BY <1>5, <2>1 DEF RunsAppend, EmptyRuns
  <2>3. Append(<<>>, x) = c /\ c \in Seq(Nat) /\ Len(c) = 1 /\ c[1] = x /\ c # <<>>
    OBVIOUS
  <2>4. Append(<<>>, 0) = d /\ d \in Seq(Nat) /\ Len(d) = 1 /\ d[1] = 0
    OBVIOUS
  <2>5. r = [n |-> 1, previousValue |-> x, duplicatesOfPreviousValue |-> 0,
             child |-> c, starts |-> <<>>, prefixes |-> <<>>, prefixTmp |-> 0,
             startsEf |-> <<>>, prefixesEf |-> <<>>]
    <3>1. EmptyRuns.child = <<>> /\ EmptyRuns.n = 0 /\ 0 + 1 = 1
      BY DEF EmptyRuns
    <3>2. r = [EmptyRuns EXCEPT !.child = c, !.previousValue = x,
                                !.duplicatesOfPreviousValue = 0, !.n = 1]
      BY <2>2, <2>3, <3>1
    <3> HIDE DEF c
    <3>3. QED
      BY <3>2 DEF EmptyRuns
  <2> HIDE DEF c, d
  <2>6. r \in RunsRecords
    BY <2>3, <2>5, EmptySequence DEF RunsRecords
  <2>7. Dropped(r) = d
    BY <2>4, <2>5 DEF Dropped
  <2>8. LongRuns(<<>>, d, 0)
    <3>1. Increasing(<<>>)
      BY EmptySequence DEF Increasing
    <3>2. QED
      BY <2>4, <3>1, EmptySequence DEF LongRuns
  <2>9. RunsFind(<<>>, d, c, ws, 1)
    <3> SUFFICES ASSUME NEW i \in 0 .. 1 - 1, NEW j \in 0 .. Len(<<>>)
                 PROVE  LET k == StoredAt(<<>>, d, j, i)
                        IN  k \in 0 .. Len(c) - 1 /\ c[k + 1] = ws[i + 1]
      BY DEF RunsFind
    <3>1. i = 0 /\ j = 0
      BY EmptySequence
    <3>2. StoredAt(<<>>, d, j, i) = 0
      BY <3>1 DEF StoredAt
    <3>3. QED
      BY <2>1, <2>3, <3>1, <3>2 DEF c
  <2>10. /\ Len(ws) = 1 /\ Len(ws) - 0 = 1 /\ 0 \in 0 .. Len(ws) - 1
         /\ \A k \in 1 .. Len(ws) : ws[k] = x
    BY <2>1
  <2>11. LastOf(c) = x
    BY <2>3 DEF LastOf
  <2>12. /\ r.n = 1 /\ r.previousValue = x /\ r.duplicatesOfPreviousValue = 0 /\ r.child = c
         /\ r.starts = <<>> /\ r.prefixTmp = 0
    BY <2>5
  <2>13. Len(c) = 1 - 0 /\ 1 - 1 = 0
    BY <2>3
  <2> HIDE DEF ws
  <2>14. RunsFollow(r, ws)
    BY <1>2, <2>3, <2>7, <2>8, <2>9, <2>10, <2>11, <2>12, <2>13 DEF RunsFollow
  <2>15. QED
    BY <2>6, <2>14 DEF ws
<1>6. QED
  BY <1>3, <1>4, <1>5

\* a new filter
LEMMA RunsEmpty ==
    EmptyRuns \in RunsRecords /\ RunsFollow(EmptyRuns, <<>>)
<1>1. EmptyRuns \in RunsRecords
  BY EmptySequence DEF EmptyRuns, RunsRecords
<1>2. QED
  BY <1>1, EmptySequence DEF EmptyRuns, RunsFollow

\* the first k elements
First(es, k) == [i \in 1 .. k |-> es[i]]

\* an element more
LEMMA FirstMore ==
    ASSUME NEW es \in Seq(Nat), NEW k \in Nat, k + 1 <= Len(es)
    PROVE  /\ First(es, k) \in Seq(Nat) /\ Len(First(es, k)) = k
           /\ es[k + 1] \in Nat
           /\ First(es, k + 1) = Append(First(es, k), es[k + 1])
<1> DEFINE f == First(es, k)
           g == First(es, k + 1)
           x == es[k + 1]
<1>1. \A i \in 1 .. k + 1 : es[i] \in Nat
  OBVIOUS
<1>2. f \in Seq(Nat) /\ Len(f) = k /\ \A i \in 1 .. k : f[i] = es[i]
  BY <1>1 DEF First
<1>3. x \in Nat
  BY <1>1
<1>4. g = [i \in 1 .. k + 1 |-> es[i]]
  BY DEF First
<1> HIDE DEF f, g
<1>5. Append(f, x) = [i \in 1 .. k + 1 |-> IF i <= k THEN f[i] ELSE x]
  BY <1>2, <1>3
<1>6. \A i \in 1 .. k + 1 : (IF i <= k THEN f[i] ELSE x) = es[i]
  <2> SUFFICES ASSUME NEW i \in 1 .. k + 1 PROVE (IF i <= k THEN f[i] ELSE x) = es[i]
    OBVIOUS
  <2>1. CASE i <= k
    BY <1>2, <2>1
  <2>2. CASE ~ (i <= k)
    <3>1. i = k + 1
      BY <2>2
    <3>2. QED
      BY <2>2, <3>1
  <2>3. QED
    BY <2>1, <2>2
<1>7. g = Append(f, x)
  BY <1>4, <1>5, <1>6
<1>8. QED
  BY <1>2, <1>3, <1>7 DEF f, g

(***************************************************************************)
(* Pushing the values of a sequence to a new EliasFanoM codes them.        *)
(***************************************************************************)
LEMMA FilledCodes ==
    ASSUME NEW num \in Nat, NEW maxValue \in Nat, PowersTo(2 * maxValue + 1),
           NEW es \in Seq(Nat), Len(es) <= num, NEW r, r = Filled(num, maxValue, es)
    PROVE  EFRecord(r) /\ Codes(r, es) /\ r.maxValue = maxValue
<1> DEFINE n == Len(es)
           z == EliasFanoM(num, maxValue)
           p == 2^z.width
           body(g) == [k \in 0 .. n |-> IF k = 0 THEN z ELSE push_back(g[k - 1], es[k])]
           c == CHOOSE g : g = body(g)
           V == {e \in [width : Nat, L : [0 .. num - 1 -> Nat], H : SUBSET Nat,
                        H_size : Nat, count : Nat, maxValue : Nat] : e.width = z.width}
           F == [vp \in V \X Nat |-> IF vp[2] \in 1 .. n THEN push_back(vp[1], es[vp[2]])
                                     ELSE vp[1]]
<1>1. n \in Nat /\ n <= num /\ \A k \in 1 .. n : es[k] \in Nat
  OBVIOUS
<1>2. EFRecord(z) /\ Codes(z, <<>>) /\ size(z) = num /\ z.maxValue = maxValue
  BY NewEliasFano
<1>3. r = c[n]
  BY DEF Filled
<1> HIDE DEF z
<1>4. p \in Nat \ {0} /\ z \in V
  BY <1>2 DEF EFRecord
<1> HIDE DEF p
<1>5. ASSUME NEW e \in V, NEW x \in Nat
      PROVE  push_back(e, x) \in V
  <2> DEFINE low == x % p
             high == x \div p
             bit == high + e.count
             L == [e.L EXCEPT ![e.count] = low]
             H == e.H \cup {bit}
             m == e.count + 1
  <2>1. high \in Nat /\ low \in 0 .. p - 1
    BY <1>4, Division
  <2>2. /\ e.count \in Nat /\ e.L \in [0 .. num - 1 -> Nat] /\ e.H \in SUBSET Nat
        /\ e.width = z.width
    OBVIOUS
  <2>3. low \in Nat /\ bit \in Nat /\ m \in Nat
    <3> HIDE DEF low, high
    <3>1. QED
      BY SMTT(20), <1>4, <2>1, <2>2
  <2>4. push_back(e, x) = [e EXCEPT !.L = L, !.H = H, !.count = m]
    BY <2>2 DEF push_back, p
  <2> HIDE DEF low, bit, m
  <2>5. L \in [0 .. num - 1 -> Nat] /\ H \in SUBSET Nat
    BY <2>2, <2>3
  <2> HIDE DEF L, H
  <2>6. QED
    BY <2>2, <2>3, <2>4, <2>5
<1> HIDE DEF V
<1>6. F \in [V \X Nat -> V]
  <2> SUFFICES ASSUME NEW vp \in V \X Nat
               PROVE  (IF vp[2] \in 1 .. n THEN push_back(vp[1], es[vp[2]]) ELSE vp[1]) \in V
    OBVIOUS
  <2>1. vp[1] \in V /\ vp[2] \in Nat
    OBVIOUS
  <2>2. QED
    BY <1>1, <1>5, <2>1
<1>7. PICK f : Unfolds(f, V, z, F, n)
  <2> HIDE DEF F, n
  <2>1. QED
    BY <1>1, <1>4, <1>6, Recursion
<1>8. f = body(f)
  <2>1. /\ f \in [0 .. n -> V] /\ f[0] = z
        /\ \A k \in 1 .. n : f[k] = F[<<f[k - 1], k>>]
    BY <1>7 DEF Unfolds
  <2>2. ASSUME NEW k \in 0 .. n
        PROVE  f[k] = IF k = 0 THEN z ELSE push_back(f[k - 1], es[k])
    <3>1. CASE k = 0
      BY <2>1, <3>1
    <3>2. CASE k # 0
      <4>1. k \in 1 .. n /\ k - 1 \in 0 .. n /\ k \in Nat
        BY <1>1, <3>2
      <4>2. f[k - 1] \in V
        BY <2>1, <4>1
      <4> DEFINE vp == <<f[k - 1], k>>
      <4>3. vp \in V \X Nat /\ vp[1] = f[k - 1] /\ vp[2] = k
        BY <4>1, <4>2
      <4> HIDE DEF vp
      <4>4. F[vp] = push_back(vp[1], es[vp[2]])
        BY <4>1, <4>3
      <4> HIDE DEF F
      <4>5. f[k] = F[vp]
        BY <2>1, <4>1 DEF vp
      <4>6. QED
        BY <3>2, <4>3, <4>4, <4>5
    <3>3. QED
      BY <3>1, <3>2
  <2>3. QED
    BY <2>1, <2>2
<1>9. c = body(c)
  <2>1. \E g : g = body(g)
    BY <1>8
  <2>2. QED
    BY <2>1
<1> HIDE DEF c, F
<1>10. c[0] = z /\ \A k \in 1 .. n : c[k] = push_back(c[k - 1], es[k])
  <2>1. \A k \in 0 .. n : c[k] = IF k = 0 THEN z ELSE push_back(c[k - 1], es[k])
    BY <1>9
  <2>2. 0 \in 0 .. n /\ \A k \in 1 .. n : k \in 0 .. n /\ k # 0
    BY <1>1
  <2>3. QED
    BY <2>1, <2>2
<1> DEFINE Is(k) == /\ EFRecord(c[k]) /\ Codes(c[k], First(es, k))
                    /\ c[k].maxValue = maxValue /\ size(c[k]) = num
           T == {k \in Nat : k <= n => Is(k)}
<1>11. 0 \in T
  <2>1. First(es, 0) = <<>>
    BY DEF First
  <2>2. QED
    BY <1>2, <1>10, <2>1
<1>12. ASSUME NEW k \in Nat, k \in T PROVE k + 1 \in T
  <2> SUFFICES ASSUME k + 1 <= n PROVE Is(k + 1)
    OBVIOUS
  <2> DEFINE ef == c[k]
             vs == First(es, k)
             x == es[k + 1]
             q == push_back(ef, x)
  <2>1. EFRecord(ef) /\ Codes(ef, vs) /\ ef.maxValue = maxValue /\ size(ef) = num
    BY <1>1, <1>12
  <2>2. /\ vs \in Seq(Nat) /\ Len(vs) = k /\ x \in Nat
        /\ First(es, k + 1) = Append(vs, x)
    <3>1. k + 1 <= Len(es)
      OBVIOUS
    <3>2. QED
      BY <3>1, FirstMore
  <2>3. c[k + 1] = q
    <3>1. k + 1 \in 1 .. n /\ (k + 1) - 1 = k
      BY <1>1
    <3>2. QED
      BY <1>10, <3>1
  <2> HIDE DEF ef, vs, x, q
  <2>4. Len(vs) < size(ef) /\ q = push_back(ef, x)
    BY <1>1, <2>1, <2>2 DEF q
  <2>5. /\ EFRecord(q) /\ Codes(q, Append(vs, x))
        /\ q.maxValue = ef.maxValue /\ size(q) = size(ef)
    BY <2>1, <2>2, <2>4, PushBack
  <2>6. QED
    BY <2>1, <2>2, <2>3, <2>5
<1>13. Is(n)
  <2> HIDE DEF Is
  <2>1. Nat \subseteq T
    <3> HIDE DEF T
    <3>1. QED
      BY <1>11, <1>12, AllNaturals
  <2>2. n \in T /\ n <= n
    BY <1>1, <2>1
  <2>3. QED
    BY <2>2
<1>14. First(es, n) = es
  BY DEF First
<1>15. QED
  BY <1>3, <1>13, <1>14

\* what does not fall from one element to the next does not fall
LEMMA StepsUp ==
    ASSUME NEW m \in Nat, NEW e, \A k \in 1 .. m : e[k] \in Int,
           \A k \in 1 .. m : k + 1 <= m => e[k] <= e[k + 1]
    PROVE  \A k, l \in 1 .. m : k <= l => e[k] <= e[l]
<1> DEFINE T == {t \in Nat : \A k \in 1 .. m : k + t <= m => e[k] <= e[k + t]}
<1>1. 0 \in T
  <2> SUFFICES ASSUME NEW k \in 1 .. m PROVE e[k] <= e[k + 0]
    OBVIOUS
  <2>1. k + 0 = k /\ e[k] \in Int
    OBVIOUS
  <2>2. QED
    BY <2>1
<1>2. ASSUME NEW t \in Nat, t \in T PROVE t + 1 \in T
  <2> SUFFICES ASSUME NEW k \in 1 .. m, k + (t + 1) <= m PROVE e[k] <= e[k + (t + 1)]
    OBVIOUS
  <2> DEFINE l == k + t
  <2>1. l \in 1 .. m /\ l + 1 \in 1 .. m /\ k + (t + 1) = l + 1 /\ l + 1 <= m /\ l <= m
    OBVIOUS
  <2>2. e[k] <= e[l]
    BY <1>2, <2>1
  <2> HIDE DEF l
  <2>3. e[l] <= e[l + 1]
    BY <2>1
  <2>4. e[k] \in Int /\ e[l] \in Int /\ e[l + 1] \in Int
    BY <2>1
  <2>5. QED
    BY <2>1, <2>2, <2>3, <2>4
<1>3. Nat \subseteq T
  <2> HIDE DEF T
  <2> QED
    BY <1>1, <1>2, AllNaturals
<1> SUFFICES ASSUME NEW k \in 1 .. m, NEW l \in 1 .. m, k <= l PROVE e[k] <= e[l]
  OBVIOUS
<1> DEFINE t == l - k
<1>4. t \in Nat /\ k + t = l /\ k + t <= m
  OBVIOUS
<1>5. e[k] <= e[k + t]
  BY <1>3, <1>4
<1>6. QED
  BY <1>4, <1>5

\* the copies dropped in front of each run, less the fewest there can be
Excess(d, m) == [k \in 1 .. m |-> d[k] - (k - 1) * MIN_DUPLICATES]

\* the excesses are in order, from zero to at most what is dropped in all
LEMMA ExcessOrdered ==
    ASSUME NEW s, NEW d, NEW end \in Nat, LongRuns(s, d, end), NEW m, m = Len(s) + 1
    PROVE  /\ Excess(d, m) \in Seq(Nat) /\ Len(Excess(d, m)) = m
           /\ \A k, l \in 1 .. m : k <= l => Excess(d, m)[k] <= Excess(d, m)[l]
           /\ Excess(d, m)[m] <= d[m]
<1> DEFINE M == MIN_DUPLICATES
           e == Excess(d, m)
           back(k) == (k - 1) * M
<1>1. m \in Nat \ {0} /\ d[1] = 0 /\ \A k \in 1 .. m : d[k] \in Nat
  <2>1. Len(s) \in Nat /\ d[1] = 0 /\ \A k \in 1 .. Len(s) + 1 : d[k] \in Nat
    BY LongRunsType
  <2>2. QED
    BY <2>1
<1>2. \A k \in 1 .. m : k + 1 <= m => d[k + 1] - d[k] >= M
  <2> SUFFICES ASSUME NEW k \in 1 .. m, k + 1 <= m PROVE d[k + 1] - d[k] >= M
    OBVIOUS
  <2>1. Len(s) \in Nat
    BY LongRunsType
  <2>2. k \in 1 .. Len(s)
    BY <2>1
  <2>3. QED
    BY <2>2, LongRunsType
<1>3. M \in Nat
  BY RunlengthAssumption
<1>4. \A k \in 1 .. m : e[k] = d[k] - back(k)
  BY DEF Excess
<1>5. \A k \in 1 .. m : back(k) \in Nat /\ back(k + 1) = back(k) + M
  <2> SUFFICES ASSUME NEW k \in 1 .. m PROVE back(k) \in Nat /\ back(k + 1) = back(k) + M
    OBVIOUS
  <2> DEFINE q == k - 1
  <2>1. q \in Nat /\ (k + 1) - 1 = q + 1
    BY <1>1
  <2> HIDE DEF q, M
  <2>2. q * M \in Nat /\ (q + 1) * M = q * M + M
    BY <1>3, <2>1
  <2>3. back(k) = q * M /\ back(k + 1) = (q + 1) * M
    BY <2>1 DEF q
  <2> HIDE DEF back
  <2>4. QED
    BY <2>2, <2>3
<1>6. back(1) = 0
  <2>1. 1 - 1 = 0 /\ 0 * M = 0
    BY <1>3
  <2>2. QED
    BY <2>1
<1> HIDE DEF back, e, M
<1>7. \A k \in 1 .. m : e[k] \in Int
  BY <1>1, <1>4, <1>5
<1>8. \A k \in 1 .. m : k + 1 <= m => e[k] <= e[k + 1]
  <2> SUFFICES ASSUME NEW k \in 1 .. m, k + 1 <= m PROVE e[k] <= e[k + 1]
    OBVIOUS
  <2>1. k + 1 \in 1 .. m
    BY <1>1
  <2> DEFINE l == k + 1
  <2>2. e[k] = d[k] - back(k) /\ e[l] = d[l] - back(l)
    BY <1>4, <2>1
  <2>3. d[l] - d[k] >= M /\ back(k) \in Nat /\ back(l) = back(k) + M
    BY <1>2, <1>5
  <2>4. d[k] \in Nat /\ d[l] \in Nat
    BY <1>1, <2>1
  <2> HIDE DEF l
  <2>5. e[k] <= e[l]
    BY <1>3, <2>2, <2>3, <2>4
  <2>6. QED
    BY <2>5 DEF l
<1>9. \A k, l \in 1 .. m : k <= l => e[k] <= e[l]
  <2>1. m \in Nat
    BY <1>1
  <2>2. QED
    BY <1>7, <1>8, <2>1, StepsUp
<1>10. \A k \in 1 .. m : e[k] \in Nat
  <2> SUFFICES ASSUME NEW k \in 1 .. m PROVE e[k] \in Nat
    OBVIOUS
  <2>1. 1 \in 1 .. m /\ 1 <= k
    BY <1>1
  <2>2. e[1] = 0
    BY <1>1, <1>4, <1>6, <2>1
  <2>3. e[1] <= e[k] /\ e[k] \in Int
    BY <1>7, <1>9, <2>1
  <2>4. QED
    BY <2>2, <2>3
<1>11. e \in Seq(Nat) /\ Len(e) = m
  <2>1. e = [k \in 1 .. m |-> e[k]]
    BY DEF e, Excess
  <2>2. m \in Nat
    BY <1>1
  <2>3. e \in [1 .. m -> Nat]
    BY <1>10, <2>1
  <2>4. QED
    BY <2>2, <2>3
<1>12. e[m] <= d[m]
  <2>1. m \in 1 .. m
    BY <1>1
  <2>2. e[m] = d[m] - back(m) /\ back(m) \in Nat /\ d[m] \in Nat
    BY <1>1, <1>4, <1>5, <2>1
  <2>3. QED
    BY <2>2
<1>13. QED
  BY <1>9, <1>11, <1>12 DEF e

\* the starts, and the end behind them, are in order
LEMMA StartsOrdered ==
    ASSUME NEW s, NEW d, NEW n \in Nat, LongRuns(s, d, n), NEW ss, ss = Append(s, n)
    PROVE  /\ Len(s) \in Nat /\ ss \in Seq(Nat) /\ Len(ss) = Len(s) + 1
           /\ ss[Len(s) + 1] = n /\ (\A k \in 1 .. Len(s) : ss[k] = s[k])
           /\ Ordered(ss, n + 1)
<1> DEFINE R == Len(s)
           m == R + 1
<1>1. R \in Nat /\ s \in Seq(Nat) /\ Increasing(s)
  BY LongRunsType
<1>2. \A k \in 1 .. R : s[k] \in Nat /\ s[k] < n
  BY LongRunsType
<1>3. /\ ss \in Seq(Nat) /\ Len(ss) = m /\ ss[m] = n
      /\ \A k \in 1 .. R : ss[k] = s[k]
  BY <1>1, Appended
<1> HIDE DEF R
<1>4. Increasing(ss)
  <2>1. \A k \in 1 .. Len(s) : s[k] < n
    BY <1>2 DEF R
  <2>2. QED
    BY <1>1, <2>1, StillIncreasing
<1>5. \A k \in 1 .. m : ss[k] \in Nat /\ ss[k] <= n
  <2> SUFFICES ASSUME NEW k \in 1 .. m PROVE ss[k] \in Nat /\ ss[k] <= n
    OBVIOUS
  <2>1. CASE k = m
    BY <1>3, <2>1
  <2>2. CASE k # m
    <3>1. k \in 1 .. R
      BY <1>1, <2>2
    <3>2. QED
      BY <1>2, <1>3, <3>1
  <2>3. QED
    BY <2>1, <2>2
<1>6. Ordered(ss, n + 1)
  <2>1. ASSUME NEW k \in 1 .. Len(ss), NEW l \in 1 .. Len(ss), k <= l
        PROVE  ss[k] <= ss[l]
    <3>1. ss[k] \in Nat /\ ss[l] \in Nat
      BY <1>3, <1>5
    <3>2. CASE k = l
      BY <3>1, <3>2
    <3>3. CASE k < l
      BY SMTT(20), <1>4, <3>1, <3>3 DEF Increasing
    <3>4. k = l \/ k < l
      BY <1>3, <2>1
    <3>5. QED
      BY <3>2, <3>3, <3>4
  <2>2. \A k \in 1 .. Len(ss) : ss[k] <= n + 1
    BY <1>3, <1>5
  <2>3. QED
    BY <2>1, <2>2 DEF Ordered
<1>7. QED
  BY <1>1, <1>3, <1>6 DEF R

(***************************************************************************)
(* The two Elias-Fano sequences code the starts and the excesses.          *)
(***************************************************************************)
RunsCoded(r, s, d, c, n) ==
    /\ EFRecord(r.startsEf) /\ Codes(r.startsEf, Append(s, n))
    /\ r.startsEf.maxValue = n + 1
    /\ EFRecord(r.prefixesEf) /\ Codes(r.prefixesEf, Excess(d, Len(s) + 1))
    /\ r.child = c

\* a completed filter codes them
LEMMA RunsAreCoded ==
    ASSUME NEW f \in RunsRecords, NEW vs \in Seq(Nat), vs # <<>>, RunsFollow(f, vs),
           Len(vs) <= MaxLength, NEW r, r = RunsComplete(f),
           NEW g, g = flushDuplicates(f)
    PROVE  RunsCoded(r, g.starts, Dropped(g), g.child, Len(vs))
<1> DEFINE s == g.starts
           d == Dropped(g)
           n == Len(vs)
           m == Len(s) + 1
           ss == Append(s, n)
           e == Excess(d, m)
           E == e[m] + 1
           A == Filled(m, n + 1, ss)
           B == Filled(m, E, e)
<1>1. g \in RunsRecords /\ RunsHandled(g, vs)
  BY RunsFlushed
<1>2. /\ g.n = n /\ n \in Nat \ {0} /\ LongRuns(s, d, n)
      /\ Len(g.child) = n - g.prefixTmp /\ Len(g.prefixes) = Len(s)
  BY <1>1, EmptySequence DEF RunsHandled
<1>3. f.n = n
  BY DEF RunsFollow
<1>4. /\ Len(s) \in Nat /\ ss \in Seq(Nat) /\ Len(ss) = m
  <2> HIDE DEF s, d, n
  <2>1. n \in Nat /\ ss = Append(s, n)
    BY <1>2
  <2>2. QED
    BY ZenonT(30), <1>2, <2>1, StartsOrdered
<1>5. /\ e \in Seq(Nat) /\ Len(e) = m /\ e[m] <= d[m]
  <2> HIDE DEF s, d, n
  <2>1. n \in Nat /\ m = Len(s) + 1
    BY <1>2
  <2>2. QED
    BY <1>2, <2>1, ExcessOrdered
<1>6. r = [g EXCEPT !.starts = <<>>, !.prefixes = <<>>, !.startsEf = A, !.prefixesEf = B]
  <2> DEFINE starts == Append(g.starts, g.n)
             excess == [k \in 1 .. Len(starts) |->
                           Append(g.prefixes, g.prefixTmp)[k] - (k - 1) * MIN_DUPLICATES]
  <2>1. starts = ss
    BY <1>2
  <2>2. excess = e
    BY <1>4, <2>1 DEF Excess, Dropped
  <2>3. r = [g EXCEPT !.starts = <<>>, !.prefixes = <<>>,
                      !.startsEf = Filled(Len(starts), g.n + 1, starts),
                      !.prefixesEf = Filled(Len(starts), excess[Len(excess)] + 1, excess)]
    BY ZenonT(30), <1>2, <1>3 DEF RunsComplete
  <2> HIDE DEF starts, excess, ss, e
  <2>4. QED
    BY <1>2, <1>4, <1>5, <2>1, <2>2, <2>3
<1>7. MaxLength \in Nat /\ n <= MaxLength /\ MaxLength \in {MaxLength, MaxValue}
  BY BoundsAssumption
<1>8. EFRecord(A) /\ Codes(A, ss) /\ A.maxValue = n + 1
  <2> DEFINE u == n + 1
  <2>1. u \in Nat /\ u <= MaxLength + 1 /\ m \in Nat
    BY <1>2, <1>4, <1>7
  <2> HIDE DEF u
  <2>2. PowersTo(2 * u + 1)
    BY <1>7, <2>1, PowersFor
  <2> HIDE DEF m, ss
  <2>3. Len(ss) <= m
    BY <1>4, <2>1
  <2>4. EFRecord(Filled(m, u, ss)) /\ Codes(Filled(m, u, ss), ss)
        /\ Filled(m, u, ss).maxValue = u
    BY <1>4, <2>1, <2>2, <2>3, FilledCodes
  <2>5. QED
    BY <2>4 DEF u
<1>9. EFRecord(B) /\ Codes(B, e)
  <2>1. d[m] = g.prefixTmp
    <3>1. g.prefixes \in Seq(Nat) /\ g.prefixTmp \in Nat
      BY <1>1 DEF RunsRecords
    <3>2. Append(g.prefixes, g.prefixTmp)[Len(g.prefixes) + 1] = g.prefixTmp
      BY <3>1, DroppedIs
    <3>3. QED
      BY <1>2, <3>2 DEF Dropped
  <2>2. g.prefixTmp <= n
    <3>1. g.child \in Seq(Nat) /\ g.prefixTmp \in Nat
      BY <1>1 DEF RunsRecords
    <3>2. Len(g.child) \in Nat
      BY <3>1
    <3>3. QED
      BY <1>2, <3>1, <3>2
  <2>3. g.prefixTmp \in Nat
    BY <1>1 DEF RunsRecords
  <2>4. m \in Nat \ {0}
    BY <1>4
  <2> HIDE DEF e, d, m, n
  <2>5. e[m] \in Nat
    <3>1. m \in 1 .. m
      BY <2>4
    <3>2. QED
      BY <1>5, <3>1
  <2>6. E \in Nat /\ E <= MaxLength + 1
    <3> DEFINE x == e[m]
               P == g.prefixTmp
    <3>1. n \in Nat /\ x <= P
      BY <1>2, <1>5, <2>1
    <3>2. x \in Nat /\ P \in Nat /\ P <= n
      BY <2>2, <2>3, <2>5
    <3> HIDE DEF x, P
    <3>3. x + 1 \in Nat /\ x + 1 <= MaxLength + 1
      BY <1>7, <3>1, <3>2
    <3>4. QED
      BY <3>3 DEF x
  <2> HIDE DEF E
  <2>7. PowersTo(2 * E + 1)
    BY <1>7, <2>6, PowersFor
  <2>8. Len(e) <= m
    BY <1>5, <2>4
  <2>9. EFRecord(Filled(m, E, e)) /\ Codes(Filled(m, E, e), e)
    BY <1>5, <2>4, <2>6, <2>7, <2>8, FilledCodes
  <2>10. QED
    BY <2>9
<1> HIDE DEF A, B
<1>10. r.startsEf = A /\ r.prefixesEf = B /\ r.child = g.child
  BY <1>1, <1>6 DEF RunsRecords
<1>11. QED
  BY <1>8, <1>9, <1>10 DEF RunsCoded

(***************************************************************************)
(* A completed filter returns the values: the predecessor among the starts *)
(* is the run that cuts at the position.                                   *)
(***************************************************************************)
LEMMA RunsCompleted ==
    ASSUME NEW f \in RunsRecords, NEW vs \in Seq(Nat), vs # <<>>, RunsFollow(f, vs),
           Len(vs) <= MaxLength, NEW r, r = RunsComplete(f), NEW i \in 0 .. Len(vs) - 1
    PROVE  /\ RunsIndex(r, i) \in 0 .. Len(r.child) - 1
           /\ RunsAt(r, i) = vs[i + 1]
<1> DEFINE g == flushDuplicates(f)
           s == g.starts
           d == Dropped(g)
           c == g.child
           n == Len(vs)
           R == Len(s)
           m == R + 1
           ss == Append(s, n)
           e == Excess(d, m)
           A == r.startsEf
           B == r.prefixesEf
           M == MIN_DUPLICATES
<1>1. RunsHandled(g, vs) /\ RunsCoded(r, s, d, c, n)
  BY RunsFlushed, RunsAreCoded
<1>2. n \in Nat /\ LongRuns(s, d, n) /\ RunsFind(s, d, c, vs, n)
  BY <1>1 DEF RunsHandled
<1> HIDE DEF g, s, d, c, n
<1>3. /\ R \in Nat /\ ss \in Seq(Nat) /\ Len(ss) = m
      /\ ss[m] = n /\ (\A k \in 1 .. R : ss[k] = s[k]) /\ Ordered(ss, n + 1)
  <2>1. ss = Append(s, n)
    OBVIOUS
  <2>2. QED
    BY <1>2, <2>1, StartsOrdered
<1>4. /\ e \in Seq(Nat) /\ Len(e) = m /\ \A k, l \in 1 .. m : k <= l => e[k] <= e[l]
  <2>1. m = Len(s) + 1
    OBVIOUS
  <2>2. QED
    BY <1>2, <2>1, ExcessOrdered
<1>5. /\ EFRecord(A) /\ Codes(A, ss) /\ A.maxValue = n + 1
      /\ EFRecord(B) /\ Codes(B, e) /\ r.child = c
  BY <1>1 DEF RunsCoded
<1>6. i \in Nat /\ i < n /\ i \in 0 .. n - 1
  BY <1>2 DEF n
<1>7. \A k \in 1 .. m : e[k] = d[k] - (k - 1) * M
  BY DEF Excess
<1>8. \A k \in 1 .. m : d[k] \in Nat
  BY <1>2, LongRunsType
<1> HIDE DEF m, ss, e, A, B, M
<1>9. m = R + 1 /\ M \in Nat
  BY RunlengthAssumption DEF m, M
<1>10. Ordered(ss, A.maxValue) /\ Ordered(e, e[m])
  <2>1. \A k \in 1 .. m : k <= m /\ m \in 1 .. m
    BY <1>3, <1>9
  <2>2. \A k \in 1 .. m : e[k] <= e[m]
    BY <1>4, <2>1
  <2>3. QED
    BY <1>3, <1>4, <1>5, <2>2 DEF Ordered
<1> HIDE DEF R
<1>11. \A k, l \in 1 .. m : k <= l => ss[k] <= ss[l]
  BY <1>3, <1>10 DEF Ordered
<1>12. \A k \in 1 .. m : ss[k] \in Nat
  BY <1>3
<1>13. Element(A, at(A, 0)) = ss[1]
  <2>1. 0 \in 0 .. Len(ss) - 1
    BY <1>3, <1>9
  <2>2. Element(A, at(A, 0)) = ss[0 + 1]
    BY <1>3, <1>5, <1>10, <2>1, AtIs
  <2>3. QED
    BY <2>2
<1>14. SUFFICES \E j \in 0 .. R : Cuts(s, j, i) /\ RunsIndex(r, i) = StoredAt(s, d, j, i)
  <2>1. PICK j \in 0 .. R : Cuts(s, j, i) /\ RunsIndex(r, i) = StoredAt(s, d, j, i)
    BY <1>14
  <2> DEFINE k == RunsIndex(r, i)
  <2>2. StoredAt(s, d, j, i) \in 0 .. Len(c) - 1 /\ c[StoredAt(s, d, j, i) + 1] = vs[i + 1]
    BY <1>2, <1>6, <2>1 DEF RunsFind, R
  <2>3. k \in 0 .. Len(c) - 1 /\ c[k + 1] = vs[i + 1]
    BY <2>1, <2>2
  <2>4. RunsAt(r, i) = c[k + 1]
    BY <1>5 DEF RunsAt
  <2>5. QED
    BY <1>5, <2>3, <2>4
<1>15. CASE i < ss[1]
  <2>1. RunsIndex(r, i) = i
    BY <1>13, <1>15 DEF RunsIndex, A
  <2>2. Cuts(s, 0, i)
    <3>1. ASSUME NEW k \in 1 .. R PROVE s[k] > i
      <4>1. k \in 1 .. m /\ 1 \in 1 .. m /\ 1 <= k
        BY <1>3, <1>9
      <4>2. ss[1] <= ss[k] /\ ss[k] = s[k] /\ ss[1] \in Nat /\ ss[k] \in Nat
        BY <1>3, <1>11, <1>12, <4>1
      <4>3. QED
        BY <1>6, <1>15, <4>2
    <3>2. 0 \in 0 .. R /\ \A k \in 0 + 1 .. R : k \in 1 .. R
      BY <1>3
    <3>3. \A k \in 1 .. 0 : FALSE
      OBVIOUS
    <3>4. QED
      BY <3>1, <3>2, <3>3 DEF Cuts, R
  <2>3. StoredAt(s, d, 0, i) = i /\ 0 \in 0 .. R
    BY <1>3 DEF StoredAt
  <2>4. QED
    BY <2>1, <2>2, <2>3
<1>16. CASE ~ (i < ss[1])
  <2>1. ss[1] \in Nat /\ ss # <<>>
    <3>1. 1 \in 1 .. m /\ Len(ss) # 0
      BY <1>3, <1>9
    <3>2. QED
      BY <1>3, <1>12, <3>1, EmptySequence
  <2>2. PICK q \in 0 .. Len(ss) - 1 :
            /\ predecessorPosition(A, i) = at(A, q)
            /\ ss[q + 1] <= i
            /\ \A k \in q + 1 .. Len(ss) - 1 : ss[k + 1] > i
    <3>1. ss[1] <= i /\ i <= A.maxValue
      BY <1>2, <1>5, <1>6, <1>16, <2>1
    <3>2. QED
      BY <1>3, <1>5, <1>6, <1>10, <2>1, <3>1, PredecessorIs
  <2> DEFINE j == q + 1
  <2>3. j \in 1 .. R /\ q \in Nat /\ q \in 0 .. Len(ss) - 1 /\ j \in 1 .. m
        /\ j + 1 \in 1 .. m /\ q + 1 \in 0 .. m - 1 /\ q \in 0 .. m - 1 /\ j # 0
    <3>1. q \in Nat /\ q <= R
      BY <1>3, <1>9
    <3>2. q # R
      <4> SUFFICES ASSUME q = R PROVE FALSE
        OBVIOUS
      <4>1. ss[m] <= i
        BY <1>9, <2>2
      <4>2. QED
        BY <1>2, <1>3, <1>6, <4>1
    <3>3. QED
      BY <1>3, <1>9, <3>1, <3>2
  <2>4. Cuts(s, j, i)
    <3>1. ASSUME NEW k \in 1 .. j PROVE s[k] <= i
      <4>1. k \in 1 .. R /\ k \in 1 .. m /\ k <= j
        BY <1>3, <1>9, <2>3
      <4>2. ss[k] <= ss[j] /\ ss[k] = s[k] /\ ss[k] \in Nat /\ ss[j] \in Nat
        BY <1>3, <1>11, <1>12, <2>3, <4>1
      <4>3. ss[j] <= i
        BY <2>2
      <4>4. QED
        BY <1>6, <4>2, <4>3
    <3>2. ASSUME NEW k \in j + 1 .. R PROVE s[k] > i
      <4>1. k - 1 \in q + 1 .. Len(ss) - 1 /\ (k - 1) + 1 = k /\ k \in 1 .. R
        BY <1>3, <1>9, <2>3
      <4>2. ss[k] > i
        BY <2>2, <4>1
      <4>3. QED
        BY <1>3, <4>1, <4>2
    <3>3. j \in 0 .. R
      BY <1>3, <2>3
    <3>4. QED
      BY <3>1, <3>2, <3>3 DEF Cuts, R
  <2>5. /\ at(A, q).positionL = q /\ Element(A, at(A, q)) = s[j]
    <3>1. at(A, q) = Pointer(Bits(ss, 2^A.width, 0)[q], q) /\ Element(A, at(A, q)) = ss[q + 1]
      BY <1>3, <1>5, <1>10, <2>3, AtIs
    <3>2. at(A, q).positionL = q
      BY <3>1 DEF Pointer
    <3>3. QED
      BY <1>3, <2>3, <3>1, <3>2
  <2>6. /\ Element(B, at(B, q)) = e[j]
        /\ Element(B, Increment(B, at(B, q))) = e[j + 1]
    <3>1. q \in 0 .. Len(e) - 1 /\ q + 1 \in 0 .. Len(e) - 1
      BY <1>4, <2>3
    <3>2. Element(B, at(B, q)) = e[q + 1]
      BY <1>4, <1>5, <1>10, <3>1, AtIs
    <3>3. Increment(B, at(B, q)) = at(B, q + 1)
      BY <1>4, <1>5, <1>10, <3>1, EliasFanoIterates
    <3>4. Element(B, at(B, j)) = e[j + 1]
      <4> HIDE DEF j
      <4>1. j \in 0 .. Len(e) - 1
        BY <3>1 DEF j
      <4>2. QED
        BY <1>4, <1>5, <1>10, <4>1, AtIs
    <3>5. QED
      BY <3>2, <3>3, <3>4
  <2>7. e[j] + q * M = d[j] /\ e[j + 1] + (q + 1) * M = d[j + 1]
    <3>1. e[j] = d[j] - (j - 1) * M /\ e[j + 1] = d[j + 1] - ((j + 1) - 1) * M
      BY <1>7, <2>3
    <3>2. j - 1 = q /\ (j + 1) - 1 = q + 1
      BY <2>3
    <3>3. d[j] \in Nat /\ d[j + 1] \in Nat
      BY <1>8, <2>3
    <3> DEFINE x == q * M
               y == (q + 1) * M
    <3>4. x \in Nat /\ y \in Nat
      BY <1>9, <2>3
    <3>5. e[j] = d[j] - x /\ e[j + 1] = d[j + 1] - y
      BY <3>1, <3>2
    <3> HIDE DEF x, y, j
    <3>6. e[j] + x = d[j] /\ e[j + 1] + y = d[j + 1]
      BY SMTT(20), <3>3, <3>4, <3>5
    <3>7. QED
      BY <3>6 DEF x, y
  <2>8. RunsIndex(r, i) = LET storageStart == s[j] - d[j] - 1
                              runSize == d[j + 1] - d[j]
                          IN  IF i - s[j] < runSize THEN storageStart
                              ELSE storageStart + (i - s[j] - runSize) + 1
    <3> DEFINE predecessor == predecessorPosition(A, i)
               index == predecessor.positionL
               runStart == Element(A, predecessor)
               before == at(B, index)
               removedBefore == Element(B, before) + index * M
               removedAfter == Element(B, Increment(B, before)) + (index + 1) * M
               storageStart == runStart - removedBefore - 1
               runSize == removedAfter - removedBefore
    <3>1. RunsIndex(r, i) = IF i - runStart < runSize THEN storageStart
                            ELSE storageStart + (i - runStart - runSize) + 1
      BY <1>13, <1>16 DEF RunsIndex, A, B, M
    <3>2. index = q /\ runStart = s[j]
      BY <2>2, <2>5
    <3> HIDE DEF index, runStart, j
    <3>3. removedBefore = d[j] /\ removedAfter = d[j + 1]
      BY <2>6, <2>7, <3>2
    <3> HIDE DEF removedBefore, removedAfter
    <3>4. QED
      BY <3>1, <3>2, <3>3
  <2>9. RunsIndex(r, i) = StoredAt(s, d, j, i)
    <3>1. s[j] \in Nat /\ d[j] \in Nat /\ d[j + 1] \in Nat
      BY <1>3, <1>8, <1>12, <2>3
    <3> HIDE DEF j
    <3> DEFINE size1 == d[j + 1] - d[j]
               first == s[j] - d[j] - 1
    <3>2. first = s[j] - 1 - d[j] /\ first + (i - s[j] - size1) + 1 = i - d[j + 1]
      <4> DEFINE a == s[j]
                 b1 == d[j]
                 b2 == d[j + 1]
      <4>1. a \in Nat /\ b1 \in Nat /\ b2 \in Nat /\ i \in Nat
        BY <1>6, <3>1
      <4> HIDE DEF a, b1, b2
      <4>2. (a - b1 - 1) = a - 1 - b1 /\ (a - b1 - 1) + (i - a - (b2 - b1)) + 1 = i - b2
        BY <4>1
      <4>3. QED
        BY <4>2 DEF a, b1, b2
    <3>3. StoredAt(s, d, j, i) = IF i - s[j] < size1 THEN s[j] - 1 - d[j]
                                 ELSE i - d[j + 1]
      BY <2>3 DEF StoredAt
    <3>4. RunsIndex(r, i) = IF i - s[j] < size1 THEN first
                            ELSE first + (i - s[j] - size1) + 1
      BY <2>8
    <3> HIDE DEF first, size1
    <3>5. QED
      BY <3>2, <3>3, <3>4
  <2>10. j \in 0 .. R
    BY <1>3, <2>3
  <2>11. QED
    BY <2>4, <2>9, <2>10
<1>17. QED
  BY <1>15, <1>16

-----------------------------------------------------------------------------
(* The invariant, and what follows from it. *)

(***************************************************************************)
(* The inductive invariant: each container follows the values appended to  *)
(* it; once completed, nothing happens any more.                           *)
(***************************************************************************)
IInv ==
    /\ completed \in BOOLEAN
    /\ values \in Seq(Nat) /\ Ordered(values, fano.maxValue)
    /\ EFRecord(fano) /\ Codes(fano, values)
    /\ size(fano) <= MaxLength /\ fano.maxValue <= MaxValue
    /\ rankFilter \in FilterRecords /\ FilterFollows(rankFilter, values, completed)
    /\ ~ completed =>
          /\ aware \in AwareRecords /\ AwareFollows(aware, values)
          /\ runFilter \in RunsRecords /\ RunsFollow(runFilter, values)
    /\ completed =>
          /\ values # <<>> /\ SequentialCodes(sequential, values)
          /\ AwareAnswersBeforeTail /\ RunFilterAnswers

\* a value not below the last one keeps the order
LEMMA OrderedMore ==
    ASSUME NEW vs \in Seq(Nat), NEW top, Ordered(vs, top), NEW x \in Nat, x <= top,
           vs # <<>> => x >= vs[Len(vs)]
    PROVE  Ordered(Append(vs, x), top)
<1> DEFINE ws == Append(vs, x)
           n == Len(vs)
<1>1. n \in Nat /\ Len(ws) = n + 1 /\ ws[n + 1] = x /\ \A k \in 1 .. n : ws[k] = vs[k]
  BY Appended
<1> HIDE DEF ws
<1>2. \A k \in 1 .. n : vs[k] \in Nat /\ vs[k] <= x
  <2> SUFFICES ASSUME NEW k \in 1 .. n PROVE vs[k] \in Nat /\ vs[k] <= x
    OBVIOUS
  <2>1. n \in 1 .. n /\ k <= n /\ vs # <<>> /\ vs[k] \in Nat /\ vs[n] \in Nat
    BY <1>1, EmptySequence
  <2>2. vs[k] <= vs[n] /\ vs[n] <= x
    BY <2>1 DEF Ordered
  <2>3. QED
    BY <2>1, <2>2
<1>3. ASSUME NEW k \in 1 .. n + 1, NEW l \in 1 .. n + 1, k <= l PROVE ws[k] <= ws[l]
  <2>1. CASE l = n + 1
    <3>1. CASE k = n + 1
      BY <1>1, <2>1, <3>1
    <3>2. CASE k # n + 1
      <4>1. k \in 1 .. n
        BY <1>1, <3>2
      <4>2. QED
        BY <1>1, <1>2, <2>1, <4>1
    <3>3. QED
      BY <3>1, <3>2
  <2>2. CASE l # n + 1
    <3>1. k \in 1 .. n /\ l \in 1 .. n
      BY <1>1, <1>3, <2>2
    <3>2. vs[k] <= vs[l]
      BY <1>3, <3>1 DEF Ordered
    <3>3. QED
      BY <1>1, <3>1, <3>2
  <2>3. QED
    BY <2>1, <2>2
<1>4. ASSUME NEW k \in 1 .. n + 1 PROVE ws[k] <= top
  <2>1. CASE k = n + 1
    BY <1>1, <2>1
  <2>2. CASE k # n + 1
    <3>1. k \in 1 .. n
      BY <1>1, <2>2
    <3>2. QED
      BY <1>1, <3>1 DEF Ordered
  <2>3. QED
    BY <2>1, <2>2
<1>5. Ordered(ws, top)
  BY <1>1, <1>3, <1>4 DEF Ordered
<1>6. QED
  BY <1>5 DEF ws

\* new containers follow the empty sequence
LEMMA InitHolds == Init => IInv
<1> SUFFICES ASSUME Init PROVE IInv
  OBVIOUS
<1>1. PICK num \in 1 .. MaxLength, maxValue \in 0 .. MaxValue :
          fano = EliasFanoM(num, maxValue)
  BY DEF Init
<1>2. num \in Nat /\ num <= MaxLength /\ maxValue \in Nat /\ maxValue <= MaxValue
      /\ MaxValue \in Nat /\ MaxValue \in {MaxLength, MaxValue} /\ maxValue <= MaxValue + 1
  BY BoundsAssumption
<1>3. PowersTo(2 * maxValue + 1)
  BY <1>2, PowersFor
<1>4. /\ EFRecord(fano) /\ Codes(fano, <<>>) /\ size(fano) = num
      /\ fano.maxValue = maxValue
  BY <1>1, <1>2, <1>3, NewEliasFano
<1>5. /\ values = <<>> /\ rankFilter = EmptyFilter /\ runFilter = EmptyRuns
      /\ aware = EmptyAware /\ completed = FALSE
  BY DEF Init
<1>6. values \in Seq(Nat) /\ Len(values) = 0
  BY <1>5, EmptySequence
<1>7. Ordered(values, fano.maxValue)
  BY <1>6 DEF Ordered
<1>8. QED
  BY <1>2, <1>4, <1>5, <1>6, <1>7, FilterEmpty, AwareEmpty, RunsEmpty DEF IInv

\* each container appends the value
LEMMA AppendHolds ==
    ASSUME IInv, NEW x \in 0 .. MaxValue, AppendValue(x)
    PROVE  IInv'
<1>1. /\ ~ completed /\ Len(values) < size(fano) /\ x <= fano.maxValue
      /\ (values # <<>> => x >= values[Len(values)])
      /\ values' = Append(values, x) /\ completed' = completed
      /\ rankFilter' = FilterAppend(rankFilter, x) /\ runFilter' = RunsAppend(runFilter, x)
      /\ aware' = AwareAppend(aware, x) /\ fano' = push_back(fano, x)
  BY DEF AppendValue
<1>2. /\ completed = FALSE /\ values \in Seq(Nat) /\ Ordered(values, fano.maxValue)
      /\ EFRecord(fano) /\ Codes(fano, values)
      /\ size(fano) <= MaxLength /\ fano.maxValue <= MaxValue
      /\ rankFilter \in FilterRecords /\ FilterFollows(rankFilter, values, FALSE)
      /\ aware \in AwareRecords /\ AwareFollows(aware, values)
      /\ runFilter \in RunsRecords /\ RunsFollow(runFilter, values)
  <2>1. completed = FALSE
    BY <1>1 DEF IInv
  <2>2. QED
    BY <2>1 DEF IInv
<1>3. x \in Nat
  BY BoundsAssumption
<1>4. /\ EFRecord(fano') /\ Codes(fano', values')
      /\ fano'.maxValue = fano.maxValue /\ size(fano') = size(fano)
  BY <1>1, <1>2, <1>3, PushBack
<1>5. values' \in Seq(Nat) /\ Ordered(values', fano'.maxValue)
  BY <1>1, <1>2, <1>3, <1>4, Appended, OrderedMore
<1>6. rankFilter' \in FilterRecords /\ FilterFollows(rankFilter', values', FALSE)
  BY <1>1, <1>2, <1>3, FilterAppended
<1>7. aware' \in AwareRecords /\ AwareFollows(aware', values')
  BY <1>1, <1>2, <1>3, AwareAppended
<1>8. runFilter' \in RunsRecords /\ RunsFollow(runFilter', values')
  BY <1>1, <1>2, <1>3, RunsAppended
<1>9. size(fano)' = size(fano')
  BY DEF size
<1>10. completed' = FALSE
  BY <1>1, <1>2
<1>11. QED
  BY <1>2, <1>4, <1>5, <1>6, <1>7, <1>8, <1>9, <1>10 DEF IInv

\* each container is completed
LEMMA CompleteHolds ==
    ASSUME IInv, Complete
    PROVE  IInv'
<1>1. /\ ~ completed /\ values # <<>> /\ completed' = TRUE
      /\ values' = values /\ fano' = fano
      /\ rankFilter' = FilterComplete(rankFilter) /\ runFilter' = RunsComplete(runFilter)
      /\ aware' = AwareComplete(aware)
  BY DEF Complete
<1>2. /\ completed = FALSE /\ values \in Seq(Nat) /\ Ordered(values, fano.maxValue)
      /\ EFRecord(fano) /\ Codes(fano, values)
      /\ size(fano) <= MaxLength /\ fano.maxValue <= MaxValue
      /\ rankFilter \in FilterRecords /\ FilterFollows(rankFilter, values, FALSE)
      /\ aware \in AwareRecords /\ AwareFollows(aware, values)
      /\ runFilter \in RunsRecords /\ RunsFollow(runFilter, values)
  <2>1. completed = FALSE
    BY <1>1 DEF IInv
  <2>2. QED
    BY <2>1 DEF IInv
<1>3. rankFilter' \in FilterRecords /\ FilterFollows(rankFilter', values', TRUE)
  BY <1>1, <1>2, FilterCompleted
<1>4. SequentialCodes(sequential', values')
  <2>1. PICK offset \in 0 .. WordBits - 1 : sequential' = write(offset, values)
    BY DEF Complete
  <2>2. \A k \in 1 .. Len(values) : values[k] <= MaxValue
    <3>1. ASSUME NEW k \in 1 .. Len(values) PROVE values[k] <= MaxValue
      <4>1. values[k] \in Nat /\ fano.maxValue \in Nat /\ MaxValue \in Nat
        BY SMTT(20), <1>2, BoundsAssumption DEF EFRecord
      <4>2. values[k] <= fano.maxValue
        BY <1>2 DEF Ordered
      <4>3. QED
        BY <1>2, <4>1, <4>2
    <3>2. QED
      BY <3>1
  <2>3. offset \in Nat
    BY WordBitsAssumption
  <2>4. QED
    BY <1>1, <1>2, <2>1, <2>2, <2>3, WriteIs
<1>5. AwareAnswersBeforeTail'
  <2>1. ASSUME NEW i \in 0 .. Len(values) - 1, ~ InTail(aware', i)
        PROVE  AwareAt(aware', i) = values[i + 1]
    BY <1>1, <1>2, <2>1, AwareCompleted
  <2>2. QED
    BY ZenonT(30), <1>1, <2>1 DEF AwareAnswersBeforeTail, Positions, Value, InTail, AwareAt,
                      AwareIndex, Move, next_geq
<1>6. RunFilterAnswers'
  <2>1. Len(values) <= MaxLength
    <3>1. Len(values) \in Nat /\ size(fano) \in Nat /\ MaxLength \in Nat
      BY <1>2, BoundsAssumption DEF EFRecord
    <3>2. Len(values) <= size(fano)
      BY <1>2 DEF Codes
    <3>3. QED
      BY <1>2, <3>1, <3>2
  <2>2. ASSUME NEW i \in 0 .. Len(values) - 1
        PROVE  /\ RunsIndex(runFilter', i) \in 0 .. Len(runFilter'.child) - 1
               /\ RunsAt(runFilter', i) = values[i + 1]
    BY <1>1, <1>2, <2>1, RunsCompleted
  <2>3. QED
    BY <1>1, <2>2 DEF RunFilterAnswers, Positions, Value
<1>7. size(fano)' = size(fano)
  BY <1>1 DEF size
<1>8. values' # <<>> /\ values' \in Seq(Nat) /\ Ordered(values', fano'.maxValue)
      /\ EFRecord(fano') /\ Codes(fano', values')
  BY <1>1, <1>2
<1>9. QED
  BY <1>1, <1>2, <1>3, <1>4, <1>5, <1>6, <1>7, <1>8 DEF IInv

(***************************************************************************)
(* Whatever is appended, each container follows it (AppendValue, Complete).*)
(***************************************************************************)
THEOREM Invariance == Spec => []IInv
<1>1. Init => IInv
  BY InitHolds
<1>2. IInv /\ [Next]_containerVars => IInv'
  <2> SUFFICES ASSUME IInv, [Next]_containerVars PROVE IInv'
    OBVIOUS
  <2>1. CASE \E x \in 0 .. MaxValue : AppendValue(x)
    BY <2>1, AppendHolds
  <2>2. CASE Complete
    BY <2>2, CompleteHolds
  <2>3. CASE UNCHANGED containerVars
    BY <2>3 DEF containerVars, IInv, AwareAnswersBeforeTail, RunFilterAnswers, Positions, Value
  <2>4. (\E x \in 0 .. MaxValue : AppendValue(x)) \/ Complete \/ UNCHANGED containerVars
    BY DEF Next
  <2>5. QED
    BY <2>1, <2>2, <2>3, <2>4
<1>3. QED
  BY <1>1, <1>2, PTL DEF Spec

(***************************************************************************)
(* DuplicateFilterRank answers for every position, and reads its child at  *)
(* or in front of it (at's assertion).                                     *)
(***************************************************************************)
THEOREM RankFilterTheorem == Spec => []RankFilterAnswers
<1>1. IInv => RankFilterAnswers
  <2> SUFFICES ASSUME IInv PROVE RankFilterAnswers
    OBVIOUS
  <2>1. /\ completed \in BOOLEAN /\ values \in Seq(Nat) /\ rankFilter \in FilterRecords
        /\ FilterFollows(rankFilter, values, completed)
    BY DEF IInv
  <2>2. /\ \A a \in rankFilter.stored : a < rankFilter.areas
        /\ completed => FilterFinds(rankFilter, values, Len(values))
    BY <2>1, FilterAnswers
  <2>3. QED
    BY <2>2 DEF RankFilterAnswers, FilterFinds, Positions, Value
<1>2. QED
  BY <1>1, Invariance, PTL

(***************************************************************************)
(* DuplicateFilterRunlength answers for every position.                    *)
(***************************************************************************)
THEOREM RunFilterTheorem == Spec => []RunFilterAnswers
<1>1. IInv => RunFilterAnswers
  BY DEF IInv, RunFilterAnswers
<1>2. QED
  BY <1>1, Invariance, PTL

(***************************************************************************)
(* DuplicatesAwareEliasFano answers for every position but those behind    *)
(* the last first occurrence when it stores first occurrences.             *)
(***************************************************************************)
THEOREM AwareTheorem == Spec => []AwareAnswersBeforeTail
<1>1. IInv => AwareAnswersBeforeTail
  BY DEF IInv, AwareAnswersBeforeTail
<1>2. QED
  BY <1>1, Invariance, PTL

\* what a completed EliasFanoM and SequentialEliasFano have in common
LEMMA CompletedCodes ==
    ASSUME IInv, completed
    PROVE  /\ values \in Seq(Nat) /\ values # <<>> /\ Ordered(values, fano.maxValue)
           /\ EFRecord(fano) /\ Codes(fano, values) /\ SequentialCodes(sequential, values)
           /\ Len(values) \in Nat \ {0} /\ 0 \in 0 .. Len(values) - 1
<1>1. /\ values \in Seq(Nat) /\ values # <<>> /\ Ordered(values, fano.maxValue)
      /\ EFRecord(fano) /\ Codes(fano, values) /\ SequentialCodes(sequential, values)
  BY DEF IInv
<1>2. Len(values) \in Nat \ {0}
  BY <1>1, EmptySequence
<1>3. 0 \in 0 .. Len(values) - 1
  BY <1>2
<1>4. QED
  BY <1>1, <1>2, <1>3

(***************************************************************************)
(* predecessorPosition returns the last element that is not above its      *)
(* parameter, in whatever bucket of equal high parts it lies.              *)
(***************************************************************************)
THEOREM PredecessorTheorem == Spec => []PredecessorFound
<1>1. IInv => PredecessorFound
  <2> SUFFICES ASSUME IInv, completed, NEW x \in Value(0) .. fano.maxValue
               PROVE  LET p == predecessorPosition(fano, x)
                      IN  /\ p.positionL \in Positions
                          /\ p = at(fano, p.positionL)
                          /\ Value(p.positionL) <= x
                          /\ \A i \in Positions :
                                i > p.positionL =>
                                    Value(i) > x \/ Value(i) = Value(p.positionL)
    BY DEF PredecessorFound
  <2> DEFINE p == predecessorPosition(fano, x)
  <2>1. /\ values \in Seq(Nat) /\ values # <<>> /\ Ordered(values, fano.maxValue)
        /\ EFRecord(fano) /\ Codes(fano, values)
        /\ Len(values) \in Nat \ {0} /\ 0 \in 0 .. Len(values) - 1
    BY CompletedCodes
  <2>2. x \in Nat /\ values[1] <= x /\ x <= fano.maxValue
    <3>1. values[1] \in Nat /\ fano.maxValue \in Nat
      BY <2>1 DEF EFRecord
    <3>2. Value(0) = values[1]
      BY DEF Value
    <3>3. QED
      BY <3>1, <3>2
  <2>3. PICK i \in 0 .. Len(values) - 1 :
            /\ p = at(fano, i)
            /\ values[i + 1] <= x
            /\ \A k \in i + 1 .. Len(values) - 1 : values[k + 1] > x
    BY <2>1, <2>2, PredecessorIs
  <2>4. p.positionL = i
    BY <2>3 DEF at, Pointer
  <2>5. \A k \in Positions : k > i => Value(k) > x
    <3> SUFFICES ASSUME NEW k \in 0 .. Len(values) - 1, k > i PROVE values[k + 1] > x
      BY DEF Positions, Value
    <3>1. k \in i + 1 .. Len(values) - 1
      BY <2>1
    <3>2. QED
      BY <2>3, <3>1
  <2> HIDE DEF p
  <2>6. /\ p.positionL \in Positions /\ p = at(fano, p.positionL)
        /\ Value(p.positionL) <= x
    BY <2>3, <2>4 DEF Positions, Value
  <2>7. QED
    BY <2>4, <2>5, <2>6 DEF p
<1>2. QED
  BY <1>1, Invariance, PTL

(***************************************************************************)
(* The iterators of EliasFanoM and SequentialEliasFano read the values and *)
(* move to their neighbours by scanning for the next or the previous bit.  *)
(***************************************************************************)
THEOREM IteratorsTheorem == Spec => []IteratorsMove
<1>1. IInv => IteratorsMove
  <2> SUFFICES ASSUME IInv, completed, NEW i \in Positions
               PROVE  /\ LET p == at(fano, i)
                         IN  /\ Element(fano, p) = Value(i)
                             /\ i = 0 => p = begin(fano)
                             /\ i + 1 \in Positions => Increment(fano, p) = at(fano, i + 1)
                             /\ Decrement(fano, Increment(fano, p)) = p
                      /\ Value(0) \div 2^sequential.l = 0 =>
                             LET it == Seek(sequential, i)
                             IN  /\ Read(sequential, it) = Value(i)
                                 /\ i > 0 => Retreat(sequential, it) = Seek(sequential, i - 1)
    BY DEF IteratorsMove
  <2>1. /\ values \in Seq(Nat) /\ values # <<>> /\ Ordered(values, fano.maxValue)
        /\ EFRecord(fano) /\ Codes(fano, values) /\ SequentialCodes(sequential, values)
    BY CompletedCodes
  <2>2. i \in 0 .. Len(values) - 1 /\ Value(i) = values[i + 1] /\ Value(0) = values[0 + 1]
        /\ Positions = 0 .. Len(values) - 1
    BY DEF Positions, Value
  <2>3. Element(fano, at(fano, i)) = values[i + 1]
    BY <2>1, <2>2, AtIs
  <2>4. /\ i = 0 => at(fano, i) = begin(fano)
        /\ i + 1 \in 0 .. Len(values) - 1 => Increment(fano, at(fano, i)) = at(fano, i + 1)
        /\ Decrement(fano, Increment(fano, at(fano, i))) = at(fano, i)
    BY <2>1, <2>2, EliasFanoIterates
  <2>5. ASSUME Value(0) \div 2^sequential.l = 0
        PROVE  /\ Read(sequential, Seek(sequential, i)) = values[i + 1]
               /\ i > 0 => Retreat(sequential, Seek(sequential, i)) = Seek(sequential, i - 1)
    <3>1. values[1] \div 2^sequential.l = 0
      BY <2>2, <2>5
    <3>2. QED
      BY <2>1, <2>2, <3>1, SequentialIterates
  <2>6. QED
    BY <2>2, <2>3, <2>4, <2>5
<1>2. QED
  BY <1>1, Invariance, PTL
=============================================================================
