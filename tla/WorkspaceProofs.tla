--------------------------- MODULE WorkspaceProofs ---------------------------
(***************************************************************************)
(* The merged timeline tells the story, for any number of events and of    *)
(* requests; and the types of the components that the other proofs about   *)
(* MCWorkspace leave.                                                      *)
(***************************************************************************)
EXTENDS BrowserPartsProofs

----------------------------------------------------------------------------
(* What Arranged returns *)

(* before[i] is what comes before i in a strict total order of S. *)
Orders(before, S) ==
    /\ before \in [S -> SUBSET S]
    /\ \A i \in S : i \notin before[i]
    /\ \A i, j \in S : i \in before[j] => before[i] \subseteq before[j]
    /\ \A i, j \in S : i # j => i \in before[j] \/ j \in before[i]

(* The places are those from 1 to the number of elements, each taken once. *)
LEMMA Places ==
    ASSUME NEW S, IsFiniteSet(S), NEW before, Orders(before, S),
           NEW place, place = [i \in S |-> 1 + Cardinality(before[i])]
    PROVE  /\ place \in [S -> 1..Cardinality(S)]
           /\ \A k \in 1..Cardinality(S) : \E i \in S : place[i] = k
           /\ \A i, j \in S : place[i] = place[j] => i = j
           /\ \A i, j \in S : place[i] < place[j] => i \in before[j]
<1>1. Cardinality(S) \in Nat
  BY FS_CardinalityType
<1>2. \A i \in S : before[i] \subseteq S /\ i \notin before[i]
  BY DEF Orders
<1>3. ASSUME NEW i \in S
      PROVE  IsFiniteSet(before[i]) /\ Cardinality(before[i]) \in Nat
  BY <1>2, FS_Subset, FS_CardinalityType
<1>4. ASSUME NEW i \in S PROVE Cardinality(before[i]) < Cardinality(S)
  <2>1. before[i] \in SUBSET S /\ before[i] # S
    BY <1>2
  <2>2. Cardinality(before[i]) <= Cardinality(S) /\ Cardinality(before[i]) # Cardinality(S)
    BY <2>1, FS_Subset
  <2>. QED
    BY <1>1, <1>3, <2>2
<1>5. ASSUME NEW i \in S, NEW j \in S, i \in before[j]
      PROVE  Cardinality(before[i]) < Cardinality(before[j])
  <2>1. before[i] \in SUBSET before[j] /\ before[i] # before[j]
    BY <1>2, <1>5 DEF Orders
  <2>2. Cardinality(before[i]) <= Cardinality(before[j])
        /\ Cardinality(before[i]) # Cardinality(before[j])
    BY <1>3, <2>1, FS_Subset
  <2>. QED
    BY <1>3, <2>2
<1>6. \A i \in S : place[i] = 1 + Cardinality(before[i])
  OBVIOUS
<1>7. place \in [S -> 1..Cardinality(S)]
  BY <1>1, <1>3, <1>4
<1>8. ASSUME NEW i \in S, NEW j \in S
      PROVE  /\ i \in before[j] => place[i] < place[j]
             /\ place[i] \in Nat /\ place[j] \in Nat
  BY <1>3, <1>5, <1>6
<1>9. ASSUME NEW i \in S, NEW j \in S, place[i] = place[j] PROVE i = j
  BY <1>8, <1>9 DEF Orders
<1>10. ASSUME NEW i \in S, NEW j \in S, place[i] < place[j] PROVE i \in before[j]
  <2>1. i # j
    BY <1>8, <1>10
  <2>2. ~(place[j] < place[i])
    BY <1>8, <1>10
  <2>. QED
    BY <1>8, <2>1, <2>2 DEF Orders
<1>11. ASSUME NEW k \in 1..Cardinality(S) PROVE \E i \in S : place[i] = k
  <2>1. IsFiniteSet(1..Cardinality(S)) /\ Cardinality(1..Cardinality(S)) = Cardinality(S)
    BY <1>1, FS_Interval
  <2>2. place \in Injection(S, 1..Cardinality(S))
    BY <1>7, <1>9 DEF Injection, IsInjective
  <2>3. place \in Surjection(S, 1..Cardinality(S))
    BY <2>1, <2>2, FS_Injection
  <2>. QED
    BY <2>3 DEF Surjection
<1>. QED
  BY <1>7, <1>9, <1>10, <1>11

(* q takes the elements of s at the positions at[1], at[2], ..., which are *)
(* those of S, each once, in order.                                        *)
Visits(at, q, s, before, S) ==
    /\ at \in [1..Cardinality(S) -> S]
    /\ q = [k \in 1..Cardinality(S) |-> s[at[k]]]
    /\ \A i \in S : \E k \in 1..Cardinality(S) : at[k] = i
    /\ \A k, l \in 1..Cardinality(S) : k < l => at[k] \in before[at[l]]

LEMMA ArrangedIs ==
    ASSUME NEW S, IsFiniteSet(S), NEW before, Orders(before, S), NEW s
    PROVE  \E at : Visits(at, Timeline!Arranged(s, before), s, before, S)
<1>1. PICK place : place = [i \in S |-> 1 + Cardinality(before[i])]
  OBVIOUS
<1>2. DOMAIN before = S
  BY DEF Orders
<1>3. PICK at : at = [k \in 1..Cardinality(S) |-> CHOOSE i \in S : place[i] = k]
  OBVIOUS
<1>4. Timeline!Arranged(s, before) = [k \in 1..Cardinality(S) |-> s[at[k]]]
  BY <1>1, <1>2, <1>3 DEF Timeline!Arranged, Timeline!Cardinality, Cardinality
<1>5. \A k \in 1..Cardinality(S) : at[k] \in S /\ place[at[k]] = k
  <2>1. \A k \in 1..Cardinality(S) : \E i \in S : place[i] = k
    BY <1>1, Places
  <2>. QED
    BY <1>3, <2>1
<1>6. at \in [1..Cardinality(S) -> S]
  BY <1>3, <1>5
<1>7. ASSUME NEW i \in S PROVE \E k \in 1..Cardinality(S) : at[k] = i
  <2>1. place[i] \in 1..Cardinality(S)
    BY <1>1, Places
  <2>2. at[place[i]] \in S /\ place[at[place[i]]] = place[i]
    BY <1>5, <2>1
  <2>3. at[place[i]] = i
    BY <1>1, <2>2, Places
  <2>. QED
    BY <2>1, <2>3
<1>8. ASSUME NEW k \in 1..Cardinality(S), NEW l \in 1..Cardinality(S), k < l
      PROVE  at[k] \in before[at[l]]
  BY <1>1, <1>5, <1>8, Places
<1>9. Visits(at, Timeline!Arranged(s, before), s, before, S)
  BY <1>4, <1>6, <1>7, <1>8 DEF Visits
<1>. QED
  BY <1>9

LEMMA FinitelyMany ==
    ASSUME NEW n \in Nat, NEW S \in SUBSET (1..n)
    PROVE  IsFiniteSet(S) /\ Cardinality(S) \in Nat
<1>1. IsFiniteSet(1..n)
  BY FS_Interval
<1>2. IsFiniteSet(S)
  BY <1>1, FS_Subset
<1>. QED
  BY <1>2, FS_CardinalityType

Earlier(S) == [i \in S |-> {j \in S : j < i}]

LEMMA KeptIs ==
    ASSUME NEW n \in Nat, NEW S \in SUBSET (1..n), NEW s
    PROVE  \E at : Visits(at, Timeline!Kept(s, S), s, Earlier(S), S)
<1>1. IsFiniteSet(S)
  BY FinitelyMany
<1>2. Orders(Earlier(S), S)
  <2>1. Earlier(S) \in [S -> SUBSET S] /\ \A i, j \in S : j \in Earlier(S)[i] <=> j < i
    BY DEF Earlier
  <2>2. \A i \in S : i \in Nat
    OBVIOUS
  <2>3. ASSUME NEW i \in S, NEW j \in S, i \in Earlier(S)[j]
        PROVE  Earlier(S)[i] \subseteq Earlier(S)[j]
    <3>1. ASSUME NEW k \in Earlier(S)[i] PROVE k \in Earlier(S)[j]
      <4>1. k \in S
        BY <2>1
      <4>2. k < i /\ i < j
        BY <2>1, <2>3, <4>1
      <4>. QED
        BY <2>1, <2>2, <4>1, <4>2
    <3>. QED
      BY <3>1
  <2>4. ASSUME NEW i \in S, NEW j \in S, i # j
        PROVE  i \in Earlier(S)[j] \/ j \in Earlier(S)[i]
    <3>1. i < j \/ j < i
      BY <2>2, <2>4
    <3>. QED
      BY <2>1, <3>1
  <2>5. \A i \in S : i \notin Earlier(S)[i]
    BY <2>1, <2>2
  <2>. QED
    BY <2>1, <2>3, <2>4, <2>5 DEF Orders
<1>3. Timeline!Kept(s, S) = Timeline!Arranged(s, Earlier(S))
  BY DEF Timeline!Kept, Earlier
<1>. QED
  BY <1>1, <1>2, <1>3, ArrangedIs

(* The sequence q has the elements of R, each once. *)
Lists(q, R) ==
    /\ q \in Seq(R)
    /\ \A r \in R : \E i \in DOMAIN q : q[i] = r
    /\ \A i, j \in DOMAIN q : q[i] = q[j] => i = j

(* What was listed once is kept once. *)
LEMMA KeptLists ==
    ASSUME NEW q, NEW R, Lists(q, R), NEW K \in SUBSET R,
           NEW S, S = {i \in DOMAIN q : q[i] \in K}
    PROVE  Lists(Timeline!Kept(q, S), K)
<1>1. PICK n \in Nat : n = Len(q) /\ DOMAIN q = 1..n
  BY LenProperties DEF Lists
<1>2. S \in SUBSET (1..n) /\ \A i \in S : q[i] \in K
  BY <1>1
<1>3. PICK m, kept : m = Cardinality(S) /\ kept = Timeline!Kept(q, S)
  OBVIOUS
<1>4. m \in Nat
  BY <1>2, <1>3, FinitelyMany
<1>5. PICK at : Visits(at, kept, q, Earlier(S), S)
  BY <1>2, <1>3, KeptIs
<1>6. /\ at \in [1..m -> S]
      /\ kept = [k \in 1..m |-> q[at[k]]]
      /\ \A i \in S : \E k \in 1..m : at[k] = i
      /\ \A k, l \in 1..m : k < l => at[k] < at[l]
  BY <1>3, <1>5 DEF Visits, Earlier
<1>7. DOMAIN kept = 1..m /\ \A k \in 1..m : kept[k] = q[at[k]] /\ kept[k] \in K
  BY <1>2, <1>6
<1>8. kept \in Seq(K)
  BY <1>4, <1>6, <1>7
<1>9. ASSUME NEW r \in K PROVE \E k \in DOMAIN kept : kept[k] = r
  <2>1. PICK i \in DOMAIN q : q[i] = r
    BY DEF Lists
  <2>2. PICK k \in 1..m : at[k] = i
    BY <1>6, <2>1
  <2>. QED
    BY <1>7, <2>1, <2>2
<1>10. ASSUME NEW k \in 1..m, NEW l \in 1..m, kept[k] = kept[l] PROVE k = l
  <2>1. at[k] = at[l]
    BY <1>1, <1>2, <1>6, <1>7, <1>10 DEF Lists
  <2>2. ~(k < l) /\ ~(l < k)
    BY <1>2, <1>6, <2>1
  <2>. QED
    BY <1>4, <2>2
<1>11. Lists(kept, K)
  BY <1>7, <1>8, <1>9, <1>10 DEF Lists
<1>. QED
  BY <1>3, <1>11

----------------------------------------------------------------------------
(* What the merge of the timeline returns *)

(* The rows that are merged, and the rows of an answer. *)
TimelineRow == [type: LoggedTypes \cup Timeline!MirrorTypes, time: 0..MaxTime, event: 1..MaxEvents]

LEMMA RowIs ==
    ASSUME NEW r \in TimelineRow, NEW source
    PROVE  /\ Timeline!Row(r, source).type = r.type
           /\ Timeline!Row(r, source).time = r.time
           /\ Timeline!Row(r, source).event = r.event
           /\ Timeline!Row(r, source).source = source
           /\ \A q \in TimelineRow :
                 Timeline!Row(q, source) = Timeline!Row(r, source) => q = r
BY DEF Timeline!Row, TimelineRow

RowsOf(R, source) == {Timeline!Row(r, source) : r \in R}

LEMMA FromLists ==
    ASSUME NEW R \in SUBSET TimelineRow, NEW q, Lists(q, R), NEW source
    PROVE  Lists(Timeline!From(source, q), RowsOf(R, source))
<1>1. PICK n \in Nat : n = Len(q) /\ DOMAIN q = 1..n
  BY LenProperties DEF Lists
<1>2. PICK f : f = Timeline!From(source, q)
  OBVIOUS
<1>3. /\ DOMAIN f = 1..n
      /\ \A i \in 1..n : f[i] = Timeline!Row(q[i], source)
      /\ f = [i \in 1..n |-> f[i]]
  BY <1>1, <1>2 DEF Timeline!From
<1>4. \A i \in 1..n : q[i] \in R /\ q[i] \in TimelineRow
  BY <1>1 DEF Lists
<1>5. \A i \in 1..n : f[i] \in RowsOf(R, source)
  BY <1>3, <1>4 DEF RowsOf
<1>6. f \in Seq(RowsOf(R, source))
  BY <1>3, <1>5
<1>7. ASSUME NEW a \in RowsOf(R, source) PROVE \E i \in 1..n : f[i] = a
  <2>1. PICK r \in R : a = Timeline!Row(r, source)
    BY DEF RowsOf
  <2>2. PICK i \in 1..n : q[i] = r
    BY <1>1 DEF Lists
  <2>. QED
    BY <1>3, <2>1, <2>2
<1>8. ASSUME NEW i \in 1..n, NEW j \in 1..n, f[i] = f[j] PROVE i = j
  <2>1. q[i] = q[j]
    BY <1>3, <1>4, <1>8, RowIs
  <2>. QED
    BY <1>1, <2>1 DEF Lists
<1>. QED
  BY <1>2, <1>3, <1>6, <1>7, <1>8 DEF Lists

(* Without a row of Postgres, the rows are those of the log, in their order. *)
LEMMA RowsAre ==
    ASSUME NEW E \in SUBSET TimelineRow, NEW e, Lists(e, E), NEW rows, rows = Timeline!Rows(e, <<>>)
    PROVE  /\ Lists(rows, RowsOf(E, "sqlite"))
           /\ DOMAIN rows = DOMAIN e
           /\ \A i \in DOMAIN e : rows[i].time = e[i].time /\ rows[i].event = e[i].event
<1>1. PICK f : f = Timeline!From("sqlite", e)
  OBVIOUS
<1>2. Lists(f, RowsOf(E, "sqlite"))
  BY <1>1, FromLists
<1>3. Timeline!From("postgres", <<>>) = <<>>
  BY DEF Timeline!From
<1>4. rows = f \o <<>>
  BY <1>1, <1>3 DEF Timeline!Rows
<1>5. rows = f
  <2>1. f \in Seq(RowsOf(E, "sqlite"))
    BY <1>2 DEF Lists
  <2>. QED
    BY <1>4, <2>1
<1>6. /\ DOMAIN f = DOMAIN e
      /\ \A i \in DOMAIN e : f[i] = Timeline!Row(e[i], "sqlite") /\ e[i] \in TimelineRow
  <2>1. DOMAIN f = DOMAIN e /\ \A i \in DOMAIN e : f[i] = Timeline!Row(e[i], "sqlite")
    BY <1>1 DEF Timeline!From
  <2>2. \A i \in DOMAIN e : e[i] \in E
    BY LenProperties DEF Lists
  <2>. QED
    BY <2>1, <2>2
<1>. QED
  BY <1>2, <1>5, <1>6, RowIs

(* StableSort keeps every row once: by time, and as it was within one time. *)
Precedes(rows, order, i, j) ==
    \/ order = "asc" /\ rows[i].time < rows[j].time
    \/ order = "desc" /\ rows[i].time > rows[j].time
    \/ rows[i].time = rows[j].time /\ i < j

LEMMA SortIs ==
    ASSUME NEW R, \A r \in R : r.time \in Nat, NEW rows, Lists(rows, R),
           NEW order \in {"asc", "desc"},
           NEW sorted, sorted = Timeline!StableSort(rows, order)
    PROVE  /\ Lists(sorted, R)
           /\ \E at : /\ \A k \in DOMAIN sorted :
                            at[k] \in DOMAIN rows /\ sorted[k] = rows[at[k]]
                      /\ \A k, l \in DOMAIN sorted :
                            k < l => Precedes(rows, order, at[k], at[l])
<1>1. PICK n \in Nat : n = Len(rows) /\ DOMAIN rows = 1..n
  BY LenProperties DEF Lists
<1>2. PICK before : before = [i \in 1..n |-> {j \in 1..n : Precedes(rows, order, j, i)}]
  OBVIOUS
<1>3. \A i \in 1..n : rows[i] \in R /\ rows[i].time \in Nat
  BY <1>1 DEF Lists
<1>4. sorted = Timeline!Arranged(rows, before)
  BY <1>1, <1>2 DEF Timeline!StableSort, Timeline!Precedes, Precedes
<1>5. /\ before \in [1..n -> SUBSET (1..n)]
      /\ \A i, j \in 1..n : j \in before[i] <=> Precedes(rows, order, j, i)
  BY <1>2
<1>6. Orders(before, 1..n)
  <2>1. \A i \in 1..n : ~Precedes(rows, order, i, i)
    BY <1>3 DEF Precedes
  <2>2. \A i, j, k \in 1..n : Precedes(rows, order, i, j) /\ Precedes(rows, order, j, k)
           => Precedes(rows, order, i, k)
    BY <1>3 DEF Precedes
  <2>3. \A i, j \in 1..n : i # j => Precedes(rows, order, i, j) \/ Precedes(rows, order, j, i)
    BY <1>3 DEF Precedes
  <2>4. ASSUME NEW i \in 1..n, NEW j \in 1..n, i \in before[j] PROVE before[i] \subseteq before[j]
    BY <1>5, <2>2, <2>4
  <2>. QED
    BY <1>5, <2>1, <2>3, <2>4 DEF Orders
<1>7. IsFiniteSet(1..n) /\ Cardinality(1..n) = n
  BY FS_Interval
<1>8. PICK at : Visits(at, sorted, rows, before, 1..n)
  BY <1>4, <1>6, <1>7, ArrangedIs
<1>9. /\ at \in [1..n -> 1..n]
      /\ sorted = [k \in 1..n |-> rows[at[k]]]
      /\ \A i \in 1..n : \E k \in 1..n : at[k] = i
      /\ \A k, l \in 1..n : k < l => Precedes(rows, order, at[k], at[l])
  BY <1>5, <1>7, <1>8 DEF Visits
<1>10. \A k \in 1..n : at[k] \in 1..n /\ sorted[k] = rows[at[k]] /\ sorted[k] \in R
  BY <1>3, <1>9
<1>11. sorted \in Seq(R) /\ DOMAIN sorted = 1..n
  BY <1>9, <1>10
<1>12. ASSUME NEW r \in R PROVE \E k \in 1..n : sorted[k] = r
  <2>1. PICK i \in 1..n : rows[i] = r
    BY <1>1 DEF Lists
  <2>. QED
    BY <1>9, <1>10, <2>1
<1>13. ASSUME NEW k \in 1..n, NEW l \in 1..n, sorted[k] = sorted[l] PROVE k = l
  <2>1. at[k] = at[l]
    BY <1>1, <1>10, <1>13 DEF Lists
  <2>2. ~Precedes(rows, order, at[k], at[k])
    BY <1>3, <1>10 DEF Precedes
  <2>3. ~(k < l) /\ ~(l < k)
    BY <1>9, <2>1, <2>2
  <2>. QED
    BY <2>3
<1>14. Lists(sorted, R)
  BY <1>11, <1>12, <1>13 DEF Lists
<1>15. /\ \A k \in DOMAIN sorted : at[k] \in DOMAIN rows /\ sorted[k] = rows[at[k]]
       /\ \A k, l \in DOMAIN sorted : k < l => Precedes(rows, order, at[k], at[l])
  BY <1>1, <1>9, <1>10, <1>11
<1>. QED
  BY <1>14, <1>15

----------------------------------------------------------------------------
(* The answer tells the story *)

(* The rows of one source that a request asks for. *)
Chosen(rows, source, r) ==
    {q \in Elements(rows) : r.sources \in {"both", source}
                            /\ (r.types = {} \/ q.type \in r.types)}

(* Younger events come first. *)
Falls(rows) == \A i, j \in DOMAIN rows : i < j => rows[i].event > rows[j].event

LEMMA KeptFalls ==
    ASSUME NEW rows \in Seq(TimelineRow), Falls(rows), NEW S \in SUBSET DOMAIN rows
    PROVE  Falls(Timeline!Kept(rows, S))
<1>1. PICK n \in Nat : n = Len(rows) /\ DOMAIN rows = 1..n
  BY LenProperties
<1>2. PICK m, kept : m = Cardinality(S) /\ kept = Timeline!Kept(rows, S)
  OBVIOUS
<1>3. PICK at : Visits(at, kept, rows, Earlier(S), S)
  BY <1>1, <1>2, KeptIs
<1>4. /\ at \in [1..m -> S]
      /\ kept = [k \in 1..m |-> rows[at[k]]]
      /\ \A k, l \in 1..m : k < l => at[k] < at[l]
  BY <1>2, <1>3 DEF Visits, Earlier
<1>5. ASSUME NEW k \in 1..m, NEW l \in 1..m, k < l PROVE kept[k].event > kept[l].event
  <2>1. at[k] \in DOMAIN rows /\ at[l] \in DOMAIN rows /\ at[k] < at[l]
    BY <1>4, <1>5
  <2>2. rows[at[k]].event > rows[at[l]].event
    BY <2>1 DEF Falls
  <2>. QED
    BY <1>4, <2>2
<1>6. Falls(kept)
  BY <1>4, <1>5 DEF Falls
<1>. QED
  BY <1>2, <1>6

(* EventsAsked: the rows of the window that are asked for, in their order. *)
LEMMA EventsAskedAre ==
    ASSUME NEW window \in Seq(TimelineRow), Falls(window), NEW r,
           r.sources \in {"both", "sqlite", "postgres"},
           NEW e, e = Timeline!EventsAsked(window, r)
    PROVE  /\ Lists(e, Chosen(window, "sqlite", r)) /\ Falls(e)
           /\ Chosen(window, "sqlite", r) \in SUBSET TimelineRow
<1>1. PICK n \in Nat : n = Len(window) /\ DOMAIN window = 1..n
  BY LenProperties
<1>2. \A i \in 1..n : window[i] \in TimelineRow /\ window[i].event \in Int
  <2>1. \A i \in 1..n : window[i] \in TimelineRow
    BY <1>1
  <2>2. \A q \in TimelineRow : q.event \in Int
    BY DEF TimelineRow
  <2>. QED
    BY <2>1, <2>2
<1>3. \A i, j \in 1..n : window[i] = window[j] => i = j
  BY <1>1, <1>2 DEF Falls
<1>4. window \in Seq(Elements(window))
  BY <1>1, <1>2, LenProperties, SeqDef DEF Elements
<1>5. Lists(window, Elements(window))
  BY <1>1, <1>3, <1>4 DEF Lists, Elements
<1>6. Chosen(window, "sqlite", r) \in SUBSET TimelineRow
  BY <1>1, <1>2 DEF Chosen, Elements
<1>7. CASE r.sources = "postgres"
  <2>1. Chosen(window, "sqlite", r) = {}
    BY <1>7 DEF Chosen
  <2>2. e = <<>>
    BY <1>7 DEF Timeline!EventsAsked
  <2>3. Lists(<<>>, {}) /\ Falls(<<>>)
    BY DEF Lists, Falls
  <2>. QED
    BY <1>6, <2>1, <2>2, <2>3
<1>8. CASE r.sources # "postgres"
  <2>1. Chosen(window, "sqlite", r)
          = {q \in Elements(window) : r.types = {} \/ q.type \in r.types}
    BY <1>8 DEF Chosen
  <2>2. PICK S : S = {i \in DOMAIN window : r.types = {} \/ window[i].type \in r.types}
    OBVIOUS
  <2>3. S = {i \in DOMAIN window : window[i] \in Chosen(window, "sqlite", r)}
    BY <2>1, <2>2 DEF Elements
  <2>4. e = Timeline!Kept(window, S)
    BY <1>8, <2>2 DEF Timeline!EventsAsked, Timeline!OfTypes
  <2>5. Chosen(window, "sqlite", r) \in SUBSET Elements(window)
    BY <2>1
  <2>6. Lists(e, Chosen(window, "sqlite", r))
    BY <1>5, <2>3, <2>4, <2>5, KeptLists
  <2>7. Falls(e)
    BY <2>2, <2>4, KeptFalls
  <2>. QED
    BY <1>6, <2>6, <2>7
<1>. QED
  BY <1>7, <1>8

(* No row of Postgres has a string for its date. *)
LEMMA NoneIsCoerced == ASSUME NEW rows PROVE Timeline!Coerced(rows) = <<>>
<1>1. {i \in DOMAIN rows : Timeline!CreatedAtOf(rows[i]) = "string"} = {}
  BY DEF Timeline!CreatedAtOf
<1>2. Timeline!Coerced(rows) = Timeline!Kept(rows, {})
  BY <1>1 DEF Timeline!Coerced
<1>3. {} \in SUBSET (1..0) /\ Cardinality({}) = 0
  BY FS_EmptySet
<1>4. PICK at, kept : kept = Timeline!Kept(rows, {}) /\ Visits(at, kept, rows, Earlier({}), {})
  BY <1>3, KeptIs
<1>5. kept = [k \in 1..0 |-> rows[at[k]]]
  BY <1>3, <1>4 DEF Visits
<1>6. kept = <<>>
  BY <1>5
<1>. QED
  BY <1>2, <1>4, <1>6

LEMMA StoryIs ==
    ASSUME NEW window \in Seq(TimelineRow), Falls(window), NEW seen, NEW r,
           r.sources \in {"both", "sqlite", "postgres"}, r.order \in {"asc", "desc"},
           NEW answer, answer = Timeline!Merged(window, seen, r)
    PROVE  /\ Lists(answer, RowsOf(Chosen(window, "sqlite", r), "sqlite"))
           /\ RowsOf(Chosen(window, "sqlite", r), "sqlite") \subseteq Timeline!AnswerRow
           /\ \A i, j \in DOMAIN answer : i < j =>
                 /\ r.order = "asc" => answer[i].time <= answer[j].time
                 /\ r.order = "desc" => answer[i].time >= answer[j].time
                 /\ answer[i].time = answer[j].time => answer[i].event > answer[j].event
<1>1. PICK E, R, e, rows : /\ E = Chosen(window, "sqlite", r) /\ R = RowsOf(E, "sqlite")
                           /\ e = Timeline!EventsAsked(window, r)
                           /\ rows = Timeline!Rows(e, <<>>)
  OBVIOUS
<1>2. Lists(e, E) /\ Falls(e) /\ E \in SUBSET TimelineRow
  BY <1>1, EventsAskedAre
<1>3. /\ Lists(rows, R) /\ DOMAIN rows = DOMAIN e
      /\ \A i \in DOMAIN e : rows[i].time = e[i].time /\ rows[i].event = e[i].event
  BY <1>1, <1>2, RowsAre
<1>4. answer = Timeline!StableSort(rows, r.order)
  BY <1>1, NoneIsCoerced DEF Timeline!Merged
<1>5. \A x \in TimelineRow : x.time \in Nat
  BY WorkspaceAssumption DEF TimelineRow
<1>6. \A a \in R : a.time \in Nat /\ a \in Timeline!AnswerRow
  <2>1. ASSUME NEW x \in TimelineRow
        PROVE  Timeline!Row(x, "sqlite").time \in Nat
               /\ Timeline!Row(x, "sqlite") \in Timeline!AnswerRow
    BY <1>5 DEF Timeline!Row, Timeline!AnswerRow, TimelineRow
  <2>. QED
    BY <1>1, <1>2, <2>1 DEF RowsOf
<1>7. /\ Lists(answer, R)
      /\ \E at : /\ \A k \in DOMAIN answer :
                       at[k] \in DOMAIN rows /\ answer[k] = rows[at[k]]
                 /\ \A k, l \in DOMAIN answer :
                       k < l => Precedes(rows, r.order, at[k], at[l])
  BY <1>3, <1>4, <1>6, SortIs
<1>8. PICK at : /\ \A k \in DOMAIN answer :
                      at[k] \in DOMAIN rows /\ answer[k] = rows[at[k]]
                /\ \A k, l \in DOMAIN answer :
                      k < l => Precedes(rows, r.order, at[k], at[l])
  BY <1>7
<1>9. \A i \in DOMAIN rows : rows[i] \in R
  BY <1>3, LenProperties DEF Lists
<1>10. ASSUME NEW i \in DOMAIN answer, NEW j \in DOMAIN answer, i < j
       PROVE  /\ r.order = "asc" => answer[i].time <= answer[j].time
              /\ r.order = "desc" => answer[i].time >= answer[j].time
              /\ answer[i].time = answer[j].time => answer[i].event > answer[j].event
  <2>1. PICK a, b, k, l : a = answer[i] /\ b = answer[j] /\ k = at[i] /\ l = at[j]
    OBVIOUS
  <2>2. /\ a = rows[k] /\ b = rows[l] /\ k \in DOMAIN rows /\ l \in DOMAIN rows
        /\ Precedes(rows, r.order, k, l)
    BY <1>8, <1>10, <2>1
  <2>3. a.time \in Nat /\ b.time \in Nat
    BY <1>6, <1>9, <2>2
  <2>4. r.order = "asc" => a.time <= b.time
    BY <2>2, <2>3 DEF Precedes
  <2>5. r.order = "desc" => a.time >= b.time
    BY <2>2, <2>3 DEF Precedes
  <2>6. ASSUME a.time = b.time PROVE a.event > b.event
    <3>1. k < l
      BY <2>2, <2>3, <2>6 DEF Precedes
    <3>2. e[k].event > e[l].event
      BY <1>2, <1>3, <2>2, <3>1 DEF Falls
    <3>. QED
      BY <1>3, <2>2, <3>2
  <2>. QED
    BY <2>1, <2>4, <2>5, <2>6
<1>. QED
  BY <1>1, <1>6, <1>7, <1>10

----------------------------------------------------------------------------
(* The timeline's invariant *)

LEMMA RowTypes ==
    /\ Timeline!EventRow \subseteq TimelineRow /\ Timeline!MirrorRow \subseteq TimelineRow
    /\ Seq(Timeline!EventRow) \subseteq Seq(TimelineRow)
    /\ Seq(Timeline!MirrorRow) \subseteq Seq(TimelineRow)
<1>1. Timeline!EventRow \subseteq TimelineRow
  BY DEF Timeline!EventRow, TimelineRow
<1>2. Timeline!MirrorRow \subseteq TimelineRow
  BY DEF Timeline!MirrorRow, TimelineRow
<1>. QED
  BY <1>1, <1>2

LEMMA InitTimeline == Timeline!Init => Timeline!IInv
<1>. SUFFICES ASSUME Timeline!Init PROVE Timeline!IInv
  OBVIOUS
<1>1. 0 \in 0..MaxTime
  BY WorkspaceAssumption
<1>2. v2 = <<>> /\ v3 = <<>> /\ v4 = {} /\ v1 = 0 /\ v5 = Timeline!NoRequest
  BY DEF Timeline!Init
<1>3. DOMAIN v2 = {} /\ DOMAIN v3 = {}
  BY <1>2
<1>4. Timeline!TypeOK
  BY <1>1, <1>2, <1>3 DEF Timeline!TypeOK, Timeline!NoRequest
<1>5. Timeline!RequestReadsBoth
  BY <1>2 DEF Timeline!RequestReadsBoth, Timeline!NoRequest
<1>. QED
  BY <1>3, <1>4, <1>5 DEF Timeline!IInv, Timeline!LogIsNumbered, Timeline!MirrorFollowsLog

(* What the log and the mirror show stays as they grow. *)
LEMMA LogShows ==
    ASSUME Timeline!IInv
    PROVE  /\ v2 \in Seq(Timeline!EventRow) /\ v3 \in Seq(Timeline!MirrorRow)
           /\ Len(v2) \in Nat /\ DOMAIN v2 = 1..Len(v2)
           /\ Len(v3) \in Nat /\ DOMAIN v3 = 1..Len(v3)
           /\ \A i \in 1..Len(v2) : v2[i] \in Timeline!EventRow /\ v2[i].event = i
           /\ \A i \in 1..Len(v3) : v3[i] \in Timeline!MirrorRow
<1>1. v2 \in Seq(Timeline!EventRow) /\ v3 \in Seq(Timeline!MirrorRow)
  BY DEF Timeline!IInv, Timeline!TypeOK, Timeline!EventRow, Timeline!MirrorRow
<1>2. /\ Len(v2) \in Nat /\ DOMAIN v2 = 1..Len(v2)
      /\ Len(v3) \in Nat /\ DOMAIN v3 = 1..Len(v3)
      /\ \A i \in 1..Len(v2) : v2[i] \in Timeline!EventRow
      /\ \A i \in 1..Len(v3) : v3[i] \in Timeline!MirrorRow
  BY <1>1, LenProperties
<1>. QED
  BY <1>1, <1>2 DEF Timeline!IInv, Timeline!LogIsNumbered

LEMMA TickKeeps == ASSUME Timeline!IInv, Timeline!Tick PROVE Timeline!IInv'
<1>1. v1 \in 0..MaxTime /\ v1 < MaxTime /\ v1' = v1 + 1
  BY DEF Timeline!IInv, Timeline!TypeOK, Timeline!Tick
<1>2. v1' \in 0..MaxTime /\ \A t \in 0..MaxTime : t <= v1 => t <= v1'
  BY <1>1, WorkspaceAssumption
<1>3. UNCHANGED <<v2, v3, v4, v5>>
  BY DEF Timeline!Tick
<1>4. Timeline!TypeOK'
  BY <1>2, <1>3 DEF Timeline!IInv, Timeline!TypeOK
<1>5. Timeline!LogIsNumbered'
  <2>1. \A i \in DOMAIN v2 : v2[i].event = i /\ v2[i].time <= v1 /\ v2[i].time \in 0..MaxTime
    BY LogShows DEF Timeline!IInv, Timeline!LogIsNumbered, Timeline!EventRow
  <2>. QED
    BY <1>2, <1>3, <2>1 DEF Timeline!LogIsNumbered
<1>6. Timeline!MirrorFollowsLog'
  BY <1>3 DEF Timeline!IInv, Timeline!MirrorFollowsLog
<1>7. Timeline!RequestReadsBoth'
  BY <1>3 DEF Timeline!IInv, Timeline!RequestReadsBoth
<1>. QED
  BY <1>4, <1>5, <1>6, <1>7 DEF Timeline!IInv

LEMMA LogEventKeeps ==
    ASSUME Timeline!IInv, NEW type \in LoggedTypes, Timeline!LogEvent(type) PROVE Timeline!IInv'
<1>1. PICK n \in Nat : n = Len(v2)
  BY LogShows
<1>2. PICK e : e = [type |-> type, time |-> v1, event |-> n + 1]
  OBVIOUS
<1>3. /\ n < MaxEvents /\ v2' = Append(v2, e) /\ v4' = v4 \cup {n + 1}
      /\ UNCHANGED <<v1, v3, v5>>
  BY <1>1, <1>2 DEF Timeline!LogEvent
<1>4. v1 \in 0..MaxTime /\ n + 1 \in 1..MaxEvents
  <2>1. MaxEvents \in Nat
    BY WorkspaceAssumption
  <2>2. v1 \in 0..MaxTime
    BY DEF Timeline!IInv, Timeline!TypeOK
  <2>. QED
    BY <1>3, <2>1, <2>2
<1>5. e \in Timeline!EventRow /\ e.event = n + 1 /\ e.time = v1
  BY <1>2, <1>4 DEF Timeline!EventRow
<1>6. /\ v2' \in Seq(Timeline!EventRow) /\ DOMAIN v2' = 1..(n + 1) /\ DOMAIN v2 = 1..n
      /\ \A i \in 1..n : v2'[i] = v2[i]
      /\ v2'[n + 1] = e
  BY <1>1, <1>3, <1>5, LogShows, AppendProperties
<1>7. Timeline!TypeOK'
  <2>1. v2' \in Seq([type: LoggedTypes, time: 0..MaxTime, event: 1..MaxEvents])
    BY <1>6 DEF Timeline!EventRow
  <2>2. v4' \subseteq DOMAIN v2'
    BY <1>3, <1>6 DEF Timeline!IInv, Timeline!TypeOK
  <2>. QED
    BY <1>3, <2>1, <2>2 DEF Timeline!IInv, Timeline!TypeOK
<1>8. Timeline!LogIsNumbered'
  <2>1. \A i \in 1..n : v2[i].event = i /\ v2[i].time <= v1
    BY <1>6 DEF Timeline!IInv, Timeline!LogIsNumbered
  <2>2. \A i \in 1..(n + 1) : v2'[i].event = i /\ v2'[i].time <= v1
    BY <1>4, <1>5, <1>6, <2>1
  <2>. QED
    BY <1>3, <1>6, <2>2 DEF Timeline!LogIsNumbered
<1>9. Timeline!MirrorFollowsLog'
  <2>1. \A k \in DOMAIN v3 : v3[k].event \in 1..n /\ v2[v3[k].event].time <= v3[k].time
    BY <1>6 DEF Timeline!IInv, Timeline!MirrorFollowsLog
  <2>2. \A k \in DOMAIN v3 : v3[k].event \in 1..(n + 1) /\ v2'[v3[k].event].time <= v3[k].time
    BY <1>6, <2>1
  <2>. QED
    BY <1>3, <1>6, <2>2 DEF Timeline!IInv, Timeline!MirrorFollowsLog
<1>10. Timeline!RequestReadsBoth'
  <2>1. \A i \in DOMAIN v5.window : \E j \in 1..n : v5.window[i] = v2[j]
    BY <1>6 DEF Timeline!IInv, Timeline!RequestReadsBoth
  <2>2. \A i \in DOMAIN v5.window : \E j \in 1..(n + 1) : v5.window[i] = v2'[j]
    BY <1>6, <2>1
  <2>. QED
    BY <1>3, <1>6, <2>2 DEF Timeline!IInv, Timeline!RequestReadsBoth
<1>. QED
  BY <1>7, <1>8, <1>9, <1>10 DEF Timeline!IInv

LEMMA MirrorKeeps ==
    ASSUME Timeline!IInv, NEW i \in 1..MaxEvents, Timeline!MirrorIfApplicable(i)
    PROVE  Timeline!IInv'
<1>1. /\ i \in v4 /\ v4' = v4 \ {i} /\ UNCHANGED <<v1, v2, v5>>
  BY DEF Timeline!MirrorIfApplicable
<1>2. i \in DOMAIN v2 /\ v1 \in 0..MaxTime /\ v2[i].time <= v1
  BY <1>1 DEF Timeline!IInv, Timeline!TypeOK, Timeline!LogIsNumbered
<1>3. Timeline!LogIsNumbered'
  BY <1>1 DEF Timeline!IInv, Timeline!LogIsNumbered
<1>4. CASE UNCHANGED v3
  <2>1. Timeline!TypeOK'
    BY <1>1, <1>4 DEF Timeline!IInv, Timeline!TypeOK
  <2>2. Timeline!MirrorFollowsLog'
    BY <1>1, <1>4 DEF Timeline!IInv, Timeline!MirrorFollowsLog
  <2>3. Timeline!RequestReadsBoth'
    BY <1>1, <1>4 DEF Timeline!IInv, Timeline!RequestReadsBoth
  <2>. QED
    BY <1>3, <2>1, <2>2, <2>3 DEF Timeline!IInv
<1>5. CASE ~UNCHANGED v3
  <2>1. PICK e : e = [type |-> Timeline!MirrorType(v2[i].type), time |-> v1, event |-> i]
    OBVIOUS
  <2>2. v3' = Append(v3, e)
    BY <1>5, <2>1 DEF Timeline!MirrorIfApplicable
  <2>3. \A type : Timeline!MirrorType(type) \in Timeline!MirrorTypes
    BY DEF Timeline!MirrorType, Timeline!MirrorTypes
  <2>4. e \in Timeline!MirrorRow /\ e.event = i /\ e.time = v1
    BY <1>2, <2>1, <2>3 DEF Timeline!MirrorRow
  <2>5. PICK m \in Nat : m = Len(v3)
    BY LogShows
  <2>6. /\ v3' \in Seq(Timeline!MirrorRow) /\ DOMAIN v3' = 1..(m + 1) /\ DOMAIN v3 = 1..m
        /\ \A k \in 1..m : v3'[k] = v3[k]
        /\ v3'[m + 1] = e
    BY <2>2, <2>4, <2>5, LogShows, AppendProperties
  <2>7. Timeline!TypeOK'
    <3>1. v3' \in Seq([type: Timeline!MirrorTypes, time: 0..MaxTime, event: 1..MaxEvents])
      BY <2>6 DEF Timeline!MirrorRow
    <3>. QED
      BY <1>1, <3>1 DEF Timeline!IInv, Timeline!TypeOK
  <2>8. Timeline!MirrorFollowsLog'
    <3>1. \A k \in 1..m : v3[k].event \in DOMAIN v2 /\ v2[v3[k].event].time <= v3[k].time
      BY <2>6 DEF Timeline!IInv, Timeline!MirrorFollowsLog
    <3>2. \A k \in 1..(m + 1) : v3'[k].event \in DOMAIN v2 /\ v2[v3'[k].event].time <= v3'[k].time
      BY <1>2, <2>4, <2>6, <3>1
    <3>. QED
      BY <1>1, <2>6, <3>2 DEF Timeline!MirrorFollowsLog
  <2>9. Timeline!RequestReadsBoth'
    <3>1. \A k \in DOMAIN v5.seen : \E l \in 1..m : v5.seen[k] = v3[l]
      BY <2>6 DEF Timeline!IInv, Timeline!RequestReadsBoth
    <3>2. \A k \in DOMAIN v5.seen : \E l \in 1..(m + 1) : v5.seen[k] = v3'[l]
      BY <2>6, <3>1
    <3>. QED
      BY <1>1, <2>6, <3>2 DEF Timeline!IInv, Timeline!RequestReadsBoth
  <2>. QED
    BY <1>3, <2>7, <2>8, <2>9 DEF Timeline!IInv
<1>. QED
  BY <1>4, <1>5

Unbroken(window) == \A i \in DOMAIN window : window[i].event = window[1].event + 1 - i

(* The window is of the log's last events, the newest first. *)
LEMMA NewestIs ==
    ASSUME Timeline!IInv, NEW limit \in Nat, NEW window, window = Timeline!Newest(limit)
    PROVE  /\ window \in Seq(Timeline!EventRow)
           /\ \A i \in DOMAIN window : \E j \in DOMAIN v2 : window[i] = v2[j]
           /\ Unbroken(window)
<1>1. PICK m \in Nat : m = Len(v2)
  BY LogShows
<1>2. PICK n \in 0..m : window = [i \in 1..n |-> v2[m + 1 - i]]
  <2>1. CASE limit < m
    BY <1>1, <2>1 DEF Timeline!Newest
  <2>2. CASE ~(limit < m)
    BY <1>1, <2>2 DEF Timeline!Newest
  <2>. QED
    BY <2>1, <2>2
<1>3. /\ \A i \in 1..n : m + 1 - i \in 1..m /\ window[i] = v2[m + 1 - i]
      /\ DOMAIN window = 1..n
  BY <1>2
<1>4. \A j \in 1..m : v2[j] \in Timeline!EventRow /\ v2[j].event = j /\ j \in DOMAIN v2
  BY <1>1, LogShows
<1>5. \A i \in 1..n : window[i] \in Timeline!EventRow /\ window[i].event = m + 1 - i
  BY <1>3, <1>4
<1>6. window \in Seq(Timeline!EventRow)
  BY <1>2, <1>5
<1>7. Unbroken(window)
  <2>1. ASSUME NEW i \in 1..n PROVE window[i].event = window[1].event + 1 - i
    <3>1. 1 \in 1..n
      OBVIOUS
    <3>2. window[1].event = m + 1 - 1 /\ window[i].event = m + 1 - i
      BY <1>5, <3>1
    <3>. QED
      BY <3>2
  <2>. QED
    BY <1>3, <2>1 DEF Unbroken
<1>. QED
  BY <1>3, <1>4, <1>6, <1>7

Request == [pc: {"none", "waiting", "answered"}, types: TypeFilters \cup {{}},
            order: {"asc", "desc"}, sources: {"both", "sqlite", "postgres"},
            window: Seq(Timeline!EventRow), seen: Seq(Timeline!MirrorRow),
            answer: Seq(Timeline!AnswerRow)]

LEMMA ReadsLogKeeps ==
    ASSUME Timeline!IInv, NEW limit \in Limits, NEW types \in TypeFilters,
           NEW order \in {"asc", "desc"}, NEW sources \in {"both", "sqlite", "postgres"},
           Timeline!TimelineReadsLog(limit, types, order, sources)
    PROVE  Timeline!IInv'
<1>1. PICK window : window = Timeline!Newest(limit)
  OBVIOUS
<1>2. limit \in Nat
  BY WorkspaceAssumption
<1>3. /\ window \in Seq(Timeline!EventRow)
      /\ \A i \in DOMAIN window : \E j \in DOMAIN v2 : window[i] = v2[j]
      /\ Unbroken(window)
  BY <1>1, <1>2, NewestIs
<1>4. v5' = [pc |-> "waiting", types |-> types, order |-> order, sources |-> sources,
             window |-> window, seen |-> <<>>, answer |-> <<>>]
  BY <1>1 DEF Timeline!TimelineReadsLog, Timeline!NoRequest
<1>5. UNCHANGED <<v1, v2, v3, v4>>
  BY DEF Timeline!TimelineReadsLog
<1>6. /\ v5'.pc = "waiting" /\ v5'.window = window /\ v5'.seen = <<>>
      /\ v5' \in Request
  BY <1>3, <1>4 DEF Request
<1>7. Timeline!RequestReadsBoth'
  BY <1>3, <1>5, <1>6 DEF Timeline!RequestReadsBoth, Request, Unbroken
<1>. QED
  BY <1>5, <1>6, <1>7 DEF Timeline!IInv, Timeline!TypeOK, Timeline!LogIsNumbered,
     Timeline!MirrorFollowsLog

(* What a request has read. *)
LEMMA RequestShows ==
    ASSUME Timeline!IInv
    PROVE  /\ v5 \in Request
           /\ v5.window \in Seq(TimelineRow) /\ Unbroken(v5.window) /\ Falls(v5.window)
<1>1. v5 \in Request
  BY DEF Timeline!IInv, Timeline!RequestReadsBoth, Request
<1>2. v5.window \in Seq(Timeline!EventRow)
  BY <1>1 DEF Request
<1>3. v5.window \in Seq(TimelineRow)
  BY <1>2, RowTypes
<1>4. Unbroken(v5.window)
  BY DEF Timeline!IInv, Timeline!RequestReadsBoth, Unbroken
<1>5. Falls(v5.window)
  <2>1. PICK w, n : w = v5.window /\ n = Len(w) /\ DOMAIN w = 1..n /\ n \in Nat
    BY <1>3, LenProperties
  <2>2. ASSUME NEW i \in 1..n, NEW j \in 1..n, i < j PROVE w[i].event > w[j].event
    <3>1. 1 \in 1..n
      BY <2>1
    <3>2. w[1] \in TimelineRow
      BY <1>3, <2>1, <3>1
    <3>3. w[1].event \in Int
      BY <3>2 DEF TimelineRow
    <3>4. w[i].event = w[1].event + 1 - i /\ w[j].event = w[1].event + 1 - j
      BY <1>4, <2>1 DEF Unbroken
    <3>. QED
      BY <2>2, <3>3, <3>4
  <2>. QED
    BY <2>1, <2>2 DEF Falls
<1>. QED
  BY <1>1, <1>3, <1>4, <1>5

LEMMA AnswersKeep ==
    ASSUME Timeline!IInv, NEW pg, pg = v3 \/ pg = <<>>, Timeline!TimelineAnswers(pg)
    PROVE  Timeline!IInv'
<1>1. /\ pg \in Seq(Timeline!MirrorRow)
      /\ \A k \in DOMAIN pg : \E l \in DOMAIN v3 : pg[k] = v3[l]
  <2>1. CASE pg = v3
    BY <2>1, LogShows
  <2>2. CASE pg = <<>>
    BY <2>2
  <2>. QED
    BY <2>1, <2>2
<1>2. PICK answer : answer = Timeline!Merged(v5.window, pg, v5)
  OBVIOUS
<1>3. answer \in Seq(Timeline!AnswerRow)
  <2>1. PICK window, r : window = v5.window /\ r = v5
    OBVIOUS
  <2>2. window \in Seq(TimelineRow) /\ Falls(window)
    BY <2>1, RequestShows
  <2>3. r.sources \in {"both", "sqlite", "postgres"} /\ r.order \in {"asc", "desc"}
    BY <2>1, RequestShows DEF Request
  <2>4. answer = Timeline!Merged(window, pg, r)
    BY <1>2, <2>1
  <2>5. PICK R : R = RowsOf(Chosen(window, "sqlite", r), "sqlite")
    OBVIOUS
  <2>6. Lists(answer, R) /\ R \subseteq Timeline!AnswerRow
    BY <2>2, <2>3, <2>4, <2>5, StoryIs
  <2>. QED
    BY <2>6 DEF Lists
<1>4. /\ v5' = [v5 EXCEPT !.pc = "answered", !.seen = pg, !.answer = answer]
      /\ UNCHANGED <<v1, v2, v3, v4>>
  BY <1>2 DEF Timeline!TimelineAnswers
<1>5. /\ v5' \in Request /\ v5'.pc = "answered"
      /\ v5'.window = v5.window /\ v5'.seen = pg /\ v5'.answer = answer
      /\ v5'.types = v5.types /\ v5'.order = v5.order /\ v5'.sources = v5.sources
  BY <1>1, <1>3, <1>4, RequestShows DEF Request
<1>6. v5'.answer = Timeline!Merged(v5'.window, v5'.seen, v5')
  BY <1>2, <1>5 DEF Timeline!Merged, Timeline!EventsAsked, Timeline!RowsAsked
<1>7. Timeline!RequestReadsBoth'
  <2>1. \A i \in DOMAIN v5.window : \E j \in DOMAIN v2 : v5.window[i] = v2[j]
    BY DEF Timeline!IInv, Timeline!RequestReadsBoth
  <2>. QED
    BY <1>1, <1>4, <1>5, <1>6, <2>1, RequestShows
       DEF Timeline!RequestReadsBoth, Request, Unbroken
<1>. QED
  BY <1>4, <1>5, <1>7 DEF Timeline!IInv, Timeline!TypeOK, Timeline!LogIsNumbered,
     Timeline!MirrorFollowsLog

LEMMA NextTimeline ==
    Timeline!IInv /\ [Timeline!Next]_(Timeline!vars) => Timeline!IInv'
<1>. SUFFICES ASSUME Timeline!IInv, [Timeline!Next]_(Timeline!vars) PROVE Timeline!IInv'
  OBVIOUS
<1>1. CASE Timeline!Tick
  BY <1>1, TickKeeps
<1>2. ASSUME NEW type \in LoggedTypes, Timeline!LogEvent(type) PROVE Timeline!IInv'
  BY <1>2, LogEventKeeps
<1>3. ASSUME NEW i \in 1..MaxEvents, Timeline!MirrorIfApplicable(i) PROVE Timeline!IInv'
  BY <1>3, MirrorKeeps
<1>4. ASSUME NEW limit \in Limits, NEW types \in TypeFilters, NEW order \in {"asc", "desc"},
             NEW sources \in {"both", "sqlite", "postgres"},
             Timeline!TimelineReadsLog(limit, types, order, sources)
      PROVE  Timeline!IInv'
  BY <1>4, ReadsLogKeeps
<1>5. CASE Timeline!TimelineAnswers(v3)
  BY <1>5, AnswersKeep
<1>6. CASE Timeline!TimelineAnswers(<<>>)
  BY <1>6, AnswersKeep
<1>7. CASE UNCHANGED Timeline!vars
  BY <1>7 DEF Timeline!vars, Timeline!IInv, Timeline!TypeOK, Timeline!LogIsNumbered,
     Timeline!MirrorFollowsLog, Timeline!RequestReadsBoth
<1>. QED
  BY <1>1, <1>2, <1>3, <1>4, <1>5, <1>6, <1>7 DEF Timeline!Next

(* A row of Postgres mirrors an event of the window, that is no younger,   *)
(* or one of those before or after it.                                     *)
LEMMA MirrorIsAccountedFor ==
    ASSUME Timeline!IInv, NEW k \in DOMAIN v5.seen
    PROVE  \/ \E i \in DOMAIN v5.window : /\ v5.window[i].event = v5.seen[k].event
                                         /\ v5.window[i].time <= v5.seen[k].time
           \/ \A i \in DOMAIN v5.window : v5.window[i].event < v5.seen[k].event
           \/ \A i \in DOMAIN v5.window : v5.window[i].event > v5.seen[k].event
<1>1. PICK l \in DOMAIN v3 : v5.seen[k] = v3[l]
  BY DEF Timeline!IInv, Timeline!RequestReadsBoth
<1>2. PICK j : j = v3[l].event /\ j \in DOMAIN v2 /\ v2[j].time <= v3[l].time
  BY DEF Timeline!IInv, Timeline!MirrorFollowsLog
<1>3. PICK w, n : w = v5.window /\ n = Len(w) /\ DOMAIN w = 1..n /\ n \in Nat
  <2>1. v5.window \in Seq(TimelineRow)
    BY RequestShows
  <2>. QED
    BY <2>1, LenProperties
<1>4. CASE n = 0
  BY <1>3, <1>4
<1>5. CASE n # 0
  <2>1. 1 \in 1..n
    BY <1>3, <1>5
  <2>2. PICK top : top = w[1].event
    OBVIOUS
  <2>3. top \in Int /\ j \in Int
    <3>1. w[1] \in TimelineRow
      BY <1>3, <2>1, RequestShows
    <3>2. j \in 1..Len(v2)
      BY <1>2, LogShows
    <3>. QED
      BY <2>2, <3>1, <3>2 DEF TimelineRow
  <2>4. \A i \in 1..n : w[i].event = top + 1 - i
    BY <1>3, <2>2, RequestShows DEF Unbroken
  <2>5. CASE j > top
    <3>1. \A i \in 1..n : w[i].event < j
      BY <2>3, <2>4, <2>5
    <3>. QED
      BY <1>1, <1>2, <1>3, <3>1
  <2>6. CASE j < top + 1 - n
    <3>1. ASSUME NEW i \in 1..n PROVE w[i].event > j
      <4>1. n \in Int /\ i \in Int /\ i <= n /\ w[i].event = top + 1 - i
        BY <1>3, <2>4
      <4>. QED
        BY <2>3, <2>6, <4>1
    <3>. QED
      BY <1>1, <1>2, <1>3, <3>1
  <2>7. CASE ~(j > top) /\ ~(j < top + 1 - n)
    <3>1. PICK i : i = top + 1 - j /\ i \in 1..n
      <4>1. n \in Int
        BY <1>3
      <4>2. top + 1 - j \in Int /\ top + 1 - j >= 1 /\ top + 1 - j <= n
        BY <2>3, <2>7, <4>1
      <4>. QED
        BY <4>1, <4>2
    <3>2. w[i].event = j
      BY <2>3, <2>4, <3>1
    <3>3. PICK h \in DOMAIN v2 : w[i] = v2[h]
      BY <1>3, <3>1 DEF Timeline!IInv, Timeline!RequestReadsBoth
    <3>4. v2[h].event = h
      BY DEF Timeline!IInv, Timeline!LogIsNumbered
    <3>5. w[i].time <= v3[l].time
      BY <1>2, <3>2, <3>3, <3>4
    <3>. QED
      BY <1>1, <1>2, <1>3, <3>1, <3>2, <3>5
  <2>. QED
    BY <2>5, <2>6, <2>7
<1>. QED
  BY <1>4, <1>5

LEMMA TellsTheStory == ASSUME Timeline!IInv PROVE Timeline!TimelineTellsTheStory
<1>. SUFFICES ASSUME v5.pc = "answered" PROVE Timeline!TimelineTellsTheStory
  BY DEF Timeline!TimelineTellsTheStory
<1>1. PICK window, seen, answer, events, mirrors :
         /\ window = v5.window /\ seen = v5.seen /\ answer = v5.answer
         /\ events = Timeline!Asked(v5.window, "sqlite")
         /\ mirrors = Timeline!Asked(v5.seen, "postgres")
  OBVIOUS
<1>2. /\ events = RowsOf(Chosen(window, "sqlite", v5), "sqlite")
      /\ mirrors = RowsOf(Chosen(seen, "postgres", v5), "postgres")
  BY <1>1 DEF Timeline!Asked, Timeline!Elements, RowsOf, Chosen, Elements
<1>3. v5 \in Request /\ window \in Seq(TimelineRow) /\ Falls(window)
  BY <1>1, RequestShows
<1>4. seen \in Seq(TimelineRow)
  BY <1>1, <1>3, RowTypes DEF Request
<1>5. answer = Timeline!Merged(window, seen, v5)
  BY <1>1 DEF Timeline!IInv, Timeline!RequestReadsBoth
<1>6. /\ Lists(answer, events)
      /\ \A i, j \in DOMAIN answer : i < j =>
            /\ v5.order = "asc" => answer[i].time <= answer[j].time
            /\ v5.order = "desc" => answer[i].time >= answer[j].time
            /\ answer[i].time = answer[j].time => answer[i].event > answer[j].event
  <2>1. v5.sources \in {"both", "sqlite", "postgres"} /\ v5.order \in {"asc", "desc"}
    BY <1>3 DEF Request
  <2>. QED
    BY <1>2, <1>3, <1>5, <2>1, StoryIs
<1>7. Timeline!Elements(answer) = events
  <2>1. \A i \in DOMAIN answer : answer[i] \in events
    BY <1>6, LenProperties DEF Lists
  <2>. QED
    BY <1>6, <2>1 DEF Lists, Timeline!Elements
<1>8. \A i, j \in DOMAIN answer : i < j => answer[i] # answer[j]
  <2>1. DOMAIN answer \subseteq Nat
    BY <1>6, LenProperties DEF Lists
  <2>. QED
    BY <1>6, <2>1 DEF Lists
<1>9. ASSUME v5.sources = "both", v5.types = {}, NEW m \in mirrors
      PROVE  \/ \E e \in events : e.event = m.event /\ e.time <= m.time
             \/ \A e \in events : e.event < m.event
             \/ \A e \in events : e.event > m.event
  <2>1. PICK k \in DOMAIN seen : m = Timeline!Row(seen[k], "postgres")
    BY <1>2, <1>9 DEF RowsOf, Chosen, Elements
  <2>2. m.event = seen[k].event /\ m.time = seen[k].time
    BY <2>1 DEF Timeline!Row
  <2>3. events = {Timeline!Row(window[i], "sqlite") : i \in DOMAIN window}
    BY <1>2, <1>9 DEF RowsOf, Chosen, Elements
  <2>4. /\ \A i \in DOMAIN window : \E e \in events :
              e.event = window[i].event /\ e.time = window[i].time
        /\ \A e \in events : \E i \in DOMAIN window : e.event = window[i].event
    <3>1. \A i \in DOMAIN window :
             /\ Timeline!Row(window[i], "sqlite").event = window[i].event
             /\ Timeline!Row(window[i], "sqlite").time = window[i].time
      BY DEF Timeline!Row
    <3>. QED
      BY <2>3, <3>1
  <2>5. \/ \E i \in DOMAIN window : window[i].event = m.event /\ window[i].time <= m.time
        \/ \A i \in DOMAIN window : window[i].event < m.event
        \/ \A i \in DOMAIN window : window[i].event > m.event
    BY <1>1, <2>2, MirrorIsAccountedFor
  <2>6. CASE \E i \in DOMAIN window : window[i].event = m.event /\ window[i].time <= m.time
    <3>1. PICK i \in DOMAIN window : window[i].event = m.event /\ window[i].time <= m.time
      BY <2>6
    <3>2. PICK e \in events : e.event = window[i].event /\ e.time = window[i].time
      BY <2>4
    <3>. QED
      BY <3>1, <3>2
  <2>7. CASE \A i \in DOMAIN window : window[i].event < m.event
    BY <2>4, <2>7
  <2>8. CASE \A i \in DOMAIN window : window[i].event > m.event
    BY <2>4, <2>8
  <2>. QED
    BY <2>5, <2>6, <2>7, <2>8
<1>. QED
  BY <1>1, <1>6, <1>7, <1>8, <1>9 DEF Timeline!TimelineTellsTheStory

----------------------------------------------------------------------------
(* The types of the parts that no other proof needs *)

LEMMA CountIsNat == ASSUME NEW log \in Seq(Retro!Types), NEW type PROVE Retro!Count(log, type) \in Nat
<1>1. PICK n \in Nat : n = Len(log) /\ DOMAIN log = 1..n
  BY LenProperties
<1>2. PICK S : S = {i \in DOMAIN log : log[i] = type}
  OBVIOUS
<1>3. S \in SUBSET (1..n)
  BY <1>1, <1>2
<1>4. Cardinality(S) \in Nat
  BY <1>3, FinitelyMany
<1>. QED
  BY <1>2, <1>4 DEF Retro!Count, Retro!Cardinality, Cardinality

LEMMA ClampIs ==
    ASSUME NEW n \in Int, NEW lo \in Int, NEW hi \in Int, lo <= hi
    PROVE  Retro!Clamp(n, lo, hi) \in lo..hi
  BY DEF Retro!Clamp

(* Whatever the session has done, its scores are in their ranges. *)
LEMMA ScoresAreInRange == ASSUME NEW log \in Seq(Retro!Types) PROVE Retro!Kpis(log) \in Retro!Scores
<1>1. PICK fails, passes, loops, prUpdates, merged, vfsOk :
         /\ fails = Retro!Count(log, "VALIDATION_FAILED")
         /\ passes = Retro!Count(log, "VALIDATION_PASSED")
         /\ loops = Retro!Count(log, "VALIDATION_LOOP_DETECTED")
         /\ prUpdates = Retro!Count(log, "PR_UPDATED")
         /\ merged = Retro!Count(log, "PR_MERGED")
         /\ vfsOk = Retro!Count(log, "VFS_APPROVED")
  OBVIOUS
<1>2. /\ fails \in Int /\ passes \in Int /\ loops \in Int
      /\ prUpdates \in Int /\ merged \in Int /\ vfsOk \in Int
  BY <1>1, CountIsNat
<1>3. /\ 35 + 4 * passes + 5 * vfsOk - 3 * fails - 8 * loops \in Int
      /\ 8 + 6 * fails + 2 * prUpdates \in Int
      /\ 45 + 5 * prUpdates + 12 * merged \in Int
      /\ 40 + 3 * passes + 10 * merged - 5 * loops \in Int
  BY <1>2
<1>6. 0 \in Int /\ 99 \in Int /\ 95 \in Int /\ 0 <= 99 /\ 0 <= 95
  OBVIOUS
<1>4. /\ Retro!Clamp(35 + 4 * passes + 5 * vfsOk - 3 * fails - 8 * loops, 0, 99) \in 0..99
      /\ Retro!Clamp(8 + 6 * fails + 2 * prUpdates, 0, 95) \in 0..95
      /\ Retro!Clamp(45 + 5 * prUpdates + 12 * merged, 0, 99) \in 0..99
      /\ Retro!Clamp(40 + 3 * passes + 10 * merged - 5 * loops, 0, 99) \in 0..99
  BY <1>3, <1>6, ClampIs
<1>5. Retro!Kpis(log) =
         [roleBalance |-> Retro!Clamp(35 + 4 * passes + 5 * vfsOk - 3 * fails - 8 * loops, 0, 99),
          rework |-> Retro!Clamp(8 + 6 * fails + 2 * prUpdates, 0, 95),
          reviewReflection |-> Retro!Clamp(45 + 5 * prUpdates + 12 * merged, 0, 99),
          communication |-> Retro!Clamp(40 + 3 * passes + 10 * merged - 5 * loops, 0, 99)]
  BY <1>1 DEF Retro!Kpis
<1>. QED
  BY <1>4, <1>5 DEF Retro!Scores

LEMMA InitRetro == Retro!Init => Retro!TypeOK
<1>1. Retro!Init => v1 \in Seq(Retro!Types)
  BY DEF Retro!Init
<1>. QED
  BY <1>1, ScoresAreInRange DEF Retro!TypeOK

LEMMA NextRetro == Retro!TypeOK /\ [Retro!Next]_(Retro!vars) => Retro!TypeOK'
<1>. SUFFICES ASSUME Retro!TypeOK, [Retro!Next]_(Retro!vars) PROVE Retro!TypeOK'
  OBVIOUS
<1>1. v1 \in Seq(Retro!Types)
  BY DEF Retro!TypeOK
<1>2. v1' \in Seq(Retro!Types)
  <2>1. ASSUME NEW type \in Retro!Types, Retro!LogEvent(type) PROVE v1' \in Seq(Retro!Types)
    <3>1. PICK log : log = Append(v1, type)
      OBVIOUS
    <3>2. log \in Seq(Retro!Types) /\ log # <<>>
      BY <1>1, <3>1, AppendProperties
    <3>3. Tail(log) \in Seq(Retro!Types)
      BY <3>2, HeadTailProperties
    <3>. QED
      BY <2>1, <3>1, <3>2, <3>3 DEF Retro!LogEvent, Retro!Listed
  <2>. QED
    BY <1>1, <2>1 DEF Retro!Next, Retro!vars
<1>3. Retro!Kpis(v1') \in Retro!Scores
  BY <1>2, ScoresAreInRange
<1>. QED
  BY <1>2, <1>3 DEF Retro!TypeOK, Retro!Kpis, Retro!Count

LEMMA InitChat == Chat!Init => Chat!TypeOK
<1>1. 0 \in 0..MaxQuestions
  BY WorkspaceAssumption
<1>. QED
  BY <1>1 DEF Chat!Init, Chat!TypeOK, Chat!NoQuestion

(* A question carries the contents of the room that are no errors. *)
LEMMA TurnsAre ==
    ASSUME Chat!TypeOK, NEW content \in Chat!Contents
    PROVE  Chat!Turns(content) \in Seq(Chat!Contents \cup {"reply"})
<1>1. PICK T : T = Chat!Contents \cup {"reply"}
  OBVIOUS
<1>2. PICK n \in Nat : n = Len(v2) /\ DOMAIN v2 = 1..n
  BY LenProperties DEF Chat!TypeOK
<1>3. PICK S : S = {i \in DOMAIN v2 : v2[i] # "error"}
  OBVIOUS
<1>4. S \in SUBSET (1..n) /\ \A i \in S : v2[i] \in T
  BY <1>1, <1>2, <1>3, LenProperties DEF Chat!TypeOK
<1>5. PICK m, kept : m = Cardinality(S) /\ kept = Chat!Kept(v2, S)
  OBVIOUS
<1>6. kept = Timeline!Kept(v2, S)
  BY <1>5 DEF Chat!Kept, Chat!Arranged, Timeline!Kept, Timeline!Arranged,
     Chat!Cardinality, Timeline!Cardinality, Cardinality
<1>7. PICK at : Visits(at, kept, v2, Earlier(S), S)
  BY <1>4, <1>6, KeptIs
<1>8. at \in [1..m -> S] /\ kept = [k \in 1..m |-> v2[at[k]]]
  BY <1>5, <1>7 DEF Visits
<1>9. m \in Nat
  BY <1>4, <1>5, FinitelyMany
<1>10. kept \in Seq(T)
  <2>1. \A k \in 1..m : v2[at[k]] \in T
    BY <1>4, <1>8
  <2>. QED
    BY <1>8, <1>9, <2>1
<1>11. PICK all : all = Append(kept, content)
  OBVIOUS
<1>12. all \in Seq(T) /\ Len(all) \in Nat
  BY <1>1, <1>10, <1>11, AppendProperties, LenProperties
<1>13. PICK from : from = IF Len(all) > ChatWindow THEN Len(all) - ChatWindow + 1 ELSE 1
  OBVIOUS
<1>14. from \in Nat \ {0}
  <2>1. ChatWindow \in Nat
    BY WorkspaceAssumption
  <2>. QED
    BY <1>12, <1>13, <2>1
<1>15. SubSeq(all, from, Len(all)) \in Seq(T)
  <2>1. \A i \in from..Len(all) : all[i] \in T
    BY <1>12, <1>14, LenProperties
  <2>. QED
    BY <1>12, <1>14, <2>1, SubSeqProperties
<1>16. Chat!Turns(content) = SubSeq(all, from, Len(all))
  BY <1>3, <1>5, <1>11, <1>13 DEF Chat!Turns
<1>. QED
  BY <1>1, <1>15, <1>16

LEMMA NextChat == Chat!TypeOK /\ [Chat!Next]_(Chat!vars) => Chat!TypeOK'
<1>. SUFFICES ASSUME Chat!TypeOK, [Chat!Next]_(Chat!vars) PROVE Chat!TypeOK'
  OBVIOUS
<1>1. PICK C, T, A : /\ C = Chat!Contents \cup {"reply", "error"} /\ T = Chat!Contents \cup {"reply"}
                     /\ A = {"none", "openai", "gemini", "mock", "error"}
  OBVIOUS
<1>2. v2 \in Seq(C) /\ v3 \in [to: A, turns: Seq(T)] /\ v4 \in 0..MaxQuestions
  BY <1>1 DEF Chat!TypeOK
<1>3. Chat!NoQuestion \in [to: A, turns: Seq(T)]
  BY <1>1 DEF Chat!NoQuestion
<1>4. SUFFICES v2' \in Seq(C) /\ v3' \in [to: A, turns: Seq(T)] /\ v4' \in 0..MaxQuestions
  BY <1>1 DEF Chat!TypeOK
<1>5. \A c \in C : Append(v2, c) \in Seq(C)
  BY <1>2, AppendProperties
<1>6. CASE Chat!FallsBack
  BY <1>1, <1>2, <1>6 DEF Chat!FallsBack
<1>7. CASE Chat!Replied
  BY <1>1, <1>2, <1>3, <1>5, <1>7 DEF Chat!Replied
<1>8. CASE Chat!Errs
  BY <1>1, <1>2, <1>3, <1>5, <1>8 DEF Chat!Errs
<1>9. CASE Chat!LoadsRoles
  BY <1>2, <1>9 DEF Chat!LoadsRoles
<1>10. ASSUME NEW c \in Chat!Contents, Chat!Sends(c)
       PROVE  v2' \in Seq(C) /\ v3' \in [to: A, turns: Seq(T)] /\ v4' \in 0..MaxQuestions
  <2>1. PICK turns : turns = Chat!Turns(c)
    OBVIOUS
  <2>2. turns \in Seq(T)
    BY <1>1, <2>1, TurnsAre
  <2>3. Chat!Recipient(turns) \in A
    BY <1>1 DEF Chat!Recipient
  <2>4. v3' = [to |-> Chat!Recipient(turns), turns |-> turns]
    BY <1>10, <2>1 DEF Chat!Sends
  <2>5. v2' = Append(v2, c) /\ c \in C
    BY <1>1, <1>10 DEF Chat!Sends
  <2>6. v4' \in 0..MaxQuestions
    <3>1. MaxQuestions \in Nat /\ v4 < MaxQuestions /\ v4' = v4 + 1
      BY <1>10, WorkspaceAssumption DEF Chat!Sends
    <3>. QED
      BY <1>2, <3>1
  <2>. QED
    BY <1>5, <2>2, <2>3, <2>4, <2>5, <2>6
<1>11. CASE UNCHANGED Chat!vars
  BY <1>2, <1>11 DEF Chat!vars
<1>. QED
  BY <1>6, <1>7, <1>8, <1>9, <1>10, <1>11 DEF Chat!Next

Call == [kind: {"none", "me", "call"}, pc: {"idle", "sent", "refreshing", "dead"},
         token: 0..MaxTokens, renewed: 0..MaxTokens]

LEMMA BrowserIs ==
    Browser!TypeOK <=>
        /\ v1 \in 0..MaxTokens /\ v2 \subseteq 1..MaxTokens /\ v4 \in 0..MaxTokens
        /\ v3 \in BOOLEAN /\ v5 \in BOOLEAN /\ v6 \in BOOLEAN
        /\ v7 \in [Items -> Call]
  BY DEF Browser!TypeOK, Call

LEMMA IdleCall == Browser!Idle \in Call /\ 0 \in 0..MaxTokens
<1>1. 0 \in 0..MaxTokens
  BY WorkspaceAssumption
<1>. QED
  BY <1>1 DEF Browser!Idle, Call

LEMMA InitBrowser == Browser!Init => Browser!TypeOK
  BY IdleCall, BrowserIs DEF Browser!Init

LEMMA Issues ==
    ASSUME Browser!TypeOK, Browser!Issue
    PROVE  /\ v1' \in 0..MaxTokens /\ v1 + 1 \in 0..MaxTokens /\ v2' \subseteq 1..MaxTokens
           /\ v3' \in BOOLEAN
<1>1. MaxTokens \in Nat /\ v1 \in 0..MaxTokens /\ v1 < MaxTokens
  BY BrowserIs, WorkspaceAssumption DEF Browser!Issue
<1>2. v1 + 1 \in 1..MaxTokens /\ v1 + 1 \in 0..MaxTokens
  BY <1>1
<1>. QED
  BY <1>2, BrowserIs DEF Browser!Issue

LEMMA EndsTyped ==
    ASSUME Browser!TypeOK, NEW c \in Items, NEW ok \in BOOLEAN, Browser!Ends(c, ok)
    PROVE  /\ v7' \in [Items -> Call] /\ v4' \in 0..MaxTokens
           /\ v5' \in BOOLEAN /\ v6' \in BOOLEAN
<1>1. v7' \in [Items -> Call]
  BY IdleCall, BrowserIs DEF Browser!Ends
<1>2. CASE v7[c].kind = "me"
  BY <1>1, <1>2, IdleCall, BrowserIs DEF Browser!Ends
<1>3. CASE v7[c].kind # "me"
  BY <1>1, <1>3, BrowserIs DEF Browser!Ends
<1>. QED
  BY <1>2, <1>3

LEMMA NextBrowser == Browser!TypeOK /\ [Browser!Next]_(Browser!vars) => Browser!TypeOK'
<1>. DEFINE Typed == /\ v1' \in 0..MaxTokens /\ v2' \subseteq 1..MaxTokens /\ v4' \in 0..MaxTokens
                     /\ v3' \in BOOLEAN /\ v5' \in BOOLEAN /\ v6' \in BOOLEAN
                     /\ v7' \in [Items -> Call]
<1>. SUFFICES ASSUME Browser!TypeOK, [Browser!Next]_(Browser!vars) PROVE Typed
  BY DEF Browser!TypeOK, Call
<1>1. /\ v1 \in 0..MaxTokens /\ v2 \subseteq 1..MaxTokens /\ v4 \in 0..MaxTokens
      /\ v3 \in BOOLEAN /\ v5 \in BOOLEAN /\ v6 \in BOOLEAN
      /\ v7 \in [Items -> Call]
  BY BrowserIs
<1>2. CASE Browser!SignIn
  BY <1>1, <1>2, Issues DEF Browser!SignIn
<1>3. CASE Browser!SignOut
  BY <1>1, <1>3, IdleCall DEF Browser!SignOut
<1>4. CASE Browser!CookieExpires
  BY <1>1, <1>4 DEF Browser!CookieExpires
<1>5. CASE Browser!PageLoads
  BY <1>1, <1>5, IdleCall DEF Browser!PageLoads
<1>6. ASSUME NEW t \in v2, Browser!TokenExpires(t) PROVE Typed
  BY <1>1, <1>6 DEF Browser!TokenExpires
<1>7. ASSUME NEW c \in Items, NEW kind \in {"me", "call"}, Browser!Sends(c, kind) PROVE Typed
  <2>1. PICK call : call = [kind |-> kind, pc |-> "sent", token |-> v4, renewed |-> 0]
    OBVIOUS
  <2>2. call \in Call
    BY <1>1, <2>1, IdleCall DEF Call
  <2>3. v7' = [v7 EXCEPT ![c] = call] /\ UNCHANGED <<v1, v2, v3, v4, v5, v6>>
    BY <1>7, <2>1 DEF Browser!Sends
  <2>. QED
    BY <1>1, <2>2, <2>3
<1>8. ASSUME NEW c \in Items, Browser!Served(c) PROVE Typed
  BY <1>1, <1>8, EndsTyped DEF Browser!Served
<1>9. ASSUME NEW c \in Items, Browser!Unauthorized(c) PROVE Typed
  <2>1. PICK call : call = [v7[c] EXCEPT !.pc = "refreshing"]
    OBVIOUS
  <2>2. call \in Call
    BY <1>1, <2>1 DEF Call
  <2>3. v7' = [v7 EXCEPT ![c] = call] /\ UNCHANGED <<v1, v2, v3, v4, v5, v6>>
    BY <1>9, <2>1 DEF Browser!Unauthorized
  <2>. QED
    BY <1>1, <2>2, <2>3
<1>10. ASSUME NEW c \in Items, Browser!Renews(c) PROVE Typed
  <2>1. /\ v1' \in 0..MaxTokens /\ v1 + 1 \in 0..MaxTokens /\ v2' \subseteq 1..MaxTokens
        /\ v3' \in BOOLEAN
    BY <1>10, Issues DEF Browser!Renews
  <2>2. PICK old, call : /\ old = v7[c]
                         /\ call = [old EXCEPT !.pc = "sent", !.token = v4, !.renewed = v1 + 1]
    OBVIOUS
  <2>3. old \in Call
    BY <1>1, <2>2
  <2>4. call \in Call
    BY <1>1, <2>1, <2>2, <2>3 DEF Call
  <2>5. v7' = [v7 EXCEPT ![c] = call]
    BY <1>1, <1>10, <2>2 DEF Browser!Renews, Call
  <2>. QED
    BY <1>1, <1>10, <2>1, <2>4, <2>5 DEF Browser!Renews
<1>11. ASSUME NEW c \in Items, Browser!Refused(c) PROVE Typed
  BY <1>1, <1>11, EndsTyped DEF Browser!Refused
<1>12. ASSUME NEW c \in Items, Browser!Fails(c) PROVE Typed
  <2>1. PICK call : call = IF v7[c].kind = "me" THEN [v7[c] EXCEPT !.pc = "dead"] ELSE Browser!Idle
    OBVIOUS
  <2>2. call \in Call
    BY <1>1, <2>1, IdleCall DEF Call
  <2>3. v7' = [v7 EXCEPT ![c] = call] /\ UNCHANGED <<v1, v2, v3, v4, v5, v6>>
    BY <1>12, <2>1 DEF Browser!Fails
  <2>. QED
    BY <1>1, <2>2, <2>3
<1>13. CASE UNCHANGED Browser!vars
  BY <1>1, <1>13 DEF Browser!vars
<1>. QED
  BY <1>2, <1>3, <1>4, <1>5, <1>6, <1>7, <1>8, <1>9, <1>10, <1>11, <1>12, <1>13 DEF Browser!Next

----------------------------------------------------------------------------
(* Theorems *)

(* The merged timeline shows the events of the log that were asked for,    *)
(* each once, by time and the younger of one time first; and whatever row  *)
(* of Postgres is left out of it mirrors an event that it shows, or one    *)
(* beyond its window, though the two are read at different moments.        *)
THEOREM TimelineTells == Spec => []TimelineTellsTheStory
<1>. DEFINE IInv == part = "timeline" => Timeline!IInv
<1>1. Init => IInv
  BY PartInit, InitTimeline
<1>2. IInv /\ [Next]_vars => IInv'
  BY PartNext, NextTimeline
<1>3. IInv => TimelineTellsTheStory
  BY TellsTheStory DEF TimelineTellsTheStory
<1>. QED
  BY <1>1, <1>2, <1>3, PTL DEF Spec

(* Every component of the run keeps its types, whatever the order of its   *)
(* steps: with the invariants above, and for the scores of a               *)
(* retrospective, the calls of the browser and the chat on their own.      *)
THEOREM TypesHold == Spec => []TypeOK
<1>. DEFINE Api ==
        /\ part = "state" => State!IInv
        /\ part = "vfs" => Vfs!IInv
        /\ part = "contract" => Contract!Earned /\ Contract!ConcernsAreRaised
        /\ part = "ingest" => Ingest!IInv
        /\ part = "artifact" => Artifact!IInv
        /\ part = "account" => Account!IInv
        /\ part = "timeline" => Timeline!IInv
        /\ part = "retro" => Retro!TypeOK
        /\ part = "pipeline" => Pipeline!IInv
     Web ==
        /\ part = "run" => Run!IInv
        /\ part = "browser" => Browser!TypeOK
        /\ part = "screen" => Screen!IInv
        /\ part = "learner" => Learner!IInv
        /\ part = "notice" => Notice!IInv
        /\ part = "image" => Image!IInv
        /\ part = "report" => Report!IInv
        /\ part = "chat" => Chat!TypeOK
<1>1. Init => Api
  BY PartInit, InitState, InitVfs, InitContract, InitIngest, InitArtifact, InitAccount,
     InitTimeline, InitRetro, InitPipeline
<1>2. Init => Web
  BY PartInit, InitRun, InitBrowser, InitScreen, InitLearner, InitNotice, InitImage,
     InitReport, InitChat
<1>3. Api /\ [Next]_vars => Api'
  BY PartNext, NextState, NextVfs, NextContract, NextIngest, NextArtifact, NextAccount,
     NextTimeline, NextRetro, NextPipeline
<1>4. Web /\ [Next]_vars => Web'
  BY PartNext, NextRun, NextBrowser, NextScreen, NextLearner, NextNotice, NextImage,
     NextReport, NextChat
<1>5. /\ State!IInv => State!TypeOK
      /\ Vfs!IInv => Vfs!TypeOK
      /\ Contract!Earned => Contract!TypeOK
      /\ Ingest!IInv => Ingest!TypeOK
      /\ Artifact!IInv => Artifact!TypeOK
      /\ Account!IInv => Account!TypeOK
      /\ Timeline!IInv => Timeline!TypeOK
      /\ Pipeline!IInv => Pipeline!TypeOK
  BY DEF State!IInv, Vfs!IInv, Contract!Earned, Ingest!IInv, Artifact!IInv, Account!IInv,
     Timeline!IInv, Pipeline!IInv
<1>6. /\ Run!IInv => Run!TypeOK
      /\ Screen!IInv => Screen!TypeOK
      /\ Learner!IInv => Learner!TypeOK
      /\ Notice!IInv => Notice!TypeOK
      /\ Image!IInv => Image!TypeOK
      /\ Report!IInv => Report!TypeOK
  BY DEF Run!IInv, Screen!IInv, Learner!IInv, Notice!IInv, Image!IInv, Report!IInv
<1>7. Api /\ Web => TypeOK
  BY <1>5, <1>6 DEF TypeOK
<1>. HIDE DEF Api, Web
<1>. QED
  BY <1>1, <1>2, <1>3, <1>4, <1>7, PTL DEF Spec

==============================================================================
