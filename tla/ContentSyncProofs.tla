------------------------- MODULE ContentSyncProofs -------------------------
(***************************************************************************)
(* Theorems about ContentSync, for any contents of the repositories, any   *)
(* number of runs and kills at any step.                                   *)
(***************************************************************************)
EXTENDS ContentSync, FiniteSetTheorems, TLAPS

-----------------------------------------------------------------------------
(* What the sources hold *)

\* A source is read at a position of its input.
LEMMA SourceTypes ==
    ASSUME NEW in \in Inputs
    PROVE  /\ Len(in) \in Nat /\ DOMAIN in = 1..Len(in)
           /\ \A s \in 1..Len(in) : in[s] \in Sources
<1>1. in \in Seq(Sources)
  BY InputsAssumption
<1>2. QED
  BY <1>1

\* The topics of a source that can be read, and its projects.
LEMMA PartTypes ==
    ASSUME NEW s \in Sources
    PROVE  /\ s.topics # Unreadable =>
                /\ Len(s.topics) \in Nat /\ DOMAIN s.topics = 1..Len(s.topics)
           /\ Len(s.projects) \in Nat /\ DOMAIN s.projects = 1..Len(s.projects)
<1>1. s.topics # Unreadable => s.topics \in Seq(Range(s.topics))
  BY InputsAssumption
<1>2. s.projects \in Seq(Range(s.projects))
  BY InputsAssumption
<1>3. QED
  BY <1>1, <1>2

\* A function on a finite set has finitely many values.
LEMMA FiniteRange ==
    ASSUME NEW f, IsFiniteSet(DOMAIN f)
    PROVE  IsFiniteSet({f[x] : x \in DOMAIN f})
<1> DEFINE values == {f[x] : x \in DOMAIN f}
           g == [x \in DOMAIN f |-> f[x]]
<1>1. g \in [DOMAIN f -> values]
  OBVIOUS
<1>2. \A y \in values : \E x \in DOMAIN f : g[x] = y
  OBVIOUS
<1>3. g \in Surjection(DOMAIN f, values)
  BY <1>1, <1>2 DEF Surjection
<1>4. QED
  BY <1>3, FS_Surjection

\* Numbers up to a bound are finitely many.
LEMMA FiniteNumbers ==
    ASSUME NEW m \in Nat
    PROVE  IsFiniteSet(1..m) /\ Cardinality(1..m) = m
<1>1. 1 \in Int /\ m \in Int
  OBVIOUS
<1>2. IsFiniteSet(1..m) /\ Cardinality(1..m) = IF 1 > m THEN 0 ELSE m - 1 + 1
  BY <1>1, FS_Interval
<1>3. QED
  BY <1>2

\* The pages of a project are finitely many, and pages of different files.
LEMMA DocsTypes ==
    ASSUME NEW s \in Sources, NEW p \in DOMAIN s.projects
    PROVE  /\ IsFiniteSet(Docs(s, p))
           /\ \A d \in Docs(s, p) :
                d.project = s.projects[p].slug /\ d.project \in Int /\ d.file \in Int
           /\ \A d \in Docs(s, p) : \E f \in s.files :
                d = [project |-> d.project, file |-> f.file, slug |-> f.slug]
<1> DEFINE below == {g \in s.files : s.projects[p].dir \in g.dirs}
           page == [f \in below |-> [project |-> s.projects[p].slug, file |-> f.file, slug |-> f.slug]]
<1>1. /\ IsFiniteSet(s.files) /\ \A f \in s.files : f.file \in Int
      /\ s.projects[p].slug \in Int
  BY InputsAssumption
<1>2. IsFiniteSet(below)
  <2>1. below \in SUBSET s.files
    OBVIOUS
  <2>2. QED
    BY <1>1, <2>1, FS_Subset
<1>3. DOMAIN page = below
  OBVIOUS
<1>4. Docs(s, p) = {page[f] : f \in DOMAIN page}
  BY DEF Docs
<1>5. \A f \in below : page[f] = [project |-> s.projects[p].slug, file |-> f.file, slug |-> f.slug]
  OBVIOUS
<1>6. \A f \in below : f \in s.files
  OBVIOUS
<1> HIDE DEF page, below
<1>7. IsFiniteSet(Docs(s, p))
  BY <1>2, <1>3, <1>4, FiniteRange
<1>8. ASSUME NEW d \in Docs(s, p)
      PROVE  /\ d.project = s.projects[p].slug /\ d.project \in Int /\ d.file \in Int
             /\ \E f \in s.files : d = [project |-> d.project, file |-> f.file, slug |-> f.slug]
  <2>1. PICK f \in below : d = page[f]
    BY <1>3, <1>4
  <2>2. d = [project |-> s.projects[p].slug, file |-> f.file, slug |-> f.slug] /\ f \in s.files
    BY <1>5, <1>6, <2>1
  <2>3. QED
    BY <1>1, <2>2
<1>9. QED
  BY <1>7, <1>8

\* The pages of all projects, which the sort can tell apart.
LEMMA PagesTypes ==
    ASSUME NEW s \in Sources
    PROVE  /\ IsFiniteSet(Pages(s))
           /\ \A d : d \in Pages(s) <=> \E p \in DOMAIN s.projects : d \in Docs(s, p)
           /\ \A d \in Pages(s) : d.project \in Int /\ d.file \in Int
           /\ \A d, e \in Pages(s) : d.project = e.project /\ d.file = e.file => d = e
<1> DEFINE f == [p \in DOMAIN s.projects |-> Docs(s, p)]
<1>1. Len(s.projects) \in Nat /\ DOMAIN s.projects = 1..Len(s.projects)
  BY PartTypes
<1>2. Pages(s) = UNION {f[p] : p \in DOMAIN f}
  BY DEF Pages
<1>3. DOMAIN f = DOMAIN s.projects /\ \A p \in DOMAIN s.projects : f[p] = Docs(s, p)
  OBVIOUS
<1> HIDE DEF f
<1>4. IsFiniteSet(DOMAIN f)
  BY <1>1, <1>3, FiniteNumbers
<1>5. IsFiniteSet({f[p] : p \in DOMAIN f})
  BY <1>4, FiniteRange
<1>6. \A T \in {f[p] : p \in DOMAIN f} : IsFiniteSet(T)
  BY <1>3, DocsTypes
<1>7. IsFiniteSet(Pages(s))
  BY <1>2, <1>5, <1>6, FS_UNION
<1>8. \A d : d \in Pages(s) <=> \E p \in DOMAIN s.projects : d \in Docs(s, p)
  BY <1>2, <1>3
<1>9. \A d \in Pages(s) : /\ d.project \in Int /\ d.file \in Int
                          /\ \E g \in s.files :
                                d = [project |-> d.project, file |-> g.file, slug |-> g.slug]
  BY <1>8, DocsTypes
<1>10. ASSUME NEW d \in Pages(s), NEW e \in Pages(s), d.project = e.project, d.file = e.file
       PROVE  d = e
  <2>1. PICK g \in s.files : d = [project |-> d.project, file |-> g.file, slug |-> g.slug]
    BY <1>9
  <2>2. PICK h \in s.files : e = [project |-> e.project, file |-> h.file, slug |-> h.slug]
    BY <1>9
  <2>3. d.file = g.file /\ e.file = h.file
    BY <2>1, <2>2
  <2>4. g = h
    BY <1>10, <2>3, InputsAssumption
  <2>5. QED
    BY <1>10, <2>1, <2>2, <2>4
<1>11. QED
  BY <1>7, <1>8, <1>9, <1>10

-----------------------------------------------------------------------------
(* Sorting *)

\* A comparison that tells any two elements of a set apart, one way.
Compares(less, S) ==
    /\ \A d, e \in S : d = e \/ <<d, e>> \in less \/ <<e, d>> \in less
    /\ \A d \in S : <<d, d>> \notin less
    /\ \A c, d, e \in S : <<c, d>> \in less /\ <<d, e>> \in less => <<c, e>> \in less

\* The elements that come before one.
Earlier(S, less, d) == {e \in S : <<e, d>> \in less}

\* Different elements have different numbers of elements before them, from none to
\* all but one, so there is one element at every place of the sorted list.
LEMMA SortedProperties ==
    ASSUME NEW S, NEW less, IsFiniteSet(S), Compares(less, S)
    PROVE  /\ Cardinality(S) \in Nat
           /\ Sorted(S, less) \in [1..Cardinality(S) -> S]
           /\ Range(Sorted(S, less)) = S
           /\ \A i, j \in 1..Cardinality(S) :
                 i < j => <<Sorted(S, less)[i], Sorted(S, less)[j]>> \in less
<1> DEFINE n == Cardinality(S)
           rank == [d \in S |-> Cardinality(Earlier(S, less, d)) + 1]
           list == Sorted(S, less)
<1>1. n \in Nat
  BY FS_CardinalityType
<1>2. ASSUME NEW d \in S
      PROVE  /\ IsFiniteSet(Earlier(S, less, d))
             /\ Cardinality(Earlier(S, less, d)) \in 0..(n - 1)
  <2>1. Earlier(S, less, d) \in SUBSET S
    BY DEF Earlier
  <2>2. /\ IsFiniteSet(Earlier(S, less, d)) /\ Cardinality(Earlier(S, less, d)) <= n
        /\ n = Cardinality(Earlier(S, less, d)) => S = Earlier(S, less, d)
    BY <2>1, FS_Subset
  <2>3. d \notin Earlier(S, less, d)
    BY DEF Earlier, Compares
  <2>4. Cardinality(Earlier(S, less, d)) # n
    BY <2>2, <2>3
  <2>5. Cardinality(Earlier(S, less, d)) \in Nat
    BY <2>2, FS_CardinalityType
  <2>6. QED
    BY <1>1, <2>2, <2>4, <2>5
<1>3. ASSUME NEW d \in S, NEW e \in S, <<d, e>> \in less
      PROVE  rank[d] < rank[e]
  <2>1. Earlier(S, less, d) \in SUBSET Earlier(S, less, e)
    BY <1>3 DEF Earlier, Compares
  <2>2. d \in Earlier(S, less, e) /\ d \notin Earlier(S, less, d)
    BY <1>3 DEF Earlier, Compares
  <2>3. /\ Cardinality(Earlier(S, less, d)) <= Cardinality(Earlier(S, less, e))
        /\ Cardinality(Earlier(S, less, e)) = Cardinality(Earlier(S, less, d))
             => Earlier(S, less, e) = Earlier(S, less, d)
    BY <1>2, <2>1, FS_Subset
  <2>4. Cardinality(Earlier(S, less, e)) # Cardinality(Earlier(S, less, d))
    BY <2>2, <2>3
  <2>5. /\ Cardinality(Earlier(S, less, d)) \in 0..(n - 1)
        /\ Cardinality(Earlier(S, less, e)) \in 0..(n - 1)
    BY <1>2
  <2>6. QED
    BY <2>3, <2>4, <2>5
<1>4. rank \in [S -> 1..n]
  <2>1. \A d \in S : Cardinality(Earlier(S, less, d)) + 1 \in 1..n
    BY <1>1, <1>2
  <2>2. QED
    BY <2>1
<1>5. ASSUME NEW d \in S, NEW e \in S, rank[d] = rank[e]
      PROVE  d = e
  <2>1. rank[d] \in Int
    BY <1>4, <1>1
  <2>2. <<d, e>> \notin less /\ <<e, d>> \notin less
    BY <2>1, <1>3, <1>5
  <2>3. QED
    BY <2>2 DEF Compares
<1>6. rank \in Surjection(S, 1..n)
  <2>1. rank \in Injection(S, 1..n)
    BY <1>4, <1>5 DEF Injection, IsInjective
  <2>2. IsFiniteSet(1..n) /\ Cardinality(1..n) = n
    BY <1>1, FiniteNumbers
  <2>3. QED
    BY <2>1, <2>2, FS_Injection
<1>7. ASSUME NEW i \in 1..n
      PROVE  list[i] \in S /\ rank[list[i]] = i
  <2>1. PICK d \in S : rank[d] = i
    BY <1>6 DEF Surjection
  <2>2. Cardinality(Earlier(S, less, d)) = i - 1
    <3>1. Cardinality(Earlier(S, less, d)) + 1 = i
      BY <2>1
    <3>2. Cardinality(Earlier(S, less, d)) \in Int
      BY <1>2, <1>1
    <3>3. QED
      BY <3>1, <3>2, <1>1
  <2>3. list[i] = CHOOSE e \in S : Cardinality(Earlier(S, less, e)) = i - 1
    BY DEF Sorted, Earlier
  <2>4. list[i] \in S /\ Cardinality(Earlier(S, less, list[i])) = i - 1
    <3>1. \E e \in S : Cardinality(Earlier(S, less, e)) = i - 1
      BY <2>2
    <3>2. QED
      BY <3>1, <2>3, Zenon
  <2>5. rank[list[i]] = (i - 1) + 1
    BY <2>4
  <2>6. QED
    BY <2>4, <2>5, <1>1
<1>8. list \in [1..n -> S]
  <2> DEFINE nth(i) == CHOOSE e \in S : Cardinality({f \in S : <<f, e>> \in less}) = i - 1
  <2>1. list = [i \in 1..n |-> nth(i)]
    BY DEF Sorted
  <2> HIDE DEF nth
  <2>2. \A i \in 1..n : nth(i) \in S
    BY <1>7, <2>1
  <2>3. QED
    BY <2>1, <2>2
<1>9. Range(list) = S
  <2>1. ASSUME NEW d \in S
        PROVE  d \in Range(list)
    <3>1. rank[d] \in 1..n
      BY <1>4
    <3>2. list[rank[d]] = d
      BY <1>5, <1>7, <3>1
    <3>3. QED
      BY <3>1, <3>2, <1>8 DEF Range
  <2>2. QED
    BY <2>1, <1>8 DEF Range
<1>10. ASSUME NEW i \in 1..n, NEW j \in 1..n, i < j
       PROVE  <<list[i], list[j]>> \in less
  <2>1. list[i] \in S /\ list[j] \in S /\ rank[list[i]] = i /\ rank[list[j]] = j
    BY <1>7
  <2>2. <<list[j], list[i]>> \notin less
    <3>1. <<list[j], list[i]>> \in less => rank[list[j]] < rank[list[i]]
      BY <2>1, <1>3
    <3>2. QED
      BY <2>1, <3>1, <1>10, <1>1
  <2>3. list[i] # list[j]
    BY <2>1, <1>10, <1>1
  <2>4. QED
    BY <2>1, <2>2, <2>3 DEF Compares
<1>11. QED
  BY <1>1, <1>8, <1>9, <1>10

-----------------------------------------------------------------------------
(* Nav: the sorted pages, without those of other projects *)

\* No two projects of a source have one slug.
SlugsApart(source) ==
    \A p, q \in DOMAIN source.projects : source.projects[p].slug = source.projects[q].slug => p = q

\* The pages of a source sort by project and file.
LEMMA PagesSort ==
    ASSUME NEW s \in Sources
    PROVE  IsFiniteSet(Pages(s)) /\ Compares(PageOrder(s), Pages(s))
<1>1. /\ IsFiniteSet(Pages(s))
      /\ \A d \in Pages(s) : d.project \in Int /\ d.file \in Int
      /\ \A d, e \in Pages(s) : d.project = e.project /\ d.file = e.file => d = e
  BY PagesTypes
<1>2. \A d, e \in Pages(s) : <<d, e>> \in PageOrder(s) <=> Before(d, e)
  BY DEF PageOrder
<1>3. \A d \in Pages(s) : <<d, d>> \notin PageOrder(s)
  BY <1>1, <1>2 DEF Before
<1>4. ASSUME NEW d \in Pages(s), NEW e \in Pages(s)
      PROVE  d = e \/ <<d, e>> \in PageOrder(s) \/ <<e, d>> \in PageOrder(s)
  <2>1. PICK a, b, x, y \in Int : a = d.project /\ b = e.project /\ x = d.file /\ y = e.file
    BY <1>1
  <2>2. a < b \/ b < a \/ a = b
    OBVIOUS
  <2>3. x < y \/ y < x \/ x = y
    OBVIOUS
  <2>4. d = e \/ Before(d, e) \/ Before(e, d)
    BY <1>1, <2>1, <2>2, <2>3 DEF Before
  <2>5. QED
    BY <1>2, <2>4
<1>5. \A c, d, e \in Pages(s) :
         <<c, d>> \in PageOrder(s) /\ <<d, e>> \in PageOrder(s) => <<c, e>> \in PageOrder(s)
  BY <1>1, <1>2 DEF Before
<1>6. QED
  BY <1>1, <1>3, <1>4, <1>5 DEF Compares

\* Places of a list sort by number.
LEMMA PlacesSort ==
    ASSUME NEW n \in Nat, NEW own \in SUBSET (1..n)
    PROVE  IsFiniteSet(own) /\ Compares(Ascending(own), own)
<1>1. IsFiniteSet(own)
  BY FiniteNumbers, FS_Subset
<1>2. \A i, j \in own : <<i, j>> \in Ascending(own) <=> i < j
  BY DEF Ascending
<1>3. \A i \in own : i \in Int
  OBVIOUS
<1>4. QED
  BY <1>1, <1>2, <1>3 DEF Compares

\* The navigation of a project is its pages, in the order of their files.
LEMMA NavProperties ==
    ASSUME NEW s \in Sources, NEW p \in DOMAIN s.projects, SlugsApart(s)
    PROVE  /\ \E m \in Nat : DOMAIN Nav(s, p) = 1..m
           /\ Range(Nav(s, p)) = Docs(s, p)
           /\ \A i, j \in DOMAIN Nav(s, p) : i < j => Nav(s, p)[i].file < Nav(s, p)[j].file
<1> DEFINE pages == Sorted(Pages(s), PageOrder(s))
           n == Cardinality(Pages(s))
           own == {i \in DOMAIN pages : pages[i].project = s.projects[p].slug}
           places == Sorted(own, Ascending(own))
           m == Cardinality(own)
           nav == Nav(s, p)
<1>1. /\ n \in Nat /\ pages \in [1..n -> Pages(s)] /\ Range(pages) = Pages(s)
      /\ \A i, j \in 1..n : i < j => <<pages[i], pages[j]>> \in PageOrder(s)
  <2>1. IsFiniteSet(Pages(s)) /\ Compares(PageOrder(s), Pages(s))
    BY PagesSort
  <2>2. QED
    BY <2>1, SortedProperties
<1>2. nav = [i \in DOMAIN places |-> pages[places[i]]]
  BY DEF Nav
<1>3. \A d : d \in Range(nav) <=> \E i \in DOMAIN nav : d = nav[i]
  BY DEF Range
<1>4. \A d : d \in Range(pages) <=> \E i \in DOMAIN pages : d = pages[i]
  BY DEF Range
<1> HIDE DEF pages, n, nav
<1>5. own \in SUBSET (1..n) /\ \A i \in own : pages[i].project = s.projects[p].slug
  BY <1>1
<1>6. \A i \in 1..n : pages[i].project = s.projects[p].slug => i \in own
  BY <1>1
<1> HIDE DEF own
<1>7. /\ m \in Nat /\ places \in [1..m -> own] /\ Range(places) = own
      /\ \A i, j \in 1..m : i < j => <<places[i], places[j]>> \in Ascending(own)
  <2>1. IsFiniteSet(own) /\ Compares(Ascending(own), own)
    BY <1>1, <1>5, PlacesSort
  <2>2. QED
    BY <2>1, SortedProperties
<1>8. \A i : i \in Range(places) <=> \E j \in DOMAIN places : i = places[j]
  BY DEF Range
<1> HIDE DEF places, m
<1>9. \A i, j \in 1..m : i < j => places[i] < places[j]
  BY <1>7 DEF Ascending
<1>10. DOMAIN nav = 1..m /\ \A i \in 1..m : nav[i] = pages[places[i]] /\ places[i] \in own
  BY <1>2, <1>7
<1>11. /\ \A d : d \in Pages(s) <=> \E q \in DOMAIN s.projects : d \in Docs(s, q)
       /\ \A d \in Pages(s) : d.project \in Int /\ d.file \in Int
  BY PagesTypes
<1>12. ASSUME NEW d \in Docs(s, p)
       PROVE  d \in Range(nav)
  <2>1. d \in Pages(s) /\ d.project = s.projects[p].slug
    BY <1>11, DocsTypes
  <2>2. PICK i \in 1..n : d = pages[i]
    BY <1>1, <1>4, <2>1
  <2>3. i \in own
    BY <1>6, <2>1, <2>2
  <2>4. PICK j \in 1..m : i = places[j]
    BY <1>7, <1>8, <2>3
  <2>5. j \in DOMAIN nav /\ nav[j] = d
    BY <1>10, <2>2, <2>4
  <2>6. QED
    BY <1>3, <2>5
<1>13. ASSUME NEW d \in Range(nav)
       PROVE  d \in Docs(s, p)
  <2>1. PICK j \in 1..m : d = nav[j]
    BY <1>3, <1>10
  <2>2. PICK i \in own : d = pages[i]
    BY <1>10, <2>1
  <2>3. d \in Pages(s) /\ d.project = s.projects[p].slug
    BY <1>1, <1>5, <2>2
  <2>4. PICK q \in DOMAIN s.projects : d \in Docs(s, q)
    BY <1>11, <2>3
  <2>5. d.project = s.projects[q].slug
    BY <2>4, DocsTypes
  <2>6. p = q
    BY <2>3, <2>5 DEF SlugsApart
  <2>7. QED
    BY <2>4, <2>6
<1>14. Range(nav) = Docs(s, p)
  BY <1>12, <1>13
<1>15. ASSUME NEW i \in 1..m, NEW j \in 1..m, i < j
       PROVE  nav[i].file < nav[j].file
  <2>1. PICK a \in own : a = places[i]
    BY <1>10
  <2>2. PICK b \in own : b = places[j]
    BY <1>10
  <2>3. a < b /\ a \in 1..n /\ b \in 1..n
    BY <1>5, <1>9, <1>15, <2>1, <2>2
  <2>4. <<pages[a], pages[b]>> \in PageOrder(s)
    BY <1>1, <2>3
  <2>5. PICK d \in Pages(s) : d = pages[a]
    BY <1>1, <2>3
  <2>6. PICK e \in Pages(s) : e = pages[b]
    BY <1>1, <2>3
  <2>7. d.project = s.projects[p].slug /\ e.project = s.projects[p].slug
    BY <1>5, <2>5, <2>6
  <2>8. d.project < e.project \/ (d.project = e.project /\ d.file < e.file)
    BY <2>4, <2>5, <2>6 DEF PageOrder, Before
  <2>9. d.file < e.file
    BY <1>11, <2>7, <2>8
  <2>10. QED
    BY <1>10, <2>1, <2>2, <2>5, <2>6, <2>9
<1>16. QED
  BY <1>7, <1>10, <1>14, <1>15 DEF nav

\* If no two of its pages have one slug, no two pages of the project have.
LEMMA NavSlugs ==
    ASSUME NEW s \in Sources, NEW p \in DOMAIN s.projects, SlugsApart(s), ~DocsClash(Nav(s, p))
    PROVE  \A d, e \in Docs(s, p) : d.slug = e.slug => d = e
<1> SUFFICES ASSUME NEW d \in Docs(s, p), NEW e \in Docs(s, p), d.slug = e.slug
             PROVE  d = e
  OBVIOUS
<1>1. Range(Nav(s, p)) = Docs(s, p)
  BY NavProperties
<1>2. PICK i \in DOMAIN Nav(s, p) : d = Nav(s, p)[i]
  BY <1>1 DEF Range
<1>3. PICK j \in DOMAIN Nav(s, p) : e = Nav(s, p)[j]
  BY <1>1 DEF Range
<1>4. QED
  BY <1>2, <1>3 DEF DocsClash

\* The pages of every project of a manifest are in file order.
InOrder(m) ==
    \A s \in DOMAIN m : \A p \in DOMAIN m[s].projects :
        LET docs == m[s].projects[p].docs IN
        \A i, j \in DOMAIN docs : i < j => docs[i].file < docs[j].file

\* So are those of sources whose projects have slugs of their own.
LEMMA EntriesInOrder ==
    ASSUME NEW in \in Inputs, \A s \in 1..Len(in) : SlugsApart(in[s])
    PROVE  InOrder([s \in 1..Len(in) |-> Entry(in[s])])
<1> SUFFICES ASSUME NEW s \in 1..Len(in), NEW p \in DOMAIN in[s].projects,
                    NEW i \in DOMAIN Nav(in[s], p), NEW j \in DOMAIN Nav(in[s], p), i < j
             PROVE  Nav(in[s], p)[i].file < Nav(in[s], p)[j].file
  BY DEF InOrder, Entry
<1>1. in[s] \in Sources
  BY SourceTypes
<1>2. QED
  BY <1>1, NavProperties

-----------------------------------------------------------------------------
(* What reading the sources collects *)

\* The topics and the pages of the first n sources, where they were found.
TopicsTo(in, n) == UNION {{s} \X DOMAIN in[s].topics : s \in 1..n}
PagesOf(in, s) == UNION {{<<s, p>>} \X Docs(in[s], p) : p \in DOMAIN in[s].projects}
PagesTo(in, n) == UNION {PagesOf(in, s) : s \in 1..n}

\* The files that are written for them by run v.
TopicPath(in, x) == <<"examples", in[x[1]].topics[x[2]], in[x[1]].lang>>
PagePath(in, x) == <<"docs", in[x[1][1]].projects[x[1][2]].slug, x[2].slug>>
TopicFile(in, v, x) == [path |-> TopicPath(in, x), text |-> <<v, x[1]>>]
PageFile(in, v, x) == [path |-> PagePath(in, x), text |-> <<v, x[1][1], x[2].file>>]

\* What was found has paths of its own.
TopicsApart(in, n) ==
    \A x, y \in TopicsTo(in, n) : TopicPath(in, x) = TopicPath(in, y) => x = y
PagesApart(in, n) ==
    \A x, y \in PagesTo(in, n) : PagePath(in, x) = PagePath(in, y) => x = y

\* What run v knows when it has read the first n sources.
VariantsTo(in, n) == {<<in[x[1]].topics[x[2]], in[x[1]].lang>> : x \in TopicsTo(in, n)}
SlugsTo(in, n) == UNION {{in[s].projects[p].slug : p \in DOMAIN in[s].projects} : s \in 1..n}
FilesTo(in, v, n) ==
    {TopicFile(in, v, x) : x \in TopicsTo(in, n)} \cup {PageFile(in, v, x) : x \in PagesTo(in, n)}
EntriesTo(in, n) == [s \in 1..n |-> Entry(in[s])]

\* The first n sources can be read, and there is no clash in them.
Accepted(in, n) ==
    /\ \A s \in 1..n : in[s].topics # Unreadable
    /\ \A s \in 1..n : SlugsApart(in[s])
    /\ TopicsApart(in, n)
    /\ PagesApart(in, n)

\* A topic that was found is a source and a place in it.
LEMMA TopicsMembers ==
    ASSUME NEW in, NEW n, NEW x
    PROVE  x \in TopicsTo(in, n) <=>
             /\ x = <<x[1], x[2]>>
             /\ x[1] \in 1..n /\ x[2] \in DOMAIN in[x[1]].topics
<1>1. ASSUME x \in TopicsTo(in, n)
      PROVE  x = <<x[1], x[2]>> /\ x[1] \in 1..n /\ x[2] \in DOMAIN in[x[1]].topics
  <2>1. PICK s \in 1..n : x \in {s} \X DOMAIN in[s].topics
    BY <1>1 DEF TopicsTo
  <2>2. x = <<x[1], x[2]>> /\ x[1] = s /\ x[2] \in DOMAIN in[s].topics
    BY <2>1
  <2>3. QED
    BY <2>2
<1>2. ASSUME x = <<x[1], x[2]>>, x[1] \in 1..n, x[2] \in DOMAIN in[x[1]].topics
      PROVE  x \in TopicsTo(in, n)
  <2>1. <<x[1], x[2]>> \in {x[1]} \X DOMAIN in[x[1]].topics
    BY <1>2
  <2>2. x \in {x[1]} \X DOMAIN in[x[1]].topics
    BY <1>2, <2>1
  <2>3. QED
    BY <1>2, <2>2 DEF TopicsTo
<1>3. QED
  BY <1>1, <1>2

\* A page that was found is a source, a project of it and a page of that.
LEMMA PagesMembers ==
    ASSUME NEW in, NEW n, NEW x
    PROVE  x \in PagesTo(in, n) <=>
             /\ x = <<<<x[1][1], x[1][2]>>, x[2]>>
             /\ x[1][1] \in 1..n /\ x[1][2] \in DOMAIN in[x[1][1]].projects
             /\ x[2] \in Docs(in[x[1][1]], x[1][2])
<1>1. ASSUME x \in PagesTo(in, n)
      PROVE  /\ x = <<<<x[1][1], x[1][2]>>, x[2]>>
             /\ x[1][1] \in 1..n /\ x[1][2] \in DOMAIN in[x[1][1]].projects
             /\ x[2] \in Docs(in[x[1][1]], x[1][2])
  <2>1. PICK s \in 1..n : x \in PagesOf(in, s)
    BY <1>1 DEF PagesTo
  <2>2. PICK p \in DOMAIN in[s].projects : x \in {<<s, p>>} \X Docs(in[s], p)
    BY <2>1 DEF PagesOf
  <2>3. x = <<x[1], x[2]>> /\ x[1] = <<s, p>> /\ x[2] \in Docs(in[s], p)
    BY <2>2
  <2>4. x[1][1] = s /\ x[1][2] = p
    BY <2>3
  <2>5. QED
    BY <2>3, <2>4
<1>2. ASSUME x = <<<<x[1][1], x[1][2]>>, x[2]>>,
             x[1][1] \in 1..n, x[1][2] \in DOMAIN in[x[1][1]].projects,
             x[2] \in Docs(in[x[1][1]], x[1][2])
      PROVE  x \in PagesTo(in, n)
  <2> DEFINE s == x[1][1]
             p == x[1][2]
  <2>1. <<<<s, p>>, x[2]>> \in {<<s, p>>} \X Docs(in[s], p)
    BY <1>2
  <2>2. x \in {<<s, p>>} \X Docs(in[s], p)
    BY <1>2, <2>1
  <2>3. x \in PagesOf(in, s)
    BY <1>2, <2>2 DEF PagesOf
  <2>4. QED
    BY <1>2, <2>3 DEF PagesTo
<1>3. QED
  BY <1>1, <1>2

\* One more source adds what it holds.
LEMMA OneMoreSource ==
    ASSUME NEW in, NEW n \in Nat \ {0}
    PROVE  /\ TopicsTo(in, n) = TopicsTo(in, n - 1) \cup ({n} \X DOMAIN in[n].topics)
           /\ PagesTo(in, n) = PagesTo(in, n - 1) \cup PagesOf(in, n)
           /\ SlugsTo(in, n) = SlugsTo(in, n - 1)
                                 \cup {in[n].projects[p].slug : p \in DOMAIN in[n].projects}
<1>1. 1..n = (1..(n - 1)) \cup {n} /\ n \in 1..n
  OBVIOUS
<1>2. TopicsTo(in, n) = TopicsTo(in, n - 1) \cup ({n} \X DOMAIN in[n].topics)
  BY <1>1 DEF TopicsTo
<1>3. PagesTo(in, n) = PagesTo(in, n - 1) \cup PagesOf(in, n)
  BY <1>1 DEF PagesTo
<1>4. SlugsTo(in, n) = SlugsTo(in, n - 1)
                         \cup {in[n].projects[p].slug : p \in DOMAIN in[n].projects}
  BY <1>1 DEF SlugsTo
<1>5. QED
  BY <1>2, <1>3, <1>4

\* What the command collects of source n.
VariantsOf(in, n) == {<<t, in[n].lang>> : t \in Range(in[n].topics)}
TopicFilesOf(in, v, n) ==
    {[path |-> <<"examples", t, in[n].lang>>, text |-> <<v, n>>] : t \in Range(in[n].topics)}
PageFilesOf(in, v, n) ==
    UNION {{[path |-> <<"docs", in[n].projects[p].slug, d.slug>>, text |-> <<v, n, d.file>>] :
               d \in Docs(in[n], p)} : p \in DOMAIN in[n].projects}

\* It is what was found there.
LEMMA OneSource ==
    ASSUME NEW in, NEW n, NEW v
    PROVE  /\ VariantsOf(in, n)
                = {<<in[x[1]].topics[x[2]], in[x[1]].lang>> : x \in {n} \X DOMAIN in[n].topics}
           /\ TopicFilesOf(in, v, n) = {TopicFile(in, v, x) : x \in {n} \X DOMAIN in[n].topics}
           /\ PageFilesOf(in, v, n) = {PageFile(in, v, x) : x \in PagesOf(in, n)}
<1> DEFINE topics == in[n].topics
           projects == in[n].projects
           variant(x) == <<in[x[1]].topics[x[2]], in[x[1]].lang>>
           page(p, d) == [path |-> <<"docs", projects[p].slug, d.slug>>, text |-> <<v, n, d.file>>]
<1>1. \A t : t \in Range(topics) <=> \E i \in DOMAIN topics : t = topics[i]
  BY DEF Range
<1>2. \A i \in DOMAIN topics : <<n, i>> \in {n} \X DOMAIN topics
  OBVIOUS
<1>3. \A x \in {n} \X DOMAIN topics : x[1] = n /\ x[2] \in DOMAIN topics
  OBVIOUS
<1>4. VariantsOf(in, n) = {variant(x) : x \in {n} \X DOMAIN topics}
  <2>1. ASSUME NEW t \in Range(topics)
        PROVE  \E x \in {n} \X DOMAIN topics : <<t, in[n].lang>> = variant(x)
    <3>1. PICK i \in DOMAIN topics : t = topics[i]
      BY <1>1
    <3>2. <<n, i>> \in {n} \X DOMAIN topics /\ variant(<<n, i>>) = <<t, in[n].lang>>
      BY <1>2, <3>1
    <3>3. QED
      BY <3>2
  <2>2. ASSUME NEW x \in {n} \X DOMAIN topics
        PROVE  \E t \in Range(topics) : <<t, in[n].lang>> = variant(x)
    BY <1>1, <1>3
  <2>3. QED
    BY <2>1, <2>2 DEF VariantsOf
<1>5. TopicFilesOf(in, v, n) = {TopicFile(in, v, x) : x \in {n} \X DOMAIN topics}
  <2>1. \A x \in {n} \X DOMAIN topics :
           TopicFile(in, v, x) = [path |-> <<"examples", topics[x[2]], in[n].lang>>, text |-> <<v, n>>]
    BY <1>3 DEF TopicFile, TopicPath
  <2>2. ASSUME NEW t \in Range(topics)
        PROVE  \E x \in {n} \X DOMAIN topics :
                  [path |-> <<"examples", t, in[n].lang>>, text |-> <<v, n>>] = TopicFile(in, v, x)
    <3>1. PICK i \in DOMAIN topics : t = topics[i]
      BY <1>1
    <3>2. /\ <<n, i>> \in {n} \X DOMAIN topics
          /\ TopicFile(in, v, <<n, i>>) = [path |-> <<"examples", t, in[n].lang>>, text |-> <<v, n>>]
      BY <1>2, <2>1, <3>1
    <3>3. QED
      BY <3>2
  <2>3. ASSUME NEW x \in {n} \X DOMAIN topics
        PROVE  \E t \in Range(topics) :
                  [path |-> <<"examples", t, in[n].lang>>, text |-> <<v, n>>] = TopicFile(in, v, x)
    BY <1>1, <1>3, <2>1
  <2>4. QED
    BY <2>2, <2>3 DEF TopicFilesOf
<1>6. PageFilesOf(in, v, n) = {PageFile(in, v, x) : x \in PagesOf(in, n)}
  <2>1. \A p, d : PageFile(in, v, <<<<n, p>>, d>>) = page(p, d)
    BY DEF PageFile, PagePath
  <2>2. \A x : x \in PagesOf(in, n) <=>
              \E p \in DOMAIN projects : \E d \in Docs(in[n], p) : x = <<<<n, p>>, d>>
    BY DEF PagesOf
  <2>3. \A f : f \in PageFilesOf(in, v, n) <=>
              \E p \in DOMAIN projects : \E d \in Docs(in[n], p) : f = page(p, d)
    BY DEF PageFilesOf
  <2> HIDE DEF page, projects
  <2>4. ASSUME NEW f \in PageFilesOf(in, v, n)
        PROVE  \E x \in PagesOf(in, n) : f = PageFile(in, v, x)
    <3>1. PICK p \in DOMAIN projects : \E d \in Docs(in[n], p) : f = page(p, d)
      BY <2>3
    <3>2. PICK d \in Docs(in[n], p) : f = page(p, d)
      BY <3>1
    <3>3. <<<<n, p>>, d>> \in PagesOf(in, n) /\ f = PageFile(in, v, <<<<n, p>>, d>>)
      BY <2>1, <2>2, <3>2
    <3>4. QED
      BY <3>3
  <2>5. ASSUME NEW x \in PagesOf(in, n)
        PROVE  PageFile(in, v, x) \in PageFilesOf(in, v, n)
    <3>1. PICK p \in DOMAIN projects : \E d \in Docs(in[n], p) : x = <<<<n, p>>, d>>
      BY <2>2
    <3>2. PICK d \in Docs(in[n], p) : x = <<<<n, p>>, d>>
      BY <3>1
    <3>3. QED
      BY <2>1, <2>3, <3>2
  <2>6. QED
    BY <2>4, <2>5
<1>7. QED
  BY <1>4, <1>5, <1>6

\* A source that does not clash with those before it, or with itself, is accepted.
LEMMA AcceptedStep ==
    ASSUME NEW in \in Inputs, NEW n \in 1..Len(in),
           Accepted(in, n - 1), in[n].topics # Unreadable,
           \A t \in Range(in[n].topics) : <<t, in[n].lang>> \notin VariantsTo(in, n - 1),
           IsInjective(in[n].topics),
           \A p \in DOMAIN in[n].projects :
               /\ in[n].projects[p].slug \notin SlugsTo(in, n - 1)
               /\ \A q \in DOMAIN in[n].projects :
                     q < p => in[n].projects[q].slug # in[n].projects[p].slug
               /\ ~DocsClash(Nav(in[n], p))
    PROVE  Accepted(in, n)
<1>1. Len(in) \in Nat /\ in[n] \in Sources
  BY SourceTypes
<1>0. SlugsApart(in[n])
  <2>1. ASSUME NEW p \in DOMAIN in[n].projects, NEW q \in DOMAIN in[n].projects,
               in[n].projects[p].slug = in[n].projects[q].slug
        PROVE  p = q
    <3>1. p \in Int /\ q \in Int
      BY <1>1, PartTypes
    <3>2. ~(p < q) /\ ~(q < p)
      BY <2>1
    <3>3. QED
      BY <3>1, <3>2
  <2>2. QED
    BY <2>1 DEF SlugsApart
<1>2. \A s \in 1..n : in[s].topics # Unreadable
  BY <1>1 DEF Accepted
<1>3. ASSUME NEW x \in TopicsTo(in, n), NEW y \in TopicsTo(in, n),
             x[1] # n, TopicPath(in, x) = TopicPath(in, y)
      PROVE  x = y
  <2>1. x = <<x[1], x[2]>> /\ x[1] \in 1..n /\ x[2] \in DOMAIN in[x[1]].topics
    BY TopicsMembers
  <2>2. x[1] \in 1..(n - 1)
    BY <1>1, <1>3, <2>1
  <2>3. x \in TopicsTo(in, n - 1)
    BY <2>1, <2>2, TopicsMembers
  <2>4. /\ in[x[1]].topics[x[2]] = in[y[1]].topics[y[2]]
        /\ in[x[1]].lang = in[y[1]].lang
    BY <1>3 DEF TopicPath
  <2>5. CASE y[1] = n
    <3>1. y[2] \in DOMAIN in[n].topics
      BY <2>5, TopicsMembers
    <3>2. in[n].topics[y[2]] \in Range(in[n].topics)
      BY <3>1 DEF Range
    <3>3. <<in[x[1]].topics[x[2]], in[x[1]].lang>> \in VariantsTo(in, n - 1)
      BY <2>3 DEF VariantsTo
    <3>4. QED
      BY <2>4, <2>5, <3>2, <3>3
  <2>6. CASE y[1] # n
    <3>1. y = <<y[1], y[2]>> /\ y[1] \in 1..n /\ y[2] \in DOMAIN in[y[1]].topics
      BY TopicsMembers
    <3>2. y[1] \in 1..(n - 1)
      BY <1>1, <2>6, <3>1
    <3>3. y \in TopicsTo(in, n - 1)
      BY <3>1, <3>2, TopicsMembers
    <3>4. QED
      BY <1>3, <2>3, <3>3 DEF Accepted, TopicsApart
  <2>7. QED
    BY <2>5, <2>6
<1>4. ASSUME NEW x \in TopicsTo(in, n), NEW y \in TopicsTo(in, n),
             x[1] = n, y[1] = n, TopicPath(in, x) = TopicPath(in, y)
      PROVE  x = y
  <2>1. /\ x = <<x[1], x[2]>> /\ x[2] \in DOMAIN in[n].topics
        /\ y = <<y[1], y[2]>> /\ y[2] \in DOMAIN in[n].topics
    BY <1>4, TopicsMembers
  <2>2. in[n].topics[x[2]] = in[n].topics[y[2]]
    BY <1>4 DEF TopicPath
  <2>3. x[2] = y[2]
    BY <2>1, <2>2 DEF IsInjective
  <2>4. QED
    BY <1>4, <2>1, <2>3
<1>5. TopicsApart(in, n)
  BY <1>3, <1>4 DEF TopicsApart
<1>6. ASSUME NEW x \in PagesTo(in, n), NEW y \in PagesTo(in, n),
             x[1][1] # n, PagePath(in, x) = PagePath(in, y)
      PROVE  x = y
  <2>1. /\ x = <<<<x[1][1], x[1][2]>>, x[2]>>
        /\ x[1][1] \in 1..n /\ x[1][2] \in DOMAIN in[x[1][1]].projects
        /\ x[2] \in Docs(in[x[1][1]], x[1][2])
    BY PagesMembers
  <2>2. x[1][1] \in 1..(n - 1)
    BY <1>1, <1>6, <2>1
  <2>3. x \in PagesTo(in, n - 1)
    BY <2>1, <2>2, PagesMembers
  <2>4. in[x[1][1]].projects[x[1][2]].slug = in[y[1][1]].projects[y[1][2]].slug
    BY <1>6 DEF PagePath
  <2>5. CASE y[1][1] = n
    <3>1. y[1][2] \in DOMAIN in[n].projects
      BY <2>5, PagesMembers
    <3>2. in[x[1][1]].projects[x[1][2]].slug \in SlugsTo(in, n - 1)
      <4>1. PICK s, p : s = x[1][1] /\ p = x[1][2]
        OBVIOUS
      <4>2. s \in 1..(n - 1) /\ p \in DOMAIN in[s].projects
        BY <2>1, <2>2, <4>1
      <4>3. in[s].projects[p].slug \in SlugsTo(in, n - 1)
        BY <4>2 DEF SlugsTo
      <4>4. QED
        BY <4>1, <4>3
    <3>3. QED
      BY <2>4, <2>5, <3>1, <3>2
  <2>6. CASE y[1][1] # n
    <3>1. /\ y = <<<<y[1][1], y[1][2]>>, y[2]>>
          /\ y[1][1] \in 1..n /\ y[1][2] \in DOMAIN in[y[1][1]].projects
          /\ y[2] \in Docs(in[y[1][1]], y[1][2])
      BY PagesMembers
    <3>2. y[1][1] \in 1..(n - 1)
      BY <1>1, <2>6, <3>1
    <3>3. y \in PagesTo(in, n - 1)
      BY <3>1, <3>2, PagesMembers
    <3>4. QED
      BY <1>6, <2>3, <3>3 DEF Accepted, PagesApart
  <2>7. QED
    BY <2>5, <2>6
<1>7. ASSUME NEW x \in PagesTo(in, n), NEW y \in PagesTo(in, n),
             x[1][1] = n, y[1][1] = n, PagePath(in, x) = PagePath(in, y)
      PROVE  x = y
  <2> DEFINE p == x[1][2]
             q == y[1][2]
  <2>1. /\ x = <<<<n, p>>, x[2]>> /\ p \in DOMAIN in[n].projects
        /\ x[2] \in Docs(in[n], p)
    BY <1>7, PagesMembers
  <2>2. /\ y = <<<<n, q>>, y[2]>> /\ q \in DOMAIN in[n].projects
        /\ y[2] \in Docs(in[n], q)
    BY <1>7, PagesMembers
  <2>3. in[n].projects[p].slug = in[n].projects[q].slug /\ x[2].slug = y[2].slug
    BY <1>7 DEF PagePath
  <2>4. p = q
    BY <1>0, <2>1, <2>2, <2>3 DEF SlugsApart
  <2>5. \A d, e \in Docs(in[n], p) : d.slug = e.slug => d = e
    BY <1>0, <1>1, <2>1, NavSlugs
  <2>6. x[2] = y[2]
    BY <2>1, <2>2, <2>3, <2>4, <2>5
  <2>7. QED
    BY <2>1, <2>2, <2>4, <2>6
<1>8. PagesApart(in, n)
  BY <1>6, <1>7 DEF PagesApart
<1>9. \A s \in 1..n : SlugsApart(in[s])
  BY <1>0, <1>1 DEF Accepted
<1>10. QED
  BY <1>2, <1>5, <1>8, <1>9 DEF Accepted

\* The files of one more source are put beside those there are: none is replaced.
LEMMA FilesStep ==
    ASSUME NEW in \in Inputs, NEW n \in 1..Len(in), NEW v, Accepted(in, n)
    PROVE  Put(FilesTo(in, v, n - 1),
               TopicFilesOf(in, v, n) \cup PageFilesOf(in, v, n))
             = FilesTo(in, v, n)
<1> DEFINE newTopics == {n} \X DOMAIN in[n].topics
           newPages == PagesOf(in, n)
           old == FilesTo(in, v, n - 1)
           new == {TopicFile(in, v, x) : x \in newTopics} \cup {PageFile(in, v, x) : x \in newPages}
<1>1. Len(in) \in Nat /\ n \in Nat \ {0}
  BY SourceTypes
<1>2. /\ TopicsTo(in, n) = TopicsTo(in, n - 1) \cup newTopics
      /\ PagesTo(in, n) = PagesTo(in, n - 1) \cup newPages
  BY <1>1, OneMoreSource
<1>3. \A x \in TopicsTo(in, n - 1) : x \notin newTopics
  <2>1. \A x \in TopicsTo(in, n - 1) : x[1] \in 1..(n - 1)
    BY TopicsMembers
  <2>2. \A x \in newTopics : x[1] = n
    OBVIOUS
  <2>3. QED
    BY <1>1, <2>1, <2>2
<1>4. \A x \in PagesTo(in, n - 1) : x \notin newPages
  <2>1. \A x \in PagesTo(in, n - 1) : x[1][1] \in 1..(n - 1)
    BY PagesMembers
  <2>2. \A x \in newPages : x[1][1] = n
    BY DEF PagesOf
  <2>3. QED
    BY <1>1, <2>1, <2>2
<1>5. ASSUME NEW f \in old, NEW g \in new
      PROVE  g.path # f.path
  <2>1. CASE f \in {TopicFile(in, v, x) : x \in TopicsTo(in, n - 1)}
    <3>1. PICK x \in TopicsTo(in, n - 1) : f.path = TopicPath(in, x)
      BY <2>1 DEF TopicFile
    <3>2. ASSUME NEW y \in newTopics, g.path = TopicPath(in, y)
          PROVE  g.path # f.path
      BY <1>2, <1>3, <3>1, <3>2 DEF Accepted, TopicsApart
    <3>3. ASSUME NEW y, g.path = PagePath(in, y)
          PROVE  g.path # f.path
      BY <3>1, <3>3 DEF TopicPath, PagePath
    <3>4. QED
      BY <3>2, <3>3 DEF TopicFile, PageFile
  <2>2. CASE f \in {PageFile(in, v, x) : x \in PagesTo(in, n - 1)}
    <3>1. PICK x \in PagesTo(in, n - 1) : f.path = PagePath(in, x)
      BY <2>2 DEF PageFile
    <3>2. ASSUME NEW y \in newPages, g.path = PagePath(in, y)
          PROVE  g.path # f.path
      BY <1>2, <1>4, <3>1, <3>2 DEF Accepted, PagesApart
    <3>3. ASSUME NEW y, g.path = TopicPath(in, y)
          PROVE  g.path # f.path
      BY <3>1, <3>3 DEF TopicPath, PagePath
    <3>4. QED
      BY <3>2, <3>3 DEF TopicFile, PageFile
  <2>3. QED
    BY <2>1, <2>2 DEF FilesTo
<1>6. Put(old, new) = old \cup new
  <2> HIDE DEF old, new
  <2>1. QED
    BY <1>5 DEF Put
<1>7. FilesTo(in, v, n) = old \cup new
  BY <1>2 DEF FilesTo
<1>8. new = TopicFilesOf(in, v, n) \cup PageFilesOf(in, v, n)
  BY OneSource
<1>9. QED
  BY <1>6, <1>7, <1>8

-----------------------------------------------------------------------------
(* The inductive invariant *)

Typed ==
    /\ version \in Nat
    /\ input \in Inputs
    /\ k \in 1..(Len(input) + 1)

\* What was collected is what the sources before k hold.
Collected ==
    /\ Accepted(input, k - 1)
    /\ variants = VariantsTo(input, k - 1)
    /\ slugs = SlugsTo(input, k - 1)
    /\ files = FilesTo(input, version, k - 1)
    /\ listed = EntriesTo(input, k - 1)

\* The phases of writeOutput, in which everything was read.
Writing == {"clear examples", "clear docs", "write snippets", "write docs", "write manifest", "done"}

\* What each phase of writeOutput has left to the next one.
Phases ==
    /\ \A f \in tree : f.path[1] \in {"examples", "docs"}
    /\ pc \in Writing => k = Len(input) + 1
    /\ pc = "clear docs" => In("examples") = {}
    /\ pc = "write snippets" => tree \subseteq files
    /\ pc = "write docs" => tree \subseteq files /\ Pending("examples") = {}
    /\ pc \in {"write manifest", "done"} => tree = files
    /\ pc = "done" => manifest = listed

\* A manifest, of this run or of one before it, is in order.
Ordered == manifest # NoManifest => InOrder(manifest)

SyncInvariant == Typed /\ Collected /\ Phases /\ Ordered

LEMMA InitSync == Init => SyncInvariant
<1> SUFFICES ASSUME Init
             PROVE  SyncInvariant
  OBVIOUS
<1> USE DEF Init
<1>1. Typed
  BY SourceTypes DEF Typed
<1>2. TopicsTo(input, k - 1) = {} /\ PagesTo(input, k - 1) = {} /\ SlugsTo(input, k - 1) = {}
  BY DEF TopicsTo, PagesTo, SlugsTo
<1>3. Accepted(input, k - 1)
  BY <1>2 DEF Accepted, TopicsApart, PagesApart
<1>4. variants = VariantsTo(input, k - 1) /\ files = FilesTo(input, version, k - 1)
  BY <1>2 DEF VariantsTo, FilesTo
<1>5. listed = EntriesTo(input, k - 1)
  BY DEF EntriesTo
<1>6. Collected
  BY <1>2, <1>3, <1>4, <1>5 DEF Collected
<1>7. Phases /\ Ordered
  BY DEF Phases, Ordered, Writing
<1>8. QED
  BY <1>1, <1>6, <1>7 DEF SyncInvariant

\* A run starts with nothing collected.
LEMMA StartSync == SyncInvariant /\ Start => SyncInvariant'
<1> SUFFICES ASSUME SyncInvariant, Start
             PROVE  SyncInvariant'
  OBVIOUS
<1> USE DEF Start
<1>1. Typed'
  BY SourceTypes, RunsAssumption DEF Typed, SyncInvariant
<1>2. TopicsTo(input, k - 1)' = {} /\ PagesTo(input, k - 1)' = {} /\ SlugsTo(input, k - 1)' = {}
  BY DEF TopicsTo, PagesTo, SlugsTo
<1>3. Accepted(input, k - 1)'
  BY <1>2 DEF Accepted, TopicsApart, PagesApart
<1>4. variants' = VariantsTo(input, k - 1)' /\ files' = FilesTo(input, version, k - 1)'
  BY <1>2 DEF VariantsTo, FilesTo
<1>5. listed' = EntriesTo(input, k - 1)'
  BY DEF EntriesTo
<1>6. Collected'
  BY <1>2, <1>3, <1>4, <1>5 DEF Collected
<1>7. pc' = "reading" /\ UNCHANGED <<tree, manifest>>
  BY DEF disk
<1>8. Phases'
  BY <1>7 DEF Phases, Writing, SyncInvariant
<1>9. Ordered'
  BY <1>7 DEF Ordered, SyncInvariant
<1>10. QED
  BY <1>1, <1>6, <1>8, <1>9 DEF SyncInvariant

\* A source that is read adds what it holds to what was collected.
LEMMA ReadSync == SyncInvariant /\ ReadSource => SyncInvariant'
<1> SUFFICES ASSUME SyncInvariant, ReadSource
             PROVE  SyncInvariant'
  OBVIOUS
<1> USE DEF SyncInvariant
<1>1. /\ pc = "reading" /\ k <= Len(input) /\ Readable /\ ~Clash
      /\ k' = k + 1 /\ UNCHANGED <<pc, input, version, tree, manifest>>
  BY DEF ReadSource, disk
<1>2. /\ input \in Inputs /\ version \in Nat /\ Len(input) \in Nat /\ k \in 1..Len(input)
      /\ k \in Nat \ {0} /\ k' - 1 = k
  BY <1>1, SourceTypes DEF Typed
<1>3. Typed'
  BY <1>1, <1>2 DEF Typed
<1>4. /\ variants = VariantsTo(input, k - 1) /\ slugs = SlugsTo(input, k - 1)
      /\ files = FilesTo(input, version, k - 1) /\ listed = EntriesTo(input, k - 1)
      /\ Accepted(input, k - 1)
  BY DEF Collected
<1>5. Accepted(input, k)
  <2>1. \A t \in Range(input[k].topics) : <<t, input[k].lang>> \notin VariantsTo(input, k - 1)
    BY <1>1, <1>4 DEF Clash, VariantTaken, Topics, Source
  <2>2. IsInjective(input[k].topics)
    BY <1>1 DEF Clash, Source
  <2>3. \A p \in DOMAIN input[k].projects :
           /\ input[k].projects[p].slug \notin SlugsTo(input, k - 1)
           /\ \A q \in DOMAIN input[k].projects :
                 q < p => input[k].projects[q].slug # input[k].projects[p].slug
           /\ ~DocsClash(Nav(input[k], p))
    BY <1>1, <1>4 DEF Clash, Source
  <2>4. input[k].topics # Unreadable
    BY <1>1 DEF Readable, Source
  <2>5. QED
    BY <1>2, <1>4, <2>1, <2>2, <2>3, <2>4, AcceptedStep
<1>6. variants' = VariantsTo(input, k)
  <2>1. TopicsTo(input, k) = TopicsTo(input, k - 1) \cup ({k} \X DOMAIN input[k].topics)
    <3>1. PICK in, n : in = input /\ n = k
      OBVIOUS
    <3>2. n \in Nat \ {0}
      BY <1>2, <3>1
    <3>3. TopicsTo(in, n) = TopicsTo(in, n - 1) \cup ({n} \X DOMAIN in[n].topics)
      BY <3>2, OneMoreSource
    <3>4. QED
      BY <3>1, <3>3
  <2>2. VariantsOf(input, k)
          = {<<input[x[1]].topics[x[2]], input[x[1]].lang>> : x \in {k} \X DOMAIN input[k].topics}
    <3>1. PICK in, n : in = input /\ n = k
      OBVIOUS
    <3>2. VariantsOf(in, n)
            = {<<in[x[1]].topics[x[2]], in[x[1]].lang>> : x \in {n} \X DOMAIN in[n].topics}
      BY OneSource
    <3>3. QED
      BY <3>1, <3>2
  <2>3. variants' = variants \cup VariantsOf(input, k)
    BY DEF ReadSource, Topics, Source, VariantsOf
  <2>4. QED
    BY <1>4, <2>1, <2>2, <2>3 DEF VariantsTo
<1>7. slugs' = SlugsTo(input, k)
  BY <1>2, <1>4, OneMoreSource DEF ReadSource, Source
<1>8. files' = FilesTo(input, version, k)
  <2>1. {SnippetFile(t) : t \in Topics} = TopicFilesOf(input, version, k)
    BY DEF SnippetFile, Topics, Source, TopicFilesOf
  <2>2. \A p \in DOMAIN input[k].projects : Range(Nav(input[k], p)) = Docs(input[k], p)
    <3>1. input[k] \in Sources /\ SlugsApart(input[k])
      BY <1>2, <1>5, SourceTypes DEF Accepted
    <3>2. QED
      BY <3>1, NavProperties
  <2>3. files' = Put(files, TopicFilesOf(input, version, k) \cup PageFilesOf(input, version, k))
    <3>1. UNION {{DocFile(Source.projects[i], d) : d \in Range(Nav(Source, i))} :
                    i \in DOMAIN Source.projects}
            = PageFilesOf(input, version, k)
      BY <2>2 DEF DocFile, Source, PageFilesOf
    <3>2. files' = Put(files, {SnippetFile(t) : t \in Topics}
                     \cup UNION {{DocFile(Source.projects[i], d) : d \in Range(Nav(Source, i))} :
                                    i \in DOMAIN Source.projects})
      BY DEF ReadSource
    <3>3. QED
      BY <2>1, <3>1, <3>2
  <2>4. files' = Put(FilesTo(input, version, k - 1),
                      TopicFilesOf(input, version, k) \cup PageFilesOf(input, version, k))
    BY <1>4, <2>3
  <2>5. QED
    BY <1>2, <1>5, <2>4, FilesStep
<1>9. listed' = EntriesTo(input, k)
  <2>1. listed' = Append(EntriesTo(input, k - 1), Entry(input[k]))
    BY <1>4 DEF ReadSource, Source
  <2>2. QED
    BY <1>2, <2>1 DEF EntriesTo
<1>10. Collected'
  BY <1>1, <1>2, <1>5, <1>6, <1>7, <1>8, <1>9 DEF Collected
<1>11. Phases' /\ Ordered'
  BY <1>1 DEF Phases, Ordered, Writing, InOrder
<1>12. QED
  BY <1>3, <1>10, <1>11

\* What is to be written goes to one of the two directories, and is whole.
LEMMA FilesLocated ==
    ASSUME Collected
    PROVE  \A f \in files : f.path[1] \in {"examples", "docs"}
<1>1. \A x : TopicFile(input, version, x).path[1] = "examples"
  BY DEF TopicFile, TopicPath
<1>2. \A x : PageFile(input, version, x).path[1] = "docs"
  BY DEF PageFile, PagePath
<1>3. QED
  BY <1>1, <1>2 DEF Collected, FilesTo

\* Steps that leave the run and what it collected alone.
LEMMA CollectedStays ==
    ASSUME Typed, Collected, UNCHANGED <<input, version, memory>>
    PROVE  Typed' /\ Collected'
BY DEF Typed, Collected, memory

\* The steps of writeOutput: what a phase was left, and what it leaves.
LEMMA OutputSync == SyncInvariant /\ Output => SyncInvariant'
<1> SUFFICES ASSUME SyncInvariant, Output
             PROVE  SyncInvariant'
  OBVIOUS
<1> USE DEF SyncInvariant
<1>1. UNCHANGED <<input, version, memory>>
  BY DEF Output, BeginOutput, RemoveFile, Cleared, WriteFile, AllWritten, WriteManifest
<1>2. Typed' /\ Collected'
  BY <1>1, CollectedStays
<1>3. UNCHANGED <<input, k, files, listed>>
  BY <1>1 DEF memory
<1>4. \A f \in files : f.path[1] \in {"examples", "docs"}
  BY FilesLocated
<1>5. CASE BeginOutput
  <2>1. /\ k > Len(input) /\ pc' = "clear examples" /\ UNCHANGED <<tree, manifest>>
    BY <1>5 DEF BeginOutput, disk
  <2>2. k = Len(input) + 1
    <3>1. Len(input) \in Nat /\ k \in 1..(Len(input) + 1)
      BY SourceTypes DEF Typed
    <3>2. PICK n \in Nat : n = Len(input)
      BY <3>1
    <3>3. k \in 1..(n + 1) /\ k > n
      BY <2>1, <3>1, <3>2
    <3>4. k = n + 1
      BY <3>3
    <3>5. QED
      BY <3>2, <3>4
  <2>3. Phases' /\ Ordered'
    BY <1>3, <2>1, <2>2 DEF Phases, Ordered
  <2>4. QED
    BY <1>2, <2>3
<1>6. ASSUME NEW dir, NEW label \in {"clear examples", "clear docs"}, RemoveFile(dir, label)
      PROVE  SyncInvariant'
  <2>1. /\ pc = label /\ tree' \subseteq tree /\ UNCHANGED <<pc, manifest>>
    BY <1>6 DEF RemoveFile
  <2>2. pc = "clear docs" => In("examples")' = {}
    BY <2>1 DEF Phases, In
  <2>3. Phases' /\ Ordered'
    BY <1>3, <1>6, <2>1, <2>2 DEF Phases, Ordered, Writing
  <2>4. QED
    BY <1>2, <2>3
<1>7. CASE Cleared("examples", "clear examples", AfterExamples)
  <2>1. /\ pc = "clear examples" /\ pc' = "clear docs" /\ In("examples") = {}
        /\ UNCHANGED <<tree, manifest>>
    BY <1>7 DEF Cleared, AfterExamples, disk
  <2>2. In("examples")' = {}
    BY <2>1 DEF In
  <2>3. Phases' /\ Ordered'
    BY <1>3, <2>1, <2>2 DEF Phases, Ordered, Writing
  <2>4. QED
    BY <1>2, <2>3
<1>8. CASE Cleared("docs", "clear docs", "write snippets")
  <2>1. /\ pc = "clear docs" /\ pc' = "write snippets" /\ In("docs") = {}
        /\ UNCHANGED <<tree, manifest>>
    BY <1>8 DEF Cleared, disk
  <2>2. In("examples") = {}
    BY <2>1 DEF Phases
  <2>3. tree = {}
    BY <2>1, <2>2 DEF Phases, In
  <2>4. Phases' /\ Ordered'
    BY <1>3, <2>1, <2>3 DEF Phases, Ordered, Writing
  <2>5. QED
    BY <1>2, <2>4
<1>9. CASE WriteFile("examples", "write snippets")
  <2>1. /\ pc = "write snippets" /\ UNCHANGED <<pc, manifest>>
        /\ \E f \in Pending("examples") : tree' = Put(tree, {f})
    BY <1>9 DEF WriteFile
  <2>2. tree' \subseteq files
    BY <2>1 DEF Phases, Pending, Put
  <2>3. Phases' /\ Ordered'
    BY <1>3, <1>4, <2>1, <2>2 DEF Phases, Ordered, Writing
  <2>4. QED
    BY <1>2, <2>3
<1>10. CASE AllWritten("examples", "write snippets", "write docs")
  <2>1. /\ pc = "write snippets" /\ pc' = "write docs" /\ Pending("examples") = {}
        /\ UNCHANGED <<tree, manifest>>
    BY <1>10 DEF AllWritten, disk
  <2>2. Pending("examples")' = {}
    BY <1>3, <2>1 DEF Pending
  <2>3. Phases' /\ Ordered'
    BY <1>3, <2>1, <2>2 DEF Phases, Ordered, Writing
  <2>4. QED
    BY <1>2, <2>3
<1>11. CASE WriteFile("docs", "write docs")
  <2>1. /\ pc = "write docs" /\ UNCHANGED <<pc, manifest>>
    BY <1>11 DEF WriteFile
  <2>2. PICK f \in Pending("docs") : tree' = Put(tree, {f})
    BY <1>11 DEF WriteFile
  <2>3. f \in files /\ f.path[1] = "docs"
    BY <2>2 DEF Pending
  <2>4. tree' \subseteq files
    BY <2>1, <2>2, <2>3 DEF Phases, Put
  <2>5. \A g \in tree : g.path[1] = "examples" => g \in tree'
    BY <2>2, <2>3 DEF Put
  <2>6. Pending("examples")' = {}
    BY <1>3, <2>1, <2>5 DEF Phases, Pending
  <2>7. Phases' /\ Ordered'
    BY <1>3, <1>4, <2>1, <2>4, <2>6 DEF Phases, Ordered, Writing
  <2>8. QED
    BY <1>2, <2>7
<1>12. CASE AllWritten("docs", "write docs", "write manifest")
  <2>1. /\ pc = "write docs" /\ pc' = "write manifest" /\ Pending("docs") = {}
        /\ UNCHANGED <<tree, manifest>>
    BY <1>12 DEF AllWritten, disk
  <2>2. tree \subseteq files /\ Pending("examples") = {}
    BY <2>1 DEF Phases
  <2>3. tree = files
    BY <1>4, <2>1, <2>2 DEF Pending
  <2>4. Phases' /\ Ordered'
    BY <1>3, <2>1, <2>3 DEF Phases, Ordered, Writing
  <2>5. QED
    BY <1>2, <2>4
<1>13. CASE WriteManifest
  <2>1. pc = "write manifest" /\ pc' = "done" /\ manifest' = listed /\ UNCHANGED tree
    BY <1>13 DEF WriteManifest
  <2>2. listed = EntriesTo(input, Len(input))
    <3>1. Len(input) \in Nat /\ k = Len(input) + 1
      BY <2>1, SourceTypes DEF Phases, Writing, Typed
    <3>2. k - 1 = Len(input)
      BY <3>1
    <3>3. QED
      BY <3>2 DEF Collected
  <2>3. InOrder(listed)
    <3>1. Accepted(input, Len(input))
      <4>1. Len(input) \in Nat /\ k = Len(input) + 1
        BY <2>1, SourceTypes DEF Phases, Writing, Typed
      <4>2. k - 1 = Len(input)
        BY <4>1
      <4>3. QED
        BY <4>2 DEF Collected
    <3>2. QED
      BY <2>2, <3>1, EntriesInOrder DEF EntriesTo, Typed, Accepted
  <2>4. InOrder(manifest)'
    <3>1. InOrder(listed) /\ manifest' = listed => InOrder(manifest)'
      BY DEF InOrder
    <3>2. QED
      BY <2>1, <2>3, <3>1
  <2>5. Phases' /\ Ordered'
    BY <1>3, <2>1, <2>4 DEF Phases, Ordered, Writing
  <2>6. QED
    BY <1>2, <2>5
<1>14. QED
  BY <1>5, <1>6, <1>7, <1>8, <1>9, <1>10, <1>11, <1>12, <1>13 DEF Output

\* A kill ends the run, with a file cut short perhaps.
LEMMA KillSync == SyncInvariant /\ Kill => SyncInvariant'
<1> SUFFICES ASSUME SyncInvariant, Kill
             PROVE  SyncInvariant'
  OBVIOUS
<1> USE DEF SyncInvariant
<1>1. pc' = "killed" /\ UNCHANGED <<input, version, memory>>
  BY DEF Kill
<1>2. Typed' /\ Collected'
  BY <1>1, CollectedStays
<1>3. \A f \in files : f.path[1] \in {"examples", "docs"}
  BY FilesLocated
<1>4. manifest' \in {manifest, NoManifest}
  BY DEF Kill, disk
<1>5. Ordered'
  <2>1. InOrder(manifest) /\ manifest' = manifest => InOrder(manifest)'
    BY DEF InOrder
  <2>2. QED
    BY <1>4, <2>1 DEF Ordered
<1>6. \A f \in tree' : f.path[1] \in {"examples", "docs"}
  <2>1. CASE UNCHANGED tree
    BY <2>1 DEF Phases
  <2>2. ASSUME NEW dir, NEW f \in Pending(dir), tree' = Put(tree, {[f EXCEPT !.text = Torn]})
        PROVE  \A g \in tree' : g.path[1] \in {"examples", "docs"}
    <3> DEFINE torn == [f EXCEPT !.text = Torn]
    <3>1. f \in FilesTo(input, version, k - 1)
      BY <2>2 DEF Pending, Collected
    <3>2. torn.path = f.path
      <4>1. "path" \in DOMAIN f
        BY <3>1 DEF FilesTo, TopicFile, PageFile
      <4>2. QED
        BY <4>1
    <3>3. torn.path[1] \in {"examples", "docs"}
      BY <1>3, <2>2, <3>2 DEF Pending
    <3> HIDE DEF torn
    <3>4. \A g \in tree' : g \in tree \/ g = torn
      BY <2>2 DEF Put, torn
    <3>5. QED
      BY <3>3, <3>4 DEF Phases
  <2>3. UNCHANGED tree \/ \E dir \in {"docs", "examples"} : \E f \in Pending(dir) :
           tree' = Put(tree, {[f EXCEPT !.text = Torn]})
    BY DEF Kill, disk
  <2>4. QED
    BY <2>1, <2>2, <2>3
<1>7. Phases'
  BY <1>1, <1>6 DEF Phases, Writing
<1>8. QED
  BY <1>2, <1>5, <1>7

LEMMA StepSync == SyncInvariant /\ [Next]_vars => SyncInvariant'
<1>1. ASSUME SyncInvariant, UNCHANGED vars
      PROVE  SyncInvariant'
  <2>1. Typed' /\ Collected'
    BY <1>1, CollectedStays DEF SyncInvariant, vars
  <2>2. UNCHANGED <<pc, input, k, files, listed, tree, manifest>>
    BY <1>1 DEF vars, memory, disk
  <2>3. In("examples")' = In("examples") /\ Pending("examples")' = Pending("examples")
    BY <2>2 DEF In, Pending
  <2>4. Phases' /\ Ordered'
    BY <1>1, <2>2, <2>3 DEF SyncInvariant, Phases, Ordered
  <2>5. QED
    BY <2>1, <2>4 DEF SyncInvariant
<1>2. ASSUME SyncInvariant, Refuse
      PROVE  SyncInvariant'
  <2>1. UNCHANGED <<input, version, memory, tree, manifest>> /\ pc' = "refused"
    BY <1>2 DEF Refuse, disk
  <2>2. Typed' /\ Collected'
    BY <1>2, <2>1, CollectedStays DEF SyncInvariant
  <2>3. Phases' /\ Ordered'
    BY <1>2, <2>1 DEF SyncInvariant, Phases, Ordered, Writing
  <2>4. QED
    BY <2>2, <2>3 DEF SyncInvariant
<1>3. QED
  BY <1>1, <1>2, StartSync, ReadSync, OutputSync, KillSync DEF Next, Command, Rest

\* Everything the runs rely on, in every state.
THEOREM SyncCorrect == Spec => []SyncInvariant
BY InitSync, StepSync, PTL DEF Spec

-----------------------------------------------------------------------------
(* A run that ends well leaves what its manifest names *)

\* The manifest of all sources names the paths of the files that are written.
LEMMA PathsOfEntries ==
    ASSUME NEW in \in Inputs, NEW v, Accepted(in, Len(in))
    PROVE  Paths(EntriesTo(in, Len(in))) = {f.path : f \in FilesTo(in, v, Len(in))}
<1> DEFINE n == Len(in)
           m == EntriesTo(in, n)
<1>1. DOMAIN m = 1..n /\ \A s \in 1..n : in[s] \in Sources /\ m[s] = Entry(in[s])
  BY SourceTypes DEF EntriesTo
<1>2. \A s \in 1..n :
         /\ m[s].lang = in[s].lang /\ m[s].topics = Range(in[s].topics)
         /\ DOMAIN m[s].projects = DOMAIN in[s].projects
         /\ \A p \in DOMAIN in[s].projects :
               /\ m[s].projects[p].slug = in[s].projects[p].slug
               /\ m[s].projects[p].docs = Nav(in[s], p)
  BY <1>1 DEF Entry
<1>3. \A s \in 1..n : \A p \in DOMAIN in[s].projects :
         Range(Nav(in[s], p)) = Docs(in[s], p)
  BY <1>1, NavProperties DEF Accepted
<1> HIDE DEF m, n
<1>4. ASSUME NEW path
      PROVE  path \in Paths(m) <=>
               \/ \E s \in 1..n : \E t \in m[s].topics : path = <<"examples", t, m[s].lang>>
               \/ \E s \in 1..n : \E p \in DOMAIN m[s].projects :
                     \E d \in DOMAIN m[s].projects[p].docs :
                        path = <<"docs", m[s].projects[p].slug, m[s].projects[p].docs[d].slug>>
  <2> DEFINE ofPages(s, p) == {<<"docs", m[s].projects[p].slug, m[s].projects[p].docs[d].slug>> :
                                  d \in DOMAIN m[s].projects[p].docs}
             topics == UNION {{<<"examples", t, m[s].lang>> : t \in m[s].topics} : s \in DOMAIN m}
             pages == UNION {UNION {ofPages(s, p) : p \in DOMAIN m[s].projects} : s \in DOMAIN m}
  <2>1. Paths(m) = topics \cup pages
    BY DEF Paths
  <2>2. path \in topics <=>
          \E s \in DOMAIN m : \E t \in m[s].topics : path = <<"examples", t, m[s].lang>>
    OBVIOUS
  <2>3. \A s, p : path \in ofPages(s, p) <=>
           \E d \in DOMAIN m[s].projects[p].docs :
              path = <<"docs", m[s].projects[p].slug, m[s].projects[p].docs[d].slug>>
    OBVIOUS
  <2> HIDE DEF ofPages
  <2>4. path \in pages <=>
          \E s \in DOMAIN m : \E p \in DOMAIN m[s].projects : path \in ofPages(s, p)
    OBVIOUS
  <2> HIDE DEF topics, pages
  <2>5. QED
    BY <1>1, <2>1, <2>2, <2>3, <2>4
<1>5. ASSUME NEW path
      PROVE  path \in Paths(m) <=>
               \/ \E s \in 1..n : \E t \in Range(in[s].topics) : path = <<"examples", t, in[s].lang>>
               \/ \E s \in 1..n : \E p \in DOMAIN in[s].projects : \E d \in Docs(in[s], p) :
                     path = <<"docs", in[s].projects[p].slug, d.slug>>
  <2>1. ASSUME NEW s \in 1..n, NEW p \in DOMAIN in[s].projects
        PROVE  (\E d \in DOMAIN m[s].projects[p].docs :
                   path = <<"docs", m[s].projects[p].slug, m[s].projects[p].docs[d].slug>>)
                 <=> \E d \in Docs(in[s], p) :
                        path = <<"docs", in[s].projects[p].slug, d.slug>>
    <3>1. PICK docs, nav, slug :
             docs = Docs(in[s], p) /\ nav = Nav(in[s], p) /\ slug = in[s].projects[p].slug
      OBVIOUS
    <3>2. m[s].projects[p].docs = nav /\ m[s].projects[p].slug = slug /\ Range(nav) = docs
      BY <1>2, <1>3, <3>1
    <3>3. \A d : d \in docs <=> \E i \in DOMAIN nav : d = nav[i]
      BY <3>2 DEF Range
    <3>4. QED
      BY <3>1, <3>2, <3>3
  <2>2. QED
    BY <1>2, <1>4, <2>1
<1>6. ASSUME NEW path
      PROVE  path \in {f.path : f \in FilesTo(in, v, n)} <=>
               \/ \E x \in TopicsTo(in, n) : path = TopicPath(in, x)
               \/ \E x \in PagesTo(in, n) : path = PagePath(in, x)
  <2>1. \A x : TopicFile(in, v, x).path = TopicPath(in, x) /\ PageFile(in, v, x).path = PagePath(in, x)
    BY DEF TopicFile, PageFile
  <2>2. \A f : f \in FilesTo(in, v, n) <=>
             \/ \E x \in TopicsTo(in, n) : f = TopicFile(in, v, x)
             \/ \E x \in PagesTo(in, n) : f = PageFile(in, v, x)
    BY DEF FilesTo
  <2>3. path \in {f.path : f \in FilesTo(in, v, n)} <=> \E f \in FilesTo(in, v, n) : path = f.path
    OBVIOUS
  <2>4. QED
    BY <2>1, <2>2, <2>3
<1>7. ASSUME NEW path
      PROVE  (\E x \in TopicsTo(in, n) : path = TopicPath(in, x)) <=>
               \E s \in 1..n : \E t \in Range(in[s].topics) : path = <<"examples", t, in[s].lang>>
  <2>1. ASSUME NEW x \in TopicsTo(in, n), path = TopicPath(in, x)
        PROVE  \E s \in 1..n : \E t \in Range(in[s].topics) : path = <<"examples", t, in[s].lang>>
    <3>1. x[1] \in 1..n /\ x[2] \in DOMAIN in[x[1]].topics
      BY TopicsMembers
    <3>2. PICK s, i : s = x[1] /\ i = x[2]
      OBVIOUS
    <3>3. in[s].topics[i] \in Range(in[s].topics)
      BY <3>1, <3>2 DEF Range
    <3>4. path = <<"examples", in[s].topics[i], in[s].lang>>
      BY <2>1, <3>2 DEF TopicPath
    <3>5. QED
      BY <3>1, <3>2, <3>3, <3>4
  <2>2. ASSUME NEW s \in 1..n, NEW t \in Range(in[s].topics), path = <<"examples", t, in[s].lang>>
        PROVE  \E x \in TopicsTo(in, n) : path = TopicPath(in, x)
    <3>1. PICK i \in DOMAIN in[s].topics : t = in[s].topics[i]
      BY DEF Range
    <3>2. PICK x : x = <<s, i>>
      OBVIOUS
    <3>3. x[1] = s /\ x[2] = i /\ x = <<x[1], x[2]>>
      BY <3>2
    <3>4. x \in TopicsTo(in, n)
      BY <3>1, <3>3, TopicsMembers
    <3>5. path = TopicPath(in, x)
      BY <2>2, <3>1, <3>3 DEF TopicPath
    <3>6. QED
      BY <3>4, <3>5
  <2>3. QED
    BY <2>1, <2>2
<1>8. ASSUME NEW path
      PROVE  (\E x \in PagesTo(in, n) : path = PagePath(in, x)) <=>
               \E s \in 1..n : \E p \in DOMAIN in[s].projects : \E d \in Docs(in[s], p) :
                     path = <<"docs", in[s].projects[p].slug, d.slug>>
  <2>1. ASSUME NEW x \in PagesTo(in, n), path = PagePath(in, x)
        PROVE  \E s \in 1..n : \E p \in DOMAIN in[s].projects : \E d \in Docs(in[s], p) :
                     path = <<"docs", in[s].projects[p].slug, d.slug>>
    <3>1. PICK s, p, d : s = x[1][1] /\ p = x[1][2] /\ d = x[2]
      OBVIOUS
    <3>2. s \in 1..n /\ p \in DOMAIN in[s].projects /\ d \in Docs(in[s], p)
      BY <3>1, PagesMembers
    <3>3. path = <<"docs", in[s].projects[p].slug, d.slug>>
      BY <2>1, <3>1 DEF PagePath
    <3>4. QED
      BY <3>2, <3>3
  <2>2. ASSUME NEW s \in 1..n, NEW p \in DOMAIN in[s].projects, NEW d \in Docs(in[s], p),
               path = <<"docs", in[s].projects[p].slug, d.slug>>
        PROVE  \E x \in PagesTo(in, n) : path = PagePath(in, x)
    <3>1. PICK x : x = <<<<s, p>>, d>>
      OBVIOUS
    <3>2. x[1][1] = s /\ x[1][2] = p /\ x[2] = d /\ x = <<<<x[1][1], x[1][2]>>, x[2]>>
      BY <3>1
    <3>3. x \in PagesTo(in, n)
      BY <3>2, PagesMembers
    <3>4. path = PagePath(in, x)
      BY <2>2, <3>2 DEF PagePath
    <3>5. QED
      BY <3>3, <3>4
  <2>3. QED
    BY <2>1, <2>2
<1>9. \A path : path \in Paths(m) <=> path \in {f.path : f \in FilesTo(in, v, n)}
  BY <1>5, <1>6, <1>7, <1>8
<1>10. Paths(m) = {f.path : f \in FilesTo(in, v, n)}
  <2>1. \A path \in {f.path : f \in FilesTo(in, v, n)} : path \in Paths(m)
    BY <1>9
  <2>2. \A path \in Paths(m) : path \in {f.path : f \in FilesTo(in, v, n)}
    BY <1>9
  <2>3. QED
    BY <2>1, <2>2
<1>11. QED
  BY <1>10 DEF m, n

\* What is true of a run that is done.
LEMMA DoneRun ==
    ASSUME SyncInvariant, pc = "done"
    PROVE  /\ input \in Inputs /\ Accepted(input, Len(input))
           /\ tree = FilesTo(input, version, Len(input))
           /\ manifest = EntriesTo(input, Len(input))
<1>1. k = Len(input) + 1 /\ tree = files /\ manifest = listed
  BY DEF SyncInvariant, Phases, Writing
<1>2. input \in Inputs /\ Len(input) \in Nat
  BY SourceTypes DEF SyncInvariant, Typed
<1>3. k - 1 = Len(input)
  BY <1>1, <1>2
<1>4. QED
  BY <1>1, <1>2, <1>3 DEF SyncInvariant, Collected

LEMMA InvariantTree == SyncInvariant => TreeIsManifest
<1> SUFFICES ASSUME SyncInvariant, pc = "done"
             PROVE  /\ manifest # NoManifest
                    /\ {f.path : f \in tree} = Paths(manifest)
                    /\ \A f \in tree : f.text # Torn /\ f.text[1] = version
  BY DEF TreeIsManifest
<1>1. /\ input \in Inputs /\ Accepted(input, Len(input))
      /\ tree = FilesTo(input, version, Len(input)) /\ manifest = EntriesTo(input, Len(input))
  BY DoneRun
<1>2. /\ Len(input) \in Nat /\ version \in Nat
      /\ \A s \in 1..Len(input) : input[s] \in Sources
  BY SourceTypes DEF SyncInvariant, Typed
<1>3. manifest # NoManifest
  <2> DEFINE readable == {s \in Sources : s.topics # Unreadable}
             entries == {Entry(s) : s \in readable}
  <2>1. \A s \in 1..Len(input) : input[s] \in readable
    BY <1>1, <1>2 DEF Accepted
  <2>2. \A s \in 1..Len(input) : Entry(input[s]) \in entries
    BY <2>1
  <2> HIDE DEF entries
  <2>3. [s \in 1..Len(input) |-> Entry(input[s])] \in Seq(entries)
    BY <1>2, <2>2
  <2>4. NoManifest \notin Seq(entries)
    BY ManifestAssumption DEF entries
  <2>5. QED
    BY <1>1, <2>3, <2>4 DEF EntriesTo
<1>4. {f.path : f \in tree} = Paths(manifest)
  <2>1. PICK in, v : in \in Inputs /\ in = input /\ v = version /\ Accepted(in, Len(in))
    BY <1>1
  <2>2. Paths(EntriesTo(in, Len(in))) = {f.path : f \in FilesTo(in, v, Len(in))}
    BY <2>1, PathsOfEntries
  <2>3. QED
    BY <1>1, <2>1, <2>2
<1>5. ASSUME NEW f \in tree
      PROVE  f.text # Torn /\ f.text[1] = version
  <2> DEFINE Texts == (Nat \X Nat) \cup (Nat \X Nat \X Int)
  <2>1. ASSUME NEW x \in TopicsTo(input, Len(input)), f = TopicFile(input, version, x)
        PROVE  f.text \in Texts /\ f.text[1] = version
    <3>1. x[1] \in 1..Len(input)
      BY TopicsMembers
    <3>2. f.text = <<version, x[1]>>
      BY <2>1 DEF TopicFile
    <3>3. QED
      BY <1>2, <3>1, <3>2
  <2>2. ASSUME NEW x \in PagesTo(input, Len(input)), f = PageFile(input, version, x)
        PROVE  f.text \in Texts /\ f.text[1] = version
    <3>1. PICK s, p, d : s = x[1][1] /\ p = x[1][2] /\ d = x[2]
      OBVIOUS
    <3>2. s \in 1..Len(input) /\ p \in DOMAIN input[s].projects /\ d \in Docs(input[s], p)
      BY <3>1, PagesMembers
    <3>3. d.file \in Int
      BY <1>2, <3>2, DocsTypes
    <3>4. f.text = <<version, s, d.file>>
      BY <2>2, <3>1 DEF PageFile
    <3>5. QED
      BY <1>2, <3>2, <3>3, <3>4
  <2>3. f.text \in Texts /\ f.text[1] = version
    BY <1>1, <2>1, <2>2 DEF FilesTo
  <2>4. QED
    BY <2>3, TornAssumption
<1>6. QED
  BY <1>3, <1>4, <1>5

\* Whatever earlier runs left, and wherever they were killed, a run that ends well
\* leaves the files its manifest names, whole and of its own, and no others.
THEOREM TreesMatchManifests == Spec => []TreeIsManifest
BY SyncCorrect, InvariantTree, PTL

\* What a project's navigation names was found below its directory, and is written.
LEMMA InvariantPages == SyncInvariant => PagesOpen
<1> SUFFICES ASSUME SyncInvariant, pc = "done",
                    NEW s \in DOMAIN input, NEW p \in DOMAIN input[s].projects
             PROVE  LET project == input[s].projects[p]
                        docs == manifest[s].projects[p].docs
                    IN  /\ {docs[i].file : i \in DOMAIN docs}
                             = {f.file : f \in {g \in input[s].files : project.dir \in g.dirs}}
                        /\ \A i \in DOMAIN docs :
                              [path |-> <<"docs", project.slug, docs[i].slug>>,
                               text |-> <<version, s, docs[i].file>>] \in tree
  BY DEF PagesOpen
<1>1. PICK in, v : in \in Inputs /\ in = input /\ v = version
  BY DEF SyncInvariant, Typed
<1>2. /\ Accepted(in, Len(in)) /\ tree = FilesTo(in, v, Len(in))
      /\ manifest = EntriesTo(in, Len(in))
  BY <1>1, DoneRun
<1>3. s \in 1..Len(in) /\ in[s] \in Sources /\ p \in DOMAIN in[s].projects /\ SlugsApart(in[s])
  BY <1>1, <1>2, SourceTypes DEF Accepted
<1>4. PICK docs, project, files0 :
         docs = Nav(in[s], p) /\ project = in[s].projects[p] /\ files0 = in[s].files
  OBVIOUS
<1>5. manifest[s].projects[p].docs = docs
  BY <1>2, <1>3, <1>4 DEF EntriesTo, Entry
<1>6. Range(docs) = Docs(in[s], p)
  BY <1>3, <1>4, NavProperties
<1>7. \A d : d \in Docs(in[s], p) <=>
           \E f \in files0 : /\ project.dir \in f.dirs
                             /\ d = [project |-> project.slug, file |-> f.file, slug |-> f.slug]
  BY <1>4 DEF Docs
<1>8. \A d : d \in Docs(in[s], p) <=> \E i \in DOMAIN docs : d = docs[i]
  BY <1>6 DEF Range
<1>9. ASSUME NEW i \in DOMAIN docs
      PROVE  \E f \in files0 : project.dir \in f.dirs /\ docs[i].file = f.file
  BY <1>7, <1>8
<1>10. ASSUME NEW f \in files0, project.dir \in f.dirs
       PROVE  \E i \in DOMAIN docs : docs[i].file = f.file
  <2>1. PICK d : d = [project |-> project.slug, file |-> f.file, slug |-> f.slug]
    OBVIOUS
  <2>2. d \in Docs(in[s], p) /\ d.file = f.file
    BY <1>7, <1>10, <2>1
  <2>3. QED
    BY <1>8, <2>2
<1>11. {docs[i].file : i \in DOMAIN docs} = {f.file : f \in {g \in files0 : project.dir \in g.dirs}}
  BY <1>9, <1>10
<1>12. ASSUME NEW i \in DOMAIN docs
       PROVE  [path |-> <<"docs", project.slug, docs[i].slug>>,
               text |-> <<v, s, docs[i].file>>] \in tree
  <2>1. PICK d \in Docs(in[s], p) : d = docs[i]
    BY <1>8
  <2>2. PICK x : x = <<<<s, p>>, d>>
    OBVIOUS
  <2>3. x[1][1] = s /\ x[1][2] = p /\ x[2] = d /\ x = <<<<x[1][1], x[1][2]>>, x[2]>>
    BY <2>2
  <2>4. x \in PagesTo(in, Len(in))
    BY <1>3, <2>1, <2>3, PagesMembers
  <2>5. PageFile(in, v, x) = [path |-> <<"docs", project.slug, d.slug>>, text |-> <<v, s, d.file>>]
    BY <1>4, <2>3 DEF PageFile, PagePath
  <2>6. PageFile(in, v, x) \in tree
    BY <1>2, <2>4 DEF FilesTo
  <2>7. QED
    BY <2>1, <2>5, <2>6
<1>13. QED
  BY <1>1, <1>4, <1>5, <1>11, <1>12

\* The navigation of every project is its directory in the order of the files, though
\* all pages of a source are sorted in one list, and each entry opens its own page.
THEOREM NavsAreDirectories == Spec => []NavIsDirectory
<1>1. SyncInvariant => FilesAscend
  BY DEF SyncInvariant, Ordered, InOrder, FilesAscend
<1>2. SyncInvariant => NavIsDirectory
  BY <1>1, InvariantPages DEF NavIsDirectory
<1>3. QED
  BY <1>2, SyncCorrect, PTL

\* A run that is refused, or still reads, has not touched the content.
THEOREM RefusalsHarmless == Spec => []RefusedChangesNothing
<1>1. Init => RefusedChangesNothing
  BY DEF Init, RefusedChangesNothing
<1>2. RefusedChangesNothing /\ [Next]_vars => RefusedChangesNothing'
  <2> SUFFICES ASSUME RefusedChangesNothing, [Next]_vars, pc' \in {"reading", "refused"}
               PROVE  (disk = before)'
    BY DEF RefusedChangesNothing
  <2> USE DEF RefusedChangesNothing, disk
  <2>1. CASE Start
    BY <2>1 DEF Start
  <2>2. CASE ReadSource \/ Refuse
    BY <2>2 DEF ReadSource, Refuse
  <2>3. CASE Output
    <3>1. pc' \notin {"reading", "refused"}
      BY <2>3 DEF Output, BeginOutput, RemoveFile, Cleared, AfterExamples, WriteFile, AllWritten,
                  WriteManifest
    <3>2. QED
      BY <3>1
  <2>4. CASE Kill
    BY <2>4 DEF Kill
  <2>5. CASE Rest \/ UNCHANGED vars
    BY <2>5 DEF Rest, vars
  <2>6. QED
    BY <2>1, <2>2, <2>3, <2>4, <2>5 DEF Next, Command
<1>3. QED
  BY <1>1, <1>2, PTL DEF Spec

-----------------------------------------------------------------------------
(* One file for each topic and each page *)

\* If a function keeps the elements of a finite set apart, it keeps their number.
LEMMA SameNumber ==
    ASSUME NEW f, IsFiniteSet(DOMAIN f), \A x, y \in DOMAIN f : f[x] = f[y] => x = y
    PROVE  /\ IsFiniteSet({f[x] : x \in DOMAIN f})
           /\ Cardinality({f[x] : x \in DOMAIN f}) = Cardinality(DOMAIN f)
<1> DEFINE values == {f[x] : x \in DOMAIN f}
           g == [x \in DOMAIN f |-> f[x]]
<1>1. g \in [DOMAIN f -> values]
  OBVIOUS
<1>2. \A y \in values : \E x \in DOMAIN f : g[x] = y
  OBVIOUS
<1>3. \A x, y \in DOMAIN f : g[x] = g[y] => x = y
  OBVIOUS
<1>4. g \in Bijection(DOMAIN f, values)
  BY <1>1, <1>2, <1>3 DEF Bijection, Injection, Surjection, IsInjective
<1>5. ExistsBijection(DOMAIN f, values)
  BY <1>4 DEF ExistsBijection
<1>6. QED
  BY <1>5, FS_Bijection

\* There are finitely many topics and pages.
LEMMA FiniteFound ==
    ASSUME NEW in \in Inputs, \A s \in 1..Len(in) : in[s].topics # Unreadable
    PROVE  IsFiniteSet(TopicsTo(in, Len(in))) /\ IsFiniteSet(PagesTo(in, Len(in)))
<1> DEFINE n == Len(in)
<1>1. n \in Nat /\ \A s \in 1..n : in[s] \in Sources
  BY SourceTypes
<1>2. \A m \in Nat : IsFiniteSet(1..m)
  BY FiniteNumbers
<1>3. \A x : IsFiniteSet({x})
  BY FS_Singleton
<1>4. IsFiniteSet(TopicsTo(in, n))
  <2> DEFINE f == [s \in 1..n |-> {s} \X DOMAIN in[s].topics]
  <2>1. ASSUME NEW s \in 1..n
        PROVE  IsFiniteSet(f[s])
    <3>1. Len(in[s].topics) \in Nat /\ DOMAIN in[s].topics = 1..Len(in[s].topics)
      BY <1>1, PartTypes
    <3>2. IsFiniteSet(DOMAIN in[s].topics)
      BY <1>2, <3>1
    <3>3. IsFiniteSet({s} \X DOMAIN in[s].topics)
      BY <1>3, <3>2, FS_Product
    <3>4. QED
      BY <3>3
  <2>2. DOMAIN f = 1..n
    OBVIOUS
  <2>3. TopicsTo(in, n) = UNION {f[s] : s \in DOMAIN f}
    BY DEF TopicsTo
  <2> HIDE DEF f
  <2>4. IsFiniteSet({f[s] : s \in DOMAIN f})
    BY <1>1, <1>2, <2>2, FiniteRange
  <2>5. \A T \in {f[s] : s \in DOMAIN f} : IsFiniteSet(T)
    BY <2>1, <2>2
  <2>6. QED
    BY <2>3, <2>4, <2>5, FS_UNION
<1>5. ASSUME NEW s \in 1..n
      PROVE  IsFiniteSet(PagesOf(in, s))
  <2> DEFINE f == [p \in DOMAIN in[s].projects |-> {<<s, p>>} \X Docs(in[s], p)]
  <2>1. ASSUME NEW p \in DOMAIN in[s].projects
        PROVE  IsFiniteSet(f[p])
    <3>1. IsFiniteSet(Docs(in[s], p))
      BY <1>1, DocsTypes
    <3>2. IsFiniteSet({<<s, p>>} \X Docs(in[s], p))
      BY <1>3, <3>1, FS_Product
    <3>3. QED
      BY <3>2
  <2>2. DOMAIN f = DOMAIN in[s].projects
    OBVIOUS
  <2>3. PagesOf(in, s) = UNION {f[p] : p \in DOMAIN f}
    BY DEF PagesOf
  <2> HIDE DEF f
  <2>4. IsFiniteSet(DOMAIN f)
    <3>1. Len(in[s].projects) \in Nat /\ DOMAIN in[s].projects = 1..Len(in[s].projects)
      BY <1>1, PartTypes
    <3>2. QED
      BY <1>2, <2>2, <3>1
  <2>5. IsFiniteSet({f[p] : p \in DOMAIN f})
    BY <2>4, FiniteRange
  <2>6. \A T \in {f[p] : p \in DOMAIN f} : IsFiniteSet(T)
    BY <2>1, <2>2
  <2>7. QED
    BY <2>3, <2>5, <2>6, FS_UNION
<1>6. IsFiniteSet(PagesTo(in, n))
  <2> DEFINE f == [s \in 1..n |-> PagesOf(in, s)]
  <2>1. \A s \in 1..n : IsFiniteSet(f[s])
    BY <1>5
  <2>2. DOMAIN f = 1..n
    OBVIOUS
  <2>3. PagesTo(in, n) = UNION {f[s] : s \in DOMAIN f}
    BY DEF PagesTo
  <2> HIDE DEF f
  <2>4. IsFiniteSet({f[s] : s \in DOMAIN f})
    BY <1>1, <1>2, <2>2, FiniteRange
  <2>5. \A T \in {f[s] : s \in DOMAIN f} : IsFiniteSet(T)
    BY <2>1, <2>2
  <2>6. QED
    BY <2>3, <2>4, <2>5, FS_UNION
<1>7. QED
  BY <1>4, <1>6

\* What was accepted is written to as many files as there are topics and pages.
LEMMA FilesCounted ==
    ASSUME NEW in \in Inputs, NEW v, Accepted(in, Len(in))
    PROVE  Cardinality(FilesTo(in, v, Len(in)))
             = Cardinality(TopicsTo(in, Len(in))) + Cardinality(PagesTo(in, Len(in)))
<1> DEFINE n == Len(in)
           f == [x \in TopicsTo(in, n) |-> TopicFile(in, v, x)]
           g == [x \in PagesTo(in, n) |-> PageFile(in, v, x)]
           examples == {f[x] : x \in DOMAIN f}
           docs == {g[x] : x \in DOMAIN g}
<1>1. IsFiniteSet(TopicsTo(in, n)) /\ IsFiniteSet(PagesTo(in, n))
  BY FiniteFound DEF Accepted
<1>2. DOMAIN f = TopicsTo(in, n) /\ DOMAIN g = PagesTo(in, n)
  OBVIOUS
<1>3. FilesTo(in, v, n) = examples \cup docs
  BY DEF FilesTo
<1>4. \A x \in DOMAIN f : f[x].path = TopicPath(in, x)
  BY DEF TopicFile
<1>5. \A x \in DOMAIN g : g[x].path = PagePath(in, x)
  BY DEF PageFile
<1> HIDE DEF f, g
<1>6. \A x, y \in DOMAIN f : f[x] = f[y] => x = y
  BY <1>2, <1>4 DEF Accepted, TopicsApart
<1>7. \A x, y \in DOMAIN g : g[x] = g[y] => x = y
  BY <1>2, <1>5 DEF Accepted, PagesApart
<1>8. IsFiniteSet(examples) /\ Cardinality(examples) = Cardinality(TopicsTo(in, n))
  BY <1>1, <1>2, <1>6, SameNumber
<1>9. IsFiniteSet(docs) /\ Cardinality(docs) = Cardinality(PagesTo(in, n))
  BY <1>1, <1>2, <1>7, SameNumber
<1>10. examples \cap docs = {}
  <2>1. ASSUME NEW x \in DOMAIN f, NEW y \in DOMAIN g
        PROVE  f[x] # g[y]
    BY <1>4, <1>5 DEF TopicPath, PagePath
  <2>2. QED
    BY <2>1
<1> HIDE DEF examples, docs
<1>11. /\ Cardinality(examples \cup docs)
            = Cardinality(examples) + Cardinality(docs) - Cardinality(examples \cap docs)
       /\ Cardinality(examples \cap docs) = 0
       /\ Cardinality(examples) \in Nat /\ Cardinality(docs) \in Nat
  BY <1>8, <1>9, <1>10, FS_Union, FS_EmptySet, FS_CardinalityType
<1>12. QED
  BY <1>3, <1>8, <1>9, <1>11

\* The tree that a run leaves holds one file for every topic and every page that was
\* found: no source overwrote what another one wrote.
THEOREM FilesAreCounted == Spec => []OneFileEach
<1>1. SyncInvariant => OneFileEach
  <2> SUFFICES ASSUME SyncInvariant, pc = "done"
               PROVE  Cardinality(tree) = Cardinality(TopicsFound) + Cardinality(PagesFound)
    BY DEF OneFileEach
  <2>1. PICK in, v : in \in Inputs /\ in = input /\ v = version
    BY DEF SyncInvariant, Typed
  <2>2. Accepted(in, Len(in)) /\ tree = FilesTo(in, v, Len(in))
    BY <2>1, DoneRun
  <2>3. TopicsFound = TopicsTo(in, Len(in)) /\ PagesFound = PagesTo(in, Len(in))
    <3>1. DOMAIN in = 1..Len(in)
      BY <2>1, SourceTypes
    <3>2. QED
      BY <2>1, <3>1 DEF TopicsFound, PagesFound, TopicsTo, PagesTo, PagesOf
  <2>4. Cardinality(FilesTo(in, v, Len(in)))
          = Cardinality(TopicsTo(in, Len(in))) + Cardinality(PagesTo(in, Len(in)))
    BY <2>1, <2>2, FilesCounted
  <2>5. QED
    BY <2>2, <2>3, <2>4
<1>2. QED
  BY <1>1, SyncCorrect, PTL

=============================================================================
