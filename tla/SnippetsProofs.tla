--------------------------- MODULE SnippetsProofs ---------------------------
(***************************************************************************)
(* Theorems about Snippets, for any topics and indentations and for files  *)
(* of any length.                                                          *)
(***************************************************************************)
EXTENDS Snippets, SequenceTheorems, WellFoundedInduction, TLAPS

-----------------------------------------------------------------------------
(* Induction.  The induction theorems of the library take an operator, which   *)
(* none of the provers can supply; a set of numbers does as well.              *)

LessNat == {p \in Nat \X Nat : p[1] < p[2]}

\* A set of natural numbers that is not empty has a least element.
LEMMA LeastNat ==
    ASSUME NEW S, S \subseteq Nat, S # {}
    PROVE  \E x \in S : \A y \in S : x <= y
<1>1. OpToRel(<, Nat) = LessNat
  BY DEF OpToRel, LessNat
<1>2. IsWellFoundedOn(LessNat, Nat)
  BY <1>1, NatLessThanWellFounded, Zenon
<1>3. PICK x \in S : \A y \in S : ~(<<y, x>> \in LessNat)
  BY <1>2, WFMin
<1>4. ASSUME NEW y \in S
      PROVE  x <= y
  <2>1. x \in Nat /\ y \in Nat
    OBVIOUS
  <2>2. ~(<<y, x>> \in LessNat)
    BY <1>3
  <2>3. <<y, x>> \in LessNat <=> y < x
    BY <2>1 DEF LessNat
  <2>4. QED
    BY <2>1, <2>2, <2>3
<1>5. QED
  BY <1>4

\* A set that holds 0 and, with a number below n, the next one, holds 0..n.
LEMMA InductionTo ==
    ASSUME NEW n \in Nat, NEW S, 0 \in S, \A i \in 0..(n - 1) : i \in S => i + 1 \in S
    PROVE  \A i \in 0..n : i \in S
<1> SUFFICES ASSUME (0..n) \ S # {}
             PROVE  FALSE
  OBVIOUS
<1>1. PICK x \in (0..n) \ S : \A y \in (0..n) \ S : x <= y
  <2>1. (0..n) \ S \subseteq Nat
    OBVIOUS
  <2>2. QED
    BY <2>1, LeastNat
<1>2. x \in 1..n /\ x - 1 \in 0..(n - 1) /\ (x - 1) + 1 = x
  BY <1>1
<1>3. x - 1 \notin S
  BY <1>1, <1>2
<1>4. x - 1 \in (0..n) \ S
  BY <1>2, <1>3
<1>5. x <= x - 1
  BY <1>1, <1>4
<1>6. QED
  BY <1>2, <1>5

\* Numbers that are not larger than n have a least and a largest one.
LEMMA MinMaxProperties ==
    ASSUME NEW n \in Nat, NEW S, S \subseteq 1..n, S # {}
    PROVE  /\ Min(S) \in S /\ Max(S) \in S
           /\ \A x \in S : Min(S) <= x /\ x <= Max(S)
<1>1. \E x \in S : \A y \in S : x <= y
  <2>1. S \subseteq Nat
    OBVIOUS
  <2>2. QED
    BY <2>1, LeastNat
<1>2. \E x \in S : \A y \in S : x >= y
  <2> DEFINE D == {n - x : x \in S}
  <2>1. D \subseteq Nat /\ D # {}
    <3>1. \A x \in S : n - x \in Nat
      OBVIOUS
    <3>2. QED
      BY <3>1
  <2>2. PICK d \in D : \A e \in D : d <= e
    BY <2>1, LeastNat
  <2>3. PICK x \in S : d = n - x
    BY <2>2
  <2>4. ASSUME NEW y \in S
        PROVE  x >= y
    <3>1. n - x <= n - y
      BY <2>2, <2>3
    <3>2. QED
      BY <3>1
  <2>5. QED
    BY <2>4
<1>3. Min(S) \in S /\ \A y \in S : Min(S) <= y
  BY <1>1 DEF Min
<1>4. Max(S) \in S /\ \A y \in S : Max(S) >= y
  BY <1>2 DEF Max
<1>5. QED
  BY <1>3, <1>4

-----------------------------------------------------------------------------
(* Prefixes *)

\* A prefix, element by element.
LEMMA PrefixElements ==
    ASSUME NEW T, NEW s \in Seq(T), NEW t \in Seq(T)
    PROVE  IsPrefix(s, t) <=> Len(s) <= Len(t) /\ \A i \in 1..Len(s) : s[i] = t[i]
<1> DEFINE l == Len(s)
<1>1. l \in Nat /\ Len(t) \in Nat
  BY LenProperties
<1>2. SubSeq(s, 1, l) = s
  BY SubSeqFull
<1> HIDE DEF l
<1>3. ASSUME l <= Len(t)
      PROVE  SubSeq(t, 1, l) = s <=> \A i \in 1..l : s[i] = t[i]
  <2>1. \A i \in 1..l : t[i] \in T
    BY <1>1, <1>3, ElementOfSeq
  <2>2. /\ SubSeq(t, 1, l) \in Seq(T) /\ Len(SubSeq(t, 1, l)) = l
        /\ \A i \in 1..l : SubSeq(t, 1, l)[i] = t[i]
    BY <1>1, <2>1
  <2>3. QED
    BY <1>1, <2>2, SeqEqual DEF l
<1>4. QED
  BY <1>1, <1>2, <1>3 DEF IsPrefix, l

\* A prefix of a prefix is a prefix.
LEMMA PrefixTransitive ==
    ASSUME NEW T, NEW s \in Seq(T), NEW t \in Seq(T), NEW u \in Seq(T),
           IsPrefix(s, t), IsPrefix(t, u)
    PROVE  IsPrefix(s, u)
<1>1. Len(s) \in Nat /\ Len(t) \in Nat /\ Len(u) \in Nat
  BY LenProperties
<1>2. Len(s) <= Len(t) /\ \A i \in 1..Len(s) : s[i] = t[i]
  BY PrefixElements
<1>3. Len(t) <= Len(u) /\ \A i \in 1..Len(t) : t[i] = u[i]
  BY PrefixElements
<1>4. QED
  BY <1>1, <1>2, <1>3, PrefixElements

\* The prefixes of a sequence are the sequences that are its prefixes.
LEMMA PrefixesAre ==
    ASSUME NEW T, NEW t \in Seq(T)
    PROVE  Prefixes(t) = {s \in Seq(T) : IsPrefix(s, t)}
<1>1. Len(t) \in Nat
  BY LenProperties
<1>2. ASSUME NEW l \in 0..Len(t)
      PROVE  SubSeq(t, 1, l) \in Seq(T) /\ IsPrefix(SubSeq(t, 1, l), t)
  <2>1. \A i \in 1..l : t[i] \in T
    BY <1>1, ElementOfSeq
  <2>2. PICK s : s = SubSeq(t, 1, l)
    OBVIOUS
  <2>3. s \in Seq(T) /\ Len(s) = l /\ \A i \in 1..l : s[i] = t[i]
    BY <1>1, <2>1, <2>2
  <2>4. IsPrefix(s, t)
    BY <1>1, <2>3, PrefixElements
  <2>5. QED
    BY <2>2, <2>3, <2>4
<1>3. ASSUME NEW s \in Seq(T), IsPrefix(s, t)
      PROVE  s \in Prefixes(t)
  <2>1. Len(s) \in 0..Len(t) /\ SubSeq(s, 1, Len(s)) = SubSeq(t, 1, Len(s))
    BY <1>1, <1>3, LenProperties DEF IsPrefix
  <2>2. SubSeq(s, 1, Len(s)) = s
    BY SubSeqFull
  <2>3. QED
    BY <2>1, <2>2 DEF Prefixes
<1>4. QED
  BY <1>2, <1>3 DEF Prefixes

\* commonPrefix returns a prefix of both, which every other one is a prefix of.
LEMMA CommonPrefixProperties ==
    ASSUME NEW T, NEW a \in Seq(T), NEW b \in Seq(T)
    PROVE  /\ CommonPrefix(a, b) \in Seq(T)
           /\ IsPrefix(CommonPrefix(a, b), a) /\ IsPrefix(CommonPrefix(a, b), b)
           /\ \A d \in Seq(T) :
                 IsPrefix(d, a) /\ IsPrefix(d, b) => IsPrefix(d, CommonPrefix(a, b))
<1> DEFINE Both == {d \in Seq(T) : IsPrefix(d, a) /\ IsPrefix(d, b)}
           c == CommonPrefix(a, b)
<1>1. CommonPrefixes({a, b}) = Both
  <2>1. Prefixes(a) = {d \in Seq(T) : IsPrefix(d, a)}
    BY PrefixesAre
  <2>2. Prefixes(b) = {d \in Seq(T) : IsPrefix(d, b)}
    BY PrefixesAre
  <2>3. UNION {Prefixes(s) : s \in {a, b}} = Prefixes(a) \cup Prefixes(b)
    OBVIOUS
  <2>4. QED
    BY <2>1, <2>2, <2>3 DEF CommonPrefixes
<1>2. <<>> \in Both
  <2>1. <<>> \in Seq(T) /\ Len(<<>>) = 0 /\ Len(a) \in Nat /\ Len(b) \in Nat
    BY EmptySeq, LenProperties
  <2>2. PICK e : e = <<>>
    OBVIOUS
  <2>3. e \in Seq(T) /\ Len(e) = 0
    BY <2>1, <2>2
  <2>4. IsPrefix(e, a) /\ IsPrefix(e, b)
    <3>1. /\ Len(e) <= Len(a) /\ Len(e) <= Len(b)
          /\ \A i \in 1..Len(e) : e[i] = a[i] /\ e[i] = b[i]
      BY <2>1, <2>3
    <3>2. IsPrefix(e, a)
      BY <2>3, <3>1, PrefixElements
    <3>3. IsPrefix(e, b)
      BY <2>3, <3>1, PrefixElements
    <3>4. QED
      BY <3>2, <3>3
  <2>5. QED
    BY <2>2, <2>3, <2>4
<1>3. \A d \in Both : Len(d) \in Nat /\ Len(d) <= Len(a) /\ Len(a) \in Nat
  BY PrefixElements, LenProperties
<1>4. \E d \in Both : \A e \in Both : Len(e) <= Len(d)
  <2> DEFINE L == {Len(a) - Len(d) : d \in Both}
  <2>1. L \subseteq Nat /\ L # {}
    <3>1. \A d \in Both : Len(a) - Len(d) \in Nat
      BY <1>3
    <3>2. QED
      BY <1>2, <3>1
  <2>2. PICK l \in L : \A k \in L : l <= k
    BY <2>1, LeastNat
  <2>3. PICK d \in Both : l = Len(a) - Len(d)
    BY <2>2
  <2>4. ASSUME NEW e \in Both
        PROVE  Len(e) <= Len(d)
    <3>1. Len(a) - Len(d) <= Len(a) - Len(e)
      BY <2>2, <2>3
    <3>2. QED
      BY <1>3, <3>1
  <2>5. QED
    BY <2>4
<1>5. c \in Both /\ \A e \in Both : Len(e) <= Len(c)
  BY <1>1, <1>4 DEF CommonPrefix, LongestCommonPrefix
<1> HIDE DEF c
<1>6. ASSUME NEW d \in Seq(T), IsPrefix(d, a), IsPrefix(d, b)
      PROVE  IsPrefix(d, c)
  <2>1. Len(d) <= Len(c) /\ Len(d) \in Nat /\ Len(c) \in Nat
    BY <1>3, <1>5, <1>6
  <2>2. (\A i \in 1..Len(d) : d[i] = a[i]) /\ (\A i \in 1..Len(c) : c[i] = a[i])
    BY <1>5, <1>6, PrefixElements
  <2>3. QED
    BY <1>5, <2>1, <2>2, PrefixElements
<1>7. QED
  BY <1>5, <1>6 DEF c

\* The loop of commonPrefix computes a value for each line.
IndentStep(lines, g, i) ==
    IF i = 1 THEN file[lines[1]].indent
    ELSE IF file[lines[i]].verb = "blank" THEN g[i - 1]
    ELSE CommonPrefix(g[i - 1], file[lines[i]].indent)

LEMMA IndentLoop ==
    ASSUME NEW lines, NEW n \in Nat, Len(lines) = n
    PROVE  \E g : g = [i \in 1..n |-> IndentStep(lines, g, i)] /\ IndentOf(lines) = g[n]
<1> DEFINE Upto(k) == \E g : g = [i \in 1..k |-> IndentStep(lines, g, i)]
           S == {k \in 0..n : Upto(k)}
<1>1. Upto(0)
  <2>1. PICK g : g = [i \in 1..0 |-> 0]
    OBVIOUS
  <2>2. g = [i \in 1..0 |-> IndentStep(lines, g, i)]
    BY <2>1
  <2>3. QED
    BY <2>2
<1>2. ASSUME NEW k \in 0..(n - 1), Upto(k)
      PROVE  Upto(k + 1)
  <2>1. PICK g : g = [i \in 1..k |-> IndentStep(lines, g, i)]
    BY <1>2
  <2>2. PICK h : h = [i \in 1..(k + 1) |-> IndentStep(lines, g, i)]
    OBVIOUS
  <2>3. \A i \in 1..k : h[i] = g[i]
    BY <2>1, <2>2
  <2>4. \A i \in 1..(k + 1) : IndentStep(lines, g, i) = IndentStep(lines, h, i)
    BY <2>3 DEF IndentStep
  <2>5. h = [i \in 1..(k + 1) |-> IndentStep(lines, h, i)]
    BY <2>2, <2>4
  <2>6. QED
    BY <2>5
<1> HIDE DEF Upto
<1>3. Upto(n)
  <2>1. 0 \in S /\ \A k \in 0..(n - 1) : k \in S => k + 1 \in S
    BY <1>1, <1>2
  <2> HIDE DEF S
  <2>2. \A k \in 0..n : k \in S
    BY <2>1, InductionTo
  <2>3. QED
    BY <2>2 DEF S
<1> DEFINE f == CHOOSE g : g = [i \in 1..n |-> IndentStep(lines, g, i)]
<1>4. f = [i \in 1..n |-> IndentStep(lines, f, i)]
  BY <1>3 DEF Upto
<1>5. IndentOf(lines) = f[n]
  BY DEF IndentOf, IndentStep
<1>6. QED
  BY <1>4, <1>5

\* Its result is a prefix of the indentation of every line that is not blank, and
\* every other such prefix is a prefix of it.
Indented(lines, p, upto) ==
    \A i \in 1..upto : file[lines[i]].verb # "blank" => IsPrefix(p, file[lines[i]].indent)

LEMMA IndentProperties ==
    ASSUME NEW T, NEW lines, NEW n \in Nat \ {0}, Len(lines) = n,
           \A i \in 1..n : file[lines[i]].indent \in Seq(T),
           file[lines[1]].verb # "blank"
    PROVE  /\ IndentOf(lines) \in Seq(T)
           /\ Indented(lines, IndentOf(lines), n)
           /\ \A d \in Seq(T) : Indented(lines, d, n) => IsPrefix(d, IndentOf(lines))
<1>1. PICK g : g = [i \in 1..n |-> IndentStep(lines, g, i)] /\ IndentOf(lines) = g[n]
  BY IndentLoop
<1> DEFINE Good(k) == /\ g[k] \in Seq(T)
                      /\ Indented(lines, g[k], k)
                      /\ \A d \in Seq(T) : Indented(lines, d, k) => IsPrefix(d, g[k])
           S == {k \in 0..(n - 1) : Good(k + 1)}
<1>2. \A p \in Seq(T) : IsPrefix(p, p)
  <2>1. \A p \in Seq(T) : Len(p) \in Nat
    BY LenProperties
  <2>2. QED
    BY <2>1 DEF IsPrefix
<1>3. Good(1)
  <2>1. g[1] = file[lines[1]].indent
    BY <1>1 DEF IndentStep
  <2>2. QED
    BY <1>2, <2>1 DEF Indented
<1>4. ASSUME NEW k \in 1..(n - 1), Good(k)
      PROVE  Good(k + 1)
  <2> DEFINE ws == file[lines[k + 1]].indent
  <2>1. k + 1 \in 1..n /\ k + 1 # 1 /\ (k + 1) - 1 = k /\ ws \in Seq(T)
    OBVIOUS
  <2>2. \A p : Indented(lines, p, k + 1) <=>
           Indented(lines, p, k) /\ (file[lines[k + 1]].verb # "blank" => IsPrefix(p, ws))
    <3>1. 1..(k + 1) = (1..k) \cup {k + 1}
      OBVIOUS
    <3>2. QED
      BY <3>1 DEF Indented
  <2>3. g[k + 1] = IF file[lines[k + 1]].verb = "blank" THEN g[k] ELSE CommonPrefix(g[k], ws)
    BY <1>1, <2>1 DEF IndentStep
  <2> HIDE DEF ws
  <2>4. CASE file[lines[k + 1]].verb = "blank"
    BY <1>4, <2>2, <2>3, <2>4
  <2>5. CASE file[lines[k + 1]].verb # "blank"
    <3>1. PICK c : c = CommonPrefix(g[k], ws)
      OBVIOUS
    <3>2. /\ c \in Seq(T) /\ IsPrefix(c, g[k]) /\ IsPrefix(c, ws)
          /\ \A d \in Seq(T) : IsPrefix(d, g[k]) /\ IsPrefix(d, ws) => IsPrefix(d, c)
      BY <1>4, <2>1, <3>1, CommonPrefixProperties
    <3>3. g[k + 1] = c
      BY <2>3, <2>5, <3>1
    <3>4. Indented(lines, c, k)
      <4>1. ASSUME NEW i \in 1..k, file[lines[i]].verb # "blank"
            PROVE  IsPrefix(c, file[lines[i]].indent)
        <5>1. IsPrefix(g[k], file[lines[i]].indent)
          BY <1>4, <4>1 DEF Indented
        <5>2. i \in 1..n
          OBVIOUS
        <5>3. QED
          BY <1>4, <3>2, <5>1, <5>2, PrefixTransitive
      <4>2. QED
        BY <4>1 DEF Indented
    <3>5. QED
      BY <1>4, <2>2, <2>5, <3>2, <3>3, <3>4
  <2>6. QED
    BY <2>4, <2>5
<1> HIDE DEF Good
<1>5. Good(n)
  <2>1. 0 \in S
    BY <1>3
  <2>2. ASSUME NEW k \in 0..((n - 1) - 1), k \in S
        PROVE  k + 1 \in S
    BY <1>4, <2>2
  <2> HIDE DEF S
  <2>3. n - 1 \in Nat
    OBVIOUS
  <2>4. \A k \in 0..(n - 1) : k \in S
    BY <2>1, <2>2, <2>3, InductionTo
  <2>5. n - 1 \in S
    BY <2>3, <2>4
  <2>6. QED
    BY <2>5 DEF S
<1>6. QED
  BY <1>1, <1>5 DEF Good

-----------------------------------------------------------------------------
(* dedent *)

\* A prefix and what follows it are the sequence again.
LEMMA CutPrefix ==
    ASSUME NEW T, NEW s \in Seq(T), NEW t \in Seq(T), IsPrefix(s, t)
    PROVE  /\ SubSeq(t, Len(s) + 1, Len(t)) \in Seq(T)
           /\ s \o SubSeq(t, Len(s) + 1, Len(t)) = t
<1>1. Len(s) \in Nat /\ Len(t) \in Nat /\ Len(s) <= Len(t)
  BY LenProperties, PrefixElements
<1>2. \A i \in 1..Len(t) : t[i] \in T
  BY ElementOfSeq
<1>3. \A i \in 1..Len(s) : s[i] = t[i]
  BY PrefixElements
<1>4. PICK r : r = SubSeq(t, Len(s) + 1, Len(t))
  OBVIOUS
<1>5. /\ r \in Seq(T) /\ Len(r) = Len(t) - Len(s)
      /\ \A i \in 1..(Len(t) - Len(s)) : r[i] = t[Len(s) + i]
  BY <1>1, <1>2, <1>4
<1>6. PICK u : u = s \o r
  OBVIOUS
<1>7. /\ u \in Seq(T) /\ Len(u) = Len(s) + Len(r)
      /\ \A i \in 1..(Len(s) + Len(r)) : u[i] = IF i <= Len(s) THEN s[i] ELSE r[i - Len(s)]
  BY <1>5, <1>6, ConcatProperties
<1>8. \A i \in 1..Len(t) : u[i] = t[i]
  <2>1. ASSUME NEW i \in 1..Len(t), i > Len(s)
        PROVE  u[i] = t[i]
    <3>1. i - Len(s) \in 1..(Len(t) - Len(s)) /\ Len(s) + (i - Len(s)) = i
      BY <1>1, <2>1
    <3>2. QED
      BY <1>1, <1>5, <1>7, <2>1, <3>1
  <2>2. QED
    BY <1>1, <1>3, <1>5, <1>7, <2>1
<1>9. u = t
  BY <1>1, <1>5, <1>7, <1>8, SeqEqual
<1>10. QED
  BY <1>4, <1>5, <1>6, <1>9

\* Putting the same sequence before both keeps a prefix a prefix.
LEMMA PrefixAfter ==
    ASSUME NEW T, NEW w \in Seq(T), NEW s \in Seq(T), NEW t \in Seq(T), IsPrefix(s, t)
    PROVE  w \o s \in Seq(T) /\ Len(w \o s) = Len(w) + Len(s) /\ IsPrefix(w \o s, w \o t)
<1>1. Len(w) \in Nat /\ Len(s) \in Nat /\ Len(t) \in Nat
  BY LenProperties
<1>2. Len(s) <= Len(t) /\ \A i \in 1..Len(s) : s[i] = t[i]
  BY PrefixElements
<1>3. PICK a, b : a = w \o s /\ b = w \o t
  OBVIOUS
<1>4. /\ a \in Seq(T) /\ Len(a) = Len(w) + Len(s)
      /\ \A i \in 1..(Len(w) + Len(s)) : a[i] = IF i <= Len(w) THEN w[i] ELSE s[i - Len(w)]
  BY <1>3, ConcatProperties
<1>5. /\ b \in Seq(T) /\ Len(b) = Len(w) + Len(t)
      /\ \A i \in 1..(Len(w) + Len(t)) : b[i] = IF i <= Len(w) THEN w[i] ELSE t[i - Len(w)]
  BY <1>3, ConcatProperties
<1>6. Len(a) <= Len(b) /\ \A i \in 1..Len(a) : a[i] = b[i]
  <2>1. Len(a) <= Len(b)
    BY <1>1, <1>2, <1>4, <1>5
  <2>2. ASSUME NEW i \in 1..Len(a)
        PROVE  a[i] = b[i]
    <3>1. i \in 1..(Len(w) + Len(s)) /\ i \in 1..(Len(w) + Len(t))
      BY <1>1, <1>2, <1>4
    <3>2. CASE i <= Len(w)
      BY <1>4, <1>5, <3>1, <3>2
    <3>3. CASE ~(i <= Len(w))
      <4>1. i - Len(w) \in 1..Len(s)
        BY <1>1, <3>1, <3>3
      <4>2. QED
        BY <1>2, <1>4, <1>5, <3>1, <3>3, <4>1
    <3>4. QED
      BY <3>2, <3>3
  <2>3. QED
    BY <2>1, <2>2
<1>7. IsPrefix(a, b)
  BY <1>4, <1>5, <1>6, PrefixElements
<1>8. QED
  BY <1>3, <1>4, <1>7

\* The empty sequence is a prefix of every one.
LEMMA EmptyPrefix ==
    ASSUME NEW T, NEW t \in Seq(T)
    PROVE  <<>> \in Seq(T) /\ IsPrefix(<<>>, t)
<1>1. PICK e : e = <<>>
  OBVIOUS
<1>2. e \in Seq(T) /\ Len(e) = 0 /\ Len(t) \in Nat
  BY <1>1, EmptySeq, LenProperties
<1>3. Len(e) <= Len(t) /\ \A i \in 1..Len(e) : e[i] = t[i]
  BY <1>2
<1>4. QED
  BY <1>1, <1>2, <1>3, PrefixElements

\* The prefixes common to a set of sequences.
LEMMA CommonPrefixesAre ==
    ASSUME NEW T, NEW S, S \subseteq Seq(T), S # {}
    PROVE  CommonPrefixes(S) = {d \in Seq(T) : \A t \in S : IsPrefix(d, t)}
<1>1. \A t \in S : Prefixes(t) = {d \in Seq(T) : IsPrefix(d, t)}
  BY PrefixesAre
<1>2. UNION {Prefixes(t) : t \in S} = {d \in Seq(T) : \E t \in S : IsPrefix(d, t)}
  BY <1>1
<1>3. QED
  BY <1>2 DEF CommonPrefixes

Whitespace == {"space", "tab"}

\* What dedent makes of the lines of a region, as DedentFaithful says it.
Dedented(kept, all, f) ==
    LET code == {i \in DOMAIN kept : f[kept[i].line].verb = "code"} IN
    /\ \A i \in DOMAIN all : f[all[i]].verb = "code" => \E k \in code : kept[k].line = all[i]
    /\ kept # <<>> => {1, Len(kept)} \subseteq code
    /\ \E m \in 0..Len(all) : \A k \in DOMAIN kept :
          m + k \in DOMAIN all /\ kept[k].line = all[m + k]
    /\ code # {} => \E k \in code : \E cut \in Prefixes(f[kept[k].line].indent) :
          \A i \in code : f[kept[i].line].indent = cut \o kept[i].indent
    /\ code # {} => CommonPrefixes({kept[i].indent : i \in code}) = {<<>>}

After(w, s) == SubSeq(s, Len(w) + 1, Len(s))

\* w is the whole of what the sequences ind have in common.
Shared(T, code, ind, w) ==
    /\ code # {}
    /\ w \in Seq(T) /\ \A i \in code : ind[i] \in Seq(T)
    /\ \A i \in code : IsPrefix(w, ind[i])
    /\ \A d \in Seq(T) : (\A i \in code : IsPrefix(d, ind[i])) => IsPrefix(d, w)

\* Cut off, it leaves sequences that have nothing in common.
LEMMA CutProperties ==
    ASSUME NEW T, NEW code, NEW ind, NEW w, Shared(T, code, ind, w)
    PROVE  /\ \A i \in code : ind[i] = w \o After(w, ind[i]) /\ w \in Prefixes(ind[i])
           /\ CommonPrefixes({After(w, ind[i]) : i \in code}) = {<<>>}
<1> USE DEF Shared
<1> DEFINE left == [i \in code |-> After(w, ind[i])]
<1> SUFFICES /\ \A i \in code : ind[i] = w \o left[i] /\ w \in Prefixes(ind[i])
             /\ CommonPrefixes({left[i] : i \in code}) = {<<>>}
  OBVIOUS
<1>1. ASSUME NEW i \in code
      PROVE  left[i] \in Seq(T) /\ ind[i] = w \o left[i]
  <2>1. PICK t \in Seq(T) : t = ind[i]
    OBVIOUS
  <2>2. w \in Seq(T) /\ IsPrefix(w, t) /\ left[i] = SubSeq(t, Len(w) + 1, Len(t))
    BY <2>1 DEF After
  <2>3. /\ SubSeq(t, Len(w) + 1, Len(t)) \in Seq(T)
        /\ w \o SubSeq(t, Len(w) + 1, Len(t)) = t
    BY <2>2, CutPrefix
  <2>4. QED
    BY <2>1, <2>2, <2>3
<1>2. \A i \in code : w \in Prefixes(ind[i])
  BY PrefixesAre
<1> DEFINE S == {left[i] : i \in code}
<1>3. S \subseteq Seq(T) /\ S # {}
  BY <1>1
<1>4. CommonPrefixes(S) = {d \in Seq(T) : \A t \in S : IsPrefix(d, t)}
  BY <1>3, CommonPrefixesAre
<1>5. <<>> \in CommonPrefixes(S)
  BY <1>3, <1>4, EmptyPrefix
<1>6. ASSUME NEW d \in Seq(T), \A t \in S : IsPrefix(d, t)
      PROVE  d = <<>>
  <2>1. PICK e : e = w \o d
    OBVIOUS
  <2>2. ASSUME NEW i \in code
        PROVE  e \in Seq(T) /\ Len(e) = Len(w) + Len(d) /\ IsPrefix(e, ind[i])
    <3>1. left[i] \in Seq(T) /\ ind[i] = w \o left[i]
      BY <1>1
    <3>2. PICK r \in Seq(T) : r = left[i]
      BY <3>1
    <3>3. IsPrefix(d, r)
      BY <1>6, <3>2
    <3>4. w \o d \in Seq(T) /\ Len(w \o d) = Len(w) + Len(d) /\ IsPrefix(w \o d, w \o r)
      BY <3>3, PrefixAfter
    <3>5. QED
      BY <2>1, <3>1, <3>2, <3>4
  <2>3. e \in Seq(T) /\ Len(e) = Len(w) + Len(d) /\ IsPrefix(e, w)
    BY <2>2
  <2>4. Len(e) <= Len(w)
    BY <2>3, PrefixElements
  <2>5. Len(d) \in Nat /\ Len(w) \in Nat
    BY LenProperties
  <2>6. Len(d) = 0
    BY <2>3, <2>4, <2>5
  <2>7. QED
    BY <2>6, EmptySeq
<1>7. CommonPrefixes(S) = {<<>>}
  BY <1>4, <1>5, <1>6
<1>8. QED
  BY <1>1, <1>2, <1>7

\* dedent does what its comment says, for lines that are content.
LEMMA DedentProperties ==
    ASSUME file \in Seq(Line), NEW all \in Seq(Nat),
           \A i \in DOMAIN all : all[i] \in 1..Len(file) /\ Content(file[all[i]])
    PROVE  Dedented(Dedent(all), all, file)
<1> DEFINE first == {i \in DOMAIN all : file[all[i]].verb = "code"}
<1>1. DOMAIN all = 1..Len(all) /\ Len(all) \in Nat
  BY LenProperties
<1>2. \A p \in 1..Len(file) : Content(file[p]) => file[p].indent \in Seq(Whitespace)
  <2>1. \A p \in 1..Len(file) : file[p] \in Line
    BY ElementOfSeq
  <2>2. \A line \in Line : Content(line) => line.indent \in Seq(Whitespace)
    BY SnippetsAssumption, EmptySeq DEF Line, Content, Whitespace
  <2>3. QED
    BY <2>1, <2>2
<1>3. CASE first = {}
  <2>1. Dedent(all) = <<>>
    BY <1>3 DEF Dedent, Trimmed
  <2>2. PICK e : e = <<>>
    OBVIOUS
  <2>3. DOMAIN e = {}
    BY <2>2
  <2>4. Dedented(e, all, file)
    BY <1>1, <1>3, <2>2, <2>3 DEF Dedented
  <2>5. QED
    BY <2>1, <2>2, <2>4
<1>4. CASE first # {}
  <2>1. PICK lo \in first, hi \in first :
           /\ lo = Min(first) /\ hi = Max(first)
           /\ \A i \in first : lo <= i /\ i <= hi
    BY <1>1, <1>4, MinMaxProperties
  <2>2. PICK t : t = SubSeq(all, lo, hi)
    OBVIOUS
  <2>3. Trimmed(all) = t
    BY <1>4, <2>1, <2>2 DEF Trimmed
  <2>4. PICK n : n = hi - lo + 1
    OBVIOUS
  <2>5. /\ n \in Nat \ {0} /\ lo \in 1..Len(all) /\ hi \in 1..Len(all) /\ lo <= hi
        /\ hi = lo + n - 1
    <3>1. lo \in 1..Len(all) /\ hi \in 1..Len(all) /\ lo <= hi
      BY <1>1, <2>1
    <3>2. lo \in Int /\ hi \in Int
      BY <1>1, <3>1
    <3>3. QED
      BY <2>4, <3>1, <3>2
  <2>6. /\ t \in Seq(Nat) /\ Len(t) = n /\ DOMAIN t = 1..n
        /\ \A i \in 1..n : t[i] = all[lo + i - 1] /\ lo + i - 1 \in DOMAIN all
    <3>1. \A i \in lo..hi : all[i] \in Nat
      BY <1>1, <2>5, ElementOfSeq
    <3>2. t \in Seq(Nat) /\ Len(t) = n /\ \A i \in 1..n : t[i] = all[lo + i - 1]
      <4>1. lo \in Int /\ hi \in Int
        BY <1>1, <2>5
      <4>2. /\ t \in Seq(Nat)
            /\ Len(t) = IF lo <= hi THEN hi - lo + 1 ELSE 0
            /\ \A i \in 1..(hi - lo + 1) : t[i] = all[lo + i - 1]
        BY <2>2, <3>1, <4>1, SubSeqProperties
      <4>3. QED
        BY <2>4, <2>5, <4>2
    <3>3. \A i \in 1..n : lo + i - 1 \in DOMAIN all
      BY <1>1, <2>5
    <3>4. QED
      BY <3>2, <3>3, LenProperties
  <2>7. PICK w : w = IndentOf(t)
    OBVIOUS
  <2> DEFINE Cut(p) == IF file[p].verb = "blank" THEN <<>>
                       ELSE SubSeq(file[p].indent, Len(w) + 1, Len(file[p].indent))
  <2>8. PICK kept : kept = [i \in 1..n |-> [line |-> t[i], indent |-> Cut(t[i])]]
    OBVIOUS
  <2>9. Dedent(all) = kept
    <3>1. t # <<>>
      BY <2>5, <2>6, EmptySeq
    <3>2. QED
      BY <2>3, <2>6, <2>7, <2>8, <3>1 DEF Dedent
  <2>10. DOMAIN kept = 1..n /\ \A i \in 1..n : kept[i].line = t[i] /\ kept[i].indent = Cut(t[i])
    BY <2>8
  <2>11. kept # <<>> /\ Len(kept) = n
    <3> DEFINE K == {kept[i] : i \in 1..n}
    <3>1. kept \in [1..n -> K]
      BY <2>8
    <3> HIDE DEF K
    <3>2. kept \in Seq(K)
      <4>1. n \in Nat
        BY <2>5
      <4>2. QED
        BY <3>1, <4>1, SeqDef
    <3>3. DOMAIN kept = 1..Len(kept) /\ Len(kept) \in Nat
      BY <3>2, LenProperties
    <3>4. Len(kept) = n
      BY <2>5, <2>10, <3>3
    <3>5. QED
      BY <2>5, <3>4, EmptySeq
  <2> DEFINE code == {i \in DOMAIN kept : file[kept[i].line].verb = "code"}
  <2>12. 1 \in code /\ n \in code
    <3>1. t[1] = all[lo] /\ t[n] = all[hi]
      BY <2>5, <2>6
    <3>2. file[all[lo]].verb = "code" /\ file[all[hi]].verb = "code"
      BY <2>1
    <3>3. QED
      BY <2>5, <2>10, <3>1, <3>2
  <2>13. ASSUME NEW i \in DOMAIN all, file[all[i]].verb = "code"
         PROVE  \E k \in code : kept[k].line = all[i]
    <3>1. i \in first
      BY <2>13
    <3>2. i - lo + 1 \in 1..n /\ lo + (i - lo + 1) - 1 = i
      <4>1. i \in Int /\ lo \in Int /\ hi \in Int /\ lo <= i /\ i <= hi
        <5>1. i \in 1..Len(all) /\ lo \in 1..Len(all) /\ hi \in 1..Len(all)
          BY <1>1, <2>5
        <5>2. lo <= i /\ i <= hi
          BY <2>1, <3>1
        <5>3. QED
          BY <1>1, <5>1, <5>2
      <4>2. QED
        BY <2>4, <4>1
    <3>3. t[i - lo + 1] = all[i]
      BY <2>6, <3>2
    <3>4. QED
      BY <2>10, <2>13, <3>2, <3>3
  <2>14. \E m \in 0..Len(all) : \A k \in DOMAIN kept :
            m + k \in DOMAIN all /\ kept[k].line = all[m + k]
    <3>1. lo - 1 \in 0..Len(all)
      BY <1>1, <2>5
    <3>2. \A k \in 1..n : (lo - 1) + k = lo + k - 1
      BY <2>5
    <3>3. \A k \in DOMAIN kept : (lo - 1) + k \in DOMAIN all /\ kept[k].line = all[(lo - 1) + k]
      BY <2>6, <2>10, <3>2
    <3>4. QED
      BY <3>1, <3>3
  <2>15. PICK ind : ind = [i \in code |-> file[t[i]].indent]
    OBVIOUS
  <2>16. \A i \in 1..n : t[i] \in 1..Len(file) /\ Content(file[t[i]])
    BY <2>6
  <2>17. \A i \in 1..n : file[t[i]].indent \in Seq(Whitespace)
    BY <1>2, <2>16
  <2>18. \A i \in code : i \in 1..n /\ file[t[i]].verb = "code"
    BY <2>10
  <2>19. \A i \in 1..n : file[t[i]].verb # "blank" <=> i \in code
    BY <2>10, <2>16 DEF Content
  <2> HIDE DEF code, first
  <2>20. ind \in [code -> Seq(Whitespace)]
    BY <2>15, <2>17, <2>18
  <2>21. /\ w \in Seq(Whitespace) /\ Indented(t, w, n)
         /\ \A d \in Seq(Whitespace) : Indented(t, d, n) => IsPrefix(d, w)
    <3>1. Len(t) = n /\ n \in Nat \ {0} /\ file[t[1]].verb # "blank"
      BY <2>5, <2>6, <2>12, <2>19
    <3>2. QED
      BY <2>7, <2>17, <3>1, IndentProperties
  <2>22. \A d : Indented(t, d, n) <=> \A i \in code : IsPrefix(d, ind[i])
    BY <2>15, <2>18, <2>19 DEF Indented
  <2>23. /\ \A i \in code : ind[i] = w \o After(w, ind[i]) /\ w \in Prefixes(ind[i])
         /\ CommonPrefixes({After(w, ind[i]) : i \in code}) = {<<>>}
    <3>1. Shared(Whitespace, code, ind, w)
      BY <2>12, <2>20, <2>21, <2>22 DEF Shared
    <3>2. QED
      BY <3>1, CutProperties
  <2>24. ASSUME NEW i \in code
         PROVE  ind[i] = file[kept[i].line].indent /\ kept[i].indent = After(w, ind[i])
    BY <2>10, <2>15, <2>18 DEF After
  <2>25. \E k \in code : \E cut \in Prefixes(file[kept[k].line].indent) :
            \A i \in code : file[kept[i].line].indent = cut \o kept[i].indent
    <3>1. w \in Prefixes(file[kept[1].line].indent)
      BY <2>12, <2>23, <2>24
    <3>2. \A i \in code : file[kept[i].line].indent = w \o kept[i].indent
      BY <2>23, <2>24
    <3>3. QED
      BY <2>12, <3>1, <3>2
  <2>26. CommonPrefixes({kept[i].indent : i \in code}) = {<<>>}
    <3>1. {After(w, ind[i]) : i \in code} = {kept[i].indent : i \in code}
      BY <2>24
    <3>2. QED
      BY <2>23, <3>1
  <2>27. Dedented(kept, all, file)
    BY <2>11, <2>12, <2>13, <2>14, <2>25, <2>26 DEF Dedented, code
  <2>28. QED
    BY <2>9, <2>27
<1>5. QED
  BY <1>3, <1>4

-----------------------------------------------------------------------------
(* Sequences and lines *)

\* RemoveAt closes the gap it makes.
LEMMA RemoveAtProperties ==
    ASSUME NEW S, NEW s \in Seq(S), NEW i \in 1..Len(s)
    PROVE  /\ RemoveAt(s, i) \in Seq(S)
           /\ Len(RemoveAt(s, i)) = Len(s) - 1
           /\ \A j \in 1..(Len(s) - 1) :
                 RemoveAt(s, i)[j] = IF j < i THEN s[j] ELSE s[j + 1]
<1> DEFINE a == SubSeq(s, 1, i - 1)
           b == SubSeq(s, i + 1, Len(s))
<1>1. Len(s) \in Nat /\ i \in Int /\ i - 1 \in Int /\ i + 1 \in Int
  BY LenProperties
<1>2. \A k \in 1..Len(s) : s[k] \in S
  BY ElementOfSeq
<1>3. a \in Seq(S) /\ Len(a) = i - 1 /\ \A k \in 1..(i - 1) : a[k] = s[k]
  BY <1>1, <1>2, SubSeqProperties
<1>4. b \in Seq(S) /\ Len(b) = Len(s) - i /\ \A k \in 1..(Len(s) - i) : b[k] = s[i + k]
  <2>1. \A k \in (i + 1)..Len(s) : s[k] \in S
    BY <1>1, <1>2
  <2>2. /\ b \in Seq(S)
        /\ Len(b) = IF i + 1 <= Len(s) THEN Len(s) - (i + 1) + 1 ELSE 0
        /\ \A k \in 1..(Len(s) - (i + 1) + 1) : b[k] = s[i + 1 + k - 1]
    BY <1>1, <2>1, SubSeqProperties
  <2>3. \A k \in 1..(Len(s) - i) : i + 1 + k - 1 = i + k
    BY <1>1
  <2>4. Len(s) - (i + 1) + 1 = Len(s) - i
    BY <1>1
  <2> HIDE DEF b
  <2>5. Len(b) = Len(s) - i
    <3>1. CASE i + 1 <= Len(s)
      BY <2>2, <2>4, <3>1
    <3>2. CASE ~(i + 1 <= Len(s))
      BY <1>1, <2>2, <3>2
    <3>3. QED
      BY <3>1, <3>2
  <2>6. \A k \in 1..(Len(s) - i) : b[k] = s[i + k]
    BY <1>1, <2>2, <2>3, <2>4
  <2>7. QED
    BY <2>2, <2>5, <2>6
<1> HIDE DEF a, b
<1>5. /\ a \o b \in Seq(S)
      /\ Len(a \o b) = Len(a) + Len(b)
      /\ \A j \in 1..(Len(a) + Len(b)) :
            (a \o b)[j] = IF j <= Len(a) THEN a[j] ELSE b[j - Len(a)]
  BY <1>3, <1>4, ConcatProperties
<1>6. RemoveAt(s, i) = a \o b
  BY DEF RemoveAt, a, b
<1>7. ASSUME NEW j \in 1..(Len(s) - 1)
      PROVE  (a \o b)[j] = IF j < i THEN s[j] ELSE s[j + 1]
  <2>1. CASE j < i
    BY <1>1, <1>3, <1>4, <1>5, <2>1
  <2>2. CASE ~(j < i)
    <3>1. j - (i - 1) \in 1..(Len(s) - i) /\ i + (j - (i - 1)) = j + 1
      BY <1>1, <2>2
    <3>2. (a \o b)[j] = b[j - (i - 1)]
      BY <1>1, <1>3, <1>4, <1>5, <2>2
    <3>3. QED
      BY <1>4, <2>2, <3>1, <3>2
  <2>3. QED
    BY <2>1, <2>2
<1>8. Len(a) + Len(b) = Len(s) - 1
  BY <1>1, <1>3, <1>4
<1>9. QED
  BY <1>5, <1>6, <1>7, <1>8

\* A sequence can take any element.
LEMMA AppendAny ==
    ASSUME NEW S, NEW s \in Seq(S), NEW e
    PROVE  /\ Append(s, e) \in Seq(S \cup {e})
           /\ Len(Append(s, e)) = Len(s) + 1
           /\ DOMAIN Append(s, e) = 1..(Len(s) + 1)
           /\ \A i \in 1..Len(s) : Append(s, e)[i] = s[i]
           /\ Append(s, e)[Len(s) + 1] = e
<1>1. s \in Seq(S \cup {e}) /\ e \in S \cup {e}
  BY SeqMonotonic
<1>2. QED
  BY <1>1, AppendProperties, LenProperties

\* Reading a line leaves the lines before it as they were.
LEMMA ReadAppends ==
    ASSUME file \in Seq(Line), NEW line \in Line, Read(line)
    PROVE  /\ file' \in Seq(Line)
           /\ Len(file') = Len(file) + 1 /\ Len(file) \in Nat
           /\ DOMAIN file = 1..Len(file) /\ DOMAIN file' = 1..(Len(file) + 1)
           /\ \A p \in 1..Len(file) : file'[p] = file[p]
           /\ file'[Len(file) + 1] = line
<1>1. file' = Append(file, line)
  BY DEF Read
<1>2. QED
  BY <1>1, AppendProperties, LenProperties

\* So what lies between two lines already read stays the same, and a region that
\* is still open gets the new line if it is content.
Between(lines, a, b) == {p \in a..b : Content(lines[p])}

LEMMA ContentStays ==
    ASSUME NEW n \in Nat, NEW f, NEW g, \A p \in 1..n : g[p] = f[p],
           NEW a \in 1..(n + 1), NEW b \in 0..n
    PROVE  Between(g, a, b) = Between(f, a, b)
BY DEF Between

LEMMA ContentGrows ==
    ASSUME NEW n \in Nat, NEW f, NEW g, \A p \in 1..n : g[p] = f[p],
           NEW a \in 1..(n + 1)
    PROVE  Between(g, a, n + 1)
               = Between(f, a, n) \cup (IF Content(g[n + 1]) THEN {n + 1} ELSE {})
<1>1. a..(n + 1) = (a..n) \cup {n + 1} /\ a..n \subseteq 1..n
  OBVIOUS
<1>2. Between(g, a, n + 1)
          = {p \in a..n : Content(f[p])} \cup {p \in {n + 1} : Content(g[n + 1])}
  BY <1>1 DEF Between
<1>3. QED
  BY <1>2 DEF Between

\* A region's lines are the content lines from a to b, each once and in order.
Exact(lines, f, a, b) ==
    /\ {lines[i] : i \in DOMAIN lines} = Between(f, a, b)
    /\ \A i, j \in DOMAIN lines : i < j => lines[i] < lines[j]

\* A content line goes to the end of such lines.
LEMMA ExactTakes ==
    ASSUME NEW n \in Nat, NEW f, NEW g, \A p \in 1..n : g[p] = f[p], Content(g[n + 1]),
           NEW a \in 1..(n + 1), NEW s \in Seq(Nat), Exact(s, f, a, n)
    PROVE  Append(s, n + 1) \in Seq(Nat) /\ Exact(Append(s, n + 1), g, a, n + 1)
<1> DEFINE m == Len(s)
           t == Append(s, n + 1)
<1>1. /\ t \in Seq(Nat) /\ m \in Nat
      /\ DOMAIN s = 1..m /\ DOMAIN t = 1..(m + 1)
      /\ \A i \in 1..m : t[i] = s[i]
      /\ t[m + 1] = n + 1
  BY AppendProperties, LenProperties
<1> HIDE DEF m, t
<1>2. Between(g, a, n + 1) = Between(f, a, n) \cup {n + 1}
  BY ContentGrows
<1>3. {t[i] : i \in 1..(m + 1)} = {s[i] : i \in 1..m} \cup {n + 1}
  <2>1. 1..(m + 1) = (1..m) \cup {m + 1}
    BY <1>1
  <2>2. {t[i] : i \in (1..m) \cup {m + 1}} = {t[i] : i \in 1..m} \cup {t[m + 1]}
    OBVIOUS
  <2>3. {t[i] : i \in 1..m} = {s[i] : i \in 1..m}
    BY <1>1
  <2>4. QED
    BY <1>1, <2>1, <2>2, <2>3
<1>4. ASSUME NEW i \in 1..m
      PROVE  s[i] < n + 1
  <2>1. s[i] \in Between(f, a, n)
    BY <1>1 DEF Exact
  <2>2. QED
    BY <2>1 DEF Between
<1>5. ASSUME NEW i \in 1..(m + 1), NEW j \in 1..(m + 1), i < j
      PROVE  t[i] < t[j]
  <2>1. i \in 1..m
    BY <1>1, <1>5
  <2>2. CASE j = m + 1
    BY <1>1, <1>4, <2>1, <2>2
  <2>3. CASE j # m + 1
    <3>1. j \in 1..m
      BY <1>1, <2>3
    <3>2. QED
      BY <1>1, <1>5, <2>1, <3>1 DEF Exact
  <2>4. QED
    BY <2>2, <2>3
<1>6. QED
  BY <1>1, <1>2, <1>3, <1>5 DEF Exact, t

-----------------------------------------------------------------------------
(* The regions of the file read so far *)

OpenRegion == [topic : Topics, start : Nat, lines : Seq(Nat)]

Typed ==
    /\ file \in Seq(Line)
    /\ open \in Seq(OpenRegion)
    /\ seen \subseteq Topics
    /\ out \in Seq({out[n] : n \in DOMAIN out})

\* An open region holds every content line since its own start marker.
Pending(o, f, topics) ==
    /\ o.start \in 1..Len(f)
    /\ f[o.start].verb = "start" /\ f[o.start].arg = o.topic
    /\ o.topic \in topics
    /\ Exact(o.lines, f, o.start + 1, Len(f))

\* Regions are stacked in the order of their starts, under topics of their own.
Stacked ==
    \A i, j \in DOMAIN open :
        i < j => open[i].start < open[j].start /\ open[i].topic # open[j].topic

\* A snippet holds the content lines between its markers; its topic is not used
\* again, and if its end is bare no region that it holds is still open.
Captured(s, f, stack, topics) ==
    /\ s.start \in Nat /\ s.end \in Nat
    /\ 1 <= s.start /\ s.start < s.end /\ s.end <= Len(f)
    /\ s.topic \in topics
    /\ s.lines \in Seq(Nat)
    /\ f[s.start].verb = "start" /\ f[s.start].arg = s.topic
    /\ f[s.end].verb = "end" /\ f[s.end].arg \in {s.topic, NoArg}
    /\ Exact(s.lines, f, s.start + 1, s.end - 1)
    /\ \A i \in DOMAIN stack : stack[i].topic # s.topic
    /\ f[s.end].arg = NoArg =>
          \A i \in DOMAIN stack : ~(s.start < stack[i].start /\ stack[i].start < s.end)

\* Snippets appear in the order of their ends; one that ends after a bare end
\* does not start inside its region.
Emitted ==
    \A m, n \in DOMAIN out :
        m < n => /\ out[m].end < out[n].end /\ out[m].topic # out[n].topic
                 /\ file[out[m].end].arg = NoArg =>
                       ~(out[m].start < out[n].start /\ out[n].start < out[m].end)

\* Until an error stops the scan every marker is in a region or in a snippet.
Accounted ==
    status \in {"scanning", "extracted", "unclosed"} =>
        /\ \A p \in DOMAIN file : ~Malformed(file[p])
        /\ \A p \in DOMAIN file : file[p].verb = "start" =>
              \/ \E i \in DOMAIN open : open[i].start = p
              \/ \E n \in DOMAIN out : out[n].start = p
        /\ \A p \in DOMAIN file : file[p].verb = "end" =>
              \E n \in DOMAIN out : out[n].end = p
        /\ status = "extracted" => open = <<>>

Regions ==
    /\ Typed
    /\ \A i \in DOMAIN open : Pending(open[i], file, seen)
    /\ Stacked
    /\ \A n \in DOMAIN out : Captured(out[n], file, open, seen)
    /\ Emitted
    /\ Accounted

LEMMA RegionsInit == Init => Regions
BY DEF Init, Regions, Typed, Stacked, Emitted, Accounted

\* A marker does not change an open region.
LEMMA PendingKept ==
    ASSUME Typed, NEW line \in Line, Read(line), ~Content(line), seen \subseteq seen',
           NEW o, Pending(o, file, seen)
    PROVE  Pending(o, file', seen')
<1> DEFINE n == Len(file)
<1>1. /\ n \in Nat /\ Len(file') = n + 1
      /\ \A p \in 1..n : file'[p] = file[p]
      /\ file'[n + 1] = line
  BY ReadAppends DEF Typed
<1>2. o.start \in 1..n /\ o.start + 1 \in 1..(n + 1)
  BY <1>1 DEF Pending
<1> HIDE DEF n
<1>3. Between(file', o.start + 1, n + 1) = Between(file, o.start + 1, n)
  <2>1. ~Content(file'[n + 1])
    BY <1>1
  <2>2. Between(file', o.start + 1, n + 1)
            = Between(file, o.start + 1, n) \cup (IF Content(file'[n + 1]) THEN {n + 1} ELSE {})
    BY <1>1, <1>2, ContentGrows
  <2>3. QED
    BY <2>1, <2>2
<1>4. QED
  BY <1>1, <1>2, <1>3 DEF Pending, Exact, n

\* A content line goes to each of them.
LEMMA PendingTakes ==
    ASSUME Typed, NEW line \in Line, Read(line), Content(line), UNCHANGED seen,
           NEW o \in OpenRegion, Pending(o, file, seen),
           NEW taken, taken.topic = o.topic, taken.start = o.start,
           taken.lines = Append(o.lines, Len(file'))
    PROVE  taken.lines \in Seq(Nat) /\ Pending(taken, file', seen')
<1> DEFINE n == Len(file)
<1>1. /\ n \in Nat /\ Len(file') = n + 1
      /\ \A p \in 1..n : file'[p] = file[p]
      /\ file'[n + 1] = line
  BY ReadAppends DEF Typed
<1>2. o.start \in 1..n /\ o.start + 1 \in 1..(n + 1) /\ o.lines \in Seq(Nat)
  BY <1>1 DEF Pending, OpenRegion
<1>3. Exact(o.lines, file, o.start + 1, n)
  BY DEF Pending
<1> HIDE DEF n
<1>4. Content(file'[n + 1])
  BY <1>1
<1>5. /\ Append(o.lines, n + 1) \in Seq(Nat)
      /\ Exact(Append(o.lines, n + 1), file', o.start + 1, n + 1)
  BY <1>1, <1>2, <1>3, <1>4, ExactTakes
<1>6. file'[o.start] = file[o.start] /\ o.start \in 1..(n + 1)
  BY <1>1, <1>2
<1>7. QED
  BY <1>1, <1>5, <1>6 DEF Pending

\* A snippet stays what it was, as long as the open regions are those of before,
\* or start under a topic that was not seen, at the new line.
LEMMA CapturedKept ==
    ASSUME Typed, NEW line \in Line, Read(line), seen \subseteq seen',
           \A j \in DOMAIN open' :
              \/ \E i \in DOMAIN open : /\ open'[j].topic = open[i].topic
                                        /\ open'[j].start = open[i].start
              \/ open'[j].topic \notin seen /\ open'[j].start = Len(file) + 1,
           NEW s, Captured(s, file, open, seen)
    PROVE  Captured(s, file', open', seen')
<1> DEFINE n == Len(file)
<1>1. /\ n \in Nat /\ Len(file') = n + 1
      /\ \A p \in 1..n : file'[p] = file[p]
      /\ file'[n + 1] = line
  BY ReadAppends DEF Typed
<1>2. /\ s.start \in 1..n /\ s.end \in 1..n
      /\ s.start + 1 \in 1..(n + 1) /\ s.end - 1 \in 0..n
  BY <1>1 DEF Captured
<1>3. \A j \in DOMAIN open' :
         /\ open'[j].topic # s.topic
         /\ file[s.end].arg = NoArg => ~(s.start < open'[j].start /\ open'[j].start < s.end)
  BY <1>1, <1>2 DEF Captured
<1> HIDE DEF n
<1>4. Between(file', s.start + 1, s.end - 1) = Between(file, s.start + 1, s.end - 1)
  <2> DEFINE a == s.start + 1
             b == s.end - 1
  <2>1. a \in 1..(n + 1) /\ b \in 0..n
    BY <1>2
  <2> HIDE DEF a, b
  <2>2. Between(file', a, b) = Between(file, a, b)
    BY <1>1, <2>1, ContentStays
  <2>3. QED
    BY <2>2 DEF a, b
<1>5. s.start \in 1..n /\ s.end \in 1..n /\ file'[s.start] = file[s.start] /\ file'[s.end] = file[s.end]
  BY <1>1, <1>2
<1>6. Exact(s.lines, file', s.start + 1, s.end - 1)
  <2>1. Exact(s.lines, file, s.start + 1, s.end - 1)
    BY DEF Captured
  <2>2. QED
    BY <1>4, <2>1, Zenon DEF Exact
<1>7. /\ s.start \in Nat /\ s.end \in Nat
      /\ 1 <= s.start /\ s.start < s.end /\ s.end <= Len(file')
  <2>1. s.start < s.end /\ s.end <= n
    BY DEF Captured, n
  <2>2. QED
    BY <1>1, <1>2, <2>1
<1>8. /\ s.topic \in seen' /\ s.lines \in Seq(Nat)
      /\ file'[s.start].verb = "start" /\ file'[s.start].arg = s.topic
      /\ file'[s.end].verb = "end" /\ file'[s.end].arg \in {s.topic, NoArg}
  BY <1>5 DEF Captured
<1>9. /\ \A j \in DOMAIN open' : open'[j].topic # s.topic
      /\ file'[s.end].arg = NoArg =>
            \A j \in DOMAIN open' : ~(s.start < open'[j].start /\ open'[j].start < s.end)
  BY <1>3, <1>5
<1>10. QED
  BY <1>6, <1>7, <1>8, <1>9, Zenon DEF Captured

\* Every marker is still accounted for when the new one is.
LEMMA AccountedKept ==
    ASSUME Regions, NEW line \in Line, Read(line), ~Malformed(line), status' = "scanning",
           \A i \in DOMAIN open :
              \/ \E j \in DOMAIN open' : open'[j].start = open[i].start
              \/ \E n \in DOMAIN out' : out'[n].start = open[i].start,
           \A n \in DOMAIN out : \E k \in DOMAIN out' :
              out'[k].start = out[n].start /\ out'[k].end = out[n].end,
           line.verb = "start" => \E j \in DOMAIN open' : open'[j].start = Len(file) + 1,
           line.verb = "end" => \E k \in DOMAIN out' : out'[k].end = Len(file) + 1
    PROVE  Accounted'
<1>1. /\ Len(file') = Len(file) + 1 /\ Len(file) \in Nat
      /\ DOMAIN file = 1..Len(file) /\ DOMAIN file' = 1..(Len(file) + 1)
      /\ \A p \in 1..Len(file) : file'[p] = file[p]
      /\ file'[Len(file) + 1] = line
  BY ReadAppends DEF Regions, Typed
<1>2. status = "scanning"
  BY DEF Read
<1>3. ASSUME NEW p \in DOMAIN file', p # Len(file) + 1
      PROVE  /\ ~Malformed(file'[p])
             /\ file'[p].verb = "start" =>
                   \/ \E j \in DOMAIN open' : open'[j].start = p
                   \/ \E n \in DOMAIN out' : out'[n].start = p
             /\ file'[p].verb = "end" => \E n \in DOMAIN out' : out'[n].end = p
  <2>1. p \in DOMAIN file /\ file'[p] = file[p]
    BY <1>1, <1>3
  <2>2. /\ ~Malformed(file[p])
        /\ file[p].verb = "start" =>
              \/ \E i \in DOMAIN open : open[i].start = p
              \/ \E n \in DOMAIN out : out[n].start = p
        /\ file[p].verb = "end" => \E n \in DOMAIN out : out[n].end = p
    BY <1>2, <2>1 DEF Regions, Accounted
  <2>3. QED
    BY <2>1, <2>2
<1>4. QED
  BY <1>1, <1>3 DEF Accounted

\* And so do the snippets one by the other.
LEMMA EmittedKept ==
    ASSUME Regions, NEW line \in Line, Read(line)
    PROVE  \A m, n \in DOMAIN out :
              m < n => /\ out[m].end < out[n].end /\ out[m].topic # out[n].topic
                       /\ file'[out[m].end].arg = NoArg =>
                             ~(out[m].start < out[n].start /\ out[n].start < out[m].end)
<1>1. \A n \in DOMAIN out : out[n].end \in 1..Len(file)
  BY DEF Regions, Captured
<1>2. \A p \in 1..Len(file) : file'[p] = file[p]
  BY ReadAppends DEF Regions, Typed
<1>3. QED
  BY <1>1, <1>2 DEF Regions, Emitted

-----------------------------------------------------------------------------
(* The steps of the scan *)

\* A marker that is refused stops the scan and changes nothing else.
LEMMA RefusedStep ==
    ASSUME Regions, NEW line \in Line, Read(line), ~Content(line),
           UNCHANGED <<open, seen, out>>,
           status' \notin {"scanning", "extracted", "unclosed"}
    PROVE  Regions'
<1>1. Typed'
  BY ReadAppends DEF Regions, Typed
<1>2. \A i \in DOMAIN open' : Pending(open'[i], file', seen')
  BY PendingKept DEF Regions
<1>3. \A n \in DOMAIN out' : Captured(out'[n], file', open', seen')
  BY CapturedKept DEF Regions
<1>4. Stacked' /\ Emitted'
  BY EmittedKept DEF Regions, Stacked, Emitted
<1>5. Accounted'
  BY DEF Accounted
<1>6. QED
  BY <1>1, <1>2, <1>3, <1>4, <1>5 DEF Regions

LEMMA CaptureStep ==
    ASSUME Regions, NEW line \in Line, Capture(line)
    PROVE  Regions'
<1> Typed /\ Read(line) /\ Content(line)
  BY DEF Regions, Capture
<1>1. /\ open' = [i \in DOMAIN open |-> [open[i] EXCEPT !.lines = Append(@, Len(file'))]]
      /\ UNCHANGED <<seen, out, status>>
  BY DEF Capture
<1>2. DOMAIN open' = DOMAIN open /\ DOMAIN open = 1..Len(open) /\ Len(open) \in Nat
  BY <1>1, LenProperties DEF Typed
<1>3. ASSUME NEW i \in DOMAIN open
      PROVE  /\ open[i] \in OpenRegion
             /\ open'[i] = [open[i] EXCEPT !.lines = Append(@, Len(file'))]
             /\ open'[i].topic = open[i].topic /\ open'[i].start = open[i].start
             /\ open'[i].lines = Append(open[i].lines, Len(file'))
  <2>1. open[i] \in OpenRegion
    BY <1>2, ElementOfSeq DEF Typed
  <2>2. open'[i] = [open[i] EXCEPT !.lines = Append(@, Len(file'))]
    BY <1>1
  <2>3. QED
    BY <2>1, <2>2 DEF OpenRegion
<1>4. ASSUME NEW i \in DOMAIN open
      PROVE  open'[i] \in OpenRegion /\ Pending(open'[i], file', seen')
  <2>1. Pending(open[i], file, seen)
    BY DEF Regions
  <2>2. open'[i].lines \in Seq(Nat) /\ Pending(open'[i], file', seen')
    BY <1>1, <1>3, <2>1, PendingTakes
  <2>3. QED
    BY <1>3, <2>2 DEF OpenRegion
<1>5. Typed'
  <2>1. open' \in [1..Len(open) -> OpenRegion]
    BY <1>1, <1>2, <1>4
  <2>2. open' \in Seq(OpenRegion)
    BY <1>2, <2>1, SeqDef
  <2>3. QED
    BY <1>1, <2>2, ReadAppends DEF Typed
<1>6. Stacked'
  BY <1>2, <1>3 DEF Regions, Stacked
<1>7. \A n \in DOMAIN out' : Captured(out'[n], file', open', seen')
  BY <1>1, <1>2, <1>3, CapturedKept DEF Regions
<1>8. Emitted'
  BY <1>1, EmittedKept DEF Emitted
<1>9. Accounted'
  <2>1. ~Malformed(line) /\ line.verb # "start" /\ line.verb # "end"
    BY DEF Content, Malformed
  <2>2. QED
    BY <1>1, <1>2, <1>3, <2>1, AccountedKept DEF Read
<1>10. QED
  BY <1>2, <1>4, <1>5, <1>6, <1>7, <1>8, <1>9 DEF Regions

\* A start marker of a new topic opens a region above all others.
LEMMA StartStep ==
    ASSUME Regions, NEW line \in Line, StartRegion(line)
    PROVE  Regions'
<1> Typed /\ Read(line) /\ line.verb = "start" /\ ~Malformed(line) /\ ~Content(line)
  BY DEF Regions, StartRegion, Content
<1>1. CASE line.arg \in seen
  BY <1>1, RefusedStep DEF StartRegion, Stop
<1>2. CASE line.arg \notin seen
  <2> DEFINE new == Region(line.arg)
             m == Len(open)
  <2>1. /\ line.arg \in Topics
        /\ open' = Append(open, new) /\ seen' = seen \cup {line.arg}
        /\ UNCHANGED <<out, status>>
    BY <1>2 DEF StartRegion, Malformed
  <2>2. /\ new.topic = line.arg /\ new.start = Len(file) + 1 /\ new.lines = <<>>
        /\ new \in OpenRegion
    BY <2>1, ReadAppends DEF Region, OpenRegion, Typed
  <2>3. /\ Len(file') = Len(file) + 1 /\ Len(file) \in Nat
        /\ DOMAIN file = 1..Len(file) /\ DOMAIN file' = 1..(Len(file) + 1)
        /\ \A p \in 1..Len(file) : file'[p] = file[p]
        /\ file'[Len(file) + 1] = line
    BY ReadAppends DEF Typed
  <2> HIDE DEF new
  <2>4. /\ open' \in Seq(OpenRegion) /\ m \in Nat
        /\ DOMAIN open = 1..m /\ DOMAIN open' = 1..(m + 1)
        /\ \A i \in 1..m : open'[i] = open[i]
        /\ open'[m + 1] = new
    BY <2>1, <2>2, AppendProperties, LenProperties DEF Typed
  <2> HIDE DEF m
  <2>5. Typed'
    BY <2>1, <2>4, ReadAppends DEF Typed
  <2>6. \A i \in 1..m : Pending(open'[i], file', seen')
    BY <2>1, <2>4, PendingKept DEF Regions
  <2>7. Pending(new, file', seen')
    <3> DEFINE l == Len(file)
    <3>1. (l + 1 + 1)..(l + 1) = {}
      BY <2>3
    <3> HIDE DEF l
    <3>2. Exact(<<>>, file', l + 1 + 1, l + 1)
      BY <3>1 DEF Exact, Between
    <3>3. QED
      BY <2>1, <2>2, <2>3, <3>2 DEF Pending, l
  <2>8. Stacked'
    <3>1. \A i \in 1..m : open[i].start \in 1..Len(file) /\ open[i].topic \in seen
      BY <2>4 DEF Regions, Pending
    <3>2. \A i \in 1..m : open[i].start < new.start /\ open[i].topic # new.topic
      BY <1>2, <2>2, <2>3, <3>1
    <3>3. ASSUME NEW i \in 1..(m + 1), NEW j \in 1..(m + 1), i < j
          PROVE  open'[i].start < open'[j].start /\ open'[i].topic # open'[j].topic
      <4>1. CASE j = m + 1
        BY <2>4, <3>2, <3>3, <4>1
      <4>2. CASE j # m + 1
        <5>1. i \in 1..m /\ j \in 1..m
          BY <2>4, <3>3, <4>2
        <5>2. QED
          BY <2>4, <3>3, <5>1 DEF Regions, Stacked
      <4>3. QED
        BY <4>1, <4>2
    <3>4. QED
      BY <2>4, <3>3 DEF Stacked
  <2>9. \A n \in DOMAIN out' : Captured(out'[n], file', open', seen')
    <3>1. \A j \in DOMAIN open' :
             \/ \E i \in DOMAIN open : /\ open'[j].topic = open[i].topic
                                       /\ open'[j].start = open[i].start
             \/ open'[j].topic \notin seen /\ open'[j].start = Len(file) + 1
      BY <1>2, <2>2, <2>4
    <3>2. QED
      BY <2>1, <3>1, CapturedKept DEF Regions
  <2>10. Emitted'
    BY <2>1, EmittedKept DEF Emitted
  <2>11. Accounted'
    <3>1. \A i \in DOMAIN open : \E j \in DOMAIN open' : open'[j].start = open[i].start
      BY <2>4
    <3>2. \E j \in DOMAIN open' : open'[j].start = Len(file) + 1
      BY <2>2, <2>4
    <3>3. QED
      BY <2>1, <3>1, <3>2, AccountedKept DEF Read
  <2>12. QED
    BY <2>4, <2>5, <2>6, <2>7, <2>8, <2>9, <2>10, <2>11 DEF Regions
<1>3. QED
  BY <1>1, <1>2

\* An end marker moves its region from the stack to the output, whole.
LEMMA EndStep ==
    ASSUME Regions, NEW line \in Line, EndRegion(line)
    PROVE  Regions'
<1> Typed /\ Read(line) /\ line.verb = "end" /\ ~Malformed(line) /\ ~Content(line)
  BY DEF Regions, EndRegion, Content
<1>1. PICK i \in DOMAIN open :
         /\ Closes(line, i)
         /\ open' = RemoveAt(open, i)
         /\ out' = Append(out, [topic |-> open[i].topic, code |-> Dedent(open[i].lines),
                                lines |-> open[i].lines,
                                start |-> open[i].start, end |-> Len(file')])
  BY DEF EndRegion
<1>2. UNCHANGED <<seen, status>>
  BY DEF EndRegion
<1> DEFINE l == Len(file)
           m == Len(open)
           k == Len(out)
<1>3. /\ Len(file') = l + 1 /\ l \in Nat
      /\ DOMAIN file = 1..l /\ DOMAIN file' = 1..(l + 1)
      /\ \A p \in 1..l : file'[p] = file[p]
      /\ file'[l + 1] = line
  BY ReadAppends DEF Typed
<1>4. PICK new : /\ new.topic = open[i].topic /\ new.start = open[i].start
                 /\ new.lines = open[i].lines /\ new.end = l + 1
                 /\ out' = Append(out, new)
  BY <1>1, <1>3
<1>5. /\ open' \in Seq(OpenRegion) /\ m \in Nat /\ Len(open') = m - 1
      /\ DOMAIN open = 1..m /\ DOMAIN open' = 1..(m - 1)
      /\ \A j \in 1..(m - 1) : open'[j] = IF j < i THEN open[j] ELSE open[j + 1]
  <2>1. DOMAIN open = 1..m /\ m \in Nat
    BY LenProperties DEF Typed
  <2>2. /\ RemoveAt(open, i) \in Seq(OpenRegion)
        /\ Len(RemoveAt(open, i)) = m - 1
        /\ \A j \in 1..(m - 1) : RemoveAt(open, i)[j] = IF j < i THEN open[j] ELSE open[j + 1]
    BY <2>1, RemoveAtProperties DEF Typed
  <2>3. QED
    BY <1>1, <2>1, <2>2, LenProperties
<1>6. /\ k \in Nat /\ DOMAIN out = 1..k /\ DOMAIN out' = 1..(k + 1)
      /\ \A n \in 1..k : out'[n] = out[n]
      /\ out'[k + 1] = new
      /\ out' \in Seq({out'[n] : n \in DOMAIN out'})
  <2> DEFINE S == {out[n] : n \in DOMAIN out}
  <2>1. out \in Seq(S) /\ k \in Nat /\ DOMAIN out = 1..k
    BY LenProperties DEF Typed
  <2> HIDE DEF S
  <2>2. /\ out' \in Seq(S \cup {new}) /\ DOMAIN out' = 1..(k + 1)
        /\ \A n \in 1..k : out'[n] = out[n]
        /\ out'[k + 1] = new
    BY <1>4, <2>1, AppendAny
  <2>3. out' \in Seq({out'[n] : n \in DOMAIN out'})
    BY <2>2, SeqOfRange DEF Range
  <2>4. QED
    BY <2>1, <2>2, <2>3
<1> HIDE DEF l, m, k
<1>7. \A j \in 1..(m - 1) : \E h \in 1..m : h # i /\ open'[j] = open[h]
  <2>1. ASSUME NEW j \in 1..(m - 1)
        PROVE  \E h \in 1..m : h # i /\ open'[j] = open[h]
    <3>1. CASE j < i
      BY <1>5, <3>1
    <3>2. CASE ~(j < i)
      <4>1. j + 1 \in 1..m /\ j + 1 # i
        BY <1>5, <3>2
      <4>2. QED
        BY <1>5, <3>2, <4>1
    <3>3. QED
      BY <3>1, <3>2
  <2>2. QED
    BY <2>1
<1>8. Typed'
  BY <1>2, <1>5, <1>6, ReadAppends DEF Typed
<1>9. \A j \in DOMAIN open' : Pending(open'[j], file', seen')
  <2>1. \A h \in 1..m : Pending(open[h], file', seen')
    BY <1>2, <1>5, PendingKept DEF Regions
  <2>2. QED
    BY <1>5, <1>7, <2>1
<1>10. Stacked'
  <2>1. ASSUME NEW a \in 1..(m - 1), NEW b \in 1..(m - 1), a < b
        PROVE  open'[a].start < open'[b].start /\ open'[a].topic # open'[b].topic
    <3> DEFINE g(j) == IF j < i THEN j ELSE j + 1
    <3>1. g(a) \in 1..m /\ g(b) \in 1..m /\ g(a) < g(b)
      BY <1>5, <2>1
    <3>2. open'[a] = open[g(a)] /\ open'[b] = open[g(b)]
      BY <1>5
    <3> HIDE DEF g
    <3>3. QED
      BY <1>5, <3>1, <3>2 DEF Regions, Stacked
  <2>2. QED
    BY <1>5, <2>1 DEF Stacked
<1>11. \A n \in DOMAIN out' : Captured(out'[n], file', open', seen')
  <2>1. \A j \in DOMAIN open' :
           \E h \in DOMAIN open : open'[j].topic = open[h].topic /\ open'[j].start = open[h].start
    BY <1>5, <1>7
  <2>2. \A n \in 1..k : Captured(out[n], file', open', seen')
    BY <1>2, <1>6, <2>1, CapturedKept DEF Regions
  <2>3. Pending(open[i], file, seen) /\ open[i] \in OpenRegion
    BY <1>5, ElementOfSeq DEF Regions, Typed
  <2>4. /\ new.start \in 1..l /\ new.end = l + 1 /\ new.topic \in seen'
        /\ new.lines \in Seq(Nat)
        /\ file'[new.start].verb = "start" /\ file'[new.start].arg = new.topic
    BY <1>2, <1>3, <1>4, <2>3 DEF Pending, OpenRegion, l
  <2>5. file'[new.end].verb = "end" /\ file'[new.end].arg \in {new.topic, NoArg}
    BY <1>1, <1>3, <1>4 DEF Closes
  <2>6. Exact(new.lines, file', new.start + 1, new.end - 1)
    <3> DEFINE a == new.start + 1
    <3>1. a \in 1..(l + 1) /\ l \in 0..l /\ new.end - 1 = l
      BY <1>3, <2>4
    <3>2. Exact(new.lines, file, a, l)
      BY <1>4, <2>3 DEF Pending, l
    <3> HIDE DEF a
    <3>3. Between(file', a, l) = Between(file, a, l)
      <4>1. l \in Nat /\ a \in 1..(l + 1) /\ l \in 0..l
        BY <1>3, <3>1
      <4>2. \A p \in 1..l : file'[p] = file[p]
        BY <1>3
      <4>3. QED
        BY <4>1, <4>2, ContentStays, Zenon
    <3>4. QED
      BY <3>1, <3>2, <3>3 DEF Exact, a
  <2>7. \A j \in DOMAIN open' : open'[j].topic # new.topic
    <3>1. i \in 1..m /\ m \in Nat /\ new.topic = open[i].topic
      BY <1>4, <1>5
    <3>2. \A h \in 1..m : h # i => open[h].topic # open[i].topic
      <4>1. \A a, b \in 1..m : a < b => open[a].topic # open[b].topic
        BY <1>5 DEF Regions, Stacked
      <4>2. \A h \in 1..m : h # i => h < i \/ i < h
        BY <3>1
      <4>3. QED
        BY <3>1, <4>1, <4>2
    <3>3. QED
      BY <1>5, <1>7, <3>1, <3>2
  <2>8. ASSUME file'[new.end].arg = NoArg, NEW j \in DOMAIN open'
        PROVE  ~(new.start < open'[j].start)
    <3>1. i = m
      BY <1>1, <1>3, <1>4, <2>8 DEF Closes, m
    <3>2. j < i /\ j \in 1..m /\ i \in 1..m
      BY <1>5, <3>1
    <3>3. open'[j] = open[j] /\ open[j].start < open[i].start
      BY <1>5, <3>2 DEF Regions, Stacked
    <3>4. open[j].start \in Nat /\ open[i].start \in Nat
      <4>1. \A h \in 1..m : open[h] \in OpenRegion
        BY ElementOfSeq DEF Typed, m
      <4>2. QED
        BY <3>2, <4>1 DEF OpenRegion
    <3>5. QED
      BY <1>4, <3>3, <3>4
  <2>9. Captured(new, file', open', seen')
    BY <1>3, <2>4, <2>5, <2>6, <2>7, <2>8 DEF Captured
  <2>10. QED
    BY <1>6, <2>2, <2>9
<1>12. Emitted'
  <2>1. \A n \in 1..k : Captured(out[n], file, open, seen)
    BY <1>6 DEF Regions
  <2>2. ASSUME NEW n \in 1..k
        PROVE  /\ out[n].end < new.end /\ out[n].topic # new.topic
               /\ file'[out[n].end].arg = NoArg =>
                     ~(out[n].start < new.start /\ new.start < out[n].end)
    <3>1. out[n].end \in 1..l
      BY <1>3, <2>1 DEF Captured, l
    <3>2. QED
      BY <1>3, <1>4, <2>1, <3>1 DEF Captured
  <2>3. ASSUME NEW a \in 1..(k + 1), NEW b \in 1..(k + 1), a < b
        PROVE  /\ out'[a].end < out'[b].end /\ out'[a].topic # out'[b].topic
               /\ file'[out'[a].end].arg = NoArg =>
                     ~(out'[a].start < out'[b].start /\ out'[b].start < out'[a].end)
    <3>1. a \in 1..k
      BY <1>6, <2>3
    <3>2. CASE b = k + 1
      BY <1>6, <2>2, <3>1, <3>2
    <3>3. CASE b # k + 1
      <4>1. b \in 1..k
        BY <1>6, <3>3
      <4>2. QED
        BY <1>6, <2>3, <3>1, <4>1, EmittedKept
    <3>4. QED
      BY <3>2, <3>3
  <2>4. QED
    BY <1>6, <2>3 DEF Emitted
<1>13. Accounted'
  <2>1. ASSUME NEW h \in DOMAIN open
        PROVE  \/ \E j \in DOMAIN open' : open'[j].start = open[h].start
               \/ \E n \in DOMAIN out' : out'[n].start = open[h].start
    <3>1. CASE h = i
      BY <1>4, <1>6, <3>1
    <3>2. CASE h < i
      BY <1>5, <3>2
    <3>3. CASE h > i
      <4>1. h - 1 \in 1..(m - 1) /\ ~(h - 1 < i) /\ (h - 1) + 1 = h
        BY <1>5, <3>3
      <4>2. QED
        BY <1>5, <4>1
    <3>4. QED
      BY <1>5, <3>1, <3>2, <3>3
  <2>2. \E n \in DOMAIN out' : out'[n].end = Len(file) + 1
    BY <1>4, <1>6 DEF l
  <2>3. \A n \in DOMAIN out : \E n2 \in DOMAIN out' :
           out'[n2].start = out[n].start /\ out'[n2].end = out[n].end
    BY <1>6
  <2>4. QED
    BY <1>2, <2>1, <2>2, <2>3, AccountedKept DEF Read
<1>14. QED
  BY <1>8, <1>9, <1>10, <1>11, <1>12, <1>13 DEF Regions

LEMMA RegionsStep == Regions /\ [Next]_vars => Regions'
<1> SUFFICES ASSUME Regions, [Next]_vars
             PROVE  Regions'
  OBVIOUS
<1>1. ASSUME NEW line \in Line, BadMarker(line)
      PROVE  Regions'
  BY <1>1, RefusedStep DEF BadMarker, Stop, Malformed, Content
<1>2. ASSUME NEW line \in Line, StrayEnd(line)
      PROVE  Regions'
  BY <1>2, RefusedStep DEF StrayEnd, Stop, Content
<1>3. CASE EndOfFile
  BY <1>3 DEF EndOfFile, Regions, Typed, Stacked, Emitted, Accounted
<1>4. CASE UNCHANGED vars
  BY <1>4 DEF vars, Regions, Typed, Stacked, Emitted, Accounted
<1>5. QED
  BY <1>1, <1>2, <1>3, <1>4, CaptureStep, StartStep, EndStep DEF Next, Finished

LEMMA RegionsInductive == Spec => []Regions
BY RegionsInit, RegionsStep, PTL DEF Spec

-----------------------------------------------------------------------------
(* What the snippets are *)

\* A snippet holds the content lines between its own markers, each once and in
\* file order, whatever regions nest in it, hold it or cross it.
THEOREM SnippetsExact == Spec => []RegionExact
<1>1. Regions => RegionExact
  BY DEF Regions, Captured, Exact, RegionExact, Between, ContentBetween
<1>2. QED
  BY <1>1, RegionsInductive, PTL

\* A file that is extracted has no marker that is not one end of one snippet.
THEOREM MarkersAccounted == Spec => []NothingDropped
<1>1. Regions => NothingDropped
  <2> SUFFICES ASSUME Regions, status = "extracted"
               PROVE  NothingDropped
    BY DEF NothingDropped
  <2> DEFINE at(verb) == {p \in DOMAIN file : file[p].verb = verb}
  <2>1. open = <<>> /\ \A p \in DOMAIN file : ~Malformed(file[p])
    BY DEF Regions, Accounted
  <2>2. \A n \in DOMAIN out :
           /\ out[n].start \in DOMAIN file /\ file[out[n].start].verb = "start"
           /\ file[out[n].start].arg = out[n].topic
           /\ out[n].end \in DOMAIN file /\ file[out[n].end].verb = "end"
    <3>1. DOMAIN file = 1..Len(file) /\ Len(file) \in Nat
      BY LenProperties DEF Regions, Typed
    <3>2. QED
      BY <3>1 DEF Regions, Captured
  <2>3. at("start") = {out[n].start : n \in DOMAIN out}
    BY <2>1, <2>2 DEF Regions, Accounted
  <2>4. at("end") = {out[n].end : n \in DOMAIN out}
    BY <2>2 DEF Regions, Accounted
  <2>5. ASSUME NEW m \in DOMAIN out, NEW n \in DOMAIN out, m # n
        PROVE  /\ out[m].topic # out[n].topic
               /\ out[m].start # out[n].start /\ out[m].end # out[n].end
    <3>1. DOMAIN out = 1..Len(out) /\ Len(out) \in Nat
      BY LenProperties DEF Regions, Typed
    <3>2. m < n \/ n < m
      BY <2>5, <3>1
    <3>3. out[m].topic # out[n].topic /\ out[m].end # out[n].end
      BY <2>5, <3>2 DEF Regions, Emitted, Captured
    <3>4. QED
      BY <2>2, <3>3
  <2>6. QED
    BY <2>1, <2>3, <2>4, <2>5 DEF NothingDropped
<1>2. QED
  BY <1>1, RegionsInductive, PTL

\* No region that starts inside a snippet with a bare end outlives it.
THEOREM BareEndsInnermost == Spec => []BareEndInnermost
<1>1. Regions => BareEndInnermost
  <2> SUFFICES ASSUME Regions, NEW n \in DOMAIN out, file[out[n].end].arg = NoArg
               PROVE  /\ \A i \in DOMAIN open :
                            ~(out[n].start < open[i].start /\ open[i].start < out[n].end)
                      /\ \A m \in DOMAIN out :
                            ~(/\ out[n].start < out[m].start /\ out[m].start < out[n].end
                              /\ out[n].end < out[m].end)
    BY DEF BareEndInnermost
  <2>1. \A i \in DOMAIN open :
           ~(out[n].start < open[i].start /\ open[i].start < out[n].end)
    BY DEF Regions, Captured
  <2>2. ASSUME NEW m \in DOMAIN out, out[n].end < out[m].end
        PROVE  ~(out[n].start < out[m].start /\ out[m].start < out[n].end)
    <3>1. DOMAIN out = 1..Len(out) /\ Len(out) \in Nat
      BY LenProperties DEF Regions, Typed
    <3>2. out[n].end \in Nat /\ out[m].end \in Nat
      BY DEF Regions, Captured
    <3>3. n < m
      <4>1. ~(m < n) /\ m # n
        BY <2>2, <3>2 DEF Regions, Emitted
      <4>2. QED
        BY <3>1, <4>1
    <3>4. QED
      BY <3>3 DEF Regions, Emitted
  <2>3. QED
    BY <2>1, <2>2
<1>2. QED
  BY <1>1, RegionsInductive, PTL

-----------------------------------------------------------------------------
(* What their code is *)

\* What dedent made of a region is not touched by the lines read later.
LEMMA DedentedKept ==
    ASSUME NEW n \in Nat, NEW f, NEW g, \A p \in 1..n : g[p] = f[p],
           NEW all, \A i \in DOMAIN all : all[i] \in 1..n,
           NEW kept, Dedented(kept, all, f)
    PROVE  Dedented(kept, all, g)
<1>1. \A i \in DOMAIN all : g[all[i]] = f[all[i]]
  OBVIOUS
<1>2. \A k \in DOMAIN kept : g[kept[k].line] = f[kept[k].line]
  <2>1. PICK m \in 0..Len(all) : \A k \in DOMAIN kept :
           m + k \in DOMAIN all /\ kept[k].line = all[m + k]
    BY DEF Dedented
  <2>2. QED
    BY <1>1, <2>1
<1> DEFINE codeF == {i \in DOMAIN kept : f[kept[i].line].verb = "code"}
           codeG == {i \in DOMAIN kept : g[kept[i].line].verb = "code"}
<1>3. codeF = codeG /\ codeF \subseteq DOMAIN kept
  BY <1>2
<1>4. /\ \A i \in DOMAIN all : f[all[i]].verb = "code" => \E k \in codeF : kept[k].line = all[i]
      /\ kept # <<>> => {1, Len(kept)} \subseteq codeF
      /\ \E m \in 0..Len(all) : \A k \in DOMAIN kept :
            m + k \in DOMAIN all /\ kept[k].line = all[m + k]
      /\ codeF # {} => \E k \in codeF : \E cut \in Prefixes(f[kept[k].line].indent) :
            \A i \in codeF : f[kept[i].line].indent = cut \o kept[i].indent
      /\ codeF # {} => CommonPrefixes({kept[i].indent : i \in codeF}) = {<<>>}
  BY DEF Dedented
<1> HIDE DEF codeF, codeG
<1>5. ASSUME codeF # {}
      PROVE  \E k \in codeF : \E cut \in Prefixes(g[kept[k].line].indent) :
                \A i \in codeF : g[kept[i].line].indent = cut \o kept[i].indent
  <2>1. PICK k \in codeF : \E cut \in Prefixes(f[kept[k].line].indent) :
           \A i \in codeF : f[kept[i].line].indent = cut \o kept[i].indent
    BY <1>4, <1>5
  <2>2. PICK cut \in Prefixes(f[kept[k].line].indent) :
           \A i \in codeF : f[kept[i].line].indent = cut \o kept[i].indent
    BY <2>1
  <2>3. \A i \in codeF : g[kept[i].line] = f[kept[i].line]
    BY <1>2, <1>3
  <2>4. cut \in Prefixes(g[kept[k].line].indent)
    BY <2>2, <2>3
  <2>5. \A i \in codeF : g[kept[i].line].indent = cut \o kept[i].indent
    BY <2>2, <2>3
  <2>6. QED
    BY <2>4, <2>5
<1>6. \A i \in DOMAIN all : g[all[i]].verb = "code" => \E k \in codeF : kept[k].line = all[i]
  BY <1>1, <1>4
<1>7. Dedented(kept, all, g)
  BY <1>3, <1>4, <1>5, <1>6 DEF Dedented, codeG
<1>8. QED
  BY <1>7

AllDedented == \A n \in DOMAIN out : Dedented(out[n].code, out[n].lines, file)

LEMMA DedentedStep == Regions /\ AllDedented /\ [Next]_vars => AllDedented'
<1> SUFFICES ASSUME Regions, AllDedented, [Next]_vars
             PROVE  AllDedented'
  OBVIOUS
<1> Typed
  BY DEF Regions
<1>1. ASSUME NEW lines, NEW a \in Nat, NEW b \in Nat, a >= 1, b <= Len(file),
             Exact(lines, file, a, b), Len(file) \in Nat
      PROVE  \A i \in DOMAIN lines : lines[i] \in 1..Len(file) /\ Content(file[lines[i]])
  BY <1>1 DEF Exact, Between
<1>2. Len(file) \in Nat
  BY LenProperties DEF Typed
<1>3. ASSUME NEW n \in DOMAIN out
      PROVE  \A i \in DOMAIN out[n].lines : out[n].lines[i] \in 1..Len(file)
  <2>1. /\ out[n].start \in Nat /\ out[n].end \in Nat /\ 1 <= out[n].start
        /\ out[n].start < out[n].end /\ out[n].end <= Len(file)
        /\ Exact(out[n].lines, file, out[n].start + 1, out[n].end - 1)
    BY DEF Regions, Captured
  <2>2. /\ out[n].start + 1 \in Nat /\ out[n].end - 1 \in Nat
        /\ out[n].start + 1 >= 1 /\ out[n].end - 1 <= Len(file)
    BY <1>2, <2>1
  <2>3. QED
    BY <1>1, <1>2, <2>1, <2>2
<1>4. ASSUME NEW line \in Line, Read(line)
      PROVE  \A n \in DOMAIN out : Dedented(out[n].code, out[n].lines, file')
  <2>1. \A p \in 1..Len(file) : file'[p] = file[p]
    BY <1>4, ReadAppends DEF Typed
  <2>2. ASSUME NEW n \in DOMAIN out
        PROVE  Dedented(out[n].code, out[n].lines, file')
    <3>1. PICK all, kept : all = out[n].lines /\ kept = out[n].code
      OBVIOUS
    <3>2. (\A i \in DOMAIN all : all[i] \in 1..Len(file)) /\ Dedented(kept, all, file)
      BY <1>3, <3>1 DEF AllDedented
    <3>3. Dedented(kept, all, file')
      BY <1>2, <2>1, <3>2, DedentedKept
    <3>4. QED
      BY <3>1, <3>3
  <2>3. QED
    BY <2>2
<1>5. ASSUME NEW line \in Line, Read(line), UNCHANGED out
      PROVE  AllDedented'
  BY <1>4, <1>5 DEF AllDedented
<1>6. ASSUME NEW line \in Line, EndRegion(line)
      PROVE  AllDedented'
  <2>1. PICK i \in DOMAIN open :
           out' = Append(out, [topic |-> open[i].topic, code |-> Dedent(open[i].lines),
                               lines |-> open[i].lines,
                               start |-> open[i].start, end |-> Len(file')])
    BY <1>6 DEF EndRegion
  <2>2. PICK new : /\ new.code = Dedent(open[i].lines) /\ new.lines = open[i].lines
                   /\ out' = Append(out, new)
    BY <2>1
  <2>3. PICK all : all = open[i].lines
    OBVIOUS
  <2>4. all \in Seq(Nat) /\ \A h \in DOMAIN all : all[h] \in 1..Len(file) /\ Content(file[all[h]])
    <3>1. open[i] \in OpenRegion
      BY ElementOfSeq, LenProperties DEF Typed
    <3>2. /\ open[i].start \in 1..Len(file)
          /\ Exact(open[i].lines, file, open[i].start + 1, Len(file))
      BY DEF Regions, Pending
    <3>3. QED
      BY <1>1, <1>2, <2>3, <3>1, <3>2 DEF OpenRegion
  <2>5. Dedented(new.code, all, file)
    BY <2>2, <2>3, <2>4, DedentProperties DEF Typed
  <2>6. \A p \in 1..Len(file) : file'[p] = file[p]
    BY <1>6, ReadAppends DEF EndRegion, Typed
  <2>7. Dedented(new.code, new.lines, file')
    BY <1>2, <2>2, <2>3, <2>4, <2>5, <2>6, DedentedKept
  <2>8. \A n \in DOMAIN out : Dedented(out[n].code, out[n].lines, file')
    BY <1>4, <1>6 DEF EndRegion
  <2>9. /\ DOMAIN out = 1..Len(out) /\ Len(out) \in Nat
        /\ DOMAIN out' = 1..(Len(out) + 1)
        /\ \A n \in 1..Len(out) : out'[n] = out[n]
        /\ out'[Len(out) + 1] = new
    BY <2>2, AppendAny, LenProperties DEF Typed
  <2>10. QED
    BY <2>7, <2>8, <2>9 DEF AllDedented
<1>7. CASE UNCHANGED <<file, out>>
  BY <1>7 DEF AllDedented
<1>8. QED
  BY <1>5, <1>6, <1>7
     DEF Next, Capture, BadMarker, StartRegion, StrayEnd, Stop, EndOfFile, Finished, vars

\* One and the same whitespace is cut from every code line of a snippet, none
\* that all share is left, and only the outer blank lines go.
THEOREM DedentsFaithful == Spec => []DedentFaithful
<1>1. Init => AllDedented
  BY DEF Init, AllDedented
<1>2. AllDedented => DedentFaithful
  BY DEF AllDedented, Dedented, DedentFaithful
<1>3. QED
  BY <1>1, <1>2, DedentedStep, RegionsInductive, PTL DEF Spec
=============================================================================
