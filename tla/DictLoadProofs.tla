--------------------------- MODULE DictLoadProofs ---------------------------
(***************************************************************************)
(* What the handler of dict.c fills the tables with is what the files      *)
(* declare.  The two are paired: each entry of a table with one AVP or     *)
(* command element, the last entry with the element that is still open.    *)
(* What the next element declares goes to the open one, and what the       *)
(* handler stores goes to the last entry, although the entry has moved.    *)
(***************************************************************************)
EXTENDS DictProofs

(* The nth number of a set of numbers.                                     *)
Upto(S, p) == {q \in S : q <= p}
Nth(S, n) == CHOOSE p \in S : Cardinality(Upto(S, p)) = n

(* The numbers of a finite set are its first, second and so on.            *)
LEMMA NthOf ==
  ASSUME NEW S \in SUBSET Nat, IsFiniteSet(S)
  PROVE  /\ Cardinality(S) \in Nat
         /\ \A p \in S : Nth(S, Cardinality(Upto(S, p))) = p
         /\ \A n \in 1 .. Cardinality(S) :
              Nth(S, n) \in S /\ Cardinality(Upto(S, Nth(S, n))) = n
<1> DEFINE N == Cardinality(S)
           rank == [p \in S |-> Cardinality(Upto(S, p))]
<1>1. N \in Nat
  BY FS_CardinalityType
<1>2. \A p \in S : Upto(S, p) \in SUBSET S /\ p \in Upto(S, p)
  BY DEF Upto
<1>3. \A p \in S : IsFiniteSet(Upto(S, p)) /\ Cardinality(Upto(S, p)) \in Nat
  BY <1>2, FS_Subset, FS_CardinalityType
<1>4. ASSUME NEW p \in S PROVE Cardinality(Upto(S, p)) \in 1 .. N
  <2>1. Cardinality(Upto(S, p)) <= N
    BY <1>2, FS_Subset
  <2>2. Cardinality(Upto(S, p)) # 0
    BY <1>2, <1>3, FS_EmptySet
  <2> QED  BY <1>1, <1>3, <2>1, <2>2
<1>5. ASSUME NEW p \in S, NEW r \in S, p < r
      PROVE  Cardinality(Upto(S, p)) < Cardinality(Upto(S, r))
  <2>1. \A q \in S : q \in Nat
    OBVIOUS
  <2>2. \A q \in S : q <= p => q <= r
    BY <1>5, <2>1
  <2>3. Upto(S, p) \in SUBSET Upto(S, r)
    BY <2>2 DEF Upto
  <2>4. r \in Upto(S, r) /\ r \notin Upto(S, p)
    BY <1>5, <2>1 DEF Upto
  <2> QED  BY <1>3, <2>3, <2>4, FS_Subset
<1>6. \A p, r \in S : Cardinality(Upto(S, p)) = Cardinality(Upto(S, r)) => p = r
  <2> SUFFICES ASSUME NEW p \in S, NEW r \in S, p # r,
                      Cardinality(Upto(S, p)) = Cardinality(Upto(S, r))
               PROVE  FALSE
    OBVIOUS
  <2>1. p < r \/ r < p
    OBVIOUS
  <2> QED  BY <1>3, <1>5, <2>1
<1>7. IsFiniteSet(1 .. N) /\ Cardinality(1 .. N) = N
  BY <1>1, FS_Interval
<1> HIDE DEF N
<1>8. rank \in Injection(S, 1 .. N)
  BY <1>4, <1>6 DEF Injection, IsInjective
<1>9. rank \in Surjection(S, 1 .. N)
  BY <1>7, <1>8, FS_Injection DEF N
<1>10. \A n \in 1 .. N : \E p \in S : Cardinality(Upto(S, p)) = n
  BY <1>9 DEF Surjection
<1>11. \A n \in 1 .. N : Nth(S, n) \in S /\ Cardinality(Upto(S, Nth(S, n))) = n
  BY <1>10 DEF Nth
<1>12. \A p \in S : Nth(S, Cardinality(Upto(S, p))) = p
  BY <1>4, <1>6, <1>11
<1> QED  BY <1>1, <1>11, <1>12 DEF N

(* A number above the others is the last.                                  *)
LEMMA NthGrows ==
  ASSUME NEW S \in SUBSET Nat, IsFiniteSet(S), NEW x \in Nat, \A p \in S : p < x
  PROVE  LET T == S \cup {x}
         IN /\ Cardinality(T) = Cardinality(S) + 1
            /\ \A n \in 1 .. Cardinality(S) : Nth(T, n) = Nth(S, n)
            /\ Nth(T, Cardinality(T)) = x
<1> DEFINE T == S \cup {x}
<1>1. x \notin S
  OBVIOUS
<1>2. IsFiniteSet(T) /\ Cardinality(T) = Cardinality(S) + 1
  BY <1>1, FS_AddElement
<1>3. T \in SUBSET Nat
  OBVIOUS
<1>4. \A q \in T : q <= x
  OBVIOUS
<1>5. Upto(T, x) = T
  BY <1>4 DEF Upto
<1>6. Nth(T, Cardinality(T)) = x
  BY <1>2, <1>3, <1>5, NthOf
<1>7. ASSUME NEW n \in 1 .. Cardinality(S) PROVE Nth(T, n) = Nth(S, n)
  <2> DEFINE p == Nth(S, n)
  <2>1. p \in S /\ Cardinality(Upto(S, p)) = n
    BY NthOf
  <2> HIDE DEF p
  <2>2. ~(x <= p)
    BY <2>1
  <2>3. Upto(T, p) = Upto(S, p)
    BY <2>2 DEF Upto
  <2>4. Nth(T, Cardinality(Upto(T, p))) = p
    BY <1>2, <1>3, <2>1, NthOf
  <2> QED  BY <2>1, <2>3, <2>4 DEF p
<1> QED  BY <1>2, <1>6, <1>7

(* The names of the elements in tags from first to last.                   *)
PlacesIn(s, first, last, tags) == {p \in first .. last : s[p].el \in tags}
NamesAt(s, first, last, tags) ==
  [n \in 1 .. Cardinality(PlacesIn(s, first, last, tags)) |->
     s[Nth(PlacesIn(s, first, last, tags), n)].name]

(* Names that are read stay, and one element more adds its name or         *)
(* nothing.                                                                *)
LEMMA NamesGrow ==
  ASSUME NEW s \in Seq(Elements), NEW e \in Elements, NEW first \in Nat \ {0}, NEW tags
  PROVE  LET t == Append(s, e)
             L == Len(s)
         IN /\ \A last \in 0 .. L : NamesAt(t, first, last, tags) = NamesAt(s, first, last, tags)
            /\ first <= L + 1 =>
                 NamesAt(t, first, L + 1, tags) =
                   IF e.el \in tags THEN Append(NamesAt(s, first, L, tags), e.name)
                   ELSE NamesAt(s, first, L, tags)
<1> DEFINE L == Len(s)
           t == Append(s, e)
<1>1. /\ L \in Nat /\ \A k \in 1 .. L : t[k] = s[k]
      /\ t[L + 1] = e
  OBVIOUS
<1> HIDE DEF L, t
<1>2. ASSUME NEW last \in 0 .. L
      PROVE  LET S == PlacesIn(s, first, last, tags)
             IN /\ S \in SUBSET Nat /\ S \in SUBSET (1 .. L) /\ IsFiniteSet(S)
                /\ PlacesIn(t, first, last, tags) = S
  <2> DEFINE S == PlacesIn(s, first, last, tags)
  <2>1. S \in SUBSET (first .. last)
    BY DEF PlacesIn
  <2>2. IsFiniteSet(first .. last)
    BY <1>1, FS_Interval
  <2>3. \A p \in first .. last : p \in 1 .. L /\ p \in Nat
    BY <1>1
  <2>4. PlacesIn(t, first, last, tags) = S
    BY <1>1, <2>3 DEF PlacesIn
  <2> QED  BY <2>1, <2>2, <2>3, <2>4, FS_Subset
<1>3. ASSUME NEW last \in 0 .. L
      PROVE  NamesAt(t, first, last, tags) = NamesAt(s, first, last, tags)
  <2> DEFINE S == PlacesIn(s, first, last, tags)
  <2>1. S \in SUBSET Nat /\ IsFiniteSet(S) /\ S \in SUBSET (1 .. L) /\ PlacesIn(t, first, last, tags) = S
    BY <1>2
  <2> HIDE DEF S
  <2>2. \A n \in 1 .. Cardinality(S) : Nth(S, n) \in S
    BY <2>1, NthOf
  <2>3. \A n \in 1 .. Cardinality(S) : t[Nth(S, n)] = s[Nth(S, n)]
    BY <1>1, <2>1, <2>2
  <2> QED  BY <2>1, <2>3 DEF NamesAt, S
<1>4. ASSUME first <= L + 1
      PROVE  NamesAt(t, first, L + 1, tags) =
                   IF e.el \in tags THEN Append(NamesAt(s, first, L, tags), e.name)
                   ELSE NamesAt(s, first, L, tags)
  <2> DEFINE S == PlacesIn(s, first, L, tags)
             T == PlacesIn(t, first, L + 1, tags)
  <2>1. S \in SUBSET Nat /\ IsFiniteSet(S) /\ S \in SUBSET (1 .. L) /\ PlacesIn(t, first, L, tags) = S
    BY <1>1, <1>2
  <2>2. \A p : p \in first .. L + 1 <=> p \in first .. L \/ p = L + 1
    BY <1>1, <1>4
  <2>3. T = IF e.el \in tags THEN S \cup {L + 1} ELSE S
    BY <1>1, <2>1, <2>2 DEF PlacesIn
  <2> HIDE DEF S, T
  <2>4. Cardinality(S) \in Nat /\ \A n \in 1 .. Cardinality(S) : Nth(S, n) \in S
    BY <2>1, NthOf
  <2>5. \A n \in 1 .. Cardinality(S) : t[Nth(S, n)] = s[Nth(S, n)]
    BY <1>1, <2>1, <2>4
  <2>6. CASE e.el \notin tags
    BY <2>3, <2>5, <2>6 DEF NamesAt, S, T
  <2>7. CASE e.el \in tags
    <3>1. T = S \cup {L + 1}
      BY <2>3, <2>7
    <3>2. L + 1 \in Nat /\ \A p \in S : p < L + 1
      BY <1>1, <2>1
    <3>3. /\ Cardinality(T) = Cardinality(S) + 1
          /\ \A n \in 1 .. Cardinality(S) : Nth(T, n) = Nth(S, n)
          /\ Nth(T, Cardinality(T)) = L + 1
      <4> DEFINE x == L + 1
      <4>1. x \in Nat /\ \A p \in S : p < x
        BY <3>2
      <4> HIDE DEF x
      <4>2. /\ Cardinality(S \cup {x}) = Cardinality(S) + 1
            /\ \A n \in 1 .. Cardinality(S) : Nth(S \cup {x}, n) = Nth(S, n)
            /\ Nth(S \cup {x}, Cardinality(S \cup {x})) = x
        BY <2>1, <4>1, NthGrows
      <4> QED  BY <3>1, <4>2 DEF x
    <3> DEFINE names == NamesAt(s, first, L, tags)
               more == NamesAt(t, first, L + 1, tags)
               c == Cardinality(S)
    <3>4. names = [n \in 1 .. c |-> s[Nth(S, n)].name]
      BY DEF NamesAt, S
    <3>5. more = [n \in 1 .. Cardinality(T) |-> t[Nth(T, n)].name]
      BY DEF NamesAt, T
    <3> HIDE DEF names, more, c
    <3>6. more = [n \in 1 .. c + 1 |-> t[Nth(T, n)].name]
      BY <3>3, <3>5 DEF c
    <3>7. \A n \in 1 .. c + 1 : t[Nth(T, n)].name = IF n <= c THEN names[n] ELSE e.name
      <4>1. ASSUME NEW n \in 1 .. c + 1
            PROVE  t[Nth(T, n)].name = IF n <= c THEN names[n] ELSE e.name
        <5>1. CASE n <= c
          <6>1. n \in 1 .. c
            BY <2>4, <5>1 DEF c
          <6> QED  BY <2>5, <3>3, <3>4, <5>1, <6>1 DEF c
        <5>2. CASE ~(n <= c)
          <6>1. n = c + 1
            BY <2>4, <5>2 DEF c
          <6> QED  BY <1>1, <3>3, <5>2, <6>1 DEF c
        <5> QED  BY <5>1, <5>2
      <4> QED  BY <4>1
    <3>8. names \in Seq(Names) /\ Len(names) = c
      <4>1. \A n \in 1 .. c : s[Nth(S, n)].name \in Names
        <5>1. \A n \in 1 .. c : Nth(S, n) \in 1 .. L
          BY <2>1, <2>4 DEF c
        <5>2. \A p \in 1 .. L : s[p] \in Elements
          BY DEF L
        <5> QED  BY <5>1, <5>2 DEF Elements
      <4>2. names \in [1 .. c -> Names]
        BY <3>4, <4>1
      <4> QED  BY <2>4, <4>2, IsASeqOfLength DEF c
    <3>9. Append(names, e.name) = [n \in 1 .. c + 1 |-> IF n <= c THEN names[n] ELSE e.name]
      BY <3>8
    <3> QED  BY <2>7, <3>6, <3>7, <3>9 DEF names, more
  <2> QED  BY <2>6, <2>7
<1> QED  BY <1>3, <1>4 DEF L, t

(* No place, no name.                                                      *)
LEMMA NoNames ==
  ASSUME NEW s, NEW first \in Nat, NEW last \in Nat, last < first, NEW tags
  PROVE  NamesAt(s, first, last, tags) = << >>
<1>1. PlacesIn(s, first, last, tags) = {}
  BY DEF PlacesIn
<1>2. Cardinality(PlacesIn(s, first, last, tags)) = 0
  BY <1>1, FS_EmptySet
<1>3. NamesAt(s, first, last, tags) = [n \in 1 .. 0 |-> s[Nth(PlacesIn(s, first, last, tags), n)].name]
  BY <1>2 DEF NamesAt
<1> QED  BY <1>3
-----------------------------------------------------------------------------
(* How far the elements in tags reach after place k.                       *)
Reaches(s, k, tags, n) ==
  /\ \A m \in k + 1 .. n : s[m].el \in tags
  /\ n = Len(s) \/ s[n + 1].el \notin tags
UntilAt(s, k, tags) == CHOOSE n \in k .. Len(s) : Reaches(s, k, tags, n)

(* They reach one place.                                                   *)
LEMMA UntilIs ==
  ASSUME NEW s \in Seq(Elements), NEW k \in 0 .. Len(s), NEW tags
  PROVE  /\ UntilAt(s, k, tags) \in k .. Len(s)
         /\ Reaches(s, k, tags, UntilAt(s, k, tags))
         /\ \A n \in k .. Len(s) : Reaches(s, k, tags, n) => n = UntilAt(s, k, tags)
<1> DEFINE L == Len(s)
           stops == {n \in k .. L : n = L \/ s[n + 1].el \notin tags}
<1>1. L \in Nat /\ k \in Nat /\ k <= L
  OBVIOUS
<1> HIDE DEF L
<1>2. L \in stops /\ stops \in SUBSET Nat
  BY <1>1
<1>3. PICK n \in stops : \A m \in stops : n <= m
  BY <1>2, LeastOf
<1>4. ASSUME NEW m \in k + 1 .. n PROVE s[m].el \in tags
  <2>1. m - 1 \in k .. L /\ ~(n <= m - 1) /\ m - 1 # L /\ (m - 1) + 1 = m
    BY <1>1, <1>3
  <2>2. m - 1 \notin stops
    BY <1>3, <2>1
  <2> QED  BY <2>1, <2>2
<1>5. n \in k .. L /\ Reaches(s, k, tags, n)
  BY <1>3, <1>4 DEF Reaches, L
<1>6. UntilAt(s, k, tags) \in k .. L /\ Reaches(s, k, tags, UntilAt(s, k, tags))
  BY <1>5 DEF UntilAt, L
<1>7. ASSUME NEW m \in k .. L, NEW j \in k .. L, Reaches(s, k, tags, m), Reaches(s, k, tags, j), m < j
      PROVE  FALSE
  <2>1. m + 1 \in k + 1 .. j /\ m # L
    BY <1>1, <1>7
  <2> QED  BY <1>7, <2>1 DEF Reaches, L
<1>8. \A m \in k .. L : Reaches(s, k, tags, m) => m = UntilAt(s, k, tags)
  <2> SUFFICES ASSUME NEW m \in k .. L, Reaches(s, k, tags, m), m # UntilAt(s, k, tags)
               PROVE  FALSE
    OBVIOUS
  <2>1. m < UntilAt(s, k, tags) \/ UntilAt(s, k, tags) < m
    BY <1>1, <1>6
  <2> QED  BY <1>6, <1>7, <2>1
<1> QED  BY <1>6, <1>8 DEF L

(* One element more reaches further only from the end.                     *)
LEMMA UntilGrows ==
  ASSUME NEW s \in Seq(Elements), NEW e \in Elements, NEW k \in 0 .. Len(s), NEW tags
  PROVE  UntilAt(Append(s, e), k, tags) =
           IF UntilAt(s, k, tags) = Len(s) /\ e.el \in tags THEN Len(s) + 1
           ELSE UntilAt(s, k, tags)
<1> DEFINE L == Len(s)
           t == Append(s, e)
           u == UntilAt(s, k, tags)
           new == IF u = L /\ e.el \in tags THEN L + 1 ELSE u
<1>1. /\ L \in Nat /\ Len(t) = L + 1 /\ t \in Seq(Elements) /\ k \in 0 .. L + 1
      /\ \A p \in 1 .. L : t[p] = s[p]
      /\ t[L + 1] = e /\ k \in Nat
  OBVIOUS
<1>2. u \in k .. L /\ Reaches(s, k, tags, u)
  BY UntilIs
<1> HIDE DEF L, t, u
<1>3. /\ \A m \in k + 1 .. u : t[m].el \in tags
      /\ u = L \/ t[u + 1].el \notin tags
  <2>1. \A m \in k + 1 .. u : m \in 1 .. L
    BY <1>1, <1>2
  <2>2. u # L => u + 1 \in 1 .. L
    BY <1>1, <1>2
  <2> QED  BY <1>1, <1>2, <2>1, <2>2 DEF Reaches, L
<1>4. new \in k .. L + 1
  BY <1>1, <1>2
<1>5. Reaches(t, k, tags, new)
  <2>1. CASE u = L /\ e.el \in tags
    <3>1. \A m \in k + 1 .. L + 1 : m = L + 1 \/ m \in k + 1 .. u
      BY <1>1, <2>1
    <3> QED  BY <1>1, <1>3, <2>1, <3>1 DEF Reaches
  <2>2. CASE ~(u = L /\ e.el \in tags)
    BY <1>1, <1>3, <2>2 DEF Reaches
  <2> QED  BY <2>1, <2>2
<1>6. new = UntilAt(t, k, tags)
  BY <1>1, <1>4, <1>5, UntilIs
<1> QED  BY <1>6 DEF L, t, u

(* They reach the end if nothing else comes after k.                       *)
LEMMA UntilEnd ==
  ASSUME NEW s \in Seq(Elements), NEW k \in 0 .. Len(s), NEW tags
  PROVE  UntilAt(s, k, tags) = Len(s) <=> \A m \in k + 1 .. Len(s) : s[m].el \in tags
<1>1. Len(s) \in k .. Len(s)
  OBVIOUS
<1> QED  BY <1>1, UntilIs DEF Reaches

(* The names in inner below the element at k.                              *)
ListAt(s, k, outer, inner) == NamesAt(s, k + 1, UntilAt(s, k, outer), inner)

(* The list below an element grows at its end, while it is open.           *)
LEMMA ListGrows ==
  ASSUME NEW s \in Seq(Elements), NEW e \in Elements, NEW k \in 0 .. Len(s),
         NEW outer, NEW inner \in SUBSET outer
  PROVE  /\ ListAt(Append(s, e), k, outer, inner) =
              IF UntilAt(s, k, outer) = Len(s) /\ e.el \in inner
              THEN Append(ListAt(s, k, outer, inner), e.name)
              ELSE ListAt(s, k, outer, inner)
         /\ k = Len(s) => ListAt(s, k, outer, inner) = << >>
<1> DEFINE L == Len(s)
           t == Append(s, e)
           u == UntilAt(s, k, outer)
<1>1. L \in Nat /\ k \in Nat /\ k <= L /\ k + 1 \in Nat \ {0} /\ u \in k .. L
  BY UntilIs
<1>2. UntilAt(t, k, outer) = IF u = L /\ e.el \in outer THEN L + 1 ELSE u
  BY UntilGrows
<1>3. /\ \A last \in 0 .. L : NamesAt(t, k + 1, last, inner) = NamesAt(s, k + 1, last, inner)
      /\ k + 1 <= L + 1 =>
           NamesAt(t, k + 1, L + 1, inner) =
             IF e.el \in inner THEN Append(NamesAt(s, k + 1, L, inner), e.name)
             ELSE NamesAt(s, k + 1, L, inner)
  BY <1>1, NamesGrow
<1> HIDE DEF L, t, u
<1>4. u \in 0 .. L
  BY <1>1
<1>5. CASE u = L /\ e.el \in outer
  BY <1>1, <1>2, <1>3, <1>5, NoNames DEF ListAt, L, t, u
<1>6. CASE ~(u = L /\ e.el \in outer)
  <2>1. ListAt(t, k, outer, inner) = ListAt(s, k, outer, inner)
    BY <1>2, <1>3, <1>4, <1>6 DEF ListAt, u
  <2>2. ~(u = L /\ e.el \in inner)
    BY <1>6
  <2>3. k = L => u < k + 1 /\ u \in Nat
    BY <1>1
  <2>4. k = L => ListAt(s, k, outer, inner) = << >>
    BY <1>1, <2>3, NoNames DEF ListAt, u
  <2> QED  BY <2>1, <2>2, <2>4 DEF L, t, u
<1> QED  BY <1>5, <1>6
-----------------------------------------------------------------------------
(* The elements that lie in an AVP, in a command and in a list of rules.   *)
AvpTags == {"type", "grouped", "section", "avprule", "enum"}
CmdTags == {"requestrules", "answerrules", "avprule", "section"}
RuleTags == {"avprule", "section"}

(* The elements of a tag that the next element can still belong to.        *)
PlacesOf(s, tag) == {k \in DOMAIN s : s[k].el = tag}
OpenIn(s, tag, tags) == {k \in PlacesOf(s, tag) : \A m \in k + 1 .. Len(s) : s[m].el \in tags}
OpenAvps(s) == OpenIn(s, "avp", AvpTags)
OpenCmds(s) == OpenIn(s, "command", CmdTags)

(* The last element is in a list of rules that begins with tag.            *)
In(s, tag) == Within(s, Len(s), tag, RuleTags)

(* An element stays open while its own come.                               *)
LEMMA OpenGrows ==
  ASSUME NEW s \in Seq(Elements), NEW e \in Elements, NEW tag, NEW tags
  PROVE  /\ PlacesOf(Append(s, e), tag) = PlacesOf(s, tag) \cup (IF e.el = tag THEN {Len(s) + 1} ELSE {})
         /\ OpenIn(Append(s, e), tag, tags) =
              (IF e.el \in tags THEN OpenIn(s, tag, tags) ELSE {})
                \cup (IF e.el = tag THEN {Len(s) + 1} ELSE {})
<1> DEFINE L == Len(s)
           t == Append(s, e)
<1>1. /\ L \in Nat /\ Len(t) = L + 1 /\ DOMAIN s = 1 .. L /\ DOMAIN t = 1 .. L + 1
      /\ \A p \in 1 .. L : t[p] = s[p]
      /\ t[L + 1] = e
  OBVIOUS
<1> HIDE DEF L, t
<1>2. \A k : k \in PlacesOf(t, tag) <=> k \in PlacesOf(s, tag) \/ (k = L + 1 /\ e.el = tag)
  <2>1. \A k : k \in 1 .. L + 1 <=> k \in 1 .. L \/ k = L + 1
    BY <1>1
  <2> QED  BY <1>1, <2>1 DEF PlacesOf
<1>3. ASSUME NEW k
      PROVE  k \in OpenIn(t, tag, tags) <=> \/ e.el \in tags /\ k \in OpenIn(s, tag, tags)
                                            \/ k = L + 1 /\ e.el = tag
  <2>1. CASE k = L + 1
    <3>1. k \notin PlacesOf(s, tag) /\ k + 1 .. L + 1 = {}
      BY <1>1, <2>1 DEF PlacesOf
    <3> QED  BY <1>1, <1>2, <2>1, <3>1 DEF OpenIn
  <2>2. CASE k # L + 1 /\ k \in PlacesOf(s, tag)
    <3>1. k \in 1 .. L
      BY <1>1, <2>2 DEF PlacesOf
    <3>2. \A m : m \in k + 1 .. L + 1 <=> m \in k + 1 .. L \/ m = L + 1
      BY <1>1, <3>1
    <3>3. \A m \in k + 1 .. L : t[m] = s[m]
      BY <1>1, <3>1
    <3> QED  BY <1>1, <1>2, <2>2, <3>2, <3>3 DEF OpenIn, L
  <2>3. CASE k # L + 1 /\ k \notin PlacesOf(s, tag)
    BY <1>2, <2>3 DEF OpenIn
  <2> QED  BY <2>1, <2>2, <2>3
<1>4. PlacesOf(t, tag) = PlacesOf(s, tag) \cup (IF e.el = tag THEN {L + 1} ELSE {})
  BY <1>2
<1>5. OpenIn(t, tag, tags) =
         (IF e.el \in tags THEN OpenIn(s, tag, tags) ELSE {}) \cup (IF e.el = tag THEN {L + 1} ELSE {})
  BY <1>3
<1> QED  BY <1>4, <1>5 DEF L, t

(* At most one AVP or command is open.                                     *)
LEMMA OneIsOpen ==
  ASSUME NEW s \in Seq(Elements)
  PROVE  /\ \A j, k \in OpenAvps(s) : j = k
         /\ \A j, k \in OpenCmds(s) : j = k
         /\ OpenAvps(s) = {} \/ OpenCmds(s) = {}
         /\ s # << >> /\ s[Len(s)].el = "avp" => OpenAvps(s) = {Len(s)}
         /\ s # << >> /\ s[Len(s)].el = "command" => OpenCmds(s) = {Len(s)}
<1> DEFINE L == Len(s)
<1>1. L \in Nat /\ DOMAIN s = 1 .. L
  OBVIOUS
<1>2. ASSUME NEW tag, NEW tags, NEW tag2, NEW tags2, tag \notin tags2, tag2 \notin tags
      PROVE  \A j \in OpenIn(s, tag, tags) : \A k \in OpenIn(s, tag2, tags2) : j = k
  <2> SUFFICES ASSUME NEW j \in OpenIn(s, tag, tags), NEW k \in OpenIn(s, tag2, tags2), j # k
               PROVE  FALSE
    OBVIOUS
  <2>1. j \in 1 .. L /\ k \in 1 .. L /\ s[j].el = tag /\ s[k].el = tag2
    BY <1>1 DEF OpenIn, PlacesOf
  <2>2. k \in j + 1 .. L \/ j \in k + 1 .. L
    BY <1>1, <2>1
  <2>3. /\ \A m \in j + 1 .. L : s[m].el \in tags
        /\ \A m \in k + 1 .. L : s[m].el \in tags2
    BY DEF OpenIn
  <2> QED  BY <1>2, <2>1, <2>2, <2>3
<1>3. "avp" \notin AvpTags /\ "command" \notin CmdTags /\ "avp" \notin CmdTags /\ "command" \notin AvpTags
  BY DEF AvpTags, CmdTags
<1>4. \A j, k \in OpenAvps(s) : j = k
  BY <1>2, <1>3 DEF OpenAvps
<1>5. \A j, k \in OpenCmds(s) : j = k
  BY <1>2, <1>3 DEF OpenCmds
<1>6. ASSUME NEW j \in OpenAvps(s), NEW k \in OpenCmds(s) PROVE FALSE
  <2>1. j = k
    BY <1>2, <1>3 DEF OpenAvps, OpenCmds
  <2> QED  BY <2>1 DEF OpenAvps, OpenCmds, OpenIn, PlacesOf
<1>7. \A tag, tags : s # << >> /\ s[L].el = tag => L \in OpenIn(s, tag, tags)
  <2>1. s # << >> => L \in 1 .. L /\ L + 1 .. L = {}
    BY <1>1
  <2> QED  BY <1>1, <2>1 DEF OpenIn, PlacesOf
<1> QED  BY <1>4, <1>5, <1>6, <1>7 DEF OpenAvps, OpenCmds

(* The rules of a section, one element further.                            *)
LEMMA InGrows ==
  ASSUME NEW s \in Seq(Elements), NEW e \in Elements, NEW tag
  PROVE  In(Append(s, e), tag) <=> e.el = tag \/ (e.el \in RuleTags /\ In(s, tag))
<1> DEFINE L == Len(s)
           t == Append(s, e)
<1>1. /\ L \in Nat /\ Len(t) = L + 1 /\ t \in Seq(Elements) /\ L + 1 \in 1 .. Len(t) /\ (L + 1) - 1 = L
      /\ \A p \in 1 .. L : t[p] = s[p]
      /\ t[L + 1] = e
  OBVIOUS
<1> HIDE DEF L, t
<1>2. Within(t, L + 1, tag, RuleTags) <=>
        t[L + 1].el = tag \/ (t[L + 1].el \in RuleTags /\ Within(t, (L + 1) - 1, tag, RuleTags))
  BY <1>1, NestingGrows
<1>3. Within(t, L, tag, RuleTags) <=> Within(s, L, tag, RuleTags)
  <2>1. \A j \in 1 .. L : \A m \in j + 1 .. L : m \in 1 .. L
    BY <1>1
  <2> QED  BY <1>1, <2>1 DEF Within
<1> QED  BY <1>1, <1>2, <1>3 DEF In, L, t

(* Rules lie in one list.                                                  *)
LEMMA InOne ==
  ASSUME NEW s \in Seq(Elements), NEW tag1, NEW tag2, tag1 \notin RuleTags, tag2 \notin RuleTags,
         In(s, tag1), In(s, tag2)
  PROVE  tag1 = tag2
<1>1. PICK j \in 1 .. Len(s) : s[j].el = tag1 /\ \A m \in j + 1 .. Len(s) : s[m].el \in RuleTags
  BY DEF In, Within
<1>2. PICK k \in 1 .. Len(s) : s[k].el = tag2 /\ \A m \in k + 1 .. Len(s) : s[m].el \in RuleTags
  BY DEF In, Within
<1>3. j = k \/ k \in j + 1 .. Len(s) \/ j \in k + 1 .. Len(s)
  OBVIOUS
<1> QED  BY <1>1, <1>2, <1>3
-----------------------------------------------------------------------------
(* What the elements of a sequence declare, as Dict says it of seen: these *)
(* operators take the sequence, so that one and its successor compare.     *)
ElementsBelow(s, k, outer, inner) == {p \in k + 1 .. UntilAt(s, k, outer) : s[p].el \in inner}

TypesBelow(s, k) == ElementsBelow(s, k, AvpTags, {"type", "grouped"})
TypeNamed(s, p) == IF s[p].el = "grouped" THEN "grouped" ELSE s[p].name
TypeAt(s, k) ==
  IF TypesBelow(s, k) = {} THEN NoName ELSE TypeNamed(s, CHOOSE x \in TypesBelow(s, k) : TRUE)

Members(s, k) == ListAt(s, k, AvpTags, {"avprule", "enum"})
AvpAt(s, k) ==
  [name |-> s[k].name, code |-> s[k].code, type_name |-> TypeAt(s, k), members |-> Members(s, k)]

SectionsBelow(s, k, tag) == ElementsBelow(s, k, CmdTags, {tag})
Rules(s, p) == ListAt(s, p, RuleTags, {"avprule"})
SectionAt(s, k, tag) ==
  IF SectionsBelow(s, k, tag) = {} THEN << >>
  ELSE Rules(s, CHOOSE x \in SectionsBelow(s, k, tag) : TRUE)
CmdAt(s, k) ==
  [name |-> s[k].name, code |-> s[k].code,
   req |-> SectionAt(s, k, "requestrules"), ans |-> SectionAt(s, k, "answerrules")]

AvpsOf(s) == [k \in PlacesOf(s, "avp") |-> AvpAt(s, k)]
CmdsOf(s) == [k \in PlacesOf(s, "command") |-> CmdAt(s, k)]

(* They are what seen declares.                                            *)
LEMMA DeclaredAre ==
  /\ [k \in Declared("avp") |-> DeclaredAvp(k)] = AvpsOf(seen)
  /\ [k \in Declared("command") |-> DeclaredCmd(k)] = CmdsOf(seen)
<1>1. \A k, tags : Until(k, tags) = UntilAt(seen, k, tags)
  BY DEF Until, UntilAt, Reaches
<1>2. \A first, last, tags : NamesIn(first, last, tags) = NamesAt(seen, first, last, tags)
  BY DEF NamesIn, NamesAt, PlacesIn, Nth, Upto
<1>3. \A k : DeclaredAvp(k) = AvpAt(seen, k)
  BY <1>1, <1>2 DEF DeclaredAvp, AvpAt, TypeAt, TypesBelow, ElementsBelow, TypeNamed, Members, ListAt, AvpTags
<1>4. \A k, tag : Section(k, tag) = SectionAt(seen, k, tag)
  <2> SUFFICES ASSUME NEW k, NEW tag PROVE Section(k, tag) = SectionAt(seen, k, tag)
    OBVIOUS
  <2>1. {p \in k + 1 .. Until(k, CmdTags) : seen[p].el = tag} = SectionsBelow(seen, k, tag)
    BY <1>1 DEF SectionsBelow, ElementsBelow
  <2>2. \A p : NamesIn(p + 1, Until(p, RuleTags), {"avprule"}) = Rules(seen, p)
    BY <1>1, <1>2 DEF Rules, ListAt
  <2>3. Section(k, tag) =
          LET opens == {p \in k + 1 .. Until(k, CmdTags) : seen[p].el = tag}
              p == CHOOSE x \in opens : TRUE
          IN IF opens = {} THEN << >> ELSE NamesIn(p + 1, Until(p, RuleTags), {"avprule"})
    BY DEF Section, CmdTags, RuleTags
  <2> QED  BY <2>1, <2>2, <2>3, Zenon DEF SectionAt
<1>5. \A k : DeclaredCmd(k) = CmdAt(seen, k)
  BY <1>4 DEF DeclaredCmd, CmdAt
<1>6. \A tag : Declared(tag) = PlacesOf(seen, tag)
  BY DEF Declared, PlacesOf
<1> QED  BY <1>3, <1>5, <1>6 DEF AvpsOf, CmdsOf

(* The elements in some tags below an element, one element further.        *)
LEMMA BelowGrows ==
  ASSUME NEW s \in Seq(Elements), NEW e \in Elements, NEW k \in 0 .. Len(s),
         NEW outer, NEW inner \in SUBSET outer
  PROVE  ElementsBelow(Append(s, e), k, outer, inner) =
           ElementsBelow(s, k, outer, inner)
             \cup (IF UntilAt(s, k, outer) = Len(s) /\ e.el \in inner THEN {Len(s) + 1} ELSE {})
<1> DEFINE L == Len(s)
           t == Append(s, e)
           u == UntilAt(s, k, outer)
<1>1. /\ L \in Nat /\ k \in Nat /\ u \in k .. L
      /\ \A p \in 1 .. L : t[p] = s[p]
      /\ t[L + 1] = e
  BY UntilIs
<1>2. UntilAt(t, k, outer) = IF u = L /\ e.el \in outer THEN L + 1 ELSE u
  BY UntilGrows
<1> HIDE DEF L, t, u
<1>3. \A p : p \in k + 1 .. UntilAt(t, k, outer) <=>
               p \in k + 1 .. u \/ (p = L + 1 /\ u = L /\ e.el \in outer)
  BY <1>1, <1>2
<1>4. \A p \in k + 1 .. u : p \in 1 .. L /\ t[p] = s[p]
  BY <1>1
<1>5. {p \in k + 1 .. UntilAt(t, k, outer) : t[p].el \in inner} =
        {p \in k + 1 .. u : s[p].el \in inner} \cup (IF u = L /\ e.el \in inner THEN {L + 1} ELSE {})
  BY <1>1, <1>3, <1>4
<1> QED  BY <1>5 DEF ElementsBelow, L, t, u

(* What an AVP declares, one element further: only the open AVP changes.   *)
LEMMA AvpGrows ==
  ASSUME NEW s \in Seq(Elements), NEW e \in Elements, NEW k \in PlacesOf(s, "avp")
  PROVE  LET t == Append(s, e)
         IN /\ t[k] = s[k]
            /\ k \notin OpenAvps(s) \/ e.el \notin AvpTags \/ e.el = "section" =>
                 AvpAt(t, k) = AvpAt(s, k)
            /\ k \in OpenAvps(s) /\ e.el \in {"avprule", "enum"} =>
                 TypeAt(t, k) = TypeAt(s, k) /\ Members(t, k) = Append(Members(s, k), e.name)
            /\ k = Len(s) => TypeAt(s, k) = NoName /\ Members(s, k) = << >>
            /\ k = Len(s) /\ e.el \in {"type", "grouped"} =>
                 /\ TypeAt(t, k) = IF e.el = "grouped" THEN "grouped" ELSE e.name
                 /\ Members(t, k) = << >>
<1> DEFINE L == Len(s)
           t == Append(s, e)
           open == UntilAt(s, k, AvpTags) = L
           isType == e.el \in {"type", "grouped"}
<1>1. /\ L \in Nat /\ k \in 1 .. L /\ k \in 0 .. L /\ t[k] = s[k] /\ t[L + 1] = e
      /\ \A p \in 1 .. L : t[p] = s[p]
  BY DEF PlacesOf
<1>2. open <=> k \in OpenAvps(s)
  BY <1>1, UntilEnd DEF OpenAvps, OpenIn
<1>3. {"type", "grouped"} \in SUBSET AvpTags /\ {"avprule", "enum"} \in SUBSET AvpTags
  BY DEF AvpTags
<1>4. /\ Members(t, k) = IF open /\ e.el \in {"avprule", "enum"}
                         THEN Append(Members(s, k), e.name) ELSE Members(s, k)
      /\ k = L => Members(s, k) = << >>
  BY <1>1, <1>3, ListGrows DEF Members
<1>5. TypesBelow(t, k) = TypesBelow(s, k) \cup (IF open /\ isType THEN {L + 1} ELSE {})
  BY <1>1, <1>3, BelowGrows DEF TypesBelow
<1>6. TypesBelow(s, k) \in SUBSET (1 .. L)
  <2>1. UntilAt(s, k, AvpTags) \in k .. L
    BY <1>1, UntilIs
  <2>2. \A p \in k + 1 .. UntilAt(s, k, AvpTags) : p \in 1 .. L
    BY <1>1, <2>1
  <2> QED  BY <2>2 DEF TypesBelow, ElementsBelow
<1> HIDE DEF L, t, open
<1>7. ASSUME ~(open /\ isType) PROVE TypeAt(t, k) = TypeAt(s, k)
  <2>1. TypesBelow(t, k) = TypesBelow(s, k)
    BY <1>5, <1>7
  <2>2. CASE TypesBelow(s, k) = {}
    BY <2>1, <2>2 DEF TypeAt
  <2>3. CASE TypesBelow(s, k) # {}
    <3> DEFINE p == CHOOSE x \in TypesBelow(s, k) : TRUE
    <3>1. p \in TypesBelow(s, k)
      BY <2>3
    <3> HIDE DEF p
    <3>2. t[p] = s[p]
      BY <1>1, <1>6, <3>1
    <3>3. TypeNamed(t, p) = TypeNamed(s, p)
      BY <3>2 DEF TypeNamed
    <3> QED  BY <2>1, <2>3, <3>3 DEF TypeAt, p
  <2> QED  BY <2>2, <2>3
<1>8. ASSUME k = L PROVE TypesBelow(s, k) = {}
  <2>1. UntilAt(s, k, AvpTags) \in k .. L
    BY <1>1, UntilIs DEF L
  <2>2. k + 1 .. UntilAt(s, k, AvpTags) = {}
    BY <1>1, <1>8, <2>1
  <2> QED  BY <2>2 DEF TypesBelow, ElementsBelow
<1>9. k = L => open
  <2>1. UntilAt(s, k, AvpTags) \in k .. L
    BY <1>1, UntilIs DEF L
  <2> QED  BY <1>1, <2>1 DEF open
<1>10. ASSUME k = L, isType
       PROVE  TypeAt(t, k) = IF e.el = "grouped" THEN "grouped" ELSE e.name
  <2>1. TypesBelow(t, k) = {L + 1}
    BY <1>5, <1>8, <1>9, <1>10
  <2>2. (CHOOSE x \in TypesBelow(t, k) : TRUE) = L + 1
    BY <2>1
  <2> QED  BY <1>1, <2>1, <2>2 DEF TypeAt, TypeNamed
<1>11. ASSUME ~open \/ e.el \notin AvpTags \/ e.el = "section"
       PROVE  AvpAt(t, k) = AvpAt(s, k)
  <2>1. ~(open /\ isType) /\ ~(open /\ e.el \in {"avprule", "enum"})
    BY <1>11 DEF AvpTags
  <2> QED  BY <1>1, <1>4, <1>7, <2>1 DEF AvpAt
<1>12. e.el \in {"avprule", "enum"} => ~isType
  OBVIOUS
<1>13. k = L => TypeAt(s, k) = NoName
  BY <1>8 DEF TypeAt
<1> QED  BY <1>1, <1>2, <1>4, <1>7, <1>10, <1>11, <1>12, <1>13 DEF L, t

(* The rules of a section, one element further: only a rule of that        *)
(* section of the open command adds to them.                               *)
LEMMA SectionGrows ==
  ASSUME NEW s \in Seq(Elements), NEW e \in Elements, NEW k \in PlacesOf(s, "command"),
         NEW tag \in {"requestrules", "answerrules"},
         k \in OpenCmds(s) =>
           /\ \A p, q \in k + 1 .. Len(s) : s[p].el = tag /\ s[q].el = tag => p = q
           /\ e.el = tag => \A p \in k + 1 .. Len(s) : s[p].el # tag
  PROVE  SectionAt(Append(s, e), k, tag) =
           IF k \in OpenCmds(s) /\ e.el = "avprule" /\ In(s, tag)
           THEN Append(SectionAt(s, k, tag), e.name) ELSE SectionAt(s, k, tag)
<1> DEFINE L == Len(s)
           t == Append(s, e)
           u == UntilAt(s, k, CmdTags)
           below == SectionsBelow(s, k, tag)
<1>1. /\ L \in Nat /\ k \in 1 .. L /\ k \in 0 .. L /\ t[L + 1] = e
      /\ \A p \in 1 .. L : t[p] = s[p] /\ s[k].el = "command" /\ t \in Seq(Elements)
      /\ Len(t) = L + 1
  BY DEF PlacesOf
<1>2. u = L <=> k \in OpenCmds(s)
  BY <1>1, UntilEnd DEF OpenCmds, OpenIn
<1>3. u \in k .. L /\ Reaches(s, k, CmdTags, u)
  BY <1>1, UntilIs
<1>4. {tag} \in SUBSET CmdTags /\ {"avprule"} \in SUBSET RuleTags
  BY DEF CmdTags, RuleTags
<1>5. SectionsBelow(t, k, tag) = below \cup (IF u = L /\ e.el = tag THEN {L + 1} ELSE {})
  <2>1. SectionsBelow(t, k, tag) = below \cup (IF u = L /\ e.el \in {tag} THEN {L + 1} ELSE {})
    BY <1>1, <1>4, BelowGrows DEF SectionsBelow
  <2> QED  BY <2>1
<1>6. \A p \in below : p \in k + 1 .. u /\ p \in 1 .. L /\ p \in 0 .. L /\ s[p].el = tag
  <2>1. \A p \in k + 1 .. u : p \in 1 .. L /\ p \in 0 .. L
    BY <1>1, <1>3
  <2> QED  BY <2>1 DEF SectionsBelow, ElementsBelow
<1>7. ASSUME NEW p \in below
      PROVE  Rules(t, p) = IF UntilAt(s, p, RuleTags) = L /\ e.el = "avprule"
                           THEN Append(Rules(s, p), e.name) ELSE Rules(s, p)
  BY <1>4, <1>6, ListGrows DEF Rules
<1> HIDE DEF L, t, u, below
<1>8. ASSUME NEW p \in below, UntilAt(s, p, RuleTags) = L
      PROVE  u = L
  <2> SUFFICES ASSUME u # L PROVE FALSE
    OBVIOUS
  <2>1. s[u + 1].el \notin CmdTags
    BY <1>3 DEF Reaches, L
  <2>2. u + 1 \in p + 1 .. L
    BY <1>1, <1>3, <1>6
  <2>3. \A m \in p + 1 .. L : s[m].el \in RuleTags
    BY <1>6, <1>8, UntilEnd DEF L
  <2> QED  BY <2>1, <2>2, <2>3 DEF CmdTags, RuleTags
<1>9. ASSUME NEW p \in below, UntilAt(s, p, RuleTags) = L
      PROVE  In(s, tag)
  <2>1. \A m \in p + 1 .. L : s[m].el \in RuleTags
    BY <1>6, <1>9, UntilEnd DEF L
  <2> QED  BY <1>6, <2>1 DEF In, Within, L
<1>10. ASSUME u = L, In(s, tag)
       PROVE  \E p \in below : UntilAt(s, p, RuleTags) = L
  <2>1. PICK j \in 1 .. L : s[j].el = tag /\ \A m \in j + 1 .. L : s[m].el \in RuleTags
    BY <1>10 DEF In, Within, L
  <2>2. j # k /\ k \notin j + 1 .. L
    BY <1>1, <2>1 DEF RuleTags
  <2>3. j \in k + 1 .. u
    BY <1>1, <1>10, <2>2
  <2>4. j \in below
    BY <2>1, <2>3 DEF below, SectionsBelow, ElementsBelow, u
  <2>5. UntilAt(s, j, RuleTags) = L
    BY <1>6, <2>1, <2>4, UntilEnd DEF L
  <2> QED  BY <2>4, <2>5
<1>11. u = L => \A p, q \in below : p = q
  BY <1>2, <1>6 DEF L
<1>12. CASE u = L /\ e.el = tag
  <2>1. below = {}
    BY <1>2, <1>6, <1>12 DEF L
  <2>2. SectionsBelow(t, k, tag) = {L + 1}
    BY <1>5, <1>12, <2>1
  <2>3. (CHOOSE x \in SectionsBelow(t, k, tag) : TRUE) = L + 1
    BY <2>2
  <2>4. Rules(t, L + 1) = << >>
    <3>1. L + 1 \in 0 .. Len(t) /\ L + 1 = Len(t)
      BY <1>1
    <3> QED  BY <1>1, <1>4, <3>1, ListGrows DEF Rules
  <2>5. SectionAt(t, k, tag) = << >> /\ SectionAt(s, k, tag) = << >>
    BY <2>1, <2>2, <2>3, <2>4 DEF SectionAt, below
  <2>6. e.el # "avprule"
    BY <1>12
  <2> QED  BY <2>5, <2>6 DEF t
<1>13. CASE ~(u = L /\ e.el = tag) /\ below = {}
  <2>1. SectionsBelow(t, k, tag) = {}
    BY <1>5, <1>13
  <2>2. SectionAt(t, k, tag) = SectionAt(s, k, tag)
    BY <1>13, <2>1 DEF SectionAt, below
  <2>3. ~(k \in OpenCmds(s) /\ In(s, tag))
    BY <1>2, <1>10, <1>13
  <2> QED  BY <2>2, <2>3 DEF t
<1>14. CASE ~(u = L /\ e.el = tag) /\ below # {}
  <2> DEFINE p == CHOOSE x \in below : TRUE
  <2>1. p \in below
    BY <1>14
  <2>2. SectionsBelow(t, k, tag) = below
    BY <1>5, <1>14
  <2>3. SectionAt(t, k, tag) = Rules(t, p) /\ SectionAt(s, k, tag) = Rules(s, p)
    BY <1>14, <2>2 DEF SectionAt, below
  <2> HIDE DEF p
  <2>4. UntilAt(s, p, RuleTags) = L <=> u = L /\ In(s, tag)
    BY <1>8, <1>9, <1>10, <1>11, <2>1
  <2> QED  BY <1>2, <1>7, <2>1, <2>3, <2>4 DEF t
<1> QED  BY <1>12, <1>13, <1>14
-----------------------------------------------------------------------------
(* The next element fits the elements before it.                           *)
Fitted(s, e) ==
  LET previous == s[Len(s)].el
  IN /\ e.el \in AvpTags \cup CmdTags => s # << >>
     /\ e.el \in {"type", "grouped"} => previous = "avp"
     /\ e.el = "enum" => previous \in {"type", "enum"}
     /\ e.el = "requestrules" => previous = "command"
     /\ e.el = "answerrules" => InCommand(s, Len(s))
     /\ e.el \in RuleTags => In(s, "requestrules") \/ In(s, "answerrules") \/ In(s, "grouped")

(* Types, rules and enum values come while their AVP or command is open,   *)
(* and a command has one section of a kind.                                *)
Nested(s) ==
  /\ s # << >> /\ s[Len(s)].el \in {"type", "enum"} => OpenAvps(s) # {}
  /\ In(s, "grouped") => OpenAvps(s) # {}
  /\ In(s, "requestrules") \/ In(s, "answerrules") => OpenCmds(s) # {}
  /\ \A k \in OpenCmds(s) : \A tag \in {"requestrules", "answerrules"} :
       \A p, q \in k + 1 .. Len(s) : s[p].el = tag /\ s[q].el = tag => p = q

(* A section that begins is the first of its kind in the open command.     *)
LEMMA SectionIsFirst ==
  ASSUME NEW s \in Seq(Elements), NEW e \in Elements, Fitted(s, e),
         e.el \in {"requestrules", "answerrules"}
  PROVE  /\ OpenCmds(s) # {}
         /\ \A k \in OpenCmds(s) : \A p \in k + 1 .. Len(s) : s[p].el # e.el
<1>1. s # << >> /\ Len(s) \in Nat
  BY DEF Fitted, CmdTags
<1>2. CASE e.el = "requestrules"
  <2>1. OpenCmds(s) = {Len(s)}
    BY <1>1, <1>2, OneIsOpen DEF Fitted
  <2>2. Len(s) + 1 .. Len(s) = {}
    BY <1>1
  <2> QED  BY <2>1, <2>2
<1>3. CASE e.el = "answerrules"
  <2>1. PICK j \in 1 .. Len(s) :
          /\ s[j].el = "command"
          /\ \A m \in j + 1 .. Len(s) : s[m].el \in {"requestrules", "section", "avprule"}
    BY <1>3 DEF Fitted, InCommand, Within
  <2>2. j \in OpenCmds(s)
    BY <2>1 DEF OpenCmds, OpenIn, PlacesOf, CmdTags
  <2>3. \A k \in OpenCmds(s) : k = j
    BY <2>2, OneIsOpen
  <2> QED  BY <1>3, <2>1, <2>2, <2>3
<1> QED  BY <1>2, <1>3

(* Elements that fit stay nested.                                          *)
LEMMA NestedGrows ==
  ASSUME NEW s \in Seq(Elements), NEW e \in Elements, Fitted(s, e), Nested(s)
  PROVE  Nested(Append(s, e))
<1> DEFINE L == Len(s)
           t == Append(s, e)
<1>1. /\ L \in Nat /\ Len(t) = L + 1 /\ t # << >> /\ t[L + 1] = e
      /\ \A p \in 1 .. L : t[p] = s[p]
  OBVIOUS
<1>2. /\ OpenAvps(t) = (IF e.el \in AvpTags THEN OpenAvps(s) ELSE {})
                         \cup (IF e.el = "avp" THEN {L + 1} ELSE {})
      /\ OpenCmds(t) = (IF e.el \in CmdTags THEN OpenCmds(s) ELSE {})
                         \cup (IF e.el = "command" THEN {L + 1} ELSE {})
  BY OpenGrows DEF OpenAvps, OpenCmds
<1>3. \A tag : In(t, tag) <=> e.el = tag \/ (e.el \in RuleTags /\ In(s, tag))
  BY InGrows
<1> HIDE DEF t
<1>4. e.el \in {"type", "grouped"} => OpenAvps(s) # {}
  BY OneIsOpen DEF Fitted, AvpTags
<1>5. t[L + 1].el \in {"type", "enum"} => OpenAvps(t) # {}
  <2>1. e.el = "enum" => OpenAvps(s) # {}
    BY DEF Fitted, Nested, AvpTags
  <2> QED  BY <1>1, <1>2, <1>4, <2>1 DEF AvpTags
<1>6. In(t, "grouped") => OpenAvps(t) # {}
  <2>1. In(t, "grouped") => OpenAvps(s) # {} /\ e.el \in AvpTags
    BY <1>3, <1>4 DEF Nested, RuleTags, AvpTags
  <2> QED  BY <1>2, <2>1
<1>7. In(t, "requestrules") \/ In(t, "answerrules") => OpenCmds(t) # {}
  <2>1. In(t, "requestrules") \/ In(t, "answerrules") => OpenCmds(s) # {} /\ e.el \in CmdTags
    BY <1>3, SectionIsFirst DEF Nested, RuleTags, CmdTags
  <2> QED  BY <1>2, <2>1
<1>8. ASSUME NEW k \in OpenCmds(t), NEW tag \in {"requestrules", "answerrules"},
             NEW p \in k + 1 .. L + 1, NEW q \in k + 1 .. L + 1, t[p].el = tag, t[q].el = tag
      PROVE  p = q
  <2>1. CASE k = L + 1
    BY <1>1, <2>1
  <2>2. CASE k # L + 1
    <3>1. k \in OpenCmds(s) /\ k \in 1 .. L
      <4>1. k \in OpenCmds(s)
        BY <1>2, <2>2
      <4> QED  BY <4>1 DEF OpenCmds, OpenIn, PlacesOf
    <3>2. /\ \A m \in k + 1 .. L + 1 : m = L + 1 \/ m \in k + 1 .. L
          /\ \A m \in k + 1 .. L : t[m] = s[m]
      BY <1>1, <3>1
    <3>3. e.el = tag => \A m \in k + 1 .. L : s[m].el # tag
      BY <3>1, SectionIsFirst
    <3>4. \A m, n \in k + 1 .. L : s[m].el = tag /\ s[n].el = tag => m = n
      BY <3>1 DEF Nested
    <3> QED  BY <1>1, <1>8, <3>2, <3>3, <3>4
  <2> QED  BY <2>1, <2>2
<1> QED  BY <1>1, <1>5, <1>6, <1>7, <1>8 DEF Nested, t

(* What AVPs declare, one element further.                                 *)
LEMMA AvpsGrow ==
  ASSUME NEW s \in Seq(Elements), NEW e \in Elements, Fitted(s, e), Nested(s)
  PROVE  LET t == Append(s, e)
             new == IF e.el = "avp" THEN {Len(s) + 1} ELSE {}
         IN /\ DOMAIN AvpsOf(t) = DOMAIN AvpsOf(s) \cup new
            /\ DOMAIN AvpsOf(s) \cap new = {}
            /\ \A k \in new : AvpsOf(t)[k] = [name |-> e.name, code |-> e.code,
                                              type_name |-> NoName, members |-> << >>]
            /\ \A k \in DOMAIN AvpsOf(s) :
                 k \notin OpenAvps(s) \/ e.el \notin AvpTags \/ e.el = "section"
                   \/ (e.el = "avprule" /\ ~In(s, "grouped")) =>
                   AvpsOf(t)[k] = AvpsOf(s)[k]
            /\ OpenAvps(t) = (IF e.el \in AvpTags THEN OpenAvps(s) ELSE {}) \cup new
<1> DEFINE L == Len(s)
           t == Append(s, e)
           new == IF e.el = "avp" THEN {L + 1} ELSE {}
<1>1. /\ L \in Nat /\ Len(t) = L + 1 /\ t \in Seq(Elements) /\ t[L + 1] = e
  OBVIOUS
<1>2. /\ PlacesOf(t, "avp") = PlacesOf(s, "avp") \cup new
      /\ OpenAvps(t) = (IF e.el \in AvpTags THEN OpenAvps(s) ELSE {}) \cup new
  BY OpenGrows DEF OpenAvps
<1>3. DOMAIN AvpsOf(s) = PlacesOf(s, "avp") /\ DOMAIN AvpsOf(t) = PlacesOf(t, "avp")
  BY DEF AvpsOf
<1>4. L + 1 \notin PlacesOf(s, "avp")
  BY <1>1 DEF PlacesOf
<1>5. ASSUME NEW k \in PlacesOf(s, "avp"),
             k \notin OpenAvps(s) \/ e.el \notin AvpTags \/ e.el = "section"
      PROVE  AvpAt(t, k) = AvpAt(s, k)
  BY <1>5, AvpGrows
<1>6. ASSUME e.el = "avprule", ~In(s, "grouped")
      PROVE  OpenAvps(s) = {}
  BY <1>6, OneIsOpen DEF Fitted, Nested, RuleTags
<1>7. ASSUME e.el = "avp"
      PROVE  AvpAt(t, L + 1) = [name |-> e.name, code |-> e.code,
                                type_name |-> NoName, members |-> << >>]
  <2>1. L + 1 \in PlacesOf(t, "avp") /\ L + 1 = Len(t)
    BY <1>1, <1>2, <1>7
  <2>2. TypeAt(t, L + 1) = NoName /\ Members(t, L + 1) = << >>
    BY <1>1, <2>1, AvpGrows
  <2> QED  BY <1>1, <2>2 DEF AvpAt
<1> HIDE DEF t, L
<1>8. \A k \in PlacesOf(s, "avp") : AvpsOf(s)[k] = AvpAt(s, k) /\ AvpsOf(t)[k] = AvpAt(t, k)
  BY <1>2 DEF AvpsOf
<1>9. \A k \in new : AvpsOf(t)[k] = AvpAt(t, L + 1) /\ e.el = "avp"
  BY <1>2 DEF AvpsOf
<1> QED  BY <1>2, <1>3, <1>4, <1>5, <1>6, <1>7, <1>8, <1>9 DEF t, L

(* A section with the element more: a rule is added to the section it is   *)
(* in.                                                                     *)
GrownSection(s, e, k, tag) ==
  IF e.el = "avprule" /\ In(s, tag) THEN Append(SectionAt(s, k, tag), e.name)
  ELSE SectionAt(s, k, tag)

(* What commands declare, one element further.                             *)
LEMMA CmdsGrow ==
  ASSUME NEW s \in Seq(Elements), NEW e \in Elements, Fitted(s, e), Nested(s)
  PROVE  LET t == Append(s, e)
             new == IF e.el = "command" THEN {Len(s) + 1} ELSE {}
         IN /\ DOMAIN CmdsOf(t) = DOMAIN CmdsOf(s) \cup new
            /\ DOMAIN CmdsOf(s) \cap new = {}
            /\ \A k \in new : CmdsOf(t)[k] = [name |-> e.name, code |-> e.code,
                                              req |-> << >>, ans |-> << >>]
            /\ \A k \in DOMAIN CmdsOf(s) :
                 /\ k \notin OpenCmds(s) \/ e.el # "avprule" => CmdsOf(t)[k] = CmdsOf(s)[k]
                 /\ k \in OpenCmds(s) =>
                      CmdsOf(t)[k] = [name |-> s[k].name, code |-> s[k].code,
                                      req |-> GrownSection(s, e, k, "requestrules"),
                                      ans |-> GrownSection(s, e, k, "answerrules")]
            /\ OpenCmds(t) = (IF e.el \in CmdTags THEN OpenCmds(s) ELSE {}) \cup new
<1> DEFINE L == Len(s)
           t == Append(s, e)
           new == IF e.el = "command" THEN {L + 1} ELSE {}
<1>1. /\ L \in Nat /\ Len(t) = L + 1 /\ t \in Seq(Elements) /\ t[L + 1] = e
      /\ \A p \in 1 .. L : t[p] = s[p]
  OBVIOUS
<1>2. /\ PlacesOf(t, "command") = PlacesOf(s, "command") \cup new
      /\ OpenCmds(t) = (IF e.el \in CmdTags THEN OpenCmds(s) ELSE {}) \cup new
  BY OpenGrows DEF OpenCmds
<1>3. DOMAIN CmdsOf(s) = PlacesOf(s, "command") /\ DOMAIN CmdsOf(t) = PlacesOf(t, "command")
  BY DEF CmdsOf
<1>4. L + 1 \notin PlacesOf(s, "command")
  BY <1>1 DEF PlacesOf
<1>5. ASSUME NEW k \in PlacesOf(s, "command"), NEW tag \in {"requestrules", "answerrules"}
      PROVE  SectionAt(t, k, tag) = IF k \in OpenCmds(s) THEN GrownSection(s, e, k, tag) ELSE SectionAt(s, k, tag)
  <2>1. k \in OpenCmds(s) =>
           /\ \A p, q \in k + 1 .. Len(s) : s[p].el = tag /\ s[q].el = tag => p = q
           /\ e.el = tag => \A p \in k + 1 .. Len(s) : s[p].el # tag
    BY SectionIsFirst DEF Nested
  <2> QED  BY <2>1, SectionGrows DEF GrownSection
<1>6. ASSUME e.el = "command"
      PROVE  CmdAt(t, L + 1) = [name |-> e.name, code |-> e.code, req |-> << >>, ans |-> << >>]
  <2>0. L + 1 \in 0 .. Len(t)
    BY <1>1
  <2>1. UntilAt(t, L + 1, CmdTags) \in L + 1 .. Len(t)
    BY <1>1, <2>0, UntilIs
  <2>2. L + 1 + 1 .. UntilAt(t, L + 1, CmdTags) = {}
    BY <1>1, <2>1
  <2>3. \A tag : SectionsBelow(t, L + 1, tag) = {}
    BY <2>2 DEF SectionsBelow, ElementsBelow
  <2> QED  BY <1>1, <2>3 DEF CmdAt, SectionAt
<1>7. \A k \in PlacesOf(s, "command") : t[k] = s[k]
  BY <1>1 DEF PlacesOf
<1> HIDE DEF t, L
<1>8. \A k \in PlacesOf(s, "command") : CmdsOf(s)[k] = CmdAt(s, k) /\ CmdsOf(t)[k] = CmdAt(t, k)
  BY <1>2 DEF CmdsOf
<1>9. \A k \in new : CmdsOf(t)[k] = CmdAt(t, L + 1) /\ e.el = "command"
  BY <1>2 DEF CmdsOf
<1>10. ASSUME NEW k \in PlacesOf(s, "command")
       PROVE  /\ k \notin OpenCmds(s) \/ e.el # "avprule" => CmdAt(t, k) = CmdAt(s, k)
              /\ k \in OpenCmds(s) => CmdAt(t, k) = [name |-> s[k].name, code |-> s[k].code,
                                      req |-> GrownSection(s, e, k, "requestrules"),
                                      ans |-> GrownSection(s, e, k, "answerrules")]
  <2>1. e.el # "avprule" => \A tag : GrownSection(s, e, k, tag) = SectionAt(s, k, tag)
    BY DEF GrownSection
  <2> QED  BY <1>5, <1>7, <2>1 DEF CmdAt
<1> QED  BY <1>2, <1>3, <1>4, <1>6, <1>8, <1>9, <1>10 DEF t, L

(* An element that begins no AVP adds none.                                *)
LEMMA AvpsGoOn ==
  ASSUME NEW s \in Seq(Elements), NEW e \in Elements, Fitted(s, e), Nested(s), e.el # "avp"
  PROVE  /\ DOMAIN AvpsOf(Append(s, e)) = DOMAIN AvpsOf(s)
         /\ \A k \in DOMAIN AvpsOf(s) :
              k \notin OpenAvps(s) \/ e.el \notin AvpTags \/ e.el = "section"
                \/ (e.el = "avprule" /\ ~In(s, "grouped")) =>
                AvpsOf(Append(s, e))[k] = AvpsOf(s)[k]
         /\ OpenAvps(Append(s, e)) = IF e.el \in AvpTags THEN OpenAvps(s) ELSE {}
<1> DEFINE t == Append(s, e)
           new == IF e.el = "avp" THEN {Len(s) + 1} ELSE {}
<1>1. /\ DOMAIN AvpsOf(t) = DOMAIN AvpsOf(s) \cup new
      /\ \A k \in DOMAIN AvpsOf(s) :
           k \notin OpenAvps(s) \/ e.el \notin AvpTags \/ e.el = "section"
             \/ (e.el = "avprule" /\ ~In(s, "grouped")) =>
             AvpsOf(t)[k] = AvpsOf(s)[k]
      /\ OpenAvps(t) = (IF e.el \in AvpTags THEN OpenAvps(s) ELSE {}) \cup new
  BY AvpsGrow
<1>2. new = {}
  OBVIOUS
<1> HIDE DEF t, new
<1> QED  BY <1>1, <1>2 DEF t

(* An AVP that begins has a name and a code only.                          *)
LEMMA AvpBegins ==
  ASSUME NEW s \in Seq(Elements), NEW e \in Elements, Fitted(s, e), Nested(s), e.el = "avp"
  PROVE  /\ DOMAIN AvpsOf(Append(s, e)) = DOMAIN AvpsOf(s) \cup {Len(s) + 1}
         /\ Len(s) + 1 \notin DOMAIN AvpsOf(s)
         /\ AvpsOf(Append(s, e))[Len(s) + 1] = [name |-> e.name, code |-> e.code,
                                                type_name |-> NoName, members |-> << >>]
         /\ \A k \in DOMAIN AvpsOf(s) : AvpsOf(Append(s, e))[k] = AvpsOf(s)[k]
         /\ OpenAvps(Append(s, e)) = {Len(s) + 1}
<1> DEFINE t == Append(s, e)
           new == IF e.el = "avp" THEN {Len(s) + 1} ELSE {}
<1>1. /\ DOMAIN AvpsOf(t) = DOMAIN AvpsOf(s) \cup new
      /\ DOMAIN AvpsOf(s) \cap new = {}
      /\ \A k \in new : AvpsOf(t)[k] = [name |-> e.name, code |-> e.code,
                                        type_name |-> NoName, members |-> << >>]
      /\ \A k \in DOMAIN AvpsOf(s) : e.el \notin AvpTags => AvpsOf(t)[k] = AvpsOf(s)[k]
      /\ OpenAvps(t) = (IF e.el \in AvpTags THEN OpenAvps(s) ELSE {}) \cup new
  BY AvpsGrow
<1>2. new = {Len(s) + 1} /\ e.el \notin AvpTags
  BY DEF AvpTags
<1> HIDE DEF t, new
<1> QED  BY <1>1, <1>2 DEF t

(* A command that is not open, or an element that is no rule, leaves what  *)
(* a command declares as it is.                                            *)
LEMMA CmdsStay ==
  ASSUME NEW s \in Seq(Elements), NEW e \in Elements, Fitted(s, e), Nested(s)
  PROVE  LET t == Append(s, e)
             new == IF e.el = "command" THEN {Len(s) + 1} ELSE {}
         IN /\ DOMAIN CmdsOf(t) = DOMAIN CmdsOf(s) \cup new
            /\ \A k \in DOMAIN CmdsOf(s) :
                 k \notin OpenCmds(s) \/ e.el # "avprule" => CmdsOf(t)[k] = CmdsOf(s)[k]
            /\ OpenCmds(t) = (IF e.el \in CmdTags THEN OpenCmds(s) ELSE {}) \cup new
BY CmdsGrow

(* An element that begins no command adds none.                            *)
LEMMA CmdsGoOn ==
  ASSUME NEW s \in Seq(Elements), NEW e \in Elements, Fitted(s, e), Nested(s), e.el # "command"
  PROVE  /\ DOMAIN CmdsOf(Append(s, e)) = DOMAIN CmdsOf(s)
         /\ \A k \in DOMAIN CmdsOf(s) :
              k \notin OpenCmds(s) \/ e.el # "avprule" => CmdsOf(Append(s, e))[k] = CmdsOf(s)[k]
         /\ OpenCmds(Append(s, e)) = IF e.el \in CmdTags THEN OpenCmds(s) ELSE {}
<1> DEFINE t == Append(s, e)
           new == IF e.el = "command" THEN {Len(s) + 1} ELSE {}
<1>1. /\ DOMAIN CmdsOf(t) = DOMAIN CmdsOf(s) \cup new
      /\ \A k \in DOMAIN CmdsOf(s) :
           k \notin OpenCmds(s) \/ e.el # "avprule" => CmdsOf(t)[k] = CmdsOf(s)[k]
      /\ OpenCmds(t) = (IF e.el \in CmdTags THEN OpenCmds(s) ELSE {}) \cup new
  BY CmdsStay
<1>2. new = {}
  OBVIOUS
<1> HIDE DEF t, new
<1> QED  BY <1>1, <1>2 DEF t

(* A command that begins has no rules.                                     *)
LEMMA CommandBegins ==
  ASSUME NEW s \in Seq(Elements), NEW e \in Elements, Fitted(s, e), Nested(s), e.el = "command"
  PROVE  /\ DOMAIN CmdsOf(Append(s, e)) = DOMAIN CmdsOf(s) \cup {Len(s) + 1}
         /\ Len(s) + 1 \notin DOMAIN CmdsOf(s)
         /\ CmdsOf(Append(s, e))[Len(s) + 1] =
              [name |-> e.name, code |-> e.code, req |-> << >>, ans |-> << >>]
         /\ \A k \in DOMAIN CmdsOf(s) : CmdsOf(Append(s, e))[k] = CmdsOf(s)[k]
         /\ OpenCmds(Append(s, e)) = {Len(s) + 1}
<1> DEFINE t == Append(s, e)
           new == IF e.el = "command" THEN {Len(s) + 1} ELSE {}
<1>1. /\ DOMAIN CmdsOf(t) = DOMAIN CmdsOf(s) \cup new
      /\ DOMAIN CmdsOf(s) \cap new = {}
      /\ \A k \in new : CmdsOf(t)[k] =
                           [name |-> e.name, code |-> e.code, req |-> << >>, ans |-> << >>]
  BY CmdsGrow
<1>2. /\ DOMAIN CmdsOf(t) = DOMAIN CmdsOf(s) \cup new
      /\ \A k \in DOMAIN CmdsOf(s) :
           k \notin OpenCmds(s) \/ e.el # "avprule" => CmdsOf(t)[k] = CmdsOf(s)[k]
      /\ OpenCmds(t) = (IF e.el \in CmdTags THEN OpenCmds(s) ELSE {}) \cup new
  BY CmdsStay
<1>3. new = {Len(s) + 1} /\ e.el \notin CmdTags
  BY DEF CmdTags
<1> HIDE DEF t, new
<1> QED  BY <1>1, <1>2, <1>3 DEF t
-----------------------------------------------------------------------------
(* A table has the entries that are declared, each once; its last entry is *)
(* that of the open declaration.                                           *)
Pairs(f, ld, dc, last, open) ==
  /\ \A i \in DOMAIN ld : ld[i] = dc[f[i]]
  /\ \A i, j \in DOMAIN ld : f[i] = f[j] => i = j
  /\ \A k \in DOMAIN dc : \E i \in DOMAIN ld : f[i] = k
  /\ \A k \in open : last \in DOMAIN ld /\ f[last] = k

Matched(ld, dc, last, open) ==
  \E f \in [DOMAIN ld -> DOMAIN dc] : Pairs(f, ld, dc, last, open)

(* The last entry is the open one.                                         *)
LEMMA MatchedLast ==
  ASSUME NEW ld, NEW dc, NEW last, NEW open, Matched(ld, dc, last, open), NEW k \in open
  PROVE  last \in DOMAIN ld /\ ld[last] = dc[k]
BY DEF Matched, Pairs

(* A new declaration with a new entry.                                     *)
LEMMA MatchedMore ==
  ASSUME NEW ld, NEW dc, NEW last, NEW open, Matched(ld, dc, last, open),
         NEW ld2, NEW dc2, NEW i2, NEW k2, NEW open2 \in SUBSET {k2},
         DOMAIN ld2 = DOMAIN ld \cup {i2}, i2 \notin DOMAIN ld,
         DOMAIN dc2 = DOMAIN dc \cup {k2}, k2 \notin DOMAIN dc,
         \A i \in DOMAIN ld : ld2[i] = ld[i],
         \A k \in DOMAIN dc : dc2[k] = dc[k],
         ld2[i2] = dc2[k2]
  PROVE  Matched(ld2, dc2, i2, open2)
<1>1. PICK f \in [DOMAIN ld -> DOMAIN dc] : Pairs(f, ld, dc, last, open)
  BY DEF Matched
<1> DEFINE g == [i \in DOMAIN ld2 |-> IF i = i2 THEN k2 ELSE f[i]]
<1>2. /\ g \in [DOMAIN ld2 -> DOMAIN dc2] /\ g[i2] = k2 /\ i2 \in DOMAIN ld2
      /\ \A i \in DOMAIN ld : g[i] = f[i] /\ f[i] \in DOMAIN dc /\ f[i] # k2
  OBVIOUS
<1> HIDE DEF g
<1>3. \A i \in DOMAIN ld2 : ld2[i] = dc2[g[i]]
  <2>1. \A i \in DOMAIN ld : ld2[i] = ld[i] /\ ld[i] = dc[f[i]] /\ dc2[f[i]] = dc[f[i]] /\ g[i] = f[i]
    BY <1>1, <1>2 DEF Pairs
  <2> QED  BY <1>2, <2>1
<1>4. \A i, j \in DOMAIN ld2 : g[i] = g[j] => i = j
  <2>1. \A i, j \in DOMAIN ld : f[i] = f[j] => i = j
    BY <1>1 DEF Pairs
  <2>2. \A i, j \in DOMAIN ld : g[i] = g[j] => i = j
    BY <1>2, <2>1
  <2>3. \A i \in DOMAIN ld : g[i] # g[i2]
    BY <1>2
  <2> QED  BY <2>2, <2>3
<1>5. \A k \in DOMAIN dc2 : \E i \in DOMAIN ld2 : g[i] = k
  <2>1. \A k \in DOMAIN dc : \E i \in DOMAIN ld : f[i] = k
    BY <1>1 DEF Pairs
  <2>2. \A k \in DOMAIN dc : \E i \in DOMAIN ld2 : g[i] = k
    BY <1>2, <2>1
  <2> QED  BY <1>2, <2>2
<1>6. Pairs(g, ld2, dc2, i2, open2)
  BY <1>2, <1>3, <1>4, <1>5 DEF Pairs
<1> QED  BY <1>2, <1>6 DEF Matched

(* A change of the open declaration that the last entry follows.           *)
LEMMA MatchedChange ==
  ASSUME NEW ld, NEW dc, NEW last, NEW open, Matched(ld, dc, last, open), open # {},
         NEW ld2, NEW dc2, NEW open2 \in SUBSET open,
         DOMAIN ld2 = DOMAIN ld, DOMAIN dc2 = DOMAIN dc,
         \A i \in DOMAIN ld : i # last => ld2[i] = ld[i],
         \A k \in DOMAIN dc : k \notin open => dc2[k] = dc[k],
         \A k \in open : ld2[last] = dc2[k]
  PROVE  Matched(ld2, dc2, last, open2)
<1>1. PICK f \in [DOMAIN ld -> DOMAIN dc] : Pairs(f, ld, dc, last, open)
  BY DEF Matched
<1>2. /\ last \in DOMAIN ld /\ f[last] \in open
      /\ \A k \in open : k = f[last]
  BY <1>1 DEF Pairs
<1>3. \A i \in DOMAIN ld : i # last => f[i] \in DOMAIN dc /\ f[i] \notin open
  BY <1>1, <1>2 DEF Pairs
<1>4. \A i \in DOMAIN ld : ld2[i] = dc2[f[i]]
  BY <1>1, <1>2, <1>3 DEF Pairs
<1>5. Pairs(f, ld2, dc2, last, open2)
  BY <1>1, <1>2, <1>4 DEF Pairs
<1> QED  BY <1>5 DEF Matched

(* Nothing changes, or less is open.                                       *)
LEMMA MatchedStays ==
  ASSUME NEW ld, NEW dc, NEW last, NEW open, Matched(ld, dc, last, open),
         NEW last2, NEW open2 \in SUBSET open, open2 = {} \/ last2 = last
  PROVE  Matched(ld, dc, last2, open2)
<1>1. PICK f \in [DOMAIN ld -> DOMAIN dc] : Pairs(f, ld, dc, last, open)
  BY DEF Matched
<1>2. Pairs(f, ld, dc, last2, open2)
  BY <1>1 DEF Pairs
<1> QED  BY <1>2 DEF Matched

(* A sort.                                                                 *)
LEMMA MatchedSorted ==
  ASSUME NEW ld, NEW dc, NEW last, NEW open, Matched(ld, dc, last, open),
         NEW ld2, DOMAIN ld2 = DOMAIN ld, NEW at \in [DOMAIN ld -> DOMAIN ld],
         \A i, j \in DOMAIN ld : at[i] = at[j] => i = j,
         \A i \in DOMAIN ld : \E n \in DOMAIN ld : at[n] = i,
         \A n \in DOMAIN ld : ld2[n] = ld[at[n]]
  PROVE  Matched(ld2, dc, last, {})
<1>1. PICK f \in [DOMAIN ld -> DOMAIN dc] : Pairs(f, ld, dc, last, open)
  BY DEF Matched
<1> DEFINE g == [n \in DOMAIN ld2 |-> f[at[n]]]
<1>2. g \in [DOMAIN ld2 -> DOMAIN dc] /\ \A n \in DOMAIN ld : g[n] = f[at[n]] /\ at[n] \in DOMAIN ld
  OBVIOUS
<1> HIDE DEF g
<1>3. /\ \A i \in DOMAIN ld2 : ld2[i] = dc[g[i]]
      /\ \A i, j \in DOMAIN ld2 : g[i] = g[j] => i = j
  <2>1. /\ \A i \in DOMAIN ld : ld[i] = dc[f[i]]
        /\ \A i, j \in DOMAIN ld : f[i] = f[j] => i = j
    BY <1>1 DEF Pairs
  <2>2. \A n \in DOMAIN ld : ld2[n] = dc[g[n]]
    BY <1>2, <2>1
  <2>3. ASSUME NEW i \in DOMAIN ld, NEW j \in DOMAIN ld, g[i] = g[j] PROVE i = j
    <3>1. at[i] = at[j]
      BY <1>2, <2>1, <2>3
    <3> QED  BY <3>1
  <2> QED  BY <2>2, <2>3
<1>4. ASSUME NEW k \in DOMAIN dc PROVE \E n \in DOMAIN ld2 : g[n] = k
  <2>1. PICK i \in DOMAIN ld : f[i] = k
    BY <1>1 DEF Pairs
  <2>2. PICK n \in DOMAIN ld : at[n] = i
    OBVIOUS
  <2> QED  BY <1>2, <2>1, <2>2
<1>5. Pairs(g, ld2, dc, last, {})
  BY <1>3, <1>4 DEF Pairs
<1> QED  BY <1>2, <1>5 DEF Matched

(* What matches takes the same values equally often.                       *)
LEMMA MatchedBag ==
  ASSUME NEW ld, NEW dc, NEW last, NEW open, Matched(ld, dc, last, open), IsFiniteSet(DOMAIN ld)
  PROVE  SameBag(ld, dc)
<1>1. PICK f \in [DOMAIN ld -> DOMAIN dc] : Pairs(f, ld, dc, last, open)
  BY DEF Matched
<1>2. ASSUME NEW v
      PROVE  Cardinality({i \in DOMAIN ld : ld[i] = v}) = Cardinality({k \in DOMAIN dc : dc[k] = v})
  <2> DEFINE S == {i \in DOMAIN ld : ld[i] = v}
             T == {k \in DOMAIN dc : dc[k] = v}
             g == [i \in S |-> f[i]]
  <2>1. IsFiniteSet(S)
    BY FS_Subset
  <2>2. \A i \in S : f[i] \in T
    BY <1>1 DEF Pairs
  <2>3. \A k \in T : \E i \in S : f[i] = k
    BY <1>1 DEF Pairs
  <2>4. \A i, j \in S : f[i] = f[j] => i = j
    BY <1>1 DEF Pairs
  <2> HIDE DEF S, T
  <2>5. g \in Bijection(S, T)
    <3>1. g \in [S -> T]
      BY <2>2
    <3>2. g \in Injection(S, T)
      BY <2>4, <3>1 DEF Injection, IsInjective
    <3>3. g \in Surjection(S, T)
      BY <2>3, <3>1 DEF Surjection
    <3> QED  BY <3>2, <3>3 DEF Bijection
  <2>6. ExistsBijection(S, T)
    BY <2>5 DEF ExistsBijection
  <2> QED  BY <2>1, <2>5, <2>6, FS_Bijection DEF S, T
<1> QED  BY <1>2 DEF SameBag
-----------------------------------------------------------------------------
(* What the tables hold, as what declarations can be compared with.        *)
NameList(q) == [i \in DOMAIN q |-> q[i].name]
ListOf(arr, k) == IF k = 0 THEN << >> ELSE NameList(arr[k])

EntryOf(arr, avp) ==
  [name |-> avp.name, code |-> avp.code, type_name |-> avp.type_name,
   members |-> ListOf(arr, avp.content)]
EntriesOf(arr, items) == [i \in DOMAIN items |-> EntryOf(arr, items[i])]

(* The same for commands, with their two lists of rules.                   *)
CommandOf(arr, cmd) ==
  [name |-> cmd.name, code |-> cmd.code,
   req |-> ListOf(arr, cmd.req_rules), ans |-> ListOf(arr, cmd.ans_rules)]
CommandsOf(arr, items) == [i \in DOMAIN items |-> CommandOf(arr, items[i])]

(* They are what the tables have loaded.                                   *)
LEMMA LoadedAre ==
  /\ [i \in DOMAIN avps.items |-> LoadedAvp(avps.items[i])] = EntriesOf(arrays, avps.items)
  /\ [i \in DOMAIN cmds.items |-> LoadedCmd(cmds.items[i])] = CommandsOf(arrays, cmds.items)
BY DEF LoadedAvp, LoadedCmd, NamesOf, EntriesOf, EntryOf, CommandsOf, CommandOf, ListOf, NameList

(* An element of the file has been read.                                   *)
Begun == pc = "parse" /\ rest \notin Documents

(* What has been read of the file is what was seen last.                   *)
Trails(doc, n, s) ==
  n <= Len(s) /\ \A m \in 1 .. n : s[(Len(s) - n) + m] = doc[m]

(* The file is somewhere in one of the documents.                          *)
Following ==
  pc = "parse" =>
    \E doc \in Documents : \E n \in 0 .. Len(doc) :
      rest = SubSeq(doc, n + 1, Len(doc)) /\ Trails(doc, n, seen)

(* The tables match the declarations.                                      *)
MatchedAvps ==
  Matched(EntriesOf(arrays, avps.items), AvpsOf(seen), Len(avps.items),
          IF Begun THEN OpenAvps(seen) ELSE {})
MatchedCmds ==
  Matched(CommandsOf(arrays, cmds.items), CmdsOf(seen), Len(cmds.items),
          IF Begun THEN OpenCmds(seen) ELSE {})

(* curr_rules is the list the next rule lies in.                           *)
RulesCurrent ==
  Begun =>
    /\ In(seen, "grouped") => curr.rules = avps.items[Len(avps.items)].content
    /\ In(seen, "requestrules") => curr.rules = cmds.items[Len(cmds.items)].req_rules
    /\ In(seen, "answerrules") => curr.rules = cmds.items[Len(cmds.items)].ans_rules

(* No two commands have an array in common.                                *)
OwnRules ==
  \A i, j \in DOMAIN cmds.items :
    /\ cmds.items[i].req_rules # cmds.items[j].ans_rules
    /\ cmds.items[i].req_rules = cmds.items[j].req_rules => i = j
    /\ cmds.items[i].ans_rules = cmds.items[j].ans_rules => i = j

(* The inductive invariant of loading, on top of that of the handler.      *)
LoadInv ==
  Nested(seen) /\ Following /\ MatchedAvps /\ MatchedCmds /\ RulesCurrent /\ OwnRules

(* What lies within an element of the file does so among all elements.     *)
LEMMA TrailsWithin ==
  ASSUME NEW doc \in Seq(Elements), NEW n \in 0 .. Len(doc), NEW s \in Seq(Elements),
         Trails(doc, n, s), NEW tag, NEW tags, Within(doc, n, tag, tags)
  PROVE  Within(s, Len(s), tag, tags)
<1> DEFINE L == Len(s)
<1>1. L \in Nat /\ n \in Nat /\ n <= L /\ \A m \in 1 .. n : s[(L - n) + m] = doc[m]
  BY DEF Trails
<1>2. PICK j \in 1 .. n : doc[j].el = tag /\ \A m \in j + 1 .. n : doc[m].el \in tags
  BY DEF Within
<1> HIDE DEF L
<1>3. (L - n) + j \in 1 .. L
  BY <1>1
<1>4. s[(L - n) + j].el = tag
  BY <1>1, <1>2
<1>5. ASSUME NEW m \in ((L - n) + j) + 1 .. L PROVE s[m].el \in tags
  <2>1. m - (L - n) \in j + 1 .. n /\ m - (L - n) \in 1 .. n /\ (L - n) + (m - (L - n)) = m
    BY <1>1
  <2> QED  BY <1>1, <1>2, <2>1
<1> QED  BY <1>3, <1>4, <1>5 DEF Within, L

(* The first element of a file begins something of its own.                *)
LEMMA FirstElement ==
  ASSUME NEW doc \in Documents, doc # << >>
  PROVE  Head(doc).el \notin AvpTags \cup CmdTags
<1>1. doc \in Seq(Elements) /\ \A k \in DOMAIN doc : Fits(doc, k)
  BY DictAssumption DEF DictAssumption
<1>2. 1 \in DOMAIN doc /\ Head(doc) = doc[1]
  BY <1>1
<1>3. Fits(doc, 1)
  BY <1>1, <1>2
<1>4. ~InCommand(doc, 1 - 1) /\ ~InRules(doc, 1 - 1)
  BY OutsideAtStart
<1> QED  BY <1>2, <1>3, <1>4 DEF Fits, AvpTags, CmdTags

(* A start tag takes an element that fits what was seen.                   *)
LEMMA FittingIsRead ==
  ASSUME HandlerInv, LoadInv, NEW tag, Start(tag)
  PROVE  /\ Head(rest) \in Elements /\ Head(rest).el = tag /\ seen \in Seq(Elements)
         /\ seen' = Append(seen, Head(rest))
         /\ Fitted(seen, Head(rest))
         /\ tag \in AvpTags \cup CmdTags => Begun
         /\ Following'
<1>1. /\ Head(rest) \in Elements /\ Head(rest).el = tag /\ seen \in Seq(Elements)
      /\ pc = "parse" /\ seen' = Append(seen, Head(rest)) /\ rest' = Tail(rest)
      /\ rest \in Seq(Elements) /\ rest # << >>
  BY ElementIsRead DEF HandlerInv, Shape, Start
<1>2. PICK doc \in Documents : \E n \in 0 .. Len(doc) :
        rest = SubSeq(doc, n + 1, Len(doc)) /\ Trails(doc, n, seen)
  BY <1>1 DEF LoadInv, Following
<1>3. PICK n \in 0 .. Len(doc) :
        rest = SubSeq(doc, n + 1, Len(doc)) /\ Trails(doc, n, seen)
  BY <1>2
<1>4. doc \in Seq(Elements) /\ \A k \in DOMAIN doc : Fits(doc, k)
  BY DictAssumption DEF DictAssumption
<1> DEFINE e == Head(rest)
           L == Len(seen)
<1>5. n + 1 \in 1 .. Len(doc) /\ e = doc[n + 1] /\ Tail(rest) = SubSeq(doc, n + 2, Len(doc))
  BY <1>1, <1>3, <1>4
<1>6. Fits(doc, n + 1) /\ (n + 1) - 1 = n
  BY <1>4, <1>5
<1>7. L \in Nat /\ n \in Nat /\ n <= L /\ \A m \in 1 .. n : seen[(L - n) + m] = doc[m]
  BY <1>1, <1>3 DEF Trails
<1> HIDE DEF e, L
<1>8. tag \in AvpTags \cup CmdTags => Begun
  BY <1>1, FirstElement DEF Begun, e
<1>9. tag \in AvpTags \cup CmdTags => n # 0
  <2>1. n = 0 => doc = rest
    BY <1>3, <1>4
  <2> QED  BY <1>1, <2>1, FirstElement
<1>10. n # 0 => seen[L] = doc[n] /\ seen # << >> /\ n + 1 # 1
  <2>1. n # 0 => n \in 1 .. n /\ (L - n) + n = L
    BY <1>7
  <2> QED  BY <1>7, <2>1 DEF L
<1>11. InCommand(doc, n) => InCommand(seen, L)
  BY <1>1, <1>3, <1>4, TrailsWithin DEF InCommand, L
<1>12. InRules(doc, n) => In(seen, "requestrules") \/ In(seen, "answerrules") \/ In(seen, "grouped")
  <2>1. {"section", "avprule"} = RuleTags
    BY DEF RuleTags
  <2>2. ASSUME NEW t, Within(doc, n, t, {"section", "avprule"}) PROVE In(seen, t)
    BY <1>1, <1>3, <1>4, <2>1, <2>2, TrailsWithin DEF In
  <2> QED  BY <2>2 DEF InRules
<1>13. Fitted(seen, e)
  BY <1>1, <1>5, <1>6, <1>9, <1>10, <1>11, <1>12 DEF Fits, Fitted, AvpTags, CmdTags, RuleTags, e, L
<1>14. Trails(doc, n + 1, seen')
  <2>1. /\ Len(seen') = L + 1 /\ \A p \in 1 .. L : seen'[p] = seen[p]
        /\ seen'[L + 1] = e
    BY <1>1 DEF L, e
  <2>2. ASSUME NEW m \in 1 .. n + 1 PROVE seen'[((L + 1) - (n + 1)) + m] = doc[m]
    <3>1. CASE m = n + 1
      <4>1. ((L + 1) - (n + 1)) + m = L + 1
        BY <1>7, <3>1
      <4> QED  BY <1>5, <2>1, <3>1, <4>1
    <3>2. CASE m # n + 1
      <4>1. m \in 1 .. n /\ ((L + 1) - (n + 1)) + m = (L - n) + m /\ (L - n) + m \in 1 .. L
        BY <1>7, <3>2
      <4> QED  BY <1>7, <2>1, <4>1
    <3> QED  BY <3>1, <3>2
  <2> QED  BY <1>7, <2>1, <2>2 DEF Trails
<1>15. Following'
  <2>1. n + 1 \in 0 .. Len(doc) /\ rest' = SubSeq(doc, (n + 1) + 1, Len(doc))
    BY <1>1, <1>5
  <2> QED  BY <1>14, <2>1 DEF Following
<1> QED  BY <1>1, <1>8, <1>13, <1>15 DEF e
-----------------------------------------------------------------------------
(* Lists that stay are those of the same entries.                          *)
LEMMA ListsStay ==
  ASSUME HandlerInv, \A k \in DOMAIN arrays : ListOf(arrays', k) = ListOf(arrays, k)
  PROVE  /\ EntriesOf(arrays', avps.items) = EntriesOf(arrays, avps.items)
         /\ CommandsOf(arrays', cmds.items) = CommandsOf(arrays, cmds.items)
         /\ \A i \in DOMAIN avps.items : EntryOf(arrays', avps.items[i]) = EntryOf(arrays, avps.items[i])
         /\ \A i \in DOMAIN cmds.items : CommandOf(arrays', cmds.items[i]) = CommandOf(arrays, cmds.items[i])
<1>1. ListOf(arrays', 0) = << >> /\ ListOf(arrays, 0) = << >>
  BY DEF ListOf, NameList
<1>2. \A i \in DOMAIN avps.items :
        ListOf(arrays', avps.items[i].content) = ListOf(arrays, avps.items[i].content)
  BY <1>1, ArrayNumbers
<1>3. \A i \in DOMAIN cmds.items :
        /\ ListOf(arrays', cmds.items[i].req_rules) = ListOf(arrays, cmds.items[i].req_rules)
        /\ ListOf(arrays', cmds.items[i].ans_rules) = ListOf(arrays, cmds.items[i].ans_rules)
  BY ArrayNumbers
<1>4. \A i \in DOMAIN avps.items : EntryOf(arrays', avps.items[i]) = EntryOf(arrays, avps.items[i])
  BY <1>2 DEF EntryOf
<1>5. \A i \in DOMAIN cmds.items : CommandOf(arrays', cmds.items[i]) = CommandOf(arrays, cmds.items[i])
  BY <1>3 DEF CommandOf
<1> QED  BY <1>4, <1>5 DEF EntriesOf, CommandsOf

(* An element that is none of an AVP's leaves the AVPs matched.            *)
LEMMA AvpsUntouched ==
  ASSUME HandlerInv, LoadInv, NEW tag, Start(tag),
         tag \notin {"avp", "type", "grouped", "enum"},
         tag = "avprule" => ~In(seen, "grouped"),
         avps' = avps, EntriesOf(arrays', avps.items) = EntriesOf(arrays, avps.items)
  PROVE  MatchedAvps'
<1> DEFINE e == Head(rest)
<1>1. /\ e \in Elements /\ e.el = tag /\ seen \in Seq(Elements) /\ seen' = Append(seen, e)
      /\ Fitted(seen, e) /\ (tag \in AvpTags => Begun) /\ Nested(seen)
  BY FittingIsRead DEF LoadInv
<1>2. /\ DOMAIN AvpsOf(seen') = DOMAIN AvpsOf(seen)
      /\ \A k \in DOMAIN AvpsOf(seen) :
           e.el \notin AvpTags \/ e.el = "section" \/ (e.el = "avprule" /\ ~In(seen, "grouped")) =>
             AvpsOf(seen')[k] = AvpsOf(seen)[k]
      /\ OpenAvps(seen') = IF e.el \in AvpTags THEN OpenAvps(seen) ELSE {}
  BY <1>1, AvpsGoOn
<1>3. \A k \in DOMAIN AvpsOf(seen) : AvpsOf(seen')[k] = AvpsOf(seen)[k]
  BY <1>1, <1>2 DEF AvpTags
<1>4. AvpsOf(seen') = AvpsOf(seen)
  <2>1. \A s : AvpsOf(s) = [k \in DOMAIN AvpsOf(s) |-> AvpsOf(s)[k]]
    BY DEF AvpsOf
  <2> QED  BY <1>2, <1>3, <2>1
<1> DEFINE open == IF Begun THEN OpenAvps(seen) ELSE {}
           openAfter == IF Begun' THEN OpenAvps(seen') ELSE {}
<1>5. openAfter \in SUBSET open
  BY <1>1, <1>2
<1>6. Matched(EntriesOf(arrays, avps.items), AvpsOf(seen), Len(avps.items), open)
  BY DEF LoadInv, MatchedAvps
<1> HIDE DEF open, openAfter
<1>7. Matched(EntriesOf(arrays, avps.items), AvpsOf(seen), Len(avps.items), openAfter)
  BY <1>5, <1>6, MatchedStays
<1>8. Matched(EntriesOf(arrays', avps'.items), AvpsOf(seen'), Len(avps'.items), openAfter)
  BY <1>4, <1>7
<1> QED  BY <1>8 DEF MatchedAvps, openAfter

(* An element that is none of a command's leaves the commands matched.     *)
LEMMA CmdsUntouched ==
  ASSUME HandlerInv, LoadInv, NEW tag, Start(tag),
         tag # "command", tag = "avprule" => In(seen, "grouped"),
         cmds' = cmds, CommandsOf(arrays', cmds.items) = CommandsOf(arrays, cmds.items)
  PROVE  MatchedCmds'
<1> DEFINE e == Head(rest)
<1>1. /\ e \in Elements /\ e.el = tag /\ seen \in Seq(Elements) /\ seen' = Append(seen, e)
      /\ Fitted(seen, e) /\ (tag \in CmdTags => Begun) /\ Nested(seen)
  BY FittingIsRead DEF LoadInv
<1>2. /\ DOMAIN CmdsOf(seen') = DOMAIN CmdsOf(seen)
      /\ \A k \in DOMAIN CmdsOf(seen) :
           k \notin OpenCmds(seen) \/ e.el # "avprule" => CmdsOf(seen')[k] = CmdsOf(seen)[k]
      /\ OpenCmds(seen') = IF e.el \in CmdTags THEN OpenCmds(seen) ELSE {}
  BY <1>1, CmdsGoOn
<1>3. \A k \in DOMAIN CmdsOf(seen) : CmdsOf(seen')[k] = CmdsOf(seen)[k]
  <2>1. e.el = "avprule" => OpenCmds(seen) = {}
    BY <1>1, OneIsOpen DEF Nested
  <2> QED  BY <1>2, <2>1
<1>4. CmdsOf(seen') = CmdsOf(seen)
  <2>1. \A s : CmdsOf(s) = [k \in DOMAIN CmdsOf(s) |-> CmdsOf(s)[k]]
    BY DEF CmdsOf
  <2> QED  BY <1>2, <1>3, <2>1
<1> DEFINE open == IF Begun THEN OpenCmds(seen) ELSE {}
           openAfter == IF Begun' THEN OpenCmds(seen') ELSE {}
<1>5. openAfter \in SUBSET open
  BY <1>1, <1>2
<1>6. Matched(CommandsOf(arrays, cmds.items), CmdsOf(seen), Len(cmds.items), open)
  BY DEF LoadInv, MatchedCmds
<1> HIDE DEF open, openAfter
<1>7. Matched(CommandsOf(arrays, cmds.items), CmdsOf(seen), Len(cmds.items), openAfter)
  BY <1>5, <1>6, MatchedStays
<1>8. Matched(CommandsOf(arrays', cmds'.items), CmdsOf(seen'), Len(cmds'.items), openAfter)
  BY <1>4, <1>7
<1> QED  BY <1>8 DEF MatchedCmds, openAfter

(* An element of the open AVP whose entry follows.                         *)
LEMMA AvpsChange ==
  ASSUME HandlerInv, LoadInv, NEW tag \in AvpTags, Start(tag), OpenAvps(seen) # {},
         DOMAIN avps'.items = DOMAIN avps.items, Len(avps'.items) = Len(avps.items),
         \A i \in DOMAIN avps.items : i # Len(avps.items) =>
           EntryOf(arrays', avps'.items[i]) = EntryOf(arrays, avps.items[i]),
         \A k \in OpenAvps(seen) :
           EntryOf(arrays, avps.items[Len(avps.items)]) = AvpAt(seen, k) =>
             EntryOf(arrays', avps'.items[Len(avps.items)]) = AvpAt(seen', k)
  PROVE  MatchedAvps'
<1> DEFINE e == Head(rest)
           last == Len(avps.items)
           ld == EntriesOf(arrays, avps.items)
           new == EntriesOf(arrays', avps'.items)
           openAfter == IF Begun' THEN OpenAvps(seen') ELSE {}
<1>1. /\ e \in Elements /\ e.el = tag /\ seen \in Seq(Elements) /\ seen' = Append(seen, e)
      /\ Fitted(seen, e) /\ Begun /\ Nested(seen) /\ tag # "avp"
  BY FittingIsRead DEF LoadInv, AvpTags
<1>2. /\ DOMAIN AvpsOf(seen') = DOMAIN AvpsOf(seen)
      /\ \A k \in DOMAIN AvpsOf(seen) : k \notin OpenAvps(seen) => AvpsOf(seen')[k] = AvpsOf(seen)[k]
      /\ OpenAvps(seen') = OpenAvps(seen)
  BY <1>1, AvpsGoOn
<1>3. \A k \in OpenAvps(seen) : AvpsOf(seen)[k] = AvpAt(seen, k) /\ AvpsOf(seen')[k] = AvpAt(seen', k)
  <2>1. \A s : \A k \in DOMAIN AvpsOf(s) : AvpsOf(s)[k] = AvpAt(s, k)
    BY DEF AvpsOf
  <2>2. OpenAvps(seen) \in SUBSET DOMAIN AvpsOf(seen)
    BY DEF OpenAvps, OpenIn, AvpsOf
  <2> QED  BY <1>2, <2>1, <2>2
<1>4. Matched(ld, AvpsOf(seen), last, OpenAvps(seen))
  BY <1>1 DEF LoadInv, MatchedAvps
<1>5. /\ DOMAIN ld = DOMAIN avps.items /\ DOMAIN new = DOMAIN avps.items
      /\ \A i \in DOMAIN avps.items : /\ ld[i] = EntryOf(arrays, avps.items[i])
                                      /\ new[i] = EntryOf(arrays', avps'.items[i])
  BY DEF EntriesOf
<1>6. openAfter \in SUBSET OpenAvps(seen)
  BY <1>2
<1> HIDE DEF ld, new, openAfter, last
<1>7. \A k \in OpenAvps(seen) : last \in DOMAIN ld /\ ld[last] = AvpsOf(seen)[k]
  BY <1>4, MatchedLast
<1>8. \A k \in OpenAvps(seen) : new[last] = AvpsOf(seen')[k]
  BY <1>3, <1>5, <1>7 DEF last
<1>9. \A i \in DOMAIN ld : i # last => new[i] = ld[i]
  BY <1>5 DEF last
<1>10. Matched(new, AvpsOf(seen'), last, openAfter)
  BY <1>2, <1>4, <1>5, <1>6, <1>8, <1>9, MatchedChange
<1> QED  BY <1>10 DEF MatchedAvps, new, last, openAfter

(* After an element that begins no rules, curr_rules is where it was.      *)
LEMMA RulesStay ==
  ASSUME HandlerInv, LoadInv, NEW tag, Start(tag), tag \notin {"requestrules", "answerrules", "grouped"},
         tag \in RuleTags => UNCHANGED <<curr, avps, cmds>>
  PROVE  RulesCurrent'
<1>1. /\ Head(rest) \in Elements /\ Head(rest).el = tag /\ seen \in Seq(Elements)
      /\ seen' = Append(seen, Head(rest))
      /\ tag \in AvpTags => Begun
  BY FittingIsRead
<1>2. \A t : In(seen', t) <=> tag = t \/ (tag \in RuleTags /\ In(seen, t))
  BY <1>1, InGrows
<1>3. tag \in RuleTags => Begun
  BY <1>1 DEF RuleTags, AvpTags
<1> QED  BY <1>2, <1>3 DEF LoadInv, RulesCurrent

(* What is seen stays nested.                                              *)
LEMMA NestedKept ==
  ASSUME HandlerInv, LoadInv, NEW tag, Start(tag)
  PROVE  Nested(seen)' /\ Following'
<1>1. /\ Head(rest) \in Elements /\ seen \in Seq(Elements) /\ seen' = Append(seen, Head(rest))
      /\ Fitted(seen, Head(rest)) /\ Following'
  BY FittingIsRead
<1>2. Nested(Append(seen, Head(rest)))
  BY <1>1, NestedGrows DEF LoadInv
<1>3. Nested(seen')
  BY <1>1, <1>2
<1> QED  BY <1>1, <1>3

(* Elements that touch neither commands nor AVPs keep the invariant.       *)
LEMMA AsideKeepsLoad ==
  ASSUME HandlerInv, LoadInv, (\E tag \in {"base", "application"} : AddApp(tag)) \/ Vendor \/ TypeDefn \/ Other
  PROVE  LoadInv'
<1>1. PICK tag \in {"base", "application", "vendor", "typedefn", "section", "other"} :
        Start(tag) /\ UNCHANGED <<cmds, avps, arrays, curr>>
  BY DEF AddApp, Vendor, TypeDefn, Other, tables
<1>2. Nested(seen)' /\ Following'
  BY <1>1, NestedKept
<1>3. MatchedAvps'
  BY <1>1, AvpsUntouched
<1>4. MatchedCmds'
  BY <1>1, CmdsUntouched
<1>5. RulesCurrent'
  BY <1>1, RulesStay
<1>6. OwnRules'
  BY <1>1 DEF LoadInv, OwnRules
<1> QED  BY <1>2, <1>3, <1>4, <1>5, <1>6 DEF LoadInv

(* A section of a command begins empty, with its array the current one.    *)
LEMMA CommandRulesKeepsLoad ==
  ASSUME HandlerInv, LoadInv, CommandRules
  PROVE  LoadInv'
<1>1. PICK tag \in {"requestrules", "answerrules"} :
        /\ Start(tag) /\ UNCHANGED <<cmds, avps, arrays>>
        /\ curr' = [curr EXCEPT !.rules = IF tag = "requestrules"
                                          THEN Deref(cmds, curr.cmd).req_rules
                                          ELSE Deref(cmds, curr.cmd).ans_rules]
  BY DEF CommandRules, tables
<1>2. Nested(seen)' /\ Following'
  BY <1>1, NestedKept
<1>3. MatchedAvps'
  BY <1>1, AvpsUntouched
<1>4. MatchedCmds'
  BY <1>1, CmdsUntouched
<1>5. RulesCurrent'
  <2>1. /\ Head(rest) \in Elements /\ Head(rest).el = tag /\ seen \in Seq(Elements)
        /\ seen' = Append(seen, Head(rest))
    BY <1>1, FittingIsRead
  <2>2. \A t : In(seen', t) <=> tag = t
    BY <1>1, <2>1, InGrows DEF RuleTags
  <2>3. cmds \in Table(Cmd) /\ cmds.items # << >> /\ curr.cmd = Back(cmds)
    BY <1>1, AtElement DEF HandlerInv, Shape
  <2>4. Deref(cmds, curr.cmd) = cmds.items[Len(cmds.items)]
    BY <2>3, BackPoints
  <2>5. curr \in [cmd : Pointer, avp : Pointer, rules : Nat]
    BY DEF HandlerInv, Shape
  <2>6. curr'.rules = IF tag = "requestrules" THEN cmds.items[Len(cmds.items)].req_rules
                      ELSE cmds.items[Len(cmds.items)].ans_rules
    BY <1>1, <2>4, <2>5
  <2> QED  BY <1>1, <2>2, <2>6 DEF RulesCurrent
<1>6. OwnRules'
  BY <1>1 DEF LoadInv, OwnRules
<1> QED  BY <1>2, <1>3, <1>4, <1>5, <1>6 DEF LoadInv

(* An AVP is declared and added.                                           *)
LEMMA AvpKeepsLoad ==
  ASSUME HandlerInv, LoadInv, Avp
  PROVE  LoadInv'
<1> DEFINE e == Head(rest)
           ld == EntriesOf(arrays, avps.items)
           new == EntriesOf(arrays', avps'.items)
           L == Len(seen)
           N == Len(avps.items)
           open == IF Begun THEN OpenAvps(seen) ELSE {}
           openAfter == IF Begun' THEN OpenAvps(seen') ELSE {}
<1>1. /\ Start("avp") /\ UNCHANGED <<cmds, arrays>>
      /\ avps' \in PushBack(avps, NewAvp(e))
  BY DEF Avp
<1>2. /\ e \in Elements /\ e.el = "avp" /\ seen \in Seq(Elements) /\ seen' = Append(seen, e)
      /\ Fitted(seen, e) /\ Nested(seen)
  BY <1>1, FittingIsRead DEF LoadInv
<1>3. NewAvp(e) \in AvpEntry
  <2>1. Null \in Pointer
    BY DEF Null, Pointer
  <2>2. NoName \in Names
    BY DictAssumption DEF DictAssumption
  <2>3. e.name \in Names /\ e.code \in Code
    BY <1>2 DEF Elements
  <2> QED  BY <2>1, <2>2, <2>3 DEF NewAvp, AvpEntry
<1>4. avps \in Table(AvpEntry)
  BY DEF HandlerInv, Shape
<1> HIDE DEF e
<1>5. /\ Len(avps'.items) = N + 1 /\ avps'.items[N + 1] = NewAvp(e)
      /\ \A i \in DOMAIN avps.items : i \in DOMAIN avps'.items /\ avps'.items[i] = avps.items[i]
      /\ \A i \in DOMAIN avps'.items : i \in DOMAIN avps.items \/ i = N + 1
      /\ N + 1 \in DOMAIN avps'.items
  BY <1>1, <1>3, <1>4, PushBackAppends
<1>6. N + 1 \notin DOMAIN avps.items
  BY <1>4 DEF Table
<1>7. DOMAIN avps'.items = DOMAIN avps.items \cup {N + 1}
  BY <1>5
<1>8. EntryOf(arrays', NewAvp(e)) = [name |-> e.name, code |-> e.code,
                                     type_name |-> NoName, members |-> << >>]
  BY DEF EntryOf, NewAvp, ListOf, NameList
<1>9. /\ DOMAIN ld = DOMAIN avps.items /\ DOMAIN new = DOMAIN ld \cup {N + 1} /\ N + 1 \notin DOMAIN ld
      /\ \A i \in DOMAIN ld : new[i] = ld[i]
      /\ new[N + 1] = [name |-> e.name, code |-> e.code, type_name |-> NoName, members |-> << >>]
  BY <1>1, <1>5, <1>6, <1>7, <1>8 DEF EntriesOf
<1>10. /\ DOMAIN AvpsOf(seen') = DOMAIN AvpsOf(seen) \cup {L + 1}
       /\ L + 1 \notin DOMAIN AvpsOf(seen)
       /\ AvpsOf(seen')[L + 1] = [name |-> e.name, code |-> e.code,
                                  type_name |-> NoName, members |-> << >>]
       /\ \A k \in DOMAIN AvpsOf(seen) : AvpsOf(seen')[k] = AvpsOf(seen)[k]
       /\ OpenAvps(seen') = {L + 1}
  BY <1>2, AvpBegins
<1>11. Matched(ld, AvpsOf(seen), N, open)
  BY DEF LoadInv, MatchedAvps
<1>12. openAfter \in SUBSET {L + 1}
  BY <1>10
<1> DEFINE dc == AvpsOf(seen)
           more == AvpsOf(seen')
           p == L + 1
           n == N + 1
<1> HIDE DEF ld, new, open, openAfter, L, N
<1>13. Matched(new, AvpsOf(seen'), N + 1, openAfter)
  <2>1. Matched(ld, dc, N, open) /\ openAfter \in SUBSET {p}
    BY <1>11, <1>12
  <2>2. /\ DOMAIN new = DOMAIN ld \cup {n} /\ n \notin DOMAIN ld
        /\ \A i \in DOMAIN ld : new[i] = ld[i]
    BY <1>9
  <2>3. /\ DOMAIN more = DOMAIN dc \cup {p} /\ p \notin DOMAIN dc
        /\ \A k \in DOMAIN dc : more[k] = dc[k]
    BY <1>10
  <2>4. new[n] = more[p]
    BY <1>9, <1>10
  <2> HIDE DEF dc, more, p, n
  <2>5. Matched(new, more, n, openAfter)
    BY <2>1, <2>2, <2>3, <2>4, MatchedMore
  <2> QED  BY <2>5 DEF more, n
<1>14. MatchedAvps'
  BY <1>5, <1>13 DEF MatchedAvps, new, openAfter
<1>15. Nested(seen)' /\ Following' /\ MatchedCmds' /\ RulesCurrent'
  BY <1>1, NestedKept, CmdsUntouched, RulesStay DEF RuleTags
<1>16. OwnRules'
  BY <1>1 DEF LoadInv, OwnRules
<1> QED  BY <1>14, <1>15, <1>16 DEF LoadInv

(* A command is declared and added, with two arrays of its own.            *)
LEMMA CommandKeepsLoad ==
  ASSUME HandlerInv, LoadInv, Command
  PROVE  LoadInv'
<1> DEFINE e == Head(rest)
           ld == CommandsOf(arrays, cmds.items)
           new == CommandsOf(arrays', cmds'.items)
           A == Len(arrays)
           cmd == [name |-> e.name, code |-> e.code, req_rules |-> A + 1, ans_rules |-> A + 2]
           L == Len(seen)
           N == Len(cmds.items)
           open == IF Begun THEN OpenCmds(seen) ELSE {}
           openAfter == IF Begun' THEN OpenCmds(seen') ELSE {}
<1>1. /\ Start("command") /\ UNCHANGED avps
      /\ cmds' \in PushBack(cmds, cmd) /\ arrays' = arrays \o << << >>, << >> >>
  BY DEF Command
<1>2. /\ e \in Elements /\ e.el = "command" /\ seen \in Seq(Elements) /\ seen' = Append(seen, e)
      /\ Fitted(seen, e) /\ Nested(seen)
  BY <1>1, FittingIsRead DEF LoadInv
<1>3. /\ A \in Nat /\ DOMAIN arrays = 1 .. A /\ cmds \in Table(Cmd)
      /\ arrays \in Seq(Seq(Rule \cup EnumEntry))
  BY ArrayNumbers DEF HandlerInv, Shape
<1>4. cmd \in Cmd
  BY <1>2, <1>3 DEF Cmd, Elements
<1>5. /\ \A k \in 1 .. A : arrays'[k] = arrays[k]
      /\ arrays'[A + 1] = << >> /\ arrays'[A + 2] = << >>
  BY <1>1, <1>3
<1>6. \A k \in DOMAIN arrays : ListOf(arrays', k) = ListOf(arrays, k)
  BY <1>3, <1>5 DEF ListOf, NameList
<1>7. ListOf(arrays', A + 1) = << >> /\ ListOf(arrays', A + 2) = << >>
  BY <1>3, <1>5 DEF ListOf, NameList
<1>8. /\ EntriesOf(arrays', avps.items) = EntriesOf(arrays, avps.items)
      /\ \A i \in DOMAIN cmds.items : CommandOf(arrays', cmds.items[i]) = CommandOf(arrays, cmds.items[i])
  BY <1>6, ListsStay
<1>9. CommandOf(arrays', cmd) = [name |-> e.name, code |-> e.code, req |-> << >>, ans |-> << >>]
  BY <1>7 DEF CommandOf
<1> HIDE DEF e, cmd, A
<1>10. /\ Len(cmds'.items) = N + 1 /\ cmds'.items[N + 1] = cmd
       /\ \A i \in DOMAIN cmds.items : i \in DOMAIN cmds'.items /\ cmds'.items[i] = cmds.items[i]
       /\ \A i \in DOMAIN cmds'.items : i \in DOMAIN cmds.items \/ i = N + 1
       /\ N + 1 \in DOMAIN cmds'.items
  BY <1>1, <1>3, <1>4, PushBackAppends
<1>11. N + 1 \notin DOMAIN cmds.items
  BY <1>3 DEF Table
<1>12. DOMAIN cmds'.items = DOMAIN cmds.items \cup {N + 1}
  BY <1>10
<1>13. /\ DOMAIN ld = DOMAIN cmds.items /\ DOMAIN new = DOMAIN ld \cup {N + 1} /\ N + 1 \notin DOMAIN ld
       /\ \A i \in DOMAIN ld : new[i] = ld[i]
       /\ new[N + 1] = [name |-> e.name, code |-> e.code, req |-> << >>, ans |-> << >>]
  BY <1>8, <1>9, <1>10, <1>11, <1>12 DEF CommandsOf
<1>14. /\ DOMAIN CmdsOf(seen') = DOMAIN CmdsOf(seen) \cup {L + 1}
       /\ L + 1 \notin DOMAIN CmdsOf(seen)
       /\ CmdsOf(seen')[L + 1] = [name |-> e.name, code |-> e.code, req |-> << >>, ans |-> << >>]
       /\ \A k \in DOMAIN CmdsOf(seen) : CmdsOf(seen')[k] = CmdsOf(seen)[k]
       /\ OpenCmds(seen') = {L + 1}
  BY <1>2, CommandBegins
<1>15. Matched(ld, CmdsOf(seen), N, open)
  BY DEF LoadInv, MatchedCmds
<1>16. openAfter \in SUBSET {L + 1}
  BY <1>14
<1>17. \A i \in DOMAIN cmds.items :
         /\ A + 1 \notin {cmds.items[i].req_rules, cmds.items[i].ans_rules}
         /\ A + 2 \notin {cmds.items[i].req_rules, cmds.items[i].ans_rules}
  <2>1. A + 1 \notin DOMAIN arrays /\ A + 2 \notin DOMAIN arrays
    BY <1>3
  <2> QED  BY <2>1, ArrayNumbers
<1> HIDE DEF ld, new, open, openAfter, L, N
<1> DEFINE dc == CmdsOf(seen)
           more == CmdsOf(seen')
           p == L + 1
           n == N + 1
<1>18. Matched(new, CmdsOf(seen'), N + 1, openAfter)
  <2>1. Matched(ld, dc, N, open) /\ openAfter \in SUBSET {p}
    BY <1>15, <1>16
  <2>2. /\ DOMAIN new = DOMAIN ld \cup {n} /\ n \notin DOMAIN ld
        /\ \A i \in DOMAIN ld : new[i] = ld[i]
    BY <1>13
  <2>3. /\ DOMAIN more = DOMAIN dc \cup {p} /\ p \notin DOMAIN dc
        /\ \A k \in DOMAIN dc : more[k] = dc[k]
    BY <1>14
  <2>4. new[n] = more[p]
    BY <1>13, <1>14
  <2> HIDE DEF dc, more, p, n
  <2>5. Matched(new, more, n, openAfter)
    BY <2>1, <2>2, <2>3, <2>4, MatchedMore
  <2> QED  BY <2>5 DEF more, n
<1>19. MatchedCmds'
  BY <1>10, <1>18 DEF MatchedCmds, new, openAfter
<1>20. Nested(seen)' /\ Following' /\ MatchedAvps' /\ RulesCurrent'
  BY <1>1, <1>8, NestedKept, AvpsUntouched, RulesStay DEF RuleTags
<1>21. OwnRules'
  <2>1. cmd.req_rules = A + 1 /\ cmd.ans_rules = A + 2 /\ A + 1 # A + 2
    BY <1>3 DEF cmd
  <2>2. \A i, j \in DOMAIN cmds.items :
          /\ cmds.items[i].req_rules # cmds.items[j].ans_rules
          /\ cmds.items[i].req_rules = cmds.items[j].req_rules => i = j
          /\ cmds.items[i].ans_rules = cmds.items[j].ans_rules => i = j
    BY DEF LoadInv, OwnRules
  <2> QED  BY <1>10, <1>12, <1>17, <2>1, <2>2 DEF OwnRules
<1> QED  BY <1>19, <1>20, <1>21 DEF LoadInv

(* An element of an open AVP whose entry changes in place.                 *)
LEMMA StoredKeepsLoad ==
  ASSUME HandlerInv, LoadInv, NEW tag \in {"type", "grouped", "enum"}, Start(tag),
         UNCHANGED cmds,
         \A j \in DOMAIN cmds.items : CommandOf(arrays', cmds.items[j]) = CommandOf(arrays, cmds.items[j]),
         avps' \in Table(AvpEntry), Len(avps'.items) = Len(avps.items),
         \A i \in DOMAIN avps.items : i # Len(avps.items) =>
           EntryOf(arrays', avps'.items[i]) = EntryOf(arrays, avps.items[i]),
         \A k \in OpenAvps(seen) :
           EntryOf(arrays, avps.items[Len(avps.items)]) = AvpAt(seen, k) =>
             EntryOf(arrays', avps'.items[Len(avps.items)]) = AvpAt(seen', k),
         tag = "grouped" => curr'.rules = avps'.items[Len(avps'.items)].content
  PROVE  LoadInv'
<1>1. /\ Head(rest) \in Elements /\ Head(rest).el = tag /\ seen \in Seq(Elements)
      /\ seen' = Append(seen, Head(rest)) /\ Fitted(seen, Head(rest)) /\ Nested(seen)
  BY FittingIsRead DEF LoadInv
<1>2. OpenAvps(seen) # {}
  BY <1>1, OneIsOpen DEF Fitted, Nested, AvpTags
<1>3. DOMAIN avps'.items = DOMAIN avps.items
  BY DEF HandlerInv, Shape, Table
<1>4. MatchedAvps'
  BY <1>2, <1>3, AvpsChange DEF AvpTags
<1>5. CommandsOf(arrays', cmds.items) = CommandsOf(arrays, cmds.items)
  BY DEF CommandsOf
<1>6. MatchedCmds'
  BY <1>5, CmdsUntouched
<1>7. RulesCurrent'
  <2>1. \A t : In(seen', t) <=> tag = t
    BY <1>1, InGrows DEF RuleTags
  <2> QED  BY <2>1 DEF RulesCurrent
<1>8. Nested(seen)' /\ Following'
  BY NestedKept
<1>9. OwnRules'
  BY DEF LoadInv, OwnRules
<1> QED  BY <1>4, <1>6, <1>7, <1>8, <1>9 DEF LoadInv

(* A type is that of the AVP just before it.                               *)
LEMMA TypeKeepsLoad ==
  ASSUME HandlerInv, LoadInv, Type
  PROVE  LoadInv'
<1> DEFINE e == Head(rest)
           last == Len(avps.items)
           old == Deref(avps, curr.avp)
           avp == [old EXCEPT !.type_name = e.name]
<1>1. Start("type") /\ UNCHANGED <<cmds, arrays>> /\ avps' = Store(avps, curr.avp, avp)
  BY DEF Type
<1>2. /\ e \in Elements /\ e.el = "type" /\ seen \in Seq(Elements) /\ seen' = Append(seen, e)
      /\ Fitted(seen, e) /\ Nested(seen)
  BY <1>1, FittingIsRead DEF LoadInv
<1>3. OnAvp /\ old \in AvpEntry
  BY <1>1, AtElement, EntryAtBack
<1>4. avp \in AvpEntry /\ avp.name = old.name /\ avp.code = old.code /\ avp.type_name = e.name
      /\ avp.content = old.content
  BY <1>2, <1>3 DEF AvpEntry, Elements
<1>5. avps \in Table(AvpEntry) /\ avps.items # << >> /\ curr.avp = Back(avps)
  BY <1>3 DEF HandlerInv, Shape, OnAvp
<1>6. old = avps.items[last]
  BY <1>5, BackPoints
<1> HIDE DEF e, avp, old, last
<1>7. /\ avps' \in Table(AvpEntry) /\ Len(avps'.items) = last /\ avps'.items[last] = avp
      /\ \A i \in DOMAIN avps.items : i # last => avps'.items[i] = avps.items[i]
  BY <1>1, <1>4, <1>5, StoreAtBack DEF last
<1>8. ASSUME NEW k \in OpenAvps(seen), EntryOf(arrays, old) = AvpAt(seen, k)
      PROVE  EntryOf(arrays', avp) = AvpAt(seen', k)
  <2>1. k = Len(seen) /\ k \in PlacesOf(seen, "avp")
    <3>1. OpenAvps(seen) = {Len(seen)}
      BY <1>2, OneIsOpen DEF Fitted, AvpTags
    <3> QED  BY <3>1 DEF OpenAvps, OpenIn
  <2>2. /\ seen'[k] = seen[k] /\ TypeAt(seen', k) = e.name
        /\ Members(seen', k) = << >> /\ Members(seen, k) = << >>
    BY <1>2, <2>1, AvpGrows
  <2>3. ListOf(arrays, old.content) = << >> /\ old.name = seen[k].name /\ old.code = seen[k].code
    BY <1>8, <2>2 DEF EntryOf, AvpAt
  <2> QED  BY <1>1, <1>4, <2>2, <2>3 DEF EntryOf, AvpAt
<1>9. /\ \A i \in DOMAIN avps.items : i # Len(avps.items) =>
           EntryOf(arrays', avps'.items[i]) = EntryOf(arrays, avps.items[i])
      /\ \A k \in OpenAvps(seen) :
           EntryOf(arrays, avps.items[Len(avps.items)]) = AvpAt(seen, k) =>
             EntryOf(arrays', avps'.items[Len(avps.items)]) = AvpAt(seen', k)
  BY <1>1, <1>6, <1>7, <1>8 DEF last
<1>10. \A j \in DOMAIN cmds.items : CommandOf(arrays', cmds.items[j]) = CommandOf(arrays, cmds.items[j])
  BY <1>1
<1>11. Len(avps'.items) = Len(avps.items) /\ UNCHANGED cmds
  BY <1>1, <1>7 DEF last
<1> QED  BY <1>1, <1>7, <1>9, <1>10, <1>11, StoredKeepsLoad

(* A grouped AVP is the one just before it, and has no rules yet.          *)
LEMMA GroupedKeepsLoad ==
  ASSUME HandlerInv, LoadInv, Grouped
  PROVE  LoadInv'
<1> DEFINE e == Head(rest)
           last == Len(avps.items)
           A == Len(arrays)
           old == Deref(avps, curr.avp)
           avp == [old EXCEPT !.type_name = "grouped", !.content = A + 1]
<1>1. /\ Start("grouped") /\ UNCHANGED cmds /\ avps' = Store(avps, curr.avp, avp)
      /\ arrays' = Append(arrays, << >>) /\ curr' = [curr EXCEPT !.rules = A + 1]
  BY DEF Grouped
<1>2. /\ e \in Elements /\ e.el = "grouped" /\ seen \in Seq(Elements) /\ seen' = Append(seen, e)
      /\ Fitted(seen, e) /\ Nested(seen)
  BY <1>1, FittingIsRead DEF LoadInv
<1>3. OnAvp /\ old \in AvpEntry /\ A \in Nat /\ DOMAIN arrays = 1 .. A
  BY <1>1, AtElement, EntryAtBack, ArrayNumbers
<1>4. avp \in AvpEntry /\ avp.name = old.name /\ avp.code = old.code /\ avp.type_name = "grouped"
      /\ avp.content = A + 1
  <2>1. "grouped" \in Names
    BY DictAssumption DEF DictAssumption
  <2>2. A + 1 \in Nat
    BY <1>3
  <2> HIDE DEF A, old
  <2> QED  BY <1>3, <2>1, <2>2 DEF AvpEntry
<1>5. avps \in Table(AvpEntry) /\ avps.items # << >> /\ curr.avp = Back(avps)
      /\ arrays \in Seq(Seq(Rule \cup EnumEntry)) /\ curr \in [cmd : Pointer, avp : Pointer, rules : Nat]
  BY <1>3 DEF HandlerInv, Shape, OnAvp
<1>6. old = avps.items[last]
  BY <1>5, BackPoints
<1>7. /\ \A k \in DOMAIN arrays : arrays'[k] = arrays[k]
      /\ arrays'[A + 1] = << >> /\ curr'.rules = A + 1
  BY <1>1, <1>3, <1>5
<1>8. /\ \A k \in DOMAIN arrays : ListOf(arrays', k) = ListOf(arrays, k)
      /\ ListOf(arrays', A + 1) = << >>
  BY <1>3, <1>7 DEF ListOf, NameList
<1>9. /\ \A i \in DOMAIN avps.items : EntryOf(arrays', avps.items[i]) = EntryOf(arrays, avps.items[i])
      /\ \A j \in DOMAIN cmds.items : CommandOf(arrays', cmds.items[j]) = CommandOf(arrays, cmds.items[j])
  BY <1>8, ListsStay
<1> HIDE DEF e, avp, old, last, A
<1>10. /\ avps' \in Table(AvpEntry) /\ Len(avps'.items) = last /\ avps'.items[last] = avp
       /\ \A i \in DOMAIN avps.items : i # last => avps'.items[i] = avps.items[i]
  BY <1>1, <1>4, <1>5, StoreAtBack DEF last
<1>11. ASSUME NEW k \in OpenAvps(seen), EntryOf(arrays, old) = AvpAt(seen, k)
       PROVE  EntryOf(arrays', avp) = AvpAt(seen', k)
  <2>1. k = Len(seen) /\ k \in PlacesOf(seen, "avp")
    <3>1. OpenAvps(seen) = {Len(seen)}
      BY <1>2, OneIsOpen DEF Fitted, AvpTags
    <3> QED  BY <3>1 DEF OpenAvps, OpenIn
  <2>2. seen'[k] = seen[k] /\ TypeAt(seen', k) = "grouped" /\ Members(seen', k) = << >>
    BY <1>2, <2>1, AvpGrows
  <2>3. old.name = seen[k].name /\ old.code = seen[k].code
    BY <1>11 DEF EntryOf, AvpAt
  <2> QED  BY <1>4, <1>8, <2>2, <2>3 DEF EntryOf, AvpAt
<1>12. /\ \A i \in DOMAIN avps.items : i # Len(avps.items) =>
            EntryOf(arrays', avps'.items[i]) = EntryOf(arrays, avps.items[i])
       /\ \A k \in OpenAvps(seen) :
            EntryOf(arrays, avps.items[Len(avps.items)]) = AvpAt(seen, k) =>
              EntryOf(arrays', avps'.items[Len(avps.items)]) = AvpAt(seen', k)
  BY <1>6, <1>9, <1>10, <1>11 DEF last
<1>13. Len(avps'.items) = Len(avps.items) /\ curr'.rules = avps'.items[Len(avps'.items)].content
  BY <1>4, <1>7, <1>10 DEF last
<1> QED  BY <1>1, <1>9, <1>10, <1>12, <1>13, StoredKeepsLoad

(* A list with an element more has its name at the end.                    *)
LEMMA NameListAppends ==
  ASSUME NEW q \in Seq(Rule \cup EnumEntry), NEW x \in Rule \cup EnumEntry
  PROVE  NameList(Append(q, x)) = Append(NameList(q), x.name)
<1> DEFINE names == NameList(q)
<1>1. \A y \in Rule \cup EnumEntry : y.name \in Names
  BY DEF Rule, EnumEntry
<1>2. /\ Len(q) \in Nat /\ DOMAIN q = 1 .. Len(q)
      /\ \A i \in 1 .. Len(q) : q[i] \in Rule \cup EnumEntry
      /\ DOMAIN Append(q, x) = 1 .. Len(q) + 1
      /\ \A i \in 1 .. Len(q) : Append(q, x)[i] = q[i]
      /\ Append(q, x)[Len(q) + 1] = x
  OBVIOUS
<1>3. names = [i \in 1 .. Len(q) |-> q[i].name]
  BY <1>2 DEF NameList
<1>4. names \in Seq(Names) /\ Len(names) = Len(q)
  <2>1. names \in [1 .. Len(q) -> Names]
    BY <1>1, <1>2, <1>3
  <2> QED  BY <1>2, <2>1, IsASeqOfLength
<1>5. \A i \in 1 .. Len(q) : names[i] = q[i].name
  BY <1>3
<1> HIDE DEF names
<1>6. Append(names, x.name) = [i \in 1 .. Len(q) + 1 |-> IF i <= Len(q) THEN names[i] ELSE x.name]
  BY <1>4
<1>7. ASSUME NEW i \in 1 .. Len(q) + 1
      PROVE  Append(q, x)[i].name = IF i <= Len(q) THEN names[i] ELSE x.name
  <2>1. CASE i <= Len(q)
    <3>1. i \in 1 .. Len(q)
      BY <1>2, <2>1
    <3> QED  BY <1>2, <1>5, <2>1, <3>1
  <2>2. CASE ~(i <= Len(q))
    <3>1. i = Len(q) + 1
      BY <1>2, <2>2
    <3> QED  BY <1>2, <2>2, <3>1
  <2> QED  BY <2>1, <2>2
<1>8. NameList(Append(q, x)) = [i \in 1 .. Len(q) + 1 |-> Append(q, x)[i].name]
  BY <1>2 DEF NameList
<1> QED  BY <1>6, <1>7, <1>8 DEF names

(* An enum value goes to the open AVP, into an array only that AVP has.    *)
LEMMA EnumKeepsLoad ==
  ASSUME HandlerInv, LoadInv, Enum
  PROVE  LoadInv'
<1> DEFINE e == Head(rest)
           last == Len(avps.items)
           A == Len(arrays)
           old == Deref(avps, curr.avp)
           x == [name |-> e.name, code |-> e.code]
           avp == [old EXCEPT !.content = A + 1]
<1>1. /\ Start("enum") /\ UNCHANGED <<cmds, curr>>
      /\ \/ /\ old.content = 0
            /\ arrays' = Append(arrays, <<x>>)
            /\ avps' = Store(avps, curr.avp, avp)
         \/ /\ old.content # 0
            /\ arrays' = [arrays EXCEPT ![old.content] = Append(arrays[old.content], x)]
            /\ UNCHANGED avps
  BY Zenon DEF Enum
<1>2. /\ e \in Elements /\ e.el = "enum" /\ seen \in Seq(Elements) /\ seen' = Append(seen, e)
      /\ Fitted(seen, e) /\ Nested(seen)
  BY <1>1, FittingIsRead DEF LoadInv
<1>3. OnAvp /\ old \in AvpEntry /\ A \in Nat /\ DOMAIN arrays = 1 .. A
  BY <1>1, AtElement, EntryAtBack, ArrayNumbers
<1>4. avps \in Table(AvpEntry) /\ avps.items # << >> /\ curr.avp = Back(avps)
      /\ arrays \in Seq(Seq(Rule \cup EnumEntry))
  BY <1>3 DEF HandlerInv, Shape, OnAvp
<1>5. old = avps.items[last] /\ last \in DOMAIN avps.items
  BY <1>4, BackPoints
<1>6. x \in EnumEntry /\ x.name = e.name
  BY <1>2 DEF EnumEntry, Elements
<1>7. \A k \in OpenAvps(seen) :
        /\ seen'[k] = seen[k] /\ TypeAt(seen', k) = TypeAt(seen, k)
        /\ Members(seen', k) = Append(Members(seen, k), e.name)
  <2>1. OpenAvps(seen) \in SUBSET PlacesOf(seen, "avp")
    BY DEF OpenAvps, OpenIn
  <2> QED  BY <1>2, <2>1, AvpGrows
<1> HIDE DEF e, last, A, old, x
<1>8. CASE /\ old.content = 0
           /\ arrays' = Append(arrays, <<x>>)
           /\ avps' = Store(avps, curr.avp, avp)
  <2>1. avp \in AvpEntry /\ avp.name = old.name /\ avp.code = old.code /\ avp.type_name = old.type_name
        /\ avp.content = A + 1
    <3>1. A + 1 \in Nat
      BY <1>3
    <3> QED  BY <1>3, <3>1 DEF AvpEntry
  <2> HIDE DEF avp
  <2>2. /\ avps' \in Table(AvpEntry) /\ Len(avps'.items) = last /\ avps'.items[last] = avp
        /\ \A i \in DOMAIN avps.items : i # last => avps'.items[i] = avps.items[i]
    BY <1>4, <1>8, <2>1, StoreAtBack DEF last
  <2>3. /\ \A k \in DOMAIN arrays : arrays'[k] = arrays[k]
        /\ arrays'[A + 1] = <<x>>
    BY <1>3, <1>4, <1>8 DEF A
  <2>4. /\ \A k \in DOMAIN arrays : ListOf(arrays', k) = ListOf(arrays, k)
        /\ ListOf(arrays', A + 1) = <<e.name>>
    BY <1>3, <1>6, <2>3 DEF ListOf, NameList
  <2>5. /\ \A i \in DOMAIN avps.items : EntryOf(arrays', avps.items[i]) = EntryOf(arrays, avps.items[i])
        /\ \A j \in DOMAIN cmds.items : CommandOf(arrays', cmds.items[j]) = CommandOf(arrays, cmds.items[j])
    BY <2>4, ListsStay
  <2>6. ASSUME NEW k \in OpenAvps(seen), EntryOf(arrays, old) = AvpAt(seen, k)
        PROVE  EntryOf(arrays', avp) = AvpAt(seen', k)
    <3>1. ListOf(arrays, old.content) = << >>
      BY <1>8 DEF ListOf, NameList
    <3>2. Members(seen, k) = << >> /\ old.name = seen[k].name /\ old.code = seen[k].code
          /\ old.type_name = TypeAt(seen, k)
      BY <2>6, <3>1 DEF EntryOf, AvpAt
    <3>3. Members(seen', k) = <<e.name>>
      <4>1. \A n : Append(<< >>, n) = <<n>>
        OBVIOUS
      <4>2. Members(seen', k) = Append(<< >>, e.name)
        BY <1>7, <3>2, Zenon
      <4> QED  BY <4>1, <4>2, Zenon
    <3> QED  BY <1>7, <2>1, <2>4, <3>2, <3>3 DEF EntryOf, AvpAt
  <2>7. /\ \A i \in DOMAIN avps.items : i # Len(avps.items) =>
             EntryOf(arrays', avps'.items[i]) = EntryOf(arrays, avps.items[i])
        /\ \A k \in OpenAvps(seen) :
             EntryOf(arrays, avps.items[Len(avps.items)]) = AvpAt(seen, k) =>
               EntryOf(arrays', avps'.items[Len(avps.items)]) = AvpAt(seen', k)
    BY <1>5, <2>2, <2>5, <2>6 DEF last
  <2>8. Len(avps'.items) = Len(avps.items) /\ UNCHANGED cmds
    BY <1>1, <2>2 DEF last
  <2> QED  BY <1>1, <2>2, <2>5, <2>7, <2>8, StoredKeepsLoad
<1>9. CASE /\ old.content # 0
           /\ arrays' = [arrays EXCEPT ![old.content] = Append(arrays[old.content], x)]
           /\ UNCHANGED avps
  <2> DEFINE c == old.content
  <2>1. c \in DOMAIN arrays
    BY <1>5, <1>9, ArrayNumbers
  <2>2. /\ ListOf(arrays', c) = Append(ListOf(arrays, c), e.name)
        /\ \A k \in {0} \cup DOMAIN arrays : k # c => ListOf(arrays', k) = ListOf(arrays, k)
    <3>1. x \in Rule \cup EnumEntry
      BY <1>6
    <3>2. arrays' = [arrays EXCEPT ![c] = Append(arrays[c], x)]
      BY <1>9
    <3>3. arrays \in Seq(Seq(Rule \cup EnumEntry))
      BY <1>4
    <3> HIDE DEF c
    <3>4. /\ arrays'[c] = Append(arrays[c], x) /\ arrays[c] \in Seq(Rule \cup EnumEntry) /\ c # 0
          /\ \A k \in DOMAIN arrays : k # c => arrays'[k] = arrays[k]
      BY <2>1, <3>2, <3>3
    <3>5. NameList(Append(arrays[c], x)) = Append(NameList(arrays[c]), x.name)
      BY <3>1, <3>4, NameListAppends
    <3>6. ListOf(arrays', c) = Append(ListOf(arrays, c), x.name)
      BY <3>4, <3>5 DEF ListOf
    <3>7. \A k \in {0} \cup DOMAIN arrays : k # c => ListOf(arrays', k) = ListOf(arrays, k)
      BY <3>4 DEF ListOf, NameList
    <3> QED  BY <1>6, <3>6, <3>7
  <2> HIDE DEF c
  <2>3. /\ \A i \in DOMAIN avps.items : i # last => avps.items[i].content # c
        /\ \A j \in DOMAIN cmds.items : c \notin {cmds.items[j].req_rules, cmds.items[j].ans_rules}
    BY <1>5, <1>9 DEF HandlerInv, OwnContent, NoSharing, c
  <2>4. /\ \A i \in DOMAIN avps.items : i # last =>
             ListOf(arrays', avps.items[i].content) = ListOf(arrays, avps.items[i].content)
        /\ \A j \in DOMAIN cmds.items :
             /\ ListOf(arrays', cmds.items[j].req_rules) = ListOf(arrays, cmds.items[j].req_rules)
             /\ ListOf(arrays', cmds.items[j].ans_rules) = ListOf(arrays, cmds.items[j].ans_rules)
    BY <2>2, <2>3, ArrayNumbers
  <2>5. \A i \in DOMAIN avps.items : i # last =>
          EntryOf(arrays', avps.items[i]) = EntryOf(arrays, avps.items[i])
    BY <2>4 DEF EntryOf
  <2>6. \A j \in DOMAIN cmds.items : CommandOf(arrays', cmds.items[j]) = CommandOf(arrays, cmds.items[j])
    BY <2>4 DEF CommandOf
  <2>7. ASSUME NEW k \in OpenAvps(seen), EntryOf(arrays, old) = AvpAt(seen, k)
        PROVE  EntryOf(arrays', old) = AvpAt(seen', k)
    <3>1. Members(seen, k) = ListOf(arrays, c) /\ old.name = seen[k].name /\ old.code = seen[k].code
          /\ old.type_name = TypeAt(seen, k)
      BY <2>7 DEF EntryOf, AvpAt, c
    <3> QED  BY <1>7, <2>2, <3>1 DEF EntryOf, AvpAt, c
  <2>8. /\ \A i \in DOMAIN avps.items : i # Len(avps.items) =>
             EntryOf(arrays', avps'.items[i]) = EntryOf(arrays, avps.items[i])
        /\ \A k \in OpenAvps(seen) :
             EntryOf(arrays, avps.items[Len(avps.items)]) = AvpAt(seen, k) =>
               EntryOf(arrays', avps'.items[Len(avps.items)]) = AvpAt(seen', k)
    BY <1>5, <1>9, <2>5, <2>7 DEF last
  <2>9. avps' \in Table(AvpEntry) /\ Len(avps'.items) = Len(avps.items) /\ UNCHANGED cmds
    BY <1>1, <1>4, <1>9
  <2> QED  BY <1>1, <2>6, <2>8, <2>9, StoredKeepsLoad
<1> QED  BY <1>1, <1>8, <1>9

(* A rule of the open command goes to its section.                         *)
LEMMA SectionRuleKeepsCmds ==
  ASSUME HandlerInv, LoadInv, AvpRule, NEW tag \in {"requestrules", "answerrules"}, In(seen, tag)
  PROVE  MatchedCmds'
<1> DEFINE e == Head(rest)
           last == Len(cmds.items)
           ld == CommandsOf(arrays, cmds.items)
           new == CommandsOf(arrays', cmds.items)
           dc == CmdsOf(seen)
           more == CmdsOf(seen')
           open == OpenCmds(seen)
           x == [name |-> e.name, avp |-> Null]
           c == curr.rules
           openAfter == IF Begun' THEN OpenCmds(seen') ELSE {}
<1>1. /\ Start("avprule") /\ UNCHANGED <<cmds, avps, curr>>
      /\ arrays' = [arrays EXCEPT ![c] = Append(arrays[c], x)]
  BY DEF AvpRule
<1>2. /\ e \in Elements /\ e.el = "avprule" /\ seen \in Seq(Elements) /\ seen' = Append(seen, e)
      /\ Fitted(seen, e) /\ Nested(seen) /\ Begun
  BY <1>1, FittingIsRead DEF LoadInv, AvpTags
<1>3. c \in DOMAIN arrays /\ arrays \in Seq(Seq(Rule \cup EnumEntry))
  BY <1>1, AtElement DEF HandlerInv, RulesOnly, Shape
<1>4. x \in Rule \cup EnumEntry /\ x.name = e.name
  BY <1>2 DEF Rule, Elements, Null, Pointer
<1> HIDE DEF e, last, x, c
<1>5. /\ ListOf(arrays', c) = Append(ListOf(arrays, c), e.name)
      /\ \A k \in {0} \cup DOMAIN arrays : k # c => ListOf(arrays', k) = ListOf(arrays, k)
  <2>1. /\ arrays'[c] = Append(arrays[c], x) /\ arrays[c] \in Seq(Rule \cup EnumEntry) /\ c # 0
        /\ \A k \in DOMAIN arrays : k # c => arrays'[k] = arrays[k]
    BY <1>1, <1>3
  <2>2. x \in Rule \cup EnumEntry
    BY <1>4
  <2>3. NameList(Append(arrays[c], x)) = Append(NameList(arrays[c]), x.name)
    BY <2>1, <2>2, NameListAppends
  <2>4. ListOf(arrays', c) = Append(ListOf(arrays, c), x.name)
    BY <2>1, <2>3 DEF ListOf
  <2>5. \A k \in {0} \cup DOMAIN arrays : k # c => ListOf(arrays', k) = ListOf(arrays, k)
    BY <2>1 DEF ListOf, NameList
  <2> QED  BY <1>4, <2>4, <2>5
<1>6. open # {}
  BY <1>2 DEF Nested
<1>7. Matched(ld, dc, last, open)
  BY <1>2 DEF LoadInv, MatchedCmds, last
<1>8. \A i \in DOMAIN cmds.items :
        /\ ld[i] = CommandOf(arrays, cmds.items[i]) /\ new[i] = CommandOf(arrays', cmds.items[i])
        /\ {cmds.items[i].req_rules, cmds.items[i].ans_rules} \subseteq DOMAIN arrays
  BY ArrayNumbers DEF CommandsOf
<1>9. DOMAIN ld = DOMAIN cmds.items /\ DOMAIN new = DOMAIN cmds.items
  BY DEF CommandsOf
<1>10. /\ DOMAIN more = DOMAIN dc
       /\ \A k \in DOMAIN dc : k \notin open => more[k] = dc[k]
       /\ OpenCmds(seen') = open
  BY <1>2, CmdsGoOn DEF CmdTags
<1>11. \A t \in {"requestrules", "answerrules"} : In(seen, t) <=> t = tag
  <2>1. ASSUME NEW t \in {"requestrules", "answerrules"}, In(seen, t) PROVE t = tag
    <3>1. t \notin RuleTags /\ tag \notin RuleTags
      BY DEF RuleTags
    <3> QED  BY <1>2, <2>1, <3>1, InOne
  <2> QED  BY <2>1
<1>12. \A k \in open :
         /\ more[k] = [name |-> seen[k].name, code |-> seen[k].code,
                       req |-> IF tag = "requestrules" THEN Append(SectionAt(seen, k, "requestrules"), e.name)
                               ELSE SectionAt(seen, k, "requestrules"),
                       ans |-> IF tag = "answerrules" THEN Append(SectionAt(seen, k, "answerrules"), e.name)
                               ELSE SectionAt(seen, k, "answerrules")]
         /\ dc[k] = [name |-> seen[k].name, code |-> seen[k].code,
                     req |-> SectionAt(seen, k, "requestrules"), ans |-> SectionAt(seen, k, "answerrules")]
         /\ k \in DOMAIN dc
  <2> SUFFICES ASSUME NEW k \in open
               PROVE  /\ more[k] = [name |-> seen[k].name, code |-> seen[k].code,
                           req |-> IF tag = "requestrules" THEN Append(SectionAt(seen, k, "requestrules"), e.name)
                                   ELSE SectionAt(seen, k, "requestrules"),
                           ans |-> IF tag = "answerrules" THEN Append(SectionAt(seen, k, "answerrules"), e.name)
                                   ELSE SectionAt(seen, k, "answerrules")]
                      /\ dc[k] = CmdAt(seen, k) /\ k \in DOMAIN dc
    BY DEF CmdAt
  <2> DEFINE grown(t) == GrownSection(seen, e, k, t)
  <2>1. k \in PlacesOf(seen, "command")
    BY DEF OpenCmds, OpenIn
  <2>2. dc[k] = CmdAt(seen, k) /\ k \in DOMAIN dc
    BY <2>1 DEF CmdsOf
  <2>3. CmdsOf(Append(seen, e))[k] = [name |-> seen[k].name, code |-> seen[k].code,
                                      req |-> grown("requestrules"), ans |-> grown("answerrules")]
    BY <1>2, <2>2, CmdsGrow
  <2>4. /\ grown("requestrules") = IF tag = "requestrules"
                                   THEN Append(SectionAt(seen, k, "requestrules"), e.name)
                                   ELSE SectionAt(seen, k, "requestrules")
        /\ grown("answerrules") = IF tag = "answerrules"
                                  THEN Append(SectionAt(seen, k, "answerrules"), e.name)
                                  ELSE SectionAt(seen, k, "answerrules")
    BY <1>2, <1>11 DEF GrownSection
  <2> QED  BY <1>2, <2>2, <2>3, <2>4
<1> HIDE DEF ld, new, dc, more, open
<1>13. last \in DOMAIN cmds.items /\ \A k \in open : ld[last] = dc[k]
  BY <1>6, <1>7, <1>9, MatchedLast
<1>14. c = IF tag = "requestrules" THEN cmds.items[last].req_rules ELSE cmds.items[last].ans_rules
  BY <1>2 DEF LoadInv, RulesCurrent, c, last
<1>15. \A i, j \in DOMAIN cmds.items :
         /\ cmds.items[i].req_rules # cmds.items[j].ans_rules
         /\ cmds.items[i].req_rules = cmds.items[j].req_rules => i = j
         /\ cmds.items[i].ans_rules = cmds.items[j].ans_rules => i = j
  BY DEF LoadInv, OwnRules
<1>16. ASSUME NEW i \in DOMAIN cmds.items, i # last PROVE new[i] = ld[i]
  <2>1. c \notin {cmds.items[i].req_rules, cmds.items[i].ans_rules}
    BY <1>13, <1>14, <1>15, <1>16
  <2> QED  BY <1>5, <1>8, <2>1 DEF CommandOf
<1>17. ASSUME NEW k \in open PROVE new[last] = more[k]
  <2> DEFINE cmd == cmds.items[last]
  <2>1. /\ cmd.name = seen[k].name /\ cmd.code = seen[k].code
        /\ ListOf(arrays, cmd.req_rules) = SectionAt(seen, k, "requestrules")
        /\ ListOf(arrays, cmd.ans_rules) = SectionAt(seen, k, "answerrules")
    <3>1. CommandOf(arrays, cmd) = dc[k]
      BY <1>8, <1>13
    <3>2. dc[k] = [name |-> seen[k].name, code |-> seen[k].code,
                   req |-> SectionAt(seen, k, "requestrules"), ans |-> SectionAt(seen, k, "answerrules")]
      BY <1>12
    <3> HIDE DEF cmd
    <3> QED  BY <3>1, <3>2 DEF CommandOf
  <2>2. cmd.req_rules # cmd.ans_rules /\ {cmd.req_rules, cmd.ans_rules} \subseteq DOMAIN arrays
    BY <1>8, <1>13, <1>15
  <2>3. new[last] = [name |-> cmd.name, code |-> cmd.code, req |-> ListOf(arrays', cmd.req_rules),
                     ans |-> ListOf(arrays', cmd.ans_rules)]
    BY <1>8, <1>13 DEF CommandOf
  <2> HIDE DEF cmd
  <2>4. CASE tag = "requestrules"
    <3>1. c = cmd.req_rules /\ tag # "answerrules"
      BY <1>14, <2>4 DEF cmd
    <3>2. /\ ListOf(arrays', cmd.req_rules) = Append(SectionAt(seen, k, "requestrules"), e.name)
          /\ ListOf(arrays', cmd.ans_rules) = SectionAt(seen, k, "answerrules")
      BY <1>5, <2>1, <2>2, <3>1
    <3> QED  BY <1>12, <2>1, <2>3, <2>4, <3>1, <3>2
  <2>5. CASE tag = "answerrules"
    <3>1. c = cmd.ans_rules /\ tag # "requestrules"
      BY <1>14, <2>5 DEF cmd
    <3>2. /\ ListOf(arrays', cmd.ans_rules) = Append(SectionAt(seen, k, "answerrules"), e.name)
          /\ ListOf(arrays', cmd.req_rules) = SectionAt(seen, k, "requestrules")
      BY <1>5, <2>1, <2>2, <3>1
    <3> QED  BY <1>12, <2>1, <2>3, <2>5, <3>1, <3>2
  <2> QED  BY <2>4, <2>5
<1>18. openAfter \in SUBSET open
  BY <1>10
<1> HIDE DEF openAfter
<1>19. Matched(new, more, last, openAfter)
  <2>1. \A i \in DOMAIN ld : i # last => new[i] = ld[i]
    BY <1>9, <1>16
  <2>2. DOMAIN new = DOMAIN ld
    BY <1>9
  <2> QED  BY <1>6, <1>7, <1>10, <1>17, <1>18, <2>1, <2>2, MatchedChange
<1> QED  BY <1>1, <1>19 DEF MatchedCmds, new, more, last, openAfter

(* A rule goes to the section or the grouped AVP it lies in, into an array *)
(* that nothing else has.                                                  *)
LEMMA AvpRuleKeepsLoad ==
  ASSUME HandlerInv, LoadInv, AvpRule
  PROVE  LoadInv'
<1> DEFINE e == Head(rest)
           last == Len(avps.items)
           x == [name |-> e.name, avp |-> Null]
           c == curr.rules
<1>1. /\ Start("avprule") /\ UNCHANGED <<cmds, avps, curr>>
      /\ arrays' = [arrays EXCEPT ![c] = Append(arrays[c], x)]
  BY DEF AvpRule
<1>2. /\ e \in Elements /\ e.el = "avprule" /\ seen \in Seq(Elements) /\ seen' = Append(seen, e)
      /\ Fitted(seen, e) /\ Nested(seen) /\ Begun
  BY <1>1, FittingIsRead DEF LoadInv, AvpTags
<1>3. c \in DOMAIN arrays /\ arrays \in Seq(Seq(Rule \cup EnumEntry)) /\ c # 0
  BY <1>1, AtElement DEF HandlerInv, RulesOnly, Shape
<1>4. x \in Rule \cup EnumEntry /\ x.name = e.name
  BY <1>2 DEF Rule, Elements, Null, Pointer
<1> HIDE DEF e, last, x, c
<1>5. /\ ListOf(arrays', c) = Append(ListOf(arrays, c), e.name)
      /\ \A k \in {0} \cup DOMAIN arrays : k # c => ListOf(arrays', k) = ListOf(arrays, k)
  <2>1. /\ arrays'[c] = Append(arrays[c], x) /\ arrays[c] \in Seq(Rule \cup EnumEntry) /\ c # 0
        /\ \A k \in DOMAIN arrays : k # c => arrays'[k] = arrays[k]
    BY <1>1, <1>3
  <2>2. x \in Rule \cup EnumEntry
    BY <1>4
  <2>3. NameList(Append(arrays[c], x)) = Append(NameList(arrays[c]), x.name)
    BY <2>1, <2>2, NameListAppends
  <2>4. ListOf(arrays', c) = Append(ListOf(arrays, c), x.name)
    BY <2>1, <2>3 DEF ListOf
  <2>5. \A k \in {0} \cup DOMAIN arrays : k # c => ListOf(arrays', k) = ListOf(arrays, k)
    BY <2>1 DEF ListOf, NameList
  <2> QED  BY <1>4, <2>4, <2>5
<1>6. Nested(seen)' /\ Following' /\ RulesCurrent' /\ OwnRules'
  BY <1>1, NestedKept, RulesStay DEF LoadInv, OwnRules
<1>7. CASE In(seen, "grouped")
  <2>1. OpenAvps(seen) # {} /\ c = avps.items[last].content
    BY <1>2, <1>7 DEF Nested, LoadInv, RulesCurrent, c, last
  <2>2. last \in DOMAIN avps.items
    <3>1. Matched(EntriesOf(arrays, avps.items), AvpsOf(seen), last, OpenAvps(seen))
      BY <1>2 DEF LoadInv, MatchedAvps, last
    <3>2. last \in DOMAIN EntriesOf(arrays, avps.items)
      BY <2>1, <3>1, MatchedLast
    <3> QED  BY <3>2 DEF EntriesOf
  <2>3. /\ \A i \in DOMAIN avps.items : i # last => avps.items[i].content # c
        /\ \A j \in DOMAIN cmds.items : c \notin {cmds.items[j].req_rules, cmds.items[j].ans_rules}
    BY <1>3, <2>1, <2>2 DEF HandlerInv, OwnContent, NoSharing
  <2>4. /\ \A i \in DOMAIN avps.items : i # last =>
             ListOf(arrays', avps.items[i].content) = ListOf(arrays, avps.items[i].content)
        /\ \A j \in DOMAIN cmds.items :
             /\ ListOf(arrays', cmds.items[j].req_rules) = ListOf(arrays, cmds.items[j].req_rules)
             /\ ListOf(arrays', cmds.items[j].ans_rules) = ListOf(arrays, cmds.items[j].ans_rules)
    BY <1>5, <2>3, ArrayNumbers
  <2>5. \A i \in DOMAIN avps.items : i # last =>
          EntryOf(arrays', avps.items[i]) = EntryOf(arrays, avps.items[i])
    BY <2>4 DEF EntryOf
  <2>6. CommandsOf(arrays', cmds.items) = CommandsOf(arrays, cmds.items)
    BY <2>4 DEF CommandsOf, CommandOf
  <2>7. MatchedCmds'
    BY <1>1, <1>7, <2>6, CmdsUntouched
  <2>8. ASSUME NEW k \in OpenAvps(seen), EntryOf(arrays, avps.items[last]) = AvpAt(seen, k)
        PROVE  EntryOf(arrays', avps.items[last]) = AvpAt(seen', k)
    <3> DEFINE old == avps.items[last]
    <3>1. Members(seen, k) = ListOf(arrays, c) /\ old.name = seen[k].name /\ old.code = seen[k].code
          /\ old.type_name = TypeAt(seen, k)
      BY <2>1, <2>8 DEF EntryOf, AvpAt
    <3>2. k \in PlacesOf(seen, "avp")
      BY DEF OpenAvps, OpenIn
    <3>3. /\ seen'[k] = seen[k] /\ TypeAt(seen', k) = TypeAt(seen, k)
          /\ Members(seen', k) = Append(Members(seen, k), e.name)
      BY <1>2, <3>2, AvpGrows
    <3> QED  BY <1>5, <2>1, <3>1, <3>3 DEF EntryOf, AvpAt
  <2>9. MatchedAvps'
    <3>1. /\ \A i \in DOMAIN avps.items : i # Len(avps.items) =>
               EntryOf(arrays', avps'.items[i]) = EntryOf(arrays, avps.items[i])
          /\ \A k \in OpenAvps(seen) :
               EntryOf(arrays, avps.items[Len(avps.items)]) = AvpAt(seen, k) =>
                 EntryOf(arrays', avps'.items[Len(avps.items)]) = AvpAt(seen', k)
      BY <1>1, <2>5, <2>8 DEF last
    <3>2. "avprule" \in AvpTags
      BY DEF AvpTags
    <3>3. DOMAIN avps'.items = DOMAIN avps.items /\ Len(avps'.items) = Len(avps.items)
      BY <1>1
    <3> QED  BY <1>1, <2>1, <3>1, <3>2, <3>3, AvpsChange
  <2> QED  BY <1>6, <2>7, <2>9 DEF LoadInv
<1>8. CASE ~In(seen, "grouped")
  <2>1. PICK tag \in {"requestrules", "answerrules"} : In(seen, tag)
    BY <1>2, <1>8 DEF Fitted, RuleTags
  <2>2. MatchedCmds'
    BY <2>1, SectionRuleKeepsCmds
  <2>3. \E j \in DOMAIN cmds.items : c \in {cmds.items[j].req_rules, cmds.items[j].ans_rules}
    <3> DEFINE n == Len(cmds.items)
    <3>1. OpenCmds(seen) # {}
      BY <1>2, <2>1 DEF Nested
    <3>2. Matched(CommandsOf(arrays, cmds.items), CmdsOf(seen), n, OpenCmds(seen))
      BY <1>2 DEF LoadInv, MatchedCmds
    <3>3. n \in DOMAIN CommandsOf(arrays, cmds.items)
      BY <3>1, <3>2, MatchedLast
    <3>4. n \in DOMAIN cmds.items
      BY <3>3 DEF CommandsOf
    <3>5. c \in {cmds.items[n].req_rules, cmds.items[n].ans_rules}
      BY <1>2, <2>1 DEF LoadInv, RulesCurrent, c
    <3> QED  BY <3>4, <3>5
  <2>4. \A i \in DOMAIN avps.items : avps.items[i].content # c
    BY <2>3 DEF HandlerInv, NoSharing
  <2>5. \A i \in DOMAIN avps.items :
          ListOf(arrays', avps.items[i].content) = ListOf(arrays, avps.items[i].content)
    BY <1>5, <2>4, ArrayNumbers
  <2>6. EntriesOf(arrays', avps.items) = EntriesOf(arrays, avps.items)
    BY <2>5 DEF EntriesOf, EntryOf
  <2>7. MatchedAvps'
    BY <1>1, <1>8, <2>6, AvpsUntouched
  <2> QED  BY <1>6, <2>2, <2>7 DEF LoadInv
<1> QED  BY <1>7, <1>8

(* Outside the file's elements nothing that was loaded changes.            *)
LEMMA QuietKeepsLoad ==
  ASSUME HandlerInv, LoadInv, UNCHANGED <<seen, cmds, avps, arrays>>,
         pc' # "parse" \/ rest' \in Documents \/ UNCHANGED <<pc, rest, curr>>
  PROVE  LoadInv'
<1>1. Begun' => Begun /\ UNCHANGED curr
  BY DEF Begun
<1>2. Following'
  <2>1. CASE pc' # "parse"
    BY <2>1 DEF Following
  <2>2. CASE rest' \in Documents
    <3> DEFINE doc == rest'
    <3>1. doc \in Seq(Elements) /\ seen \in Seq(Elements)
      BY <2>2, DictAssumption DEF DictAssumption, HandlerInv, Shape
    <3>2. doc = SubSeq(doc, 0 + 1, Len(doc)) /\ 0 \in 0 .. Len(doc) /\ Trails(doc, 0, seen)
      BY <3>1 DEF Trails
    <3> QED  BY <2>2, <3>2 DEF Following
  <2>3. CASE UNCHANGED <<pc, rest, curr>>
    BY <2>3 DEF LoadInv, Following
  <2> QED  BY <2>1, <2>2, <2>3
<1>3. MatchedAvps'
  <2> DEFINE ld == EntriesOf(arrays, avps.items)
             dc == AvpsOf(seen)
             last == Len(avps.items)
             open == IF Begun THEN OpenAvps(seen) ELSE {}
             openAfter == IF Begun' THEN OpenAvps(seen) ELSE {}
  <2>1. Matched(ld, dc, last, open) /\ openAfter \in SUBSET open
    BY <1>1 DEF LoadInv, MatchedAvps
  <2> HIDE DEF ld, dc, last, open, openAfter
  <2>2. Matched(ld, dc, last, openAfter)
    BY <2>1, MatchedStays
  <2> QED  BY <2>2 DEF MatchedAvps, ld, dc, last, openAfter
<1>4. MatchedCmds'
  <2> DEFINE ld == CommandsOf(arrays, cmds.items)
             dc == CmdsOf(seen)
             last == Len(cmds.items)
             open == IF Begun THEN OpenCmds(seen) ELSE {}
             openAfter == IF Begun' THEN OpenCmds(seen) ELSE {}
  <2>1. Matched(ld, dc, last, open) /\ openAfter \in SUBSET open
    BY <1>1 DEF LoadInv, MatchedCmds
  <2> HIDE DEF ld, dc, last, open, openAfter
  <2>2. Matched(ld, dc, last, openAfter)
    BY <2>1, MatchedStays
  <2> QED  BY <2>2 DEF MatchedCmds, ld, dc, last, openAfter
<1>5. RulesCurrent'
  BY <1>1 DEF LoadInv, RulesCurrent
<1> QED  BY <1>2, <1>3, <1>4, <1>5 DEF LoadInv, OwnRules

(* Binding rules keeps the names in every list.                            *)
LEMMA BoundListsStay ==
  ASSUME HandlerInv, NEW table \in Table(AvpEntry), NEW K \in SUBSET RuleArrays,
         arrays' = [k \in DOMAIN arrays |-> IF k \in K THEN Bind(arrays[k], table) ELSE arrays[k]]
  PROVE  \A k \in DOMAIN arrays : ListOf(arrays', k) = ListOf(arrays, k)
<1>1. \A k \in RuleArrays :
        /\ DOMAIN arrays'[k] = DOMAIN arrays[k]
        /\ \A r \in DOMAIN arrays[k] : arrays'[k][r].name = arrays[k][r].name
  BY BoundArrays
<1>2. ASSUME NEW k \in DOMAIN arrays PROVE ListOf(arrays', k) = ListOf(arrays, k)
  <2>1. CASE k \in K
    <3>1. NameList(arrays'[k]) = NameList(arrays[k])
      BY <1>1, <2>1 DEF NameList
    <3> QED  BY <3>1 DEF ListOf
  <2>2. CASE k \notin K
    <3>1. arrays'[k] = arrays[k]
      BY <2>2
    <3> QED  BY <3>1 DEF ListOf
  <2> QED  BY <2>1, <2>2
<1> QED  BY <1>2

(* Sorting the commands and binding their rules leaves what is loaded.     *)
LEMMA BuildTablesKeepsLoad ==
  ASSUME HandlerInv, LoadInv, BuildTables
  PROVE  LoadInv'
<1> DEFINE K == {k \in DOMAIN arrays : \E i \in DOMAIN cmds.items :
                   k \in {cmds.items[i].req_rules, cmds.items[i].ans_rules}}
<1>1. /\ pc' = "types" /\ UNCHANGED <<seen, avps>> /\ cmds' \in Sorted(cmds, Codes(cmds))
      /\ arrays' = [k \in DOMAIN arrays |-> IF k \in K THEN Bind(arrays[k], avps) ELSE arrays[k]]
  BY DEF BuildTables
<1>2. cmds \in Table(Cmd) /\ avps \in Table(AvpEntry) /\ Codes(cmds) \in [DOMAIN cmds.items -> Int]
  <2>1. cmds \in Table(Cmd) /\ avps \in Table(AvpEntry)
    BY DEF HandlerInv, Shape
  <2>2. \A i \in DOMAIN cmds.items : cmds.items[i] \in Cmd
    BY <2>1 DEF Table
  <2>3. \A cmd \in Cmd : cmd.code \in Int
    BY CodesAreNumbers DEF Cmd
  <2> QED  BY <2>1, <2>2, <2>3 DEF Codes
<1>3. PICK at \in [DOMAIN cmds.items -> DOMAIN cmds.items] : Reorders(at, cmds, Codes(cmds), cmds')
  BY <1>1, <1>2, SortedIsReordered
<1>4. /\ cmds' = [block |-> cmds.block, items |-> [n \in DOMAIN cmds.items |-> cmds.items[at[n]]]]
      /\ \A i, j \in DOMAIN cmds.items : at[i] = at[j] => i = j
      /\ \A i \in DOMAIN cmds.items : \E n \in DOMAIN cmds.items : at[n] = i
  BY <1>3 DEF Reorders
<1>5. /\ DOMAIN cmds'.items = DOMAIN cmds.items
      /\ \A n \in DOMAIN cmds.items : cmds'.items[n] = cmds.items[at[n]] /\ at[n] \in DOMAIN cmds.items
  BY <1>4
<1>6. K \in SUBSET RuleArrays
  <2>1. DOMAIN arrays \subseteq Nat
    BY ArrayNumbers
  <2> QED  BY <2>1 DEF RuleArrays, RuleArraysOf
<1> HIDE DEF K
<1>7. \A k \in DOMAIN arrays : ListOf(arrays', k) = ListOf(arrays, k)
  BY <1>1, <1>2, <1>6, BoundListsStay
<1>8. /\ EntriesOf(arrays', avps.items) = EntriesOf(arrays, avps.items)
      /\ \A i \in DOMAIN cmds.items : CommandOf(arrays', cmds.items[i]) = CommandOf(arrays, cmds.items[i])
  BY <1>7, ListsStay
<1>9. ~Begun' /\ Following' /\ RulesCurrent'
  BY <1>1 DEF Begun, Following, RulesCurrent
<1>10. MatchedAvps'
  <2> DEFINE ld == EntriesOf(arrays, avps.items)
             dc == AvpsOf(seen)
             last == Len(avps.items)
             open == IF Begun THEN OpenAvps(seen) ELSE {}
  <2>1. Matched(ld, dc, last, open)
    BY DEF LoadInv, MatchedAvps
  <2> HIDE DEF ld, dc, last, open
  <2>2. Matched(ld, dc, last, {})
    BY <2>1, MatchedStays
  <2> QED  BY <1>1, <1>8, <1>9, <2>2 DEF MatchedAvps, ld, dc, last
<1>11. MatchedCmds'
  <2> DEFINE ld == CommandsOf(arrays, cmds.items)
             new == CommandsOf(arrays', cmds'.items)
             dc == CmdsOf(seen)
             last == Len(cmds.items)
             lastAfter == Len(cmds'.items)
             open == IF Begun THEN OpenCmds(seen) ELSE {}
  <2>1. Matched(ld, dc, last, open)
    BY DEF LoadInv, MatchedCmds
  <2>2. DOMAIN ld = DOMAIN cmds.items /\ DOMAIN new = DOMAIN cmds.items
    BY <1>5 DEF CommandsOf
  <2>3. \A n \in DOMAIN cmds.items : new[n] = ld[at[n]]
    <3>1. \A n \in DOMAIN cmds.items : new[n] = CommandOf(arrays', cmds'.items[n])
      BY <1>5 DEF CommandsOf
    <3>2. \A i \in DOMAIN cmds.items : ld[i] = CommandOf(arrays, cmds.items[i])
      BY DEF CommandsOf
    <3> QED  BY <1>5, <1>8, <3>1, <3>2
  <2> HIDE DEF ld, new, dc, last, lastAfter, open
  <2>4. at \in [DOMAIN ld -> DOMAIN ld] /\ \A i, j \in DOMAIN ld : at[i] = at[j] => i = j
    BY <1>4, <2>2
  <2>5. \A i \in DOMAIN ld : \E n \in DOMAIN ld : at[n] = i
    BY <1>4, <2>2
  <2>6. DOMAIN new = DOMAIN ld /\ \A n \in DOMAIN ld : new[n] = ld[at[n]]
    BY <2>2, <2>3
  <2>7. Matched(new, dc, last, {})
    BY <2>1, <2>4, <2>5, <2>6, MatchedSorted
  <2>8. Matched(new, dc, lastAfter, {})
    BY <2>7, MatchedStays
  <2> QED  BY <1>1, <1>9, <2>8 DEF MatchedCmds, new, dc, lastAfter
<1>12. OwnRules'
  <2>1. \A i, j \in DOMAIN cmds.items :
          /\ cmds.items[i].req_rules # cmds.items[j].ans_rules
          /\ cmds.items[i].req_rules = cmds.items[j].req_rules => i = j
          /\ cmds.items[i].ans_rules = cmds.items[j].ans_rules => i = j
    BY DEF LoadInv, OwnRules
  <2>2. ASSUME NEW i \in DOMAIN cmds.items, NEW j \in DOMAIN cmds.items
        PROVE  /\ cmds'.items[i].req_rules # cmds'.items[j].ans_rules
               /\ cmds'.items[i].req_rules = cmds'.items[j].req_rules => i = j
               /\ cmds'.items[i].ans_rules = cmds'.items[j].ans_rules => i = j
    <3>1. /\ at[i] \in DOMAIN cmds.items /\ cmds'.items[i] = cmds.items[at[i]]
          /\ at[j] \in DOMAIN cmds.items /\ cmds'.items[j] = cmds.items[at[j]]
          /\ at[i] = at[j] => i = j
      BY <1>4, <1>5
    <3> QED  BY <2>1, <3>1
  <2> QED  BY <1>5, <2>2 DEF OwnRules
<1> QED  BY <1>1, <1>9, <1>10, <1>11, <1>12 DEF LoadInv

(* Sorting the AVPs, binding their rules and joining them to their types   *)
(* leaves what is loaded.                                                  *)
LEMMA BuildAvpsKeepsLoad ==
  ASSUME HandlerInv, LoadInv, BuildAvps
  PROVE  LoadInv'
<1>1. PICK table \in Sorted(avps, Codes(avps)) : BuiltFrom(table)
  BY BuiltAvpsAre
<1>2. PICK at \in [DOMAIN avps.items -> DOMAIN avps.items] :
        /\ \A i, j \in DOMAIN avps.items : at[i] = at[j] => i = j
        /\ \A i \in DOMAIN avps.items : \E n \in DOMAIN avps.items : at[n] = i
        /\ \A n \in DOMAIN avps.items : table.items[n] = avps.items[at[n]]
  BY <1>1 DEF BuiltFrom
<1>3. pc' = "codecs" /\ UNCHANGED <<seen, cmds>>
  BY DEF BuildAvps
<1>4. /\ DOMAIN table.items = DOMAIN avps.items /\ DOMAIN avps'.items = DOMAIN avps.items
      /\ table \in Table(AvpEntry) /\ arrays' = BindGrouped(table)
      /\ \A n \in DOMAIN avps.items : at[n] \in DOMAIN avps.items /\ table.items[n] = avps.items[at[n]]
  BY <1>1, <1>2 DEF BuiltFrom
<1>5. ASSUME NEW n \in DOMAIN avps.items
      PROVE  EntryOf(arrays', avps'.items[n]) = EntryOf(arrays', table.items[n])
  <2>1. /\ table.items[n] \in AvpEntry
        /\ avps'.items[n] = [table.items[n] EXCEPT !.type = TypeOf(table.items[n])]
    BY <1>1 DEF BuiltFrom
  <2>2. /\ avps'.items[n].name = table.items[n].name /\ avps'.items[n].code = table.items[n].code
        /\ avps'.items[n].type_name = table.items[n].type_name
        /\ avps'.items[n].content = table.items[n].content
    BY <2>1 DEF AvpEntry
  <2> QED  BY <2>2 DEF EntryOf
<1> DEFINE K == {k \in DOMAIN arrays : \E i \in DOMAIN table.items :
                   table.items[i].type_name = "grouped" /\ table.items[i].content = k}
<1>6. K \in SUBSET RuleArrays
  <2>1. DOMAIN arrays \subseteq Nat
    BY ArrayNumbers
  <2> QED  BY <1>4, <2>1 DEF RuleArrays, RuleArraysOf
<1>7. arrays' = [k \in DOMAIN arrays |-> IF k \in K THEN Bind(arrays[k], table) ELSE arrays[k]]
  BY <1>4 DEF BindGrouped
<1> HIDE DEF K
<1>8. \A k \in DOMAIN arrays : ListOf(arrays', k) = ListOf(arrays, k)
  BY <1>4, <1>6, <1>7, BoundListsStay
<1>9. /\ CommandsOf(arrays', cmds.items) = CommandsOf(arrays, cmds.items)
      /\ \A i \in DOMAIN avps.items : EntryOf(arrays', avps.items[i]) = EntryOf(arrays, avps.items[i])
  BY <1>8, ListsStay
<1>10. ~Begun' /\ Following' /\ RulesCurrent'
  BY <1>3 DEF Begun, Following, RulesCurrent
<1>11. MatchedCmds'
  <2> DEFINE ld == CommandsOf(arrays, cmds.items)
             dc == CmdsOf(seen)
             last == Len(cmds.items)
             open == IF Begun THEN OpenCmds(seen) ELSE {}
  <2>1. Matched(ld, dc, last, open)
    BY DEF LoadInv, MatchedCmds
  <2> HIDE DEF ld, dc, last, open
  <2>2. Matched(ld, dc, last, {})
    BY <2>1, MatchedStays
  <2> QED  BY <1>3, <1>9, <1>10, <2>2 DEF MatchedCmds, ld, dc, last
<1>12. MatchedAvps'
  <2> DEFINE ld == EntriesOf(arrays, avps.items)
             new == EntriesOf(arrays', avps'.items)
             dc == AvpsOf(seen)
             last == Len(avps.items)
             lastAfter == Len(avps'.items)
             open == IF Begun THEN OpenAvps(seen) ELSE {}
  <2>1. Matched(ld, dc, last, open)
    BY DEF LoadInv, MatchedAvps
  <2>2. DOMAIN ld = DOMAIN avps.items /\ DOMAIN new = DOMAIN avps.items
    BY <1>4 DEF EntriesOf
  <2>3. \A n \in DOMAIN avps.items : new[n] = ld[at[n]]
    <3>1. \A n \in DOMAIN avps.items : new[n] = EntryOf(arrays', avps'.items[n])
      BY <1>4 DEF EntriesOf
    <3>2. \A i \in DOMAIN avps.items : ld[i] = EntryOf(arrays, avps.items[i])
      BY DEF EntriesOf
    <3> QED  BY <1>4, <1>5, <1>9, <3>1, <3>2
  <2> HIDE DEF ld, new, dc, last, lastAfter, open
  <2>4. at \in [DOMAIN ld -> DOMAIN ld] /\ \A i, j \in DOMAIN ld : at[i] = at[j] => i = j
    BY <1>2, <2>2
  <2>5. \A i \in DOMAIN ld : \E n \in DOMAIN ld : at[n] = i
    BY <1>2, <2>2
  <2>6. DOMAIN new = DOMAIN ld /\ \A n \in DOMAIN ld : new[n] = ld[at[n]]
    BY <2>2, <2>3
  <2>7. Matched(new, dc, last, {})
    BY <2>1, <2>4, <2>5, <2>6, MatchedSorted
  <2>8. Matched(new, dc, lastAfter, {})
    BY <2>7, MatchedStays
  <2> QED  BY <1>3, <1>10, <2>8 DEF MatchedAvps, new, dc, lastAfter
<1> QED  BY <1>3, <1>10, <1>11, <1>12 DEF LoadInv, OwnRules

(* Nothing is declared or loaded at the start.                             *)
LEMMA LoadAtInit == Init => LoadInv
<1> SUFFICES ASSUME Init PROVE LoadInv
  OBVIOUS
<1>1. /\ seen = << >> /\ arrays = << >> /\ avps.items = << >> /\ cmds.items = << >>
      /\ pc = "idle" /\ DOMAIN avps.items = {} /\ DOMAIN cmds.items = {}
  BY DEF Init, NewArray
<1>2. \A tag : PlacesOf(seen, tag) = {}
  BY <1>1 DEF PlacesOf
<1>3. OpenAvps(seen) = {} /\ OpenCmds(seen) = {}
  BY <1>2 DEF OpenAvps, OpenCmds, OpenIn
<1>4. \A tag : ~In(seen, tag)
  BY <1>1 DEF In, Within
<1>5. Nested(seen) /\ Following /\ RulesCurrent /\ OwnRules
  BY <1>1, <1>3, <1>4 DEF Nested, Following, RulesCurrent, Begun, OwnRules
<1>6. ASSUME NEW ld, NEW dc, NEW last, DOMAIN ld = {}, DOMAIN dc = {}
      PROVE  Matched(ld, dc, last, {})
  <2> DEFINE f == [i \in {} |-> i]
  <2>1. f \in [DOMAIN ld -> DOMAIN dc] /\ Pairs(f, ld, dc, last, {})
    BY <1>6 DEF Pairs
  <2> QED  BY <2>1 DEF Matched
<1>7. MatchedAvps
  <2>1. DOMAIN EntriesOf(arrays, avps.items) = {} /\ DOMAIN AvpsOf(seen) = {}
    BY <1>1, <1>2 DEF EntriesOf, AvpsOf
  <2> QED  BY <1>3, <1>6, <2>1 DEF MatchedAvps
<1>8. MatchedCmds
  <2>1. DOMAIN CommandsOf(arrays, cmds.items) = {} /\ DOMAIN CmdsOf(seen) = {}
    BY <1>1, <1>2 DEF CommandsOf, CmdsOf
  <2> QED  BY <1>3, <1>6, <2>1 DEF MatchedCmds
<1> QED  BY <1>5, <1>7, <1>8 DEF LoadInv

(* Every step keeps what is loaded in step with what is declared.          *)
LEMMA NextKeepsLoad == HandlerInv /\ LoadInv /\ [Next]_vars => LoadInv'
<1> SUFFICES ASSUME HandlerInv, LoadInv, [Next]_vars PROVE LoadInv'
  OBVIOUS
<1>1. ASSUME NEW doc \in Documents, Open(doc) PROVE LoadInv'
  <2>1. UNCHANGED <<seen, cmds, avps, arrays>> /\ (pc' # "parse" \/ rest' \in Documents)
    BY <1>1 DEF Open, tables
  <2> QED  BY <2>1, QuietKeepsLoad
<1>2. CASE Fail \/ EndOfFile \/ BuildCrash \/ ChainTypes \/ WalkUp \/ SetCodec
  <2>1. UNCHANGED <<seen, cmds, avps, arrays>> /\ pc' # "parse"
    BY <1>2 DEF Fail, EndOfFile, BuildCrash, ChainTypes, WalkUp, SetCodec, tables
  <2> QED  BY <2>1, QuietKeepsLoad
<1>3. CASE (\E tag \in {"base", "application"} : AddApp(tag)) \/ Vendor \/ TypeDefn \/ Other
  BY <1>3, AsideKeepsLoad
<1>4. CASE Command
  BY <1>4, CommandKeepsLoad
<1>5. CASE CommandRules
  BY <1>5, CommandRulesKeepsLoad
<1>6. CASE AvpRule
  BY <1>6, AvpRuleKeepsLoad
<1>7. CASE Avp
  BY <1>7, AvpKeepsLoad
<1>8. CASE Type
  BY <1>8, TypeKeepsLoad
<1>9. CASE Grouped
  BY <1>9, GroupedKeepsLoad
<1>10. CASE Enum
  BY <1>10, EnumKeepsLoad
<1>11. CASE BuildTables
  BY <1>11, BuildTablesKeepsLoad
<1>12. CASE BuildAvps
  BY <1>12, BuildAvpsKeepsLoad
<1>13. CASE UNCHANGED vars
  <2>1. UNCHANGED <<seen, cmds, avps, arrays>> /\ UNCHANGED <<pc, rest, curr>>
    BY <1>13 DEF vars, tables
  <2> QED  BY <2>1, QuietKeepsLoad
<1> QED  BY <1>1, <1>2, <1>3, <1>4, <1>5, <1>6, <1>7, <1>8, <1>9, <1>10, <1>11, <1>12, <1>13
            DEF Next, Element, Build

(* Tables that match the declarations hold exactly what is declared.       *)
LEMMA LoadIsAsDeclared == HandlerInv /\ LoadInv => LoadedAsDeclared
<1> SUFFICES ASSUME HandlerInv, LoadInv PROVE LoadedAsDeclared
  OBVIOUS
<1>1. IsFiniteSet(DOMAIN avps.items) /\ IsFiniteSet(DOMAIN cmds.items)
  <2>1. avps \in Table(AvpEntry) /\ cmds \in Table(Cmd)
    BY DEF HandlerInv, Shape
  <2>2. /\ Len(avps.items) \in Nat /\ DOMAIN avps.items = 1 .. Len(avps.items)
        /\ Len(cmds.items) \in Nat /\ DOMAIN cmds.items = 1 .. Len(cmds.items)
    BY <2>1 DEF Table
  <2>3. \A n \in Nat : IsFiniteSet(1 .. n)
    BY FS_Interval
  <2> QED  BY <2>2, <2>3
<1>2. SameBag(EntriesOf(arrays, avps.items), AvpsOf(seen))
  <2> DEFINE ld == EntriesOf(arrays, avps.items)
             last == Len(avps.items)
             open == IF Begun THEN OpenAvps(seen) ELSE {}
  <2>1. Matched(ld, AvpsOf(seen), last, open) /\ IsFiniteSet(DOMAIN ld)
    BY <1>1 DEF LoadInv, MatchedAvps, EntriesOf
  <2> HIDE DEF ld, last, open
  <2>2. SameBag(ld, AvpsOf(seen))
    BY <2>1, MatchedBag
  <2> QED  BY <2>2 DEF ld
<1>3. SameBag(CommandsOf(arrays, cmds.items), CmdsOf(seen))
  <2> DEFINE ld == CommandsOf(arrays, cmds.items)
             last == Len(cmds.items)
             open == IF Begun THEN OpenCmds(seen) ELSE {}
  <2>1. Matched(ld, CmdsOf(seen), last, open) /\ IsFiniteSet(DOMAIN ld)
    BY <1>1 DEF LoadInv, MatchedCmds, CommandsOf
  <2> HIDE DEF ld, last, open
  <2>2. SameBag(ld, CmdsOf(seen))
    BY <2>1, MatchedBag
  <2> QED  BY <2>2 DEF ld
<1>4. /\ SameBag([i \in DOMAIN avps.items |-> LoadedAvp(avps.items[i])],
                 [k \in Declared("avp") |-> DeclaredAvp(k)])
      /\ SameBag([i \in DOMAIN cmds.items |-> LoadedCmd(cmds.items[i])],
                 [k \in Declared("command") |-> DeclaredCmd(k)])
  BY <1>2, <1>3, LoadedAre, DeclaredAre, Zenon
<1> QED  BY <1>4, Zenon DEF LoadedAsDeclared

(* After any number of loads, failed ones too, the tables hold the AVPs    *)
(* and commands of the files, each once, with the type, the members and    *)
(* the rules its own elements give it: nothing went to a neighbour when    *)
(* realloc or a sort moved the entries under curr_avp and curr_cmd.        *)
THEOREM LoadsAsDeclared == Spec => []LoadedAsDeclared
<1>1. Init => HandlerInv /\ LoadInv
  BY InitHandler, LoadAtInit
<1>2. (HandlerInv /\ LoadInv) /\ [Next]_vars => (HandlerInv /\ LoadInv)'
  BY NextKeepsHandler, NextKeepsLoad
<1> QED  BY <1>1, <1>2, LoadIsAsDeclared, PTL DEF Spec
=============================================================================
