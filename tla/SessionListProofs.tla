------------------------- MODULE SessionListProofs -------------------------
(***************************************************************************)
(* Theorems about the list of sessions (SessionList), for any session     *)
(* files, any number of windows and of changes.                           *)
(*                                                                        *)
(* What the menu shows and what a login starts is found in a sorted list. *)
(* SortedList says that populate's order puts every entry in one place,   *)
(* PopulatedList that no two of them have one type and file.  Shown ties  *)
(* the buttons to the index, AskedShown a login to what was shown, and    *)
(* Remembered the saved name to the session that was started (IInv).      *)
(***************************************************************************)
EXTENDS SessionList, FiniteSetTheorems, SequenceTheorems, WellFoundedInduction, TLAPS

-----------------------------------------------------------------------------
(***************************************************************************)
(* The order of the list                                                  *)
(***************************************************************************)

LEMMA CandidateTypes ==
    ASSUME NEW e \in Candidates
    PROVE  e.type \in Types /\ e.dir \in Nat /\ e.file \in Nat /\ e.name \in Nat
BY CandidatesAssumption

\* What populate compares, by its five places.
LEMMA Keys ==
    ASSUME NEW e \in Candidates
    PROVE  /\ SortKey(e)[1] = (IF e.file \in PlasmaFiles THEN 0 ELSE 1)
           /\ SortKey(e)[2] = e.name
           /\ SortKey(e)[3] = (IF e.type = "wayland" THEN 0 ELSE 1)
           /\ SortKey(e)[4] = e.dir /\ SortKey(e)[5] = e.file
           /\ \A i \in 1 .. 5 : SortKey(e)[i] \in Int
<1>1. /\ SortKey(e)[1] = (IF e.file \in PlasmaFiles THEN 0 ELSE 1)
      /\ SortKey(e)[2] = e.name
      /\ SortKey(e)[3] = (IF e.type = "wayland" THEN 0 ELSE 1)
      /\ SortKey(e)[4] = e.dir /\ SortKey(e)[5] = e.file
  BY DEF SortKey
<1>2. \A i \in 1 .. 5 : i = 1 \/ i = 2 \/ i = 3 \/ i = 4 \/ i = 5
  OBVIOUS
<1>3. \A i \in 1 .. 5 : SortKey(e)[i] \in Int
  BY <1>1, <1>2, CandidateTypes
<1> QED BY <1>1, <1>3

LEMMA NotItself ==
    ASSUME NEW e \in Candidates
    PROVE  ~Precedes(e, e)
BY Keys DEF Precedes

LEMMA PrecedesTransitive ==
    ASSUME NEW e \in Candidates, NEW f \in Candidates, NEW g \in Candidates,
           Precedes(e, f), Precedes(f, g)
    PROVE  Precedes(e, g)
<1> DEFINE a == SortKey(e)
           b == SortKey(f)
           c == SortKey(g)
<1>1. PICK i \in 1 .. 5 : a[i] < b[i] /\ \A k \in 1 .. i - 1 : a[k] = b[k]
  BY DEF Precedes
<1>2. PICK j \in 1 .. 5 : b[j] < c[j] /\ \A k \in 1 .. j - 1 : b[k] = c[k]
  BY DEF Precedes
<1>3. \A k \in 1 .. 5 : a[k] \in Int /\ b[k] \in Int /\ c[k] \in Int
  BY Keys
<1> HIDE DEF a, b, c
<1>4. \E k \in 1 .. 5 : a[k] < c[k] /\ \A l \in 1 .. k - 1 : a[l] = c[l]
  <2>1. CASE i < j
    <3>1. a[i] < c[i] /\ \A l \in 1 .. i - 1 : a[l] = c[l]
      BY <1>1, <1>2, <1>3, <2>1
    <3> QED BY <3>1
  <2>2. CASE i = j
    <3>1. a[i] < c[i] /\ \A l \in 1 .. i - 1 : a[l] = c[l]
      BY <1>1, <1>2, <1>3, <2>2
    <3> QED BY <3>1
  <2>3. CASE j < i
    <3>1. a[j] < c[j] /\ \A l \in 1 .. j - 1 : a[l] = c[l]
      BY <1>1, <1>2, <1>3, <2>3
    <3> QED BY <3>1
  <2> QED BY <2>1, <2>2, <2>3
<1> QED BY <1>4 DEF Precedes, a, c

LEMMA PrecedesTotal ==
    ASSUME NEW e \in Candidates, NEW f \in Candidates, e # f
    PROVE  Precedes(e, f) \/ Precedes(f, e)
<1> DEFINE a == SortKey(e)
           b == SortKey(f)
           Differ == {i \in 1 .. 5 : a[i] # b[i]}
<1>1. Differ # {}
  <2>1. SUFFICES ASSUME \A i \in 1 .. 5 : a[i] = b[i] PROVE e = f
    OBVIOUS
  <2>2. a[3] = b[3] /\ a[4] = b[4] /\ a[5] = b[5]
    BY <2>1
  <2>3. e.dir = f.dir /\ e.file = f.file /\ e.type = f.type
    BY <2>2, Keys, CandidateTypes DEF Types
  <2> QED BY <2>3, CandidatesAssumption
<1>2. \A k \in 1 .. 5 : a[k] \in Int /\ b[k] \in Int
  BY Keys
<1> HIDE DEF a, b
<1>3. \E i \in Differ : \A j \in Differ : i <= j
  <2>1. \A i \in 1 .. 5 : i = 1 \/ i = 2 \/ i = 3 \/ i = 4 \/ i = 5
    OBVIOUS
  <2>2. CASE 1 \in Differ
    BY <2>2
  <2>3. CASE 1 \notin Differ /\ 2 \in Differ
    BY <2>1, <2>3
  <2>4. CASE 1 \notin Differ /\ 2 \notin Differ /\ 3 \in Differ
    BY <2>1, <2>4
  <2>5. CASE 1 \notin Differ /\ 2 \notin Differ /\ 3 \notin Differ /\ 4 \in Differ
    BY <2>1, <2>5
  <2>6. CASE 1 \notin Differ /\ 2 \notin Differ /\ 3 \notin Differ /\ 4 \notin Differ
    BY <1>1, <2>1, <2>6
  <2> QED BY <2>2, <2>3, <2>4, <2>5, <2>6
<1>4. PICK i \in Differ : \A j \in Differ : i <= j
  BY <1>3
<1>5. i \in 1 .. 5 /\ a[i] # b[i] /\ \A j \in 1 .. i - 1 : a[j] = b[j]
  BY <1>4
<1>6. a[i] < b[i] \/ b[i] < a[i]
  BY <1>2, <1>5
<1>7. \/ \E k \in 1 .. 5 : a[k] < b[k] /\ \A l \in 1 .. k - 1 : a[l] = b[l]
      \/ \E k \in 1 .. 5 : b[k] < a[k] /\ \A l \in 1 .. k - 1 : b[l] = a[l]
  <2>1. CASE a[i] < b[i]
    BY <1>5, <2>1
  <2>2. CASE b[i] < a[i]
    BY <1>5, <2>2
  <2> QED BY <1>6, <2>1, <2>2
<1> QED BY <1>7 DEF Precedes, a, b

\* A proper subset is smaller.
LEMMA Smaller ==
    ASSUME NEW S, IsFiniteSet(S), NEW T \in SUBSET S, NEW x \in S, x \notin T
    PROVE  IsFiniteSet(T) /\ Cardinality(T) \in Nat /\ Cardinality(S) \in Nat
           /\ Cardinality(T) < Cardinality(S)
<1>1. IsFiniteSet(T) /\ Cardinality(T) <= Cardinality(S) /\ Cardinality(S) # Cardinality(T)
  BY FS_Subset
<1>2. Cardinality(T) \in Nat /\ Cardinality(S) \in Nat
  BY <1>1, FS_CardinalityType
<1> QED BY <1>1, <1>2

\* What holds of all the entries that precede one tells it from the others.
LEMMA PlaceApart ==
    ASSUME NEW S \in SUBSET Candidates, IsFiniteSet(S), NEW e \in S, NEW f \in S, Precedes(e, f)
    PROVE  Cardinality(Before(S, e)) # Cardinality(Before(S, f))
<1>1. Before(S, f) \subseteq S /\ IsFiniteSet(Before(S, f))
  BY FS_Subset DEF Before
<1>2. Before(S, e) \in SUBSET Before(S, f)
  BY PrecedesTransitive DEF Before
<1>3. e \in Before(S, f) /\ e \notin Before(S, e)
  BY NotItself DEF Before
<1>4. /\ Cardinality(Before(S, e)) \in Nat /\ Cardinality(Before(S, f)) \in Nat
      /\ Cardinality(Before(S, e)) < Cardinality(Before(S, f))
  BY <1>1, <1>2, <1>3, Smaller
<1> QED BY <1>4

\* The sorted list holds each entry once (SessionModel::populate).
LEMMA SortedList ==
    ASSUME NEW S \in SUBSET Candidates, IsFiniteSet(S)
    PROVE  /\ Sorted(S) \in Seq(S) /\ Len(Sorted(S)) = Cardinality(S)
           /\ Cardinality(S) \in Nat /\ DOMAIN Sorted(S) = 1 .. Cardinality(S)
           /\ \A i, j \in DOMAIN Sorted(S) : Sorted(S)[i] = Sorted(S)[j] => i = j
           /\ \A e \in S : \E i \in DOMAIN Sorted(S) : Sorted(S)[i] = e
<1> DEFINE n == Cardinality(S)
           at(e) == Cardinality(Before(S, e)) + 1
           p == [e \in S |-> at(e)]
<1>1. n \in Nat
  BY FS_CardinalityType
<1>2. \A e \in S : at(e) \in 1 .. n /\ Cardinality(Before(S, e)) \in Nat
  <2> SUFFICES ASSUME NEW e \in S PROVE at(e) \in 1 .. n /\ Cardinality(Before(S, e)) \in Nat
    OBVIOUS
  <2>1. Before(S, e) \in SUBSET S /\ e \notin Before(S, e)
    BY NotItself DEF Before
  <2>2. Cardinality(Before(S, e)) \in Nat /\ Cardinality(Before(S, e)) < n
    BY <2>1, Smaller
  <2> QED BY <1>1, <2>2
<1>3. \A e, f \in S : at(e) = at(f) => e = f
  <2> SUFFICES ASSUME NEW e \in S, NEW f \in S, e # f PROVE at(e) # at(f)
    OBVIOUS
  <2>1. Precedes(e, f) \/ Precedes(f, e)
    BY PrecedesTotal
  <2>2. Cardinality(Before(S, e)) # Cardinality(Before(S, f))
    BY <2>1, PlaceApart
  <2> QED BY <1>2, <2>2
<1>4. p \in Injection(S, 1 .. n)
  <2>1. p \in [S -> 1 .. n]
    BY <1>2
  <2>2. \A e, f \in S : p[e] = p[f] => e = f
    BY <1>3
  <2>3. DOMAIN p = S
    OBVIOUS
  <2> HIDE DEF p
  <2> QED BY <2>1, <2>2, <2>3 DEF Injection, IsInjective
<1>5. IsFiniteSet(1 .. n) /\ Cardinality(1 .. n) = n
  BY <1>1, FS_Interval
<1>6. p \in Surjection(S, 1 .. n)
  <2> HIDE DEF p, n
  <2>1. Cardinality(S) = Cardinality(1 .. n)
    BY <1>5 DEF n
  <2> QED BY <1>4, <1>5, <2>1, FS_Injection
<1>7. \A i \in 1 .. n : \E e \in S : at(e) = i
  <2>1. \A i \in 1 .. n : \E e \in S : p[e] = i
    BY <1>6 DEF Surjection
  <2> QED BY <2>1
<1>8. ASSUME NEW i \in 1 .. n
      PROVE  Sorted(S)[i] \in S /\ at(Sorted(S)[i]) = i
  <2>1. Sorted(S)[i] = CHOOSE e \in S : Cardinality(Before(S, e)) = i - 1
    BY DEF Sorted
  <2>2. PICK e \in S : at(e) = i
    BY <1>7
  <2>3. Cardinality(Before(S, e)) = i - 1
    BY <1>2, <2>2
  <2>4. Sorted(S)[i] \in S /\ Cardinality(Before(S, Sorted(S)[i])) = i - 1
    BY <2>1, <2>3
  <2> QED BY <2>4
<1>9. DOMAIN Sorted(S) = 1 .. n
  BY DEF Sorted
<1>10. Sorted(S) \in [1 .. n -> S]
  BY <1>8, <1>9 DEF Sorted
<1> HIDE DEF at, p, n
<1>11. Sorted(S) \in Seq(S) /\ Len(Sorted(S)) = n
  BY <1>1, <1>10
<1>12. \A i, j \in 1 .. n : Sorted(S)[i] = Sorted(S)[j] => i = j
  BY <1>8
<1>13. \A e \in S : \E i \in 1 .. n : Sorted(S)[i] = e
  BY <1>2, <1>3, <1>8
<1> QED BY <1>1, <1>9, <1>11, <1>12, <1>13 DEF n

\* The menu's entries are the files listed, no two of one type and file
\* (SessionModel::getSessionsPaths).
Listing(l, files) ==
    /\ l \in Seq(Candidates) /\ Len(l) <= Cardinality(Candidates)
    /\ \A i, j \in DOMAIN l : (l[i].type = l[j].type /\ l[i].file = l[j].file) => i = j
    /\ \A e : e \in Range(l) <=> e \in Listed(files)

LEMMA PopulatedList ==
    ASSUME NEW files \in SUBSET Candidates
    PROVE  Listing(Populated(files), files)
<1> DEFINE S == Listed(files)
           l == Populated(files)
<1>1. S \in SUBSET Candidates
  BY DEF Listed
<1>2. IsFiniteSet(S) /\ Cardinality(S) <= Cardinality(Candidates)
  BY <1>1, CandidatesAssumption, FS_Subset
<1>3. \A e, f \in S : e.type = f.type /\ e.file = f.file => e = f
  <2> SUFFICES ASSUME NEW e \in S, NEW f \in S, e.type = f.type, e.file = f.file
               PROVE  e = f
    OBVIOUS
  <2>1. e \in files /\ f \in files /\ e.dir <= f.dir /\ f.dir <= e.dir
    BY DEF Listed
  <2>2. e.dir = f.dir
    BY <2>1, CandidateTypes
  <2> QED BY <2>1, <2>2, CandidatesAssumption
<1> HIDE DEF S
<1>4. /\ l \in Seq(S) /\ Len(l) = Cardinality(S) /\ DOMAIN l = 1 .. Cardinality(S)
      /\ \A i, j \in DOMAIN l : l[i] = l[j] => i = j
      /\ \A e \in S : \E i \in DOMAIN l : l[i] = e
  BY <1>1, <1>2, SortedList DEF Populated, S
<1> HIDE DEF l
<1>5. \A i \in DOMAIN l : l[i] \in S
  BY <1>4
<1>6. l \in Seq(Candidates)
  BY <1>1, <1>4
<1>7. \A e : e \in Range(l) <=> e \in S
  BY <1>4, <1>5 DEF Range
<1> QED BY <1>2, <1>3, <1>4, <1>5, <1>6, <1>7 DEF Listing, l, S

-----------------------------------------------------------------------------
(***************************************************************************)
(* Rows and what they display                                             *)
(***************************************************************************)

\* A set of numbers that is not empty has a least one.
LEMMA Least ==
    ASSUME NEW T, T \subseteq Nat, T # {}
    PROVE  \E i \in T : \A j \in T : i <= j
<1> DEFINE R == {ss \in Nat \X Nat : ss[1] < ss[2]}
<1>1. IsWellFoundedOn(R, Nat)
  BY NatLessThanWellFounded DEF OpToRel
<1> HIDE DEF R
<1>2. PICK i \in T : \A j \in T : ~(<<j, i>> \in R)
  BY <1>1, WFMin
<1>3. \A j \in T : ~(j < i)
  BY <1>2 DEF R
<1> QED BY <1>3

\* indexOfData finds a row of the file, if there is one.
LEMMA RowFound ==
    ASSUME NEW l \in Seq(Candidates), NEW file
    PROVE  \/ RowOf(l, file) = -1 /\ \A i \in DOMAIN l : l[i].file # file
           \/ /\ RowOf(l, file) # -1 /\ RowOf(l, file) \in 1 .. Len(l)
              /\ l[RowOf(l, file)].file = file
<1> DEFINE found == {i \in DOMAIN l : l[i].file = file}
<1>1. RowOf(l, file) = IF found = {} THEN -1 ELSE CHOOSE i \in found : \A j \in found : i <= j
  BY DEF RowOf
<1>2. DOMAIN l = 1 .. Len(l) /\ found \subseteq 1 .. Len(l) /\ found \subseteq Nat
  OBVIOUS
<1>3. CASE found = {}
  BY <1>1, <1>3
<1>4. CASE found # {}
  <2>1. \E i \in found : \A j \in found : i <= j
    <3> HIDE DEF found
    <3> QED BY <1>2, <1>4, Least
  <2>2. RowOf(l, file) \in found
    <3> HIDE DEF found
    <3> QED BY <1>1, <1>4, <2>1
  <2>3. -1 \notin 1 .. Len(l)
    OBVIOUS
  <2> QED BY <1>2, <2>2, <2>3
<1> QED BY <1>3, <1>4

\* The index chosen is one of a row, or 0.
LEMMA ChosenRow ==
    ASSUME NEW l \in Seq(Candidates), NEW last
    PROVE  /\ ChosenIndex(l, last) \in Nat
           /\ ChosenIndex(l, last) = 0 \/ ChosenIndex(l, last) < Len(l)
<1>1. Len(l) \in Nat
  OBVIOUS
<1>2. /\ RowOf(l, Preselected) = -1 \/ RowOf(l, Preselected) \in 1 .. Len(l)
      /\ RowOf(l, last) = -1 \/ RowOf(l, last) \in 1 .. Len(l)
  BY RowFound
<1>3. CASE RowOf(l, Preselected) # -1
  <2>1. ChosenIndex(l, last) = RowOf(l, Preselected) - 1
    BY <1>3 DEF ChosenIndex
  <2> QED BY <1>1, <1>2, <1>3, <2>1
<1>4. CASE RowOf(l, Preselected) = -1 /\ RowOf(l, last) # -1
  <2>1. ChosenIndex(l, last) = RowOf(l, last) - 1
    BY <1>4 DEF ChosenIndex
  <2> QED BY <1>1, <1>2, <1>4, <2>1
<1>5. CASE RowOf(l, Preselected) = -1 /\ RowOf(l, last) = -1
  BY <1>5 DEF ChosenIndex
<1> QED BY <1>3, <1>4, <1>5

AllLabels(text) == \A i \in DOMAIN text : text[i] > -3

\* Where a text ends that does not end in a label itself, and its labels begin, can
\* be told from the two together.
LEMMA TextsApart ==
    ASSUME NEW s \in Seq(Int), NEW t \in Seq(Int), NEW u \in Seq(Int), NEW v \in Seq(Int),
           s \o u = t \o v, ~EndsInLabel(s), ~EndsInLabel(t),
           AllLabels(u), AllLabels(v)
    PROVE  s = t /\ u = v
<1> DEFINE Joined(x, y, xy) ==
             /\ Len(xy) = Len(x) + Len(y)
             /\ \A i \in 1..Len(x) : xy[i] = x[i]
             /\ \A i \in 1..Len(y) : xy[i + Len(x)] = y[i]
<1>1. ASSUME NEW x \in Seq(Int), NEW y \in Seq(Int)
      PROVE  Joined(x, y, x \o y)
  <2>1. /\ Len(x \o y) = Len(x) + Len(y) /\ Len(x) \in Nat /\ Len(y) \in Nat
        /\ \A i \in 1..Len(x) + Len(y) :
              (x \o y)[i] = IF i <= Len(x) THEN x[i] ELSE y[i - Len(x)]
    BY ConcatProperties
  <2>2. \A i \in 1..Len(x) : (x \o y)[i] = x[i]
    BY <2>1
  <2>3. ASSUME NEW i \in 1..Len(y) PROVE (x \o y)[i + Len(x)] = y[i]
    <3>1. i + Len(x) \in 1..Len(x) + Len(y) /\ ~(i + Len(x) <= Len(x))
          /\ (i + Len(x)) - Len(x) = i
      BY <2>1
    <3> QED BY <2>1, <3>1
  <2> QED BY <2>1, <2>2, <2>3
<1>2. Joined(s, u, s \o u)
  BY <1>1
<1>3. Joined(t, v, t \o v)
  BY <1>1
<1> HIDE DEF Joined
<1>4. PICK z : z = s \o u
  OBVIOUS
<1>5. Joined(s, u, z) /\ Joined(t, v, z)
  BY <1>2, <1>3, <1>4
<1> USE DEF Joined
<1>6. ~(Len(s) < Len(t))
  <2> SUFFICES ASSUME Len(s) < Len(t) PROVE FALSE
    OBVIOUS
  <2>1. t # << >> /\ Len(t) \in 1..Len(t) /\ Len(t) - Len(s) \in 1..Len(u)
    BY <1>5
  <2>2. t[Len(t)] = u[Len(t) - Len(s)]
    <3>1. z[(Len(t) - Len(s)) + Len(s)] = u[Len(t) - Len(s)] /\ z[Len(t)] = t[Len(t)]
      BY <1>5, <2>1
    <3>2. (Len(t) - Len(s)) + Len(s) = Len(t)
      OBVIOUS
    <3> QED BY <3>1, <3>2
  <2> QED BY <2>1, <2>2 DEF EndsInLabel, AllLabels
<1>7. ~(Len(t) < Len(s))
  <2> SUFFICES ASSUME Len(t) < Len(s) PROVE FALSE
    OBVIOUS
  <2>1. s # << >> /\ Len(s) \in 1..Len(s) /\ Len(s) - Len(t) \in 1..Len(v)
    BY <1>5
  <2>2. s[Len(s)] = v[Len(s) - Len(t)]
    <3>1. z[(Len(s) - Len(t)) + Len(t)] = v[Len(s) - Len(t)] /\ z[Len(s)] = s[Len(s)]
      BY <1>5, <2>1
    <3>2. (Len(s) - Len(t)) + Len(t) = Len(s)
      OBVIOUS
    <3> QED BY <3>1, <3>2
  <2> QED BY <2>1, <2>2 DEF EndsInLabel, AllLabels
<1>8. Len(s) = Len(t) /\ Len(u) = Len(v)
  BY <1>5, <1>6, <1>7
<1>9. \A i \in 1..Len(s) : s[i] = t[i]
  BY <1>5, <1>8
<1>10. \A i \in 1..Len(u) : u[i] = v[i]
  BY <1>5, <1>8
<1> QED BY <1>8, <1>9, <1>10, SeqEqual

\* A type and a number, each of which may be left out, can be told from the labels.
LabelsOf(typed, x, numbered, n) ==
    IF typed THEN IF numbered THEN <<x, n>> ELSE <<x>> ELSE IF numbered THEN <<n>> ELSE << >>
LEMMA LabelsTypes ==
    ASSUME NEW p \in BOOLEAN, NEW q \in BOOLEAN, NEW z \in {-1, -2}, NEW k \in Nat \ {0}
    PROVE  LET l == LabelsOf(p, z, q, k) IN
           /\ l \in Seq(Int) /\ AllLabels(l)
           /\ Len(l) = (IF p THEN 1 ELSE 0) + (IF q THEN 1 ELSE 0)
           /\ p => l[1] = z
           /\ q => l[Len(l)] = k
<1>1. CASE p /\ q
  BY <1>1 DEF LabelsOf, AllLabels
<1>2. CASE p /\ ~q
  BY <1>2 DEF LabelsOf, AllLabels
<1>3. CASE ~p /\ q
  BY <1>3 DEF LabelsOf, AllLabels
<1>4. CASE ~p /\ ~q
  BY <1>4 DEF LabelsOf, AllLabels
<1> QED BY <1>1, <1>2, <1>3, <1>4

LEMMA LabelsApart ==
    ASSUME NEW a \in BOOLEAN, NEW b \in BOOLEAN, NEW c \in BOOLEAN, NEW d \in BOOLEAN,
           NEW x \in {-1, -2}, NEW y \in {-1, -2}, NEW m \in Nat \ {0}, NEW n \in Nat \ {0},
           LabelsOf(a, x, c, m) = LabelsOf(b, y, d, n)
    PROVE  (a <=> b) /\ (a => x = y) /\ (c <=> d) /\ (c => m = n)
<1> DEFINE l1 == LabelsOf(a, x, c, m)
           l2 == LabelsOf(b, y, d, n)
<1>1. /\ Len(l1) = (IF a THEN 1 ELSE 0) + (IF c THEN 1 ELSE 0)
      /\ a => l1[1] = x
      /\ c => l1[Len(l1)] = m
  BY LabelsTypes
<1>2. /\ Len(l2) = (IF b THEN 1 ELSE 0) + (IF d THEN 1 ELSE 0)
      /\ b => l2[1] = y
      /\ d => l2[Len(l2)] = n
  BY LabelsTypes
<1>3. l1 = l2
  OBVIOUS
<1> HIDE DEF l1, l2
<1> QED BY <1>1, <1>2, <1>3

\* Entries of a list, no two of one type and file, whose names do not end in a
\* label, are told apart by their texts (SessionModel::data).
LEMMA DisplayApart ==
    ASSUME NEW l \in Seq(Candidates),
           \A i, j \in DOMAIN l : (l[i].type = l[j].type /\ l[i].file = l[j].file) => i = j,
           NEW e \in Range(l), NEW f \in Range(l), Display(l, e) = Display(l, f),
           ~EndsInLabel(Spelling[e.name]), ~EndsInLabel(Spelling[f.name])
    PROVE  e = f
<1> DEFINE S == Range(l)
           alike(x) == {g \in S : NamesakeOfType(x, g)}
           earlier(x) == {g \in alike(x) : g.dir < x.dir \/ (g.dir = x.dir /\ g.file < x.file)}
           other(x) == \E g \in S : NamesakeOfOther(x, g)
<1>1. S \subseteq Candidates /\ IsFiniteSet(S)
  <2>1. S \subseteq Candidates
    BY DEF Range
  <2> QED BY <2>1, CandidatesAssumption, FS_Subset
<1>2. \A x, y \in S : x.type = y.type /\ x.file = y.file => x = y
  BY DEF Range
<1>3. /\ e.name = f.name
      /\ (other(e) <=> other(f)) /\ (other(e) => TypeLabel(e.type) = TypeLabel(f.type))
      /\ (alike(e) = {} <=> alike(f) = {})
      /\ alike(e) # {} => Cardinality(earlier(e)) = Cardinality(earlier(f))
  <2> DEFINE kind(x) == TypeLabel(x.type)
             numbered(x) == alike(x) # {}
             number(x) == Cardinality(earlier(x)) + 1
             labels(x) == LabelsOf(other(x), kind(x), numbered(x), number(x))
  <2>1. \A x \in S : Display(l, x) = Spelling[x.name] \o labels(x)
    BY DEF Display, Labels, LabelsOf
  <2>2. ASSUME NEW x \in S
        PROVE  /\ Spelling[x.name] \in Seq(Int) /\ x.name \in DOMAIN Spelling
               /\ kind(x) \in {-1, -2} /\ Cardinality(earlier(x)) \in Nat
               /\ other(x) \in BOOLEAN /\ numbered(x) \in BOOLEAN /\ number(x) \in Nat \ {0}
    <3>1. x \in Candidates
      BY <1>1
    <3>2. IsFiniteSet(earlier(x))
      <4>1. earlier(x) \subseteq S
        OBVIOUS
      <4> HIDE DEF earlier
      <4> QED BY <1>1, <4>1, FS_Subset
    <3>3. x.name \in {c.name : c \in Candidates}
      BY <3>1
    <3>4. Spelling[x.name] \in Seq(Int) /\ x.name \in DOMAIN Spelling
      BY <3>3, SpellingAssumption
    <3> QED BY <3>2, <3>4, FS_CardinalityType DEF TypeLabel
  <2>3. e \in S /\ f \in S /\ Display(l, e) = Display(l, f)
    OBVIOUS
  <2> HIDE DEF S, alike, earlier, other, kind, numbered, number
  <2>4. ASSUME NEW x \in S
        PROVE  labels(x) \in Seq(Int) /\ AllLabels(labels(x))
    BY <2>2, LabelsTypes
  <2> HIDE DEF labels
  <2>5. Spelling[e.name] = Spelling[f.name] /\ labels(e) = labels(f)
    <3>1. Spelling[e.name] \o labels(e) = Spelling[f.name] \o labels(f)
      BY <2>1, <2>3
    <3>2. /\ Spelling[e.name] \in Seq(Int) /\ Spelling[f.name] \in Seq(Int)
          /\ labels(e) \in Seq(Int) /\ labels(f) \in Seq(Int)
          /\ AllLabels(labels(e)) /\ AllLabels(labels(f))
      BY <2>2, <2>3, <2>4
    <3> QED BY <3>1, <3>2, TextsApart
  <2>6. e.name = f.name
    BY <2>2, <2>3, <2>5, SpellingAssumption DEF IsInjective
  <2>7. /\ (other(e) <=> other(f)) /\ (other(e) => kind(e) = kind(f))
        /\ (numbered(e) <=> numbered(f)) /\ (numbered(e) => number(e) = number(f))
    BY <2>2, <2>3, <2>5, LabelsApart, SMTT(20) DEF labels
  <2> QED BY <2>2, <2>3, <2>6, <2>7, SMTT(20) DEF kind, numbered, number
<1> HIDE DEF S
<1>4. SUFFICES ASSUME e # f PROVE FALSE
  OBVIOUS
<1>5. \A x \in S : x \in Candidates /\ x.dir \in Nat /\ x.file \in Nat /\ x.type \in Types
  BY <1>1, CandidateTypes
<1>6. e \in S /\ f \in S
  BY DEF S
<1>7. e.type = f.type
  <2>1. SUFFICES ASSUME e.type # f.type PROVE FALSE
    OBVIOUS
  <2>2. other(e) /\ other(f)
    BY <1>3, <1>6, <2>1 DEF NamesakeOfOther
  <2>3. e.type \in Types /\ f.type \in Types
    BY <1>5, <1>6
  <2> QED BY <1>3, <2>1, <2>2, <2>3 DEF TypeLabel, Types
<1>8. e.file # f.file
  BY <1>2, <1>4, <1>6, <1>7
<1>9. ASSUME NEW x \in S, NEW y \in S, x.name = y.name, x.type = y.type, x # y,
             x.dir < y.dir \/ (x.dir = y.dir /\ x.file < y.file)
      PROVE  Cardinality(earlier(x)) # Cardinality(earlier(y))
  <2>1. earlier(y) \subseteq S /\ IsFiniteSet(earlier(y))
    BY <1>1, FS_Subset
  <2>2. x \in earlier(y) /\ x \notin earlier(x)
    BY <1>9 DEF NamesakeOfType
  <2>3. earlier(x) \in SUBSET earlier(y)
    <3> SUFFICES ASSUME NEW g \in earlier(x) PROVE g \in earlier(y)
      OBVIOUS
    <3>1. g \in S /\ g.name = x.name /\ g.type = x.type
      BY DEF NamesakeOfType
    <3>2. g.dir < x.dir \/ (g.dir = x.dir /\ g.file < x.file)
      OBVIOUS
    <3>3. /\ g.dir \in Nat /\ x.dir \in Nat /\ y.dir \in Nat
          /\ g.file \in Nat /\ x.file \in Nat /\ y.file \in Nat
      BY <1>5, <3>1
    <3>4. g.dir < y.dir \/ (g.dir = y.dir /\ g.file < y.file)
      BY <1>9, <3>2, <3>3
    <3>5. g # y
      BY <3>3, <3>4
    <3> QED BY <1>9, <3>1, <3>4, <3>5 DEF NamesakeOfType
  <2> HIDE DEF earlier
  <2>4. /\ Cardinality(earlier(x)) \in Nat /\ Cardinality(earlier(y)) \in Nat
        /\ Cardinality(earlier(x)) < Cardinality(earlier(y))
    BY <2>1, <2>2, <2>3, Smaller
  <2> QED BY <2>4
<1>10. f \in alike(e) /\ e \in alike(f)
  BY <1>3, <1>4, <1>6, <1>7 DEF NamesakeOfType
<1>11. Cardinality(earlier(e)) = Cardinality(earlier(f))
  <2>1. Cardinality(earlier(e)) \in Nat /\ Cardinality(earlier(f)) \in Nat
    <3>1. earlier(e) \subseteq S /\ earlier(f) \subseteq S
      OBVIOUS
    <3> HIDE DEF earlier
    <3> QED BY <1>1, <3>1, FS_Subset, FS_CardinalityType
  <2>2. alike(e) # {} /\ alike(f) # {}
    BY <1>10
  <2> HIDE DEF earlier, alike
  <2> QED BY <1>3, <2>1, <2>2
<1>12. \/ e.dir < f.dir \/ (e.dir = f.dir /\ e.file < f.file)
       \/ f.dir < e.dir \/ (f.dir = e.dir /\ f.file < e.file)
  BY <1>5, <1>6, <1>8
<1> HIDE DEF earlier, alike, other
<1> QED BY <1>3, <1>4, <1>6, <1>7, <1>9, <1>11, <1>12

-----------------------------------------------------------------------------
(***************************************************************************)
(* The inductive invariant                                                *)
(***************************************************************************)

\* A button read from the list as it is holds the entry at the index.
Shown == \A w \in current : index < Len(rows) /\ button[w] = rows[index + 1]
\* A login names the entry that was shown.
AskedShown ==
    \A i \in DOMAIN asked :
        asked[i].shown # NoEntry =>
            asked[i].type = asked[i].shown.type /\ asked[i].file = asked[i].shown.file
\* The session remembered is the one whose file was saved.
Remembered == remembered # NoEntry => remembered.file = saved

IInv == TypeOK /\ Shown /\ AskedShown /\ Remembered

\* What TypeOK says of the logins.
Logins == [type: Types, file: Nat, shown: Candidates \cup {NoEntry}]

LEMMA InitIInv == Init => IInv
<1> SUFFICES ASSUME Init PROVE IInv
  OBVIOUS
<1>1. TypeOK
  <2>1. Cardinality(Candidates) \in Nat
    BY CandidatesAssumption, FS_CardinalityType
  <2>2. rows = << >> /\ asked = << >> /\ rows \in Seq(Candidates) /\ asked \in Seq(Logins)
    BY DEF Init
  <2>3. Len(asked) <= MaxAsked
    BY <2>2, CandidatesAssumption
  <2>4. /\ installed \subseteq Candidates /\ changes \in 0 .. MaxChanges
        /\ up \in BOOLEAN /\ notice \in BOOLEAN /\ bound \in BOOLEAN
    <3>1. installed \in AtFirst /\ AtFirst \subseteq SUBSET Candidates
      BY CandidatesAssumption DEF Init
    <3>2. changes = 0 /\ 0 \in 0 .. MaxChanges
      BY CandidatesAssumption DEF Init
    <3>3. up \in BOOLEAN /\ notice \in BOOLEAN /\ bound \in BOOLEAN
      BY DEF Init
    <3> QED BY <3>1, <3>2, <3>3
  <2>5. /\ windows \subseteq Windows /\ disabled \subseteq windows /\ current \subseteq windows
        /\ button \in [Windows -> Candidates \cup {NoEntry}]
        /\ underWay \in Candidates \cup {NoEntry} /\ remembered \in Candidates \cup {NoEntry}
    BY DEF Init, NoButtons
  <2>6. index \in 0 .. Cardinality(Candidates) /\ submitted \in Nat /\ saved \in Nat
    BY <2>1 DEF Init, NoFile
  <2>7. \A k, j \in DOMAIN rows :
           (rows[k].type = rows[j].type /\ rows[k].file = rows[j].file) => k = j
    BY <2>2
  <2> QED BY <2>2, <2>3, <2>4, <2>5, <2>6, <2>7 DEF TypeOK, Logins
<1>2. Shown /\ AskedShown /\ Remembered
  BY DEF Init, Shown, AskedShown, Remembered
<1> QED BY <1>1, <1>2 DEF IInv

\* What SessionButton reads: the windows in ws show the entry at i, or nothing
\* is read because there is none.
LEMMA ReadButtons ==
    ASSUME TypeOK, NEW ws, ws \subseteq Windows, NEW i \in Nat, Read(ws, i)
    PROVE  /\ button' \in [Windows -> Candidates \cup {NoEntry}]
           /\ \/ /\ i < Len(rows) /\ current' = current \cup ws
                 /\ \A w \in ws : button'[w] = rows[i + 1]
                 /\ \A w \in Windows \ ws : button'[w] = button[w]
              \/ i >= Len(rows) /\ button' = button /\ current' = current
<1>1. rows \in Seq(Candidates) /\ button \in [Windows -> Candidates \cup {NoEntry}]
  BY DEF TypeOK
<1>2. CASE i < Len(rows)
  <2>1. button' = [w \in Windows |-> IF w \in ws THEN rows[i + 1] ELSE button[w]]
        /\ current' = current \cup ws
    BY <1>2 DEF Read, Readable
  <2>2. rows[i + 1] \in Candidates
    BY <1>1, <1>2
  <2> QED BY <1>1, <1>2, <2>1, <2>2
<1>3. CASE ~(i < Len(rows))
  <2>1. button' = button /\ current' = current
    BY <1>3 DEF Read, Readable
  <2>2. Len(rows) \in Nat
    BY <1>1
  <2> QED BY <1>1, <1>3, <2>1, <2>2
<1> QED BY <1>2, <1>3

LEMMA GreeterStartsKeeps ==
    ASSUME IInv, GreeterStarts
    PROVE  IInv'
<1>1. /\ rows' = Populated(installed) /\ index' = ChosenIndex(rows', saved)
      /\ up' = TRUE /\ notice' = FALSE /\ bound' = TRUE
      /\ windows' = {} /\ button' = NoButtons /\ disabled' = {}
      /\ submitted' = NoFile /\ current' = {}
      /\ installed' = installed /\ changes' = changes /\ asked' = asked /\ saved' = saved
      /\ underWay' = underWay /\ remembered' = remembered
  BY DEF GreeterStarts, Kept
<1>2. Listing(rows', installed)
  BY <1>1, PopulatedList DEF IInv, TypeOK
<1>3. rows' \in Seq(Candidates) /\ Len(rows') <= Cardinality(Candidates)
      /\ \A i, j \in DOMAIN rows' :
            (rows'[i].type = rows'[j].type /\ rows'[i].file = rows'[j].file) => i = j
  BY <1>2 DEF Listing
<1>4. index' \in 0 .. Cardinality(Candidates)
  <2>1. Cardinality(Candidates) \in Nat /\ Len(rows') \in Nat
    BY <1>3, CandidatesAssumption, FS_CardinalityType
  <2>2. ChosenIndex(rows', saved) \in Nat
        /\ (ChosenIndex(rows', saved) = 0 \/ ChosenIndex(rows', saved) < Len(rows'))
    BY <1>3, ChosenRow
  <2> QED BY <1>1, <1>3, <2>1, <2>2
<1>5. button' \in [Windows -> Candidates \cup {NoEntry}] /\ submitted' \in Nat
  BY <1>1 DEF NoButtons, NoFile
<1>6. TypeOK'
  BY <1>1, <1>3, <1>4, <1>5 DEF IInv, TypeOK
<1>7. Shown' /\ AskedShown' /\ Remembered'
  BY <1>1 DEF IInv, Shown, AskedShown, Remembered
<1> QED BY <1>6, <1>7 DEF IInv

LEMMA GreeterStopsKeeps ==
    ASSUME IInv, GreeterStops
    PROVE  IInv'
<1>1. /\ rows' = << >> /\ index' = 0 /\ up' = FALSE /\ notice' = FALSE /\ bound' = FALSE
      /\ windows' = {} /\ button' = NoButtons /\ disabled' = {}
      /\ submitted' = NoFile /\ current' = {} /\ asked' = << >> /\ underWay' = NoEntry
      /\ installed' = installed /\ changes' = changes /\ saved' = saved
      /\ remembered' \in {remembered, NoEntry}
  BY DEF GreeterStops, Kept
<1>2. rows' \in Seq(Candidates) /\ DOMAIN rows' = {} /\ asked' \in Seq(Logins) /\ Len(asked') = 0
  BY <1>1
<1>3. Cardinality(Candidates) \in Nat
  BY CandidatesAssumption, FS_CardinalityType
<1>4. button' \in [Windows -> Candidates \cup {NoEntry}] /\ submitted' \in Nat
      /\ index' \in 0 .. Cardinality(Candidates) /\ Len(asked') <= MaxAsked
  BY <1>1, <1>2, <1>3, CandidatesAssumption DEF NoButtons, NoFile
<1>5. TypeOK'
  BY <1>1, <1>2, <1>4 DEF IInv, TypeOK, Logins
<1>6. Shown' /\ AskedShown' /\ Remembered'
  BY <1>1, <1>2 DEF IInv, Shown, AskedShown, Remembered
<1> QED BY <1>5, <1>6 DEF IInv

LEMMA ScreensKeep ==
    ASSUME IInv, NEW w \in Windows, ScreenAdded(w) \/ ScreenRemoved(w)
    PROVE  IInv'
<1>0. index \in Nat
  BY CandidatesAssumption, FS_CardinalityType DEF IInv, TypeOK
<1>1. CASE ScreenAdded(w)
  <2>1. /\ windows' = windows \cup {w} /\ bound' \in BOOLEAN /\ Read({w}, index)
        /\ up' = up /\ rows' = rows /\ notice' = notice /\ index' = index
        /\ disabled' = disabled /\ asked' = asked /\ submitted' = submitted
        /\ saved' = saved /\ underWay' = underWay /\ remembered' = remembered
        /\ installed' = installed /\ changes' = changes
    BY <1>1 DEF ScreenAdded, Kept
  <2>2. /\ button' \in [Windows -> Candidates \cup {NoEntry}]
        /\ \/ /\ index < Len(rows) /\ current' = current \cup {w}
              /\ \A x \in {w} : button'[x] = rows[index + 1]
              /\ \A x \in Windows \ {w} : button'[x] = button[x]
           \/ index >= Len(rows) /\ button' = button /\ current' = current
    BY <1>0, <2>1, ReadButtons DEF IInv
  <2>3. TypeOK'
    BY <2>1, <2>2 DEF IInv, TypeOK
  <2>4. Shown'
    <3>1. current \subseteq Windows
      BY DEF IInv, TypeOK
    <3> QED BY <2>1, <2>2, <3>1 DEF IInv, Shown
  <2>5. AskedShown' /\ Remembered'
    BY <2>1 DEF IInv, AskedShown, Remembered
  <2> QED BY <2>3, <2>4, <2>5 DEF IInv
<1>2. CASE ScreenRemoved(w)
  <2>1. /\ windows' = windows \ {w} /\ disabled' = disabled \ {w} /\ current' = current \ {w}
        /\ button' = [button EXCEPT ![w] = NoEntry]
        /\ up' = up /\ rows' = rows /\ notice' = notice /\ index' = index /\ bound' = bound
        /\ asked' = asked /\ submitted' = submitted
        /\ saved' = saved /\ underWay' = underWay /\ remembered' = remembered
        /\ installed' = installed /\ changes' = changes
    BY <1>2 DEF ScreenRemoved, Kept
  <2>2. button' \in [Windows -> Candidates \cup {NoEntry}]
        /\ \A x \in current \ {w} : button'[x] = button[x]
    BY <2>1 DEF IInv, TypeOK
  <2>3. TypeOK'
    BY <2>1, <2>2 DEF IInv, TypeOK
  <2>4. Shown' /\ AskedShown' /\ Remembered'
    BY <2>1, <2>2 DEF IInv, Shown, AskedShown, Remembered
  <2> QED BY <2>3, <2>4 DEF IInv
<1> QED BY <1>1, <1>2

\* Entries that are told apart are no more than there are candidates.
LEMMA FewRows ==
    ASSUME TypeOK
    PROVE  Len(rows) \in Nat /\ Len(rows) <= Cardinality(Candidates)
<1>1. rows \in [1 .. Len(rows) -> Candidates] /\ Len(rows) \in Nat /\ IsInjective(rows)
  <2>1. rows \in Seq(Candidates)
    BY DEF TypeOK
  <2>2. \A i, j \in DOMAIN rows : rows[i] = rows[j] => i = j
    BY DEF TypeOK
  <2>3. rows \in [1 .. Len(rows) -> Candidates] /\ Len(rows) \in Nat
    BY <2>1
  <2> QED BY <2>2, <2>3 DEF IsInjective
<1>2. Cardinality(1 .. Len(rows)) = Len(rows)
  <2>1. \A n \in Nat : Cardinality(1 .. n) = IF 1 > n THEN 0 ELSE n - 1 + 1
    BY FS_Interval
  <2>2. Cardinality(1 .. Len(rows)) = IF 1 > Len(rows) THEN 0 ELSE Len(rows) - 1 + 1
    BY <1>1, <2>1
  <2>3. \A n \in Nat : (IF 1 > n THEN 0 ELSE n - 1 + 1) = n
    OBVIOUS
  <2> QED BY <1>1, <2>2, <2>3
<1>3. rows \in Injection(1 .. Len(rows), Candidates)
  BY <1>1 DEF Injection
<1>4. Cardinality(1 .. Len(rows)) <= Cardinality(Candidates)
  BY <1>3, CandidatesAssumption, FS_Injection
<1> QED BY <1>1, <1>2, <1>4

LEMMA SelectKeeps ==
    ASSUME IInv, NEW w \in Windows, NEW i \in 0 .. Cardinality(Candidates) - 1, Select(w, i)
    PROVE  IInv'
<1>1. /\ i < Len(rows) /\ index' = i /\ bound' = FALSE /\ Read(windows, i)
      /\ up' = up /\ rows' = rows /\ notice' = notice /\ windows' = windows
      /\ disabled' = disabled /\ asked' = asked /\ submitted' = submitted
      /\ saved' = saved /\ underWay' = underWay /\ remembered' = remembered
      /\ installed' = installed /\ changes' = changes
  BY DEF Select, Kept, Readable, Following
<1>2. i \in Nat /\ i \in 0 .. Cardinality(Candidates) /\ windows \subseteq Windows
      /\ current \subseteq windows
  BY CandidatesAssumption, FS_CardinalityType DEF IInv, TypeOK
<1>3. Len(rows) \in Nat
  BY DEF IInv, TypeOK
<1>4. button' \in [Windows -> Candidates \cup {NoEntry}]
      /\ current' = current \cup windows /\ \A x \in windows : button'[x] = rows[i + 1]
  <2>1. /\ button' \in [Windows -> Candidates \cup {NoEntry}]
        /\ \/ /\ i < Len(rows) /\ current' = current \cup windows
              /\ \A x \in windows : button'[x] = rows[i + 1]
              /\ \A x \in Windows \ windows : button'[x] = button[x]
           \/ i >= Len(rows) /\ button' = button /\ current' = current
    BY <1>1, <1>2, ReadButtons DEF IInv
  <2>2. ~(i >= Len(rows))
    BY <1>1, <1>2, <1>3
  <2> QED BY <2>1, <2>2
<1>5. TypeOK'
  BY <1>1, <1>2, <1>4 DEF IInv, TypeOK
<1>6. Shown'
  BY <1>1, <1>2, <1>4 DEF Shown
<1>7. AskedShown' /\ Remembered'
  BY <1>1 DEF IInv, AskedShown, Remembered
<1> QED BY <1>5, <1>6, <1>7 DEF IInv

LEMMA FilesKeep ==
    ASSUME IInv, NEW e \in Candidates, InstallFile(e) \/ RemoveFile(e)
    PROVE  IInv'
<1>1. /\ changes < MaxChanges /\ changes' = changes + 1 /\ installed' \subseteq Candidates
      /\ notice' = up /\ up' = up /\ rows' = rows /\ index' = index /\ bound' = bound
      /\ windows' = windows /\ button' = button /\ disabled' = disabled
      /\ submitted' = submitted /\ current' = current /\ asked' = asked /\ saved' = saved
      /\ underWay' = underWay /\ remembered' = remembered
  BY DEF InstallFile, RemoveFile, FilesChange, greeterVars, IInv, TypeOK
<1>2. changes' \in 0 .. MaxChanges
  BY <1>1, CandidatesAssumption DEF IInv, TypeOK
<1>3. TypeOK'
  BY <1>1, <1>2 DEF IInv, TypeOK
<1>4. Shown' /\ AskedShown' /\ Remembered'
  BY <1>1 DEF IInv, Shown, AskedShown, Remembered
<1> QED BY <1>3, <1>4 DEF IInv

LEMMA DirectoryChangedKeeps ==
    ASSUME IInv, DirectoryChanged
    PROVE  IInv'
<1>1. /\ notice' = FALSE /\ rows' = Populated(installed)
      /\ current' = (IF rows' = rows THEN current ELSE {})
      /\ up' = up /\ index' = index /\ bound' = bound /\ windows' = windows
      /\ button' = button /\ disabled' = disabled /\ asked' = asked
      /\ submitted' = submitted /\ saved' = saved /\ underWay' = underWay
      /\ remembered' = remembered /\ installed' = installed /\ changes' = changes
  BY DEF DirectoryChanged, Kept
<1>2. Listing(rows', installed)
  BY <1>1, PopulatedList DEF IInv, TypeOK
<1>3. TypeOK'
  BY <1>1, <1>2 DEF IInv, TypeOK, Listing
<1>4. Shown' /\ AskedShown' /\ Remembered'
  BY <1>1 DEF IInv, Shown, AskedShown, Remembered
<1> QED BY <1>3, <1>4 DEF IInv

LEMMA SubmitKeeps ==
    ASSUME IInv, NEW w \in Windows, Submit(w)
    PROVE  IInv'
<1> DEFINE e == button[w]
           type == IF e = NoEntry THEN "x11" ELSE e.type
           file == IF e = NoEntry THEN NoFile ELSE e.file
           shown == IF w \in current THEN rows[index + 1] ELSE NoEntry
           a == [type |-> type, file |-> file, shown |-> shown]
<1>1. /\ w \in windows /\ Len(asked) < MaxAsked
      /\ asked' = Append(asked, a) /\ submitted' = file
      /\ disabled' = disabled \cup {w}
      /\ up' = up /\ rows' = rows /\ notice' = notice /\ index' = index /\ bound' = bound
      /\ windows' = windows /\ button' = button /\ saved' = saved /\ underWay' = underWay
      /\ current' = current /\ remembered' = remembered
      /\ installed' = installed /\ changes' = changes
  BY DEF Submit, Kept
<1>2. e \in Candidates \cup {NoEntry} /\ asked \in Seq(Logins)
  BY DEF IInv, TypeOK, Logins
<1>3. type \in Types /\ file \in Nat
  BY <1>2, CandidateTypes DEF Types, NoFile
<1>4. shown = NoEntry \/ (shown = e /\ e \in Candidates)
  <2>1. CASE w \in current
    <3>1. index < Len(rows) /\ e = rows[index + 1] /\ rows \in Seq(Candidates)
          /\ index \in 0 .. Cardinality(Candidates)
      BY <2>1 DEF IInv, Shown, TypeOK
    <3>2. index \in Nat
      BY <3>1, CandidatesAssumption, FS_CardinalityType
    <3>3. rows[index + 1] \in Candidates
      BY <3>1, <3>2
    <3> QED BY <2>1, <3>1, <3>3
  <2>2. CASE w \notin current
    BY <2>2
  <2> QED BY <2>1, <2>2
<1>5. shown # NoEntry => type = shown.type /\ file = shown.file
  BY <1>4
<1> HIDE DEF e, type, file, shown
<1>6. a \in Logins /\ a.shown = shown /\ a.type = type /\ a.file = file
  BY <1>2, <1>3, <1>4 DEF Logins
<1> HIDE DEF a
<1>7. /\ asked' \in Seq(Logins) /\ Len(asked') = Len(asked) + 1 /\ Len(asked) \in Nat
      /\ \A i \in 1 .. Len(asked) : asked'[i] = asked[i]
      /\ asked'[Len(asked) + 1] = a /\ DOMAIN asked' = 1 .. Len(asked) + 1
  BY <1>1, <1>2, <1>6
<1>8. Len(asked') <= MaxAsked
  BY <1>1, <1>7, CandidatesAssumption
<1>9. TypeOK'
  BY <1>1, <1>3, <1>7, <1>8 DEF IInv, TypeOK, Logins
<1>10. AskedShown'
  <2> SUFFICES ASSUME NEW i \in DOMAIN asked', asked'[i].shown # NoEntry
               PROVE  asked'[i].type = asked'[i].shown.type
                      /\ asked'[i].file = asked'[i].shown.file
    BY DEF AskedShown
  <2>1. CASE i \in 1 .. Len(asked)
    <3>1. asked'[i] = asked[i] /\ i \in DOMAIN asked
      BY <1>2, <1>7, <2>1
    <3> QED BY <3>1 DEF IInv, AskedShown
  <2>2. CASE i = Len(asked) + 1
    BY <1>5, <1>6, <1>7, <2>2
  <2> QED BY <1>7, <2>1, <2>2
<1>11. Shown' /\ Remembered'
  BY <1>1 DEF IInv, Shown, Remembered
<1> QED BY <1>9, <1>10, <1>11 DEF IInv

\* Session::create finds an installed file of the type and the name, in the
\* first directory that has it, or nothing.
LEMMA LocatedFile ==
    ASSUME NEW type, NEW file, installed \subseteq Candidates
    PROVE  \/ Located(type, file) = NoEntry
              /\ \A e \in installed : e.type # type \/ e.file # file
           \/ Located(type, file) \in Listed(installed)
              /\ Located(type, file).type = type /\ Located(type, file).file = file
<1> DEFINE found == {e \in installed : e.type = type /\ e.file = file}
           dirs == {e.dir : e \in found}
<1>1. Located(type, file) =
         IF found = {} THEN NoEntry ELSE CHOOSE e \in found : \A f \in found : e.dir <= f.dir
  BY DEF Located
<1>2. CASE found = {}
  BY <1>1, <1>2
<1>3. CASE found # {}
  <2>1. \E e \in found : \A f \in found : e.dir <= f.dir
    <3>1. dirs \subseteq Nat /\ dirs # {}
      BY <1>3, CandidateTypes
    <3>2. \A d \in dirs : \E e \in found : d = e.dir
      OBVIOUS
    <3>3. \A f \in found : f.dir \in dirs
      OBVIOUS
    <3> HIDE DEF dirs, found
    <3>4. PICK d \in dirs : \A x \in dirs : d <= x
      BY <3>1, Least
    <3> QED BY <3>2, <3>3, <3>4
  <2> DEFINE l == Located(type, file)
  <2>2. l \in found /\ \A f \in found : l.dir <= f.dir
    <3> HIDE DEF found
    <3> QED BY <1>1, <1>3, <2>1
  <2> HIDE DEF l
  <2>3. l \in Listed(installed) /\ l.type = type /\ l.file = file
    BY <2>2 DEF Listed
  <2> QED BY <2>3 DEF l
<1> QED BY <1>2, <1>3

LEMMA ReceiveKeeps ==
    ASSUME IInv, Receive
    PROVE  IInv'
<1>1. /\ asked # << >> /\ asked' = Tail(asked)
      /\ underWay' \in {underWay, Located(Head(asked).type, Head(asked).file)}
      /\ notice' = notice /\ up' = up /\ rows' = rows /\ index' = index /\ bound' = bound
      /\ windows' = windows /\ button' = button /\ disabled' = disabled
      /\ submitted' = submitted /\ current' = current /\ saved' = saved
      /\ remembered' = remembered /\ installed' = installed /\ changes' = changes
  BY DEF Receive, Kept, greeterVars
<1>2. asked \in Seq(Logins) /\ installed \subseteq Candidates /\ Len(asked) <= MaxAsked
  BY DEF IInv, TypeOK, Logins
<1>3. underWay' \in Candidates \cup {NoEntry}
  BY <1>1, <1>2, LocatedFile DEF IInv, TypeOK, Listed
<1>4. /\ asked' \in Seq(Logins) /\ Len(asked') = Len(asked) - 1 /\ Len(asked) \in Nat
      /\ \A i \in DOMAIN asked' : asked'[i] = asked[i + 1] /\ i + 1 \in DOMAIN asked
  BY <1>1, <1>2
<1>5. Len(asked') <= MaxAsked
  BY <1>2, <1>4, CandidatesAssumption
<1>6. TypeOK'
  BY <1>1, <1>3, <1>4, <1>5 DEF IInv, TypeOK, Logins
<1>7. AskedShown'
  BY <1>4 DEF IInv, AskedShown
<1>8. Shown' /\ Remembered'
  BY <1>1 DEF IInv, Shown, Remembered
<1> QED BY <1>6, <1>7, <1>8 DEF IInv

LEMMA FailKeeps ==
    ASSUME IInv, Fail
    PROVE  IInv'
<1>1. /\ underWay' = NoEntry /\ disabled' = {}
      /\ up' = up /\ rows' = rows /\ notice' = notice /\ index' = index /\ bound' = bound
      /\ windows' = windows /\ button' = button /\ asked' = asked /\ submitted' = submitted
      /\ saved' = saved /\ current' = current /\ remembered' = remembered
      /\ installed' = installed /\ changes' = changes
  BY DEF Fail, Kept
<1>2. TypeOK'
  BY <1>1 DEF IInv, TypeOK
<1>3. Shown' /\ AskedShown' /\ Remembered'
  BY <1>1 DEF IInv, Shown, AskedShown, Remembered
<1> QED BY <1>2, <1>3 DEF IInv

LEMMA SucceedKeeps ==
    ASSUME IInv, Succeed
    PROVE  IInv'
<1> DEFINE i == IF bound /\ saved' # saved THEN ChosenIndex(rows, saved') ELSE index
<1>1. /\ underWay # NoEntry /\ underWay' = NoEntry /\ saved' = submitted
      /\ remembered' = (IF submitted = underWay.file THEN underWay ELSE NoEntry)
      /\ index' = i /\ bound' \in BOOLEAN
      /\ IF i = index THEN UNCHANGED <<button, current>> ELSE Read(windows, i)
      /\ up' = up /\ rows' = rows /\ notice' = notice /\ windows' = windows
      /\ disabled' = disabled /\ asked' = asked /\ submitted' = submitted
      /\ installed' = installed /\ changes' = changes
  BY DEF Succeed, Kept, FileToSave
<1>2. /\ TypeOK /\ Shown /\ rows \in Seq(Candidates) /\ Len(rows) \in Nat
      /\ current \subseteq windows /\ windows \subseteq Windows
      /\ index \in 0 .. Cardinality(Candidates) /\ Cardinality(Candidates) \in Nat
      /\ Len(rows) <= Cardinality(Candidates)
  BY CandidatesAssumption, FS_CardinalityType, FewRows DEF IInv, TypeOK
<1>3. i = index \/ (i \in Nat /\ (i = 0 \/ i < Len(rows)))
  BY <1>2, ChosenRow
<1> HIDE DEF i
<1>4. CASE i = index
  <2>1. button' = button /\ current' = current /\ index' = index
    BY <1>1, <1>4
  <2>2. TypeOK'
    BY <1>1, <2>1 DEF IInv, TypeOK
  <2>3. Shown' /\ AskedShown' /\ Remembered'
    BY <1>1, <2>1 DEF IInv, Shown, AskedShown, Remembered
  <2> QED BY <2>2, <2>3 DEF IInv
<1>5. CASE i # index /\ i \in Nat /\ (i = 0 \/ i < Len(rows))
  <2>1. Read(windows, i)
    BY <1>1, <1>5
  <2>2. /\ button' \in [Windows -> Candidates \cup {NoEntry}]
        /\ \/ /\ i < Len(rows) /\ current' = current \cup windows
              /\ \A w \in windows : button'[w] = rows[i + 1]
           \/ i >= Len(rows) /\ button' = button /\ current' = current
    BY <1>2, <1>5, <2>1, ReadButtons
  <2>3. current' \subseteq windows /\ Shown'
    <3>1. CASE i < Len(rows) /\ current' = current \cup windows
               /\ \A w \in windows : button'[w] = rows[i + 1]
      BY <1>1, <1>2, <3>1 DEF Shown
    <3>2. CASE i >= Len(rows) /\ button' = button /\ current' = current
      <4>1. Len(rows) = 0 /\ index \in Nat
        BY <1>2, <1>5, <3>2
      <4>2. current = {}
        BY <1>2, <4>1 DEF Shown
      <4> QED BY <3>2, <4>2 DEF Shown
    <3> QED BY <2>2, <3>1, <3>2
  <2>4. index' \in 0 .. Cardinality(Candidates)
    <3>1. CASE i = 0
      BY <1>1, <1>2, <3>1
    <3>2. CASE i < Len(rows)
      BY <1>1, <1>2, <1>5, <3>2
    <3> QED BY <1>5, <3>1, <3>2
  <2>5. TypeOK'
    BY <1>1, <2>2, <2>3, <2>4 DEF IInv, TypeOK
  <2>6. AskedShown' /\ Remembered'
    BY <1>1 DEF IInv, AskedShown, Remembered
  <2> QED BY <2>3, <2>5, <2>6 DEF IInv
<1> QED BY <1>3, <1>4, <1>5

-----------------------------------------------------------------------------
(***************************************************************************)
(* The theorems                                                           *)
(***************************************************************************)

\* The invariant is kept by every change of the files, every step of a window
\* and every login (SessionModel, SessionButton, GreeterState).
THEOREM Inductive == Spec => []IInv
<1>1. IInv /\ [Next]_vars => IInv'
  <2> SUFFICES ASSUME IInv, [Next]_vars PROVE IInv'
    OBVIOUS
  <2>1. CASE GreeterStarts
    BY <2>1, GreeterStartsKeeps
  <2>2. CASE GreeterStops
    BY <2>2, GreeterStopsKeeps
  <2>3. CASE \E w \in Windows : ScreenAdded(w) \/ ScreenRemoved(w) \/ Submit(w)
    BY <2>3, ScreensKeep, SubmitKeeps
  <2>4. CASE \E w \in Windows, i \in 0 .. Cardinality(Candidates) - 1 : Select(w, i)
    BY <2>4, SelectKeeps
  <2>5. CASE \E e \in Candidates : InstallFile(e) \/ RemoveFile(e)
    BY <2>5, FilesKeep
  <2>6. CASE DirectoryChanged
    BY <2>6, DirectoryChangedKeeps
  <2>7. CASE Receive
    BY <2>7, ReceiveKeeps
  <2>8. CASE Fail
    BY <2>8, FailKeeps
  <2>9. CASE Succeed
    BY <2>9, SucceedKeeps
  <2>10. CASE UNCHANGED vars
    <3>1. TypeOK'
      BY <2>10 DEF IInv, TypeOK, vars, greeterVars
    <3>2. Shown' /\ AskedShown' /\ Remembered'
      BY <2>10 DEF IInv, Shown, AskedShown, Remembered, vars, greeterVars
    <3> QED BY <3>1, <3>2 DEF IInv
  <2> QED BY <2>1, <2>2, <2>3, <2>4, <2>5, <2>6, <2>7, <2>8, <2>9, <2>10 DEF Next
<1> QED BY <1>1, InitIInv, PTL DEF Spec

\* Whatever files come and go: the index is one a list may have, the menu lists
\* no two sessions of one type and file name (getSessionsPaths).
THEOREM TypeCorrect == Spec => []TypeOK
<1>1. IInv => TypeOK
  BY DEF IInv
<1> QED BY <1>1, Inductive, PTL

\* However many files have one name, directory or type, no two entries of the
\* menu read alike (SessionModel::data), unless the name of one ends in what looks
\* like a label.
THEOREM EntriesDistinct == Spec => []DistinctEntries
<1>1. TypeOK => DistinctEntries
  <2> SUFFICES ASSUME TypeOK, NEW i \in DOMAIN rows, NEW j \in DOMAIN rows,
                      Display(rows, rows[i]) = Display(rows, rows[j]),
                      ~EndsInLabel(Spelling[rows[i].name]),
                      ~EndsInLabel(Spelling[rows[j].name])
               PROVE  i = j
    BY DEF DistinctEntries
  <2>1. /\ rows \in Seq(Candidates)
        /\ \A k, l \in DOMAIN rows :
              (rows[k].type = rows[l].type /\ rows[k].file = rows[l].file) => k = l
        /\ rows[i] \in Range(rows) /\ rows[j] \in Range(rows)
    BY DEF TypeOK, Range
  <2>2. rows[i] = rows[j]
    BY <2>1, DisplayApart
  <2> QED BY <2>1, <2>2
<1> QED BY <1>1, TypeCorrect, PTL

\* The daemon opens the session a window showed, if it is listed still, because
\* both look for it in the same directories and the button follows the index
\* (SessionButton, SocketServer::readyRead, Session::create).  Windows whose button
\* was not read again since the list changed are left out: they may show one session
\* and start another.
THEOREM ShownStarts == Spec => StartsTheShown
<1> DEFINE Next1 == (up' /\ asked # << >> /\ asked' = Tail(asked) /\ underWay = NoEntry)
                      => LET s == Head(asked)
                         IN s.shown \in Range(Populated(installed)) => underWay' = s.shown
<1>1. IInv /\ [Next]_vars => [Next1]_vars
  <2> SUFFICES ASSUME IInv, Next, up', asked # << >>, asked' = Tail(asked), underWay = NoEntry,
                      Head(asked).shown \in Range(Populated(installed))
               PROVE  underWay' = Head(asked).shown
    OBVIOUS
  <2> DEFINE s == Head(asked)
  <2>1. asked \in Seq(Logins) /\ installed \subseteq Candidates /\ NoEntry \notin Candidates
    BY CandidatesAssumption DEF IInv, TypeOK, Logins
  <2>2. Len(asked') = Len(asked) - 1 /\ Len(asked) \in Nat
    BY <2>1
  <2>3. asked' # asked
    <3> SUFFICES ASSUME asked' = asked PROVE FALSE
      OBVIOUS
    <3>1. Len(asked') = Len(asked)
      OBVIOUS
    <3> QED BY <2>2, <3>1
  <2>4. Receive
    <3>1. ~ \E w \in Windows : Submit(w)
      <4> SUFFICES ASSUME NEW w \in Windows, Submit(w) PROVE FALSE
        OBVIOUS
      <4>1. PICK a : asked' = Append(asked, a)
        BY DEF Submit
      <4>2. Len(asked') = Len(asked) + 1
        BY <2>1, <4>1
      <4> QED BY <2>2, <4>2
    <3>2. ~GreeterStops
      BY DEF GreeterStops
    <3>3. ~(asked' = asked)
      BY <2>3
    <3> QED BY <3>1, <3>2, <3>3
            DEF Next, GreeterStarts, ScreenAdded, ScreenRemoved, Select, InstallFile,
                RemoveFile, FilesChange, DirectoryChanged, Fail, Succeed
  <2>5. underWay' = Located(s.type, s.file)
    BY <2>4 DEF Receive
  <2>6. s.shown \in Listed(installed)
    BY <2>1, PopulatedList DEF Listing
  <2>7. s = asked[1] /\ 1 \in DOMAIN asked /\ s.shown \in installed /\ s.shown # NoEntry
    BY <2>1, <2>6 DEF Listed
  <2>8. s.type = s.shown.type /\ s.file = s.shown.file
    BY <2>7 DEF IInv, AskedShown
  <2> HIDE DEF s
  <2> DEFINE l == Located(s.type, s.file)
  <2>9. l \in Listed(installed) /\ l.type = s.type /\ l.file = s.file
    BY <2>1, <2>7, <2>8, LocatedFile
  <2> HIDE DEF l
  <2>10. l \in Candidates /\ s.shown \in Candidates /\ l.dir <= s.shown.dir /\ s.shown.dir <= l.dir
    BY <2>1, <2>6, <2>8, <2>9 DEF Listed
  <2>11. l.dir = s.shown.dir
    BY <2>10, CandidateTypes
  <2>12. l = s.shown
    BY <2>8, <2>9, <2>10, <2>11, CandidatesAssumption
  <2> QED BY <2>5, <2>12 DEF l, s
<1> QED BY <1>1, Inductive, PTL DEF Spec, StartsTheShown

\* The next greeter shows the session started last, because the name saved is
\* the one that was started (GreeterState.sessionIndex, onLoginSucceeded).
THEOREM SessionRemembered == Spec => RemembersSession
<1> DEFINE Next1 == (~up /\ up')
                      => \A e \in Range(rows') :
                            (/\ e = remembered /\ RowOf(rows', Preselected) = -1
                             /\ \A f \in Range(rows') : f.file = e.file => f = e)
                            => rows'[index' + 1] = e
<1>1. IInv /\ [Next]_vars => [Next1]_vars
  <2> SUFFICES ASSUME IInv, Next, ~up, up', NEW e \in Range(rows'),
                      e = remembered, RowOf(rows', Preselected) = -1,
                      \A f \in Range(rows') : f.file = e.file => f = e
               PROVE  rows'[index' + 1] = e
    OBVIOUS
  <2>1. GreeterStarts
    <3>1. ~(up' = up)
      OBVIOUS
    <3> QED BY <3>1 DEF Next, ScreenAdded, ScreenRemoved, Submit, Select, InstallFile,
              RemoveFile, FilesChange, DirectoryChanged, Receive, Fail, Succeed,
              GreeterStops, greeterVars
  <2>2. rows' = Populated(installed) /\ index' = ChosenIndex(rows', saved)
    BY <2>1 DEF GreeterStarts
  <2>3. Listing(rows', installed)
    BY <2>2, PopulatedList DEF IInv, TypeOK
  <2>4. rows' \in Seq(Candidates) /\ e \in Candidates /\ e # NoEntry
    BY <2>3, CandidatesAssumption DEF Listing, Listed, Range, IInv, TypeOK
  <2>5. saved = e.file
    BY <2>4 DEF IInv, Remembered
  <2> DEFINE l == rows'
             r == RowOf(l, saved)
  <2>6. l \in Seq(Candidates) /\ \E i \in DOMAIN l : l[i].file = saved
    BY <2>4, <2>5 DEF Range
  <2> HIDE DEF l
  <2>7. r # -1 /\ r \in 1 .. Len(l) /\ l[r].file = saved
    BY <2>6, RowFound
  <2>8. l[r] = e
    <3>1. l[r] \in Range(l)
      BY <2>6, <2>7 DEF Range
    <3> QED BY <2>5, <2>7, <3>1 DEF l
  <2>9. ChosenIndex(l, saved) = r - 1
    BY <2>7 DEF ChosenIndex, l
  <2>10. index' + 1 = r
    BY <2>2, <2>7, <2>9 DEF l
  <2> QED BY <2>8, <2>10 DEF l
<1> QED BY <1>1, Inductive, PTL DEF Spec, RemembersSession
=============================================================================
