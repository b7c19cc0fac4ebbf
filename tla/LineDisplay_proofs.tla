------------------------- MODULE LineDisplay_proofs --------------------------
(***************************************************************************)
(* What holds of the lines of every chart: a line is drawn by the highest  *)
(* of the features that claim it, whatever the options were before; an     *)
(* area stays filed once in each style; the buffer of points is exactly as *)
(* long as what is copied into it; the types; the lists of the features    *)
(* draw what the tables of the file describe; and the contours of an area  *)
(* are found again from its list.                                          *)
(***************************************************************************)
EXTENDS LineDisplay, FiniteSetTheorems, SequenceTheorems, WellFoundedInduction, TLAPS

(***************************************************************************)
(* Induction, from the well-foundedness of finite sets: the library's      *)
(* theorems of induction take a predicate, which the provers do not.       *)
(***************************************************************************)
LEMMA LeastExists ==
  ASSUME NEW T, T \subseteq Nat, T # {}
  PROVE  \E n \in T : \A m \in T : n <= m
<1> DEFINE TT == {0..n : n \in T}
<1>1. IsWellFoundedOn(StrictSubsetOrdering(Nat), FiniteSubsetsOf(Nat))
  BY FS_StrictSubsetOrderingWellFounded
<1>2. \A n \in Nat : IsFiniteSet(0..n) /\ 0..n \subseteq Nat
  BY FS_Interval
<1>3. TT \subseteq FiniteSubsetsOf(Nat) /\ TT # {}
  BY <1>2 DEF FiniteSubsetsOf
<1>4. PICK X \in TT : \A Y \in TT : <<Y, X>> \notin StrictSubsetOrdering(Nat)
  <2> HIDE DEF TT
  <2> QED BY <1>1, <1>3, WFMin
<1>5. PICK n \in T : X = 0..n
  OBVIOUS
<1>6. ASSUME NEW m \in T, m < n PROVE FALSE
  <2>1. 0..m \subseteq 0..n /\ n \in 0..n /\ n \notin 0..m
    BY <1>6
  <2>2. <<0..m, 0..n>> \in StrictSubsetOrdering(Nat)
    BY <2>1, <1>2 DEF StrictSubsetOrdering
  <2> QED BY <2>2, <1>4, <1>5
<1> QED BY <1>6

LEMMA InductionOn ==
  ASSUME NEW T, 0 \in T, \A n \in Nat : n \in T => n + 1 \in T
  PROVE  Nat \subseteq T
<1> SUFFICES ASSUME Nat \ T # {} PROVE FALSE OBVIOUS
<1>1. PICK n \in Nat \ T : \A m \in Nat \ T : n <= m BY LeastExists
<1>2. n - 1 \in Nat /\ n - 1 \in T BY <1>1
<1> QED BY <1>1, <1>2

LEMMA MaxIsGreatest ==
  ASSUME NEW n \in Nat, NEW x, x \subseteq 1..n, x # {}
  PROVE  Max(x) \in x /\ \A y \in x : y <= Max(x)
<1>0. \A y \in x : y \in 1..n /\ n - y \in Nat OBVIOUS
<1>1. {n - y : y \in x} \subseteq Nat /\ {n - y : y \in x} # {} BY <1>0
<1>2. PICK k \in {n - y : y \in x} : \A m \in {n - y : y \in x} : k <= m
  BY <1>1, LeastExists
<1>3. PICK y \in x : k = n - y OBVIOUS
<1>4. ASSUME NEW z \in x PROVE y >= z
  <2>1. n - y <= n - z BY <1>2, <1>3
  <2>2. y \in Nat /\ z \in Nat BY <1>0
  <2> QED BY <2>1, <2>2
<1> QED BY <1>4 DEF Max

LEMMA WithoutMax ==
  ASSUME NEW n \in Nat, NEW x, x \subseteq 1..(n + 1), x # {}
  PROVE  x \ {Max(x)} \subseteq 1..n
<1>1. n + 1 \in Nat OBVIOUS
<1>2. Max(x) \in x /\ \A y \in x : y <= Max(x) BY <1>1, MaxIsGreatest
<1>3. ASSUME NEW y \in x, y # Max(x) PROVE y \in 1..n
  <2>1. y \in 1..(n + 1) /\ Max(x) \in 1..(n + 1) BY <1>2
  <2> QED BY <1>2, <1>3, <2>1
<1> QED BY <1>3

LEMMA MaxOfPrefix == ASSUME NEW n \in Nat PROVE Max(1..(n + 1)) = n + 1
<1>1. n + 1 \in 1..(n + 1) /\ n + 1 \in Nat OBVIOUS
<1>2. /\ Max(1..(n + 1)) \in 1..(n + 1)
      /\ \A y \in 1..(n + 1) : y <= Max(1..(n + 1))
  BY <1>1, MaxIsGreatest
<1> QED BY <1>1, <1>2

(***************************************************************************)
(* The features are filed, filed again and given priorities by folds.      *)
(* Each has a state after every element.                                   *)
(***************************************************************************)
Insert(s) == [op |-> "insert", style |-> s]
Update == [op |-> "update"]
Prior(raz) == [op |-> "prioritize", raz |-> raz]
Connecting == [op |-> "connect"]
Joining(slices) == [op |-> "join", slices |-> slices]

Apply(c, a, x) ==
  IF c.op = "insert" THEN InsertRules(a, x, c.style)
  ELSE IF c.op = "update"
  THEN FileOther(FileOther(a, 3, 4, "symbolized", x), 4, 3, "plain", x)
  ELSE IF c.op = "connect" THEN Connect(a, x)
  ELSE IF c.op = "join" THEN Join(a, x, c.slices)
  ELSE Prioritize(c.raz, a, x)

IsIter(c, it, D, e, q) == it = [x \in SUBSET D |->
  IF x = {} THEN e ELSE Apply(c, it[x \ {Max(x)}], q[Max(x)])]

LEMMA IterExists ==
  ASSUME NEW c, NEW e, NEW q PROVE \A n \in Nat : \E it : IsIter(c, it, 1..n, e, q)
<1> DEFINE T == {n \in Nat : \E it : IsIter(c, it, 1..n, e, q)}
<1>1. 0 \in T
  <2> DEFINE g == [x \in SUBSET (1..0) |-> e]
  <2>1. IsIter(c, g, 1..0, e, q) BY DEF IsIter
  <2> QED BY <2>1
<1>2. ASSUME NEW n \in Nat, n \in T PROVE n + 1 \in T
  <2>1. PICK g : IsIter(c, g, 1..n, e, q) BY <1>2
  <2> DEFINE h == [x \in SUBSET (1..(n + 1)) |->
                   IF x = {} THEN e ELSE Apply(c, g[x \ {Max(x)}], q[Max(x)])]
  <2>2. ASSUME NEW y \in SUBSET (1..n) PROVE h[y] = g[y]
    <3>1. y \in SUBSET (1..(n + 1)) OBVIOUS
    <3>2. h[y] = IF y = {} THEN e ELSE Apply(c, g[y \ {Max(y)}], q[Max(y)]) BY <3>1
    <3>3. g[y] = IF y = {} THEN e ELSE Apply(c, g[y \ {Max(y)}], q[Max(y)])
      BY <2>1 DEF IsIter
    <3> QED BY <3>2, <3>3
  <2>3. \A x \in SUBSET (1..(n + 1)) : x # {} => h[x \ {Max(x)}] = g[x \ {Max(x)}]
    BY <2>2, WithoutMax
  <2>4. IsIter(c, h, 1..(n + 1), e, q)
    BY <2>3 DEF IsIter
  <2> QED BY <2>4
<1> QED BY <1>1, <1>2, InductionOn

\* r comes out of folding Apply(c, _, _) over the n elements of q.
AreStates(c, h, n, e, q, r) ==
  /\ h[0] = e /\ h[n] = r
  /\ \A k \in 0..(n - 1) : h[k + 1] = Apply(c, h[k], q[k + 1])
Folds(c, n, e, q, r) == \E h : AreStates(c, h, n, e, q, r)

LEMMA IterFolds ==
  ASSUME NEW c, NEW e, NEW q, NEW n \in Nat, NEW it, IsIter(c, it, 1..n, e, q)
  PROVE  Folds(c, n, e, q, it[1..n])
<1> DEFINE h == [k \in 0..n |-> it[1..k]]
<1>1. h[0] = e
  BY DEF IsIter
<1>2. ASSUME NEW k \in 0..(n - 1) PROVE h[k + 1] = Apply(c, h[k], q[k + 1])
  <2>1. Max(1..(k + 1)) = k + 1 BY MaxOfPrefix
  <2>2. (1..(k + 1)) \ {k + 1} = 1..k /\ 1..(k + 1) # {} /\ 1..(k + 1) \in SUBSET (1..n)
    OBVIOUS
  <2>3. it[1..(k + 1)] = Apply(c, it[1..k], q[k + 1]) BY <2>1, <2>2 DEF IsIter
  <2> QED BY <2>3
<1>3. h[n] = it[1..n]
  <2>1. n \in 0..n OBVIOUS
  <2> QED BY <2>1
<1> HIDE DEF h
<1>4. AreStates(c, h, n, e, q, it[1..n])
  BY <1>1, <1>2, <1>3 DEF AreStates
<1> QED BY <1>4 DEF Folds

LEMMA FoldKeeps ==
  ASSUME NEW c, NEW e, NEW q, NEW n \in Nat, NEW r, Folds(c, n, e, q, r),
         NEW G, e \in G, \A k \in 1..n : \A g \in G : Apply(c, g, q[k]) \in G
  PROVE  r \in G
<1>0. PICK h : AreStates(c, h, n, e, q, r) BY DEF Folds
<1>1. /\ h[0] = e /\ h[n] = r
      /\ \A k \in 0..(n - 1) : h[k + 1] = Apply(c, h[k], q[k + 1])
  BY <1>0 DEF AreStates
<1> DEFINE T == {k \in Nat : k <= n => h[k] \in G}
<1>2. 0 \in T BY <1>1
<1>3. ASSUME NEW k \in Nat, k \in T PROVE k + 1 \in T
  <2> SUFFICES ASSUME k + 1 <= n PROVE h[k + 1] \in G OBVIOUS
  <2>1. h[k] \in G /\ k \in 0..(n - 1) /\ k + 1 \in 1..n BY <1>3
  <2> QED BY <1>1, <2>1
<1>4. n \in T BY <1>2, <1>3, InductionOn
<1> QED BY <1>1, <1>4

\* The folds as such.
Inserted(s, e, q) == FoldLeft(LAMBDA r, f : InsertRules(r, f, s), e, q)
InsertIt(s, D, e, q) == CHOOSE it : it = [x \in SUBSET D |->
  IF x = {} THEN e ELSE InsertRules(it[x \ {Max(x)}], q[Max(x)], s)]

LEMMA InsertFolds ==
  ASSUME NEW s, NEW e, NEW q, NEW n \in Nat, DOMAIN q = 1..n
  PROVE  Folds(Insert(s), n, e, q, Inserted(s, e, q))
<1>1. Inserted(s, e, q) = InsertIt(s, 1..n, e, q)[1..n]
  BY DEF Inserted, FoldLeft, MapThenFoldSet, InsertIt
<1>2. \E it : IsIter(Insert(s), it, 1..n, e, q) BY IterExists
<1>3. \A it : IsIter(Insert(s), it, 1..n, e, q) <=> it = [x \in SUBSET (1..n) |->
         IF x = {} THEN e ELSE InsertRules(it[x \ {Max(x)}], q[Max(x)], s)]
  BY DEF IsIter, Apply, Insert
<1>4. IsIter(Insert(s), InsertIt(s, 1..n, e, q), 1..n, e, q)
  BY <1>2, <1>3 DEF InsertIt
<1> QED BY <1>1, <1>4, IterFolds

UpdateIt(D, e, q) == CHOOSE it : it = [x \in SUBSET D |->
  IF x = {} THEN e
  ELSE FileOther(FileOther(it[x \ {Max(x)}], 3, 4, "symbolized", q[Max(x)]),
                 4, 3, "plain", q[Max(x)])]

LEMMA LevelSeqShape == DOMAIN LevelSeq = 1..(LastLevel + 1) /\ LastLevel + 1 \in Nat
                       /\ \A k \in 1..(LastLevel + 1) : LevelSeq[k] = k - 1 /\ k - 1 \in Levels
  BY LineGeometryAssumption DEF LevelSeq, Levels

LEMMA UpdateFolds ==
  ASSUME NEW e
  PROVE  Folds(Update, LastLevel + 1, e, LevelSeq, UpdateLUPs(e))
<1> PICK n \in Nat : n = LastLevel + 1 BY LevelSeqShape
<1> PICK q : q = LevelSeq OBVIOUS
<1>0. DOMAIN q = 1..n BY LevelSeqShape
<1>1. UpdateLUPs(e) = UpdateIt(1..n, e, q)[1..n]
  BY <1>0 DEF UpdateLUPs, FoldLeft, MapThenFoldSet, UpdateIt
<1>2. \E it : IsIter(Update, it, 1..n, e, q) BY IterExists
<1>3. \A it : IsIter(Update, it, 1..n, e, q) <=> it = [x \in SUBSET (1..n) |->
         IF x = {} THEN e
         ELSE FileOther(FileOther(it[x \ {Max(x)}], 3, 4, "symbolized", q[Max(x)]),
                        4, 3, "plain", q[Max(x)])]
  BY DEF IsIter, Apply, Update
<1>4. IsIter(Update, UpdateIt(1..n, e, q), 1..n, e, q)
  BY <1>2, <1>3 DEF UpdateIt
<1>5. Folds(Update, n, e, q, UpdateLUPs(e)) BY <1>1, <1>4, IterFolds
<1> QED BY <1>5

Given(raz, mp) == FoldLeft(LAMBDA m, i : Prioritize(raz, m, i), mp, LevelSeq)
PriorIt(raz, D, e, q) == CHOOSE it : it = [x \in SUBSET D |->
  IF x = {} THEN e ELSE Prioritize(raz, it[x \ {Max(x)}], q[Max(x)])]

LEMMA PriorFolds ==
  ASSUME NEW raz, NEW e
  PROVE  Folds(Prior(raz), LastLevel + 1, e, LevelSeq, Given(raz, e))
<1> PICK n \in Nat : n = LastLevel + 1 BY LevelSeqShape
<1> PICK q : q = LevelSeq OBVIOUS
<1>0. DOMAIN q = 1..n BY LevelSeqShape
<1>1. Given(raz, e) = PriorIt(raz, 1..n, e, q)[1..n]
  BY <1>0 DEF Given, FoldLeft, MapThenFoldSet, PriorIt
<1>2. \E it : IsIter(Prior(raz), it, 1..n, e, q) BY IterExists
<1>3. \A it : IsIter(Prior(raz), it, 1..n, e, q) <=> it = [x \in SUBSET (1..n) |->
         IF x = {} THEN e ELSE Prioritize(raz, it[x \ {Max(x)}], q[Max(x)])]
  BY DEF IsIter, Apply, Prior
<1>4. IsIter(Prior(raz), PriorIt(raz, 1..n, e, q), 1..n, e, q)
  BY <1>2, <1>3 DEF PriorIt
<1>5. Folds(Prior(raz), n, e, q, Given(raz, e)) BY <1>1, <1>4, IterFolds
<1> QED BY <1>5

(***************************************************************************)
(* The lists of features.  A line is filed once and for all under the      *)
(* priority it had at load, an area under the one of the list's style.     *)
(***************************************************************************)
Cells == Levels \X Lists
FiledAs(d, f, c) ==
  IF c[2] = 2 THEN Lup[f].type = "line" /\ c[1] = d[f]
  ELSE /\ Lup[f].type # "line"
       /\ c[1] = LevelOf(f, IF c[2] = 3 THEN "plain" ELSE "symbolized")
Filings(d) == {raz \in [Cells -> Seq(Features)] :
                 \A c \in Cells : \A k \in 1..Len(raz[c]) : FiledAs(d, raz[c][k], c)}

LEMMA LevelsOf ==
  ASSUME NEW f \in Features, NEW s \in Styles
  PROVE  LevelOf(f, s) \in Levels /\ ListOf(f, s) \in Lists
         /\ <<LevelOf(f, s), ListOf(f, s)>> \in Cells
  BY LineGeometryAssumption DEF LevelOf, ListOf, Lists, Cells

LEMMA InsertFiles ==
  ASSUME NEW d, NEW raz \in Filings(d), NEW f \in Features, NEW s \in Styles,
         Lup[f].type = "line" => LevelOf(f, s) = d[f]
  PROVE  InsertRules(raz, f, s) \in Filings(d)
<1> DEFINE c == <<LevelOf(f, s), ListOf(f, s)>>
           new == InsertRules(raz, f, s)
<1>1. c \in Cells BY LevelsOf
<1>2. FiledAs(d, f, c)
  BY DEF FiledAs, ListOf, Styles
<1>3. raz \in [Cells -> Seq(Features)]
      /\ \A b \in Cells : \A k \in 1..Len(raz[b]) : FiledAs(d, raz[b][k], b)
  BY DEF Filings
<1>4. new = [raz EXCEPT ![c] = Append(raz[c], f)]
  BY DEF InsertRules
<1> HIDE DEF c, new
<1>5. Append(raz[c], f) \in Seq(Features) BY <1>1, <1>3
<1>6. new \in [Cells -> Seq(Features)] BY <1>3, <1>4, <1>5
<1>7. ASSUME NEW b \in Cells, NEW k \in 1..Len(new[b]) PROVE FiledAs(d, new[b][k], b)
  <2>1. CASE b # c
    <3>1. new[b] = raz[b] BY <1>3, <1>4, <2>1
    <3> QED BY <1>3, <1>7, <3>1
  <2>2. CASE b = c
    <3> PICK q \in Seq(Features) : q = raz[c] BY <1>1, <1>3
    <3>1. new[b] = Append(q, f) BY <1>1, <1>3, <1>4, <2>2
    <3>2. Len(q) \in Nat /\ Len(Append(q, f)) = Len(q) + 1
      BY AppendProperties, LenProperties
    <3>3. k \in 1..Len(q) \/ k = Len(q) + 1 BY <1>7, <3>1, <3>2
    <3>4. k \in 1..Len(q) => Append(q, f)[k] = q[k] BY AppendProperties
    <3>5. Append(q, f)[Len(q) + 1] = f BY AppendProperties
    <3> QED BY <1>2, <1>3, <2>2, <3>1, <3>3, <3>4, <3>5
  <2> QED BY <2>1, <2>2
<1> QED BY <1>6, <1>7 DEF Filings, new

LEMMA EmptyFiling ==
  ASSUME NEW d PROVE [c \in Levels \X Lists |-> <<>>] \in Filings(d)
  BY DEF Filings, Cells

LEMMA InsertedFiles ==
  ASSUME NEW d, NEW raz \in Filings(d), NEW s \in Styles, NEW q \in Seq(Features),
         \A k \in 1..Len(q) : Lup[q[k]].type = "line" => LevelOf(q[k], s) = d[q[k]]
  PROVE  Inserted(s, raz, q) \in Filings(d)
<1> PICK n \in Nat : n = Len(q) /\ DOMAIN q = 1..n BY LenProperties
<1>1. \A k \in 1..n : q[k] \in Features OBVIOUS
<1>2. \A k \in 1..n : \A g \in Filings(d) : Apply(Insert(s), g, q[k]) \in Filings(d)
  BY <1>1, InsertFiles DEF Apply, Insert
<1> PICK r : r = Inserted(s, raz, q) OBVIOUS
<1>3. Folds(Insert(s), n, raz, q, r) BY InsertFolds
<1>4. r \in Filings(d) BY <1>2, <1>3, FoldKeeps
<1> QED BY <1>4

LEMMA FileFeaturesFiles ==
  ASSUME NEW s \in Styles
  PROVE  FileFeatures(s) \in Filings([f \in Features |-> LevelOf(f, s)])
<1> DEFINE d == [f \in Features |-> LevelOf(f, s)]
           e == [c \in Levels \X Lists |-> <<>>]
<1>1. FileFeatures(s) = Inserted(s, e, FileOrder) BY DEF FileFeatures, Inserted
<1>2. \A f \in Features : d[f] = LevelOf(f, s) OBVIOUS
<1>3. e \in Filings(d) BY EmptyFiling
<1> HIDE DEF d, e
<1>4. \A k \in 1..Len(FileOrder) : FileOrder[k] \in Features
  BY LineGeometryAssumption
<1>5. Inserted(s, e, FileOrder) \in Filings(d)
  BY <1>2, <1>3, <1>4, InsertedFiles, LineGeometryAssumption
<1> QED BY <1>1, <1>5 DEF d

LEMMA FileOtherFiles ==
  ASSUME NEW d, NEW raz \in Filings(d), NEW i \in Levels,
         NEW from \in {3, 4}, NEW to, NEW s \in Styles
  PROVE  FileOther(raz, from, to, s, i) \in Filings(d)
<1>1. <<i, from>> \in Cells BY DEF Cells, Lists
<1>2. /\ raz[<<i, from>>] \in Seq(Features)
      /\ \A k \in 1..Len(raz[<<i, from>>]) : Lup[raz[<<i, from>>][k]].type # "line"
  <2> PICK c \in Cells : c = <<i, from>> BY <1>1
  <2>1. c[2] # 2 OBVIOUS
  <2>2. raz[c] \in Seq(Features) /\ \A k \in 1..Len(raz[c]) : FiledAs(d, raz[c][k], c)
    BY DEF Filings
  <2>3. \A k \in 1..Len(raz[c]) : Lup[raz[c][k]].type # "line"
    BY <2>1, <2>2 DEF FiledAs
  <2> QED BY <2>2, <2>3
<1>3. Inserted(s, raz, raz[<<i, from>>]) \in Filings(d)
  BY <1>2, InsertedFiles
<1> QED BY <1>3 DEF FileOther, Inserted

LEMMA UpdateFiles ==
  ASSUME NEW d, NEW raz \in Filings(d)
  PROVE  UpdateLUPs(raz) \in Filings(d)
<1> PICK n \in Nat : n = LastLevel + 1 BY LevelSeqShape
<1> PICK r : r = UpdateLUPs(raz) OBVIOUS
<1> PICK q : q = LevelSeq OBVIOUS
<1>1. Folds(Update, n, raz, q, r) BY UpdateFolds
<1>2. ASSUME NEW k \in 1..n, NEW g \in Filings(d)
      PROVE  Apply(Update, g, q[k]) \in Filings(d)
  <2>1. q[k] \in Levels BY LevelSeqShape
  <2>2. FileOther(g, 3, 4, "symbolized", q[k]) \in Filings(d)
    BY <2>1, FileOtherFiles DEF Styles
  <2>3. FileOther(FileOther(g, 3, 4, "symbolized", q[k]), 4, 3, "plain", q[k]) \in Filings(d)
    BY <2>1, <2>2, FileOtherFiles DEF Styles
  <2> QED BY <2>3 DEF Apply, Update
<1>3. r \in Filings(d) BY <1>1, <1>2, FoldKeeps
<1> QED BY <1>3

(***************************************************************************)
(* The priorities.  An element gets the highest level at which a feature   *)
(* that is listed in the style claims it.                                  *)
(***************************************************************************)
ListedIn(raz, s, i) ==
  ToSet(raz[<<i, 2>>]) \cup ToSet(raz[<<i, IF s = "symbolized" THEN 4 ELSE 3>>])
ClaimsIn(f, cat, off) ==
  /\ \/ Lup[f].mutable
     \/ /\ cat = "standard" => Lup[f].disc \in {"base", "standard"}
        /\ cat = "base" => Lup[f].disc = "base"
  /\ f \notin off
ClaimedAt(raz, s, cat, off, i, id) ==
  \E f \in ListedIn(raz, s, i) : ClaimsIn(f, cat, off) /\ id \in IdsOf(f)

IsTop(raz, s, cat, off, v, id) ==
  /\ v \in Levels /\ ClaimedAt(raz, s, cat, off, v, id)
  /\ \A j \in Levels : ClaimedAt(raz, s, cat, off, j, id) => j <= v

LEMMA PrioritizeGives ==
  ASSUME NEW raz, NEW m, NEW i, NEW id
  PROVE  LET p == Prioritize(raz, m, i)
             claimed == ClaimedAt(raz, style, category, noshow, i, id)
         IN  /\ id \in DOMAIN p <=> id \in DOMAIN m \/ claimed
             /\ claimed => p[id] = i
             /\ ~claimed /\ id \in DOMAIN m => p[id] = m[id]
<1> DEFINE U == UNION {IdsOf(f) : f \in {g \in ListedAt(raz, i) : Claims(g)}}
<1>1. id \in U <=> ClaimedAt(raz, style, category, noshow, i, id)
  BY DEF ClaimedAt, ListedAt, ListedIn, Claims, ClaimsIn
<1>2. Prioritize(raz, m, i) = With(m, [x \in U |-> i]) BY DEF Prioritize
<1> HIDE DEF U
<1> QED BY <1>1, <1>2 DEF With

LEMMA GivenIsTop ==
  ASSUME NEW raz, NEW m0, NEW id,
         \E i \in Levels : ClaimedAt(raz, style, category, noshow, i, id)
  PROVE  /\ id \in DOMAIN Given(raz, m0)
         /\ IsTop(raz, style, category, noshow, Given(raz, m0)[id], id)
<1> DEFINE C(i) == ClaimedAt(raz, style, category, noshow, i, id)
<1> PICK n \in Nat : n = LastLevel + 1 BY LevelSeqShape
<1> PICK q : q = LevelSeq OBVIOUS
<1> PICK r : r = Given(raz, m0) OBVIOUS
<1>0. Folds(Prior(raz), n, m0, q, r) BY PriorFolds
<1> PICK h : AreStates(Prior(raz), h, n, m0, q, r) BY <1>0 DEF Folds
<1>1. /\ h[n] = r
      /\ \A k \in 0..(n - 1) : h[k + 1] = Prioritize(raz, h[k], k)
  BY LevelSeqShape DEF AreStates, Apply, Prior
<1> DEFINE P(k) == (\E i \in 0..(k - 1) : C(i)) =>
                     /\ id \in DOMAIN h[k] /\ h[k][id] \in 0..(k - 1) /\ C(h[k][id])
                     /\ \A j \in 0..(k - 1) : C(j) => j <= h[k][id]
           T == {k \in Nat : k <= n => P(k)}
<1>2. 0 \in T OBVIOUS
<1>3. ASSUME NEW k \in Nat, k \in T PROVE k + 1 \in T
  <2> SUFFICES ASSUME k + 1 <= n, \E i \in 0..k : C(i)
               PROVE  /\ id \in DOMAIN h[k + 1] /\ h[k + 1][id] \in 0..k /\ C(h[k + 1][id])
                      /\ \A j \in 0..k : C(j) => j <= h[k + 1][id]
    OBVIOUS
  <2>1. h[k + 1] = Prioritize(raz, h[k], k) BY <1>1
  <2>2. /\ id \in DOMAIN h[k + 1] <=> id \in DOMAIN h[k] \/ C(k)
        /\ C(k) => h[k + 1][id] = k
        /\ ~C(k) /\ id \in DOMAIN h[k] => h[k + 1][id] = h[k][id]
    BY <2>1, PrioritizeGives
  <2>3. P(k) BY <1>3
  <2> HIDE DEF C
  <2>4. CASE C(k) BY <2>2, <2>4
  <2>5. CASE ~C(k)
    <3>1. \A i \in 0..k : C(i) => i \in 0..(k - 1) BY <2>5
    <3> QED BY <2>2, <2>3, <2>5, <3>1
  <2> QED BY <2>4, <2>5
<1>4. P(n)
  <2> HIDE DEF P
  <2>1. n \in T BY <1>2, <1>3, InductionOn
  <2> QED BY <2>1
<1>5. 0..(n - 1) = Levels BY LineGeometryAssumption DEF Levels
<1> QED BY <1>1, <1>4, <1>5 DEF IsTop

(***************************************************************************)
(* The invariant of the display.                                           *)
(***************************************************************************)
Filed == style \in Styles /\ razRules \in Filings(dpri)

HashKept == stateHash = HashOf(category, noshow, marinerStyle)

\* The priorities are those of the options and lists of the last time.
Prioritized ==
  prioritySet =>
    /\ pc = "built"
    /\ \A f \in Features : \A k \in DOMAIN ls_list[f] :
         (\E i \in Levels : ClaimedAt(razRules, styleSeen, hashSeen[1], hashSeen[2],
                                      i, ls_list[f][k]))
         => IsTop(razRules, styleSeen, hashSeen[1], hashSeen[2], priority[f][k],
                  ls_list[f][k])

DisplayInv == Filed /\ HashKept /\ Prioritized

LEMMA DisplayInit == Init => DisplayInv
<1> SUFFICES ASSUME Init PROVE DisplayInv OBVIOUS
<1>1. style \in Styles /\ razRules = FileFeatures(style)
      /\ dpri = [f \in Features |-> LevelOf(f, style)]
  BY DEF Init, GInit, DInit
<1>2. Filed BY <1>1, FileFeaturesFiles DEF Filed
<1>3. HashKept /\ Prioritized BY DEF Init, DInit, HashKept, Prioritized
<1> QED BY <1>2, <1>3 DEF DisplayInv

\* The geometry is there before anything is drawn.
LEMMA GeometryFirst == GNext => pc # "built" /\ UNCHANGED <<style, razRules>>
  BY DEF GNext, ValidateHashmaps, CountPoints, WalkSegment, FinishObject, Allocate,
         CopyEdge, CopyConnectors, ReleaseHashes

LEMMA SamePriorities ==
  ASSUME Prioritized,
         UNCHANGED <<pc, razRules, ls_list, hashSeen, prioritySet, priority, styleSeen>>
  PROVE  Prioritized'
  BY DEF Prioritized, IsTop, ClaimedAt, IdsOf

LEMMA RenderInv == ASSUME DisplayInv, Render PROVE DisplayInv'
<1>1. /\ UNCHANGED <<style, ls_list, pc, category, noshow, marinerStyle, stateHash, dpri>>
      /\ pc = "built"
  BY DEF Render
<1>2. razRules' = razRules \/ (hashSeen # stateHash /\ razRules' = UpdateLUPs(razRules))
  BY DEF Render
<1>3. Filed'
  <2>1. razRules' \in Filings(dpri) BY <1>2, UpdateFiles DEF DisplayInv, Filed
  <2> QED BY <1>1, <2>1 DEF DisplayInv, Filed
<1>4. HashKept' BY <1>1 DEF DisplayInv, HashKept
<1>5. CASE prioritySet /\ hashSeen = stateHash
  <2>1. UNCHANGED <<razRules, max_priority, priority, styleSeen, hashSeen, prioritySet>>
    BY <1>5 DEF Render, SetLinePriorities
  <2> QED BY <1>1, <1>3, <1>4, <2>1, SamePriorities DEF DisplayInv
<1>6. CASE ~(prioritySet /\ hashSeen = stateHash)
  <2> PICK R : R = razRules' OBVIOUS
  <2>1. /\ max_priority' = Given(R, max_priority) /\ styleSeen' = style
        /\ priority' = [f \in Features |-> [k \in DOMAIN ls_list[f] |->
                          MaxOf(max_priority', ls_list[f][k])]]
    <3>1. SetLinePriorities(razRules', FALSE) BY <1>6 DEF Render
    <3>2. max_priority' = FoldLeft(LAMBDA m, i : Prioritize(razRules', m, i),
                                   max_priority, LevelSeq)
      BY <3>1 DEF SetLinePriorities
    <3>3. max_priority' = Given(razRules', max_priority) BY <3>2 DEF Given
    <3>4. max_priority' = Given(R, max_priority) BY <3>3
    <3> QED BY <3>1, <3>4 DEF SetLinePriorities
  <2>2. hashSeen'[1] = category /\ hashSeen'[2] = noshow
    BY DEF Render, DisplayInv, HashKept, HashOf
  <2>3. ASSUME NEW f \in Features, NEW k \in DOMAIN ls_list[f],
               \E i \in Levels : ClaimedAt(R, style, category, noshow, i, ls_list[f][k])
        PROVE  IsTop(R, style, category, noshow, priority'[f][k], ls_list[f][k])
    <3> PICK id : id = ls_list[f][k] OBVIOUS
    <3>1. /\ id \in DOMAIN Given(R, max_priority)
          /\ IsTop(R, style, category, noshow, Given(R, max_priority)[id], id)
      BY <2>3, GivenIsTop
    <3>2. priority'[f][k] = Given(R, max_priority)[id]
      BY <2>1, <3>1 DEF MaxOf
    <3> QED BY <3>1, <3>2
  <2>4. ASSUME NEW i, NEW id, NEW v
        PROVE  /\ ClaimedAt(razRules, styleSeen, hashSeen[1], hashSeen[2], i, id)'
                    <=> ClaimedAt(R, style, category, noshow, i, id)
               /\ IsTop(razRules, styleSeen, hashSeen[1], hashSeen[2], v, id)'
                    <=> IsTop(R, style, category, noshow, v, id)
    BY <1>1, <2>1, <2>2 DEF IsTop, ClaimedAt, IdsOf
  <2>5. ASSUME NEW f \in Features, NEW k \in DOMAIN ls_list'[f],
               \E i \in Levels : ClaimedAt(razRules, styleSeen, hashSeen[1], hashSeen[2],
                                           i, ls_list[f][k])'
        PROVE  IsTop(razRules, styleSeen, hashSeen[1], hashSeen[2], priority[f][k],
                     ls_list[f][k])'
    <3> PICK id, v : id = ls_list[f][k] /\ v = priority'[f][k] OBVIOUS
    <3>1. id = ls_list'[f][k] /\ k \in DOMAIN ls_list[f] BY <1>1, <2>5
    <3>2. \E i \in Levels : ClaimedAt(R, style, category, noshow, i, id)
      <4>1. PICK i \in Levels : ClaimedAt(razRules, styleSeen, hashSeen[1], hashSeen[2],
                                          i, ls_list[f][k])'
        BY <2>5
      <4>2. ClaimedAt(razRules, styleSeen, hashSeen[1], hashSeen[2], i, id)'
        BY <3>1, <4>1
      <4> QED BY <2>4, <4>2
    <3>3. IsTop(R, style, category, noshow, v, id) BY <2>3, <3>1, <3>2
    <3>4. IsTop(razRules, styleSeen, hashSeen[1], hashSeen[2], v, id)' BY <2>4, <3>3
    <3> QED BY <3>1, <3>4
  <2>6. Prioritized' BY <1>1, <2>5 DEF Prioritized
  <2> QED BY <1>3, <1>4, <2>6 DEF DisplayInv
<1> QED BY <1>5, <1>6

LEMMA DisplayStep == ASSUME DisplayInv, [Next]_vars PROVE DisplayInv'
<1>1. CASE GNext /\ UNCHANGED dvars
  <2>1. pc # "built" /\ UNCHANGED <<style, razRules>> BY <1>1, GeometryFirst
  <2>2. UNCHANGED <<dpri, stateHash, category, noshow, marinerStyle, prioritySet>>
    BY <1>1 DEF dvars
  <2> QED BY <2>1, <2>2 DEF DisplayInv, Filed, HashKept, Prioritized
<1>2. ASSUME NEW cat, NEW off, NEW s \in Styles, NEW bnd, SetOptions(cat, off, s, bnd)
      PROVE  DisplayInv'
  <2>1. /\ UNCHANGED <<pc, razRules, ls_list, hashSeen, prioritySet, priority, styleSeen, dpri>>
        /\ category' = cat /\ noshow' = off /\ style' = s /\ marinerStyle' = bnd
        /\ stateHash' = HashOf(cat, off, bnd)
    BY <1>2 DEF SetOptions
  <2>2. Prioritized' BY <2>1, SamePriorities DEF DisplayInv
  <2> QED BY <2>1, <2>2 DEF DisplayInv, Filed, HashKept
<1>3. ASSUME NEW h, MoveView(h) PROVE DisplayInv'
  <2>1. UNCHANGED <<pc, razRules, ls_list, hashSeen, prioritySet, priority, styleSeen, dpri,
                    category, noshow, style, marinerStyle, stateHash>>
    BY <1>3 DEF MoveView, gvars
  <2>2. Prioritized' BY <2>1, SamePriorities DEF DisplayInv
  <2> QED BY <2>1, <2>2 DEF DisplayInv, Filed, HashKept
<1>4. CASE Render BY <1>4, RenderInv
<1>5. CASE UNCHANGED vars
  <2>1. UNCHANGED <<pc, razRules, ls_list, hashSeen, prioritySet, priority, styleSeen, dpri,
                    category, noshow, style, marinerStyle, stateHash>>
    BY <1>5 DEF vars, gvars, dvars
  <2>2. Prioritized' BY <2>1, SamePriorities DEF DisplayInv
  <2> QED BY <2>1, <2>2 DEF DisplayInv, Filed, HashKept
<1> QED BY <1>1, <1>2, <1>3, <1>4, <1>5 DEF Next

LEMMA DisplayInvariant == Spec => []DisplayInv
<1>1. DisplayInv /\ [Next]_vars => DisplayInv'
  BY DisplayStep
<1> QED BY DisplayInit, <1>1, PTL DEF Spec

\* Where a feature is listed in the style in force.
LEMMA ListedWhere ==
  ASSUME Filed, NEW i \in Levels, NEW f \in ListedAt(razRules, i)
  PROVE  f \in Features /\ (i = dpri[f] \/ i = LevelOf(f, style))
<1> PICK l \in Lists : /\ f \in ToSet(razRules[<<i, l>>])
                       /\ l = 2 \/ (l = 4 /\ style = "symbolized") \/ (l = 3 /\ style = "plain")
  BY DEF ListedAt, Lists, Filed, Styles
<1>1. <<i, l>> \in Cells BY DEF Cells
<1>2. razRules[<<i, l>>] \in Seq(Features) BY <1>1 DEF Filed, Filings
<1>3. PICK k \in DOMAIN razRules[<<i, l>>] : f = razRules[<<i, l>>][k]
  BY DEF ToSet
<1>4. k \in 1..Len(razRules[<<i, l>>]) BY <1>2, LenProperties
<1>5. FiledAs(dpri, f, <<i, l>>) BY <1>1, <1>3, <1>4 DEF Filed, Filings
<1>6. f \in Features BY <1>2, <1>3, <1>4
<1> QED BY <1>5, <1>6 DEF FiledAs, Lists

LEMMA OwnersStep == ASSUME DisplayInv PROVE OwnersDraw
<1> SUFFICES
      ASSUME UpToDate, NEW id,
             {f \in Features : InStyle(f) /\ Claims(f) /\ id \in IdsOf(f)} # {},
             \A f \in Features : InStyle(f) /\ Claims(f) /\ id \in IdsOf(f) =>
               dpri[f] = LevelOf(f, style)
      PROVE  \A f \in Features :
               Draws(f, id) <=>
                 /\ InStyle(f) /\ Claims(f) /\ id \in IdsOf(f) /\ f \notin hidden
                 /\ \A g \in Features : InStyle(g) /\ Claims(g) /\ id \in IdsOf(g) =>
                      LevelOf(g, style) <= LevelOf(f, style)
  BY DEF OwnersDraw
<1> DEFINE User(f) == f \in Features /\ InStyle(f) /\ Claims(f) /\ id \in IdsOf(f)
           C(i) == ClaimedAt(razRules, style, category, noshow, i, id)
<1>1. \A i \in Levels : \A f : f \in ListedIn(razRules, style, i) /\ ClaimsIn(f, category, noshow)
                               /\ id \in IdsOf(f)
                               => User(f) /\ i = LevelOf(f, style)
  <2> SUFFICES ASSUME NEW i \in Levels, NEW f, f \in ListedIn(razRules, style, i),
                      ClaimsIn(f, category, noshow), id \in IdsOf(f)
               PROVE  User(f) /\ i = LevelOf(f, style)
    OBVIOUS
  <2>1. f \in ListedAt(razRules, i) BY DEF ListedAt, ListedIn
  <2>2. f \in Features /\ (i = dpri[f] \/ i = LevelOf(f, style))
    BY <2>1, ListedWhere DEF DisplayInv
  <2>3. User(f) BY <2>1, <2>2 DEF InStyle, Claims, ClaimsIn
  <2> QED BY <2>2, <2>3
<1>2. \A f : User(f) => C(LevelOf(f, style)) /\ LevelOf(f, style) \in Levels
  <2> SUFFICES ASSUME NEW f, User(f) PROVE C(LevelOf(f, style)) /\ LevelOf(f, style) \in Levels
    OBVIOUS
  <2>1. PICK i \in Levels : f \in ListedAt(razRules, i) BY DEF InStyle
  <2>2. f \in ListedIn(razRules, style, i) /\ ClaimsIn(f, category, noshow)
    BY <2>1 DEF ListedAt, ListedIn, Claims, ClaimsIn
  <2>3. i = LevelOf(f, style) BY <1>1, <2>2
  <2> QED BY <2>2, <2>3 DEF ClaimedAt
<1>3. \A i \in Levels : C(i) => \E f : User(f) /\ i = LevelOf(f, style)
  BY <1>1 DEF ClaimedAt
<1>4. \E f : User(f) OBVIOUS
<1>5. styleSeen = style /\ hashSeen[1] = category /\ hashSeen[2] = noshow /\ prioritySet
  BY DEF UpToDate, DisplayInv, HashKept, HashOf
<1>6. \A f \in Features : \A k \in DOMAIN ls_list[f] : ls_list[f][k] = id =>
        IsTop(razRules, style, category, noshow, priority[f][k], id)
  <2>1. \E i \in Levels : C(i) BY <1>2, <1>4
  <2> QED BY <1>5, <2>1 DEF DisplayInv, Prioritized
<1> SUFFICES ASSUME NEW f \in Features
             PROVE  Draws(f, id) <=> User(f) /\ f \notin hidden
                      /\ \A g \in Features : User(g) => LevelOf(g, style) <= LevelOf(f, style)
  OBVIOUS
<1>7. Levels \subseteq Nat BY LineGeometryAssumption DEF Levels
<1>8. ASSUME Draws(f, id)
      PROVE  User(f) /\ f \notin hidden
             /\ \A g \in Features : User(g) => LevelOf(g, style) <= LevelOf(f, style)
  <2>1. PICK k \in DOMAIN ls_list[f] : ls_list[f][k] = id /\ priority[f][k] = dpri[f]
    BY <1>8 DEF Draws
  <2>2. User(f) /\ f \notin hidden BY <1>8, <2>1 DEF Draws, Visible, IdsOf, ToSet
  <2>3. priority[f][k] = LevelOf(f, style) BY <2>1, <2>2
  <2>4. \A j \in Levels : C(j) => j <= LevelOf(f, style) BY <1>6, <2>1, <2>3 DEF IsTop
  <2> QED BY <1>2, <2>2, <2>4
<1>9. ASSUME User(f), f \notin hidden,
             \A g \in Features : User(g) => LevelOf(g, style) <= LevelOf(f, style)
      PROVE  Draws(f, id)
  <2>1. PICK k \in DOMAIN ls_list[f] : ls_list[f][k] = id BY <1>9 DEF IdsOf, ToSet
  <2> PICK v, w : v = priority[f][k] /\ w = LevelOf(f, style) OBVIOUS
  <2>2. v \in Levels /\ C(v) /\ \A j \in Levels : C(j) => j <= v
    BY <1>6, <2>1 DEF IsTop
  <2>3. PICK g : User(g) /\ v = LevelOf(g, style) BY <1>3, <2>2
  <2>4. v <= w BY <1>9, <2>3
  <2>5. w <= v /\ w \in Levels BY <1>2, <1>9, <2>2
  <2>6. v = w BY <1>7, <2>2, <2>4, <2>5
  <2>7. priority[f][k] = dpri[f] BY <1>9, <2>6
  <2> QED BY <1>9, <2>1, <2>7 DEF Draws, Visible
<1> QED BY <1>8, <1>9

\* OwnersDraw (SetLinePriorities and RenderGLLS): when the chart has seen the
\* options in force, an edge or connector is drawn by exactly those of the
\* features that claim it which have the highest priority, if they are in
\* view; for any features, priorities and options, and whatever was shown
\* before.  Features whose priority at load is not the one they have now are
\* excepted, as in the property.
THEOREM HighestDraws == Spec => []OwnersDraw
<1>1. DisplayInv => OwnersDraw
  BY OwnersStep
<1> QED BY DisplayInvariant, <1>1, PTL

(***************************************************************************)
(* How often an area is listed.                                            *)
(***************************************************************************)
OnceIn(q, n, f) == \E k \in 1..n : \A j \in 1..n : q[j] = f <=> j = k
Once(q, f) == OnceIn(q, Len(q), f)
Never(q, f) == \A j \in 1..Len(q) : q[j] # f
CellOf(f, s) == <<LevelOf(f, s), ListOf(f, s)>>

LEMMA AppendOnce ==
  ASSUME NEW q \in Seq(Features), NEW f \in Features, NEW g \in Features
  PROVE  /\ Never(q, f) /\ g = f => Once(Append(q, g), f)
         /\ Never(q, f) /\ g # f => Never(Append(q, g), f)
         /\ Once(q, f) /\ g # f => Once(Append(q, g), f)
<1> PICK n \in Nat : n = Len(q) BY LenProperties
<1> PICK r : r = Append(q, g) OBVIOUS
<1>1. /\ Len(r) = n + 1 /\ r[n + 1] = g
      /\ \A k \in 1..n : r[k] = q[k]
  BY AppendProperties
<1>2. \A j \in 1..(n + 1) : j \in 1..n \/ j = n + 1 OBVIOUS
<1>3. n + 1 \in 1..(n + 1) OBVIOUS
<1>4. ASSUME Never(q, f), g = f PROVE Once(r, f)
  <2>1. \A j \in 1..(n + 1) : r[j] = f <=> j = n + 1
    BY <1>1, <1>2, <1>4 DEF Never
  <2>2. OnceIn(r, n + 1, f) BY <1>3, <2>1 DEF OnceIn
  <2> QED BY <1>1, <2>2 DEF Once
<1>5. ASSUME Never(q, f), g # f PROVE Never(r, f)
  BY <1>1, <1>2, <1>5 DEF Never
<1>6. ASSUME Once(q, f), g # f PROVE Once(r, f)
  <2>1. PICK k \in 1..n : \A j \in 1..n : q[j] = f <=> j = k BY <1>6 DEF Once, OnceIn
  <2>2. k \in 1..(n + 1) /\ k # n + 1 OBVIOUS
  <2>3. \A j \in 1..(n + 1) : r[j] = f <=> j = k
    BY <1>1, <1>2, <1>6, <2>1, <2>2
  <2>4. OnceIn(r, n + 1, f) BY <2>2, <2>3 DEF OnceIn
  <2> QED BY <1>1, <2>4 DEF Once
<1> QED BY <1>4, <1>5, <1>6

Razzes == [Cells -> Seq(Features)]

LEMMA InsertGives ==
  ASSUME NEW raz \in Razzes, NEW s \in Styles, NEW f \in Features
  PROVE  /\ InsertRules(raz, f, s) \in Razzes
         /\ InsertRules(raz, f, s)[CellOf(f, s)] = Append(raz[CellOf(f, s)], f)
         /\ \A c \in Cells : c # CellOf(f, s) => InsertRules(raz, f, s)[c] = raz[c]
<1> PICK d : d = CellOf(f, s) OBVIOUS
<1>1. d \in Cells BY LevelsOf DEF CellOf
<1>2. InsertRules(raz, f, s) = [raz EXCEPT ![d] = Append(raz[d], f)]
  BY DEF InsertRules, CellOf
<1>3. raz \in [Cells -> Seq(Features)] BY DEF Razzes
<1>4. Append(raz[d], f) \in Seq(Features) BY <1>1, <1>3
<1>5. [raz EXCEPT ![d] = Append(raz[d], f)] \in Razzes BY <1>1, <1>3, <1>4 DEF Razzes
<1> QED BY <1>1, <1>2, <1>3, <1>5

LEMMA InsertOnce ==
  ASSUME NEW raz \in Razzes, NEW s \in Styles, NEW f \in Features, NEW g \in Features
  PROVE  LET u == raz[CellOf(f, s)]
             v == InsertRules(raz, g, s)[CellOf(f, s)]
         IN  /\ Never(u, f) /\ g = f => Once(v, f)
             /\ Never(u, f) /\ g # f => Never(v, f)
             /\ Once(u, f) /\ g # f => Once(v, f)
<1> PICK c \in Cells : c = CellOf(f, s) BY LevelsOf DEF CellOf
<1> PICK u, v : u = raz[c] /\ v = InsertRules(raz, g, s)[c] OBVIOUS
<1>1. u \in Seq(Features) BY DEF Razzes
<1>2. v = Append(u, g) \/ (v = u /\ g # f)
  <2>1. CASE CellOf(g, s) = c BY <2>1, InsertGives
  <2>2. CASE CellOf(g, s) # c BY <2>2, InsertGives
  <2> QED BY <2>1, <2>2
<1> QED BY <1>1, <1>2, AppendOnce

\* What is inserted goes to its cell and leaves the others alone.
LEMMA InsertedGives ==
  ASSUME NEW raz \in Razzes, NEW s \in Styles, NEW q \in Seq(Features)
  PROVE  /\ \A c \in Cells : (\A j \in 1..Len(q) : CellOf(q[j], s) # c)
                                => Inserted(s, raz, q)[c] = raz[c]
         /\ \A f \in Features : Once(q, f) /\ Never(raz[CellOf(f, s)], f)
                                  => Once(Inserted(s, raz, q)[CellOf(f, s)], f)
<1> PICK n \in Nat : n = Len(q) /\ DOMAIN q = 1..n BY LenProperties
<1> PICK r : r = Inserted(s, raz, q) OBVIOUS
<1>0. Folds(Insert(s), n, raz, q, r) BY InsertFolds
<1> PICK h : AreStates(Insert(s), h, n, raz, q, r) BY <1>0 DEF Folds
<1>1. /\ h[0] = raz /\ h[n] = r
      /\ \A k \in 0..(n - 1) : h[k + 1] = InsertRules(h[k], q[k + 1], s)
  BY DEF AreStates, Apply, Insert
<1>2. \A k \in 1..n : q[k] \in Features OBVIOUS
<1>3. \A k \in 0..n : h[k] \in Razzes
  <2> DEFINE T == {k \in Nat : k <= n => h[k] \in Razzes}
  <2>1. 0 \in T BY <1>1
  <2>2. ASSUME NEW k \in Nat, k \in T PROVE k + 1 \in T
    <3> SUFFICES ASSUME k + 1 <= n PROVE h[k + 1] \in Razzes OBVIOUS
    <3>1. /\ h[k] \in Razzes /\ k \in 0..(n - 1) /\ k + 1 \in 1..n
      BY <2>2
    <3> PICK a, b : a = h[k] /\ b = h[k + 1] OBVIOUS
    <3> PICK g \in Features : g = q[k + 1] BY <1>2, <3>1
    <3>2. b = InsertRules(a, g, s) /\ a \in Razzes BY <1>1, <3>1
    <3> QED BY <3>2, InsertGives
  <2>3. Nat \subseteq T BY <2>1, <2>2, InductionOn
  <2> QED BY <2>3
<1>4. ASSUME NEW c \in Cells, \A j \in 1..n : CellOf(q[j], s) # c PROVE r[c] = raz[c]
  <2> DEFINE T == {k \in Nat : k <= n => h[k][c] = raz[c]}
  <2>1. 0 \in T BY <1>1
  <2>2. ASSUME NEW k \in Nat, k \in T PROVE k + 1 \in T
    <3> SUFFICES ASSUME k + 1 <= n PROVE h[k + 1][c] = raz[c] OBVIOUS
    <3>1. h[k][c] = raz[c] /\ k \in 0..(n - 1) /\ k \in 0..n /\ k + 1 \in 1..n BY <2>2
    <3> PICK a, b : a = h[k] /\ b = h[k + 1] OBVIOUS
    <3> PICK g \in Features : g = q[k + 1] BY <1>2, <3>1
    <3>2. b = InsertRules(a, g, s) /\ a \in Razzes /\ CellOf(g, s) # c
      BY <1>1, <1>3, <1>4, <3>1
    <3>3. b[c] = a[c] BY <3>2, InsertGives
    <3> QED BY <3>1, <3>3
  <2>3. n \in T BY <2>1, <2>2, InductionOn
  <2> QED BY <1>1, <2>3
<1>5. ASSUME NEW f \in Features, Once(q, f), Never(raz[CellOf(f, s)], f)
      PROVE  Once(r[CellOf(f, s)], f)
  <2> PICK c \in Cells : c = CellOf(f, s) BY LevelsOf DEF CellOf
  <2>0. PICK m \in 1..n : \A j \in 1..n : q[j] = f <=> j = m BY <1>5 DEF Once, OnceIn
  <2> DEFINE P(k) == IF k < m THEN Never(h[k][c], f) ELSE Once(h[k][c], f)
             T == {k \in Nat : k <= n => P(k)}
  <2>1. 0 \in T BY <1>1, <1>5
  <2>2. ASSUME NEW k \in Nat, k \in T PROVE k + 1 \in T
    <3> SUFFICES ASSUME k + 1 <= n PROVE P(k + 1) OBVIOUS
    <3>1. P(k) /\ k \in 0..(n - 1) /\ k \in 0..n /\ k + 1 \in 1..n BY <2>2
    <3> PICK g \in Features : g = q[k + 1] BY <1>2, <3>1
    <3>2. g = f <=> k + 1 = m BY <2>0, <3>1
    <3> PICK a, b : a = h[k] /\ b = h[k + 1] OBVIOUS
    <3>3. b = InsertRules(a, g, s) /\ a \in Razzes
      BY <1>1, <1>3, <3>1
    <3> PICK u, v : u = a[c] /\ v = b[c] OBVIOUS
    <3>4. /\ Never(u, f) /\ g = f => Once(v, f)
          /\ Never(u, f) /\ g # f => Never(v, f)
          /\ Once(u, f) /\ g # f => Once(v, f)
      BY <3>3, InsertOnce
    <3>7. CASE k + 1 = m BY <3>1, <3>2, <3>4, <3>7
    <3>8. CASE k + 1 < m BY <3>1, <3>2, <3>4, <3>8
    <3>9. CASE k + 1 > m BY <3>1, <3>2, <3>4, <3>9
    <3> QED BY <3>7, <3>8, <3>9
  <2> HIDE DEF P
  <2>3. n \in T BY <2>1, <2>2, InductionOn
  <2>4. P(n) BY <2>3
  <2> QED BY <1>1, <2>0, <2>4 DEF P
<1> QED BY <1>4, <1>5

(***************************************************************************)
(* At a priority that no area moves to or from, the areas are in both      *)
(* lists, or, before the first update, in one and the other is bare.       *)
(***************************************************************************)
AreasAt(i) == {f \in Features : Lup[f].type # "line" /\ \E s \in Styles : LevelOf(f, s) = i}
LinesAt(i) == {f \in Features : Lup[f].type = "line" /\ \E s \in Styles : LevelOf(f, s) = i}

AllOnce(raz, i, l) == \A f \in AreasAt(i) : Once(raz[<<i, l>>], f)
Both(raz, i) == AllOnce(raz, i, 3) /\ AllOnce(raz, i, 4)
Only(raz, i, l) == AllOnce(raz, i, l) /\ raz[<<i, 7 - l>>] = <<>>
LinesOnce(raz, i) == \A f \in LinesAt(i) : Once(raz[<<i, 2>>], f)

StyleOf(l) == IF l = 3 THEN "plain" ELSE "symbolized"

LEMMA OnceIsThere ==
  ASSUME NEW f PROVE ~Once(<<>>, f) /\ Never(<<>>, f)
  BY DEF Once, OnceIn, Never

LEMMA AreasInList ==
  ASSUME NEW d, NEW raz \in Filings(d), NEW i \in Levels, NEW l \in {3, 4},
         raz[<<i, l>>] # <<>>
  PROVE  AreasAt(i) # {}
<1>1. <<i, l>> \in Cells BY DEF Cells, Lists
<1>2. raz[<<i, l>>] \in Seq(Features) BY <1>1 DEF Filings
<1>3. 1 \in 1..Len(raz[<<i, l>>]) BY <1>2
<1>4. FiledAs(d, raz[<<i, l>>][1], <<i, l>>) /\ raz[<<i, l>>][1] \in Features
  BY <1>1, <1>2, <1>3 DEF Filings
<1> QED BY <1>4 DEF FiledAs, AreasAt, Styles

\* Filing at one priority, as another one sees it, and as it sees itself.
LEMMA FileOtherGives ==
  ASSUME NEW d, NEW raz \in Filings(d), NEW j \in Levels, NEW from \in {3, 4},
         NEW i \in Levels, Undisturbed(i)
  PROVE  LET r == FileOther(raz, from, 7 - from, StyleOf(7 - from), j)
         IN  /\ r[<<i, 2>>] = raz[<<i, 2>>]
             /\ j # i => r[<<i, 3>>] = raz[<<i, 3>>] /\ r[<<i, 4>>] = raz[<<i, 4>>]
             /\ j = i /\ Both(raz, i) => Both(r, i)
             /\ j = i /\ Only(raz, i, from) => Both(r, i)
             /\ j = i /\ Only(raz, i, 7 - from) => Only(r, i, 7 - from)
<1> DEFINE to == 7 - from
           s == StyleOf(7 - from)
           r == FileOther(raz, from, to, s, j)
           q == raz[<<j, from>>]
<1>0. /\ to \in {3, 4} /\ s \in Styles /\ from # to
      /\ <<j, from>> \in Cells /\ <<i, 2>> \in Cells /\ <<i, 3>> \in Cells /\ <<i, 4>> \in Cells
  BY DEF StyleOf, Styles, Cells, Lists
<1>1. raz \in Razzes /\ raz \in [Cells -> Seq(Features)] /\ q \in Seq(Features)
  BY <1>0 DEF Filings, Razzes
<1>2. ASSUME NEW k \in 1..Len(q)
      PROVE  /\ q[k] \in Features /\ Lup[q[k]].type # "line"
             /\ LevelOf(q[k], StyleOf(from)) = j
  <2> PICK c \in Cells : c = <<j, from>> BY <1>0
  <2>1. FiledAs(d, raz[c][k], c) BY <1>2 DEF Filings
  <2>2. c[1] = j /\ c[2] = from OBVIOUS
  <2>3. FiledAs(d, q[k], c) BY <2>1
  <2>4. q[k] \in Features BY <1>1
  <2> QED BY <2>2, <2>3, <2>4 DEF FiledAs, StyleOf
<1>3. \A k \in 1..Len(q) : CellOf(q[k], s) = <<LevelOf(q[k], s), to>>
  BY <1>2 DEF CellOf, ListOf, StyleOf
<1>4. r = raz \/ (r = Inserted(s, raz, q) /\ q # <<>> /\ raz[<<j, to>>] = <<>>)
  BY DEF FileOther, Inserted
<1>5. raz[<<j, to>>] # <<>> \/ q = <<>> => r = raz
  BY DEF FileOther
<1> HIDE DEF r, q, to, s
<1>6. \A l \in {2, from} : r[<<i, l>>] = raz[<<i, l>>]
  <2> SUFFICES ASSUME NEW l \in {2, from} PROVE r[<<i, l>>] = raz[<<i, l>>] OBVIOUS
  <2>1. \A k \in 1..Len(q) : CellOf(q[k], s) # <<i, l>> BY <1>0, <1>3
  <2> PICK c \in Cells : c = <<i, l>> BY <1>0
  <2>2. Inserted(s, raz, q)[c] = raz[c] BY <1>0, <1>1, <2>1, InsertedGives
  <2> QED BY <1>4, <2>2
<1>7. ASSUME j # i PROVE r[<<i, to>>] = raz[<<i, to>>]
  <2>1. ASSUME NEW k \in 1..Len(q) PROVE CellOf(q[k], s) # <<i, to>>
    <3>1. LevelOf(q[k], s) = i => LevelOf(q[k], "plain") = LevelOf(q[k], "symbolized")
      BY <1>0, <1>2 DEF Undisturbed, Steady
    <3>2. LevelOf(q[k], s) = i => LevelOf(q[k], StyleOf(from)) = i
      BY <1>0, <3>1 DEF StyleOf, Styles
    <3> QED BY <1>2, <1>3, <1>7, <3>2
  <2> PICK c \in Cells : c = <<i, to>> BY <1>0
  <2>2. Inserted(s, raz, q)[c] = raz[c] BY <1>0, <1>1, <2>1, InsertedGives
  <2> QED BY <1>4, <2>2
<1>8. ASSUME j = i, Both(raz, i) PROVE Both(r, i)
  <2>1. CASE q = <<>> BY <1>5, <1>8, <2>1
  <2>2. CASE q # <<>>
    <3>1. AreasAt(i) # {} BY <1>8, <2>2, AreasInList DEF q
    <3>2. raz[<<i, to>>] # <<>>
      BY <1>0, <1>8, <3>1, OnceIsThere DEF Both, AllOnce
    <3> QED BY <1>5, <1>8, <3>2
  <2> QED BY <2>1, <2>2
<1>9. ASSUME j = i, Only(raz, i, from) PROVE Both(r, i)
  <2>1. CASE q = <<>>
    <3>1. AreasAt(i) = {} BY <1>9, <2>1, OnceIsThere DEF Only, AllOnce, q
    <3> QED BY <3>1 DEF Both, AllOnce
  <2>2. CASE q # <<>>
    <3>1. raz[<<i, to>>] = <<>> BY <1>9 DEF Only, to
    <3>2. r = Inserted(s, raz, q)
      BY <1>9, <2>2, <3>1 DEF r, q, FileOther, Inserted
    <3>3. ASSUME NEW f \in AreasAt(i) PROVE Once(r[<<i, to>>], f)
      <4>1. Once(q, f) /\ f \in Features BY <1>9, <3>3 DEF Only, AllOnce, q, AreasAt
      <4>2. LevelOf(f, s) = i
        BY <1>0, <3>3 DEF Undisturbed, Steady, AreasAt, Styles
      <4>3. CellOf(f, s) = <<i, to>>
        BY <3>3, <4>2 DEF CellOf, ListOf, AreasAt, s, to, StyleOf
      <4>4. Never(raz[CellOf(f, s)], f) BY <3>1, <4>3, OnceIsThere
      <4>5. Once(Inserted(s, raz, q)[CellOf(f, s)], f)
        BY <1>0, <1>1, <4>1, <4>4, InsertedGives
      <4> QED BY <3>2, <4>3, <4>5
    <3>4. AllOnce(r, i, from) BY <1>6, <1>9 DEF Only, AllOnce
    <3>5. AllOnce(r, i, to) BY <3>3 DEF AllOnce
    <3> QED BY <1>0, <3>4, <3>5 DEF Both
  <2> QED BY <2>1, <2>2
<1>10. ASSUME j = i, Only(raz, i, to) PROVE Only(r, i, to)
  <2>1. 7 - to = from BY DEF to
  <2>2. q = <<>> BY <1>10, <2>1 DEF Only, q
  <2> QED BY <1>5, <1>10, <2>2
<1>11. /\ r[<<i, 2>>] = raz[<<i, 2>>]
       /\ j # i => r[<<i, 3>>] = raz[<<i, 3>>] /\ r[<<i, 4>>] = raz[<<i, 4>>]
  BY <1>0, <1>6, <1>7
<1> QED BY <1>8, <1>9, <1>10, <1>11 DEF r, to, s

Shape(raz, i) == Both(raz, i) \/ Only(raz, i, 3) \/ Only(raz, i, 4)

\* One priority in UpdateLUPs.
LEMMA LevelGives ==
  ASSUME NEW d, NEW raz \in Filings(d), NEW j \in Levels, NEW i \in Levels, Undisturbed(i)
  PROVE  LET r == Apply(Update, raz, j)
         IN  /\ r \in Filings(d)
             /\ r[<<i, 2>>] = raz[<<i, 2>>]
             /\ Shape(raz, i) => Shape(r, i)
             /\ Both(raz, i) \/ (j = i /\ Shape(raz, i)) => Both(r, i)
<1> PICK a : a = FileOther(raz, 3, 4, "symbolized", j) OBVIOUS
<1> PICK r : r = FileOther(a, 4, 3, "plain", j) OBVIOUS
<1>1. a \in Filings(d) BY FileOtherFiles DEF Styles
<1>2. r \in Filings(d) BY <1>1, FileOtherFiles DEF Styles
<1>3. 7 - 3 = 4 /\ 7 - 4 = 3 /\ StyleOf(4) = "symbolized" /\ StyleOf(3) = "plain"
  BY DEF StyleOf
<1>4. /\ a[<<i, 2>>] = raz[<<i, 2>>]
      /\ j # i => a[<<i, 3>>] = raz[<<i, 3>>] /\ a[<<i, 4>>] = raz[<<i, 4>>]
      /\ j = i /\ Both(raz, i) => Both(a, i)
      /\ j = i /\ Only(raz, i, 3) => Both(a, i)
      /\ j = i /\ Only(raz, i, 4) => Only(a, i, 4)
  <2> PICK from \in {3, 4} : from = 3 OBVIOUS
  <2>1. a = FileOther(raz, from, 7 - from, StyleOf(7 - from), j) BY <1>3
  <2>2. 7 - from = 4 OBVIOUS
  <2> QED BY <2>1, <2>2, FileOtherGives
<1>5. /\ r[<<i, 2>>] = a[<<i, 2>>]
      /\ j # i => r[<<i, 3>>] = a[<<i, 3>>] /\ r[<<i, 4>>] = a[<<i, 4>>]
      /\ j = i /\ Both(a, i) => Both(r, i)
      /\ j = i /\ Only(a, i, 4) => Both(r, i)
  <2> PICK from \in {3, 4} : from = 4 OBVIOUS
  <2>1. r = FileOther(a, from, 7 - from, StyleOf(7 - from), j) BY <1>3
  <2> QED BY <1>1, <2>1, FileOtherGives
<1>6. Apply(Update, raz, j) = r BY DEF Apply, Update
<1>7. r[<<i, 2>>] = raz[<<i, 2>>] BY <1>4, <1>5
<1>8. CASE j = i BY <1>2, <1>4, <1>5, <1>6, <1>7, <1>8 DEF Shape
<1>9. CASE j # i
  <2>1. r[<<i, 3>>] = raz[<<i, 3>>] /\ r[<<i, 4>>] = raz[<<i, 4>>] BY <1>4, <1>5, <1>9
  <2>2. \A l \in {3, 4} : AllOnce(r, i, l) <=> AllOnce(raz, i, l) BY <2>1 DEF AllOnce
  <2>3. \A l \in {3, 4} : Only(r, i, l) <=> Only(raz, i, l) BY <1>3, <2>1, <2>2 DEF Only
  <2>4. Both(r, i) <=> Both(raz, i) BY <2>2 DEF Both
  <2> QED BY <1>2, <1>6, <1>7, <1>9, <2>3, <2>4 DEF Shape
<1> QED BY <1>8, <1>9

LEMMA UpdateGives ==
  ASSUME NEW d, NEW raz \in Filings(d), NEW i \in Levels, Undisturbed(i), Shape(raz, i)
  PROVE  UpdateLUPs(raz)[<<i, 2>>] = raz[<<i, 2>>] /\ Both(UpdateLUPs(raz), i)
<1> PICK n \in Nat : n = LastLevel + 1 BY LevelSeqShape
<1> PICK r : r = UpdateLUPs(raz) OBVIOUS
<1> PICK q : q = LevelSeq OBVIOUS
<1>0. i \in Nat /\ i < n BY LineGeometryAssumption DEF Levels
<1>1. Folds(Update, n, raz, q, r) BY UpdateFolds
<1> PICK h : AreStates(Update, h, n, raz, q, r) BY <1>1 DEF Folds
<1>2. /\ h[0] = raz /\ h[n] = r
      /\ \A k \in 0..(n - 1) : h[k + 1] = Apply(Update, h[k], q[k + 1])
  BY DEF AreStates
<1>3. \A k \in 0..(n - 1) : q[k + 1] = k /\ k \in Levels
  <2> SUFFICES ASSUME NEW k \in 0..(n - 1) PROVE q[k + 1] = k /\ k \in Levels OBVIOUS
  <2>1. k + 1 \in 1..n /\ (k + 1) - 1 = k OBVIOUS
  <2> QED BY <2>1, LevelSeqShape
<1> DEFINE P(k) == /\ h[k] \in Filings(d)
                   /\ h[k][<<i, 2>>] = raz[<<i, 2>>]
                   /\ Shape(h[k], i)
                   /\ k > i => Both(h[k], i)
           T == {k \in Nat : k <= n => P(k)}
<1>4. 0 \in T BY <1>0, <1>2
<1>5. ASSUME NEW k \in Nat, k \in T PROVE k + 1 \in T
  <2> SUFFICES ASSUME k + 1 <= n PROVE P(k + 1) OBVIOUS
  <2>1. P(k) /\ k \in 0..(n - 1) BY <1>5
  <2>2. k \in Levels /\ h[k + 1] = Apply(Update, h[k], k) BY <1>2, <1>3, <2>1
  <2> PICK a, b : a = h[k] /\ b = h[k + 1] OBVIOUS
  <2>3. b = Apply(Update, a, k) /\ a \in Filings(d) /\ Shape(a, i) /\ (k > i => Both(a, i))
        /\ a[<<i, 2>>] = raz[<<i, 2>>]
    BY <2>1, <2>2
  <2>4. /\ b \in Filings(d) /\ b[<<i, 2>>] = a[<<i, 2>>]
        /\ Shape(b, i)
        /\ Both(a, i) \/ k = i => Both(b, i)
    BY <2>2, <2>3, LevelGives
  <2>5. k + 1 > i => k > i \/ k = i BY <1>0
  <2> QED BY <2>3, <2>4, <2>5
<1> HIDE DEF P
<1>6. n \in T BY <1>4, <1>5, InductionOn
<1>7. P(n) BY <1>6
<1> QED BY <1>0, <1>2, <1>7 DEF P

\* Every feature is once in the file, and so once in a list.
\* A feature is filed once, in the list its entry gives.
LEMMA FeaturesFiled ==
  ASSUME NEW s \in Styles, NEW f \in Features
  PROVE  Once(FileFeatures(s)[CellOf(f, s)], f)
<1> PICK e : e = [c \in Levels \X Lists |-> <<>>] OBVIOUS
<1> PICK q \in Seq(Features) : q = FileOrder BY LineGeometryAssumption
<1> PICK r : r = FileFeatures(s) OBVIOUS
<1>1. r = Inserted(s, e, q) BY DEF FileFeatures, Inserted
<1>2. e \in Razzes /\ \A c \in Cells : e[c] = <<>> BY DEF Razzes, Cells
<1>3. Once(q, f)
  <2>1. PICK k \in DOMAIN q : q[k] = f BY LineGeometryAssumption DEF ToSet
  <2> PICK m : m = Len(q) OBVIOUS
  <2>2. DOMAIN q = 1..m BY LenProperties
  <2>3. \A j \in 1..m : q[j] = f <=> j = k BY <2>1, <2>2, LineGeometryAssumption
  <2>4. OnceIn(q, m, f) BY <2>1, <2>2, <2>3 DEF OnceIn
  <2> QED BY <2>4 DEF Once
<1>4. CellOf(f, s) \in Cells BY LevelsOf DEF CellOf
<1>5. Never(e[CellOf(f, s)], f) BY <1>2, <1>4, OnceIsThere
<1> QED BY <1>1, <1>2, <1>3, <1>5, InsertedGives

LEMMA FiledOnce ==
  ASSUME NEW s \in Styles, NEW i \in Levels, Undisturbed(i)
  PROVE  LinesOnce(FileFeatures(s), i) /\ Shape(FileFeatures(s), i)
<1> PICK e : e = [c \in Levels \X Lists |-> <<>>] OBVIOUS
<1> PICK q \in Seq(Features) : q = FileOrder BY LineGeometryAssumption
<1> PICK r : r = FileFeatures(s) OBVIOUS
<1>1. r = Inserted(s, e, q) BY DEF FileFeatures, Inserted
<1>2. e \in Razzes /\ \A c \in Cells : e[c] = <<>> BY DEF Razzes, Cells
<1>3. \A f \in Features : Once(r[CellOf(f, s)], f) BY FeaturesFiled
<1>4. ASSUME NEW f \in AreasAt(i) \cup LinesAt(i) PROVE LevelOf(f, s) = i /\ f \in Features
  BY DEF AreasAt, LinesAt, Undisturbed, Steady, Styles
<1>5. LinesOnce(r, i)
  <2> SUFFICES ASSUME NEW f \in LinesAt(i) PROVE Once(r[<<i, 2>>], f) BY DEF LinesOnce
  <2>1. CellOf(f, s) = <<i, 2>> BY <1>4 DEF CellOf, ListOf, LinesAt
  <2> QED BY <1>3, <1>4, <2>1
<1> PICK l \in {3, 4} : l = IF s = "plain" THEN 3 ELSE 4 OBVIOUS
<1>6. AllOnce(r, i, l)
  <2> SUFFICES ASSUME NEW f \in AreasAt(i) PROVE Once(r[<<i, l>>], f) BY DEF AllOnce
  <2>1. CellOf(f, s) = <<i, l>> BY <1>4 DEF CellOf, ListOf, AreasAt
  <2> QED BY <1>3, <1>4, <2>1
<1>7. r[<<i, 7 - l>>] = <<>>
  <2> PICK m \in {3, 4} : m = 7 - l /\ m # l OBVIOUS
  <2> PICK c \in Cells : c = <<i, m>> BY DEF Cells, Lists
  <2>1. \A k \in 1..Len(q) : CellOf(q[k], s) # c BY DEF CellOf, ListOf
  <2>2. Inserted(s, e, q)[c] = e[c] BY <1>2, <2>1, InsertedGives
  <2> QED BY <1>1, <1>2, <2>2
<1>8. Only(r, i, l) BY <1>6, <1>7 DEF Only
<1> QED BY <1>5, <1>8 DEF Shape

(***************************************************************************)
(* The second invariant, beside DisplayInv.                                *)
(***************************************************************************)
ListsKept(raz, seen) ==
  \A i \in Levels : Undisturbed(i) =>
    LinesOnce(raz, i) /\ Shape(raz, i) /\ (seen => Both(raz, i))
ListedInv == ListsKept(razRules, hashSeen # <<>>)

LEMMA ListedInit == Init => ListedInv
<1> SUFFICES ASSUME Init PROVE ListedInv OBVIOUS
<1>1. style \in Styles /\ razRules = FileFeatures(style) /\ hashSeen = <<>>
  BY DEF Init, GInit, DInit
<1> QED BY <1>1, FiledOnce DEF ListedInv, ListsKept

LEMMA UpdateKeepsLists ==
  ASSUME NEW d, NEW raz \in Filings(d), NEW seen, ListsKept(raz, seen)
  PROVE  ListsKept(UpdateLUPs(raz), TRUE)
<1> SUFFICES ASSUME NEW i \in Levels, Undisturbed(i)
             PROVE  LinesOnce(UpdateLUPs(raz), i) /\ Both(UpdateLUPs(raz), i)
  BY DEF ListsKept, Shape
<1>1. LinesOnce(raz, i) /\ Shape(raz, i) BY DEF ListsKept
<1>2. UpdateLUPs(raz)[<<i, 2>>] = raz[<<i, 2>>] /\ Both(UpdateLUPs(raz), i)
  BY <1>1, UpdateGives
<1> QED BY <1>1, <1>2 DEF LinesOnce

LEMMA ListedStep == ASSUME DisplayInv, ListedInv, [Next]_vars PROVE ListedInv'
<1>1. CASE UNCHANGED <<razRules, hashSeen>>
  BY <1>1 DEF ListedInv, ListsKept, LinesOnce, Shape, Both, Only, AllOnce
<1>2. CASE Render
  <2>1. hashSeen' = stateHash /\ stateHash # <<>>
    BY <1>2 DEF Render, DisplayInv, HashKept, HashOf
  <2> PICK R, x : R = razRules' /\ x = razRules OBVIOUS
  <2>2. R = IF hashSeen # stateHash THEN UpdateLUPs(x) ELSE x BY <1>2 DEF Render
  <2>3. x \in Filings(dpri) /\ ListsKept(x, hashSeen # <<>>)
    BY DEF DisplayInv, Filed, ListedInv
  <2>4. ListsKept(R, TRUE)
    <3>1. CASE hashSeen = stateHash BY <2>1, <2>2, <2>3, <3>1 DEF ListsKept
    <3>2. CASE hashSeen # stateHash
      <4> PICK d, seen : d = dpri /\ seen = (hashSeen # <<>>) OBVIOUS
      <4> QED BY <2>2, <2>3, <3>2, UpdateKeepsLists
    <3> QED BY <3>1, <3>2
  <2> QED BY <2>1, <2>4 DEF ListedInv
<1>3. [GNext /\ UNCHANGED dvars]_vars => UNCHANGED <<razRules, hashSeen>>
  BY GeometryFirst DEF vars, gvars, dvars
<1>4. ASSUME NEW cat, NEW off, NEW s, NEW bnd, SetOptions(cat, off, s, bnd)
      PROVE  UNCHANGED <<razRules, hashSeen>>
  BY <1>4 DEF SetOptions
<1>5. ASSUME NEW h, MoveView(h) PROVE UNCHANGED <<razRules, hashSeen>>
  BY <1>5 DEF MoveView, gvars
<1> QED BY <1>1, <1>2, <1>3, <1>4, <1>5 DEF Next

LEMMA OnceIsOne ==
  ASSUME NEW q \in Seq(Features), NEW f, Once(q, f)
  PROVE  Cardinality({k \in DOMAIN q : q[k] = f}) = 1
<1>1. DOMAIN q = 1..Len(q) BY LenProperties
<1>2. PICK k \in 1..Len(q) : \A j \in 1..Len(q) : q[j] = f <=> j = k BY DEF Once, OnceIn
<1>3. {j \in DOMAIN q : q[j] = f} = {k} BY <1>1, <1>2
<1> QED BY <1>3, FS_Singleton

LEMMA ListedGives == ASSUME DisplayInv, ListedInv PROVE ListedOnce
<1> SUFFICES ASSUME hashSeen # <<>>, NEW f \in Features, NEW s \in Styles,
                    Steady(f), Undisturbed(LevelOf(f, s))
             PROVE  Times(f, <<LevelOf(f, s), ListOf(f, s)>>) = 1
  BY DEF ListedOnce
<1> PICK i \in Levels : i = LevelOf(f, s) BY LevelsOf
<1> PICK l \in Lists : l = ListOf(f, s) BY LevelsOf
<1>1. LinesOnce(razRules, i) /\ Both(razRules, i) BY DEF ListedInv, ListsKept
<1>2. IF l = 2 THEN f \in LinesAt(i) ELSE f \in AreasAt(i) /\ l \in {3, 4}
  BY DEF ListOf, LinesAt, AreasAt
<1>3. Once(razRules[<<i, l>>], f) BY <1>1, <1>2 DEF LinesOnce, Both, AllOnce
<1> PICK c \in Cells : c = <<i, l>> BY DEF Cells
<1>4. razRules[c] \in Seq(Features) BY DEF DisplayInv, Filed, Filings
<1> PICK q : q = razRules[c] OBVIOUS
<1>5. Cardinality({k \in DOMAIN q : q[k] = f}) = 1 BY <1>3, <1>4, OnceIsOne
<1> QED BY <1>5 DEF Times

\* ListedOnce (UpdateLUPs): once the chart has been drawn, a feature is once
\* in the list of either boundary style, however often the options changed;
\* for any features and entries, at the priorities that no feature moves to
\* or from when the style changes.
THEOREM AreasListedOnce == Spec => []ListedOnce
<1>1. ListedInv /\ DisplayInv /\ [Next]_vars => ListedInv'
  BY ListedStep
<1>2. DisplayInv /\ ListedInv => ListedOnce
  BY ListedGives
<1> QED BY ListedInit, DisplayInvariant, <1>1, <1>2, PTL DEF Spec

(***************************************************************************)
(* The points of the edges are counted by a fold over a set.  Its value    *)
(* does not depend on the order in which the elements are chosen.          *)
(***************************************************************************)
Some(s) == CHOOSE x \in s : TRUE
Weigh(w, it, s) == IF s = {} THEN 0 ELSE w[Some(s)] + it[s \ {Some(s)}]
IsSum(w, it, sets) == it = [s \in sets |-> Weigh(w, it, s)]

LEMMA Smaller ==
  ASSUME NEW s, IsFiniteSet(s), NEW x \in s
  PROVE  /\ Cardinality(s) \in Nat /\ IsFiniteSet(s \ {x})
         /\ Cardinality(s) = Cardinality(s \ {x}) + 1
         /\ Cardinality(s \ {x}) \in Nat
<1>1. Cardinality(s) \in Nat /\ Cardinality(s \ {x}) \in Nat /\ IsFiniteSet(s \ {x})
  BY FS_CardinalityType, FS_RemoveElement
<1>2. Cardinality(s \ {x}) = Cardinality(s) - 1 BY FS_RemoveElement
<1> QED BY <1>1, <1>2

LEMMA SumExists ==
  ASSUME NEW D, IsFiniteSet(D), NEW w
  PROVE  \E it : IsSum(w, it, SUBSET D)
<1> DEFINE Layer(n) == {s \in SUBSET D : Cardinality(s) <= n}
           T == {n \in Nat : \E it : IsSum(w, it, Layer(n))}
<1>1. \A s \in SUBSET D : IsFiniteSet(s) /\ Cardinality(s) \in Nat
  BY FS_Subset, FS_CardinalityType
<1>2. 0 \in T
  <2> DEFINE g == [s \in Layer(0) |-> 0]
  <2>1. \A s \in Layer(0) : s = {}
    <3>1. \A s \in Layer(0) : Cardinality(s) = 0 /\ IsFiniteSet(s) BY <1>1
    <3> QED BY <3>1, FS_EmptySet
  <2>2. IsSum(w, g, Layer(0)) BY <2>1 DEF IsSum, Weigh
  <2> QED BY <2>2
<1>3. ASSUME NEW n \in Nat, n \in T PROVE n + 1 \in T
  <2>1. PICK g : IsSum(w, g, Layer(n)) BY <1>3
  <2> DEFINE h == [s \in Layer(n + 1) |-> Weigh(w, g, s)]
  <2>2. ASSUME NEW s \in Layer(n + 1), s # {} PROVE s \ {Some(s)} \in Layer(n)
    <3>1. Some(s) \in s BY <2>2 DEF Some
    <3>2. IsFiniteSet(s) /\ Cardinality(s) <= n + 1 BY <1>1
    <3>3. /\ Cardinality(s) = Cardinality(s \ {Some(s)}) + 1
          /\ Cardinality(s \ {Some(s)}) \in Nat
      BY <3>1, <3>2, Smaller
    <3> QED BY <3>2, <3>3
  <2>3. Layer(n) \subseteq Layer(n + 1) BY <1>1
  <2>4. ASSUME NEW s \in Layer(n) PROVE h[s] = g[s]
    <3>1. h[s] = Weigh(w, g, s) BY <2>3
    <3>2. g[s] = Weigh(w, g, s)
      <4> PICK L : L = Layer(n) OBVIOUS
      <4>1. g = [t \in L |-> Weigh(w, g, t)] BY <2>1 DEF IsSum
      <4> HIDE DEF Layer
      <4> QED BY <4>1
    <3> QED BY <3>1, <3>2
  <2>5. \A s \in Layer(n + 1) : Weigh(w, g, s) = Weigh(w, h, s)
    <3> HIDE DEF Layer, h
    <3> QED BY <2>2, <2>4 DEF Weigh
  <2>6. IsSum(w, h, Layer(n + 1))
    <3> HIDE DEF Layer
    <3> QED BY <2>5 DEF IsSum
  <2> HIDE DEF Layer, h
  <2> QED BY <2>6
<1>4. Cardinality(D) \in T BY <1>1, <1>2, <1>3, InductionOn
<1>5. Layer(Cardinality(D)) = SUBSET D BY FS_Subset
<1> QED BY <1>4, <1>5

LEMMA SumIsNat ==
  ASSUME NEW D, IsFiniteSet(D), NEW w, \A x \in D : w[x] \in Nat,
         NEW it, IsSum(w, it, SUBSET D)
  PROVE  \A s \in SUBSET D : it[s] \in Nat
<1> DEFINE T == {n \in Nat : \A s \in SUBSET D : Cardinality(s) = n => it[s] \in Nat}
<1>1. \A t \in SUBSET D : IsFiniteSet(t) /\ Cardinality(t) \in Nat
  BY FS_Subset, FS_CardinalityType
<1>2. \A t \in SUBSET D : it[t] = Weigh(w, it, t) BY DEF IsSum
<1>3. 0 \in T
  <2>1. \A t \in SUBSET D : Cardinality(t) = 0 => t = {} BY <1>1, FS_EmptySet
  <2>2. \A t \in SUBSET D : Cardinality(t) = 0 => it[t] = 0 BY <1>2, <2>1 DEF Weigh
  <2> QED BY <2>2
<1>4. ASSUME NEW n \in Nat, n \in T PROVE n + 1 \in T
  <2> SUFFICES ASSUME NEW s \in SUBSET D, Cardinality(s) = n + 1 PROVE it[s] \in Nat
    OBVIOUS
  <2>0. Cardinality(s) # 0 OBVIOUS
  <2>1. s # {} BY <2>0, FS_EmptySet
  <2> PICK c \in s : c = Some(s) BY <2>1 DEF Some
  <2>2. it[s] = w[c] + it[s \ {c}] BY <1>2, <2>1 DEF Weigh
  <2>3. Cardinality(s \ {c}) = n BY <1>1, Smaller
  <2>4. it[s \ {c}] \in Nat BY <1>4, <2>3
  <2> QED BY <2>2, <2>4
<1>5. \A n \in Nat : n \in T
  <2> HIDE DEF T
  <2> QED BY <1>3, <1>4, InductionOn
<1> QED BY <1>1, <1>5

LEMMA SumRemoves ==
  ASSUME NEW D, IsFiniteSet(D), NEW w, \A x \in D : w[x] \in Nat,
         NEW it, IsSum(w, it, SUBSET D)
  PROVE  \A s \in SUBSET D : \A x \in s : it[s] = w[x] + it[s \ {x}]
<1> DEFINE P(s) == \A x \in s : it[s] = w[x] + it[s \ {x}]
           T == {n \in Nat : \A s \in SUBSET D : Cardinality(s) = n => P(s)}
<1>1. \A t \in SUBSET D : IsFiniteSet(t) /\ Cardinality(t) \in Nat
  BY FS_Subset, FS_CardinalityType
<1>2. \A t \in SUBSET D : it[t] = Weigh(w, it, t) BY DEF IsSum
<1>3. 0 \in T
  <2>1. \A t \in SUBSET D : Cardinality(t) = 0 => t = {} BY <1>1, FS_EmptySet
  <2> QED BY <2>1
<1>4. ASSUME NEW n \in Nat, n \in T PROVE n + 1 \in T
  <2> SUFFICES ASSUME NEW s \in SUBSET D, Cardinality(s) = n + 1, NEW x \in s
               PROVE  it[s] = w[x] + it[s \ {x}]
    OBVIOUS
  <2> PICK c \in s : c = Some(s) BY DEF Some
  <2>2. it[s] = w[c] + it[s \ {c}] BY <1>2 DEF Weigh
  <2>3. Cardinality(s \ {x}) = n /\ Cardinality(s \ {c}) = n BY <1>1, Smaller
  <2>4. P(s \ {x}) /\ P(s \ {c}) BY <1>4, <2>3
  <2>5. CASE x = c BY <2>2, <2>5
  <2>6. CASE x # c
    <3> PICK t \in SUBSET D : t = (s \ {c}) \ {x} OBVIOUS
    <3>1. t = (s \ {x}) \ {c} OBVIOUS
    <3>2. it[s \ {c}] = w[x] + it[t] BY <2>4, <2>6
    <3>3. it[s \ {x}] = w[c] + it[t] BY <2>4, <2>6, <3>1
    <3>4. it[t] \in Nat BY SumIsNat
    <3> QED BY <2>2, <3>2, <3>3, <3>4
  <2> QED BY <2>5, <2>6
<1>5. \A n \in Nat : n \in T
  <2> HIDE DEF T
  <2> QED BY <1>3, <1>4, InductionOn
<1> QED BY <1>1, <1>5

(***************************************************************************)
(* The points of a set of edges.                                           *)
(***************************************************************************)
PointsIn(hash, D) == MapThenSumSet(LAMBDA e : PointsOf(hash, e), D)
SumIt(w, D) == CHOOSE it : IsSum(w, it, SUBSET D)
Counts(hash, D) == [e \in D |-> PointsOf(hash, e)]

LEMMA PointsAreSum ==
  ASSUME NEW hash, NEW D
  PROVE  PointsIn(hash, D) = SumIt(Counts(hash, D), D)[D]
<1> DEFINE old(it) == it = [s \in SUBSET D |->
             IF s = {} THEN 0
             ELSE PointsOf(hash, Some(s)) + it[s \ {Some(s)}]]
<1>1. PointsIn(hash, D) = (CHOOSE it : old(it))[D]
  BY DEF PointsIn, MapThenSumSet, MapThenFoldSet, Some
<1>2. \A s \in SUBSET D : s # {} => Counts(hash, D)[Some(s)] = PointsOf(hash, Some(s))
  BY DEF Counts, Some
<1>3. \A it : old(it) <=> IsSum(Counts(hash, D), it, SUBSET D)
  BY <1>2 DEF IsSum, Weigh
<1> HIDE DEF old
<1>4. (CHOOSE it : old(it)) = (CHOOSE it : IsSum(Counts(hash, D), it, SUBSET D))
  BY <1>3
<1> QED BY <1>1, <1>4 DEF SumIt

LEMMA SumItIs ==
  ASSUME NEW D, IsFiniteSet(D), NEW w PROVE IsSum(w, SumIt(w, D), SUBSET D)
  BY SumExists DEF SumIt

LEMMA SumsAgree ==
  ASSUME NEW D, IsFiniteSet(D), NEW s \in SUBSET D, NEW w1, NEW w2, \A x \in s : w1[x] = w2[x]
  PROVE  SumIt(w1, D)[s] = SumIt(w2, s)[s]
<1> PICK it1, it2 : it1 = SumIt(w1, D) /\ it2 = SumIt(w2, s) OBVIOUS
<1>0. IsSum(w1, it1, SUBSET D) /\ IsSum(w2, it2, SUBSET s) BY FS_Subset, SumItIs
<1> DEFINE T == {n \in Nat : \A t \in SUBSET s : Cardinality(t) = n => it1[t] = it2[t]}
<1>1. \A t \in SUBSET s : IsFiniteSet(t) /\ Cardinality(t) \in Nat
  BY FS_Subset, FS_CardinalityType
<1>2. \A t \in SUBSET s : it1[t] = Weigh(w1, it1, t) /\ it2[t] = Weigh(w2, it2, t)
  BY <1>0 DEF IsSum
<1>3. 0 \in T
  <2>1. \A t \in SUBSET s : Cardinality(t) = 0 => t = {} BY <1>1, FS_EmptySet
  <2> QED BY <1>2, <2>1 DEF Weigh
<1>4. ASSUME NEW n \in Nat, n \in T PROVE n + 1 \in T
  <2> SUFFICES ASSUME NEW t \in SUBSET s, Cardinality(t) = n + 1 PROVE it1[t] = it2[t]
    OBVIOUS
  <2>1. t # {} BY FS_EmptySet
  <2>2. Some(t) \in t BY <2>1 DEF Some
  <2>3. Cardinality(t \ {Some(t)}) = n BY <1>1, <2>2, Smaller
  <2>4. it1[t \ {Some(t)}] = it2[t \ {Some(t)}] BY <1>4, <2>3
  <2> QED BY <1>2, <2>1, <2>2, <2>4 DEF Weigh
<1>5. Cardinality(s) \in T BY <1>1, <1>3, <1>4, InductionOn
<1> QED BY <1>5

LEMMA PointsAgree ==
  ASSUME NEW h1, NEW h2, NEW D, IsFiniteSet(D), \A e \in D : PointsOf(h1, e) = PointsOf(h2, e)
  PROVE  PointsIn(h1, D) = PointsIn(h2, D)
<1>1. Counts(h1, D) = Counts(h2, D) BY DEF Counts
<1> QED BY <1>1, PointsAreSum

LEMMA PointsAre ==
  ASSUME NEW h, NEW D, IsFiniteSet(D), \A e \in D : PointsOf(h, e) \in Nat
  PROVE  /\ PointsIn(h, D) \in Nat
         /\ \A x \in D : PointsIn(h, D) = PointsOf(h, x) + PointsIn(h, D \ {x})
<1> PICK w : w = Counts(h, D) OBVIOUS
<1>0. IsSum(w, SumIt(w, D), SUBSET D) BY SumItIs
<1> PICK it : it = SumIt(w, D) OBVIOUS
<1>1. IsSum(w, it, SUBSET D) BY <1>0
<1>2. \A e \in D : w[e] = PointsOf(h, e) /\ w[e] \in Nat BY DEF Counts
<1>3. PointsIn(h, D) = it[D] BY PointsAreSum
<1>4. it[D] \in Nat BY <1>1, <1>2, SumIsNat
<1>5. ASSUME NEW x \in D PROVE it[D] = PointsOf(h, x) + PointsIn(h, D \ {x})
  <2>1. it[D] = w[x] + it[D \ {x}] BY <1>1, <1>2, SumRemoves
  <2>2. \A e \in D \ {x} : w[e] = Counts(h, D \ {x})[e] BY <1>2 DEF Counts
  <2>3. \A w2 : (\A e \in D \ {x} : w[e] = w2[e])
                => SumIt(w, D)[D \ {x}] = SumIt(w2, D \ {x})[D \ {x}]
    <3>1. D \ {x} \in SUBSET D OBVIOUS
    <3> QED BY <3>1, SumsAgree
  <2>4. SumIt(w, D)[D \ {x}] = SumIt(Counts(h, D \ {x}), D \ {x})[D \ {x}] BY <2>2, <2>3
  <2>5. PointsIn(h, D \ {x}) = SumIt(Counts(h, D \ {x}), D \ {x})[D \ {x}] BY PointsAreSum
  <2> QED BY <1>2, <2>1, <2>4, <2>5
<1> QED BY <1>3, <1>4, <1>5

LEMMA NoPoints ==
  ASSUME NEW h, NEW D, IsFiniteSet(D), \A e \in D : PointsOf(h, e) = 0
  PROVE  PointsIn(h, D) = 0
<1> DEFINE T == {n \in Nat : \A E \in SUBSET D : Cardinality(E) = n => PointsIn(h, E) = 0}
<1>1. \A E \in SUBSET D : IsFiniteSet(E) /\ Cardinality(E) \in Nat
  BY FS_Subset, FS_CardinalityType
<1>2. 0 \in T
  <2>1. \A E \in SUBSET D : Cardinality(E) = 0 => E = {} BY <1>1, FS_EmptySet
  <2>2. PointsIn(h, {}) = 0
    <3>1. IsSum(Counts(h, {}), SumIt(Counts(h, {}), {}), SUBSET {}) BY SumItIs, FS_EmptySet
    <3>2. SumIt(Counts(h, {}), {})[{}] = 0 BY <3>1 DEF IsSum, Weigh
    <3> QED BY <3>2, PointsAreSum
  <2> QED BY <2>1, <2>2
<1>3. ASSUME NEW n \in Nat, n \in T PROVE n + 1 \in T
  <2> SUFFICES ASSUME NEW E \in SUBSET D, Cardinality(E) = n + 1 PROVE PointsIn(h, E) = 0
    OBVIOUS
  <2>1. E # {} BY FS_EmptySet
  <2> PICK x \in E : TRUE BY <2>1
  <2>2. Cardinality(E \ {x}) = n BY <1>1, Smaller
  <2>3. PointsIn(h, E \ {x}) = 0 BY <1>3, <2>2
  <2>4. \A e \in E : PointsOf(h, e) \in Nat OBVIOUS
  <2>5. PointsIn(h, E) = PointsOf(h, x) + PointsIn(h, E \ {x}) BY <1>1, <2>4, PointsAre
  <2> QED BY <2>3, <2>5
<1>4. Cardinality(D) \in T BY <1>1, <1>2, <1>3, InductionOn
<1> QED BY <1>4
(***************************************************************************)
(* The buffer of points: its length is what was allocated for it.          *)
(***************************************************************************)
IsSequence(s) == \E S : s \in Seq(S)
IsDuo(p) == \E a, b : p = <<a, b>>

LEMMA Concatenated ==
  ASSUME NEW s, NEW t, IsSequence(s), IsSequence(t)
  PROVE  IsSequence(s \o t) /\ Len(s \o t) = Len(s) + Len(t) /\ Len(s \o t) \in Nat
<1> PICK S : s \in Seq(S) BY DEF IsSequence
<1> PICK T : t \in Seq(T) BY DEF IsSequence
<1>1. s \in Seq(S \cup T) /\ t \in Seq(S \cup T) OBVIOUS
<1>2. s \o t \in Seq(S \cup T) /\ Len(s \o t) = Len(s) + Len(t) BY <1>1
<1>3. Len(s \o t) \in Nat BY <1>2
<1> QED BY <1>2, <1>3 DEF IsSequence

LEMMA Numbered ==
  ASSUME NEW n \in Nat, NEW S, NEW s \in [1..n -> S] PROVE IsSequence(s) /\ Len(s) = n
<1>1. s \in Seq(S) /\ Len(s) = n OBVIOUS
<1> QED BY <1>1 DEF IsSequence

LEMMA DuoLength == ASSUME NEW p, IsDuo(p) PROVE IsSequence(p) /\ Len(p) = 2
<1> PICK a, b : p = <<a, b>> BY DEF IsDuo
<1>1. p \in Seq({a, b}) /\ Len(p) = 2 OBVIOUS
<1> QED BY <1>1 DEF IsSequence

LEMMA Appended ==
  ASSUME NEW s, IsSequence(s), NEW x
  PROVE  /\ IsSequence(Append(s, x)) /\ Len(Append(s, x)) = Len(s) + 1 /\ Len(s) \in Nat
         /\ \A i \in 1..Len(s) : Append(s, x)[i] = s[i]
         /\ Append(s, x)[Len(s) + 1] = x
<1> PICK S : s \in Seq(S) BY DEF IsSequence
<1>1. s \in Seq(S \cup {x}) OBVIOUS
<1>2. Append(s, x) \in Seq(S \cup {x}) BY <1>1
<1> QED BY <1>1, <1>2 DEF IsSequence

LEMMA ConcatAt ==
  ASSUME NEW s, NEW p, IsSequence(s), IsSequence(p)
  PROVE  /\ Len(s) \in Nat /\ Len(p) \in Nat
         /\ IsSequence(s \o p) /\ Len(s \o p) = Len(s) + Len(p)
         /\ \A i \in 1..Len(s) : (s \o p)[i] = s[i]
         /\ \A i \in 1..Len(p) : (s \o p)[Len(s) + i] = p[i]
<1> PICK S : s \in Seq(S) BY DEF IsSequence
<1> PICK T : p \in Seq(T) BY DEF IsSequence
<1>1. s \in Seq(S \cup T) /\ p \in Seq(S \cup T) OBVIOUS
<1>2. s \o p \in Seq(S \cup T) /\ Len(s \o p) = Len(s) + Len(p) BY <1>1
<1> QED BY <1>1, <1>2 DEF IsSequence

\* Flattening, as the recursive function of FlattenSeq.
IsFlat(fl, n, q) == fl = [i \in 1..n |-> IF i = 1 THEN q[i] ELSE fl[i - 1] \o q[i]]
Flat(n, q) == CHOOSE fl : IsFlat(fl, n, q)

LEMMA FlatExists == ASSUME NEW q PROVE \A n \in Nat : \E fl : IsFlat(fl, n, q)
<1> DEFINE T == {n \in Nat : \E fl : IsFlat(fl, n, q)}
<1>1. 0 \in T
  <2> DEFINE g == [i \in 1..0 |-> q[i]]
  <2>1. IsFlat(g, 0, q) BY DEF IsFlat
  <2> QED BY <2>1
<1>2. ASSUME NEW n \in Nat, n \in T PROVE n + 1 \in T
  <2>1. PICK g : IsFlat(g, n, q) BY <1>2
  <2> DEFINE h == [i \in 1..(n + 1) |-> IF i = 1 THEN q[i] ELSE g[i - 1] \o q[i]]
  <2>2. ASSUME NEW i \in 1..n PROVE h[i] = g[i]
    <3>1. h[i] = IF i = 1 THEN q[i] ELSE g[i - 1] \o q[i] OBVIOUS
    <3>2. g[i] = IF i = 1 THEN q[i] ELSE g[i - 1] \o q[i] BY <2>1 DEF IsFlat
    <3> QED BY <3>1, <3>2
  <2>3. ASSUME NEW i \in 1..(n + 1), i # 1 PROVE h[i - 1] = g[i - 1]
    <3>1. i - 1 \in 1..n BY <2>3
    <3> QED BY <2>2, <3>1
  <2>4. IsFlat(h, n + 1, q) BY <2>3 DEF IsFlat
  <2> QED BY <2>4
<1> QED BY <1>1, <1>2, InductionOn

LEMMA FlatIs == ASSUME NEW q, NEW n \in Nat PROVE IsFlat(Flat(n, q), n, q)
  BY FlatExists DEF Flat

LEMMA DuosFlattened ==
  ASSUME NEW n \in Nat, NEW q, IsSequence(q), Len(q) = n, \A i \in 1..n : IsDuo(q[i])
  PROVE  IsSequence(FlattenSeq(q)) /\ Len(FlattenSeq(q)) = 2 * n
<1>1. CASE n = 0
  <2>1. FlattenSeq(q) = q BY <1>1 DEF FlattenSeq
  <2> QED BY <1>1, <2>1
<1>2. CASE n # 0
  <2> PICK fl : fl = Flat(n, q) OBVIOUS
  <2>0. IsFlat(Flat(n, q), n, q) BY FlatIs
  <2>1. fl = [i \in 1..n |-> IF i = 1 THEN q[i] ELSE fl[i - 1] \o q[i]] BY <2>0 DEF IsFlat
  <2>2. FlattenSeq(q) = fl[n]
    <3>1. FlattenSeq(q) = Flat(n, q)[n] BY <1>2 DEF FlattenSeq, Flat, IsFlat
    <3> QED BY <3>1
  <2> DEFINE T == {k \in Nat : k + 1 <= n
                     => IsSequence(fl[k + 1]) /\ Len(fl[k + 1]) = 2 * (k + 1)}
  <2>3. 0 \in T
    <3>1. fl[1] = q[1] BY <1>2, <2>1
    <3>2. IsSequence(fl[1]) /\ Len(fl[1]) = 2 BY <1>2, <3>1, DuoLength
    <3> QED BY <3>2
  <2>4. ASSUME NEW k \in Nat, k \in T PROVE k + 1 \in T
    <3> SUFFICES ASSUME k + 2 <= n
                 PROVE  IsSequence(fl[k + 2]) /\ Len(fl[k + 2]) = 2 * (k + 2)
      OBVIOUS
    <3>1. IsSequence(fl[k + 1]) /\ Len(fl[k + 1]) = 2 * (k + 1) BY <2>4
    <3>2. k + 2 \in 1..n /\ k + 2 # 1 /\ (k + 2) - 1 = k + 1 OBVIOUS
    <3>3. fl[k + 2] = fl[k + 1] \o q[k + 2] BY <2>1, <3>2
    <3>4. IsSequence(q[k + 2]) /\ Len(q[k + 2]) = 2 BY <3>2, DuoLength
    <3>5. /\ IsSequence(fl[k + 1] \o q[k + 2])
          /\ Len(fl[k + 1] \o q[k + 2]) = Len(fl[k + 1]) + Len(q[k + 2])
      BY <3>1, <3>4, Concatenated
    <3> QED BY <3>1, <3>3, <3>4, <3>5
  <2>5. n - 1 \in T
    <3>1. n - 1 \in Nat BY <1>2
    <3> HIDE DEF T
    <3> QED BY <2>3, <2>4, <3>1, InductionOn
  <2> QED BY <1>2, <2>2, <2>5
<1> QED BY <1>1, <1>2

LEMMA SetInSequence ==
  ASSUME NEW S, IsFiniteSet(S)
  PROVE  SetToSeq(S) \in Seq(S) /\ Len(SetToSeq(S)) = Cardinality(S)
<1>1. Cardinality(S) \in Nat /\ ExistsBijection(1..Cardinality(S), S) BY FS_CardinalityType
<1>2. \E f : f \in [1..Cardinality(S) -> S] /\ IsInjective(f)
  BY <1>1 DEF ExistsBijection, Bijection, Injection, IsInjective
<1>3. SetToSeq(S) \in [1..Cardinality(S) -> S] BY <1>2 DEF SetToSeq
<1> QED BY <1>1, <1>3

(***************************************************************************)
(* A segment's elements, and the connectors made for them.                 *)
(***************************************************************************)
Kinds == {"CE", "EC", "CC"}
IsElement(x) == x.pair = <<>> \/ (IsDuo(x.pair) /\ x.id[1] \in Kinds)

LEMMA ElementsAre ==
  ASSUME NEW s
  PROVE  /\ Len(Elements(s)) \in Nat /\ DOMAIN Elements(s) = 1..Len(Elements(s))
         /\ \A k \in 1..Len(Elements(s)) : IsElement(Elements(s)[k])
<1> DEFINE ce == [id |-> CE(s), pair |-> << <<"node", s.inode>>, FirstOf(s)>>]
           ee == [id |-> <<"EE", s.edge>>, pair |-> <<>>]
           ec == [id |-> EC(s), pair |-> <<LastOf(s), <<"node", s.enode>> >>]
           cc == [id |-> CC(s), pair |-> << <<"node", s.inode>>, <<"node", s.enode>> >>]
           S == {ce, ee, ec, cc}
<1>1. IsElement(ce) /\ IsElement(ee) /\ IsElement(ec) /\ IsElement(cc)
  BY DEF IsElement, IsDuo, CE, EC, CC, Kinds
<1>2. Elements(s) \in Seq(S)
  <2> DEFINE a == IF NodeThere(s.inode) /\ EdgeThere(s) THEN <<ce>> ELSE <<>>
             b == IF EdgeThere(s) THEN <<ee>> ELSE <<>>
             c == CASE NodeThere(s.inode) /\ NodeThere(s.enode) /\ EdgeThere(s) -> <<ec>>
                    [] NodeThere(s.inode) /\ NodeThere(s.enode) /\ ~EdgeThere(s) -> <<cc>>
                    [] OTHER -> <<>>
  <2>1. Elements(s) = a \o b \o c BY DEF Elements
  <2>2. a \in Seq(S) /\ b \in Seq(S) /\ c \in Seq(S)
    <3> PICK A, B, C, D : A = ce /\ B = ee /\ C = ec /\ D = cc OBVIOUS
    <3>1. <<A>> \in Seq({A, B, C, D}) /\ <<B>> \in Seq({A, B, C, D})
          /\ <<C>> \in Seq({A, B, C, D}) /\ <<D>> \in Seq({A, B, C, D})
          /\ <<>> \in Seq({A, B, C, D})
      OBVIOUS
    <3> HIDE DEF ce, ee, ec, cc
    <3> QED BY <3>1
  <2> HIDE DEF a, b, c, S
  <2> QED BY <2>1, <2>2
<1> HIDE DEF ce, ee, ec, cc
<1>3. \A x \in S : IsElement(x) BY <1>1
<1> HIDE DEF S
<1> QED BY <1>2, <1>3

\* As many connectors as pairs, each with the index of a pair.
Connectors(off) == {id \in DOMAIN off : id[1] # "EE"}
Connected(off, prs) ==
  /\ IsSequence(prs) /\ \A i \in 1..Len(prs) : IsDuo(prs[i])
  /\ IsFiniteSet(Connectors(off)) /\ Cardinality(Connectors(off)) = Len(prs)
  /\ \A id \in Connectors(off) : id[1] \in Kinds /\ off[id] \in 0..(Len(prs) - 1)
NoEdges(off) == Connectors(off) = DOMAIN off

LEMMA ConnectGives ==
  ASSUME NEW m, Connected(m.offset, m.pairs), NoEdges(m.offset), NEW x, IsElement(x)
  PROVE  LET r == Connect(m, x)
         IN  /\ Connected(r.offset, r.pairs) /\ NoEdges(r.offset)
             /\ Len(r.pairs) \in {Len(m.pairs), Len(m.pairs) + 1} /\ Len(m.pairs) \in Nat
<1> DEFINE r == Connect(m, x)
<1>0. Len(m.pairs) \in Nat BY Appended DEF Connected
<1>1. CASE x.pair = <<>> \/ x.id \in DOMAIN m.offset
  <2>1. Connect(m, x) = m BY <1>1 DEF Connect
  <2>2. /\ Connected(Connect(m, x).offset, Connect(m, x).pairs)
        /\ NoEdges(Connect(m, x).offset)
    BY <2>1
  <2> QED BY <1>0, <2>1, <2>2
<1>2. CASE ~(x.pair = <<>> \/ x.id \in DOMAIN m.offset)
  <2> PICK id, p, n : id = x.id /\ p = x.pair /\ n = Len(m.pairs) OBVIOUS
  <2>1. /\ r.offset = With(m.offset, [i \in {id} |-> n])
        /\ r.pairs = Append(m.pairs, p)
    BY <1>2 DEF Connect
  <2>2. id[1] \in Kinds /\ id[1] # "EE" /\ IsDuo(p) /\ id \notin DOMAIN m.offset
    BY <1>2 DEF IsElement, Kinds
  <2> HIDE DEF r
  <2>3. /\ DOMAIN r.offset = DOMAIN m.offset \cup {id}
        /\ r.offset[id] = n /\ \A i \in DOMAIN m.offset : r.offset[i] = m.offset[i]
    BY <2>1, <2>2 DEF With
  <2>4. /\ Len(r.pairs) = n + 1 /\ IsSequence(r.pairs)
        /\ \A i \in 1..n : r.pairs[i] = m.pairs[i] /\ r.pairs[n + 1] = p
    BY <2>1, Appended DEF Connected
  <2>5. r.pairs[n + 1] = p BY <2>1, Appended DEF Connected
  <2>6. Connectors(r.offset) = Connectors(m.offset) \cup {id} /\ NoEdges(r.offset)
    BY <2>2, <2>3 DEF Connectors, NoEdges
  <2>7. id \notin Connectors(m.offset) BY <2>2 DEF Connectors
  <2>8. /\ IsFiniteSet(Connectors(r.offset))
        /\ Cardinality(Connectors(r.offset)) = n + 1
    <3> PICK C : C = Connectors(m.offset) OBVIOUS
    <3>1. IsFiniteSet(C) /\ Cardinality(C) = n BY DEF Connected
    <3>2. IsFiniteSet(C \cup {id}) /\ Cardinality(C \cup {id}) = n + 1
      BY <2>7, <3>1, FS_AddElement
    <3> QED BY <2>6, <3>2
  <2>9. ASSUME NEW i \in 1..(n + 1) PROVE IsDuo(r.pairs[i])
    <3>1. i \in 1..n \/ i = n + 1 BY <1>0
    <3> QED BY <2>2, <2>4, <2>5, <3>1 DEF Connected
  <2>10. ASSUME NEW i \in Connectors(r.offset)
         PROVE  i[1] \in Kinds /\ r.offset[i] \in 0..n
    <3>1. CASE i = id BY <1>0, <2>2, <2>3, <3>1
    <3>2. CASE i # id
      <4>1. i \in Connectors(m.offset) /\ i \in DOMAIN m.offset
        BY <2>6, <3>2 DEF Connectors
      <4>2. i[1] \in Kinds /\ m.offset[i] \in 0..(n - 1) BY <4>1 DEF Connected
      <4> QED BY <1>0, <2>3, <4>1, <4>2
    <3> QED BY <3>1, <3>2
  <2>11. (n + 1) - 1 = n BY <1>0
  <2>12. Connected(r.offset, r.pairs) BY <2>4, <2>8, <2>9, <2>10, <2>11 DEF Connected
  <2>13. Len(r.pairs) \in {Len(m.pairs), Len(m.pairs) + 1} BY <2>4
  <2> QED BY <1>0, <2>6, <2>12, <2>13 DEF r
<1> QED BY <1>1, <1>2

ConnectIt(D, e, q) == CHOOSE it : it = [x \in SUBSET D |->
  IF x = {} THEN e ELSE Connect(it[x \ {Max(x)}], q[Max(x)])]

LEMMA ConnectFolds ==
  ASSUME NEW e, NEW q, NEW n \in Nat, DOMAIN q = 1..n
  PROVE  Folds(Connecting, n, e, q, FoldLeft(Connect, e, q))
<1>1. FoldLeft(Connect, e, q) = ConnectIt(1..n, e, q)[1..n]
  BY DEF FoldLeft, MapThenFoldSet, ConnectIt
<1>2. \E it : IsIter(Connecting, it, 1..n, e, q) BY IterExists
<1>3. \A it : IsIter(Connecting, it, 1..n, e, q) <=> it = [x \in SUBSET (1..n) |->
         IF x = {} THEN e ELSE Connect(it[x \ {Max(x)}], q[Max(x)])]
  BY DEF IsIter, Apply, Connecting
<1>4. IsIter(Connecting, ConnectIt(1..n, e, q), 1..n, e, q)
  BY <1>2, <1>3 DEF ConnectIt
<1> QED BY <1>1, <1>4, IterFolds

LEMMA ConnectKeeps ==
  ASSUME NEW e, Connected(e.offset, e.pairs), NoEdges(e.offset),
         NEW q, NEW n \in Nat, DOMAIN q = 1..n, \A k \in 1..n : IsElement(q[k])
  PROVE  LET r == FoldLeft(Connect, e, q)
         IN  /\ Connected(r.offset, r.pairs) /\ NoEdges(r.offset)
             /\ Len(r.pairs) \in Nat /\ Len(r.pairs) >= Len(e.pairs)
<1> PICK r : r = FoldLeft(Connect, e, q) OBVIOUS
<1>0. Folds(Connecting, n, e, q, FoldLeft(Connect, e, q)) BY ConnectFolds
<1> PICK h : AreStates(Connecting, h, n, e, q, r) BY <1>0 DEF Folds
<1>1. /\ h[0] = e /\ h[n] = r
      /\ \A k \in 0..(n - 1) : h[k + 1] = Connect(h[k], q[k + 1])
  BY DEF AreStates, Apply, Connecting
<1> DEFINE P(m) == /\ Connected(m.offset, m.pairs) /\ NoEdges(m.offset)
                   /\ Len(m.pairs) \in Nat /\ Len(m.pairs) >= Len(e.pairs)
           T == {k \in Nat : k <= n => P(h[k])}
<1>2. 0 \in T
  <2>1. Len(e.pairs) \in Nat BY Appended DEF Connected
  <2> QED BY <1>1, <2>1
<1>3. ASSUME NEW k \in Nat, k \in T PROVE k + 1 \in T
  <2> SUFFICES ASSUME k + 1 <= n PROVE P(h[k + 1]) OBVIOUS
  <2>1. P(h[k]) /\ k \in 0..(n - 1) /\ k + 1 \in 1..n BY <1>3
  <2>2. IsElement(q[k + 1]) BY <2>1
  <2> PICK m, x : m = h[k] /\ x = q[k + 1] OBVIOUS
  <2>3. h[k + 1] = Connect(m, x) BY <1>1, <2>1
  <2>4. LET s == Connect(m, x)
        IN  /\ Connected(s.offset, s.pairs) /\ NoEdges(s.offset)
            /\ Len(s.pairs) \in {Len(m.pairs), Len(m.pairs) + 1} /\ Len(m.pairs) \in Nat
    BY <2>1, <2>2, ConnectGives
  <2>5. Len(e.pairs) \in Nat BY Appended DEF Connected
  <2> QED BY <2>1, <2>3, <2>4, <2>5
<1>4. n \in T
  <2> HIDE DEF T
  <2> QED BY <1>2, <1>3, InductionOn
<1> QED BY <1>1, <1>4

(***************************************************************************)
(* The invariant of the buffer: what has been counted is what there is     *)
(* still to copy, and what has been copied.                                *)
(***************************************************************************)
HashTyped == /\ IsFiniteSet(DOMAIN ve_hash)
             /\ \A e \in DOMAIN ve_hash : ve_hash[e] \in Nat \cup {Null}
CountsTyped == /\ nPoints \in Nat /\ allocated \in Nat /\ IsSequence(buffer)
               /\ pc \in {"validate", "count", "walk", "edges", "release", "built"}

\* The edges still to copy, with the null ones.
Uncopied == {e \in DOMAIN ve_hash : <<"EE", e>> \notin DOMAIN vbo_offset}

Counted ==
  /\ pc \in {"validate", "count", "walk"} =>
       Connected(vbo_offset, pairs) /\ NoEdges(vbo_offset) /\ buffer = <<>>
  /\ pc \in {"validate", "count"} => pairs = <<>>
  /\ pc = "walk" => nPoints = PointsIn(ve_hash, DOMAIN ve_hash) + 2 * Len(pairs)
  /\ pc = "edges" =>
       /\ Connected(vbo_offset, pairs)
       /\ allocated = Len(buffer) + PointsIn(ve_hash, Uncopied) + 2 * Len(pairs)
  /\ pc \in {"release", "built"} => Len(buffer) = allocated

BufferInv == HashTyped /\ CountsTyped /\ Counted

LEMMA HashCounts ==
  ASSUME HashTyped, NEW D \in SUBSET (DOMAIN ve_hash)
  PROVE  /\ IsFiniteSet(D) /\ PointsIn(ve_hash, D) \in Nat
         /\ \A e \in D : PointsOf(ve_hash, e) \in Nat
         /\ \A e \in D : PointsIn(ve_hash, D)
                         = PointsOf(ve_hash, e) + PointsIn(ve_hash, D \ {e})
<1>1. IsFiniteSet(D) BY FS_Subset DEF HashTyped
<1>2. \A e \in D : PointsOf(ve_hash, e) \in Nat BY DEF HashTyped, PointsOf
<1> QED BY <1>1, <1>2, PointsAre

\* A null added by operator[] counts nothing.
LEMMA TouchedCounts ==
  ASSUME HashTyped, NEW e, NEW h, h = Touched(ve_hash, {e}, Null)
  PROVE  /\ IsFiniteSet(DOMAIN h) /\ \A i \in DOMAIN h : h[i] \in Nat \cup {Null}
         /\ PointsIn(h, DOMAIN h) = PointsIn(ve_hash, DOMAIN ve_hash)
<1> PICK D : D = DOMAIN ve_hash OBVIOUS
<1>1. /\ DOMAIN h = D \cup {e} /\ \A i \in D : h[i] = ve_hash[i]
      /\ e \notin D => h[e] = Null
  BY DEF Touched
<1>2. IsFiniteSet(D) /\ IsFiniteSet(DOMAIN h) BY <1>1, FS_AddElement DEF HashTyped
<1>3. \A i \in DOMAIN h : h[i] \in Nat \cup {Null} BY <1>1 DEF HashTyped
<1>4. \A i \in DOMAIN h : PointsOf(h, i) \in Nat BY <1>3 DEF PointsOf
<1>5. PointsIn(h, D) = PointsIn(ve_hash, D)
  <2>1. \A i \in D : PointsOf(h, i) = PointsOf(ve_hash, i) BY <1>1 DEF PointsOf
  <2> QED BY <1>2, <2>1, PointsAgree
<1>6. CASE e \in D
  <2>1. DOMAIN h = D BY <1>1, <1>6
  <2> QED BY <1>2, <1>3, <1>5, <2>1
<1>7. CASE e \notin D
  <2>1. DOMAIN h \ {e} = D /\ e \in DOMAIN h BY <1>1, <1>7
  <2>2. PointsIn(h, DOMAIN h) = PointsOf(h, e) + PointsIn(h, D)
    BY <1>2, <1>4, <2>1, PointsAre
  <2>3. PointsOf(h, e) = 0 BY <1>1, <1>7 DEF PointsOf
  <2>4. PointsIn(ve_hash, D) \in Nat BY HashCounts
  <2> QED BY <1>2, <1>3, <1>5, <2>2, <2>3, <2>4
<1> QED BY <1>6, <1>7

LEMMA NothingConnected == Connected(<<>>, <<>>) /\ NoEdges(<<>>)
<1>1. Connectors(<<>>) = {} /\ DOMAIN <<>> = {} /\ Len(<<>>) = 0 BY DEF Connectors
<1>2. IsFiniteSet({}) /\ Cardinality({}) = 0 BY FS_EmptySet
<1>3. IsSequence(<<>>) BY DEF IsSequence
<1>4. NoEdges(<<>>) BY <1>1 DEF NoEdges
<1>5. \A i \in 1..0 : FALSE OBVIOUS
<1>6. Connected(<<>>, <<>>) BY <1>1, <1>2, <1>3, <1>5 DEF Connected
<1> QED BY <1>4, <1>6

LEMMA BufferInit == Init => BufferInv
<1> SUFFICES ASSUME Init PROVE BufferInv OBVIOUS
<1>1. /\ pc = "validate" /\ pairs = <<>> /\ vbo_offset = <<>> /\ buffer = <<>>
      /\ nPoints = 0 /\ allocated = 0 /\ tables.edges \in SUBSET Edges
  BY DEF Init, GInit
<1>2. HashTyped
  <2>1. PICK empty \in SUBSET (Edges \ tables.edges) :
          ve_hash = [e \in tables.edges \cup empty |->
                       IF e \in empty THEN 0 ELSE EdgeSize[e]]
    BY DEF Init, GInit
  <2>2. tables.edges \cup empty \in SUBSET Edges BY <1>1
  <2>3. IsFiniteSet(DOMAIN ve_hash)
    BY <2>1, <2>2, FS_Subset, LineGeometryAssumption
  <2>4. \A e \in DOMAIN ve_hash : ve_hash[e] \in Nat
    BY <2>1, <2>2, LineGeometryAssumption
  <2> QED BY <2>3, <2>4 DEF HashTyped
<1>3. CountsTyped BY <1>1, NothingConnected DEF CountsTyped, Connected
<1>4. Counted BY <1>1, NothingConnected DEF Counted
<1> QED BY <1>2, <1>3, <1>4 DEF BufferInv

LEMMA ValidateInv == ASSUME BufferInv, ValidateHashmaps PROVE BufferInv'
<1>1. /\ pc = "validate" /\ pc' = "count"
      /\ UNCHANGED <<ve_hash, pairs, nPoints, vbo_offset, buffer, allocated>>
  BY DEF ValidateHashmaps
<1> QED BY <1>1 DEF BufferInv, HashTyped, CountsTyped, Counted

LEMMA CountInv == ASSUME BufferInv, CountPoints PROVE BufferInv'
<1>1. /\ pc = "count" /\ pc' = "walk"
      /\ UNCHANGED <<ve_hash, pairs, vbo_offset, buffer, allocated>>
      /\ nPoints' = PointsIn(ve_hash, DOMAIN ve_hash)
  BY DEF CountPoints, PointsIn
<1>2. PointsIn(ve_hash, DOMAIN ve_hash) \in Nat BY HashCounts DEF BufferInv
<1>3. pairs = <<>> BY <1>1 DEF BufferInv, Counted
<1>4. nPoints' = PointsIn(ve_hash, DOMAIN ve_hash)' + 2 * Len(pairs')
  BY <1>1, <1>2, <1>3
<1>5. Counted' BY <1>1, <1>4 DEF BufferInv, Counted
<1> QED BY <1>1, <1>2, <1>5 DEF BufferInv, HashTyped, CountsTyped

LEMMA WalkInv == ASSUME BufferInv, WalkSegment PROVE BufferInv'
<1> DEFINE e0 == [offset |-> vbo_offset, pairs |-> pairs]
<1>1. PICK s, made :
        /\ made = FoldLeft(Connect, e0, Elements(s))
        /\ vbo_offset' = made.offset /\ pairs' = made.pairs
        /\ nPoints' = nPoints + NewPoints(made)
        /\ ve_hash' = Touched(ve_hash, {s.edge}, Null)
  BY DEF WalkSegment
<1>2. pc = "walk" /\ UNCHANGED <<pc, buffer, allocated>> BY DEF WalkSegment
<1>3. /\ Connected(vbo_offset, pairs) /\ NoEdges(vbo_offset) /\ buffer = <<>>
      /\ nPoints = PointsIn(ve_hash, DOMAIN ve_hash) + 2 * Len(pairs)
  BY <1>2 DEF BufferInv, Counted
<1>4. /\ Connected(made.offset, made.pairs) /\ NoEdges(made.offset)
      /\ Len(made.pairs) \in Nat /\ Len(made.pairs) >= Len(pairs)
  <2> PICK e, q : e = e0 /\ q = Elements(s) OBVIOUS
  <2>1. Connected(e.offset, e.pairs) /\ NoEdges(e.offset) /\ e.pairs = pairs BY <1>3
  <2> PICK n : n = Len(q) OBVIOUS
  <2>2. n \in Nat /\ DOMAIN q = 1..n /\ \A k \in 1..n : IsElement(q[k]) BY ElementsAre
  <2>3. made = FoldLeft(Connect, e, q) BY <1>1
  <2> QED BY <2>1, <2>2, <2>3, ConnectKeeps
<1>5. /\ HashTyped'
      /\ PointsIn(ve_hash, DOMAIN ve_hash)' = PointsIn(ve_hash, DOMAIN ve_hash)
  <2> PICK h : h = ve_hash' OBVIOUS
  <2>1. /\ IsFiniteSet(DOMAIN h) /\ \A i \in DOMAIN h : h[i] \in Nat \cup {Null}
        /\ PointsIn(h, DOMAIN h) = PointsIn(ve_hash, DOMAIN ve_hash)
    BY <1>1, TouchedCounts DEF BufferInv
  <2>2. PointsIn(ve_hash, DOMAIN ve_hash)' = PointsIn(h, DOMAIN h)
    OBVIOUS
  <2> QED BY <2>1, <2>2 DEF HashTyped
<1>6. PointsIn(ve_hash, DOMAIN ve_hash) \in Nat /\ Len(pairs) \in Nat
  BY <1>3, HashCounts, Appended DEF BufferInv, Connected
<1>7. /\ nPoints' = PointsIn(ve_hash, DOMAIN ve_hash)' + 2 * Len(pairs')
      /\ nPoints' \in Nat
  BY <1>1, <1>3, <1>4, <1>5, <1>6 DEF NewPoints
<1>8. Connected(vbo_offset', pairs') /\ NoEdges(vbo_offset') BY <1>1, <1>4
<1>9. Counted' BY <1>2, <1>3, <1>7, <1>8 DEF Counted
<1> QED BY <1>2, <1>5, <1>7, <1>9 DEF BufferInv, CountsTyped

LEMMA AllocateInv == ASSUME BufferInv, Allocate PROVE BufferInv'
<1>1. /\ pc = "walk" /\ pc' = "edges" /\ allocated' = nPoints
      /\ UNCHANGED <<ve_hash, pairs, nPoints, vbo_offset, buffer>>
  BY DEF Allocate
<1>2. /\ Connected(vbo_offset, pairs) /\ NoEdges(vbo_offset) /\ buffer = <<>>
      /\ nPoints = PointsIn(ve_hash, DOMAIN ve_hash) + 2 * Len(pairs)
  BY <1>1 DEF BufferInv, Counted
<1>3. Uncopied = DOMAIN ve_hash
  BY <1>2 DEF Uncopied, NoEdges, Connectors
<1>4. Uncopied' = Uncopied /\ PointsIn(ve_hash, Uncopied)' = PointsIn(ve_hash, Uncopied)
  BY <1>1 DEF Uncopied
<1>5. PointsIn(ve_hash, DOMAIN ve_hash) \in Nat /\ Len(buffer) = 0
  BY <1>2, HashCounts DEF BufferInv
<1>6. allocated' = Len(buffer') + PointsIn(ve_hash, Uncopied)' + 2 * Len(pairs')
  BY <1>1, <1>2, <1>3, <1>4, <1>5
<1>7. Counted' BY <1>1, <1>2, <1>6 DEF Counted
<1> QED BY <1>1, <1>7 DEF BufferInv, HashTyped, CountsTyped

LEMMA CopyEdgeInv == ASSUME BufferInv, NEW e \in Edges, CopyEdge(e) PROVE BufferInv'
<1>1. /\ pc = "edges" /\ e \in Uncopied /\ ve_hash[e] # Null
      /\ vbo_offset' = With(vbo_offset, [id \in {<<"EE", e>>} |-> Len(buffer)])
      /\ buffer' = buffer \o EdgePoints(e, ve_hash[e])
      /\ UNCHANGED <<ve_hash, pairs, nPoints, allocated, pc>>
  BY DEF CopyEdge, EdgesToCopy, Uncopied
<1>2. /\ Connected(vbo_offset, pairs) /\ IsSequence(buffer)
      /\ allocated = Len(buffer) + PointsIn(ve_hash, Uncopied) + 2 * Len(pairs)
  BY <1>1 DEF BufferInv, Counted, CountsTyped
<1> PICK n \in Nat : n = ve_hash[e] BY <1>1 DEF BufferInv, HashTyped, Uncopied
<1>3. IsSequence(EdgePoints(e, n)) /\ Len(EdgePoints(e, n)) = n
  <2>1. EdgePoints(e, n) \in [1..n -> {<<"edge", e, k>> : k \in 1..n}] BY DEF EdgePoints
  <2> QED BY <2>1, Numbered
<1>4. /\ IsSequence(buffer') /\ Len(buffer') = Len(buffer) + n
      /\ Len(buffer) \in Nat /\ Len(pairs) \in Nat
  <2> PICK p : p = EdgePoints(e, n) OBVIOUS
  <2>1. buffer' = buffer \o p BY <1>1
  <2>2. IsSequence(buffer \o p) /\ Len(buffer \o p) = Len(buffer) + n
    BY <1>2, <1>3, Concatenated
  <2>3. Len(buffer) \in Nat /\ Len(pairs) \in Nat BY <1>2, Appended DEF Connected
  <2> QED BY <2>1, <2>2, <2>3
<1>5. /\ DOMAIN vbo_offset' = DOMAIN vbo_offset \cup {<<"EE", e>>}
      /\ \A id \in DOMAIN vbo_offset \ {<<"EE", e>>} : vbo_offset'[id] = vbo_offset[id]
  BY <1>1 DEF With
<1>6. Uncopied' = Uncopied \ {e} BY <1>1, <1>5 DEF Uncopied
<1>7. /\ Connectors(vbo_offset') = Connectors(vbo_offset)
      /\ \A id \in Connectors(vbo_offset) : vbo_offset'[id] = vbo_offset[id]
  BY <1>5 DEF Connectors
<1>8. Connected(vbo_offset', pairs') BY <1>1, <1>2, <1>7 DEF Connected
<1>9. /\ PointsIn(ve_hash, Uncopied) = n + PointsIn(ve_hash, Uncopied \ {e})
      /\ PointsIn(ve_hash, Uncopied \ {e}) \in Nat
  <2>1. Uncopied \in SUBSET (DOMAIN ve_hash) /\ Uncopied \ {e} \in SUBSET (DOMAIN ve_hash)
    BY DEF Uncopied
  <2>2. PointsOf(ve_hash, e) = n BY <1>1 DEF PointsOf
  <2> QED BY <1>1, <2>1, <2>2, HashCounts DEF BufferInv
<1>10. PointsIn(ve_hash, Uncopied)' = PointsIn(ve_hash, Uncopied \ {e}) BY <1>1, <1>6
<1>11. allocated' = Len(buffer') + PointsIn(ve_hash, Uncopied)' + 2 * Len(pairs')
  BY <1>1, <1>2, <1>4, <1>9, <1>10
<1>12. Counted' BY <1>1, <1>8, <1>11 DEF Counted
<1> QED BY <1>1, <1>4, <1>12 DEF BufferInv, HashTyped, CountsTyped

\* All the connectors are in the order they are copied in.
LEMMA OrderIsWhole ==
  ASSUME Connected(vbo_offset, pairs)
  PROVE  /\ IsSequence(ConnectorOrder) /\ Len(ConnectorOrder) = Len(pairs)
         /\ \A i \in 1..Len(pairs) : ConnectorOrder[i] \in Connectors(vbo_offset)
<1> PICK A, B, C, D : /\ A = ConnectorsOf("CE") /\ B = ConnectorsOf("EC")
                      /\ C = ConnectorsOf("CC") /\ D = Connectors(vbo_offset)
  OBVIOUS
<1>1. /\ D = A \cup B \cup C /\ A \cap B = {} /\ (A \cup B) \cap C = {}
  BY DEF Connected, Connectors, ConnectorsOf, Kinds
<1>2. IsFiniteSet(D) /\ Cardinality(D) = Len(pairs) BY DEF Connected
<1>3. IsFiniteSet(A) /\ IsFiniteSet(B) /\ IsFiniteSet(C) BY <1>1, <1>2, FS_Subset
<1>4. Cardinality(A \cup B) = Cardinality(A) + Cardinality(B) /\ IsFiniteSet(A \cup B)
  <2>1. Cardinality(A \cap B) = 0 BY <1>1, FS_EmptySet
  <2>2. Cardinality(A) \in Nat /\ Cardinality(B) \in Nat BY <1>3, FS_CardinalityType
  <2>3. /\ IsFiniteSet(A \cup B)
        /\ Cardinality(A \cup B) = Cardinality(A) + Cardinality(B) - Cardinality(A \cap B)
    BY <1>3, FS_Union
  <2> QED BY <2>1, <2>2, <2>3
<1>5. Cardinality(D) = Cardinality(A) + Cardinality(B) + Cardinality(C)
  <2>1. Cardinality((A \cup B) \cap C) = 0 BY <1>1, FS_EmptySet
  <2>2. /\ Cardinality(A) \in Nat /\ Cardinality(B) \in Nat /\ Cardinality(C) \in Nat
    BY <1>3, FS_CardinalityType
  <2>3. Cardinality((A \cup B) \cup C)
        = Cardinality(A \cup B) + Cardinality(C) - Cardinality((A \cup B) \cap C)
    BY <1>3, <1>4, FS_Union
  <2> QED BY <1>1, <1>4, <2>1, <2>2, <2>3
<1> PICK a, b, c : a = SetToSeq(A) /\ b = SetToSeq(B) /\ c = SetToSeq(C) OBVIOUS
<1>6. /\ a \in Seq(A) /\ Len(a) = Cardinality(A) /\ b \in Seq(B) /\ Len(b) = Cardinality(B)
      /\ c \in Seq(C) /\ Len(c) = Cardinality(C)
  BY <1>3, SetInSequence
<1>7. a \in Seq(D) /\ b \in Seq(D) /\ c \in Seq(D) BY <1>1, <1>6
<1>8. a \o b \o c \in Seq(D) /\ Len(a \o b \o c) = Len(a) + Len(b) + Len(c) BY <1>7
<1>9. ConnectorOrder = a \o b \o c BY DEF ConnectorOrder
<1>10. ConnectorOrder \in Seq(D) /\ Len(ConnectorOrder) = Len(pairs)
  BY <1>2, <1>5, <1>6, <1>8, <1>9
<1>11. \A i \in 1..Len(pairs) : ConnectorOrder[i] \in D BY <1>10
<1> QED BY <1>10, <1>11 DEF IsSequence

LEMMA CopyConnectorsInv == ASSUME BufferInv, CopyConnectors PROVE BufferInv'
<1> PICK order : order = ConnectorOrder OBVIOUS
<1> DEFINE q == [i \in DOMAIN order |-> pairs[vbo_offset[order[i]] + 1]]
<1>1. /\ pc = "edges" /\ pc' = "release" /\ EdgesToCopy = {}
      /\ buffer' = buffer \o FlattenSeq(q)
      /\ UNCHANGED <<ve_hash, nPoints, allocated>>
  BY DEF CopyConnectors
<1>2. /\ Connected(vbo_offset, pairs) /\ IsSequence(buffer)
      /\ allocated = Len(buffer) + PointsIn(ve_hash, Uncopied) + 2 * Len(pairs)
  BY <1>1 DEF BufferInv, Counted, CountsTyped
<1> PICK n \in Nat : n = Len(pairs) BY <1>2, Appended DEF Connected
<1>3. /\ IsSequence(order) /\ Len(order) = n
      /\ \A i \in 1..n : order[i] \in Connectors(vbo_offset)
  BY <1>2, OrderIsWhole
<1>4. DOMAIN order = 1..n BY <1>3 DEF IsSequence
<1>5. IsSequence(q) /\ Len(q) = n
  <2>1. q \in [1..n -> {pairs[vbo_offset[order[i]] + 1] : i \in 1..n}] BY <1>4
  <2> QED BY <2>1, Numbered
<1>6. ASSUME NEW i \in 1..n PROVE IsDuo(q[i])
  <2>1. vbo_offset[order[i]] \in 0..(n - 1) BY <1>2, <1>3 DEF Connected
  <2>2. vbo_offset[order[i]] + 1 \in 1..n BY <2>1
  <2>3. IsDuo(pairs[vbo_offset[order[i]] + 1]) BY <1>2, <2>2 DEF Connected
  <2> QED BY <1>4, <2>3
<1> HIDE DEF q
<1>7. IsSequence(FlattenSeq(q)) /\ Len(FlattenSeq(q)) = 2 * n
  BY <1>5, <1>6, DuosFlattened
<1>8. IsSequence(buffer') /\ Len(buffer') = Len(buffer) + 2 * n /\ Len(buffer) \in Nat
  BY <1>1, <1>2, <1>7, Concatenated, Appended
<1>9. PointsIn(ve_hash, Uncopied) = 0
  <2>1. \A e \in Uncopied : PointsOf(ve_hash, e) = 0
    BY <1>1 DEF EdgesToCopy, Uncopied, PointsOf
  <2>2. Uncopied \in SUBSET (DOMAIN ve_hash) BY DEF Uncopied
  <2>3. IsFiniteSet(Uncopied) BY <2>2, HashCounts DEF BufferInv
  <2> QED BY <2>1, <2>3, NoPoints
<1>10. Len(buffer') = allocated' BY <1>1, <1>2, <1>8, <1>9
<1>11. Counted' BY <1>1, <1>10 DEF Counted
<1> QED BY <1>1, <1>8, <1>11 DEF BufferInv, HashTyped, CountsTyped

LEMMA ReleaseInv == ASSUME BufferInv, ReleaseHashes PROVE BufferInv'
<1>1. /\ pc = "release" /\ pc' = "built"
      /\ ve_hash' = [e \in {i \in DOMAIN ve_hash : ve_hash[i] # Null} |-> ve_hash[e]]
      /\ UNCHANGED <<pairs, nPoints, vbo_offset, buffer, allocated>>
  BY DEF ReleaseHashes
<1>2. HashTyped'
  <2>1. DOMAIN ve_hash' \in SUBSET (DOMAIN ve_hash) BY <1>1
  <2>2. IsFiniteSet(DOMAIN ve_hash') BY <2>1, FS_Subset DEF BufferInv, HashTyped
  <2>3. \A e \in DOMAIN ve_hash' : ve_hash'[e] \in Nat \cup {Null}
    BY <1>1 DEF BufferInv, HashTyped
  <2> QED BY <2>2, <2>3 DEF HashTyped
<1> QED BY <1>1, <1>2 DEF BufferInv, CountsTyped, Counted

LEMMA SameBuffer ==
  ASSUME BufferInv, UNCHANGED <<ve_hash, pairs, nPoints, vbo_offset, buffer, allocated, pc>>
  PROVE  BufferInv'
<1>1. PointsIn(ve_hash, DOMAIN ve_hash)' = PointsIn(ve_hash, DOMAIN ve_hash) OBVIOUS
<1>2. Uncopied' = Uncopied BY DEF Uncopied
<1>3. PointsIn(ve_hash, Uncopied)' = PointsIn(ve_hash, Uncopied) BY <1>2
<1> QED BY <1>1, <1>3 DEF BufferInv, HashTyped, CountsTyped, Counted

LEMMA BufferStep == ASSUME BufferInv, [Next]_vars PROVE BufferInv'
<1>1. CASE ValidateHashmaps BY <1>1, ValidateInv
<1>2. CASE CountPoints BY <1>2, CountInv
<1>3. CASE WalkSegment BY <1>3, WalkInv
<1>4. CASE FinishObject
  <2>1. UNCHANGED <<ve_hash, pairs, nPoints, vbo_offset, buffer, allocated, pc>>
    BY <1>4 DEF FinishObject
  <2> QED BY <2>1, SameBuffer
<1>5. CASE Allocate BY <1>5, AllocateInv
<1>6. CASE \E e \in Edges : CopyEdge(e) BY <1>6, CopyEdgeInv
<1>7. CASE CopyConnectors BY <1>7, CopyConnectorsInv
<1>8. CASE ReleaseHashes BY <1>8, ReleaseInv
<1>9. CASE \E cat, off, s, bnd : SetOptions(cat, off, s, bnd)
  <2>1. UNCHANGED <<ve_hash, pairs, nPoints, vbo_offset, buffer, allocated, pc>>
    BY <1>9 DEF SetOptions
  <2> QED BY <2>1, SameBuffer
<1>10. CASE \E h : MoveView(h)
  <2>1. UNCHANGED <<ve_hash, pairs, nPoints, vbo_offset, buffer, allocated, pc>>
    BY <1>10 DEF MoveView, gvars
  <2> QED BY <2>1, SameBuffer
<1>11. CASE Render
  <2>1. UNCHANGED <<ve_hash, pairs, nPoints, vbo_offset, buffer, allocated, pc>>
    BY <1>11 DEF Render
  <2> QED BY <2>1, SameBuffer
<1>12. CASE UNCHANGED vars
  <2>1. UNCHANGED <<ve_hash, pairs, nPoints, vbo_offset, buffer, allocated, pc>>
    BY <1>12 DEF vars, gvars
  <2> QED BY <2>1, SameBuffer
<1> QED
  BY <1>1, <1>2, <1>3, <1>4, <1>5, <1>6, <1>7, <1>8, <1>9, <1>10, <1>11, <1>12
  DEF Next, GNext

LEMMA BufferInvariant == Spec => []BufferInv
<1>1. BufferInv /\ [Next]_vars => BufferInv' BY BufferStep
<1> QED BY <1>1, BufferInit, PTL DEF Spec

LEMMA CountedIsExact == ASSUME BufferInv PROVE BufferIsExact
<1>1. CASE pc = "edges"
  <2>1. Connected(vbo_offset, pairs) /\ IsSequence(buffer)
        /\ allocated = Len(buffer) + PointsIn(ve_hash, Uncopied) + 2 * Len(pairs)
    BY <1>1 DEF BufferInv, Counted, CountsTyped
  <2>2. Len(buffer) \in Nat /\ Len(pairs) \in Nat BY <2>1, Appended DEF Connected
  <2>3. Uncopied \in SUBSET (DOMAIN ve_hash) BY DEF Uncopied
  <2>4. PointsIn(ve_hash, Uncopied) \in Nat BY <2>3, HashCounts DEF BufferInv
  <2> QED BY <1>1, <2>1, <2>2, <2>4 DEF BufferIsExact
<1>2. CASE pc # "edges"
  <2>1. pc \in {"release", "built"} => Len(buffer) = allocated /\ allocated \in Nat
    BY DEF BufferInv, Counted, CountsTyped
  <2> QED BY <1>2, <2>1 DEF BufferIsExact
<1> QED BY <1>1, <1>2

(***************************************************************************)
(* BufferIsExact, for every chart: whatever its features share, and        *)
(* whatever the tables of the file lack, the buffer of points is never     *)
(* written past its end, and is full once edges and connectors are in it   *)
(* (AssembleLineGeometry).                                                 *)
(***************************************************************************)
THEOREM BufferHoldsAll == Spec => []BufferIsExact
<1>1. BufferInv => BufferIsExact BY CountedIsExact
<1> QED BY <1>1, BufferInvariant, PTL

(***************************************************************************)
(* The types of the line data.                                             *)
(***************************************************************************)
MaximaTyped == \A id \in DOMAIN max_priority : max_priority[id] \in Int
OptionsTyped ==
  /\ version \in {200, 201} /\ category \in Categories
  /\ noshow \in NoshowSets /\ hidden \in HiddenSets
  /\ marinerStyle \in Styles /\ prioritySet \in BOOLEAN /\ dpri \in [Features -> Levels]
PrioritiesTyped == \A f \in Features : \A k \in DOMAIN priority[f] : priority[f][k] \in Int
TypeInv == OptionsTyped /\ MaximaTyped /\ PrioritiesTyped

LEMMA GivenTyped ==
  ASSUME NEW raz, NEW m0, \A id \in DOMAIN m0 : m0[id] \in Int
  PROVE  \A id \in DOMAIN Given(raz, m0) : Given(raz, m0)[id] \in Int
<1> PICK n \in Nat : n = LastLevel + 1 BY LevelSeqShape
<1> PICK q : q = LevelSeq OBVIOUS
<1> PICK r : r = Given(raz, m0) OBVIOUS
<1>0. Folds(Prior(raz), n, m0, q, r) BY PriorFolds
<1> PICK h : AreStates(Prior(raz), h, n, m0, q, r) BY <1>0 DEF Folds
<1>1. /\ h[0] = m0 /\ h[n] = r
      /\ \A k \in 0..(n - 1) : h[k + 1] = Prioritize(raz, h[k], k)
  BY LevelSeqShape DEF AreStates, Apply, Prior
<1> DEFINE P(k) == \A id \in DOMAIN h[k] : h[k][id] \in Int
           T == {k \in Nat : k <= n => P(k)}
<1>2. 0 \in T BY <1>1
<1>3. ASSUME NEW k \in Nat, k \in T PROVE k + 1 \in T
  <2> SUFFICES ASSUME k + 1 <= n, NEW id \in DOMAIN h[k + 1] PROVE h[k + 1][id] \in Int
    OBVIOUS
  <2>1. P(k) /\ k \in 0..(n - 1) BY <1>3
  <2>2. h[k + 1] = Prioritize(raz, h[k], k) BY <1>1, <2>1
  <2> DEFINE claimed == ClaimedAt(raz, style, category, noshow, k, id)
  <2>3. /\ id \in DOMAIN h[k + 1] <=> id \in DOMAIN h[k] \/ claimed
        /\ claimed => h[k + 1][id] = k
        /\ ~claimed /\ id \in DOMAIN h[k] => h[k + 1][id] = h[k][id]
    BY <2>2, PrioritizeGives
  <2> HIDE DEF claimed
  <2> QED BY <2>1, <2>3
<1>4. n \in T
  <2> HIDE DEF T
  <2> QED BY <1>2, <1>3, InductionOn
<1> QED BY <1>1, <1>4

LEMMA TypeInit == Init => TypeInv
<1> SUFFICES ASSUME Init PROVE TypeInv OBVIOUS
<1>1. /\ version \in {200, 201} /\ style \in Styles /\ category \in Categories
      /\ noshow = {} /\ hidden = {} /\ marinerStyle = style /\ prioritySet = FALSE
      /\ dpri = [f \in Features |-> LevelOf(f, style)]
      /\ max_priority = <<>> /\ priority = [f \in Features |-> <<>>]
  BY DEF Init, GInit, DInit
<1>2. \A f \in Features : LevelOf(f, style) \in Levels
  BY <1>1, LineGeometryAssumption DEF LevelOf
<1>3. OptionsTyped BY <1>1, <1>2, LineDisplayAssumption DEF OptionsTyped
<1>4. MaximaTyped /\ PrioritiesTyped BY <1>1 DEF MaximaTyped, PrioritiesTyped
<1> QED BY <1>3, <1>4 DEF TypeInv

LEMMA SetPrioritiesTyped ==
  ASSUME TypeInv, NEW raz, NEW set, SetLinePriorities(raz, set)
  PROVE  MaximaTyped' /\ PrioritiesTyped'
<1>1. CASE set
  <2>1. UNCHANGED <<max_priority, priority>> BY <1>1 DEF SetLinePriorities
  <2> QED BY <2>1 DEF TypeInv, MaximaTyped, PrioritiesTyped
<1>2. CASE ~set
  <2>1. /\ max_priority' = Given(raz, max_priority)
        /\ priority' = [f \in Features |-> [k \in DOMAIN ls_list[f] |->
                          MaxOf(max_priority', ls_list[f][k])]]
    BY <1>2 DEF SetLinePriorities, Given
  <2> PICK mp : mp = max_priority' OBVIOUS
  <2>2. \A id \in DOMAIN mp : mp[id] \in Int
    BY <2>1, GivenTyped DEF TypeInv, MaximaTyped
  <2>3. \A id : MaxOf(mp, id) \in Int BY <2>2, LineDisplayAssumption DEF MaxOf
  <2>4. priority' = [f \in Features |-> [k \in DOMAIN ls_list[f] |->
                       MaxOf(mp, ls_list[f][k])]]
    BY <2>1
  <2> QED BY <2>2, <2>3, <2>4 DEF MaximaTyped, PrioritiesTyped
<1> QED BY <1>1, <1>2

LEMMA TypeStep == ASSUME DisplayInv, TypeInv, [Next]_vars PROVE TypeInv'
<1>1. CASE GNext /\ UNCHANGED dvars
  <2>1. version' = version
    BY <1>1 DEF GNext, ValidateHashmaps, CountPoints, WalkSegment, FinishObject, Allocate,
           CopyEdge, CopyConnectors, ReleaseHashes, input
  <2> QED BY <1>1, <2>1 DEF TypeInv, OptionsTyped, MaximaTyped, PrioritiesTyped, dvars
<1>2. ASSUME NEW cat \in Categories, NEW off \in NoshowSets, NEW s \in Styles,
             NEW bnd \in {marinerStyle, s}, SetOptions(cat, off, s, bnd)
      PROVE  TypeInv'
  <2>1. /\ UNCHANGED <<version, hidden, prioritySet, dpri, max_priority, priority>>
        /\ category' = cat /\ noshow' = off /\ marinerStyle' = bnd
    BY <1>2 DEF SetOptions, input
  <2> QED BY <2>1 DEF TypeInv, OptionsTyped, MaximaTyped, PrioritiesTyped
<1>3. ASSUME NEW h \in HiddenSets, MoveView(h) PROVE TypeInv'
  <2>1. /\ UNCHANGED <<version, category, noshow, marinerStyle, prioritySet, dpri,
                       max_priority, priority>>
        /\ hidden' = h
    BY <1>3 DEF MoveView, gvars
  <2> QED BY <2>1 DEF TypeInv, OptionsTyped, MaximaTyped, PrioritiesTyped
<1>4. CASE Render
  <2>1. /\ UNCHANGED <<version, category, noshow, hidden, marinerStyle, dpri>>
        /\ prioritySet' = TRUE
    BY <1>4 DEF Render, input
  <2>2. \E raz, set : SetLinePriorities(raz, set) BY <1>4 DEF Render
  <2>3. MaximaTyped' /\ PrioritiesTyped' BY <2>2, SetPrioritiesTyped
  <2> QED BY <2>1, <2>3 DEF TypeInv, OptionsTyped
<1>5. CASE UNCHANGED vars
  <2>1. UNCHANGED <<version, category, noshow, hidden, marinerStyle, prioritySet, dpri,
                    max_priority, priority>>
    BY <1>5 DEF vars, gvars, dvars
  <2> QED BY <2>1 DEF TypeInv, OptionsTyped, MaximaTyped, PrioritiesTyped
<1> QED BY <1>1, <1>2, <1>3, <1>4, <1>5 DEF Next

LEMMA TypeInvariant == Spec => [](DisplayInv /\ TypeInv)
<1>1. Init => DisplayInv /\ TypeInv BY DisplayInit, TypeInit
<1>2. (DisplayInv /\ TypeInv) /\ [Next]_vars => (DisplayInv /\ TypeInv)'
  BY DisplayStep, TypeStep
<1> QED BY <1>1, <1>2, PTL DEF Spec

(***************************************************************************)
(* TypeOK, for every chart: the line data keep their types, and no object  *)
(* is filed outside the levels, which start at 0 (_insertRules).           *)
(***************************************************************************)
THEOREM LinesTyped == Spec => []TypeOK
<1>1. DisplayInv /\ TypeInv /\ BufferInv => TypeOK
  BY DEF DisplayInv, Filed, Filings, Cells, TypeInv, OptionsTyped, PrioritiesTyped,
         BufferInv, HashTyped, CountsTyped, TypeOK, GeometryTypeOK
<1> QED BY <1>1, TypeInvariant, BufferInvariant, PTL

(***************************************************************************)
(* The lines between the points of a segment.                              *)
(***************************************************************************)
NodeAt(n) == <<"node", n>>
FirstPoint(e, fwd) == <<"edge", e, IF fwd THEN 1 ELSE EdgeSize[e]>>
LastPoint(e, fwd) == <<"edge", e, IF fwd THEN EdgeSize[e] ELSE 1>>
EdgeLines(e) == LinesOf(EdgePoints(e, EdgeSize[e]))

LEMMA ReversedLines ==
  ASSUME NEW n \in Nat \ {0}, NEW p, IsSequence(p), Len(p) = n
  PROVE  /\ IsSequence(Reverse(p)) /\ Len(Reverse(p)) = n
         /\ Reverse(p)[1] = p[n] /\ Reverse(p)[n] = p[1]
         /\ LinesOf(Reverse(p)) = LinesOf(p)
<1> PICK r : r = Reverse(p) OBVIOUS
<1>1. r = [i \in 1..n |-> p[(n - i) + 1]] BY DEF Reverse
<1>2. IsSequence(r) /\ Len(r) = n
  <2>1. r \in [1..n -> {p[i] : i \in 1..n}] BY <1>1
  <2> QED BY <2>1, Numbered
<1>3. r[1] = p[n] /\ r[n] = p[1] BY <1>1
<1>4. ASSUME NEW i \in 1..(n - 1)
      PROVE  /\ n - i \in 1..(n - 1)
             /\ {r[i], r[i + 1]} = {p[n - i], p[(n - i) + 1]}
             /\ {p[i], p[i + 1]} = {r[n - i], r[(n - i) + 1]}
  <2>1. n - i \in 1..(n - 1) /\ i \in 1..n /\ i + 1 \in 1..n
        /\ n - i \in 1..n /\ (n - i) + 1 \in 1..n
    OBVIOUS
  <2>2. r[i] = p[(n - i) + 1] /\ r[i + 1] = p[n - i] BY <1>1, <2>1
  <2>3. r[n - i] = p[i + 1] /\ r[(n - i) + 1] = p[i] BY <1>1, <2>1
  <2> QED BY <2>1, <2>2, <2>3
<1>5. LinesOf(r) = {{r[i], r[i + 1]} : i \in 1..(n - 1)} BY <1>2 DEF LinesOf
<1>6. LinesOf(p) = {{p[i], p[i + 1]} : i \in 1..(n - 1)} BY DEF LinesOf
<1>7. LinesOf(r) \subseteq LinesOf(p)
  <2> SUFFICES ASSUME NEW i \in 1..(n - 1) PROVE {r[i], r[i + 1]} \in LinesOf(p) BY <1>5
  <2>1. n - i \in 1..(n - 1) BY <1>4
  <2>2. {p[n - i], p[(n - i) + 1]} \in LinesOf(p) BY <1>6, <2>1
  <2> QED BY <1>4, <2>2
<1>8. LinesOf(p) \subseteq LinesOf(r)
  <2> SUFFICES ASSUME NEW i \in 1..(n - 1) PROVE {p[i], p[i + 1]} \in LinesOf(r) BY <1>6
  <2>1. n - i \in 1..(n - 1) BY <1>4
  <2>2. {r[n - i], r[(n - i) + 1]} \in LinesOf(r) BY <1>5, <2>1
  <2> QED BY <1>4, <2>2
<1> QED BY <1>2, <1>3, <1>7, <1>8

LEMMA ConsLines ==
  ASSUME NEW n \in Nat \ {0}, NEW p, IsSequence(p), Len(p) = n, NEW a
  PROVE  LinesOf(<<a>> \o p) = {{a, p[1]}} \cup LinesOf(p)
<1> PICK S : p \in Seq(S) BY DEF IsSequence
<1> PICK c : c = <<a>> \o p OBVIOUS
<1>1. <<a>> \in Seq(S \cup {a}) /\ p \in Seq(S \cup {a}) OBVIOUS
<1>2. Len(c) = n + 1 /\ c[1] = a /\ \A i \in 1..n : c[i + 1] = p[i] BY <1>1
<1>3. LinesOf(c) = {{c[i], c[i + 1]} : i \in 1..n}
  <2>1. Len(c) - 1 = n BY <1>2
  <2> QED BY <2>1 DEF LinesOf
<1>4. LinesOf(p) = {{p[i], p[i + 1]} : i \in 1..(n - 1)} BY DEF LinesOf
<1>5. {c[1], c[1 + 1]} = {a, p[1]} /\ 1 \in 1..n BY <1>2
<1>6. ASSUME NEW i \in 1..(n - 1)
      PROVE  i + 1 \in 1..n /\ {c[i + 1], c[(i + 1) + 1]} = {p[i], p[i + 1]}
  BY <1>2
<1>7. ASSUME NEW i \in 1..n, i # 1
      PROVE  i - 1 \in 1..(n - 1) /\ {c[i], c[i + 1]} = {p[i - 1], p[(i - 1) + 1]}
  <2>1. i - 1 \in 1..(n - 1) BY <1>7
  <2> QED BY <1>6, <2>1
<1>8. {{a, p[1]}} \cup LinesOf(p) \subseteq LinesOf(c)
  <2>1. {a, p[1]} \in LinesOf(c) BY <1>3, <1>5
  <2>2. ASSUME NEW i \in 1..(n - 1) PROVE {p[i], p[i + 1]} \in LinesOf(c)
    <3>1. i + 1 \in 1..n BY <1>6
    <3>2. {c[i + 1], c[(i + 1) + 1]} \in LinesOf(c) BY <1>3, <3>1
    <3> QED BY <1>6, <3>2
  <2> QED BY <1>4, <2>1, <2>2
<1>9. LinesOf(c) \subseteq {{a, p[1]}} \cup LinesOf(p)
  <2> SUFFICES ASSUME NEW i \in 1..n PROVE {c[i], c[i + 1]} \in {{a, p[1]}} \cup LinesOf(p)
    BY <1>3
  <2>1. CASE i = 1 BY <1>5, <2>1
  <2>2. CASE i # 1 BY <1>4, <1>7, <2>2
  <2> QED BY <2>1, <2>2
<1> QED BY <1>8, <1>9

LEMMA SnocLines ==
  ASSUME NEW n \in Nat \ {0}, NEW p, IsSequence(p), Len(p) = n, NEW b
  PROVE  LinesOf(p \o <<b>>) = LinesOf(p) \cup {{p[n], b}}
<1> PICK S : p \in Seq(S) BY DEF IsSequence
<1> PICK c : c = p \o <<b>> OBVIOUS
<1>1. <<b>> \in Seq(S \cup {b}) /\ p \in Seq(S \cup {b}) OBVIOUS
<1>2. Len(c) = n + 1 /\ c[n + 1] = b /\ \A i \in 1..n : c[i] = p[i] BY <1>1
<1>3. LinesOf(c) = {{c[i], c[i + 1]} : i \in 1..n}
  <2>1. Len(c) - 1 = n BY <1>2
  <2> QED BY <2>1 DEF LinesOf
<1>4. LinesOf(p) = {{p[i], p[i + 1]} : i \in 1..(n - 1)} BY DEF LinesOf
<1>5. {c[n], c[n + 1]} = {p[n], b} /\ n \in 1..n BY <1>2
<1>6. ASSUME NEW i \in 1..n, i # n
      PROVE  i \in 1..(n - 1) /\ {c[i], c[i + 1]} = {p[i], p[i + 1]}
  <2>1. i \in 1..(n - 1) /\ i + 1 \in 1..n BY <1>6
  <2> QED BY <1>2, <2>1
<1>7. \A i \in 1..(n - 1) : i \in 1..n /\ i # n OBVIOUS
<1>8. LinesOf(p) \cup {{p[n], b}} \subseteq LinesOf(c)
  <2>1. {p[n], b} \in LinesOf(c) BY <1>3, <1>5
  <2>2. ASSUME NEW i \in 1..(n - 1) PROVE {p[i], p[i + 1]} \in LinesOf(c)
    <3>1. i \in 1..n /\ {c[i], c[i + 1]} = {p[i], p[i + 1]} BY <1>6, <1>7
    <3>2. {c[i], c[i + 1]} \in LinesOf(c) BY <1>3, <3>1
    <3> QED BY <3>1, <3>2
  <2> QED BY <1>4, <2>1, <2>2
<1>9. LinesOf(c) \subseteq LinesOf(p) \cup {{p[n], b}}
  <2>1. ASSUME NEW i \in 1..n, i # n PROVE {c[i], c[i + 1]} \in LinesOf(p) BY <1>4, <1>6, <2>1
  <2>2. \A i \in 1..n : {c[i], c[i + 1]} \in LinesOf(p) \cup {{p[n], b}} BY <1>5, <2>1
  <2>3. ASSUME NEW x \in LinesOf(c) PROVE x \in LinesOf(p) \cup {{p[n], b}}
    <3>1. PICK i \in 1..n : x = {c[i], c[i + 1]} BY <1>3, <2>3, Zenon
    <3> QED BY <2>2, <3>1
  <2> QED BY <2>3
<1> QED BY <1>8, <1>9

LEMMA OnePoint == ASSUME NEW a PROVE IsSequence(<<a>>) /\ Len(<<a>>) = 1 /\ <<a>>[1] = a
<1>1. <<a>> \in Seq({a}) OBVIOUS
<1> QED BY <1>1 DEF IsSequence

LEMMA ConsPoint ==
  ASSUME NEW n \in Nat \ {0}, NEW p, IsSequence(p), Len(p) = n, NEW a
  PROVE  /\ IsSequence(<<a>> \o p) /\ Len(<<a>> \o p) = n + 1
         /\ (<<a>> \o p)[n + 1] = p[n]
<1> PICK S : p \in Seq(S) BY DEF IsSequence
<1>1. <<a>> \in Seq(S \cup {a}) /\ p \in Seq(S \cup {a}) OBVIOUS
<1>2. <<a>> \o p \in Seq(S \cup {a}) BY <1>1
<1>3. Len(<<a>> \o p) = n + 1 /\ (<<a>> \o p)[n + 1] = p[n] BY <1>1
<1> QED BY <1>2, <1>3 DEF IsSequence

LEMMA BothEnds ==
  ASSUME NEW n \in Nat \ {0}, NEW p, IsSequence(p), Len(p) = n, NEW a, NEW b
  PROVE  LinesOf((<<a>> \o p) \o <<b>>) = {{a, p[1]}} \cup LinesOf(p) \cup {{p[n], b}}
<1>1. LinesOf(<<a>> \o p) = {{a, p[1]}} \cup LinesOf(p) BY ConsLines
<1>2. IsSequence(<<a>> \o p) /\ Len(<<a>> \o p) = n + 1 /\ (<<a>> \o p)[n + 1] = p[n]
  BY ConsPoint
<1>3. ASSUME NEW m \in Nat \ {0}, NEW q, IsSequence(q), Len(q) = m
      PROVE  LinesOf(q \o <<b>>) = LinesOf(q) \cup {{q[m], b}}
  BY <1>3, SnocLines
<1> PICK m \in Nat \ {0} : m = n + 1 OBVIOUS
<1> PICK q : q = <<a>> \o p OBVIOUS
<1>4. IsSequence(q) /\ Len(q) = m /\ q[m] = p[n] BY <1>2
<1>5. LinesOf(q \o <<b>>) = LinesOf(q) \cup {{q[m], b}} BY <1>3, <1>4
<1> QED BY <1>1, <1>4, <1>5

LEMMA TwoPoints ==
  ASSUME NEW a, NEW b PROVE LinesOf(<<a>> \o <<b>>) = {{a, b}} /\ LinesOf(<<a>>) = {}
<1>0. LinesOf(<<a>>) = {} BY DEF LinesOf
<1>1. ASSUME NEW p, IsSequence(p), Len(p) = 1
      PROVE  LinesOf(p \o <<b>>) = LinesOf(p) \cup {{p[1], b}}
  <2>1. 1 \in Nat \ {0} OBVIOUS
  <2> QED BY <1>1, <2>1, SnocLines
<1> PICK p : p = <<a>> OBVIOUS
<1>2. IsSequence(p) /\ Len(p) = 1 /\ p[1] = a BY OnePoint
<1>3. LinesOf(p \o <<b>>) = LinesOf(p) \cup {{p[1], b}} BY <1>1, <1>2
<1> QED BY <1>0, <1>2, <1>3

LEMMA EdgeTurned ==
  ASSUME NEW e \in Edges, NEW fwd \in BOOLEAN
  PROVE  LET p == Turned(EdgePoints(e, EdgeSize[e]), fwd)
         IN  /\ IsSequence(p) /\ Len(p) = EdgeSize[e]
             /\ p[1] = FirstPoint(e, fwd) /\ p[EdgeSize[e]] = LastPoint(e, fwd)
             /\ LinesOf(p) = EdgeLines(e)
<1> PICK n \in Nat \ {0} : n = EdgeSize[e] BY LineGeometryAssumption
<1> PICK p : p = EdgePoints(e, n) OBVIOUS
<1>1. p = [k \in 1..n |-> <<"edge", e, k>>] BY DEF EdgePoints
<1>2. IsSequence(p) /\ Len(p) = n
  <2>1. p \in [1..n -> {<<"edge", e, k>> : k \in 1..n}] BY <1>1
  <2> QED BY <2>1, Numbered
<1>3. p[1] = <<"edge", e, 1>> /\ p[n] = <<"edge", e, n>> BY <1>1
<1>4. CASE fwd BY <1>2, <1>3, <1>4 DEF Turned, FirstPoint, LastPoint, EdgeLines
<1>5. CASE ~fwd
  <2>1. /\ IsSequence(Reverse(p)) /\ Len(Reverse(p)) = n
        /\ Reverse(p)[1] = p[n] /\ Reverse(p)[n] = p[1]
        /\ LinesOf(Reverse(p)) = LinesOf(p)
    BY <1>2, ReversedLines
  <2> QED BY <1>3, <1>5, <2>1 DEF Turned, FirstPoint, LastPoint, EdgeLines
<1> QED BY <1>4, <1>5

LEMMA ChainLines ==
  ASSUME NEW s, s.forward \in BOOLEAN
  PROVE  LET in == s.inode \in tables.nodes
             out == s.enode \in tables.nodes
             first == {{NodeAt(s.inode), FirstPoint(s.edge, s.forward)}}
             last == {{LastPoint(s.edge, s.forward), NodeAt(s.enode)}}
         IN  IF s.edge \in tables.edges /\ s.edge \in Edges
             THEN LinesOf(Chain(s)) = (IF in THEN first ELSE {}) \cup EdgeLines(s.edge)
                                      \cup (IF out THEN last ELSE {})
             ELSE s.edge \notin tables.edges =>
                  LinesOf(Chain(s)) = IF in /\ out THEN {{NodeAt(s.inode), NodeAt(s.enode)}}
                                      ELSE {}
<1> PICK a, b : a = NodeAt(s.inode) /\ b = NodeAt(s.enode) OBVIOUS
<1>0. /\ NodePoint(s.inode) = IF s.inode \in tables.nodes THEN <<a>> ELSE <<>>
      /\ NodePoint(s.enode) = IF s.enode \in tables.nodes THEN <<b>> ELSE <<>>
  BY DEF NodePoint, NodeAt
<1>1. CASE s.edge \in tables.edges /\ s.edge \in Edges
  <2> PICK n \in Nat \ {0} : n = EdgeSize[s.edge] BY <1>1, LineGeometryAssumption
  <2> PICK p : p = Turned(EdgePoints(s.edge, n), s.forward) OBVIOUS
  <2> PICK f, l : f = FirstPoint(s.edge, s.forward) /\ l = LastPoint(s.edge, s.forward)
    OBVIOUS
  <2> PICK L : L = EdgeLines(s.edge) OBVIOUS
  <2>1. IsSequence(p) /\ Len(p) = n /\ p[1] = f /\ p[n] = l /\ LinesOf(p) = L
    BY <1>1, EdgeTurned
  <2>2. LinesOf(p \o <<b>>) = L \cup {{l, b}} BY <2>1, SnocLines
  <2>3. LinesOf(<<a>> \o p) = {{a, f}} \cup L BY <2>1, ConsLines
  <2>4. LinesOf((<<a>> \o p) \o <<b>>) = {{a, f}} \cup L \cup {{l, b}}
    BY <2>1, BothEnds
  <2>5. p \o <<>> = p /\ <<>> \o p = p /\ (<<a>> \o p) \o <<>> = <<a>> \o p
    <3> PICK S : p \in Seq(S) BY <2>1 DEF IsSequence
    <3>1. <<a>> \in Seq(S \cup {a}) /\ p \in Seq(S \cup {a}) OBVIOUS
    <3>2. <<a>> \o p \in Seq(S \cup {a}) BY <3>1
    <3> QED BY <3>1, <3>2
  <2>6. Chain(s) = NodePoint(s.inode) \o p \o NodePoint(s.enode) BY <1>1 DEF Chain
  <2>7. LinesOf(Chain(s)) = (IF s.inode \in tables.nodes THEN {{a, f}} ELSE {}) \cup L
                            \cup (IF s.enode \in tables.nodes THEN {{l, b}} ELSE {})
    <3>1. CASE s.inode \in tables.nodes /\ s.enode \in tables.nodes
      BY <1>0, <2>4, <2>6, <3>1
    <3>2. CASE s.inode \in tables.nodes /\ s.enode \notin tables.nodes
      BY <1>0, <2>3, <2>5, <2>6, <3>2
    <3>3. CASE s.inode \notin tables.nodes /\ s.enode \in tables.nodes
      BY <1>0, <2>2, <2>5, <2>6, <3>3
    <3>4. CASE s.inode \notin tables.nodes /\ s.enode \notin tables.nodes
      BY <1>0, <2>1, <2>5, <2>6, <3>4
    <3> QED BY <3>1, <3>2, <3>3, <3>4
  <2> QED BY <1>1, <2>7
<1>2. CASE s.edge \notin tables.edges
  <2>1. Chain(s) = NodePoint(s.inode) \o <<>> \o NodePoint(s.enode) BY <1>2 DEF Chain
  <2>2. LinesOf(<<a>>) = {} /\ LinesOf(<<>>) = {}
    BY DEF LinesOf
  <2>3. LinesOf(<<a>> \o <<b>>) = {{a, b}} /\ LinesOf(<<b>>) = {}
    BY TwoPoints
  <2>4. <<a>> \o <<>> = <<a>> /\ <<>> \o <<>> = <<>> /\ <<>> \o <<b>> = <<b>>
    <3> DEFINE S == {a, b}
    <3>1. <<a>> \in Seq(S) /\ <<b>> \in Seq(S) /\ <<>> \in Seq(S) OBVIOUS
    <3> QED BY <3>1, ConcatEmptySeq
  <2>5. LinesOf(Chain(s)) = IF s.inode \in tables.nodes /\ s.enode \in tables.nodes
                            THEN {{a, b}} ELSE {}
    <3>1. CASE s.inode \in tables.nodes /\ s.enode \in tables.nodes
      BY <1>0, <2>1, <2>3, <2>4, <3>1
    <3>2. CASE s.inode \in tables.nodes /\ s.enode \notin tables.nodes
      <4>1. Chain(s) = <<a>> BY <1>0, <2>1, <2>4, <3>2
      <4> QED BY <2>2, <3>2, <4>1
    <3>3. CASE s.inode \notin tables.nodes /\ s.enode \in tables.nodes
      BY <1>0, <2>1, <2>3, <2>4, <3>3
    <3>4. CASE s.inode \notin tables.nodes /\ s.enode \notin tables.nodes
      BY <1>0, <2>1, <2>2, <2>4, <3>4
    <3> QED BY <3>1, <3>2, <3>3, <3>4
  <2> QED BY <1>0, <1>2, <2>5
<1> QED BY <1>1, <1>2

(***************************************************************************)
(* What the connectors of a segment are.                                   *)
(***************************************************************************)
NodeOf(e, fwd) == ends[e][IF fwd THEN 1 ELSE 2]
Ring(e) == NodeOf(e, TRUE) = NodeOf(e, FALSE)

\* The elements of a segment, by the tables of the file.
In(s) == s.inode \in tables.nodes
Out(s) == s.enode \in tables.nodes
Known(s) == s.edge \in tables.edges
EE(e) == <<"EE", e>>
MadeFor(s) == (IF In(s) /\ Known(s) THEN {CE(s)} ELSE {})
              \cup (IF In(s) /\ Out(s) /\ Known(s) THEN {EC(s)} ELSE {})
              \cup (IF In(s) /\ Out(s) /\ ~Known(s) THEN {CC(s)} ELSE {})
SegmentIds(s) == MadeFor(s) \cup (IF Known(s) THEN {EE(s.edge)} ELSE {})

IsSegment(s) ==
  /\ s.edge \in Edges /\ s.forward \in BOOLEAN
  /\ s.inode = NodeOf(s.edge, s.forward) /\ s.enode = NodeOf(s.edge, ~s.forward)

\* P gives the points of each connector.  A connector of a ring has been made
\* for the same direction as the one at the other end.
StartsAt(P, id, e, fwd) ==
  LET n == NodeOf(e, fwd)
      c == <<"EC", e, n>>
  IN  /\ id = <<"CE", n, e>> /\ P[id] = <<NodeAt(n), FirstPoint(e, fwd)>>
      /\ Ring(e) => c \in DOMAIN P /\ P[c] = <<LastPoint(e, fwd), NodeAt(n)>>
EndsAt(P, id, e, fwd) ==
  LET n == NodeOf(e, ~fwd)
  IN  /\ id = <<"EC", e, n>> /\ P[id] = <<LastPoint(e, fwd), NodeAt(n)>>
      /\ Ring(e) => <<"CE", n, e>> \in DOMAIN P
Joins(P, id, n, m) == id = <<"CC", n, m>> /\ P[id] = <<NodeAt(n), NodeAt(m)>>
Shaped(P) ==
  \A id \in DOMAIN P :
    \/ \E e : \E fwd \in BOOLEAN : StartsAt(P, id, e, fwd)
    \/ \E e : \E fwd \in BOOLEAN : EndsAt(P, id, e, fwd)
    \/ \E n, m : Joins(P, id, n, m)

\* P with what a segment makes.
Extended(P, Q, s) ==
  /\ DOMAIN Q = DOMAIN P \cup MadeFor(s)
  /\ \A id \in DOMAIN P : Q[id] = P[id]
  /\ CE(s) \in MadeFor(s) \ DOMAIN P
       => Q[CE(s)] = <<NodeAt(s.inode), FirstPoint(s.edge, s.forward)>>
  /\ EC(s) \in MadeFor(s) \ DOMAIN P
       => Q[EC(s)] = <<LastPoint(s.edge, s.forward), NodeAt(s.enode)>>
  /\ CC(s) \in MadeFor(s) \ DOMAIN P
       => Q[CC(s)] = <<NodeAt(s.inode), NodeAt(s.enode)>>

LEMMA Distinct ==
  ASSUME NEW s
  PROVE  /\ CE(s) # EC(s) /\ CE(s) # CC(s) /\ EC(s) # CC(s)
         /\ CE(s) \in MadeFor(s) <=> In(s) /\ Known(s)
         /\ EC(s) \in MadeFor(s) <=> In(s) /\ Out(s) /\ Known(s)
         /\ CC(s) \in MadeFor(s) <=> In(s) /\ Out(s) /\ ~Known(s)
  BY DEF CE, EC, CC, MadeFor

LEMMA ShapeOf ==
  ASSUME NEW P, Shaped(P), NEW id \in DOMAIN P
  PROVE  /\ id[1] = "CE" => \E e : \E fwd \in BOOLEAN : StartsAt(P, id, e, fwd)
         /\ id[1] = "EC" => \E e : \E fwd \in BOOLEAN : EndsAt(P, id, e, fwd)
         /\ id[1] = "CC" => \E n, m : Joins(P, id, n, m)
<1>1. \A e, fwd : StartsAt(P, id, e, fwd) => id[1] = "CE" BY DEF StartsAt
<1>2. \A e, fwd : EndsAt(P, id, e, fwd) => id[1] = "EC" BY DEF EndsAt
<1>3. \A n, m : Joins(P, id, n, m) => id[1] = "CC" BY DEF Joins
<1> QED BY <1>1, <1>2, <1>3 DEF Shaped

LEMMA ExtendedShape ==
  ASSUME NEW P, NEW Q, NEW s, Shaped(P), IsSegment(s), Extended(P, Q, s)
  PROVE  Shaped(Q)
<1> PICK e, f, n, m : e = s.edge /\ f = s.forward /\ n = s.inode /\ m = s.enode OBVIOUS
<1>0. f \in BOOLEAN /\ n = NodeOf(e, f) /\ m = NodeOf(e, ~f) BY DEF IsSegment
<1>1. /\ DOMAIN Q = DOMAIN P \cup MadeFor(s)
      /\ \A id \in DOMAIN P : Q[id] = P[id]
  BY DEF Extended
<1>2. ASSUME NEW id \in DOMAIN P
      PROVE  \/ \E e1 : \E fwd \in BOOLEAN : StartsAt(Q, id, e1, fwd)
             \/ \E e1 : \E fwd \in BOOLEAN : EndsAt(Q, id, e1, fwd)
             \/ \E n1, m1 : Joins(Q, id, n1, m1)
  <2>1. ASSUME NEW e1, NEW fwd \in BOOLEAN, StartsAt(P, id, e1, fwd)
        PROVE  StartsAt(Q, id, e1, fwd)
    BY <1>1, <2>1 DEF StartsAt
  <2>2. ASSUME NEW e1, NEW fwd \in BOOLEAN, EndsAt(P, id, e1, fwd)
        PROVE  EndsAt(Q, id, e1, fwd)
    BY <1>1, <2>2 DEF EndsAt
  <2>3. ASSUME NEW n1, NEW m1, Joins(P, id, n1, m1) PROVE Joins(Q, id, n1, m1)
    BY <1>1, <2>3 DEF Joins
  <2> QED BY <2>1, <2>2, <2>3 DEF Shaped
<1>3. Ring(e) => n = m BY <1>0 DEF Ring
<1>4. ASSUME CE(s) \in MadeFor(s) \ DOMAIN P PROVE StartsAt(Q, CE(s), e, f)
  <2>1. Q[CE(s)] = <<NodeAt(n), FirstPoint(e, f)>> BY <1>4 DEF Extended
  <2>2. ASSUME Ring(e)
        PROVE  EC(s) \in DOMAIN Q /\ Q[EC(s)] = <<LastPoint(e, f), NodeAt(n)>>
    <3>1. EC(s) \in MadeFor(s) BY <1>3, <1>4, <2>2, Distinct DEF In, Out
    <3>2. EC(s) \notin DOMAIN P
      <4> SUFFICES ASSUME EC(s) \in DOMAIN P PROVE FALSE OBVIOUS
      <4>1. EC(s) = <<"EC", e, m>> BY DEF EC
      <4>2. PICK e1 : \E fwd \in BOOLEAN : EndsAt(P, EC(s), e1, fwd) BY <4>1, ShapeOf
      <4> PICK fwd \in BOOLEAN : EndsAt(P, EC(s), e1, fwd) BY <4>2
      <4>3. e1 = e /\ NodeOf(e1, ~fwd) = m BY <4>1 DEF EndsAt
      <4>4. <<"CE", m, e>> \in DOMAIN P BY <2>2, <4>3 DEF EndsAt
      <4> QED BY <1>3, <1>4, <2>2, <4>4 DEF CE
    <3>3. Q[EC(s)] = <<LastPoint(e, f), NodeAt(m)>> BY <3>1, <3>2 DEF Extended
    <3> QED BY <1>1, <1>3, <2>2, <3>1, <3>3
  <2>3. CE(s) = <<"CE", n, e>> /\ (Ring(e) => EC(s) = <<"EC", e, n>>)
    BY <1>3 DEF CE, EC
  <2> QED BY <1>0, <2>1, <2>2, <2>3 DEF StartsAt
<1>5. ASSUME EC(s) \in MadeFor(s) \ DOMAIN P PROVE EndsAt(Q, EC(s), e, f)
  <2>1. Q[EC(s)] = <<LastPoint(e, f), NodeAt(m)>> BY <1>5 DEF Extended
  <2>2. CE(s) \in DOMAIN Q BY <1>1, <1>5, Distinct
  <2>3. EC(s) = <<"EC", e, m>> /\ (Ring(e) => CE(s) = <<"CE", m, e>>)
    BY <1>3 DEF CE, EC
  <2> QED BY <1>0, <2>1, <2>2, <2>3 DEF EndsAt
<1>6. ASSUME CC(s) \in MadeFor(s) \ DOMAIN P PROVE Joins(Q, CC(s), n, m)
  <2>1. Q[CC(s)] = <<NodeAt(n), NodeAt(m)>> /\ CC(s) = <<"CC", n, m>>
    BY <1>6 DEF Extended, CC
  <2> QED BY <2>1 DEF Joins
<1>7. ASSUME NEW id \in DOMAIN Q
      PROVE  \/ id \in DOMAIN P
             \/ id = CE(s) /\ id \in MadeFor(s) \ DOMAIN P
             \/ id = EC(s) /\ id \in MadeFor(s) \ DOMAIN P
             \/ id = CC(s) /\ id \in MadeFor(s) \ DOMAIN P
  BY <1>1 DEF MadeFor
<1>8. ASSUME NEW id \in DOMAIN Q
      PROVE  \/ \E e1 : \E fwd \in BOOLEAN : StartsAt(Q, id, e1, fwd)
             \/ \E e1 : \E fwd \in BOOLEAN : EndsAt(Q, id, e1, fwd)
             \/ \E n1, m1 : Joins(Q, id, n1, m1)
  <2>1. CASE id \in DOMAIN P BY <1>2, <2>1
  <2>2. CASE id = CE(s) /\ id \in MadeFor(s) \ DOMAIN P
    <3>1. StartsAt(Q, id, e, f) BY <1>4, <2>2
    <3>2. \E fwd \in BOOLEAN : StartsAt(Q, id, e, fwd) BY <1>0, <3>1
    <3> QED BY <3>2
  <2>3. CASE id = EC(s) /\ id \in MadeFor(s) \ DOMAIN P
    <3>1. EndsAt(Q, id, e, f) BY <1>5, <2>3
    <3>2. \E fwd \in BOOLEAN : EndsAt(Q, id, e, fwd) BY <1>0, <3>1
    <3> QED BY <3>2
  <2>4. CASE id = CC(s) /\ id \in MadeFor(s) \ DOMAIN P
    <3>1. Joins(Q, id, n, m) BY <1>6, <2>4
    <3> QED BY <3>1
  <2> QED BY <1>7, <2>1, <2>2, <2>3, <2>4
<1> QED BY <1>8 DEF Shaped

\* The lines an element draws.
LinesBy(P, id) == IF id[1] = "EE" THEN EdgeLines(id[2]) ELSE {{P[id][1], P[id][2]}}

LEMMA SegmentDrawn ==
  ASSUME NEW P, NEW s, Shaped(P), IsSegment(s), MadeFor(s) \subseteq DOMAIN P
  PROVE  LET drawn == UNION {LinesBy(P, id) : id \in SegmentIds(s)}
         IN  /\ drawn \subseteq LinesOf(Chain(s))
             /\ In(s) /\ Out(s) => drawn = LinesOf(Chain(s))
<1> PICK e, f, n, m : e = s.edge /\ f = s.forward /\ n = s.inode /\ m = s.enode OBVIOUS
<1>0. e \in Edges /\ f \in BOOLEAN /\ n = NodeOf(e, f) /\ m = NodeOf(e, ~f)
  BY DEF IsSegment
<1> PICK a, b, F, L : /\ a = NodeAt(n) /\ b = NodeAt(m)
                      /\ F = FirstPoint(e, f) /\ L = LastPoint(e, f)
  OBVIOUS
<1> PICK drawn : drawn = UNION {LinesBy(P, id) : id \in SegmentIds(s)} OBVIOUS
<1>1. Ring(e) => n = m BY <1>0 DEF Ring
<1>2. ASSUME NEW g \in BOOLEAN, NodeOf(e, g) = n \/ NodeOf(e, ~g) = m, ~Ring(e) PROVE g = f
  BY <1>0, <1>2 DEF Ring
<1>3. ASSUME Known(s), In(s) \/ Out(s)
      PROVE  /\ LinesBy(P, EE(e)) = EdgeLines(e)
             /\ In(s) /\ (~Out(s) \/ ~Ring(e)) => LinesBy(P, CE(s)) = {{a, F}}
             /\ In(s) /\ Out(s) /\ ~Ring(e) => LinesBy(P, EC(s)) = {{L, b}}
             /\ In(s) /\ Ring(e)
                => LinesBy(P, CE(s)) \cup LinesBy(P, EC(s)) = {{a, F}, {L, b}}
  <2>1. LinesBy(P, EE(e)) = EdgeLines(e) BY DEF LinesBy, EE
  <2>2. CE(s) = <<"CE", n, e>> /\ EC(s) = <<"EC", e, m>> BY DEF CE, EC
  <2>3. ASSUME In(s) PROVE \E g \in BOOLEAN : StartsAt(P, CE(s), e, g) /\ NodeOf(e, g) = n
    <3>1. CE(s) \in DOMAIN P BY <1>3, <2>3, Distinct
    <3>2. PICK e1 : \E g \in BOOLEAN : StartsAt(P, CE(s), e1, g) BY <2>2, <3>1, ShapeOf
    <3> PICK g \in BOOLEAN : StartsAt(P, CE(s), e1, g) BY <3>2
    <3>3. e1 = e /\ NodeOf(e1, g) = n BY <2>2 DEF StartsAt
    <3> QED BY <3>3
  <2>4. ASSUME In(s), ~Ring(e) PROVE LinesBy(P, CE(s)) = {{a, F}}
    <3>1. StartsAt(P, CE(s), e, f) BY <1>2, <2>3, <2>4
    <3>2. P[CE(s)] = <<a, F>> BY <1>0, <3>1 DEF StartsAt
    <3> QED BY <2>2, <3>2 DEF LinesBy
  <2>5. ASSUME In(s), Out(s), ~Ring(e) PROVE LinesBy(P, EC(s)) = {{L, b}}
    <3>1. EC(s) \in DOMAIN P BY <1>3, <2>5, Distinct
    <3>2. PICK e1 : \E g \in BOOLEAN : EndsAt(P, EC(s), e1, g) BY <2>2, <3>1, ShapeOf
    <3> PICK g \in BOOLEAN : EndsAt(P, EC(s), e1, g) BY <3>2
    <3>3. e1 = e /\ NodeOf(e1, ~g) = m BY <2>2 DEF EndsAt
    <3>4. g = f BY <1>2, <2>5, <3>3
    <3>5. P[EC(s)] = <<L, b>> BY <1>0, <3>3, <3>4 DEF EndsAt
    <3> QED BY <2>2, <3>5 DEF LinesBy
  <2>6. ASSUME In(s), Ring(e)
        PROVE  LinesBy(P, CE(s)) \cup LinesBy(P, EC(s)) = {{a, F}, {L, b}}
    <3>1. PICK g \in BOOLEAN : StartsAt(P, CE(s), e, g) /\ NodeOf(e, g) = n BY <2>3, <2>6
    <3>2. a = b /\ EC(s) = <<"EC", e, n>> BY <1>1, <2>2, <2>6
    <3>3. P[CE(s)] = <<a, FirstPoint(e, g)>> /\ P[EC(s)] = <<LastPoint(e, g), a>>
      BY <2>6, <3>1, <3>2 DEF StartsAt
    <3>4. \/ FirstPoint(e, g) = F /\ LastPoint(e, g) = L
          \/ FirstPoint(e, g) = L /\ LastPoint(e, g) = F
      BY <1>0 DEF FirstPoint, LastPoint
    <3>5. LinesBy(P, CE(s)) = {{a, FirstPoint(e, g)}} /\ LinesBy(P, EC(s)) = {{LastPoint(e, g), a}}
      BY <2>2, <3>3 DEF LinesBy
    <3> QED BY <3>2, <3>4, <3>5
  <2>7. Ring(e) /\ In(s) => Out(s) BY <1>1 DEF In, Out
  <2> QED BY <2>1, <2>4, <2>5, <2>6, <2>7
<1>4. CASE Known(s)
  <2>1. LinesOf(Chain(s)) = (IF In(s) THEN {{a, F}} ELSE {}) \cup EdgeLines(e)
                            \cup (IF Out(s) THEN {{L, b}} ELSE {})
    <3>1. s.forward \in BOOLEAN /\ s.edge \in Edges BY DEF IsSegment
    <3>2. LinesOf(Chain(s))
          = (IF s.inode \in tables.nodes
             THEN {{NodeAt(s.inode), FirstPoint(s.edge, s.forward)}} ELSE {})
            \cup EdgeLines(s.edge)
            \cup (IF s.enode \in tables.nodes
                  THEN {{LastPoint(s.edge, s.forward), NodeAt(s.enode)}} ELSE {})
      BY <1>4, <3>1, ChainLines DEF Known
    <3> QED BY <3>2 DEF In, Out
  <2>2. SegmentIds(s) = {EE(e)} \cup (IF In(s) THEN {CE(s)} ELSE {})
                        \cup (IF In(s) /\ Out(s) THEN {EC(s)} ELSE {})
    BY <1>4 DEF SegmentIds, MadeFor
  <2>3. LinesBy(P, EE(e)) = EdgeLines(e) BY DEF LinesBy, EE
  <2>4. CASE ~In(s)
    <3>1. drawn = LinesBy(P, EE(e)) BY <2>2, <2>4
    <3> QED BY <2>1, <2>3, <2>4, <3>1
  <2>5. CASE In(s) /\ ~Out(s)
    <3>1. drawn = LinesBy(P, EE(e)) \cup LinesBy(P, CE(s)) BY <2>2, <2>5
    <3> QED BY <1>3, <1>4, <2>1, <2>5, <3>1
  <2>6. CASE In(s) /\ Out(s)
    <3>1. drawn = LinesBy(P, EE(e)) \cup LinesBy(P, CE(s)) \cup LinesBy(P, EC(s))
      BY <2>2, <2>6
    <3>2. LinesBy(P, CE(s)) \cup LinesBy(P, EC(s)) = {{a, F}} \cup {{L, b}}
      BY <1>3, <1>4, <2>6
    <3> QED BY <2>1, <2>3, <2>6, <3>1, <3>2
  <2> QED BY <2>4, <2>5, <2>6
<1>5. CASE ~Known(s)
  <2>1. LinesOf(Chain(s)) = IF In(s) /\ Out(s) THEN {{a, b}} ELSE {}
    <3>1. s.forward \in BOOLEAN BY DEF IsSegment
    <3>2. LinesOf(Chain(s))
          = IF s.inode \in tables.nodes /\ s.enode \in tables.nodes
            THEN {{NodeAt(s.inode), NodeAt(s.enode)}} ELSE {}
      BY <1>5, <3>1, ChainLines DEF Known
    <3> QED BY <3>2 DEF In, Out
  <2>2. CASE In(s) /\ Out(s)
    <3>1. SegmentIds(s) = {CC(s)} BY <1>5, <2>2 DEF SegmentIds, MadeFor
    <3>2. CC(s) = <<"CC", n, m>> /\ CC(s) \in DOMAIN P
      BY <1>5, <2>2, Distinct DEF CC
    <3>3. PICK n1, m1 : Joins(P, CC(s), n1, m1) BY <3>2, ShapeOf
    <3>4. P[CC(s)] = <<a, b>> BY <3>2, <3>3 DEF Joins
    <3>5. LinesBy(P, CC(s)) = {{a, b}} BY <3>2, <3>4 DEF LinesBy
    <3>6. drawn = LinesBy(P, CC(s)) BY <3>1
    <3> QED BY <2>1, <2>2, <3>5, <3>6
  <2>3. CASE ~(In(s) /\ Out(s))
    <3>1. SegmentIds(s) = {} BY <1>5, <2>3 DEF SegmentIds, MadeFor
    <3> QED BY <2>3, <3>1
  <2> QED BY <2>2, <2>3
<1> QED BY <1>4, <1>5

(***************************************************************************)
(* What a step of the walk makes.                                          *)
(***************************************************************************)
Content(off, prs) == [id \in Connectors(off) |-> prs[off[id] + 1]]
Gains(C, R, xs) ==
  /\ DOMAIN R = DOMAIN C \cup {x.id : x \in {y \in xs : y.pair # <<>>}}
  /\ \A id \in DOMAIN C : R[id] = C[id]
  /\ \A x \in xs : x.pair # <<>> /\ x.id \notin DOMAIN C => R[x.id] = x.pair

LEMMA ConnectContent ==
  ASSUME NEW m, Connected(m.offset, m.pairs), NoEdges(m.offset), NEW x, IsElement(x)
  PROVE  LET r == Connect(m, x)
         IN  Gains(Content(m.offset, m.pairs), Content(r.offset, r.pairs), {x})
<1> DEFINE r == Connect(m, x)
<1> PICK C : C = Content(m.offset, m.pairs) OBVIOUS
<1>0. Len(m.pairs) \in Nat BY Appended DEF Connected
<1>1. DOMAIN C = DOMAIN m.offset /\ \A id \in DOMAIN C : C[id] = m.pairs[m.offset[id] + 1]
  BY DEF Content, NoEdges
<1>2. CASE x.pair = <<>> \/ x.id \in DOMAIN m.offset
  <2>1. r = m BY <1>2 DEF Connect
  <2>2. Content(r.offset, r.pairs) = C BY <2>1
  <2>3. \A y \in {x} : y = x OBVIOUS
  <2>4. DOMAIN C \cup {y.id : y \in {z \in {x} : z.pair # <<>>}} = DOMAIN C
    BY <1>1, <1>2
  <2>5. Gains(C, C, {x}) BY <1>1, <1>2, <2>4 DEF Gains
  <2> QED BY <2>2, <2>5
<1>3. CASE ~(x.pair = <<>> \/ x.id \in DOMAIN m.offset)
  <2> PICK id, p, n : id = x.id /\ p = x.pair /\ n = Len(m.pairs) OBVIOUS
  <2>1. /\ r.offset = With(m.offset, [i \in {id} |-> n])
        /\ r.pairs = Append(m.pairs, p)
    BY <1>3 DEF Connect
  <2> PICK off, prs : off = r.offset /\ prs = r.pairs OBVIOUS
  <2>2. id[1] # "EE" /\ id \notin DOMAIN m.offset /\ p # <<>>
    BY <1>3 DEF IsElement, Kinds
  <2>3. /\ DOMAIN off = DOMAIN m.offset \cup {id}
        /\ off[id] = n /\ \A i \in DOMAIN m.offset : off[i] = m.offset[i]
    BY <2>1, <2>2 DEF With
  <2>4. Connectors(off) = DOMAIN off
    BY <2>2, <2>3 DEF Connectors, NoEdges
  <2>5. \A i \in 1..n : prs[i] = m.pairs[i] BY <2>1, Appended DEF Connected
  <2>6. prs[n + 1] = p BY <2>1, Appended DEF Connected
  <2> PICK R : R = Content(off, prs) OBVIOUS
  <2>7. DOMAIN R = DOMAIN C \cup {id} /\ R[id] = p
    BY <1>1, <2>3, <2>4, <2>6 DEF Content
  <2>8. ASSUME NEW i \in DOMAIN C PROVE R[i] = C[i]
    <3>1. i \in Connectors(m.offset) /\ i \in DOMAIN m.offset BY <1>1 DEF NoEdges
    <3>2. m.offset[i] \in 0..(n - 1) BY <3>1 DEF Connected
    <3>3. m.offset[i] + 1 \in 1..n BY <1>0, <3>2
    <3>4. R[i] = prs[off[i] + 1] BY <2>3, <2>4, <3>1 DEF Content
    <3> QED BY <1>1, <2>3, <2>5, <3>1, <3>3, <3>4
  <2>9. {y.id : y \in {z \in {x} : z.pair # <<>>}} = {id} BY <2>2
  <2>10. Gains(C, R, {x}) BY <2>7, <2>8, <2>9 DEF Gains
  <2> QED BY <2>10 DEF r
<1> QED BY <1>2, <1>3

UpTo(q, n) == {q[k] : k \in 1..n}

LEMMA ConnectAll ==
  ASSUME NEW e, Connected(e.offset, e.pairs), NoEdges(e.offset),
         NEW q, NEW n \in Nat, DOMAIN q = 1..n, \A k \in 1..n : IsElement(q[k]),
         \A j, k \in 1..n : q[j].id = q[k].id => q[j] = q[k]
  PROVE  LET r == FoldLeft(Connect, e, q)
         IN  Gains(Content(e.offset, e.pairs), Content(r.offset, r.pairs), UpTo(q, n))
<1> PICK r : r = FoldLeft(Connect, e, q) OBVIOUS
<1> PICK C : C = Content(e.offset, e.pairs) OBVIOUS
<1>0. Folds(Connecting, n, e, q, FoldLeft(Connect, e, q)) BY ConnectFolds
<1> PICK h : AreStates(Connecting, h, n, e, q, r) BY <1>0 DEF Folds
<1>1. /\ h[0] = e /\ h[n] = r
      /\ \A k \in 0..(n - 1) : h[k + 1] = Connect(h[k], q[k + 1])
  BY DEF AreStates, Apply, Connecting
<1> DEFINE xs(k) == {q[j] : j \in 1..k}
           P(k) == /\ Connected(h[k].offset, h[k].pairs) /\ NoEdges(h[k].offset)
                   /\ Gains(C, Content(h[k].offset, h[k].pairs), xs(k))
           T == {k \in Nat : k <= n => P(k)}
<1>2. 0 \in T
  <2>1. xs(0) = {} OBVIOUS
  <2>2. Gains(C, C, {}) BY DEF Gains
  <2>3. P(0) BY <1>1, <2>1, <2>2
  <2> QED BY <2>3
<1>3. ASSUME NEW k \in Nat, k \in T PROVE k + 1 \in T
  <2> SUFFICES ASSUME k + 1 <= n PROVE P(k + 1) OBVIOUS
  <2>1. P(k) /\ k \in 0..(n - 1) /\ k + 1 \in 1..n BY <1>3
  <2>2. IsElement(q[k + 1]) BY <2>1
  <2> PICK m, x : m = h[k] /\ x = q[k + 1] OBVIOUS
  <2> PICK s : s = Connect(m, x) OBVIOUS
  <2>3. h[k + 1] = s BY <1>1, <2>1
  <2>4. Connected(s.offset, s.pairs) /\ NoEdges(s.offset)
    BY <2>1, <2>2, ConnectGives
  <2>5. Gains(Content(m.offset, m.pairs), Content(s.offset, s.pairs), {x})
    BY <2>1, <2>2, ConnectContent
  <2> PICK M, R : M = Content(m.offset, m.pairs) /\ R = Content(s.offset, s.pairs) OBVIOUS
  <2> PICK X : X = xs(k) OBVIOUS
  <2>6. Gains(C, M, X) /\ Gains(M, R, {x}) BY <2>1, <2>5
  <2>7. xs(k + 1) = X \cup {x}
    <3>1. \A j \in 1..(k + 1) : j \in 1..k \/ j = k + 1 OBVIOUS
    <3>2. \A j \in 1..k : j \in 1..(k + 1) OBVIOUS
    <3>3. k + 1 \in 1..(k + 1) OBVIOUS
    <3> QED BY <3>1, <3>2, <3>3
  <2>8. \A y \in X : y.id = x.id => y = x
    <3>1. \A j \in 1..k : j \in 1..n BY <2>1
    <3> QED BY <2>1, <3>1
  <2>9. DOMAIN R = DOMAIN C \cup {y.id : y \in {z \in X \cup {x} : z.pair # <<>>}}
    BY <2>6 DEF Gains
  <2>10. \A id \in DOMAIN C : R[id] = C[id] BY <2>6 DEF Gains
  <2>11. ASSUME NEW y \in X \cup {x}, y.pair # <<>>, y.id \notin DOMAIN C
         PROVE  R[y.id] = y.pair
    <3>1. CASE y \in X BY <2>6, <2>11, <3>1 DEF Gains
    <3>2. CASE y = x /\ y \notin X
      <4>1. x.id \notin DOMAIN M BY <2>6, <2>8, <2>11, <3>2 DEF Gains
      <4> QED BY <2>6, <2>11, <3>2, <4>1 DEF Gains
    <3> QED BY <3>1, <3>2
  <2>12. Gains(C, R, X \cup {x}) BY <2>9, <2>10, <2>11 DEF Gains
  <2> QED BY <2>3, <2>4, <2>7, <2>12
<1>4. P(n)
  <2>1. n \in T
    <3> HIDE DEF T
    <3> QED BY <1>2, <1>3, InductionOn
  <2> QED BY <2>1
<1>5. xs(n) = UpTo(q, n) BY DEF UpTo
<1> QED BY <1>1, <1>4, <1>5

LEMMA Ranges ==
  ASSUME NEW s, NEW t, IsSequence(s), IsSequence(t)
  PROVE  ToSet(s \o t) = ToSet(s) \cup ToSet(t)
<1> PICK S : s \in Seq(S) BY DEF IsSequence
<1> PICK T : t \in Seq(T) BY DEF IsSequence
<1>1. s \in Seq(S \cup T) /\ t \in Seq(S \cup T) OBVIOUS
<1> PICK n, m, r : n = Len(s) /\ m = Len(t) /\ r = s \o t OBVIOUS
<1>2. n \in Nat /\ m \in Nat /\ DOMAIN s = 1..n /\ DOMAIN t = 1..m /\ DOMAIN r = 1..(n + m)
  BY <1>1
<1>3. (\A i \in 1..n : r[i] = s[i]) /\ \A i \in 1..m : r[n + i] = t[i] BY <1>1
<1>4. \A i \in 1..(n + m) : i \in 1..n \/ (i - n \in 1..m /\ n + (i - n) = i) BY <1>2
<1>5. \A i \in 1..n : i \in 1..(n + m) BY <1>2
<1>6. \A i \in 1..m : n + i \in 1..(n + m) BY <1>2
<1>7. ToSet(r) \subseteq ToSet(s) \cup ToSet(t)
  <2> SUFFICES ASSUME NEW i \in 1..(n + m) PROVE r[i] \in ToSet(s) \cup ToSet(t)
    BY <1>2 DEF ToSet
  <2>1. CASE i \in 1..n BY <1>2, <1>3, <2>1 DEF ToSet
  <2>2. CASE i - n \in 1..m /\ n + (i - n) = i
    <3>1. r[i] = t[i - n] BY <1>3, <2>2
    <3> QED BY <1>2, <2>2, <3>1 DEF ToSet
  <2> QED BY <1>4, <2>1, <2>2
<1>8. \A i \in 1..n : s[i] \in ToSet(r) BY <1>2, <1>3, <1>5 DEF ToSet
<1>9. \A i \in 1..m : t[i] \in ToSet(r)
  <2> SUFFICES ASSUME NEW i \in 1..m PROVE t[i] \in ToSet(r) OBVIOUS
  <2>1. n + i \in DOMAIN r /\ r[n + i] = t[i] BY <1>2, <1>3, <1>6
  <2> QED BY <2>1 DEF ToSet
<1>10. ToSet(s) \cup ToSet(t) \subseteq ToSet(r) BY <1>2, <1>8, <1>9 DEF ToSet
<1> QED BY <1>7, <1>10

(***************************************************************************)
(* The elements of a segment, by the tables of the file.                   *)
(***************************************************************************)
\* The hash maps agree with the tables of the file until they are cleared.
HashRight ==
  /\ tables.nodes \subseteq Nodes /\ tables.edges \subseteq Edges
  /\ \A e \in tables.edges : e \in DOMAIN ve_hash /\ ve_hash[e] = EdgeSize[e]
  /\ \A e \in DOMAIN ve_hash \ tables.edges : ve_hash[e] \in {0, Null}
NodesRight == \A n : NodeThere(n) <=> n \in tables.nodes

\* The elements of a segment, by the tables.
First(s) == [id |-> CE(s), pair |-> <<NodeAt(s.inode), FirstPoint(s.edge, s.forward)>>]
Middle(s) == [id |-> EE(s.edge), pair |-> <<>>]
End(s) == [id |-> EC(s), pair |-> <<LastPoint(s.edge, s.forward), NodeAt(s.enode)>>]
Whole(s) == [id |-> CC(s), pair |-> <<NodeAt(s.inode), NodeAt(s.enode)>>]
ElementSet(s) ==
  (IF In(s) /\ Known(s) THEN {First(s)} ELSE {}) \cup (IF Known(s) THEN {Middle(s)} ELSE {})
  \cup (IF In(s) /\ Out(s) /\ Known(s) THEN {End(s)} ELSE {})
  \cup (IF In(s) /\ Out(s) /\ ~Known(s) THEN {Whole(s)} ELSE {})

LEMMA OneOrNone ==
  ASSUME NEW c \in BOOLEAN, NEW x
  PROVE  LET q == IF c THEN <<x>> ELSE <<>>
         IN  IsSequence(q) /\ ToSet(q) = IF c THEN {x} ELSE {}
<1>1. <<x>> \in Seq({x}) /\ <<>> \in Seq({x}) OBVIOUS
<1>2. DOMAIN <<x>> = {1} /\ <<x>>[1] = x /\ DOMAIN <<>> = {} OBVIOUS
<1>3. ToSet(<<x>>) = {x} /\ ToSet(<<>>) = {} BY <1>2 DEF ToSet
<1> QED BY <1>1, <1>3 DEF IsSequence

LEMMA ThreeRanges ==
  ASSUME NEW a, NEW b, NEW c, IsSequence(a), IsSequence(b), IsSequence(c)
  PROVE  IsSequence(a \o b \o c) /\ ToSet(a \o b \o c) = ToSet(a) \cup ToSet(b) \cup ToSet(c)
<1> PICK d : d = a \o b OBVIOUS
<1>1. IsSequence(a \o b) /\ ToSet(a \o b) = ToSet(a) \cup ToSet(b) BY Concatenated, Ranges
<1>2. ASSUME NEW z, IsSequence(z) PROVE IsSequence(z \o c) /\ ToSet(z \o c) = ToSet(z) \cup ToSet(c)
  BY <1>2, Concatenated, Ranges
<1>3. IsSequence(d) /\ ToSet(d) = ToSet(a) \cup ToSet(b) BY <1>1
<1>4. IsSequence(d \o c) /\ ToSet(d \o c) = ToSet(d) \cup ToSet(c) BY <1>2, <1>3
<1> QED BY <1>3, <1>4

LEMMA KnownThere ==
  ASSUME HashRight, NodesRight, NEW s
  PROVE  /\ EdgeThere(s) <=> Known(s)
         /\ Known(s) => ve_hash[s.edge] = EdgeSize[s.edge]
         /\ NodeThere(s.inode) <=> In(s)
         /\ NodeThere(s.enode) <=> Out(s)
<1>1. NodeThere(s.inode) <=> In(s) BY DEF NodesRight, In
<1>2. NodeThere(s.enode) <=> Out(s) BY DEF NodesRight, Out
<1>3. CASE Known(s)
  <2>1. /\ s.edge \in DOMAIN ve_hash /\ ve_hash[s.edge] = EdgeSize[s.edge]
        /\ s.edge \in Edges
    BY <1>3 DEF HashRight, Known
  <2>2. EdgeSize[s.edge] \in Nat \ {0} BY <2>1, LineGeometryAssumption
  <2> QED BY <1>1, <1>2, <1>3, <2>1, <2>2 DEF EdgeThere, PointsOf, Null
<1>4. CASE ~Known(s)
  <2>1. s.edge \in DOMAIN ve_hash => ve_hash[s.edge] \in {0, Null}
    BY <1>4 DEF HashRight, Known
  <2> QED BY <1>1, <1>2, <1>4, <2>1 DEF EdgeThere, PointsOf, Null
<1> QED BY <1>3, <1>4

LEMMA ElementsGive ==
  ASSUME HashRight, NodesRight, NEW s, s.forward \in BOOLEAN
  PROVE  ToSet(Elements(s)) = ElementSet(s)
<1>0. /\ EdgeThere(s) <=> Known(s)
      /\ Known(s) => ve_hash[s.edge] = EdgeSize[s.edge]
      /\ NodeThere(s.inode) <=> In(s)
      /\ NodeThere(s.enode) <=> Out(s)
  BY KnownThere
<1>1. Known(s) => /\ FirstOf(s) = FirstPoint(s.edge, s.forward)
                  /\ LastOf(s) = LastPoint(s.edge, s.forward)
  BY <1>0 DEF FirstOf, LastOf, FirstPoint, LastPoint
<1> PICK x, y, z, w : x = First(s) /\ y = Middle(s) /\ z = End(s) /\ w = Whole(s) OBVIOUS
<1> DEFINE a == IF In(s) /\ Known(s) THEN <<x>> ELSE <<>>
           b == IF Known(s) THEN <<y>> ELSE <<>>
           c == IF In(s) /\ Out(s) /\ Known(s) THEN <<z>> ELSE <<>>
           d == IF In(s) /\ Out(s) /\ ~Known(s) THEN <<w>> ELSE <<>>
           last == IF Known(s) THEN c ELSE d
<1>2. Elements(s) = a \o b \o last
  <2>1. a = IF NodeThere(s.inode) /\ EdgeThere(s)
            THEN << [id |-> CE(s), pair |-> << <<"node", s.inode>>, FirstOf(s)>>] >> ELSE <<>>
    BY <1>0, <1>1 DEF First, NodeAt
  <2>2. b = IF EdgeThere(s) THEN << [id |-> <<"EE", s.edge>>, pair |-> <<>>] >> ELSE <<>>
    BY <1>0 DEF Middle, EE
  <2>3. last = CASE NodeThere(s.inode) /\ NodeThere(s.enode) /\ EdgeThere(s) ->
                      << [id |-> EC(s), pair |-> <<LastOf(s), <<"node", s.enode>> >>] >>
                 [] NodeThere(s.inode) /\ NodeThere(s.enode) /\ ~EdgeThere(s) ->
                      << [id |-> CC(s), pair |-> << <<"node", s.inode>>, <<"node", s.enode>> >>] >>
                 [] OTHER -> <<>>
    <3>1. CASE In(s) /\ Out(s) /\ Known(s) BY <1>0, <1>1, <3>1 DEF End, NodeAt
    <3>2. CASE In(s) /\ Out(s) /\ ~Known(s) BY <1>0, <3>2 DEF Whole, NodeAt
    <3>3. CASE ~(In(s) /\ Out(s)) BY <1>0, <3>3
    <3> QED BY <3>1, <3>2, <3>3
  <2> HIDE DEF a, b, last
  <2> QED BY <2>1, <2>2, <2>3 DEF Elements
<1>3. IsSequence(a) /\ ToSet(a) = IF In(s) /\ Known(s) THEN {x} ELSE {}
  BY OneOrNone DEF In, Known
<1>4. IsSequence(b) /\ ToSet(b) = IF Known(s) THEN {y} ELSE {} BY OneOrNone DEF Known
<1>5. IsSequence(c) /\ ToSet(c) = IF In(s) /\ Out(s) /\ Known(s) THEN {z} ELSE {}
  BY OneOrNone DEF In, Out, Known
<1>6. IsSequence(d) /\ ToSet(d) = IF In(s) /\ Out(s) /\ ~Known(s) THEN {w} ELSE {}
  BY OneOrNone DEF In, Out, Known
<1>7. IsSequence(last) /\ ToSet(last) = (IF In(s) /\ Out(s) /\ Known(s) THEN {z} ELSE {})
                          \cup (IF In(s) /\ Out(s) /\ ~Known(s) THEN {w} ELSE {})
  <2> HIDE DEF c, d
  <2> QED BY <1>5, <1>6
<1> HIDE DEF a, b, last
<1>8. ToSet(a \o b \o last) = ToSet(a) \cup ToSet(b) \cup ToSet(last)
  BY <1>3, <1>4, <1>7, ThreeRanges
<1>9. ToSet(Elements(s)) = ToSet(a) \cup ToSet(b) \cup ToSet(last) BY <1>2, <1>8
<1> QED BY <1>3, <1>4, <1>7, <1>9 DEF ElementSet

LEMMA ElementsApart ==
  ASSUME NEW s
  PROVE  /\ \A x, y \in ElementSet(s) : x.id = y.id => x = y
         /\ {x.id : x \in {y \in ElementSet(s) : y.pair # <<>>}} = MadeFor(s)
         /\ {x.id : x \in ElementSet(s)} = SegmentIds(s)
<1> PICK x, y, z, w : x = First(s) /\ y = Middle(s) /\ z = End(s) /\ w = Whole(s) OBVIOUS
<1>1. /\ x.id = CE(s) /\ y.id = EE(s.edge) /\ z.id = EC(s) /\ w.id = CC(s)
      /\ x.pair # <<>> /\ y.pair = <<>> /\ z.pair # <<>> /\ w.pair # <<>>
  BY DEF First, Middle, End, Whole
<1>2. /\ CE(s) # EE(s.edge) /\ CE(s) # EC(s) /\ CE(s) # CC(s) /\ EE(s.edge) # EC(s)
      /\ EE(s.edge) # CC(s) /\ EC(s) # CC(s)
  BY DEF CE, EE, EC, CC
<1> PICK E : E = ElementSet(s) OBVIOUS
<1>3. E = (IF In(s) /\ Known(s) THEN {x} ELSE {}) \cup (IF Known(s) THEN {y} ELSE {})
          \cup (IF In(s) /\ Out(s) /\ Known(s) THEN {z} ELSE {})
          \cup (IF In(s) /\ Out(s) /\ ~Known(s) THEN {w} ELSE {})
  BY DEF ElementSet
<1>4. \A u, v \in E : u.id = v.id => u = v BY <1>1, <1>2, <1>3
<1>5. {u.id : u \in {v \in E : v.pair # <<>>}} = MadeFor(s)
  <2>1. \A u \in E : u.pair # <<>> => u.id \in MadeFor(s) BY <1>1, <1>3 DEF MadeFor
  <2>2. \A i \in MadeFor(s) : \E u \in E : u.pair # <<>> /\ u.id = i
    BY <1>1, <1>3 DEF MadeFor
  <2> QED BY <2>1, <2>2
<1>6. {u.id : u \in E} = SegmentIds(s)
  <2>1. \A u \in E : u.id \in SegmentIds(s) BY <1>1, <1>3 DEF SegmentIds, MadeFor
  <2>2. \A i \in SegmentIds(s) : \E u \in E : u.id = i
    BY <1>1, <1>3 DEF SegmentIds, MadeFor
  <2> QED BY <2>1, <2>2
<1> QED BY <1>4, <1>5, <1>6

LEMMA GainsExtends ==
  ASSUME NEW P, NEW Q, NEW s, Gains(P, Q, ElementSet(s))
  PROVE  Extended(P, Q, s)
<1>1. DOMAIN Q = DOMAIN P \cup MadeFor(s) BY ElementsApart DEF Gains
<1>2. \A id \in DOMAIN P : Q[id] = P[id] BY DEF Gains
<1>3. ASSUME CE(s) \in MadeFor(s) \ DOMAIN P
      PROVE  Q[CE(s)] = <<NodeAt(s.inode), FirstPoint(s.edge, s.forward)>>
  <2>1. First(s) \in ElementSet(s) BY <1>3, Distinct DEF ElementSet
  <2> PICK x : x = First(s) OBVIOUS
  <2>2. x.id = CE(s) /\ x.pair = <<NodeAt(s.inode), FirstPoint(s.edge, s.forward)>>
        /\ x.pair # <<>>
    BY DEF First
  <2> QED BY <1>3, <2>1, <2>2 DEF Gains
<1>4. ASSUME EC(s) \in MadeFor(s) \ DOMAIN P
      PROVE  Q[EC(s)] = <<LastPoint(s.edge, s.forward), NodeAt(s.enode)>>
  <2>1. End(s) \in ElementSet(s) BY <1>4, Distinct DEF ElementSet
  <2> PICK x : x = End(s) OBVIOUS
  <2>2. x.id = EC(s) /\ x.pair = <<LastPoint(s.edge, s.forward), NodeAt(s.enode)>>
        /\ x.pair # <<>>
    BY DEF End
  <2> QED BY <1>4, <2>1, <2>2 DEF Gains
<1>5. ASSUME CC(s) \in MadeFor(s) \ DOMAIN P
      PROVE  Q[CC(s)] = <<NodeAt(s.inode), NodeAt(s.enode)>>
  <2>1. Whole(s) \in ElementSet(s) BY <1>5, Distinct DEF ElementSet
  <2> PICK x : x = Whole(s) OBVIOUS
  <2>2. x.id = CC(s) /\ x.pair = <<NodeAt(s.inode), NodeAt(s.enode)>> /\ x.pair # <<>>
    BY DEF Whole
  <2> QED BY <1>5, <2>1, <2>2 DEF Gains
<1> QED BY <1>1, <1>2, <1>3, <1>4, <1>5 DEF Extended

(***************************************************************************)
(* Every feature with segments is visited by the walk.                     *)
(***************************************************************************)
LEMMA Flattened ==
  ASSUME NEW S, NEW n \in Nat \ {0}, NEW q, IsSequence(q), Len(q) = n,
         \A i \in 1..n : q[i] \in Seq(S)
  PROVE  /\ FlattenSeq(q) \in Seq(S)
         /\ \A i \in 1..n : ToSet(q[i]) \subseteq ToSet(FlattenSeq(q))
<1> PICK fl : fl = Flat(n, q) OBVIOUS
<1>0. IsFlat(Flat(n, q), n, q) BY FlatIs
<1>1. fl = [i \in 1..n |-> IF i = 1 THEN q[i] ELSE fl[i - 1] \o q[i]] BY <1>0 DEF IsFlat
<1>2. FlattenSeq(q) = fl[n]
  <2>1. FlattenSeq(q) = Flat(n, q)[n] BY DEF FlattenSeq, Flat, IsFlat
  <2> QED BY <2>1
<1> DEFINE P(k) == fl[k] \in Seq(S) /\ \A i \in 1..k : ToSet(q[i]) \subseteq ToSet(fl[k])
           T == {k \in Nat : k + 1 <= n => P(k + 1)}
<1>3. 0 \in T
  <2>1. fl[1] = q[1] BY <1>1
  <2>2. \A i \in 1..1 : i = 1 OBVIOUS
  <2>3. P(1) BY <2>1, <2>2
  <2>4. 0 + 1 = 1 OBVIOUS
  <2> HIDE DEF P
  <2> QED BY <2>3, <2>4
<1>4. ASSUME NEW k \in Nat, k \in T PROVE k + 1 \in T
  <2> SUFFICES ASSUME (k + 1) + 1 <= n PROVE P((k + 1) + 1) OBVIOUS
  <2> PICK j \in 1..n : j = (k + 1) + 1 OBVIOUS
  <2> PICK i0 \in 1..n : i0 = k + 1 OBVIOUS
  <2>1. P(i0) BY <1>4
  <2>2. j # 1 /\ j - 1 = i0 OBVIOUS
  <2>3. fl[j] = fl[i0] \o q[j] BY <1>1, <2>2
  <2> PICK a, b, c : a = fl[i0] /\ b = q[j] /\ c = fl[j] OBVIOUS
  <2>4. a \in Seq(S) /\ b \in Seq(S) BY <2>1
  <2>5. c \in Seq(S) BY <2>3, <2>4
  <2>6. ToSet(a \o b) = ToSet(a) \cup ToSet(b) BY <2>4, Ranges DEF IsSequence
  <2>7. ToSet(c) = ToSet(a) \cup ToSet(b) BY <2>3, <2>6
  <2>8. \A i \in 1..j : i \in 1..i0 \/ i = j BY <2>2
  <2>9. P(j) BY <2>1, <2>5, <2>7, <2>8
  <2> HIDE DEF P
  <2> QED BY <2>9
<1>5. n - 1 \in T
  <2>1. n - 1 \in Nat OBVIOUS
  <2> HIDE DEF T
  <2> QED BY <1>3, <1>4, <2>1, InductionOn
<1>6. (n - 1) + 1 = n OBVIOUS
<1>7. P(n)
  <2> HIDE DEF P
  <2> QED BY <1>5, <1>6
<1> QED BY <1>2, <1>7

\* The walk visits every list.
LEMMA WalkVisits ==
  ASSUME NEW raz \in Razzes
  PROVE  /\ WalkOrder(raz) \in Seq(Features)
         /\ \A c \in Cells : ToSet(raz[c]) \subseteq ToSet(WalkOrder(raz))
<1> PICK n \in Nat \ {0} : n = 3 * (LastLevel + 1) BY LineGeometryAssumption
<1> DEFINE cells == [i \in 1..n |-> <<(i - 1) \div 3, ((i - 1) % 3) + 2>>]
           q == [i \in DOMAIN cells |-> raz[cells[i]]]
<1>1. WalkOrder(raz) = FlattenSeq(q) BY DEF WalkOrder
<1>2. ASSUME NEW i \in 1..n PROVE cells[i] \in Cells
  <2>1. (i - 1) \div 3 \in 0..LastLevel /\ (i - 1) % 3 \in 0..2 BY LineGeometryAssumption
  <2>2. ((i - 1) % 3) + 2 \in {2, 3, 4} BY <2>1
  <2> QED BY <2>1, <2>2 DEF Cells, Levels, Lists
<1>3. ASSUME NEW c \in Cells PROVE \E i \in 1..n : cells[i] = c
  <2> PICK l \in 0..LastLevel, t \in {2, 3, 4} : c = <<l, t>> BY DEF Cells, Levels, Lists
  <2>0. LastLevel \in Nat BY LineGeometryAssumption
  <2> PICK k \in 0..2 : k = t - 2 OBVIOUS
  <2>1. (3 * l + k) + 1 \in 1..n BY <2>0
  <2>2. ((3 * l + k) + 1) - 1 = 3 * l + k BY <2>0
  <2>3. (3 * l + k) \div 3 = l /\ (3 * l + k) % 3 = k BY <2>0
  <2>4. cells[(3 * l + k) + 1] = <<l, k + 2>> BY <2>1, <2>2, <2>3
  <2>5. k + 2 = t OBVIOUS
  <2> QED BY <2>1, <2>4, <2>5
<1> PICK cs : cs = cells OBVIOUS
<1> PICK qs : qs = q OBVIOUS
<1>4. DOMAIN cs = 1..n /\ qs = [i \in 1..n |-> raz[cs[i]]] OBVIOUS
<1>5. \A i \in 1..n : cs[i] \in Cells BY <1>2
<1>6. \A c \in Cells : \E i \in 1..n : cs[i] = c BY <1>3
<1>7. WalkOrder(raz) = FlattenSeq(qs) BY <1>1
<1> HIDE DEF cells, q
<1>8. \A i \in 1..n : qs[i] \in Seq(Features) BY <1>4, <1>5 DEF Razzes
<1>9. IsSequence(qs) /\ Len(qs) = n
  <2>1. qs \in [1..n -> Seq(Features)] BY <1>4, <1>8
  <2> QED BY <2>1, Numbered
<1>10. /\ FlattenSeq(qs) \in Seq(Features)
       /\ \A i \in 1..n : ToSet(qs[i]) \subseteq ToSet(FlattenSeq(qs))
  BY <1>8, <1>9, Flattened
<1>11. ASSUME NEW c \in Cells PROVE ToSet(raz[c]) \subseteq ToSet(FlattenSeq(qs))
  <2>1. PICK i \in 1..n : cs[i] = c BY <1>6
  <2>2. qs[i] = raz[c] BY <1>4, <2>1
  <2> QED BY <1>10, <2>2
<1> QED BY <1>7, <1>10, <1>11

LEMMA EveryFeatureWaits ==
  ASSUME NEW s \in Styles
  PROVE  LET w == WalkOrder(FileFeatures(s))
         IN  w \in Seq(Features) /\ Features \subseteq ToSet(w)
<1> PICK r : r = FileFeatures(s) OBVIOUS
<1>1. r \in Razzes
  <2>1. FileFeatures(s) \in Filings([f \in Features |-> LevelOf(f, s)]) BY FileFeaturesFiles
  <2> QED BY <2>1 DEF Filings, Razzes
<1>2. /\ WalkOrder(r) \in Seq(Features)
      /\ \A c \in Cells : ToSet(r[c]) \subseteq ToSet(WalkOrder(r))
  BY <1>1, WalkVisits
<1>3. ASSUME NEW f \in Features PROVE f \in ToSet(WalkOrder(r))
  <2> PICK c \in Cells : c = CellOf(f, s) BY LevelsOf DEF CellOf
  <2>1. Once(r[c], f) BY FeaturesFiled
  <2> PICK m : m = Len(r[c]) OBVIOUS
  <2>2. r[c] \in Seq(Features) BY <1>1 DEF Razzes
  <2>3. PICK k \in 1..m : r[c][k] = f BY <2>1 DEF Once, OnceIn
  <2>4. f \in ToSet(r[c]) BY <2>2, <2>3 DEF ToSet
  <2> QED BY <1>2, <2>4
<1> QED BY <1>2, <1>3

(***************************************************************************)
(* The way a list leads, from element to element.                          *)
(***************************************************************************)
\* What begins at a and ends at b leads from x to y, turned if it does not
\* begin at x.
Leads(a, b, x, y) == IF a = x THEN b = y ELSE b = x /\ a = y

\* Where an element begins and ends.
Tips(P, id) ==
  IF id[1] = "EE" THEN <<FirstPoint(id[2], TRUE), LastPoint(id[2], TRUE)>> ELSE P[id]
Hop(P, id, x, y) == /\ id[1] # "EE" => id \in DOMAIN P
                    /\ Leads(Tips(P, id)[1], Tips(P, id)[2], x, y)

\* The list l leads from a to b, by way of E[1], E[2] and so on.
Stops(P, l, E) ==
  /\ \A i \in 1..Len(l) : Hop(P, l[i], E[i - 1], E[i])
  /\ Len(l) # 0 => Tips(P, l[1])[1] = E[0]
Route(P, l, a, b) == \E E : E[0] = a /\ E[Len(l)] = b /\ Stops(P, l, E)

LEMMA NoRoute == ASSUME NEW P, NEW a PROVE Route(P, <<>>, a, a)
<1> DEFINE E == [k \in {0} |-> a]
<1>1. E[0] = a /\ E[Len(<<>>)] = a /\ Stops(P, <<>>, E) BY DEF Stops
<1> QED BY <1>1 DEF Route

LEMMA RouteGoesOn ==
  ASSUME NEW P, NEW l, NEW m, IsSequence(l), IsSequence(m),
         NEW a, NEW b, NEW c, Route(P, l, a, b), Route(P, m, b, c)
  PROVE  Route(P, l \o m, a, c)
<1> PICK n : n = Len(l) OBVIOUS
<1> PICK r : r = Len(m) OBVIOUS
<1>0. /\ n \in Nat /\ r \in Nat /\ Len(l \o m) = n + r
      /\ \A i \in 1..n : (l \o m)[i] = l[i]
      /\ \A i \in 1..r : (l \o m)[n + i] = m[i]
  BY ConcatAt
<1> PICK E : E[0] = a /\ E[n] = b /\ Stops(P, l, E) BY DEF Route
<1> PICK F : F[0] = b /\ F[r] = c /\ Stops(P, m, F) BY DEF Route
<1> DEFINE G == [k \in 0..(n + r) |-> IF k <= n THEN E[k] ELSE F[k - n]]
<1>1. \A k \in 0..n : G[k] = E[k] BY <1>0
<1>2. ASSUME NEW k \in 0..r PROVE G[n + k] = F[k]
  <2>1. CASE k = 0
    <3>1. n + k = n /\ n \in 0..n BY <1>0, <2>1
    <3> QED BY <1>1, <2>1, <3>1
  <2>2. CASE k # 0
    <3>1. n + k \in 0..(n + r) /\ ~(n + k <= n) /\ (n + k) - n = k BY <1>0, <2>2
    <3> QED BY <3>1
  <2> QED BY <2>1, <2>2
<1> HIDE DEF G
<1>3. G[0] = a
  <2>1. 0 \in 0..n BY <1>0
  <2> QED BY <1>1, <2>1
<1>4. G[Len(l \o m)] = c
  <2>1. r \in 0..r BY <1>0
  <2> QED BY <1>0, <1>2, <2>1
<1>5. ASSUME NEW i \in 1..Len(l \o m) PROVE Hop(P, (l \o m)[i], G[i - 1], G[i])
  <2>1. i \in 1..(n + r) BY <1>0, <1>5
  <2>2. CASE i \in 1..n
    <3>1. i \in 0..n /\ i - 1 \in 0..n BY <1>0, <2>2
    <3>2. Hop(P, l[i], E[i - 1], E[i]) BY <2>2 DEF Stops
    <3> QED BY <1>0, <1>1, <2>2, <3>1, <3>2
  <2>3. CASE i \notin 1..n
    <3> PICK j : j = i - n OBVIOUS
    <3>1. j \in 1..r /\ n + j = i /\ j \in 0..r /\ j - 1 \in 0..r /\ n + (j - 1) = i - 1
      BY <1>0, <2>1, <2>3
    <3>2. Hop(P, m[j], F[j - 1], F[j]) BY <3>1 DEF Stops
    <3>3. (l \o m)[i] = m[j] BY <1>0, <3>1
    <3>4. G[i] = F[j] /\ G[i - 1] = F[j - 1] BY <1>2, <3>1
    <3> QED BY <3>2, <3>3, <3>4
  <2> QED BY <2>2, <2>3
<1>6. ASSUME Len(l \o m) # 0 PROVE Tips(P, (l \o m)[1])[1] = G[0]
  <2>1. CASE n # 0
    <3>1. 1 \in 1..n BY <1>0, <2>1
    <3>2. (l \o m)[1] = l[1] BY <1>0, <3>1
    <3>3. Tips(P, l[1])[1] = E[0] BY <2>1 DEF Stops
    <3> QED BY <1>3, <3>2, <3>3
  <2>2. CASE n = 0
    <3>1. r # 0 /\ 1 \in 1..r /\ n + 1 = 1 BY <1>0, <1>6, <2>2
    <3>2. (l \o m)[1] = m[1] BY <1>0, <3>1
    <3>3. Tips(P, m[1])[1] = F[0] BY <3>1 DEF Stops
    <3>4. F[0] = E[0] BY <2>2
    <3> QED BY <1>3, <3>2, <3>3, <3>4
  <2> QED BY <2>1, <2>2
<1>7. Stops(P, l \o m, G) BY <1>5, <1>6 DEF Stops
<1> QED BY <1>3, <1>4, <1>7 DEF Route

\* A connector that has been made stays as it is.
LEMMA RouteStays ==
  ASSUME NEW P, NEW Q, DOMAIN P \subseteq DOMAIN Q, \A id \in DOMAIN P : Q[id] = P[id],
         NEW l, NEW a, NEW b, IsSequence(l), Route(P, l, a, b)
  PROVE  Route(Q, l, a, b)
<1>1. ASSUME NEW id, NEW x, NEW y, Hop(P, id, x, y)
      PROVE  Hop(Q, id, x, y) /\ Tips(Q, id) = Tips(P, id)
  <2>1. Tips(Q, id) = Tips(P, id) BY <1>1 DEF Hop, Tips
  <2> QED BY <1>1, <2>1 DEF Hop
<1> PICK E : E[0] = a /\ E[Len(l)] = b /\ Stops(P, l, E) BY DEF Route
<1>2. Len(l) \in Nat BY DEF IsSequence
<1>3. \A i \in 1..Len(l) : Hop(Q, l[i], E[i - 1], E[i]) BY <1>1 DEF Stops
<1>4. Len(l) # 0 => Tips(Q, l[1])[1] = E[0]
  <2> SUFFICES ASSUME Len(l) # 0 PROVE Tips(Q, l[1])[1] = E[0] OBVIOUS
  <2>1. 1 \in 1..Len(l) BY <1>2
  <2>2. Hop(P, l[1], E[1 - 1], E[1]) BY <2>1 DEF Stops
  <2> QED BY <1>1, <2>2 DEF Stops
<1>5. Stops(Q, l, E) BY <1>3, <1>4 DEF Stops
<1> QED BY <1>5 DEF Route

\* What a segment with both its nodes adds to the list.
Ids(s) == IF Known(s) THEN <<CE(s), EE(s.edge), EC(s)>> ELSE <<CC(s)>>

\* A segment with both its nodes leads from the one to the other.
LEMMA SegmentRoute ==
  ASSUME NEW P, NEW s, Shaped(P), IsSegment(s), In(s), Out(s), MadeFor(s) \subseteq DOMAIN P
  PROVE  Route(P, Ids(s), NodeAt(s.inode), NodeAt(s.enode))
<1> PICK e, f, n, m : e = s.edge /\ f = s.forward /\ n = s.inode /\ m = s.enode OBVIOUS
<1>0. e \in Edges /\ f \in BOOLEAN /\ n = NodeOf(e, f) /\ m = NodeOf(e, ~f)
  BY DEF IsSegment
<1>1. CASE Known(s)
  <2>0. CE(s) = <<"CE", n, e>> /\ EC(s) = <<"EC", e, m>> /\ CE(s) \in DOMAIN P /\ EC(s) \in DOMAIN P
    BY <1>1, Distinct DEF CE, EC
  <2>1. \E g \in BOOLEAN : /\ P[CE(s)] = <<NodeAt(n), FirstPoint(e, g)>>
                           /\ P[EC(s)] = <<LastPoint(e, g), NodeAt(m)>>
    <3>1. PICK e1 : \E g \in BOOLEAN : StartsAt(P, CE(s), e1, g) BY <2>0, ShapeOf
    <3> PICK g \in BOOLEAN : StartsAt(P, CE(s), e1, g) BY <3>1
    <3>2. e1 = e /\ NodeOf(e1, g) = n BY <2>0 DEF StartsAt
    <3>3. PICK e2 : \E h \in BOOLEAN : EndsAt(P, EC(s), e2, h) BY <2>0, ShapeOf
    <3> PICK h \in BOOLEAN : EndsAt(P, EC(s), e2, h) BY <3>3
    <3>4. e2 = e /\ NodeOf(e2, ~h) = m BY <2>0 DEF EndsAt
    <3>5. P[CE(s)] = <<NodeAt(n), FirstPoint(e, g)>> BY <3>2 DEF StartsAt
    <3>6. P[EC(s)] = <<LastPoint(e, h), NodeAt(m)>> BY <3>4 DEF EndsAt
    <3>7. CASE Ring(e)
      <4>1. n = m BY <1>0, <3>7 DEF Ring
      <4>2. P[<<"EC", e, n>>] = <<LastPoint(e, g), NodeAt(n)>> BY <3>2, <3>7 DEF StartsAt
      <4> QED BY <2>0, <3>5, <4>1, <4>2
    <3>8. CASE ~Ring(e)
      <4>1. g = f /\ h = f BY <1>0, <3>2, <3>4, <3>8 DEF Ring
      <4> QED BY <3>5, <3>6, <4>1
    <3> QED BY <3>7, <3>8
  <2> PICK g \in BOOLEAN : /\ P[CE(s)] = <<NodeAt(n), FirstPoint(e, g)>>
                           /\ P[EC(s)] = <<LastPoint(e, g), NodeAt(m)>>
    BY <2>1
  <2> PICK a, F, L, b : /\ a = NodeAt(n) /\ b = NodeAt(m)
                        /\ F = FirstPoint(e, g) /\ L = LastPoint(e, g)
    OBVIOUS
  <2> DEFINE E == [k \in 0..3 |-> IF k = 0 THEN a ELSE IF k = 1 THEN F ELSE IF k = 2 THEN L ELSE b]
  <2>2. E[0] = a /\ E[1] = F /\ E[2] = L /\ E[3] = b OBVIOUS
  <2>3. Hop(P, CE(s), a, F) /\ Tips(P, CE(s))[1] = a
    <3>1. Tips(P, CE(s)) = <<a, F>> BY <2>0 DEF Tips
    <3> QED BY <2>0, <3>1 DEF Hop, Leads
  <2>4. Hop(P, EE(e), F, L)
    <3>1. Tips(P, EE(e))[1] = FirstPoint(e, TRUE) /\ Tips(P, EE(e))[2] = LastPoint(e, TRUE)
      BY DEF Tips, EE
    <3>2. EE(e)[1] = "EE" BY DEF EE
    <3>3. Leads(FirstPoint(e, TRUE), LastPoint(e, TRUE), FirstPoint(e, g), LastPoint(e, g))
      BY DEF Leads, FirstPoint, LastPoint
    <3> QED BY <3>1, <3>2, <3>3 DEF Hop
  <2>5. Hop(P, EC(s), L, b)
    <3>1. Tips(P, EC(s)) = <<L, b>> BY <2>0 DEF Tips
    <3> QED BY <2>0, <3>1 DEF Hop, Leads
  <2> PICK l : l = Ids(s) OBVIOUS
  <2>6. Len(l) = 3 /\ l[1] = CE(s) /\ l[2] = EE(e) /\ l[3] = EC(s) BY <1>1 DEF Ids
  <2> HIDE DEF E
  <2>7. \A i \in 1..3 : Hop(P, l[i], E[i - 1], E[i])
    <3>1. \A i \in 1..3 : i = 1 \/ i = 2 \/ i = 3 OBVIOUS
    <3>2. Hop(P, l[1], E[1 - 1], E[1]) BY <2>2, <2>3, <2>6
    <3>3. Hop(P, l[2], E[2 - 1], E[2]) BY <2>2, <2>4, <2>6
    <3>4. Hop(P, l[3], E[3 - 1], E[3]) BY <2>2, <2>5, <2>6
    <3> QED BY <3>1, <3>2, <3>3, <3>4
  <2>8. Stops(P, l, E) BY <2>2, <2>3, <2>6, <2>7 DEF Stops
  <2> QED BY <2>2, <2>6, <2>8 DEF Route
<1>2. CASE ~Known(s)
  <2>1. CC(s) = <<"CC", n, m>> /\ CC(s) \in DOMAIN P BY <1>2, Distinct DEF CC
  <2>2. PICK n1, m1 : Joins(P, CC(s), n1, m1) BY <2>1, ShapeOf
  <2>3. P[CC(s)] = <<NodeAt(n), NodeAt(m)>> BY <2>1, <2>2 DEF Joins
  <2> PICK a, b : a = NodeAt(n) /\ b = NodeAt(m) OBVIOUS
  <2>4. Tips(P, CC(s)) = <<a, b>> BY <2>1, <2>3 DEF Tips
  <2>5. Hop(P, CC(s), a, b) BY <2>1, <2>4 DEF Hop, Leads
  <2> DEFINE E == [k \in 0..1 |-> IF k = 0 THEN a ELSE b]
  <2>6. E[0] = a /\ E[1] = b OBVIOUS
  <2> HIDE DEF E
  <2> PICK l : l = Ids(s) OBVIOUS
  <2>7. Len(l) = 1 /\ l[1] = CC(s) BY <1>2 DEF Ids
  <2>8. \A i \in 1..Len(l) : Hop(P, l[i], E[i - 1], E[i])
    <3>1. \A i \in 1..Len(l) : i = 1 BY <2>7
    <3>2. Hop(P, l[1], E[1 - 1], E[1]) BY <2>5, <2>6, <2>7
    <3> QED BY <3>1, <3>2
  <2>9. Stops(P, l, E) BY <2>4, <2>6, <2>7, <2>8 DEF Stops
  <2> QED BY <2>6, <2>7, <2>9 DEF Route
<1> QED BY <1>1, <1>2

(***************************************************************************)
(* The invariant of the lines.                                             *)
(***************************************************************************)
SegmentAt(f, i) == SegmentOf(path[f][i])
Walked(f) == Len(path[f]) - Len(lsindex[f])

\* t draws what s does.
Matches(t, s) ==
  /\ t.inode = s.inode \/ (t.inode \notin tables.nodes /\ ~In(s))
  /\ t.enode = s.enode \/ (t.enode \notin tables.nodes /\ ~Out(s))
  /\ t.forward \in BOOLEAN
  /\ \/ t.edge = s.edge /\ t.forward = s.forward
     \/ t.edge \notin tables.edges /\ ~Known(s)

PathsTyped == \A f \in Features : path[f] \in Seq(Edges \X BOOLEAN)
HashesRight == HashRight /\ (pc # "built" => NodesRight)

\* What a feature has left to walk, and the list of what it has walked.
Remaining(f) ==
  /\ IsSequence(lsindex[f]) /\ Len(lsindex[f]) <= Len(path[f])
  /\ \A j \in 1..Len(lsindex[f]) : Matches(lsindex[f][j], SegmentAt(f, Walked(f) + j))
ListRight(f) ==
  /\ IsSequence(ls_list[f])
  /\ ToSet(ls_list[f]) = UNION {SegmentIds(SegmentAt(f, i)) : i \in 1..Walked(f)}
ListsRight == /\ DOMAIN lsindex = Features /\ DOMAIN ls_list = Features
         /\ \A f \in Features : Remaining(f) /\ ListRight(f)
Waiting ==
  /\ todo \in Seq(Features)
  /\ \A f \in Features : lsindex[f] # <<>> => f \in ToSet(todo)
  /\ pc \in {"edges", "release", "built"} => todo = <<>>

EdgeCopied(id) ==
  /\ id[2] \in DOMAIN ve_hash /\ ve_hash[id[2]] \in Nat /\ id = EE(id[2])
  /\ vbo_offset[id] \in Nat /\ vbo_offset[id] + ve_hash[id[2]] <= Len(buffer)
  /\ \A k \in 1..ve_hash[id[2]] : buffer[vbo_offset[id] + k] = <<"edge", id[2], k>>
EdgesCopied ==
  /\ \A id \in DOMAIN vbo_offset : id[1] = "EE" => EdgeCopied(id)
  /\ pc \in {"release", "built"} => \A e \in tables.edges : EE(e) \in DOMAIN vbo_offset

\* P gives the points of the connectors there are.
PairCopied(P, id) ==
  /\ vbo_offset[id] \in Nat /\ vbo_offset[id] + 2 <= Len(buffer)
  /\ P[id] = <<buffer[vbo_offset[id] + 1], buffer[vbo_offset[id] + 2]>>
Holding(P) ==
  IF pc \in {"release", "built"}
  THEN DOMAIN P = Connectors(vbo_offset) /\ \A id \in DOMAIN P : PairCopied(P, id)
  ELSE P = Content(vbo_offset, pairs)
AllMade(P) ==
  \A f \in Features : \A i \in 1..Walked(f) : MadeFor(SegmentAt(f, i)) \subseteq DOMAIN P

\* The list of a feature whose segments follow one another leads from its
\* first node to the last it has reached.
Straight(f) == Follows(f) /\ NodesOf(f) \subseteq tables.nodes
Reached(f) == IF Walked(f) = 0 THEN SegmentAt(f, 1).inode ELSE SegmentAt(f, Walked(f)).enode
Led(P, f) ==
  Straight(f) => Route(P, ls_list[f], NodeAt(SegmentAt(f, 1).inode), NodeAt(Reached(f)))
Made(P) == AllMade(P) /\ \A f \in Features : Led(P, f)
Connectives(P) == Shaped(P) /\ Holding(P) /\ Made(P)

DrawInv == /\ PathsTyped /\ HashesRight /\ ListsRight /\ Waiting /\ EdgesCopied
           /\ \E P : Connectives(P)

LEMMA InputKept ==
  ASSUME UNCHANGED input
  PROVE  /\ PathsTyped => PathsTyped'
         /\ \A P : Shaped(P) => Shaped(P)'
         /\ \A s : MadeFor(s)' = MadeFor(s) /\ SegmentIds(s)' = SegmentIds(s)
         /\ \A f, i : SegmentAt(f, i)' = SegmentAt(f, i)
         /\ \A t, s : Matches(t, s) => Matches(t, s)'
<1>1. tables' = tables /\ ends' = ends /\ path' = path BY DEF input
<1>2. PathsTyped => PathsTyped' BY <1>1 DEF PathsTyped
<1>3. ASSUME NEW P, Shaped(P) PROVE Shaped(P)'
  <2>1. \A e, fwd : NodeOf(e, fwd)' = NodeOf(e, fwd) BY <1>1 DEF NodeOf
  <2>2. \A e : Ring(e)' <=> Ring(e) BY <1>1 DEF Ring, NodeOf
  <2>3. \A id, e, fwd : StartsAt(P, id, e, fwd) => StartsAt(P, id, e, fwd)'
    BY <2>1, <2>2 DEF StartsAt
  <2>4. \A id, e, fwd : EndsAt(P, id, e, fwd) => EndsAt(P, id, e, fwd)'
    BY <2>1, <2>2 DEF EndsAt
  <2>5. \A id, n, m : Joins(P, id, n, m) => Joins(P, id, n, m)' BY DEF Joins
  <2> QED BY <1>3, <2>3, <2>4, <2>5 DEF Shaped
<1>4. \A s : MadeFor(s)' = MadeFor(s) BY <1>1 DEF MadeFor, In, Out, Known
<1>5. \A s : SegmentIds(s)' = SegmentIds(s) BY <1>1, <1>4 DEF SegmentIds, Known
<1>6. \A f, i : SegmentAt(f, i)' = SegmentAt(f, i) BY <1>1 DEF SegmentAt, SegmentOf
<1>7. \A t, s : Matches(t, s) => Matches(t, s)' BY <1>1 DEF Matches, In, Out, Known
<1> QED BY <1>2, <1>3, <1>4, <1>5, <1>6, <1>7

LEMMA LedKept ==
  ASSUME UNCHANGED <<tables, ends, path>>, NEW f, UNCHANGED <<Walked(f), ls_list[f]>>,
         NEW P, Led(P, f)
  PROVE  Led(P, f)'
<1>1. \A i : SegmentAt(f, i)' = SegmentAt(f, i) BY DEF SegmentAt, SegmentOf
<1>2. Reached(f)' = Reached(f) BY <1>1 DEF Reached
<1>3. Follows(f)' <=> Follows(f) BY DEF Follows, SegmentOf
<1>4. NodesOf(f)' = NodesOf(f) BY DEF NodesOf, SegmentOf
<1>5. Straight(f)' => Straight(f) BY <1>3, <1>4 DEF Straight
<1> QED BY <1>1, <1>2, <1>5 DEF Led

LEMMA SameLists ==
  ASSUME ListsRight, UNCHANGED <<input, lsindex, ls_list>>
  PROVE  ListsRight' /\ \A P : Made(P) => Made(P)'
<1>1. UNCHANGED <<tables, ends, path, lsindex, ls_list>> BY DEF input
<1>2. ASSUME NEW f, Remaining(f) PROVE Remaining(f)'
  <2>1. Walked(f)' = Walked(f) BY <1>1 DEF Walked
  <2>2. ASSUME NEW j \in 1..Len(lsindex[f])
        PROVE  Matches(lsindex[f][j], SegmentAt(f, Walked(f) + j))'
    <3>1. Matches(lsindex[f][j], SegmentAt(f, Walked(f) + j)) BY <1>2 DEF Remaining
    <3> QED BY <1>1, <3>1 DEF Walked, Matches, SegmentAt, SegmentOf, In, Out, Known
  <2> QED BY <1>1, <1>2, <2>2 DEF Remaining
<1>3. ASSUME NEW f, ListRight(f) PROVE ListRight(f)'
  <2>1. Walked(f)' = Walked(f) BY <1>1 DEF Walked
  <2>2. \A i : SegmentIds(SegmentAt(f, i))' = SegmentIds(SegmentAt(f, i))
    BY <1>1 DEF SegmentIds, SegmentAt, SegmentOf, MadeFor, In, Out, Known
  <2> QED BY <1>1, <1>3, <2>1, <2>2 DEF ListRight
<1>4. ASSUME NEW P, Made(P) PROVE Made(P)'
  <2>1. \A f : Walked(f)' = Walked(f) BY <1>1 DEF Walked
  <2>2. \A f, i : MadeFor(SegmentAt(f, i))' = MadeFor(SegmentAt(f, i))
    BY <1>1 DEF MadeFor, SegmentAt, SegmentOf, In, Out, Known
  <2>3. AllMade(P)' BY <1>4, <2>1, <2>2 DEF Made, AllMade
  <2>4. \A f \in Features : Led(P, f)' BY <1>1, <1>4, <2>1, LedKept DEF Made
  <2> QED BY <2>3, <2>4 DEF Made
<1> QED BY <1>1, <1>2, <1>3, <1>4 DEF ListsRight

LEMMA SameHashes ==
  ASSUME HashesRight, UNCHANGED <<tables, ve_hash, vc_hash>>, pc' # "built" => pc # "built"
  PROVE  HashesRight'
  BY DEF HashesRight, HashRight, NodesRight, NodeThere

LEMMA SamePoints ==
  ASSUME EdgesCopied, UNCHANGED <<tables, ve_hash, vbo_offset, pairs, buffer>>,
         pc' \in {"release", "built"} <=> pc \in {"release", "built"}
  PROVE  EdgesCopied' /\ \A P : Holding(P) => Holding(P)'
<1>1. EdgesCopied' BY DEF EdgesCopied, EdgeCopied
<1>2. \A P : Holding(P) => Holding(P)' BY DEF Holding, PairCopied
<1> QED BY <1>1, <1>2

LEMMA SameDraw ==
  ASSUME DrawInv, UNCHANGED <<input, ve_hash, vc_hash, lsindex, ls_list, pairs,
                              vbo_offset, buffer>>,
         pc' \in {"release", "built"} <=> pc \in {"release", "built"},
         pc' # "built" => pc # "built", Waiting'
  PROVE  DrawInv'
<1>1. UNCHANGED tables BY DEF input
<1>2. PathsTyped' BY InputKept DEF DrawInv
<1>3. HashesRight' BY <1>1, SameHashes DEF DrawInv
<1>4. ListsRight' /\ \A P : Made(P) => Made(P)' BY SameLists DEF DrawInv
<1>5. EdgesCopied' /\ \A P : Holding(P) => Holding(P)' BY <1>1, SamePoints DEF DrawInv
<1>6. \A P : Shaped(P) => Shaped(P)' BY InputKept
<1> PICK P : Connectives(P) BY DEF DrawInv
<1>7. Connectives(P)' BY <1>4, <1>5, <1>6 DEF Connectives
<1> QED BY <1>2, <1>3, <1>4, <1>5, <1>7 DEF DrawInv

LEMMA SegmentsAre ==
  ASSUME PathsTyped, NEW f \in Features, NEW i \in 1..Len(path[f])
  PROVE  IsSegment(SegmentAt(f, i))
<1>1. path[f] \in Seq(Edges \X BOOLEAN) BY DEF PathsTyped
<1>2. path[f][i] \in Edges \X BOOLEAN BY <1>1
<1> PICK e \in Edges, fwd \in BOOLEAN : path[f][i] = <<e, fwd>> BY <1>2
<1> PICK s : s = SegmentAt(f, i) OBVIOUS
<1>3. s = [inode |-> ends[e][IF fwd THEN 1 ELSE 2], edge |-> e, forward |-> fwd,
           enode |-> ends[e][IF fwd THEN 2 ELSE 1]]
  BY DEF SegmentAt, SegmentOf
<1>4. s.edge = e /\ s.forward = fwd /\ s.inode = NodeOf(e, fwd) /\ s.enode = NodeOf(e, ~fwd)
  BY <1>3 DEF NodeOf
<1>5. IsSegment(s) BY <1>4 DEF IsSegment
<1> QED BY <1>5

LEMMA DrawInit == Init => DrawInv
<1> SUFFICES ASSUME Init PROVE DrawInv OBVIOUS
<1>1. /\ path \in [Features -> UNION {Paths[f] : f \in Features}]
      /\ \A f \in Features : path[f] \in Paths[f]
      /\ style \in Styles /\ razRules = FileFeatures(style)
      /\ tables \in [nodes : SUBSET Nodes, edges : SUBSET Edges]
      /\ vc_hash = [n \in tables.nodes |-> TRUE]
      /\ lsindex = [f \in Features |-> [i \in DOMAIN path[f] |-> SegmentOf(path[f][i])]]
      /\ todo = WalkOrder(razRules) /\ ls_list = [f \in Features |-> <<>>]
      /\ pairs = <<>> /\ vbo_offset = <<>> /\ buffer = <<>> /\ pc = "validate"
  BY DEF Init, GInit
<1>2. PathsTyped BY <1>1, LineGeometryAssumption DEF PathsTyped
<1>3. HashesRight
  <2>1. PICK empty \in SUBSET (Edges \ tables.edges) :
          ve_hash = [e \in tables.edges \cup empty |->
                       IF e \in empty THEN 0 ELSE EdgeSize[e]]
    BY DEF Init, GInit
  <2>2. tables.nodes \subseteq Nodes /\ tables.edges \subseteq Edges BY <1>1
  <2>3. HashRight BY <2>1, <2>2 DEF HashRight
  <2>4. NodesRight BY <1>1 DEF NodesRight, NodeThere
  <2> QED BY <2>3, <2>4 DEF HashesRight
<1>4. ASSUME NEW f \in Features
      PROVE  /\ IsSequence(lsindex[f]) /\ Len(lsindex[f]) = Len(path[f])
             /\ Len(path[f]) \in Nat
             /\ \A i \in 1..Len(path[f]) : lsindex[f][i] = SegmentAt(f, i)
  <2> PICK p : p = path[f] OBVIOUS
  <2>1. p \in Seq(Edges \X BOOLEAN) BY <1>2 DEF PathsTyped
  <2> PICK n \in Nat : n = Len(p) /\ DOMAIN p = 1..n BY <2>1
  <2> PICK l : l = lsindex[f] OBVIOUS
  <2>2. l = [i \in 1..n |-> SegmentOf(p[i])] BY <1>1
  <2>3. l \in [1..n -> {SegmentOf(p[i]) : i \in 1..n}] BY <2>2
  <2>4. IsSequence(l) /\ Len(l) = n BY <2>3, Numbered
  <2> QED BY <2>2, <2>4 DEF SegmentAt
<1>5. ASSUME NEW f \in Features PROVE Walked(f) = 0 BY <1>4 DEF Walked
<1>6. ListsRight
  <2>1. ASSUME NEW f \in Features PROVE Remaining(f)
    <3>1. ASSUME NEW j \in 1..Len(path[f])
          PROVE  Matches(lsindex[f][j], SegmentAt(f, Walked(f) + j))
      <4>1. Walked(f) + j = j /\ lsindex[f][j] = SegmentAt(f, j) BY <1>4, <1>5
      <4> PICK s : s = SegmentAt(f, j) OBVIOUS
      <4>2. IsSegment(s) BY <1>2, SegmentsAre
      <4>3. Matches(s, s) BY <4>2 DEF Matches, IsSegment
      <4> QED BY <4>1, <4>3
    <3> QED BY <1>4, <3>1 DEF Remaining
  <2>2. ASSUME NEW f \in Features PROVE ListRight(f)
    <3>1. ls_list[f] = <<>> BY <1>1
    <3>2. ToSet(<<>>) = {} /\ IsSequence(<<>>) BY DEF ToSet, IsSequence
    <3>3. UNION {SegmentIds(SegmentAt(f, i)) : i \in 1..Walked(f)} = {} BY <1>5
    <3> QED BY <3>1, <3>2, <3>3 DEF ListRight
  <2> QED BY <1>1, <2>1, <2>2 DEF ListsRight
<1>7. Waiting
  <2>1. todo \in Seq(Features) /\ Features \subseteq ToSet(todo) BY <1>1, EveryFeatureWaits
  <2> QED BY <1>1, <2>1 DEF Waiting
<1>8. EdgesCopied BY <1>1 DEF EdgesCopied
<1> PICK P : P = Content(vbo_offset, pairs) OBVIOUS
<1>9. DOMAIN P = {} BY <1>1 DEF Content, Connectors
<1>10. Connectives(P)
  <2>1. Shaped(P) BY <1>9 DEF Shaped
  <2>2. Holding(P) BY <1>1 DEF Holding
  <2>3. Made(P)
    <3>1. AllMade(P) BY <1>5 DEF AllMade
    <3>2. ASSUME NEW f \in Features PROVE Led(P, f)
      <4>1. Reached(f) = SegmentAt(f, 1).inode BY <1>5 DEF Reached
      <4>2. ls_list[f] = <<>> BY <1>1
      <4> QED BY <4>1, <4>2, NoRoute DEF Led
    <3> QED BY <3>1, <3>2 DEF Made
  <2> QED BY <2>1, <2>2, <2>3 DEF Connectives
<1> QED BY <1>2, <1>3, <1>6, <1>7, <1>8, <1>10 DEF DrawInv

LEMMA ValidMatches ==
  ASSUME HashRight, NodesRight, NEW t, NEW s, Matches(t, s)
  PROVE  Matches(ValidSegment(t), s)
<1> PICK v : v = ValidSegment(t) OBVIOUS
<1>0. NoIndex \notin tables.nodes /\ NoIndex \notin tables.edges
  BY LineGeometryAssumption DEF HashRight
<1>1. /\ v.inode = IF t.inode \in DOMAIN vc_hash THEN t.inode ELSE NoIndex
      /\ v.enode = IF t.enode \in DOMAIN vc_hash THEN t.enode ELSE NoIndex
      /\ v.edge = IF t.edge \in DOMAIN ve_hash THEN t.edge ELSE NoIndex
      /\ v.forward = IF t.edge \in DOMAIN ve_hash THEN t.forward ELSE TRUE
  BY DEF ValidSegment
<1>2. \A n : n \in tables.nodes => n \in DOMAIN vc_hash BY DEF NodesRight, NodeThere
<1>3. \A e : e \in tables.edges => e \in DOMAIN ve_hash BY DEF HashRight
<1>4. v.inode = s.inode \/ (v.inode \notin tables.nodes /\ ~In(s))
  BY <1>0, <1>1, <1>2 DEF Matches, In
<1>5. v.enode = s.enode \/ (v.enode \notin tables.nodes /\ ~Out(s))
  BY <1>0, <1>1, <1>2 DEF Matches, Out
<1>6. v.forward \in BOOLEAN BY <1>1 DEF Matches
<1>7. \/ v.edge = s.edge /\ v.forward = s.forward
      \/ v.edge \notin tables.edges /\ ~Known(s)
  BY <1>0, <1>1, <1>3 DEF Matches, Known
<1> QED BY <1>4, <1>5, <1>6, <1>7 DEF Matches

(***************************************************************************)
(* The steps keep the invariant of the lines.                              *)
(***************************************************************************)
LEMMA SameWalked ==
  ASSUME ListsRight, UNCHANGED <<input, ls_list>>, DOMAIN lsindex' = Features,
         \A f \in Features :
           /\ IsSequence(lsindex'[f]) /\ Len(lsindex'[f]) = Len(lsindex[f])
           /\ \A j \in 1..Len(lsindex[f]) :
                Matches(lsindex'[f][j], SegmentAt(f, Walked(f) + j))
  PROVE  ListsRight' /\ \A P : Made(P) => Made(P)'
<1>0. UNCHANGED <<tables, ends, path, ls_list>> BY DEF input
<1>1. ASSUME NEW f \in Features PROVE Walked(f)' = Walked(f) BY <1>0 DEF Walked
<1>2. ASSUME NEW f \in Features PROVE Remaining(f)'
  <2>0. Remaining(f) BY DEF ListsRight
  <2>1. Walked(f)' = Walked(f) BY <1>1
  <2>2. ASSUME NEW j \in 1..Len(lsindex[f])
        PROVE  Matches(lsindex[f][j], SegmentAt(f, Walked(f) + j))'
    <3>1. Matches(lsindex'[f][j], SegmentAt(f, Walked(f) + j)) OBVIOUS
    <3>2. SegmentAt(f, Walked(f) + j)' = SegmentAt(f, Walked(f) + j)
      BY <1>0, <2>1 DEF SegmentAt, SegmentOf
    <3> QED BY <1>0, <3>1, <3>2 DEF Matches, In, Out, Known
  <2>3. Len(lsindex'[f]) <= Len(path'[f]) BY <1>0, <2>0 DEF Remaining
  <2> QED BY <2>2, <2>3 DEF Remaining
<1>3. ASSUME NEW f \in Features PROVE ListRight(f)'
  <2>1. ListRight(f) /\ Walked(f)' = Walked(f) BY <1>1 DEF ListsRight
  <2>2. \A i : SegmentIds(SegmentAt(f, i))' = SegmentIds(SegmentAt(f, i))
    BY <1>0 DEF SegmentAt, SegmentOf, SegmentIds, MadeFor, In, Out, Known
  <2> QED BY <1>0, <2>1, <2>2 DEF ListRight
<1>4. ASSUME NEW P, Made(P) PROVE Made(P)'
  <2>1. \A f, i : MadeFor(SegmentAt(f, i))' = MadeFor(SegmentAt(f, i))
    BY <1>0 DEF MadeFor, SegmentAt, SegmentOf, In, Out, Known
  <2>2. AllMade(P)' BY <1>1, <1>4, <2>1 DEF Made, AllMade
  <2>3. \A f \in Features : Led(P, f)' BY <1>0, <1>1, <1>4, LedKept DEF Made
  <2> QED BY <2>2, <2>3 DEF Made
<1> QED BY <1>0, <1>2, <1>3, <1>4 DEF ListsRight

LEMMA ValidateDraw == ASSUME DrawInv, ValidateHashmaps PROVE DrawInv'
<1>1. /\ pc = "validate" /\ pc' = "count"
      /\ UNCHANGED <<input, ve_hash, vc_hash, todo, ls_list, pairs, vbo_offset, buffer>>
      /\ lsindex' = IF version = 200
                    THEN [f \in Features |->
                            [i \in DOMAIN lsindex[f] |-> ValidSegment(lsindex[f][i])]]
                    ELSE lsindex
  BY DEF ValidateHashmaps
<1>2. CASE version # 200
  <2>1. lsindex' = lsindex BY <1>1, <1>2
  <2>2. Waiting' BY <1>1, <2>1 DEF DrawInv, Waiting
  <2> QED BY <1>1, <2>1, <2>2, SameDraw
<1>3. CASE version = 200
  <2>0. lsindex' = [f \in Features |-> [i \in DOMAIN lsindex[f] |-> ValidSegment(lsindex[f][i])]]
    BY <1>1, <1>3
  <2>1. HashRight /\ NodesRight BY <1>1 DEF DrawInv, HashesRight
  <2>2. ASSUME NEW f \in Features
        PROVE  /\ IsSequence(lsindex'[f]) /\ Len(lsindex'[f]) = Len(lsindex[f])
               /\ \A j \in 1..Len(lsindex[f]) :
                    Matches(lsindex'[f][j], SegmentAt(f, Walked(f) + j))
    <3>1. IsSequence(lsindex[f])
          /\ \A j \in 1..Len(lsindex[f]) : Matches(lsindex[f][j], SegmentAt(f, Walked(f) + j))
      BY DEF DrawInv, ListsRight, Remaining
    <3> PICK l : l = lsindex[f] OBVIOUS
    <3> PICK n : n = Len(l) OBVIOUS
    <3>2. n \in Nat /\ DOMAIN l = 1..n BY <3>1 DEF IsSequence
    <3> PICK v : v = lsindex'[f] OBVIOUS
    <3>3. v = [i \in 1..n |-> ValidSegment(l[i])] BY <2>0, <3>2
    <3>4. v \in [1..n -> {ValidSegment(l[i]) : i \in 1..n}] BY <3>3
    <3>5. IsSequence(v) /\ Len(v) = n BY <3>2, <3>4, Numbered
    <3>6. ASSUME NEW j \in 1..n PROVE Matches(v[j], SegmentAt(f, Walked(f) + j))
      <4>1. v[j] = ValidSegment(l[j]) BY <3>3
      <4>2. Matches(l[j], SegmentAt(f, Walked(f) + j)) BY <3>1
      <4> PICK t, s : t = l[j] /\ s = SegmentAt(f, Walked(f) + j) OBVIOUS
      <4>3. Matches(ValidSegment(t), s) BY <2>1, <4>2, ValidMatches
      <4> QED BY <4>1, <4>3
    <3> QED BY <3>5, <3>6
  <2>3. DOMAIN lsindex' = Features BY <2>0
  <2>4. ListsRight' /\ \A P : Made(P) => Made(P)'
    BY <1>1, <2>2, <2>3, SameWalked DEF DrawInv
  <2>5. Waiting'
    <3>1. ASSUME NEW f \in Features, lsindex[f] = <<>> PROVE lsindex'[f] = <<>>
      <4>1. Len(lsindex'[f]) = 0 /\ IsSequence(lsindex'[f]) BY <2>2, <3>1
      <4> PICK l, S : l = lsindex'[f] /\ l \in Seq(S) BY <4>1 DEF IsSequence
      <4>2. l \in Seq(S) /\ Len(l) = 0 BY <4>1
      <4>3. l = <<>> BY <4>2
      <4> QED BY <4>3
    <3> QED BY <1>1, <3>1 DEF DrawInv, Waiting
  <2>6. UNCHANGED tables BY <1>1 DEF input
  <2>7. PathsTyped' BY <1>1, InputKept DEF DrawInv
  <2>8. HashesRight' BY <1>1, <2>6, SameHashes DEF DrawInv
  <2>9. EdgesCopied' /\ \A P : Holding(P) => Holding(P)' BY <1>1, <2>6, SamePoints DEF DrawInv
  <2>10. \A P : Shaped(P) => Shaped(P)' BY <1>1, InputKept
  <2> PICK P : Connectives(P) BY DEF DrawInv
  <2>11. Connectives(P)' BY <2>4, <2>9, <2>10 DEF Connectives
  <2> QED BY <2>4, <2>5, <2>7, <2>8, <2>9, <2>11 DEF DrawInv
<1> QED BY <1>2, <1>3

LEMMA CountDraw == ASSUME DrawInv, CountPoints PROVE DrawInv'
<1>1. /\ pc = "count" /\ pc' = "walk"
      /\ UNCHANGED <<input, ve_hash, vc_hash, lsindex, todo, ls_list, pairs, vbo_offset, buffer>>
  BY DEF CountPoints
<1>2. Waiting' BY <1>1 DEF DrawInv, Waiting
<1> QED BY <1>1, <1>2, SameDraw

LEMMA FinishDraw == ASSUME DrawInv, FinishObject PROVE DrawInv'
<1>1. /\ pc = "walk" /\ todo # <<>> /\ lsindex[Head(todo)] = <<>> /\ todo' = Tail(todo)
      /\ UNCHANGED <<input, ve_hash, vc_hash, lsindex, ls_list, pairs, vbo_offset, buffer, pc>>
  BY DEF FinishObject
<1>2. Waiting'
  <2> PICK q \in Seq(Features) : q = todo BY DEF DrawInv, Waiting
  <2> PICK n \in Nat : n = Len(q) OBVIOUS
  <2>1. /\ Tail(q) \in Seq(Features) /\ Len(Tail(q)) = n - 1 /\ Head(q) = q[1]
        /\ \A i \in 1..(n - 1) : Tail(q)[i] = q[i + 1]
    BY <1>1
  <2>2. ASSUME NEW f \in Features, lsindex[f] # <<>> PROVE f \in ToSet(Tail(q))
    <3>1. PICK i \in 1..n : q[i] = f BY <2>2 DEF DrawInv, Waiting, ToSet
    <3>2. i # 1 BY <1>1, <2>1, <2>2, <3>1
    <3>3. i - 1 \in 1..(n - 1) /\ (i - 1) + 1 = i BY <3>2
    <3>4. Tail(q)[i - 1] = f BY <2>1, <3>1, <3>3
    <3>5. DOMAIN Tail(q) = 1..(n - 1) BY <2>1
    <3> QED BY <3>3, <3>4, <3>5 DEF ToSet
  <2> QED BY <1>1, <2>1, <2>2 DEF Waiting
<1> QED BY <1>1, <1>2, SameDraw

LEMMA AllocateDraw == ASSUME DrawInv, Allocate PROVE DrawInv'
<1>1. /\ pc = "walk" /\ pc' = "edges" /\ todo = <<>>
      /\ UNCHANGED <<input, ve_hash, vc_hash, lsindex, todo, ls_list, pairs, vbo_offset, buffer>>
  BY DEF Allocate
<1>2. Waiting' BY <1>1 DEF DrawInv, Waiting
<1> QED BY <1>1, <1>2, SameDraw

LEMMA ReleaseDraw == ASSUME DrawInv, ReleaseHashes PROVE DrawInv'
<1>1. /\ pc = "release" /\ pc' = "built"
      /\ UNCHANGED <<input, lsindex, todo, ls_list, pairs, vbo_offset, buffer>>
      /\ ve_hash' = [e \in {i \in DOMAIN ve_hash : ve_hash[i] # Null} |-> ve_hash[e]]
  BY DEF ReleaseHashes
<1>2. UNCHANGED tables BY <1>1 DEF input
<1>3. \A e \in DOMAIN ve_hash :
        ve_hash[e] \in Nat => e \in DOMAIN ve_hash' /\ ve_hash'[e] = ve_hash[e]
  BY <1>1 DEF Null
<1>4. HashesRight'
  <2>1. HashRight BY DEF DrawInv, HashesRight
  <2>2. ASSUME NEW e \in tables.edges PROVE e \in DOMAIN ve_hash' /\ ve_hash'[e] = EdgeSize[e]
    <3>1. e \in DOMAIN ve_hash /\ ve_hash[e] = EdgeSize[e] /\ EdgeSize[e] \in Nat
      BY <2>1, LineGeometryAssumption DEF HashRight
    <3> QED BY <1>3, <3>1
  <2>3. \A e \in DOMAIN ve_hash' \ tables.edges : ve_hash'[e] \in {0, Null}
    BY <1>1, <2>1 DEF HashRight
  <2> QED BY <1>1, <1>2, <2>1, <2>2, <2>3 DEF HashesRight, HashRight
<1>5. EdgesCopied'
  <2>1. ASSUME NEW id \in DOMAIN vbo_offset, EdgeCopied(id) PROVE EdgeCopied(id)'
    <3>1. id[2] \in DOMAIN ve_hash /\ ve_hash[id[2]] \in Nat BY <2>1 DEF EdgeCopied
    <3>2. id[2] \in DOMAIN ve_hash' /\ ve_hash'[id[2]] = ve_hash[id[2]] BY <1>3, <3>1
    <3> QED BY <1>1, <2>1, <3>2 DEF EdgeCopied
  <2> QED BY <1>1, <1>2, <2>1 DEF DrawInv, EdgesCopied
<1>6. ListsRight' /\ \A P : Made(P) => Made(P)' BY <1>1, SameLists DEF DrawInv
<1>7. PathsTyped' /\ \A P : Shaped(P) => Shaped(P)' BY <1>1, InputKept DEF DrawInv
<1>8. \A P : Holding(P) => Holding(P)' BY <1>1 DEF Holding, PairCopied
<1>9. Waiting' BY <1>1 DEF DrawInv, Waiting
<1> PICK P : Connectives(P) BY DEF DrawInv
<1>10. Connectives(P)' BY <1>6, <1>7, <1>8 DEF Connectives
<1> QED BY <1>4, <1>5, <1>6, <1>7, <1>9, <1>10 DEF DrawInv

\* A segment that ValidateHashmaps has left alike makes and draws the same.
LEMMA MatchesAlike ==
  ASSUME NEW t, NEW s, Matches(t, s)
  PROVE  /\ MadeFor(t) = MadeFor(s) /\ SegmentIds(t) = SegmentIds(s)
         /\ \A P, Q : Extended(P, Q, t) => Extended(P, Q, s)
<1>1. In(t) <=> In(s) BY DEF Matches, In
<1>2. Out(t) <=> Out(s) BY DEF Matches, Out
<1>3. Known(t) <=> Known(s) BY DEF Matches, Known
<1>4. In(s) => t.inode = s.inode BY DEF Matches
<1>5. Out(s) => t.enode = s.enode BY DEF Matches
<1>6. Known(s) => t.edge = s.edge /\ t.forward = s.forward BY DEF Matches
<1>7. In(s) /\ Known(s) => CE(t) = CE(s) BY <1>4, <1>6 DEF CE
<1>8. In(s) /\ Out(s) /\ Known(s) => EC(t) = EC(s) BY <1>5, <1>6 DEF EC
<1>9. In(s) /\ Out(s) /\ ~Known(s) => CC(t) = CC(s) BY <1>4, <1>5 DEF CC
<1>10. MadeFor(t) = MadeFor(s) BY <1>1, <1>2, <1>3, <1>7, <1>8, <1>9 DEF MadeFor
<1>11. SegmentIds(t) = SegmentIds(s) BY <1>3, <1>6, <1>10 DEF SegmentIds
<1>12. ASSUME NEW P, NEW Q, Extended(P, Q, t) PROVE Extended(P, Q, s)
  <2>1. ASSUME CE(s) \in MadeFor(s) \ DOMAIN P
        PROVE  Q[CE(s)] = <<NodeAt(s.inode), FirstPoint(s.edge, s.forward)>>
    <3>1. In(s) /\ Known(s) BY <2>1, Distinct
    <3> QED BY <1>4, <1>6, <1>7, <1>10, <1>12, <2>1, <3>1 DEF Extended
  <2>2. ASSUME EC(s) \in MadeFor(s) \ DOMAIN P
        PROVE  Q[EC(s)] = <<LastPoint(s.edge, s.forward), NodeAt(s.enode)>>
    <3>1. In(s) /\ Out(s) /\ Known(s) BY <2>2, Distinct
    <3> QED BY <1>5, <1>6, <1>8, <1>10, <1>12, <2>2, <3>1 DEF Extended
  <2>3. ASSUME CC(s) \in MadeFor(s) \ DOMAIN P
        PROVE  Q[CC(s)] = <<NodeAt(s.inode), NodeAt(s.enode)>>
    <3>1. In(s) /\ Out(s) /\ ~Known(s) BY <2>3, Distinct
    <3> QED BY <1>4, <1>5, <1>9, <1>10, <1>12, <2>3, <3>1 DEF Extended
  <2> QED BY <1>10, <1>12, <2>1, <2>2, <2>3 DEF Extended
<1> QED BY <1>10, <1>11, <1>12

MadeBy(t) == FoldLeft(Connect, [offset |-> vbo_offset, pairs |-> pairs], Elements(t))
IdsBy(t) == [i \in DOMAIN Elements(t) |-> Elements(t)[i].id]

\* What a segment adds to the connectors and to the list.
LEMMA SegmentMakes ==
  ASSUME HashRight, NodesRight, Connected(vbo_offset, pairs), NoEdges(vbo_offset),
         NEW t, t.forward \in BOOLEAN
  PROVE  /\ Extended(Content(vbo_offset, pairs),
                     Content(MadeBy(t).offset, MadeBy(t).pairs), t)
         /\ IsSequence(IdsBy(t)) /\ ToSet(IdsBy(t)) = SegmentIds(t)
<1> PICK q : q = Elements(t) OBVIOUS
<1> PICK n : n = Len(q) OBVIOUS
<1>1. n \in Nat /\ DOMAIN q = 1..n /\ \A k \in 1..n : IsElement(q[k]) BY ElementsAre
<1>2. ToSet(q) = ElementSet(t) BY ElementsGive
<1>3. {q[k] : k \in 1..n} = ElementSet(t) BY <1>1, <1>2 DEF ToSet
<1>4. ASSUME NEW j \in 1..n, NEW k \in 1..n, q[j].id = q[k].id PROVE q[j] = q[k]
  <2>1. q[j] \in ElementSet(t) /\ q[k] \in ElementSet(t) BY <1>3
  <2>2. \A x, y \in ElementSet(t) : x.id = y.id => x = y BY ElementsApart
  <2> QED BY <1>4, <2>1, <2>2
<1> PICK e : e = [offset |-> vbo_offset, pairs |-> pairs] OBVIOUS
<1> PICK P : P = Content(vbo_offset, pairs) OBVIOUS
<1> PICK made : made = FoldLeft(Connect, e, q) OBVIOUS
<1>5. /\ Connected(e.offset, e.pairs) /\ NoEdges(e.offset)
      /\ Content(e.offset, e.pairs) = P
  OBVIOUS
<1>6. Gains(P, Content(made.offset, made.pairs), UpTo(q, n))
  <2>1. \A j, k \in 1..n : q[j].id = q[k].id => q[j] = q[k] BY <1>4
  <2> QED BY <1>1, <1>5, <2>1, ConnectAll
<1>7. Extended(P, Content(made.offset, made.pairs), t)
  <2>1. UpTo(q, n) = ElementSet(t) BY <1>3 DEF UpTo
  <2> QED BY <1>6, <2>1, GainsExtends
<1> PICK ids : ids = [i \in DOMAIN q |-> q[i].id] OBVIOUS
<1>8. IsSequence(ids) /\ ToSet(ids) = SegmentIds(t)
  <2>1. ids = [i \in 1..n |-> q[i].id] BY <1>1
  <2>2. ids \in [1..n -> {q[i].id : i \in 1..n}] BY <2>1
  <2>3. IsSequence(ids)
    <3>1. ASSUME NEW u, NEW S, u \in [1..n -> S] PROVE IsSequence(u) BY <1>1, <3>1, Numbered
    <3> QED BY <2>2, <3>1
  <2>4. ToSet(ids) = {x.id : x \in {q[k] : k \in 1..n}} BY <2>1 DEF ToSet
  <2> QED BY <1>3, <2>3, <2>4, ElementsApart
<1> QED BY <1>7, <1>8 DEF MadeBy, IdsBy

LEMMA ThreeInOrder ==
  ASSUME NEW x, NEW y, NEW z
  PROVE  <<x>> \o <<y>> \o <<z>> = <<x, y, z>> /\ <<>> \o <<>> \o <<x>> = <<x>>
<1> DEFINE S == {x, y, z}
<1>1. ASSUME NEW p \in Seq(S), NEW u \in S
      PROVE  /\ p \o <<u>> \in Seq(S) /\ Len(p \o <<u>>) = Len(p) + 1
             /\ (p \o <<u>>)[Len(p) + 1] = u
             /\ \A i \in 1..Len(p) : (p \o <<u>>)[i] = p[i]
  <2>1. <<u>> \in Seq(S) /\ Len(<<u>>) = 1 /\ <<u>>[1] = u OBVIOUS
  <2> QED BY <2>1
<1>2. ASSUME NEW p \in Seq(S), Len(p) = 1, p[1] = x PROVE p = <<x>>
  <2>1. <<x>> \in Seq(S) /\ Len(<<x>>) = 1 /\ <<x>>[1] = x OBVIOUS
  <2>2. \A i \in 1..1 : p[i] = <<x>>[i] BY <1>2, <2>1
  <2> QED BY <1>2, <2>1, <2>2, SeqEqual
<1>3. ASSUME NEW p \in Seq(S), Len(p) = 3, p[1] = x, p[2] = y, p[3] = z PROVE p = <<x, y, z>>
  <2> PICK t : t = <<x, y, z>> OBVIOUS
  <2>1. t \in Seq(S) /\ Len(t) = 3 /\ t[1] = x /\ t[2] = y /\ t[3] = z OBVIOUS
  <2>2. \A i \in 1..3 : i = 1 \/ i = 2 \/ i = 3 OBVIOUS
  <2>3. \A i \in 1..3 : p[i] = t[i] BY <1>3, <2>1, <2>2
  <2> HIDE DEF S
  <2> QED BY <1>3, <2>1, <2>3, SeqEqual
<1>4. <<>> \in Seq(S) /\ Len(<<>>) = 0 /\ <<>> \o <<>> = <<>> OBVIOUS
<1>5. <<>> \o <<>> \o <<x>> = <<x>>
  <2>1. <<>> \o <<x>> \in Seq(S) /\ Len(<<>> \o <<x>>) = 1 /\ (<<>> \o <<x>>)[1] = x
    BY <1>1, <1>4
  <2> QED BY <1>2, <1>4, <2>1
<1>6. <<x>> \in Seq(S) /\ Len(<<x>>) = 1 /\ <<x>>[1] = x OBVIOUS
<1> HIDE DEF S
<1>7. x \in S /\ y \in S /\ z \in S BY DEF S
<1>8. /\ <<x>> \o <<y>> \in Seq(S) /\ Len(<<x>> \o <<y>>) = 2
      /\ (<<x>> \o <<y>>)[1] = x /\ (<<x>> \o <<y>>)[2] = y
  BY <1>1, <1>6, <1>7
<1>9. ASSUME NEW p \in Seq(S), Len(p) = 2, p[1] = x, p[2] = y PROVE p \o <<z>> = <<x, y, z>>
  <2>0. 1 \in 1..Len(p) /\ 2 \in 1..Len(p) /\ Len(p) + 1 = 3 BY <1>9
  <2>1. p \o <<z>> \in Seq(S) /\ Len(p \o <<z>>) = 3 /\ (p \o <<z>>)[3] = z
        /\ (p \o <<z>>)[1] = p[1] /\ (p \o <<z>>)[2] = p[2]
    BY <1>1, <1>7, <2>0
  <2>2. (p \o <<z>>)[1] = x /\ (p \o <<z>>)[2] = y BY <1>9, <2>1
  <2> QED BY <1>3, <2>1, <2>2
<1> QED BY <1>5, <1>8, <1>9

LEMMA IdsInOrder ==
  ASSUME HashRight, NodesRight, NEW t, In(t), Out(t) PROVE IdsBy(t) = Ids(t)
<1>0. (EdgeThere(t) <=> Known(t)) /\ NodeThere(t.inode) /\ NodeThere(t.enode)
  BY KnownThere
<1> DEFINE x == [id |-> CE(t), pair |-> << <<"node", t.inode>>, FirstOf(t)>>]
           y == [id |-> <<"EE", t.edge>>, pair |-> <<>>]
           z == [id |-> EC(t), pair |-> <<LastOf(t), <<"node", t.enode>> >>]
           w == [id |-> CC(t), pair |-> << <<"node", t.inode>>, <<"node", t.enode>> >>]
<1>1. x.id = CE(t) /\ y.id = EE(t.edge) /\ z.id = EC(t) /\ w.id = CC(t) BY DEF EE
<1>2. CASE Known(t)
  <2>1. Elements(t) = <<x>> \o <<y>> \o <<z>>
    <3> DEFINE last == CASE NodeThere(t.inode) /\ NodeThere(t.enode) /\ EdgeThere(t) -> <<z>>
                         [] NodeThere(t.inode) /\ NodeThere(t.enode) /\ ~EdgeThere(t) -> <<w>>
                         [] OTHER -> <<>>
    <3>1. last = <<z>> BY <1>0, <1>2
    <3>2. Elements(t) = (IF NodeThere(t.inode) /\ EdgeThere(t) THEN <<x>> ELSE <<>>)
                        \o (IF EdgeThere(t) THEN <<y>> ELSE <<>>) \o last
      BY DEF Elements
    <3> HIDE DEF x, y, z, w, last
    <3> QED BY <1>0, <1>2, <3>1, <3>2
  <2> HIDE DEF x, y, z, w
  <2>2. Elements(t) = <<x, y, z>> BY <2>1, ThreeInOrder
  <2>3. IdsBy(t) = <<x.id, y.id, z.id>> BY <2>2 DEF IdsBy
  <2> QED BY <1>1, <1>2, <2>3 DEF Ids
<1>3. CASE ~Known(t)
  <2>1. Elements(t) = <<>> \o <<>> \o <<w>>
    <3> DEFINE last == CASE NodeThere(t.inode) /\ NodeThere(t.enode) /\ EdgeThere(t) -> <<z>>
                         [] NodeThere(t.inode) /\ NodeThere(t.enode) /\ ~EdgeThere(t) -> <<w>>
                         [] OTHER -> <<>>
    <3>1. last = <<w>> BY <1>0, <1>3
    <3>2. Elements(t) = (IF NodeThere(t.inode) /\ EdgeThere(t) THEN <<x>> ELSE <<>>)
                        \o (IF EdgeThere(t) THEN <<y>> ELSE <<>>) \o last
      BY DEF Elements
    <3> HIDE DEF x, y, z, w, last
    <3> QED BY <1>0, <1>3, <3>1, <3>2
  <2> HIDE DEF x, y, z, w
  <2>2. Elements(t) = <<w>> BY <2>1, ThreeInOrder
  <2>3. IdsBy(t) = <<w.id>> BY <2>2 DEF IdsBy
  <2> QED BY <1>1, <1>3, <2>3 DEF Ids
<1> QED BY <1>2, <1>3

LEMMA MatchingIds ==
  ASSUME NEW t, NEW s, Matches(t, s), In(s), Out(s)
  PROVE  In(t) /\ Out(t) /\ Ids(t) = Ids(s)
<1>1. t.inode = s.inode /\ t.enode = s.enode BY DEF Matches
<1>2. Known(t) <=> Known(s) BY DEF Matches, Known
<1>3. Known(s) => t.edge = s.edge BY DEF Matches
<1> QED BY <1>1, <1>2, <1>3 DEF In, Out, Ids, CE, EC, CC, EE

LEMMA TouchedRight ==
  ASSUME HashRight, NodesRight, NEW e, NEW S,
         UNCHANGED tables, ve_hash' = Touched(ve_hash, {e}, Null),
         vc_hash' = Touched(vc_hash, S, FALSE)
  PROVE  HashRight' /\ NodesRight'
<1>1. HashRight' BY DEF HashRight, Touched
<1>2. \A n : NodeThere(n)' <=> NodeThere(n) BY DEF NodeThere, Touched
<1>3. NodesRight' BY <1>2 DEF NodesRight
<1> QED BY <1>1, <1>3

LEMMA NextSegment ==
  ASSUME ListsRight, PathsTyped, NEW f \in Features, lsindex[f] # <<>>
  PROVE  \E w, r \in Nat :
           /\ Len(lsindex[f]) = r + 1 /\ Walked(f) = w /\ Len(path[f]) = (w + r) + 1
           /\ Matches(Head(lsindex[f]), SegmentAt(f, w + 1))
           /\ IsSegment(SegmentAt(f, w + 1))
<1>1. /\ IsSequence(lsindex[f]) /\ Len(lsindex[f]) <= Len(path[f])
      /\ \A j \in 1..Len(lsindex[f]) : Matches(lsindex[f][j], SegmentAt(f, Walked(f) + j))
      /\ path[f] \in Seq(Edges \X BOOLEAN)
  BY DEF ListsRight, Remaining, PathsTyped
<1>2. ASSUME NEW n \in Nat, NEW m \in Nat, n <= m, n # 0
      PROVE  /\ n - 1 \in Nat /\ m - n \in Nat /\ n = (n - 1) + 1
             /\ m = ((m - n) + (n - 1)) + 1 /\ 1 \in 1..n /\ (m - n) + 1 \in 1..m
  BY <1>2
<1>3. Len(lsindex[f]) \in Nat /\ Len(lsindex[f]) # 0 /\ Head(lsindex[f]) = lsindex[f][1]
  <2> PICK S : lsindex[f] \in Seq(S) BY <1>1 DEF IsSequence
  <2> QED OBVIOUS
<1>4. Len(path[f]) \in Nat BY <1>1
<1>5. /\ Len(lsindex[f]) - 1 \in Nat /\ Walked(f) \in Nat
      /\ Len(lsindex[f]) = (Len(lsindex[f]) - 1) + 1
      /\ Len(path[f]) = (Walked(f) + (Len(lsindex[f]) - 1)) + 1
      /\ 1 \in 1..Len(lsindex[f]) /\ Walked(f) + 1 \in 1..Len(path[f])
  BY <1>1, <1>2, <1>3, <1>4 DEF Walked
<1>6. Matches(Head(lsindex[f]), SegmentAt(f, Walked(f) + 1)) BY <1>1, <1>3, <1>5
<1>7. IsSegment(SegmentAt(f, Walked(f) + 1)) BY <1>5, SegmentsAre
<1> QED BY <1>5, <1>6, <1>7

LEMMA SegmentsKept ==
  ASSUME UNCHANGED input, NEW g, NEW i
  PROVE  /\ SegmentIds(SegmentAt(g, i))' = SegmentIds(SegmentAt(g, i))
         /\ MadeFor(SegmentAt(g, i))' = MadeFor(SegmentAt(g, i))
         /\ \A l : Matches(l, SegmentAt(g, i)) => Matches(l, SegmentAt(g, i))'
<1>1. UNCHANGED <<tables, ends, path>> BY DEF input
<1>2. MadeFor(SegmentAt(g, i))' = MadeFor(SegmentAt(g, i))
  BY <1>1 DEF SegmentAt, SegmentOf, MadeFor, In, Out, Known
<1>3. SegmentIds(SegmentAt(g, i))' = SegmentIds(SegmentAt(g, i))
  BY <1>1 DEF SegmentAt, SegmentOf, SegmentIds, MadeFor, In, Out, Known
<1>4. ASSUME NEW l, Matches(l, SegmentAt(g, i)) PROVE Matches(l, SegmentAt(g, i))'
  BY <1>1, <1>4 DEF SegmentAt, SegmentOf, Matches, In, Out, Known
<1> QED BY <1>2, <1>3, <1>4

LEMMA WalkLists ==
  ASSUME ListsRight, UNCHANGED input, NEW f \in Features, NEW w \in Nat, NEW r \in Nat,
         Len(lsindex[f]) = r + 1, Walked(f) = w, Len(path[f]) = (w + r) + 1,
         NEW ids, IsSequence(ids), ToSet(ids) = SegmentIds(SegmentAt(f, w + 1)),
         lsindex' = [lsindex EXCEPT ![f] = Tail(lsindex[f])],
         ls_list' = [ls_list EXCEPT ![f] = ls_list[f] \o ids]
  PROVE  /\ ListsRight'
         /\ \A P, Q : /\ AllMade(P) /\ DOMAIN P \subseteq DOMAIN Q
                      /\ MadeFor(SegmentAt(f, w + 1)) \subseteq DOMAIN Q
                      => AllMade(Q)'
         /\ \A g \in Features : lsindex'[g] # <<>> => lsindex[g] # <<>>
<1>2. UNCHANGED <<tables, ends, path>> BY DEF input
<1>3. /\ lsindex'[f] = Tail(lsindex[f]) /\ ls_list'[f] = ls_list[f] \o ids
      /\ DOMAIN lsindex' = Features /\ DOMAIN ls_list' = Features
      /\ \A g \in Features \ {f} : lsindex'[g] = lsindex[g] /\ ls_list'[g] = ls_list[g]
  BY DEF ListsRight
<1>4. /\ IsSequence(Tail(lsindex[f])) /\ Len(Tail(lsindex[f])) = r
      /\ \A j \in 1..r : Tail(lsindex[f])[j] = lsindex[f][j + 1]
  <2>1. IsSequence(lsindex[f]) BY DEF ListsRight, Remaining
  <2> PICK S : lsindex[f] \in Seq(S) BY <2>1 DEF IsSequence
  <2>2. lsindex[f] # <<>> OBVIOUS
  <2>3. Tail(lsindex[f]) \in Seq(S) BY <2>2
  <2> QED BY <2>2, <2>3 DEF IsSequence
<1>5. ((w + r) + 1) - r = w + 1 /\ r <= (w + r) + 1 OBVIOUS
<1>6. Walked(f)' = w + 1 BY <1>2, <1>3, <1>4, <1>5 DEF Walked
<1>7. \A g \in Features \ {f} : Walked(g)' = Walked(g) BY <1>2, <1>3 DEF Walked
<1>8. \A g, i : /\ SegmentIds(SegmentAt(g, i))' = SegmentIds(SegmentAt(g, i))
                /\ MadeFor(SegmentAt(g, i))' = MadeFor(SegmentAt(g, i))
                /\ \A l : Matches(l, SegmentAt(g, i)) => Matches(l, SegmentAt(g, i))'
  BY SegmentsKept
<1>9. \A g, i : /\ SegmentIds(SegmentAt(g, i))' = SegmentIds(SegmentAt(g, i))
                /\ MadeFor(SegmentAt(g, i))' = MadeFor(SegmentAt(g, i))
  BY <1>8
<1>10. \A l, g, i : Matches(l, SegmentAt(g, i)) => Matches(l, SegmentAt(g, i))' BY <1>8
<1>11. ASSUME NEW g \in Features, NEW l, NEW v, lsindex'[g] = l, Walked(g)' = v, IsSequence(l),
              Len(l) <= Len(path[g]), \A j \in 1..Len(l) : Matches(l[j], SegmentAt(g, v + j))
       PROVE  Remaining(g)'
  <2>1. ASSUME NEW j \in 1..Len(l) PROVE Matches(lsindex[g][j], SegmentAt(g, Walked(g) + j))'
    <3>1. Matches(l[j], SegmentAt(g, v + j))' BY <1>10, <1>11
    <3>2. lsindex'[g][j] = l[j] /\ Walked(g)' + j = v + j BY <1>11
    <3>3. SegmentAt(g, v + j)' = SegmentAt(g, Walked(g) + j)' BY <3>2 DEF SegmentAt, SegmentOf
    <3> QED BY <3>1, <3>2, <3>3 DEF Matches, In, Out, Known
  <2> QED BY <1>2, <1>11, <2>1 DEF Remaining
<1>12. ASSUME NEW g \in Features, g # f PROVE Remaining(g)'
  <2>1. Remaining(g) BY DEF ListsRight
  <2>2. lsindex'[g] = lsindex[g] /\ Walked(g)' = Walked(g) BY <1>3, <1>7, <1>12
  <2> QED BY <1>11, <2>1, <2>2 DEF Remaining
<1>13. Remaining(f)'
  <2>1. Remaining(f) BY DEF ListsRight
  <2>2. ASSUME NEW j \in 1..r PROVE Matches(Tail(lsindex[f])[j], SegmentAt(f, (w + 1) + j))
    <3>1. j + 1 \in 1..(r + 1) /\ w + (j + 1) = (w + 1) + j OBVIOUS
    <3>2. Matches(lsindex[f][j + 1], SegmentAt(f, w + (j + 1))) BY <2>1, <3>1 DEF Remaining
    <3> QED BY <1>4, <3>1, <3>2
  <2>3. Len(Tail(lsindex[f])) <= Len(path[f]) BY <1>4, <1>5
  <2> QED BY <1>3, <1>4, <1>6, <1>11, <2>2, <2>3
<1>14. ASSUME NEW g \in Features, g # f PROVE ListRight(g)'
  <2>1. ListRight(g) BY DEF ListsRight
  <2>2. ls_list'[g] = ls_list[g] /\ Walked(g)' = Walked(g) BY <1>3, <1>7, <1>14
  <2> QED BY <1>9, <2>1, <2>2 DEF ListRight
<1>15. ListRight(f)'
  <2> DEFINE U(m) == UNION {SegmentIds(SegmentAt(f, i)) : i \in 1..m}
             new == SegmentIds(SegmentAt(f, w + 1))
  <2>1. U(w + 1) = U(w) \cup new
    <3>1. \A i \in 1..(w + 1) : i \in 1..w \/ i = w + 1 OBVIOUS
    <3>2. \A i \in 1..w : i \in 1..(w + 1) OBVIOUS
    <3>3. w + 1 \in 1..(w + 1) OBVIOUS
    <3>4. ASSUME NEW x PROVE x \in U(w + 1) <=> x \in U(w) \cup new
      <4>1. ASSUME NEW i \in 1..(w + 1), x \in SegmentIds(SegmentAt(f, i))
            PROVE  x \in U(w) \cup new
        BY <3>1, <4>1
      <4>2. x \in U(w) => x \in U(w + 1) BY <3>2
      <4>3. x \in new => x \in U(w + 1) BY <3>3
      <4> QED BY <4>1, <4>2, <4>3
    <3> HIDE DEF U, new
    <3> QED BY <3>4
  <2>2. IsSequence(ls_list[f]) /\ ToSet(ls_list[f]) = U(w) BY DEF ListsRight, ListRight
  <2>3. IsSequence(ls_list[f] \o ids) BY <2>2, Concatenated
  <2>4. ToSet(ls_list[f] \o ids) = ToSet(ls_list[f]) \cup ToSet(ids) BY <2>2, Ranges
  <2>5. ToSet(ls_list[f] \o ids) = U(w + 1) BY <2>1, <2>2, <2>4
  <2>6. U(w + 1) = UNION {SegmentIds(SegmentAt(f, i))' : i \in 1..(w + 1)} BY <1>9
  <2> HIDE DEF U
  <2> QED BY <1>3, <1>6, <2>3, <2>5, <2>6 DEF ListRight
<1>16. ListsRight' BY <1>3, <1>12, <1>13, <1>14, <1>15 DEF ListsRight
<1>17. ASSUME NEW P, NEW Q, AllMade(P), DOMAIN P \subseteq DOMAIN Q,
              MadeFor(SegmentAt(f, w + 1)) \subseteq DOMAIN Q
       PROVE  AllMade(Q)'
  <2>1. ASSUME NEW g \in Features, NEW i \in 1..Walked(g)'
        PROVE  MadeFor(SegmentAt(g, i)) \subseteq DOMAIN Q
    <3>1. CASE g # f BY <1>7, <1>17, <3>1 DEF AllMade
    <3>2. CASE g = f
      <4>1. i \in 1..(w + 1) BY <1>6, <3>2
      <4>2. i \in 1..w \/ i = w + 1 BY <4>1
      <4> QED BY <1>17, <3>2, <4>2 DEF AllMade
    <3> QED BY <3>1, <3>2
  <2> QED BY <1>9, <2>1 DEF AllMade
<1>18. \A g \in Features : lsindex'[g] # <<>> => lsindex[g] # <<>>
  <2>1. lsindex[f] # <<>> OBVIOUS
  <2> QED BY <1>3, <2>1
<1> QED BY <1>16, <1>17, <1>18

LEMMA WalkLeads ==
  ASSUME ListsRight, PathsTyped, UNCHANGED input,
         NEW f \in Features, NEW w \in Nat, NEW r \in Nat,
         Len(lsindex[f]) = r + 1, Walked(f) = w, Len(path[f]) = (w + r) + 1,
         NEW s, s = SegmentAt(f, w + 1),
         NEW ids, IsSequence(ids),
         lsindex' = [lsindex EXCEPT ![f] = Tail(lsindex[f])],
         ls_list' = [ls_list EXCEPT ![f] = ls_list[f] \o ids],
         NEW P, NEW Q, \A g \in Features : Led(P, g),
         DOMAIN P \subseteq DOMAIN Q, \A id \in DOMAIN P : Q[id] = P[id],
         In(s) /\ Out(s) => Route(Q, ids, NodeAt(s.inode), NodeAt(s.enode))
  PROVE  \A g \in Features : Led(Q, g)'
<1>1. UNCHANGED <<tables, ends, path>> BY DEF input
<1>2. /\ lsindex'[f] = Tail(lsindex[f]) /\ ls_list'[f] = ls_list[f] \o ids
      /\ \A g \in Features \ {f} : lsindex'[g] = lsindex[g] /\ ls_list'[g] = ls_list[g]
  BY DEF ListsRight
<1>3. \A g \in Features : IsSequence(ls_list[g]) BY DEF ListsRight, ListRight
<1>4. ASSUME NEW g \in Features PROVE Led(Q, g)
  BY <1>3, <1>4, RouteStays DEF Led
<1>5. ASSUME NEW g \in Features, g # f PROVE Led(Q, g)'
  <2>1. UNCHANGED <<Walked(g), ls_list[g]>> BY <1>1, <1>2, <1>5 DEF Walked
  <2> QED BY <1>1, <1>4, <2>1, LedKept
<1>6. Len(Tail(lsindex[f])) = r
  <2>1. IsSequence(lsindex[f]) BY DEF ListsRight, Remaining
  <2> PICK S : lsindex[f] \in Seq(S) BY <2>1 DEF IsSequence
  <2>2. lsindex[f] # <<>> OBVIOUS
  <2> QED BY <2>2
<1>7. ((w + r) + 1) - r = w + 1 /\ w + 1 # 0 OBVIOUS
<1>8. Walked(f)' = w + 1 BY <1>1, <1>2, <1>6, <1>7 DEF Walked
<1>9. \A i : SegmentAt(f, i)' = SegmentAt(f, i) BY <1>1 DEF SegmentAt, SegmentOf
<1>10. Reached(f)' = s.enode BY <1>7, <1>8, <1>9 DEF Reached
<1>11. Straight(f)' => Straight(f)
  <2>1. Follows(f)' <=> Follows(f) BY <1>1 DEF Follows, SegmentOf
  <2>2. NodesOf(f)' = NodesOf(f) BY <1>1 DEF NodesOf, SegmentOf
  <2> QED BY <1>1, <2>1, <2>2 DEF Straight
<1>12. ASSUME Straight(f) PROVE In(s) /\ Out(s) /\ Reached(f) = s.inode
  <2>1. path[f] \in Seq(Edges \X BOOLEAN) BY DEF PathsTyped
  <2>2. DOMAIN path[f] = 1..((w + r) + 1) BY <2>1
  <2>3. w + 1 \in 1..((w + r) + 1) OBVIOUS
  <2>4. s.inode \in NodesOf(f) /\ s.enode \in NodesOf(f)
    BY <2>2, <2>3 DEF NodesOf, SegmentAt
  <2>5. CASE w = 0
    <3>1. w + 1 = 1 BY <2>5
    <3>2. Reached(f) = SegmentAt(f, 1).inode BY <2>5 DEF Reached
    <3> QED BY <1>12, <2>4, <3>1, <3>2 DEF Straight, In, Out
  <2>6. CASE w # 0
    <3>1. w \in 1..(((w + r) + 1) - 1) BY <2>6
    <3>2. SegmentAt(f, w).enode = s.inode BY <1>12, <3>1 DEF Straight, Follows, SegmentAt
    <3>3. Reached(f) = SegmentAt(f, w).enode BY <2>6 DEF Reached
    <3> QED BY <1>12, <2>4, <3>2, <3>3 DEF Straight, In, Out
  <2> QED BY <2>5, <2>6
<1>13. Led(Q, f)'
  <2> PICK a : a = NodeAt(SegmentAt(f, 1).inode) OBVIOUS
  <2>1. ASSUME Straight(f) PROVE Route(Q, ls_list[f] \o ids, a, NodeAt(s.enode))
    <3>1. Route(Q, ls_list[f], a, NodeAt(s.inode)) BY <1>4, <1>12, <2>1 DEF Led
    <3>2. Route(Q, ids, NodeAt(s.inode), NodeAt(s.enode)) BY <1>12, <2>1
    <3> QED BY <1>3, <3>1, <3>2, RouteGoesOn
  <2> QED BY <1>2, <1>9, <1>10, <1>11, <2>1 DEF Led
<1> QED BY <1>5, <1>13

LEMMA WalkDraw == ASSUME DrawInv, BufferInv, WalkSegment PROVE DrawInv'
<1> PICK f : f = Head(todo) OBVIOUS
<1>1. /\ pc = "walk" /\ todo # <<>> /\ lsindex[f] # <<>>
      /\ UNCHANGED <<input, todo, buffer, pc>>
  BY DEF WalkSegment
<1> PICK t : t = Head(lsindex[f]) OBVIOUS
<1> PICK ids : ids = IdsBy(t) OBVIOUS
<1>2. /\ ls_list' = [ls_list EXCEPT ![f] = ls_list[f] \o ids]
      /\ vbo_offset' = MadeBy(t).offset /\ pairs' = MadeBy(t).pairs
      /\ ve_hash' = Touched(ve_hash, {t.edge}, Null)
      /\ vc_hash' = Touched(vc_hash, {t.inode, t.enode}, FALSE)
      /\ lsindex' = [lsindex EXCEPT ![f] = Tail(lsindex[f])]
  BY DEF WalkSegment, MadeBy, IdsBy
<1>3. f \in Features
  <2>1. todo \in Seq(Features) BY DEF DrawInv, Waiting
  <2> QED BY <1>1, <2>1
<1>4. HashRight /\ NodesRight BY <1>1 DEF DrawInv, HashesRight
<1>5. Connected(vbo_offset, pairs) /\ NoEdges(vbo_offset) BY <1>1 DEF BufferInv, Counted
<1>6. \E w, r \in Nat :
        /\ Len(lsindex[f]) = r + 1 /\ Walked(f) = w /\ Len(path[f]) = (w + r) + 1
        /\ Matches(Head(lsindex[f]), SegmentAt(f, w + 1))
        /\ IsSegment(SegmentAt(f, w + 1))
  BY <1>1, <1>3, NextSegment DEF DrawInv
<1> PICK w, r \in Nat :
        /\ Len(lsindex[f]) = r + 1 /\ Walked(f) = w /\ Len(path[f]) = (w + r) + 1
        /\ Matches(Head(lsindex[f]), SegmentAt(f, w + 1))
        /\ IsSegment(SegmentAt(f, w + 1))
  BY <1>6
<1> PICK s : s = SegmentAt(f, w + 1) OBVIOUS
<1>7. Matches(t, s) /\ IsSegment(s) /\ t.forward \in BOOLEAN BY DEF Matches
<1> PICK P : Connectives(P) BY DEF DrawInv
<1>8. P = Content(vbo_offset, pairs) BY <1>1 DEF Connectives, Holding
<1> PICK Q : Q = Content(vbo_offset', pairs') OBVIOUS
<1>9. Extended(P, Q, t) /\ IsSequence(ids) /\ ToSet(ids) = SegmentIds(t)
  <2>1. Q = Content(MadeBy(t).offset, MadeBy(t).pairs) BY <1>2
  <2> QED BY <1>4, <1>5, <1>7, <1>8, <2>1, SegmentMakes
<1>10. MadeFor(t) = MadeFor(s) /\ SegmentIds(t) = SegmentIds(s) /\ Extended(P, Q, s)
  <2>1. \A u, v : Matches(u, v) => /\ MadeFor(u) = MadeFor(v) /\ SegmentIds(u) = SegmentIds(v)
                                   /\ (Extended(P, Q, u) => Extended(P, Q, v))
    BY MatchesAlike
  <2> QED BY <1>7, <1>9, <2>1
<1>11. Shaped(Q) BY <1>7, <1>10, ExtendedShape DEF Connectives
<1>12. DOMAIN P \subseteq DOMAIN Q /\ MadeFor(s) \subseteq DOMAIN Q BY <1>10 DEF Extended
<1>13. ToSet(ids) = SegmentIds(SegmentAt(f, w + 1)) BY <1>9, <1>10
<1>20. In(s) /\ Out(s) => Route(Q, ids, NodeAt(s.inode), NodeAt(s.enode))
  <2> SUFFICES ASSUME In(s), Out(s) PROVE Route(Q, ids, NodeAt(s.inode), NodeAt(s.enode))
    OBVIOUS
  <2>1. \A u, v : Matches(u, v) /\ In(v) /\ Out(v) => In(u) /\ Out(u) /\ Ids(u) = Ids(v)
    BY MatchingIds
  <2>2. In(t) /\ Out(t) /\ Ids(t) = Ids(s) BY <1>7, <2>1
  <2>3. ids = Ids(t) BY <1>4, <2>2, IdsInOrder
  <2>4. \A v : Shaped(Q) /\ IsSegment(v) /\ In(v) /\ Out(v) /\ MadeFor(v) \subseteq DOMAIN Q
               => Route(Q, Ids(v), NodeAt(v.inode), NodeAt(v.enode))
    BY SegmentRoute
  <2>5. Route(Q, Ids(s), NodeAt(s.inode), NodeAt(s.enode)) BY <1>7, <1>11, <1>12, <2>4
  <2> QED BY <2>2, <2>3, <2>5
<1>21. \A g \in Features : Led(Q, g)'
  <2>1. ListsRight /\ PathsTyped /\ \A g \in Features : Led(P, g)
    BY DEF DrawInv, Connectives, Made
  <2>2. UNCHANGED input BY <1>1
  <2>3. IsSequence(ids) BY <1>9
  <2>4. \A id \in DOMAIN P : Q[id] = P[id] BY <1>10 DEF Extended
  <2> QED BY <1>2, <1>3, <1>12, <1>20, <2>1, <2>2, <2>3, <2>4, WalkLeads
<1>14. /\ ListsRight' /\ Made(Q)'
       /\ \A g \in Features : lsindex'[g] # <<>> => lsindex[g] # <<>>
  <2>1. ListsRight /\ AllMade(P) BY DEF DrawInv, Connectives, Made
  <2>2. UNCHANGED input BY <1>1
  <2>3. IsSequence(ids) BY <1>9
  <2>4. /\ ListsRight' /\ AllMade(Q)'
        /\ \A g \in Features : lsindex'[g] # <<>> => lsindex[g] # <<>>
    BY <1>2, <1>3, <1>12, <1>13, <2>1, <2>2, <2>3, WalkLists
  <2> QED BY <1>21, <2>4 DEF Made
<1>15. HashesRight'
  <2>1. UNCHANGED tables BY <1>1 DEF input
  <2> QED BY <1>2, <1>4, <2>1, TouchedRight DEF HashesRight
<1>16. Waiting' BY <1>1, <1>14 DEF DrawInv, Waiting
<1>17. EdgesCopied'
  <2>1. BufferInv' BY WalkInv
  <2>2. NoEdges(vbo_offset') BY <1>1, <2>1 DEF BufferInv, Counted
  <2>3. \A id \in DOMAIN vbo_offset' : id[1] # "EE" BY <2>2 DEF NoEdges, Connectors
  <2> QED BY <1>1, <2>3 DEF EdgesCopied
<1>18. Connectives(Q)'
  <2>1. Shaped(Q)' BY <1>1, <1>11, InputKept
  <2>2. Holding(Q)' BY <1>1 DEF Holding
  <2> QED BY <1>14, <2>1, <2>2 DEF Connectives
<1>19. PathsTyped' BY <1>1, InputKept DEF DrawInv
<1> QED BY <1>14, <1>15, <1>16, <1>17, <1>18, <1>19 DEF DrawInv

(***************************************************************************)
(* The copies: the edges first, then the connectors in their order.        *)
(***************************************************************************)
\* What has been copied stays when more is.
LEMMA EdgeStays ==
  ASSUME NEW id, EdgeCopied(id), NEW p, IsSequence(buffer), IsSequence(p),
         buffer' = buffer \o p, ve_hash' = ve_hash, vbo_offset'[id] = vbo_offset[id]
  PROVE  EdgeCopied(id)'
<1>1. /\ Len(buffer) \in Nat /\ Len(p) \in Nat /\ Len(buffer') = Len(buffer) + Len(p)
      /\ \A i \in 1..Len(buffer) : buffer'[i] = buffer[i]
  BY ConcatAt
<1>2. ASSUME NEW off \in Nat, NEW n \in Nat, NEW b \in Nat, NEW c \in Nat, off + n <= b
      PROVE  off + n <= b + c /\ \A k \in 1..n : off + k \in 1..b
  BY <1>2
<1>3. vbo_offset[id] \in Nat /\ ve_hash[id[2]] \in Nat
      /\ vbo_offset[id] + ve_hash[id[2]] <= Len(buffer)
  BY DEF EdgeCopied
<1>4. /\ vbo_offset[id] + ve_hash[id[2]] <= Len(buffer')
      /\ \A k \in 1..ve_hash[id[2]] : buffer'[vbo_offset[id] + k] = buffer[vbo_offset[id] + k]
  BY <1>1, <1>2, <1>3
<1> QED BY <1>3, <1>4 DEF EdgeCopied

LEMMA CopyEdgeDraw ==
  ASSUME DrawInv, BufferInv, NEW e \in Edges, CopyEdge(e) PROVE DrawInv'
<1>1. /\ pc = "edges" /\ e \in DOMAIN ve_hash /\ ve_hash[e] # Null
      /\ EE(e) \notin DOMAIN vbo_offset
      /\ vbo_offset' = With(vbo_offset, [id \in {EE(e)} |-> Len(buffer)])
      /\ buffer' = buffer \o EdgePoints(e, ve_hash[e])
      /\ UNCHANGED <<input, ve_hash, vc_hash, lsindex, todo, ls_list, pairs, pc>>
  BY DEF CopyEdge, EdgesToCopy, EE
<1>2. IsSequence(buffer) BY DEF BufferInv, CountsTyped
<1> PICK n \in Nat : n = ve_hash[e] BY <1>1 DEF BufferInv, HashTyped
<1> PICK p : p = EdgePoints(e, n) OBVIOUS
<1>3. p = [k \in 1..n |-> <<"edge", e, k>>] BY DEF EdgePoints
<1>4. IsSequence(p) /\ Len(p) = n
  <2>1. p \in [1..n -> {<<"edge", e, k>> : k \in 1..n}] BY <1>3
  <2> QED BY <2>1, Numbered
<1>5. /\ DOMAIN vbo_offset' = DOMAIN vbo_offset \cup {EE(e)}
      /\ vbo_offset'[EE(e)] = Len(buffer)
      /\ \A id \in DOMAIN vbo_offset : vbo_offset'[id] = vbo_offset[id]
  BY <1>1 DEF With
<1>6. EE(e)[1] = "EE" /\ EE(e)[2] = e BY DEF EE
<1>7. EdgeCopied(EE(e))'
  <2>0. /\ Len(buffer) \in Nat /\ Len(buffer \o p) = Len(buffer) + Len(p)
        /\ \A i \in 1..Len(p) : (buffer \o p)[Len(buffer) + i] = p[i]
    BY <1>2, <1>4, ConcatAt
  <2>1. /\ Len(buffer) \in Nat /\ Len(buffer') = Len(buffer) + n
        /\ \A i \in 1..n : buffer'[Len(buffer) + i] = p[i]
    BY <1>1, <1>4, <2>0
  <2>2. \A i \in 1..n : p[i] = <<"edge", e, i>> BY <1>3
  <2>3. Len(buffer) + n <= Len(buffer') BY <2>1
  <2>4. e \in DOMAIN ve_hash' /\ ve_hash'[e] = n /\ vbo_offset'[EE(e)] = Len(buffer)
    BY <1>1, <1>5
  <2>5. \A i \in 1..n : buffer'[Len(buffer) + i] = <<"edge", e, i>> BY <2>1, <2>2
  <2> QED BY <1>6, <2>1, <2>3, <2>4, <2>5 DEF EdgeCopied
<1>8. ASSUME NEW id \in DOMAIN vbo_offset, id[1] = "EE" PROVE EdgeCopied(id)'
  <2>1. EdgeCopied(id) BY <1>1, <1>8 DEF DrawInv, EdgesCopied
  <2>2. vbo_offset'[id] = vbo_offset[id] /\ ve_hash' = ve_hash BY <1>1, <1>5
  <2>3. buffer' = buffer \o p BY <1>1
  <2> QED BY <1>2, <1>4, <2>1, <2>2, <2>3, EdgeStays
<1>9. EdgesCopied' BY <1>1, <1>5, <1>7, <1>8 DEF EdgesCopied
<1>10. Connectors(vbo_offset') = Connectors(vbo_offset)
  BY <1>5, <1>6 DEF Connectors
<1>11. Content(vbo_offset', pairs') = Content(vbo_offset, pairs)
  <2>1. \A id \in Connectors(vbo_offset) : vbo_offset'[id] = vbo_offset[id]
    BY <1>5 DEF Connectors
  <2> QED BY <1>1, <1>10, <2>1 DEF Content
<1>12. UNCHANGED tables BY <1>1 DEF input
<1>13. PathsTyped' /\ \A P : Shaped(P) => Shaped(P)' BY <1>1, InputKept DEF DrawInv
<1>14. HashesRight' BY <1>1, <1>12, SameHashes DEF DrawInv
<1>15. ListsRight' /\ \A P : Made(P) => Made(P)' BY <1>1, SameLists DEF DrawInv
<1>16. Waiting' BY <1>1 DEF DrawInv, Waiting
<1> PICK P : Connectives(P) BY DEF DrawInv
<1>17. Holding(P)' BY <1>1, <1>11 DEF Connectives, Holding
<1>18. Connectives(P)' BY <1>13, <1>15, <1>17 DEF Connectives
<1> QED BY <1>9, <1>13, <1>14, <1>15, <1>16, <1>18 DEF DrawInv

\* t is the pair d appended to the m pairs of s.
OneMoreDuo(s, d, m, t) ==
  /\ IsSequence(t) /\ Len(t) = 2 * (m + 1)
  /\ \A j \in 1..m : t[2 * (j - 1) + 1] = s[2 * (j - 1) + 1]
                    /\ t[2 * (j - 1) + 2] = s[2 * (j - 1) + 2]
  /\ t[2 * m + 1] = d[1] /\ t[2 * m + 2] = d[2]

LEMMA DuoAppended ==
  ASSUME NEW s, NEW d, IsSequence(s), IsSequence(d), NEW m \in Nat
  PROVE  Len(s) = 2 * m /\ Len(d) = 2 => OneMoreDuo(s, d, m, s \o d)
<1>1. /\ IsSequence(s \o d) /\ Len(s \o d) = Len(s) + Len(d)
      /\ \A j \in 1..Len(s) : (s \o d)[j] = s[j]
      /\ \A j \in 1..Len(d) : (s \o d)[Len(s) + j] = d[j]
  BY ConcatAt
<1>2. \A j \in 1..m : 2 * (j - 1) + 1 \in 1..(2 * m) /\ 2 * (j - 1) + 2 \in 1..(2 * m)
  OBVIOUS
<1>3. 1 \in 1..2 /\ 2 \in 1..2 /\ 2 * m + 2 = 2 * (m + 1) OBVIOUS
<1> QED BY <1>1, <1>2, <1>3 DEF OneMoreDuo

\* Flattened, the i-th pair is at 2i - 1 and 2i.
LEMMA DuoAt ==
  ASSUME NEW n \in Nat, NEW q, IsSequence(q), Len(q) = n, \A i \in 1..n : IsDuo(q[i]),
         NEW i \in 1..n
  PROVE  FlattenSeq(q)[2 * (i - 1) + 1] = q[i][1] /\ FlattenSeq(q)[2 * (i - 1) + 2] = q[i][2]
<1> PICK fl : fl = Flat(n, q) OBVIOUS
<1>0. n # 0 OBVIOUS
<1>1. IsFlat(Flat(n, q), n, q) BY FlatIs
<1>2. fl = [k \in 1..n |-> IF k = 1 THEN q[k] ELSE fl[k - 1] \o q[k]] BY <1>1 DEF IsFlat
<1>3. FlattenSeq(q) = fl[n]
  <2>1. FlattenSeq(q) = Flat(n, q)[n] BY <1>0 DEF FlattenSeq, Flat, IsFlat
  <2> QED BY <2>1
<1> DEFINE At(s, j) == s[2 * (j - 1) + 1] = q[j][1] /\ s[2 * (j - 1) + 2] = q[j][2]
           P(k) == IsSequence(fl[k]) /\ Len(fl[k]) = 2 * k /\ \A j \in 1..k : At(fl[k], j)
           T == {k \in Nat : k + 1 <= n => P(k + 1)}
<1>4. 0 \in T
  <2>1. fl[1] = q[1] BY <1>0, <1>2
  <2>2. IsSequence(q[1]) /\ Len(q[1]) = 2 BY <1>0, DuoLength
  <2>3. 2 * (1 - 1) + 1 = 1 /\ 2 * (1 - 1) + 2 = 2 OBVIOUS
  <2>4. At(fl[1], 1) BY <2>1, <2>3
  <2>5. \A j \in 1..1 : j = 1 OBVIOUS
  <2>6. P(1) BY <2>1, <2>2, <2>4, <2>5
  <2>7. 0 + 1 = 1 OBVIOUS
  <2> HIDE DEF P
  <2> QED BY <2>6, <2>7
<1>5. ASSUME NEW k \in Nat, k \in T PROVE k + 1 \in T
  <2> SUFFICES ASSUME (k + 1) + 1 <= n PROVE P((k + 1) + 1)
    <3>1. k + 1 \in Nat BY <1>5
    <3> HIDE DEF P
    <3> QED BY <3>1
  <2>1. P(k + 1)
    <3>1. k \in Nat /\ k + 1 <= n BY <1>5
    <3> HIDE DEF P
    <3> QED BY <1>5, <3>1
  <2>2. (k + 1) + 1 \in 1..n /\ (k + 1) + 1 # 1 /\ ((k + 1) + 1) - 1 = k + 1 OBVIOUS
  <2>3. fl[(k + 1) + 1] = fl[k + 1] \o q[(k + 1) + 1] BY <1>2, <2>2
  <2>4. IsSequence(q[(k + 1) + 1]) /\ Len(q[(k + 1) + 1]) = 2 BY <2>2, DuoLength
  <2>5. /\ IsSequence(fl[k + 1]) /\ IsSequence(q[(k + 1) + 1])
        /\ Len(fl[k + 1]) = 2 * (k + 1) /\ Len(q[(k + 1) + 1]) = 2
    BY <2>1, <2>4
  <2>6. /\ IsSequence(fl[(k + 1) + 1]) /\ Len(fl[(k + 1) + 1]) = 2 * ((k + 1) + 1)
        /\ \A j \in 1..(k + 1) :
             /\ fl[(k + 1) + 1][2 * (j - 1) + 1] = fl[k + 1][2 * (j - 1) + 1]
             /\ fl[(k + 1) + 1][2 * (j - 1) + 2] = fl[k + 1][2 * (j - 1) + 2]
        /\ fl[(k + 1) + 1][2 * (((k + 1) + 1) - 1) + 1] = q[(k + 1) + 1][1]
        /\ fl[(k + 1) + 1][2 * (((k + 1) + 1) - 1) + 2] = q[(k + 1) + 1][2]
    <3>1. k + 1 \in Nat /\ ((k + 1) + 1) - 1 = k + 1 BY <1>5
    <3> HIDE DEF P, T, At
    <3>2. OneMoreDuo(fl[k + 1], q[(k + 1) + 1], k + 1, fl[k + 1] \o q[(k + 1) + 1])
      BY <2>5, <3>1, DuoAppended
    <3>3. OneMoreDuo(fl[k + 1], q[(k + 1) + 1], k + 1, fl[(k + 1) + 1]) BY <2>3, <3>2
    <3> QED BY <3>1, <3>3 DEF OneMoreDuo
  <2>7. \A j \in 1..((k + 1) + 1) : j \in 1..(k + 1) \/ j = (k + 1) + 1 OBVIOUS
  <2>8. ASSUME NEW j \in 1..((k + 1) + 1) PROVE At(fl[(k + 1) + 1], j)
    <3>1. CASE j \in 1..(k + 1)
      <4>1. At(fl[k + 1], j) BY <2>1, <3>1
      <4> QED BY <2>6, <3>1, <4>1
    <3>2. CASE j = (k + 1) + 1 BY <2>6, <3>2
    <3> QED BY <2>7, <3>1, <3>2
  <2> HIDE DEF At
  <2> QED BY <2>6, <2>8
<1>6. n - 1 \in T
  <2>1. n - 1 \in Nat BY <1>0
  <2> HIDE DEF T
  <2> QED BY <1>4, <1>5, <2>1, InductionOn
<1>7. (n - 1) + 1 = n OBVIOUS
<1>8. P(n)
  <2> HIDE DEF P
  <2> QED BY <1>6, <1>7
<1> QED BY <1>3, <1>8

LEMMA SetListed ==
  ASSUME NEW S, IsFiniteSet(S) PROVE ToSet(SetToSeq(S)) = S
<1> PICK m : m = Cardinality(S) OBVIOUS
<1>1. m \in Nat /\ ExistsBijection(1..m, S) BY FS_CardinalityType
<1>2. \E f : f \in [1..m -> S] /\ IsInjective(f)
  BY <1>1 DEF ExistsBijection, Bijection, Injection, IsInjective
<1> PICK f : f = SetToSeq(S) OBVIOUS
<1>3. f \in [1..m -> S] /\ IsInjective(f) BY <1>2 DEF SetToSeq
<1>4. f \in Injection(1..m, S) BY <1>3 DEF Injection, IsInjective
<1>5. Cardinality(1..m) = m
  <2>1. \A k \in Nat : 1 \in Int /\ k \in Int /\ (k = 0 => ~(1 <= k)) OBVIOUS
  <2>2. \A k \in Nat : IsFiniteSet(1..k) /\ Cardinality(1..k) = IF 1 > k THEN 0 ELSE k - 1 + 1
    BY FS_Interval
  <2>3. \A k \in Nat : Cardinality(1..k) = k BY <2>2
  <2> QED BY <1>1, <2>3
<1>6. f \in Surjection(1..m, S) BY <1>4, <1>5, FS_Injection
<1>7. \A x \in S : \E i \in 1..m : f[i] = x BY <1>6 DEF Surjection
<1> QED BY <1>3, <1>7 DEF ToSet

\* Every connector has its place in the order they are copied in.
LEMMA OrderCovers ==
  ASSUME Connected(vbo_offset, pairs)
  PROVE  ToSet(ConnectorOrder) = Connectors(vbo_offset)
<1> PICK A, B, C, D : /\ A = ConnectorsOf("CE") /\ B = ConnectorsOf("EC")
                      /\ C = ConnectorsOf("CC") /\ D = Connectors(vbo_offset)
  OBVIOUS
<1>1. D = (A \cup B) \cup C BY DEF Connected, Connectors, ConnectorsOf, Kinds
<1>2. IsFiniteSet(D) BY DEF Connected
<1>3. IsFiniteSet(A) /\ IsFiniteSet(B) /\ IsFiniteSet(C) BY <1>1, <1>2, FS_Subset
<1> PICK a, b, c : a = SetToSeq(A) /\ b = SetToSeq(B) /\ c = SetToSeq(C) OBVIOUS
<1>4. IsSequence(a) /\ IsSequence(b) /\ IsSequence(c) BY <1>3, SetInSequence DEF IsSequence
<1>5. ToSet(a) = A /\ ToSet(b) = B /\ ToSet(c) = C BY <1>3, SetListed
<1>6. IsSequence(a \o b) /\ ToSet(a \o b) = A \cup B BY <1>4, <1>5, Ranges, ConcatAt
<1>7. ToSet((a \o b) \o c) = (A \cup B) \cup C BY <1>4, <1>5, <1>6, Ranges
<1>8. ConnectorOrder = (a \o b) \o c BY DEF ConnectorOrder
<1> QED BY <1>1, <1>7, <1>8

\* A connector is copied to its place after the edges.
DuoIn(t, at, d) == at \in Nat /\ at + 2 <= Len(t) /\ d = <<t[at + 1], t[at + 2]>>

LEMMA ConnectorCopied ==
  ASSUME NEW n \in Nat, NEW q, IsSequence(q), Len(q) = n, \A i \in 1..n : IsDuo(q[i]),
         NEW s, IsSequence(s), NEW i \in 1..n
  PROVE  DuoIn(s \o FlattenSeq(q), Len(s) + 2 * (i - 1), q[i])
<1> PICK p : p = FlattenSeq(q) OBVIOUS
<1>1. IsSequence(p) /\ Len(p) = 2 * n BY DuosFlattened
<1>2. /\ Len(s) \in Nat /\ Len(s \o p) = Len(s) + Len(p)
      /\ \A k \in 1..Len(p) : (s \o p)[Len(s) + k] = p[k]
  BY <1>1, ConcatAt
<1>3. p[2 * (i - 1) + 1] = q[i][1] /\ p[2 * (i - 1) + 2] = q[i][2] BY DuoAt
<1>4. ASSUME NEW b \in Nat
      PROVE  /\ b + 2 * (i - 1) \in Nat /\ b + 2 * (i - 1) + 2 <= b + 2 * n
             /\ 2 * (i - 1) + 1 \in 1..(2 * n) /\ 2 * (i - 1) + 2 \in 1..(2 * n)
             /\ b + (2 * (i - 1) + 1) = (b + 2 * (i - 1)) + 1
             /\ b + (2 * (i - 1) + 2) = (b + 2 * (i - 1)) + 2
  OBVIOUS
<1>5. q[i] = <<q[i][1], q[i][2]>> BY DEF IsDuo
<1>6. /\ (s \o p)[(Len(s) + 2 * (i - 1)) + 1] = q[i][1]
      /\ (s \o p)[(Len(s) + 2 * (i - 1)) + 2] = q[i][2]
  <2>1. 2 * (i - 1) + 1 \in 1..Len(p) /\ 2 * (i - 1) + 2 \in 1..Len(p) BY <1>1, <1>4, <1>2
  <2>2. /\ (s \o p)[Len(s) + (2 * (i - 1) + 1)] = q[i][1]
        /\ (s \o p)[Len(s) + (2 * (i - 1) + 2)] = q[i][2]
    BY <1>2, <1>3, <2>1
  <2> QED BY <1>2, <1>4, <2>2
<1> QED BY <1>1, <1>2, <1>4, <1>5, <1>6 DEF DuoIn

LEMMA CopyConnectorsDraw == ASSUME DrawInv, BufferInv, CopyConnectors PROVE DrawInv'
<1> PICK order : order = ConnectorOrder OBVIOUS
<1> DEFINE q == [i \in DOMAIN order |-> pairs[vbo_offset[order[i]] + 1]]
           place(c) == CHOOSE i \in DOMAIN order : order[i] = c
<1>1. /\ pc = "edges" /\ pc' = "release" /\ EdgesToCopy = {}
      /\ buffer' = buffer \o FlattenSeq(q)
      /\ vbo_offset' = [c \in DOMAIN vbo_offset |->
                          IF c[1] = "EE" THEN vbo_offset[c] ELSE Len(buffer) + 2 * (place(c) - 1)]
      /\ UNCHANGED <<input, ve_hash, vc_hash, lsindex, todo, ls_list>>
  BY DEF CopyConnectors
<1>2. Connected(vbo_offset, pairs) /\ IsSequence(buffer)
  BY <1>1 DEF BufferInv, Counted, CountsTyped
<1> PICK n \in Nat : n = Len(pairs) BY <1>2, Appended DEF Connected
<1>3. IsSequence(order) /\ Len(order) = n /\ ToSet(order) = Connectors(vbo_offset)
      /\ \A i \in 1..n : order[i] \in Connectors(vbo_offset)
  BY <1>2, OrderIsWhole, OrderCovers
<1>4. DOMAIN order = 1..n BY <1>3 DEF IsSequence
<1>5. IsSequence(q) /\ Len(q) = n
  <2>1. q \in [1..n -> {pairs[vbo_offset[order[i]] + 1] : i \in 1..n}] BY <1>4
  <2> QED BY <2>1, Numbered
<1>6. ASSUME NEW i \in 1..n PROVE IsDuo(q[i])
  <2>1. vbo_offset[order[i]] \in 0..(n - 1) BY <1>2, <1>3 DEF Connected
  <2>2. vbo_offset[order[i]] + 1 \in 1..n BY <2>1
  <2>3. IsDuo(pairs[vbo_offset[order[i]] + 1]) BY <1>2, <2>2 DEF Connected
  <2> QED BY <1>4, <2>3
<1>7. \A i \in 1..n : q[i] = pairs[vbo_offset[order[i]] + 1] BY <1>4
<1> PICK C : C = Content(vbo_offset, pairs) OBVIOUS
<1>8. Connectors(vbo_offset') = Connectors(vbo_offset) /\ DOMAIN vbo_offset' = DOMAIN vbo_offset
  BY <1>1 DEF Connectors
<1>9. DOMAIN C = Connectors(vbo_offset) BY DEF Content
<1>10. ASSUME NEW id \in Connectors(vbo_offset) PROVE PairCopied(C, id)'
  <2> PICK i : i = place(id) OBVIOUS
  <2>1. \E k \in DOMAIN order : order[k] = id BY <1>3 DEF ToSet
  <2>2. i \in 1..n /\ order[i] = id BY <1>4, <2>1
  <2>3. q[i] = C[id] BY <1>7, <2>2 DEF Content
  <2>4. vbo_offset'[id] = Len(buffer) + 2 * (i - 1) BY <1>1 DEF Connectors
  <2> HIDE DEF q, place
  <2>5. \A k \in 1..n : IsDuo(q[k]) BY <1>6
  <2>6. DuoIn(buffer \o FlattenSeq(q), Len(buffer) + 2 * (i - 1), q[i])
    BY <1>2, <1>5, <2>2, <2>5, ConnectorCopied
  <2>7. DuoIn(buffer', vbo_offset'[id], C[id]) BY <1>1, <2>3, <2>4, <2>6
  <2> QED BY <2>7 DEF PairCopied, DuoIn
<1>11. IsSequence(FlattenSeq(q))
  <2> HIDE DEF q
  <2> QED BY <1>5, <1>6, DuosFlattened
<1>12. ASSUME NEW id \in DOMAIN vbo_offset, id[1] = "EE" PROVE EdgeCopied(id)'
  <2>1. EdgeCopied(id) BY <1>12 DEF DrawInv, EdgesCopied
  <2>2. vbo_offset'[id] = vbo_offset[id] /\ ve_hash' = ve_hash BY <1>1, <1>12
  <2> HIDE DEF q
  <2> QED BY <1>1, <1>2, <1>11, <2>1, <2>2, EdgeStays
<1> HIDE DEF q, place
<1>13. UNCHANGED tables BY <1>1 DEF input
<1>14. ASSUME NEW e \in tables.edges PROVE EE(e) \in DOMAIN vbo_offset
  <2>1. e \in DOMAIN ve_hash /\ ve_hash[e] = EdgeSize[e] /\ EdgeSize[e] \in Nat
    BY <1>14, LineGeometryAssumption DEF DrawInv, HashesRight, HashRight
  <2>2. ve_hash[e] # Null BY <2>1 DEF Null
  <2> QED BY <1>1, <2>1, <2>2 DEF EdgesToCopy, EE
<1>15. EdgesCopied' BY <1>8, <1>12, <1>13, <1>14 DEF EdgesCopied
<1>16. PathsTyped' /\ \A P : Shaped(P) => Shaped(P)' BY <1>1, InputKept DEF DrawInv
<1>17. HashesRight' BY <1>1, <1>13, SameHashes DEF DrawInv
<1>18. ListsRight' /\ \A P : Made(P) => Made(P)' BY <1>1, SameLists DEF DrawInv
<1>19. Waiting' BY <1>1 DEF DrawInv, Waiting
<1> PICK P : Connectives(P) BY DEF DrawInv
<1>20. P = C BY <1>1 DEF Connectives, Holding
<1>21. Holding(P)' BY <1>1, <1>8, <1>9, <1>10, <1>20 DEF Holding
<1>22. Connectives(P)' BY <1>16, <1>18, <1>21 DEF Connectives
<1> QED BY <1>15, <1>16, <1>17, <1>18, <1>19, <1>22 DEF DrawInv

\* The steps that leave the lines alone.
LEMMA OtherDraw ==
  ASSUME DrawInv, UNCHANGED <<input, ve_hash, vc_hash, lsindex, todo, ls_list, pairs,
                              vbo_offset, buffer, pc>>
  PROVE  DrawInv'
<1>1. Waiting' BY DEF DrawInv, Waiting
<1> QED BY <1>1, SameDraw

LEMMA DrawStep == ASSUME DrawInv, BufferInv, [Next]_vars PROVE DrawInv'
<1>1. CASE ValidateHashmaps BY <1>1, ValidateDraw
<1>2. CASE CountPoints BY <1>2, CountDraw
<1>3. CASE WalkSegment BY <1>3, WalkDraw
<1>4. CASE FinishObject BY <1>4, FinishDraw
<1>5. CASE Allocate BY <1>5, AllocateDraw
<1>6. CASE \E e \in Edges : CopyEdge(e) BY <1>6, CopyEdgeDraw
<1>7. CASE CopyConnectors BY <1>7, CopyConnectorsDraw
<1>8. CASE ReleaseHashes BY <1>8, ReleaseDraw
<1>9. CASE \E cat, off, s, bnd : SetOptions(cat, off, s, bnd)
  <2>1. UNCHANGED <<input, ve_hash, vc_hash, lsindex, todo, ls_list, pairs, vbo_offset, buffer, pc>>
    BY <1>9 DEF SetOptions
  <2> QED BY <2>1, OtherDraw
<1>10. CASE \E h : MoveView(h)
  <2>1. UNCHANGED <<input, ve_hash, vc_hash, lsindex, todo, ls_list, pairs, vbo_offset, buffer, pc>>
    BY <1>10 DEF MoveView, gvars, input
  <2> QED BY <2>1, OtherDraw
<1>11. CASE Render
  <2>1. UNCHANGED <<input, ve_hash, vc_hash, lsindex, todo, ls_list, pairs, vbo_offset, buffer, pc>>
    BY <1>11 DEF Render
  <2> QED BY <2>1, OtherDraw
<1>12. CASE UNCHANGED vars
  <2>1. UNCHANGED <<input, ve_hash, vc_hash, lsindex, todo, ls_list, pairs, vbo_offset, buffer, pc>>
    BY <1>12 DEF vars, gvars, input
  <2> QED BY <2>1, OtherDraw
<1> QED
  BY <1>1, <1>2, <1>3, <1>4, <1>5, <1>6, <1>7, <1>8, <1>9, <1>10, <1>11, <1>12
  DEF Next, GNext

LEMMA DrawInvariant == Spec => [](BufferInv /\ DrawInv)
<1>1. Init => BufferInv /\ DrawInv BY BufferInit, DrawInit
<1>2. BufferInv /\ DrawInv /\ [Next]_vars => (BufferInv /\ DrawInv)' BY BufferStep, DrawStep
<1> QED BY <1>1, <1>2, PTL DEF Spec

(***************************************************************************)
(* What the lists draw when all is built.                                  *)
(***************************************************************************)
\* t is the n elements of s after the m-th.
IsSlice(t, s, m, n) == IsSequence(t) /\ Len(t) = n /\ \A k \in 1..n : t[k] = s[m + k]

LEMMA SubSequence ==
  ASSUME NEW s, IsSequence(s), NEW m \in Nat, NEW n \in Nat, m + n <= Len(s)
  PROVE  IsSlice(SubSeq(s, m + 1, m + n), s, m, n)
<1> PICK S : s \in Seq(S) BY DEF IsSequence
<1>1. Len(s) \in Nat OBVIOUS
<1>2. \A i \in (m + 1)..(m + n) : s[i] \in S
  <2>1. \A i \in (m + 1)..(m + n) : i \in 1..Len(s) BY <1>1
  <2> QED BY <2>1
<1> PICK a, b \in Int : a = m + 1 /\ b = m + n OBVIOUS
<1> PICK t : t = SubSeq(s, a, b) OBVIOUS
<1>3. /\ t \in Seq(S) /\ Len(t) = (IF a <= b THEN b - a + 1 ELSE 0)
      /\ \A i \in 1..(b - a + 1) : t[i] = s[a + i - 1]
  BY <1>2, SubSeqProperties
<1>4. Len(t) = n BY <1>3
<1>5. ASSUME NEW k \in 1..n PROVE t[k] = s[m + k]
  <2>1. k \in 1..(b - a + 1) /\ a + k - 1 = m + k OBVIOUS
  <2> QED BY <1>3, <2>1
<1>6. IsSequence(t) BY <1>3 DEF IsSequence
<1> QED BY <1>4, <1>5, <1>6 DEF IsSlice

LEMMA SameLines ==
  ASSUME NEW n \in Nat, NEW t, NEW u, Len(t) = n, Len(u) = n, \A k \in 1..n : t[k] = u[k]
  PROVE  LinesOf(t) = LinesOf(u)
<1>1. \A i \in 1..(n - 1) : i \in 1..n /\ i + 1 \in 1..n OBVIOUS
<1>2. \A i \in 1..(n - 1) : {t[i], t[i + 1]} = {u[i], u[i + 1]} BY <1>1
<1>3. /\ LinesOf(t) = {{t[i], t[i + 1]} : i \in 1..(n - 1)}
      /\ LinesOf(u) = {{u[i], u[i + 1]} : i \in 1..(n - 1)}
  BY DEF LinesOf
<1> QED BY <1>2, <1>3

LEMMA OneLine ==
  ASSUME NEW t, Len(t) = 2 PROVE LinesOf(t) = {{t[1], t[2]}}
<1>1. LinesOf(t) = {{t[i], t[i + 1]} : i \in 1..1} BY DEF LinesOf
<1>2. \A i \in 1..1 : i = 1 OBVIOUS
<1> QED BY <1>1, <1>2

\* p begins and ends with the points of d.
Between(p, d) == IsSequence(p) /\ Len(p) # 0 /\ p[1] = d[1] /\ p[Len(p)] = d[2]

\* When all is built, an element of a list draws its own lines.
LEMMA SliceLines ==
  ASSUME DrawInv, BufferInv, pc = "built", NEW P, Connectives(P),
         NEW s, MadeFor(s) \subseteq DOMAIN P, NEW id \in SegmentIds(s)
  PROVE  /\ InBuffer(id) /\ LinesOf(Slice(id)) = LinesBy(P, id)
         /\ Between(Slice(id), Tips(P, id))
<1>0. ASSUME NEW m \in Nat, NEW n \in Nat, m + n <= Len(buffer)
      PROVE  IsSlice(SubSeq(buffer, m + 1, m + n), buffer, m, n)
  BY <1>0, SubSequence DEF BufferInv, CountsTyped
<1>1. CASE id \in MadeFor(s)
  <2>1. id \in Connectors(vbo_offset) /\ PairCopied(P, id) BY <1>1 DEF Connectives, Holding
  <2>2. id \in DOMAIN vbo_offset /\ id[1] # "EE" BY <2>1 DEF Connectors
  <2>3. SizeOf(id) = 2 BY <2>2 DEF SizeOf
  <2>4. vbo_offset[id] \in Nat /\ vbo_offset[id] + 2 <= Len(buffer) BY <2>1 DEF PairCopied
  <2>5. InBuffer(id) BY <2>2, <2>3, <2>4 DEF InBuffer
  <2> PICK t : t = Slice(id) OBVIOUS
  <2>6. t = SubSeq(buffer, vbo_offset[id] + 1, vbo_offset[id] + 2) BY <2>3 DEF Slice
  <2>7. IsSequence(t) /\ Len(t) = 2 /\ \A k \in 1..2 : t[k] = buffer[vbo_offset[id] + k]
    <3>1. IsSlice(SubSeq(buffer, vbo_offset[id] + 1, vbo_offset[id] + 2), buffer, vbo_offset[id], 2)
      BY <1>0, <2>4
    <3> QED BY <2>6, <3>1 DEF IsSlice
  <2>8. t[1] = P[id][1] /\ t[2] = P[id][2] BY <2>1, <2>7 DEF PairCopied
  <2>9. LinesOf(t) = {{P[id][1], P[id][2]}} BY <2>7, <2>8, OneLine
  <2>10. Between(t, Tips(P, id)) BY <2>2, <2>7, <2>8 DEF Between, Tips
  <2> QED BY <2>2, <2>5, <2>9, <2>10 DEF LinesBy
<1>2. CASE Known(s) /\ id = EE(s.edge)
  <2> PICK e : e = s.edge OBVIOUS
  <2>1. e \in tables.edges /\ id[1] = "EE" /\ id[2] = e BY <1>2 DEF Known, EE
  <2>2. id \in DOMAIN vbo_offset /\ EdgeCopied(id) BY <1>2, <2>1 DEF DrawInv, EdgesCopied
  <2> PICK n : n = EdgeSize[e] OBVIOUS
  <2>3. n \in Nat \ {0} /\ e \in DOMAIN ve_hash /\ ve_hash[e] = n
    BY <2>1, LineGeometryAssumption DEF DrawInv, HashesRight, HashRight
  <2>4. SizeOf(id) = n BY <2>1, <2>3 DEF SizeOf
  <2>5. /\ vbo_offset[id] \in Nat /\ vbo_offset[id] + n <= Len(buffer)
        /\ \A k \in 1..n : buffer[vbo_offset[id] + k] = <<"edge", e, k>>
    BY <2>1, <2>2, <2>3 DEF EdgeCopied
  <2>6. InBuffer(id) BY <2>1, <2>2, <2>3, <2>4, <2>5 DEF InBuffer
  <2> PICK t, u : t = Slice(id) /\ u = EdgePoints(e, n) OBVIOUS
  <2>7. t = SubSeq(buffer, vbo_offset[id] + 1, vbo_offset[id] + n) BY <2>4 DEF Slice
  <2>8. IsSequence(t) /\ Len(t) = n /\ \A k \in 1..n : t[k] = buffer[vbo_offset[id] + k]
    <3>1. IsSlice(SubSeq(buffer, vbo_offset[id] + 1, vbo_offset[id] + n), buffer, vbo_offset[id], n)
      BY <1>0, <2>3, <2>5
    <3> QED BY <2>7, <3>1 DEF IsSlice
  <2>9. Len(u) = n /\ \A k \in 1..n : u[k] = <<"edge", e, k>> BY <2>3 DEF EdgePoints
  <2>10. \A k \in 1..n : t[k] = u[k] BY <2>5, <2>8, <2>9
  <2>11. LinesOf(t) = LinesOf(u) BY <2>3, <2>8, <2>9, <2>10, SameLines
  <2>12. Between(t, Tips(P, id))
    <3>1. 1 \in 1..n /\ n \in 1..n BY <2>3
    <3>2. t[1] = <<"edge", e, 1>> /\ t[n] = <<"edge", e, n>> BY <2>9, <2>10, <3>1
    <3>3. Tips(P, id)[1] = <<"edge", e, 1>> /\ Tips(P, id)[2] = <<"edge", e, n>>
      BY <2>1 DEF Tips, FirstPoint, LastPoint
    <3> QED BY <2>3, <2>8, <3>2, <3>3 DEF Between
  <2> QED BY <2>1, <2>6, <2>11, <2>12 DEF LinesBy, EdgeLines
<1> QED BY <1>1, <1>2 DEF SegmentIds

LEMMA AllWalked ==
  ASSUME DrawInv, pc = "built", NEW f \in Features
  PROVE  /\ IsSequence(ls_list[f]) /\ Walked(f) = Len(path[f]) /\ DOMAIN path[f] = 1..Len(path[f])
         /\ ToSet(ls_list[f]) = UNION {SegmentIds(SegmentAt(f, i)) : i \in 1..Len(path[f])}
<1>1. ToSet(todo) = {} BY DEF DrawInv, Waiting, ToSet
<1>2. lsindex[f] = <<>> BY <1>1 DEF DrawInv, Waiting
<1>3. path[f] \in Seq(Edges \X BOOLEAN) BY DEF DrawInv, PathsTyped
<1>4. Walked(f) = Len(path[f]) BY <1>2, <1>3 DEF Walked
<1> QED BY <1>3, <1>4 DEF DrawInv, ListsRight, ListRight

LEMMA BuiltDraws ==
  ASSUME DrawInv, BufferInv, pc = "built", NEW f \in Features
  PROVE  /\ \A i \in DOMAIN ls_list[f] : InBuffer(ls_list[f][i])
         /\ DrawnBy(f) \subseteq Described(f)
         /\ NodesOf(f) \subseteq tables.nodes => DrawnBy(f) = Described(f)
<1> PICK n \in Nat : n = Len(path[f])
  <2>1. path[f] \in Seq(Edges \X BOOLEAN) BY DEF DrawInv, PathsTyped
  <2> QED BY <2>1
<1> PICK P : Connectives(P) BY DEF DrawInv
<1> PICK ids : ids = ToSet(ls_list[f]) OBVIOUS
<1>1. /\ Walked(f) = n /\ DOMAIN path[f] = 1..n
      /\ ids = UNION {SegmentIds(SegmentAt(f, i)) : i \in 1..n}
  BY AllWalked
<1>2. ASSUME NEW i \in 1..n
      PROVE  IsSegment(SegmentAt(f, i)) /\ MadeFor(SegmentAt(f, i)) \subseteq DOMAIN P
  BY <1>1, SegmentsAre DEF DrawInv, Connectives, Made, AllMade
<1>3. ASSUME NEW i \in 1..n, NEW id \in SegmentIds(SegmentAt(f, i))
      PROVE  InBuffer(id) /\ LinesOf(Slice(id)) = LinesBy(P, id)
  BY <1>2, SliceLines
<1>4. \A i \in DOMAIN ls_list[f] : ls_list[f][i] \in ids BY DEF ToSet
<1>5. \A i \in DOMAIN ls_list[f] : InBuffer(ls_list[f][i]) BY <1>1, <1>3, <1>4
<1>6. ASSUME NEW i \in 1..n
      PROVE  /\ UNION {LinesBy(P, id) : id \in SegmentIds(SegmentAt(f, i))}
                  \subseteq LinesOf(Chain(SegmentAt(f, i)))
             /\ In(SegmentAt(f, i)) /\ Out(SegmentAt(f, i)) =>
                  UNION {LinesBy(P, id) : id \in SegmentIds(SegmentAt(f, i))}
                    = LinesOf(Chain(SegmentAt(f, i)))
  BY <1>2, SegmentDrawn DEF Connectives
<1>7. Described(f) = UNION {LinesOf(Chain(SegmentAt(f, i))) : i \in 1..n}
  BY <1>1 DEF Described, SegmentAt
<1>8. ASSUME NEW x \in DrawnBy(f) PROVE x \in Described(f)
  <2>1. PICK k \in DOMAIN ls_list[f] : x \in LinesOf(Slice(ls_list[f][k])) BY <1>8 DEF DrawnBy
  <2> PICK id \in ids : id = ls_list[f][k] BY <1>4
  <2>2. PICK i \in 1..n : id \in SegmentIds(SegmentAt(f, i)) BY <1>1
  <2>3. x \in LinesBy(P, id) BY <1>3, <2>1, <2>2
  <2>4. x \in LinesOf(Chain(SegmentAt(f, i))) BY <1>6, <2>2, <2>3
  <2> QED BY <1>7, <2>4
<1>9. ASSUME NodesOf(f) \subseteq tables.nodes, NEW x \in Described(f) PROVE x \in DrawnBy(f)
  <2>1. PICK i \in 1..n : x \in LinesOf(Chain(SegmentAt(f, i))) BY <1>7, <1>9
  <2>2. SegmentAt(f, i).inode \in NodesOf(f) /\ SegmentAt(f, i).enode \in NodesOf(f)
    BY <1>1 DEF NodesOf, SegmentAt
  <2>3. In(SegmentAt(f, i)) /\ Out(SegmentAt(f, i)) BY <1>9, <2>2 DEF In, Out
  <2>4. PICK id \in SegmentIds(SegmentAt(f, i)) : x \in LinesBy(P, id) BY <1>6, <2>1, <2>3
  <2>5. x \in LinesOf(Slice(id)) /\ id \in ids BY <1>1, <1>3, <2>4
  <2>6. PICK k \in DOMAIN ls_list[f] : id = ls_list[f][k] BY <2>5 DEF ToSet
  <2> QED BY <2>5, <2>6 DEF DrawnBy
<1> QED BY <1>5, <1>8, <1>9

(* Once AssembleLineGeometry is done, each element of a feature's list is  *)
(* in the buffer, and the list draws no line but those the tables of the   *)
(* file describe, and all of them if the file has the feature's nodes: for *)
(* every chart, whichever feature was the first to need a connector, in    *)
(* whichever order the maps are walked.                                    *)
THEOREM LinesAreTheFiles == Spec => []DrawsWhatIsDescribed
<1>1. BufferInv /\ DrawInv => DrawsWhatIsDescribed BY BuiltDraws DEF DrawsWhatIsDescribed
<1> QED BY <1>1, DrawInvariant, PTL

(***************************************************************************)
(* The contours of an area.  buildExtendedGeom joins the elements of a     *)
(* list; where they lead on from each other, it finds one contour.         *)
(***************************************************************************)
\* p leads from x to y.
Leg(p, x, y) == IsSequence(p) /\ Len(p) # 0 /\ Leads(p[1], p[Len(p)], x, y)

LEMMA TurnedLeg ==
  ASSUME NEW p, NEW x, NEW y, Leg(p, x, y)
  PROVE  LET t == Turned(p, p[1] = x)
         IN  /\ IsSequence(t) /\ Len(t) = Len(p) /\ Len(t) # 0 /\ t[1] = x /\ t[Len(t)] = y
             /\ LinesOf(t) = LinesOf(p)
<1> PICK n : n = Len(p) OBVIOUS
<1>1. n \in Nat \ {0} /\ IsSequence(p)
  <2>1. \A s : IsSequence(s) => Len(s) \in Nat BY DEF IsSequence
  <2> QED BY <2>1 DEF Leg
<1>2. CASE p[1] = x BY <1>1, <1>2 DEF Leg, Leads, Turned
<1>3. CASE p[1] # x
  <2>1. /\ IsSequence(Reverse(p)) /\ Len(Reverse(p)) = n
        /\ Reverse(p)[1] = p[n] /\ Reverse(p)[n] = p[1]
        /\ LinesOf(Reverse(p)) = LinesOf(p)
    BY <1>1, ReversedLines
  <2> QED BY <1>1, <1>3, <2>1 DEF Leg, Leads, Turned
<1> QED BY <1>2, <1>3

\* The lines of two sequences, one after the other.
LEMMA ConcatLines ==
  ASSUME NEW p, NEW q, IsSequence(p), IsSequence(q), Len(p) # 0, Len(q) # 0
  PROVE  LinesOf(p \o q) = (LinesOf(p) \cup LinesOf(q)) \cup {{p[Len(p)], q[1]}}
<1> PICK c : c = p \o q OBVIOUS
<1>0. /\ Len(p) \in Nat /\ Len(q) \in Nat /\ Len(c) = Len(p) + Len(q)
      /\ \A i \in 1..Len(p) : c[i] = p[i]
      /\ \A i \in 1..Len(q) : c[Len(p) + i] = q[i]
  BY ConcatAt
<1> PICK n, m \in Nat : n = Len(p) /\ m = Len(q) BY <1>0
<1>1. n # 0 /\ m # 0 OBVIOUS
<1>2. /\ Len(c) = n + m /\ \A i \in 1..n : c[i] = p[i]
      /\ \A i \in 1..m : c[n + i] = q[i]
  BY <1>0
<1>3. LinesOf(c) = {{c[i], c[i + 1]} : i \in 1..(n + m - 1)}
  <2>1. Len(c) - 1 = n + m - 1 BY <1>2
  <2> QED BY <2>1 DEF LinesOf
<1>4. LinesOf(p) = {{p[i], p[i + 1]} : i \in 1..(n - 1)} BY DEF LinesOf
<1>5. LinesOf(q) = {{q[i], q[i + 1]} : i \in 1..(m - 1)} BY DEF LinesOf
<1>6. ASSUME NEW i \in 1..(n - 1)
      PROVE  i \in 1..(n + m - 1) /\ {c[i], c[i + 1]} = {p[i], p[i + 1]}
  <2>1. i \in 1..n /\ i + 1 \in 1..n /\ i \in 1..(n + m - 1) OBVIOUS
  <2> QED BY <1>2, <2>1
<1>7. ASSUME NEW i \in 1..(m - 1)
      PROVE  n + i \in 1..(n + m - 1) /\ {c[n + i], c[(n + i) + 1]} = {q[i], q[i + 1]}
  <2>1. i \in 1..m /\ i + 1 \in 1..m /\ n + i \in 1..(n + m - 1) /\ n + (i + 1) = (n + i) + 1
    OBVIOUS
  <2> QED BY <1>2, <2>1
<1>8. n \in 1..(n + m - 1) /\ {c[n], c[n + 1]} = {p[n], q[1]}
  <2>1. n \in 1..n /\ 1 \in 1..m /\ n \in 1..(n + m - 1) BY <1>1
  <2> QED BY <1>2, <2>1
<1>9. ASSUME NEW x \in LinesOf(c) PROVE x \in (LinesOf(p) \cup LinesOf(q)) \cup {{p[n], q[1]}}
  <2>1. PICK i \in 1..(n + m - 1) : x = {c[i], c[i + 1]} BY <1>3, <1>9, Zenon
  <2>2. i \in 1..(n - 1) \/ i = n \/ (i - n \in 1..(m - 1) /\ n + (i - n) = i) OBVIOUS
  <2>3. CASE i \in 1..(n - 1) BY <1>4, <1>6, <2>1, <2>3
  <2>4. CASE i = n BY <1>8, <2>1, <2>4
  <2>5. CASE i - n \in 1..(m - 1) /\ n + (i - n) = i
    <3>1. x = {q[i - n], q[(i - n) + 1]} BY <1>7, <2>1, <2>5
    <3> QED BY <1>5, <2>5, <3>1
  <2> QED BY <2>2, <2>3, <2>4, <2>5
<1>10. ASSUME NEW x \in LinesOf(p) PROVE x \in LinesOf(c)
  <2>1. PICK i \in 1..(n - 1) : x = {p[i], p[i + 1]} BY <1>4, <1>10, Zenon
  <2> QED BY <1>3, <1>6, <2>1
<1>11. ASSUME NEW x \in LinesOf(q) PROVE x \in LinesOf(c)
  <2>1. PICK i \in 1..(m - 1) : x = {q[i], q[i + 1]} BY <1>5, <1>11, Zenon
  <2>2. n + i \in 1..(n + m - 1) /\ {c[n + i], c[(n + i) + 1]} = x BY <1>7, <2>1
  <2> QED BY <1>3, <2>2
<1>12. {p[n], q[1]} \in LinesOf(c) BY <1>3, <1>8
<1> QED BY <1>9, <1>10, <1>11, <1>12

\* The lines between two points that are not the same.
Real(p) == {l \in LinesOf(p) : Cardinality(l) = 2}

LEMMA ConcatReal ==
  ASSUME NEW p, NEW q, IsSequence(p), IsSequence(q), Len(p) # 0, Len(q) # 0, p[Len(p)] = q[1]
  PROVE  Real(p \o q) = Real(p) \cup Real(q)
<1>1. LinesOf(p \o q) = (LinesOf(p) \cup LinesOf(q)) \cup {{q[1]}}
  <2>1. {p[Len(p)], q[1]} = {q[1]} OBVIOUS
  <2> QED BY <2>1, ConcatLines
<1>2. Cardinality({q[1]}) # 2
  <2>1. Cardinality({q[1]}) = 1 BY FS_Singleton, Zenon
  <2> QED BY <2>1
<1> QED BY <1>1, <1>2 DEF Real

\* buildExtendedGeom as a fold.
NotOpen == [contours |-> <<>>, open |-> <<>>, forward |-> TRUE]
Joined(sl, e, q) == FoldLeft(LAMBDA acc, i : Join(acc, i, sl), e, q)
JoinIt(sl, D, e, q) == CHOOSE it : it = [x \in SUBSET D |->
  IF x = {} THEN e ELSE Join(it[x \ {Max(x)}], q[Max(x)], sl)]

LEMMA JoinFolds ==
  ASSUME NEW sl, NEW e, NEW q, NEW n \in Nat, DOMAIN q = 1..n
  PROVE  Folds(Joining(sl), n, e, q, Joined(sl, e, q))
<1>1. Joined(sl, e, q) = JoinIt(sl, 1..n, e, q)[1..n]
  BY DEF Joined, FoldLeft, MapThenFoldSet, JoinIt
<1>2. \E it : IsIter(Joining(sl), it, 1..n, e, q) BY IterExists
<1>3. \A it : IsIter(Joining(sl), it, 1..n, e, q) <=> it = [x \in SUBSET (1..n) |->
         IF x = {} THEN e ELSE Join(it[x \ {Max(x)}], q[Max(x)], sl)]
  BY DEF IsIter, Apply, Joining
<1>4. IsIter(Joining(sl), JoinIt(sl, 1..n, e, q), 1..n, e, q)
  BY <1>2, <1>3 DEF JoinIt
<1> QED BY <1>1, <1>4, IterFolds

\* The elements sl lead from E[0] by way of E[1], E[2] and so on.
Legs(sl, E, n) ==
  /\ IsSequence(sl) /\ Len(sl) = n
  /\ \A i \in 1..n : Leg(sl[i], E[i - 1], E[i])
  /\ n > 0 => sl[1][1] = E[0]

\* The lines of the first k of them.
Reals(sl, k) == UNION {Real(sl[i]) : i \in 1..k}

LEMMA RealsGrow ==
  ASSUME NEW sl, NEW k \in Nat PROVE Reals(sl, k + 1) = Reals(sl, k) \cup Real(sl[k + 1])
<1>1. \A i \in 1..(k + 1) : i \in 1..k \/ i = k + 1 OBVIOUS
<1>2. \A i \in 1..k : i \in 1..(k + 1) OBVIOUS
<1>3. k + 1 \in 1..(k + 1) OBVIOUS
<1>4. ASSUME NEW l PROVE l \in Reals(sl, k + 1) <=> l \in Reals(sl, k) \cup Real(sl[k + 1])
  <2>1. ASSUME NEW i \in 1..(k + 1), l \in Real(sl[i])
        PROVE  l \in Reals(sl, k) \cup Real(sl[k + 1])
    BY <1>1, <2>1 DEF Reals
  <2>2. l \in Reals(sl, k) => l \in Reals(sl, k + 1) BY <1>2 DEF Reals
  <2>3. l \in Real(sl[k + 1]) => l \in Reals(sl, k + 1) BY <1>3 DEF Reals
  <2>4. l \in Reals(sl, k + 1) => \E i \in 1..(k + 1) : l \in Real(sl[i]) BY DEF Reals
  <2> QED BY <2>1, <2>2, <2>3, <2>4
<1> QED BY <1>4

\* q goes on where p ends.
Onward(p, q) ==
  /\ IsSequence(p \o q) /\ Len(p \o q) # 0
  /\ (p \o q)[1] = p[1] /\ (p \o q)[Len(p \o q)] = q[Len(q)]
  /\ Real(p \o q) = Real(p) \cup Real(q)

LEMMA GoesOnward ==
  ASSUME NEW p, NEW q, IsSequence(p), IsSequence(q), Len(p) # 0, Len(q) # 0, p[Len(p)] = q[1]
  PROVE  Onward(p, q)
<1>1. /\ Len(p) \in Nat /\ Len(q) \in Nat /\ IsSequence(p \o q) /\ Len(p \o q) = Len(p) + Len(q)
      /\ \A i \in 1..Len(p) : (p \o q)[i] = p[i]
      /\ \A i \in 1..Len(q) : (p \o q)[Len(p) + i] = q[i]
  BY ConcatAt
<1>2. 1 \in 1..Len(p) /\ Len(q) \in 1..Len(q) /\ Len(p) + Len(q) # 0 BY <1>1
<1>3. (p \o q)[1] = p[1] BY <1>1, <1>2
<1>4. (p \o q)[Len(p \o q)] = q[Len(q)] BY <1>1, <1>2
<1> QED BY <1>1, <1>2, <1>3, <1>4, ConcatReal DEF Onward

\* c is the contour of the first k of them.
Contour(c, sl, E, k) ==
  /\ IsSequence(c) /\ Len(c) # 0 /\ c[1] = E[0] /\ c[Len(c)] = E[k]
  /\ Real(c) = Reals(sl, k)

\* The fold after k of the n elements.
OnTheWay(acc, sl, E, k) ==
  /\ acc.contours = <<>>
  /\ acc.forward = (sl[k + 1][1] = E[k])
  /\ IF k = 0 THEN acc.open = <<>> ELSE Contour(acc.open, sl, E, k)

LEMMA TipsOf ==
  ASSUME NEW p, IsSequence(p), Len(p) # 0
  PROVE  Head(p) = p[1] /\ Last(p) = p[Len(p)] /\ p # <<>>
<1> PICK S : p \in Seq(S) BY DEF IsSequence
<1> QED BY DEF Last

\* The contour with one more element.
LEMMA ContourGrows ==
  ASSUME NEW sl, NEW E, NEW n \in Nat, Legs(sl, E, n), NEW k \in 0..(n - 1),
         NEW acc, OnTheWay(acc, sl, E, k)
  PROVE  Contour(acc.open \o Turned(sl[k + 1], acc.forward), sl, E, k + 1)
<1> PICK p : p = sl[k + 1] OBVIOUS
<1> PICK t : t = Turned(p, p[1] = E[k]) OBVIOUS
<1> PICK x, y : x = E[k] /\ y = E[k + 1] OBVIOUS
<1>1. k \in Nat /\ k + 1 \in 1..n /\ (k + 1) - 1 = k OBVIOUS
<1>2. Leg(p, x, y) BY <1>1 DEF Legs
<1>3. /\ IsSequence(t) /\ Len(t) = Len(p) /\ Len(t) # 0 /\ t[1] = x /\ t[Len(t)] = y
      /\ LinesOf(t) = LinesOf(p)
  BY <1>2, TurnedLeg
<1>4. Real(t) = Real(p) BY <1>3 DEF Real
<1>5. Turned(sl[k + 1], acc.forward) = t BY DEF OnTheWay
<1> PICK o : o = acc.open OBVIOUS
<1>6. CASE k = 0
  <2>1. o = <<>> BY <1>6 DEF OnTheWay
  <2>2. o \o t = t
    <3> PICK S : t \in Seq(S) BY <1>3 DEF IsSequence
    <3> QED BY <2>1
  <2>3. Reals(sl, 1) = Real(p)
    <3>1. Reals(sl, 0) = {} BY DEF Reals
    <3>2. Reals(sl, 0 + 1) = Reals(sl, 0) \cup Real(sl[0 + 1]) BY RealsGrow
    <3> QED BY <1>6, <3>1, <3>2
  <2>4. Reals(sl, k + 1) = Real(p)
    <3>1. k + 1 = 1 BY <1>6
    <3> QED BY <2>3, <3>1
  <2>5. E[0] = x BY <1>6
  <2>6. Contour(t, sl, E, k + 1) BY <1>3, <1>4, <2>4, <2>5 DEF Contour
  <2> QED BY <1>5, <2>2, <2>6
<1>7. CASE k # 0
  <2>1. /\ IsSequence(o) /\ Len(o) # 0 /\ o[1] = E[0] /\ o[Len(o)] = x
        /\ Real(o) = Reals(sl, k)
    BY <1>7 DEF OnTheWay, Contour
  <2>2. Onward(o, t)
    <3>1. \A c, d : /\ IsSequence(c) /\ IsSequence(d) /\ Len(c) # 0 /\ Len(d) # 0
                    /\ c[Len(c)] = d[1]
                    => Onward(c, d)
      BY GoesOnward
    <3>2. o[Len(o)] = t[1] BY <1>3, <2>1
    <3> QED BY <1>3, <2>1, <3>1, <3>2
  <2>3. Reals(sl, k + 1) = Reals(sl, k) \cup Real(p) BY <1>1, RealsGrow
  <2> QED BY <1>3, <1>4, <1>5, <2>1, <2>2, <2>3 DEF Contour, Onward
<1> QED BY <1>6, <1>7

LEMMA JoinGoesOn ==
  ASSUME NEW sl, NEW E, NEW n \in Nat, Legs(sl, E, n), NEW k \in 0..(n - 1),
         NEW acc, OnTheWay(acc, sl, E, k)
  PROVE  LET r == Join(acc, k + 1, sl)
         IN  /\ k + 1 < n => OnTheWay(r, sl, E, k + 1)
             /\ k + 1 = n => \E c : r.contours = <<c>> /\ Contour(c, sl, E, n)
<1> PICK i \in 1..n : i = k + 1 OBVIOUS
<1> PICK last : last = (i = n) OBVIOUS
<1> PICK p : p = sl[i] OBVIOUS
<1> PICK y : y = E[i] OBVIOUS
<1>0. Len(sl) = n BY DEF Legs
<1>1. ASSUME i # n
      PROVE  /\ Head(sl[i + 1]) = sl[i + 1][1]
             /\ y \in {Head(sl[i + 1]), Last(sl[i + 1])}
  <2>1. i + 1 \in 1..n /\ (i + 1) - 1 = i BY <1>1
  <2>2. Leg(sl[i + 1], E[i], E[i + 1]) BY <2>1 DEF Legs
  <2> PICK q : q = sl[i + 1] OBVIOUS
  <2>3. Leg(q, y, E[i + 1]) BY <2>2
  <2>4. Head(q) = q[1] /\ Last(q) = q[Len(q)] BY <2>3, TipsOf DEF Leg
  <2> QED BY <2>3, <2>4 DEF Leg, Leads
<1>2. (IF acc.open = <<>> /\ i # n THEN FirstForward(p, sl[i + 1]) ELSE acc.forward) = acc.forward
  <2> SUFFICES ASSUME acc.open = <<>>, i # n PROVE FirstForward(p, sl[i + 1]) = acc.forward
    OBVIOUS
  <2>1. k = 0
    <3>1. \A s : IsSequence(s) /\ Len(s) # 0 => s # <<>> BY TipsOf
    <3> QED BY <3>1 DEF OnTheWay, Contour
  <2>2. acc.forward = (p[1] = E[0]) BY <2>1 DEF OnTheWay
  <2>3. p[1] = E[0] BY <2>1 DEF Legs
  <2>4. Leg(p, E[0], y) BY <2>1 DEF Legs
  <2>5. Last(p) = y BY <2>3, <2>4, TipsOf DEF Leg, Leads
  <2> QED BY <1>1, <2>2, <2>3, <2>5 DEF FirstForward
<1> PICK open : open = acc.open \o Turned(p, acc.forward) OBVIOUS
<1>3. Contour(open, sl, E, i) BY ContourGrows
<1>4. Last(open) = y BY <1>3, TipsOf DEF Contour
<1> PICK r : r = Join(acc, i, sl) OBVIOUS
<1>5. /\ r.contours = (IF i # n THEN acc.contours ELSE Append(acc.contours, open))
      /\ i # n => r.open = open /\ r.forward = (y = Head(sl[i + 1]))
  <2>1. (~(i = Len(sl)) /\ y \in {Head(sl[i + 1]), Last(sl[i + 1])}) <=> i # n BY <1>0, <1>1
  <2> QED BY <1>0, <1>2, <1>4, <2>1 DEF Join
<1>6. ASSUME i < n PROVE OnTheWay(r, sl, E, i)
  <2>1. i # n BY <1>6
  <2>2. r.contours = <<>> BY <1>5, <2>1 DEF OnTheWay
  <2>3. r.open = open BY <1>5, <2>1
  <2>5. i # 0 OBVIOUS
  <2>4. r.forward = (sl[i + 1][1] = E[i]) BY <1>1, <1>5, <2>1
  <2> QED BY <1>3, <2>2, <2>3, <2>4, <2>5 DEF OnTheWay
<1>7. ASSUME i = n PROVE r.contours = <<open>> /\ Contour(open, sl, E, n)
  <2>1. r.contours = Append(acc.contours, open) BY <1>5, <1>7
  <2>2. acc.contours = <<>> BY DEF OnTheWay
  <2>3. Append(<<>>, open) = <<open>> OBVIOUS
  <2> QED BY <1>3, <1>7, <2>1, <2>2, <2>3
<1> QED BY <1>6, <1>7

\* Legs that lead on from each other make one contour.
LEMMA OneContour ==
  ASSUME NEW sl, NEW E, NEW n \in Nat \ {0}, Legs(sl, E, n)
  PROVE  \E c : ExtendedGeom(sl) = <<c>> /\ Contour(c, sl, E, n)
<1> PICK q : q = [i \in DOMAIN sl |-> i] OBVIOUS
<1>1. DOMAIN sl = 1..n
  <2> PICK S : sl \in Seq(S) BY DEF Legs, IsSequence
  <2>1. Len(sl) = n BY DEF Legs
  <2> QED BY <2>1
<1>2. DOMAIN q = 1..n /\ \A k \in 1..n : q[k] = k BY <1>1
<1> PICK r : r = Joined(sl, NotOpen, q) OBVIOUS
<1>3. ExtendedGeom(sl) = r.contours BY DEF ExtendedGeom, Joined, NotOpen
<1>4. Folds(Joining(sl), n, NotOpen, q, r)
  <2>1. n \in Nat OBVIOUS
  <2> QED BY <1>2, <2>1, JoinFolds
<1> PICK h : AreStates(Joining(sl), h, n, NotOpen, q, r) BY <1>4 DEF Folds
<1>5. /\ h[0] = NotOpen /\ h[n] = r
      /\ \A k \in 0..(n - 1) : h[k + 1] = Join(h[k], k + 1, sl)
  <2>1. \A k \in 0..(n - 1) : h[k + 1] = Apply(Joining(sl), h[k], q[k + 1]) BY DEF AreStates
  <2>2. \A k \in 0..(n - 1) : k + 1 \in 1..n OBVIOUS
  <2>3. \A a, x : Apply(Joining(sl), a, x) = Join(a, x, sl) BY DEF Apply, Joining
  <2>4. \A k \in 0..(n - 1) : h[k + 1] = Join(h[k], k + 1, sl) BY <1>2, <2>1, <2>2, <2>3
  <2> QED BY <2>4 DEF AreStates
<1> DEFINE T == {k \in Nat : k < n => OnTheWay(h[k], sl, E, k)}
<1>6. 0 \in T
  <2>1. sl[0 + 1][1] = E[0] BY DEF Legs
  <2>2. OnTheWay(NotOpen, sl, E, 0) BY <2>1 DEF OnTheWay, NotOpen
  <2> QED BY <1>5, <2>2
<1>7. ASSUME NEW k \in Nat, k \in T PROVE k + 1 \in T
  <2> SUFFICES ASSUME k + 1 < n PROVE OnTheWay(h[k + 1], sl, E, k + 1) OBVIOUS
  <2>1. k \in 0..(n - 1) /\ OnTheWay(h[k], sl, E, k) BY <1>7
  <2>2. OnTheWay(Join(h[k], k + 1, sl), sl, E, k + 1) BY <2>1, JoinGoesOn
  <2> QED BY <1>5, <2>1, <2>2
<1>8. n - 1 \in T
  <2> HIDE DEF T
  <2>1. Nat \subseteq T BY <1>6, <1>7, InductionOn
  <2>2. n - 1 \in Nat OBVIOUS
  <2> QED BY <2>1, <2>2
<1>9. n - 1 \in 0..(n - 1) /\ (n - 1) + 1 = n /\ n - 1 < n OBVIOUS
<1>10. OnTheWay(h[n - 1], sl, E, n - 1) BY <1>8, <1>9
<1>11. \E c : Join(h[n - 1], (n - 1) + 1, sl).contours = <<c>> /\ Contour(c, sl, E, n)
  BY <1>9, <1>10, JoinGoesOn
<1> QED BY <1>3, <1>5, <1>9, <1>11

LEMMA BuiltLegs ==
  ASSUME DrawInv, BufferInv, pc = "built", NEW f \in Features, Straight(f),
         path[f] # <<>>
  PROVE  \E E : \E n \in Nat \ {0} :
           /\ Legs(SlicesOf(f), E, n) /\ DOMAIN ls_list[f] = 1..n
           /\ E[0] = NodeAt(SegmentAt(f, 1).inode)
           /\ E[n] = NodeAt(SegmentAt(f, Len(path[f])).enode)
<1> PICK l : l = ls_list[f] OBVIOUS
<1> PICK m : m = Len(path[f]) OBVIOUS
<1>1. /\ IsSequence(l) /\ Walked(f) = m /\ DOMAIN path[f] = 1..m
      /\ ToSet(l) = UNION {SegmentIds(SegmentAt(f, i)) : i \in 1..m}
  BY AllWalked
<1>2. m \in Nat \ {0}
  <2>1. path[f] \in Seq(Edges \X BOOLEAN) BY DEF DrawInv, PathsTyped
  <2> QED BY <2>1
<1> PICK n : n = Len(l) OBVIOUS
<1>3. n \in Nat /\ DOMAIN l = 1..n BY <1>1 DEF IsSequence
<1>4. n # 0
  <2> SUFFICES ASSUME n = 0 PROVE FALSE OBVIOUS
  <2>1. ToSet(l) = {} BY <1>3 DEF ToSet
  <2> PICK s : s = SegmentAt(f, 1) OBVIOUS
  <2>2. 1 \in 1..m BY <1>2
  <2>3. s.inode \in NodesOf(f) /\ s.enode \in NodesOf(f) BY <1>1, <2>2 DEF NodesOf, SegmentAt
  <2>4. In(s) /\ Out(s) BY <2>3 DEF Straight, In, Out
  <2>5. SegmentIds(s) # {} BY <2>4 DEF SegmentIds, MadeFor
  <2>6. SegmentIds(s) \subseteq ToSet(l) BY <1>1, <2>2
  <2> QED BY <2>1, <2>5, <2>6
<1> PICK P : Connectives(P) BY DEF DrawInv
<1>5. Route(P, l, NodeAt(SegmentAt(f, 1).inode), NodeAt(SegmentAt(f, m).enode))
  <2>1. Led(P, f) BY DEF Connectives, Made
  <2>2. Reached(f) = SegmentAt(f, m).enode BY <1>1, <1>2 DEF Reached
  <2> QED BY <2>1, <2>2 DEF Led
<1> PICK E : /\ E[0] = NodeAt(SegmentAt(f, 1).inode) /\ E[n] = NodeAt(SegmentAt(f, m).enode)
             /\ Stops(P, l, E)
  BY <1>5 DEF Route
<1>6. ASSUME NEW i \in 1..n PROVE Between(Slice(l[i]), Tips(P, l[i]))
  <2>1. l[i] \in ToSet(l) BY <1>3 DEF ToSet
  <2>2. PICK j \in 1..m : l[i] \in SegmentIds(SegmentAt(f, j)) BY <1>1, <2>1
  <2>3. MadeFor(SegmentAt(f, j)) \subseteq DOMAIN P BY <1>1 DEF Connectives, Made, AllMade
  <2> QED BY <2>2, <2>3, SliceLines
<1> PICK sl : sl = SlicesOf(f) OBVIOUS
<1>7. sl = [i \in 1..n |-> Slice(l[i])] BY <1>3 DEF SlicesOf
<1>8. IsSequence(sl) /\ Len(sl) = n
  <2>1. sl \in [1..n -> {Slice(l[i]) : i \in 1..n}] BY <1>7
  <2>2. ASSUME NEW u, NEW S, u \in [1..n -> S] PROVE IsSequence(u) /\ Len(u) = n
    BY <1>3, <2>2, Numbered
  <2> QED BY <2>1, <2>2
<1>9. \A i \in 1..n : sl[i] = Slice(l[i]) BY <1>7
<1>10. ASSUME NEW i \in 1..n PROVE Leg(sl[i], E[i - 1], E[i])
  <2>1. Hop(P, l[i], E[i - 1], E[i]) BY DEF Stops
  <2> QED BY <1>6, <1>9, <2>1 DEF Hop, Between, Leg
<1>11. sl[1][1] = E[0]
  <2>1. 1 \in 1..n BY <1>3, <1>4
  <2>2. Tips(P, l[1])[1] = E[0] BY <1>4 DEF Stops
  <2> QED BY <1>6, <1>9, <2>1, <2>2 DEF Between
<1>12. Legs(sl, E, n) BY <1>8, <1>10, <1>11 DEF Legs
<1> QED BY <1>3, <1>4, <1>12

LEMMA BuiltContour ==
  ASSUME DrawInv, BufferInv, pc = "built", NEW f \in Features, Straight(f),
         path[f] # <<>>
  PROVE  LET contours == ExtendedGeom(SlicesOf(f))
             n == Len(path[f])
         IN  /\ Len(contours) = 1
             /\ Head(contours[1]) = <<"node", SegmentOf(path[f][1]).inode>>
             /\ Last(contours[1]) = <<"node", SegmentOf(path[f][n]).enode>>
             /\ {l \in LinesOf(contours[1]) : Cardinality(l) = 2}
                = {l \in Described(f) : Cardinality(l) = 2}
<1> PICK sl : sl = SlicesOf(f) OBVIOUS
<1>1. PICK E : \E n \in Nat \ {0} :
           /\ Legs(sl, E, n) /\ DOMAIN ls_list[f] = 1..n
           /\ E[0] = NodeAt(SegmentAt(f, 1).inode)
           /\ E[n] = NodeAt(SegmentAt(f, Len(path[f])).enode)
  BY BuiltLegs
<1> PICK n \in Nat \ {0} :
           /\ Legs(sl, E, n) /\ DOMAIN ls_list[f] = 1..n
           /\ E[0] = NodeAt(SegmentAt(f, 1).inode)
           /\ E[n] = NodeAt(SegmentAt(f, Len(path[f])).enode)
  BY <1>1
<1>2. PICK c : ExtendedGeom(sl) = <<c>> /\ Contour(c, sl, E, n) BY OneContour
<1>3. Len(<<c>>) = 1 /\ <<c>>[1] = c OBVIOUS
<1>4. Head(c) = E[0] /\ Last(c) = E[n] BY <1>2, TipsOf DEF Contour
<1>5. Real(c) = {l \in Described(f) : Cardinality(l) = 2}
  <2>1. DrawnBy(f) = Described(f) BY BuiltDraws DEF Straight
  <2>2. \A i \in 1..n : sl[i] = Slice(ls_list[f][i]) BY DEF SlicesOf
  <2>3. ASSUME NEW l PROVE l \in DrawnBy(f) <=> \E i \in 1..n : l \in LinesOf(sl[i])
    BY <2>2 DEF DrawnBy
  <2>4. ASSUME NEW l
        PROVE  l \in Reals(sl, n) <=> Cardinality(l) = 2 /\ \E i \in 1..n : l \in LinesOf(sl[i])
    BY DEF Reals, Real
  <2>5. Real(c) = Reals(sl, n) BY <1>2 DEF Contour
  <2> QED BY <2>1, <2>3, <2>4, <2>5
<1> QED BY <1>2, <1>3, <1>4, <1>5 DEF Real, SegmentAt, NodeAt

(* The contours buildExtendedGeom finds again by matching the points where *)
(* elements end are those of the file: where the segments of a feature     *)
(* follow one another and their nodes are there, the elements make one     *)
(* contour from the first node to the last, and it has the lines of the    *)
(* feature and no other, for every chart and every order of the maps.      *)
THEOREM ContoursAreFound == Spec => []ChainIsOneContour
<1>1. BufferInv /\ DrawInv => ChainIsOneContour
  BY BuiltContour DEF ChainIsOneContour, Straight
<1> QED BY <1>1, DrawInvariant, PTL
=============================================================================
