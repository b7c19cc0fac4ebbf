------------------------- MODULE ShopRegistry_proofs -------------------------
(***************************************************************************)
(* What ShopRegistry promises, for every account, every number of charts,  *)
(* licences and slots, and every machine that takes part: IInv is an       *)
(* inductive invariant of Spec, and the properties that the runs check     *)
(* follow from it.                                                         *)
(*                                                                         *)
(* The argument is that the server only ever adds to what it has assigned, *)
(* and every record of the list and of the file is about one of its slots. *)
(* A slot therefore names one machine and one chartset wherever it turns   *)
(* up, so that merging, saving and loading in any order never brings two   *)
(* records of a slot into one entry.  The chain of sections of an          *)
(* installation then only has to carry that the active slot of the chart   *)
(* is one of the name it was computed for (Handler).                       *)
(*                                                                         *)
(* The file goes through a fold (Loaded) and a flattening (SavedSlots);    *)
(* what they return is proved by induction on the length of their          *)
(* arguments, from the well-foundedness of the strict subset order on      *)
(* finite sets.                                                            *)
(***************************************************************************)
EXTENDS ShopRegistry, FiniteSetTheorems, SequenceTheorems, TLAPS

(***************************************************************************)
(* The invariant.  What the server has assigned, sl, only grows; every     *)
(* record of the list and of the file is about one of its slots.           *)
(***************************************************************************)
SlotRecord == [uuid : 1..MaxUuid, system : Names, inst : BOOLEAN]
SavedRecord == [q : 1..Quantities, uuid : 1..MaxUuid, system : Names, inst : BOOLEAN]
Quantity == [id : 1..Quantities, slots : Seq(SlotRecord)]
Entry == [ok : BOOLEAN, expired : BOOLEAN, max : Nat, qtys : Seq(Quantity),
          active : [q : Nat, s : Nat]]
Granted == [uuid : 1..MaxUuid, system : Names]

Has(sl, c, q, u, m) ==
  \E j \in 1..Len(sl[c][q]) : sl[c][q][j].uuid = u /\ sl[c][q][j].system = m

\* A slot names one machine and one chartset, a machine has one of a chartset.
Distinct(sl) ==
  \A c, d \in Charts, i, k \in 1..Quantities :
    \A j \in 1..Len(sl[c][i]), l \in 1..Len(sl[d][k]) :
      /\ sl[c][i][j].uuid = sl[d][k][l].uuid => c = d /\ i = k /\ j = l
      /\ c = d /\ sl[c][i][j].system = sl[d][k][l].system => i = k /\ j = l

Account ==
  /\ server \in [slots : [Charts -> [1..Quantities -> Seq(Granted)]],
                 listed : SUBSET Charts, expired : SUBSET Charts, key : 1..MaxKeys,
                 named : BOOLEAN, uuids : 0..MaxUuid, room : [Charts -> Rooms]]
  /\ \A c \in Charts, i \in 1..Quantities : \A j \in 1..Len(server.slots[c][i]) :
       server.slots[c][i][j].uuid <= server.uuids
  /\ Distinct(server.slots)

Genuine(sl, dk, c, q, s) ==
  /\ Has(sl, c, q, s.uuid, s.system)
  /\ s.inst => <<c, s.system>> \in dk

\* An entry that getChartStatus, the merges and an installation can use.
Good(sl, dk, c, e) ==
  /\ e \in Entry
  /\ \A i, k \in 1..Len(e.qtys) : e.qtys[i].id = e.qtys[k].id => i = k
  /\ \A i \in 1..Len(e.qtys) : \A j \in 1..Len(e.qtys[i].slots) :
       Genuine(sl, dk, c, e.qtys[i].id, e.qtys[i].slots[j])
  /\ \A i \in 1..Len(e.qtys) : \A j, l \in 1..Len(e.qtys[i].slots) :
       e.qtys[i].slots[j].uuid = e.qtys[i].slots[l].uuid => j = l
  /\ ActiveInRange(e)

ListGood(sl, dk, l) ==
  /\ DOMAIN l = Charts
  /\ \A c \in Charts : l[c] = NoEntry \/ Good(sl, dk, c, l[c])

GoodSaved(sl, dk, c, slots) ==
  /\ slots \in Seq(SavedRecord)
  /\ \A k \in 1..Len(slots) : Genuine(sl, dk, c, slots[k].q, slots[k])
  /\ \A k, l \in 1..Len(slots) : slots[k].uuid = slots[l].uuid => slots[k] = slots[l]

ConfigGood(sl, dk, cf) ==
  /\ cf.key \in 0..MaxKeys /\ cf.name \in {None, Me}
  /\ \A c \in Charts : cf.charts[c] = NoEntry \/ GoodSaved(sl, dk, c, cf.charts[c].slots)

Scalars ==
  /\ updatedOK \in BOOLEAN /\ plugged \in BOOLEAN
  /\ lastUuid \in 0..MaxUuid /\ key \in 0..MaxKeys
  /\ sysName \in {None, Me} /\ dongName \in {None, Dongle}
  /\ disk \subseteq Charts \X Names

\* Once a refresh has succeeded nothing is left for the pruning.
Fresh(ok, in, l, cf) ==
  ok \/ in = "listed" => \A c \in Charts :
    /\ l[c] # NoEntry => l[c].ok
    /\ ok /\ cf.charts[c] # NoEntry => l[c] # NoEntry

Plain == {"idle", "login", "identify", "list", "listed", "relogin", "list again"}
Chosen == {"upload", "assign", "slot"}
Sections ==
  [in : Plain] \cup [in : {"name", "choose"}, chart : Charts]
    \cup [in : Chosen, chart : Charts, late : BOOLEAN, name : {Me, Dongle}]

ActiveFor(e, name) == e.active # NoActive /\ ActiveSlot(e).system = name

Handler(ok, a, l) ==
  /\ a \in Sections
  /\ a.in \notin Plain => ok /\ l[a.chart] # NoEntry /\ ~l[a.chart].expired
  /\ /\ a.in \in Chosen /\ ~a.late
     /\ a.in = "slot" \/ AssignedTo(l[a.chart], a.name) # {}
     => ActiveFor(l[a.chart], a.name)

\* The slot a job is for was assigned to its name.
Job(ok, j, l, sl) == j # NoJob =>
  /\ j \in [chart : Charts, slot : 1..MaxUuid, name : {Me, Dongle}, late : BOOLEAN]
  /\ ok /\ l[j.chart] # NoEntry
  /\ ~j.late => \E q \in 1..Quantities : Has(sl, j.chart, q, j.slot, j.name)

IInv ==
  /\ Account /\ Scalars
  /\ ListGood(server.slots, disk, list)
  /\ ConfigGood(server.slots, disk, config)
  /\ Fresh(updatedOK, at.in, list, config)
  /\ Handler(updatedOK, at, list)
  /\ Job(updatedOK, job, list, server.slots)

(***************************************************************************)
(* Induction.  The library's theorems of induction take a predicate; the   *)
(* well-foundedness of finite sets is a fact without one, and gives        *)
(* induction over the elements of a set.                                   *)
(***************************************************************************)
LEMMA LeastExists ==
  ASSUME NEW T, T \subseteq Nat, T # {}
  PROVE  \E n \in T : \A m \in T : n <= m
<1> DEFINE TT == {0..n : n \in T}
<1>1. IsWellFoundedOn(StrictSubsetOrdering(Nat), FiniteSubsetsOf(Nat))
  BY FS_StrictSubsetOrderingWellFounded
<1>2. \A n \in Nat : IsFiniteSet(0..n) /\ 0..n \subseteq Nat
  BY FS_Interval
<1>3. TT \subseteq FiniteSubsetsOf(Nat) /\ TT # {}
  BY <1>2 DEF FiniteSubsetsOf
<1>4. PICK X \in TT : \A Y \in TT : <<Y, X>> \notin StrictSubsetOrdering(Nat)
  <2> HIDE DEF TT
  <2> QED BY <1>1, <1>3, WFMin
<1>5. PICK n \in T : X = 0..n
  OBVIOUS
<1>6. ASSUME NEW m \in T, m < n PROVE FALSE
  <2>1. 0..m \subseteq 0..n /\ n \in 0..n /\ n \notin 0..m
    BY <1>6
  <2>2. <<0..m, 0..n>> \in StrictSubsetOrdering(Nat)
    BY <2>1, <1>2 DEF StrictSubsetOrdering
  <2> QED BY <2>2, <1>4, <1>5
<1> QED BY <1>6

LEMMA InductionOn ==
  ASSUME NEW T, 0 \in T, \A n \in Nat : n \in T => n + 1 \in T
  PROVE  Nat \subseteq T
<1> SUFFICES ASSUME Nat \ T # {} PROVE FALSE OBVIOUS
<1>1. PICK n \in Nat \ T : \A m \in Nat \ T : n <= m BY LeastExists
<1>2. n - 1 \in Nat /\ n - 1 \in T BY <1>1
<1> QED BY <1>1, <1>2

LEMMA MaxIsGreatest ==
  ASSUME NEW n \in Nat, NEW x, x \subseteq 1..n, x # {}
  PROVE  Max(x) \in x /\ \A y \in x : y <= Max(x)
<1>0. \A y \in x : y \in 1..n /\ n - y \in Nat OBVIOUS
<1>1. {n - y : y \in x} \subseteq Nat /\ {n - y : y \in x} # {} BY <1>0
<1>2. PICK k \in {n - y : y \in x} : \A m \in {n - y : y \in x} : k <= m
  BY <1>1, LeastExists
<1>3. PICK y \in x : k = n - y OBVIOUS
<1>4. \A z \in x : y >= z BY <1>0, <1>2, <1>3
<1> QED BY <1>4 DEF Max

LEMMA WithoutMax ==
  ASSUME NEW n \in Nat, NEW x, x \subseteq 1..(n + 1), x # {}
  PROVE  x \ {Max(x)} \subseteq 1..n
<1>1. n + 1 \in Nat OBVIOUS
<1>2. Max(x) \in x /\ \A y \in x : y <= Max(x) BY <1>1, MaxIsGreatest
<1>3. ASSUME NEW y \in x, y # Max(x) PROVE y \in 1..n
  <2>1. y \in 1..(n + 1) /\ Max(x) \in 1..(n + 1) BY <1>2
  <2> QED BY <1>2, <1>3, <2>1
<1> QED BY <1>3

LEMMA MaxOfPrefix == ASSUME NEW n \in Nat PROVE Max(1..(n + 1)) = n + 1
<1>1. n + 1 \in 1..(n + 1) /\ n + 1 \in Nat OBVIOUS
<1>2. /\ Max(1..(n + 1)) \in 1..(n + 1)
      /\ \A y \in 1..(n + 1) : y <= Max(1..(n + 1))
  BY <1>1, MaxIsGreatest
<1> QED BY <1>1, <1>2

(***************************************************************************)
(* loadShopConfig is a fold over the saved slots: there is a state of the  *)
(* entry after each of them.                                               *)
(***************************************************************************)
IsIter(it, D, e, s) == it = [x \in SUBSET D |->
  IF x = {} THEN e ELSE LoadSlot(it[x \ {Max(x)}], s[Max(x)])]
IterOn(D, e, s) == CHOOSE it : IsIter(it, D, e, s)

LEMMA LoadedIsIter ==
  ASSUME NEW e, NEW s
  PROVE  Loaded(e, s) = IterOn(DOMAIN s, e, s)[DOMAIN s]
  BY DEF Loaded, FoldLeft, MapThenFoldSet, IterOn, IsIter

LEMMA IterExists ==
  ASSUME NEW e, NEW s PROVE \A n \in Nat : \E it : IsIter(it, 1..n, e, s)
<1> DEFINE T == {n \in Nat : \E it : IsIter(it, 1..n, e, s)}
<1>1. 0 \in T
  <2> DEFINE g == [x \in SUBSET (1..0) |-> e]
  <2>1. IsIter(g, 1..0, e, s) BY DEF IsIter
  <2> QED BY <2>1
<1>2. ASSUME NEW n \in Nat, n \in T PROVE n + 1 \in T
  <2>1. PICK g : IsIter(g, 1..n, e, s) BY <1>2
  <2> DEFINE h == [x \in SUBSET (1..(n + 1)) |->
                   IF x = {} THEN e ELSE LoadSlot(g[x \ {Max(x)}], s[Max(x)])]
  <2>2. ASSUME NEW y \in SUBSET (1..n) PROVE h[y] = g[y]
    <3>1. y \in SUBSET (1..(n + 1)) OBVIOUS
    <3>2. h[y] = IF y = {} THEN e ELSE LoadSlot(g[y \ {Max(y)}], s[Max(y)]) BY <3>1
    <3>3. g[y] = IF y = {} THEN e ELSE LoadSlot(g[y \ {Max(y)}], s[Max(y)])
      BY <2>1 DEF IsIter
    <3> QED BY <3>2, <3>3
  <2>3. \A x \in SUBSET (1..(n + 1)) : x # {} => h[x \ {Max(x)}] = g[x \ {Max(x)}]
    BY <2>2, WithoutMax
  <2>4. IsIter(h, 1..(n + 1), e, s)
    BY <2>3 DEF IsIter
  <2> QED BY <2>4
<1> QED BY <1>1, <1>2, InductionOn

AreStates(h, n, e, s) ==
  /\ h[0] = e /\ h[n] = Loaded(e, s)
  /\ \A k \in 0..(n - 1) : h[k + 1] = LoadSlot(h[k], s[k + 1])

LEMMA FoldStates ==
  ASSUME NEW e, NEW s, NEW n \in Nat, DOMAIN s = 1..n
  PROVE  \E h : AreStates(h, n, e, s)
<1> DEFINE it == IterOn(1..n, e, s)
           h == [k \in 0..n |-> it[1..k]]
<1>1. IsIter(it, 1..n, e, s)
  BY IterExists DEF IterOn
<1> HIDE DEF it
<1>2. h[0] = e
  BY <1>1 DEF IsIter
<1>3. ASSUME NEW k \in 0..(n - 1) PROVE h[k + 1] = LoadSlot(h[k], s[k + 1])
  <2>1. Max(1..(k + 1)) = k + 1 BY MaxOfPrefix
  <2>2. (1..(k + 1)) \ {k + 1} = 1..k /\ 1..(k + 1) # {} /\ 1..(k + 1) \in SUBSET (1..n) OBVIOUS
  <2>3. it[1..(k + 1)] = LoadSlot(it[1..k], s[k + 1]) BY <1>1, <2>1, <2>2 DEF IsIter
  <2> QED BY <2>3
<1>4. h[n] = Loaded(e, s)
  BY LoadedIsIter DEF it
<1>5. AreStates(h, n, e, s)
  BY <1>2, <1>3, <1>4 DEF AreStates
<1> QED BY <1>5

LEMMA FoldKeeps ==
  ASSUME NEW e, NEW s, NEW n \in Nat, DOMAIN s = 1..n,
         NEW G, e \in G, \A k \in 1..n : \A g \in G : LoadSlot(g, s[k]) \in G
  PROVE  Loaded(e, s) \in G
<1>0. PICK h : AreStates(h, n, e, s) BY FoldStates
<1>1. /\ h[0] = e /\ h[n] = Loaded(e, s)
      /\ \A k \in 0..(n - 1) : h[k + 1] = LoadSlot(h[k], s[k + 1])
  BY <1>0 DEF AreStates
<1> DEFINE T == {k \in Nat : k <= n => h[k] \in G}
<1>2. 0 \in T BY <1>1
<1>3. ASSUME NEW k \in Nat, k \in T PROVE k + 1 \in T
  <2> SUFFICES ASSUME k + 1 <= n PROVE h[k + 1] \in G OBVIOUS
  <2>1. h[k] \in G /\ k \in 0..(n - 1) /\ k + 1 \in 1..n BY <1>3
  <2> QED BY <1>1, <2>1
<1>4. n \in T BY <1>2, <1>3, InductionOn
<1> QED BY <1>1, <1>4

LEMMA FoldReaches ==
  ASSUME NEW e, NEW s, NEW n \in Nat, DOMAIN s = 1..n,
         NEW G, e \in G, \A k \in 1..n : \A g \in G : LoadSlot(g, s[k]) \in G,
         NEW H, \A k \in 1..n : \A g \in G : g \in H => LoadSlot(g, s[k]) \in H,
         NEW m \in 1..n, \A g \in G : LoadSlot(g, s[m]) \in H
  PROVE  Loaded(e, s) \in H
<1>0. PICK h : AreStates(h, n, e, s) BY FoldStates
<1>1. /\ h[0] = e /\ h[n] = Loaded(e, s)
      /\ \A k \in 0..(n - 1) : h[k + 1] = LoadSlot(h[k], s[k + 1])
  BY <1>0 DEF AreStates
<1> DEFINE T == {k \in Nat : k <= n => h[k] \in G /\ (m <= k => h[k] \in H)}
<1>2. 0 \in T BY <1>1
<1>3. ASSUME NEW k \in Nat, k \in T PROVE k + 1 \in T
  <2> SUFFICES ASSUME k + 1 <= n PROVE h[k + 1] \in G /\ (m <= k + 1 => h[k + 1] \in H)
    OBVIOUS
  <2>1. h[k] \in G /\ (m <= k => h[k] \in H) /\ h[k + 1] = LoadSlot(h[k], s[k + 1])
    BY <1>1, <1>3
  <2>2. CASE k + 1 = m BY <2>1, <2>2
  <2>3. CASE k + 1 # m BY <2>1, <2>3
  <2> QED BY <2>2, <2>3
<1>4. n \in T BY <1>2, <1>3, InductionOn
<1> QED BY <1>1, <1>4

(***************************************************************************)
(* Slots of an entry.                                                      *)
(***************************************************************************)
LEMMA SlotsAre ==
  ASSUME NEW e, NEW p
  PROVE  p \in SlotsOf(e) <=> \E i \in 1..Len(e.qtys) :
           \E j \in 1..Len(e.qtys[i].slots) : p = <<i, j>>
  BY DEF SlotsOf

LEMMA HasUnique ==
  ASSUME NEW sl, Distinct(sl), NEW c \in Charts, NEW d \in Charts,
         NEW i \in 1..Quantities, NEW k \in 1..Quantities, NEW u, NEW v, NEW m, NEW n,
         Has(sl, c, i, u, m), Has(sl, d, k, v, n)
  PROVE  /\ u = v => c = d /\ i = k /\ m = n
         /\ c = d /\ m = n => i = k /\ u = v
<1>1. PICK j \in 1..Len(sl[c][i]) : sl[c][i][j].uuid = u /\ sl[c][i][j].system = m
  BY DEF Has
<1>2. PICK l \in 1..Len(sl[d][k]) : sl[d][k][l].uuid = v /\ sl[d][k][l].system = n
  BY DEF Has
<1>3. /\ u = v => c = d /\ i = k /\ j = l
      /\ c = d /\ m = n => i = k /\ j = l
  <2>1. /\ sl[c][i][j].uuid = sl[d][k][l].uuid => c = d /\ i = k /\ j = l
        /\ c = d /\ sl[c][i][j].system = sl[d][k][l].system => i = k /\ j = l
    BY DEF Distinct
  <2> QED BY <1>1, <1>2, <2>1
<1> QED BY <1>1, <1>2, <1>3

LEMMA EntryParts ==
  ASSUME NEW e \in Entry
  PROVE  /\ Len(e.qtys) \in Nat
         /\ \A i \in 1..Len(e.qtys) :
              /\ e.qtys[i] \in Quantity /\ e.qtys[i].id \in 1..Quantities
              /\ e.qtys[i].slots \in Seq(SlotRecord) /\ Len(e.qtys[i].slots) \in Nat
              /\ \A j \in 1..Len(e.qtys[i].slots) : e.qtys[i].slots[j] \in SlotRecord
<1>1. e.qtys \in Seq(Quantity) BY DEF Entry
<1>2. ASSUME NEW i \in 1..Len(e.qtys) PROVE e.qtys[i] \in Quantity BY <1>1
<1>3. ASSUME NEW i \in 1..Len(e.qtys)
      PROVE  e.qtys[i].id \in 1..Quantities /\ e.qtys[i].slots \in Seq(SlotRecord)
  BY <1>2 DEF Quantity
<1> QED BY <1>1, <1>2, <1>3

LEMMA SlotFacts ==
  ASSUME NEW sl, NEW dk, NEW c, NEW e, Good(sl, dk, c, e), NEW p \in SlotsOf(e)
  PROVE  /\ p[1] \in 1..Len(e.qtys) /\ p[2] \in 1..Len(e.qtys[p[1]].slots)
         /\ p[1] \in Nat /\ p[2] \in Nat /\ p = <<p[1], p[2]>>
         /\ e.qtys[p[1]].id \in 1..Quantities
         /\ Slot(e, p) \in SlotRecord
         /\ Genuine(sl, dk, c, e.qtys[p[1]].id, Slot(e, p))
<1>0. PICK i \in 1..Len(e.qtys) : \E j \in 1..Len(e.qtys[i].slots) : p = <<i, j>>
  BY SlotsAre
<1>1. PICK j \in 1..Len(e.qtys[i].slots) : p = <<i, j>>
  BY <1>0
<1>2. e \in Entry BY DEF Good
<1>3. p[1] = i /\ p[2] = j /\ Slot(e, p) = e.qtys[i].slots[j] BY <1>1 DEF Slot
<1>4. /\ e.qtys[i].id \in 1..Quantities /\ e.qtys[i].slots[j] \in SlotRecord
      /\ i \in Nat /\ j \in Nat
  BY <1>2, EntryParts
<1>5. Genuine(sl, dk, c, e.qtys[i].id, e.qtys[i].slots[j]) BY DEF Good
<1> QED BY <1>1, <1>3, <1>4, <1>5

LEMMA SlotsDiffer ==
  ASSUME NEW sl, Distinct(sl), NEW dk, NEW c \in Charts, NEW e, Good(sl, dk, c, e),
         NEW p \in SlotsOf(e), NEW r \in SlotsOf(e),
         Slot(e, p).uuid = Slot(e, r).uuid \/ Slot(e, p).system = Slot(e, r).system
  PROVE  p = r
<1>1. /\ Has(sl, c, e.qtys[p[1]].id, Slot(e, p).uuid, Slot(e, p).system)
      /\ Has(sl, c, e.qtys[r[1]].id, Slot(e, r).uuid, Slot(e, r).system)
  BY SlotFacts DEF Genuine
<1>2. e.qtys[p[1]].id = e.qtys[r[1]].id /\ Slot(e, p).uuid = Slot(e, r).uuid
  BY <1>1, HasUnique, SlotFacts
<1>3. p[1] = r[1] BY <1>2, SlotFacts DEF Good
<1>4. p[2] = r[2]
  <2>1. /\ p[1] \in 1..Len(e.qtys) /\ p[2] \in 1..Len(e.qtys[p[1]].slots)
        /\ r[2] \in 1..Len(e.qtys[p[1]].slots)
    BY <1>3, SlotFacts
  <2>2. e.qtys[p[1]].slots[p[2]].uuid = e.qtys[p[1]].slots[r[2]].uuid
    BY <1>2, <1>3 DEF Slot
  <2> QED BY <2>1, <2>2 DEF Good
<1> QED BY <1>3, <1>4, SlotFacts

\* The first slot of a name or of a UUID is the only one.
LEMMA FirstIsOnly ==
  ASSUME NEW P, NEW p \in P, p[1] \in Nat, p[2] \in Nat, \A r \in P : r = p
  PROVE  \A e : First(e, P) = p
  BY DEF First

LEMMA TheAssigned ==
  ASSUME NEW sl, Distinct(sl), NEW dk, NEW c \in Charts, NEW e, Good(sl, dk, c, e),
         NEW name, AssignedTo(e, name) # {}
  PROVE  LET p == First(e, AssignedTo(e, name))
         IN p \in SlotsOf(e) /\ Slot(e, p).system = name /\ name # None
<1>1. PICK p \in AssignedTo(e, name) : TRUE OBVIOUS
<1>2. name # None /\ \A r \in AssignedTo(e, name) : r \in SlotsOf(e) /\ Slot(e, r).system = name
  BY DEF AssignedTo
<1>3. \A r \in AssignedTo(e, name) : r = p
  BY <1>1, <1>2, SlotsDiffer
<1>4. First(e, AssignedTo(e, name)) = p
  BY <1>1, <1>2, <1>3, SlotFacts, FirstIsOnly
<1> QED BY <1>1, <1>2, <1>4

LEMMA TheUuid ==
  ASSUME NEW sl, Distinct(sl), NEW dk, NEW c \in Charts, NEW e, Good(sl, dk, c, e),
         NEW p \in SlotsOf(e)
  PROVE  First(e, WithUuid(e, Slot(e, p).uuid)) = p
<1>1. p \in WithUuid(e, Slot(e, p).uuid) BY DEF WithUuid
<1>2. \A r \in WithUuid(e, Slot(e, p).uuid) : r = p
  BY SlotsDiffer DEF WithUuid
<1> QED BY <1>1, <1>2, SlotFacts, FirstIsOnly

LEMMA NoEntryIsNone == NoEntry \notin Entry
  BY DEF NoEntry, Entry

(***************************************************************************)
(* getChartStatus leaves an active slot that exists, and for a chart of    *)
(* which a slot is assigned, that of the dongle or of this machine.        *)
(***************************************************************************)
LEMMA TheQuantity ==
  ASSUME NEW sl, NEW dk, NEW c, NEW e, Good(sl, dk, c, e), NEW i \in 1..Len(e.qtys)
  PROVE  (CHOOSE k \in 1..Len(e.qtys) : e.qtys[k].id = e.qtys[i].id) = i
  BY DEF Good

LEMMA WithActive ==
  ASSUME NEW sl, NEW dk, NEW c, NEW e, Good(sl, dk, c, e), NEW a \in [q : Nat, s : Nat],
         ActiveInRange([e EXCEPT !.active = a])
  PROVE  Good(sl, dk, c, [e EXCEPT !.active = a])
<1> DEFINE f == [e EXCEPT !.active = a]
<1>1. e \in Entry BY DEF Good
<1>2. f \in Entry /\ f.qtys = e.qtys BY <1>1 DEF Entry
<1> HIDE DEF f
<1> QED BY <1>2 DEF Good, f

LEMMA ActiveIs ==
  ASSUME NEW sl, NEW dk, NEW c, NEW e, Good(sl, dk, c, e), NEW p \in SlotsOf(e),
         NEW a, a = [q |-> e.qtys[p[1]].id, s |-> p[2]]
  PROVE  /\ Good(sl, dk, c, [e EXCEPT !.active = a])
         /\ ActiveFor([e EXCEPT !.active = a], Slot(e, p).system)
<1> DEFINE f == [e EXCEPT !.active = a]
<1>1. e \in Entry BY DEF Good
<1>2. f.active = a /\ f.qtys = e.qtys BY <1>1 DEF Entry
<1>3. a \in [q : Nat, s : Nat] /\ a.q = e.qtys[p[1]].id /\ a.s = p[2] BY SlotFacts
<1>4. a # NoActive BY <1>3, SlotFacts DEF NoActive
<1>5. ActiveInRange(f) BY <1>2, <1>3, SlotFacts DEF ActiveInRange
<1>6. p[1] \in 1..Len(e.qtys) BY SlotFacts
<1>7. (CHOOSE k \in 1..Len(e.qtys) : e.qtys[k].id = e.qtys[p[1]].id) = p[1]
  BY <1>6, TheQuantity
<1> HIDE DEF f
<1>8. ActiveSlot(f) = Slot(e, p)
  BY <1>2, <1>3, <1>7 DEF ActiveSlot, Slot
<1>9. Good(sl, dk, c, f) BY <1>3, <1>5, WithActive DEF f
<1> QED BY <1>2, <1>4, <1>8, <1>9 DEF ActiveFor, f

LEMMA TheActive ==
  ASSUME NEW sl, NEW dk, NEW c, NEW e, Good(sl, dk, c, e), e.active # NoActive
  PROVE  \E p \in SlotsOf(e) : ActiveSlot(e) = Slot(e, p)
<1>1. PICK i \in 1..Len(e.qtys) : /\ e.qtys[i].id = e.active.q
                                  /\ e.active.s \in 1..Len(e.qtys[i].slots)
  BY DEF Good, ActiveInRange
<1>2. (CHOOSE k \in 1..Len(e.qtys) : e.qtys[k].id = e.qtys[i].id) = i
  BY TheQuantity
<1>3. ActiveSlot(e) = e.qtys[i].slots[e.active.s]
  BY <1>1, <1>2 DEF ActiveSlot
<1>4. <<i, e.active.s>> \in SlotsOf(e) BY <1>1, SlotsAre
<1>5. Slot(e, <<i, e.active.s>>) = e.qtys[i].slots[e.active.s] BY DEF Slot
<1> QED BY <1>3, <1>4, <1>5

Unassigned(e, dong, sys) == AssignedTo(e, dong) = {} /\ AssignedTo(e, sys) = {}

LEMMA TheMine ==
  ASSUME NEW sl, Distinct(sl), NEW dk, NEW c \in Charts, NEW e, Good(sl, dk, c, e),
         NEW dong, NEW sys, ~Unassigned(e, dong, sys)
  PROVE  /\ Mine(e, dong, sys) \in SlotsOf(e)
         /\ AssignedTo(e, dong) # {} => Slot(e, Mine(e, dong, sys)).system = dong
         /\ AssignedTo(e, dong) = {} => Slot(e, Mine(e, dong, sys)).system = sys
<1>1. CASE AssignedTo(e, dong) # {} BY <1>1, TheAssigned DEF Mine
<1>2. CASE AssignedTo(e, dong) = {} BY <1>2, TheAssigned DEF Mine, Unassigned
<1> QED BY <1>1, <1>2

MineActive(e, dong, sys) ==
  [q |-> e.qtys[Mine(e, dong, sys)[1]].id, s |-> Mine(e, dong, sys)[2]]

LEMMA StatusCases ==
  ASSUME NEW e, NEW dong, NEW sys, NEW ok \in BOOLEAN,
         NEW s, s = getChartStatus(e, dong, sys, ok)
  PROVE  /\ \/ s.active = e.active /\ s.status # "installed"
            \/ ~Unassigned(e, dong, sys) /\ s.active = MineActive(e, dong, sys)
         /\ ok /\ ~e.expired /\ ~Unassigned(e, dong, sys)
              => s.active = MineActive(e, dong, sys)
         /\ s.status \in {"requestable", "purchased", "installed"} => ok /\ ~e.expired
<1> DEFINE noslot == /\ FullyAssigned(e) /\ AssignedTo(e, sys) = {}
                     /\ ~(dong # None /\ (AssignedTo(e, dong) # {} \/ AnyDongle(e) # {}))
<1>1. CASE ~ok
  <2>1. s = [status |-> "refresh", active |-> e.active] BY <1>1 DEF getChartStatus
  <2>2. s.active = e.active /\ s.status = "refresh" BY <2>1
  <2>3. s.status \notin {"requestable", "purchased", "installed"} BY <2>2
  <2> QED BY <1>1, <2>2, <2>3, Zenon
<1>2. CASE ok /\ e.expired
  <2>1. s = [status |-> "expired", active |-> e.active] BY <1>2 DEF getChartStatus
  <2>2. s.active = e.active /\ s.status = "expired" BY <2>1
  <2>3. s.status \notin {"requestable", "purchased", "installed"} BY <2>2
  <2> QED BY <1>2, <2>2, <2>3, Zenon
<1>3. CASE ok /\ ~e.expired /\ noslot
  <2>1. s = [status |-> "noslot", active |-> e.active] BY <1>3 DEF getChartStatus
  <2>2. Unassigned(e, dong, sys) BY <1>3 DEF Unassigned, AssignedTo
  <2>3. s.active = e.active /\ s.status = "noslot" BY <2>1
  <2>4. s.status # "installed" BY <2>3
  <2> QED BY <1>3, <2>2, <2>3, <2>4, Zenon
<1>4. CASE ok /\ ~e.expired /\ ~noslot
  <2>1. CASE Unassigned(e, dong, sys) 
    <3>1. s = [status |-> "purchased", active |-> e.active]
      BY <1>4, <2>1 DEF getChartStatus, Unassigned
    <3>2. s.active = e.active /\ s.status # "installed" BY <3>1
    <3> QED BY <1>4, <2>1, <3>2, Zenon
  <2>2. CASE ~Unassigned(e, dong, sys)
    <3>1. s.active = MineActive(e, dong, sys)
      BY <1>4, <2>2 DEF getChartStatus, Unassigned, MineActive
    <3> QED BY <1>4, <2>2, <3>1
  <2> QED BY <2>1, <2>2
<1> QED BY <1>1, <1>2, <1>3, <1>4

LEMMA StatusGood ==
  ASSUME NEW sl, Distinct(sl), NEW dk, NEW c \in Charts, NEW e, Good(sl, dk, c, e),
         NEW dong, NEW sys, NEW ok \in BOOLEAN
  PROVE  Good(sl, dk, c, [e EXCEPT !.active = getChartStatus(e, dong, sys, ok).active])
<1> DEFINE a == getChartStatus(e, dong, sys, ok).active
<1>1. CASE a = e.active
  <2>1. e \in Entry BY DEF Good
  <2>2. [e EXCEPT !.active = a] = e BY <1>1, <2>1 DEF Entry
  <2> QED BY <2>2
<1>2. CASE ~Unassigned(e, dong, sys) /\ a = MineActive(e, dong, sys)
  <2>1. Mine(e, dong, sys) \in SlotsOf(e) BY <1>2, TheMine
  <2> HIDE DEF a
  <2> QED BY <1>2, <2>1, ActiveIs DEF MineActive, a
<1> QED BY <1>1, <1>2, StatusCases

LEMMA StatusMine ==
  ASSUME NEW sl, Distinct(sl), NEW dk, NEW c \in Charts, NEW e, Good(sl, dk, c, e),
         NEW dong, NEW sys, ~e.expired,
         NEW f, f = [e EXCEPT !.active = getChartStatus(e, dong, sys, TRUE).active]
  PROVE  /\ AssignedTo(e, dong) # {} => ActiveFor(f, dong)
         /\ AssignedTo(e, dong) = {} /\ AssignedTo(e, sys) # {} => ActiveFor(f, sys)
<1> SUFFICES ASSUME ~Unassigned(e, dong, sys) PROVE
         /\ AssignedTo(e, dong) # {} => ActiveFor(f, dong)
         /\ AssignedTo(e, dong) = {} /\ AssignedTo(e, sys) # {} => ActiveFor(f, sys)
  BY DEF Unassigned
<1>1. f = [e EXCEPT !.active = MineActive(e, dong, sys)]
  <2>1. getChartStatus(e, dong, sys, TRUE).active = MineActive(e, dong, sys)
    BY StatusCases
  <2> QED BY <2>1
<1>2. ActiveFor(f, Slot(e, Mine(e, dong, sys)).system)
  <2>1. Mine(e, dong, sys) \in SlotsOf(e) BY TheMine
  <2>2. MineActive(e, dong, sys) =
          [q |-> e.qtys[Mine(e, dong, sys)[1]].id, s |-> Mine(e, dong, sys)[2]]
    BY DEF MineActive
  <2>3. ActiveFor([e EXCEPT !.active = MineActive(e, dong, sys)],
                  Slot(e, Mine(e, dong, sys)).system)
    BY <2>1, <2>2, ActiveIs
  <2> QED BY <1>1, <2>3
<1> QED BY <1>2, TheMine

(***************************************************************************)
(* An entry stays good while the server assigns and machines install, and  *)
(* when a slot is appended to it.                                          *)
(***************************************************************************)
Grows(sl, tl) == \A c \in Charts, q \in 1..Quantities : \A u, m : Has(sl, c, q, u, m) => Has(tl, c, q, u, m)

LEMMA GenuineGrows ==
  ASSUME NEW sl, NEW tl, Grows(sl, tl), NEW dk, NEW ek, dk \subseteq ek,
         NEW c \in Charts, NEW q \in 1..Quantities, NEW s, Genuine(sl, dk, c, q, s)
  PROVE  Genuine(tl, ek, c, q, s)
  BY DEF Genuine, Grows

LEMMA GoodGrows ==
  ASSUME NEW sl, NEW tl, Grows(sl, tl), NEW dk, NEW ek, dk \subseteq ek,
         NEW c \in Charts, NEW e, Good(sl, dk, c, e)
  PROVE  Good(tl, ek, c, e)
<1>1. e \in Entry BY DEF Good
<1>2. ASSUME NEW i \in 1..Len(e.qtys), NEW j \in 1..Len(e.qtys[i].slots)
      PROVE  Genuine(tl, ek, c, e.qtys[i].id, e.qtys[i].slots[j])
  <2>1. e.qtys[i].id \in 1..Quantities BY <1>1, EntryParts
  <2>2. Genuine(sl, dk, c, e.qtys[i].id, e.qtys[i].slots[j]) BY DEF Good
  <2> QED BY <2>1, <2>2, GenuineGrows
<1> QED BY <1>2 DEF Good

LEMMA SavedGrows ==
  ASSUME NEW sl, NEW tl, Grows(sl, tl), NEW dk, NEW ek, dk \subseteq ek,
         NEW c \in Charts, NEW slots, GoodSaved(sl, dk, c, slots)
  PROVE  GoodSaved(tl, ek, c, slots)
<1>1. slots \in Seq(SavedRecord) BY DEF GoodSaved
<1>2. ASSUME NEW k \in 1..Len(slots) PROVE slots[k].q \in 1..Quantities
  <2>1. slots[k] \in SavedRecord BY <1>1
  <2> QED BY <2>1 DEF SavedRecord
<1>3. \A k \in 1..Len(slots) : Genuine(tl, ek, c, slots[k].q, slots[k])
  BY <1>2, GenuineGrows DEF GoodSaved
<1> QED BY <1>3 DEF GoodSaved

\* The entry e with s appended to the slots of its quantity i.
Appended(e, i, s) == [e EXCEPT !.qtys[i].slots = Append(@, s)]

LEMMA QuantityUpdate ==
  ASSUME NEW r \in Quantity, NEW v
  PROVE  [r EXCEPT !.slots = v] = [id |-> r.id, slots |-> v]
  BY DEF Quantity

IsAppended(f, e, i, s) ==
  /\ f \in Entry /\ Len(f.qtys) = Len(e.qtys)
  /\ f.ok = e.ok /\ f.expired = e.expired /\ f.max = e.max /\ f.active = e.active
  /\ \A k \in 1..Len(e.qtys) : f.qtys[k].id = e.qtys[k].id
  /\ \A k \in 1..Len(e.qtys) : k # i => f.qtys[k].slots = e.qtys[k].slots
  /\ f.qtys[i].slots = Append(e.qtys[i].slots, s)
  /\ Len(f.qtys[i].slots) = Len(e.qtys[i].slots) + 1
  /\ f.qtys[i].slots[Len(e.qtys[i].slots) + 1] = s
  /\ \A j \in 1..Len(e.qtys[i].slots) : f.qtys[i].slots[j] = e.qtys[i].slots[j]

LEMMA AppendedParts ==
  ASSUME NEW e \in Entry, NEW i \in 1..Len(e.qtys), NEW s \in SlotRecord
  PROVE  IsAppended(Appended(e, i, s), e, i, s)
<1> DEFINE f == Appended(e, i, s)
<1>1. e.qtys \in Seq(Quantity) /\ e.qtys[i] \in Quantity /\ e.qtys[i].slots \in Seq(SlotRecord)
  BY EntryParts DEF Entry
<1> DEFINE q == [e.qtys[i] EXCEPT !.slots = Append(@, s)]
           qs == [e.qtys EXCEPT ![i] = q]
<1>2. /\ q \in Quantity /\ q.id = e.qtys[i].id /\ q.slots = Append(e.qtys[i].slots, s)
  <2>1. Append(e.qtys[i].slots, s) \in Seq(SlotRecord) BY <1>1
  <2>2. q = [id |-> e.qtys[i].id, slots |-> Append(e.qtys[i].slots, s)]
    BY <1>1, QuantityUpdate
  <2>3. e.qtys[i].id \in 1..Quantities BY <1>1 DEF Quantity
  <2> QED BY <2>1, <2>2, <2>3 DEF Quantity
<1>3. f = [e EXCEPT !.qtys = qs] BY DEF Appended, Entry
<1> HIDE DEF q, f
<1>4. qs \in Seq(Quantity) /\ Len(qs) = Len(e.qtys) /\ qs[i] = q
      /\ \A k \in 1..Len(e.qtys) : k # i => qs[k] = e.qtys[k]
  BY <1>1, <1>2
<1> HIDE DEF qs
<1>5. /\ f \in Entry /\ f.qtys = qs
      /\ f.ok = e.ok /\ f.expired = e.expired /\ f.max = e.max /\ f.active = e.active
  BY <1>3, <1>4 DEF Entry
<1>6. /\ Len(q.slots) = Len(e.qtys[i].slots) + 1
      /\ q.slots[Len(e.qtys[i].slots) + 1] = s
      /\ \A j \in 1..Len(e.qtys[i].slots) : q.slots[j] = e.qtys[i].slots[j]
  BY <1>1, <1>2
<1>7. IsAppended(f, e, i, s) BY <1>2, <1>4, <1>5, <1>6 DEF IsAppended
<1> QED BY <1>7 DEF f

LEMMA AppendedGood ==
  ASSUME NEW sl, NEW dk, NEW c, NEW e, Good(sl, dk, c, e),
         NEW i \in 1..Len(e.qtys), NEW s \in SlotRecord,
         Genuine(sl, dk, c, e.qtys[i].id, s),
         \A j \in 1..Len(e.qtys[i].slots) : e.qtys[i].slots[j].uuid # s.uuid
  PROVE  Good(sl, dk, c, Appended(e, i, s))
<1> DEFINE f == Appended(e, i, s)
<1>0. e \in Entry BY DEF Good
<1>1. /\ f \in Entry /\ Len(f.qtys) = Len(e.qtys) /\ f.active = e.active
      /\ \A k \in 1..Len(e.qtys) : f.qtys[k].id = e.qtys[k].id
      /\ \A k \in 1..Len(e.qtys) : k # i => f.qtys[k].slots = e.qtys[k].slots
      /\ Len(f.qtys[i].slots) = Len(e.qtys[i].slots) + 1
      /\ f.qtys[i].slots[Len(e.qtys[i].slots) + 1] = s
      /\ \A j \in 1..Len(e.qtys[i].slots) : f.qtys[i].slots[j] = e.qtys[i].slots[j]
  BY <1>0, AppendedParts DEF IsAppended
<1> HIDE DEF f
<1>2. Len(e.qtys) \in Nat /\ \A k \in 1..Len(e.qtys) : Len(e.qtys[k].slots) \in Nat
  BY <1>0, EntryParts
<1>3. ASSUME NEW k \in 1..Len(f.qtys), NEW j \in 1..Len(f.qtys[k].slots)
      PROVE  \/ j \in 1..Len(e.qtys[k].slots) /\ f.qtys[k].slots[j] = e.qtys[k].slots[j]
             \/ k = i /\ j = Len(e.qtys[i].slots) + 1 /\ f.qtys[k].slots[j] = s
  <2>1. CASE k = i
    <3>1. j \in 1..(Len(e.qtys[i].slots) + 1) BY <1>1, <2>1
    <3>2. CASE j = Len(e.qtys[i].slots) + 1 BY <1>1, <2>1, <3>2
    <3>3. CASE j # Len(e.qtys[i].slots) + 1
      <4>1. j \in 1..Len(e.qtys[i].slots) BY <1>2, <3>1, <3>3
      <4> QED BY <1>1, <2>1, <4>1
    <3> QED BY <3>2, <3>3
  <2>2. CASE k # i
    <3>1. k \in 1..Len(e.qtys) BY <1>1
    <3>2. f.qtys[k].slots = e.qtys[k].slots BY <1>1, <2>2, <3>1
    <3> QED BY <3>2
  <2> QED BY <2>1, <2>2
<1>4. ASSUME NEW k \in 1..Len(f.qtys), NEW j \in 1..Len(f.qtys[k].slots)
      PROVE  Genuine(sl, dk, c, f.qtys[k].id, f.qtys[k].slots[j])
  BY <1>1, <1>3 DEF Good
<1>5. ASSUME NEW k \in 1..Len(f.qtys), NEW j \in 1..Len(f.qtys[k].slots),
             NEW l \in 1..Len(f.qtys[k].slots),
             f.qtys[k].slots[j].uuid = f.qtys[k].slots[l].uuid
      PROVE  j = l
  <2>1. k \in 1..Len(e.qtys) BY <1>1
  <2>2. CASE j \in 1..Len(e.qtys[k].slots) /\ f.qtys[k].slots[j] = e.qtys[k].slots[j]
    <3>1. CASE l \in 1..Len(e.qtys[k].slots) /\ f.qtys[k].slots[l] = e.qtys[k].slots[l]
      BY <1>5, <2>1, <2>2, <3>1 DEF Good
    <3>2. CASE k = i /\ l = Len(e.qtys[i].slots) + 1 /\ f.qtys[k].slots[l] = s
      BY <1>5, <2>2, <3>2
    <3> QED BY <1>3, <3>1, <3>2
  <2>3. CASE k = i /\ j = Len(e.qtys[i].slots) + 1 /\ f.qtys[k].slots[j] = s
    <3>1. CASE l \in 1..Len(e.qtys[k].slots) /\ f.qtys[k].slots[l] = e.qtys[k].slots[l]
      BY <1>5, <2>3, <3>1
    <3>2. CASE k = i /\ l = Len(e.qtys[i].slots) + 1 /\ f.qtys[k].slots[l] = s
      BY <2>3, <3>2
    <3> QED BY <1>3, <3>1, <3>2
  <2> QED BY <1>3, <2>2, <2>3
<1>6. ActiveInRange(f)
  <2>1. CASE e.active = NoActive BY <1>1, <2>1 DEF ActiveInRange
  <2>2. CASE e.active # NoActive
    <3>1. PICK k \in 1..Len(e.qtys) : /\ e.qtys[k].id = e.active.q
                                      /\ e.active.s \in 1..Len(e.qtys[k].slots)
      BY <2>2 DEF Good, ActiveInRange
    <3>2. f.active.s \in 1..Len(f.qtys[k].slots)
      <4>1. CASE k = i BY <1>1, <1>2, <3>1, <4>1
      <4>2. CASE k # i
        <5>1. f.qtys[k].slots = e.qtys[k].slots BY <1>1, <4>2
        <5> QED BY <1>1, <3>1, <5>1
      <4> QED BY <4>1, <4>2
    <3> QED BY <1>1, <3>1, <3>2 DEF ActiveInRange
  <2> QED BY <2>1, <2>2
<1>7. \A k, m \in 1..Len(f.qtys) : f.qtys[k].id = f.qtys[m].id => k = m
  BY <1>1 DEF Good
<1>8. Good(sl, dk, c, f) BY <1>1, <1>4, <1>5, <1>6, <1>7 DEF Good
<1> QED BY <1>8 DEF f

LEMMA AppendedSlots ==
  ASSUME NEW e \in Entry, NEW i \in 1..Len(e.qtys), NEW s \in SlotRecord,
         NEW f, f = Appended(e, i, s)
  PROVE  /\ \A p \in SlotsOf(e) : p \in SlotsOf(f) /\ Slot(f, p) = Slot(e, p)
         /\ \A p \in SlotsOf(f) :
              (p \in SlotsOf(e) /\ Slot(f, p) = Slot(e, p)) \/ Slot(f, p) = s
         /\ \E p \in SlotsOf(f) : Slot(f, p) = s
<1>0. IsAppended(f, e, i, s) BY AppendedParts
<1>1. /\ f \in Entry /\ Len(f.qtys) = Len(e.qtys)
      /\ \A k \in 1..Len(e.qtys) : k # i => f.qtys[k].slots = e.qtys[k].slots
      /\ Len(f.qtys[i].slots) = Len(e.qtys[i].slots) + 1
      /\ f.qtys[i].slots[Len(e.qtys[i].slots) + 1] = s
      /\ \A j \in 1..Len(e.qtys[i].slots) : f.qtys[i].slots[j] = e.qtys[i].slots[j]
  BY <1>0 DEF IsAppended
<1>2. \A k \in 1..Len(e.qtys) : Len(e.qtys[k].slots) \in Nat BY EntryParts
<1>3. ASSUME NEW k \in 1..Len(e.qtys), NEW j \in 1..Len(e.qtys[k].slots)
      PROVE  j \in 1..Len(f.qtys[k].slots) /\ f.qtys[k].slots[j] = e.qtys[k].slots[j]
  <2>1. CASE k = i BY <1>1, <1>2, <2>1
  <2>2. CASE k # i
    <3>1. f.qtys[k].slots = e.qtys[k].slots BY <1>1, <2>2
    <3> QED BY <3>1
  <2> QED BY <2>1, <2>2
<1>4. ASSUME NEW k \in 1..Len(f.qtys), NEW j \in 1..Len(f.qtys[k].slots)
      PROVE  \/ /\ k \in 1..Len(e.qtys) /\ j \in 1..Len(e.qtys[k].slots)
                /\ f.qtys[k].slots[j] = e.qtys[k].slots[j]
             \/ f.qtys[k].slots[j] = s
  <2>1. CASE k = i
    <3>1. CASE j = Len(e.qtys[i].slots) + 1 BY <1>1, <2>1, <3>1
    <3>2. CASE j # Len(e.qtys[i].slots) + 1
      <4>1. Len(e.qtys[i].slots) \in Nat BY <1>2
      <4>2. j \in 1..(Len(e.qtys[i].slots) + 1) BY <1>1, <2>1
      <4>3. j \in 1..Len(e.qtys[i].slots) BY <3>2, <4>1, <4>2
      <4> QED BY <1>1, <2>1, <4>3
    <3> QED BY <3>1, <3>2
  <2>2. CASE k # i
    <3>1. k \in 1..Len(e.qtys) BY <1>1
    <3>2. f.qtys[k].slots = e.qtys[k].slots BY <1>1, <2>2, <3>1
    <3> QED BY <3>1, <3>2
  <2> QED BY <2>1, <2>2
<1>5. ASSUME NEW p \in SlotsOf(e) PROVE p \in SlotsOf(f) /\ Slot(f, p) = Slot(e, p)
  <2>1. PICK k \in 1..Len(e.qtys) : \E j \in 1..Len(e.qtys[k].slots) : p = <<k, j>>
    BY SlotsAre
  <2>2. PICK j \in 1..Len(e.qtys[k].slots) : p = <<k, j>> BY <2>1
  <2>3. k \in 1..Len(f.qtys) /\ j \in 1..Len(f.qtys[k].slots) BY <1>1, <1>3
  <2> QED BY <1>3, <2>2, <2>3, SlotsAre DEF Slot
<1>6. ASSUME NEW p \in SlotsOf(f)
      PROVE  (p \in SlotsOf(e) /\ Slot(f, p) = Slot(e, p)) \/ Slot(f, p) = s
  <2>1. PICK k \in 1..Len(f.qtys) : \E j \in 1..Len(f.qtys[k].slots) : p = <<k, j>>
    BY SlotsAre
  <2>2. PICK j \in 1..Len(f.qtys[k].slots) : p = <<k, j>> BY <2>1
  <2>3. Slot(f, p) = f.qtys[k].slots[j] /\ Slot(e, p) = e.qtys[k].slots[j]
    BY <2>2 DEF Slot
  <2>4. k \in 1..Len(e.qtys) /\ j \in 1..Len(e.qtys[k].slots) => p \in SlotsOf(e)
    BY <2>2, SlotsAre
  <2> QED BY <1>4, <2>3, <2>4
<1>7. \E p \in SlotsOf(f) : Slot(f, p) = s
  <2> DEFINE n == Len(e.qtys[i].slots) + 1
  <2>1. i \in 1..Len(f.qtys) /\ n \in 1..Len(f.qtys[i].slots) BY <1>1, <1>2
  <2>2. <<i, n>> \in SlotsOf(f) BY <2>1, SlotsAre
  <2>3. Slot(f, <<i, n>>) = f.qtys[i].slots[n] BY DEF Slot
  <2> QED BY <1>1, <2>2, <2>3
<1> QED BY <1>5, <1>6, <1>7

\* The entry e with a quantity q for the slot s.
WithQuantity(e, q, s) == [e EXCEPT !.qtys = Append(@, [id |-> q, slots |-> <<s>>])]

LEMMA WithQuantityParts ==
  ASSUME NEW e \in Entry, NEW q \in 1..Quantities, NEW s \in SlotRecord,
         NEW f, f = WithQuantity(e, q, s)
  PROVE  /\ f \in Entry /\ Len(f.qtys) = Len(e.qtys) + 1
         /\ f.ok = e.ok /\ f.expired = e.expired /\ f.active = e.active
         /\ \A k \in 1..Len(e.qtys) : f.qtys[k] = e.qtys[k]
         /\ f.qtys[Len(e.qtys) + 1] = [id |-> q, slots |-> <<s>>]
<1> DEFINE r == [id |-> q, slots |-> <<s>>]
<1>1. e.qtys \in Seq(Quantity) BY DEF Entry
<1>2. r \in Quantity BY DEF Quantity
<1>3. f = [e EXCEPT !.qtys = Append(e.qtys, r)] BY DEF WithQuantity, Entry
<1> HIDE DEF r
<1>4. /\ Append(e.qtys, r) \in Seq(Quantity)
      /\ Len(Append(e.qtys, r)) = Len(e.qtys) + 1
      /\ \A k \in 1..Len(e.qtys) : Append(e.qtys, r)[k] = e.qtys[k]
      /\ Append(e.qtys, r)[Len(e.qtys) + 1] = r
  BY <1>1, <1>2
<1>5. /\ f \in Entry /\ f.qtys = Append(e.qtys, r)
      /\ f.ok = e.ok /\ f.expired = e.expired /\ f.active = e.active
  BY <1>3, <1>4 DEF Entry
<1> QED BY <1>4, <1>5 DEF r

LEMMA WithQuantitySlots ==
  ASSUME NEW e \in Entry, NEW q \in 1..Quantities, NEW s \in SlotRecord,
         NEW f, f = WithQuantity(e, q, s)
  PROVE  /\ \A p \in SlotsOf(e) : p \in SlotsOf(f) /\ Slot(f, p) = Slot(e, p)
         /\ \A p \in SlotsOf(f) :
              (p \in SlotsOf(e) /\ Slot(f, p) = Slot(e, p)) \/ Slot(f, p) = s
         /\ \E p \in SlotsOf(f) : Slot(f, p) = s
<1>1. /\ Len(f.qtys) = Len(e.qtys) + 1
      /\ \A k \in 1..Len(e.qtys) : f.qtys[k] = e.qtys[k]
      /\ f.qtys[Len(e.qtys) + 1] = [id |-> q, slots |-> <<s>>]
  BY WithQuantityParts
<1>2. Len(e.qtys) \in Nat BY EntryParts
<1> DEFINE n == Len(e.qtys) + 1
<1>3. n \in 1..Len(f.qtys) /\ f.qtys[n].slots = <<s>> BY <1>1, <1>2
<1>4. ASSUME NEW p \in SlotsOf(e) PROVE p \in SlotsOf(f) /\ Slot(f, p) = Slot(e, p)
  <2>1. PICK k \in 1..Len(e.qtys) : \E j \in 1..Len(e.qtys[k].slots) : p = <<k, j>>
    BY SlotsAre
  <2>2. PICK j \in 1..Len(e.qtys[k].slots) : p = <<k, j>> BY <2>1
  <2>3. k \in 1..Len(f.qtys) /\ f.qtys[k] = e.qtys[k] BY <1>1, <1>2
  <2> QED BY <2>2, <2>3, SlotsAre DEF Slot
<1>5. ASSUME NEW p \in SlotsOf(f)
      PROVE  (p \in SlotsOf(e) /\ Slot(f, p) = Slot(e, p)) \/ Slot(f, p) = s
  <2>1. PICK k \in 1..Len(f.qtys) : \E j \in 1..Len(f.qtys[k].slots) : p = <<k, j>>
    BY SlotsAre
  <2>2. PICK j \in 1..Len(f.qtys[k].slots) : p = <<k, j>> BY <2>1
  <2>3. CASE k = n
    <3>1. j \in 1..Len(<<s>>) /\ Slot(f, p) = <<s>>[j] BY <1>3, <2>2, <2>3 DEF Slot
    <3> QED BY <3>1
  <2>4. CASE k # n
    <3>1. k \in 1..Len(e.qtys) BY <1>1, <1>2, <2>4
    <3>2. f.qtys[k] = e.qtys[k] BY <1>1, <3>1
    <3> QED BY <2>2, <3>1, <3>2, SlotsAre DEF Slot
  <2> QED BY <2>3, <2>4
<1>6. \E p \in SlotsOf(f) : Slot(f, p) = s
  <2>1. 1 \in 1..Len(f.qtys[n].slots) /\ f.qtys[n].slots[1] = s BY <1>3
  <2>2. <<n, 1>> \in SlotsOf(f) BY <1>3, <2>1, SlotsAre
  <2>3. Slot(f, <<n, 1>>) = f.qtys[n].slots[1] BY DEF Slot
  <2> QED BY <2>1, <2>2, <2>3
<1> QED BY <1>4, <1>5, <1>6

LEMMA WithQuantityGood ==
  ASSUME NEW sl, NEW dk, NEW c, NEW e, Good(sl, dk, c, e),
         NEW q \in 1..Quantities, \A i \in 1..Len(e.qtys) : e.qtys[i].id # q,
         NEW s \in SlotRecord, Genuine(sl, dk, c, q, s)
  PROVE  Good(sl, dk, c, WithQuantity(e, q, s))
<1> DEFINE f == WithQuantity(e, q, s)
           n == Len(e.qtys) + 1
<1>0. e \in Entry /\ Len(e.qtys) \in Nat BY EntryParts DEF Good
<1>1. /\ f \in Entry /\ Len(f.qtys) = n /\ f.active = e.active
      /\ \A k \in 1..Len(e.qtys) : f.qtys[k] = e.qtys[k]
      /\ f.qtys[n] = [id |-> q, slots |-> <<s>>]
  BY <1>0, WithQuantityParts
<1> HIDE DEF f
<1>2. f.qtys[n].id = q /\ f.qtys[n].slots = <<s>> BY <1>1
<1>3. \A k \in 1..Len(f.qtys) : k = n \/ (k \in 1..Len(e.qtys) /\ f.qtys[k] = e.qtys[k])
  BY <1>0, <1>1
<1>4. ASSUME NEW k \in 1..Len(f.qtys), NEW m \in 1..Len(f.qtys), f.qtys[k].id = f.qtys[m].id
      PROVE  k = m
  BY <1>2, <1>3, <1>4 DEF Good
<1>5. ASSUME NEW k \in 1..Len(f.qtys), NEW j \in 1..Len(f.qtys[k].slots)
      PROVE  Genuine(sl, dk, c, f.qtys[k].id, f.qtys[k].slots[j])
  <2>1. CASE k = n
    <3>1. j \in 1..Len(<<s>>) /\ f.qtys[k].slots[j] = <<s>>[j] BY <1>2, <2>1
    <3> QED BY <1>2, <2>1, <3>1
  <2>2. CASE k # n
    <3>1. k \in 1..Len(e.qtys) /\ f.qtys[k] = e.qtys[k] BY <1>3, <2>2
    <3> QED BY <3>1 DEF Good
  <2> QED BY <2>1, <2>2
<1>6. ASSUME NEW k \in 1..Len(f.qtys), NEW j \in 1..Len(f.qtys[k].slots),
             NEW l \in 1..Len(f.qtys[k].slots),
             f.qtys[k].slots[j].uuid = f.qtys[k].slots[l].uuid
      PROVE  j = l
  <2>1. CASE k = n
    <3>1. j \in 1..Len(<<s>>) /\ l \in 1..Len(<<s>>) BY <1>2, <2>1
    <3> QED BY <3>1
  <2>2. CASE k # n
    <3>1. k \in 1..Len(e.qtys) /\ f.qtys[k] = e.qtys[k] BY <1>3, <2>2
    <3> QED BY <1>6, <3>1 DEF Good
  <2> QED BY <2>1, <2>2
<1>7. ActiveInRange(f)
  <2>1. CASE e.active = NoActive BY <1>1, <2>1 DEF ActiveInRange
  <2>2. CASE e.active # NoActive
    <3>1. PICK k \in 1..Len(e.qtys) : /\ e.qtys[k].id = e.active.q
                                      /\ e.active.s \in 1..Len(e.qtys[k].slots)
      BY <2>2 DEF Good, ActiveInRange
    <3>2. k \in 1..Len(f.qtys) /\ f.qtys[k] = e.qtys[k] BY <1>0, <1>1
    <3> QED BY <1>1, <3>1, <3>2 DEF ActiveInRange
  <2> QED BY <2>1, <2>2
<1>8. Good(sl, dk, c, f) BY <1>1, <1>4, <1>5, <1>6, <1>7 DEF Good
<1> QED BY <1>8 DEF f

(***************************************************************************)
(* loadShopConfig: the entry keeps its slots and gains those of the file   *)
(* whose UUIDs it does not have.                                           *)
(***************************************************************************)
PlainSlot(s) == [uuid |-> s.uuid, system |-> s.system, inst |-> s.inst]
Keeps(f, e) == \A p \in SlotsOf(e) : p \in SlotsOf(f) /\ Slot(f, p) = Slot(e, p)
Gains(f, e, s) ==
  \A p \in SlotsOf(f) : (p \in SlotsOf(e) /\ Slot(f, p) = Slot(e, p)) \/ Slot(f, p) = s
HasSlot(f, s) == \E p \in SlotsOf(f) : Slot(f, p) = s

LEMMA LoadSlotCases ==
  ASSUME NEW e \in Entry, NEW s \in SavedRecord
  PROVE  \/ /\ \A i \in 1..Len(e.qtys) : e.qtys[i].id # s.q
            /\ LoadSlot(e, s) = WithQuantity(e, s.q, PlainSlot(s))
         \/ /\ WithUuid(e, s.uuid) = {}
            /\ \E i \in 1..Len(e.qtys) :
                 /\ e.qtys[i].id = s.q
                 /\ LoadSlot(e, s) = Appended(e, i, PlainSlot(s))
         \/ WithUuid(e, s.uuid) # {} /\ LoadSlot(e, s) = e
<1> DEFINE Q == FindQuantityIndex(e, s.q)
           i == CHOOSE n \in Q : \A m \in Q : n <= m
<1>1. CASE Q = {}
  <2>1. LoadSlot(e, s) = WithQuantity(e, s.q, PlainSlot(s))
    BY <1>1 DEF LoadSlot, WithQuantity, PlainSlot
  <2> QED BY <1>1, <2>1 DEF FindQuantityIndex
<1>2. CASE Q # {} /\ WithUuid(e, s.uuid) = {}
  <2>1. LoadSlot(e, s) = Appended(e, i, PlainSlot(s))
    BY <1>2 DEF LoadSlot, Appended, PlainSlot
  <2>2. Q \subseteq Nat BY EntryParts DEF FindQuantityIndex
  <2>3. i \in Q BY <1>2, <2>2, LeastExists
  <2> HIDE DEF i
  <2>4. i \in 1..Len(e.qtys) /\ e.qtys[i].id = s.q BY <2>3 DEF FindQuantityIndex
  <2> QED BY <1>2, <2>1, <2>4
<1>3. CASE Q # {} /\ WithUuid(e, s.uuid) # {}
  <2>1. LoadSlot(e, s) = e BY <1>3 DEF LoadSlot
  <2> QED BY <1>3, <2>1
<1> QED BY <1>1, <1>2, <1>3

LoadsSlot(sl, dk, c, e, s, f) ==
  /\ Good(sl, dk, c, f) /\ f.ok = e.ok /\ f.expired = e.expired
  /\ Keeps(f, e) /\ Gains(f, e, PlainSlot(s))
  /\ HasSlot(f, PlainSlot(s)) \/ (WithUuid(e, s.uuid) # {} /\ f = e)

LEMMA LoadSlotGood ==
  ASSUME NEW sl, NEW dk, NEW c, NEW e, Good(sl, dk, c, e),
         NEW s \in SavedRecord, Genuine(sl, dk, c, s.q, s)
  PROVE  LoadsSlot(sl, dk, c, e, s, LoadSlot(e, s))
<1> DEFINE f == LoadSlot(e, s)
<1> DEFINE ps == PlainSlot(s)
<1>1. ps \in SlotRecord /\ ps.uuid = s.uuid /\ s.q \in 1..Quantities
  BY DEF PlainSlot, SlotRecord, SavedRecord
<1>2. Genuine(sl, dk, c, s.q, ps) BY DEF Genuine, PlainSlot
<1>3. e \in Entry BY DEF Good
<1> HIDE DEF ps, f
<1>4. ASSUME \A i \in 1..Len(e.qtys) : e.qtys[i].id # s.q, f = WithQuantity(e, s.q, ps)
      PROVE  LoadsSlot(sl, dk, c, e, s, f)
  <2>1. Good(sl, dk, c, f) BY <1>1, <1>2, <1>4, WithQuantityGood
  <2>2. f.ok = e.ok /\ f.expired = e.expired BY <1>3, <1>4 DEF WithQuantity, Entry
  <2>3. Keeps(f, e) /\ Gains(f, e, ps) /\ HasSlot(f, ps)
    BY <1>1, <1>3, <1>4, WithQuantitySlots DEF Keeps, Gains, HasSlot
  <2> QED BY <2>1, <2>2, <2>3 DEF ps, LoadsSlot
<1>5. ASSUME WithUuid(e, s.uuid) = {}, NEW i \in 1..Len(e.qtys),
             e.qtys[i].id = s.q, f = Appended(e, i, ps)
      PROVE  LoadsSlot(sl, dk, c, e, s, f)
  <2>0. ASSUME NEW j \in 1..Len(e.qtys[i].slots) PROVE e.qtys[i].slots[j].uuid # ps.uuid
    <3>1. <<i, j>> \in SlotsOf(e) /\ Slot(e, <<i, j>>) = e.qtys[i].slots[j]
      BY SlotsAre DEF Slot
    <3> QED BY <1>1, <1>5, <3>1 DEF WithUuid
  <2>1. Good(sl, dk, c, f) BY <1>1, <1>2, <1>5, <2>0, AppendedGood
  <2>2. IsAppended(f, e, i, ps) BY <1>1, <1>3, <1>5, AppendedParts
  <2>3. f.ok = e.ok /\ f.expired = e.expired BY <2>2 DEF IsAppended
  <2>4. Keeps(f, e) /\ Gains(f, e, ps) /\ HasSlot(f, ps)
    BY <1>1, <1>3, <1>5, AppendedSlots DEF Keeps, Gains, HasSlot
  <2> QED BY <2>1, <2>3, <2>4 DEF ps, LoadsSlot
<1>6. ASSUME WithUuid(e, s.uuid) # {}, f = e PROVE LoadsSlot(sl, dk, c, e, s, f)
  BY <1>6 DEF Keeps, Gains, LoadsSlot
<1>7. LoadsSlot(sl, dk, c, e, s, f)
  <2>1. \/ /\ \A i \in 1..Len(e.qtys) : e.qtys[i].id # s.q
           /\ f = WithQuantity(e, s.q, ps)
        \/ /\ WithUuid(e, s.uuid) = {}
           /\ \E i \in 1..Len(e.qtys) :
                /\ e.qtys[i].id = s.q
                /\ f = Appended(e, i, ps)
        \/ WithUuid(e, s.uuid) # {} /\ f = e
    BY <1>3, LoadSlotCases DEF f, ps
  <2> QED BY <1>4, <1>5, <1>6, <2>1
<1> QED BY <1>7 DEF f

LEMMA SavedParts ==
  ASSUME NEW sl, NEW dk, NEW c, NEW slots, GoodSaved(sl, dk, c, slots)
  PROVE  /\ Len(slots) \in Nat /\ DOMAIN slots = 1..Len(slots)
         /\ \A k \in 1..Len(slots) : /\ slots[k] \in SavedRecord
                                     /\ Genuine(sl, dk, c, slots[k].q, slots[k])
  BY DEF GoodSaved

\* Loading over an entry leaves it good, and what it knew.
LEMMA LoadedGood ==
  ASSUME NEW sl, NEW dk, NEW c, NEW slots, GoodSaved(sl, dk, c, slots),
         NEW e, Good(sl, dk, c, e)
  PROVE  LET f == Loaded(e, slots)
         IN Good(sl, dk, c, f) /\ f.ok = e.ok /\ f.expired = e.expired /\ Keeps(f, e)
<1> DEFINE G == {g \in Entry : /\ Good(sl, dk, c, g) /\ g.ok = e.ok
                               /\ g.expired = e.expired /\ Keeps(g, e)}
<1>1. e \in G BY DEF Good, Keeps
<1>2. ASSUME NEW k \in 1..Len(slots), NEW g \in G PROVE LoadSlot(g, slots[k]) \in G
  <2> DEFINE f == LoadSlot(g, slots[k])
  <2>1. slots[k] \in SavedRecord /\ Genuine(sl, dk, c, slots[k].q, slots[k])
    BY SavedParts
  <2>2. Good(sl, dk, c, f) /\ f.ok = g.ok /\ f.expired = g.expired /\ Keeps(f, g)
    BY <2>1, LoadSlotGood DEF LoadsSlot
  <2> HIDE DEF f
  <2>3. f \in Entry BY <2>2 DEF Good
  <2>4. Keeps(f, e) BY <2>2 DEF Keeps
  <2>5. f \in G BY <2>2, <2>3, <2>4
  <2> QED BY <2>5 DEF f
<1>3. Loaded(e, slots) \in G
  <2> HIDE DEF G
  <2>1. Len(slots) \in Nat /\ DOMAIN slots = 1..Len(slots) BY SavedParts
  <2> QED BY <1>1, <1>2, <2>1, FoldKeeps
<1> QED BY <1>3

\* Loading after a restart brings back every saved slot.
LEMMA LoadedHas ==
  ASSUME NEW sl, NEW dk, NEW c, NEW slots, GoodSaved(sl, dk, c, slots),
         NEW e, Good(sl, dk, c, e), SlotsOf(e) = {}, NEW m \in 1..Len(slots)
  PROVE  HasSlot(Loaded(e, slots), PlainSlot(slots[m]))
<1> DEFINE G == {g \in Entry : /\ Good(sl, dk, c, g)
                  /\ \A p \in SlotsOf(g) : \E k \in 1..Len(slots) : Slot(g, p) = PlainSlot(slots[k])}
           H == {g \in Entry : HasSlot(g, PlainSlot(slots[m]))}
<1>1. e \in G BY DEF Good
<1>2. ASSUME NEW k \in 1..Len(slots), NEW g \in G
      PROVE  /\ LoadSlot(g, slots[k]) \in G
             /\ g \in H => LoadSlot(g, slots[k]) \in H
             /\ k = m => LoadSlot(g, slots[k]) \in H
  <2> DEFINE f == LoadSlot(g, slots[k])
  <2>1. slots[k] \in SavedRecord /\ Genuine(sl, dk, c, slots[k].q, slots[k])
    BY SavedParts
  <2>2. /\ Good(sl, dk, c, f) /\ Keeps(f, g) /\ Gains(f, g, PlainSlot(slots[k]))
        /\ HasSlot(f, PlainSlot(slots[k])) \/ (WithUuid(g, slots[k].uuid) # {} /\ f = g)
    BY <2>1, LoadSlotGood DEF LoadsSlot
  <2> HIDE DEF f
  <2>3. f \in Entry BY <2>2 DEF Good
  <2>4. f \in G BY <2>2, <2>3 DEF Gains
  <2>5. g \in H => f \in H BY <2>2, <2>3 DEF Keeps, HasSlot
  <2>6. ASSUME k = m, WithUuid(g, slots[k].uuid) # {}, f = g PROVE HasSlot(f, PlainSlot(slots[m]))
    <3>1. PICK p \in SlotsOf(g) : Slot(g, p).uuid = slots[k].uuid BY <2>6 DEF WithUuid
    <3>2. PICK l \in 1..Len(slots) : Slot(g, p) = PlainSlot(slots[l]) OBVIOUS
    <3>3. slots[l].uuid = slots[k].uuid BY <3>1, <3>2 DEF PlainSlot
    <3>4. slots[l] = slots[k] BY <3>3 DEF GoodSaved
    <3> QED BY <2>6, <3>2, <3>4 DEF HasSlot
  <2>7. k = m => f \in H BY <2>2, <2>3, <2>6
  <2> QED BY <2>4, <2>5, <2>7 DEF f
<1>3. Loaded(e, slots) \in H
  <2> HIDE DEF G, H
  <2>1. Len(slots) \in Nat /\ DOMAIN slots = 1..Len(slots) BY SavedParts
  <2> QED BY <1>1, <1>2, <2>1, FoldReaches
<1> QED BY <1>3

(***************************************************************************)
(* saveShopConfig writes the slots of an entry one quantity after another: *)
(* the saved slots are those of all quantities.                            *)
(***************************************************************************)
Values(s) == {s[j] : j \in 1..Len(s)}

IsFlat(f, n, ss) == f = [i \in 1..n |-> IF i = 1 THEN ss[i] ELSE f[i - 1] \o ss[i]]
FlatOf(n, ss) == CHOOSE f : IsFlat(f, n, ss)

LEMMA FlattenIsFlat ==
  ASSUME NEW ss, Len(ss) # 0
  PROVE  FlattenSeq(ss) = FlatOf(Len(ss), ss)[Len(ss)]
  BY DEF FlattenSeq, FlatOf, IsFlat

LEMMA FlatExists ==
  ASSUME NEW ss PROVE \A n \in Nat : \E f : IsFlat(f, n, ss)
<1> DEFINE T == {n \in Nat : \E f : IsFlat(f, n, ss)}
<1>1. 0 \in T
  <2> DEFINE g == [i \in 1..0 |-> ss]
  <2>1. IsFlat(g, 0, ss) BY DEF IsFlat
  <2> QED BY <2>1
<1>2. ASSUME NEW n \in Nat, n \in T PROVE n + 1 \in T
  <2>1. PICK g : IsFlat(g, n, ss) BY <1>2
  <2> DEFINE h == [i \in 1..(n + 1) |-> IF i = 1 THEN ss[i] ELSE g[i - 1] \o ss[i]]
  <2>2. ASSUME NEW i \in 1..n PROVE h[i] = g[i]
    <3>1. i \in 1..(n + 1) OBVIOUS
    <3>2. h[i] = IF i = 1 THEN ss[i] ELSE g[i - 1] \o ss[i] BY <3>1
    <3>3. g[i] = IF i = 1 THEN ss[i] ELSE g[i - 1] \o ss[i] BY <2>1 DEF IsFlat
    <3> QED BY <3>2, <3>3
  <2>3. ASSUME NEW i \in 1..(n + 1), i # 1 PROVE h[i - 1] = g[i - 1]
    <3>1. i - 1 \in 1..n BY <2>3
    <3> QED BY <2>2, <3>1
  <2>4. IsFlat(h, n + 1, ss)
    BY <2>3 DEF IsFlat
  <2> QED BY <2>4
<1> QED BY <1>1, <1>2, InductionOn

LEMMA AppendedValues ==
  ASSUME NEW R, NEW s \in Seq(R), NEW t \in Seq(R)
  PROVE  s \o t \in Seq(R) /\ Values(s \o t) = Values(s) \cup Values(t)
<1>1. s \o t \in Seq(R) /\ Len(s \o t) = Len(s) + Len(t) OBVIOUS
<1>2. \A j \in 1..Len(s) : j \in 1..Len(s \o t) /\ (s \o t)[j] = s[j] OBVIOUS
<1>3. \A j \in 1..Len(t) : /\ Len(s) + j \in 1..Len(s \o t)
                           /\ (s \o t)[Len(s) + j] = t[j] OBVIOUS
<1>4. \A j \in 1..Len(s \o t) :
        j \in 1..Len(s) \/ \E k \in 1..Len(t) : j = Len(s) + k
  <2> TAKE j \in 1..Len(s \o t)
  <2>1. CASE j > Len(s)
    <3>1. j - Len(s) \in 1..Len(t) /\ j = Len(s) + (j - Len(s)) BY <1>1, <2>1
    <3> QED BY <3>1
  <2> QED BY <1>1, <2>1
<1>5. Values(s \o t) \subseteq Values(s) \cup Values(t) BY <1>2, <1>3, <1>4 DEF Values
<1>6. Values(s) \subseteq Values(s \o t) BY <1>2 DEF Values
<1>7. Values(t) \subseteq Values(s \o t) BY <1>3 DEF Values
<1> QED BY <1>1, <1>5, <1>6, <1>7

LEMMA FlattenValues ==
  ASSUME NEW R, NEW ss \in Seq(Seq(R))
  PROVE  /\ FlattenSeq(ss) \in Seq(R)
         /\ \A r : r \in Values(FlattenSeq(ss)) <=> \E i \in 1..Len(ss) : r \in Values(ss[i])
<1>1. CASE Len(ss) = 0
  <2>1. FlattenSeq(ss) = ss BY <1>1 DEF FlattenSeq
  <2>2. ss = <<>> BY <1>1
  <2>3. FlattenSeq(ss) \in Seq(R) BY <2>1, <2>2
  <2>4. Values(ss) = {} /\ 1..Len(ss) = {} BY <1>1 DEF Values
  <2> QED BY <2>1, <2>3, <2>4
<1>2. CASE Len(ss) # 0
  <2> DEFINE n == Len(ss)
             f == FlatOf(n, ss)
             T == {i \in Nat : i \in 1..n =>
                    /\ f[i] \in Seq(R)
                    /\ \A r : r \in Values(f[i]) <=> \E k \in 1..i : r \in Values(ss[k])}
  <2>1. n \in Nat /\ n \in 1..n /\ \A i \in 1..n : ss[i] \in Seq(R) BY <1>2
  <2>2. IsFlat(f, n, ss) BY <2>1, FlatExists DEF FlatOf
  <2> HIDE DEF f, n
  <2>3. 0 \in T OBVIOUS
  <2>4. ASSUME NEW i \in Nat, i \in T PROVE i + 1 \in T
    <3> SUFFICES ASSUME i + 1 \in 1..n
                 PROVE  /\ f[i + 1] \in Seq(R)
                        /\ \A r : r \in Values(f[i + 1])
                             <=> \E k \in 1..(i + 1) : r \in Values(ss[k])
      OBVIOUS
    <3>1. CASE i = 0
      <4>1. f[1] = ss[1] BY <2>2, <3>1 DEF IsFlat
      <4> QED BY <2>1, <3>1, <4>1
    <3>2. CASE i # 0
      <4>1. f[i + 1] = f[i] \o ss[i + 1]
        <5>1. i + 1 # 1 /\ (i + 1) - 1 = i BY <3>2
        <5>2. f[i + 1] = IF i + 1 = 1 THEN ss[i + 1] ELSE f[(i + 1) - 1] \o ss[i + 1]
          BY <2>2 DEF IsFlat
        <5> QED BY <5>1, <5>2
      <4>2. i \in 1..n /\ ss[i + 1] \in Seq(R) BY <2>1, <3>2
      <4>3. f[i] \in Seq(R) /\ \A r : r \in Values(f[i]) <=> \E k \in 1..i : r \in Values(ss[k])
        BY <2>4, <4>2
      <4>4. f[i + 1] \in Seq(R) /\ Values(f[i + 1]) = Values(f[i]) \cup Values(ss[i + 1])
        BY <4>1, <4>2, <4>3, AppendedValues
      <4>5. \A k : k \in 1..(i + 1) <=> k \in 1..i \/ k = i + 1 OBVIOUS
      <4> QED BY <4>3, <4>4, <4>5
    <3> QED BY <3>1, <3>2
  <2>5. n \in T BY <2>1, <2>3, <2>4, InductionOn
  <2>6. FlattenSeq(ss) = f[n] BY <1>2, FlattenIsFlat DEF f, n
  <2> QED BY <2>1, <2>5, <2>6 DEF n
<1> QED BY <1>1, <1>2

(***************************************************************************)
(* saveShopConfig: the file holds a record of every slot of the entry.     *)
(***************************************************************************)
Saving(e, p) ==
  [q |-> e.qtys[p[1]].id, uuid |-> Slot(e, p).uuid, system |-> Slot(e, p).system,
   inst |-> Slot(e, p).inst]

LEMMA SavedValues ==
  ASSUME NEW e \in Entry
  PROVE  /\ SavedSlots(e) \in Seq(SavedRecord)
         /\ \A r : r \in Values(SavedSlots(e)) <=> \E p \in SlotsOf(e) : r = Saving(e, p)
<1> DEFINE ss == [i \in 1..Len(e.qtys) |-> [j \in 1..Len(e.qtys[i].slots) |->
                    LET s == e.qtys[i].slots[j]
                    IN [q |-> e.qtys[i].id, uuid |-> s.uuid, system |-> s.system, inst |-> s.inst]]]
<1>1. SavedSlots(e) = FlattenSeq(ss) BY DEF SavedSlots
<1>2. ASSUME NEW i \in 1..Len(e.qtys), NEW j \in 1..Len(e.qtys[i].slots)
      PROVE  ss[i][j] = Saving(e, <<i, j>>) /\ ss[i][j] \in SavedRecord
  <2>1. ss[i][j] = Saving(e, <<i, j>>) BY DEF Saving, Slot
  <2>2. e.qtys[i].slots[j] \in SlotRecord /\ e.qtys[i].id \in 1..Quantities BY EntryParts
  <2> QED BY <2>1, <2>2 DEF SlotRecord, SavedRecord
<1>3. ASSUME NEW i \in 1..Len(e.qtys)
      PROVE  ss[i] \in Seq(SavedRecord) /\ Len(ss[i]) = Len(e.qtys[i].slots)
  <2>1. Len(e.qtys[i].slots) \in Nat BY EntryParts
  <2>2. ss[i] \in [1..Len(e.qtys[i].slots) -> SavedRecord] BY <1>2
  <2> HIDE DEF ss
  <2>3. ss[i] \in Seq(SavedRecord) BY <2>1, <2>2, SeqDef
  <2>4. DOMAIN ss[i] = 1..Len(e.qtys[i].slots) BY <2>2
  <2> QED BY <2>1, <2>3, <2>4
<1>4. ss \in Seq(Seq(SavedRecord)) /\ Len(ss) = Len(e.qtys)
  <2>1. Len(e.qtys) \in Nat BY EntryParts
  <2>2. ss \in [1..Len(e.qtys) -> Seq(SavedRecord)] BY <1>3
  <2> HIDE DEF ss
  <2>3. ss \in Seq(Seq(SavedRecord)) BY <2>1, <2>2, SeqDef
  <2>4. DOMAIN ss = 1..Len(e.qtys) BY <2>2
  <2> QED BY <2>1, <2>3, <2>4
<1> HIDE DEF ss
<1>5. ASSUME NEW r PROVE r \in Values(SavedSlots(e)) <=> \E p \in SlotsOf(e) : r = Saving(e, p)
  <2>1. r \in Values(SavedSlots(e)) <=> \E i \in 1..Len(ss) : r \in Values(ss[i])
    BY <1>1, <1>4, FlattenValues
  <2>2. ASSUME NEW i \in 1..Len(e.qtys)
        PROVE  r \in Values(ss[i]) <=> \E j \in 1..Len(e.qtys[i].slots) : r = Saving(e, <<i, j>>)
    BY <1>2, <1>3 DEF Values
  <2>3. (\E p \in SlotsOf(e) : r = Saving(e, p)) <=>
          \E i \in 1..Len(e.qtys) : \E j \in 1..Len(e.qtys[i].slots) : r = Saving(e, <<i, j>>)
    <3>1. ASSUME NEW p \in SlotsOf(e), r = Saving(e, p)
          PROVE  \E i \in 1..Len(e.qtys) : \E j \in 1..Len(e.qtys[i].slots) : r = Saving(e, <<i, j>>)
      <4>1. \E i \in 1..Len(e.qtys) : \E j \in 1..Len(e.qtys[i].slots) : p = <<i, j>>
        BY SlotsAre
      <4> QED BY <3>1, <4>1
    <3>2. ASSUME NEW i \in 1..Len(e.qtys), NEW j \in 1..Len(e.qtys[i].slots)
          PROVE  <<i, j>> \in SlotsOf(e)
      BY SlotsAre
    <3> QED BY <3>1, <3>2
  <2> QED BY <1>4, <2>1, <2>2, <2>3
<1> QED BY <1>1, <1>4, <1>5, FlattenValues

LEMMA SavedGood ==
  ASSUME NEW sl, Distinct(sl), NEW dk, NEW c \in Charts, NEW e, Good(sl, dk, c, e)
  PROVE  GoodSaved(sl, dk, c, SavedSlots(e))
<1> DEFINE s == SavedSlots(e)
<1>1. e \in Entry BY DEF Good
<1>2. s \in Seq(SavedRecord) BY <1>1, SavedValues
<1>3. ASSUME NEW k \in 1..Len(s) PROVE \E p \in SlotsOf(e) : s[k] = Saving(e, p)
  <2>1. s[k] \in Values(s) BY DEF Values
  <2> QED BY <1>1, <2>1, SavedValues
<1> HIDE DEF s
<1>4. ASSUME NEW k \in 1..Len(s) PROVE Genuine(sl, dk, c, s[k].q, s[k])
  <2>1. PICK p \in SlotsOf(e) : s[k] = Saving(e, p) BY <1>3
  <2>2. Genuine(sl, dk, c, e.qtys[p[1]].id, Slot(e, p)) BY SlotFacts
  <2> QED BY <2>1, <2>2 DEF Saving, Genuine
<1>5. ASSUME NEW k \in 1..Len(s), NEW l \in 1..Len(s), s[k].uuid = s[l].uuid
      PROVE  s[k] = s[l]
  <2>1. PICK p \in SlotsOf(e) : s[k] = Saving(e, p) BY <1>3
  <2>2. PICK r \in SlotsOf(e) : s[l] = Saving(e, r) BY <1>3
  <2>3. Slot(e, p).uuid = Slot(e, r).uuid BY <1>5, <2>1, <2>2 DEF Saving
  <2>4. p = r BY <2>3, SlotsDiffer
  <2> QED BY <2>1, <2>2, <2>4
<1>6. GoodSaved(sl, dk, c, s) BY <1>2, <1>4, <1>5 DEF GoodSaved
<1> QED BY <1>6 DEF s

\* An installation for name is on record in e.
Recorded(e, name) == \E p \in SlotsOf(e) : Slot(e, p).system = name /\ Slot(e, p).inst

LEMMA SavedRecorded ==
  ASSUME NEW e \in Entry, NEW name
  PROVE  InstalledIn(SavedSlots(e), name) <=> Recorded(e, name)
<1> DEFINE s == SavedSlots(e)
<1>1. ASSUME NEW i \in 1..Len(s), s[i].system = name /\ s[i].inst PROVE Recorded(e, name)
  <2>1. s[i] \in Values(s) BY DEF Values
  <2>2. PICK p \in SlotsOf(e) : s[i] = Saving(e, p) BY <2>1, SavedValues
  <2> HIDE DEF s
  <2> QED BY <1>1, <2>2 DEF Saving, Recorded
<1>2. ASSUME NEW p \in SlotsOf(e), Slot(e, p).system = name /\ Slot(e, p).inst
      PROVE  \E i \in 1..Len(s) : s[i].system = name /\ s[i].inst
  <2>1. Saving(e, p) \in Values(s) BY SavedValues
  <2> HIDE DEF s
  <2>2. PICK i \in 1..Len(s) : Saving(e, p) = s[i] BY <2>1 DEF Values
  <2> QED BY <1>2, <2>2 DEF Saving
<1> HIDE DEF s
<1> QED BY <1>1, <1>2 DEF InstalledIn, Recorded, s

LEMMA KeepsRecorded ==
  ASSUME NEW e, NEW f, Keeps(f, e), NEW name, Recorded(e, name)
  PROVE  Recorded(f, name)
  BY DEF Keeps, Recorded

\* What the file records is on record again after a restart.
LEMMA LoadedRecorded ==
  ASSUME NEW sl, NEW dk, NEW c, NEW slots, GoodSaved(sl, dk, c, slots),
         NEW e, Good(sl, dk, c, e), SlotsOf(e) = {}, NEW name, InstalledIn(slots, name)
  PROVE  Recorded(Loaded(e, slots), name)
<1>1. PICK m \in 1..Len(slots) : slots[m].system = name /\ slots[m].inst
  BY DEF InstalledIn
<1>2. HasSlot(Loaded(e, slots), PlainSlot(slots[m])) BY LoadedHas
<1> QED BY <1>1, <1>2 DEF HasSlot, Recorded, PlainSlot

(***************************************************************************)
(* itemChart::Update: the server's slots, with what the entry recorded of  *)
(* them.  The indices of the active slot still exist, because the server   *)
(* has every slot the entry has.                                           *)
(***************************************************************************)
KeepsInst(e, s) ==
  \A p \in SlotsOf(e) : Slot(e, p).uuid = s.uuid => Kept(e, s).inst = Slot(e, p).inst

LEMMA KeptIs ==
  ASSUME NEW sl, Distinct(sl), NEW dk, NEW c \in Charts, NEW e, Good(sl, dk, c, e),
         NEW q \in 1..Quantities, NEW s \in Granted, Has(sl, c, q, s.uuid, s.system)
  PROVE  /\ Genuine(sl, dk, c, q, Kept(e, s))
         /\ KeepsInst(e, s)
<1>1. e # NoEntry BY NoEntryIsNone DEF Good
<1> DEFINE old == WithUuid(e, s.uuid)
<1>2. Kept(e, s) = [uuid |-> s.uuid, system |-> s.system,
                    inst |-> old # {} /\ Slot(e, First(e, old)).inst]
  BY <1>1 DEF Kept
<1>3. ASSUME NEW p \in SlotsOf(e), Slot(e, p).uuid = s.uuid
      PROVE  /\ First(e, old) = p /\ old # {}
             /\ Slot(e, p).system = s.system /\ Slot(e, p).inst \in BOOLEAN
             /\ Slot(e, p).inst => <<c, s.system>> \in dk
  <2>1. First(e, WithUuid(e, Slot(e, p).uuid)) = p BY TheUuid
  <2>2. p \in old BY <1>3 DEF WithUuid
  <2>3. /\ e.qtys[p[1]].id \in 1..Quantities /\ Slot(e, p) \in SlotRecord
        /\ Genuine(sl, dk, c, e.qtys[p[1]].id, Slot(e, p))
    BY SlotFacts
  <2>4. Slot(e, p).system = s.system BY <1>3, <2>3, HasUnique DEF Genuine
  <2>5. Slot(e, p).inst \in BOOLEAN BY <2>3 DEF SlotRecord
  <2> QED BY <1>3, <2>1, <2>2, <2>3, <2>4, <2>5 DEF Genuine
<1>4. ASSUME Kept(e, s).inst PROVE <<c, s.system>> \in dk
  <2>0. Kept(e, s).inst = (old # {} /\ Slot(e, First(e, old)).inst) BY <1>2
  <2>1. old # {} /\ Slot(e, First(e, old)).inst BY <1>4, <2>0, Zenon
  <2>2. PICK p \in old : TRUE BY <2>1
  <2>3. p \in SlotsOf(e) /\ Slot(e, p).uuid = s.uuid BY <2>2 DEF WithUuid
  <2> QED BY <1>3, <2>1, <2>3
<1>5. Kept(e, s).uuid = s.uuid /\ Kept(e, s).system = s.system BY <1>2
<1>6. Genuine(sl, dk, c, q, Kept(e, s)) BY <1>4, <1>5 DEF Genuine
<1>7. ASSUME NEW p \in SlotsOf(e), Slot(e, p).uuid = s.uuid
      PROVE  Kept(e, s).inst = Slot(e, p).inst
  <2>1. First(e, old) = p /\ old # {} /\ Slot(e, p).inst \in BOOLEAN BY <1>3, <1>7
  <2>2. Kept(e, s).inst = (old # {} /\ Slot(e, First(e, old)).inst) BY <1>2
  <2> QED BY <2>1, <2>2
<1> QED BY <1>6, <1>7 DEF KeepsInst

\* Of one quantity, the server has at least the slots the entry has.
LEMMA FewerSlots ==
  ASSUME NEW sl \in [Charts -> [1..Quantities -> Seq(Granted)]], NEW dk, NEW c \in Charts,
         NEW e, Good(sl, dk, c, e), NEW i \in 1..Len(e.qtys)
  PROVE  Len(e.qtys[i].slots) <= Len(sl[c][e.qtys[i].id])
<1> DEFINE n == Len(e.qtys[i].slots)
           q == e.qtys[i].id
           m == Len(sl[c][q])
           at_j == [j \in 1..n |-> CHOOSE l \in 1..m : sl[c][q][l].uuid = e.qtys[i].slots[j].uuid]
<1>1. n \in Nat /\ q \in 1..Quantities BY EntryParts DEF Good
<1>2. m \in Nat BY <1>1
<1>3. ASSUME NEW j \in 1..n
      PROVE  at_j[j] \in 1..m /\ sl[c][q][at_j[j]].uuid = e.qtys[i].slots[j].uuid
  <2>1. Genuine(sl, dk, c, q, e.qtys[i].slots[j]) BY DEF Good
  <2>2. \E l \in 1..m : sl[c][q][l].uuid = e.qtys[i].slots[j].uuid
    BY <2>1 DEF Genuine, Has
  <2> QED BY <2>2
<1> HIDE DEF n, q, m
<1>4. at_j \in [1..n -> 1..m] BY <1>3
<1>5. ASSUME m < n PROVE FALSE
  <2>1. /\ IsFiniteSet(1..n) /\ IsFiniteSet(1..m)
        /\ Cardinality(1..n) = n /\ Cardinality(1..m) = m
    BY <1>1, <1>2, FS_Interval
  <2> HIDE DEF at_j
  <2>2. PICK x \in 1..n, y \in 1..n : x # y /\ at_j[x] = at_j[y]
    BY <1>4, <1>5, <2>1, FS_PigeonHole
  <2>3. e.qtys[i].slots[x].uuid = e.qtys[i].slots[y].uuid BY <1>3, <2>2
  <2> QED BY <2>2, <2>3 DEF Good, n
<1> QED BY <1>1, <1>2, <1>5 DEF n, m, q

LEMMA AccountParts ==
  ASSUME Account
  PROVE  /\ server.slots \in [Charts -> [1..Quantities -> Seq(Granted)]]
         /\ Distinct(server.slots)
         /\ \A c \in Charts, q \in 1..Quantities :
              /\ server.slots[c][q] \in Seq(Granted) /\ Len(server.slots[c][q]) \in Nat
              /\ \A j \in 1..Len(server.slots[c][q]) : server.slots[c][q][j] \in Granted
<1>1. server.slots \in [Charts -> [1..Quantities -> Seq(Granted)]] BY DEF Account
<1>2. ASSUME NEW c \in Charts, NEW q \in 1..Quantities
      PROVE  /\ server.slots[c][q] \in Seq(Granted) /\ Len(server.slots[c][q]) \in Nat
             /\ \A j \in 1..Len(server.slots[c][q]) : server.slots[c][q][j] \in Granted
  <2>1. server.slots[c][q] \in Seq(Granted) BY <1>1
  <2> QED BY <2>1
<1> QED BY <1>1, <1>2 DEF Account

Owned(c, q) == server.slots[c][q]
KeptSlots(e, c, q) == [j \in 1..Len(Owned(c, q)) |-> Kept(e, Owned(c, q)[j])]

LEMMA UpdateIs ==
  ASSUME NEW c \in Charts, NEW e
  PROVE  Update(e, c) =
           [ok |-> TRUE, expired |-> c \in server.expired, max |-> server.room[c],
            qtys |-> [i \in 1..Quantities |-> [id |-> i, slots |-> KeptSlots(e, c, i)]],
            active |-> IF e = NoEntry THEN NoActive ELSE e.active]
<1>1. \A i \in 1..Quantities : Published(c)[i].slots = Owned(c, i)
  BY DEF Published, Owned
<1>2. \A i \in 1..Quantities :
        [j \in 1..Len(Published(c)[i].slots) |-> Kept(e, Published(c)[i].slots[j])]
          = KeptSlots(e, c, i)
  BY <1>1 DEF KeptSlots
<1> QED BY <1>2 DEF Update

LEMMA KeptSlotGood ==
  ASSUME Account, NEW c \in Charts, NEW e, e = NoEntry \/ Good(server.slots, disk, c, e),
         NEW i \in 1..Quantities, NEW j \in 1..Len(Owned(c, i))
  PROVE  /\ KeptSlots(e, c, i)[j] = Kept(e, Owned(c, i)[j])
         /\ Kept(e, Owned(c, i)[j]) \in SlotRecord
         /\ Genuine(server.slots, disk, c, i, Kept(e, Owned(c, i)[j]))
         /\ Kept(e, Owned(c, i)[j]).uuid = Owned(c, i)[j].uuid
<1> DEFINE s == Owned(c, i)[j]
<1>1. s \in Granted /\ Has(server.slots, c, i, s.uuid, s.system)
  BY AccountParts DEF Owned, Has
<1>2. KeptSlots(e, c, i)[j] = Kept(e, s) BY DEF KeptSlots
<1> HIDE DEF s
<1>3. /\ Kept(e, s).uuid = s.uuid /\ Kept(e, s).system = s.system
      /\ Kept(e, s).inst \in BOOLEAN
  BY DEF Kept
<1>4. Kept(e, s) \in SlotRecord
  <2>1. s.uuid \in 1..MaxUuid /\ s.system \in Names BY <1>1 DEF Granted
  <2> QED BY <1>3, <2>1 DEF Kept, SlotRecord
<1>5. Genuine(server.slots, disk, c, i, Kept(e, s))
  <2>1. CASE e = NoEntry
    <3>1. ~Kept(e, s).inst BY <2>1 DEF Kept
    <3> QED BY <1>1, <1>3, <3>1 DEF Genuine
  <2>2. CASE e # NoEntry BY <1>1, <2>2, KeptIs, AccountParts
  <2> QED BY <2>1, <2>2
<1> QED BY <1>2, <1>3, <1>4, <1>5 DEF s

LEMMA UpdateGood ==
  ASSUME Account, NEW c \in Charts, NEW e, e = NoEntry \/ Good(server.slots, disk, c, e)
  PROVE  Good(server.slots, disk, c, Update(e, c)) /\ Update(e, c).ok = TRUE
<1> DEFINE f == Update(e, c)
           qs == [i \in 1..Quantities |-> [id |-> i, slots |-> KeptSlots(e, c, i)]]
<1>0. Quantities \in Nat /\ server.room[c] \in Nat BY ShopAssumption DEF Account
<1>1. f = [ok |-> TRUE, expired |-> c \in server.expired, max |-> server.room[c], qtys |-> qs,
           active |-> IF e = NoEntry THEN NoActive ELSE e.active]
  BY UpdateIs
<1>2. ASSUME NEW i \in 1..Quantities
      PROVE  /\ qs[i].id = i /\ qs[i].slots = KeptSlots(e, c, i)
             /\ Len(Owned(c, i)) \in Nat /\ Len(KeptSlots(e, c, i)) = Len(Owned(c, i))
             /\ qs[i] \in Quantity
  <2>1. Len(Owned(c, i)) \in Nat BY AccountParts DEF Owned
  <2>2. \A j \in 1..Len(Owned(c, i)) : KeptSlots(e, c, i)[j] \in SlotRecord
    BY KeptSlotGood
  <2>3. KeptSlots(e, c, i) \in [1..Len(Owned(c, i)) -> SlotRecord] BY <2>2 DEF KeptSlots
  <2>4. KeptSlots(e, c, i) \in Seq(SlotRecord) BY <2>1, <2>3, SeqDef
  <2>5. Len(KeptSlots(e, c, i)) = Len(Owned(c, i))
    <3>1. DOMAIN KeptSlots(e, c, i) = 1..Len(Owned(c, i)) BY <2>3
    <3> QED BY <2>1, <2>4, <3>1
  <2> QED BY <2>1, <2>4, <2>5 DEF Quantity
<1>3. qs \in Seq(Quantity) /\ Len(qs) = Quantities
  <2>1. qs \in [1..Quantities -> Quantity] BY <1>2
  <2> HIDE DEF qs
  <2>2. qs \in Seq(Quantity) BY <1>0, <2>1, SeqDef
  <2>3. DOMAIN qs = 1..Quantities BY <2>1
  <2> QED BY <1>0, <2>2, <2>3
<1> HIDE DEF qs, f
<1>4. f.qtys = qs /\ f.ok = TRUE /\ f.active = IF e = NoEntry THEN NoActive ELSE e.active
  BY <1>1
<1>5. f.active \in [q : Nat, s : Nat]
  <2>1. NoActive \in [q : Nat, s : Nat] BY DEF NoActive
  <2>2. e # NoEntry => e.active \in [q : Nat, s : Nat] BY DEF Good, Entry
  <2> QED BY <1>4, <2>1, <2>2
<1>6. f \in Entry BY <1>0, <1>1, <1>3, <1>4, <1>5 DEF Entry
<1>7. ASSUME NEW i \in 1..Len(f.qtys), NEW j \in 1..Len(f.qtys[i].slots)
      PROVE  /\ i \in 1..Quantities /\ j \in 1..Len(Owned(c, i)) /\ f.qtys[i].id = i
             /\ f.qtys[i].slots[j] = Kept(e, Owned(c, i)[j])
  <2>1. i \in 1..Quantities BY <1>3, <1>4
  <2>2. f.qtys[i].id = i /\ f.qtys[i].slots = KeptSlots(e, c, i) /\ j \in 1..Len(Owned(c, i))
    BY <1>2, <1>4, <2>1
  <2> QED BY <2>1, <2>2 DEF KeptSlots
<1>8. \A i \in 1..Len(f.qtys) : \A j \in 1..Len(f.qtys[i].slots) :
        Genuine(server.slots, disk, c, f.qtys[i].id, f.qtys[i].slots[j])
  <2> TAKE i \in 1..Len(f.qtys)
  <2> TAKE j \in 1..Len(f.qtys[i].slots)
  <2>1. i \in 1..Quantities /\ j \in 1..Len(Owned(c, i)) BY <1>7
  <2>2. Genuine(server.slots, disk, c, i, Kept(e, Owned(c, i)[j])) BY <2>1, KeptSlotGood
  <2> QED BY <1>7, <2>2
<1>9. ASSUME NEW i \in 1..Len(f.qtys), NEW j \in 1..Len(f.qtys[i].slots),
             NEW l \in 1..Len(f.qtys[i].slots),
             f.qtys[i].slots[j].uuid = f.qtys[i].slots[l].uuid
      PROVE  j = l
  <2>1. /\ i \in 1..Quantities /\ j \in 1..Len(Owned(c, i)) /\ l \in 1..Len(Owned(c, i))
        /\ f.qtys[i].slots[j] = Kept(e, Owned(c, i)[j])
        /\ f.qtys[i].slots[l] = Kept(e, Owned(c, i)[l])
    BY <1>7
  <2>2. Owned(c, i)[j].uuid = Owned(c, i)[l].uuid BY <1>9, <2>1, KeptSlotGood
  <2>3. Distinct(server.slots) BY AccountParts
  <2> QED BY <2>1, <2>2, <2>3 DEF Distinct, Owned
<1>10. ActiveInRange(f)
  <2>1. CASE f.active = NoActive BY <2>1 DEF ActiveInRange
  <2>2. CASE f.active # NoActive
    <3>1. e # NoEntry /\ f.active = e.active BY <1>4, <2>2
    <3>2. PICK i \in 1..Len(e.qtys) : /\ e.qtys[i].id = e.active.q
                                      /\ e.active.s \in 1..Len(e.qtys[i].slots)
      BY <2>2, <3>1 DEF Good, ActiveInRange
    <3> DEFINE q == e.qtys[i].id
    <3>3. q \in 1..Quantities /\ Len(e.qtys[i].slots) \in Nat BY <3>1, EntryParts DEF Good
    <3>4. Len(e.qtys[i].slots) <= Len(Owned(c, q))
      BY <3>1, AccountParts, FewerSlots DEF Owned
    <3> HIDE DEF q
    <3>5. Len(f.qtys[q].slots) = Len(Owned(c, q)) /\ f.qtys[q].id = q /\ q \in 1..Len(f.qtys)
      BY <1>2, <1>3, <1>4, <3>3
    <3>6. Len(Owned(c, q)) \in Nat BY <1>2, <3>3
    <3>7. f.active.s \in 1..Len(f.qtys[q].slots) BY <3>1, <3>2, <3>3, <3>4, <3>5, <3>6
    <3>8. f.active.q = q BY <3>1, <3>2 DEF q
    <3> QED BY <3>5, <3>7, <3>8 DEF ActiveInRange
  <2> QED BY <2>1, <2>2
<1>11. \A i, k \in 1..Len(f.qtys) : f.qtys[i].id = f.qtys[k].id => i = k
  BY <1>2, <1>3, <1>4
<1>12. Good(server.slots, disk, c, f) BY <1>6, <1>8, <1>9, <1>10, <1>11 DEF Good
<1> QED BY <1>4, <1>12 DEF f

LEMMA UpdateRecorded ==
  ASSUME Account, NEW c \in Charts, NEW e, Good(server.slots, disk, c, e),
         NEW name, Recorded(e, name)
  PROVE  Recorded(Update(e, c), name)
<1> DEFINE f == Update(e, c)
           qs == [i \in 1..Quantities |-> [id |-> i, slots |-> KeptSlots(e, c, i)]]
<1>1. f.qtys = qs
  <2>1. f = [ok |-> TRUE, expired |-> c \in server.expired, max |-> server.room[c], qtys |-> qs,
             active |-> IF e = NoEntry THEN NoActive ELSE e.active]
    BY UpdateIs
  <2> HIDE DEF f, qs
  <2> QED BY <2>1
<1>2. PICK p \in SlotsOf(e) : Slot(e, p).system = name /\ Slot(e, p).inst
  BY DEF Recorded
<1>3. /\ e.qtys[p[1]].id \in 1..Quantities
      /\ Has(server.slots, c, e.qtys[p[1]].id, Slot(e, p).uuid, name)
  BY <1>2, SlotFacts DEF Genuine
<1>4. PICK q \in 1..Quantities : Has(server.slots, c, q, Slot(e, p).uuid, name) BY <1>3
<1>5. PICK j \in 1..Len(Owned(c, q)) :
        Owned(c, q)[j].uuid = Slot(e, p).uuid /\ Owned(c, q)[j].system = name
  BY <1>4 DEF Has, Owned
<1>6. Kept(e, Owned(c, q)[j]).inst = Slot(e, p).inst
  <2>1. Owned(c, q)[j] \in Granted BY AccountParts DEF Owned
  <2>2. Has(server.slots, c, q, Owned(c, q)[j].uuid, Owned(c, q)[j].system)
    BY DEF Has, Owned
  <2>3. KeepsInst(e, Owned(c, q)[j])
    BY <2>1, <2>2, KeptIs, AccountParts
  <2> QED BY <1>2, <1>5, <2>3 DEF KeepsInst
<1>7. Kept(e, Owned(c, q)[j]).system = name BY <1>5 DEF Kept
<1>8. Quantities \in Nat /\ Len(Owned(c, q)) \in Nat BY ShopAssumption, AccountParts DEF Owned
<1>9. q \in 1..Len(qs) /\ qs[q].slots = KeptSlots(e, c, q) BY <1>8
<1>10. j \in 1..Len(KeptSlots(e, c, q)) /\ KeptSlots(e, c, q)[j] = Kept(e, Owned(c, q)[j])
  BY <1>8 DEF KeptSlots
<1> HIDE DEF f, qs
<1>11. <<q, j>> \in SlotsOf(f) /\ Slot(f, <<q, j>>) = Kept(e, Owned(c, q)[j])
  BY <1>1, <1>9, <1>10, SlotsAre DEF Slot
<1>12. Recorded(f, name) BY <1>2, <1>6, <1>7, <1>11 DEF Recorded
<1> QED BY <1>12 DEF f

(***************************************************************************)
(* The server assigns a slot: UUIDs and machines stay distinct.            *)
(***************************************************************************)
Granting(sl, c, i, g) == [sl EXCEPT ![c][i] = Append(@, g)]
SlotTable == [Charts -> [1..Quantities -> Seq(Granted)]]

LEMMA GrantingParts ==
  ASSUME NEW sl \in SlotTable, NEW c \in Charts, NEW i \in 1..Quantities, NEW g \in Granted,
         NEW tl, tl = Granting(sl, c, i, g)
  PROVE  /\ tl \in SlotTable
         /\ tl[c][i] = Append(sl[c][i], g) /\ Len(tl[c][i]) = Len(sl[c][i]) + 1
         /\ tl[c][i][Len(sl[c][i]) + 1] = g
         /\ \A j \in 1..Len(sl[c][i]) : tl[c][i][j] = sl[c][i][j]
         /\ \A d \in Charts, k \in 1..Quantities :
              (d # c \/ k # i) => tl[d][k] = sl[d][k]
<1>1. sl[c] \in [1..Quantities -> Seq(Granted)] /\ sl[c][i] \in Seq(Granted)
  BY DEF SlotTable
<1> DEFINE s == Append(sl[c][i], g)
           r == [sl[c] EXCEPT ![i] = s]
<1>2. /\ s \in Seq(Granted) /\ Len(s) = Len(sl[c][i]) + 1 /\ s[Len(sl[c][i]) + 1] = g
      /\ \A j \in 1..Len(sl[c][i]) : s[j] = sl[c][i][j]
  BY <1>1
<1>3. tl = [sl EXCEPT ![c] = r] BY DEF Granting, SlotTable
<1> HIDE DEF s
<1>4. r \in [1..Quantities -> Seq(Granted)] /\ r[i] = s
      /\ \A k \in 1..Quantities : k # i => r[k] = sl[c][k]
  BY <1>1, <1>2
<1> HIDE DEF r
<1>5. tl \in SlotTable /\ tl[c] = r /\ \A d \in Charts : d # c => tl[d] = sl[d]
  BY <1>3, <1>4 DEF SlotTable
<1>6. tl[c][i] = s BY <1>4, <1>5
<1>7. \A d \in Charts, k \in 1..Quantities : (d # c \/ k # i) => tl[d][k] = sl[d][k]
  BY <1>4, <1>5
<1> QED BY <1>2, <1>5, <1>6, <1>7 DEF s

\* A slot of the table after the assignment is one of those before, or the new one.
OldOrNew(sl, tl, c, i, g, d, k, j) ==
  \/ j \in 1..Len(sl[d][k]) /\ tl[d][k][j] = sl[d][k][j]
  \/ d = c /\ k = i /\ j = Len(sl[c][i]) + 1 /\ tl[d][k][j] = g

LEMMA GrantingSlots ==
  ASSUME NEW sl \in SlotTable, NEW c \in Charts, NEW i \in 1..Quantities, NEW g \in Granted,
         NEW tl, tl = Granting(sl, c, i, g),
         NEW d \in Charts, NEW k \in 1..Quantities, NEW j \in 1..Len(tl[d][k])
  PROVE  OldOrNew(sl, tl, c, i, g, d, k, j)
<1>1. Len(sl[d][k]) \in Nat BY DEF SlotTable
<1>2. CASE d # c \/ k # i
  <2>1. tl[d][k] = sl[d][k] BY <1>2, GrantingParts
  <2> QED BY <2>1 DEF OldOrNew
<1>3. CASE d = c /\ k = i
  <2>1. Len(tl[c][i]) = Len(sl[c][i]) + 1 BY GrantingParts
  <2>2. tl[c][i][Len(sl[c][i]) + 1] = g BY GrantingParts
  <2>3. \A l \in 1..Len(sl[c][i]) : tl[c][i][l] = sl[c][i][l] BY GrantingParts
  <2>4. j \in 1..(Len(sl[c][i]) + 1) BY <1>3, <2>1
  <2>5. j \in 1..Len(sl[c][i]) \/ j = Len(sl[c][i]) + 1 BY <1>1, <1>3, <2>4
  <2> QED BY <1>3, <2>2, <2>3, <2>5 DEF OldOrNew
<1> QED BY <1>2, <1>3, Zenon

LEMMA GrantingDistinct ==
  ASSUME NEW sl \in SlotTable, Distinct(sl), NEW c \in Charts, NEW i \in 1..Quantities,
         NEW g \in Granted,
         \A d \in Charts, k \in 1..Quantities : \A j \in 1..Len(sl[d][k]) : sl[d][k][j].uuid # g.uuid,
         \A k \in 1..Quantities : \A j \in 1..Len(sl[c][k]) : sl[c][k][j].system # g.system,
         NEW tl, tl = Granting(sl, c, i, g)
  PROVE  Distinct(tl)
<1> SUFFICES ASSUME NEW d \in Charts, NEW f \in Charts, NEW k \in 1..Quantities,
                    NEW m \in 1..Quantities, NEW j \in 1..Len(tl[d][k]),
                    NEW l \in 1..Len(tl[f][m])
             PROVE  /\ tl[d][k][j].uuid = tl[f][m][l].uuid => d = f /\ k = m /\ j = l
                    /\ d = f /\ tl[d][k][j].system = tl[f][m][l].system => k = m /\ j = l
  BY DEF Distinct
<1>1. OldOrNew(sl, tl, c, i, g, d, k, j) BY GrantingSlots
<1>2. OldOrNew(sl, tl, c, i, g, f, m, l) BY GrantingSlots
<1>3. CASE j \in 1..Len(sl[d][k]) /\ tl[d][k][j] = sl[d][k][j]
  <2>1. CASE l \in 1..Len(sl[f][m]) /\ tl[f][m][l] = sl[f][m][l]
    <3>1. /\ sl[d][k][j].uuid = sl[f][m][l].uuid => d = f /\ k = m /\ j = l
          /\ d = f /\ sl[d][k][j].system = sl[f][m][l].system => k = m /\ j = l
      BY <1>3, <2>1 DEF Distinct
    <3> QED BY <1>3, <2>1, <3>1
  <2>2. CASE f = c /\ m = i /\ l = Len(sl[c][i]) + 1 /\ tl[f][m][l] = g
    BY <1>3, <2>2
  <2> QED BY <1>2, <2>1, <2>2 DEF OldOrNew
<1>4. CASE d = c /\ k = i /\ j = Len(sl[c][i]) + 1 /\ tl[d][k][j] = g
  <2>1. CASE l \in 1..Len(sl[f][m]) /\ tl[f][m][l] = sl[f][m][l]
    BY <1>4, <2>1
  <2>2. CASE f = c /\ m = i /\ l = Len(sl[c][i]) + 1 /\ tl[f][m][l] = g
    BY <1>4, <2>2
  <2> QED BY <1>2, <2>1, <2>2 DEF OldOrNew
<1> QED BY <1>1, <1>3, <1>4 DEF OldOrNew

LEMMA GrantingGrows ==
  ASSUME NEW sl \in SlotTable, NEW c \in Charts, NEW i \in 1..Quantities, NEW g \in Granted,
         NEW tl, tl = Granting(sl, c, i, g)
  PROVE  Grows(sl, tl) /\ Has(tl, c, i, g.uuid, g.system)
<1>1. Len(sl[c][i]) \in Nat BY DEF SlotTable
<1>2. Len(tl[c][i]) = Len(sl[c][i]) + 1 BY GrantingParts
<1>3. tl[c][i][Len(sl[c][i]) + 1] = g BY GrantingParts
<1>4. \A l \in 1..Len(sl[c][i]) : tl[c][i][l] = sl[c][i][l] BY GrantingParts
<1>5. Has(tl, c, i, g.uuid, g.system)
  <2>1. Len(sl[c][i]) + 1 \in 1..Len(tl[c][i]) BY <1>1, <1>2
  <2> QED BY <1>3, <2>1 DEF Has
<1>6. ASSUME NEW d \in Charts, NEW k \in 1..Quantities, NEW u, NEW m, Has(sl, d, k, u, m)
      PROVE  Has(tl, d, k, u, m)
  <2>1. CASE d # c \/ k # i
    <3>1. tl[d][k] = sl[d][k] BY <2>1, GrantingParts
    <3> QED BY <1>6, <3>1 DEF Has
  <2>2. CASE d = c /\ k = i
    <3>1. PICK j \in 1..Len(sl[c][i]) : sl[c][i][j].uuid = u /\ sl[c][i][j].system = m
      BY <1>6, <2>2 DEF Has
    <3>2. j \in 1..Len(tl[c][i]) /\ tl[c][i][j] = sl[c][i][j] BY <1>1, <1>2, <1>4
    <3> QED BY <2>2, <3>1, <3>2 DEF Has
  <2> QED BY <2>1, <2>2
<1> QED BY <1>5, <1>6 DEF Grows

ServerRecord ==
  [slots : SlotTable, listed : SUBSET Charts, expired : SUBSET Charts, key : 1..MaxKeys,
   named : BOOLEAN, uuids : 0..MaxUuid, room : [Charts -> Rooms]]

LEMMA AssignsGood ==
  ASSUME Account, NEW c \in Charts, NEW i \in 1..Quantities, NEW m \in Names,
         Assigns(c, i, m)
  PROVE  /\ Account' /\ Grows(server.slots, server'.slots)
         /\ server'.uuids = server.uuids + 1 /\ server'.uuids \in 1..MaxUuid
         /\ server'.key = server.key /\ server'.listed = server.listed
         /\ Has(server'.slots, c, i, server'.uuids, m)
<1> DEFINE g == [uuid |-> server.uuids + 1, system |-> m]
           sl == server.slots
           tl == Granting(sl, c, i, g)
<1>0. MaxUuid \in Nat /\ server \in ServerRecord /\ sl \in SlotTable /\ Distinct(sl)
  BY ShopAssumption DEF Account, ServerRecord, SlotTable
<1>1. server.uuids \in 0..MaxUuid /\ server.uuids + 1 \in 1..MaxUuid
  BY <1>0 DEF Assigns, ServerRecord
<1>2. g \in Granted /\ g.uuid = server.uuids + 1 /\ g.system = m BY <1>1 DEF Granted
<1>3. ASSUME NEW d \in Charts, NEW k \in 1..Quantities, NEW j \in 1..Len(sl[d][k])
      PROVE  sl[d][k][j].uuid <= server.uuids /\ sl[d][k][j].uuid \in 1..MaxUuid
  <2>1. sl[d][k][j].uuid <= server.uuids BY DEF Account
  <2>2. sl[d][k][j] \in Granted BY AccountParts
  <2> QED BY <2>1, <2>2 DEF Granted
<1>4. \A k \in 1..Quantities : \A j \in 1..Len(sl[c][k]) : sl[c][k][j].system # g.system
  BY <1>2 DEF Assigns
<1>5. server' = [server EXCEPT !.uuids = server.uuids + 1, !.slots = tl]
  BY <1>0 DEF Assigns, Granting, ServerRecord
<1> HIDE DEF g, tl
<1>6. tl \in SlotTable BY <1>0, <1>2, GrantingParts DEF tl
<1>7. /\ server' \in ServerRecord /\ server'.slots = tl
      /\ server'.uuids = server.uuids + 1 /\ server'.key = server.key
      /\ server'.listed = server.listed
  <2>1. server' = [slots |-> tl, listed |-> server.listed, expired |-> server.expired,
                   key |-> server.key, named |-> server.named, uuids |-> server.uuids + 1,
                   room |-> server.room]
    BY <1>0, <1>5 DEF ServerRecord
  <2>2. /\ server.listed \in SUBSET Charts /\ server.expired \in SUBSET Charts
        /\ server.key \in 1..MaxKeys /\ server.named \in BOOLEAN
        /\ server.room \in [Charts -> Rooms]
    BY <1>0 DEF ServerRecord
  <2>3. server.uuids + 1 \in 0..MaxUuid BY <1>0, <1>1
  <2>4. server' \in ServerRecord BY <1>6, <2>1, <2>2, <2>3 DEF ServerRecord
  <2> QED BY <2>1, <2>4
<1>8. Distinct(tl)
  <2>1. \A d \in Charts, k \in 1..Quantities : \A j \in 1..Len(sl[d][k]) : sl[d][k][j].uuid # g.uuid
    BY <1>1, <1>2, <1>3
  <2> HIDE DEF sl
  <2> QED BY <1>0, <1>2, <1>4, <2>1, GrantingDistinct DEF tl
<1>9. Grows(sl, tl) /\ Has(tl, c, i, g.uuid, g.system)
  BY <1>0, <1>2, GrantingGrows DEF tl
<1>10. ASSUME NEW d \in Charts, NEW k \in 1..Quantities, NEW j \in 1..Len(tl[d][k])
       PROVE  tl[d][k][j].uuid <= server.uuids + 1
  <2>0. OldOrNew(sl, tl, c, i, g, d, k, j) BY <1>0, <1>2, GrantingSlots DEF tl
  <2>1. (j \in 1..Len(sl[d][k]) /\ tl[d][k][j] = sl[d][k][j]) \/ tl[d][k][j] = g
    BY <2>0 DEF OldOrNew
  <2>2. CASE j \in 1..Len(sl[d][k]) /\ tl[d][k][j] = sl[d][k][j] BY <1>1, <1>3, <2>2
  <2>3. CASE tl[d][k][j] = g BY <1>1, <1>2, <2>3
  <2> QED BY <2>1, <2>2, <2>3
<1>11. Account'
  <2>1. server' \in [slots : [Charts -> [1..Quantities -> Seq(Granted)]],
                     listed : SUBSET Charts, expired : SUBSET Charts, key : 1..MaxKeys,
                     named : BOOLEAN, uuids : 0..MaxUuid, room : [Charts -> Rooms]]
    BY <1>7 DEF ServerRecord, SlotTable
  <2> QED BY <1>7, <1>8, <1>10, <2>1 DEF Account
<1> QED BY <1>1, <1>2, <1>7, <1>9, <1>11

(***************************************************************************)
(* The parts of the invariant, and what most steps do to them.             *)
(***************************************************************************)
LEMMA GrowsSelf == ASSUME NEW sl PROVE Grows(sl, sl)
  BY DEF Grows

LEMMA ListGrows ==
  ASSUME NEW sl, NEW tl, Grows(sl, tl), NEW dk, NEW ek, dk \subseteq ek,
         NEW l, ListGood(sl, dk, l)
  PROVE  ListGood(tl, ek, l)
  BY GoodGrows DEF ListGood

LEMMA ConfigGrows ==
  ASSUME NEW sl, NEW tl, Grows(sl, tl), NEW dk, NEW ek, dk \subseteq ek,
         NEW cf, ConfigGood(sl, dk, cf)
  PROVE  ConfigGood(tl, ek, cf)
  BY SavedGrows DEF ConfigGood

LEMMA JobGrows ==
  ASSUME NEW sl, NEW tl, Grows(sl, tl), NEW ok, NEW l, NEW j, Job(ok, j, l, sl)
  PROVE  Job(ok, j, l, tl)
<1> SUFFICES ASSUME j # NoJob PROVE Job(ok, j, l, tl) BY DEF Job
<1>1. j.chart \in Charts BY DEF Job
<1> QED BY <1>1 DEF Job, Grows

\* The file saved from a good list is good, and has the chartsets of the list.
LEMMA SaveGood ==
  ASSUME NEW sl, Distinct(sl), NEW dk, NEW l, ListGood(sl, dk, l),
         NEW k \in 0..MaxKeys, NEW n \in {None, Me}
  PROVE  /\ ConfigGood(sl, dk, saveShopConfig(l, k, n))
         /\ \A c \in Charts : saveShopConfig(l, k, n).charts[c] # NoEntry => l[c] # NoEntry
<1> DEFINE cf == saveShopConfig(l, k, n)
<1>1. /\ cf.key = k /\ cf.name = n
      /\ \A c \in Charts : cf.charts[c] =
           IF l[c] = NoEntry THEN NoEntry ELSE [slots |-> SavedSlots(l[c])]
  BY DEF saveShopConfig
<1> HIDE DEF cf
<1>2. ASSUME NEW c \in Charts PROVE cf.charts[c] = NoEntry \/ GoodSaved(sl, dk, c, cf.charts[c].slots)
  <2>1. CASE l[c] = NoEntry BY <1>1, <2>1
  <2>2. CASE l[c] # NoEntry
    <3>1. Good(sl, dk, c, l[c]) BY <2>2 DEF ListGood
    <3>2. GoodSaved(sl, dk, c, SavedSlots(l[c])) BY <3>1, SavedGood
    <3>3. cf.charts[c].slots = SavedSlots(l[c])
      <4>1. cf.charts[c] = [slots |-> SavedSlots(l[c])] BY <1>1, <2>2
      <4> QED BY <4>1
    <3> QED BY <3>2, <3>3
  <2> QED BY <2>1, <2>2
<1>3. ConfigGood(sl, dk, cf) BY <1>1, <1>2 DEF ConfigGood
<1>4. \A c \in Charts : cf.charts[c] # NoEntry => l[c] # NoEntry BY <1>1
<1> QED BY <1>3, <1>4 DEF cf

\* The chartsets of a list that is as fresh as the last refresh outlive Prune.
LEMMA PruneIs ==
  ASSUME NEW l, NEW c \in Charts
  PROVE  Prune(l)[c] = IF l[c] # NoEntry /\ l[c].ok THEN l[c] ELSE NoEntry
  BY DEF Prune

LEMMA PruneGood ==
  ASSUME NEW sl, NEW dk, NEW l, ListGood(sl, dk, l)
  PROVE  ListGood(sl, dk, Prune(l))
  BY DEF ListGood, Prune

LEMMA RestatusIs ==
  ASSUME NEW l, NEW dong, NEW sys, NEW ok, NEW c \in Charts
  PROVE  Restatus(l, dong, sys, ok)[c] =
           IF l[c] = NoEntry THEN NoEntry
           ELSE [l[c] EXCEPT !.active = getChartStatus(l[c], dong, sys, ok).active]
  BY DEF Restatus

LEMMA RestatusGood ==
  ASSUME NEW sl, Distinct(sl), NEW dk, NEW l, ListGood(sl, dk, l), NEW dong, NEW sys,
         NEW ok \in BOOLEAN
  PROVE  ListGood(sl, dk, Restatus(l, dong, sys, ok))
<1> DEFINE m == Restatus(l, dong, sys, ok)
<1>1. DOMAIN m = Charts BY DEF Restatus
<1>2. ASSUME NEW c \in Charts PROVE m[c] = NoEntry \/ Good(sl, dk, c, m[c])
  <2>1. CASE l[c] = NoEntry
    <3>1. m[c] = NoEntry BY <2>1 DEF Restatus
    <3> QED BY <3>1
  <2>2. CASE l[c] # NoEntry
    <3>1. Good(sl, dk, c, l[c]) BY <2>2 DEF ListGood
    <3>2. Good(sl, dk, c, [l[c] EXCEPT !.active = getChartStatus(l[c], dong, sys, ok).active])
      BY <3>1, StatusGood
    <3>3. m[c] = [l[c] EXCEPT !.active = getChartStatus(l[c], dong, sys, ok).active]
      BY <2>2, RestatusIs
    <3> HIDE DEF m
    <3> QED BY <3>2, <3>3
  <2> QED BY <2>1, <2>2
<1> HIDE DEF m
<1>3. ListGood(sl, dk, m) BY <1>1, <1>2 DEF ListGood
<1> QED BY <1>3 DEF m

\* An entry whose active slot alone changes keeps its slots.
LEMMA ActiveOnly ==
  ASSUME NEW e \in Entry, NEW a
  PROVE  LET f == [e EXCEPT !.active = a]
         IN /\ f.ok = e.ok /\ f.expired = e.expired /\ f.active = a /\ f # NoEntry
            /\ SlotsOf(f) = SlotsOf(e) /\ (\A p : Slot(f, p) = Slot(e, p))
            /\ \A name : AssignedTo(f, name) = AssignedTo(e, name)
<1> DEFINE f == [e EXCEPT !.active = a]
<1>1. f.qtys = e.qtys /\ f.ok = e.ok /\ f.expired = e.expired /\ f.active = a
  BY DEF Entry
<1>2. f # NoEntry
  <2>1. DOMAIN f = DOMAIN e OBVIOUS
  <2>2. "ok" \in DOMAIN e BY DEF Entry
  <2>3. "ok" \notin DOMAIN NoEntry BY DEF NoEntry
  <2> QED BY <2>1, <2>2, <2>3
<1> HIDE DEF f
<1>3. SlotsOf(f) = SlotsOf(e) /\ \A p : Slot(f, p) = Slot(e, p) BY <1>1 DEF SlotsOf, Slot
<1>4. ASSUME NEW name PROVE AssignedTo(f, name) = AssignedTo(e, name)
  <2>1. {p \in SlotsOf(f) : Slot(f, p).system = name} = {p \in SlotsOf(e) : Slot(e, p).system = name}
    BY <1>3
  <2> QED BY <2>1 DEF AssignedTo
<1> QED BY <1>1, <1>2, <1>3, <1>4 DEF f

\* Loading: an entry of nothing is good, and has no slots.
LEMMA NewEntryGood ==
  ASSUME NEW sl, NEW dk, NEW c PROVE Good(sl, dk, c, NewEntry) /\ SlotsOf(NewEntry) = {}
<1>1. NewEntry.qtys = <<>> /\ NewEntry.active = NoActive BY DEF NewEntry
<1>2. NoActive \in [q : Nat, s : Nat] BY DEF NoActive
<1>3. NewEntry \in Entry BY <1>2 DEF NewEntry, Entry
<1>4. 1..Len(NewEntry.qtys) = {} BY <1>1
<1>5. ActiveInRange(NewEntry) BY <1>1 DEF ActiveInRange
<1> QED BY <1>3, <1>4, <1>5 DEF Good, SlotsOf

LEMMA LoadIs ==
  ASSUME NEW l, NEW c \in Charts
  PROVE  loadShopConfig(l)[c] = IF config.charts[c] = NoEntry THEN l[c]
           ELSE Loaded(IF l[c] = NoEntry THEN NewEntry ELSE l[c], config.charts[c].slots)
  BY DEF loadShopConfig

LEMMA LoadGood ==
  ASSUME NEW sl, NEW dk, NEW l, ListGood(sl, dk, l), ConfigGood(sl, dk, config)
  PROVE  /\ ListGood(sl, dk, loadShopConfig(l))
         /\ \A c \in Charts : l[c] # NoEntry =>
              /\ loadShopConfig(l)[c] # NoEntry /\ loadShopConfig(l)[c].ok = l[c].ok
              /\ Keeps(loadShopConfig(l)[c], l[c])
<1> DEFINE m == loadShopConfig(l)
<1>1. DOMAIN m = Charts BY DEF loadShopConfig
<1>2. ASSUME NEW c \in Charts
      PROVE  /\ m[c] = NoEntry \/ Good(sl, dk, c, m[c])
             /\ l[c] # NoEntry => m[c] # NoEntry /\ m[c].ok = l[c].ok /\ Keeps(m[c], l[c])
  <2>1. CASE config.charts[c] = NoEntry
    <3>1. m[c] = l[c] BY <2>1, LoadIs
    <3> QED BY <3>1 DEF ListGood, Keeps
  <2>2. CASE config.charts[c] # NoEntry
    <3> DEFINE e == IF l[c] = NoEntry THEN NewEntry ELSE l[c]
               s == config.charts[c].slots
    <3>1. m[c] = Loaded(e, s) BY <2>2, LoadIs
    <3>2. Good(sl, dk, c, e) BY NewEntryGood DEF ListGood
    <3>3. GoodSaved(sl, dk, c, s) BY <2>2 DEF ConfigGood
    <3> HIDE DEF m, s, e
    <3>4. Good(sl, dk, c, Loaded(e, s)) /\ Loaded(e, s).ok = e.ok /\ Keeps(Loaded(e, s), e)
      BY <3>2, <3>3, LoadedGood
    <3>5. m[c] # NoEntry BY <3>1, <3>4, NoEntryIsNone DEF Good
    <3> QED BY <3>1, <3>4, <3>5 DEF e
  <2> QED BY <2>1, <2>2
<1> HIDE DEF m
<1>3. ListGood(sl, dk, m) BY <1>1, <1>2 DEF ListGood
<1> QED BY <1>2, <1>3 DEF m

(***************************************************************************)
(* Setting the record of an installed slot.                                *)
(***************************************************************************)
SetInst(e, p) == [e EXCEPT !.qtys[p[1]].slots[p[2]].inst = TRUE]
InstParts(f, e, p) ==
  /\ f \in Entry /\ Len(f.qtys) = Len(e.qtys)
  /\ f.ok = e.ok /\ f.expired = e.expired /\ f.active = e.active
  /\ \A i \in 1..Len(e.qtys) :
       /\ f.qtys[i].id = e.qtys[i].id
       /\ Len(f.qtys[i].slots) = Len(e.qtys[i].slots)
       /\ \A j \in 1..Len(e.qtys[i].slots) :
            /\ f.qtys[i].slots[j].uuid = e.qtys[i].slots[j].uuid
            /\ f.qtys[i].slots[j].system = e.qtys[i].slots[j].system
            /\ f.qtys[i].slots[j].inst \in BOOLEAN
            /\ f.qtys[i].slots[j].inst <=> (e.qtys[i].slots[j].inst \/ <<i, j>> = p)

LEMMA InstUpdate ==
  ASSUME NEW s \in SlotRecord, NEW v
  PROVE  [s EXCEPT !.inst = v] = [uuid |-> s.uuid, system |-> s.system, inst |-> v]
  BY DEF SlotRecord

LEMMA SetInstParts ==
  ASSUME NEW e \in Entry, NEW i \in 1..Len(e.qtys), NEW j \in 1..Len(e.qtys[i].slots)
  PROVE  InstParts(SetInst(e, <<i, j>>), e, <<i, j>>)
<1> DEFINE s == e.qtys[i].slots[j]
           t == [uuid |-> s.uuid, system |-> s.system, inst |-> TRUE]
           ts == [e.qtys[i].slots EXCEPT ![j] = t]
           r == [id |-> e.qtys[i].id, slots |-> ts]
           qs == [e.qtys EXCEPT ![i] = r]
           f == SetInst(e, <<i, j>>)
<1>1. /\ e.qtys \in Seq(Quantity) /\ e.qtys[i] \in Quantity
      /\ e.qtys[i].slots \in Seq(SlotRecord) /\ s \in SlotRecord
      /\ e.qtys[i].id \in 1..Quantities
  BY EntryParts DEF Entry
<1>2. t \in SlotRecord /\ [s EXCEPT !.inst = TRUE] = t
  <2>1. s.uuid \in 1..MaxUuid /\ s.system \in Names BY <1>1 DEF SlotRecord
  <2>2. t \in SlotRecord
    <3> HIDE DEF s
    <3> QED BY <2>1 DEF SlotRecord
  <2>3. [s EXCEPT !.inst = TRUE] = t
    <3> HIDE DEF s
    <3> QED BY <1>1, InstUpdate
  <2> QED BY <2>2, <2>3
<1>3. ts \in Seq(SlotRecord) /\ Len(ts) = Len(e.qtys[i].slots) /\ ts[j] = t
      /\ \A k \in 1..Len(e.qtys[i].slots) : k # j => ts[k] = e.qtys[i].slots[k]
  <2> HIDE DEF t
  <2> QED BY <1>1, <1>2
<1>4. r \in Quantity /\ [e.qtys[i] EXCEPT !.slots = ts] = r
  <2> HIDE DEF ts
  <2>1. r \in Quantity BY <1>1, <1>3 DEF Quantity
  <2> QED BY <1>1, <2>1, QuantityUpdate
<1>5. qs \in Seq(Quantity) /\ Len(qs) = Len(e.qtys) /\ qs[i] = r
      /\ \A k \in 1..Len(e.qtys) : k # i => qs[k] = e.qtys[k]
  <2> HIDE DEF r
  <2> QED BY <1>1, <1>4
<1>6. f = [e EXCEPT !.qtys = qs]
  <2>1. <<i, j>>[1] = i /\ <<i, j>>[2] = j OBVIOUS
  <2>2. f = [e EXCEPT !.qtys = [e.qtys EXCEPT ![i] =
              [e.qtys[i] EXCEPT !.slots = [e.qtys[i].slots EXCEPT ![j] = [s EXCEPT !.inst = TRUE]]]]]
    BY <2>1 DEF SetInst
  <2> QED BY <1>2, <1>4, <2>2
<1> HIDE DEF qs, f
<1>7. /\ f \in Entry /\ f.qtys = qs
      /\ f.ok = e.ok /\ f.expired = e.expired /\ f.active = e.active
  BY <1>5, <1>6 DEF Entry
<1>8. ASSUME NEW k \in 1..Len(e.qtys)
      PROVE  /\ qs[k].id = e.qtys[k].id
             /\ Len(qs[k].slots) = Len(e.qtys[k].slots)
             /\ \A l \in 1..Len(e.qtys[k].slots) :
                  qs[k].slots[l] = IF <<k, l>> = <<i, j>> THEN t ELSE e.qtys[k].slots[l]
  <2>1. CASE k = i
    <3>1. qs[k].id = e.qtys[k].id /\ qs[k].slots = ts
      <4>1. qs[k] = r BY <1>5, <2>1
      <4> HIDE DEF ts
      <4> QED BY <2>1, <4>1
    <3> HIDE DEF ts, t
    <3> QED BY <1>3, <2>1, <3>1
  <2>2. CASE k # i BY <1>5, <2>2
  <2> QED BY <2>1, <2>2
<1>9. ASSUME NEW k \in 1..Len(e.qtys), NEW l \in 1..Len(e.qtys[k].slots)
      PROVE  /\ qs[k].slots[l].uuid = e.qtys[k].slots[l].uuid
             /\ qs[k].slots[l].system = e.qtys[k].slots[l].system
             /\ qs[k].slots[l].inst \in BOOLEAN
             /\ qs[k].slots[l].inst <=> (e.qtys[k].slots[l].inst \/ <<k, l>> = <<i, j>>)
  <2>1. e.qtys[k].slots[l] \in SlotRecord BY EntryParts
  <2>2. CASE <<k, l>> = <<i, j>>
    <3>1. qs[k].slots[l] = t /\ k = i /\ l = j BY <1>8, <2>2
    <3> QED BY <2>2, <3>1
  <2>3. CASE <<k, l>> # <<i, j>>
    <3>1. qs[k].slots[l] = e.qtys[k].slots[l] BY <1>8, <2>3
    <3> QED BY <2>1, <2>3, <3>1 DEF SlotRecord
  <2> QED BY <2>2, <2>3
<1>10. InstParts(f, e, <<i, j>>) BY <1>5, <1>7, <1>8, <1>9 DEF InstParts
<1> QED BY <1>10 DEF f

LEMMA SetInstGood ==
  ASSUME NEW sl, NEW dk, NEW c \in Charts, NEW e, Good(sl, dk, c, e), NEW p \in SlotsOf(e),
         NEW ek, ek = dk \cup {<<c, Slot(e, p).system>>}
  PROVE  LET f == SetInst(e, p)
         IN /\ Good(sl, ek, c, f) /\ f.ok = e.ok /\ f.expired = e.expired
            /\ \A name : Recorded(e, name) \/ name = Slot(e, p).system => Recorded(f, name)
<1> DEFINE f == SetInst(e, p)
<1>1. e \in Entry BY DEF Good
<1>2. /\ p[1] \in 1..Len(e.qtys) /\ p[2] \in 1..Len(e.qtys[p[1]].slots)
      /\ p = <<p[1], p[2]>>
  BY SlotFacts
<1>3. InstParts(f, e, p) BY <1>1, <1>2, SetInstParts
<1> HIDE DEF f
<1>4. /\ f \in Entry /\ Len(f.qtys) = Len(e.qtys)
      /\ f.ok = e.ok /\ f.expired = e.expired /\ f.active = e.active
  BY <1>3 DEF InstParts
<1>5. ASSUME NEW i \in 1..Len(e.qtys)
      PROVE  /\ f.qtys[i].id = e.qtys[i].id
             /\ Len(f.qtys[i].slots) = Len(e.qtys[i].slots)
  BY <1>3 DEF InstParts
<1>6. ASSUME NEW i \in 1..Len(e.qtys), NEW j \in 1..Len(e.qtys[i].slots)
      PROVE  /\ f.qtys[i].slots[j].uuid = e.qtys[i].slots[j].uuid
             /\ f.qtys[i].slots[j].system = e.qtys[i].slots[j].system
             /\ f.qtys[i].slots[j].inst <=> (e.qtys[i].slots[j].inst \/ <<i, j>> = p)
  BY <1>3 DEF InstParts
<1>7. ASSUME NEW i \in 1..Len(f.qtys), NEW j \in 1..Len(f.qtys[i].slots)
      PROVE  Genuine(sl, ek, c, f.qtys[i].id, f.qtys[i].slots[j])
  <2>1. i \in 1..Len(e.qtys) /\ j \in 1..Len(e.qtys[i].slots) BY <1>4, <1>5
  <2>2. Genuine(sl, dk, c, e.qtys[i].id, e.qtys[i].slots[j]) BY <2>1 DEF Good
  <2>3. <<i, j>> = p => Slot(e, p) = e.qtys[i].slots[j] BY DEF Slot
  <2> QED BY <1>5, <1>6, <2>1, <2>2, <2>3 DEF Genuine
<1>8. ASSUME NEW i \in 1..Len(f.qtys), NEW j \in 1..Len(f.qtys[i].slots),
             NEW l \in 1..Len(f.qtys[i].slots),
             f.qtys[i].slots[j].uuid = f.qtys[i].slots[l].uuid
      PROVE  j = l
  <2>1. i \in 1..Len(e.qtys) /\ j \in 1..Len(e.qtys[i].slots) /\ l \in 1..Len(e.qtys[i].slots)
    BY <1>4, <1>5
  <2>2. e.qtys[i].slots[j].uuid = e.qtys[i].slots[l].uuid BY <1>6, <1>8, <2>1
  <2> QED BY <2>1, <2>2 DEF Good
<1>9. \A i, k \in 1..Len(f.qtys) : f.qtys[i].id = f.qtys[k].id => i = k
  BY <1>4, <1>5 DEF Good
<1>10. ActiveInRange(f)
  <2>1. CASE e.active = NoActive BY <1>4, <2>1 DEF ActiveInRange
  <2>2. CASE e.active # NoActive
    <3>1. PICK i \in 1..Len(e.qtys) : /\ e.qtys[i].id = e.active.q
                                      /\ e.active.s \in 1..Len(e.qtys[i].slots)
      BY <2>2 DEF Good, ActiveInRange
    <3> QED BY <1>4, <1>5, <3>1 DEF ActiveInRange
  <2> QED BY <2>1, <2>2
<1>11. Good(sl, ek, c, f) BY <1>4, <1>7, <1>8, <1>9, <1>10 DEF Good
<1>12. ASSUME NEW r \in SlotsOf(e)
       PROVE  /\ r \in SlotsOf(f) /\ Slot(f, r).system = Slot(e, r).system
              /\ Slot(f, r).inst <=> (Slot(e, r).inst \/ r = p)
  <2>1. /\ r[1] \in 1..Len(e.qtys) /\ r[2] \in 1..Len(e.qtys[r[1]].slots)
        /\ r = <<r[1], r[2]>>
    BY SlotFacts
  <2>2. r[1] \in 1..Len(f.qtys) /\ r[2] \in 1..Len(f.qtys[r[1]].slots) BY <1>4, <1>5, <2>1
  <2>3. r \in SlotsOf(f) BY <2>1, <2>2, SlotsAre
  <2> QED BY <1>6, <2>1, <2>3 DEF Slot
<1>13. \A name : Recorded(e, name) \/ name = Slot(e, p).system => Recorded(f, name)
  BY <1>12 DEF Recorded
<1> QED BY <1>4, <1>11, <1>13 DEF f

(***************************************************************************)
(* The steps.  Most change neither the list nor the file.                  *)
(***************************************************************************)
LEMMA SectionParts ==
  ASSUME NEW a \in Sections
  PROVE  /\ a.in \in Plain \/ a.in \in {"name", "choose"} \/ a.in \in Chosen
         /\ a.in \notin Plain => a.chart \in Charts
         /\ a.in \in Chosen => a.late \in BOOLEAN /\ a.name \in {Me, Dongle}
<1>1. CASE a \in [in : Plain] BY <1>1 DEF Plain, Chosen
<1>2. CASE a \in [in : {"name", "choose"}, chart : Charts] BY <1>2 DEF Plain, Chosen
<1>3. CASE a \in [in : Chosen, chart : Charts, late : BOOLEAN, name : {Me, Dongle}]
  BY <1>3 DEF Plain, Chosen
<1> QED BY <1>1, <1>2, <1>3 DEF Sections

LEMMA Moved ==
  ASSUME NEW a \in Sections, NEW x
  PROVE  /\ a.in \in {"name", "choose"} /\ x \in {"name", "choose"} =>
              LET b == [a EXCEPT !.in = x]
              IN b \in Sections /\ b.in = x /\ b.chart = a.chart
         /\ a.in \in Chosen /\ x \in Chosen =>
              LET b == [a EXCEPT !.in = x]
              IN /\ b \in Sections /\ b.in = x /\ b.chart = a.chart
                 /\ b.late = a.late /\ b.name = a.name
<1>1. ASSUME a.in \in {"name", "choose"}, x \in {"name", "choose"}
      PROVE  [a EXCEPT !.in = x] = [in |-> x, chart |-> a.chart] /\ a.chart \in Charts
  <2>1. a \in [in : {"name", "choose"}, chart : Charts] BY <1>1 DEF Sections, Plain, Chosen
  <2> QED BY <2>1
<1>2. ASSUME a.in \in Chosen, x \in Chosen
      PROVE  /\ [a EXCEPT !.in = x] =
                  [in |-> x, chart |-> a.chart, late |-> a.late, name |-> a.name]
             /\ a.chart \in Charts /\ a.late \in BOOLEAN /\ a.name \in {Me, Dongle}
  <2>1. a \in [in : Chosen, chart : Charts, late : BOOLEAN, name : {Me, Dongle}]
    BY <1>2 DEF Sections, Plain, Chosen
  <2> QED BY <2>1
<1> QED BY <1>1, <1>2 DEF Sections

LEMMA PlainHandler ==
  ASSUME NEW x \in Plain, NEW ok, NEW l
  PROVE  Handler(ok, [in |-> x], l) /\ [in |-> x].in = x
<1>1. [in |-> x].in \in Plain /\ [in |-> x] \in Sections BY DEF Sections
<1>2. [in |-> x].in \notin Chosen BY <1>1 DEF Plain, Chosen
<1> QED BY <1>1, <1>2 DEF Handler

LEMMA IdleHandler ==
  ASSUME NEW ok, NEW l PROVE Handler(ok, Idle, l) /\ Idle.in = "idle"
  BY PlainHandler DEF Plain, Idle

LEMMA NoJobIsFine == ASSUME NEW ok, NEW l, NEW sl PROVE Job(ok, NoJob, l, sl)
  BY DEF Job

\* A step that changes neither the list, the file nor the slots.
LEMMA Quiet ==
  ASSUME IInv, UNCHANGED <<list, updatedOK, config, disk>>,
         server'.slots = server.slots, Account', Scalars',
         at'.in = "listed" => at.in = "listed",
         Handler(updatedOK, at', list), Job(updatedOK, job', list, server.slots)
  PROVE  IInv'
<1>1. ListGood(server'.slots, disk', list') BY DEF IInv
<1>2. ConfigGood(server'.slots, disk', config') BY DEF IInv
<1>3. Fresh(updatedOK', at'.in, list', config') BY DEF IInv, Fresh
<1>4. Handler(updatedOK', at', list') OBVIOUS
<1>5. Job(updatedOK', job', list', server'.slots) OBVIOUS
<1> QED BY <1>1, <1>2, <1>3, <1>4, <1>5 DEF IInv

LEMMA QuietPlain ==
  ASSUME IInv, UNCHANGED <<list, updatedOK, config, disk, server, job>>, Scalars',
         NEW x \in Plain \ {"listed"}, at' = [in |-> x]
  PROVE  IInv'
<1>1. Handler(updatedOK, at', list) /\ at'.in = x BY PlainHandler
<1>2. Account' BY DEF IInv, Account
<1> QED BY <1>1, <1>2, Quiet DEF IInv

LEMMA QuietWorld ==
  ASSUME IInv, UNCHANGED <<list, updatedOK, config, disk, at, job>>, Scalars',
         server'.slots = server.slots, Account'
  PROVE  IInv'
  BY Quiet DEF IInv

\* A step to a section of the same installation.
LEMMA QuietMove ==
  ASSUME IInv, UNCHANGED <<list, updatedOK, config, disk, job>>, Scalars', Account',
         server'.slots = server.slots, NEW x, at' = [at EXCEPT !.in = x],
         \/ at.in \in {"name", "choose"} /\ x \in {"name", "choose"}
         \/ /\ at.in \in Chosen /\ x \in Chosen
            /\ x = "slot" => AssignedTo(list[at.chart], at.name) # {}
  PROVE  IInv'
<1>1. at \in Sections /\ Handler(updatedOK, at, list) BY DEF IInv, Handler
<1>2. CASE at.in \in {"name", "choose"} /\ x \in {"name", "choose"}
  <2>1. at' \in Sections /\ at'.in = x /\ at'.chart = at.chart BY <1>1, <1>2, Moved
  <2>2. at.in \notin Plain /\ x \notin Plain /\ x \notin Chosen /\ x # "listed"
    BY <1>2 DEF Plain, Chosen
  <2>3. Handler(updatedOK, at', list) BY <1>1, <2>1, <2>2 DEF Handler
  <2> QED BY <2>1, <2>2, <2>3, Quiet DEF IInv
<1>3. CASE /\ at.in \in Chosen /\ x \in Chosen
           /\ x = "slot" => AssignedTo(list[at.chart], at.name) # {}
  <2>1. /\ at' \in Sections /\ at'.in = x /\ at'.chart = at.chart
        /\ at'.late = at.late /\ at'.name = at.name
    BY <1>1, <1>3, Moved
  <2>2. at.in \notin Plain /\ x \notin Plain /\ x # "listed" BY <1>3 DEF Plain, Chosen
  <2>3. Handler(updatedOK, at', list) BY <1>1, <1>3, <2>1, <2>2 DEF Handler
  <2> QED BY <2>1, <2>2, <2>3, Quiet DEF IInv
<1> QED BY <1>2, <1>3

LEMMA ServerParts ==
  ASSUME Account
  PROVE  /\ server \in ServerRecord /\ server.key \in 1..MaxKeys /\ server.uuids \in 0..MaxUuid
         /\ server.listed \subseteq Charts
<1>1. server \in ServerRecord BY DEF Account, ServerRecord, SlotTable
<1> QED BY <1>1 DEF ServerRecord

\* What else the server may change leaves its slots alone.
LEMMA AccountKept ==
  ASSUME Account, server' \in ServerRecord, server'.slots = server.slots,
         server'.uuids = server.uuids
  PROVE  Account'
<1>1. server' \in [slots : [Charts -> [1..Quantities -> Seq(Granted)]],
                   listed : SUBSET Charts, expired : SUBSET Charts, key : 1..MaxKeys,
                   named : BOOLEAN, uuids : 0..MaxUuid, room : [Charts -> Rooms]]
  BY DEF ServerRecord, SlotTable
<1> QED BY <1>1 DEF Account

LEMMA WorldInv ==
  ASSUME IInv PROVE World => IInv'
<1>0. server \in ServerRecord /\ Account /\ Scalars BY ServerParts DEF IInv
<1>1. ASSUME RevokeKey PROVE IInv'
  <2>1. server' = [server EXCEPT !.key = server.key + 1] /\ server.key + 1 \in 1..MaxKeys
    BY <1>0, <1>1, ServerParts, ShopAssumption DEF RevokeKey
  <2>2. server' \in ServerRecord /\ server'.slots = server.slots /\ server'.uuids = server.uuids
    BY <1>0, <2>1 DEF ServerRecord
  <2>3. Account' BY <1>0, <2>2, AccountKept
  <2>4. Scalars' BY <1>0, <1>1 DEF Scalars, RevokeKey, shopVars, names
  <2> QED BY <1>1, <2>2, <2>3, <2>4, QuietWorld DEF RevokeKey, shopVars
<1>2. ASSUME PlugDongle PROVE IInv'
  <2>1. Account' BY <1>0, <1>2 DEF Account, PlugDongle
  <2>2. Scalars' BY <1>0, <1>2 DEF Scalars, PlugDongle, shopVars, names
  <2> QED BY <1>2, <2>1, <2>2, QuietWorld DEF PlugDongle, shopVars
<1>3. ASSUME NEW c \in Charts, Withdraw(c) PROVE IInv'
  <2>1. server' = [server EXCEPT !.listed = server.listed \ {c}] BY <1>0, <1>3 DEF Withdraw
  <2>2. server' \in ServerRecord /\ server'.slots = server.slots /\ server'.uuids = server.uuids
    BY <1>0, <2>1 DEF ServerRecord
  <2>3. Account' BY <1>0, <2>2, AccountKept
  <2>4. Scalars' BY <1>0, <1>3 DEF Scalars, Withdraw, shopVars, names
  <2> QED BY <1>3, <2>2, <2>3, <2>4, QuietWorld DEF Withdraw, shopVars
<1>4. ASSUME NEW c \in Charts, Expire(c) PROVE IInv'
  <2>1. server' = [server EXCEPT !.expired = server.expired \cup {c}] BY <1>0, <1>4 DEF Expire
  <2>2. server' \in ServerRecord /\ server'.slots = server.slots /\ server'.uuids = server.uuids
    BY <1>0, <2>1 DEF ServerRecord
  <2>3. Account' BY <1>0, <2>2, AccountKept
  <2>4. Scalars' BY <1>0, <1>4 DEF Scalars, Expire, shopVars, names
  <2> QED BY <1>4, <2>2, <2>3, <2>4, QuietWorld DEF Expire, shopVars
<1>5. ASSUME NEW c \in Charts, NEW i \in 1..Quantities, NEW m \in Others, OtherAssigns(c, i, m)
      PROVE  IInv'
  <2>1. Account' /\ Grows(server.slots, server'.slots)
    BY <1>0, <1>5, AssignsGood DEF OtherAssigns, Names
  <2>2. UNCHANGED <<list, updatedOK, config, disk, at, job>> BY <1>5 DEF OtherAssigns, shopVars
  <2>3. ListGood(server'.slots, disk', list') BY <2>1, <2>2, ListGrows DEF IInv
  <2>4. ConfigGood(server'.slots, disk', config') BY <2>1, <2>2, ConfigGrows DEF IInv
  <2>5. Job(updatedOK', job', list', server'.slots) BY <2>1, <2>2, JobGrows DEF IInv
  <2>6. Scalars' BY <1>0, <1>5 DEF Scalars, OtherAssigns, shopVars, names
  <2>7. Fresh(updatedOK', at'.in, list', config') /\ Handler(updatedOK', at', list')
    BY <2>2 DEF IInv
  <2> QED BY <2>1, <2>3, <2>4, <2>5, <2>6, <2>7 DEF IInv
<1> QED BY <1>1, <1>2, <1>3, <1>4, <1>5 DEF World

(***************************************************************************)
(* The refresh.                                                            *)
(***************************************************************************)
\* A step that saves a good list.
LEMMA Saves ==
  ASSUME Account', ListGood(server'.slots, disk', list'),
         NEW k \in 0..MaxKeys, NEW n \in {None, Me}, config' = saveShopConfig(list', k, n)
  PROVE  /\ ConfigGood(server'.slots, disk', config')
         /\ \A c \in Charts : config'.charts[c] # NoEntry => list'[c] # NoEntry
<1>1. Distinct(server'.slots) BY DEF Account
<1> QED BY <1>1, SaveGood

LEMMA AccountSame == ASSUME Account, UNCHANGED server PROVE Account'
  BY DEF Account

\* The list keeps its chartsets, when it is saved again.
LEMMA FreshSaved ==
  ASSUME NEW ok, NEW in, NEW l, NEW cf, NEW ok2, NEW in2, NEW l2, NEW cf2,
         Fresh(ok, in, l, cf), ok2 \/ in2 = "listed" => ok \/ in = "listed",
         \A c \in Charts : l2[c] # NoEntry => l[c] # NoEntry /\ l2[c].ok = l[c].ok,
         \A c \in Charts : cf2.charts[c] # NoEntry => l2[c] # NoEntry
  PROVE  Fresh(ok2, in2, l2, cf2)
  BY DEF Fresh

LEMMA LoginInv ==
  ASSUME IInv, LoginOK PROVE IInv'
<1>0. Account /\ Scalars /\ ListGood(server.slots, disk, list) BY DEF IInv
<1>1. /\ UNCHANGED <<list, updatedOK, lastUuid, sysName, dongName, job, server, plugged, disk>>
      /\ key' = server.key /\ config' = saveShopConfig(list, key', sysName)
      /\ at.in \in {"login", "relogin"}
  BY DEF LoginOK, shopVars, world
<1>2. key' \in 0..MaxKeys /\ sysName' \in {None, Me} /\ Scalars'
  BY <1>0, <1>1, ServerParts, ShopAssumption DEF Scalars
<1>3. Account' /\ ListGood(server'.slots, disk', list') BY <1>0, <1>1, AccountSame
<1>4. config' = saveShopConfig(list', key', sysName') BY <1>1
<1>5. /\ ConfigGood(server'.slots, disk', config')
      /\ \A c \in Charts : config'.charts[c] # NoEntry => list'[c] # NoEntry
  BY <1>2, <1>3, <1>4, Saves
<1>6. PICK x \in {"identify", "list again"} : at' = [in |-> x] BY DEF LoginOK
<1>7. Handler(updatedOK', at', list') /\ at'.in = x BY <1>6, PlainHandler DEF Plain
<1>8. Fresh(updatedOK', at'.in, list', config')
  BY <1>1, <1>5, <1>6, <1>7 DEF Fresh, IInv
<1>9. Job(updatedOK', job', list', server'.slots) BY <1>1 DEF IInv
<1> QED BY <1>2, <1>3, <1>5, <1>7, <1>8, <1>9 DEF IInv

\* The pruning of a list that a successful refresh left.
LEMMA PruneStep ==
  ASSUME IInv, list' = Prune(list), UNCHANGED <<updatedOK, lastUuid, names, config, job, world, disk>>,
         NEW x \in Plain \ {"listed"}, at' = [in |-> x]
  PROVE  IInv'
<1>0. Account /\ Scalars /\ ListGood(server.slots, disk, list) BY DEF IInv
<1>1. Account' /\ Scalars' BY <1>0, AccountSame DEF world, names, Scalars
<1>2. ListGood(server'.slots, disk', list') BY <1>0, PruneGood DEF world
<1>3. ConfigGood(server'.slots, disk', config') BY DEF IInv, world
<1>4. Handler(updatedOK', at', list') /\ at'.in = x BY PlainHandler
<1>5. \A c \in Charts : updatedOK /\ list[c] # NoEntry => list'[c] = list[c]
  BY PruneIs DEF IInv, Fresh
<1>6. \A c \in Charts : list'[c] # NoEntry => list'[c].ok
  BY PruneIs
<1>7. Fresh(updatedOK', at'.in, list', config')
  BY <1>4, <1>5, <1>6 DEF IInv, Fresh
<1>8. Job(updatedOK', job', list', server'.slots)
  BY <1>5 DEF IInv, Job, world
<1> QED BY <1>1, <1>2, <1>3, <1>4, <1>7, <1>8 DEF IInv

LEMMA ResponseIs ==
  ASSUME NEW l, NEW c \in Charts
  PROVE  ProcessResponse(l)[c] = IF c \in server.listed THEN Update(l[c], c) ELSE l[c]
  BY DEF ProcessResponse

LEMMA ResponseGood ==
  ASSUME Account, NEW l, ListGood(server.slots, disk, l)
  PROVE  /\ ListGood(server.slots, disk, ProcessResponse(l))
         /\ \A c \in Charts : c \in server.listed =>
              ProcessResponse(l)[c] # NoEntry /\ ProcessResponse(l)[c].ok
         /\ \A c \in Charts : l[c] # NoEntry /\ l[c].ok =>
              ProcessResponse(l)[c] # NoEntry /\ ProcessResponse(l)[c].ok
<1> DEFINE m == ProcessResponse(l)
<1>1. DOMAIN m = Charts BY DEF ProcessResponse
<1>2. ASSUME NEW c \in Charts, c \in server.listed
      PROVE  Good(server.slots, disk, c, m[c]) /\ m[c] # NoEntry /\ m[c].ok
  <2>1. m[c] = Update(l[c], c) BY <1>2, ResponseIs
  <2>2. l[c] = NoEntry \/ Good(server.slots, disk, c, l[c]) BY DEF ListGood
  <2> HIDE DEF m
  <2>3. Good(server.slots, disk, c, m[c]) /\ m[c].ok = TRUE BY <2>1, <2>2, UpdateGood
  <2> QED BY <2>3, NoEntryIsNone DEF Good
<1>3. ASSUME NEW c \in Charts, c \notin server.listed PROVE m[c] = l[c]
  BY <1>3, ResponseIs
<1> HIDE DEF m
<1>4. ListGood(server.slots, disk, m) BY <1>1, <1>2, <1>3 DEF ListGood
<1> QED BY <1>2, <1>3, <1>4 DEF m

LEMMA AnsweredInv ==
  ASSUME IInv, ListAnswered PROVE IInv'
<1>0. Account /\ Scalars /\ ListGood(server.slots, disk, list) BY DEF IInv
<1> DEFINE m == ProcessResponse(list)
<1>1. /\ UNCHANGED <<updatedOK, lastUuid, names, config, job, world, disk>>
      /\ list' = Prune(m) /\ at' = [in |-> "listed"]
  BY DEF ListAnswered
<1>2. Account' /\ Scalars' BY <1>0, <1>1, AccountSame DEF world, names, Scalars
<1>3. ListGood(server.slots, disk, m) BY <1>0, ResponseGood
<1>4. ASSUME NEW c \in Charts, list[c] # NoEntry, list[c].ok PROVE m[c] # NoEntry /\ m[c].ok
  BY <1>0, <1>4, ResponseGood
<1> HIDE DEF m
<1>5. ListGood(server'.slots, disk', list') BY <1>1, <1>3, PruneGood DEF world
<1>6. ConfigGood(server'.slots, disk', config') BY <1>1 DEF IInv, world
<1>7. Handler(updatedOK', at', list') /\ at'.in = "listed" BY <1>1, PlainHandler DEF Plain
<1>8. \A c \in Charts : list'[c] # NoEntry => list'[c].ok BY <1>1, PruneIs
<1>9. \A c \in Charts : updatedOK /\ list[c] # NoEntry => list'[c] # NoEntry
  BY <1>1, <1>4, PruneIs DEF IInv, Fresh
<1>10. Fresh(updatedOK', at'.in, list', config') BY <1>1, <1>8, <1>9 DEF IInv, Fresh
<1>11. Job(updatedOK', job', list', server'.slots) BY <1>1, <1>9 DEF IInv, Job, world
<1> QED BY <1>2, <1>5, <1>6, <1>7, <1>10, <1>11 DEF IInv

LEMMA DoneInv ==
  ASSUME IInv, UpdateDone PROVE IInv'
<1>0. Account /\ Scalars /\ ListGood(server.slots, disk, list) BY DEF IInv
<1>1. /\ UNCHANGED <<lastUuid, sysName, dongName, key, job, server, plugged, disk>>
      /\ updatedOK' = TRUE /\ at.in = "listed" /\ at' = Idle
      /\ list' = Restatus(list, dongName, sysName, TRUE)
      /\ config' = saveShopConfig(list', key, sysName)
  BY DEF UpdateDone, names, world
<1>2. Account' /\ Scalars' BY <1>0, <1>1, AccountSame DEF Scalars
<1>3. ListGood(server'.slots, disk', list')
  <2>1. Distinct(server.slots) BY <1>0, AccountParts
  <2>2. ListGood(server.slots, disk, Restatus(list, dongName, sysName, TRUE))
    BY <1>0, <2>1, RestatusGood
  <2> QED BY <1>1, <2>2
<1>4. key \in 0..MaxKeys /\ sysName \in {None, Me} BY <1>0 DEF Scalars
<1>5. /\ ConfigGood(server'.slots, disk', config')
      /\ \A c \in Charts : config'.charts[c] # NoEntry => list'[c] # NoEntry
  BY <1>1, <1>2, <1>3, <1>4, Saves
<1>6. ASSUME NEW c \in Charts
      PROVE  IF list[c] = NoEntry THEN list'[c] = NoEntry
             ELSE list'[c] # NoEntry /\ list'[c].ok = list[c].ok
  <2>1. CASE list[c] = NoEntry BY <1>1, <2>1 DEF Restatus
  <2>2. CASE list[c] # NoEntry
    <3>1. list[c] \in Entry BY <1>0, <2>2 DEF ListGood, Good
    <3>2. list'[c] = [list[c] EXCEPT !.active =
                        getChartStatus(list[c], dongName, sysName, TRUE).active]
      BY <1>1, <2>2 DEF Restatus
    <3> DEFINE e == list[c]
               a == getChartStatus(e, dongName, sysName, TRUE).active
               f == [e EXCEPT !.active = a]
    <3>3. f # NoEntry /\ f.ok = e.ok
      <4> HIDE DEF e, a
      <4>1. e \in Entry BY <3>1 DEF e
      <4> QED BY <4>1, ActiveOnly
    <3> QED BY <2>2, <3>2, <3>3
  <2> QED BY <2>1, <2>2
<1>7. Handler(updatedOK', at', list') BY <1>1, IdleHandler
<1>8. Fresh(updatedOK', at'.in, list', config')
  BY <1>1, <1>5, <1>6 DEF IInv, Fresh
<1>9. Job(updatedOK', job', list', server'.slots) BY <1>1, <1>6 DEF IInv, Job
<1> QED BY <1>2, <1>3, <1>5, <1>7, <1>8, <1>9 DEF IInv

LEMMA RefreshInv ==
  ASSUME IInv PROVE Refresh => IInv'
<1>0. Scalars BY DEF IInv
<1>1. ASSUME ClickUpdate PROVE IInv'
  <2>1. PICK x \in {"login", "identify"} : at' = [in |-> x] BY <1>1 DEF ClickUpdate
  <2>2. Scalars' BY <1>0, <1>1 DEF ClickUpdate, Scalars, shopVars, names, world
  <2>3. UNCHANGED <<list, updatedOK, config, disk, server, job>>
    BY <1>1 DEF ClickUpdate, shopVars, world
  <2> QED BY <2>1, <2>2, <2>3, QuietPlain DEF Plain
<1>2. ASSUME LoginOK PROVE IInv' BY <1>2, LoginInv
<1>3. ASSUME LoginFails \/ ListLost PROVE IInv'
  <2>1. at' = [in |-> "idle"] BY <1>3 DEF LoginFails, ListLost, Idle
  <2>2. Scalars' BY <1>0, <1>3 DEF LoginFails, ListLost, Scalars, shopVars, names, world
  <2>3. UNCHANGED <<list, updatedOK, config, disk, server, job>>
    BY <1>3 DEF LoginFails, ListLost, shopVars, world
  <2> QED BY <2>1, <2>2, <2>3, QuietPlain DEF Plain
<1>4. ASSUME Identify PROVE IInv'
  <2>1. at' = [in |-> "list"] BY <1>4 DEF Identify
  <2>2. Scalars' BY <1>0, <1>4 DEF Identify, Scalars, shopVars, world
  <2>3. UNCHANGED <<list, updatedOK, config, disk, server, job>>
    BY <1>4 DEF Identify, shopVars, world
  <2> QED BY <2>1, <2>2, <2>3, QuietPlain DEF Plain
<1>5. ASSUME ListAnswered PROVE IInv' BY <1>5, AnsweredInv
<1>6. ASSUME ListRefused \/ ListError PROVE IInv'
  <2>1. PICK x \in {"idle", "relogin"} : at' = [in |-> x]
    BY <1>6 DEF ListRefused, ListError, Idle
  <2>2. /\ list' = Prune(list)
        /\ UNCHANGED <<updatedOK, lastUuid, names, config, job, world, disk>>
    BY <1>6 DEF ListRefused, ListError
  <2> QED BY <2>1, <2>2, PruneStep DEF Plain
<1>7. ASSUME UpdateDone PROVE IInv' BY <1>7, DoneInv
<1> QED BY <1>1, <1>2, <1>3, <1>4, <1>5, <1>6, <1>7 DEF Refresh

(***************************************************************************)
(* The installation: the name.                                             *)
(***************************************************************************)
LEMMA ClickInv ==
  ASSUME IInv, NEW c \in Charts, ClickInstall(c) PROVE IInv'
<1>0. Account /\ Scalars /\ ListGood(server.slots, disk, list) BY DEF IInv
<1>1. /\ UNCHANGED <<list, updatedOK, config, disk, server, job>>
      /\ Scalars' /\ list[c] # NoEntry /\ at' = [in |-> "name", chart |-> c]
  BY <1>0 DEF ClickInstall, shopVars, names, world, Scalars
<1>2. updatedOK /\ ~list[c].expired
  <2> DEFINE s == getChartStatus(list[c], dongName, sysName, updatedOK)
  <2>1. s.status \in {"requestable", "purchased", "installed"} BY DEF ClickInstall, Status
  <2>2. updatedOK \in BOOLEAN BY <1>0 DEF Scalars
  <2> HIDE DEF s
  <2> QED BY <2>1, <2>2, StatusCases DEF s
<1>3. /\ at' \in Sections /\ at'.in = "name" /\ at'.chart = c
      /\ at'.in \notin Plain /\ at'.in \notin Chosen
  BY <1>1 DEF Sections, Plain, Chosen
<1>4. Handler(updatedOK, at', list) BY <1>1, <1>2, <1>3 DEF Handler
<1>5. Account' BY <1>0, <1>1, AccountSame
<1> QED BY <1>1, <1>3, <1>4, <1>5, Quiet DEF IInv

LEMMA NameInv ==
  ASSUME IInv, NameKnown \/ NameFound PROVE IInv'
<1>0. Account /\ Scalars BY DEF IInv
<1>1. /\ UNCHANGED <<list, updatedOK, config, disk, server, job>>
      /\ at.in = "name" /\ at' = [at EXCEPT !.in = "choose"]
  BY DEF NameKnown, NameFound, shopVars, world
<1>2. Scalars' BY <1>0 DEF NameKnown, NameFound, shopVars, names, world, Scalars
<1>3. Account' BY <1>0, <1>1, AccountSame
<1> QED BY <1>1, <1>2, <1>3, QuietMove

\* The server learns the name of this machine.
LEMMA NamedAccount ==
  ASSUME Account, NEW b \in BOOLEAN, server' = [server EXCEPT !.named = b]
  PROVE  Account' /\ server'.slots = server.slots /\ server'.key = server.key
<1>1. server \in ServerRecord BY ServerParts
<1>2. /\ server' \in ServerRecord /\ server'.slots = server.slots
      /\ server'.uuids = server.uuids /\ server'.key = server.key
  BY <1>1 DEF ServerRecord
<1> QED BY <1>2, AccountKept

LEMMA TypedInv ==
  ASSUME IInv, NameTyped PROVE IInv'
<1>0. Account /\ Scalars /\ ListGood(server.slots, disk, list) BY DEF IInv
<1>1. /\ UNCHANGED <<list, updatedOK, lastUuid, dongName, key, job, plugged, disk>>
      /\ at.in = "name" /\ at' = [at EXCEPT !.in = "choose"]
  BY DEF NameTyped, shopVars
<1>2. CASE sysName' = Me /\ server' = [server EXCEPT !.named = TRUE] /\ UNCHANGED config
  <2>1. Account' /\ server'.slots = server.slots BY <1>0, <1>2, NamedAccount
  <2>2. Scalars' BY <1>0, <1>1, <1>2 DEF Scalars
  <2> QED BY <1>1, <1>2, <2>1, <2>2, QuietMove
<1>3. CASE UNCHANGED <<sysName, config, server>>
  <2>1. Account' /\ Scalars' BY <1>0, <1>1, <1>3, AccountSame DEF Scalars
  <2> QED BY <1>1, <1>3, <2>1, QuietMove
<1>4. CASE sysName' = None /\ config' = saveShopConfig(list, key, None) /\ UNCHANGED server
  <2>1. Account' /\ Scalars' BY <1>0, <1>1, <1>4, AccountSame DEF Scalars
  <2>2. ListGood(server'.slots, disk', list') BY <1>0, <1>1, <1>4
  <2>3. key \in 0..MaxKeys /\ None \in {None, Me} BY <1>0 DEF Scalars
  <2>4. config' = saveShopConfig(list', key, None) BY <1>1, <1>4
  <2>5. /\ ConfigGood(server'.slots, disk', config')
        /\ \A c \in Charts : config'.charts[c] # NoEntry => list'[c] # NoEntry
    BY <2>1, <2>2, <2>3, <2>4, Saves
  <2>6. at \in Sections BY DEF IInv, Handler
  <2>7. at' \in Sections /\ at'.in = "choose" /\ at'.chart = at.chart BY <1>1, <2>6, Moved
  <2>8. at.in \notin Plain /\ at'.in \notin Plain /\ at'.in \notin Chosen
    BY <1>1, <2>7 DEF Plain, Chosen
  <2>9. Handler(updatedOK', at', list') BY <1>1, <2>7, <2>8 DEF Handler, IInv
  <2>10. Fresh(updatedOK', at'.in, list', config') BY <1>1, <2>5, <2>7 DEF Fresh, IInv
  <2>11. Job(updatedOK', job', list', server'.slots) BY <1>1, <1>4 DEF IInv
  <2> QED BY <2>1, <2>2, <2>5, <2>9, <2>10, <2>11 DEF IInv
<1> QED BY <1>2, <1>3, <1>4 DEF NameTyped

\* Both ways of ChooseName, as far as they leave a good list and file.
LEMMA ChooseParts ==
  ASSUME IInv, NEW c \in Charts, list[c] # NoEntry, NEW dong, NEW sys,
         list' = [list EXCEPT ![c].active = getChartStatus(list[c], dong, sys, updatedOK).active],
         UNCHANGED <<updatedOK, lastUuid, key, job, server, plugged, disk>>,
         \/ UNCHANGED config
         \/ config' = saveShopConfig(list', key, sysName)
  PROVE  /\ Account' /\ ListGood(server'.slots, disk', list')
         /\ ConfigGood(server'.slots, disk', config')
         /\ at'.in # "listed" => Fresh(updatedOK', at'.in, list', config')
         /\ Job(updatedOK', job', list', server'.slots)
         /\ list'[c] = [list[c] EXCEPT !.active =
                          getChartStatus(list[c], dong, sys, updatedOK).active]
<1>0. Account /\ Scalars /\ ListGood(server.slots, disk, list) BY DEF IInv
<1> DEFINE e == list[c]
           a == getChartStatus(e, dong, sys, updatedOK).active
           f == [e EXCEPT !.active = a]
<1>1. DOMAIN list = Charts /\ Good(server.slots, disk, c, e) BY <1>0 DEF ListGood
<1>2. list'[c] = f /\ DOMAIN list' = Charts /\ \A d \in Charts : d # c => list'[d] = list[d]
  BY <1>1
<1>3. Good(server.slots, disk, c, f)
  <2>1. updatedOK \in BOOLEAN /\ Distinct(server.slots) BY <1>0, AccountParts DEF Scalars
  <2> HIDE DEF e
  <2> QED BY <1>1, <2>1, StatusGood
<1>4. f # NoEntry /\ f.ok = e.ok
  <2> HIDE DEF e, a
  <2>1. e \in Entry BY <1>1 DEF Good
  <2> QED BY <2>1, ActiveOnly
<1> HIDE DEF f
<1>5. Account' BY <1>0, AccountSame
<1>6. ListGood(server'.slots, disk', list') BY <1>0, <1>2, <1>3 DEF ListGood
<1>7. /\ ConfigGood(server'.slots, disk', config')
      /\ \/ UNCHANGED config
         \/ \A d \in Charts : config'.charts[d] # NoEntry => list'[d] # NoEntry
  <2>1. CASE UNCHANGED config BY <2>1 DEF IInv
  <2>2. CASE config' = saveShopConfig(list', key, sysName)
    <3>1. key \in 0..MaxKeys /\ sysName \in {None, Me} BY <1>0 DEF Scalars
    <3> QED BY <1>5, <1>6, <2>2, <3>1, Saves
  <2> QED BY <2>1, <2>2
<1>8. \A d \in Charts : list[d] # NoEntry <=> list'[d] # NoEntry BY <1>2, <1>4
<1>9. \A d \in Charts : list[d] # NoEntry => list'[d].ok = list[d].ok BY <1>2, <1>4
<1>10. at'.in # "listed" => Fresh(updatedOK', at'.in, list', config')
  BY <1>7, <1>8, <1>9 DEF IInv, Fresh
<1>11. Job(updatedOK', job', list', server'.slots) BY <1>8 DEF IInv, Job
<1> QED BY <1>2, <1>5, <1>6, <1>7, <1>10, <1>11 DEF f

LEMMA InstalledIsAssigned ==
  ASSUME NEW e, NEW dong, NEW sys, NEW ok \in BOOLEAN,
         getChartStatus(e, dong, sys, ok).status = "installed"
  PROVE  ~Unassigned(e, dong, sys)
<1> DEFINE s == getChartStatus(e, dong, sys, ok)
<1>1. \/ s.active = e.active /\ s.status # "installed"
      \/ ~Unassigned(e, dong, sys) /\ s.active = MineActive(e, dong, sys)
  BY StatusCases
<1> QED BY <1>1

\* The slot that becomes active is that of the name chosen, if it has one.
NameFor(e, dong, sys, status) ==
  IF status = "installed" THEN IF AssignedTo(e, dong) # {} THEN dong ELSE sys
  ELSE IF dong # None THEN dong ELSE sys
ActiveIfAssigned(f, name) ==
  name \in {Me, Dongle} /\ (AssignedTo(f, name) # {} => ActiveFor(f, name))

LEMMA ChosenActive ==
  ASSUME NEW sl, Distinct(sl), NEW dk, NEW c \in Charts, NEW e, Good(sl, dk, c, e), ~e.expired,
         NEW dong \in {None, Dongle}, NEW sys \in {None, Me},
         getChartStatus(e, dong, sys, TRUE).status = "installed" \/ dong # None \/ sys # None
  PROVE  ActiveIfAssigned([e EXCEPT !.active = getChartStatus(e, dong, sys, TRUE).active],
                          NameFor(e, dong, sys, getChartStatus(e, dong, sys, TRUE).status))
<1> DEFINE s == getChartStatus(e, dong, sys, TRUE)
           f == [e EXCEPT !.active = s.active]
           name == NameFor(e, dong, sys, s.status)
<1>1. e \in Entry BY DEF Good
<1>2. /\ AssignedTo(e, dong) # {} => ActiveFor(f, dong)
      /\ AssignedTo(e, dong) = {} /\ AssignedTo(e, sys) # {} => ActiveFor(f, sys)
  BY StatusMine
<1>3. \A n : AssignedTo(f, n) = AssignedTo(e, n)
  BY <1>1, ActiveOnly
<1>4. \A n : AssignedTo(e, n) # {} => n # None BY DEF AssignedTo
<1>5. s.status = "installed" => ~Unassigned(e, dong, sys)
  BY InstalledIsAssigned
<1> HIDE DEF s, f
<1>6. CASE s.status = "installed"
  <2>1. name = IF AssignedTo(e, dong) # {} THEN dong ELSE sys BY <1>6 DEF NameFor
  <2> QED BY <1>2, <1>3, <1>4, <1>5, <1>6, <2>1 DEF Unassigned, ActiveIfAssigned, f, s
<1>7. CASE s.status # "installed"
  <2>1. name = IF dong # None THEN dong ELSE sys BY <1>7 DEF NameFor
  <2> QED BY <1>2, <1>3, <1>4, <1>7, <2>1 DEF ActiveIfAssigned, f, s
<1> QED BY <1>6, <1>7

LEMMA ChooseInv ==
  ASSUME IInv, ChooseName PROVE IInv'
<1> DEFINE c == at.chart
           dong == IF plugged THEN Dongle ELSE None
           s == getChartStatus(list[c], dong, sysName, updatedOK)
           nameless == s.status # "installed" /\ dong = None /\ sysName = None
<1>0. Account /\ Scalars /\ ListGood(server.slots, disk, list) BY DEF IInv
<1>1. at \in Sections /\ at.in = "choose" /\ at.in \notin Plain
  BY DEF ChooseName, IInv, Handler, Plain
<1>2. c \in Charts /\ updatedOK /\ list[c] # NoEntry /\ ~list[c].expired
  BY <1>1, SectionParts DEF IInv, Handler
<1>3. UNCHANGED <<updatedOK, lastUuid, key, job, server, plugged, disk>>
  BY DEF ChooseName, world
<1>4. dong \in {None, Dongle} /\ sysName \in {None, Me} BY <1>0 DEF Scalars
<1>5. /\ dongName' = dong
      /\ list' = [list EXCEPT ![c].active = s.active]
      /\ \/ \E sys \in {sysName, Me} : /\ sys = sysName \/ nameless
                                       /\ sys = sysName => ~nameless
                                       /\ Choose(dong, sys, s) /\ UNCHANGED config
         \/ /\ nameless /\ at' = Idle /\ UNCHANGED sysName
            /\ config' = saveShopConfig(list', key, sysName)
  BY <1>4 DEF ChooseName, Choose, Me, None
<1> HIDE DEF c, dong
<1>6. UNCHANGED config \/ config' = saveShopConfig(list', key, sysName) BY <1>5
<1>7. /\ Account' /\ ListGood(server'.slots, disk', list')
      /\ ConfigGood(server'.slots, disk', config')
      /\ at'.in # "listed" => Fresh(updatedOK', at'.in, list', config')
      /\ Job(updatedOK', job', list', server'.slots)
      /\ list'[c] = [list[c] EXCEPT !.active = s.active]
  BY <1>2, <1>3, <1>5, <1>6, ChooseParts
<1>8. CASE nameless /\ at' = Idle /\ UNCHANGED sysName
  <2>1. Handler(updatedOK', at', list') /\ at'.in # "listed" BY <1>8, IdleHandler
  <2>2. Scalars' BY <1>0, <1>3, <1>4, <1>5, <1>8 DEF Scalars
  <2> QED BY <1>7, <2>1, <2>2 DEF IInv
<1>9. ASSUME NEW sys \in {sysName, Me}, sys = sysName \/ nameless, sys = sysName => ~nameless,
             Choose(dong, sys, s)
      PROVE  IInv'
  <2> DEFINE name == IF s.status = "installed"
                     THEN IF AssignedTo(list[c], dong) # {} THEN dong ELSE sys
                     ELSE IF dong # None THEN dong ELSE sys
             late == sys # sysName
             f == list'[c]
  <2>1. sysName' = sys /\ at' = [in |-> "upload", chart |-> c, late |-> late, name |-> name]
    BY <1>9 DEF Choose, c
  <2>2. Scalars' BY <1>0, <1>3, <1>4, <1>5, <2>1 DEF Scalars
  <2>3. /\ at'.in = "upload" /\ at'.chart = c /\ at'.late = late /\ at'.name = name
        /\ at'.in \notin Plain /\ at'.in \in Chosen /\ at'.in # "listed"
    BY <2>1 DEF Plain, Chosen
  <2>4. f # NoEntry /\ f.expired = list[c].expired
    <3>1. list[c] \in Entry BY <1>0, <1>2 DEF ListGood, Good
    <3> DEFINE e == list[c]
               g == [e EXCEPT !.active = s.active]
    <3>2. g # NoEntry /\ g.expired = e.expired
      <4> HIDE DEF e, s
      <4>1. e \in Entry BY <3>1 DEF e
      <4> QED BY <4>1, ActiveOnly
    <3> QED BY <1>7, <3>2
  <2>5. name \in {Me, Dongle} /\ (~late /\ AssignedTo(f, name) # {} => ActiveFor(f, name))
    <3>1. CASE nameless
      <4>1. sys = Me /\ late BY <1>9, <3>1
      <4> QED BY <3>1, <4>1
    <3>2. CASE ~nameless
      <4>1. sys = sysName /\ sys \in {None, Me} BY <1>4, <1>9, <3>2
      <4>2. s.status = "installed" \/ dong # None \/ sys # None BY <3>2, <4>1
      <4>3. s = getChartStatus(list[c], dong, sys, TRUE)
        <5>1. updatedOK = TRUE BY <1>0, <1>2 DEF Scalars
        <5> QED BY <4>1, <5>1
      <4>4. f = [list[c] EXCEPT !.active = getChartStatus(list[c], dong, sys, TRUE).active]
        BY <1>7, <4>3
      <4>5. name = NameFor(list[c], dong, sys, getChartStatus(list[c], dong, sys, TRUE).status)
        <5>1. name = NameFor(list[c], dong, sys, s.status) BY DEF NameFor
        <5> HIDE DEF name, s
        <5> QED BY <4>3, <5>1
      <4>6. Good(server.slots, disk, c, list[c]) /\ Distinct(server.slots)
        BY <1>0, <1>2, AccountParts DEF ListGood
      <4>7. ActiveIfAssigned(f, name)
        <5>1. getChartStatus(list[c], dong, sys, TRUE).status = "installed"
                \/ dong # None \/ sys # None
          BY <4>2, <4>3
        <5> HIDE DEF s, f, name
        <5>2. ActiveIfAssigned(
                [list[c] EXCEPT !.active = getChartStatus(list[c], dong, sys, TRUE).active],
                NameFor(list[c], dong, sys, getChartStatus(list[c], dong, sys, TRUE).status))
          BY <1>2, <1>4, <4>1, <4>6, <5>1, ChosenActive
        <5> QED BY <4>4, <4>5, <5>2
      <4> QED BY <4>7 DEF ActiveIfAssigned
    <3> QED BY <3>1, <3>2
  <2> HIDE DEF name, late, f, s
  <2>6. at' \in Sections
    <3>1. late \in BOOLEAN BY DEF late
    <3> QED BY <1>2, <2>1, <2>5, <3>1 DEF Sections, Chosen
  <2>7. Handler(updatedOK', at', list')
    BY <1>2, <1>3, <2>3, <2>4, <2>5, <2>6 DEF Handler, f
  <2> QED BY <1>7, <2>2, <2>3, <2>7 DEF IInv
<1> QED BY <1>5, <1>8, <1>9

(***************************************************************************)
(* The installation: the upload and the slot.                              *)
(***************************************************************************)
LEMMA UploadInv ==
  ASSUME IInv, UploadOK PROVE IInv'
<1>0. Account /\ Scalars BY DEF IInv
<1>1. /\ UNCHANGED <<list, updatedOK, config, disk, job>>
      /\ at.in = "upload" /\ at' = [at EXCEPT !.in = "assign"]
  BY DEF UploadOK, shopVars
<1>2. Account' /\ server'.slots = server.slots
  <2>1. server.named \in BOOLEAN BY <1>0 DEF Account
  <2>2. server' = [server EXCEPT !.named = server.named \/ at.name = Me]
    BY <1>0 DEF UploadOK, Account
  <2>3. (server.named \/ at.name = Me) \in BOOLEAN BY <2>1
  <2> QED BY <1>0, <2>2, <2>3, NamedAccount
<1>3. Scalars' BY <1>0 DEF UploadOK, shopVars, names, Scalars
<1> QED BY <1>1, <1>2, <1>3, QuietMove DEF Chosen

LEMMA UploadFailsInv ==
  ASSUME IInv, UploadFails PROVE IInv'
<1>0. Account /\ Scalars /\ ListGood(server.slots, disk, list) BY DEF IInv
<1>1. /\ UNCHANGED <<list, updatedOK, lastUuid, key, job, server, plugged, disk>>
      /\ at' = [in |-> "idle"]
      /\ \/ dongName' = None /\ UNCHANGED <<sysName, config>>
         \/ sysName' = None /\ UNCHANGED dongName /\ config' = saveShopConfig(list, key, None)
  BY DEF UploadFails, shopVars, world, Idle
<1>2. Scalars' BY <1>0, <1>1 DEF Scalars
<1>3. CASE UNCHANGED config BY <1>1, <1>2, <1>3, QuietPlain DEF Plain
<1>4. CASE config' = saveShopConfig(list, key, None)
  <2>1. Account' /\ ListGood(server'.slots, disk', list') BY <1>0, <1>1, AccountSame
  <2>2. key \in 0..MaxKeys /\ None \in {None, Me} BY <1>0 DEF Scalars
  <2>3. config' = saveShopConfig(list', key, None) BY <1>1, <1>4
  <2>4. /\ ConfigGood(server'.slots, disk', config')
        /\ \A c \in Charts : config'.charts[c] # NoEntry => list'[c] # NoEntry
    BY <2>1, <2>2, <2>3, Saves
  <2>5. Handler(updatedOK', at', list') /\ at'.in = "idle" BY <1>1, PlainHandler DEF Plain
  <2>6. Fresh(updatedOK', at'.in, list', config') BY <1>1, <2>4, <2>5 DEF Fresh, IInv
  <2>7. Job(updatedOK', job', list', server'.slots) BY <1>1 DEF IInv
  <2> QED BY <1>2, <2>1, <2>4, <2>5, <2>6, <2>7 DEF IInv
<1> QED BY <1>1, <1>3, <1>4

\* NoneAvailable, AssignFails, Assigned, InstallFails.
LEMMA AssignQuietInv ==
  ASSUME IInv, NoneAvailable \/ AssignFails \/ Assigned \/ InstallFails PROVE IInv'
<1>0. Account /\ Scalars BY DEF IInv
<1>1. ASSUME NoneAvailable \/ AssignFails PROVE IInv'
  <2>1. /\ UNCHANGED <<list, updatedOK, config, disk, server, job>>
        /\ at' = [in |-> "idle"]
    BY <1>1 DEF NoneAvailable, AssignFails, shopVars, world, Idle
  <2>2. Scalars' BY <1>0, <1>1 DEF NoneAvailable, AssignFails, shopVars, names, world, Scalars
  <2> QED BY <2>1, <2>2, QuietPlain DEF Plain
<1>2. ASSUME Assigned PROVE IInv'
  <2>1. /\ UNCHANGED <<list, updatedOK, config, disk, server, job>>
        /\ at.in = "assign" /\ at' = [at EXCEPT !.in = "slot"]
        /\ AssignedTo(list[at.chart], at.name) # {}
    BY <1>2 DEF Assigned, NeedAssign, shopVars, world
  <2>2. Scalars' BY <1>0, <1>2 DEF Assigned, shopVars, names, world, Scalars
  <2>3. Account' BY <1>0, <2>1, AccountSame
  <2> QED BY <2>1, <2>2, <2>3, QuietMove DEF Chosen
<1>3. ASSUME InstallFails PROVE IInv'
  <2>1. /\ UNCHANGED <<list, updatedOK, config, disk, server, at>> /\ job' = NoJob
    BY <1>3 DEF InstallFails, shopVars, world
  <2>2. Scalars' BY <1>0, <1>3 DEF InstallFails, shopVars, names, world, Scalars
  <2>3. Account' BY <1>0, <2>1, AccountSame
  <2>4. Job(updatedOK, job', list, server.slots) BY <2>1, NoJobIsFine
  <2> QED BY <2>1, <2>2, <2>3, <2>4, Quiet DEF IInv
<1> QED BY <1>1, <1>2, <1>3

LEMMA TakeInv ==
  ASSUME IInv, TakeSlot PROVE IInv'
<1> DEFINE c == at.chart
           e == list[c]
<1>0. Account /\ Scalars /\ ListGood(server.slots, disk, list) BY DEF IInv
<1>1. /\ UNCHANGED <<list, updatedOK, config, disk, server>> /\ Scalars'
      /\ at.in = "slot" /\ at' = [in |-> "idle"]
  BY <1>0 DEF TakeSlot, shopVars, names, world, Idle, Scalars
<1>2. at \in Sections /\ at.in \in Chosen /\ at.in \notin Plain
  BY <1>1 DEF IInv, Handler, Chosen, Plain
<1>3. c \in Charts /\ at.late \in BOOLEAN /\ at.name \in {Me, Dongle} BY <1>2, SectionParts
<1>4. updatedOK /\ e # NoEntry /\ (~at.late => ActiveFor(e, at.name))
  BY <1>1, <1>2 DEF IInv, Handler
<1>5. Good(server.slots, disk, c, e) BY <1>0, <1>3, <1>4 DEF ListGood
<1>6. Job(updatedOK, job', list, server.slots)
  <2>1. CASE e.active = NoActive BY <2>1, NoJobIsFine DEF TakeSlot
  <2>2. CASE e.active # NoActive
    <3> DEFINE u == ActiveSlot(e).uuid
    <3>1. job' = [chart |-> c, slot |-> u, name |-> at.name, late |-> at.late]
      BY <2>2 DEF TakeSlot
    <3>2. PICK p \in SlotsOf(e) : ActiveSlot(e) = Slot(e, p)
      <4> HIDE DEF e
      <4> QED BY <1>5, <2>2, TheActive
    <3>3. /\ e.qtys[p[1]].id \in 1..Quantities /\ Slot(e, p) \in SlotRecord
          /\ Genuine(server.slots, disk, c, e.qtys[p[1]].id, Slot(e, p))
      <4> HIDE DEF e
      <4> QED BY <1>5, SlotFacts
    <3>4. u \in 1..MaxUuid BY <3>2, <3>3 DEF SlotRecord
    <3>5. ~at.late => \E q \in 1..Quantities : Has(server.slots, c, q, u, at.name)
      BY <1>4, <3>2, <3>3 DEF Genuine, ActiveFor
    <3> HIDE DEF u
    <3>6. /\ job' \in [chart : Charts, slot : 1..MaxUuid, name : {Me, Dongle}, late : BOOLEAN]
          /\ job'.chart = c /\ job'.slot = u /\ job'.name = at.name /\ job'.late = at.late
      BY <1>3, <3>1, <3>4
    <3> QED BY <1>4, <3>5, <3>6 DEF Job
  <2> QED BY <2>1, <2>2
<1>7. Handler(updatedOK, at', list) /\ at'.in = "idle" BY <1>1, PlainHandler DEF Plain
<1>8. Account' BY <1>0, <1>1, AccountSame
<1> QED BY <1>1, <1>6, <1>7, <1>8, Quiet

(***************************************************************************)
(* doAssign.                                                               *)
(***************************************************************************)
LEMMA NewSlotGood ==
  ASSUME NEW sl, Distinct(sl), NEW dk, NEW c \in Charts, NEW e, Good(sl, dk, c, e),
         NEW i \in 1..Len(e.qtys), NEW s \in SlotRecord,
         Genuine(sl, dk, c, e.qtys[i].id, s),
         \A p \in SlotsOf(e) : Slot(e, p).uuid # s.uuid,
         NEW a, a = [q |-> e.qtys[i].id, s |-> Len(e.qtys[i].slots) + 1],
         NEW f, f = [Appended(e, i, s) EXCEPT !.active = a]
  PROVE  /\ Good(sl, dk, c, f) /\ f.ok = e.ok /\ f.expired = e.expired /\ Keeps(f, e)
         /\ ActiveFor(f, s.system)
<1> DEFINE g == Appended(e, i, s)
           n == Len(e.qtys[i].slots) + 1
<1>1. e \in Entry BY DEF Good
<1>2. ASSUME NEW j \in 1..Len(e.qtys[i].slots) PROVE e.qtys[i].slots[j].uuid # s.uuid
  <2>1. <<i, j>> \in SlotsOf(e) /\ Slot(e, <<i, j>>) = e.qtys[i].slots[j]
    BY SlotsAre DEF Slot
  <2> QED BY <2>1
<1>3. Good(sl, dk, c, g) BY <1>2, AppendedGood
<1>4. IsAppended(g, e, i, s) BY <1>1, AppendedParts
<1>5. Keeps(g, e) BY <1>1, AppendedSlots DEF Keeps
<1> HIDE DEF g
<1>6. /\ i \in 1..Len(g.qtys) /\ g.qtys[i].id = e.qtys[i].id
      /\ Len(g.qtys[i].slots) = n /\ g.qtys[i].slots[n] = s
      /\ g.ok = e.ok /\ g.expired = e.expired
  BY <1>4 DEF IsAppended
<1>7. Len(e.qtys[i].slots) \in Nat BY <1>1, EntryParts
<1> DEFINE p == <<i, n>>
<1>8. n \in 1..Len(g.qtys[i].slots) BY <1>6, <1>7
<1>9. p \in SlotsOf(g) /\ Slot(g, p) = s
  BY <1>6, <1>8, SlotsAre DEF Slot
<1>10. a = [q |-> g.qtys[p[1]].id, s |-> p[2]] BY <1>6
<1> HIDE DEF p
<1>11. Good(sl, dk, c, [g EXCEPT !.active = a]) /\ ActiveFor([g EXCEPT !.active = a], s.system)
  <2>1. Good(sl, dk, c, [g EXCEPT !.active = a])
          /\ ActiveFor([g EXCEPT !.active = a], Slot(g, p).system)
    BY <1>3, <1>9, <1>10, ActiveIs
  <2> QED BY <1>9, <2>1
<1>12. f = [g EXCEPT !.active = a] BY DEF g
<1>13. f.ok = e.ok /\ f.expired = e.expired /\ Keeps(f, e)
  <2>1. g \in Entry BY <1>3 DEF Good
  <2>2. /\ f.ok = g.ok /\ f.expired = g.expired
        /\ SlotsOf(f) = SlotsOf(g) /\ \A r : Slot(f, r) = Slot(g, r)
    <3>1. /\ [g EXCEPT !.active = a].ok = g.ok /\ [g EXCEPT !.active = a].expired = g.expired
          /\ SlotsOf([g EXCEPT !.active = a]) = SlotsOf(g)
          /\ \A r : Slot([g EXCEPT !.active = a], r) = Slot(g, r)
      BY <2>1, ActiveOnly
    <3> QED BY <1>12, <3>1
  <2> QED BY <1>5, <1>6, <2>2 DEF Keeps
<1> QED BY <1>11, <1>12, <1>13

\* The slot that doAssign adds is the one the server has just assigned.
Adds(c, i, name) ==
  list' = [list EXCEPT ![c] = [Appended(list[c], i, NewSlot(name)) EXCEPT
                                 !.active = LastAdded(list[c], i)]]

AddSlot(l, c, i, s, a) ==
  [l EXCEPT ![c].qtys[i].slots = Append(@, s), ![c].active = a]
SetEntry(l, c, i, s, a) == [l EXCEPT ![c] = [Appended(l[c], i, s) EXCEPT !.active = a]]

LEMMA AddIs ==
  ASSUME NEW l, NEW c \in DOMAIN l, l[c] \in Entry,
         NEW i \in 1..Len(l[c].qtys), NEW s, NEW a
  PROVE  AddSlot(l, c, i, s, a) = SetEntry(l, c, i, s, a)
  BY DEF Appended, AddSlot, SetEntry

LEMMA AssignParts ==
  ASSUME IInv, doAssign
  PROVE  /\ at.in = "assign" /\ at.chart \in Charts /\ at.name \in {Me, Dongle}
         /\ AssignedTo(list[at.chart], at.name) = {}
         /\ UNCHANGED <<updatedOK, sysName, dongName, key, config, job, plugged, disk>>
         /\ \E i \in 1..Len(list[at.chart].qtys) :
              /\ Assigns(at.chart, list[at.chart].qtys[i].id, at.name)
              /\ \/ /\ lastUuid' = server'.uuids /\ Adds(at.chart, i, at.name)
                    /\ at' = [at EXCEPT !.in = "slot"]
                 \/ at' = Idle /\ UNCHANGED <<list, lastUuid>>
<1> DEFINE c == at.chart
           free == Available(list[c])
           i == CHOOSE n \in free : \A m \in free : n <= m
<1>1. at \in Sections /\ at.in = "assign" /\ at.in \in Chosen /\ at.in \notin Plain
  BY DEF doAssign, IInv, Handler, Chosen, Plain
<1>2. c \in Charts /\ at.name \in {Me, Dongle} /\ list[c] # NoEntry
  BY <1>1, SectionParts DEF IInv, Handler
<1>3. list[c] \in Entry /\ DOMAIN list = Charts BY <1>2 DEF IInv, ListGood, Good
<1>4. free \subseteq Nat /\ free \subseteq 1..Len(list[c].qtys) BY DEF Available
<1>5. free # {} BY DEF doAssign
<1>6. i \in 1..Len(list[c].qtys)
  <2> HIDE DEF free
  <2>1. i \in free BY <1>4, <1>5, LeastExists
  <2> QED BY <1>4, <2>1
<1>7. /\ Assigns(c, list[c].qtys[i].id, at.name)
      /\ \/ /\ lastUuid' = server'.uuids
            /\ list' = [list EXCEPT ![c].qtys[i].slots = Append(@, NewSlot(at.name)),
                                    ![c].active = LastAdded(list[c], i)]
            /\ at' = [at EXCEPT !.in = "slot"]
         \/ at' = Idle /\ UNCHANGED <<list, lastUuid>>
  BY DEF doAssign
<1> HIDE DEF i
<1>8. [list EXCEPT ![c].qtys[i].slots = Append(@, NewSlot(at.name)),
                   ![c].active = LastAdded(list[c], i)]
        = [list EXCEPT ![c] = [Appended(list[c], i, NewSlot(at.name)) EXCEPT
                                 !.active = LastAdded(list[c], i)]]
  <2> DEFINE s == NewSlot(at.name)
             a == LastAdded(list[c], i)
             e == list[c]
  <2>1. e \in Entry /\ i \in 1..Len(e.qtys) BY <1>3, <1>6
  <2> HIDE DEF s, a, c
  <2>2. AddSlot(list, c, i, s, a) = SetEntry(list, c, i, s, a)
    BY <1>2, <1>3, <1>6, AddIs
  <2> QED BY <2>2 DEF s, a, AddSlot, SetEntry
<1>9. /\ UNCHANGED <<updatedOK, sysName, dongName, key, config, job, plugged, disk>>
      /\ AssignedTo(list[c], at.name) = {}
  BY DEF doAssign, names, NeedAssign
<1> QED BY <1>1, <1>2, <1>6, <1>7, <1>8, <1>9 DEF Adds

LEMMA AddGood ==
  ASSUME IInv, NEW c \in Charts, list[c] # NoEntry, NEW i \in 1..Len(list[c].qtys),
         NEW name \in {Me, Dongle}, Assigns(c, list[c].qtys[i].id, name), UNCHANGED disk,
         lastUuid' = server'.uuids, Adds(c, i, name)
  PROVE  /\ ListGood(server'.slots, disk', list')
         /\ list'[c].ok = list[c].ok /\ list'[c].expired = list[c].expired
         /\ Keeps(list'[c], list[c]) /\ ActiveFor(list'[c], name)
         /\ \A d \in Charts : /\ list'[d] # NoEntry <=> list[d] # NoEntry
                              /\ d # c => list'[d] = list[d]
<1> DEFINE e == list[c]
           q == e.qtys[i].id
           s == NewSlot(name)
           a == LastAdded(e, i)
           f == [Appended(e, i, s) EXCEPT !.active = a]
           tl == server'.slots
<1>0. Account /\ ListGood(server.slots, disk, list) BY DEF IInv
<1>1. Good(server.slots, disk, c, e) /\ e \in Entry /\ q \in 1..Quantities /\ name \in Names
  BY <1>0, EntryParts DEF ListGood, Good, Names
<1>2. /\ Account' /\ Grows(server.slots, tl)
      /\ server'.uuids = server.uuids + 1 /\ server'.uuids \in 1..MaxUuid
      /\ Has(tl, c, q, server'.uuids, name)
  BY <1>0, <1>1, AssignsGood
<1>3. Distinct(tl) BY <1>2 DEF Account
<1>4. ListGood(tl, disk, list) BY <1>0, <1>2, ListGrows
<1>5. Good(tl, disk, c, e) BY <1>1, <1>4 DEF ListGood
<1>6. s \in SlotRecord /\ s.uuid = server'.uuids /\ s.system = name /\ s.inst = FALSE
  BY <1>1, <1>2 DEF NewSlot, SlotRecord
<1>7. Genuine(tl, disk, c, q, s) BY <1>2, <1>6 DEF Genuine
<1>8. ASSUME NEW p \in SlotsOf(e) PROVE Slot(e, p).uuid # s.uuid
  <2>1. /\ e.qtys[p[1]].id \in 1..Quantities
        /\ Has(server.slots, c, e.qtys[p[1]].id, Slot(e, p).uuid, Slot(e, p).system)
    <3> HIDE DEF e
    <3> QED BY <1>1, SlotFacts DEF Genuine
  <2>2. PICK j \in 1..Len(server.slots[c][e.qtys[p[1]].id]) :
          server.slots[c][e.qtys[p[1]].id][j].uuid = Slot(e, p).uuid
    BY <2>1 DEF Has
  <2>3. Slot(e, p).uuid <= server.uuids
    <3>1. server.slots[c][e.qtys[p[1]].id][j].uuid <= server.uuids
      BY <1>0, <2>1 DEF Account
    <3> QED BY <2>2, <3>1
  <2>4. server.uuids \in Nat BY <1>0, ServerParts
  <2> QED BY <1>2, <1>6, <2>3, <2>4
<1>9. a = [q |-> e.qtys[i].id, s |-> Len(e.qtys[i].slots) + 1] BY DEF LastAdded
<1>10. /\ Good(tl, disk, c, f) /\ f.ok = e.ok /\ f.expired = e.expired /\ Keeps(f, e)
       /\ ActiveFor(f, s.system)
  <2> HIDE DEF e, s, a, tl
  <2>1. i \in 1..Len(e.qtys) /\ Genuine(tl, disk, c, e.qtys[i].id, s) BY <1>7 DEF e
  <2> QED BY <1>3, <1>5, <1>6, <1>8, <1>9, <2>1, NewSlotGood
<1>11. list' = [list EXCEPT ![c] = f] BY DEF Adds
<1> HIDE DEF f, s
<1>12. list'[c] = f /\ DOMAIN list' = Charts /\ \A d \in Charts : d # c => list'[d] = list[d]
  BY <1>0, <1>11 DEF ListGood
<1>13. f # NoEntry BY <1>10, NoEntryIsNone DEF Good
<1>14. ListGood(tl, disk, list') BY <1>4, <1>10, <1>12 DEF ListGood
<1> QED BY <1>6, <1>10, <1>12, <1>13, <1>14

LEMMA AssignInv ==
  ASSUME IInv, doAssign PROVE IInv'
<1> DEFINE c == at.chart
<1>0. Account /\ Scalars /\ ListGood(server.slots, disk, list) BY DEF IInv
<1>1. /\ at.in = "assign" /\ c \in Charts /\ at.name \in {Me, Dongle}
      /\ UNCHANGED <<updatedOK, sysName, dongName, key, config, job, plugged, disk>>
  BY AssignParts
<1>2. PICK i \in 1..Len(list[c].qtys) :
        /\ Assigns(c, list[c].qtys[i].id, at.name)
        /\ \/ /\ lastUuid' = server'.uuids /\ Adds(c, i, at.name)
              /\ at' = [at EXCEPT !.in = "slot"]
           \/ at' = Idle /\ UNCHANGED <<list, lastUuid>>
  BY AssignParts
<1>3. at \in Sections /\ at.in \in Chosen /\ at.in \notin Plain
  BY <1>1 DEF IInv, Handler, Chosen, Plain
<1>4. updatedOK /\ list[c] # NoEntry /\ ~list[c].expired BY <1>3 DEF IInv, Handler
<1>5. /\ Account' /\ Grows(server.slots, server'.slots) /\ server'.uuids \in 1..MaxUuid
  <2>1. list[c].qtys[i].id \in 1..Quantities /\ at.name \in Names
    BY <1>0, <1>1, <1>4, EntryParts DEF ListGood, Good, Names
  <2> QED BY <1>0, <1>1, <1>2, <2>1, AssignsGood
<1>6. ConfigGood(server'.slots, disk', config') BY <1>1, <1>5, ConfigGrows DEF IInv
<1>7. Job(updatedOK, job, list, server'.slots) BY <1>5, JobGrows DEF IInv
<1>8. CASE at' = Idle /\ UNCHANGED <<list, lastUuid>>
  <2>1. ListGood(server'.slots, disk', list') BY <1>0, <1>1, <1>5, <1>8, ListGrows
  <2>2. Handler(updatedOK', at', list') /\ at'.in # "listed" BY <1>8, IdleHandler
  <2>3. Scalars' BY <1>0, <1>1, <1>8 DEF Scalars
  <2>4. Fresh(updatedOK', at'.in, list', config') BY <1>1, <1>4, <1>8 DEF Fresh, IInv
  <2>5. Job(updatedOK', job', list', server'.slots) BY <1>1, <1>7, <1>8
  <2> QED BY <1>5, <1>6, <2>1, <2>2, <2>3, <2>4, <2>5 DEF IInv
<1>9. CASE /\ lastUuid' = server'.uuids /\ Adds(c, i, at.name)
           /\ at' = [at EXCEPT !.in = "slot"]
  <2> HIDE DEF c
  <2>1. /\ ListGood(server'.slots, disk', list')
        /\ list'[c].ok = list[c].ok /\ list'[c].expired = list[c].expired
        /\ ActiveFor(list'[c], at.name)
        /\ \A d \in Charts : /\ list'[d] # NoEntry <=> list[d] # NoEntry
                             /\ d # c => list'[d] = list[d]
    BY <1>1, <1>2, <1>4, <1>9, AddGood
  <2>2. /\ at' \in Sections /\ at'.in = "slot" /\ at'.chart = c /\ at'.name = at.name
    BY <1>3, <1>9, Moved DEF Chosen, c
  <2>3. Handler(updatedOK', at', list')
    BY <1>1, <1>4, <2>1, <2>2 DEF Handler
  <2>4. Scalars' BY <1>0, <1>1, <1>5, <1>9 DEF Scalars
  <2>5. Fresh(updatedOK', at'.in, list', config')
    BY <1>1, <1>4, <2>1, <2>2 DEF Fresh, IInv
  <2>6. Job(updatedOK', job', list', server'.slots) BY <1>1, <1>7, <2>1 DEF Job
  <2> QED BY <1>5, <1>6, <2>1, <2>3, <2>4, <2>5, <2>6 DEF IInv
<1> QED BY <1>2, <1>8, <1>9

(***************************************************************************)
(* The end of an installation.                                             *)
(***************************************************************************)
\* The slot the job names, if the entry still has it.
TheSlot == IF list[job.chart] = NoEntry THEN {} ELSE WithUuid(list[job.chart], job.slot)

\* What InstallDone does to the list and to what is installed.
Installs ==
  /\ ListGood(server.slots, disk', list') /\ disk \subseteq disk'
  /\ disk' \subseteq Charts \X Names
  /\ \A c \in Charts :
       /\ list'[c] # NoEntry <=> list[c] # NoEntry
       /\ list[c] # NoEntry => list'[c].ok = list[c].ok
       /\ \A name : list[c] # NoEntry /\ Recorded(list[c], name) => Recorded(list'[c], name)
  /\ \A d \in disk' : d \in disk \/ (list'[d[1]] # NoEntry /\ Recorded(list'[d[1]], d[2]))

SetInList(l, c, p) == [l EXCEPT ![c].qtys[p[1]].slots[p[2]].inst = TRUE]

LEMMA SetIs ==
  ASSUME NEW l, NEW c \in DOMAIN l, NEW p, NEW f, f = SetInst(l[c], p)
  PROVE  SetInList(l, c, p) = [l EXCEPT ![c] = f]
  BY DEF SetInst, SetInList

SetFine(sl, ek, c, e, m, f) ==
  /\ Good(sl, ek, c, f) /\ f.ok = e.ok
  /\ \A name : Recorded(e, name) \/ name = m => Recorded(f, name)

LEMMA SetIsFine ==
  ASSUME NEW sl, NEW dk, NEW c \in Charts, NEW e, Good(sl, dk, c, e), NEW p \in SlotsOf(e)
  PROVE  SetFine(sl, dk \cup {<<c, Slot(e, p).system>>}, c, e, Slot(e, p).system, SetInst(e, p))
<1> DEFINE ek == dk \cup {<<c, Slot(e, p).system>>}
<1>1. ek = dk \cup {<<c, Slot(e, p).system>>} OBVIOUS
<1> HIDE DEF ek
<1>2. /\ Good(sl, ek, c, SetInst(e, p)) /\ SetInst(e, p).ok = e.ok
      /\ \A name : Recorded(e, name) \/ name = Slot(e, p).system => Recorded(SetInst(e, p), name)
  BY <1>1, SetInstGood
<1> QED BY <1>1, <1>2 DEF SetFine

LEMMA InstallsAll ==
  ASSUME IInv, InstallDone PROVE Installs
<1> DEFINE c == job.chart
           e == list[c]
           p == First(e, TheSlot)
           f == SetInst(e, p)
<1>0. Account /\ ListGood(server.slots, disk, list) /\ disk \subseteq Charts \X Names
  BY DEF IInv, Scalars
<1>1. c \in Charts BY DEF InstallDone, IInv, Job
<1>2. CASE TheSlot = {}
  <2>1. UNCHANGED <<list, disk>> BY <1>2 DEF InstallDone, TheSlot
  <2> QED BY <1>0, <2>1 DEF Installs
<1>3. CASE TheSlot # {}
  <2>1. e # NoEntry /\ TheSlot = WithUuid(e, job.slot) BY <1>3 DEF TheSlot
  <2>2. Good(server.slots, disk, c, e) BY <1>0, <1>1, <2>1 DEF ListGood
  <2>3. Distinct(server.slots) BY <1>0, AccountParts
  <2>4. PICK r \in SlotsOf(e) : Slot(e, r).uuid = job.slot BY <1>3, <2>1 DEF WithUuid
  <2>5. p = r
    <3>1. First(e, WithUuid(e, Slot(e, r).uuid)) = r
      <4> HIDE DEF e
      <4> QED BY <1>1, <2>2, <2>3, <2>4, TheUuid
    <3> QED BY <2>1, <2>4, <3>1
  <2>6. /\ list' = [list EXCEPT ![c].qtys[p[1]].slots[p[2]].inst = TRUE]
        /\ disk' = disk \cup {<<c, Slot(e, p).system>>}
    BY <1>3, <2>1 DEF InstallDone, TheSlot
  <2>7. list' = [list EXCEPT ![c] = f]
    <3>1. c \in DOMAIN list BY <1>0, <1>1 DEF ListGood
    <3>2. f = SetInst(list[c], p) OBVIOUS
    <3>3. list' = SetInList(list, c, p) BY <2>6 DEF SetInList
    <3> HIDE DEF p, c, f, e
    <3>4. SetInList(list, c, p) = [list EXCEPT ![c] = f] BY <3>1, <3>2, SetIs
    <3> QED BY <3>3, <3>4
  <2>8. /\ Good(server.slots, disk', c, f) /\ f.ok = e.ok
        /\ \A name : Recorded(e, name) \/ name = Slot(e, p).system => Recorded(f, name)
    <3> HIDE DEF c, e, p
    <3>1. p \in SlotsOf(e) BY <2>5
    <3>2. SetFine(server.slots, disk \cup {<<c, Slot(e, p).system>>}, c, e, Slot(e, p).system,
                  SetInst(e, p))
      BY <1>1, <2>2, <3>1, SetIsFine
    <3> HIDE DEF f
    <3>3. SetFine(server.slots, disk', c, e, Slot(e, p).system, f) BY <2>6, <3>2 DEF f
    <3> QED BY <3>3 DEF SetFine
  <2>9. Slot(e, p).system \in Names
    <3> HIDE DEF e
    <3>1. Slot(e, r) \in SlotRecord BY <2>2, SlotFacts
    <3> QED BY <2>5, <3>1 DEF SlotRecord
  <2> DEFINE m == Slot(e, p).system
  <2>10. Recorded(f, m) /\ m \in Names BY <2>8, <2>9
  <2>11. \A name : Recorded(e, name) => Recorded(f, name) BY <2>8
  <2>12. disk' = disk \cup {<<c, m>>} BY <2>6
  <2>13. f # NoEntry BY <2>8, NoEntryIsNone DEF Good
  <2> HIDE DEF f, p, m
  <2>14. /\ DOMAIN list' = Charts /\ list'[c] = f
         /\ \A d \in Charts : d # c => list'[d] = list[d]
    BY <1>0, <1>1, <2>7 DEF ListGood
  <2>15. disk \subseteq disk' /\ disk' \subseteq Charts \X Names BY <1>0, <1>1, <2>10, <2>12
  <2>16. ListGood(server.slots, disk', list)
    BY <1>0, <2>15, ListGrows, GrowsSelf
  <2>17. ListGood(server.slots, disk', list')
    BY <2>8, <2>14, <2>16 DEF ListGood
  <2>18. ASSUME NEW d \in Charts
         PROVE  /\ list'[d] # NoEntry <=> list[d] # NoEntry
                /\ list[d] # NoEntry => list'[d].ok = list[d].ok
                /\ \A name : list[d] # NoEntry /\ Recorded(list[d], name) => Recorded(list'[d], name)
    <3>1. CASE d = c
      <4> HIDE DEF c
      <4> QED BY <3>1, <2>1, <2>8, <2>11, <2>13, <2>14
    <3>2. CASE d # c BY <3>2, <2>14
    <3> QED BY <3>1, <3>2
  <2>19. ASSUME NEW d \in disk'
         PROVE  d \in disk \/ (list'[d[1]] # NoEntry /\ Recorded(list'[d[1]], d[2]))
    <3>1. CASE d = <<c, m>>
      <4>1. d[1] = c /\ d[2] = m BY <3>1
      <4> HIDE DEF c
      <4> QED BY <4>1, <2>10, <2>13, <2>14
    <3> QED BY <2>12, <3>1
  <2> QED BY <2>15, <2>17, <2>18, <2>19 DEF Installs
<1> QED BY <1>2, <1>3

LEMMA DoneInstallInv ==
  ASSUME IInv, InstallDone PROVE IInv'
<1>0. Account /\ Scalars BY DEF IInv
<1>1. /\ UNCHANGED <<updatedOK, lastUuid, sysName, dongName, key, at, server, plugged>>
      /\ at = Idle /\ job' = NoJob /\ config' = saveShopConfig(list', key, sysName)
  BY DEF InstallDone, names, world
<1>2. Installs BY InstallsAll
<1>3. Account' BY <1>0, <1>1, AccountSame
<1>4. ListGood(server'.slots, disk', list') BY <1>1, <1>2 DEF Installs
<1>5. key \in 0..MaxKeys /\ sysName \in {None, Me} BY <1>0 DEF Scalars
<1>6. /\ ConfigGood(server'.slots, disk', config')
      /\ \A c \in Charts : config'.charts[c] # NoEntry => list'[c] # NoEntry
  BY <1>1, <1>3, <1>4, <1>5, Saves
<1>7. Scalars' BY <1>0, <1>1, <1>2 DEF Scalars, Installs
<1>8. Handler(updatedOK', at', list') /\ at'.in = "idle" BY <1>1, IdleHandler
<1>9. Fresh(updatedOK', at'.in, list', config')
  BY <1>1, <1>2, <1>6, <1>8 DEF Fresh, Installs, IInv
<1>10. Job(updatedOK', job', list', server'.slots) BY <1>1, NoJobIsFine
<1> QED BY <1>3, <1>4, <1>6, <1>7, <1>8, <1>9, <1>10 DEF IInv

(***************************************************************************)
(* Preferences, the panel created again, a restart.                        *)
(***************************************************************************)
LEMMA ClearInv ==
  ASSUME IInv, ClearSystemName \/ ClearCredentials PROVE IInv'
<1>0. Account /\ Scalars /\ ListGood(server.slots, disk, list) BY DEF IInv
<1>1. ASSUME ClearSystemName PROVE IInv'
  <2>1. UNCHANGED <<list, updatedOK, config, disk, at, job, server>> /\ Scalars'
    BY <1>0, <1>1 DEF ClearSystemName, shopVars, world, Scalars
  <2>2. Account' BY <1>0, <2>1, AccountSame
  <2> QED BY <2>1, <2>2, QuietWorld
<1>2. ASSUME ClearCredentials PROVE IInv'
  <2>1. /\ UNCHANGED <<list, updatedOK, lastUuid, sysName, dongName, at, job, server, plugged, disk>>
        /\ key' = 0 /\ config' = saveShopConfig(list, 0, sysName) /\ at = Idle
    BY <1>2 DEF ClearCredentials, shopVars, world
  <2>2. Account' /\ ListGood(server'.slots, disk', list') BY <1>0, <2>1, AccountSame
  <2>3. 0 \in 0..MaxKeys /\ sysName \in {None, Me} BY <1>0, ShopAssumption DEF Scalars
  <2>4. config' = saveShopConfig(list', 0, sysName) BY <2>1
  <2>5. /\ ConfigGood(server'.slots, disk', config')
        /\ \A c \in Charts : config'.charts[c] # NoEntry => list'[c] # NoEntry
    BY <2>2, <2>3, <2>4, Saves
  <2>6. Scalars' BY <1>0, <2>1, <2>3 DEF Scalars
  <2>7. Handler(updatedOK', at', list') /\ at'.in = "idle" BY <2>1, IdleHandler
  <2>8. Fresh(updatedOK', at'.in, list', config') BY <2>1, <2>5, <2>7 DEF Fresh, IInv
  <2>9. Job(updatedOK', job', list', server'.slots) BY <2>1 DEF IInv
  <2> QED BY <2>2, <2>5, <2>6, <2>7, <2>8, <2>9 DEF IInv
<1> QED BY <1>1, <1>2

Empty == [c \in Charts |-> NoEntry]

LEMMA EmptyGood == ASSUME NEW sl, NEW dk PROVE ListGood(sl, dk, Empty)
  BY DEF ListGood, Empty

\* The file loaded over a good list, and saved again.
LEMMA OpenInv ==
  ASSUME IInv, NEW l, ListGood(server.slots, disk, l), OpenPanel(l),
         UNCHANGED <<server, plugged, disk>>, updatedOK' \in BOOLEAN, lastUuid' \in 0..MaxUuid,
         at' = Idle, job' = NoJob, updatedOK' => updatedOK /\ l = list
  PROVE  IInv'
<1>0. Account /\ Scalars /\ ConfigGood(server.slots, disk, config) BY DEF IInv
<1>1. /\ list' = loadShopConfig(l) /\ key' = config.key /\ sysName' = config.name
      /\ dongName' = IF plugged THEN Dongle ELSE None
      /\ config' = saveShopConfig(list', key', sysName')
  BY DEF OpenPanel
<1> DEFINE m == loadShopConfig(l)
<1>2. /\ ListGood(server.slots, disk, m)
      /\ \A c \in Charts : l[c] # NoEntry => m[c] # NoEntry /\ m[c].ok = l[c].ok
  BY <1>0, LoadGood
<1>3. \A c \in Charts : config.charts[c] = NoEntry => m[c] = l[c] BY LoadIs
<1> HIDE DEF m
<1>4. list' = m BY <1>1 DEF m
<1>5. Account' /\ ListGood(server'.slots, disk', list') BY <1>0, <1>2, <1>4, AccountSame
<1>6. key' \in 0..MaxKeys /\ sysName' \in {None, Me} BY <1>0, <1>1 DEF ConfigGood
<1>7. /\ ConfigGood(server'.slots, disk', config')
      /\ \A c \in Charts : config'.charts[c] # NoEntry => list'[c] # NoEntry
  BY <1>1, <1>5, <1>6, Saves
<1>8. Scalars'
  <2>1. dongName' \in {None, Dongle} BY <1>1
  <2> QED BY <1>0, <1>6, <2>1 DEF Scalars
<1>9. Handler(updatedOK', at', list') /\ at'.in = "idle" BY IdleHandler
<1>10. Fresh(updatedOK', at'.in, list', config')
  BY <1>2, <1>3, <1>4, <1>7, <1>9 DEF Fresh, IInv
<1>11. Job(updatedOK', job', list', server'.slots) BY NoJobIsFine
<1> QED BY <1>5, <1>7, <1>8, <1>9, <1>10, <1>11 DEF IInv

LEMMA PanelInv ==
  ASSUME IInv, ReopenPanel \/ Restart PROVE IInv'
<1>0. ListGood(server.slots, disk, list) /\ Scalars BY DEF IInv
<1>1. ASSUME ReopenPanel PROVE IInv'
  <2>1. /\ OpenPanel(list) /\ UNCHANGED <<server, plugged, disk>>
        /\ UNCHANGED <<updatedOK, lastUuid>> /\ at' = Idle /\ job' = NoJob
    BY <1>1 DEF ReopenPanel, world
  <2>2. updatedOK' \in BOOLEAN /\ lastUuid' \in 0..MaxUuid BY <1>0, <2>1 DEF Scalars
  <2> QED BY <1>0, <2>1, <2>2, OpenInv
<1>2. ASSUME Restart PROVE IInv'
  <2>1. /\ OpenPanel(Empty) /\ UNCHANGED <<server, plugged, disk>>
        /\ updatedOK' = FALSE /\ lastUuid' = 0 /\ at' = Idle /\ job' = NoJob
    BY <1>2 DEF Restart, world, Empty
  <2>2. updatedOK' \in BOOLEAN /\ lastUuid' \in 0..MaxUuid
    <3>1. MaxUuid \in Nat BY ShopAssumption
    <3>2. 0 \in 0..MaxUuid BY <3>1
    <3> QED BY <2>1, <3>2
  <2>3. ListGood(server.slots, disk, Empty) BY EmptyGood
  <2> QED BY <2>1, <2>2, <2>3, OpenInv
<1> QED BY <1>1, <1>2

LEMMA InstallInv ==
  ASSUME IInv PROVE Install => IInv'
<1>1. ASSUME NEW c \in Charts, ClickInstall(c) PROVE IInv' BY <1>1, ClickInv
<1>2. ASSUME NameKnown \/ NameFound PROVE IInv' BY <1>2, NameInv
<1>3. ASSUME NameTyped PROVE IInv' BY <1>3, TypedInv
<1>4. ASSUME ChooseName PROVE IInv' BY <1>4, ChooseInv
<1>5. ASSUME UploadOK PROVE IInv' BY <1>5, UploadInv
<1>6. ASSUME UploadFails PROVE IInv' BY <1>6, UploadFailsInv
<1>7. ASSUME NoneAvailable \/ AssignFails \/ Assigned \/ InstallFails PROVE IInv'
  BY <1>7, AssignQuietInv
<1>8. ASSUME doAssign PROVE IInv' BY <1>8, AssignInv
<1>9. ASSUME TakeSlot PROVE IInv' BY <1>9, TakeInv
<1>10. ASSUME InstallDone PROVE IInv' BY <1>10, DoneInstallInv
<1> QED BY <1>1, <1>2, <1>3, <1>4, <1>5, <1>6, <1>7, <1>8, <1>9, <1>10 DEF Install

LEMMA NextInv == ASSUME IInv, [Next]_vars PROVE IInv'
<1>1. ASSUME Refresh PROVE IInv' BY <1>1, RefreshInv
<1>2. ASSUME Install PROVE IInv' BY <1>2, InstallInv
<1>3. ASSUME World PROVE IInv' BY <1>3, WorldInv
<1>4. ASSUME ClearSystemName \/ ClearCredentials PROVE IInv' BY <1>4, ClearInv
<1>5. ASSUME ReopenPanel \/ Restart PROVE IInv' BY <1>5, PanelInv
<1>6. ASSUME UNCHANGED vars PROVE IInv'
  <2>1. UNCHANGED <<list, updatedOK, lastUuid, sysName, dongName, key, config, at, job,
                    server, plugged, disk>>
    BY <1>6 DEF vars, shopVars, names, world
  <2>2. Account' BY <2>1, AccountSame DEF IInv
  <2>3. Scalars' BY <2>1 DEF IInv, Scalars
  <2> QED BY <2>1, <2>2, <2>3, QuietWorld
<1> QED BY <1>1, <1>2, <1>3, <1>4, <1>5, <1>6 DEF Next

LEMMA InitInv == ASSUME Init PROVE IInv
<1> DEFINE sl == [c \in Charts |-> [i \in 1..Quantities |-> <<>>]]
<1>0. 0 \in 0..MaxUuid /\ 0 \in 0..MaxKeys /\ 1 \in 1..MaxKeys
  <2>1. MaxUuid \in Nat /\ MaxKeys \in Nat \ {0} BY ShopAssumption
  <2> QED BY <2>1
<1>1. server.slots = sl BY DEF Init
<1>2. \A c \in Charts, i \in 1..Quantities : server.slots[c][i] = <<>> BY <1>1
<1>3. Account
  <2>1. sl \in [Charts -> [1..Quantities -> Seq(Granted)]] OBVIOUS
  <2>2. server \in [slots : {sl}, listed : {Charts}, expired : {{}}, key : {1}, named : BOOLEAN,
                    uuids : {0}, room : [Charts -> Rooms]]
    BY DEF Init
  <2> HIDE DEF sl
  <2>3. server \in [slots : [Charts -> [1..Quantities -> Seq(Granted)]],
                 listed : SUBSET Charts, expired : SUBSET Charts, key : 1..MaxKeys,
                 named : BOOLEAN, uuids : 0..MaxUuid, room : [Charts -> Rooms]]
    <3>1. sl \in [Charts -> [1..Quantities -> Seq(Granted)]] BY <2>1
    <3>2. /\ server.slots = sl /\ server.listed = Charts /\ server.expired = {}
          /\ server.key = 1 /\ server.named \in BOOLEAN /\ server.uuids = 0
          /\ server.room \in [Charts -> Rooms]
          /\ server = [slots |-> server.slots, listed |-> server.listed,
                       expired |-> server.expired, key |-> server.key,
                       named |-> server.named, uuids |-> server.uuids,
                       room |-> server.room]
      BY <2>2
    <3> QED BY <1>0, <3>1, <3>2
  <2>4. \A c \in Charts, i \in 1..Quantities : 1..Len(server.slots[c][i]) = {} BY <1>2
  <2>5. Distinct(server.slots) BY <2>4 DEF Distinct
  <2>6. \A c \in Charts, i \in 1..Quantities : \A j \in 1..Len(server.slots[c][i]) :
          server.slots[c][i][j].uuid <= server.uuids
    BY <2>4
  <2> QED BY <2>3, <2>5, <2>6 DEF Account
<1>4. list = Empty /\ updatedOK = FALSE /\ at = Idle /\ job = NoJob
  BY DEF Init, Empty
<1>5. /\ lastUuid = 0 /\ sysName = None /\ key = 0 /\ disk = {} /\ plugged \in BOOLEAN
      /\ dongName = IF plugged THEN Dongle ELSE None
      /\ config = saveShopConfig(list, key, sysName)
  BY DEF Init
<1>6. Scalars
  <2>1. dongName \in {None, Dongle} BY <1>5
  <2>2. updatedOK \in BOOLEAN BY <1>4
  <2>3. lastUuid \in 0..MaxUuid /\ key \in 0..MaxKeys BY <1>0, <1>5
  <2>4. sysName \in {None, Me} /\ disk \subseteq Charts \X Names BY <1>5
  <2> QED BY <1>5, <2>1, <2>2, <2>3, <2>4 DEF Scalars
<1>7. ListGood(server.slots, disk, list) BY <1>4, EmptyGood
<1>8. Distinct(server.slots) BY <1>3 DEF Account
<1>9. key \in 0..MaxKeys /\ sysName \in {None, Me} BY <1>6 DEF Scalars
<1>10. ConfigGood(server.slots, disk, config) BY <1>5, <1>7, <1>8, <1>9, SaveGood
<1>11. Handler(updatedOK, at, list) /\ at.in = "idle" BY <1>4, IdleHandler
<1>12. Fresh(updatedOK, at.in, list, config) BY <1>4, <1>11 DEF Fresh
<1>13. Job(updatedOK, job, list, server.slots) BY <1>4, NoJobIsFine
<1> QED BY <1>3, <1>6, <1>7, <1>10, <1>11, <1>12, <1>13 DEF IInv

\* The invariant holds of every behaviour.
THEOREM Invariant == Spec => []IInv
<1>1. Init => IInv BY InitInv
<1>2. IInv /\ [Next]_vars => IInv' BY NextInv
<1> QED BY <1>1, <1>2, PTL DEF Spec

(***************************************************************************)
(* What the invariant says.                                                *)
(***************************************************************************)
LEMMA EntryGood ==
  ASSUME IInv, NEW c \in Entries PROVE Good(server.slots, disk, c, list[c]) /\ c \in Charts
  BY DEF IInv, ListGood, Entries

\* Every variable keeps its type.
THEOREM TypeCorrect == Spec => []TypeOK
<1>1. IInv => TypeOK
  <2> SUFFICES ASSUME IInv PROVE TypeOK OBVIOUS
  <2>1. Scalars BY DEF IInv
  <2>2. ASSUME NEW c \in Entries, NEW p \in SlotsOf(list[c]) PROVE Slot(list[c], p) \in SlotRecord
    BY EntryGood, SlotFacts
  <2> QED BY <2>1, <2>2 DEF TypeOK, Scalars, SlotRecord
<1> QED BY <1>1, Invariant, PTL

\* The slot an installation runs for is assigned to the name it was computed for.
THEOREM SlotNamed == Spec => []SlotIsForName
<1>1. IInv => SlotIsForName
  <2> SUFFICES ASSUME IInv, job # NoJob, ~job.late,
                      NEW p \in WithUuid(list[job.chart], job.slot)
               PROVE  Slot(list[job.chart], p).system = job.name
    BY DEF SlotIsForName, JobSlotIsFor
  <2> DEFINE c == job.chart
             e == list[c]
  <2>1. PICK q \in 1..Quantities : Has(server.slots, c, q, job.slot, job.name)
    BY DEF IInv, Job
  <2>2. c \in Entries BY DEF IInv, Job, Entries
  <2>3. Good(server.slots, disk, c, e) /\ c \in Charts BY <2>2, EntryGood
  <2>4. p \in SlotsOf(e) /\ Slot(e, p).uuid = job.slot BY DEF WithUuid
  <2> HIDE DEF e
  <2>5. /\ e.qtys[p[1]].id \in 1..Quantities
        /\ Has(server.slots, c, e.qtys[p[1]].id, Slot(e, p).uuid, Slot(e, p).system)
    BY <2>3, <2>4, SlotFacts DEF Genuine
  <2>6. Distinct(server.slots) BY AccountParts DEF IInv
  <2> HIDE DEF c
  <2>7. Slot(e, p).system = job.name BY <2>1, <2>3, <2>4, <2>5, <2>6, HasUnique
  <2> QED BY <2>7 DEF e, c
<1> QED BY <1>1, Invariant, PTL

\* GetActiveSlot never reads past the lists.
THEOREM ActiveExists == Spec => []ActiveSlotExists
<1>1. IInv => ActiveSlotExists BY EntryGood DEF ActiveSlotExists, Good
<1> QED BY <1>1, Invariant, PTL

\* A UUID names one slot of the list, a machine has one slot of a chartset.
THEOREM DistinctSlots == Spec => []SlotsAreDistinct
<1>1. IInv => SlotsAreDistinct
  <2> SUFFICES ASSUME IInv, NEW c \in Entries, NEW d \in Entries,
                      NEW p \in SlotsOf(list[c]), NEW r \in SlotsOf(list[d])
               PROVE  /\ Slot(list[c], p).uuid = Slot(list[d], r).uuid => c = d /\ p = r
                      /\ (c = d /\ Slot(list[c], p).system = Slot(list[c], r).system) => p = r
    BY DEF SlotsAreDistinct
  <2> DEFINE e == list[c]
             f == list[d]
  <2>1. /\ Good(server.slots, disk, c, e) /\ c \in Charts
        /\ Good(server.slots, disk, d, f) /\ d \in Charts
    BY EntryGood
  <2>2. Distinct(server.slots) BY AccountParts DEF IInv
  <2>3. /\ e.qtys[p[1]].id \in 1..Quantities
        /\ Has(server.slots, c, e.qtys[p[1]].id, Slot(e, p).uuid, Slot(e, p).system)
    <3>1. p \in SlotsOf(e) OBVIOUS
    <3> HIDE DEF e
    <3> QED BY <2>1, <3>1, SlotFacts DEF Genuine
  <2>4. /\ f.qtys[r[1]].id \in 1..Quantities
        /\ Has(server.slots, d, f.qtys[r[1]].id, Slot(f, r).uuid, Slot(f, r).system)
    <3>1. r \in SlotsOf(f) OBVIOUS
    <3> HIDE DEF f
    <3> QED BY <2>1, <3>1, SlotFacts DEF Genuine
  <2>5. Slot(e, p).uuid = Slot(f, r).uuid => c = d
    <3> HIDE DEF e, f
    <3> QED BY <2>1, <2>2, <2>3, <2>4, HasUnique
  <2>6. ASSUME c = d, Slot(e, p).uuid = Slot(e, r).uuid \/ Slot(e, p).system = Slot(e, r).system
        PROVE  p = r
    <3>1. p \in SlotsOf(e) /\ r \in SlotsOf(e) BY <2>6
    <3> HIDE DEF e
    <3> QED BY <2>1, <2>2, <2>6, <3>1, SlotsDiffer
  <2> QED BY <2>5, <2>6
<1> QED BY <1>1, Invariant, PTL

\* A record says "installed" only of what is installed.
THEOREM TrueRecords == Spec => []RecordsAreTrue
<1>1. IInv => RecordsAreTrue
  <2> SUFFICES ASSUME IInv, NEW c \in Entries, NEW p \in SlotsOf(list[c]),
                      Slot(list[c], p).inst
               PROVE  <<c, Slot(list[c], p).system>> \in disk
    BY DEF RecordsAreTrue
  <2>1. Good(server.slots, disk, c, list[c]) BY EntryGood
  <2> QED BY <2>1, SlotFacts DEF Genuine
<1> QED BY <1>1, Invariant, PTL

(***************************************************************************)
(* What is remembered, in memory and in the file.                          *)
(***************************************************************************)
OnRecord(l, c, name) == l[c] # NoEntry /\ Recorded(l[c], name)
InFile(cf, c, name) == cf.charts[c] # NoEntry /\ InstalledIn(cf.charts[c].slots, name)

LEMMA RememberedIs ==
  ASSUME ListGood(server.slots, disk, list), NEW c \in Charts, NEW name
  PROVE  Remembered(c, name) <=> OnRecord(list, c, name) /\ InFile(config, c, name)
<1>1. CASE list[c] = NoEntry BY <1>1 DEF Remembered, OnRecord
<1>2. CASE list[c] # NoEntry
  <2>1. list[c] \in Entry BY <1>2 DEF ListGood, Good
  <2>2. InstalledIn(SavedSlots(list[c]), name) <=> Recorded(list[c], name)
    BY <2>1, SavedRecorded
  <2> QED BY <1>2, <2>2 DEF Remembered, OnRecord, InFile
<1> QED BY <1>1, <1>2

\* What is on record is in the file that is saved.
LEMMA SavedInFile ==
  ASSUME NEW sl, NEW dk, NEW l, ListGood(sl, dk, l), NEW k, NEW n, NEW c \in Charts,
         NEW name, OnRecord(l, c, name)
  PROVE  InFile(saveShopConfig(l, k, n), c, name)
<1>1. l[c] # NoEntry /\ l[c] \in Entry BY DEF ListGood, Good, OnRecord
<1>2. InstalledIn(SavedSlots(l[c]), name) BY <1>1, SavedRecorded DEF OnRecord
<1> DEFINE s == SavedSlots(l[c])
<1>3. saveShopConfig(l, k, n).charts[c] = [slots |-> s] BY <1>1 DEF saveShopConfig
<1> HIDE DEF s
<1>4. [slots |-> s] # NoEntry
  <2>1. "slots" \in DOMAIN [slots |-> s] /\ "slots" \notin DOMAIN NoEntry BY DEF NoEntry
  <2> QED BY <2>1
<1>5. InstalledIn([slots |-> s].slots, name) BY <1>2 DEF s
<1> QED BY <1>3, <1>4, <1>5 DEF InFile

\* A step that keeps what the list records and leaves the file or saves it.
LEMMA StaysKnown ==
  ASSUME IInv, IInv', InstalledIsKnown, server'.listed \subseteq server.listed,
         \A c \in server'.listed : \A name :
           OnRecord(list, c, name) /\ InFile(config, c, name) => OnRecord(list', c, name),
         UNCHANGED config \/ \E k, n : config' = saveShopConfig(list', k, n),
         \A d \in disk' : d \in disk \/ (/\ OnRecord(list', d[1], d[2])
                                         /\ \E k, n : config' = saveShopConfig(list', k, n))
  PROVE  InstalledIsKnown'
<1>0. /\ ListGood(server.slots, disk, list) /\ ListGood(server'.slots, disk', list')
      /\ server.listed \subseteq Charts /\ disk' \subseteq Charts \X Names
  BY ServerParts DEF IInv, Scalars
<1> SUFFICES ASSUME NEW d \in disk', d[1] \in server'.listed PROVE Remembered(d[1], d[2])'
  BY DEF InstalledIsKnown
<1> DEFINE c == d[1]
           name == d[2]
<1>1. c \in Charts /\ c \in server'.listed BY <1>0
<1>2. (Remembered(c, name) <=> OnRecord(list, c, name) /\ InFile(config, c, name))
  BY <1>0, <1>1, RememberedIs
<1>3. OnRecord(list', c, name) /\ InFile(config', c, name) => Remembered(c, name)'
  <2>1. CASE list'[c] = NoEntry BY <2>1 DEF OnRecord
  <2>2. CASE list'[c] # NoEntry
    <3>1. list'[c] \in Entry BY <1>0, <1>1, <2>2 DEF ListGood, Good
    <3>2. InstalledIn(SavedSlots(list'[c]), name) <=> Recorded(list'[c], name)
      BY <3>1, SavedRecorded
    <3> QED BY <2>2, <3>2 DEF Remembered, OnRecord, InFile
  <2> QED BY <2>1, <2>2
<1>4. d \in disk => OnRecord(list, c, name) /\ InFile(config, c, name)
  BY <1>1, <1>2 DEF InstalledIsKnown
<1>5. OnRecord(list', c, name) BY <1>1, <1>4
<1>6. InFile(config', c, name)
  <2>1. ASSUME NEW k, NEW n, config' = saveShopConfig(list', k, n) PROVE InFile(config', c, name)
    BY <1>0, <1>1, <1>5, <2>1, SavedInFile
  <2>2. CASE d \in disk /\ UNCHANGED config BY <1>4, <2>2
  <2> QED BY <2>1, <2>2
<1> QED BY <1>3, <1>5, <1>6

\* The same, for a step that leaves the list alone or saves it as it is.
LEMMA ListKept ==
  ASSUME IInv, IInv', InstalledIsKnown, server'.listed \subseteq server.listed,
         UNCHANGED <<list, disk>>,
         UNCHANGED config \/ \E k, n : config' = saveShopConfig(list, k, n)
  PROVE  InstalledIsKnown'
<1>1. UNCHANGED config \/ \E k, n : config' = saveShopConfig(list', k, n) OBVIOUS
<1> QED BY <1>1, StaysKnown

LEMMA RecordedActive ==
  ASSUME NEW e \in Entry, NEW a, NEW name, Recorded(e, name)
  PROVE  Recorded([e EXCEPT !.active = a], name) /\ [e EXCEPT !.active = a] # NoEntry
<1> DEFINE f == [e EXCEPT !.active = a]
<1>1. f # NoEntry /\ SlotsOf(f) = SlotsOf(e) /\ \A p : Slot(f, p) = Slot(e, p) BY ActiveOnly
<1> HIDE DEF f
<1>2. Recorded(f, name) BY <1>1 DEF Recorded
<1> QED BY <1>1, <1>2 DEF f

LEMMA WorldKnown ==
  ASSUME IInv, IInv', InstalledIsKnown, World PROVE InstalledIsKnown'
<1>1. UNCHANGED <<list, disk, config>>
  BY DEF World, RevokeKey, PlugDongle, Withdraw, Expire, OtherAssigns, shopVars
<1>2. server'.listed \subseteq server.listed
  <2>0. Account /\ server \in ServerRecord BY ServerParts DEF IInv
  <2>1. ASSUME RevokeKey \/ PlugDongle PROVE server'.listed = server.listed
    BY <2>0, <2>1 DEF RevokeKey, PlugDongle, ServerRecord
  <2>2. ASSUME NEW c \in Charts, Withdraw(c) \/ Expire(c) PROVE server'.listed \subseteq server.listed
    BY <2>0, <2>2 DEF Withdraw, Expire, ServerRecord
  <2>3. ASSUME NEW c \in Charts, NEW i \in 1..Quantities, NEW m \in Others, OtherAssigns(c, i, m)
        PROVE server'.listed = server.listed
    BY <2>0, <2>3, AssignsGood DEF OtherAssigns, Names
  <2> QED BY <2>1, <2>2, <2>3 DEF World
<1> QED BY <1>1, <1>2, ListKept

LEMMA RefreshKnown ==
  ASSUME IInv, IInv', InstalledIsKnown, Refresh, ~ListRefused, ~ListError
  PROVE  InstalledIsKnown'
<1>0. Account /\ ListGood(server.slots, disk, list) /\ server.listed \subseteq Charts
  BY ServerParts DEF IInv
<1>1. ASSUME ClickUpdate \/ LoginFails \/ Identify \/ ListLost PROVE InstalledIsKnown'
  <2>1. UNCHANGED <<list, disk, config, server>>
    BY <1>1 DEF ClickUpdate, LoginFails, Identify, ListLost, shopVars, names, world
  <2> QED BY <2>1, ListKept
<1>2. ASSUME LoginOK PROVE InstalledIsKnown'
  <2>1. UNCHANGED <<list, disk, server>> /\ config' = saveShopConfig(list, key', sysName)
    BY <1>2 DEF LoginOK, shopVars, world
  <2> QED BY <2>1, ListKept
<1>3. ASSUME ListAnswered PROVE InstalledIsKnown'
  <2>1. UNCHANGED <<disk, server, config>> /\ list' = Prune(ProcessResponse(list))
    BY <1>3 DEF ListAnswered, world
  <2>2. ASSUME NEW c \in server'.listed, NEW name, OnRecord(list, c, name)
        PROVE  OnRecord(list', c, name)
    <3> DEFINE m == ProcessResponse(list)
    <3>1. c \in Charts /\ c \in server.listed BY <1>0, <2>1
    <3>2. Good(server.slots, disk, c, list[c]) BY <1>0, <2>2, <3>1 DEF ListGood, OnRecord
    <3>3. m[c] = Update(list[c], c) BY <3>1, ResponseIs
    <3>4. m[c] # NoEntry /\ m[c].ok BY <1>0, <3>1, ResponseGood
    <3>5. Recorded(Update(list[c], c), name) BY <1>0, <2>2, <3>1, <3>2, UpdateRecorded DEF OnRecord
    <3> HIDE DEF m
    <3>6. list'[c] = m[c] BY <2>1, <3>1, <3>4, PruneIs DEF m
    <3> QED BY <3>3, <3>4, <3>5, <3>6 DEF OnRecord
  <2> QED BY <2>1, <2>2, StaysKnown
<1>4. ASSUME UpdateDone PROVE InstalledIsKnown'
  <2>1. /\ UNCHANGED <<disk, server>> /\ config' = saveShopConfig(list', key, sysName)
        /\ list' = Restatus(list, dongName, sysName, TRUE)
    BY <1>4 DEF UpdateDone, world
  <2>2. ASSUME NEW c \in server'.listed, NEW name, OnRecord(list, c, name)
        PROVE  OnRecord(list', c, name)
    <3>1. c \in Charts /\ list[c] # NoEntry /\ Recorded(list[c], name)
      BY <1>0, <2>1, <2>2 DEF OnRecord
    <3>2. list[c] \in Entry BY <1>0, <3>1 DEF ListGood, Good
    <3>3. list'[c] = [list[c] EXCEPT !.active =
                        getChartStatus(list[c], dongName, sysName, TRUE).active]
      BY <2>1, <3>1 DEF Restatus
    <3> QED BY <3>1, <3>2, <3>3, RecordedActive DEF OnRecord
  <2> QED BY <2>1, <2>2, StaysKnown
<1> QED BY <1>1, <1>2, <1>3, <1>4 DEF Refresh

LEMMA InstallKnown ==
  ASSUME IInv, IInv', InstalledIsKnown, Install PROVE InstalledIsKnown'
<1>0. Account /\ ListGood(server.slots, disk, list) /\ server.listed \subseteq Charts
  BY ServerParts DEF IInv
<1>1. ASSUME \/ \E c \in Charts : ClickInstall(c)
             \/ NameKnown \/ NameFound \/ NoneAvailable \/ AssignFails \/ Assigned
             \/ TakeSlot \/ InstallFails
      PROVE  InstalledIsKnown'
  <2>1. UNCHANGED <<list, disk, config, server>>
    BY <1>1 DEF ClickInstall, NameKnown, NameFound, NoneAvailable, AssignFails, Assigned,
                TakeSlot, InstallFails, shopVars, names, world
  <2> QED BY <2>1, ListKept
<1>2. ASSUME NameTyped \/ UploadFails \/ UploadOK PROVE InstalledIsKnown'
  <2>1. /\ UNCHANGED <<list, disk>>
        /\ UNCHANGED config \/ config' = saveShopConfig(list, key, None)
    BY <1>2 DEF NameTyped, UploadFails, UploadOK, shopVars
  <2>2. server'.listed = server.listed
    <3>1. server \in ServerRecord BY <1>0, ServerParts
    <3> QED BY <1>2, <3>1 DEF NameTyped, UploadFails, UploadOK, ServerRecord, world
  <2> QED BY <2>1, <2>2, ListKept
<1>3. ASSUME ChooseName PROVE InstalledIsKnown'
  <2>1. at.chart \in Charts
    <3>1. at \in Sections /\ at.in \notin Plain BY <1>3 DEF ChooseName, IInv, Handler, Plain
    <3> QED BY <3>1, SectionParts
  <2>2. /\ UNCHANGED <<disk, server>>
        /\ UNCHANGED config \/ config' = saveShopConfig(list', key, sysName)
        /\ \E a : list' = [list EXCEPT ![at.chart].active = a]
    BY <1>3 DEF ChooseName, Choose, world
  <2>3. PICK a : list' = [list EXCEPT ![at.chart].active = a] BY <2>2
  <2>4. ASSUME NEW c \in server'.listed, NEW name, OnRecord(list, c, name)
        PROVE  OnRecord(list', c, name)
    <3>1. c \in Charts /\ list[c] # NoEntry /\ Recorded(list[c], name) /\ DOMAIN list = Charts
      BY <1>0, <2>2, <2>4 DEF OnRecord, ListGood
    <3>2. list[c] \in Entry BY <1>0, <3>1 DEF ListGood, Good
    <3>3. CASE c = at.chart
      <4>1. list'[c] = [list[c] EXCEPT !.active = a] BY <2>3, <3>1, <3>3
      <4> QED BY <3>1, <3>2, <4>1, RecordedActive DEF OnRecord
    <3>4. CASE c # at.chart
      <4>1. list'[c] = list[c] BY <2>3, <3>1, <3>4
      <4> QED BY <3>1, <4>1 DEF OnRecord
    <3> QED BY <3>3, <3>4
  <2> QED BY <2>2, <2>4, StaysKnown
<1>4. ASSUME doAssign PROVE InstalledIsKnown'
  <2> DEFINE c == at.chart
  <2>1. /\ at.in = "assign" /\ c \in Charts /\ at.name \in {Me, Dongle}
        /\ UNCHANGED <<config, disk>>
    BY <1>4, AssignParts
  <2>2. PICK i \in 1..Len(list[c].qtys) :
          /\ Assigns(c, list[c].qtys[i].id, at.name)
          /\ \/ lastUuid' = server'.uuids /\ Adds(c, i, at.name)
             \/ UNCHANGED list
    BY <1>4, AssignParts
  <2>3. list[c] # NoEntry BY <2>1 DEF IInv, Handler, Plain
  <2>4. server'.listed = server.listed
    <3>1. list[c].qtys[i].id \in 1..Quantities /\ at.name \in Names
      BY <1>0, <2>1, <2>3, EntryParts DEF ListGood, Good, Names
    <3> QED BY <1>0, <2>1, <2>2, <3>1, AssignsGood
  <2>5. CASE UNCHANGED list BY <2>1, <2>4, <2>5, ListKept
  <2>6. CASE lastUuid' = server'.uuids /\ Adds(c, i, at.name)
    <3>1. /\ Keeps(list'[c], list[c])
          /\ \A d \in Charts : /\ list'[d] # NoEntry <=> list[d] # NoEntry
                               /\ d # c => list'[d] = list[d]
      <4> HIDE DEF c
      <4> QED BY <2>1, <2>2, <2>3, <2>6, AddGood
    <3>2. ASSUME NEW d \in server'.listed, NEW name, OnRecord(list, d, name)
          PROVE  OnRecord(list', d, name)
      <4>1. d \in Charts /\ list[d] # NoEntry /\ Recorded(list[d], name)
        BY <1>0, <2>4, <3>2 DEF OnRecord
      <4>2. list'[d] # NoEntry BY <3>1, <4>1
      <4>3. Keeps(list'[d], list[d]) BY <3>1, <4>1 DEF Keeps
      <4>4. Recorded(list'[d], name) BY <4>1, <4>3, KeepsRecorded
      <4> QED BY <4>2, <4>4 DEF OnRecord
    <3> QED BY <2>1, <2>4, <3>2, StaysKnown
  <2> QED BY <2>2, <2>5, <2>6
<1>5. ASSUME InstallDone PROVE InstalledIsKnown'
  <2>1. UNCHANGED server /\ config' = saveShopConfig(list', key, sysName)
    BY <1>5 DEF InstallDone, world
  <2>2. Installs BY <1>5, InstallsAll
  <2>3. ASSUME NEW c \in server'.listed, NEW name, OnRecord(list, c, name)
        PROVE  OnRecord(list', c, name)
    BY <1>0, <2>1, <2>2, <2>3 DEF Installs, OnRecord
  <2>4. \A d \in disk' : d \in disk \/ OnRecord(list', d[1], d[2])
    BY <2>2 DEF Installs, OnRecord
  <2> QED BY <2>1, <2>3, <2>4, StaysKnown
<1> QED BY <1>1, <1>2, <1>3, <1>4, <1>5 DEF Install

LEMMA PanelKnown ==
  ASSUME IInv, IInv', InstalledIsKnown,
         ClearSystemName \/ ClearCredentials \/ ReopenPanel \/ Restart
  PROVE  InstalledIsKnown'
<1>0. /\ ListGood(server.slots, disk, list) /\ ConfigGood(server.slots, disk, config)
      /\ server.listed \subseteq Charts
  BY ServerParts DEF IInv
<1>1. ASSUME ClearSystemName \/ ClearCredentials PROVE InstalledIsKnown'
  <2>1. /\ UNCHANGED <<list, disk, server>>
        /\ UNCHANGED config \/ config' = saveShopConfig(list, 0, sysName)
    BY <1>1 DEF ClearSystemName, ClearCredentials, shopVars, world
  <2> QED BY <2>1, ListKept
<1>2. ASSUME ReopenPanel PROVE InstalledIsKnown'
  <2>1. /\ UNCHANGED <<disk, server>> /\ list' = loadShopConfig(list)
        /\ config' = saveShopConfig(list', key', sysName')
    BY <1>2 DEF ReopenPanel, OpenPanel, world
  <2>2. ASSUME NEW c \in server'.listed, NEW name, OnRecord(list, c, name)
        PROVE  OnRecord(list', c, name)
    <3>1. c \in Charts /\ list[c] # NoEntry /\ Recorded(list[c], name)
      BY <1>0, <2>1, <2>2 DEF OnRecord
    <3>2. list'[c] # NoEntry /\ Keeps(list'[c], list[c]) BY <1>0, <2>1, <3>1, LoadGood
    <3> QED BY <3>1, <3>2, KeepsRecorded DEF OnRecord
  <2> QED BY <2>1, <2>2, StaysKnown
<1>3. ASSUME Restart PROVE InstalledIsKnown'
  <2>1. /\ UNCHANGED <<disk, server>> /\ list' = loadShopConfig(Empty)
        /\ config' = saveShopConfig(list', key', sysName')
    BY <1>3 DEF Restart, OpenPanel, world, Empty
  <2>2. ASSUME NEW c \in server'.listed, NEW name, InFile(config, c, name)
        PROVE  OnRecord(list', c, name)
    <3> DEFINE s == config.charts[c].slots
    <3>1. c \in Charts /\ config.charts[c] # NoEntry /\ InstalledIn(s, name)
      BY <1>0, <2>1, <2>2 DEF InFile
    <3>2. list'[c] = Loaded(NewEntry, s)
      <4>1. Empty[c] = NoEntry BY <3>1 DEF Empty
      <4>2. loadShopConfig(Empty)[c] = IF config.charts[c] = NoEntry THEN Empty[c]
              ELSE Loaded(IF Empty[c] = NoEntry THEN NewEntry ELSE Empty[c], s)
        BY <3>1, LoadIs
      <4> QED BY <2>1, <3>1, <4>1, <4>2
    <3>3. GoodSaved(server.slots, disk, c, s) BY <1>0, <3>1 DEF ConfigGood
    <3>4. Good(server.slots, disk, c, NewEntry) /\ SlotsOf(NewEntry) = {} BY NewEntryGood
    <3> HIDE DEF s
    <3>5. Recorded(Loaded(NewEntry, s), name) BY <3>1, <3>3, <3>4, LoadedRecorded
    <3>6. Loaded(NewEntry, s) # NoEntry
      <4>1. Good(server.slots, disk, c, Loaded(NewEntry, s)) BY <3>3, <3>4, LoadedGood
      <4> QED BY <4>1, NoEntryIsNone DEF Good
    <3> QED BY <3>2, <3>5, <3>6 DEF OnRecord
  <2> QED BY <2>1, <2>2, StaysKnown
<1> QED BY <1>1, <1>2, <1>3

\* What was installed stays recorded, in memory and in the file, across every
\* step but the answer of a refresh that fails.
THEOREM OnlyRefusals == Spec => OnlyRefusalsForget
<1>1. ASSUME IInv, IInv', [Next]_vars, InstalledIsKnown
      PROVE  InstalledIsKnown' \/ ListRefused \/ ListError
  <2>1. CASE UNCHANGED vars
    <3>1. UNCHANGED <<list, disk, config, server>> BY <2>1 DEF vars, shopVars, world
    <3> QED BY <1>1, <3>1, ListKept
  <2>2. CASE Next
    BY <1>1, <2>2, WorldKnown, RefreshKnown, InstallKnown, PanelKnown DEF Next
  <2> QED BY <1>1, <2>1, <2>2
<1>2. IInv /\ IInv' /\ [Next]_vars =>
        [InstalledIsKnown => InstalledIsKnown' \/ ListRefused \/ ListError]_vars
  BY <1>1
<1> QED BY <1>2, Invariant, PTL DEF Spec, OnlyRefusalsForget
=============================================================================
