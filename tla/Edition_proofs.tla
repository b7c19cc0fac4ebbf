--------------------------- MODULE Edition_proofs ---------------------------
(***************************************************************************)
(* Within its bounds GetEditionInt orders editions as they were published, *)
(* so an update is offered exactly when one is missing.                    *)
(***************************************************************************)
EXTENDS Edition, TLAPS

\* Folding three numbers keeps their lexicographic order if each fits.
LEMMA Fold ==
  ASSUME NEW y \in Nat, 2000 <= y, y <= 3999, NEW z \in Nat, 2000 <= z, z <= 3999,
         NEW b \in Nat, 1 <= b, b <= 99, NEW c \in Nat, 1 <= c, c <= 99,
         NEW u \in Nat, 0 <= u, u <= 99, NEW v \in Nat, 0 <= v, v <= 99
  PROVE
    /\ (y % 2000) * 10000 + b * 100 + u > (z % 2000) * 10000 + c * 100 + v
         <=> (z < y \/ (z = y /\ c < b) \/ (z = y /\ c = b /\ v < u))
    /\ ~((y % 2000) * 100 + b > (z % 2000) * 100 + c) =>
         (y < z \/ (y = z /\ b < c) \/ (y = z /\ b = c))
    /\ (y % 2000) * 100 + b > 0
<1>1. y % 2000 = y - 2000 /\ z % 2000 = z - 2000
  BY SMT
<1>2. /\ (y - 2000) * 10000 + b * 100 + u > (z - 2000) * 10000 + c * 100 + v
         <=> (z < y \/ (z = y /\ c < b) \/ (z = y /\ c = b /\ v < u))
      /\ ~((y - 2000) * 100 + b > (z - 2000) * 100 + c) =>
         (y < z \/ (y = z /\ b < c) \/ (y = z /\ b = c))
      /\ (y - 2000) * 100 + b > 0
  BY SMT
<1> QED BY <1>1, <1>2

\* The numbers of an edition are within the bounds.
Fits(e) == /\ e.year \in Nat /\ 2000 <= e.year /\ e.year <= 3999
           /\ e.base \in Nat /\ 1 <= e.base /\ e.base <= 99
           /\ e.update \in Nat /\ 0 <= e.update /\ e.update <= 99

LEMMA Within == ASSUME Bounded, NEW e \in Editions PROVE Fits(e)
<1>1. e.year \in Years /\ e.base \in Bases /\ e.update \in Updates
  BY DEF Editions
<1>2. /\ \A y \in Years : y \in Nat /\ 2000 <= y /\ y <= 3999
      /\ \A b \in Bases : b \in Nat /\ 1 <= b /\ b <= 99
      /\ \A u \in Updates : u \in Nat /\ 0 <= u /\ u <= 99
  BY DEF Bounded
<1> QED BY <1>1, <1>2 DEF Fits

\* Dividing by 100 leaves the year and the base.
LEMMA Base ==
  ASSUME NEW e, Fits(e)
  PROVE  GetEditionInt(e) \div 100 = (e.year % 2000) * 100 + e.base
<1>1. PICK m \in Nat : m = (e.year % 2000) * 100 + e.base
  <2>1. e.year % 2000 \in Nat BY DEF Fits
  <2> QED BY <2>1 DEF Fits
<1>2. PICK u \in Nat : u = e.update /\ u <= 99
  BY DEF Fits
<1>3. GetEditionInt(e) = m * 100 + u
  <2>1. PICK y \in Nat : y = e.year % 2000
    BY DEF Fits
  <2>2. PICK b \in Nat : b = e.base
    BY DEF Fits
  <2> QED BY <1>1, <1>2, <2>1, <2>2 DEF GetEditionInt
<1>4. (m * 100 + u) \div 100 = m
  BY <1>2
<1> QED BY <1>1, <1>3, <1>4

\* A greater number is a later edition, and dividing by 100 leaves the base.
THEOREM EditionOrder ==
  ASSUME Bounded, NEW a \in Editions, NEW b \in Editions
  PROVE  /\ GetEditionInt(a) > GetEditionInt(b) <=> Before(b, a)
         /\ ~(GetEditionInt(a) \div 100 > GetEditionInt(b) \div 100)
              => SameBase(b, a) \/ Before(a, b)
         /\ GetEditionInt(a) \div 100 > 0
<1>1. Fits(a) /\ Fits(b)
  BY Within
<1>2. GetEditionInt(a) > GetEditionInt(b) <=> Before(b, a)
  BY <1>1, Fold DEF GetEditionInt, Before, Fits
<1>3. /\ GetEditionInt(a) \div 100 = (a.year % 2000) * 100 + a.base
      /\ GetEditionInt(b) \div 100 = (b.year % 2000) * 100 + b.base
  BY <1>1, Base
<1>4. ~((a.year % 2000) * 100 + a.base > (b.year % 2000) * 100 + b.base)
        => SameBase(b, a) \/ Before(a, b)
  BY <1>1, Fold DEF Before, SameBase, Fits
<1>5. (a.year % 2000) * 100 + a.base > 0
  BY <1>1, Fold DEF Fits
<1> QED BY <1>2, <1>3, <1>4, <1>5

Typing == server \in Editions /\ installed \in Editions \cup {NoEdition}

LEMMA EditionTyping == Spec => []Typing
<1>1. Init => Typing BY DEF Init, Typing
<1>2. Typing /\ [Next]_vars => Typing'
  BY DEF Typing, Next, Publish, Install, InstallOverride, vars
<1> QED BY <1>1, <1>2, PTL DEF Spec

\* The panel offers an update exactly when a later edition was published.
THEOREM StaleIsBehind == ASSUME Bounded PROVE Spec => []StaleIffBehind
<1>1. Typing => StaleIffBehind
  <2> SUFFICES ASSUME Typing, installed # NoEdition
               PROVE  Status = "stale" <=> Before(installed, server)
    BY DEF StaleIffBehind
  <2>1. GetEditionInt(server) > GetEditionInt(installed) <=> Before(installed, server)
    BY EditionOrder DEF Typing
  <2> QED BY <2>1 DEF Status
<1> QED BY <1>1, EditionTyping, PTL

\* Two editions do not both precede each other.
LEMMA After ==
  ASSUME Bounded, NEW a \in Editions, NEW b \in Editions, Before(a, b)
  PROVE  ~Before(b, a)
<1>1. Fits(a) /\ Fits(b)
  BY Within
<1> QED BY <1>1 DEF Before, Fits

\* An update is only asked for on top of its own base compilation.
THEOREM UpdatesFit == ASSUME Bounded PROVE Spec => UpdateFitsBase
<1> DEFINE A == Install /\ (installed = NoEdition \/ Before(installed, server)) =>
                  (asked' = "update" => SameBase(installed, server))
<1>1. Typing /\ [Next]_vars => [A]_vars
  <2> SUFFICES ASSUME Typing, Install, installed = NoEdition \/ Before(installed, server),
                      asked' = "update"
               PROVE  SameBase(installed, server)
    OBVIOUS
  <2>1. /\ ~(GetEditionInt(server) = GetEditionInt(installed))
        /\ ~(GetEditionInt(server) \div 100 > GetEditionInt(installed) \div 100)
    BY DEF Install, ComputeUpdates
  <2>2. server \in Editions BY DEF Typing
  <2>3. CASE installed = NoEdition
    <3>1. GetEditionInt(installed) \div 100 = 0
      BY <2>3, SMT DEF NoEdition, GetEditionInt
    <3> QED BY <2>1, <2>2, <3>1, EditionOrder
  <2>4. CASE installed # NoEdition
    <3>1. installed \in Editions /\ Before(installed, server)
      BY <2>4 DEF Typing
    <3>2. ~Before(server, installed)
      BY <2>2, <3>1, After
    <3> QED BY <2>1, <2>2, <3>1, <3>2, EditionOrder
  <2> QED BY <2>3, <2>4
<1> QED BY <1>1, EditionTyping, PTL DEF Spec, UpdateFitsBase
=============================================================================
