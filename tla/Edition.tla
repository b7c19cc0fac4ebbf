------------------------------ MODULE Edition ------------------------------
(***************************************************************************)
(* Edition numbers (ochartShop.cpp): GetEditionInt folds "year/base-update"*)
(* into one integer, which alone decides whether an installed chartset is  *)
(* stale (getChartStatus) and what is asked for (ComputeUpdates).          *)
(*                                                                         *)
(* The server publishes editions in order; the user installs the latest at *)
(* any time, or an administrator any edition at all.                       *)
(***************************************************************************)
EXTENDS Integers

CONSTANTS Years, Bases, Updates   \* the numbers the server uses

ASSUME EditionAssumption ==
  Years \subseteq Nat /\ Bases \subseteq Nat /\ Updates \subseteq Nat

NoEdition == [year |-> 0, base |-> 0, update |-> 0]  \* the empty string: 0
Editions == [year : Years, base : Bases, update : Updates]

\* Bugs: the year left out, or no room left for the update.
GetEditionIntNoYear(e) == e.base * 100 + e.update
GetEditionIntTight(e) == (e.year % 2000) * 1000 + e.base * 10 + e.update
GetEditionInt(e) == (e.year % 2000) * 10000 + e.base * 100 + e.update

\* The numbers for which the folding is unambiguous.
Bounded == Years \subseteq 2000..3999 /\ Bases \subseteq 1..99 /\ Updates \subseteq 0..99

\* The order of publication.
Before(a, b) ==
  \/ a.year < b.year
  \/ a.year = b.year /\ a.base < b.base
  \/ a.year = b.year /\ a.base = b.base /\ a.update < b.update
SameBase(a, b) == a.year = b.year /\ a.base = b.base

VARIABLES server, installed, asked   \* serverChartEdition, installedEdition,
vars == <<server, installed, asked>> \* and taskRequestedFile of the last task

\* getChartStatus, once a slot is mine.
Status ==
  IF installed = NoEdition THEN "requestable"
  ELSE IF GetEditionInt(server) > GetEditionInt(installed) THEN "stale" ELSE "current"

\* ComputeUpdates.
ComputeUpdates(new, old) ==
  LET s == GetEditionInt(new)
      i == GetEditionInt(old)
  IN IF s = i \/ s \div 100 > i \div 100 THEN "base" ELSE "update"

Init == server \in Editions /\ installed = NoEdition /\ asked = "none"

Publish == \E e \in Editions :
  Before(server, e) /\ server' = e /\ UNCHANGED <<installed, asked>>

Install ==
  /\ asked' = ComputeUpdates(server, installed)
  /\ installed' = server
  /\ UNCHANGED server

\* g_admin: overrideChartEdition names the edition, "-0" a base.
InstallOverride == \E e \in Editions :
  /\ asked' = IF e.update = 0 THEN "base" ELSE "update"
  /\ installed' = e
  /\ UNCHANGED server

Next == Publish \/ Install \/ InstallOverride
Spec == Init /\ [][Next]_vars

\* The panel offers an update exactly when a later edition was published.
StaleIffBehind ==
  installed # NoEdition => (Status = "stale" <=> Before(installed, server))

\* Updates of a base compilation are never asked for on top of another one;
\* when the chartset moves forward, a new base is always asked for.
UpdateFitsBase ==
  [][Install /\ (installed = NoEdition \/ Before(installed, server)) =>
       (asked' = "update" => SameBase(installed, server))]_vars
=============================================================================
