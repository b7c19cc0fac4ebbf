---------------------------- MODULE LineDisplay -----------------------------
(***************************************************************************)
(* Which feature draws a line that several features share.  Before it      *)
(* draws, an oeSENC chart compares the state hash of the S52 library with  *)
(* the one it last saw; if they differ it files its area features under    *)
(* the other boundary style too (UpdateLUPs) and gives every edge and      *)
(* connector the priority of the highest feature that claims it            *)
(* (SetLinePriorities).  A feature then draws the elements whose priority  *)
(* is its own.  The options arrive in a message from OpenCPN.              *)
(*                                                                         *)
(* Every feature here has line rules in its look-up table entries.         *)
(***************************************************************************)
EXTENDS LineGeometry

CONSTANTS
  Categories,  \* the display categories the options may take
  NoshowSets,  \* the sets of features whose class may be on the no-show list
  HiddenSets,  \* the sets of features a test may hide only when drawing
  Unset,       \* what max_priority_cs of a new connector happens to be
  MaxChanges   \* bound on the messages

ASSUME LineDisplayAssumption ==
  Unset \in Int /\ {} \in NoshowSets /\ {} \in HiddenSets

VARIABLES
  category,     \* ps52plib->m_nDisplayCategory
  marinerStyle, \* S52_MAR_SYMBOLIZED_BND, set by UpdateMarinerParams
  noshow,       \* the features whose class is in m_noshow_array
  hidden,       \* the features out of scale, date, view or class selection
  stateHash,    \* ps52plib->m_state_hash
  hashSeen,     \* m_plib_state_hash of the chart
  prioritySet,  \* m_bLinePrioritySet
  dpri,         \* feature -> m_DPRI
  max_priority, \* edge or connector -> max_priority, once it has been set
  priority,     \* feature -> the priority of each of its elements
  styleSeen,    \* the style when the priorities were set (for the properties)
  changes       \* messages so far

dvars == <<category, marinerStyle, noshow, hidden, stateHash, hashSeen, prioritySet, dpri,
           max_priority, priority, styleSeen, changes>>
vars == <<gvars, dvars>>

\* GenerateStateHash: of the boundary style only the mariner's parameter counts.
HashOf(cat, off, bnd) == <<cat, off, bnd>>

DInit ==
  /\ category \in Categories /\ noshow = {} /\ hidden = {}
  /\ marinerStyle = style
  /\ stateHash = HashOf(category, noshow, marinerStyle)
  /\ hashSeen = <<>>
  /\ prioritySet = FALSE
  /\ dpri = [f \in Features |-> LevelOf(f, style)]
  /\ max_priority = <<>>
  /\ priority = [f \in Features |-> <<>>]
  /\ styleSeen = style
  /\ changes = 0

Init == GInit /\ DInit

-----------------------------------------------------------------------------
(* The options message.  It sets the style; the mariner's parameter follows *)
(* only when the message asks for a global reconfiguration, and then takes  *)
(* the style of the configuration file, which may have been saved or not.   *)

SetOptions(cat, off, s, bnd) ==
  /\ pc = "built" /\ changes < MaxChanges
  /\ category' = cat /\ noshow' = off /\ style' = s /\ marinerStyle' = bnd
  /\ stateHash' = HashOf(cat, off, bnd)
  /\ changes' = changes + 1
  /\ UNCHANGED <<input, razRules, ve_hash, vc_hash, lsindex, todo, ls_list, pairs,
                 nPoints, vbo_offset, buffer, allocated, pc, hidden, hashSeen,
                 prioritySet, dpri, max_priority, priority, styleSeen>>

\* The view, the scale or the date changes; no hash does.
MoveView(h) ==
  /\ pc = "built" /\ h # hidden
  /\ hidden' = h
  /\ UNCHANGED <<gvars, category, marinerStyle, noshow, stateHash, hashSeen, prioritySet, dpri,
                 max_priority, priority, styleSeen, changes>>

-----------------------------------------------------------------------------
(* UpdateLUPs, for the areas. *)

LevelSeq == [i \in 1..(LastLevel + 1) |-> i - 1]

\* Mutant: filed in the other style whether or not that is bare.
FileAlways(raz, from, to, toStyle, i) ==
  FoldLeft(LAMBDA r, f : InsertRules(r, f, toStyle), raz, raz[<<i, from>>])

\* At one priority: what is set in one style and bare in the other is filed
\* in the other, under the priority it has there.
FileOther(raz, from, to, toStyle, i) ==
  IF raz[<<i, from>>] # <<>> /\ raz[<<i, to>>] = <<>>
  THEN FoldLeft(LAMBDA r, f : InsertRules(r, f, toStyle), raz, raz[<<i, from>>])
  ELSE raz

UpdateLUPs(raz) ==
  FoldLeft(LAMBDA r, i : FileOther(FileOther(r, 3, 4, "symbolized", i),
                                   4, 3, "plain", i),
           raz, LevelSeq)

-----------------------------------------------------------------------------
(* SetLinePriorities. *)

\* The filter of SetLineFeaturePriority.
Claims(f) ==
  /\ \/ Lup[f].mutable
     \/ /\ category = "standard" => Lup[f].disc \in {"base", "standard"}
        /\ category = "base" => Lup[f].disc = "base"
  /\ f \notin noshow

IdsOf(f) == ToSet(ls_list[f])

\* The line features of a priority, and the areas in the style in force.
ListedAt(raz, i) ==
  ToSet(raz[<<i, 2>>]) \cup ToSet(raz[<<i, IF style = "symbolized" THEN 4 ELSE 3>>])

\* Mutant: the highest priority ever given stays.
PrioritizeMax(raz, m, i) ==
  With(m, [id \in UNION {IdsOf(f) : f \in {g \in ListedAt(raz, i) : Claims(g)}} |->
             IF id \in DOMAIN m /\ m[id] > i THEN m[id] ELSE i])

\* PrioritizeLineFeature for the features of one priority.
Prioritize(raz, m, i) ==
  With(m, [id \in UNION {IdsOf(f) : f \in {g \in ListedAt(raz, i) : Claims(g)}} |-> i])

MaxOf(m, id) == IF id \in DOMAIN m THEN m[id]
                ELSE IF id[1] = "EE" THEN 0 ELSE Unset

SetLinePriorities(raz, set) ==
  IF set THEN UNCHANGED <<max_priority, priority, styleSeen>>
  ELSE /\ max_priority' = FoldLeft(LAMBDA m, i : Prioritize(raz, m, i),
                                   max_priority, LevelSeq)
       /\ priority' = [f \in Features |->
                         [k \in DOMAIN ls_list[f] |->
                            MaxOf(max_priority', ls_list[f][k])]]
       /\ styleSeen' = style

\* What every rendering of the chart does before it draws.
Render ==
  /\ pc = "built"
  /\ LET miss == hashSeen # stateHash IN
     /\ razRules' = IF miss THEN UpdateLUPs(razRules) ELSE razRules
     /\ SetLinePriorities(razRules', prioritySet /\ ~miss)
  /\ hashSeen' = stateHash
  /\ prioritySet' = TRUE
  /\ UNCHANGED <<input, style, ve_hash, vc_hash, lsindex, todo, ls_list, pairs,
                 nPoints, vbo_offset, buffer, allocated, pc, category,
                 marinerStyle, noshow, hidden, stateHash, dpri, changes>>

Next ==
  \/ GNext /\ UNCHANGED dvars
  \/ \E cat \in Categories, off \in NoshowSets, s \in Styles :
       \E bnd \in {marinerStyle, s} : SetOptions(cat, off, s, bnd)
  \/ \E h \in HiddenSets : MoveView(h)
  \/ Render

Spec == Init /\ [][Next]_vars

-----------------------------------------------------------------------------
(* Drawing, as DoRender2RectOnGL and RenderGLLS do it. *)

InStyle(f) == \E i \in Levels : f \in ListedAt(razRules, i)
Visible(f) == InStyle(f) /\ Claims(f) /\ f \notin hidden
Draws(f, id) == /\ Visible(f)
                /\ \E k \in DOMAIN ls_list[f] : /\ ls_list[f][k] = id
                                                /\ priority[f][k] = dpri[f]

-----------------------------------------------------------------------------
(* Properties. *)

TypeOK ==
  /\ GeometryTypeOK
  /\ category \in Categories /\ noshow \in NoshowSets /\ hidden \in HiddenSets
  /\ marinerStyle \in Styles /\ prioritySet \in BOOLEAN
  /\ dpri \in [Features -> Levels]
  /\ \A f \in Features : \A k \in DOMAIN priority[f] : priority[f][k] \in Int

\* The chart has seen the options that are in force.
UpToDate == pc = "built" /\ prioritySet /\ hashSeen = stateHash /\ styleSeen = style

(* A line shared by several features is drawn by those of the highest      *)
(* priority among the ones that claim it, if they are in view, and by no   *)
(* other, also after features have come and gone with the category: a      *)
(* priority once given must not stay when its feature is no longer shown.  *)
(* Features whose priority at load differs from the one they are filed     *)
(* under now are excepted: m_DPRI is never set again.                      *)
OwnersDraw ==
  UpToDate =>
    \A id \in DOMAIN vbo_offset :
      LET users == {f \in Features : InStyle(f) /\ Claims(f) /\ id \in IdsOf(f)}
          level(f) == LevelOf(f, style)
      IN  users # {} /\ (\A f \in users : dpri[f] = level(f))
          => {f \in Features : Draws(f, id)}
             = {f \in users \ hidden : \A g \in users : level(g) <= level(f)}

(* UpdateLUPs runs at every change of the options, and files an area again *)
(* only where the other style is bare.  An area with the same priority in  *)
(* both styles, at a priority where no other moves to or from, is in the   *)
(* lists of both exactly once, however often that happens.                 *)
Steady(f) == LevelOf(f, "plain") = LevelOf(f, "symbolized")
Undisturbed(i) == \A f \in Features :
                    i \in {LevelOf(f, s) : s \in Styles} => Steady(f)
Times(f, cell) == Cardinality({k \in DOMAIN razRules[cell] : razRules[cell][k] = f})
ListedOnce ==
  hashSeen # <<>> =>
    \A f \in Features : \A s \in Styles :
      Steady(f) /\ Undisturbed(LevelOf(f, s))
      => Times(f, <<LevelOf(f, s), ListOf(f, s)>>) = 1
=============================================================================
