----------------------------- MODULE Validator ------------------------------
(***************************************************************************)
(* "Validate Installed Chart Set" (ocValidator::startValidation): the      *)
(* entries of ChartList.XML and the chart files must name the same charts, *)
(* each key list must have a key for each file, and each file must open.   *)
(* The loads are those of the program: they use, fill and switch the key   *)
(* maps of ChartKeys, and other charts are opened between them, since the  *)
(* validation yields to the event loop.  No installation is started below  *)
(* a validation.                                                           *)
(*                                                                         *)
(* An empty key list stands for one that is not there.                     *)
(***************************************************************************)
EXTENDS ChartKeys

Orders == INSTANCE SequencesExt

ASSUME ValidatorAssumption == IsFiniteSet(Ids)

VARIABLE val  \* the validation: how far it is, or its verdict

valVars == <<vars, val>>

Idle == [st |-> "idle"]
Charts(g) == {i \in Ids : g[i] # 0}

(***************************************************************************)
(* The lists.                                                              *)
(***************************************************************************)
\* The chartset is installed for system s: its slot has an install location.
Installed(s) == s \in Systems /\ recorded[s] # 0

\* The systems the chartset may be assigned to: those it is installed for,
\* and maybe others that have a slot and nothing in it.
Assignments == {s \in SUBSET {"pc", "sgl"} : {r \in Systems : Installed(r)} \subseteq s}

\* The dongle's slot is validated if the dongle is there and has one,
\* installed or not.
SlotSystem(assigned) == IF plugged /\ "sgl" \in assigned THEN "sgl" ELSE "pc"

KeyLists == {s \in Systems : keys[s] # Empty}
XmlFiles == {"ChartList"} \cup KeyLists

\* Pass 1 and pass 2.
ListAgrees == Charts(list) = Charts(files)

\* Bug: the list's place is counted from one.
KeyFoundFromOne(xml, f, k, beyond) ==
  \/ xml[k] = "ChartList" \/ f = <<>>
  \/ IF k < Len(f) THEN keys[xml[k]][f[k + 1]] # 0 ELSE beyond

\* The file that is looked for in a key list is the one at the list's own
\* place among the XML files; beyond the last file, whatever is found there.
KeyFound(xml, f, k, beyond) ==
  \/ xml[k] = "ChartList" \/ f = <<>>
  \/ IF k <= Len(f) THEN keys[xml[k]][f[k]] # 0 ELSE beyond
KeysValidate(xml, f, beyond) == \A k \in 1..Len(xml) : KeyFound(xml, f, k, beyond)

\* An installation that should validate, if the loads do their part.
Complete(system) ==
  /\ ~aborted /\ Installed(system) /\ files # Empty /\ list = files
  /\ \A s \in KeyLists, i \in Charts(files) : keys[s][i] = files[i]
  /\ system \in KeyLists /\ Cardinality(XmlFiles) <= Cardinality(Charts(files))

Validate ==
  /\ job = NoJob
  /\ \E xml \in Orders!SetToSeqs(XmlFiles), f \in Orders!SetToSeqs(Charts(files)), beyond \in BOOLEAN,
        found \in {TRUE, list # Empty}, assigned \in Assignments :
       LET system == SlotSystem(assigned)
           ok == /\ Installed(system) /\ found
                 /\ ListAgrees /\ KeysValidate(xml, f, beyond)
       IN val' = [st |-> "on", left |-> IF ok THEN Charts(files) ELSE {},
                  error |-> ~ok, complete |-> Complete(system)]
  /\ UNCHANGED vars

(***************************************************************************)
(* The loads.  What is left of a validation whose server failed is not     *)
(* followed: its loads are openings like any others.                       *)
(***************************************************************************)
Opened(i) == Opens(primary, map[primary][i], i)

\* Bug: the verdict is that of the last chart.
VerdictLast(i) == ~Opened(i)'
Verdict(i) == val.error \/ ~Opened(i)'

TestLoad(i) ==
  /\ val.st = "on" /\ i \in val.left
  /\ OpenRaster(i)
  /\ \/ /\ RasterOpens(map, primary, i) => Opened(i)'
        /\ val' = [val EXCEPT !.left = @ \ {i}, !.error = Verdict(i)]
     \/ ServerFails /\ val' = Idle

(***************************************************************************)
(* Everything else.  A verdict stands until an installation is started.    *)
(***************************************************************************)
Validating == val.st = "on" /\ val.left # {}

Elsewhere ==
  \/ ~Validating /\ Install /\ val' = IF job' = NoJob THEN val ELSE Idle
  \/ (DoneAndClear \/ Abort \/ CrashAndRestart \/ PlugDongle) /\ val' = Idle
  \/ (\E i \in Ids : OpenRaster(i) \/ OpenVector(i)) /\ UNCHANGED val

VNext == Validate \/ (\E i \in Ids : TestLoad(i)) \/ Elsewhere
VInit == Init /\ KeyInit /\ val = Idle
VSpec == VInit /\ [][VNext]_valVars

(***************************************************************************)
(* Properties.                                                             *)
(***************************************************************************)
\* A complete installation of raster charts validates: with at least as many
\* charts as XML files, whatever was opened before and is opened between the
\* loads, for either system, if the system whose slot is looked at is the one
\* it is installed for.
CompleteValidates == val.st = "on" /\ val.complete => ~val.error

\* What validates can be used: if no error was found, the charts listed are
\* those on disk, and each opens, in any order, for as long as the dongle
\* stays as it is.
ValidIsUsable ==
  val.st = "on" /\ val.left = {} /\ ~val.error =>
    /\ ListAgrees
    /\ \A i \in Charts(files) : RasterOpens(map, primary, i)

\* "There must be a key for each file found in the ChartList."
KeyForEachFile ==
  val.st = "on" /\ val.left = {} /\ ~val.error =>
    \A s \in KeyLists : Charts(files) \subseteq Charts(keys[s])

\* As CompleteValidates, of sets of any size.
CompleteOfAnySize ==
  val.st = "on" /\ ~aborted /\ list = files /\ ("sgl" \in Systems \/ ~plugged)
    /\ (\A s \in Systems : Installed(s) /\ s \in KeyLists /\ keys[s] = files) => ~val.error
=============================================================================
