----------------------------- MODULE ChartFiles -----------------------------
(***************************************************************************)
(* What processTask (ochartShop.cpp) does to a chart directory: chart      *)
(* files, ChartList.XML (ChartSetData) and one key list per system the     *)
(* chartset was installed for (ChartSetKeys).  A base set replaces what is *)
(* there; an update names the charts withdrawn and those added or changed, *)
(* and is merged.  InstallChain sees all this as two steps, TaskUnpack and *)
(* TaskFinish.                                                             *)
(*                                                                         *)
(* A chart, its entry and its key are the edition that last changed it, 0  *)
(* if absent.  A chart that a task's list names may be missing from what   *)
(* was unpacked, since the zip file lacks it or since unpacking failed,    *)
(* which nobody looks at: it is logged and left out, and its key entered.  *)
(***************************************************************************)
EXTENDS Naturals, Sequences, FiniteSets

CONSTANTS Ids,       \* charts of the chartset
          Systems,   \* "pc", "sgl": what it may be installed for on this machine
          MaxEd,     \* bound: the last edition published
          BaseEds,   \* editions that start a new base compilation
          Crashes,   \* may the process die?
          Torn,      \* ... and leave an XML file half written?
          CopyFails, \* may copying a chart fail?
          Skips,     \* may a listed chart be missing from what was unpacked?
          BaseInterrupts \* may an installation end while a base set replaces charts?

ASSUME ChartFilesAssumption ==
  /\ MaxEd \in Nat \ {0} /\ BaseEds \subseteq 1..MaxEd /\ 1 \in BaseEds
  /\ {Crashes, Torn, CopyFails, Skips, BaseInterrupts} \subseteq BOOLEAN

Gen == [Ids -> 0..MaxEd]
Empty == [i \in Ids |-> 0]

VARIABLES editions, \* what the server published: a sequence of Gen
          recorded, \* slot->installedEdition, per system
          files,    \* the chart files
          list,     \* ChartList.XML
          keys,     \* the key list of each system
          missed,   \* charts left out when ChartList.XML last had to enter them
          job       \* the installation under way

dir == <<files, list, keys, missed>>
chartVars == <<editions, recorded, dir, job>>

NoJob == [st |-> "none"]
Jobs == [st : {"begin", "read", "copy", "keys", "done"}, sys : Systems,
         tasks : Seq([ed : 1..MaxEd, base : BOOLEAN]), i : Nat \ {0},
         todo : SUBSET Ids, missed : SUBSET Ids,
         list : Gen, keys : Gen]  \* the working copies

\* The merges of the server's files into those in place, by chart ID.
Merge(old, new, only) == [i \in Ids |-> IF i \in only THEN new[i] ELSE old[i]]
Remove(old, ids) == Merge(old, Empty, ids)

Init ==
  /\ editions \in {<<g>> : g \in [Ids -> 0..1]}
  /\ recorded = [s \in Systems |-> 0]
  /\ files = Empty /\ list = Empty /\ keys = [s \in Systems |-> Empty]
  /\ missed = {}
  /\ job = NoJob

\* A new edition changes, adds and withdraws charts.
Publish ==
  /\ Len(editions) < MaxEd
  /\ \E changed, withdrawn \in SUBSET Ids :
       editions' = Append(editions,
         [i \in Ids |-> IF i \in withdrawn THEN 0
                        ELSE IF i \in changed THEN Len(editions) + 1
                        ELSE editions[Len(editions)][i]])
  /\ UNCHANGED <<recorded, dir, job>>

(***************************************************************************)
(* An installation: one base set, or the missing updates one by one.       *)
(***************************************************************************)
Major(e) == Cardinality({b \in BaseEds : b <= e})
Base(e) == [ed |-> e, base |-> TRUE]
Steps(from, to) == [k \in 1..(to - from) |-> [ed |-> from + k, base |-> FALSE]]
Answers(have, want) ==
  {<<Base(want)>>} \cup
    IF have = want \/ Major(want) > Major(have) THEN {} ELSE {Steps(have, want)}

\* The server substitutes a base set where it likes.
Start(s) ==
  /\ job = NoJob
  /\ \E tasks \in Answers(recorded[s], Len(editions)) :
       job' = [st |-> "begin", sys |-> s, tasks |-> tasks, i |-> 1,
               todo |-> {}, missed |-> {}, list |-> Empty, keys |-> Empty]
  /\ UNCHANGED <<editions, recorded, dir>>

Task == job.tasks[job.i]
Contents(t) == editions[t.ed]
Previous(t) == IF t.base THEN Empty ELSE editions[t.ed - 1]
ActionWithdrawn(t) == {i \in Ids : Contents(t)[i] = 0 /\ Previous(t)[i] # 0}
ActionAddUpdate(t) == {i \in Ids : Contents(t)[i] # Previous(t)[i]} \ ActionWithdrawn(t)

\* A base set: all files below the directory are removed, whoever's they are.
RemoveCharts == /\ files' = Empty /\ UNCHANGED <<list, keys, missed>>
RemoveAll == /\ files' = Empty /\ list' = Empty /\ missed' = {}
             /\ keys' = [s \in Systems |-> Empty]

TaskBegin ==
  /\ job.st = "begin"
  /\ IF Task.base THEN RemoveAll ELSE UNCHANGED dir
  /\ job' = [job EXCEPT !.st = "read"]
  /\ UNCHANGED <<editions, recorded>>

\* The lists in place are read, withdrawn charts are removed from disk and
\* from the working copies.
TaskWithdraw ==
  /\ job.st = "read"
  /\ files' = Remove(files, ActionWithdrawn(Task))
  /\ job' = [job EXCEPT !.st = "copy", !.todo = ActionAddUpdate(Task),
               !.missed = missed \ ActionWithdrawn(Task),
               !.list = Remove(list, ActionWithdrawn(Task)),
               !.keys = Remove(keys[job.sys], ActionWithdrawn(Task))]
  /\ UNCHANGED <<editions, recorded, list, keys, missed>>

\* Each chart is removed, copied and entered; a copy that fails is logged.
CopyChart(i) ==
  /\ job.st = "copy" /\ i \in job.todo
  /\ \/ files' = Merge(files, Contents(Task), {i})
     \/ CopyFails /\ files' = Remove(files, {i})
  /\ job' = [job EXCEPT !.todo = @ \ {i}, !.missed = @ \ {i},
               !.list = Merge(@, Contents(Task), {i})]
  /\ UNCHANGED <<editions, recorded, list, keys, missed>>

\* ... but one that was not unpacked is left as it is, its entry too.
SkipChart(i) ==
  /\ Skips /\ job.st = "copy" /\ i \in job.todo
  /\ job' = [job EXCEPT !.todo = @ \ {i}, !.missed = @ \cup {i}]
  /\ UNCHANGED <<editions, recorded, dir>>

MergeForget == Merge(Empty, Contents(Task), ActionAddUpdate(Task))
MergeKeys == Merge(job.keys, Contents(Task), ActionAddUpdate(Task))
WriteList ==
  /\ job.st = "copy" /\ job.todo = {}
  /\ list' = job.list /\ missed' = job.missed
  /\ job' = [job EXCEPT !.st = "keys", !.keys = MergeKeys]
  /\ UNCHANGED <<editions, recorded, files, keys>>

MoreTasksLate == job.i <= Len(job.tasks)
MoreTasks == job.i < Len(job.tasks)
WriteKeys ==
  /\ job.st = "keys"
  /\ keys' = [keys EXCEPT ![job.sys] = job.keys]
  /\ job' = [job EXCEPT !.st = IF MoreTasks THEN "begin" ELSE "done",
               !.i = @ + 1, !.missed = {}, !.list = Empty, !.keys = Empty]
  /\ UNCHANGED <<editions, recorded, files, list, missed>>

\* "If no error, finalize the contract."
Done ==
  /\ job.st = "done"
  /\ recorded' = [recorded EXCEPT ![job.sys] = job.tasks[Len(job.tasks)].ed]
  /\ job' = NoJob
  /\ UNCHANGED <<editions, dir>>

\* A task that returns an error (no directory, list not written, ...) ends
\* the installation.
Interruptible ==
  \/ BaseInterrupts
  \/ ~(job.st \in {"read", "copy", "keys"} /\ Task.base)
  \/ \A s \in Systems : recorded[s] = 0

TaskError ==
  /\ job.st \in {"begin", "read", "copy", "keys"} /\ Interruptible
  /\ job' = NoJob
  /\ UNCHANGED <<editions, recorded, dir>>

\* The process dies: a chart may be left half copied, and a list, if Torn,
\* half written: a prefix of it is all that is read from then on.
Parts(g) == {Merge(Empty, g, ids) : ids \in SUBSET Ids}
HalfCopied ==
  /\ job.st = "copy" /\ \E i \in job.todo : files' = Remove(files, {i})
  /\ UNCHANGED <<list, keys, missed>>
HalfList ==
  /\ Torn /\ job.st = "copy" /\ job.todo = {}
  /\ list' \in Parts(job.list) /\ missed' = job.missed
  /\ UNCHANGED <<files, keys>>
HalfKeys ==
  /\ Torn /\ job.st = "keys"
  /\ \E g \in Parts(job.keys) : keys' = [keys EXCEPT ![job.sys] = g]
  /\ UNCHANGED <<files, list, missed>>
Crash ==
  /\ Crashes /\ Interruptible
  /\ HalfCopied \/ HalfList \/ HalfKeys \/ UNCHANGED dir
  /\ job' = NoJob
  /\ UNCHANGED <<editions, recorded>>

TaskStep == \/ TaskBegin \/ TaskWithdraw \/ (\E i \in Ids : CopyChart(i) \/ SkipChart(i))
            \/ WriteList \/ WriteKeys
Working == TaskStep \/ TaskError
Next == Publish \/ (\E s \in Systems : Start(s)) \/ Working \/ Done \/ Crash

Spec == Init /\ [][Next]_chartVars

(***************************************************************************)
(* Properties.                                                             *)
(***************************************************************************)
\* Every variable keeps its type; a task at work is one of the list.
TypeOK ==
  /\ editions \in Seq(Gen) /\ Len(editions) \in 1..MaxEd
  /\ recorded \in [Systems -> 0..MaxEd]
  /\ files \in Gen /\ list \in Gen /\ keys \in [Systems -> Gen]
  /\ missed \subseteq Ids
  /\ job \in {NoJob} \cup Jobs
  /\ job.st \notin {"none", "done"} => job.i \in DOMAIN job.tasks

\* The directory holds the edition recorded for s: its charts, their entries,
\* and the keys of s; but for the entries and files of charts that were left
\* out and have not been sent again.  A chart whose copy failed is missing.
HoldsRecorded(s) ==
  LET contents == editions[recorded[s]]
  IN /\ keys[s] = contents
     /\ \A i \in Ids \ missed :
          list[i] = contents[i] /\ (files[i] = contents[i] \/ (CopyFails /\ files[i] = 0))

\* When an installation ends, the directory holds exactly the edition that is
\* recorded, although updates are merged into what crashes and errors left
\* behind, and although only charts that changed are sent.
FinishedIsComplete ==
  [][\A s \in Systems : Done /\ job.sys = s => HoldsRecorded(s)']_chartVars

\* A base set repairs what any fault left behind, half-written lists and
\* another system's installation included.  A chart it should have brought but
\* did not is in the key list only.
BaseSetRepairs ==
  [][\A s \in Systems : Done /\ job.sys = s /\ job.tasks[1].base
       => /\ HoldsRecorded(s)'
          /\ \A i \in missed' : list'[i] = 0 /\ files'[i] = 0]_chartVars

\* Between installations every entry and key is that of the recorded edition
\* or of a later one, wherever an update was interrupted; the entry of a chart
\* that was left out excepted.
EntriesKeepUp ==
  job = NoJob => \A s \in Systems : recorded[s] # 0 =>
    \A i \in Ids : LET later == {editions[e][i] : e \in recorded[s]..Len(editions)}
                  IN keys[s][i] \in later /\ (i \notin missed => list[i] \in later)

\* As EntriesKeepUp, of every chart: false where charts were left out.
EveryEntryKeepsUp ==
  job = NoJob => \A s \in Systems : recorded[s] # 0 =>
    \A i \in Ids : list[i] \in {editions[e][i] : e \in recorded[s]..Len(editions)}
=============================================================================
