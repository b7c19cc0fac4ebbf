------------------------ MODULE ChartDirectory_proofs ------------------------
(***************************************************************************)
(* The chart directory of one chartset: what installations leave in it     *)
(* (ChartFiles), the keys charts are opened with beside them (ChartKeys),  *)
(* and what the validator says of it (Validator).                          *)
(***************************************************************************)
EXTENDS Validator, FiniteSetTheorems, SequenceTheorems, TLAPS

(***************************************************************************)
(* ChartFiles.  With one system, lists written whole, and base sets that   *)
(* are not interrupted, every installation that ends leaves exactly the    *)
(* recorded edition, however many updates were interrupted, and wherever;  *)
(* a base set does under any faults.                                       *)
(***************************************************************************)

(***************************************************************************)
(* Types.                                                                  *)
(***************************************************************************)
LEMMA EmptyIsGen == Empty \in Gen
  BY ChartFilesAssumption DEF Empty, Gen

LEMMA MergeIsGen ==
  ASSUME NEW old \in Gen, NEW new \in Gen, NEW only
  PROVE  Merge(old, new, only) \in Gen
  BY DEF Merge, Gen

LEMMA RemoveIsGen == ASSUME NEW old \in Gen, NEW ids PROVE Remove(old, ids) \in Gen
  BY EmptyIsGen, MergeIsGen DEF Remove

LastEd == job.tasks[Len(job.tasks)].ed

\* A job is one base set, or the updates from the recorded edition on; what
\* it installs has been published.
Shape ==
  job # NoJob =>
    /\ Len(job.tasks) \in Nat \ {0}
    /\ job.i \in 1..(Len(job.tasks) + 1)
    /\ (job.st = "done") <=> (job.i = Len(job.tasks) + 1)
    /\ LastEd \in 1..Len(editions) /\ recorded[job.sys] <= LastEd
    /\ \/ Len(job.tasks) = 1 /\ job.tasks[1].base
       \/ /\ recorded[job.sys] # 0
          /\ LastEd = recorded[job.sys] + Len(job.tasks)
          /\ \A k \in 1..Len(job.tasks) : /\ ~job.tasks[k].base
                                         /\ job.tasks[k].ed = recorded[job.sys] + k

RecordedPublished == \A s \in Systems : recorded[s] <= Len(editions)

Typing == TypeOK /\ Shape /\ RecordedPublished

\* What the shape says of the task at work.
LEMMA TaskShape ==
  ASSUME Typing, job # NoJob, job.st # "done"
  PROVE  /\ job \in Jobs /\ job.i \in 1..Len(job.tasks)
         /\ Task.ed \in 1..Len(editions) /\ Task.base \in BOOLEAN
         /\ ~Task.base => /\ Task.ed - 1 \in 1..Len(editions)
                          /\ Task.ed = recorded[job.sys] + job.i
                          /\ recorded[job.sys] # 0
         /\ Contents(Task) \in Gen /\ Previous(Task) \in Gen
<1>1. job \in Jobs /\ job.i \in 1..Len(job.tasks)
  BY DEF Typing, TypeOK, Shape
<1>2. Task = job.tasks[job.i] /\ Task \in [ed : 1..MaxEd, base : BOOLEAN]
  <2>1. job.tasks \in Seq([ed : 1..MaxEd, base : BOOLEAN])
    BY <1>1 DEF Jobs
  <2>2. job.tasks[job.i] \in [ed : 1..MaxEd, base : BOOLEAN]
    BY <1>1, <2>1, ElementOfSeq
  <2> QED BY <2>2 DEF Task
<1>3. /\ Task.ed \in 1..Len(editions)
      /\ ~Task.base => /\ Task.ed - 1 \in 1..Len(editions)
                       /\ Task.ed = recorded[job.sys] + job.i
                       /\ recorded[job.sys] # 0
  <2>1. recorded[job.sys] \in Nat /\ Len(editions) \in Nat
    BY <1>1, ChartFilesAssumption DEF Jobs, Typing, TypeOK
  <2>2. CASE Len(job.tasks) = 1 /\ job.tasks[1].base
    BY <1>1, <1>2, <2>1, <2>2 DEF Typing, Shape, LastEd
  <2>3. CASE ~(Len(job.tasks) = 1 /\ job.tasks[1].base)
    <3>1. /\ recorded[job.sys] # 0 /\ LastEd = recorded[job.sys] + Len(job.tasks)
          /\ Task.ed = recorded[job.sys] + job.i /\ LastEd \in 1..Len(editions)
          /\ Len(job.tasks) \in Nat
      BY <1>1, <1>2, <2>3 DEF Typing, Shape
    <3> QED BY <1>1, <2>1, <3>1
  <2> QED BY <2>2, <2>3
<1>4. Contents(Task) \in Gen /\ Previous(Task) \in Gen
  <2>1. \A e \in 1..Len(editions) : editions[e] \in Gen
    BY DEF Typing, TypeOK
  <2> QED BY <1>2, <1>3, <2>1, EmptyIsGen DEF Contents, Previous
<1> QED BY <1>1, <1>2, <1>3, <1>4

LEMMA NoJobIsNone == NoJob \notin Jobs /\ NoJob.st = "none"
  BY DEF NoJob, Jobs

\* The first installation of a chartset is a base set.
LEMMA FirstIsBase ==
  ASSUME NEW e \in Nat \ {0}
  PROVE  Major(e) > Major(0)
<1> DEFINE upto(n) == {b \in BaseEds : b <= n}
<1>1. IsFiniteSet(BaseEds)
  <2>1. IsFiniteSet(1..MaxEd)
    BY FS_Interval, ChartFilesAssumption
  <2> QED BY <2>1, FS_Subset, ChartFilesAssumption
<1>2. upto(0) = {} /\ 1 \in upto(e)
  <2>1. \A b \in BaseEds : b \in Nat /\ 1 <= b
    BY ChartFilesAssumption
  <2>2. upto(0) = {}
    BY <2>1
  <2>3. 1 \in BaseEds /\ 1 <= e
    BY ChartFilesAssumption
  <2> QED BY <2>2, <2>3
<1>3. Cardinality(upto(0)) = 0
  BY <1>2, FS_EmptySet
<1>4. IsFiniteSet(upto(e))
  <2>1. upto(e) \subseteq BaseEds OBVIOUS
  <2> QED BY <1>1, <2>1, FS_Subset
<1>5. Cardinality(upto(e)) \in Nat /\ Cardinality(upto(e)) # 0
  BY <1>2, <1>4, FS_CardinalityType, FS_EmptySet
<1> QED BY <1>3, <1>5 DEF Major

LEMMA InitTyping == Init => Typing
<1> SUFFICES ASSUME Init PROVE Typing OBVIOUS
<1>1. editions \in Seq(Gen) /\ Len(editions) = 1
  <2>1. PICK g \in [Ids -> 0..1] : editions = <<g>>
    BY DEF Init
  <2>2. g \in Gen
    BY <2>1, ChartFilesAssumption DEF Gen
  <2> QED BY <2>1, <2>2
<1>2. TypeOK
  BY <1>1, EmptyIsGen, NoJobIsNone, ChartFilesAssumption DEF Init, TypeOK
<1>3. Shape
  BY DEF Init, Shape
<1>4. RecordedPublished
  BY <1>1 DEF Init, RecordedPublished
<1> QED BY <1>2, <1>3, <1>4 DEF Typing

LEMMA PublishTyping == ASSUME Typing, Publish PROVE Typing'
<1>1. PICK changed \in SUBSET Ids, withdrawn \in SUBSET Ids :
        editions' = Append(editions,
         [i \in Ids |-> IF i \in withdrawn THEN 0
                        ELSE IF i \in changed THEN Len(editions) + 1
                        ELSE editions[Len(editions)][i]])
  BY DEF Publish
<1> DEFINE g == [i \in Ids |-> IF i \in withdrawn THEN 0
                        ELSE IF i \in changed THEN Len(editions) + 1
                        ELSE editions[Len(editions)][i]]
<1>2. /\ editions \in Seq(Gen) /\ Len(editions) \in 1..MaxEd /\ Len(editions) < MaxEd
      /\ MaxEd \in Nat
  BY ChartFilesAssumption DEF Typing, TypeOK, Publish
<1>3. g \in Gen
  <2>1. editions[Len(editions)] \in Gen
    BY <1>2
  <2> QED BY <1>2, <2>1 DEF Gen
<1>4. editions' = Append(editions, g)
  BY <1>1
<1> HIDE DEF g
<1>5. editions' \in Seq(Gen) /\ Len(editions') = Len(editions) + 1
  BY <1>2, <1>3, <1>4
<1>6. TypeOK'
  BY <1>2, <1>5 DEF Typing, TypeOK, Publish, dir
<1>7. Shape'
  BY <1>2, <1>5 DEF Typing, Shape, LastEd, Publish, dir
<1>8. RecordedPublished'
  BY <1>2, <1>5 DEF Typing, TypeOK, RecordedPublished, Publish, dir
<1> QED BY <1>6, <1>7, <1>8 DEF Typing

\* What the server answers: a base set, or the updates that are missing.
LEMMA AnswersShape ==
  ASSUME Typing, NEW s \in Systems, NEW tasks \in Answers(recorded[s], Len(editions))
  PROVE  /\ tasks \in Seq([ed : 1..MaxEd, base : BOOLEAN]) /\ Len(tasks) \in Nat \ {0}
         /\ tasks[Len(tasks)].ed = Len(editions)
         /\ \/ Len(tasks) = 1 /\ tasks[1].base
            \/ /\ recorded[s] # 0
               /\ Len(editions) = recorded[s] + Len(tasks)
               /\ \A k \in 1..Len(tasks) : ~tasks[k].base /\ tasks[k].ed = recorded[s] + k
<1>2. /\ Len(editions) \in 1..MaxEd /\ recorded[s] \in 0..MaxEd
      /\ recorded[s] <= Len(editions) /\ MaxEd \in Nat
  BY ChartFilesAssumption DEF Typing, TypeOK, RecordedPublished
<1> DEFINE T == [ed : 1..MaxEd, base : BOOLEAN]
<1>3. /\ tasks \in Seq(T) /\ Len(tasks) \in Nat \ {0}
      /\ tasks[Len(tasks)].ed = Len(editions)
      /\ \/ Len(tasks) = 1 /\ tasks[1].base
         \/ /\ recorded[s] # 0
            /\ Len(editions) = recorded[s] + Len(tasks)
            /\ \A k \in 1..Len(tasks) : ~tasks[k].base /\ tasks[k].ed = recorded[s] + k
  <2>1. CASE tasks = <<Base(Len(editions))>>
    <3>1. Base(Len(editions)) \in T
      BY <1>2 DEF Base
    <3>2. Len(tasks) = 1 /\ tasks[1] = Base(Len(editions))
      BY <2>1
    <3> QED BY <2>1, <3>1, <3>2 DEF Base
  <2>2. CASE tasks = Steps(recorded[s], Len(editions)) /\ recorded[s] # Len(editions)
             /\ ~(Major(Len(editions)) > Major(recorded[s]))
    <3> DEFINE n == Len(editions) - recorded[s]
    <3>1. n \in Nat \ {0} /\ n + recorded[s] = Len(editions)
      BY <1>2, <2>2
    <3>2. recorded[s] # 0
      BY <1>2, <2>2, FirstIsBase
    <3>3. tasks = [k \in 1..n |-> [ed |-> recorded[s] + k, base |-> FALSE]]
      BY <2>2 DEF Steps
    <3>4. \A k \in 1..n : /\ recorded[s] + k \in Nat /\ 1 <= recorded[s] + k
                         /\ recorded[s] + k <= MaxEd
      BY <1>2, <3>1
    <3> HIDE DEF n
    <3>5. \A k \in 1..n : [ed |-> recorded[s] + k, base |-> FALSE] \in T
      BY <1>2, <3>4
    <3>6. tasks \in [1..n -> T]
      BY <3>3, <3>5
    <3>7. tasks \in Seq(T) /\ Len(tasks) = n
      <4> HIDE DEF T
      <4>1. n \in Nat BY <3>1
      <4>2. tasks \in Seq(T) BY <3>6, <4>1, SeqDef
      <4>3. DOMAIN tasks = 1..n BY <3>6
      <4> QED BY <4>1, <4>2, <4>3, LenProperties
    <3>8. recorded[s] + n = Len(editions)
      BY <1>2, <3>1
    <3> HIDE DEF T
    <3> QED BY <3>1, <3>2, <3>3, <3>7, <3>8
  <2> QED BY <2>1, <2>2 DEF Answers
<1> QED BY <1>3

LEMMA StartTyping == ASSUME Typing, NEW s \in Systems, Start(s) PROVE Typing'
<1>1. PICK tasks \in Answers(recorded[s], Len(editions)) :
       job' = [st |-> "begin", sys |-> s, tasks |-> tasks, i |-> 1,
               todo |-> {}, missed |-> {}, list |-> Empty, keys |-> Empty]
  BY DEF Start
<1>2. /\ Len(editions) \in 1..MaxEd /\ recorded[s] \in 0..MaxEd
      /\ recorded[s] <= Len(editions) /\ MaxEd \in Nat
  BY ChartFilesAssumption DEF Typing, TypeOK, RecordedPublished
<1> DEFINE T == [ed : 1..MaxEd, base : BOOLEAN]
<1>3. /\ tasks \in Seq(T) /\ Len(tasks) \in Nat \ {0}
      /\ tasks[Len(tasks)].ed = Len(editions)
      /\ \/ Len(tasks) = 1 /\ tasks[1].base
         \/ /\ recorded[s] # 0
            /\ Len(editions) = recorded[s] + Len(tasks)
            /\ \A k \in 1..Len(tasks) : ~tasks[k].base /\ tasks[k].ed = recorded[s] + k
  BY <1>1, AnswersShape
<1>4. /\ job' \in Jobs /\ job'.st = "begin" /\ job'.sys = s /\ job'.tasks = tasks
      /\ job'.i = 1
  <2> HIDE DEF T
  <2>1. tasks \in Seq([ed : 1..MaxEd, base : BOOLEAN])
    BY <1>3 DEF T
  <2> QED BY <1>1, <2>1, EmptyIsGen DEF Jobs
<1>5. TypeOK'
  <2>1. 1 \in DOMAIN tasks
    BY <1>3
  <2> QED BY <1>4, <2>1 DEF Typing, TypeOK, Start, dir
<1>6. Shape'
  <2> HIDE DEF T
  <2> QED BY <1>2, <1>3, <1>4 DEF Shape, LastEd, Start, dir
<1>7. RecordedPublished'
  BY DEF Typing, RecordedPublished, Start, dir
<1> QED BY <1>5, <1>6, <1>7 DEF Typing

DirTyped == /\ files' \in Gen /\ list' \in Gen /\ keys' \in [Systems -> Gen]
            /\ missed' \subseteq Ids

\* A step within a task.
LEMMA WithinTaskTyping ==
  ASSUME Typing, job # NoJob, job.st # "done", UNCHANGED <<editions, recorded>>,
         job' \in Jobs, job'.tasks = job.tasks, job'.sys = job.sys, job'.i = job.i,
         job'.st # "done", DirTyped
  PROVE  Typing'
<1>1. job' # NoJob /\ job \in Jobs /\ job'.st # "none"
  BY NoJobIsNone DEF Typing, TypeOK, Jobs
<1>2. job.i \in DOMAIN job.tasks
  BY <1>1, NoJobIsNone DEF Typing, TypeOK, Jobs
<1>3. TypeOK'
  BY <1>1, <1>2 DEF Typing, TypeOK, DirTyped
<1>4. Shape'
  BY <1>1 DEF Typing, Shape, LastEd
<1>5. RecordedPublished'
  BY DEF Typing, RecordedPublished
<1> QED BY <1>3, <1>4, <1>5 DEF Typing

\* A step that ends the installation without recording it.
LEMMA EndTyping ==
  ASSUME Typing, UNCHANGED <<editions, recorded>>, job' = NoJob, DirTyped
  PROVE  Typing'
  BY NoJobIsNone DEF Typing, TypeOK, DirTyped, Shape, RecordedPublished

LEMMA TaskBeginTyping == ASSUME Typing, TaskBegin PROVE Typing'
<1>1. job # NoJob /\ job \in Jobs /\ job.st = "begin"
  BY NoJobIsNone DEF TaskBegin, Typing, TypeOK
<1>2. DirTyped
  BY EmptyIsGen DEF TaskBegin, RemoveAll, dir, Typing, TypeOK, DirTyped
<1>3. /\ job' \in Jobs /\ job'.tasks = job.tasks /\ job'.sys = job.sys
      /\ job'.i = job.i /\ job'.st # "done"
  BY <1>1 DEF TaskBegin, Jobs
<1>4. UNCHANGED <<editions, recorded>>
  BY DEF TaskBegin
<1> QED BY <1>1, <1>2, <1>3, <1>4, WithinTaskTyping

LEMMA TaskWithdrawTyping == ASSUME Typing, TaskWithdraw PROVE Typing'
<1>1. job # NoJob /\ job \in Jobs /\ job.st = "read"
  BY NoJobIsNone DEF TaskWithdraw, Typing, TypeOK
<1>2. DirTyped
  BY RemoveIsGen DEF TaskWithdraw, Typing, TypeOK, DirTyped
<1>3. /\ ActionAddUpdate(Task) \in SUBSET Ids
      /\ Remove(list, ActionWithdrawn(Task)) \in Gen
      /\ Remove(keys[job.sys], ActionWithdrawn(Task)) \in Gen
      /\ missed \ ActionWithdrawn(Task) \in SUBSET Ids
  <2>1. list \in Gen /\ keys[job.sys] \in Gen
    BY <1>1 DEF Typing, TypeOK, Jobs
  <2> QED BY <2>1, RemoveIsGen DEF ActionAddUpdate, Typing, TypeOK
<1>4. /\ job' \in Jobs /\ job'.tasks = job.tasks /\ job'.sys = job.sys
      /\ job'.i = job.i /\ job'.st # "done"
  BY <1>1, <1>3 DEF TaskWithdraw, Jobs
<1>5. UNCHANGED <<editions, recorded>>
  BY DEF TaskWithdraw
<1> QED BY <1>1, <1>2, <1>4, <1>5, WithinTaskTyping

LEMMA CopyChartTyping == ASSUME Typing, NEW i \in Ids, CopyChart(i) PROVE Typing'
<1>1. job # NoJob /\ job \in Jobs /\ job.st = "copy"
  BY NoJobIsNone DEF CopyChart, Typing, TypeOK
<1>2. Contents(Task) \in Gen
  BY <1>1, TaskShape
<1>3. DirTyped
  BY <1>2, RemoveIsGen, MergeIsGen DEF CopyChart, Typing, TypeOK, DirTyped
<1>4. Merge(job.list, Contents(Task), {i}) \in Gen
  BY <1>1, <1>2, MergeIsGen DEF Jobs
<1>5. /\ job' \in Jobs /\ job'.tasks = job.tasks /\ job'.sys = job.sys
      /\ job'.i = job.i /\ job'.st # "done"
  BY <1>1, <1>4 DEF CopyChart, Jobs
<1>6. UNCHANGED <<editions, recorded>>
  BY DEF CopyChart
<1> QED BY <1>1, <1>3, <1>5, <1>6, WithinTaskTyping

LEMMA SkipChartTyping == ASSUME Typing, NEW i \in Ids, SkipChart(i) PROVE Typing'
<1>1. job # NoJob /\ job \in Jobs /\ job.st = "copy"
  BY NoJobIsNone DEF SkipChart, Typing, TypeOK
<1>2. DirTyped
  BY DEF SkipChart, dir, Typing, TypeOK, DirTyped
<1>3. /\ job' \in Jobs /\ job'.tasks = job.tasks /\ job'.sys = job.sys
      /\ job'.i = job.i /\ job'.st # "done"
  BY <1>1 DEF SkipChart, Jobs
<1>4. UNCHANGED <<editions, recorded>>
  BY DEF SkipChart
<1> QED BY <1>1, <1>2, <1>3, <1>4, WithinTaskTyping

LEMMA WriteListTyping == ASSUME Typing, WriteList PROVE Typing'
<1>1. job # NoJob /\ job \in Jobs /\ job.st = "copy"
  BY NoJobIsNone DEF WriteList, Typing, TypeOK
<1>2. MergeKeys \in Gen
  BY <1>1, TaskShape, MergeIsGen DEF MergeKeys, Jobs
<1>3. DirTyped
  BY <1>1 DEF WriteList, Typing, TypeOK, DirTyped, Jobs
<1>4. /\ job' \in Jobs /\ job'.tasks = job.tasks /\ job'.sys = job.sys
      /\ job'.i = job.i /\ job'.st # "done"
  BY <1>1, <1>2 DEF WriteList, Jobs
<1>5. UNCHANGED <<editions, recorded>>
  BY DEF WriteList
<1> QED BY <1>1, <1>3, <1>4, <1>5, WithinTaskTyping

LEMMA WriteKeysTyping == ASSUME Typing, WriteKeys PROVE Typing'
<1>1. job # NoJob /\ job \in Jobs /\ job.st = "keys"
  BY NoJobIsNone DEF WriteKeys, Typing, TypeOK
<1>2. DirTyped
  BY <1>1 DEF WriteKeys, Typing, TypeOK, DirTyped, Jobs
<1>3. /\ Len(job.tasks) \in Nat /\ job.i \in 1..Len(job.tasks)
      /\ job.i \in Nat \ {0} /\ DOMAIN job.tasks = 1..Len(job.tasks)
  <2>1. job.tasks \in Seq([ed : 1..MaxEd, base : BOOLEAN]) BY <1>1 DEF Jobs
  <2>2. Len(job.tasks) \in Nat /\ DOMAIN job.tasks = 1..Len(job.tasks)
    BY <2>1, LenProperties
  <2> QED BY <1>1, <2>2, TaskShape
<1>4. /\ job' \in Jobs /\ job'.tasks = job.tasks /\ job'.sys = job.sys
      /\ job'.i = job.i + 1 /\ job' # NoJob
      /\ job'.st = IF MoreTasks THEN "begin" ELSE "done"
  <2>1. job' \in Jobs
    <3> DEFINE next == job.i + 1
    <3>1. next \in Nat \ {0} BY <1>3
    <3>2. job' = [job EXCEPT !.st = IF MoreTasks THEN "begin" ELSE "done",
                             !.i = next, !.missed = {}, !.list = Empty, !.keys = Empty]
      BY DEF WriteKeys
    <3> HIDE DEF next
    <3>3. PICK st \in {"begin", "done"} :
            job' = [job EXCEPT !.st = st, !.i = next,
                               !.missed = {}, !.list = Empty, !.keys = Empty]
      BY <3>2
    <3> QED BY <1>1, <3>1, <3>3, EmptyIsGen DEF Jobs
  <2> QED BY <1>1, <2>1, NoJobIsNone DEF WriteKeys, Jobs
<1>5. TypeOK'
  BY <1>2, <1>3, <1>4 DEF Typing, TypeOK, WriteKeys, DirTyped, MoreTasks
<1>6. Shape'
  BY <1>1, <1>3, <1>4 DEF Typing, Shape, LastEd, WriteKeys, MoreTasks
<1>7. RecordedPublished'
  BY DEF WriteKeys, Typing, RecordedPublished
<1> QED BY <1>5, <1>6, <1>7 DEF Typing

LEMMA DoneTyping == ASSUME Typing, Done PROVE Typing'
<1>1. job \in Jobs /\ job # NoJob
  BY NoJobIsNone DEF Done, Typing, TypeOK
<1>2. LastEd \in 1..Len(editions) /\ Len(editions) \in 1..MaxEd /\ MaxEd \in Nat
  BY <1>1, ChartFilesAssumption DEF Typing, TypeOK, Shape
<1>3. job.sys \in Systems /\ recorded' = [recorded EXCEPT ![job.sys] = LastEd]
  BY <1>1 DEF Done, Jobs, LastEd
<1>4. TypeOK'
  BY <1>2, <1>3, NoJobIsNone DEF Typing, TypeOK, Done, dir
<1>5. RecordedPublished'
  BY <1>2, <1>3 DEF Typing, TypeOK, RecordedPublished, Done
<1>6. Shape'
  BY DEF Done, Shape
<1> QED BY <1>4, <1>5, <1>6 DEF Typing

LEMMA TaskErrorTyping == ASSUME Typing, TaskError PROVE Typing'
<1>1. DirTyped BY DEF TaskError, dir, Typing, TypeOK, DirTyped
<1> QED BY <1>1, EndTyping DEF TaskError

LEMMA CrashTyping == ASSUME Typing, Crash PROVE Typing'
<1>1. DirTyped
  <2>1. CASE HalfCopied
    BY <2>1, RemoveIsGen DEF HalfCopied, Typing, TypeOK, DirTyped
  <2>2. CASE HalfList
    <3>1. job \in Jobs BY <2>2, NoJobIsNone DEF HalfList, Typing, TypeOK
    <3>2. job.list \in Gen /\ job.missed \subseteq Ids BY <3>1 DEF Jobs
    <3>3. \A g \in Parts(job.list) : g \in Gen
      BY <3>2, EmptyIsGen, MergeIsGen DEF Parts
    <3> QED BY <2>2, <3>2, <3>3 DEF HalfList, Typing, TypeOK, DirTyped
  <2>3. CASE HalfKeys
    <3>1. job \in Jobs BY <2>3, NoJobIsNone DEF HalfKeys, Typing, TypeOK
    <3>2. job.keys \in Gen BY <3>1 DEF Jobs
    <3>3. \A g \in Parts(job.keys) : g \in Gen
      BY <3>2, EmptyIsGen, MergeIsGen DEF Parts
    <3> QED BY <2>3, <3>3 DEF HalfKeys, Typing, TypeOK, DirTyped
  <2>4. CASE UNCHANGED dir
    BY <2>4 DEF dir, Typing, TypeOK, DirTyped
  <2> QED BY <2>1, <2>2, <2>3, <2>4 DEF Crash
<1> QED BY <1>1, EndTyping DEF Crash

LEMMA TypingStep == ASSUME Typing, [Next]_chartVars PROVE Typing'
<1>1. CASE Publish BY <1>1, PublishTyping
<1>2. CASE \E s \in Systems : Start(s) BY <1>2, StartTyping
<1>3. CASE TaskBegin BY <1>3, TaskBeginTyping
<1>4. CASE TaskWithdraw BY <1>4, TaskWithdrawTyping
<1>5. CASE \E i \in Ids : CopyChart(i) BY <1>5, CopyChartTyping
<1>12. CASE \E i \in Ids : SkipChart(i) BY <1>12, SkipChartTyping
<1>6. CASE WriteList BY <1>6, WriteListTyping
<1>7. CASE WriteKeys BY <1>7, WriteKeysTyping
<1>8. CASE TaskError BY <1>8, TaskErrorTyping
<1>9. CASE Done BY <1>9, DoneTyping
<1>10. CASE Crash BY <1>10, CrashTyping
<1>11. CASE UNCHANGED chartVars
    BY <1>11 DEF chartVars, dir, Typing, TypeOK, Shape, LastEd, RecordedPublished
<1> QED BY <1>1, <1>2, <1>3, <1>4, <1>5, <1>6, <1>7, <1>8, <1>9, <1>10, <1>11, <1>12
        DEF Next, Working, TaskStep

LEMMA TypingInvariant == Spec => []Typing
  BY InitTyping, TypingStep, PTL DEF Spec

\* TypeOK (processTask, 5442-5975): the types, and no task is processed past
\* the end of the task list, for any number of charts, systems and editions.
THEOREM FilesTyped == Spec => []TypeOK
<1>1. Typing => TypeOK BY DEF Typing
<1> QED BY TypingInvariant, <1>1, PTL

(***************************************************************************)
(* One system, whole lists, uninterrupted base sets.                       *)
(***************************************************************************)
Sound == /\ \A s, t \in Systems : s = t
         /\ Torn = FALSE /\ BaseInterrupts = FALSE

\* What is on disk for a chart is that of an edition from lo to hi; a chart
\* file may also be missing if one of these editions will bring it again, or
\* if it could not be copied.  Nothing is known of the entries and files of
\* charts that were left out, before the next list for those of the last one.
At(g, i, lo, hi) == \E f \in lo..hi : g[i] = editions[f][i]
Owed(i, lo, hi) == files[i] = 0 /\ \E f \in lo..hi : editions[f][i] # editions[lo][i]
FileAt(i, lo, hi) == \/ At(files, i, lo, hi) \/ Owed(i, lo, hi)
                     \/ CopyFails /\ files[i] = 0
DirWithin(s, lo, hi) ==
  /\ \A i \in Ids : At(keys[s], i, lo, hi)
  /\ \A i \in Ids \ missed : At(list, i, lo, hi) /\ FileAt(i, lo, hi)

\* At rest, and until a base set has removed everything.
RestFollows(s) ==
  /\ job = NoJob \/ (job.st = "begin" /\ Task.base)
  /\ recorded[s] # 0
  => DirWithin(s, recorded[s], Len(editions))

\* Before an update: everything is of the edition before it, or later.
UpdateFollows(s) ==
  job.st \in {"begin", "read"} /\ ~Task.base => DirWithin(s, Task.ed - 1, LastEd)

BaseFollows(s) ==
  job.st = "read" /\ Task.base => files = Empty /\ list = Empty /\ keys[s] = Empty

CopyFollows(s) ==
  job.st = "copy" =>
    /\ job.todo \subseteq ActionAddUpdate(Task)
    /\ \A i \in Ids \ (job.todo \cup job.missed) :
         FileAt(i, Task.ed, LastEd) /\ At(job.list, i, Task.ed, LastEd)
    /\ \A i \in Ids \ ActionAddUpdate(Task) : At(job.keys, i, Task.ed, LastEd)
    /\ ~Task.base => DirWithin(s, Task.ed - 1, LastEd)

KeysFollow(s) ==
  job.st = "keys" =>
    /\ \A i \in Ids : At(job.keys, i, Task.ed, LastEd)
    /\ \A i \in Ids \ missed : FileAt(i, Task.ed, LastEd) /\ At(list, i, Task.ed, LastEd)
    /\ ~Task.base => \A i \in Ids : At(keys[s], i, Task.ed - 1, LastEd)

DoneFollows(s) == job.st = "done" => DirWithin(s, LastEd, LastEd)

Follows == \A s \in Systems :
  /\ RestFollows(s) /\ UpdateFollows(s) /\ BaseFollows(s)
  /\ CopyFollows(s) /\ KeysFollow(s) /\ DoneFollows(s)

(***************************************************************************)
(* Ranges of editions.                                                     *)
(***************************************************************************)
LEMMA AtWider ==
  ASSUME NEW lo \in Nat, NEW hi \in Nat, NEW lo2 \in Nat, NEW hi2 \in Nat,
         lo2 <= lo, hi <= hi2, NEW g, NEW i, At(g, i, lo, hi)
  PROVE  At(g, i, lo2, hi2)
<1>1. PICK f \in lo..hi : g[i] = editions[f][i] BY DEF At
<1>2. f \in lo2..hi2 OBVIOUS
<1> QED BY <1>1, <1>2 DEF At

LEMMA FileAtWider ==
  ASSUME NEW lo \in Nat, NEW hi \in Nat, NEW lo2 \in Nat, NEW hi2 \in Nat,
         lo2 <= lo, hi <= hi2, NEW i, FileAt(i, lo, hi)
  PROVE  FileAt(i, lo2, hi2)
<1>1. CASE At(files, i, lo, hi) BY <1>1, AtWider DEF FileAt
<1>2. CASE Owed(i, lo, hi)
  <2>1. PICK f \in lo..hi : editions[f][i] # editions[lo][i] BY <1>2 DEF Owed
  <2>2. f \in lo2..hi2 /\ lo \in lo2..hi2 OBVIOUS
  <2>3. \E h \in lo2..hi2 : editions[h][i] # editions[lo2][i] BY <2>1, <2>2
  <2> QED BY <1>2, <2>3 DEF Owed, FileAt
<1>3. CASE CopyFails /\ files[i] = 0 BY <1>3 DEF FileAt
<1> QED BY <1>1, <1>2, <1>3 DEF FileAt

LEMMA DirWider ==
  ASSUME NEW lo \in Nat, NEW hi \in Nat, NEW lo2 \in Nat, NEW hi2 \in Nat,
         lo2 <= lo, hi <= hi2, NEW s, DirWithin(s, lo, hi)
  PROVE  DirWithin(s, lo2, hi2)
  BY AtWider, FileAtWider DEF DirWithin

\* A chart that the next edition leaves alone.
LEMMA AtNext ==
  ASSUME NEW ed \in Nat \ {0}, NEW hi \in Nat, ed <= hi, NEW g, NEW i,
         editions[ed][i] = editions[ed - 1][i], At(g, i, ed - 1, hi)
  PROVE  At(g, i, ed, hi)
<1>1. PICK f \in (ed - 1)..hi : g[i] = editions[f][i] BY DEF At
<1>2. f = ed - 1 \/ f \in ed..hi OBVIOUS
<1>3. ed \in ed..hi OBVIOUS
<1> QED BY <1>1, <1>2, <1>3 DEF At

LEMMA FileAtNext ==
  ASSUME NEW ed \in Nat \ {0}, NEW hi \in Nat, ed <= hi, NEW i,
         editions[ed][i] = editions[ed - 1][i], FileAt(i, ed - 1, hi)
  PROVE  FileAt(i, ed, hi)
<1>1. CASE At(files, i, ed - 1, hi) BY <1>1, AtNext DEF FileAt
<1>2. CASE Owed(i, ed - 1, hi)
  <2>1. PICK f \in (ed - 1)..hi : editions[f][i] # editions[ed - 1][i]
    BY <1>2 DEF Owed
  <2>2. f = ed - 1 \/ f \in ed..hi OBVIOUS
  <2> QED BY <1>2, <2>1, <2>2 DEF Owed, FileAt
<1>3. CASE CopyFails /\ files[i] = 0 BY <1>3 DEF FileAt
<1> QED BY <1>1, <1>2, <1>3 DEF FileAt

LEMMA DirExact ==
  ASSUME NEW w \in Nat, NEW s \in Systems, TypeOK, w \in 1..Len(editions),
         DirWithin(s, w, w)
  PROVE  /\ keys[s] = editions[w]
         /\ \A i \in Ids \ missed :
              /\ list[i] = editions[w][i]
              /\ files[i] = editions[w][i] \/ (CopyFails /\ files[i] = 0)
<1>1. \A f \in w..w : f = w OBVIOUS
<1>2. \A i \in Ids : keys[s][i] = editions[w][i]
  BY <1>1 DEF DirWithin, At
<1>3. \A i \in Ids \ missed :
        /\ list[i] = editions[w][i]
        /\ files[i] = editions[w][i] \/ (CopyFails /\ files[i] = 0)
  BY <1>1 DEF DirWithin, At, FileAt, Owed
<1>4. keys[s] \in Gen /\ editions[w] \in Gen
  BY DEF TypeOK
<1>5. \A f, g \in Gen : (\A i \in Ids : f[i] = g[i]) => f = g
  BY DEF Gen
<1> QED BY <1>2, <1>3, <1>4, <1>5

\* The numbers of a job.
LEMMA JobNumbers ==
  ASSUME Typing, job # NoJob
  PROVE  /\ job \in Jobs /\ job.sys \in Systems
         /\ LastEd \in Nat \ {0} /\ LastEd <= Len(editions)
         /\ Len(editions) \in Nat /\ recorded[job.sys] \in Nat
         /\ recorded[job.sys] <= LastEd
         /\ job.st # "done" =>
              /\ Task.ed \in Nat \ {0} /\ Task.ed <= LastEd
              /\ Task.base => Task.ed = LastEd
              /\ ~Task.base => recorded[job.sys] # 0 /\ recorded[job.sys] <= Task.ed - 1
<1>1. job \in Jobs /\ job.sys \in Systems BY DEF Typing, TypeOK, Jobs
<1>2. /\ LastEd \in Nat \ {0} /\ LastEd <= Len(editions)
      /\ Len(editions) \in Nat /\ recorded[job.sys] \in Nat
      /\ recorded[job.sys] <= LastEd
  BY <1>1, ChartFilesAssumption DEF Typing, TypeOK, Shape
<1>3. ASSUME job.st # "done"
      PROVE  /\ Task.ed \in Nat \ {0} /\ Task.ed <= LastEd
             /\ Task.base => Task.ed = LastEd
             /\ ~Task.base => recorded[job.sys] # 0 /\ recorded[job.sys] <= Task.ed - 1
  <2>1. job.i \in 1..Len(job.tasks) /\ Task.ed \in 1..Len(editions)
    BY <1>3, TaskShape
  <2>2. CASE Len(job.tasks) = 1 /\ job.tasks[1].base
    BY <1>2, <2>1, <2>2 DEF Task, LastEd
  <2>3. CASE ~(Len(job.tasks) = 1 /\ job.tasks[1].base)
    <3>1. /\ recorded[job.sys] # 0 /\ LastEd = recorded[job.sys] + Len(job.tasks)
          /\ Task.ed = recorded[job.sys] + job.i /\ ~Task.base
          /\ Len(job.tasks) \in Nat
      BY <2>1, <2>3 DEF Typing, Shape, Task
    <3> QED BY <1>2, <2>1, <3>1
  <2> QED BY <2>2, <2>3
<1> QED BY <1>1, <1>2, <1>3

\* What a task changes.
LEMMA Changes ==
  ASSUME Typing, job # NoJob, job.st # "done", NEW i \in Ids,
         i \notin ActionAddUpdate(Task)
  PROVE  /\ i \in ActionWithdrawn(Task) => Contents(Task)[i] = 0
         /\ i \notin ActionWithdrawn(Task) => Contents(Task)[i] = Previous(Task)[i]
         /\ Task.base => Contents(Task)[i] = 0
         /\ ~Task.base /\ i \notin ActionWithdrawn(Task) =>
              editions[Task.ed][i] = editions[Task.ed - 1][i]
  BY DEF ActionAddUpdate, ActionWithdrawn, Contents, Previous, Empty

(***************************************************************************)
(* Follows, action by action.                                              *)
(***************************************************************************)
LEMMA InitFollows == Init => Follows
  BY NoJobIsNone DEF Init, Follows, RestFollows, UpdateFollows, BaseFollows,
     CopyFollows, KeysFollow, DoneFollows

\* Published editions do not change.
LEMMA PublishAppends ==
  ASSUME Typing, Publish
  PROVE  /\ Len(editions) \in Nat /\ Len(editions') = Len(editions) + 1
         /\ \A e \in 1..Len(editions) : editions'[e] = editions[e]
<1>1. editions \in Seq(Gen) /\ \E g : editions' = Append(editions, g)
  BY DEF Typing, TypeOK, Publish
<1> QED BY <1>1, AppendProperties

LEMMA DirAfterPublish ==
  ASSUME Typing, Publish, NEW s \in Systems, NEW lo \in Nat \ {0}, NEW hi \in Nat,
         lo <= hi, hi <= Len(editions)
  PROVE  /\ \A g, i : At(g, i, lo, hi) => \E f \in lo..hi : g[i] = editions'[f][i]
         /\ \A i : FileAt(i, lo, hi) => FileAt(i, lo, hi)'
         /\ DirWithin(s, lo, hi) => DirWithin(s, lo, hi)'
<1>1. \A f \in lo..hi : editions'[f] = editions[f]
  BY PublishAppends
<1>2. lo \in lo..hi OBVIOUS
<1>3. UNCHANGED <<files, list, keys, missed>> BY DEF Publish, dir
<1>4. \A g, i : At(g, i, lo, hi) => \E f \in lo..hi : g[i] = editions'[f][i]
  BY <1>1 DEF At
<1>5. \A i : FileAt(i, lo, hi) => FileAt(i, lo, hi)'
  BY <1>1, <1>2, <1>3 DEF At, Owed, FileAt
<1>6. \A i : /\ At(list, i, lo, hi) => At(list, i, lo, hi)'
             /\ At(keys[s], i, lo, hi) => At(keys[s], i, lo, hi)'
  BY <1>1, <1>3 DEF At
<1> QED BY <1>3, <1>4, <1>5, <1>6 DEF DirWithin

LEMMA PublishFollows ==
  ASSUME Sound, Typing, Typing', Follows, Publish
  PROVE  Follows'
<1> SUFFICES ASSUME NEW s \in Systems
             PROVE  /\ RestFollows(s)' /\ UpdateFollows(s)' /\ BaseFollows(s)'
                    /\ CopyFollows(s)' /\ KeysFollow(s)' /\ DoneFollows(s)'
  BY DEF Follows
<1>1. /\ Len(editions) \in Nat /\ Len(editions)' = Len(editions) + 1
      /\ \A e \in 1..Len(editions) : editions'[e] = editions[e]
      /\ UNCHANGED <<recorded, files, list, keys, missed, job>>
  BY PublishAppends DEF Publish, dir
<1>2. recorded[s] \in Nat /\ recorded[s] <= Len(editions)
  BY ChartFilesAssumption DEF Typing, TypeOK, RecordedPublished
<1>3. UNCHANGED <<Task, LastEd>>
  BY <1>1 DEF Task, LastEd
<1>4. RestFollows(s)'
  <2> SUFFICES ASSUME RestFollows(s)!1' PROVE DirWithin(s, recorded[s], Len(editions))'
    BY DEF RestFollows
  <2>1. DirWithin(s, recorded[s], Len(editions)) /\ recorded[s] # 0
    BY <1>1, <1>3 DEF Follows, RestFollows
  <2> PICK lo, hi : lo = recorded[s] /\ hi = Len(editions) OBVIOUS
  <2>2. DirWithin(s, lo, hi)'
    BY <1>2, <2>1, <1>1, DirAfterPublish
  <2>3. /\ \A i \in Ids : At(keys[s], i, lo, hi + 1)'
        /\ \A i \in Ids \ missed' : At(list, i, lo, hi + 1)' /\ FileAt(i, lo, hi + 1)'
    <3>1. lo..hi \subseteq lo..(hi + 1) BY <1>2, <1>1
    <3> QED BY <2>2, <3>1 DEF DirWithin, At, FileAt, Owed
  <2>4. recorded'[s] = lo /\ Len(editions)' = hi + 1
    BY <1>1
  <2> QED BY <2>3, <2>4 DEF DirWithin
<1>5. CASE job = NoJob
  BY <1>1, <1>4, <1>5, NoJobIsNone
     DEF UpdateFollows, BaseFollows, CopyFollows, KeysFollow, DoneFollows
<1>6. CASE job # NoJob
  <2> PICK T, W : T = Task.ed /\ W = LastEd OBVIOUS
  <2>0. /\ W \in Nat \ {0} /\ W <= Len(editions)
        /\ job.st # "done" => /\ T \in Nat \ {0} /\ T <= W
                              /\ ~Task.base => T - 1 \in Nat \ {0}
    BY <1>6, JobNumbers
  <2>1. T = Task.ed' /\ W = LastEd' BY <1>3
  <2>2. ASSUME job.st # "done"
        PROVE /\ ActionAddUpdate(Task)' = ActionAddUpdate(Task)
    <3>1. T \in 1..Len(editions) /\ (~Task.base => T - 1 \in 1..Len(editions))
      BY <1>1, <2>0, <2>2
    <3>2. Contents(Task)' = Contents(Task) /\ Previous(Task)' = Previous(Task)
      BY <1>1, <1>3, <3>1 DEF Contents, Previous
    <3> QED BY <3>2 DEF ActionAddUpdate, ActionWithdrawn
  <2>3. UpdateFollows(s)'
    <3> SUFFICES ASSUME job.st \in {"begin", "read"}, ~Task.base
                 PROVE  DirWithin(s, T - 1, W)'
      BY <1>1, <1>3, <2>1 DEF UpdateFollows
    <3>1. DirWithin(s, T - 1, W) BY DEF Follows, UpdateFollows
    <3> QED BY <2>0, <3>1, DirAfterPublish
  <2>4. BaseFollows(s)'
    BY <1>1, <1>3 DEF Follows, BaseFollows
  <2>5. CopyFollows(s)'
    <3> SUFFICES ASSUME job.st = "copy" PROVE CopyFollows(s)'
      BY <1>1 DEF CopyFollows
    <3>1. CopyFollows(s)!2
      BY DEF Follows, CopyFollows
    <3>2. /\ \A i \in Ids \ (job.todo \cup job.missed) :
               FileAt(i, T, W)' /\ At(job.list, i, T, W)'
          /\ \A i \in Ids \ ActionAddUpdate(Task) : At(job.keys, i, T, W)'
      <4>1. /\ T \in Nat \ {0} /\ W \in Nat /\ T <= W /\ W <= Len(editions)
        BY <2>0
      <4>2. \A i \in Ids \ (job.todo \cup job.missed) :
              FileAt(i, T, W) /\ At(job.list, i, T, W)
        BY <3>1
      <4>3. \A i \in Ids \ ActionAddUpdate(Task) : At(job.keys, i, T, W)
        BY <3>1
      <4>4. /\ \A i \in Ids \ (job.todo \cup job.missed) :
                 FileAt(i, T, W)' /\ \E f \in T..W : job.list[i] = editions'[f][i]
            /\ \A i \in Ids \ ActionAddUpdate(Task) :
                 \E f \in T..W : job.keys[i] = editions'[f][i]
        BY <4>1, <4>2, <4>3, DirAfterPublish
      <4> QED BY <1>1, <4>4 DEF At
    <3>3. ~Task.base => DirWithin(s, T - 1, W)'
      BY <2>0, <3>1, DirAfterPublish
    <3> QED BY <1>1, <1>3, <2>1, <2>2, <3>1, <3>2, <3>3 DEF CopyFollows
  <2>6. KeysFollow(s)'
    <3> SUFFICES ASSUME job.st = "keys" PROVE KeysFollow(s)'
      BY <1>1 DEF KeysFollow
    <3>1. KeysFollow(s)!2
      BY DEF Follows, KeysFollow
    <3>2. /\ \A i \in Ids : At(job.keys, i, T, W)'
          /\ \A i \in Ids \ missed : FileAt(i, T, W)' /\ At(list, i, T, W)'
      <4>1. /\ T \in Nat \ {0} /\ W \in Nat /\ T <= W /\ W <= Len(editions)
        BY <2>0
      <4>2. /\ \A i \in Ids : At(job.keys, i, T, W)
            /\ \A i \in Ids \ missed : FileAt(i, T, W) /\ At(list, i, T, W)
        BY <3>1
      <4>3. /\ \A i \in Ids : \E f \in T..W : job.keys[i] = editions'[f][i]
            /\ \A i \in Ids \ missed :
                 FileAt(i, T, W)' /\ \E f \in T..W : list[i] = editions'[f][i]
        BY <4>1, <4>2, DirAfterPublish
      <4> QED BY <1>1, <4>3 DEF At
    <3>3. ~Task.base => \A i \in Ids : At(keys[s], i, T - 1, W)'
      <4> SUFFICES ASSUME ~Task.base, NEW i \in Ids PROVE At(keys[s], i, T - 1, W)'
        OBVIOUS
      <4> PICK lo : lo = T - 1 OBVIOUS
      <4>1. At(keys[s], i, lo, W) BY <3>1
      <4>2. lo \in Nat \ {0} /\ W \in Nat /\ lo <= W /\ W <= Len(editions)
        BY <2>0
      <4>3. \A g, j : At(g, j, lo, W) => \E f \in lo..W : g[j] = editions'[f][j]
        BY <4>2, DirAfterPublish
      <4>4. \E f \in lo..W : keys[s][i] = editions'[f][i]
        BY <4>1, <4>3
      <4> QED BY <1>1, <4>4 DEF At
    <3> QED BY <1>1, <1>3, <2>1, <3>2, <3>3 DEF KeysFollow
  <2>7. DoneFollows(s)'
    <3> SUFFICES ASSUME job.st = "done" PROVE DirWithin(s, W, W)'
      BY <1>1, <2>1 DEF DoneFollows
    <3>1. DirWithin(s, W, W) BY DEF Follows, DoneFollows
    <3>2. W \in Nat \ {0} /\ W <= W /\ W <= Len(editions) BY <2>0
    <3> QED BY <3>1, <3>2, DirAfterPublish
  <2> QED BY <1>4, <2>3, <2>4, <2>5, <2>6, <2>7
<1> QED BY <1>5, <1>6

\* Wherever an installation may end, the directory is as it may be at rest.
LEMMA Interrupted ==
  ASSUME Sound, Typing, Follows, Interruptible, NEW s \in Systems, recorded[s] # 0
  PROVE  DirWithin(s, recorded[s], Len(editions))
<1>1. CASE job = NoJob
  BY <1>1 DEF Follows, RestFollows
<1>2. CASE job # NoJob
  <2>1. job \in Jobs /\ job.sys = s /\ job.st \in {"begin", "read", "copy", "keys", "done"}
    BY <1>2, JobNumbers DEF Sound, Jobs
  <2> PICK T, W, e, n : T = Task.ed /\ W = LastEd /\ e = recorded[s] /\ n = Len(editions)
    OBVIOUS
  <2>2. /\ W \in Nat /\ W <= n /\ n \in Nat /\ e \in Nat /\ e <= W
        /\ job.st # "done" => /\ T \in Nat /\ T <= W
                              /\ ~Task.base => T - 1 \in Nat /\ e <= T - 1
    BY <1>2, <2>1, JobNumbers
  <2>3. job.st \in {"read", "copy", "keys"} => ~Task.base
    BY DEF Interruptible, Sound
  <2>4. CASE job.st = "begin" /\ Task.base
    BY <2>4 DEF Follows, RestFollows
  <2>5. CASE job.st \in {"begin", "read"} /\ ~Task.base
    <3> PICK lo : lo = T - 1 OBVIOUS
    <3>1. DirWithin(s, lo, W) BY <2>5 DEF Follows, UpdateFollows
    <3>2. lo \in Nat /\ e <= lo BY <2>2, <2>5
    <3> QED BY <2>2, <3>1, <3>2, DirWider
  <2>6. CASE job.st = "copy"
    <3>1. DirWithin(s, T - 1, W) BY <2>3, <2>6 DEF Follows, CopyFollows
    <3> QED BY <2>2, <2>3, <2>6, <3>1, DirWider
  <2>7. CASE job.st = "keys"
    <3>1. /\ \A i \in Ids : At(keys[s], i, T - 1, W)
          /\ \A i \in Ids \ missed : FileAt(i, T, W) /\ At(list, i, T, W)
      BY <2>3, <2>7 DEF Follows, KeysFollow
    <3>2. /\ \A i \in Ids : At(keys[s], i, e, n)
          /\ \A i \in Ids \ missed : FileAt(i, e, n) /\ At(list, i, e, n)
      <4>1. e <= T /\ T \in Nat /\ e <= T - 1 /\ T - 1 \in Nat
        BY <2>2, <2>3, <2>7
      <4> PICK lo : lo = T - 1 OBVIOUS
      <4>2. \A i \in Ids \ missed : FileAt(i, e, n) /\ At(list, i, e, n)
        BY <2>2, <3>1, <4>1, AtWider, FileAtWider
      <4>3. \A i \in Ids : At(keys[s], i, e, n)
        BY <2>2, <3>1, <4>1, AtWider
      <4> QED BY <4>2, <4>3
    <3> QED BY <3>2 DEF DirWithin
  <2>8. CASE job.st = "done"
    <3>1. DirWithin(s, W, W) BY <2>8 DEF Follows, DoneFollows
    <3>2. W \in Nat /\ n \in Nat /\ e \in Nat /\ e <= W /\ W <= n BY <2>2
    <3>3. DirWithin(s, e, n) BY <3>1, <3>2, DirWider
    <3> QED BY <3>3
  <2> QED BY <2>1, <2>3, <2>4, <2>5, <2>6, <2>7, <2>8
<1> QED BY <1>1, <1>2

\* The end of an installation: only RestFollows has something to say.
LEMMA EndFollows ==
  ASSUME job' = NoJob,
         \A s \in Systems : recorded'[s] # 0 => DirWithin(s, recorded[s], Len(editions))'
  PROVE  Follows'
  BY NoJobIsNone DEF Follows, RestFollows, UpdateFollows, BaseFollows,
     CopyFollows, KeysFollow, DoneFollows

LEMMA TaskErrorFollows ==
  ASSUME Sound, Typing, Follows, TaskError
  PROVE  Follows'
<1>1. /\ UNCHANGED <<editions, recorded, files, list, keys, missed>> /\ job' = NoJob
      /\ Interruptible
  BY DEF TaskError, dir
<1>2. \A s \in Systems : recorded'[s] # 0 => DirWithin(s, recorded[s], Len(editions))'
  BY <1>1, Interrupted DEF DirWithin, At, FileAt, Owed
<1> QED BY <1>1, <1>2, EndFollows

LEMMA CrashFollows ==
  ASSUME Sound, Typing, Follows, Crash
  PROVE  Follows'
<1>1. /\ UNCHANGED <<editions, recorded>> /\ job' = NoJob /\ Interruptible
  BY DEF Crash
<1>2. CASE UNCHANGED dir
  <2>1. \A s \in Systems : recorded'[s] # 0 => DirWithin(s, recorded[s], Len(editions))'
    BY <1>1, <1>2, Interrupted DEF dir, DirWithin, At, FileAt, Owed
  <2> QED BY <1>1, <2>1, EndFollows
<1>3. CASE HalfCopied
  <2> SUFFICES ASSUME NEW s \in Systems, recorded'[s] # 0
               PROVE  DirWithin(s, recorded[s], Len(editions))'
    BY <1>1, EndFollows
  <2>1. DirWithin(s, recorded[s], Len(editions))
    BY <1>1, Interrupted
  <2>2. PICK j \in job.todo : files' = Remove(files, {j})
    BY <1>3 DEF HalfCopied
  <2>3. job # NoJob /\ job.st = "copy" /\ job \in Jobs /\ job.sys = s
    BY <1>3, NoJobIsNone, JobNumbers DEF HalfCopied, Sound
  <2>4. ~Task.base
    BY <1>1, <2>3 DEF Interruptible, Sound
  <2> PICK T, e, n : T = Task.ed /\ e = recorded[s] /\ n = Len(editions) OBVIOUS
  <2>5. T \in Nat /\ e \in Nat /\ n \in Nat /\ e <= T - 1 /\ T <= n /\ T - 1 \in Nat
    BY <2>3, <2>4, JobNumbers
  <2>6. j \in ActionAddUpdate(Task) /\ j \in Ids
    BY <2>2, <2>3 DEF Follows, CopyFollows, ActionAddUpdate
  <2>7. editions[T][j] # editions[T - 1][j]
    BY <2>4, <2>6 DEF ActionAddUpdate, Contents, Previous
  <2>8. T \in e..n /\ T - 1 \in e..n BY <2>5
  <2>9. \E f \in e..n : editions[f][j] # editions[e][j]
    BY <2>7, <2>8
  <2>10. \A i \in Ids : files'[i] = IF i = j THEN 0 ELSE files[i]
    BY <2>2 DEF Remove, Merge, Empty
  <2>11. UNCHANGED <<editions, recorded, list, keys, missed>>
    BY <1>1, <1>3 DEF HalfCopied
  <2>12. \A i \in Ids \ missed : FileAt(i, e, n)'
    BY <2>1, <2>9, <2>10, <2>11 DEF DirWithin, FileAt, At, Owed
  <2>13. /\ \A i \in Ids : At(keys[s], i, e, n)'
         /\ \A i \in Ids \ missed : At(list, i, e, n)'
    BY <2>1, <2>11 DEF DirWithin, At
  <2> QED BY <2>11, <2>12, <2>13 DEF DirWithin
<1> QED BY <1>2, <1>3 DEF Crash, HalfList, HalfKeys, Sound

LEMMA DoneFollowed ==
  ASSUME Sound, Typing, Follows, Done
  PROVE  /\ Follows'
         /\ \A s \in Systems : job.sys = s => HoldsRecorded(s)'
<1>1. job # NoJob /\ job.st = "done" /\ job' = NoJob
  BY NoJobIsNone DEF Done
<1> PICK W, n : W = LastEd /\ n = Len(editions) OBVIOUS
<1>2. W \in Nat \ {0} /\ W <= n /\ n \in Nat /\ job.sys \in Systems
  BY <1>1, JobNumbers
<1>3. /\ UNCHANGED <<editions, files, list, keys, missed>>
      /\ recorded' = [recorded EXCEPT ![job.sys] = W]
  BY DEF Done, dir, LastEd
<1>4. ASSUME NEW s \in Systems
      PROVE  recorded'[s] = W /\ DirWithin(s, W, W)
  <2>1. s = job.sys /\ recorded \in [Systems -> 0..MaxEd]
    BY <1>2 DEF Sound, Typing, TypeOK
  <2> QED BY <1>1, <1>3, <2>1 DEF Follows, DoneFollows
<1>5. Follows'
  <2>1. \A s \in Systems : DirWithin(s, W, n)
    BY <1>2, <1>4, DirWider
  <2>2. \A s \in Systems : DirWithin(s, recorded[s], Len(editions))'
    BY <1>3, <1>4, <2>1 DEF DirWithin, At, FileAt, Owed
  <2> QED BY <1>1, <2>2, EndFollows
<1>6. \A s \in Systems :
        /\ keys[s] = editions[W]
        /\ \A i \in Ids \ missed :
             /\ list[i] = editions[W][i]
             /\ files[i] = editions[W][i] \/ (CopyFails /\ files[i] = 0)
  <2>1. W \in Nat /\ W \in 1..Len(editions) /\ TypeOK BY <1>2 DEF Typing
  <2> QED BY <1>4, <2>1, DirExact
<1>7. \A s \in Systems : HoldsRecorded(s)'
  BY <1>3, <1>4, <1>6 DEF HoldsRecorded
<1> QED BY <1>5, <1>7

LEMMA StartFollows ==
  ASSUME Sound, Typing, Follows, NEW r \in Systems, Start(r)
  PROVE  Follows'
<1>1. job = NoJob /\ UNCHANGED <<editions, recorded, files, list, keys, missed>>
  BY DEF Start, dir
<1>2. PICK tasks \in Answers(recorded[r], Len(editions)) :
        job' = [st |-> "begin", sys |-> r, tasks |-> tasks, i |-> 1,
                todo |-> {}, missed |-> {}, list |-> Empty, keys |-> Empty]
  BY DEF Start
<1>3. /\ Len(tasks) \in Nat \ {0} /\ tasks[Len(tasks)].ed = Len(editions)
      /\ \/ Len(tasks) = 1 /\ tasks[1].base
         \/ recorded[r] # 0 /\ ~tasks[1].base /\ tasks[1].ed = recorded[r] + 1
  <2>2. /\ Len(tasks) \in Nat \ {0} /\ tasks[Len(tasks)].ed = Len(editions)
        /\ \/ Len(tasks) = 1 /\ tasks[1].base
           \/ /\ recorded[r] # 0
              /\ \A k \in 1..Len(tasks) : ~tasks[k].base /\ tasks[k].ed = recorded[r] + k
    BY AnswersShape
  <2>3. 1 \in 1..Len(tasks) BY <2>2
  <2> QED BY <2>2, <2>3
<1>4. /\ job' # NoJob /\ job'.st = "begin" /\ Task' = tasks[1] /\ LastEd' = Len(editions)
  BY <1>2, <1>3, NoJobIsNone DEF Task, LastEd
<1> SUFFICES ASSUME NEW s \in Systems PROVE RestFollows(s)' /\ UpdateFollows(s)'
  BY <1>4 DEF Follows, BaseFollows, CopyFollows, KeysFollow, DoneFollows
<1>5. r = s BY DEF Sound
<1>6. recorded[s] # 0 => DirWithin(s, recorded[s], Len(editions))
  BY <1>1 DEF Follows, RestFollows
<1>7. \A lo, hi : DirWithin(s, lo, hi) => DirWithin(s, lo, hi)'
  BY <1>1 DEF DirWithin, At, FileAt, Owed
<1> PICK e, n : e = recorded[s] /\ n = Len(editions) OBVIOUS
<1>8. RestFollows(s)'
  <2>1. e # 0 => DirWithin(s, e, n)' BY <1>6, <1>7
  <2>2. recorded'[s] = e /\ Len(editions') = n BY <1>1
  <2> QED BY <2>1, <2>2 DEF RestFollows, DirWithin
<1>9. UpdateFollows(s)'
  <2> SUFFICES ASSUME ~Task.base' PROVE DirWithin(s, Task.ed - 1, LastEd)'
    BY DEF UpdateFollows
  <2>1. e # 0 /\ Task'.ed = e + 1 BY <1>3, <1>4, <1>5
  <2>2. DirWithin(s, e, n)' BY <1>6, <1>7, <2>1
  <2>3. Task'.ed - 1 = e
    <3>1. e \in Nat BY ChartFilesAssumption DEF Typing, TypeOK
    <3> QED BY <2>1, <3>1
  <2> QED BY <1>4, <2>2, <2>3 DEF DirWithin
<1> QED BY <1>8, <1>9

LEMMA TaskBeginFollows ==
  ASSUME Sound, Typing, Follows, TaskBegin
  PROVE  Follows'
<1>1. job # NoJob /\ job \in Jobs /\ job.st = "begin" /\ UNCHANGED editions
  BY NoJobIsNone DEF TaskBegin, Typing, TypeOK
<1>2. job' # NoJob /\ job'.st = "read" /\ Task' = Task /\ LastEd' = LastEd
  BY <1>1, NoJobIsNone DEF TaskBegin, Jobs, Task, LastEd
<1> SUFFICES ASSUME NEW s \in Systems PROVE BaseFollows(s)' /\ UpdateFollows(s)'
  BY <1>2 DEF Follows, RestFollows, CopyFollows, KeysFollow, DoneFollows
<1>3. CASE Task.base
  BY <1>2, <1>3 DEF TaskBegin, RemoveAll, BaseFollows, UpdateFollows
<1>4. CASE ~Task.base
  <2>1. UNCHANGED <<files, list, keys, missed>> BY <1>4 DEF TaskBegin, dir
  <2> PICK T, W : T = Task.ed /\ W = LastEd OBVIOUS
  <2>2. DirWithin(s, T - 1, W) BY <1>1, <1>4 DEF Follows, UpdateFollows
  <2>3. DirWithin(s, T - 1, W)' BY <1>1, <2>1, <2>2 DEF DirWithin, At, FileAt, Owed
  <2>4. Task'.ed = T /\ LastEd' = W BY <1>2
  <2> QED BY <1>2, <1>4, <2>3, <2>4 DEF BaseFollows, UpdateFollows, DirWithin
<1> QED BY <1>3, <1>4

LEMMA TaskWithdrawFollows ==
  ASSUME Sound, Typing, Follows, TaskWithdraw
  PROVE  Follows'
<1>1. /\ job # NoJob /\ job \in Jobs /\ job.st = "read"
      /\ UNCHANGED <<editions, list, keys, missed>>
  BY NoJobIsNone DEF TaskWithdraw, Typing, TypeOK
<1>2. /\ job' # NoJob /\ job'.st = "copy" /\ Task' = Task /\ LastEd' = LastEd
      /\ job'.todo = ActionAddUpdate(Task)
      /\ job'.missed = missed \ ActionWithdrawn(Task)
      /\ job'.list = Remove(list, ActionWithdrawn(Task))
      /\ job'.keys = Remove(keys[job.sys], ActionWithdrawn(Task))
      /\ ActionAddUpdate(Task)' = ActionAddUpdate(Task)
  <2>1. Task' = Task /\ LastEd' = LastEd
    BY <1>1 DEF TaskWithdraw, Jobs, Task, LastEd
  <2> QED BY <1>1, <2>1, NoJobIsNone
          DEF TaskWithdraw, Jobs, ActionAddUpdate, ActionWithdrawn, Contents, Previous
<1> SUFFICES ASSUME NEW s \in Systems PROVE CopyFollows(s)'
  BY <1>2 DEF Follows, RestFollows, BaseFollows, UpdateFollows, KeysFollow, DoneFollows
<1>3. job.sys = s BY <1>1 DEF Sound, Jobs
<1> PICK T, W : T = Task.ed /\ W = LastEd OBVIOUS
<1>4. T \in Nat \ {0} /\ W \in Nat /\ T <= W BY <1>1, JobNumbers
<1> DEFINE gone == ActionWithdrawn(Task)
           add == ActionAddUpdate(Task)
<1>5. Contents(Task) = editions[T] /\ T \in T..W
  BY <1>4 DEF Contents
<1>6. \A i \in Ids : /\ files'[i] = IF i \in gone THEN 0 ELSE files[i]
                     /\ job'.list[i] = IF i \in gone THEN 0 ELSE list[i]
                     /\ job'.keys[i] = IF i \in gone THEN 0 ELSE keys[s][i]
  BY <1>2, <1>3 DEF TaskWithdraw, Remove, Merge, Empty
<1>7. \A i \in gone : Contents(Task)[i] = 0 /\ i \in Ids
  BY DEF ActionWithdrawn
<1>8. ASSUME NEW i \in Ids \ add
      PROVE  /\ At(job.keys, i, T, W)'
             /\ i \notin job'.missed => FileAt(i, T, W)' /\ At(job.list, i, T, W)'
  <2>1. CASE i \in gone \/ Task.base
    <3>1. editions[T][i] = 0 BY <1>1, <1>5, <1>7, <1>8, <2>1, Changes
    <3>2. CASE i \in gone
      BY <1>1, <1>2, <1>5, <1>6, <3>1, <3>2 DEF At, FileAt
    <3>3. CASE Task.base
      <4>1. files = Empty /\ list = Empty /\ keys[s] = Empty
        BY <1>1, <3>3 DEF Follows, BaseFollows
      <4>2. files'[i] = 0 /\ job'.list[i] = 0 /\ job'.keys[i] = 0
        BY <1>6, <4>1 DEF Empty
      <4> QED BY <1>1, <1>5, <3>1, <4>2 DEF At, FileAt
    <3> QED BY <2>1, <3>2, <3>3
  <2>2. CASE i \notin gone /\ ~Task.base
    <3>1. editions[T][i] = editions[T - 1][i]
      BY <1>1, <1>8, <2>2, Changes
    <3>2. /\ At(keys[s], i, T - 1, W)
          /\ i \notin job'.missed => FileAt(i, T - 1, W) /\ At(list, i, T - 1, W)
      BY <1>1, <1>2, <2>2 DEF Follows, UpdateFollows, DirWithin
    <3>3. /\ At(keys[s], i, T, W)
          /\ i \notin job'.missed => FileAt(i, T, W) /\ At(list, i, T, W)
      BY <1>4, <3>1, <3>2, AtNext, FileAtNext
    <3>4. files'[i] = files[i] /\ job'.list[i] = list[i] /\ job'.keys[i] = keys[s][i]
      BY <1>6, <2>2
    <3> QED BY <1>1, <3>3, <3>4 DEF At, FileAt, Owed
  <2> QED BY <2>1, <2>2
<1>9. ~Task.base => DirWithin(s, T - 1, W)'
  <2> SUFFICES ASSUME ~Task.base PROVE DirWithin(s, T - 1, W)'
    OBVIOUS
  <2>1. DirWithin(s, T - 1, W) BY <1>1 DEF Follows, UpdateFollows
  <2>2. T \in (T - 1)..W BY <1>4
  <2>3. ASSUME NEW i \in Ids \ missed PROVE FileAt(i, T - 1, W)'
    <3>1. CASE i \in gone
      <4>1. files'[i] = editions'[T][i] BY <1>1, <1>5, <1>6, <1>7, <3>1
      <4> QED BY <2>2, <4>1 DEF FileAt, At
    <3>2. CASE i \notin gone
      <4>1. files'[i] = files[i] BY <1>6, <3>2
      <4> QED BY <1>1, <2>1, <4>1 DEF DirWithin, FileAt, At, Owed
    <3> QED BY <3>1, <3>2
  <2> QED BY <1>1, <2>1, <2>3 DEF DirWithin, At
<1>10. Task'.ed = T /\ LastEd' = W /\ Task'.base = Task.base BY <1>2
<1> QED BY <1>2, <1>8, <1>9, <1>10 DEF CopyFollows

LEMMA CopyChartFollows ==
  ASSUME Sound, Typing, Follows, NEW c \in Ids, CopyChart(c)
  PROVE  Follows'
<1>1. /\ job # NoJob /\ job \in Jobs /\ job.st = "copy" /\ c \in job.todo
      /\ UNCHANGED <<editions, list, keys, missed>>
  BY NoJobIsNone DEF CopyChart, Typing, TypeOK
<1>2. /\ job' # NoJob /\ job'.st = "copy" /\ Task' = Task /\ LastEd' = LastEd
      /\ job'.todo = job.todo \ {c} /\ job'.missed = job.missed \ {c}
      /\ job'.keys = job.keys /\ job'.list = Merge(job.list, Contents(Task), {c})
      /\ ActionAddUpdate(Task)' = ActionAddUpdate(Task)
  <2>1. Task' = Task /\ LastEd' = LastEd
    BY <1>1 DEF CopyChart, Jobs, Task, LastEd
  <2> QED BY <1>1, <2>1, NoJobIsNone
          DEF CopyChart, Jobs, ActionAddUpdate, ActionWithdrawn, Contents, Previous
<1> SUFFICES ASSUME NEW s \in Systems PROVE CopyFollows(s)'
  BY <1>2 DEF Follows, RestFollows, BaseFollows, UpdateFollows, KeysFollow, DoneFollows
<1> PICK T, W : T = Task.ed /\ W = LastEd OBVIOUS
<1>3. T \in Nat \ {0} /\ W \in Nat /\ T <= W BY <1>1, JobNumbers
<1>4. Contents(Task) = editions[T] /\ T \in T..W
  BY <1>3 DEF Contents
<1>5. \A i \in Ids :
        /\ IF i = c THEN files'[i] = editions[T][i] \/ (CopyFails /\ files'[i] = 0)
           ELSE files'[i] = files[i]
        /\ job'.list[i] = IF i = c THEN editions[T][i] ELSE job.list[i]
  BY <1>2, <1>4 DEF CopyChart, Merge, Remove, Empty
<1>6. CopyFollows(s)!2
  BY <1>1 DEF Follows, CopyFollows
<1>7. \A i \in Ids \ (job'.todo \cup job'.missed) :
        FileAt(i, T, W)' /\ At(job.list, i, T, W)'
  <2> SUFFICES ASSUME NEW i \in Ids \ (job'.todo \cup job'.missed)
               PROVE  FileAt(i, T, W)' /\ At(job.list, i, T, W)'
    OBVIOUS
  <2>1. CASE i = c
    BY <1>1, <1>4, <1>5, <2>1 DEF FileAt, At
  <2>2. CASE i # c
    <3>1. FileAt(i, T, W) /\ At(job.list, i, T, W) BY <1>2, <1>6, <2>2
    <3> QED BY <1>1, <1>5, <2>2, <3>1 DEF FileAt, At, Owed
  <2> QED BY <2>1, <2>2
<1>8. \A i \in Ids \ ActionAddUpdate(Task) : At(job.keys, i, T, W)'
  BY <1>1, <1>2, <1>6 DEF At
<1>9. ~Task.base => DirWithin(s, T - 1, W)'
  <2> SUFFICES ASSUME ~Task.base PROVE DirWithin(s, T - 1, W)'
    OBVIOUS
  <2>1. DirWithin(s, T - 1, W) BY <1>6
  <2>2. T \in (T - 1)..W BY <1>3
  <2>3. ASSUME NEW i \in Ids \ missed PROVE FileAt(i, T - 1, W)'
    <3>1. CASE i = c
      BY <1>1, <1>5, <2>2, <3>1 DEF FileAt, At
    <3>2. CASE i # c
      BY <1>1, <1>5, <2>1, <3>2 DEF DirWithin, FileAt, At, Owed
    <3> QED BY <3>1, <3>2
  <2> QED BY <1>1, <2>1, <2>3 DEF DirWithin, At
<1>10. Task'.ed = T /\ LastEd' = W /\ Task'.base = Task.base BY <1>2
<1> QED BY <1>2, <1>6, <1>7, <1>8, <1>9, <1>10 DEF CopyFollows

\* What is left out stays as it was.
LEMMA SkipChartFollows ==
  ASSUME Sound, Typing, Follows, NEW c \in Ids, SkipChart(c)
  PROVE  Follows'
<1>1. /\ job # NoJob /\ job \in Jobs /\ job.st = "copy" /\ c \in job.todo
      /\ UNCHANGED <<editions, files, list, keys, missed>>
  BY NoJobIsNone DEF SkipChart, dir, Typing, TypeOK
<1>2. /\ job' # NoJob /\ job'.st = "copy" /\ Task' = Task /\ LastEd' = LastEd
      /\ job'.todo = job.todo \ {c} /\ job'.missed = job.missed \cup {c}
      /\ job'.keys = job.keys /\ job'.list = job.list
      /\ ActionAddUpdate(Task)' = ActionAddUpdate(Task)
  <2>1. Task' = Task /\ LastEd' = LastEd
    BY <1>1 DEF SkipChart, Jobs, Task, LastEd
  <2> QED BY <1>1, <2>1, NoJobIsNone
          DEF SkipChart, Jobs, ActionAddUpdate, ActionWithdrawn, Contents, Previous
<1> SUFFICES ASSUME NEW s \in Systems PROVE CopyFollows(s)'
  BY <1>2 DEF Follows, RestFollows, BaseFollows, UpdateFollows, KeysFollow, DoneFollows
<1> PICK T, W : T = Task.ed /\ W = LastEd OBVIOUS
<1>3. CopyFollows(s)!2
  BY <1>1 DEF Follows, CopyFollows
<1>4. \A i \in Ids \ (job'.todo \cup job'.missed) :
        FileAt(i, T, W)' /\ At(job.list, i, T, W)'
  BY <1>1, <1>2, <1>3 DEF FileAt, At, Owed
<1>5. \A i \in Ids \ ActionAddUpdate(Task) : At(job.keys, i, T, W)'
  BY <1>1, <1>2, <1>3 DEF At
<1>6. ~Task.base => DirWithin(s, T - 1, W)'
  BY <1>1, <1>3 DEF DirWithin, FileAt, At, Owed
<1>7. Task'.ed = T /\ LastEd' = W /\ Task'.base = Task.base BY <1>2
<1> QED BY <1>2, <1>3, <1>4, <1>5, <1>6, <1>7 DEF CopyFollows

LEMMA WriteListFollows ==
  ASSUME Sound, Typing, Follows, WriteList
  PROVE  Follows'
<1>1. /\ job # NoJob /\ job \in Jobs /\ job.st = "copy" /\ job.todo = {}
      /\ UNCHANGED <<editions, files, keys>> /\ list' = job.list /\ missed' = job.missed
  BY NoJobIsNone DEF WriteList, Typing, TypeOK
<1>2. /\ job' # NoJob /\ job'.st = "keys" /\ Task' = Task /\ LastEd' = LastEd
      /\ job'.keys = MergeKeys
  BY <1>1, NoJobIsNone DEF WriteList, Jobs, Task, LastEd
<1> SUFFICES ASSUME NEW s \in Systems PROVE KeysFollow(s)'
  BY <1>2 DEF Follows, RestFollows, BaseFollows, UpdateFollows, CopyFollows, DoneFollows
<1> PICK T, W : T = Task.ed /\ W = LastEd OBVIOUS
<1>3. T \in Nat \ {0} /\ W \in Nat /\ T <= W BY <1>1, JobNumbers
<1>4. Contents(Task) = editions[T] /\ T \in T..W
  BY <1>3 DEF Contents
<1>5. CopyFollows(s)!2
  BY <1>1 DEF Follows, CopyFollows
<1>6. \A i \in Ids \ missed' : FileAt(i, T, W)' /\ At(list, i, T, W)'
  BY <1>1, <1>5 DEF FileAt, At, Owed
<1>7. ASSUME NEW i \in Ids PROVE At(job.keys, i, T, W)'
  <2>1. job'.keys[i] = IF i \in ActionAddUpdate(Task) THEN editions[T][i] ELSE job.keys[i]
    BY <1>2, <1>4 DEF MergeKeys, Merge
  <2>2. CASE i \in ActionAddUpdate(Task)
    BY <1>1, <1>4, <2>1, <2>2 DEF At
  <2>3. CASE i \notin ActionAddUpdate(Task)
    BY <1>1, <1>5, <2>1, <2>3 DEF At
  <2> QED BY <2>2, <2>3
<1>8. ~Task.base => \A i \in Ids : At(keys[s], i, T - 1, W)'
  BY <1>1, <1>5 DEF DirWithin, At
<1>9. Task'.ed = T /\ LastEd' = W /\ Task'.base = Task.base BY <1>2
<1> QED BY <1>2, <1>6, <1>7, <1>8, <1>9 DEF KeysFollow

LEMMA NextWithin ==
  ASSUME NEW n \in Nat, NEW k \in 1..n, k < n
  PROVE  k + 1 \in 1..n /\ n # 1
  OBVIOUS

LEMMA WriteKeysFollows ==
  ASSUME Sound, Typing, Follows, WriteKeys
  PROVE  Follows'
<1>1. /\ job # NoJob /\ job \in Jobs /\ job.st = "keys"
      /\ UNCHANGED <<editions, files, list, missed>>
      /\ keys' = [keys EXCEPT ![job.sys] = job.keys]
  BY NoJobIsNone DEF WriteKeys, Typing, TypeOK
<1>2. job.i \in 1..Len(job.tasks) /\ Len(job.tasks) \in Nat
  <2>1. job.tasks \in Seq([ed : 1..MaxEd, base : BOOLEAN]) BY <1>1 DEF Jobs
  <2> QED BY <1>1, <2>1, TaskShape, LenProperties
<1>3. /\ job' # NoJob /\ job'.st = (IF MoreTasks THEN "begin" ELSE "done")
      /\ job'.tasks = job.tasks /\ job'.i = job.i + 1 /\ LastEd' = LastEd
  BY <1>1, NoJobIsNone DEF WriteKeys, Jobs, LastEd
<1> SUFFICES ASSUME NEW s \in Systems
             PROVE  RestFollows(s)' /\ UpdateFollows(s)' /\ DoneFollows(s)'
  BY <1>3 DEF Follows, BaseFollows, CopyFollows, KeysFollow
<1>4. s = job.sys /\ keys'[s] = job.keys
  BY <1>1 DEF Sound, Jobs, Typing, TypeOK
<1> PICK T, W : T = Task.ed /\ W = LastEd OBVIOUS
<1>5. DirWithin(s, T, W)'
  <2>1. KeysFollow(s)!2
    BY <1>1 DEF Follows, KeysFollow
  <2> QED BY <1>1, <1>4, <2>1 DEF DirWithin, FileAt, At, Owed
<1>6. CASE MoreTasks
  <2>1. job.i + 1 \in 1..Len(job.tasks) /\ Len(job.tasks) # 1
    <3> PICK k, n : k = job.i /\ n = Len(job.tasks) OBVIOUS
    <3>1. k \in 1..n /\ n \in Nat /\ k < n
      BY <1>2, <1>6 DEF MoreTasks
    <3>2. k + 1 \in 1..n /\ n # 1 BY <3>1, NextWithin
    <3> QED BY <3>2
  <2>2. /\ ~job.tasks[job.i + 1].base /\ job.tasks[job.i].ed = recorded[job.sys] + job.i
        /\ job.tasks[job.i + 1].ed = recorded[job.sys] + (job.i + 1)
    BY <1>1, <1>2, <2>1 DEF Typing, Shape
  <2>3. recorded[job.sys] \in Nat /\ job.i \in Nat BY <1>1, <1>2, JobNumbers
  <2>4. ~Task'.base /\ Task'.ed - 1 = T
    BY <1>3, <2>2, <2>3 DEF Task
  <2>5. RestFollows(s)' /\ DoneFollows(s)'
    BY <1>3, <1>6, <2>4 DEF RestFollows, DoneFollows
  <2>6. UpdateFollows(s)'
    BY <1>3, <1>5, <2>4 DEF UpdateFollows, DirWithin
  <2> QED BY <2>5, <2>6
<1>7. CASE ~MoreTasks
  <2>1. job.i = Len(job.tasks) BY <1>2, <1>7 DEF MoreTasks
  <2>2. T = W BY <2>1 DEF Task, LastEd
  <2> QED BY <1>3, <1>5, <1>7, <2>2
          DEF RestFollows, UpdateFollows, DoneFollows, DirWithin
<1> QED BY <1>6, <1>7

LEMMA FollowsStep ==
  ASSUME Sound, Typing, Typing', Follows, [Next]_chartVars
  PROVE  Follows'
<1>1. CASE Publish BY <1>1, PublishFollows
<1>2. CASE \E s \in Systems : Start(s) BY <1>2, StartFollows
<1>3. CASE TaskBegin BY <1>3, TaskBeginFollows
<1>4. CASE TaskWithdraw BY <1>4, TaskWithdrawFollows
<1>5. CASE \E i \in Ids : CopyChart(i) BY <1>5, CopyChartFollows
<1>12. CASE \E i \in Ids : SkipChart(i) BY <1>12, SkipChartFollows
<1>6. CASE WriteList BY <1>6, WriteListFollows
<1>7. CASE WriteKeys BY <1>7, WriteKeysFollows
<1>8. CASE TaskError BY <1>8, TaskErrorFollows
<1>9. CASE Done BY <1>9, DoneFollowed
<1>10. CASE Crash BY <1>10, CrashFollows
<1>11. CASE UNCHANGED chartVars
  <2>1. UNCHANGED <<editions, recorded, files, list, keys, missed, job>>
    BY <1>11 DEF chartVars, dir
  <2>2. UNCHANGED <<Task, LastEd>> BY <2>1 DEF Task, LastEd
  <2>3. \A s : /\ RestFollows(s)' = RestFollows(s) /\ UpdateFollows(s)' = UpdateFollows(s)
               /\ BaseFollows(s)' = BaseFollows(s) /\ DoneFollows(s)' = DoneFollows(s)
    BY <2>1, <2>2 DEF RestFollows, UpdateFollows, BaseFollows, DoneFollows,
                      DirWithin, At, FileAt, Owed
  <2>4. UNCHANGED ActionAddUpdate(Task)
    BY <2>1, <2>2 DEF ActionAddUpdate, ActionWithdrawn, Contents, Previous
  <2>5. \A s : CopyFollows(s)' = CopyFollows(s) /\ KeysFollow(s)' = KeysFollow(s)
    BY <2>1, <2>2, <2>4 DEF CopyFollows, KeysFollow, DirWithin, At, FileAt, Owed
  <2> QED BY <2>3, <2>5 DEF Follows
<1> QED BY <1>1, <1>2, <1>3, <1>4, <1>5, <1>6, <1>7, <1>8, <1>9, <1>10, <1>11, <1>12
        DEF Next, Working, TaskStep

LEMMA FollowsInvariant == ASSUME Sound PROVE Spec => []Follows
<1>1. ASSUME Typing, Typing', Follows, [Next]_chartVars PROVE Follows'
  BY <1>1, FollowsStep
<1> QED BY TypingInvariant, InitFollows, <1>1, PTL DEF Spec

\* FinishedIsComplete (the install loop and processTask): whatever sequence of
\* updates, errors and crashes came before, an installation that is recorded
\* leaves the recorded edition's keys, and its entries and charts but for the
\* charts that were left out (5799-5803) and not sent again since, for any
\* number of charts and editions, under Sound.
THEOREM UpdatesConverge == Sound => (Spec => FinishedIsComplete)
<1> SUFFICES ASSUME Sound PROVE Spec => FinishedIsComplete
  OBVIOUS
<1>1. Typing /\ Follows /\ [Next]_chartVars =>
        [\A s \in Systems : Done /\ job.sys = s => HoldsRecorded(s)']_chartVars
  BY DoneFollowed
<1> QED BY TypingInvariant, FollowsInvariant, <1>1, PTL DEF Spec, FinishedIsComplete

\* EntriesKeepUp (processTask): at rest no key is older than the recorded
\* edition, and no entry but those of charts that were left out, under Sound.
THEOREM NothingFallsBehind == Sound => (Spec => []EntriesKeepUp)
<1> SUFFICES ASSUME Sound PROVE Spec => []EntriesKeepUp
  OBVIOUS
<1>1. Follows => EntriesKeepUp
  BY DEF Follows, RestFollows, DirWithin, At, EntriesKeepUp
<1> QED BY FollowsInvariant, <1>1, PTL

(***************************************************************************)
(* Base sets, for any systems and faults: a base set starts by removing    *)
(* everything, so what it installs is all there is.                        *)
(***************************************************************************)
New == editions[LastEd]
Copied(i) == files[i] = New[i] \/ (CopyFails /\ files[i] = 0)

\* A chart is there and entered, or neither if it was left out.
Brought(g, out, i) == IF i \in out THEN files[i] = 0 /\ g[i] = 0
                      ELSE Copied(i) /\ g[i] = New[i]

\* How far the directory is replaced.
Replaced ==
  job # NoJob /\ job.tasks[1].base =>
    /\ job.st = "read" =>
         files = Empty /\ list = Empty /\ keys[job.sys] = Empty /\ missed = {}
    /\ job.st = "copy" =>
         /\ \A i \in job.todo : files[i] = 0 /\ job.list[i] = 0
         /\ \A i \in Ids \ job.todo : Brought(job.list, job.missed, i)
         /\ job.keys = Empty
    /\ job.st = "keys" => job.keys = New /\ \A i \in Ids : Brought(list, missed, i)
    /\ job.st = "done" =>
         keys[job.sys] = New /\ \A i \in Ids : Brought(list, missed, i)

LEMMA BaseShape ==
  ASSUME Typing, job # NoJob, job.tasks[1].base
  PROVE  /\ job \in Jobs /\ Len(job.tasks) = 1
         /\ LastEd \in 1..Len(editions) /\ New \in Gen
         /\ job.st # "done" => Task = job.tasks[1] /\ Task.base /\ Contents(Task) = New
<1>1. job \in Jobs /\ Len(job.tasks) = 1 /\ LastEd \in 1..Len(editions)
  <2>1. Len(job.tasks) \in Nat \ {0} => 1 \in 1..Len(job.tasks) OBVIOUS
  <2> QED BY <2>1 DEF Typing, TypeOK, Shape
<1>2. New \in Gen
  BY <1>1 DEF Typing, TypeOK, New
<1>3. job.st # "done" => Task = job.tasks[1] /\ Contents(Task) = New
  <2>1. job.st # "done" => job.i \in 1..1
    BY <1>1, TaskShape
  <2> QED BY <1>1, <2>1 DEF Task, LastEd, Contents, New
<1> QED BY <1>1, <1>2, <1>3

LEMMA SameGen ==
  ASSUME NEW f \in Gen, NEW g \in Gen, \A i \in Ids : f[i] = g[i] PROVE f = g
  BY DEF Gen

\* A step within the job keeps what is to be installed.
LEMMA NewKept ==
  ASSUME Typing, job # NoJob, job.tasks[1].base, job' # NoJob,
         job'.tasks = job.tasks, editions' = editions
  PROVE  LastEd' = LastEd /\ New' = New /\ job'.tasks[1].base
  BY DEF LastEd, New

LEMMA ReplacedStep ==
  ASSUME Typing, Replaced, [Next]_chartVars
  PROVE  Replaced'
<1> SUFFICES ASSUME job' # NoJob, job'.tasks[1].base PROVE Replaced'
  BY DEF Replaced
<1>1. CASE Publish
  <2>1. /\ UNCHANGED <<files, list, keys, missed, job>>
        /\ \A e \in 1..Len(editions) : editions'[e] = editions[e]
    BY <1>1, PublishAppends DEF Publish, dir
  <2>2. LastEd' = LastEd /\ LastEd \in 1..Len(editions)
    BY <2>1, BaseShape DEF LastEd
  <2>3. New' = New BY <2>1, <2>2 DEF New
  <2> QED BY <2>1, <2>3 DEF Replaced, Copied, Brought
<1>2. ASSUME NEW s \in Systems, Start(s) PROVE Replaced'
  BY <1>2 DEF Start, Replaced
<1>3. CASE TaskBegin
  <2>1. job # NoJob /\ job.st = "begin" /\ job \in Jobs
    BY <1>3, NoJobIsNone DEF TaskBegin, Typing, TypeOK
  <2>2. job'.st = "read" /\ job'.tasks = job.tasks /\ job'.sys = job.sys
    BY <1>3, <2>1 DEF TaskBegin, Jobs
  <2>3. Task.base /\ job.sys \in Systems BY <2>1, <2>2, BaseShape DEF Jobs
  <2> QED BY <1>3, <2>2, <2>3 DEF TaskBegin, RemoveAll, Replaced
<1>4. CASE TaskWithdraw
  <2>1. job # NoJob /\ job.st = "read" /\ job \in Jobs
    BY <1>4, NoJobIsNone DEF TaskWithdraw, Typing, TypeOK
  <2>2. /\ job'.st = "copy" /\ job'.tasks = job.tasks
        /\ job'.todo = ActionAddUpdate(Task)
        /\ job'.missed = missed \ ActionWithdrawn(Task)
        /\ job'.list = Remove(list, ActionWithdrawn(Task))
        /\ job'.keys = Remove(keys[job.sys], ActionWithdrawn(Task))
    BY <1>4, <2>1 DEF TaskWithdraw, Jobs
  <2>3. /\ files = Empty /\ list = Empty /\ keys[job.sys] = Empty /\ missed = {}
        /\ Task.base /\ Contents(Task) = New
    BY <2>1, <2>2, BaseShape DEF Replaced
  <2>4. New' = New BY <1>4, <2>1, <2>2, NewKept DEF TaskWithdraw
  <2>5. files' = Empty /\ job'.list = Empty /\ job'.keys = Empty
    BY <1>4, <2>2, <2>3 DEF TaskWithdraw, Remove, Merge, Empty
  <2>6. \A i \in Ids \ job'.todo : New[i] = 0
    BY <2>1, <2>2, <2>3, Changes
  <2>7. job'.missed = {} /\ \A i \in Ids : Empty[i] = 0
    BY <2>2, <2>3 DEF Empty
  <2>8. job'.todo \subseteq Ids
    BY <2>2 DEF ActionAddUpdate
  <2> QED BY <2>2, <2>4, <2>5, <2>6, <2>7, <2>8 DEF Replaced, Copied, Brought
<1>5. ASSUME NEW c \in Ids, CopyChart(c) PROVE Replaced'
  <2>1. job # NoJob /\ job.st = "copy" /\ job \in Jobs
    BY <1>5, NoJobIsNone DEF CopyChart, Typing, TypeOK
  <2>2. /\ job'.st = "copy" /\ job'.tasks = job.tasks
        /\ job'.todo = job.todo \ {c} /\ job'.missed = job.missed \ {c}
        /\ job'.keys = job.keys /\ job'.list = Merge(job.list, Contents(Task), {c})
        /\ job.todo \subseteq Ids
    BY <1>5, <2>1 DEF CopyChart, Jobs
  <2>3. Contents(Task) = New BY <2>1, <2>2, BaseShape
  <2>4. New' = New BY <1>5, <2>1, <2>2, NewKept DEF CopyChart
  <2>5. \A i \in Ids : job'.list[i] = IF i = c THEN New[i] ELSE job.list[i]
    BY <2>2, <2>3 DEF Merge
  <2>6. \A i \in Ids : IF i = c THEN files'[i] = New[i] \/ (CopyFails /\ files'[i] = 0)
                       ELSE files'[i] = files[i]
    BY <1>5, <2>3 DEF CopyChart, Merge, Remove, Empty
  <2>7. /\ \A i \in job.todo : files[i] = 0 /\ job.list[i] = 0
        /\ \A i \in Ids \ job.todo : Brought(job.list, job.missed, i)
        /\ job.keys = Empty
    BY <2>1, <2>2 DEF Replaced
  <2>8. \A i \in job'.todo : files'[i] = 0 /\ job'.list[i] = 0
    BY <2>2, <2>5, <2>6, <2>7
  <2>9. \A i \in Ids \ job'.todo : Brought(job.list, job.missed, i)'
    BY <2>2, <2>4, <2>5, <2>6, <2>7 DEF Brought, Copied
  <2> QED BY <2>2, <2>7, <2>8, <2>9 DEF Replaced
<1>12. ASSUME NEW c \in Ids, SkipChart(c) PROVE Replaced'
  <2>1. job # NoJob /\ job.st = "copy" /\ job \in Jobs
    BY <1>12, NoJobIsNone DEF SkipChart, Typing, TypeOK
  <2>2. /\ job'.st = "copy" /\ job'.tasks = job.tasks /\ c \in job.todo
        /\ job'.todo = job.todo \ {c} /\ job'.missed = job.missed \cup {c}
        /\ job'.keys = job.keys /\ job'.list = job.list
        /\ files' = files /\ job.todo \subseteq Ids
    BY <1>12, <2>1 DEF SkipChart, Jobs, dir
  <2>3. New' = New BY <1>12, <2>1, <2>2, NewKept DEF SkipChart
  <2>4. /\ \A i \in job.todo : files[i] = 0 /\ job.list[i] = 0
        /\ \A i \in Ids \ job.todo : Brought(job.list, job.missed, i)
        /\ job.keys = Empty
    BY <2>1, <2>2 DEF Replaced
  <2>5. \A i \in Ids \ job'.todo : Brought(job.list, job.missed, i)'
    BY <2>2, <2>3, <2>4 DEF Brought, Copied
  <2> QED BY <2>2, <2>4, <2>5 DEF Replaced
<1>6. CASE WriteList
  <2>1. job # NoJob /\ job.st = "copy" /\ job.todo = {} /\ job \in Jobs
    BY <1>6, NoJobIsNone DEF WriteList, Typing, TypeOK
  <2>2. job'.st = "keys" /\ job'.tasks = job.tasks /\ job'.keys = MergeKeys
    BY <1>6, <2>1 DEF WriteList, Jobs
  <2>3. Contents(Task) = New /\ Task.base /\ New \in Gen BY <2>1, <2>2, BaseShape
  <2>4. New' = New BY <1>6, <2>1, <2>2, NewKept DEF WriteList
  <2>5. (\A i \in Ids : Brought(job.list, job.missed, i)) /\ job.keys = Empty
    BY <2>1, <2>2 DEF Replaced
  <2>6. \A i \in Ids : Brought(list, missed, i)'
    BY <1>6, <2>4, <2>5 DEF WriteList, Brought, Copied
  <2>7. MergeKeys = New
    <3>1. MergeKeys \in Gen BY <2>1, <2>3, MergeIsGen DEF MergeKeys, Jobs
    <3>2. \A i \in Ids \ ActionAddUpdate(Task) : New[i] = 0
      BY <2>1, <2>3, Changes
    <3>3. \A i \in Ids : MergeKeys[i] = New[i]
      BY <2>3, <2>5, <3>2 DEF MergeKeys, Merge, Empty
    <3> QED BY <2>3, <3>1, <3>3, SameGen
  <2> QED BY <2>2, <2>4, <2>6, <2>7 DEF Replaced
<1>7. CASE WriteKeys
  <2>1. job # NoJob /\ job.st = "keys" /\ job \in Jobs /\ keys \in [Systems -> Gen]
    BY <1>7, NoJobIsNone DEF WriteKeys, Typing, TypeOK
  <2>2. /\ job'.st = IF MoreTasks THEN "begin" ELSE "done"
        /\ job'.tasks = job.tasks /\ job'.sys = job.sys /\ job.sys \in Systems
    BY <1>7, <2>1 DEF WriteKeys, Jobs
  <2>3. New' = New BY <1>7, <2>1, <2>2, NewKept DEF WriteKeys
  <2>4. job.keys = New /\ \A i \in Ids : Brought(list, missed, i)
    BY <2>1, <2>2 DEF Replaced
  <2>5. \A i \in Ids : Brought(list, missed, i)'
    BY <1>7, <2>3, <2>4 DEF WriteKeys, Brought, Copied
  <2>6. keys'[job.sys] = New'
    BY <1>7, <2>1, <2>2, <2>3, <2>4 DEF WriteKeys
  <2> QED BY <2>2, <2>5, <2>6 DEF Replaced
<1>8. CASE TaskError BY <1>8 DEF TaskError
<1>9. CASE Done BY <1>9 DEF Done
<1>10. CASE Crash BY <1>10 DEF Crash
<1>11. CASE UNCHANGED chartVars
  <2>1. UNCHANGED <<editions, files, list, keys, missed, job>> BY <1>11 DEF chartVars, dir
  <2> QED BY <2>1 DEF Replaced, Brought, Copied, New, LastEd
<1> QED BY <1>1, <1>2, <1>3, <1>4, <1>5, <1>6, <1>7, <1>8, <1>9, <1>10, <1>11, <1>12
        DEF Next, Working, TaskStep

LEMMA BaseDone ==
  ASSUME Typing, Replaced, Done, NEW s \in Systems, job.sys = s, job.tasks[1].base
  PROVE  HoldsRecorded(s)' /\ \A i \in missed' : list'[i] = 0 /\ files'[i] = 0
<1>1. job # NoJob /\ job.st = "done" /\ job \in Jobs /\ missed \subseteq Ids
  BY NoJobIsNone DEF Done, Typing, TypeOK
<1>2. keys[s] = New /\ \A i \in Ids : Brought(list, missed, i)
  BY <1>1 DEF Replaced
<1>3. recorded'[s] = LastEd /\ UNCHANGED <<editions, files, list, keys, missed>>
  BY <1>1 DEF Done, LastEd, dir, Typing, TypeOK
<1> QED BY <1>1, <1>2, <1>3 DEF HoldsRecorded, New, Brought, Copied

\* BaseSetRepairs (processTask, 5510-5518: a base set first removes all files
\* of the directory): an installation of a base set that is recorded leaves
\* that edition's charts, entries and keys, but nothing except the key of a
\* chart that was not in what was unpacked (5799-5803), for any charts,
\* editions and systems, whatever errors, crashes, half-written lists and
\* installations for the other system left behind.
THEOREM BaseSetsRepair == Spec => BaseSetRepairs
<1>1. Init => Replaced
  BY DEF Init, Replaced
<1>2. Typing /\ Replaced /\ [Next]_chartVars => Replaced'
  BY ReplacedStep
<1>3. Typing /\ Replaced /\ [Next]_chartVars =>
        [\A s \in Systems : Done /\ job.sys = s /\ job.tasks[1].base
           => /\ HoldsRecorded(s)'
              /\ \A i \in missed' : list'[i] = 0 /\ files'[i] = 0]_chartVars
  BY BaseDone
<1> QED BY TypingInvariant, <1>1, <1>2, <1>3, PTL DEF Spec, BaseSetRepairs

(***************************************************************************)
(* ChartKeys.  The key maps never hold a key their list has lost, and a    *)
(* raster chart opens whenever one of its keys is right.                   *)
(***************************************************************************)
\* Beside the keys, the directory behaves as in ChartFiles.
LEMMA FilesStep == ASSUME [KNext]_vars PROVE [Next]_chartVars
  BY DEF KNext, Install, DoneAndClear, Abort, CrashAndRestart, PlugDongle,
         OpenRaster, OpenVector, Next, Working, vars

LEMMA FilesTyping == KSpec => []Typing
<1>1. Typing /\ [KNext]_vars => Typing'
  BY FilesStep, TypingStep
<1> QED BY InitTyping, <1>1, PTL DEF KSpec

LEMMA KeysOfListsTyped ==
  ASSUME Typing, NEW m \in [{"pc", "sgl"} -> Gen]
  PROVE  loadKeyMaps(m) \in [{"pc", "sgl"} -> Gen]
<1>1. \A s : Lists(s) \in Gen
  BY EmptyIsGen DEF Lists, Typing, TypeOK
<1>2. \A s \in {"pc", "sgl"} :
        [i \in Ids |-> IF m[s][i] # 0 THEN m[s][i] ELSE Lists(s)[i]] \in Gen
  BY <1>1 DEF Gen
<1> QED BY <1>2 DEF loadKeyMaps

LEMMA OtherIsSystem == \A s \in {"pc", "sgl"} : Other(s) \in {"pc", "sgl"}
  BY DEF Other

LEMMA FirstTyped ==
  ASSUME Typing, KeyTypeOK, NEW i \in Ids
  PROVE  /\ FirstSystem(map, primary, i) \in {"pc", "sgl"}
         /\ FirstMaps(map, primary, i) \in [{"pc", "sgl"} -> Gen]
         /\ Looked(FirstMaps(map, primary, i), Other(FirstSystem(map, primary, i)), i)
              \in [{"pc", "sgl"} -> Gen]
<1>1. \A m \in [{"pc", "sgl"} -> Gen] : \A s : Looked(m, s, i) \in [{"pc", "sgl"} -> Gen]
  BY KeysOfListsTyped DEF Looked
<1>2. FirstMaps(map, primary, i) \in [{"pc", "sgl"} -> Gen]
  BY <1>1 DEF FirstMaps, KeyTypeOK
<1> QED BY <1>1, <1>2, OtherIsSystem DEF FirstSystem, KeyTypeOK

LEMMA NoKeysTyped == NoKeys \in [{"pc", "sgl"} -> Gen]
  BY EmptyIsGen DEF NoKeys

LEMMA KeysTypedStep ==
  ASSUME Typing, KeyTypeOK, [KNext]_vars
  PROVE  KeyTypeOK'
<1>1. CASE Install BY <1>1 DEF Install, keyVars, KeyTypeOK
<1>2. CASE DoneAndClear BY <1>2, NoKeysTyped DEF DoneAndClear, ClearMaps, KeyTypeOK
<1>3. CASE Abort BY <1>3 DEF Abort, KeyTypeOK
<1>4. CASE CrashAndRestart BY <1>4, NoKeysTyped DEF CrashAndRestart, KeyTypeOK
<1>5. CASE PlugDongle BY <1>5 DEF PlugDongle, KeyTypeOK
<1>6. ASSUME NEW i \in Ids, OpenRaster(i) PROVE KeyTypeOK'
  BY <1>6, FirstTyped, OtherIsSystem DEF OpenRaster, KeyTypeOK
<1>7. ASSUME NEW i \in Ids, OpenVector(i) PROVE KeyTypeOK'
  BY <1>7, FirstTyped DEF OpenVector, KeyTypeOK
<1>8. CASE UNCHANGED vars BY <1>8 DEF vars, keyVars, KeyTypeOK
<1> QED BY <1>1, <1>2, <1>3, <1>4, <1>5, <1>6, <1>7, <1>8 DEF KNext

\* A map that agrees with the lists still does after it was filled from them.
Agrees(m) == \A s \in Systems, i \in Ids : m[s][i] # 0 => m[s][i] = keys[s][i]

LEMMA LookedAgrees ==
  ASSUME NEW m, Agrees(m), NEW s, NEW i
  PROVE  Agrees(Looked(m, s, i))
<1>1. Agrees(loadKeyMaps(m))
  BY ChartKeysAssumption DEF Agrees, loadKeyMaps, Lists
<1> QED BY <1>1 DEF Looked

LEMMA FirstAgrees ==
  ASSUME Agrees(map), NEW i
  PROVE  /\ Agrees(FirstMaps(map, primary, i))
         /\ Agrees(Looked(FirstMaps(map, primary, i),
                          Other(FirstSystem(map, primary, i)), i))
  BY LookedAgrees DEF FirstMaps

LEMMA NoKeysAgree == Agrees(NoKeys)
  BY ChartKeysAssumption DEF Agrees, NoKeys, Empty

\* Only an edition is published while no installation is under way.
LEMMA InstallGoesOn ==
  ASSUME Typing, Install, ~Publish
  PROVE  job' # NoJob
<1> SUFFICES job'.st # "none" BY NoJobIsNone
<1>1. ASSUME NEW s \in Systems, Start(s) PROVE job'.st # "none"
  BY <1>1 DEF Start
<1>2. CASE TaskBegin
  BY <1>2, NoJobIsNone DEF TaskBegin, Typing, TypeOK, Jobs
<1>3. CASE TaskWithdraw
  BY <1>3, NoJobIsNone DEF TaskWithdraw, Typing, TypeOK, Jobs
<1>4. ASSUME NEW i \in Ids, CopyChart(i) PROVE job'.st # "none"
  BY <1>4, NoJobIsNone DEF CopyChart, Typing, TypeOK, Jobs
<1>5. CASE WriteList
  BY <1>5, NoJobIsNone DEF WriteList, Typing, TypeOK, Jobs
<1>6. CASE WriteKeys
  BY <1>6, NoJobIsNone DEF WriteKeys, Typing, TypeOK, Jobs
<1>7. ASSUME NEW i \in Ids, SkipChart(i) PROVE job'.st # "none"
  BY <1>7, NoJobIsNone DEF SkipChart, Typing, TypeOK, Jobs
<1> QED BY <1>1, <1>2, <1>3, <1>4, <1>5, <1>6, <1>7 DEF Install, TaskStep

LEMMA MapsAgreeStep ==
  ASSUME Typing, Typing', MapsAgree, [KNext]_vars
  PROVE  MapsAgree'
<1> SUFFICES ASSUME job' = NoJob, ~aborted' PROVE Agrees(map)'
  BY DEF MapsAgree, Agrees
<1>0. ASSUME job = NoJob, ~aborted PROVE Agrees(map)
  BY <1>0 DEF MapsAgree, Agrees
<1>1. CASE Install
  <2>1. CASE Publish
    BY <1>0, <1>1, <2>1 DEF Install, keyVars, Publish, dir, Agrees
  <2>2. CASE ~Publish
    BY <1>1, <2>2, InstallGoesOn
  <2> QED BY <2>1, <2>2
<1>2. CASE DoneAndClear
  BY <1>2, NoKeysAgree DEF DoneAndClear, ClearMaps, Done, dir, Agrees
<1>3. CASE Abort BY <1>3 DEF Abort
<1>4. CASE CrashAndRestart
  BY <1>4, ChartKeysAssumption DEF CrashAndRestart, Agrees, NoKeys, Empty
<1>5. CASE PlugDongle
  BY <1>0, <1>5 DEF PlugDongle, chartVars, dir, Agrees
<1>6. ASSUME NEW i \in Ids, OpenRaster(i) PROVE Agrees(map)'
  BY <1>0, <1>6, FirstAgrees DEF OpenRaster, chartVars, dir, Agrees
<1>7. ASSUME NEW i \in Ids, OpenVector(i) PROVE Agrees(map)'
  BY <1>0, <1>7, FirstAgrees DEF OpenVector, chartVars, dir, Agrees
<1>8. CASE UNCHANGED vars
  BY <1>0, <1>8 DEF vars, keyVars, chartVars, dir, Agrees
<1> QED BY <1>1, <1>2, <1>3, <1>4, <1>5, <1>6, <1>7, <1>8 DEF KNext

LEMMA KeyInitHolds == Init /\ KeyInit => KeyTypeOK /\ MapsAgree
  BY NoKeysTyped, NoKeysAgree DEF KeyInit, KeyTypeOK, MapsAgree, Agrees

LEMMA KeysInvariant == KSpec => [](KeyTypeOK /\ MapsAgree)
<1>1. Typing /\ Typing' /\ KeyTypeOK /\ MapsAgree /\ [KNext]_vars
        => (KeyTypeOK /\ MapsAgree)'
  BY KeysTypedStep, MapsAgreeStep
<1> QED BY FilesTyping, KeyInitHolds, <1>1, PTL DEF KSpec

\* MapsAgree (parseKeyFile 84-168 inserts only missing keys; the maps are
\* emptied when an installation ends): at rest, unless an installation ended
\* early, no map holds a key that its list has lost, for any charts, editions,
\* crashes and faults.
THEOREM MapsAgreeWithLists == KSpec => []MapsAgree
  BY KeysInvariant, PTL

LEMMA MapKeyFound ==
  ASSUME NEW m, Agrees(m), NEW s \in Systems, NEW i \in Ids
  PROVE  Looked(m, s, i)[s][i] = keys[s][i]
  BY ChartKeysAssumption DEF Looked, loadKeyMaps, Lists, Agrees

LEMMA LaterKeyFound ==
  ASSUME NEW m, Agrees(m), NEW s \in Systems, NEW i \in Ids, NEW r
  PROVE  Looked(Looked(m, r, i), s, i)[s][i] = keys[s][i]
  BY MapKeyFound, LookedAgrees

LEMMA RasterStep ==
  ASSUME KeyTypeOK, MapsAgree, NEW s \in Systems, NEW i \in Ids,
         job = NoJob, ~aborted, Opens(s, keys[s][i], i)
  PROVE  RasterOpens(map, primary, i)
<1>1. Agrees(map) BY DEF MapsAgree, Agrees
<1>2. keys[s][i] # 0 BY DEF Opens
<1>3. s = primary \/ (s = Other(primary) /\ s # primary /\ Other(Other(s)) = s)
  BY ChartKeysAssumption DEF KeyTypeOK, Other
<1>4. CASE s = primary
  <2>1. Key(map, primary, i) = keys[s][i] BY <1>1, <1>4, MapKeyFound DEF Key
  <2>2. FirstSystem(map, primary, i) = s /\ FirstMaps(map, primary, i)[s][i] = keys[s][i]
    BY <1>1, <1>2, <1>4, <2>1, MapKeyFound DEF FirstSystem, FirstMaps
  <2> QED BY <2>2 DEF RasterOpens
<1>5. CASE s = Other(primary) /\ Key(map, primary, i) = 0
  <2>1. FirstSystem(map, primary, i) = s
    BY <1>5 DEF FirstSystem
  <2>2. FirstMaps(map, primary, i)[s][i] = keys[s][i]
    BY <1>1, <1>5, LaterKeyFound DEF FirstMaps
  <2> QED BY <2>1, <2>2 DEF RasterOpens
<1>6. CASE s = Other(primary) /\ Key(map, primary, i) # 0
  <2>1. FirstSystem(map, primary, i) = primary BY <1>6 DEF FirstSystem
  <2>2. FirstMaps(map, primary, i) = Looked(map, primary, i) BY <1>6 DEF FirstMaps
  <2>3. FirstMaps(map, primary, i)[primary][i] # 0
    BY <1>6, <2>2 DEF Key
  <2>4. Key(FirstMaps(map, primary, i), s, i) = keys[s][i]
    BY <1>1, <2>2, LaterKeyFound DEF Key
  <2> QED BY <1>6, <2>1, <2>3, <2>4 DEF RasterOpens
<1> QED BY <1>3, <1>4, <1>5, <1>6

\* RasterOpensIfPossible (Chart_oeuRNC::Init, 517-590): with the retry and the
\* swap, a raster chart opens whenever the key list of a present system has
\* the right key, whichever map is the primary one and whatever was loaded.
THEOREM RasterAlwaysOpens == KSpec => []RasterOpensIfPossible
<1>1. KeyTypeOK /\ MapsAgree => RasterOpensIfPossible
  BY RasterStep DEF RasterOpensIfPossible
<1> QED BY KeysInvariant, <1>1, PTL

(***************************************************************************)
(* The validator.  A chart that was loaded keeps the key that opened it,   *)
(* whatever is opened after it: maps are only filled where they are empty. *)
(***************************************************************************)
LEMMA ValidatorStep == ASSUME [VNext]_valVars PROVE [KNext]_vars
  BY DEF VNext, Validate, TestLoad, Elsewhere, KNext, valVars

LEMMA KeysBelowValidator == VSpec => [](Typing /\ KeyTypeOK /\ MapsAgree)
<1>1. Typing /\ [VNext]_valVars => Typing'
  BY ValidatorStep, FilesStep, TypingStep
<1>2. Typing /\ Typing' /\ KeyTypeOK /\ MapsAgree /\ [VNext]_valVars
        => (KeyTypeOK /\ MapsAgree)'
  BY ValidatorStep, KeysTypedStep, MapsAgreeStep
<1>3. VInit => Typing /\ KeyTypeOK /\ MapsAgree
  BY InitTyping, KeyInitHolds DEF VInit
<1> QED BY <1>1, <1>2, <1>3, PTL DEF VSpec

\* A map has a key that opens the chart.
HasKey(m, i) == \E s \in {"pc", "sgl"} : Opens(s, m[s][i], i)

LEMMA LookedKeeps ==
  ASSUME NEW m, NEW s \in {"pc", "sgl"}, NEW i \in Ids, m[s][i] # 0, NEW r, NEW j
  PROVE  Looked(m, r, j)[s][i] = m[s][i]
  BY DEF Looked, loadKeyMaps

LEMMA FirstKeeps ==
  ASSUME NEW s \in {"pc", "sgl"}, NEW i \in Ids, map[s][i] # 0, NEW j
  PROVE  /\ FirstMaps(map, primary, j)[s][i] = map[s][i]
         /\ Looked(FirstMaps(map, primary, j),
                   Other(FirstSystem(map, primary, j)), j)[s][i] = map[s][i]
<1>1. FirstMaps(map, primary, j)[s][i] = map[s][i]
  BY LookedKeeps DEF FirstMaps
<1> QED BY <1>1, LookedKeeps

LEMMA OpeningKeeps ==
  ASSUME NEW i \in Ids, HasKey(map, i), NEW j \in Ids, OpenRaster(j) \/ OpenVector(j)
  PROVE  HasKey(map, i)'
<1> PICK s \in {"pc", "sgl"} : Opens(s, map[s][i], i) BY DEF HasKey
<1>1. map[s][i] # 0 BY DEF Opens
<1>2. UNCHANGED <<files, plugged>>
  BY DEF OpenRaster, OpenVector, chartVars, dir
<1>3. \/ map' = FirstMaps(map, primary, j)
      \/ map' = Looked(FirstMaps(map, primary, j), Other(FirstSystem(map, primary, j)), j)
  BY DEF OpenRaster, OpenVector
<1>4. map'[s][i] = map[s][i] BY <1>1, <1>3, FirstKeeps
<1>5. Opens(s, map[s][i], i)' BY <1>2, <1>4 DEF Opens, Present
<1> QED BY <1>5 DEF HasKey

LEMMA HasKeyOpens ==
  ASSUME KeyTypeOK, NEW i \in Ids, HasKey(map, i)
  PROVE  RasterOpens(map, primary, i)
<1> PICK s \in {"pc", "sgl"} : Opens(s, map[s][i], i) BY DEF HasKey
<1>1. map[s][i] # 0 BY DEF Opens
<1>2. FirstMaps(map, primary, i)[s][i] = map[s][i] BY <1>1, FirstKeeps
<1>3. s = primary \/ (s = Other(primary) /\ Other(Other(primary)) = primary)
  BY DEF KeyTypeOK, Other
<1>4. CASE FirstSystem(map, primary, i) = s
  BY <1>2, <1>4 DEF RasterOpens
<1>5. CASE FirstSystem(map, primary, i) # s
  <2>1. s = Other(primary)
    <3>1. s = primary => Key(map, primary, i) # 0
      BY <1>1, LookedKeeps DEF Key
    <3> QED BY <1>3, <1>5, <3>1 DEF FirstSystem
  <2>2. Key(map, primary, i) # 0 /\ FirstSystem(map, primary, i) = primary
    BY <1>5, <2>1 DEF FirstSystem
  <2>3. FirstMaps(map, primary, i)[primary][i] # 0
    BY <2>2 DEF FirstMaps, Key
  <2>4. Key(FirstMaps(map, primary, i), s, i) = map[s][i]
    BY <1>1, <1>2, LookedKeeps DEF Key
  <2> QED BY <2>1, <2>2, <2>3, <2>4 DEF RasterOpens
<1> QED BY <1>4, <1>5

(***************************************************************************)
(* The invariant of a validation.                                          *)
(***************************************************************************)
ValTyped ==
  \/ val = Idle
  \/ val \in [st : {"on"}, left : SUBSET Ids, error : BOOLEAN, complete : BOOLEAN]

\* Without an error, what is not left was opened, and can be again.
LoadedOpen ==
  val.st = "on" /\ ~val.error =>
    ListAgrees /\ \A i \in Charts(files) \ val.left : HasKey(map, i)

\* The keys of s are those of the charts.
KeysOpen(s) == \A i \in Charts(files) : keys[s][i] = files[i]

\* While a complete installation is validated, nothing else goes on.
CompleteSoFar ==
  val.st = "on" /\ val.complete =>
    /\ ~val.error
    /\ val.left # {} =>
         /\ job = NoJob /\ ~aborted
         /\ \E s \in Systems : KeysOpen(s) /\ Present(s)

ValInv == ValTyped /\ LoadedOpen /\ CompleteSoFar

LEMMA IdleInv == val = Idle => ValInv
  BY DEF Idle, ValInv, ValTyped, LoadedOpen, CompleteSoFar

\* SequencesExt counts with an instance of its own.
LEMMA SameCount == ASSUME NEW S PROVE Orders!Cardinality(S) = Cardinality(S)
  BY DEF Orders!Cardinality, Cardinality

\* The charts of an order are as many as the set has.
LEMMA OrderShape ==
  ASSUME NEW S, IsFiniteSet(S), NEW f \in Orders!SetToSeqs(S)
  PROVE  /\ Cardinality(S) \in Nat /\ Len(f) = Cardinality(S)
         /\ \A k \in 1..Len(f) : f[k] \in S
<1>1. Cardinality(S) \in Nat BY FS_CardinalityType
<1>2. f \in [1..Cardinality(S) -> S] BY SameCount DEF Orders!SetToSeqs
<1> PICK n : n = Cardinality(S) OBVIOUS
<1>3. Len(f) = n BY <1>1, <1>2
<1> QED BY <1>1, <1>2, <1>3

\* Lists that are complete validate: with enough charts, the one that is
\* looked for in a key list is one of them.
LEMMA CompleteListsValidate ==
  ASSUME Typing, NEW system, Complete(system),
         NEW xml \in Orders!SetToSeqs(XmlFiles),
         NEW f \in Orders!SetToSeqs(Charts(files)), NEW beyond
  PROVE  KeysValidate(xml, f, beyond)
<1>1. IsFiniteSet(XmlFiles)
  <2>1. IsFiniteSet({"ChartList", "pc", "sgl"})
    <3>1. IsFiniteSet({} \cup {"ChartList"}) BY FS_EmptySet, FS_AddElement
    <3>2. IsFiniteSet(({} \cup {"ChartList"}) \cup {"pc"}) BY <3>1, FS_AddElement
    <3>3. IsFiniteSet((({} \cup {"ChartList"}) \cup {"pc"}) \cup {"sgl"})
      BY <3>2, FS_AddElement
    <3>4. {"ChartList", "pc", "sgl"} = (({} \cup {"ChartList"}) \cup {"pc"}) \cup {"sgl"}
      OBVIOUS
    <3> QED BY <3>3, <3>4
  <2>2. XmlFiles \subseteq {"ChartList", "pc", "sgl"}
    BY ChartKeysAssumption DEF XmlFiles, KeyLists
  <2> QED BY <2>1, <2>2, FS_Subset
<1>2. IsFiniteSet(Charts(files))
  <2>1. Charts(files) \subseteq Ids BY DEF Charts
  <2> QED BY <2>1, ValidatorAssumption, FS_Subset
<1> PICK n, m : n = Len(xml) /\ m = Len(f) OBVIOUS
<1>3. /\ n \in Nat /\ m \in Nat /\ n <= m
      /\ \A k \in 1..n : xml[k] \in XmlFiles
      /\ \A k \in 1..m : f[k] \in Charts(files)
  BY <1>1, <1>2, OrderShape DEF Complete
<1> SUFFICES ASSUME NEW k \in 1..n PROVE KeyFound(xml, f, k, beyond)
  BY DEF KeysValidate
<1>4. k <= m /\ k \in 1..m BY <1>3
<1>5. f[k] \in Charts(files) BY <1>3, <1>4
<1>6. xml[k] = "ChartList" \/ keys[xml[k]][f[k]] # 0
  BY <1>3, <1>5 DEF Complete, XmlFiles, Charts
<1> QED BY <1>4, <1>6 DEF KeyFound

LEMMA ValidateInv ==
  ASSUME Typing, Validate
  PROVE  ValInv'
<1> PICK xml \in Orders!SetToSeqs(XmlFiles), f \in Orders!SetToSeqs(Charts(files)),
         beyond \in BOOLEAN, found \in {TRUE, list # Empty}, assigned \in Assignments :
      LET system == SlotSystem(assigned)
          ok == /\ Installed(system) /\ found
                /\ ListAgrees /\ KeysValidate(xml, f, beyond)
      IN val' = [st |-> "on", left |-> IF ok THEN Charts(files) ELSE {},
                 error |-> ~ok, complete |-> Complete(system)]
  BY DEF Validate
<1> DEFINE system == SlotSystem(assigned)
           ok == /\ Installed(system) /\ found
                 /\ ListAgrees /\ KeysValidate(xml, f, beyond)
<1>1. /\ val'.st = "on" /\ val'.left = IF ok THEN Charts(files) ELSE {}
      /\ val'.error = ~ok /\ val'.complete = Complete(system)
      /\ val' = [st |-> "on", left |-> val'.left, error |-> val'.error,
                 complete |-> val'.complete]
  OBVIOUS
<1>2. /\ UNCHANGED <<files, list, keys, job, map, primary, plugged, aborted>>
      /\ job = NoJob
  BY DEF Validate, vars, chartVars, dir, keyVars
<1>3. ValTyped'
  <2>1. ok \in BOOLEAN /\ Complete(system) \in BOOLEAN BY DEF Complete, Installed, ListAgrees
  <2>2. val'.left \in SUBSET Ids BY <1>1 DEF Charts
  <2> HIDE DEF ok
  <2>3. val'.error \in BOOLEAN /\ val'.complete \in BOOLEAN BY <1>1, <2>1
  <2> QED BY <1>1, <2>2, <2>3 DEF ValTyped
<1>4. LoadedOpen'
  <2>1. ASSUME ok PROVE ListAgrees' /\ val'.left = Charts(files')
    BY <1>1, <1>2, <2>1 DEF ListAgrees, Charts
  <2> HIDE DEF ok
  <2> QED BY <1>1, <2>1 DEF LoadedOpen
<1>5. CompleteSoFar'
  <2> SUFFICES ASSUME Complete(system)
               PROVE  ~val'.error /\ job' = NoJob /\ ~aborted'
                      /\ \E s \in Systems : KeysOpen(s)' /\ Present(s)'
    BY <1>1 DEF CompleteSoFar
  <2>1. ok
    <3>1. KeysValidate(xml, f, beyond) BY CompleteListsValidate
    <3>2. ListAgrees BY DEF Complete, ListAgrees
    <3>3. Installed(system)
      <4> HIDE DEF system
      <4> QED BY DEF Complete
    <3>4. found BY DEF Complete
    <3> QED BY <3>1, <3>2, <3>3, <3>4
  <2>2. Present(system) BY DEF SlotSystem, Present
  <2>3. system \in Systems /\ KeysOpen(system) /\ ~aborted
    <3> HIDE DEF system
    <3> QED BY DEF Complete, KeyLists, KeysOpen
  <2>4. \E s \in Systems : KeysOpen(s) /\ Present(s) BY <2>2, <2>3
  <2>5. \E s \in Systems : KeysOpen(s)' /\ Present(s)'
    BY <1>2, <2>4 DEF KeysOpen, Charts, Present
  <2> HIDE DEF ok, system
  <2> QED BY <1>1, <1>2, <2>1, <2>3, <2>5
<1> QED BY <1>3, <1>4, <1>5 DEF ValInv

LEMMA TestLoadInv ==
  ASSUME Typing, KeyTypeOK, KeyTypeOK', MapsAgree, ValInv, NEW i \in Ids, TestLoad(i)
  PROVE  ValInv'
<1>1. CASE val' = Idle
  BY <1>1 DEF Idle, ValInv, ValTyped, LoadedOpen, CompleteSoFar
<1>2. CASE /\ RasterOpens(map, primary, i) => Opened(i)'
           /\ val' = [val EXCEPT !.left = @ \ {i}, !.error = Verdict(i)]
  <2>1. /\ OpenRaster(i) /\ val.st = "on" /\ i \in val.left
        /\ val \in [st : {"on"}, left : SUBSET Ids, error : BOOLEAN, complete : BOOLEAN]
    BY DEF TestLoad, ValInv, ValTyped, Idle
  <2>2. /\ val'.st = "on" /\ val'.left = val.left \ {i}
        /\ val'.error = Verdict(i) /\ val'.complete = val.complete
        /\ val' \in [st : {"on"}, left : SUBSET Ids, error : BOOLEAN, complete : BOOLEAN]
    <3>1. Verdict(i) \in BOOLEAN BY <2>1 DEF Verdict
    <3> QED BY <1>2, <2>1, <3>1
  <2>3. UNCHANGED <<files, list, keys, job, plugged, aborted>>
    BY <2>1 DEF OpenRaster, chartVars, dir
  <2>4. LoadedOpen'
    <3> SUFFICES ASSUME ~Verdict(i), NEW j \in Charts(files) \ val'.left
                 PROVE  ListAgrees' /\ HasKey(map, j)'
      <4>1. CASE Verdict(i) BY <2>2, <4>1 DEF LoadedOpen
      <4>2. CASE ListAgrees' /\ \A j \in Charts(files) \ val'.left : HasKey(map, j)'
        BY <2>3, <4>2 DEF LoadedOpen, Charts
      <4>3. CASE Charts(files) \ val'.left = {} /\ ~Verdict(i)
        BY <2>1, <2>2, <2>3, <4>3 DEF LoadedOpen, ListAgrees, Charts, Verdict, ValInv
      <4> QED BY <4>1, <4>2, <4>3
    <3>1. ListAgrees /\ \A c \in Charts(files) \ val.left : HasKey(map, c)
      BY <2>1 DEF Verdict, ValInv, LoadedOpen
    <3>2. ListAgrees' BY <2>3, <3>1 DEF ListAgrees, Charts
    <3>3. CASE j = i
      BY <3>2, <3>3 DEF Verdict, Opened, HasKey, KeyTypeOK
    <3>4. CASE j # i
      <4>1. j \in Ids /\ HasKey(map, j) BY <2>2, <3>1, <3>4 DEF Charts
      <4>2. HasKey(map, j)' BY <2>1, <4>1, OpeningKeeps DEF Charts
      <4> QED BY <3>2, <4>2
    <3> QED BY <3>3, <3>4
  <2>5. CompleteSoFar'
    <3> SUFFICES ASSUME val.complete
                 PROVE  ~Verdict(i) /\ job' = NoJob /\ ~aborted'
                        /\ \E s \in Systems : KeysOpen(s)' /\ Present(s)'
      BY <2>2 DEF CompleteSoFar
    <3>1. /\ ~val.error /\ job = NoJob /\ ~aborted
          /\ \E s \in Systems : KeysOpen(s) /\ Present(s)
      BY <2>1 DEF ValInv, CompleteSoFar
    <3> PICK s \in Systems : KeysOpen(s) /\ Present(s) BY <3>1
    <3>2. Opens(s, keys[s][i], i) BY <2>1 DEF OpenRaster, Opens, KeysOpen, Charts
    <3>3. Opened(i)' BY <1>2, <3>1, <3>2, RasterStep
    <3>4. KeysOpen(s)' /\ Present(s)' BY <2>3 DEF KeysOpen, Charts, Present
    <3> QED BY <2>3, <3>1, <3>3, <3>4 DEF Verdict
  <2> QED BY <2>2, <2>4, <2>5 DEF ValInv, ValTyped
<1> QED BY <1>1, <1>2 DEF TestLoad

LEMMA ElsewhereInv ==
  ASSUME Typing, ValInv, Elsewhere
  PROVE  ValInv'
<1>1. CASE val' = Idle
  BY <1>1 DEF Idle, ValInv, ValTyped, LoadedOpen, CompleteSoFar
<1>2. CASE ~Validating /\ Install /\ job' = NoJob /\ val' = val
  <2>1. Publish BY <1>2, InstallGoesOn
  <2>2. UNCHANGED <<files, list, keys, map, primary, plugged, aborted, val>>
    BY <1>2, <2>1 DEF Install, keyVars, Publish, dir
  <2>3. ValTyped' BY <2>2 DEF ValInv, ValTyped
  <2>4. LoadedOpen'
    BY <2>2 DEF ValInv, LoadedOpen, ListAgrees, Charts, HasKey, Opens, Present
  <2>5. CompleteSoFar' BY <1>2, <2>2 DEF Validating, ValInv, CompleteSoFar, KeysOpen, Charts, Present
  <2> QED BY <2>3, <2>4, <2>5 DEF ValInv
<1>3. ASSUME NEW j \in Ids, OpenRaster(j) \/ OpenVector(j), val' = val
      PROVE  ValInv'
  <2>1. UNCHANGED <<files, list, keys, job, plugged, aborted, val>>
    BY <1>3 DEF OpenRaster, OpenVector, chartVars, dir
  <2>2. ValTyped' BY <2>1 DEF ValInv, ValTyped
  <2>3. \A i \in Ids : HasKey(map, i) => HasKey(map, i)' BY <1>3, OpeningKeeps
  <2>4. LoadedOpen'
    BY <2>1, <2>3 DEF ValInv, LoadedOpen, ListAgrees, Charts
  <2>5. CompleteSoFar' BY <2>1 DEF ValInv, CompleteSoFar, KeysOpen, Charts, Present
  <2> QED BY <2>2, <2>4, <2>5 DEF ValInv
<1> QED BY <1>1, <1>2, <1>3 DEF Elsewhere

LEMMA ValidatorInvariant == VSpec => [](KeyTypeOK /\ ValInv)
<1>1. VInit => ValInv
  BY IdleInv DEF VInit
<1>2. Typing /\ KeyTypeOK /\ KeyTypeOK' /\ MapsAgree /\ ValInv /\ [VNext]_valVars
        => ValInv'
  <2> SUFFICES ASSUME Typing, KeyTypeOK, KeyTypeOK', MapsAgree, ValInv, [VNext]_valVars
               PROVE  ValInv'
    OBVIOUS
  <2>1. CASE Validate BY <2>1, ValidateInv
  <2>2. CASE \E i \in Ids : TestLoad(i) BY <2>2, TestLoadInv
  <2>3. CASE Elsewhere BY <2>3, ElsewhereInv
  <2>4. CASE UNCHANGED valVars
    <3>1. UNCHANGED <<files, list, keys, job, map, primary, plugged, aborted, val>>
      BY <2>4 DEF valVars, vars, chartVars, dir, keyVars
    <3> QED BY <3>1 DEF ValInv, ValTyped, LoadedOpen, CompleteSoFar, ListAgrees, Charts,
                        KeysOpen, HasKey, Opens, Present
  <2> QED BY <2>1, <2>2, <2>3, <2>4 DEF VNext
<1> QED BY KeysBelowValidator, <1>1, <1>2, PTL DEF VSpec

\* ValidIsUsable (startValidation, whose loads use the program's key maps): if
\* the validation ends without an error, the list names the charts on disk and
\* each of them opens, whatever was opened between the loads and since, also
\* after an installation that ended early; for any charts and editions.
THEOREM ValidMeansUsable == VSpec => []ValidIsUsable
<1>1. KeyTypeOK /\ ValInv => ValidIsUsable
  BY HasKeyOpens DEF ValInv, LoadedOpen, ValidIsUsable, Charts
<1> QED BY ValidatorInvariant, <1>1, PTL

\* CompleteValidates (startValidation): no error is found in a complete
\* installation for the system whose slot is looked at (342-386), with at least
\* as many charts as XML files, in whichever order files and lists are found,
\* for any charts and editions, and whatever slots are assigned.
THEOREM CompleteIsValid == VSpec => []CompleteValidates
<1>1. ValInv => CompleteValidates
  BY DEF ValInv, CompleteSoFar, CompleteValidates
<1> QED BY ValidatorInvariant, <1>1, PTL
==============================================================================
