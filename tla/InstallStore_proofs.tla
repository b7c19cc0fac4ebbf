------------------------- MODULE InstallStore_proofs -------------------------
(***************************************************************************)
(* Proofs about what a patient user's install chain (InstallChain) puts on *)
(* disk when every answer of the server has one task file: only files with *)
(* the published SHA256 are unpacked, whatever remains in the cache and    *)
(* whatever fails; and, if no disk fails and the program is not killed,    *)
(* the chain implements the abstract store of charts (ChartStore).         *)
(***************************************************************************)
EXTENDS InstallChain_proofs

-----------------------------------------------------------------------------
(* The inductive invariant.                                                *)

\* Handlers that rely on the cache.
CacheKinds == {"verify", "checked", "copying"}

\* The job of the target is past doDownload.
Later == \/ chain > 0
         \/ \E t \in Threads : Active(t)
         \/ \E f \in Running : f.kind \in LaterKinds

\* A flag of dlQueue belongs to an entry that was passed, and tells the truth.
Flags == \A k \in verified[target] :
           /\ k \in 1..QueueLen(target) /\ k <= next[target]
           /\ Good(QueueFile(target, k))

FrameProven(f) ==
  /\ f.kind = "copying" => f.good
  /\ f.kind = "checked" => \A g \in TaskFiles(f.chart, f.task) : Good(g)
  /\ f.kind = "verify" => /\ QueueLeft
                          /\ f.file = QueueFile(target, next[target] + 1)
                          /\ f.res => Good(f.file)

Short == \A c \in Charts : Len(tasks[c]) <= 1 /\ Len(queue[c]) <= 1

Proven == /\ \A f \in Running : FrameProven(f)
          /\ Later => tasks[target] = queue[target] /\ Flags
          /\ Short

JobState == <<cache, target, tasks, queue, verified, next>>

USE DEF netVars, jobVars

-----------------------------------------------------------------------------
(* Jobs, and the handlers that rely on the cache.                          *)

LEMMA KindsOfJobs == CacheKinds \subseteq LaterKinds /\ LaterKinds \subseteq JobKinds
BY DEF CacheKinds, LaterKinds, JobKinds

\* A handler that was pushed, or has taken the place of another, is the only new one.
LEMMA HandlerAdded ==
  ASSUME frames \in Seq(Frame), NEW f, Push(f) \/ (frames # <<>> /\ Swap(f))
  PROVE  Running' \subseteq Running \cup {f}
<1>1. ASSUME NEW s \in Seq(Frame), NEW d \in DOMAIN (<<f>> \o s)
      PROVE  (<<f>> \o s)[d] = f \/ \E e \in DOMAIN s : (<<f>> \o s)[d] = s[e]
  <2> DEFINE r == <<f>> \o s
  <2>1. /\ Len(r) = Len(s) + 1 /\ Len(s) \in Nat
        /\ r[1] = f /\ \A i \in 2..Len(r) : i - 1 \in 1..Len(s) /\ r[i] = s[i - 1]
        /\ DOMAIN r = 1..Len(r) /\ DOMAIN s = 1..Len(s)
    OBVIOUS
  <2>2. d = 1 \/ d \in 2..Len(r)
    BY <2>1
  <2> QED  BY <2>1, <2>2
<1>2. CASE Push(f)
  BY <1>1, <1>2 DEF Push, Running
<1>3. CASE frames # <<>> /\ Swap(f)
  <2>1. /\ Tail(frames) \in Seq(Frame)
        /\ \A i \in DOMAIN Tail(frames) : i + 1 \in DOMAIN frames /\ Tail(frames)[i] = frames[i + 1]
    BY <1>3
  <2>2. \A d \in DOMAIN frames' : frames'[d] = f \/ \E i \in DOMAIN Tail(frames) : frames'[d] = Tail(frames)[i]
    BY <1>1, <1>3, <2>1 DEF Swap
  <2> QED  BY <2>1, <2>2 DEF Running
<1> QED  BY <1>2, <1>3

\* A handler that relies on nothing.
LEMMA Harmless ==
  ASSUME NEW f, f.kind \notin CacheKinds
  PROVE  FrameProven(f)'
BY DEF FrameProven, CacheKinds

\* A step that leaves the data of the job alone, and neither begins one nor adds
\* a handler that relies on the cache.
LEMMA JobStays ==
  ASSUME Proven, UNCHANGED JobState, chain' > 0 => Later,
         \A t \in Threads : Active(t)' => Later,
         \A f \in Running' : \/ f \in Running
                             \/ f.kind \notin CacheKinds /\ (f.kind \in LaterKinds => Later)
  PROVE  Proven'
<1>1. \A f \in Running : FrameProven(f)'
  BY DEF Proven, FrameProven, JobState, Good, TaskFiles, KeyFile, ZipFile, QueueLeft,
         QueueLen, QueueFile
<1>2. (\A f \in Running : FrameProven(f))'
  BY <1>1, Harmless
<1>3. Later' => Later
  BY DEF Later
<1>4. Flags' = Flags
  BY DEF JobState, Flags, Good, QueueLen, QueueFile, KeyFile, ZipFile
<1>5. Later' => tasks'[target'] = queue'[target'] /\ Flags'
  BY <1>3, <1>4 DEF Proven, JobState
<1>6. Short'
  BY DEF Proven, JobState, Short
<1> QED  BY <1>2, <1>5, <1>6 DEF Proven

\* A step of a job past doDownload that adds a handler which may rely on the cache.
LEMMA JobGains ==
  ASSUME Proven, Later, UNCHANGED <<JobState, chain, xfer>>,
         NEW f, FrameProven(f)', Running' \subseteq Running \cup {f}
  PROVE  Proven'
<1>1. \A g \in Running : FrameProven(g)'
  BY DEF Proven, FrameProven, JobState, Good, TaskFiles, KeyFile, ZipFile, QueueLeft,
         QueueLen, QueueFile
<1>2. Flags' = Flags
  BY DEF JobState, Flags, Good, QueueLen, QueueFile, KeyFile, ZipFile
<1>3. tasks'[target'] = queue'[target'] /\ Flags' /\ Short'
  BY <1>2 DEF Proven, JobState, Short
<1> QED  BY <1>1, <1>3 DEF Proven

\* A step of the server, or none.
LEMMA NothingMoves ==
  ASSUME Proven, UNCHANGED <<JobState, frames, chain, xfer>>
  PROVE  Proven'
<1>1. Running' = Running
  BY DEF Running
<1>2. (chain' > 0 => Later) /\ \A t \in Threads : Active(t)' => Later
  BY DEF Later, Active
<1>3. UNCHANGED JobState
  OBVIOUS
<1> QED  BY <1>1, <1>2, <1>3, JobStays

\* A step after which no job is past doDownload.
LEMMA NothingLater ==
  ASSUME Short', ~Later'
  PROVE  Proven'
<1>1. \A f \in Running' : f.kind \notin LaterKinds
  BY DEF Later
<1>2. (\A f \in Running : FrameProven(f))'
  BY <1>1, KindsOfJobs, Harmless
<1> QED  BY <1>2 DEF Proven

\* A restart forgets every job.
LEMMA RestartProven ==
  ASSUME Restart
  PROVE  Proven'
<1>1. Short'
  BY DEF Restart, Short
<1>2. frames' = <<>> /\ chain' = 0 /\ \A t \in Threads : ~Active(t)'
  BY DEF Restart, Active, Idle
<1>3. ~Later'
  BY <1>2 DEF Later, Running
<1> QED  BY <1>1, <1>3, NothingLater

\* The handler that runs is the only job.
LEMMA TopJob ==
  ASSUME IInv, Serial, frames # <<>>
  PROVE  /\ frames \in Seq(Frame) /\ Head(frames) \in Frame /\ Head(frames) \in Running
         /\ chain = 0 /\ (\A t \in Threads : ~Active(t))
         /\ \A f \in Running : f = Head(frames)
         /\ Pop => \A f \in Running' : f.kind \notin JobKinds
<1>1. frames \in Seq(Frame)
  BY DEF IInv, TypeOK, TypeFrames
<1>2. Head(frames) \in Frame /\ Head(frames) \in Running
  BY <1>1, HeadRuns
<1> QED  BY <1>1, <1>2, OneHandler DEF NoTransfer

\* While an event is pending or a transfer is under way, no handler runs.
LEMMA NoJobRuns ==
  ASSUME IInv, Serial, chain > 0 \/ \E t \in Threads : Active(t)
  PROVE  \A f \in Running : f.kind \notin JobKinds
<1>1. chain \in Nat
  BY DEF IInv, TypeOK, TypeQueue
<1>2. frames = <<>>
  BY <1>1 DEF Serial, NoTransfer
<1> QED  BY <1>2 DEF Running

\* While OnButtonInstall prepares a job, no job is past doDownload.
LEMMA OnlyStarting ==
  ASSUME IInv, Serial, frames # <<>>, Head(frames).kind \in {"prepare", "start"}
  PROVE  ~Later
<1>1. Head(frames).kind \notin LaterKinds
  BY DEF LaterKinds
<1> QED  BY <1>1, TopJob DEF Later

\* The one task of an answer brings what was requested: as a base, or as the edition
\* after the one the program says it has.
LEMMA OneTask ==
  ASSUME MaxTasks = 1, NEW act, NEW at \in Int, NEW to \in Int,
         NEW answer \in Answers(act, at, to)
  PROVE  /\ Len(answer) = 1 /\ answer[1].ed = to
         /\ ~answer[1].base => act = "UPDATE" /\ to = at + 1
<1> DEFINE n == to - at
<1>1. CASE answer = <<[ed |-> to, base |-> TRUE]>>
  BY <1>1
<1>2. CASE act = "UPDATE" /\ n \in 1..MaxTasks
           /\ answer = [k \in 1..n |-> [ed |-> at + k, base |-> FALSE]]
  <2>1. n = 1
    BY <1>2
  <2>2. answer = [k \in 1..1 |-> [ed |-> at + k, base |-> FALSE]]
    BY <1>2, <2>1
  <2>3. Len(answer) = 1 /\ answer[1] = [ed |-> at + 1, base |-> FALSE]
    BY <2>2
  <2> QED  BY <1>2, <2>1, <2>3
<1> QED  BY <1>1, <1>2 DEF Answers

\* What PrepareOK requests are editions.
LEMMA Requested ==
  ASSUME IInv, PrepareOK
  PROVE  /\ selected \in Charts /\ Head(frames).chart \in Charts
         /\ from'[selected] \in Int /\ requested'[selected] \in Int
<1>1. Head(frames) \in Frame /\ Head(frames).kind = "prepare"
  BY HeadKnown DEF PrepareOK, In, IInv
<1>2. Head(frames).chart \in Charts
  BY <1>1 DEF Frame, ClickFrame, SaveFrame, DialogFrame, VerifyFrame, LoopFrame, TaskFrame, ClickKinds
<1>3. from' \in [Charts -> Edition] /\ requested' \in [Charts -> Edition]
  BY <1>2 DEF PrepareOK, Computed, IInv, TypeOK, TypeJob, TypeList, TypeSlot
<1>4. selected \in Charts
  BY DEF PrepareOK, IInv, TypeOK, TypePanel
<1>5. Edition \subseteq Int
  BY InstallAssumption DEF Edition
<1> QED  BY <1>2, <1>3, <1>4, <1>5

\* An index into a list of at most one.
LEMMA OnlyOne ==
  ASSUME NEW i \in Nat \ {0}, NEW n \in Nat, i <= n, n <= 1
  PROVE  i = 1 /\ n = 1
OBVIOUS

\* The entries of the queue of one task: its key file and its zip file.
LEMMA TwoEntries ==
  ASSUME IInv, Short, target \in Charts, QueueLen(target) # 0
  PROVE  /\ QueueLen(target) = 2 /\ queue[target][1] \in Task
         /\ QueueFile(target, 1) = KeyFile(target, queue[target][1])
         /\ QueueFile(target, 2) = ZipFile(target, queue[target][1])
         /\ QueueFile(target, 1) \in File /\ QueueFile(target, 2) \in File
         /\ QueueFile(target, 1) # QueueFile(target, 2)
<1>1. queue[target] \in Seq(Task) /\ Len(queue[target]) \in Nat
  BY DEF IInv, TypeOK, TypeJob
<1>2. Len(queue[target]) <= 1 /\ QueueLen(target) = 2 * Len(queue[target])
  BY DEF Short, QueueLen
<1>3. Len(queue[target]) = 1 /\ QueueLen(target) = 2
  <2> DEFINE n == Len(queue[target])
  <2>1. n \in Nat /\ n <= 1 /\ 2 * n # 0
    BY <1>1, <1>2
  <2> HIDE DEF n
  <2>2. n = 1
    BY <2>1
  <2> QED  BY <1>2, <2>2 DEF n
<1>4. queue[target][1] \in Task
  BY <1>1, <1>3, ElementOfSeq
<1>5. 1 % 2 = 1 /\ 2 % 2 # 1 /\ (1 + 1) \div 2 = 1 /\ 2 \div 2 = 1
  OBVIOUS
<1>6. /\ QueueFile(target, 1) = KeyFile(target, queue[target][1])
      /\ QueueFile(target, 2) = ZipFile(target, queue[target][1])
  BY <1>5 DEF QueueFile
<1>7. /\ QueueFile(target, 1) \in File /\ QueueFile(target, 2) \in File
      /\ QueueFile(target, 1) # QueueFile(target, 2)
  BY <1>4, <1>6 DEF KeyFile, ZipFile, File, Part
<1> QED  BY <1>3, <1>4, <1>6, <1>7

\* The flagged entries of that queue.
LEMMA FlaggedEntry ==
  ASSUME IInv, Short, Flags, target \in Charts, NEW k \in verified[target]
  PROVE  /\ k \in {1, 2} /\ QueueLen(target) # 0
         /\ QueueFile(target, k) \in File
<1>1. k \in 1..QueueLen(target) /\ Len(queue[target]) \in Nat
  BY DEF Flags, IInv, TypeOK, TypeJob
<1>2. QueueLen(target) \in Nat
  BY <1>1 DEF QueueLen
<1>3. QueueLen(target) = 2
  BY <1>1, <1>2, TwoEntries
<1> QED  BY <1>1, <1>3, TwoEntries

\* Past doDownload there is a target chart.
LEMMA LaterTarget ==
  ASSUME IInv, Later
  PROVE  target \in Charts
<1>1. target # NoChart
  BY DEF IInv, Later, LaterKinds, ClickKinds, Targeted, TypeOK, TypeQueue, Active
<1> QED  BY <1>1 DEF IInv, TypeOK, TypeJob

\* Starting a transfer spoils no flagged file.
LEMMA TransferKeepsFlags ==
  ASSUME IInv, Short, Flags, target \in Charts, QueueLeft, NEW t \in Threads,
         StartTransfer(t), verified'[target] \subseteq verified[target],
         UNCHANGED <<target, queue>>
  PROVE  Flags'
<1>1. next[target] \in Nat /\ QueueLen(target) \in Nat
  BY DEF IInv, TypeOK, TypeQueue, TypeJob, QueueLen
<1>2. QueueLen(target) = 2 /\ QueueFile(target, 1) # QueueFile(target, 2)
  BY <1>1, TwoEntries DEF QueueLeft
<1>3. next'[target] = next[target] + 1
  BY DEF StartTransfer, IInv, TypeOK, TypeQueue
<1> SUFFICES ASSUME NEW k \in verified'[target]
             PROVE  /\ k \in 1..QueueLen(target)' /\ k <= next'[target]
                    /\ Good(QueueFile(target, k))'
  BY DEF Flags
<1>4. /\ k \in 1..QueueLen(target) /\ k <= next[target]
      /\ Good(QueueFile(target, k)) /\ QueueFile(target, k) \in File
  BY FlaggedEntry DEF Flags
<1>5. k = 1 /\ next[target] = 1
  BY <1>1, <1>2, <1>4 DEF QueueLeft
<1>6. QueueFile(target, k)' = QueueFile(target, k) /\ QueueLen(target)' = QueueLen(target)
  BY DEF QueueFile, KeyFile, ZipFile, QueueLen
<1>7. cache' = [cache EXCEPT ![QueueFile(target, 2)] = "bad"]
  BY <1>5 DEF StartTransfer
<1>8. cache'[QueueFile(target, k)] = cache[QueueFile(target, k)]
  BY <1>2, <1>4, <1>5, <1>7 DEF IInv, TypeOK, TypeCache
<1> QED  BY <1>1, <1>3, <1>4, <1>6, <1>8 DEF Good

\* What is flagged stays good when the end of a transfer closes the stream.
LEMMA CloseKeepsFlags ==
  ASSUME IInv, Short, Flags, target \in Charts, NEW t \in Threads, CloseStream(t),
         UNCHANGED <<target, queue, verified, next>>
  PROVE  Flags'
<1>1. ASSUME NEW g \in File, Good(g) PROVE cache'[g] = "good"
  BY <1>1 DEF CloseStream, Closed, Good, IInv, TypeOK, TypeCache
<1> SUFFICES ASSUME NEW k \in verified[target]
             PROVE  /\ k \in 1..QueueLen(target)' /\ k <= next[target]
                    /\ Good(QueueFile(target, k))'
  BY DEF Flags
<1>2. QueueFile(target, k)' = QueueFile(target, k) /\ QueueLen(target)' = QueueLen(target)
  BY DEF QueueFile, KeyFile, ZipFile, QueueLen
<1>3. QueueFile(target, k) \in File
  BY FlaggedEntry
<1> QED  BY <1>1, <1>2, <1>3 DEF Flags, Good

-----------------------------------------------------------------------------
(* Every step of a patient user's program.                                 *)

\* A click of a patient user.
LEMMA UserProven ==
  ASSUME IInv, Serial, Proven, User, ~EagerUser
  PROVE  Proven'
<1>0. frames \in Seq(Frame)
  BY DEF IInv, TypeOK, TypeFrames
<1>1. CASE ClickUpdate
  <2>1. frames' = <<>> /\ chain' = 0 /\ \A t \in Threads : ~Active(t)'
    BY <1>1 DEF ClickUpdate, Patience, Quiet, Active
  <2>2. ~Later'
    BY <2>1 DEF Later, Running
  <2>3. Short'
    BY <1>1 DEF ClickUpdate, Proven, Short
  <2> QED  BY <2>2, <2>3, NothingLater
<1>2. CASE ClickUpdateFails
  <2>1. UNCHANGED JobState /\ (chain' > 0 => Later)
    BY <1>2 DEF ClickUpdateFails, JobState, Later
  <2>2. \A u \in Threads : Active(u)' => Later
    BY <1>2 DEF ClickUpdateFails, Active, Later
  <2>3. Running' = Running
    BY <1>2 DEF ClickUpdateFails, Running
  <2> QED  BY <2>1, <2>2, <2>3, JobStays
<1>3. CASE ClickCancel
  <2>1. UNCHANGED JobState /\ (chain' > 0 => Later)
    BY <1>3 DEF ClickCancel, JobState, Later
  <2>2. \A u \in Threads : Active(u)' => Later
    BY <1>3 DEF ClickCancel, Active, Later, IInv, TypeOK, TypeNet, Transfer
  <2>3. Running' = Running
    BY <1>3 DEF ClickCancel, Running
  <2> QED  BY <2>1, <2>2, <2>3, JobStays
<1>4. ASSUME NEW c \in Charts, ClickSelect(c) PROVE Proven'
  <2>1. UNCHANGED JobState /\ (chain' > 0 => Later)
    BY <1>4 DEF ClickSelect, JobState, Later
  <2>2. \A u \in Threads : Active(u)' => Later
    BY <1>4 DEF ClickSelect, Active, Later
  <2>3. Running' = Running
    BY <1>4 DEF ClickSelect, Running
  <2> QED  BY <2>1, <2>2, <2>3, JobStays
<1>5. ASSUME NEW c \in Charts, ClickInstall(c) PROVE Proven'
  <2>1. UNCHANGED JobState /\ (chain' > 0 => Later)
    BY <1>5 DEF ClickInstall, JobState, Later
  <2>2. \A u \in Threads : Active(u)' => Later
    BY <1>5 DEF ClickInstall, Active, Later
  <2>3. PICK f : Push(f) /\ f.kind \in {"named"}
    BY <1>5 DEF ClickInstall
  <2>5. f.kind \notin CacheKinds /\ (f.kind \in LaterKinds => Later)
    BY <1>5, <2>3 DEF CacheKinds, LaterKinds
  <2>6. Running' \subseteq Running \cup {f}
    BY <1>0, <2>3, HandlerAdded
  <2> QED  BY <2>1, <2>2, <2>5, <2>6, JobStays
<1>6. CASE ClickInstallNothing
  BY <1>6, RestartProven DEF ClickInstallNothing
<1>7. ASSUME NEW c \in Charts, ClickInstallRefused(c) PROVE Proven'
  <2>1. UNCHANGED JobState /\ (chain' > 0 => Later)
    BY <1>7 DEF ClickInstallRefused, JobState, Later
  <2>2. \A u \in Threads : Active(u)' => Later
    BY <1>7 DEF ClickInstallRefused, Active, Later
  <2>3. Running' = Running
    BY <1>7 DEF ClickInstallRefused, Running
  <2> QED  BY <2>1, <2>2, <2>3, JobStays
<1> QED  BY <1>1, <1>2, <1>3, <1>4, <1>5, <1>6, <1>7 DEF User

\* A step of OnButtonInstall.
LEMMA InstallingProven ==
  ASSUME IInv, Serial, Proven, Installing, MaxTasks = 1
  PROVE  Proven'
<1>0. frames \in Seq(Frame)
  BY DEF IInv, TypeOK, TypeFrames
<1>1. CASE DisableInstall
  <2>1. UNCHANGED JobState /\ (chain' > 0 => Later)
    BY <1>1 DEF DisableInstall, JobState, Later
  <2>2. \A u \in Threads : Active(u)' => Later
    BY <1>1 DEF DisableInstall, Active, Later
  <2>3. PICK f : Swap(f) /\ f.kind \in {"prepare"}
    BY <1>1 DEF DisableInstall
  <2>4. frames # <<>> /\ Head(frames) \in Running /\ Head(frames).kind = "asked"
    BY <1>1, HeadKnown DEF DisableInstall, In, IInv
  <2>5. f.kind \notin CacheKinds /\ (f.kind \in LaterKinds => Later)
    BY <2>4, <1>1, <2>3 DEF CacheKinds, LaterKinds
  <2>6. Running' \subseteq Running \cup {f}
    BY <1>0, <2>3, <2>4, HandlerAdded
  <2> QED  BY <2>1, <2>2, <2>5, <2>6, JobStays
<1>2. CASE InstallFails
  <2>1. UNCHANGED JobState /\ (chain' > 0 => Later)
    BY <1>2 DEF InstallFails, JobState, Later
  <2>2. \A u \in Threads : Active(u)' => Later
    BY <1>2 DEF InstallFails, Active, Later
  <2>3. Running' \subseteq Running
    BY <1>0, <1>2, PopRuns DEF InstallFails, In
  <2> QED  BY <2>1, <2>2, <2>3, JobStays
<1>3. CASE InstallLeaves
  <2>1. UNCHANGED JobState /\ (chain' > 0 => Later)
    BY <1>3 DEF InstallLeaves, JobState, Later
  <2>2. \A u \in Threads : Active(u)' => Later
    BY <1>3 DEF InstallLeaves, Active, Later
  <2>3. Running' \subseteq Running
    BY <1>0, <1>3, PopRuns DEF InstallLeaves, In
  <2> QED  BY <2>1, <2>2, <2>3, JobStays
<1>4. CASE PrepareFails
  <2>1. frames # <<>> /\ Head(frames).kind = "prepare" /\ Head(frames) \in Frame
    BY <1>4, HeadKnown DEF PrepareFails, In, IInv
  <2>2. ~Later
    BY <2>1, OnlyStarting
  <2>3. Running' \subseteq Running
    BY <1>0, <2>1, <1>4, PopRuns DEF PrepareFails
  <2>4. ~Later'
    BY <1>4, <2>2, <2>3 DEF PrepareFails, Later, Active
  <2>5. Head(frames).chart \in Charts
    BY <2>1 DEF Frame, ClickFrame, SaveFrame, DialogFrame, VerifyFrame, LoopFrame, TaskFrame, ClickKinds
  <2>6. /\ tasks \in [Charts -> Seq(Task)] /\ UNCHANGED queue
        /\ tasks' = tasks \/ tasks' = [tasks EXCEPT ![Head(frames).chart] = <<>>]
    BY <1>4 DEF PrepareFails, IInv, TypeOK, TypeJob
  <2>7. Short'
    BY <2>5, <2>6 DEF Proven, Short
  <2> QED  BY <2>4, <2>7, NothingLater
<1>5. CASE PrepareOK
  <2>1. frames # <<>> /\ Head(frames).kind = "prepare" /\ Head(frames) \in Frame
    BY <1>5, HeadKnown DEF PrepareOK, In, IInv
  <2>2. ~Later
    BY <2>1, OnlyStarting
  <2>3. PICK f : Swap(f) /\ f.kind = "start"
    BY <1>5 DEF PrepareOK
  <2>4. Running' \subseteq Running \cup {f}
    BY <1>0, <2>1, <2>3, HandlerAdded
  <2>5. ~Later'
    BY <1>5, <2>2, <2>3, <2>4 DEF PrepareOK, Later, LaterKinds, Active
  <2>6. /\ selected \in Charts /\ Head(frames).chart \in Charts
        /\ from'[selected] \in Int /\ requested'[selected] \in Int
    BY <1>5, Requested
  <2>7. PICK answer \in Answers(action'[selected], from'[selected], requested'[selected]) :
           tasks' = [tasks EXCEPT ![Head(frames).chart] = answer]
    BY <1>5 DEF PrepareOK
  <2>8. Len(answer) = 1
    BY <2>6, <2>7, OneTask
  <2>t. tasks \in [Charts -> Seq(Task)] /\ UNCHANGED queue
    BY <1>5 DEF PrepareOK, IInv, TypeOK, TypeJob
  <2>u. \A c \in Charts : tasks'[c] = tasks[c] \/ Len(tasks'[c]) = 1
    BY <2>6, <2>7, <2>8, <2>t
  <2>9. ASSUME NEW c \in Charts PROVE Len(tasks'[c]) <= 1 /\ Len(queue'[c]) <= 1
    <3>1. Len(tasks[c]) <= 1 /\ Len(queue[c]) <= 1
      BY DEF Proven, Short
    <3>2. CASE tasks'[c] = tasks[c]
      BY <2>t, <3>1, <3>2
    <3>3. CASE Len(tasks'[c]) = 1
      BY <2>t, <3>1, <3>3
    <3> QED  BY <2>u, <3>2, <3>3
  <2>10. Short'
    BY <2>9 DEF Short
  <2> QED  BY <2>5, <2>10, NothingLater
<1>6. CASE StartDownload
  <2>1. frames # <<>> /\ Head(frames).kind = "start" /\ Head(frames) \in Frame
    BY <1>6, HeadKnown DEF StartDownload, In, IInv
  <2>2. ~Later
    BY <2>1, OnlyStarting
  <2>3. Running' \subseteq Running
    BY <1>0, <2>1, <1>6, PopRuns DEF StartDownload
  <2>4. (\A f \in Running : FrameProven(f))'
    BY <2>2, <2>3, KindsOfJobs, Harmless DEF Later
  <2>5. Head(frames).chart \in Charts
    BY <2>1 DEF Frame, ClickFrame, SaveFrame, DialogFrame, VerifyFrame, LoopFrame, TaskFrame, ClickKinds
  <2>6. target' = Head(frames).chart /\ verified'[target'] = {} /\ tasks'[target'] = queue'[target']
    BY <1>6, <2>5 DEF StartDownload, IInv, TypeOK, TypeQueue, TypeJob
  <2>7. Short'
    BY <1>6, <2>5 DEF StartDownload, Proven, Short, IInv, TypeOK, TypeJob
  <2> QED  BY <2>4, <2>6, <2>7 DEF Proven, Flags
<1>7. CASE PrepareNothing
  BY <1>7, RestartProven DEF PrepareNothing
<1>8. CASE NameRefreshed
  <2>1. UNCHANGED JobState /\ (chain' > 0 => Later)
    BY <1>8 DEF NameRefreshed, JobState, Later
  <2>2. \A u \in Threads : Active(u)' => Later
    BY <1>8 DEF NameRefreshed, Active, Later
  <2>3. PICK f : Swap(f) /\ f.kind \in {"asked"}
    BY <1>8 DEF NameRefreshed
  <2>4. frames # <<>> /\ Head(frames) \in Running /\ Head(frames).kind = "named"
    BY <1>8, HeadKnown DEF NameRefreshed, In, IInv
  <2>5. f.kind \notin CacheKinds /\ (f.kind \in LaterKinds => Later)
    BY <2>4, <1>8, <2>3 DEF CacheKinds, LaterKinds
  <2>6. Running' \subseteq Running \cup {f}
    BY <1>0, <2>3, <2>4, HandlerAdded
  <2> QED  BY <2>1, <2>2, <2>5, <2>6, JobStays
<1> QED  BY <1>1, <1>2, <1>3, <1>4, <1>5, <1>6, <1>7, <1>8 DEF Installing

\* A step of OnButtonInstallChain.
LEMMA ChainingProven ==
  ASSUME IInv, Serial, Proven, Chaining
  PROVE  Proven'
<1>0. frames \in Seq(Frame)
  BY DEF IInv, TypeOK, TypeFrames
<1>1. CASE ChainAborted
  <2>1. UNCHANGED JobState /\ (chain' > 0 => Later)
    BY <1>1 DEF ChainAborted, JobState, Later, Dispatch, IInv, TypeOK, TypeQueue
  <2>2. \A u \in Threads : Active(u)' => Later
    BY <1>1 DEF ChainAborted, Active, Later
  <2>3. PICK f : Push(f) /\ f.kind \in {"aborted"}
    BY <1>1 DEF ChainAborted
  <2>5. f.kind \notin CacheKinds /\ (f.kind \in LaterKinds => Later)
    BY <1>1, <2>3 DEF CacheKinds, LaterKinds
  <2>6. Running' \subseteq Running \cup {f}
    BY <1>0, <2>3, HandlerAdded
  <2> QED  BY <2>1, <2>2, <2>5, <2>6, JobStays
<1>2. CASE ChainVerify
  <2>1. chain > 0 /\ Later /\ \A f \in Running : f.kind \notin JobKinds
    BY <1>2, NoJobRuns DEF ChainVerify, Dispatch, Later
  <2> DEFINE q == QueueFile(target, next[target] + 1)
  <2>2. /\ Push([kind |-> "verify", file |-> q, res |-> Good(q), yield |-> "all"])
        /\ QueueLeft /\ UNCHANGED JobState
    BY <1>2 DEF ChainVerify, JobState
  <2> PICK f : f = [kind |-> "verify", file |-> q, res |-> Good(q), yield |-> "all"]
    OBVIOUS
  <2>3. Running' \subseteq Running \cup {f}
    BY <1>0, <2>2, HandlerAdded
  <2>4. FrameProven(f)'
    <3>1. f.kind = "verify" /\ f.file = q /\ f.res = Good(q)
      OBVIOUS
    <3>2. QueueLeft' /\ QueueFile(target, next[target] + 1)' = q /\ Good(q)' = Good(q)
      BY <2>2 DEF JobState, QueueLeft, QueueLen, QueueFile, KeyFile, ZipFile, Good
    <3> QED  BY <3>1, <3>2 DEF FrameProven, Good
  <2>5. (\A g \in Running : FrameProven(g))'
    BY <2>1, <2>3, <2>4, KindsOfJobs, Harmless
  <2>6. tasks'[target'] = queue'[target'] /\ Flags' /\ Short'
    BY <2>1, <2>2 DEF Proven, JobState, Flags, Good, QueueLen, QueueFile, KeyFile, ZipFile, Short
  <2> QED  BY <2>5, <2>6 DEF Proven
<1>3. CASE ChainNoDirectory
  <2>1. UNCHANGED JobState /\ (chain' > 0 => Later)
    BY <1>3 DEF ChainNoDirectory, JobState, Later, Dispatch, IInv, TypeOK, TypeQueue
  <2>2. \A u \in Threads : Active(u)' => Later
    BY <1>3 DEF ChainNoDirectory, Active, Later
  <2>3. Running' = Running
    BY <1>3 DEF ChainNoDirectory, Running
  <2> QED  BY <2>1, <2>2, <2>3, JobStays
<1>4. CASE ChainInstall
  <2>1. UNCHANGED JobState /\ (chain' > 0 => Later)
    BY <1>4 DEF ChainInstall, JobState, Later, Dispatch, IInv, TypeOK, TypeQueue
  <2>2. \A u \in Threads : Active(u)' => Later
    BY <1>4 DEF ChainInstall, Active, Later
  <2>3. PICK f : Push(f) /\ f.kind \in {"confirm", "loop"}
    BY <1>4 DEF ChainInstall
  <2>5. f.kind \notin CacheKinds /\ (f.kind \in LaterKinds => Later)
    BY <1>4, <2>3 DEF CacheKinds, LaterKinds, Later, ChainInstall, Dispatch
  <2>6. Running' \subseteq Running \cup {f}
    BY <1>0, <2>3, HandlerAdded
  <2> QED  BY <2>1, <2>2, <2>5, <2>6, JobStays
<1>5. CASE ChainNothing
  <2>1. UNCHANGED JobState /\ (chain' > 0 => Later)
    BY <1>5 DEF ChainNothing, JobState, Later, Dispatch, IInv, TypeOK, TypeQueue
  <2>2. \A u \in Threads : Active(u)' => Later
    BY <1>5 DEF ChainNothing, Active, Later
  <2>3. Running' = Running
    BY <1>5 DEF ChainNothing, Running
  <2> QED  BY <2>1, <2>2, <2>3, JobStays
<1>6. CASE VerifyPasses
  <2> DEFINE h == Head(frames)
             k == next[target] + 1
  <2>1. frames # <<>> /\ h \in Running /\ h.kind = "verify" /\ (h.res \/ Good(h.file))
    BY <1>6, HeadKnown DEF VerifyPasses, In, IInv
  <2>2. Later /\ target \in Charts
    BY <2>1, LaterTarget DEF Later, LaterKinds
  <2>3. QueueLeft /\ Good(QueueFile(target, k))
    BY <2>1 DEF Proven, FrameProven
  <2>4. \A f \in Running' : f.kind \notin JobKinds
    BY <2>1, <1>6, TopJob DEF VerifyPasses
  <2>5. (\A f \in Running : FrameProven(f))'
    BY <2>4, KindsOfJobs, Harmless
  <2>6. /\ next[target] \in Nat /\ QueueLen(target) \in Nat
        /\ verified'[target] = verified[target] \cup {k} /\ next'[target] = k
    BY <1>6, <2>2 DEF VerifyPasses, IInv, TypeOK, TypeQueue, TypeJob, QueueLen
  <2>7. UNCHANGED <<cache, target, tasks, queue>>
    BY <1>6 DEF VerifyPasses
  <2>8. \A j : Good(QueueFile(target, j))' = Good(QueueFile(target, j))
    BY <2>7 DEF Good, QueueFile, KeyFile, ZipFile
  <2>9. QueueLen(target)' = QueueLen(target) /\ k \in 1..QueueLen(target)
    BY <2>3, <2>6, <2>7 DEF QueueLen, QueueLeft
  <2>10. Flags'
    <3> SUFFICES ASSUME NEW j \in verified'[target]
                 PROVE  /\ j \in 1..QueueLen(target) /\ j <= k
                        /\ Good(QueueFile(target, j))
      BY <2>6, <2>7, <2>8, <2>9 DEF Flags
    <3>1. CASE j = k
      BY <2>3, <2>6, <2>9, <3>1
    <3>2. CASE j \in verified[target]
      BY <2>2, <2>6, <3>2 DEF Proven, Flags
    <3> QED  BY <2>6, <3>1, <3>2
  <2>11. tasks'[target'] = queue'[target'] /\ Short'
    BY <2>2, <2>7 DEF Proven, Short
  <2> QED  BY <2>5, <2>10, <2>11 DEF Proven
<1>7. ASSUME NEW t \in Threads, ChainDownload(t) PROVE Proven'
  <2>1. chain > 0 /\ Later /\ target \in Charts
    BY <1>7, LaterTarget DEF ChainDownload, Dispatch, Later
  <2>2. \A f \in Running' : f.kind \notin JobKinds
    BY <1>7, <2>1, NoJobRuns DEF ChainDownload, Running
  <2>3. (\A f \in Running : FrameProven(f))'
    BY <2>2, KindsOfJobs, Harmless
  <2>4. /\ QueueLeft /\ StartTransfer(t) /\ UNCHANGED <<target, tasks, queue>>
        /\ verified'[target] \subseteq verified[target]
    BY <1>7, <2>1 DEF ChainDownload, IInv, TypeOK, TypeQueue
  <2>5. Flags'
    BY <2>1, <2>4, TransferKeepsFlags DEF Proven
  <2>6. tasks'[target'] = queue'[target'] /\ Short'
    BY <2>1, <2>4 DEF Proven, Short
  <2> QED  BY <2>3, <2>5, <2>6 DEF Proven
<1>8. ASSUME NEW t \in Threads, VerifyFails(t) PROVE Proven'
  <2>0. frames # <<>> /\ Head(frames) \in Running /\ Head(frames).kind = "verify"
    BY <1>8, HeadKnown DEF VerifyFails, In, IInv
  <2>1. Later /\ target \in Charts
    BY <2>0, LaterTarget DEF Later, LaterKinds
  <2>2. \A f \in Running' : f.kind \notin JobKinds
    BY <2>0, <1>8, TopJob DEF VerifyFails
  <2>3. (\A f \in Running : FrameProven(f))'
    BY <2>2, KindsOfJobs, Harmless
  <2>4. /\ QueueLeft /\ StartTransfer(t) /\ UNCHANGED <<target, tasks, queue>>
        /\ verified'[target] \subseteq verified[target]
    BY <1>8, <2>1 DEF VerifyFails, IInv, TypeOK, TypeQueue
  <2>5. Flags'
    BY <2>1, <2>4, TransferKeepsFlags DEF Proven
  <2>6. tasks'[target'] = queue'[target'] /\ Short'
    BY <2>1, <2>4 DEF Proven, Short
  <2> QED  BY <2>3, <2>5, <2>6 DEF Proven
<1>9. CASE VerifyPastEnd
  BY <1>9, RestartProven DEF VerifyPastEnd
<1> QED  BY <1>1, <1>2, <1>3, <1>4, <1>5, <1>6, <1>7, <1>8, <1>9 DEF Chaining

\* A step of a curl thread, or of the handler of its events.
LEMMA TransferringProven ==
  ASSUME IInv, Serial, Proven, Transferring
  PROVE  Proven'
<1>0. frames \in Seq(Frame)
  BY DEF IInv, TypeOK, TypeFrames
<1>1. ASSUME NEW t \in Threads, TransferEnds(t) PROVE Proven'
  <2>1. UNCHANGED JobState /\ (chain' > 0 => Later)
    BY <1>1 DEF TransferEnds, JobState, Later
  <2>2. \A u \in Threads : Active(u)' => Later
    BY <1>1 DEF TransferEnds, Active, Later, IInv, TypeOK, TypeNet, Transfer
  <2>3. Running' = Running
    BY <1>1 DEF TransferEnds, Running
  <2> QED  BY <2>1, <2>2, <2>3, JobStays
<1>2. ASSUME NEW t \in Threads, ThreadDies(t) PROVE Proven'
  <2>1. UNCHANGED JobState /\ (chain' > 0 => Later)
    BY <1>2 DEF ThreadDies, JobState, Later
  <2>2. \A u \in Threads : Active(u)' => Later
    BY <1>2 DEF ThreadDies, Active, Later, IInv, TypeOK, TypeNet, Transfer
  <2>3. Running' = Running
    BY <1>2 DEF ThreadDies, Running
  <2> QED  BY <2>1, <2>2, <2>3, JobStays
<1>3. ASSUME NEW t \in Threads, HandleBegin(t) PROVE Proven'
  <2>1. UNCHANGED JobState /\ (chain' > 0 => Later)
    BY <1>3 DEF HandleBegin, JobState, Later
  <2>2. \A u \in Threads : Active(u)' => Later
    BY <1>3 DEF HandleBegin, Active, Later, IInv, TypeOK, TypeNet, Transfer
  <2>3. Running' = Running
    BY <1>3 DEF HandleBegin, Running
  <2> QED  BY <2>1, <2>2, <2>3, JobStays
<1>4. ASSUME NEW t \in Threads, HandleEndOK(t) PROVE Proven'
  <2>1. Active(t) /\ Later /\ target \in Charts
    BY <1>4, LaterTarget DEF HandleEndOK, Active, Later
  <2>2. \A f \in Running : f.kind \notin JobKinds
    BY <2>1, NoJobRuns
  <2>3. \A f \in Running' : f \in Running
    BY <1>4 DEF HandleEndOK, Running
  <2>4. (\A f \in Running : FrameProven(f))'
    BY <2>2, <2>3, KindsOfJobs, Harmless
  <2>5. CloseStream(t) /\ UNCHANGED <<target, tasks, queue, verified, next>>
    BY <1>4 DEF HandleEndOK
  <2>6. Flags'
    BY <2>1, <2>5, CloseKeepsFlags DEF Proven
  <2>7. tasks'[target'] = queue'[target'] /\ Short'
    BY <2>1, <2>5 DEF Proven, Short
  <2> QED  BY <2>4, <2>6, <2>7 DEF Proven
<1>5. ASSUME NEW t \in Threads, HandleEndError(t) PROVE Proven'
  <2>1. Active(t) /\ Later /\ target \in Charts
    BY <1>5, LaterTarget DEF HandleEndError, Active, Later
  <2>2. \A f \in Running : f.kind \notin JobKinds
    BY <2>1, NoJobRuns
  <2>f. PICK dialog : Push(dialog) /\ dialog.kind = "failed"
    BY <1>5 DEF HandleEndError
  <2>3. \A g \in Running' : g \in Running \/ g.kind \notin CacheKinds
    BY <1>0, <2>f, HandlerAdded DEF CacheKinds
  <2>4. (\A f \in Running : FrameProven(f))'
    BY <2>2, <2>3, KindsOfJobs, Harmless
  <2>5. CloseStream(t) /\ UNCHANGED <<target, tasks, queue, verified, next>>
    BY <1>5 DEF HandleEndError
  <2>6. Flags'
    BY <2>1, <2>5, CloseKeepsFlags DEF Proven
  <2>7. tasks'[target'] = queue'[target'] /\ Short'
    BY <2>1, <2>5 DEF Proven, Short
  <2> QED  BY <2>4, <2>6, <2>7 DEF Proven
<1> QED  BY <1>1, <1>2, <1>3, <1>4, <1>5 DEF Transferring

\* A step of the installation, or the end of a dialog.
LEMMA TasksProven ==
  ASSUME IInv, Serial, Proven, Tasks
  PROVE  Proven'
<1>0. frames \in Seq(Frame)
  BY DEF IInv, TypeOK, TypeFrames
<1>1. CASE ConfirmYes
  <2>1. UNCHANGED JobState /\ (chain' > 0 => Later)
    BY <1>1 DEF ConfirmYes, JobState, Later
  <2>2. \A u \in Threads : Active(u)' => Later
    BY <1>1 DEF ConfirmYes, Active, Later
  <2>3. PICK f : Swap(f) /\ f.kind \in {"loop"}
    BY <1>1 DEF ConfirmYes
  <2>4. frames # <<>> /\ Head(frames) \in Running /\ Head(frames).kind = "confirm"
    BY <1>1, HeadKnown DEF ConfirmYes, In, IInv
  <2>5. f.kind \notin CacheKinds /\ (f.kind \in LaterKinds => Later)
    BY <2>4, <1>1, <2>3 DEF CacheKinds, LaterKinds, Later
  <2>6. Running' \subseteq Running \cup {f}
    BY <1>0, <2>3, <2>4, HandlerAdded
  <2> QED  BY <2>1, <2>2, <2>5, <2>6, JobStays
<1>2. CASE ConfirmNo
  <2>1. UNCHANGED JobState /\ (chain' > 0 => Later)
    BY <1>2 DEF ConfirmNo, JobState, Later
  <2>2. \A u \in Threads : Active(u)' => Later
    BY <1>2 DEF ConfirmNo, Active, Later
  <2>3. Running' \subseteq Running
    BY <1>0, <1>2, PopRuns DEF ConfirmNo, In
  <2> QED  BY <2>1, <2>2, <2>3, JobStays
<1>3. CASE TaskCheck
  <2> PICK f : f = [kind |-> "checked", i |-> Head(frames).i, chart |-> target,
                     task |-> LoopTask, good |-> FALSE,
                     yield |-> IF {1, 2} \subseteq verified[target] THEN "no" ELSE "all"]
    OBVIOUS
  <2>1. frames # <<>> /\ Head(frames) \in Frame /\ Head(frames) \in Running /\ Head(frames).kind = "loop"
    BY <1>3, HeadKnown DEF TaskCheck, LoopLeft, In, IInv
  <2>2. Later /\ target \in Charts
    BY <2>1, LaterTarget DEF Later, LaterKinds
  <2>3. Head(frames).i \in Nat \ {0}
    BY <2>1 DEF Frame, ClickFrame, SaveFrame, DialogFrame, VerifyFrame, LoopFrame, TaskFrame, ClickKinds
  <2>4. LoopTask = queue[target][1] /\ QueueLen(target) # 0
    <3>1. Head(frames).i <= Len(tasks[target]) /\ Len(tasks[target]) <= 1 /\ Len(tasks[target]) \in Nat
      BY <1>3, <2>2 DEF TaskCheck, LoopLeft, Proven, Short, IInv, TypeOK, TypeJob
    <3>2. Head(frames).i = 1 /\ Len(tasks[target]) = 1
      BY <2>3, <3>1, OnlyOne
    <3> QED  BY <2>2, <3>2 DEF Proven, LoopTask, QueueLen
  <2>5. /\ QueueFile(target, 1) = KeyFile(target, LoopTask)
        /\ QueueFile(target, 2) = ZipFile(target, LoopTask)
    BY <2>2, <2>4, TwoEntries DEF Proven
  <2>6. Good(KeyFile(target, LoopTask)) /\ Good(ZipFile(target, LoopTask))
    BY <1>3, <2>2, <2>5 DEF TaskCheck, KeyOK, ZipOK, Proven, Flags
  <2>7. Swap(f) /\ UNCHANGED <<JobState, chain, xfer>>
    BY <1>3 DEF TaskCheck, JobState
  <2>8. FrameProven(f)'
    <3>1. f.kind = "checked" /\ \A g \in TaskFiles(f.chart, f.task) : Good(g)
      BY <2>6 DEF TaskFiles
    <3>2. \A g : Good(g)' = Good(g)
      BY <2>7 DEF Good, JobState
    <3>3. TaskFiles(f.chart, f.task)' = TaskFiles(f.chart, f.task)
      BY DEF TaskFiles, KeyFile, ZipFile
    <3> QED  BY <3>1, <3>2, <3>3 DEF FrameProven
  <2>9. Running' \subseteq Running \cup {f}
    BY <1>0, <2>1, <2>7, HandlerAdded
  <2> QED  BY <2>2, <2>7, <2>8, <2>9, JobGains
<1>4. CASE TaskCheckFails
  <2>1. UNCHANGED JobState /\ (chain' > 0 => Later)
    BY <1>4 DEF TaskCheckFails, JobState, Later, LoopLeft, TaskError
  <2>2. \A u \in Threads : Active(u)' => Later
    BY <1>4 DEF TaskCheckFails, Active, Later, LoopLeft, TaskError
  <2>3. PICK f : Swap(f) /\ f.kind \in {"report"}
    BY <1>4 DEF TaskCheckFails, LoopLeft, TaskError
  <2>4. frames # <<>> /\ Head(frames) \in Running /\ Head(frames).kind = "loop"
    BY <1>4, HeadKnown DEF TaskCheckFails, In, IInv, LoopLeft, TaskError
  <2>5. f.kind \notin CacheKinds /\ (f.kind \in LaterKinds => Later)
    BY <2>4, <1>4, <2>3 DEF CacheKinds, LaterKinds
  <2>6. Running' \subseteq Running \cup {f}
    BY <1>0, <2>3, <2>4, HandlerAdded
  <2> QED  BY <2>1, <2>2, <2>5, <2>6, JobStays
<1>5. CASE TaskUnpack
  <2> DEFINE h == Head(frames)
  <2> PICK f : f = [h EXCEPT !.kind = "copying", !.yield = "all",
                             !.good = \A g \in TaskFiles(h.chart, h.task) : Good(g)]
    OBVIOUS
  <2>1. frames # <<>> /\ h \in Frame /\ h \in Running /\ h.kind = "checked"
    BY <1>5, HeadKnown DEF TaskUnpack, In, IInv
  <2>2. h \in TaskFrame
    BY <2>1 DEF Frame, ClickFrame, SaveFrame, DialogFrame, VerifyFrame, LoopFrame, TaskFrame, ClickKinds
  <2>3. Later
    BY <2>1 DEF Later, LaterKinds
  <2>4. \A g \in TaskFiles(h.chart, h.task) : Good(g)
    BY <2>1 DEF Proven, FrameProven
  <2>5. Swap(f) /\ UNCHANGED <<JobState, chain, xfer>>
    BY <1>5 DEF TaskUnpack, JobState
  <2>6. f.kind = "copying" /\ f.good
    BY <2>2, <2>4 DEF TaskFrame
  <2>7. FrameProven(f)'
    BY <2>6 DEF FrameProven
  <2>8. Running' \subseteq Running \cup {f}
    BY <1>0, <2>1, <2>5, HandlerAdded
  <2> QED  BY <2>3, <2>5, <2>7, <2>8, JobGains
<1>6. CASE TaskFinish
  <2>1. UNCHANGED JobState /\ (chain' > 0 => Later)
    BY <1>6 DEF TaskFinish, JobState, Later
  <2>2. \A u \in Threads : Active(u)' => Later
    BY <1>6 DEF TaskFinish, Active, Later
  <2>3. PICK f : Swap(f) /\ f.kind \in {"loop"}
    BY <1>6 DEF TaskFinish
  <2>4. frames # <<>> /\ Head(frames) \in Running /\ Head(frames).kind = "copying"
    BY <1>6, HeadKnown DEF TaskFinish, In, IInv
  <2>5. f.kind \notin CacheKinds /\ (f.kind \in LaterKinds => Later)
    BY <2>4, <1>6, <2>3 DEF CacheKinds, LaterKinds, Later
  <2>6. Running' \subseteq Running \cup {f}
    BY <1>0, <2>3, <2>4, HandlerAdded
  <2> QED  BY <2>1, <2>2, <2>5, <2>6, JobStays
<1>7. CASE TaskFinishFails
  <2>1. UNCHANGED JobState /\ (chain' > 0 => Later)
    BY <1>7 DEF TaskFinishFails, JobState, Later, TaskError
  <2>2. \A u \in Threads : Active(u)' => Later
    BY <1>7 DEF TaskFinishFails, Active, Later, TaskError
  <2>3. PICK f : Swap(f) /\ f.kind \in {"report"}
    BY <1>7 DEF TaskFinishFails, TaskError
  <2>4. frames # <<>> /\ Head(frames) \in Running /\ Head(frames).kind = "copying"
    BY <1>7, HeadKnown DEF TaskFinishFails, In, IInv, TaskError
  <2>5. f.kind \notin CacheKinds /\ (f.kind \in LaterKinds => Later)
    BY <2>4, <1>7, <2>3 DEF CacheKinds, LaterKinds
  <2>6. Running' \subseteq Running \cup {f}
    BY <1>0, <2>3, <2>4, HandlerAdded
  <2> QED  BY <2>1, <2>2, <2>5, <2>6, JobStays
<1>8. CASE LoopDone
  <2>1. UNCHANGED JobState /\ (chain' > 0 => Later)
    BY <1>8 DEF LoopDone, JobState, Later
  <2>2. \A u \in Threads : Active(u)' => Later
    BY <1>8 DEF LoopDone, Active, Later
  <2>3. PICK f : Swap(f) /\ f.kind \in {"save"}
    BY <1>8 DEF LoopDone
  <2>4. frames # <<>> /\ Head(frames) \in Running /\ Head(frames).kind = "loop"
    BY <1>8, HeadKnown DEF LoopDone, In, IInv
  <2>5. f.kind \notin CacheKinds /\ (f.kind \in LaterKinds => Later)
    BY <2>4, <1>8, <2>3 DEF CacheKinds, LaterKinds, Later
  <2>6. Running' \subseteq Running \cup {f}
    BY <1>0, <2>3, <2>4, HandlerAdded
  <2> QED  BY <2>1, <2>2, <2>5, <2>6, JobStays
<1>9. CASE SaveConfig
  <2>1. UNCHANGED JobState /\ (chain' > 0 => Later)
    BY <1>9 DEF SaveConfig, JobState, Later
  <2>2. \A u \in Threads : Active(u)' => Later
    BY <1>9 DEF SaveConfig, Active, Later
  <2>3. PICK f : Swap(f) /\ f.kind \in {"report"}
    BY <1>9 DEF SaveConfig
  <2>4. frames # <<>> /\ Head(frames) \in Running /\ Head(frames).kind = "save"
    BY <1>9, HeadKnown DEF SaveConfig, In, IInv
  <2>5. f.kind \notin CacheKinds /\ (f.kind \in LaterKinds => Later)
    BY <2>4, <1>9, <2>3 DEF CacheKinds, LaterKinds
  <2>6. Running' \subseteq Running \cup {f}
    BY <1>0, <2>3, <2>4, HandlerAdded
  <2> QED  BY <2>1, <2>2, <2>5, <2>6, JobStays
<1>10. CASE CloseFailed
  <2>1. UNCHANGED JobState /\ (chain' > 0 => Later)
    BY <1>10 DEF CloseFailed, JobState, Later
  <2>2. \A u \in Threads : Active(u)' => Later
    BY <1>10 DEF CloseFailed, Active, Later
  <2>3. Running' \subseteq Running
    BY <1>0, <1>10, PopRuns DEF CloseFailed, In
  <2> QED  BY <2>1, <2>2, <2>3, JobStays
<1>11. CASE CloseAborted
  <2>1. UNCHANGED JobState /\ (chain' > 0 => Later)
    BY <1>11 DEF CloseAborted, JobState, Later
  <2>2. \A u \in Threads : Active(u)' => Later
    BY <1>11 DEF CloseAborted, Active, Later
  <2>3. Running' \subseteq Running
    BY <1>0, <1>11, PopRuns DEF CloseAborted, In
  <2> QED  BY <2>1, <2>2, <2>3, JobStays
<1>12. CASE CloseReport
  <2>1. UNCHANGED JobState /\ (chain' > 0 => Later)
    BY <1>12 DEF CloseReport, JobState, Later
  <2>2. \A u \in Threads : Active(u)' => Later
    BY <1>12 DEF CloseReport, Active, Later
  <2>3. Running' \subseteq Running
    BY <1>0, <1>12, PopRuns DEF CloseReport, In
  <2> QED  BY <2>1, <2>2, <2>3, JobStays
<1> QED  BY <1>1, <1>2, <1>3, <1>4, <1>5, <1>6, <1>7, <1>8, <1>9, <1>10, <1>11, <1>12 DEF Tasks

\* The invariant, for a patient user and answers of one task file.
LEMMA ProvenAlways == ~EagerUser /\ MaxTasks = 1 => (Spec => []Proven)
<1> SUFFICES ASSUME ~EagerUser, MaxTasks = 1 PROVE Spec => []Proven
  OBVIOUS
<1>1. Init => Proven
  <2> SUFFICES ASSUME Init PROVE Proven
    OBVIOUS
  <2>1. Running = {} /\ ~Later /\ Short
    BY DEF Init, Running, Later, Active, Idle, Short
  <2> QED  BY <2>1 DEF Proven
<1>2. IInv /\ Serial /\ Proven /\ [Next]_vars => Proven'
  <2> SUFFICES ASSUME IInv, Serial, Proven, [Next]_vars PROVE Proven'
    OBVIOUS
  <2>1. CASE User
    BY <2>1, UserProven
  <2>2. CASE Crash
    BY <2>2, RestartProven DEF Crash
  <2>3. CASE System
    BY <2>3, InstallingProven, ChainingProven, TransferringProven, TasksProven DEF System
  <2>4. CASE \E c \in Charts : ServerPublish(c)
    <3>1. UNCHANGED <<JobState, frames, chain, xfer>>
      BY <2>4 DEF ServerPublish, JobState
    <3> QED  BY <3>1, NothingMoves
  <2>5. CASE UNCHANGED vars
    <3>1. UNCHANGED <<JobState, frames, chain, xfer>>
      BY <2>5 DEF vars, JobState
    <3> QED  BY <3>1, NothingMoves
  <2> QED  BY <2>1, <2>2, <2>3, <2>4, <2>5 DEF Next
<1>3. Spec => []Serial
  BY NeverNested
<1> QED  BY <1>1, <1>2, <1>3, InductiveInv, PTL DEF Spec

\* What processTask unpacks has the published SHA256, when a patient user installs
\* and every answer of the server has one task file: no transfer cut short, no file
\* left in the cache by an earlier attempt or an earlier session and no flag of an
\* earlier queue gets past the two checks.  (With two task files it does not hold:
\* the flags tested are those of the first task's files.)
THEOREM OnlyProvenApplied == ~EagerUser /\ MaxTasks = 1 => (Spec => []AppliedProvenGood)
<1>1. Proven => AppliedProvenGood
  BY DEF Proven, FrameProven, AppliedProvenGood
<1> QED  BY <1>1, ProvenAlways, PTL

-----------------------------------------------------------------------------
(* The panel a click on Install was for.                                    *)

USE DEF listVars, slotVars, uiVars

NoClickRuns == \A f \in Running : f.kind \notin ClickKinds

\* A step that adds no handler, ...
LEMMA NoneTaken ==
  ASSUME frames \in Seq(Frame), NoClickRuns,
         frames' = <<>> \/ UNCHANGED frames \/ (frames # <<>> /\ Pop)
  PROVE  NoClickRuns'
<1>1. CASE frames' = <<>> \/ UNCHANGED frames
  BY <1>1 DEF NoClickRuns, Running
<1>2. CASE frames # <<>> /\ Pop
  <2>1. Running' \subseteq Running
    BY <1>2, PopRuns
  <2> QED  BY <2>1 DEF NoClickRuns
<1> QED  BY <1>1, <1>2

\* ... or one that handles no click on Install.
LEMMA OtherTaken ==
  ASSUME frames \in Seq(Frame), NoClickRuns, NEW f, f.kind \notin ClickKinds,
         Push(f) \/ (frames # <<>> /\ Swap(f))
  PROVE  NoClickRuns'
<1>1. Running' \subseteq Running \cup {f}
  BY HandlerAdded
<1> QED  BY <1>1 DEF NoClickRuns

\* What the program does by itself, but for OnButtonInstall, while no click on
\* Install is handled.
LEMMA OthersTake ==
  ASSUME IInv, NoClickRuns, Chaining \/ Transferring \/ Tasks
  PROVE  NoClickRuns'
<1>0. frames \in Seq(Frame)
  BY DEF IInv, TypeOK, TypeFrames
<1>1. CASE ChainAborted \/ ChainVerify \/ ChainInstall
  <2>1. \E f : f.kind \notin ClickKinds /\ Push(f)
    BY <1>1 DEF ChainAborted, ChainVerify, ChainInstall, ClickKinds
  <2>2. PICK f : f.kind \notin ClickKinds /\ Push(f)
    BY <2>1
  <2> QED  BY <1>0, <2>2, OtherTaken
<1>2. CASE ChainNoDirectory \/ ChainNothing
  BY <1>0, <1>2, NoneTaken DEF ChainNoDirectory, ChainNothing
<1>3. CASE VerifyPasses
  BY <1>0, <1>3, NoneTaken DEF VerifyPasses, In
<1>4. CASE VerifyPastEnd
  BY <1>0, <1>4, NoneTaken DEF VerifyPastEnd, Restart
<1>5. ASSUME NEW t \in Threads, \/ ChainDownload(t) \/ TransferEnds(t) \/ ThreadDies(t)
                                \/ HandleBegin(t) \/ HandleEndOK(t)
      PROVE  NoClickRuns'
  <2>1. UNCHANGED frames
    BY <1>5 DEF ChainDownload, TransferEnds, ThreadDies, HandleBegin, HandleEndOK
  <2> QED  BY <1>0, <2>1, NoneTaken
<1>6. ASSUME NEW t \in Threads, VerifyFails(t) PROVE NoClickRuns'
  BY <1>0, <1>6, NoneTaken DEF VerifyFails, In
<1>7. ASSUME NEW t \in Threads, HandleEndError(t) PROVE NoClickRuns'
  <2>1. \E f : f.kind \notin ClickKinds /\ Push(f)
    BY <1>7 DEF HandleEndError, ClickKinds
  <2>2. PICK f : f.kind \notin ClickKinds /\ Push(f)
    BY <2>1
  <2> QED  BY <1>0, <2>2, OtherTaken
<1>8. CASE ConfirmNo \/ CloseFailed \/ CloseAborted \/ CloseReport
  <2>1. frames # <<>> /\ Pop
    BY <1>8 DEF ConfirmNo, CloseFailed, CloseAborted, CloseReport, In
  <2> QED  BY <1>0, <2>1, NoneTaken
<1>9. CASE TaskUnpack
  <2> DEFINE g == [Head(frames) EXCEPT !.kind = "copying", !.yield = "all",
                     !.good = \A f \in TaskFiles(Head(frames).chart, Head(frames).task) : Good(f)]
  <2>1. Head(frames) \in Frame /\ Head(frames).kind = "checked" /\ frames # <<>>
    BY <1>9, HeadKnown DEF TaskUnpack, In, IInv
  <2>2. g.kind = "copying"
    BY <2>1 DEF Frame, ClickFrame, SaveFrame, DialogFrame, VerifyFrame, LoopFrame, TaskFrame, ClickKinds
  <2>3. Swap(g)
    BY <1>9 DEF TaskUnpack
  <2> HIDE DEF g
  <2> QED  BY <1>0, <2>1, <2>2, <2>3, OtherTaken DEF ClickKinds
<1>10. CASE \/ ConfirmYes \/ TaskCheck \/ TaskCheckFails \/ TaskFinish
            \/ TaskFinishFails \/ LoopDone \/ SaveConfig
  <2>1. frames # <<>>
    BY <1>10 DEF ConfirmYes, TaskCheck, TaskCheckFails, TaskFinish, TaskFinishFails,
                 LoopDone, SaveConfig, LoopLeft, In
  <2>2. \E f : f.kind \notin ClickKinds /\ Swap(f)
    BY <1>10 DEF ConfirmYes, TaskCheck, TaskCheckFails, TaskFinish, TaskFinishFails,
                 TaskError, LoopDone, SaveConfig, ClickKinds
  <2>3. PICK f : f.kind \notin ClickKinds /\ Swap(f)
    BY <2>2
  <2> QED  BY <1>0, <2>1, <2>3, OtherTaken
<1> QED  BY <1>1, <1>2, <1>3, <1>4, <1>5, <1>6, <1>7, <1>8, <1>9, <1>10
         DEF Chaining, Transferring, Tasks

\* While a click on Install is handled, nothing else is under way.
LEMMA ClickAlone ==
  ASSUME IInv, Serial, ~NoClickRuns
  PROVE  /\ ~Chaining /\ ~Transferring /\ ~Tasks
         /\ frames # <<>> /\ Running = {Head(frames)} /\ Head(frames).kind \in ClickKinds
<1>1. frames # <<>> /\ frames \in Seq(Frame)
  BY DEF NoClickRuns, Running, IInv, TypeOK, TypeFrames
<1>2. Running = {Head(frames)} /\ chain = 0 /\ NoTransfer
  BY <1>1, OneHandler
<1>3. Head(frames).kind \in ClickKinds
  BY <1>2 DEF NoClickRuns
<1>4. ~Chaining
  BY <1>2, <1>3 DEF Chaining, ChainAborted, ChainVerify, ChainNoDirectory, ChainInstall,
       ChainNothing, VerifyPasses, VerifyPastEnd, ChainDownload, VerifyFails, Dispatch, In, ClickKinds
<1>5. ~Transferring
  BY <1>2 DEF Transferring, TransferEnds, ThreadDies, HandleBegin, HandleEndOK,
       HandleEndError, NoTransfer, Active
<1>6. ~Tasks
  BY <1>3 DEF Tasks, ConfirmYes, ConfirmNo, TaskCheck, TaskCheckFails, TaskUnpack, TaskFinish,
       TaskFinishFails, LoopDone, SaveConfig, CloseFailed, CloseAborted, CloseReport,
       LoopLeft, In, ClickKinds
<1> QED  BY <1>1, <1>2, <1>3, <1>4, <1>5, <1>6

LEMMA FreePanel == ASSUME NoClickRuns' PROVE BusyChartStays'
BY DEF NoClickRuns, BusyChartStays

\* The panel stays when neither it nor the handlers change.
LEMMA PanelKept ==
  ASSUME BusyChartStays, UNCHANGED <<frames, selected>>
  PROVE  BusyChartStays'
BY DEF BusyChartStays, Running

\* A click of a patient user who selects nothing in the first yield of OnButtonInstall.
LEMMA UserKeeps ==
  ASSUME IInv, Serial, Panel, BusyWhileWorking, BusyChartStays, User, ~EagerUser, ~Reselects
  PROVE  BusyChartStays'
<1>1. CASE ClickUpdate \/ ClickUpdateFails \/ ClickInstallNothing
  <2>1. frames' = <<>>
    BY <1>1 DEF ClickUpdate, ClickUpdateFails, ClickInstallNothing, Restart, Patience, Quiet
  <2> QED  BY <2>1 DEF BusyChartStays, Running
<1>2. CASE ClickCancel
  <2>1. current # NoThread /\ current \in Threads /\ Active(current)
    BY <1>2 DEF ClickCancel, Panel, CancelHasTarget, IInv, TypeOK, TypeNet
  <2>2. frames' = <<>>
    BY <1>2, <2>1, PanelWaiting DEF ClickCancel, UnderWay
  <2> QED  BY <2>2 DEF BusyChartStays, Running
<1>3. ASSUME NEW c \in Charts, ClickSelect(c) PROVE BusyChartStays'
  <2>1. ~busy /\ UNCHANGED frames /\ ~TakenUp
    BY <1>3 DEF ClickSelect
  <2>2. \A f \in Running : f.kind # "named"
    BY <2>1 DEF TakenUp, Running
  <2>3. \A f \in Running : ~Working(f)
    BY <2>1 DEF BusyWhileWorking
  <2>4. NoClickRuns
    BY <2>2, <2>3 DEF NoClickRuns, ClickKinds, Working
  <2>5. NoClickRuns'
    BY <2>1, <2>4 DEF NoClickRuns, Running
  <2> QED  BY <2>5, FreePanel
<1>4. ASSUME NEW c \in Charts, ClickInstall(c) PROVE BusyChartStays'
  <2>1. frames = <<>> /\ selected' = c
    BY <1>4 DEF ClickInstall, Patience, Quiet
  <2>2. PICK f : Push(f) /\ f.chart = c
    BY <1>4 DEF ClickInstall
  <2>3. Running' = {f}
    BY <2>1, <2>2, FirstHandler
  <2> QED  BY <2>1, <2>2, <2>3 DEF BusyChartStays
<1>5. ASSUME NEW c \in Charts, ClickInstallRefused(c) PROVE BusyChartStays'
  BY <1>5, PanelKept DEF ClickInstallRefused
<1> QED  BY <1>1, <1>2, <1>3, <1>4, <1>5 DEF User

\* A step of OnButtonInstall.
LEMMA InstallingKeeps ==
  ASSUME IInv, Serial, BusyChartStays, Installing
  PROVE  BusyChartStays'
<1>0. frames \in Seq(Frame)
  BY DEF IInv, TypeOK, TypeFrames
<1>1. CASE NameRefreshed \/ DisableInstall \/ PrepareOK
  <2>1. frames # <<>> /\ Head(frames).kind \in ClickKinds
    BY <1>1 DEF NameRefreshed, DisableInstall, PrepareOK, In, ClickKinds
  <2>2. Running = {Head(frames)} /\ Head(frames) \in Frame
    BY <1>0, <2>1, OneHandler, HeadRuns
  <2>3. selected = Head(frames).chart /\ selected # NoChart
    BY <2>1, <2>2, InstallAssumption DEF BusyChartStays, Frame, ClickFrame, SaveFrame,
         DialogFrame, VerifyFrame, LoopFrame, TaskFrame, ClickKinds
  <2>4. selected' = selected
    BY <1>1, <2>3 DEF NameRefreshed, DisableInstall, PrepareOK, ChartList
  <2>5. \E f : Swap(f) /\ f.chart = Head(frames).chart
    <3>1. CASE NameRefreshed
      BY <3>1 DEF NameRefreshed
    <3>2. CASE DisableInstall
      BY <3>2 DEF DisableInstall
    <3>3. CASE PrepareOK
      BY <3>3 DEF PrepareOK
    <3> QED  BY <1>1, <3>1, <3>2, <3>3
  <2>6. PICK f : Swap(f) /\ f.chart = Head(frames).chart
    BY <2>5
  <2>7. Running' = {f}
    BY <1>0, <2>1, <2>6, OneHandler
  <2> QED  BY <2>3, <2>4, <2>6, <2>7 DEF BusyChartStays
<1>2. CASE InstallFails \/ InstallLeaves \/ PrepareFails \/ StartDownload
  <2>1. frames # <<>> /\ Pop
    BY <1>2 DEF InstallFails, InstallLeaves, PrepareFails, StartDownload, In
  <2>2. frames' = <<>>
    BY <1>0, <2>1, OneHandler
  <2> QED  BY <2>2 DEF BusyChartStays, Running
<1>3. CASE PrepareNothing
  <2>1. frames' = <<>>
    BY <1>3 DEF PrepareNothing, Restart
  <2> QED  BY <2>1 DEF BusyChartStays, Running
<1> QED  BY <1>1, <1>2, <1>3 DEF Installing

\* While a click on Install is handled its chart stays selected, so doPrepare, which
\* reads the chart from the panel, requests the chart whose slot the handler chose: for
\* a patient user whose disk does not fail, and who selects nothing in the yield of
\* RefreshSystemName, which comes before the override status is set.
THEOREM SelectionStays ==
  ~EagerUser /\ ~DiskFaults /\ ~Reselects => (Spec => []BusyChartStays)
<1> SUFFICES ASSUME ~EagerUser, ~DiskFaults, ~Reselects PROVE Spec => []BusyChartStays
  OBVIOUS
<1>1. Init => BusyChartStays
  BY DEF Init, BusyChartStays, Running
<1>2. IInv /\ Serial /\ Panel /\ BusyWhileWorking /\ BusyChartStays /\ [Next]_vars => BusyChartStays'
  <2> SUFFICES ASSUME IInv, Serial, Panel, BusyWhileWorking, BusyChartStays, [Next]_vars
               PROVE  BusyChartStays'
    OBVIOUS
  <2>1. CASE User
    BY <2>1, UserKeeps
  <2>2. CASE Crash
    <3>1. frames' = <<>>
      BY <2>2 DEF Crash, Restart
    <3> QED  BY <3>1 DEF BusyChartStays, Running
  <2>3. CASE Installing
    BY <2>3, InstallingKeeps
  <2>4. CASE Chaining \/ Transferring \/ Tasks
    <3>1. NoClickRuns'
      BY <2>4, OthersTake, ClickAlone
    <3> QED  BY <3>1, FreePanel
  <2>5. CASE (\E c \in Charts : ServerPublish(c)) \/ UNCHANGED vars
    <3>1. UNCHANGED <<frames, selected>>
      BY <2>5 DEF ServerPublish, vars
    <3> QED  BY <3>1, PanelKept
  <2> QED  BY <2>1, <2>2, <2>3, <2>4, <2>5 DEF Next, System
<1>3. Spec => []Serial /\ []Panel /\ []BusyWhileWorking
  BY NeverNested, PanelInvariant, SelectionBlocked
<1> QED  BY <1>1, <1>2, <1>3, InductiveInv, PTL DEF Spec

\* doPrepare requests the chart whose slot the handler chose.
OwnPanel ==
  \A f \in Running : f.kind = "prepare" /\ selected # NoChart => selected = f.chart

LEMMA PanelFollowed ==
  ~EagerUser /\ ~DiskFaults /\ (Reselects => \A c, d \in Charts : c = d) => (Spec => []OwnPanel)
<1> SUFFICES ASSUME ~EagerUser, ~DiskFaults, Reselects => \A c, d \in Charts : c = d
             PROVE  Spec => []OwnPanel
  OBVIOUS
<1>1. CASE ~Reselects
  <2>1. BusyChartStays => OwnPanel
    BY DEF BusyChartStays, OwnPanel, ClickKinds
  <2>2. Spec => []BusyChartStays
    BY <1>1, SelectionStays
  <2> QED  BY <2>1, <2>2, PTL
<1>2. CASE \A c, d \in Charts : c = d
  <2>1. IInv => OwnPanel
    <3> SUFFICES ASSUME IInv, NEW f \in Running, f.kind = "prepare", selected # NoChart
                 PROVE  selected = f.chart
      BY DEF OwnPanel
    <3>1. f \in Frame /\ selected \in Charts
      BY DEF IInv, TypeOK, TypeFrames, TypePanel, Running
    <3>2. f.chart \in Charts
      BY <3>1 DEF Frame, ClickFrame, SaveFrame, DialogFrame, VerifyFrame, LoopFrame, TaskFrame, ClickKinds
    <3> QED  BY <1>2, <3>1, <3>2
  <2> QED  BY <2>1, InductiveInv, PTL
<1> QED  BY <1>1, <1>2

-----------------------------------------------------------------------------
(* The chart directories, and the abstract store of charts (ChartStore).    *)

ApplyKinds == {"checked", "copying"}
PlannedKinds == {"verify", "confirm", "loop", "checked", "copying"}

InPlace(c, e) == 1..e \subseteq content[c]

\* What was requested for chart c is what its task brings: a base, or the edition
\* after the installed one.
Planned(c) ==
  /\ Len(tasks[c]) = 1 /\ tasks[c][1].ed = requested[c]
  /\ requested[c] = known[c] /\ installed[c] <= known[c]
  /\ ~tasks[c][1].base => action[c] = "UPDATE" /\ requested[c] = installed[c] + 1

\* No recorded or listed edition is ahead of the server.
Lists == \A c \in Charts : /\ installed[c] <= srv[c] /\ known[c] <= srv[c]
                           /\ refreshed => installed[c] <= known[c]

FrameStored(f) ==
  /\ f.kind = "start" => Planned(f.chart)
  /\ f.kind \in PlannedKinds => Planned(target)
  /\ f.kind = "loop" => f.i = 1 \/ (f.i = 2 /\ InPlace(target, requested[target]))
  /\ f.kind \in ApplyKinds => f.i = 1 /\ f.chart = target /\ f.task = tasks[target][1]
  /\ f.kind = "copying" => f.task.base \/ InPlace(target, installed[target])

\* The recorded edition is in place, but while the task that follows it is copied.
Stored ==
  /\ Lists
  /\ \A f \in Running : FrameStored(f)
  /\ UnderWay => Planned(target)
  /\ \A c \in Charts : \/ InPlace(c, installed[c])
                       \/ \E f \in Running : f.kind = "copying" /\ f.chart = c

StoreStep == [Store!Next]_(Store!store)

DataState == <<srv, known, refreshed, installed, content, action, requested, tasks, target>>

Unapplied == \A f \in Running : f.kind \notin ApplyKinds

\* A step of the store that is at most a save.
LEMMA SavesOnly ==
  ASSUME UNCHANGED <<installed, content>>, Applying' = Applying, saved' \in {saved, installed}
  PROVE  StoreStep
BY DEF StoreStep, Store!Next, Store!Save, Store!store

LEMMA NothingApplied == ASSUME Unapplied PROVE Applying = {}
BY DEF Unapplied, Applying, ApplyKinds

\* Frames look at nothing else.
LEMMA FrameSame ==
  ASSUME UNCHANGED DataState, NEW f
  PROVE  FrameStored(f)' = FrameStored(f) /\ Planned(target)' = Planned(target)
BY DEF DataState, FrameStored, Planned, InPlace

\* The data and the handlers stay.
LEMMA StoreSame ==
  ASSUME Stored, UNCHANGED <<DataState, frames>>, saved' \in {saved, installed}, UnderWay' => UnderWay
  PROVE  Stored' /\ StoreStep
<1>1. Running' = Running /\ Applying' = Applying
  BY DEF Running, Applying
<1>2. Stored'
  BY <1>1, FrameSame DEF Stored, DataState, Lists, InPlace
<1> QED  BY <1>1, <1>2, SavesOnly DEF DataState

\* The data stay, and no task is being applied.
LEMMA StoreMoves ==
  ASSUME Stored, Unapplied, UNCHANGED DataState, saved' \in {saved, installed},
         \A f \in Running' : FrameStored(f) /\ f.kind \notin ApplyKinds,
         UnderWay' => Planned(target)
  PROVE  Stored' /\ StoreStep
<1>1. \A c \in Charts : InPlace(c, installed[c])
  BY DEF Stored, Unapplied, ApplyKinds
<1>2. (\A f \in Running : FrameStored(f))'
  BY FrameSame
<1>3. (\A c \in Charts : InPlace(c, installed[c]))' /\ Lists'
  BY <1>1 DEF Stored, DataState, InPlace, Lists
<1>4. (UnderWay => Planned(target))'
  BY FrameSame
<1>5. Stored'
  BY <1>2, <1>3, <1>4 DEF Stored
<1>6. Applying = {} /\ Applying' = {}
  BY NothingApplied DEF Applying, ApplyKinds
<1> QED  BY <1>5, <1>6, SavesOnly DEF DataState

\* Nothing is under way after the step.
LEMMA StoreIdle ==
  ASSUME Stored, Unapplied, UNCHANGED <<installed, content>>, saved' \in {saved, installed},
         Running' = {}, ~UnderWay', Lists'
  PROVE  Stored' /\ StoreStep
<1>1. (\A c \in Charts : InPlace(c, installed[c]))'
  BY DEF Stored, Unapplied, ApplyKinds, InPlace
<1>2. Stored'
  BY <1>1 DEF Stored
<1>3. Applying = {} /\ Applying' = {}
  BY NothingApplied DEF Applying
<1> QED  BY <1>2, <1>3, SavesOnly

\* A restart while every record is saved.
LEMMA StoreRestart ==
  ASSUME IInv, Stored, Unapplied, Restart, \A c \in Charts : saved[c] = installed[c]
  PROVE  Stored' /\ StoreStep
<1>1. installed' = installed /\ saved' = saved /\ content' = content
  BY DEF Restart, IInv, TypeOK, TypeSlot
<1>2. Running' = {} /\ ~UnderWay'
  BY RestartIdle DEF UnderWay, NoTransfer
<1>3. \A c \in Charts : srv[c] \in Nat
  BY InstallAssumption DEF IInv, TypeOK, TypeList
<1>4. Lists'
  BY <1>1, <1>3 DEF Restart, Stored, Lists
<1> QED  BY <1>1, <1>2, <1>4, StoreIdle

\* The handler that runs, alone.
LEMMA StoreHandler ==
  ASSUME IInv, Serial, Stored, frames # <<>>
  PROVE  /\ Head(frames) \in Frame /\ FrameStored(Head(frames)) /\ Running = {Head(frames)}
         /\ chain = 0 /\ NoTransfer /\ ~UnderWay
         /\ Head(frames).kind \notin ApplyKinds => Unapplied
         /\ Pop => Running' = {}
         /\ \A f : Swap(f) => Running' = {f}
<1>1. frames \in Seq(Frame)
  BY DEF IInv, TypeOK, TypeFrames
<1>2. Head(frames) \in Frame /\ Head(frames) \in Running
  BY <1>1, HeadRuns
<1>3. /\ Running = {Head(frames)} /\ chain = 0 /\ NoTransfer
      /\ Pop => Running' = {}
      /\ \A f : Swap(f) => Running' = {f}
  BY <1>1, OneHandler
<1> QED  BY <1>2, <1>3 DEF Stored, Unapplied, UnderWay, NoTransfer

\* No handler runs while something else is under way.
LEMMA StoreWaiting ==
  ASSUME IInv, Serial, Stored, UnderWay
  PROVE  frames = <<>> /\ Running = {} /\ Unapplied /\ Planned(target)
<1>1. frames = <<>>
  BY DEF Serial, NoTransfer, UnderWay, IInv, TypeOK, TypeQueue
<1> QED  BY <1>1 DEF Running, Unapplied, Stored

\* A click of a patient user.
LEMMA UserStore ==
  ASSUME IInv, Serial, Proven, Stored, User, ~EagerUser
  PROVE  Stored' /\ StoreStep
<1>1. CASE ClickUpdate
  <2>1. Quiet
    BY <1>1 DEF ClickUpdate, Patience
  <2>2. Running' = {} /\ ~UnderWay' /\ Unapplied
    BY <1>1, <2>1 DEF ClickUpdate, Quiet, Running, UnderWay, Unapplied, Active
  <2>3. UNCHANGED <<installed, content>> /\ saved' \in {saved, installed}
    BY <1>1 DEF ClickUpdate, SaveShop
  <2>4. \A c \in Charts : srv[c] \in Nat
    BY InstallAssumption DEF IInv, TypeOK, TypeList
  <2>5. Lists'
    BY <1>1, <2>4 DEF ClickUpdate, Stored, Lists
  <2> QED  BY <2>2, <2>3, <2>5, StoreIdle
<1>2. CASE ClickUpdateFails
  <2>1. UNCHANGED <<DataState, frames>> /\ saved' \in {saved, installed}
    BY <1>2 DEF ClickUpdateFails, DataState
  <2>2. UnderWay' => UnderWay
    BY <1>2 DEF ClickUpdateFails, UnderWay, Active
  <2> QED  BY <2>1, <2>2, StoreSame
<1>3. CASE ClickCancel
  <2>1. UNCHANGED <<DataState, frames>> /\ saved' \in {saved, installed}
    BY <1>3 DEF ClickCancel, ChartList, Controls, SaveShop, DataState
  <2>2. UnderWay' => UnderWay
    BY <1>3 DEF ClickCancel, ChartList, Controls, SaveShop, UnderWay, Active, IInv, TypeOK, TypeNet, Transfer
  <2> QED  BY <2>1, <2>2, StoreSame
<1>4. ASSUME NEW c \in Charts, ClickSelect(c) PROVE Stored' /\ StoreStep
  <2>1. UNCHANGED <<DataState, frames>> /\ saved' \in {saved, installed}
    BY <1>4 DEF ClickSelect, Controls, DataState
  <2>2. UnderWay' => UnderWay
    BY <1>4 DEF ClickSelect, Controls, UnderWay, Active
  <2> QED  BY <2>1, <2>2, StoreSame
<1>5. ASSUME NEW c \in Charts, ClickInstall(c) PROVE Stored' /\ StoreStep
  <2>1. frames = <<>> /\ ~UnderWay
    BY <1>5 DEF ClickInstall, Patience, Quiet, UnderWay
  <2>2. PICK f : Push(f) /\ f.kind = "named"
    BY <1>5 DEF ClickInstall
  <2>3. Running' = {f} /\ Unapplied
    BY <2>1, <2>2, FirstHandler DEF Unapplied, Running
  <2>4. FrameStored(f) /\ f.kind \notin ApplyKinds
    BY <2>2 DEF FrameStored, ApplyKinds, PlannedKinds
  <2>5. UNCHANGED DataState /\ saved' \in {saved, installed} /\ ~UnderWay'
    BY <1>5, <2>1 DEF ClickInstall, DataState, UnderWay, Active
  <2> QED  BY <2>3, <2>4, <2>5, StoreMoves
<1>6. CASE ClickInstallNothing
  <2>1. frames = <<>> /\ UserRuns
    BY <1>6 DEF ClickInstallNothing, Patience, Quiet
  <2>2. Unapplied /\ \A c \in Charts : saved[c] = installed[c]
    BY <2>1, Settled DEF Unapplied, Running
  <2> QED  BY <1>6, <2>2, StoreRestart DEF ClickInstallNothing
<1>7. ASSUME NEW c \in Charts, ClickInstallRefused(c) PROVE Stored' /\ StoreStep
  <2>1. UNCHANGED <<DataState, frames>> /\ saved' \in {saved, installed}
    BY <1>7 DEF ClickInstallRefused, DataState
  <2>2. UnderWay' => UnderWay
    BY <1>7 DEF ClickInstallRefused, UnderWay, Active
  <2> QED  BY <2>1, <2>2, StoreSame
<1> QED  BY <1>1, <1>2, <1>3, <1>4, <1>5, <1>6, <1>7 DEF User

\* A step of OnButtonInstall.
LEMMA InstallingStore ==
  ASSUME IInv, Serial, Proven, Stored, OwnPanel, Installing, MaxTasks = 1
  PROVE  Stored' /\ StoreStep
<1>1. CASE DisableInstall
  <2>1. frames # <<>> /\ Head(frames).kind = "asked"
    BY <1>1 DEF DisableInstall, In
  <2>2. Unapplied /\ FrameStored(Head(frames))
    BY <2>1, StoreHandler DEF ApplyKinds
  <2>3. PICK f : Swap(f) /\ f.kind = "prepare"
    BY <1>1 DEF DisableInstall
  <2>4. Running' = {f} /\ ~UnderWay'
    BY <1>1, <2>1, <2>3, StoreHandler DEF DisableInstall, UnderWay, NoTransfer, Active
  <2>5. FrameStored(f) /\ f.kind \notin ApplyKinds
    BY <2>1, <2>2, <2>3 DEF FrameStored, ApplyKinds, PlannedKinds
  <2>6. UNCHANGED DataState /\ saved' \in {saved, installed}
    BY <1>1 DEF DisableInstall, DataState
  <2> QED  BY <2>2, <2>4, <2>5, <2>6, StoreMoves
<1>2. CASE InstallFails
  <2>1. frames # <<>> /\ Head(frames).kind = "prepare"
    BY <1>2 DEF InstallFails, In
  <2>2. Unapplied /\ Running' = {}
    BY <1>2, <2>1, StoreHandler DEF InstallFails, ApplyKinds
  <2>3. UNCHANGED DataState /\ saved' \in {saved, installed} /\ ~UnderWay'
    BY <1>2, <2>1, StoreHandler DEF InstallFails, DataState, UnderWay, NoTransfer, Active
  <2> QED  BY <2>2, <2>3, StoreMoves
<1>3. CASE InstallLeaves
  <2>1. frames # <<>> /\ Head(frames).kind = "prepare"
    BY <1>3 DEF InstallLeaves, In
  <2>2. Unapplied /\ Running' = {}
    BY <1>3, <2>1, StoreHandler DEF InstallLeaves, ApplyKinds
  <2>3. UNCHANGED DataState /\ saved' \in {saved, installed} /\ ~UnderWay'
    BY <1>3, <2>1, StoreHandler DEF InstallLeaves, DataState, UnderWay, NoTransfer, Active
  <2> QED  BY <2>2, <2>3, StoreMoves
<1>4. CASE PrepareFails
  <2>1. frames # <<>> /\ Head(frames).kind = "prepare"
    BY <1>4 DEF PrepareFails, In
  <2>2. Unapplied /\ Running' = {}
    BY <1>4, <2>1, StoreHandler DEF PrepareFails, ApplyKinds
  <2>3. UNCHANGED <<installed, content>> /\ saved' \in {saved, installed} /\ ~UnderWay'
    BY <1>4, <2>1, StoreHandler DEF PrepareFails, ChartList, SaveShop, UnderWay, NoTransfer, Active
  <2>4. Lists'
    BY <1>4 DEF PrepareFails, Stored, Lists
  <2> QED  BY <2>2, <2>3, <2>4, StoreIdle
<1>5. CASE PrepareOK
  <2> PICK c : c = Head(frames).chart
    OBVIOUS
  <2>1. frames # <<>> /\ Head(frames).kind = "prepare"
    BY <1>5 DEF PrepareOK, In
  <2>2. /\ Unapplied /\ Head(frames) \in Frame /\ Head(frames) \in Running
        /\ chain = 0 /\ NoTransfer
    BY <2>1, StoreHandler DEF ApplyKinds
  <2>3. c \in Charts /\ refreshed
    BY <2>1, <2>2 DEF IInv, Ready, Frame, ClickFrame, SaveFrame, DialogFrame, VerifyFrame,
                      LoopFrame, TaskFrame
  <2>s. selected = c /\ from'[c] \in Int /\ requested'[c] \in Int
    BY <1>5, <2>1, <2>2, Requested DEF OwnPanel, PrepareOK
  <2>4. PICK answer \in Answers(action'[c], from'[c], requested'[c]) :
           tasks' = [tasks EXCEPT ![c] = answer]
    BY <1>5, <2>s DEF PrepareOK
  <2>5. Swap([kind |-> "start", chart |-> c, yield |-> "all"]) /\ Computed(c)
    BY <1>5 DEF PrepareOK
  <2>6. Running' = {[kind |-> "start", chart |-> c, yield |-> "all"]}
    BY <2>1, <2>5, StoreHandler
  <2>7. UNCHANGED <<srv, known, refreshed, installed, content>> /\ saved' \in {saved, installed} /\ ~UnderWay'
    BY <1>5, <2>2 DEF PrepareOK, ChartList, SaveShop, UnderWay, NoTransfer, Active
  <2>8. requested'[c] = known[c] /\ from'[c] = installed[c] /\ tasks'[c] = answer
    BY <2>3, <2>4, <2>5 DEF Computed, IInv, TypeOK, TypeJob
  <2>9. installed[c] <= known[c]
    BY <2>3 DEF Stored, Lists
  <2>a. /\ Len(answer) = 1 /\ answer[1].ed = requested'[c]
        /\ ~answer[1].base => action'[c] = "UPDATE" /\ requested'[c] = from'[c] + 1
    BY <2>s, <2>4, OneTask
  <2>10. Planned(c)'
    BY <2>7, <2>8, <2>9, <2>a DEF Planned
  <2>11. (\A f \in Running : FrameStored(f))'
    BY <2>6, <2>10 DEF FrameStored, PlannedKinds, ApplyKinds
  <2>12. (\A b \in Charts : InPlace(b, installed[b]))' /\ Lists'
    BY <2>2, <2>7 DEF Stored, Unapplied, ApplyKinds, InPlace, Lists
  <2>13. Stored'
    BY <2>7, <2>11, <2>12 DEF Stored
  <2>14. Applying = {} /\ Applying' = {}
    BY <2>2, <2>6, NothingApplied DEF Applying
  <2> QED  BY <2>7, <2>13, <2>14, SavesOnly
<1>6. CASE StartDownload
  <2> DEFINE c == Head(frames).chart
  <2>1. frames # <<>> /\ Head(frames).kind = "start"
    BY <1>6 DEF StartDownload, In
  <2>2. Unapplied /\ Planned(c) /\ Running' = {}
    BY <1>6, <2>1, StoreHandler DEF StartDownload, ApplyKinds, FrameStored
  <2>3. /\ UNCHANGED <<srv, known, refreshed, installed, saved, content, action, requested, tasks>>
        /\ target' = c
    BY <1>6 DEF StartDownload
  <2>4. Planned(target)'
    BY <2>2, <2>3 DEF Planned
  <2>5. (\A b \in Charts : InPlace(b, installed[b]))' /\ Lists'
    BY <2>2, <2>3 DEF Stored, Unapplied, ApplyKinds, InPlace, Lists
  <2>6. Stored'
    BY <2>2, <2>4, <2>5 DEF Stored
  <2>7. Applying = {} /\ Applying' = {}
    BY <2>2, NothingApplied DEF Applying
  <2> QED  BY <2>3, <2>6, <2>7, SavesOnly
<1>7. CASE PrepareNothing
  <2>1. frames # <<>> /\ Head(frames).kind = "prepare" /\ ~In("save")
    BY <1>7 DEF PrepareNothing, In
  <2>2. Unapplied /\ \A c \in Charts : saved[c] = installed[c]
    BY <2>1, StoreHandler, Settled DEF ApplyKinds
  <2> QED  BY <1>7, <2>2, StoreRestart DEF PrepareNothing
<1>8. CASE NameRefreshed
  <2>1. frames # <<>> /\ Head(frames).kind = "named"
    BY <1>8 DEF NameRefreshed, In
  <2>2. Unapplied /\ FrameStored(Head(frames))
    BY <2>1, StoreHandler DEF ApplyKinds
  <2>3. PICK f : Swap(f) /\ f.kind = "asked"
    BY <1>8 DEF NameRefreshed
  <2>4. Running' = {f} /\ ~UnderWay'
    BY <1>8, <2>1, <2>3, StoreHandler DEF NameRefreshed, UnderWay, NoTransfer, Active
  <2>5. FrameStored(f) /\ f.kind \notin ApplyKinds
    BY <2>1, <2>2, <2>3 DEF FrameStored, ApplyKinds, PlannedKinds
  <2>6. UNCHANGED DataState /\ saved' \in {saved, installed}
    BY <1>8 DEF NameRefreshed, DataState
  <2> QED  BY <2>2, <2>4, <2>5, <2>6, StoreMoves
<1> QED  BY <1>1, <1>2, <1>3, <1>4, <1>5, <1>6, <1>7, <1>8 DEF Installing

\* A step of OnButtonInstallChain.
LEMMA ChainingStore ==
  ASSUME IInv, Serial, Proven, Stored, Chaining
  PROVE  Stored' /\ StoreStep
<1>1. CASE ChainAborted
  <2>1. UnderWay
    BY <1>1 DEF ChainAborted, Dispatch, UnderWay
  <2>2. frames = <<>> /\ Unapplied /\ Planned(target)
    BY <2>1, StoreWaiting
  <2>3. PICK f : Push(f) /\ f.kind \in {"aborted"}
    BY <1>1 DEF ChainAborted
  <2>4. Running' = {f}
    BY <2>2, <2>3, FirstHandler
  <2>5. FrameStored(f) /\ f.kind \notin ApplyKinds
    BY <2>2, <2>3 DEF FrameStored, ApplyKinds, PlannedKinds
  <2>6. UNCHANGED DataState /\ saved' \in {saved, installed}
    BY <1>1 DEF ChainAborted, DataState
  <2> QED  BY <2>2, <2>4, <2>5, <2>6, StoreMoves
<1>2. CASE ChainVerify
  <2>1. UnderWay
    BY <1>2 DEF ChainVerify, Dispatch, UnderWay
  <2>2. frames = <<>> /\ Unapplied /\ Planned(target)
    BY <2>1, StoreWaiting
  <2>3. PICK f : Push(f) /\ f.kind \in {"verify"}
    BY <1>2 DEF ChainVerify
  <2>4. Running' = {f}
    BY <2>2, <2>3, FirstHandler
  <2>5. FrameStored(f) /\ f.kind \notin ApplyKinds
    BY <2>2, <2>3 DEF FrameStored, ApplyKinds, PlannedKinds
  <2>6. UNCHANGED DataState /\ saved' \in {saved, installed}
    BY <1>2 DEF ChainVerify, DataState
  <2> QED  BY <2>2, <2>4, <2>5, <2>6, StoreMoves
<1>3. CASE ChainNoDirectory
  <2>1. UNCHANGED <<DataState, frames>> /\ saved' \in {saved, installed}
    BY <1>3 DEF ChainNoDirectory, Dispatch, DataState
  <2>2. UnderWay' => UnderWay
    BY <1>3 DEF ChainNoDirectory, Dispatch, UnderWay, Active
  <2> QED  BY <2>1, <2>2, StoreSame
<1>4. CASE ChainInstall
  <2>1. UnderWay
    BY <1>4 DEF ChainInstall, Dispatch, UnderWay
  <2>2. frames = <<>> /\ Unapplied /\ Planned(target)
    BY <2>1, StoreWaiting
  <2>3. PICK f : Push(f) /\ f.kind \in {"confirm", "loop"} /\ (f.kind = "loop" => f.i = 1)
    BY <1>4 DEF ChainInstall
  <2>4. Running' = {f}
    BY <2>2, <2>3, FirstHandler
  <2>5. FrameStored(f) /\ f.kind \notin ApplyKinds
    BY <2>2, <2>3 DEF FrameStored, ApplyKinds, PlannedKinds
  <2>6. UNCHANGED DataState /\ saved' \in {saved, installed}
    BY <1>4 DEF ChainInstall, DataState
  <2> QED  BY <2>2, <2>4, <2>5, <2>6, StoreMoves
<1>5. CASE ChainNothing
  <2>1. UNCHANGED <<DataState, frames>> /\ saved' \in {saved, installed}
    BY <1>5 DEF ChainNothing, Dispatch, DataState
  <2>2. UnderWay' => UnderWay
    BY <1>5 DEF ChainNothing, Dispatch, UnderWay, Active
  <2> QED  BY <2>1, <2>2, StoreSame
<1>6. CASE VerifyPasses
  <2>1. frames # <<>> /\ Head(frames).kind = "verify"
    BY <1>6 DEF VerifyPasses, In
  <2>2. Unapplied /\ Running' = {} /\ Planned(target)
    BY <1>6, <2>1, StoreHandler DEF VerifyPasses, ApplyKinds, FrameStored, PlannedKinds
  <2>3. UNCHANGED DataState /\ saved' \in {saved, installed}
    BY <1>6 DEF VerifyPasses, DataState
  <2> QED  BY <2>2, <2>3, StoreMoves
<1>7. ASSUME NEW t \in Threads, ChainDownload(t) PROVE Stored' /\ StoreStep
  <2>1. UNCHANGED <<DataState, frames>> /\ saved' \in {saved, installed} /\ UnderWay
    BY <1>7 DEF ChainDownload, Dispatch, DataState, UnderWay
  <2> QED  BY <2>1, StoreSame
<1>8. ASSUME NEW t \in Threads, VerifyFails(t) PROVE Stored' /\ StoreStep
  <2>1. frames # <<>> /\ Head(frames).kind = "verify"
    BY <1>8 DEF VerifyFails, In
  <2>2. Unapplied /\ Running' = {} /\ Planned(target)
    BY <1>8, <2>1, StoreHandler DEF VerifyFails, ApplyKinds, FrameStored, PlannedKinds
  <2>3. UNCHANGED DataState /\ saved' \in {saved, installed}
    BY <1>8 DEF VerifyFails, DataState, StartTransfer
  <2> QED  BY <2>2, <2>3, StoreMoves
<1>9. CASE VerifyPastEnd
  <2>1. frames # <<>> /\ Head(frames).kind = "verify" /\ ~In("save")
    BY <1>9 DEF VerifyPastEnd, In
  <2>2. Unapplied /\ \A c \in Charts : saved[c] = installed[c]
    BY <2>1, StoreHandler, Settled DEF ApplyKinds
  <2> QED  BY <1>9, <2>2, StoreRestart DEF VerifyPastEnd
<1> QED  BY <1>1, <1>2, <1>3, <1>4, <1>5, <1>6, <1>7, <1>8, <1>9 DEF Chaining

\* A step of a curl thread, or of the handler of its events.
LEMMA TransferringStore ==
  ASSUME IInv, Serial, Proven, Stored, Transferring
  PROVE  Stored' /\ StoreStep
<1>1. ASSUME NEW t \in Threads, TransferEnds(t) PROVE Stored' /\ StoreStep
  <2>1. UNCHANGED <<DataState, frames>> /\ saved' \in {saved, installed} /\ UnderWay
    BY <1>1 DEF TransferEnds, DataState, UnderWay, Active
  <2> QED  BY <2>1, StoreSame
<1>2. ASSUME NEW t \in Threads, ThreadDies(t) PROVE Stored' /\ StoreStep
  <2>1. UNCHANGED <<DataState, frames>> /\ saved' \in {saved, installed} /\ UnderWay
    BY <1>2 DEF ThreadDies, DataState, UnderWay, Active
  <2> QED  BY <2>1, StoreSame
<1>3. ASSUME NEW t \in Threads, HandleBegin(t) PROVE Stored' /\ StoreStep
  <2>1. UNCHANGED <<DataState, frames>> /\ saved' \in {saved, installed} /\ UnderWay
    BY <1>3 DEF HandleBegin, DataState, UnderWay, Active
  <2> QED  BY <2>1, StoreSame
<1>4. ASSUME NEW t \in Threads, HandleEndOK(t) PROVE Stored' /\ StoreStep
  <2>1. UNCHANGED <<DataState, frames>> /\ saved' \in {saved, installed} /\ UnderWay
    BY <1>4 DEF HandleEndOK, DataState, UnderWay, Active
  <2> QED  BY <2>1, StoreSame
<1>5. ASSUME NEW t \in Threads, HandleEndError(t) PROVE Stored' /\ StoreStep
  <2>1. UnderWay
    BY <1>5 DEF HandleEndError, UnderWay, Active
  <2>2. frames = <<>> /\ Unapplied /\ Planned(target)
    BY <2>1, StoreWaiting
  <2>3. PICK f : Push(f) /\ f.kind \in {"failed"}
    BY <1>5 DEF HandleEndError
  <2>4. Running' = {f}
    BY <2>2, <2>3, FirstHandler
  <2>5. FrameStored(f) /\ f.kind \notin ApplyKinds
    BY <2>2, <2>3 DEF FrameStored, ApplyKinds, PlannedKinds
  <2>6. UNCHANGED DataState /\ saved' \in {saved, installed}
    BY <1>5 DEF HandleEndError, DataState
  <2> QED  BY <2>2, <2>4, <2>5, <2>6, StoreMoves
<1> QED  BY <1>1, <1>2, <1>3, <1>4, <1>5 DEF Transferring

\* A step of the installation, or the end of a dialog.
LEMMA TasksStore ==
  ASSUME IInv, Serial, Proven, Stored, Tasks, ~DiskFaults
  PROVE  Stored' /\ StoreStep
<1>1. CASE ConfirmYes
  <2>1. frames # <<>> /\ Head(frames).kind = "confirm"
    BY <1>1 DEF ConfirmYes, In
  <2>2. Unapplied /\ FrameStored(Head(frames))
    BY <2>1, StoreHandler DEF ApplyKinds
  <2>3. PICK f : Swap(f) /\ f.kind = "loop" /\ f.i = 1
    BY <1>1 DEF ConfirmYes
  <2>4. Running' = {f} /\ ~UnderWay'
    BY <1>1, <2>1, <2>3, StoreHandler DEF ConfirmYes, UnderWay, NoTransfer, Active
  <2>5. FrameStored(f) /\ f.kind \notin ApplyKinds
    BY <2>1, <2>2, <2>3 DEF FrameStored, ApplyKinds, PlannedKinds
  <2>6. UNCHANGED DataState /\ saved' \in {saved, installed}
    BY <1>1 DEF ConfirmYes, DataState
  <2> QED  BY <2>2, <2>4, <2>5, <2>6, StoreMoves
<1>2. CASE ConfirmNo
  <2>1. frames # <<>> /\ Head(frames).kind = "confirm"
    BY <1>2 DEF ConfirmNo, ChartList, SaveShop, In
  <2>2. Unapplied /\ Running' = {}
    BY <1>2, <2>1, StoreHandler DEF ConfirmNo, ChartList, SaveShop, ApplyKinds
  <2>3. UNCHANGED DataState /\ saved' \in {saved, installed} /\ ~UnderWay'
    BY <1>2, <2>1, StoreHandler DEF ConfirmNo, ChartList, SaveShop, DataState, UnderWay, NoTransfer, Active
  <2> QED  BY <2>2, <2>3, StoreMoves
<1>3. CASE TaskCheck
  <2>1. frames # <<>> /\ Head(frames).kind = "loop" /\ LoopLeft
    BY <1>3 DEF TaskCheck, LoopLeft, In
  <2>2. /\ Unapplied /\ Head(frames) \in Frame /\ Head(frames) \in Running /\ FrameStored(Head(frames))
        /\ chain = 0 /\ NoTransfer
    BY <2>1, StoreHandler DEF ApplyKinds
  <2>3. Planned(target) /\ target \in Charts
    BY <2>1, <2>2, LaterTarget DEF FrameStored, PlannedKinds, Later, LaterKinds
  <2>4. Head(frames).i = 1
    BY <2>1, <2>2, <2>3 DEF FrameStored, LoopLeft, Planned
  <2> PICK f : f = [kind |-> "checked", i |-> Head(frames).i, chart |-> target,
                    task |-> LoopTask, good |-> FALSE,
                    yield |-> IF {1, 2} \subseteq verified[target] THEN "no" ELSE "all"]
    OBVIOUS
  <2>5. Swap(f) /\ UNCHANGED <<DataState, saved>> /\ ~UnderWay'
    BY <1>3, <2>2 DEF TaskCheck, DataState, UnderWay, NoTransfer, Active
  <2>6. Running' = {f}
    BY <2>1, <2>5, StoreHandler
  <2>7. f.kind = "checked" /\ f.i = 1 /\ f.chart = target /\ f.task = tasks[target][1]
    BY <2>4 DEF LoopTask
  <2>8. FrameStored(f)
    BY <2>3, <2>7 DEF FrameStored, PlannedKinds, ApplyKinds
  <2>9. (\A g \in Running : FrameStored(g))'
    BY <2>5, <2>6, <2>8, FrameSame
  <2>10. (\A b \in Charts : InPlace(b, installed[b]))' /\ Lists'
    BY <2>2, <2>5 DEF Stored, Unapplied, ApplyKinds, InPlace, Lists, DataState
  <2>11. Stored'
    BY <2>5, <2>9, <2>10 DEF Stored
  <2>12. Applying = {} /\ Applying' = {target}
    BY <2>2, <2>6, <2>7, NothingApplied DEF Applying
  <2>13. Store!Begin(target)
    BY <2>5, <2>12 DEF Store!Begin, DataState
  <2> QED  BY <2>3, <2>11, <2>13 DEF StoreStep, Store!Next
<1>4. CASE TaskCheckFails
  <2>1. frames # <<>> /\ Head(frames).kind = "loop"
    BY <1>4 DEF TaskCheckFails, LoopLeft, TaskError, In
  <2>2. Unapplied /\ FrameStored(Head(frames))
    BY <2>1, StoreHandler DEF ApplyKinds
  <2>3. PICK f : Swap(f) /\ f.kind = "report"
    BY <1>4 DEF TaskCheckFails, LoopLeft, TaskError
  <2>4. Running' = {f} /\ ~UnderWay'
    BY <1>4, <2>1, <2>3, StoreHandler DEF TaskCheckFails, LoopLeft, TaskError, UnderWay, NoTransfer, Active
  <2>5. FrameStored(f) /\ f.kind \notin ApplyKinds
    BY <2>1, <2>2, <2>3 DEF FrameStored, ApplyKinds, PlannedKinds
  <2>6. UNCHANGED DataState /\ saved' \in {saved, installed}
    BY <1>4 DEF TaskCheckFails, LoopLeft, TaskError, DataState
  <2> QED  BY <2>2, <2>4, <2>5, <2>6, StoreMoves
<1>5. CASE TaskUnpack
  <2> DEFINE h == Head(frames)
  <2>1. frames # <<>> /\ h.kind = "checked"
    BY <1>5 DEF TaskUnpack, In
  <2>2. /\ h \in Frame /\ h \in Running /\ FrameStored(h) /\ Running = {h}
        /\ chain = 0 /\ NoTransfer
    BY <2>1, StoreHandler
  <2>3. h \in TaskFrame
    BY <2>1, <2>2 DEF Frame, ClickFrame, SaveFrame, DialogFrame, VerifyFrame, LoopFrame, TaskFrame, ClickKinds
  <2>4. /\ Planned(target) /\ target \in Charts /\ h.chart = target /\ h.i = 1
        /\ h.task = tasks[target][1]
    BY <2>1, <2>2, LaterTarget DEF FrameStored, PlannedKinds, ApplyKinds, Later, LaterKinds
  <2> PICK f : f = [h EXCEPT !.kind = "copying", !.yield = "all",
                             !.good = \A g \in TaskFiles(h.chart, h.task) : Good(g)]
    OBVIOUS
  <2>5. /\ Swap(f) /\ UNCHANGED <<srv, known, refreshed, installed, saved, action, requested, tasks, target>>
        /\ ~UnderWay'
    BY <1>5, <2>2 DEF TaskUnpack, UnderWay, NoTransfer, Active
  <2>6. Running' = {f}
    BY <2>1, <2>5, StoreHandler
  <2>7. f.kind = "copying" /\ f.i = 1 /\ f.chart = target /\ f.task = h.task
    BY <2>3, <2>4 DEF TaskFrame
  <2>8. \A c \in Charts : InPlace(c, installed[c])
    BY <2>1, <2>2 DEF Stored
  <2>9. content' = IF action[target] = "REPLACE" \/ h.task.base
                   THEN [content EXCEPT ![target] = {}] ELSE content
    BY <1>5, <2>4 DEF TaskUnpack
  <2>10. \A c \in Charts : c # target => content'[c] = content[c]
    BY <2>9 DEF IInv, TypeOK, TypeContent
  <2>11. h.task.base \/ content' = content
    BY <2>4, <2>9 DEF Planned
  <2>12. FrameStored(f)'
    <3>1. Planned(target)' /\ f.task = tasks'[target'][1]
      BY <2>4, <2>5, <2>7 DEF Planned
    <3>2. f.task.base \/ InPlace(target, installed[target])'
      BY <2>4, <2>5, <2>7, <2>8, <2>11 DEF InPlace
    <3> QED  BY <2>5, <2>7, <3>1, <3>2 DEF FrameStored
  <2>13. Stored'
    <3>1. (\A g \in Running : FrameStored(g))'
      BY <2>6, <2>12
    <3>2. \A c \in Charts : c # target => InPlace(c, installed[c])'
      BY <2>5, <2>8, <2>10 DEF InPlace
    <3>3. Lists'
      BY <2>5 DEF Stored, Lists
    <3> QED  BY <2>5, <2>6, <2>7, <3>1, <3>2, <3>3 DEF Stored
  <2>14. Applying = {target} /\ Applying' = {target}
    BY <2>1, <2>2, <2>4, <2>6, <2>7 DEF Applying
  <2>15. Store!Clear(target) \/ UNCHANGED Store!store
    BY <2>5, <2>9, <2>14 DEF Store!Clear, Store!store
  <2> QED  BY <2>4, <2>13, <2>15 DEF StoreStep, Store!Next
<1>6. CASE TaskFinish
  <2> DEFINE h == Head(frames)
             brought == IF h.task.base THEN 1..h.task.ed ELSE {h.task.ed}
  <2>1. frames # <<>> /\ h.kind = "copying"
    BY <1>6 DEF TaskFinish, In
  <2>2. /\ h \in Frame /\ h \in Running /\ FrameStored(h) /\ Running = {h}
        /\ chain = 0 /\ NoTransfer
    BY <2>1, StoreHandler
  <2>3. /\ Planned(target) /\ target \in Charts /\ h.chart = target /\ h.i = 1
        /\ h.task = tasks[target][1] /\ h.good
    BY <2>1, <2>2, LaterTarget DEF FrameStored, PlannedKinds, ApplyKinds, Later, LaterKinds,
                                   Proven, FrameProven
  <2>4. h \in TaskFrame
    BY <2>1, <2>2 DEF Frame, ClickFrame, SaveFrame, DialogFrame, VerifyFrame, LoopFrame, TaskFrame, ClickKinds
  <2>5. content' = [content EXCEPT ![target] = content[target] \cup brought]
    BY <1>6, <2>3 DEF TaskFinish
  <2> PICK f : f = [kind |-> "loop", i |-> h.i + 1, yield |-> "no"]
    OBVIOUS
  <2>6. /\ Swap(f) /\ UNCHANGED <<srv, known, refreshed, installed, saved, action, requested, tasks, target>>
        /\ ~UnderWay'
    BY <1>6, <2>2 DEF TaskFinish, UnderWay, NoTransfer, Active
  <2>7. Running' = {f} /\ f.kind = "loop" /\ f.i = 2
    BY <2>1, <2>3, <2>6, StoreHandler
  <2>8. /\ h.task.ed = requested[target] /\ h.task.ed \in 1..MaxEd
        /\ installed[target] \in Nat /\ installed[target] <= requested[target]
        /\ h.task.base \/ requested[target] = installed[target] + 1
    BY <2>3, <2>4, InstallAssumption DEF Planned, TaskFrame, Task, IInv, TypeOK, TypeSlot, Edition
  <2>9. content'[target] = content[target] \cup brought
    BY <2>3, <2>5 DEF IInv, TypeOK, TypeContent
  <2>10. 1..requested[target] \subseteq content'[target]
    <3>1. CASE h.task.base
      BY <2>8, <2>9, <3>1
    <3>2. CASE ~h.task.base
      <4>1. 1..installed[target] \subseteq content[target]
        BY <2>1, <2>2, <3>2 DEF FrameStored, InPlace
      <4>2. 1..requested[target] \subseteq 1..installed[target] \cup {h.task.ed}
        BY <2>8, <3>2
      <4> QED  BY <2>9, <3>2, <4>1, <4>2
    <3> QED  BY <3>1, <3>2
  <2>11. 1..installed[target] \subseteq content'[target]
    <3>1. 1..installed[target] \subseteq 1..requested[target]
      BY <2>8
    <3> QED  BY <2>10, <3>1
  <2>12. FrameStored(f)'
    <3>1. Planned(target)' /\ InPlace(target, requested[target])'
      BY <2>3, <2>6, <2>10 DEF Planned, InPlace
    <3> QED  BY <2>7, <3>1 DEF FrameStored, PlannedKinds, ApplyKinds
  <2>13. \A c \in Charts : InPlace(c, installed[c])'
    <3>1. ASSUME NEW c \in Charts, c # target PROVE InPlace(c, installed[c])'
      <4>1. InPlace(c, installed[c])
        BY <2>2, <2>3, <3>1 DEF Stored
      <4>2. content'[c] = content[c]
        BY <2>5, <3>1 DEF IInv, TypeOK, TypeContent
      <4> QED  BY <2>6, <4>1, <4>2 DEF InPlace
    <3> QED  BY <2>6, <2>11, <3>1 DEF InPlace
  <2>14. Stored'
    <3>1. Lists'
      BY <2>6 DEF Stored, Lists
    <3> QED  BY <2>6, <2>7, <2>12, <2>13, <3>1 DEF Stored
  <2>15. Applying = {target} /\ Applying' = {}
    BY <2>1, <2>2, <2>3, <2>7 DEF Applying
  <2>16. brought \in SUBSET (1..MaxEd)
    BY <2>8, InstallAssumption
  <2> HIDE DEF brought
  <2>17. Store!Place(target)
    BY <2>5, <2>6, <2>11, <2>15, <2>16 DEF Store!Place
  <2> QED  BY <2>3, <2>14, <2>17 DEF StoreStep, Store!Next
<1>7. CASE TaskFinishFails
  <2>1. frames # <<>> /\ Head(frames).kind = "copying"
    BY <1>7 DEF TaskFinishFails, In
  <2>2. Head(frames).good
    BY <2>1, StoreHandler DEF Proven, FrameProven
  <2> QED  BY <1>7, <2>2 DEF TaskFinishFails
<1>8. CASE LoopDone
  <2>1. frames # <<>> /\ Head(frames).kind = "loop" /\ ~LoopLeft /\ In("loop")
    BY <1>8 DEF LoopDone, In
  <2>2. /\ Unapplied /\ Head(frames) \in Frame /\ Head(frames) \in Running /\ FrameStored(Head(frames))
        /\ chain = 0 /\ NoTransfer
    BY <2>1, StoreHandler DEF ApplyKinds
  <2>3. Planned(target) /\ target \in Charts
    BY <2>1, <2>2, LaterTarget DEF FrameStored, PlannedKinds, Later, LaterKinds
  <2>4. 1..requested[target] \subseteq content[target]
    BY <2>1, <2>2, <2>3 DEF FrameStored, LoopLeft, Planned, InPlace
  <2>5. requested[target] \in 1..MaxEd
    <3>1. tasks[target] \in Seq(Task) /\ Len(tasks[target]) = 1
      BY <2>3 DEF Planned, IInv, TypeOK, TypeJob
    <3>2. tasks[target][1] \in Task
      BY <3>1, ElementOfSeq
    <3> QED  BY <2>3, <3>2 DEF Planned, Task
  <2>6. saved = installed
    <3>1. \A c \in Charts : saved[c] = installed[c]
      BY <2>1, Settled DEF In
    <3> QED  BY <3>1 DEF IInv, TypeOK, TypeSlot
  <2>7. PICK f : Swap(f) /\ f.kind = "save"
    BY <1>8 DEF LoopDone
  <2>8. /\ installed' = [installed EXCEPT ![target] = requested[target]] /\ ~UnderWay'
        /\ UNCHANGED <<srv, known, refreshed, saved, content>>
    BY <1>8, <2>2 DEF LoopDone, UnderWay, NoTransfer, Active
  <2>9. Running' = {f}
    BY <2>1, <2>7, StoreHandler
  <2>10. (\A g \in Running : FrameStored(g))'
    BY <2>7, <2>9 DEF FrameStored, PlannedKinds, ApplyKinds
  <2>11. \A c \in Charts : InPlace(c, installed[c])'
    <3>1. ASSUME NEW c \in Charts, c # target PROVE InPlace(c, installed[c])'
      <4>1. InPlace(c, installed[c]) /\ installed'[c] = installed[c]
        BY <2>2, <2>8, <3>1 DEF Stored, Unapplied, ApplyKinds, IInv, TypeOK, TypeSlot
      <4> QED  BY <2>8, <4>1 DEF InPlace
    <3>2. installed'[target] = requested[target]
      BY <2>3, <2>8 DEF IInv, TypeOK, TypeSlot
    <3>3. ASSUME NEW c \in Charts, c = target PROVE InPlace(c, installed[c])'
      BY <2>4, <2>8, <3>2, <3>3 DEF InPlace
    <3> QED  BY <3>1, <3>3
  <2>12. Lists'
    <3>1. requested[target] = known[target]
      BY <2>3 DEF Planned
    <3>2. \A c \in Charts : installed'[c] = installed[c] \/ installed'[c] = known[c]
      BY <2>8, <3>1 DEF IInv, TypeOK, TypeSlot
    <3>3. \A c \in Charts : known[c] <= known[c]
      BY InstallAssumption DEF IInv, TypeOK, TypeList, Edition
    <3> QED  BY <2>8, <3>2, <3>3 DEF Stored, Lists
  <2>13. Stored'
    BY <2>8, <2>10, <2>11, <2>12 DEF Stored
  <2>14. Applying = {} /\ Applying' = {}
    BY <2>2, <2>7, <2>9, NothingApplied DEF Applying
  <2>15. Store!Record(target, requested[target])
    BY <2>4, <2>6, <2>8, <2>14 DEF Store!Record, Store!Complete
  <2> QED  BY <2>3, <2>5, <2>13, <2>15 DEF StoreStep, Store!Next
<1>9. CASE SaveConfig
  <2>1. frames # <<>> /\ Head(frames).kind = "save"
    BY <1>9 DEF SaveConfig, SaveShop, In
  <2>2. Unapplied /\ FrameStored(Head(frames))
    BY <2>1, StoreHandler DEF ApplyKinds
  <2>3. PICK f : Swap(f) /\ f.kind = "report"
    BY <1>9 DEF SaveConfig, SaveShop
  <2>4. Running' = {f} /\ ~UnderWay'
    BY <1>9, <2>1, <2>3, StoreHandler DEF SaveConfig, SaveShop, UnderWay, NoTransfer, Active
  <2>5. FrameStored(f) /\ f.kind \notin ApplyKinds
    BY <2>1, <2>2, <2>3 DEF FrameStored, ApplyKinds, PlannedKinds
  <2>6. UNCHANGED DataState /\ saved' \in {saved, installed}
    BY <1>9 DEF SaveConfig, SaveShop, DataState
  <2> QED  BY <2>2, <2>4, <2>5, <2>6, StoreMoves
<1>10. CASE CloseFailed
  <2>1. frames # <<>> /\ Head(frames).kind = "failed"
    BY <1>10 DEF CloseFailed, ChartList, SaveShop, In
  <2>2. Unapplied /\ Running' = {}
    BY <1>10, <2>1, StoreHandler DEF CloseFailed, ChartList, SaveShop, ApplyKinds
  <2>3. UNCHANGED DataState /\ saved' \in {saved, installed} /\ ~UnderWay'
    BY <1>10, <2>1, StoreHandler DEF CloseFailed, ChartList, SaveShop, DataState, UnderWay, NoTransfer, Active
  <2> QED  BY <2>2, <2>3, StoreMoves
<1>11. CASE CloseAborted
  <2>1. frames # <<>> /\ Head(frames).kind = "aborted"
    BY <1>11 DEF CloseAborted, In
  <2>2. Unapplied /\ Running' = {}
    BY <1>11, <2>1, StoreHandler DEF CloseAborted, ApplyKinds
  <2>3. UNCHANGED DataState /\ saved' \in {saved, installed} /\ ~UnderWay'
    BY <1>11, <2>1, StoreHandler DEF CloseAborted, DataState, UnderWay, NoTransfer, Active
  <2> QED  BY <2>2, <2>3, StoreMoves
<1>12. CASE CloseReport
  <2>1. frames # <<>> /\ Head(frames).kind = "report"
    BY <1>12 DEF CloseReport, ChartList, SaveShop, In
  <2>2. Unapplied /\ Running' = {}
    BY <1>12, <2>1, StoreHandler DEF CloseReport, ChartList, SaveShop, ApplyKinds
  <2>3. UNCHANGED DataState /\ saved' \in {saved, installed} /\ ~UnderWay'
    BY <1>12, <2>1, StoreHandler DEF CloseReport, ChartList, SaveShop, DataState, UnderWay, NoTransfer, Active
  <2> QED  BY <2>2, <2>3, StoreMoves
<1> QED  BY <1>1, <1>2, <1>3, <1>4, <1>5, <1>6, <1>7, <1>8, <1>9, <1>10, <1>11, <1>12 DEF Tasks

\* The shop's publishing an edition, and a step of nothing.
LEMMA PublishStore ==
  ASSUME IInv, Stored, NEW b \in Charts, ServerPublish(b)
  PROVE  Stored' /\ StoreStep
<1>1. UNCHANGED <<known, refreshed, installed, saved, content, action, requested, tasks, target, frames>>
  BY DEF ServerPublish
<1>2. Running' = Running /\ Applying' = Applying /\ UnderWay' = UnderWay
  BY DEF ServerPublish, Running, Applying, UnderWay, Active
<1>3. \A f : FrameStored(f)' = FrameStored(f) /\ Planned(target)' = Planned(target)
  BY <1>1 DEF FrameStored, Planned, InPlace
<1>4. \A c \in Charts : srv'[c] \in Nat /\ srv[c] \in Nat /\ srv[c] <= srv'[c]
  BY InstallAssumption DEF ServerPublish, IInv, TypeOK, TypeList
<1>5. \A c \in Charts : installed[c] \in Nat /\ known[c] \in Nat
  BY InstallAssumption DEF IInv, TypeOK, TypeList, TypeSlot, Edition
<1>6. Lists'
  BY <1>1, <1>4, <1>5 DEF Stored, Lists
<1>7. Stored'
  BY <1>1, <1>2, <1>3, <1>6 DEF Stored, InPlace
<1> QED  BY <1>1, <1>2, <1>7, SavesOnly

\* What a patient user's program needs for the store: an answer has one task, no disk
\* fails, the program is not killed (a kill between TaskUnpack and TaskFinish leaves a
\* recorded edition that is not in place), and no other chart is selected before a
\* click on Install has set the override status (the request would name its file and
\* edition with the slot of the first), or there is no other.
Undisturbed ==
  /\ ~EagerUser /\ MaxTasks = 1 /\ ~DiskFaults /\ ~Crashes
  /\ Reselects => \A c, d \in Charts : c = d

LEMMA StepStored ==
  ASSUME IInv, Serial, Proven, Stored, OwnPanel, [Next]_vars, Undisturbed
  PROVE  Stored' /\ StoreStep
<1>1. CASE User
  BY <1>1, UserStore DEF Undisturbed
<1>2. CASE Crash
  BY <1>2 DEF Crash, Undisturbed
<1>3. CASE System
  BY <1>3, InstallingStore, ChainingStore, TransferringStore, TasksStore DEF System, Undisturbed
<1>4. CASE \E c \in Charts : ServerPublish(c)
  BY <1>4, PublishStore
<1>5. CASE UNCHANGED vars
  <2>1. UNCHANGED <<DataState, frames>> /\ saved' \in {saved, installed} /\ UnderWay' = UnderWay
    BY <1>5 DEF vars, DataState, UnderWay, Active
  <2> QED  BY <2>1, StoreSame
<1> QED  BY <1>1, <1>2, <1>3, <1>4, <1>5 DEF Next

LEMMA InitStored ==
  ASSUME Init
  PROVE  Stored /\ Store!Init
<1>1. Running = {} /\ ~UnderWay /\ Applying = {}
  BY DEF Init, Running, UnderWay, Applying, Active, Idle
<1>2. Lists /\ \A c \in Charts : InPlace(c, installed[c])
  BY DEF Init, Lists, InPlace
<1>3. installed \in [Charts -> 0..MaxEd]
  BY InstallAssumption DEF Init
<1> QED  BY <1>1, <1>2, <1>3 DEF Stored, Init, Store!Init

\* The recorded edition is in place, and every step is one of the abstract store.
LEMMA StoredAlways == Undisturbed => (Spec => []Stored /\ [][StoreStep]_vars)
<1> SUFFICES ASSUME Undisturbed PROVE Spec => []Stored /\ [][StoreStep]_vars
  OBVIOUS
<1>1. Init => Stored
  BY InitStored
<1>2. IInv /\ Serial /\ Proven /\ Stored /\ OwnPanel /\ [Next]_vars => Stored' /\ StoreStep
  BY StepStored
<1>3. Spec => []Serial /\ []Proven /\ []OwnPanel
  BY NeverNested, ProvenAlways, PanelFollowed DEF Undisturbed
<1> QED  BY <1>1, <1>2, <1>3, InductiveInv, PTL DEF Spec

\* The install chain implements the abstract store of charts: whatever the downloads,
\* dialogs, clicks and cancellations of a patient user do, tasks are applied to one
\* chartset at a time, each leaves the recorded edition in place, an edition is
\* recorded only when all of it is, and it is saved before the next one.
THEOREM ImplementsStore == Undisturbed => (Spec => StoreSpec)
<1> SUFFICES ASSUME Undisturbed PROVE Spec => StoreSpec
  OBVIOUS
<1>1. Init => Store!Init
  BY InitStored
<1>2. StoreStep => [Store!Next]_(Store!store)
  BY DEF StoreStep
<1>3. UNCHANGED vars => UNCHANGED Store!store
  BY DEF vars, Store!store, Applying, Running
<1> QED  BY <1>1, <1>2, <1>3, StoredAlways, PTL DEF Spec, StoreSpec, Store!Spec

\* An edition is recorded as installed only when every change up to it is in the chart
\* directory: a cancelled, failed or half-applied job is never recorded.
THEOREM Commits == Undisturbed => (Spec => CommitComplete)
<1> SUFFICES ASSUME Undisturbed PROVE Spec => CommitComplete
  OBVIOUS
<1>1. ASSUME StoreStep, IInv
      PROVE  \A c \in Charts : installed'[c] # installed[c] => 1..installed'[c] \subseteq content'[c]
  <2> SUFFICES ASSUME NEW c \in Charts, installed'[c] # installed[c]
               PROVE  1..installed'[c] \subseteq content'[c]
    OBVIOUS
  <2>1. PICK b \in Charts, e \in 1..MaxEd : Store!Record(b, e)
    BY <1>1 DEF StoreStep, Store!Next, Store!store, Store!Save, Store!Begin, Store!Clear, Store!Place
  <2>2. installed' = [installed EXCEPT ![b] = e] /\ content' = content /\ 1..e \subseteq content[b]
    BY <2>1 DEF Store!Record, Store!Complete
  <2>3. c = b /\ installed'[c] = e
    BY <1>1, <2>2 DEF IInv, TypeOK, TypeSlot
  <2> QED  BY <2>2, <2>3
<1> QED  BY <1>1, StoredAlways, InductiveInv, PTL DEF CommitComplete

\* Outside the copying of a task the recorded edition of every chartset is complete in
\* its directory.
THEOREM RecordedInPlace ==
  Undisturbed => (Spec => [](\A c \in Charts : c \in Applying \/ 1..installed[c] \subseteq content[c]))
<1>1. Stored => \A c \in Charts : c \in Applying \/ 1..installed[c] \subseteq content[c]
  BY DEF Stored, Applying, InPlace
<1> QED  BY <1>1, StoredAlways, PTL

=============================================================================
