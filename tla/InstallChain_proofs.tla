------------------------ MODULE InstallChain_proofs ------------------------
(***************************************************************************)
(* Proofs about InstallChain, for any number of chartsets, curl threads,   *)
(* editions, clicks and nested handlers: the types and what is saved, for  *)
(* any user, disk and crash; that nothing nests for a patient user; and    *)
(* that the panel's buttons and override status follow what is under way.  *)
(***************************************************************************)
EXTENDS InstallChain, SequenceTheorems, TLAPS

-----------------------------------------------------------------------------
(* The stack of handlers.                                                  *)

\* The innermost handler is one of those that run.
LEMMA HeadRuns ==
  ASSUME frames \in Seq(Frame), frames # <<>>
  PROVE  Head(frames) \in Frame /\ Head(frames) \in Running
<1>1. Head(frames) \in Frame /\ 1 \in DOMAIN frames
  BY HeadTailProperties, EmptySeq, LenProperties
<1>2. Head(frames) = frames[1]
  BY DEF Head
<1> QED  BY <1>1, <1>2 DEF Running

\* Push adds one handler, which becomes the innermost.
LEMMA PushRuns ==
  ASSUME frames \in Seq(Frame), NEW f \in Frame, Push(f)
  PROVE  /\ frames' \in Seq(Frame) /\ frames' # <<>> /\ Head(frames') = f
         /\ Running' \subseteq Running \cup {f}
<1>1. /\ <<f>> \in Seq(Frame) /\ Len(<<f>>) = 1 /\ <<f>>[1] = f
  OBVIOUS
<1>2. /\ frames' \in Seq(Frame) /\ Len(frames') = 1 + Len(frames)
      /\ \A i \in 1..(1 + Len(frames)) :
           frames'[i] = IF i <= 1 THEN <<f>>[i] ELSE frames[i - 1]
  BY <1>1, ConcatProperties DEF Push
<1>3. Len(frames) \in Nat /\ DOMAIN frames = 1..Len(frames)
      /\ DOMAIN frames' = 1..Len(frames')
  BY <1>2, LenProperties
<1>4. frames' # <<>> /\ Head(frames') = f
  BY <1>1, <1>2, <1>3, EmptySeq DEF Head
<1>5. ASSUME NEW i \in DOMAIN frames'
      PROVE  frames'[i] \in Running \cup {f}
  <2>1. CASE i = 1
    BY <2>1, <1>1, <1>2, <1>3
  <2>2. CASE i # 1
    <3>1. i \in 1..(1 + Len(frames)) /\ i - 1 \in DOMAIN frames /\ ~(i <= 1)
      BY <2>2, <1>2, <1>3
    <3>2. frames'[i] = frames[i - 1]
      BY <3>1, <1>2
    <3> QED  BY <3>1, <3>2 DEF Running
  <2> QED  BY <2>1, <2>2
<1>6. Running' \subseteq Running \cup {f}
  BY <1>5 DEF Running
<1> QED  BY <1>2, <1>4, <1>6

\* Pop ends the innermost handler and leaves the others.
LEMMA PopRuns ==
  ASSUME frames \in Seq(Frame), frames # <<>>, Pop
  PROVE  frames' \in Seq(Frame) /\ Running' \subseteq Running
<1>1. /\ frames' \in Seq(Frame) /\ Len(frames') = Len(frames) - 1
      /\ \A i \in 1..Len(frames') : frames'[i] = frames[i + 1]
  BY HeadTailProperties DEF Pop
<1>2. Len(frames) \in Nat /\ DOMAIN frames = 1..Len(frames)
      /\ DOMAIN frames' = 1..Len(frames')
  BY <1>1, LenProperties
<1> QED  BY <1>1, <1>2 DEF Running

\* Swap replaces the innermost handler.
LEMMA SwapRuns ==
  ASSUME frames \in Seq(Frame), frames # <<>>, NEW f \in Frame, Swap(f)
  PROVE  /\ frames' \in Seq(Frame) /\ frames' # <<>> /\ Head(frames') = f
         /\ Running' \subseteq Running \cup {f}
<1> DEFINE rest == Tail(frames)
<1>1. /\ rest \in Seq(Frame) /\ Len(rest) = Len(frames) - 1
      /\ \A i \in 1..Len(rest) : rest[i] = frames[i + 1]
  BY HeadTailProperties
<1>2. /\ <<f>> \in Seq(Frame) /\ Len(<<f>>) = 1 /\ <<f>>[1] = f
  OBVIOUS
<1> HIDE DEF rest
<1>3. /\ frames' \in Seq(Frame) /\ Len(frames') = 1 + Len(rest)
      /\ \A i \in 1..(1 + Len(rest)) :
           frames'[i] = IF i <= 1 THEN <<f>>[i] ELSE rest[i - 1]
  BY <1>1, <1>2, ConcatProperties DEF Swap, rest
<1>4. Len(frames) \in Nat /\ DOMAIN frames = 1..Len(frames)
      /\ DOMAIN frames' = 1..Len(frames')
  BY <1>3, LenProperties
<1>5. frames' # <<>> /\ Head(frames') = f
  BY <1>1, <1>2, <1>3, <1>4, EmptySeq DEF Head
<1>6. ASSUME NEW i \in DOMAIN frames'
      PROVE  frames'[i] \in Running \cup {f}
  <2>1. CASE i = 1
    BY <2>1, <1>2, <1>3, <1>4
  <2>2. CASE i # 1
    <3>1. i \in 1..(1 + Len(rest)) /\ i - 1 \in 1..Len(rest) /\ ~(i <= 1)
      BY <2>2, <1>1, <1>3, <1>4
    <3>2. frames'[i] = frames[i] /\ i \in DOMAIN frames
      BY <3>1, <1>1, <1>3, <1>4
    <3> QED  BY <3>2 DEF Running
  <2> QED  BY <2>1, <2>2
<1>7. Running' \subseteq Running \cup {f}
  BY <1>6 DEF Running
<1> QED  BY <1>3, <1>5, <1>7

-----------------------------------------------------------------------------
(* What is known of the innermost handler.                                 *)

LEMMA HeadKnown ==
  ASSUME TypeOK, NEW k, In(k)
  PROVE  /\ frames \in Seq(Frame) /\ frames # <<>>
         /\ Head(frames) \in Frame /\ Head(frames) \in Running
         /\ Head(frames).kind = k
BY HeadRuns DEF TypeOK, TypeFrames, In

\* While the event loop can run a handler, or the innermost one is not about to
\* save, every record is saved.
LEMMA Settled ==
  ASSUME IInv, EventsRun \/ UserRuns \/ ~In("save")
  PROVE  \A c \in Charts : saved[c] = installed[c]
<1>1. ASSUME In("save") PROVE Head(frames).yield = "no" /\ frames # <<>>
  <2>1. Head(frames) \in Frame /\ Head(frames).kind = "save" /\ frames # <<>>
    BY <1>1, HeadKnown DEF IInv
  <2> QED  BY <2>1 DEF Frame, ClickFrame, ClickKinds, SaveFrame, DialogFrame, VerifyFrame,
                      LoopFrame, TaskFrame
<1> QED  BY <1>1 DEF IInv, SavedNext, EventsRun, UserRuns

-----------------------------------------------------------------------------
(* The inductive invariant: type correctness, and what it needs.           *)

USE DEF listVars, slotVars, jobVars, uiVars, netVars, ClickKinds

\* A restart loses whatever is not on disk.
LEMMA RestartStep ==
  ASSUME IInv, Restart, clicks' \in Nat
  PROVE  IInv'
<1>1. frames' = <<>> /\ Running' = {}
  BY DEF Restart, Running
<1>2. TypeList' /\ TypeSlot' /\ TypeContent'
  <2>0. 0 \in Edition
    BY InstallAssumption DEF Edition
  <2>1. TypeList'
    BY <2>0 DEF Restart, IInv, TypeOK, TypeList
  <2>2. TypeSlot'
    BY DEF Restart, IInv, TypeOK, TypeSlot
  <2>3. TypeContent'
    BY DEF Restart, IInv, TypeOK, TypeContent
  <2> QED  BY <2>1, <2>2, <2>3
<1>3. TypeJob' /\ TypeQueue'
  <2>1. <<>> \in Seq(Task)
    BY EmptySeq
  <2>2. 0 \in Edition
    BY InstallAssumption DEF Edition
  <2>3. tasks' \in [Charts -> Seq(Task)] /\ queue' \in [Charts -> Seq(Task)]
    BY <2>1 DEF Restart
  <2>4. TypeJob'
    BY <2>2, <2>3 DEF Restart, TypeJob
  <2>5. TypeQueue'
    BY DEF Restart, TypeQueue
  <2> QED  BY <2>4, <2>5
<1>4. TypePanel' /\ TypeNet'
  BY DEF Restart, TypePanel, TypeNet, Transfer, Idle
<1>5. TypeCache' /\ TypeFrames'
  BY <1>1, EmptySeq DEF Restart, IInv, TypeOK, TypeCache, TypeFrames
<1>6. Ready' /\ Targeted'
  BY <1>1 DEF Restart, Ready, Targeted, Idle
<1>7. SavedNext'
  BY DEF Restart, SavedNext
<1> QED  BY <1>2, <1>3, <1>4, <1>5, <1>6, <1>7 DEF IInv, TypeOK

\* Every answer to a request for an edition of the server is a list of tasks.
LEMMA AnswersType ==
  ASSUME NEW act, NEW at \in Edition, NEW to \in 1..MaxEd
  PROVE  Answers(act, at, to) \subseteq Seq(Task)
<1> DEFINE n == to - at
           step == [k \in 1..n |-> [ed |-> at + k, base |-> FALSE]]
<1>1. at \in 0..MaxEd /\ MaxEd \in Nat
  BY InstallAssumption DEF Edition
<1>2. <<[ed |-> to, base |-> TRUE]>> \in Seq(Task)
  BY <1>1 DEF Task
<1>3. ASSUME n \in 1..MaxTasks PROVE step \in Seq(Task)
  <2>1. n \in Nat /\ \A k \in 1..n : [ed |-> at + k, base |-> FALSE] \in Task
    BY <1>1, <1>3 DEF Task
  <2>2. step \in [1..n -> Task]
    BY <2>1
  <2> QED  BY <2>1, <2>2, SeqDef
<1> QED  BY <1>2, <1>3 DEF Answers

\* A click.
LEMMA UserStep ==
  ASSUME IInv, User
  PROVE  IInv'
<1>1. CASE ClickUpdate
  <2>1. frames' = frames /\ Running' = Running
    BY <1>1 DEF ClickUpdate, Running, SaveShop
  <2>2. TypeList'
    BY <1>1, InstallAssumption DEF ClickUpdate, IInv, TypeOK, TypeList, Edition, SaveShop
  <2>3. TypeSlot'
    BY <1>1, InstallAssumption DEF ClickUpdate, IInv, TypeOK, TypeSlot, SaveShop
  <2>4. TypePanel'
    BY <1>1, InstallAssumption DEF ClickUpdate, IInv, TypeOK, TypePanel, SaveShop
  <2>5. TypeCache'
    BY <1>1, InstallAssumption DEF ClickUpdate, IInv, TypeOK, TypeCache, Drop, Quality, SaveShop
  <2>6. TypeContent' /\ TypeJob' /\ TypeQueue' /\ TypeNet'
    BY <1>1 DEF ClickUpdate, IInv, TypeOK, TypeContent, TypeJob, TypeQueue, TypeNet, SaveShop
  <2>7. TypeFrames'
    BY <1>1, <2>1 DEF ClickUpdate, IInv, TypeOK, TypeFrames, SaveShop
  <2>8. Ready'
    BY <1>1, <2>1 DEF ClickUpdate, IInv, Ready, SaveShop, TypeOK, TypeList
  <2>9. Targeted'
    BY <1>1, <2>1 DEF ClickUpdate, IInv, Targeted, SaveShop
  <2>10. SavedNext'
    BY <1>1, <2>1 DEF ClickUpdate, IInv, SavedNext, In, SaveShop
  <2> QED  BY <2>2, <2>3, <2>4, <2>5, <2>6, <2>7, <2>8, <2>9, <2>10 DEF IInv, TypeOK
<1>2. CASE ClickUpdateFails
  <2>1. frames' = frames /\ Running' = Running
    BY <1>2 DEF ClickUpdateFails, Running
  <2>2. TypeSlot'
    BY <1>2, InstallAssumption DEF ClickUpdateFails, IInv, TypeOK, TypeSlot
  <2>3. TypePanel'
    BY <1>2, InstallAssumption DEF ClickUpdateFails, IInv, TypeOK, TypePanel
  <2>4. TypeList' /\ TypeContent' /\ TypeJob' /\ TypeQueue' /\ TypeNet' /\ TypeCache'
    BY <1>2 DEF ClickUpdateFails, IInv, TypeOK, TypeList, TypeContent, TypeJob, TypeQueue, TypeNet, TypeCache
  <2>5. TypeFrames'
    BY <1>2, <2>1 DEF ClickUpdateFails, IInv, TypeOK, TypeFrames
  <2>6. Ready'
    BY <1>2, <2>1 DEF ClickUpdateFails, IInv, Ready
  <2>7. Targeted'
    BY <1>2, <2>1 DEF ClickUpdateFails, IInv, Targeted
  <2>8. SavedNext'
    BY <1>2, <2>1 DEF ClickUpdateFails, IInv, SavedNext, In
  <2> QED  BY <2>2, <2>3, <2>4, <2>5, <2>6, <2>7, <2>8 DEF IInv, TypeOK
<1>3. CASE ClickCancel
  <2>1. frames' = frames /\ Running' = Running
    BY <1>3 DEF ClickCancel, Running, ChartList, Controls, SaveShop
  <2>2. TypeSlot'
    BY <1>3, InstallAssumption DEF ClickCancel, IInv, TypeOK, TypeSlot, ChartList, SaveShop, Controls
  <2>3. TypeQueue'
    BY <1>3, InstallAssumption DEF ClickCancel, IInv, TypeOK, TypeQueue, ChartList, Controls, SaveShop
  <2>4. TypePanel'
    BY <1>3, InstallAssumption DEF ClickCancel, IInv, TypeOK, TypePanel, ChartList, Controls, SaveShop
  <2>5. TypeNet'
    BY <1>3, InstallAssumption DEF ClickCancel, IInv, TypeOK, TypeNet, Transfer, ChartList, Controls, SaveShop
  <2>6. TypeList' /\ TypeContent' /\ TypeJob' /\ TypeCache'
    BY <1>3 DEF ClickCancel, IInv, TypeOK, TypeList, TypeContent, TypeJob, TypeCache, ChartList, Controls, SaveShop
  <2>7. TypeFrames'
    BY <1>3, <2>1 DEF ClickCancel, IInv, TypeOK, TypeFrames, ChartList, Controls, SaveShop
  <2>8. Ready'
    BY <1>3, <2>1 DEF ClickCancel, IInv, Ready, ChartList, Controls, SaveShop
  <2>9. Targeted'
    BY <1>3, <2>1 DEF ClickCancel, IInv, Targeted, ChartList, Controls, SaveShop, TypeOK, TypeNet, Transfer
  <2>10. SavedNext'
    BY <1>3, <2>1 DEF ClickCancel, IInv, SavedNext, In, ChartList, Controls, SaveShop
  <2> QED  BY <2>2, <2>3, <2>4, <2>5, <2>6, <2>7, <2>8, <2>9, <2>10 DEF IInv, TypeOK
<1>4. ASSUME NEW c \in Charts, ClickSelect(c) PROVE IInv'
  <2>1. frames' = frames /\ Running' = Running
    BY <1>4 DEF ClickSelect, Running, Controls
  <2>2. TypePanel'
    BY <1>4, InstallAssumption DEF ClickSelect, IInv, TypeOK, TypePanel, Controls
  <2>3. TypeList' /\ TypeSlot' /\ TypeContent' /\ TypeJob' /\ TypeQueue' /\ TypeNet' /\ TypeCache'
    BY <1>4 DEF ClickSelect, IInv, TypeOK, TypeList, TypeSlot, TypeContent, TypeJob, TypeQueue, TypeNet, TypeCache, Controls
  <2>4. TypeFrames'
    BY <1>4, <2>1 DEF ClickSelect, IInv, TypeOK, TypeFrames, Controls
  <2>5. Ready'
    BY <1>4, <2>1 DEF ClickSelect, IInv, Ready, Controls
  <2>6. Targeted'
    BY <1>4, <2>1 DEF ClickSelect, IInv, Targeted, Controls
  <2>7. SavedNext'
    BY <1>4, <2>1 DEF ClickSelect, IInv, SavedNext, In, Controls
  <2> QED  BY <2>2, <2>3, <2>4, <2>5, <2>6, <2>7 DEF IInv, TypeOK
<1>5. ASSUME NEW c \in Charts, ClickInstall(c) PROVE IInv'
  <2> DEFINE f == [kind |-> "named", chart |-> c, yield |-> "all"]
  <2>1. f \in Frame
    BY <1>5 DEF ClickInstall, Frame, ClickFrame, SaveFrame, DialogFrame, VerifyFrame, LoopFrame, TaskFrame, Yield, IInv, TypeOK
  <2>2. frames' \in Seq(Frame) /\ Running' \subseteq Running \cup {f}
    BY <1>5, <2>1, PushRuns DEF ClickInstall, IInv, TypeOK, TypeFrames
  <2>3. TypePanel'
    BY <1>5, InstallAssumption DEF ClickInstall, IInv, TypeOK, TypePanel
  <2>4. TypeList' /\ TypeSlot' /\ TypeContent' /\ TypeJob' /\ TypeQueue' /\ TypeNet' /\ TypeCache'
    BY <1>5 DEF ClickInstall, IInv, TypeOK, TypeList, TypeSlot, TypeContent, TypeJob, TypeQueue, TypeNet, TypeCache
  <2>5. TypeFrames'
    BY <1>5, <2>2 DEF ClickInstall, IInv, TypeOK, TypeFrames
  <2>6. Ready'
    BY <1>5, <2>2 DEF ClickInstall, IInv, Ready
  <2>7. Targeted'
    BY <1>5, <2>2 DEF ClickInstall, IInv, Targeted
  <2>8. SavedNext'
    BY <1>5, Settled DEF ClickInstall, IInv, SavedNext
  <2> QED  BY <2>3, <2>4, <2>5, <2>6, <2>7, <2>8 DEF IInv, TypeOK
<1>6. CASE ClickInstallNothing
  <2>1. Restart /\ clicks' \in Nat
    BY <1>6 DEF ClickInstallNothing, IInv, TypeOK, TypeFrames
  <2> QED  BY <2>1, RestartStep
<1>7. ASSUME NEW c \in Charts, ClickInstallRefused(c) PROVE IInv'
  <2>1. frames' = frames /\ Running' = Running
    BY <1>7 DEF ClickInstallRefused, Running
  <2>2. TypePanel'
    BY <1>7, InstallAssumption DEF ClickInstallRefused, IInv, TypeOK, TypePanel
  <2>3. TypeList' /\ TypeSlot' /\ TypeContent' /\ TypeJob' /\ TypeQueue' /\ TypeNet' /\ TypeCache'
    BY <1>7 DEF ClickInstallRefused, IInv, TypeOK, TypeList, TypeSlot, TypeContent, TypeJob, TypeQueue, TypeNet, TypeCache
  <2>4. TypeFrames'
    BY <1>7, <2>1 DEF ClickInstallRefused, IInv, TypeOK, TypeFrames
  <2>5. Ready'
    BY <1>7, <2>1 DEF ClickInstallRefused, IInv, Ready
  <2>6. Targeted'
    BY <1>7, <2>1 DEF ClickInstallRefused, IInv, Targeted
  <2>7. SavedNext'
    BY <1>7, <2>1 DEF ClickInstallRefused, IInv, SavedNext, In
  <2> QED  BY <2>2, <2>3, <2>4, <2>5, <2>6, <2>7 DEF IInv, TypeOK
<1> QED  BY <1>1, <1>2, <1>3, <1>4, <1>5, <1>6, <1>7 DEF User

\* A step of OnButtonInstall.
LEMMA InstallingStep ==
  ASSUME IInv, Installing
  PROVE  IInv'
<1>1. CASE DisableInstall
  <2>1. frames \in Seq(Frame) /\ frames # <<>> /\ Head(frames) \in Frame /\ Head(frames) \in Running
       /\ Head(frames).kind = "asked"  /\ ~In("save")
    BY <1>1, HeadKnown DEF DisableInstall, IInv, In
  <2>2. Head(frames).chart \in Charts
    BY <2>1 DEF Frame, ClickFrame, SaveFrame, DialogFrame, VerifyFrame, LoopFrame, TaskFrame, Yield
  <2> DEFINE f == [kind |-> "prepare", chart |-> Head(frames).chart, yield |-> "all"]
  <2>3. f \in Frame
    BY <1>1, <2>1, <2>2 DEF DisableInstall, Frame, ClickFrame, SaveFrame, DialogFrame, VerifyFrame, LoopFrame, TaskFrame, Yield, IInv, TypeOK
  <2>4. frames' \in Seq(Frame) /\ frames' # <<>> /\ Head(frames') = f /\ Running' \subseteq Running \cup {f}
    BY <1>1, <2>1, <2>2, <2>3, SwapRuns DEF DisableInstall
  <2>5. TypePanel'
    BY <1>1, <2>1, <2>2, InstallAssumption DEF DisableInstall, IInv, TypeOK, TypePanel
  <2>6. TypeList' /\ TypeSlot' /\ TypeContent' /\ TypeJob' /\ TypeQueue' /\ TypeNet' /\ TypeCache'
    BY <1>1 DEF DisableInstall, IInv, TypeOK, TypeList, TypeSlot, TypeContent, TypeJob, TypeQueue, TypeNet, TypeCache
  <2>7. TypeFrames'
    BY <1>1, <2>4 DEF DisableInstall, IInv, TypeOK, TypeFrames
  <2>8. Ready'
    BY <1>1, <2>1, <2>2, <2>4 DEF DisableInstall, IInv, Ready
  <2>9. Targeted'
    BY <1>1, <2>1, <2>2, <2>4 DEF DisableInstall, IInv, Targeted
  <2>10. SavedNext'
    BY <1>1, <2>1, <2>2, Settled DEF DisableInstall, IInv, SavedNext
  <2> QED  BY <2>5, <2>6, <2>7, <2>8, <2>9, <2>10 DEF IInv, TypeOK
<1>2. CASE InstallFails
  <2>1. frames \in Seq(Frame) /\ frames # <<>> /\ Head(frames) \in Frame /\ Head(frames) \in Running
       /\ Head(frames).kind = "prepare"  /\ ~In("save")
    BY <1>2, HeadKnown DEF InstallFails, IInv, In
  <2>2. Head(frames).chart \in Charts
    BY <2>1 DEF Frame, ClickFrame, SaveFrame, DialogFrame, VerifyFrame, LoopFrame, TaskFrame, Yield
  <2>3. frames' \in Seq(Frame) /\ Running' \subseteq Running
    BY <1>2, <2>1, <2>2, PopRuns DEF InstallFails
  <2>4. TypePanel'
    BY <1>2, <2>1, <2>2, InstallAssumption DEF InstallFails, IInv, TypeOK, TypePanel, Controls
  <2>s. TypeSlot'
    BY <1>2 DEF InstallFails, IInv, TypeOK, TypeSlot
  <2>5. TypeList' /\ TypeContent' /\ TypeJob' /\ TypeQueue' /\ TypeNet' /\ TypeCache'
    BY <1>2 DEF InstallFails, IInv, TypeOK, TypeList, TypeContent, TypeJob, TypeQueue, TypeNet, TypeCache, Controls
  <2>6. TypeFrames'
    BY <1>2, <2>3 DEF InstallFails, IInv, TypeOK, TypeFrames, Controls
  <2>7. Ready'
    BY <1>2, <2>1, <2>2, <2>3 DEF InstallFails, IInv, Ready, Controls
  <2>8. Targeted'
    BY <1>2, <2>1, <2>2, <2>3 DEF InstallFails, IInv, Targeted, Controls
  <2>9. SavedNext'
    BY <1>2, <2>1, <2>2, Settled DEF InstallFails, IInv, SavedNext, Controls
  <2> QED  BY <2>4, <2>s, <2>5, <2>6, <2>7, <2>8, <2>9 DEF IInv, TypeOK
<1>3. CASE InstallLeaves
  <2>1. frames \in Seq(Frame) /\ frames # <<>> /\ Head(frames) \in Frame /\ Head(frames) \in Running
       /\ Head(frames).kind = "prepare"  /\ ~In("save")
    BY <1>3, HeadKnown DEF InstallLeaves, IInv, In
  <2>2. Head(frames).chart \in Charts
    BY <2>1 DEF Frame, ClickFrame, SaveFrame, DialogFrame, VerifyFrame, LoopFrame, TaskFrame, Yield
  <2>3. frames' \in Seq(Frame) /\ Running' \subseteq Running
    BY <1>3, <2>1, <2>2, PopRuns DEF InstallLeaves
  <2>4. TypePanel'
    BY <1>3, <2>1, <2>2, InstallAssumption DEF InstallLeaves, IInv, TypeOK, TypePanel, Controls
  <2>s. TypeSlot'
    BY <1>3 DEF InstallLeaves, IInv, TypeOK, TypeSlot
  <2>5. TypeList' /\ TypeContent' /\ TypeJob' /\ TypeQueue' /\ TypeNet' /\ TypeCache'
    BY <1>3 DEF InstallLeaves, IInv, TypeOK, TypeList, TypeContent, TypeJob, TypeQueue, TypeNet, TypeCache, Controls
  <2>6. TypeFrames'
    BY <1>3, <2>3 DEF InstallLeaves, IInv, TypeOK, TypeFrames, Controls
  <2>7. Ready'
    BY <1>3, <2>1, <2>2, <2>3 DEF InstallLeaves, IInv, Ready, Controls
  <2>8. Targeted'
    BY <1>3, <2>1, <2>2, <2>3 DEF InstallLeaves, IInv, Targeted, Controls
  <2>9. SavedNext'
    BY <1>3, <2>1, <2>2, Settled DEF InstallLeaves, IInv, SavedNext, Controls
  <2> QED  BY <2>4, <2>s, <2>5, <2>6, <2>7, <2>8, <2>9 DEF IInv, TypeOK
<1>4. CASE PrepareFails
  <2>1. frames \in Seq(Frame) /\ frames # <<>> /\ Head(frames) \in Frame /\ Head(frames) \in Running
       /\ Head(frames).kind = "prepare"  /\ ~In("save")
    BY <1>4, HeadKnown DEF PrepareFails, IInv, In
  <2>2. Head(frames).chart \in Charts
    BY <2>1 DEF Frame, ClickFrame, SaveFrame, DialogFrame, VerifyFrame, LoopFrame, TaskFrame, Yield
  <2>3. frames' \in Seq(Frame) /\ Running' \subseteq Running
    BY <1>4, <2>1, <2>2, PopRuns DEF PrepareFails
  <2>4. TypeSlot'
    BY <1>4, <2>1, <2>2, InstallAssumption DEF PrepareFails, IInv, TypeOK, TypeSlot, ChartList, SaveShop, Controls
  <2>5. action' \in [Charts -> {"none", "REPLACE", "UPDATE"}] /\ from' \in [Charts -> Edition]
       /\ requested' \in [Charts -> Edition]
    BY <1>4, <2>1, <2>2 DEF PrepareFails, Computed, IInv, TypeOK, TypeJob, TypeList, TypeSlot
  <2>tf. tasks' \in [Charts -> Seq(Task)]
    <3>1. <<>> \in Seq(Task)
      BY EmptySeq
    <3> QED  BY <1>4, <2>1, <2>2, <3>1 DEF PrepareFails, IInv, TypeOK, TypeJob
  <2>6. TypeJob'
    BY <1>4, <2>1, <2>2, InstallAssumption, <2>5, <2>tf DEF PrepareFails, IInv, TypeOK, TypeJob, Computed, TypeList, ChartList, Controls, SaveShop
  <2>7. TypePanel'
    BY <1>4, <2>1, <2>2, InstallAssumption DEF PrepareFails, IInv, TypeOK, TypePanel, ChartList, Controls, SaveShop
  <2>8. TypeList' /\ TypeContent' /\ TypeQueue' /\ TypeNet' /\ TypeCache'
    BY <1>4 DEF PrepareFails, IInv, TypeOK, TypeList, TypeContent, TypeQueue, TypeNet, TypeCache, ChartList, Controls, SaveShop
  <2>9. TypeFrames'
    BY <1>4, <2>3 DEF PrepareFails, IInv, TypeOK, TypeFrames, ChartList, Controls, SaveShop
  <2>10. Ready'
    BY <1>4, <2>1, <2>2, <2>3 DEF PrepareFails, IInv, Ready, ChartList, Controls, SaveShop
  <2>11. Targeted'
    BY <1>4, <2>1, <2>2, <2>3 DEF PrepareFails, IInv, Targeted, ChartList, Controls, SaveShop
  <2>12. SavedNext'
    BY <1>4, <2>1, <2>2, Settled DEF PrepareFails, IInv, SavedNext, ChartList, Controls, SaveShop
  <2> QED  BY <2>4, <2>6, <2>7, <2>8, <2>9, <2>10, <2>11, <2>12 DEF IInv, TypeOK
<1>5. CASE PrepareOK
  <2>1. frames \in Seq(Frame) /\ frames # <<>> /\ Head(frames) \in Frame /\ Head(frames) \in Running
       /\ Head(frames).kind = "prepare"  /\ ~In("save")
    BY <1>5, HeadKnown DEF PrepareOK, IInv, In
  <2>2. Head(frames).chart \in Charts
    BY <2>1 DEF Frame, ClickFrame, SaveFrame, DialogFrame, VerifyFrame, LoopFrame, TaskFrame, Yield
  <2> DEFINE f == [kind |-> "start", chart |-> Head(frames).chart, yield |-> "all"]
  <2>3. f \in Frame
    BY <1>5, <2>1, <2>2 DEF PrepareOK, Frame, ClickFrame, SaveFrame, DialogFrame, VerifyFrame, LoopFrame, TaskFrame, Yield, IInv, TypeOK
  <2>4. frames' \in Seq(Frame) /\ frames' # <<>> /\ Head(frames') = f /\ Running' \subseteq Running \cup {f}
    BY <1>5, <2>1, <2>2, <2>3, SwapRuns DEF PrepareOK, ChartList, Controls, SaveShop
  <2>5. TypeSlot'
    BY <1>5, <2>1, <2>2, InstallAssumption DEF PrepareOK, IInv, TypeOK, TypeSlot, ChartList, SaveShop, Controls
  <2>6. action' \in [Charts -> {"none", "REPLACE", "UPDATE"}] /\ from' \in [Charts -> Edition]
       /\ requested' \in [Charts -> Edition]
    BY <1>5, <2>1, <2>2 DEF PrepareOK, Computed, IInv, TypeOK, TypeJob, TypeList, TypeSlot
  <2>s. selected \in Charts /\ from'[selected] \in Edition
    BY <1>5, <2>6 DEF PrepareOK, IInv, TypeOK, TypePanel
  <2>r. requested'[selected] \in 1..MaxEd
    <3>1. srv[Head(frames).chart] \in 1..MaxEd /\ requested'[selected] \in 1..srv[Head(frames).chart]
      BY <1>5, <2>2 DEF PrepareOK, IInv, TypeOK, TypeList
    <3> QED  BY <3>1, InstallAssumption
  <2>a. Answers(action'[selected], from'[selected], requested'[selected]) \subseteq Seq(Task)
    BY <2>s, <2>r, AnswersType
  <2>t. tasks' \in [Charts -> Seq(Task)]
    BY <1>5, <2>2, <2>a DEF PrepareOK, IInv, TypeOK, TypeJob
  <2>7. TypeJob'
    BY <1>5, <2>6, <2>t DEF PrepareOK, IInv, TypeOK, TypeJob
  <2>8. TypePanel'
    BY <1>5, <2>1, <2>2, InstallAssumption DEF PrepareOK, IInv, TypeOK, TypePanel, ChartList, Controls, SaveShop
  <2>9. TypeList' /\ TypeContent' /\ TypeQueue' /\ TypeNet' /\ TypeCache'
    BY <1>5 DEF PrepareOK, IInv, TypeOK, TypeList, TypeContent, TypeQueue, TypeNet, TypeCache, ChartList, Controls, SaveShop
  <2>10. TypeFrames'
    BY <1>5, <2>4 DEF PrepareOK, IInv, TypeOK, TypeFrames, ChartList, Controls, SaveShop
  <2>11. Ready'
    BY <1>5, <2>1, <2>2, <2>4 DEF PrepareOK, IInv, Ready, ChartList, Controls, SaveShop
  <2>12. Targeted'
    BY <1>5, <2>1, <2>2, <2>4 DEF PrepareOK, IInv, Targeted, ChartList, Controls, SaveShop
  <2>13. SavedNext'
    BY <1>5, <2>1, <2>2, Settled DEF PrepareOK, IInv, SavedNext, ChartList, Controls, SaveShop
  <2> QED  BY <2>5, <2>7, <2>8, <2>9, <2>10, <2>11, <2>12, <2>13 DEF IInv, TypeOK
<1>6. CASE StartDownload
  <2>1. frames \in Seq(Frame) /\ frames # <<>> /\ Head(frames) \in Frame /\ Head(frames) \in Running
       /\ Head(frames).kind = "start"  /\ ~In("save")
    BY <1>6, HeadKnown DEF StartDownload, IInv, In
  <2>2. Head(frames).chart \in Charts
    BY <2>1 DEF Frame, ClickFrame, SaveFrame, DialogFrame, VerifyFrame, LoopFrame, TaskFrame, Yield
  <2>3. frames' \in Seq(Frame) /\ Running' \subseteq Running
    BY <1>6, <2>1, <2>2, PopRuns DEF StartDownload
  <2>4. TypeJob'
    BY <1>6, <2>1, <2>2, InstallAssumption DEF StartDownload, IInv, TypeOK, TypeJob
  <2>5. verified' \in [Charts -> SUBSET (Nat \ {0})]
    BY <1>6, <2>1, <2>2 DEF StartDownload, IInv, TypeOK, TypeQueue
  <2>nx. next' \in [Charts -> Nat]
    BY <1>6, <2>1, <2>2 DEF StartDownload, IInv, TypeOK, TypeQueue
  <2>ch. installChain' = TRUE /\ aborting' = FALSE /\ chain' \in Nat
    BY <1>6 DEF StartDownload, IInv, TypeOK, TypeQueue
  <2>6. TypeQueue'
    BY <1>6, <2>1, <2>2, InstallAssumption, <2>5, <2>nx, <2>ch DEF StartDownload, IInv, TypeOK, TypeQueue
  <2>7. TypeCache'
    BY <1>6, <2>1, <2>2, InstallAssumption DEF StartDownload, IInv, TypeOK, TypeCache, Drop, Quality
  <2>8. TypeList' /\ TypeSlot' /\ TypeContent' /\ TypePanel' /\ TypeNet'
    BY <1>6 DEF StartDownload, IInv, TypeOK, TypeList, TypeSlot, TypeContent, TypePanel, TypeNet
  <2>9. TypeFrames'
    BY <1>6, <2>3 DEF StartDownload, IInv, TypeOK, TypeFrames
  <2>10. Ready'
    BY <1>6, <2>1, <2>2, <2>3 DEF StartDownload, IInv, Ready
  <2>11. Targeted'
    BY <1>6, <2>1, <2>2, <2>3, InstallAssumption DEF StartDownload, IInv, Targeted
  <2>12. SavedNext'
    BY <1>6, <2>1, <2>2, Settled DEF StartDownload, IInv, SavedNext
  <2> QED  BY <2>4, <2>6, <2>7, <2>8, <2>9, <2>10, <2>11, <2>12 DEF IInv, TypeOK
<1>7. CASE PrepareNothing
  <2>1. Restart /\ clicks' \in Nat
    BY <1>7 DEF PrepareNothing, IInv, TypeOK, TypeFrames
  <2> QED  BY <2>1, RestartStep
<1>8. CASE NameRefreshed
  <2>1. frames \in Seq(Frame) /\ frames # <<>> /\ Head(frames) \in Frame /\ Head(frames) \in Running
       /\ Head(frames).kind = "named"  /\ ~In("save")
    BY <1>8, HeadKnown DEF NameRefreshed, IInv, In
  <2>2. Head(frames).chart \in Charts
    BY <2>1 DEF Frame, ClickFrame, SaveFrame, DialogFrame, VerifyFrame, LoopFrame, TaskFrame, Yield
  <2> DEFINE f == [kind |-> "asked", chart |-> Head(frames).chart, yield |-> "all"]
  <2>3. f \in Frame
    BY <1>8, <2>1, <2>2 DEF NameRefreshed, Frame, ClickFrame, SaveFrame, DialogFrame, VerifyFrame, LoopFrame, TaskFrame, Yield, IInv, TypeOK
  <2>4. frames' \in Seq(Frame) /\ frames' # <<>> /\ Head(frames') = f /\ Running' \subseteq Running \cup {f}
    BY <1>8, <2>1, <2>2, <2>3, SwapRuns DEF NameRefreshed
  <2>5. TypePanel'
    BY <1>8, <2>1, <2>2, InstallAssumption DEF NameRefreshed, IInv, TypeOK, TypePanel
  <2>6. TypeList' /\ TypeSlot' /\ TypeContent' /\ TypeJob' /\ TypeQueue' /\ TypeNet' /\ TypeCache'
    BY <1>8 DEF NameRefreshed, IInv, TypeOK, TypeList, TypeSlot, TypeContent, TypeJob, TypeQueue, TypeNet, TypeCache
  <2>7. TypeFrames'
    BY <1>8, <2>4 DEF NameRefreshed, IInv, TypeOK, TypeFrames
  <2>8. Ready'
    BY <1>8, <2>1, <2>2, <2>4 DEF NameRefreshed, IInv, Ready
  <2>9. Targeted'
    BY <1>8, <2>1, <2>2, <2>4 DEF NameRefreshed, IInv, Targeted
  <2>10. SavedNext'
    BY <1>8, <2>1, <2>2, Settled DEF NameRefreshed, IInv, SavedNext
  <2> QED  BY <2>5, <2>6, <2>7, <2>8, <2>9, <2>10 DEF IInv, TypeOK
<1> QED  BY <1>1, <1>2, <1>3, <1>4, <1>5, <1>6, <1>7, <1>8 DEF Installing

\* The current file of a queue is a file.
LEMMA QueueHead ==
  ASSUME TypeOK, target \in Charts, QueueLeft
  PROVE  QueueFile(target, next[target] + 1) \in File
<1> DEFINE k == next[target] + 1
<1>1. queue[target] \in Seq(Task) /\ Len(queue[target]) \in Nat /\ k \in Nat \ {0}
  BY DEF TypeOK, TypeJob, TypeQueue
<1>2. k <= 2 * Len(queue[target])
  BY <1>1 DEF QueueLeft, QueueLen, TypeOK, TypeQueue
<1>3. CASE k % 2 = 1
  <2>1. (k + 1) \div 2 \in 1..Len(queue[target])
    BY <1>1, <1>2, <1>3
  <2>2. queue[target][(k + 1) \div 2] \in Task
    BY <1>1, <2>1, ElementOfSeq
  <2> QED  BY <1>3, <2>2 DEF QueueFile, KeyFile, File, Part
<1>4. CASE k % 2 # 1
  <2>1. k \div 2 \in 1..Len(queue[target])
    BY <1>1, <1>2, <1>4
  <2>2. queue[target][k \div 2] \in Task
    BY <1>1, <2>1, ElementOfSeq
  <2> QED  BY <1>4, <2>2 DEF QueueFile, ZipFile, File, Part
<1> QED  BY <1>3, <1>4

\* What starting a transfer changes keeps its type.
LEMMA TransferStarts ==
  ASSUME TypeOK, target \in Charts, QueueLeft, NEW t \in Threads, StartTransfer(t)
  PROVE  /\ TypeNet'
         /\ cache' \in [File -> Quality]
         /\ next' \in [Charts -> Nat]
         /\ cancelOn' = TRUE /\ busy' = TRUE
<1> DEFINE f == QueueFile(target, next[target] + 1)
           x == [file |-> f, st |-> "run", good |-> TRUE, shown |-> FALSE]
<1>1. f \in File
  BY QueueHead
<1>2. x \in Transfer
  BY <1>1 DEF Transfer
<1>3. xfer' = [xfer EXCEPT ![t] = x] /\ current' = t /\ stream' = t
      /\ cache' = [cache EXCEPT ![f] = "bad"] /\ next' = [next EXCEPT ![target] = @ + 1]
  BY DEF StartTransfer
<1>4. TypeNet'
  <2>1. xfer' \in [Threads -> Transfer]
    BY <1>2, <1>3 DEF TypeOK, TypeNet
  <2> QED  BY <1>3, <2>1 DEF TypeNet
<1>5. cache' \in [File -> Quality]
  BY <1>1, <1>3 DEF TypeOK, TypeCache, Quality
<1>6. next' \in [Charts -> Nat]
  BY <1>3 DEF TypeOK, TypeQueue
<1> QED  BY <1>4, <1>5, <1>6 DEF StartTransfer

\* A step of OnButtonInstallChain or of the validation it calls.
LEMMA ChainingStep ==
  ASSUME IInv, Chaining
  PROVE  IInv'
<1>1. CASE ChainAborted
  <2>1. target \in Charts /\ target # NoChart
    BY <1>1 DEF ChainAborted, IInv, Targeted, TypeOK, TypeJob, Dispatch, TypeQueue
  <2>2. chain' \in Nat
    BY <1>1, <2>1 DEF ChainAborted, Dispatch, IInv, TypeOK, TypeQueue
  <2> DEFINE f == [kind |-> "aborted", yield |-> "events"]
  <2>3. f \in Frame
    BY <1>1, <2>1, <2>2 DEF ChainAborted, Frame, ClickFrame, SaveFrame, DialogFrame, VerifyFrame, LoopFrame, TaskFrame, Yield, IInv, TypeOK
  <2>4. frames' \in Seq(Frame) /\ Running' \subseteq Running \cup {f}
    BY <1>1, <2>3, PushRuns DEF ChainAborted, IInv, TypeOK, TypeFrames
  <2>5. TypeQueue'
    BY <1>1, <2>1, <2>2, InstallAssumption DEF ChainAborted, IInv, TypeOK, TypeQueue, Dispatch
  <2>6. TypeList' /\ TypeSlot' /\ TypeContent' /\ TypeJob' /\ TypePanel' /\ TypeNet' /\ TypeCache'
    BY <1>1 DEF ChainAborted, IInv, TypeOK, TypeList, TypeSlot, TypeContent, TypeJob, TypePanel, TypeNet, TypeCache
  <2>7. TypeFrames'
    BY <1>1, <2>4 DEF ChainAborted, IInv, TypeOK, TypeFrames
  <2>8. Ready'
    BY <1>1, <2>1, <2>2, <2>4 DEF ChainAborted, IInv, Ready
  <2>9. Targeted'
    BY <1>1, <2>1, <2>2, <2>4 DEF ChainAborted, IInv, Targeted
  <2>10. SavedNext'
    BY <1>1, <2>1, <2>2, Settled DEF ChainAborted, IInv, SavedNext, Dispatch
  <2> QED  BY <2>5, <2>6, <2>7, <2>8, <2>9, <2>10 DEF IInv, TypeOK
<1>2. CASE ChainVerify
  <2>1. target \in Charts /\ target # NoChart
    BY <1>2 DEF ChainVerify, IInv, Targeted, TypeOK, TypeJob, Dispatch, TypeQueue
  <2>2. QueueFile(target, next[target] + 1) \in File
    BY <1>2, <2>1, QueueHead DEF ChainVerify, IInv
  <2> DEFINE f == [kind |-> "verify", file |-> QueueFile(target, next[target] + 1), res |-> Good(QueueFile(target, next[target] + 1)), yield |-> "all"]
  <2>3. f \in Frame
    BY <1>2, <2>1, <2>2 DEF ChainVerify, Frame, ClickFrame, SaveFrame, DialogFrame, VerifyFrame, LoopFrame, TaskFrame, Yield, IInv, TypeOK, Good
  <2>4. frames' \in Seq(Frame) /\ Running' \subseteq Running \cup {f}
    BY <1>2, <2>3, PushRuns DEF ChainVerify, IInv, TypeOK, TypeFrames
  <2>5. TypeQueue'
    BY <1>2, <2>1, <2>2, InstallAssumption DEF ChainVerify, IInv, TypeOK, TypeQueue, Dispatch
  <2>6. TypePanel'
    BY <1>2, <2>1, <2>2, InstallAssumption DEF ChainVerify, IInv, TypeOK, TypePanel
  <2>7. TypeList' /\ TypeSlot' /\ TypeContent' /\ TypeJob' /\ TypeNet' /\ TypeCache'
    BY <1>2 DEF ChainVerify, IInv, TypeOK, TypeList, TypeSlot, TypeContent, TypeJob, TypeNet, TypeCache
  <2>8. TypeFrames'
    BY <1>2, <2>4 DEF ChainVerify, IInv, TypeOK, TypeFrames
  <2>9. Ready'
    BY <1>2, <2>1, <2>2, <2>4 DEF ChainVerify, IInv, Ready
  <2>10. Targeted'
    BY <1>2, <2>1, <2>2, <2>4 DEF ChainVerify, IInv, Targeted
  <2>11. SavedNext'
    BY <1>2, <2>1, <2>2, Settled DEF ChainVerify, IInv, SavedNext, Dispatch
  <2> QED  BY <2>5, <2>6, <2>7, <2>8, <2>9, <2>10, <2>11 DEF IInv, TypeOK
<1>3. CASE ChainNoDirectory
  <2>1. target \in Charts /\ target # NoChart
    BY <1>3 DEF ChainNoDirectory, IInv, Targeted, TypeOK, TypeJob, Dispatch, TypeQueue
  <2>2. frames' = frames /\ Running' = Running
    BY <1>3 DEF ChainNoDirectory, Running
  <2>3. TypeQueue'
    BY <1>3, <2>1, InstallAssumption DEF ChainNoDirectory, IInv, TypeOK, TypeQueue, Dispatch
  <2>4. TypeList' /\ TypeSlot' /\ TypeContent' /\ TypeJob' /\ TypePanel' /\ TypeNet' /\ TypeCache'
    BY <1>3 DEF ChainNoDirectory, IInv, TypeOK, TypeList, TypeSlot, TypeContent, TypeJob, TypePanel, TypeNet, TypeCache
  <2>5. TypeFrames'
    BY <1>3, <2>2 DEF ChainNoDirectory, IInv, TypeOK, TypeFrames
  <2>6. Ready'
    BY <1>3, <2>1, <2>2 DEF ChainNoDirectory, IInv, Ready
  <2>7. Targeted'
    BY <1>3, <2>1, <2>2 DEF ChainNoDirectory, IInv, Targeted
  <2>8. SavedNext'
    BY <1>3, <2>2 DEF ChainNoDirectory, IInv, SavedNext, In
  <2> QED  BY <2>3, <2>4, <2>5, <2>6, <2>7, <2>8 DEF IInv, TypeOK
<1>4. CASE ChainInstall
  <2>1. target \in Charts /\ target # NoChart
    BY <1>4 DEF ChainInstall, IInv, Targeted, TypeOK, TypeJob, Dispatch, TypeQueue
  <2>2. chain' \in Nat
    BY <1>4, <2>1 DEF ChainInstall, Dispatch, IInv, TypeOK, TypeQueue
  <2> DEFINE f == IF action[target] = "REPLACE" THEN [kind |-> "confirm", yield |-> "events"] ELSE [kind |-> "loop", i |-> 1, yield |-> "no"]
  <2>3. f \in Frame
    BY <1>4, <2>1, <2>2 DEF ChainInstall, Frame, ClickFrame, SaveFrame, DialogFrame, VerifyFrame, LoopFrame, TaskFrame, Yield, IInv, TypeOK
  <2>4. frames' \in Seq(Frame) /\ Running' \subseteq Running \cup {f}
    BY <1>4, <2>3, PushRuns DEF ChainInstall, IInv, TypeOK, TypeFrames
  <2>5. TypeQueue'
    BY <1>4, <2>1, <2>2, InstallAssumption DEF ChainInstall, IInv, TypeOK, TypeQueue, Dispatch
  <2>6. TypePanel'
    BY <1>4, <2>1, <2>2, InstallAssumption DEF ChainInstall, IInv, TypeOK, TypePanel
  <2>7. TypeList' /\ TypeSlot' /\ TypeContent' /\ TypeJob' /\ TypeNet' /\ TypeCache'
    BY <1>4 DEF ChainInstall, IInv, TypeOK, TypeList, TypeSlot, TypeContent, TypeJob, TypeNet, TypeCache
  <2>8. TypeFrames'
    BY <1>4, <2>4 DEF ChainInstall, IInv, TypeOK, TypeFrames
  <2>9. Ready'
    BY <1>4, <2>1, <2>2, <2>4 DEF ChainInstall, IInv, Ready
  <2>10. Targeted'
    BY <1>4, <2>1, <2>2, <2>4 DEF ChainInstall, IInv, Targeted
  <2>11. SavedNext'
    BY <1>4, <2>1, <2>2, Settled DEF ChainInstall, IInv, SavedNext, Dispatch
  <2> QED  BY <2>5, <2>6, <2>7, <2>8, <2>9, <2>10, <2>11 DEF IInv, TypeOK
<1>5. CASE ChainNothing
  <2>1. target \in Charts /\ target # NoChart
    BY <1>5 DEF ChainNothing, IInv, Targeted, TypeOK, TypeJob, Dispatch, TypeQueue
  <2>2. frames' = frames /\ Running' = Running
    BY <1>5 DEF ChainNothing, Running
  <2>3. TypeQueue'
    BY <1>5, <2>1, InstallAssumption DEF ChainNothing, IInv, TypeOK, TypeQueue, Dispatch
  <2>4. TypeList' /\ TypeSlot' /\ TypeContent' /\ TypeJob' /\ TypePanel' /\ TypeNet' /\ TypeCache'
    BY <1>5 DEF ChainNothing, IInv, TypeOK, TypeList, TypeSlot, TypeContent, TypeJob, TypePanel, TypeNet, TypeCache
  <2>5. TypeFrames'
    BY <1>5, <2>2 DEF ChainNothing, IInv, TypeOK, TypeFrames
  <2>6. Ready'
    BY <1>5, <2>1, <2>2 DEF ChainNothing, IInv, Ready
  <2>7. Targeted'
    BY <1>5, <2>1, <2>2 DEF ChainNothing, IInv, Targeted
  <2>8. SavedNext'
    BY <1>5, <2>2 DEF ChainNothing, IInv, SavedNext, In
  <2> QED  BY <2>3, <2>4, <2>5, <2>6, <2>7, <2>8 DEF IInv, TypeOK
<1>6. CASE VerifyPasses
  <2>1. frames \in Seq(Frame) /\ frames # <<>> /\ Head(frames) \in Frame /\ Head(frames) \in Running
       /\ Head(frames).kind = "verify"  /\ ~In("save")
    BY <1>6, HeadKnown DEF VerifyPasses, IInv, In
  <2>2. target \in Charts /\ target # NoChart
    BY <1>6, <2>1 DEF VerifyPasses, IInv, Targeted, TypeOK, TypeJob
  <2>3. frames' \in Seq(Frame) /\ Running' \subseteq Running
    BY <1>6, <2>1, PopRuns DEF VerifyPasses
  <2>4. TypeQueue'
    BY <1>6, <2>1, <2>2, InstallAssumption DEF VerifyPasses, IInv, TypeOK, TypeQueue
  <2>5. TypeList' /\ TypeSlot' /\ TypeContent' /\ TypeJob' /\ TypePanel' /\ TypeNet' /\ TypeCache'
    BY <1>6 DEF VerifyPasses, IInv, TypeOK, TypeList, TypeSlot, TypeContent, TypeJob, TypePanel, TypeNet, TypeCache
  <2>6. TypeFrames'
    BY <1>6, <2>3 DEF VerifyPasses, IInv, TypeOK, TypeFrames
  <2>7. Ready'
    BY <1>6, <2>1, <2>2, <2>3 DEF VerifyPasses, IInv, Ready
  <2>8. Targeted'
    BY <1>6, <2>1, <2>2, <2>3 DEF VerifyPasses, IInv, Targeted
  <2>9. SavedNext'
    BY <1>6, <2>1, <2>2, Settled DEF VerifyPasses, IInv, SavedNext
  <2> QED  BY <2>4, <2>5, <2>6, <2>7, <2>8, <2>9 DEF IInv, TypeOK
<1>7. ASSUME NEW t \in Threads, ChainDownload(t) PROVE IInv'
  <2>1. target \in Charts /\ target # NoChart
    BY <1>7 DEF ChainDownload, IInv, Targeted, TypeOK, TypeJob, Dispatch, TypeQueue
  <2>2. TypeNet' /\ cache' \in [File -> Quality] /\ next' \in [Charts -> Nat] /\ cancelOn' = TRUE /\ busy' = TRUE
    BY <1>7, <2>1, TransferStarts DEF ChainDownload, IInv
  <2>3. frames' = frames /\ Running' = Running
    BY <1>7 DEF ChainDownload, Running
  <2>4. TypeQueue'
    BY <1>7, <2>1, <2>2, InstallAssumption DEF ChainDownload, IInv, TypeOK, TypeQueue, Dispatch
  <2>5. TypePanel'
    BY <1>7, <2>1, <2>2, InstallAssumption DEF ChainDownload, IInv, TypeOK, TypePanel
  <2>6. TypeNet'
    BY <1>7, <2>1, <2>2, InstallAssumption DEF ChainDownload, IInv, TypeOK, TypeNet
  <2>7. TypeCache'
    BY <1>7, <2>1, <2>2, InstallAssumption DEF ChainDownload, IInv, TypeOK, TypeCache
  <2>8. TypeList' /\ TypeSlot' /\ TypeContent' /\ TypeJob'
    BY <1>7 DEF ChainDownload, IInv, TypeOK, TypeList, TypeSlot, TypeContent, TypeJob
  <2>9. TypeFrames'
    BY <1>7, <2>3 DEF ChainDownload, IInv, TypeOK, TypeFrames
  <2>10. Ready'
    BY <1>7, <2>1, <2>2, <2>3 DEF ChainDownload, IInv, Ready
  <2>11. Targeted'
    BY <1>7, <2>1, <2>2, <2>3 DEF ChainDownload, IInv, Targeted
  <2>12. SavedNext'
    BY <1>7, <2>3 DEF ChainDownload, IInv, SavedNext, In
  <2> QED  BY <2>4, <2>5, <2>6, <2>7, <2>8, <2>9, <2>10, <2>11, <2>12 DEF IInv, TypeOK
<1>8. ASSUME NEW t \in Threads, VerifyFails(t) PROVE IInv'
  <2>1. frames \in Seq(Frame) /\ frames # <<>> /\ Head(frames) \in Frame /\ Head(frames) \in Running
       /\ Head(frames).kind = "verify"  /\ ~In("save")
    BY <1>8, HeadKnown DEF VerifyFails, IInv, In
  <2>2. target \in Charts /\ target # NoChart
    BY <1>8, <2>1 DEF VerifyFails, IInv, Targeted, TypeOK, TypeJob
  <2>3. TypeNet' /\ cache' \in [File -> Quality] /\ next' \in [Charts -> Nat] /\ cancelOn' = TRUE /\ busy' = TRUE
    BY <1>8, <2>2, TransferStarts DEF VerifyFails, IInv
  <2>4. frames' \in Seq(Frame) /\ Running' \subseteq Running
    BY <1>8, <2>1, PopRuns DEF VerifyFails
  <2>5. TypeQueue'
    BY <1>8, <2>1, <2>2, <2>3, InstallAssumption DEF VerifyFails, IInv, TypeOK, TypeQueue
  <2>6. TypePanel'
    BY <1>8, <2>1, <2>2, <2>3, InstallAssumption DEF VerifyFails, IInv, TypeOK, TypePanel
  <2>7. TypeNet'
    BY <1>8, <2>1, <2>2, <2>3, InstallAssumption DEF VerifyFails, IInv, TypeOK, TypeNet
  <2>8. TypeCache'
    BY <1>8, <2>1, <2>2, <2>3, InstallAssumption DEF VerifyFails, IInv, TypeOK, TypeCache
  <2>9. TypeList' /\ TypeSlot' /\ TypeContent' /\ TypeJob'
    BY <1>8 DEF VerifyFails, IInv, TypeOK, TypeList, TypeSlot, TypeContent, TypeJob
  <2>10. TypeFrames'
    BY <1>8, <2>4 DEF VerifyFails, IInv, TypeOK, TypeFrames
  <2>11. Ready'
    BY <1>8, <2>1, <2>2, <2>3, <2>4 DEF VerifyFails, IInv, Ready
  <2>12. Targeted'
    BY <1>8, <2>1, <2>2, <2>3, <2>4 DEF VerifyFails, IInv, Targeted
  <2>13. SavedNext'
    BY <1>8, <2>1, <2>2, <2>3, Settled DEF VerifyFails, IInv, SavedNext
  <2> QED  BY <2>5, <2>6, <2>7, <2>8, <2>9, <2>10, <2>11, <2>12, <2>13 DEF IInv, TypeOK
<1>9. CASE VerifyPastEnd
  <2>1. Restart /\ clicks' \in Nat
    BY <1>9 DEF VerifyPastEnd, IInv, TypeOK, TypeFrames
  <2> QED  BY <2>1, RestartStep
<1> QED  BY <1>1, <1>2, <1>3, <1>4, <1>5, <1>6, <1>7, <1>8, <1>9 DEF Chaining

\* Closing the stream keeps the types.
LEMMA StreamCloses ==
  ASSUME TypeOK, NEW t \in Threads, CloseStream(t)
  PROVE  xfer' \in [Threads -> Transfer] /\ stream' = NoThread /\ cache' \in [File -> Quality]
<1>1. Idle \in Transfer
  BY DEF Idle, Transfer
<1>2. \A u \in Threads : xfer[u] \in Transfer /\ [xfer[u] EXCEPT !.good = FALSE] \in Transfer
  BY DEF TypeOK, TypeNet, Transfer
<1>3. xfer' \in [Threads -> Transfer]
  BY <1>1, <1>2 DEF CloseStream
<1>4. cache' \in [File -> Quality]
  BY DEF CloseStream, Closed, TypeOK, TypeCache, Quality
<1> QED  BY <1>3, <1>4 DEF CloseStream

\* A step of a curl thread, or of the handler of its events.
LEMMA TransferringStep ==
  ASSUME IInv, Transferring
  PROVE  IInv'
<1>1. ASSUME NEW t \in Threads, TransferEnds(t) PROVE IInv'
  <2>1. target \in Charts /\ target # NoChart
    BY <1>1 DEF TransferEnds, IInv, Targeted, TypeOK, TypeJob, TypeNet
  <2>2. xfer' \in [Threads -> Transfer]
    <3>1. PICK st \in {"ok", "err"}, whole \in BOOLEAN :
            xfer' = [xfer EXCEPT ![t].st = st, ![t].good = @ /\ whole /\ st = "ok"]
      BY <1>1 DEF TransferEnds
    <3> DEFINE x == [xfer[t] EXCEPT !.st = st, !.good = @ /\ whole /\ st = "ok"]
    <3>2. x \in Transfer
      BY DEF IInv, TypeOK, TypeNet, Transfer
    <3>3. xfer' = [xfer EXCEPT ![t] = x]
      BY <3>1 DEF IInv, TypeOK, TypeNet, Transfer
    <3> QED  BY <3>2, <3>3 DEF IInv, TypeOK, TypeNet
  <2>3. frames' = frames /\ Running' = Running
    BY <1>1 DEF TransferEnds, Running
  <2>4. TypeNet'
    BY <1>1, <2>1, <2>2, InstallAssumption DEF TransferEnds, IInv, TypeOK, TypeNet, Transfer
  <2>5. TypeList'
    BY <1>1 DEF TransferEnds, IInv, TypeOK, TypeList
  <2>6. TypeSlot'
    BY <1>1 DEF TransferEnds, IInv, TypeOK, TypeSlot
  <2>7. TypeContent'
    BY <1>1 DEF TransferEnds, IInv, TypeOK, TypeContent
  <2>8. TypeJob'
    BY <1>1 DEF TransferEnds, IInv, TypeOK, TypeJob
  <2>9. TypeQueue'
    BY <1>1 DEF TransferEnds, IInv, TypeOK, TypeQueue
  <2>10. TypePanel'
    BY <1>1 DEF TransferEnds, IInv, TypeOK, TypePanel
  <2>11. TypeCache'
    BY <1>1 DEF TransferEnds, IInv, TypeOK, TypeCache
  <2>12. TypeFrames'
    BY <1>1, <2>3 DEF TransferEnds, IInv, TypeOK, TypeFrames
  <2>13. Ready'
    BY <1>1, <2>1, <2>2, <2>3 DEF TransferEnds, IInv, Ready
  <2>14. Targeted'
    BY <1>1, <2>1, <2>2, <2>3 DEF TransferEnds, IInv, Targeted
  <2>15. SavedNext'
    BY <1>1, <2>3 DEF TransferEnds, IInv, SavedNext, In
  <2> QED  BY <2>4, <2>5, <2>6, <2>7, <2>8, <2>9, <2>10, <2>11, <2>12, <2>13, <2>14, <2>15 DEF IInv, TypeOK
<1>2. ASSUME NEW t \in Threads, ThreadDies(t) PROVE IInv'
  <2>1. target \in Charts /\ target # NoChart
    BY <1>2 DEF ThreadDies, IInv, Targeted, TypeOK, TypeJob, TypeNet
  <2>2. frames' = frames /\ Running' = Running
    BY <1>2 DEF ThreadDies, Running
  <2>n. TypeNet
    BY DEF IInv, TypeOK
  <2>x. [xfer[t] EXCEPT !.st = "dead", !.good = FALSE] \in Transfer
    BY <2>n DEF TypeNet, Transfer
  <2>y. /\ xfer' = [xfer EXCEPT ![t] = [xfer[t] EXCEPT !.st = "dead", !.good = FALSE]]
        /\ UNCHANGED <<current, stream>>
    BY <1>2, <2>n DEF ThreadDies, TypeNet, Transfer
  <2>3. TypeNet'
    BY <2>n, <2>x, <2>y DEF TypeNet
  <2>4. TypeList' /\ TypeSlot' /\ TypeContent' /\ TypeCache'
    BY <1>2 DEF ThreadDies, IInv, TypeOK, TypeList, TypeSlot, TypeContent, TypeCache
  <2>4j. TypeJob' /\ TypeQueue' /\ TypePanel'
    BY <1>2 DEF ThreadDies, IInv, TypeOK, TypeJob, TypeQueue, TypePanel
  <2>5. TypeFrames'
    BY <1>2, <2>2 DEF ThreadDies, IInv, TypeOK, TypeFrames
  <2>6. Ready'
    BY <1>2, <2>1, <2>2 DEF ThreadDies, IInv, Ready
  <2>7. Targeted'
    BY <1>2, <2>1, <2>2 DEF ThreadDies, IInv, Targeted
  <2>8. SavedNext'
    BY <1>2, <2>2 DEF ThreadDies, IInv, SavedNext, In
  <2> QED  BY <2>3, <2>4, <2>4j, <2>5, <2>6, <2>7, <2>8 DEF IInv, TypeOK
<1>3. ASSUME NEW t \in Threads, HandleBegin(t) PROVE IInv'
  <2>1. target \in Charts /\ target # NoChart
    BY <1>3 DEF HandleBegin, IInv, Targeted, TypeOK, TypeJob, TypeNet, Active
  <2>2. frames' = frames /\ Running' = Running
    BY <1>3 DEF HandleBegin, Running, Active
  <2>3. TypeNet'
    BY <1>3, <2>1, InstallAssumption DEF HandleBegin, IInv, TypeOK, TypeNet, Transfer, Active
  <2>4. TypePanel'
    BY <1>3, <2>1, InstallAssumption DEF HandleBegin, IInv, TypeOK, TypePanel, Active
  <2>5. TypeList' /\ TypeSlot' /\ TypeContent' /\ TypeJob' /\ TypeQueue' /\ TypeCache'
    BY <1>3 DEF HandleBegin, IInv, TypeOK, TypeList, TypeSlot, TypeContent, TypeJob, TypeQueue, TypeCache, Active
  <2>6. TypeFrames'
    BY <1>3, <2>2 DEF HandleBegin, IInv, TypeOK, TypeFrames, Active
  <2>7. Ready'
    BY <1>3, <2>1, <2>2 DEF HandleBegin, IInv, Ready, Active
  <2>8. Targeted'
    BY <1>3, <2>1, <2>2 DEF HandleBegin, IInv, Targeted, Active
  <2>9. SavedNext'
    BY <1>3, <2>2 DEF HandleBegin, IInv, SavedNext, In, Active
  <2> QED  BY <2>3, <2>4, <2>5, <2>6, <2>7, <2>8, <2>9 DEF IInv, TypeOK
<1>4. ASSUME NEW t \in Threads, HandleEndOK(t) PROVE IInv'
  <2>1. target \in Charts /\ target # NoChart
    BY <1>4 DEF HandleEndOK, IInv, Targeted, TypeOK, TypeJob, TypeNet
  <2>2. xfer' \in [Threads -> Transfer] /\ stream' = NoThread /\ cache' \in [File -> Quality]
    BY <1>4, <2>1, StreamCloses DEF HandleEndOK, IInv
  <2>3. frames' = frames /\ Running' = Running
    BY <1>4 DEF HandleEndOK, Running
  <2>4. TypeQueue'
    BY <1>4, <2>1, <2>2, InstallAssumption DEF HandleEndOK, IInv, TypeOK, TypeQueue
  <2>5. TypeNet'
    BY <1>4, <2>1, <2>2, InstallAssumption DEF HandleEndOK, IInv, TypeOK, TypeNet
  <2>6. TypePanel'
    BY <1>4, <2>1, <2>2, InstallAssumption DEF HandleEndOK, IInv, TypeOK, TypePanel
  <2>7. TypeCache'
    BY <1>4, <2>1, <2>2, InstallAssumption DEF HandleEndOK, IInv, TypeOK, TypeCache
  <2>8. TypeList' /\ TypeSlot' /\ TypeContent' /\ TypeJob'
    BY <1>4 DEF HandleEndOK, IInv, TypeOK, TypeList, TypeSlot, TypeContent, TypeJob
  <2>9. TypeFrames'
    BY <1>4, <2>3 DEF HandleEndOK, IInv, TypeOK, TypeFrames
  <2>10. Ready'
    BY <1>4, <2>1, <2>2, <2>3 DEF HandleEndOK, IInv, Ready
  <2>11. Targeted'
    BY <1>4, <2>1, <2>2, <2>3 DEF HandleEndOK, IInv, Targeted
  <2>12. SavedNext'
    BY <1>4, <2>3 DEF HandleEndOK, IInv, SavedNext, In
  <2> QED  BY <2>4, <2>5, <2>6, <2>7, <2>8, <2>9, <2>10, <2>11, <2>12 DEF IInv, TypeOK
<1>5. ASSUME NEW t \in Threads, HandleEndError(t) PROVE IInv'
  <2>1. target \in Charts /\ target # NoChart
    BY <1>5 DEF HandleEndError, IInv, Targeted, TypeOK, TypeJob, TypeNet
  <2>2. xfer' \in [Threads -> Transfer] /\ stream' = NoThread /\ cache' \in [File -> Quality]
    BY <1>5, <2>1, StreamCloses DEF HandleEndError, IInv
  <2> DEFINE f == [kind |-> "failed", yield |-> "events"]
  <2>3. f \in Frame
    BY <1>5, <2>1, <2>2 DEF HandleEndError, Frame, ClickFrame, SaveFrame, DialogFrame, VerifyFrame, LoopFrame, TaskFrame, Yield, IInv, TypeOK
  <2>4. frames' \in Seq(Frame) /\ Running' \subseteq Running \cup {f}
    BY <1>5, <2>3, PushRuns DEF HandleEndError, IInv, TypeOK, TypeFrames
  <2>5. TypeNet'
    BY <1>5, <2>1, <2>2, InstallAssumption DEF HandleEndError, IInv, TypeOK, TypeNet
  <2>6. TypePanel'
    BY <1>5, <2>1, <2>2, InstallAssumption DEF HandleEndError, IInv, TypeOK, TypePanel
  <2>7. TypeCache'
    BY <1>5, <2>1, <2>2, InstallAssumption DEF HandleEndError, IInv, TypeOK, TypeCache
  <2>8. TypeList' /\ TypeSlot' /\ TypeContent' /\ TypeJob' /\ TypeQueue'
    BY <1>5 DEF HandleEndError, IInv, TypeOK, TypeList, TypeSlot, TypeContent, TypeJob, TypeQueue
  <2>9. TypeFrames'
    BY <1>5, <2>4 DEF HandleEndError, IInv, TypeOK, TypeFrames
  <2>10. Ready'
    BY <1>5, <2>1, <2>2, <2>4 DEF HandleEndError, IInv, Ready
  <2>11. Targeted'
    BY <1>5, <2>1, <2>2, <2>4 DEF HandleEndError, IInv, Targeted
  <2>12. SavedNext'
    BY <1>5, <2>1, <2>2, Settled DEF HandleEndError, IInv, SavedNext
  <2> QED  BY <2>5, <2>6, <2>7, <2>8, <2>9, <2>10, <2>11, <2>12 DEF IInv, TypeOK
<1> QED  BY <1>1, <1>2, <1>3, <1>4, <1>5 DEF Transferring

\* A step of the installation, or the end of a dialog.
LEMMA TasksStep ==
  ASSUME IInv, Tasks
  PROVE  IInv'
<1>1. CASE ConfirmYes
  <2>1. frames \in Seq(Frame) /\ frames # <<>> /\ Head(frames) \in Frame /\ Head(frames) \in Running
       /\ Head(frames).kind = "confirm"  /\ ~In("save")
    BY <1>1, HeadKnown DEF ConfirmYes, IInv, In
  <2>2. target \in Charts /\ target # NoChart
    BY <1>1, <2>1 DEF ConfirmYes, IInv, Targeted, TypeOK, TypeJob
  <2> DEFINE f == [kind |-> "loop", i |-> 1, yield |-> "no"]
  <2>3. f \in Frame
    BY <1>1, <2>1, <2>2 DEF ConfirmYes, Frame, ClickFrame, SaveFrame, DialogFrame, VerifyFrame, LoopFrame, TaskFrame, Yield, IInv, TypeOK
  <2>4. frames' \in Seq(Frame) /\ frames' # <<>> /\ Head(frames') = f /\ Running' \subseteq Running \cup {f}
    BY <1>1, <2>1, <2>3, SwapRuns DEF ConfirmYes
  <2>5. TypeList'
    BY <1>1 DEF ConfirmYes, IInv, TypeOK, TypeList
  <2>6. TypeSlot'
    BY <1>1 DEF ConfirmYes, IInv, TypeOK, TypeSlot
  <2>7. TypeContent'
    BY <1>1 DEF ConfirmYes, IInv, TypeOK, TypeContent
  <2>8. TypeJob'
    BY <1>1 DEF ConfirmYes, IInv, TypeOK, TypeJob
  <2>9. TypeQueue'
    BY <1>1 DEF ConfirmYes, IInv, TypeOK, TypeQueue
  <2>10. TypePanel'
    BY <1>1 DEF ConfirmYes, IInv, TypeOK, TypePanel
  <2>11. TypeNet'
    BY <1>1 DEF ConfirmYes, IInv, TypeOK, TypeNet
  <2>12. TypeCache'
    BY <1>1 DEF ConfirmYes, IInv, TypeOK, TypeCache
  <2>13. TypeFrames'
    BY <1>1, <2>4 DEF ConfirmYes, IInv, TypeOK, TypeFrames
  <2>14. Ready'
    BY <1>1, <2>1, <2>2, <2>4 DEF ConfirmYes, IInv, Ready
  <2>15. Targeted'
    BY <1>1, <2>1, <2>2, <2>4 DEF ConfirmYes, IInv, Targeted
  <2>16. SavedNext'
    BY <1>1, <2>1, <2>2, Settled DEF ConfirmYes, IInv, SavedNext
  <2> QED  BY <2>5, <2>6, <2>7, <2>8, <2>9, <2>10, <2>11, <2>12, <2>13, <2>14, <2>15, <2>16 DEF IInv, TypeOK
<1>2. CASE ConfirmNo
  <2>1. frames \in Seq(Frame) /\ frames # <<>> /\ Head(frames) \in Frame /\ Head(frames) \in Running
       /\ Head(frames).kind = "confirm"  /\ ~In("save")
    BY <1>2, HeadKnown DEF ConfirmNo, IInv, In
  <2>2. target \in Charts /\ target # NoChart
    BY <1>2, <2>1 DEF ConfirmNo, IInv, Targeted, TypeOK, TypeJob
  <2>3. frames' \in Seq(Frame) /\ Running' \subseteq Running
    BY <1>2, <2>1, PopRuns DEF ConfirmNo
  <2>4. TypeSlot'
    BY <1>2, <2>1, <2>2, InstallAssumption DEF ConfirmNo, IInv, TypeOK, TypeSlot, ChartList, SaveShop, Controls
  <2>5. TypePanel'
    BY <1>2, <2>1, <2>2, InstallAssumption DEF ConfirmNo, IInv, TypeOK, TypePanel, ChartList, Controls, SaveShop
  <2>6. TypeList' /\ TypeContent' /\ TypeJob' /\ TypeQueue' /\ TypeNet' /\ TypeCache'
    BY <1>2 DEF ConfirmNo, IInv, TypeOK, TypeList, TypeContent, TypeJob, TypeQueue, TypeNet, TypeCache, ChartList, Controls, SaveShop
  <2>7. TypeFrames'
    BY <1>2, <2>3 DEF ConfirmNo, IInv, TypeOK, TypeFrames, ChartList, Controls, SaveShop
  <2>8. Ready'
    BY <1>2, <2>1, <2>2, <2>3 DEF ConfirmNo, IInv, Ready, ChartList, Controls, SaveShop
  <2>9. Targeted'
    BY <1>2, <2>1, <2>2, <2>3 DEF ConfirmNo, IInv, Targeted, ChartList, Controls, SaveShop
  <2>10. SavedNext'
    BY <1>2, <2>1, <2>2, Settled DEF ConfirmNo, IInv, SavedNext, ChartList, Controls, SaveShop
  <2> QED  BY <2>4, <2>5, <2>6, <2>7, <2>8, <2>9, <2>10 DEF IInv, TypeOK
<1>3. CASE TaskCheck
  <2>1. frames \in Seq(Frame) /\ frames # <<>> /\ Head(frames) \in Frame /\ Head(frames) \in Running
       /\ Head(frames).kind = "loop"  /\ ~In("save")
    BY <1>3, HeadKnown DEF TaskCheck, IInv, In, LoopLeft
  <2>2. Head(frames).i \in Nat \ {0}
    BY <2>1 DEF Frame, ClickFrame, SaveFrame, DialogFrame, VerifyFrame, LoopFrame, TaskFrame, Yield
  <2>3. target \in Charts /\ target # NoChart
    BY <1>3, <2>1, <2>2 DEF TaskCheck, IInv, Targeted, TypeOK, TypeJob
  <2>4. LoopTask \in Task
    BY <1>3, <2>1, <2>2, <2>3, ElementOfSeq DEF TaskCheck, LoopLeft, LoopTask, IInv, TypeOK, TypeJob
  <2> DEFINE f == [kind |-> "checked", i |-> Head(frames).i, chart |-> target, task |-> LoopTask, good |-> FALSE, yield |-> IF {1, 2} \subseteq verified[target] THEN "no" ELSE "all"]
  <2>5. f \in Frame
    BY <1>3, <2>1, <2>2, <2>3, <2>4 DEF TaskCheck, Frame, ClickFrame, SaveFrame, DialogFrame, VerifyFrame, LoopFrame, TaskFrame, Yield, IInv, TypeOK
  <2>6. frames' \in Seq(Frame) /\ frames' # <<>> /\ Head(frames') = f /\ Running' \subseteq Running \cup {f}
    BY <1>3, <2>1, <2>2, <2>5, SwapRuns DEF TaskCheck, LoopLeft
  <2>7. TypePanel'
    BY <1>3, <2>1, <2>2, <2>3, <2>4, InstallAssumption DEF TaskCheck, IInv, TypeOK, TypePanel, LoopLeft
  <2>8. TypeList' /\ TypeSlot' /\ TypeContent' /\ TypeJob' /\ TypeQueue' /\ TypeNet' /\ TypeCache'
    BY <1>3 DEF TaskCheck, IInv, TypeOK, TypeList, TypeSlot, TypeContent, TypeJob, TypeQueue, TypeNet, TypeCache, LoopLeft
  <2>9. TypeFrames'
    BY <1>3, <2>6 DEF TaskCheck, IInv, TypeOK, TypeFrames, LoopLeft
  <2>10. Ready'
    BY <1>3, <2>1, <2>2, <2>3, <2>4, <2>6 DEF TaskCheck, IInv, Ready, LoopLeft
  <2>11. Targeted'
    BY <1>3, <2>1, <2>2, <2>3, <2>4, <2>6 DEF TaskCheck, IInv, Targeted, LoopLeft
  <2>12. SavedNext'
    BY <1>3, <2>1, <2>2, <2>3, <2>4, Settled DEF TaskCheck, IInv, SavedNext, LoopLeft
  <2> QED  BY <2>7, <2>8, <2>9, <2>10, <2>11, <2>12 DEF IInv, TypeOK
<1>4. CASE TaskCheckFails
  <2>1. frames \in Seq(Frame) /\ frames # <<>> /\ Head(frames) \in Frame /\ Head(frames) \in Running
       /\ Head(frames).kind = "loop"  /\ ~In("save")
    BY <1>4, HeadKnown DEF TaskCheckFails, IInv, In, LoopLeft
  <2>2. Head(frames).i \in Nat \ {0}
    BY <2>1 DEF Frame, ClickFrame, SaveFrame, DialogFrame, VerifyFrame, LoopFrame, TaskFrame, Yield
  <2>3. target \in Charts /\ target # NoChart
    BY <1>4, <2>1, <2>2 DEF TaskCheckFails, IInv, Targeted, TypeOK, TypeJob
  <2> DEFINE f == [kind |-> "report", yield |-> "events"]
  <2>4. f \in Frame
    BY <1>4, <2>1, <2>2, <2>3 DEF TaskCheckFails, Frame, ClickFrame, SaveFrame, DialogFrame, VerifyFrame, LoopFrame, TaskFrame, Yield, IInv, TypeOK
  <2>5. frames' \in Seq(Frame) /\ frames' # <<>> /\ Head(frames') = f /\ Running' \subseteq Running \cup {f}
    BY <1>4, <2>1, <2>2, <2>4, SwapRuns DEF TaskCheckFails, LoopLeft, TaskError
  <2>6. TypePanel'
    BY <1>4, <2>1, <2>2, <2>3, InstallAssumption DEF TaskCheckFails, IInv, TypeOK, TypePanel, LoopLeft, TaskError
  <2>7. TypeList' /\ TypeSlot' /\ TypeContent' /\ TypeJob' /\ TypeQueue' /\ TypeNet' /\ TypeCache'
    BY <1>4 DEF TaskCheckFails, IInv, TypeOK, TypeList, TypeSlot, TypeContent, TypeJob, TypeQueue, TypeNet, TypeCache, LoopLeft, TaskError
  <2>8. TypeFrames'
    BY <1>4, <2>5 DEF TaskCheckFails, IInv, TypeOK, TypeFrames, LoopLeft, TaskError
  <2>9. Ready'
    BY <1>4, <2>1, <2>2, <2>3, <2>5 DEF TaskCheckFails, IInv, Ready, LoopLeft, TaskError
  <2>10. Targeted'
    BY <1>4, <2>1, <2>2, <2>3, <2>5 DEF TaskCheckFails, IInv, Targeted, LoopLeft, TaskError
  <2>11. SavedNext'
    BY <1>4, <2>1, <2>2, <2>3, Settled DEF TaskCheckFails, IInv, SavedNext, LoopLeft, TaskError
  <2> QED  BY <2>6, <2>7, <2>8, <2>9, <2>10, <2>11 DEF IInv, TypeOK
<1>5. CASE TaskUnpack
  <2>1. frames \in Seq(Frame) /\ frames # <<>> /\ Head(frames) \in Frame /\ Head(frames) \in Running
       /\ Head(frames).kind = "checked"  /\ ~In("save")
    BY <1>5, HeadKnown DEF TaskUnpack, IInv, In
  <2>2. Head(frames).chart \in Charts /\ Head(frames).i \in Nat \ {0} /\ Head(frames).task \in Task /\ Head(frames).good \in BOOLEAN
    BY <2>1 DEF Frame, ClickFrame, SaveFrame, DialogFrame, VerifyFrame, LoopFrame, TaskFrame, Yield
  <2>3. target \in Charts /\ target # NoChart
    BY <1>5, <2>1, <2>2 DEF TaskUnpack, IInv, Targeted, TypeOK, TypeJob
  <2> DEFINE f == [Head(frames) EXCEPT !.kind = "copying", !.yield = "all", !.good = \A g \in TaskFiles(Head(frames).chart, Head(frames).task) : Good(g)]
  <2>4. f \in Frame
    BY <1>5, <2>1, <2>2, <2>3 DEF TaskUnpack, Frame, ClickFrame, SaveFrame, DialogFrame, VerifyFrame, LoopFrame, TaskFrame, Yield, IInv, TypeOK
  <2>5. f.kind = "copying"
    BY <2>1, <2>2 DEF Frame, ClickFrame, SaveFrame, DialogFrame, VerifyFrame, LoopFrame, TaskFrame, Yield
  <2>6. frames' \in Seq(Frame) /\ frames' # <<>> /\ Head(frames') = f /\ Running' \subseteq Running \cup {f}
    BY <1>5, <2>1, <2>2, <2>4, SwapRuns DEF TaskUnpack
  <2> HIDE DEF f
  <2>7. TypePanel'
    BY <1>5, <2>1, <2>2, <2>3, <2>5, InstallAssumption DEF TaskUnpack, IInv, TypeOK, TypePanel
  <2>8. TypeContent'
    BY <1>5, <2>1, <2>2, <2>3, <2>5, InstallAssumption DEF TaskUnpack, IInv, TypeOK, TypeContent
  <2>9. TypeList' /\ TypeSlot' /\ TypeJob' /\ TypeQueue' /\ TypeNet' /\ TypeCache'
    BY <1>5 DEF TaskUnpack, IInv, TypeOK, TypeList, TypeSlot, TypeJob, TypeQueue, TypeNet, TypeCache
  <2>10. TypeFrames'
    BY <1>5, <2>6 DEF TaskUnpack, IInv, TypeOK, TypeFrames
  <2>11. Ready'
    BY <1>5, <2>1, <2>2, <2>3, <2>5, <2>6 DEF TaskUnpack, IInv, Ready
  <2>12. Targeted'
    BY <1>5, <2>1, <2>2, <2>3, <2>5, <2>6 DEF TaskUnpack, IInv, Targeted
  <2>13. SavedNext'
    BY <1>5, <2>1, <2>2, <2>3, <2>5, Settled DEF TaskUnpack, IInv, SavedNext
  <2> QED  BY <2>7, <2>8, <2>9, <2>10, <2>11, <2>12, <2>13 DEF IInv, TypeOK
<1>6. CASE TaskFinish
  <2>1. frames \in Seq(Frame) /\ frames # <<>> /\ Head(frames) \in Frame /\ Head(frames) \in Running
       /\ Head(frames).kind = "copying"  /\ ~In("save")
    BY <1>6, HeadKnown DEF TaskFinish, IInv, In
  <2>2. Head(frames).chart \in Charts /\ Head(frames).i \in Nat \ {0} /\ Head(frames).task \in Task /\ Head(frames).good \in BOOLEAN
    BY <2>1 DEF Frame, ClickFrame, SaveFrame, DialogFrame, VerifyFrame, LoopFrame, TaskFrame, Yield
  <2>3. target \in Charts /\ target # NoChart
    BY <1>6, <2>1, <2>2 DEF TaskFinish, IInv, Targeted, TypeOK, TypeJob
  <2> DEFINE f == [kind |-> "loop", i |-> Head(frames).i + 1, yield |-> "no"]
  <2>4. f \in Frame
    BY <1>6, <2>1, <2>2, <2>3 DEF TaskFinish, Frame, ClickFrame, SaveFrame, DialogFrame, VerifyFrame, LoopFrame, TaskFrame, Yield, IInv, TypeOK
  <2>5. frames' \in Seq(Frame) /\ frames' # <<>> /\ Head(frames') = f /\ Running' \subseteq Running \cup {f}
    BY <1>6, <2>1, <2>2, <2>4, SwapRuns DEF TaskFinish
  <2>6. TypePanel'
    BY <1>6, <2>1, <2>2, <2>3, InstallAssumption DEF TaskFinish, IInv, TypeOK, TypePanel
  <2>7. TypeContent'
    BY <1>6, <2>1, <2>2, <2>3, InstallAssumption DEF TaskFinish, IInv, TypeOK, TypeContent, Task
  <2>8. TypeList' /\ TypeSlot' /\ TypeJob' /\ TypeQueue' /\ TypeNet' /\ TypeCache'
    BY <1>6 DEF TaskFinish, IInv, TypeOK, TypeList, TypeSlot, TypeJob, TypeQueue, TypeNet, TypeCache
  <2>9. TypeFrames'
    BY <1>6, <2>5 DEF TaskFinish, IInv, TypeOK, TypeFrames
  <2>10. Ready'
    BY <1>6, <2>1, <2>2, <2>3, <2>5 DEF TaskFinish, IInv, Ready
  <2>11. Targeted'
    BY <1>6, <2>1, <2>2, <2>3, <2>5 DEF TaskFinish, IInv, Targeted
  <2>12. SavedNext'
    BY <1>6, <2>1, <2>2, <2>3, Settled DEF TaskFinish, IInv, SavedNext
  <2> QED  BY <2>6, <2>7, <2>8, <2>9, <2>10, <2>11, <2>12 DEF IInv, TypeOK
<1>7. CASE TaskFinishFails
  <2>1. frames \in Seq(Frame) /\ frames # <<>> /\ Head(frames) \in Frame /\ Head(frames) \in Running
       /\ Head(frames).kind = "copying"  /\ ~In("save")
    BY <1>7, HeadKnown DEF TaskFinishFails, IInv, In
  <2>2. Head(frames).chart \in Charts /\ Head(frames).i \in Nat \ {0} /\ Head(frames).task \in Task /\ Head(frames).good \in BOOLEAN
    BY <2>1 DEF Frame, ClickFrame, SaveFrame, DialogFrame, VerifyFrame, LoopFrame, TaskFrame, Yield
  <2>3. target \in Charts /\ target # NoChart
    BY <1>7, <2>1, <2>2 DEF TaskFinishFails, IInv, Targeted, TypeOK, TypeJob
  <2> DEFINE f == [kind |-> "report", yield |-> "events"]
  <2>4. f \in Frame
    BY <1>7, <2>1, <2>2, <2>3 DEF TaskFinishFails, Frame, ClickFrame, SaveFrame, DialogFrame, VerifyFrame, LoopFrame, TaskFrame, Yield, IInv, TypeOK
  <2>5. frames' \in Seq(Frame) /\ frames' # <<>> /\ Head(frames') = f /\ Running' \subseteq Running \cup {f}
    BY <1>7, <2>1, <2>2, <2>4, SwapRuns DEF TaskFinishFails, TaskError
  <2>6. TypePanel'
    BY <1>7, <2>1, <2>2, <2>3, InstallAssumption DEF TaskFinishFails, IInv, TypeOK, TypePanel, TaskError
  <2>7. TypeList' /\ TypeSlot' /\ TypeContent' /\ TypeJob' /\ TypeQueue' /\ TypeNet' /\ TypeCache'
    BY <1>7 DEF TaskFinishFails, IInv, TypeOK, TypeList, TypeSlot, TypeContent, TypeJob, TypeQueue, TypeNet, TypeCache, TaskError
  <2>8. TypeFrames'
    BY <1>7, <2>5 DEF TaskFinishFails, IInv, TypeOK, TypeFrames, TaskError
  <2>9. Ready'
    BY <1>7, <2>1, <2>2, <2>3, <2>5 DEF TaskFinishFails, IInv, Ready, TaskError
  <2>10. Targeted'
    BY <1>7, <2>1, <2>2, <2>3, <2>5 DEF TaskFinishFails, IInv, Targeted, TaskError
  <2>11. SavedNext'
    BY <1>7, <2>1, <2>2, <2>3, Settled DEF TaskFinishFails, IInv, SavedNext, TaskError
  <2> QED  BY <2>6, <2>7, <2>8, <2>9, <2>10, <2>11 DEF IInv, TypeOK
<1>8. CASE LoopDone
  <2>1. frames \in Seq(Frame) /\ frames # <<>> /\ Head(frames) \in Frame /\ Head(frames) \in Running
       /\ Head(frames).kind = "loop"  /\ ~In("save")
    BY <1>8, HeadKnown DEF LoopDone, IInv, In
  <2>2. Head(frames).i \in Nat \ {0}
    BY <2>1 DEF Frame, ClickFrame, SaveFrame, DialogFrame, VerifyFrame, LoopFrame, TaskFrame, Yield
  <2>3. target \in Charts /\ target # NoChart
    BY <1>8, <2>1, <2>2 DEF LoopDone, IInv, Targeted, TypeOK, TypeJob
  <2>sv. \A c \in Charts : c # target => saved'[c] = installed'[c]
    BY <1>8, <2>1, <2>2, <2>3, Settled DEF LoopDone, IInv, TypeOK, TypeSlot
  <2> DEFINE f == [kind |-> "save", chart |-> target, yield |-> "no"]
  <2>4. f \in Frame
    BY <1>8, <2>1, <2>2, <2>3 DEF LoopDone, Frame, ClickFrame, SaveFrame, DialogFrame, VerifyFrame, LoopFrame, TaskFrame, Yield, IInv, TypeOK
  <2>5. frames' \in Seq(Frame) /\ frames' # <<>> /\ Head(frames') = f /\ Running' \subseteq Running \cup {f}
    BY <1>8, <2>1, <2>2, <2>4, SwapRuns DEF LoopDone
  <2>6. TypeSlot'
    BY <1>8, <2>1, <2>2, <2>3, InstallAssumption DEF LoopDone, IInv, TypeOK, TypeSlot, TypeJob
  <2>7. TypeList' /\ TypeContent' /\ TypeNet' /\ TypeCache'
    BY <1>8 DEF LoopDone, IInv, TypeOK, TypeList, TypeContent, TypeNet, TypeCache
  <2>7j. TypeJob' /\ TypeQueue' /\ TypePanel'
    BY <1>8 DEF LoopDone, IInv, TypeOK, TypeJob, TypeQueue, TypePanel
  <2>8. TypeFrames'
    BY <1>8, <2>5 DEF LoopDone, IInv, TypeOK, TypeFrames
  <2>9. Ready'
    BY <1>8, <2>1, <2>2, <2>3, <2>5 DEF LoopDone, IInv, Ready
  <2>10. Targeted'
    BY <1>8, <2>1, <2>2, <2>3, <2>5 DEF LoopDone, IInv, Targeted
  <2>hs. In("save")' /\ Head(frames)'.chart = target
    BY <2>5 DEF In
  <2>11. SavedNext'
    BY <2>hs, <2>sv DEF SavedNext
  <2> QED  BY <2>6, <2>7, <2>7j, <2>8, <2>9, <2>10, <2>11 DEF IInv, TypeOK
<1>9. CASE SaveConfig
  <2>1. frames \in Seq(Frame) /\ frames # <<>> /\ Head(frames) \in Frame /\ Head(frames) \in Running
       /\ Head(frames).kind = "save" 
    BY <1>9, HeadKnown DEF SaveConfig, IInv, In
  <2>2. Head(frames).chart \in Charts
    BY <2>1 DEF Frame, ClickFrame, SaveFrame, DialogFrame, VerifyFrame, LoopFrame, TaskFrame, Yield
  <2>3. target \in Charts /\ target # NoChart
    BY <1>9, <2>1, <2>2 DEF SaveConfig, IInv, Targeted, TypeOK, TypeJob
  <2> DEFINE f == [kind |-> "report", yield |-> "events"]
  <2>4. f \in Frame
    BY <1>9, <2>1, <2>2, <2>3 DEF SaveConfig, Frame, ClickFrame, SaveFrame, DialogFrame, VerifyFrame, LoopFrame, TaskFrame, Yield, IInv, TypeOK
  <2>5. frames' \in Seq(Frame) /\ frames' # <<>> /\ Head(frames') = f /\ Running' \subseteq Running \cup {f}
    BY <1>9, <2>1, <2>2, <2>4, SwapRuns DEF SaveConfig, SaveShop
  <2>6. TypeSlot'
    BY <1>9, <2>1, <2>2, <2>3, InstallAssumption DEF SaveConfig, IInv, TypeOK, TypeSlot, SaveShop
  <2>7. TypePanel'
    BY <1>9, <2>1, <2>2, <2>3, InstallAssumption DEF SaveConfig, IInv, TypeOK, TypePanel, SaveShop
  <2>8. TypeList' /\ TypeContent' /\ TypeJob' /\ TypeQueue' /\ TypeNet' /\ TypeCache'
    BY <1>9 DEF SaveConfig, IInv, TypeOK, TypeList, TypeContent, TypeJob, TypeQueue, TypeNet, TypeCache, SaveShop
  <2>9. TypeFrames'
    BY <1>9, <2>5 DEF SaveConfig, IInv, TypeOK, TypeFrames, SaveShop
  <2>10. Ready'
    BY <1>9, <2>1, <2>2, <2>3, <2>5 DEF SaveConfig, IInv, Ready, SaveShop
  <2>11. Targeted'
    BY <1>9, <2>1, <2>2, <2>3, <2>5 DEF SaveConfig, IInv, Targeted, SaveShop
  <2>12. SavedNext'
    BY <1>9, <2>1, <2>2, <2>3, Settled DEF SaveConfig, IInv, SavedNext, SaveShop
  <2> QED  BY <2>6, <2>7, <2>8, <2>9, <2>10, <2>11, <2>12 DEF IInv, TypeOK
<1>10. CASE CloseFailed
  <2>1. frames \in Seq(Frame) /\ frames # <<>> /\ Head(frames) \in Frame /\ Head(frames) \in Running
       /\ Head(frames).kind = "failed"  /\ ~In("save")
    BY <1>10, HeadKnown DEF CloseFailed, IInv, In
  <2>2. target \in Charts /\ target # NoChart
    BY <1>10, <2>1 DEF CloseFailed, IInv, Targeted, TypeOK, TypeJob
  <2>3. frames' \in Seq(Frame) /\ Running' \subseteq Running
    BY <1>10, <2>1, PopRuns DEF CloseFailed
  <2>4. TypeSlot'
    BY <1>10, <2>1, <2>2, InstallAssumption DEF CloseFailed, IInv, TypeOK, TypeSlot, ChartList, SaveShop, Controls
  <2>5. TypePanel'
    BY <1>10, <2>1, <2>2, InstallAssumption DEF CloseFailed, IInv, TypeOK, TypePanel, ChartList, Controls, SaveShop
  <2>6. TypeList' /\ TypeContent' /\ TypeJob' /\ TypeQueue' /\ TypeNet' /\ TypeCache'
    BY <1>10 DEF CloseFailed, IInv, TypeOK, TypeList, TypeContent, TypeJob, TypeQueue, TypeNet, TypeCache, ChartList, Controls, SaveShop
  <2>7. TypeFrames'
    BY <1>10, <2>3 DEF CloseFailed, IInv, TypeOK, TypeFrames, ChartList, Controls, SaveShop
  <2>8. Ready'
    BY <1>10, <2>1, <2>2, <2>3 DEF CloseFailed, IInv, Ready, ChartList, Controls, SaveShop
  <2>9. Targeted'
    BY <1>10, <2>1, <2>2, <2>3 DEF CloseFailed, IInv, Targeted, ChartList, Controls, SaveShop
  <2>10. SavedNext'
    BY <1>10, <2>1, <2>2, Settled DEF CloseFailed, IInv, SavedNext, ChartList, Controls, SaveShop
  <2> QED  BY <2>4, <2>5, <2>6, <2>7, <2>8, <2>9, <2>10 DEF IInv, TypeOK
<1>11. CASE CloseAborted
  <2>1. frames \in Seq(Frame) /\ frames # <<>> /\ Head(frames) \in Frame /\ Head(frames) \in Running
       /\ Head(frames).kind = "aborted"  /\ ~In("save")
    BY <1>11, HeadKnown DEF CloseAborted, IInv, In
  <2>2. target \in Charts /\ target # NoChart
    BY <1>11, <2>1 DEF CloseAborted, IInv, Targeted, TypeOK, TypeJob
  <2>3. frames' \in Seq(Frame) /\ Running' \subseteq Running
    BY <1>11, <2>1, PopRuns DEF CloseAborted
  <2>4. TypePanel'
    BY <1>11, <2>1, <2>2, InstallAssumption DEF CloseAborted, IInv, TypeOK, TypePanel, Controls
  <2>5. TypeList' /\ TypeSlot' /\ TypeContent' /\ TypeJob' /\ TypeQueue' /\ TypeNet' /\ TypeCache'
    BY <1>11 DEF CloseAborted, IInv, TypeOK, TypeList, TypeSlot, TypeContent, TypeJob, TypeQueue, TypeNet, TypeCache, Controls
  <2>6. TypeFrames'
    BY <1>11, <2>3 DEF CloseAborted, IInv, TypeOK, TypeFrames, Controls
  <2>7. Ready'
    BY <1>11, <2>1, <2>2, <2>3 DEF CloseAborted, IInv, Ready, Controls
  <2>8. Targeted'
    BY <1>11, <2>1, <2>2, <2>3 DEF CloseAborted, IInv, Targeted, Controls
  <2>9. SavedNext'
    BY <1>11, <2>1, <2>2, Settled DEF CloseAborted, IInv, SavedNext, Controls
  <2> QED  BY <2>4, <2>5, <2>6, <2>7, <2>8, <2>9 DEF IInv, TypeOK
<1>12. CASE CloseReport
  <2>1. frames \in Seq(Frame) /\ frames # <<>> /\ Head(frames) \in Frame /\ Head(frames) \in Running
       /\ Head(frames).kind = "report"  /\ ~In("save")
    BY <1>12, HeadKnown DEF CloseReport, IInv, In
  <2>2. target \in Charts /\ target # NoChart
    BY <1>12, <2>1 DEF CloseReport, IInv, Targeted, TypeOK, TypeJob
  <2>3. frames' \in Seq(Frame) /\ Running' \subseteq Running
    BY <1>12, <2>1, PopRuns DEF CloseReport
  <2>4. TypeSlot'
    BY <1>12, <2>1, <2>2, InstallAssumption DEF CloseReport, IInv, TypeOK, TypeSlot, ChartList, SaveShop, Controls
  <2>5. TypePanel'
    BY <1>12, <2>1, <2>2, InstallAssumption DEF CloseReport, IInv, TypeOK, TypePanel, ChartList, Controls, SaveShop
  <2>6. TypeList' /\ TypeContent' /\ TypeJob' /\ TypeQueue' /\ TypeNet' /\ TypeCache'
    BY <1>12 DEF CloseReport, IInv, TypeOK, TypeList, TypeContent, TypeJob, TypeQueue, TypeNet, TypeCache, ChartList, Controls, SaveShop
  <2>7. TypeFrames'
    BY <1>12, <2>3 DEF CloseReport, IInv, TypeOK, TypeFrames, ChartList, Controls, SaveShop
  <2>8. Ready'
    BY <1>12, <2>1, <2>2, <2>3 DEF CloseReport, IInv, Ready, ChartList, Controls, SaveShop
  <2>9. Targeted'
    BY <1>12, <2>1, <2>2, <2>3 DEF CloseReport, IInv, Targeted, ChartList, Controls, SaveShop
  <2>10. SavedNext'
    BY <1>12, <2>1, <2>2, Settled DEF CloseReport, IInv, SavedNext, ChartList, Controls, SaveShop
  <2> QED  BY <2>4, <2>5, <2>6, <2>7, <2>8, <2>9, <2>10 DEF IInv, TypeOK
<1> QED  BY <1>1, <1>2, <1>3, <1>4, <1>5, <1>6, <1>7, <1>8, <1>9, <1>10, <1>11, <1>12 DEF Tasks

\* The program starts in a state of the invariant.
LEMMA InitInv == Init => IInv
<1> SUFFICES ASSUME Init PROVE IInv
  OBVIOUS
<1>1. 0 \in Edition /\ 1 \in Edition /\ 1 \in 1..MaxEd
  BY InstallAssumption DEF Edition
<1>2. frames = <<>> /\ Running = {}
  BY DEF Init, Running
<1>3. TypeList /\ TypeSlot
  <2>1. TypeList
    BY <1>1 DEF Init, TypeList
  <2>2. TypeSlot
    BY <1>1 DEF Init, TypeSlot
  <2> QED  BY <2>1, <2>2
<1>4. TypeContent
  <2>1. \A c \in Charts : 1..installed[c] \in SUBSET (1..MaxEd)
    BY InstallAssumption DEF Init
  <2> QED  BY <2>1 DEF Init, TypeContent
<1>5. TypeJob
  <2>1. <<>> \in Seq(Task)
    BY EmptySeq
  <2>2. tasks \in [Charts -> Seq(Task)] /\ queue \in [Charts -> Seq(Task)]
    BY <2>1 DEF Init
  <2> QED  BY <1>1, <2>2 DEF Init, TypeJob
<1>6. TypeQueue
  BY DEF Init, TypeQueue
<1>7. TypePanel /\ TypeNet
  BY DEF Init, TypePanel, TypeNet, Transfer, Idle
<1>8. TypeCache /\ TypeFrames
  BY <1>2, EmptySeq DEF Init, TypeCache, TypeFrames, Quality
<1>9. Ready /\ Targeted
  BY <1>2 DEF Init, Ready, Targeted, Idle
<1>10. SavedNext
  BY DEF Init, SavedNext
<1> QED  BY <1>3, <1>4, <1>5, <1>6, <1>7, <1>8, <1>9, <1>10 DEF IInv, TypeOK

\* The shop's publishing an edition keeps the invariant.
LEMMA PublishStep ==
  ASSUME IInv, NEW c \in Charts, ServerPublish(c)
  PROVE  IInv'
<1>1. Running' = Running /\ frames' = frames
  BY DEF ServerPublish, Running
<1>2. TypeList'
  BY InstallAssumption DEF ServerPublish, IInv, TypeOK, TypeList, Edition
<1>3. TypeSlot' /\ TypeContent' /\ TypeNet' /\ TypeCache' /\ TypeFrames'
  BY DEF ServerPublish, IInv, TypeOK, TypeSlot, TypeContent, TypeNet, TypeCache, TypeFrames
<1>3j. TypeJob' /\ TypeQueue' /\ TypePanel'
  BY DEF ServerPublish, IInv, TypeOK, TypeJob, TypeQueue, TypePanel
<1>4. Ready' /\ Targeted' /\ SavedNext'
  BY <1>1 DEF ServerPublish, IInv, Ready, Targeted, SavedNext, In
<1> QED  BY <1>2, <1>3, <1>3j, <1>4 DEF IInv, TypeOK

\* A step that changes nothing keeps the invariant.
LEMMA StutterStep ==
  ASSUME IInv, UNCHANGED vars
  PROVE  IInv'
<1>1. Running' = Running /\ frames' = frames
  BY DEF vars, Running
<1>2. TypeList' /\ TypeSlot' /\ TypeContent' /\ TypeJob' /\ TypeQueue'
  BY DEF vars, IInv, TypeOK, TypeList, TypeSlot, TypeContent, TypeJob, TypeQueue
<1>3. TypePanel' /\ TypeNet' /\ TypeCache' /\ TypeFrames'
  BY DEF vars, IInv, TypeOK, TypePanel, TypeNet, TypeCache, TypeFrames
<1>4. Ready' /\ Targeted' /\ SavedNext'
  BY <1>1 DEF vars, IInv, Ready, Targeted, SavedNext, In
<1> QED  BY <1>2, <1>3, <1>4 DEF IInv, TypeOK

\* Type correctness with what it needs (the list is known before Install is
\* asked, a chain has a target, only the innermost handler has a record it has
\* not saved) holds in every state, whatever the constants.
THEOREM InductiveInv == Spec => []IInv
<1>1. Init => IInv
  BY InitInv
<1>2. IInv /\ [Next]_vars => IInv'
  <2> SUFFICES ASSUME IInv, [Next]_vars PROVE IInv'
    OBVIOUS
  <2>1. CASE User
    BY <2>1, UserStep
  <2>2. CASE Crash
    <3>1. Restart /\ clicks' \in Nat
      BY <2>2 DEF Crash, IInv, TypeOK, TypeFrames
    <3> QED  BY <3>1, RestartStep
  <2>3. CASE System
    BY <2>3, InstallingStep, ChainingStep, TransferringStep, TasksStep DEF System
  <2>4. CASE \E c \in Charts : ServerPublish(c)
    BY <2>4, PublishStep
  <2>5. CASE UNCHANGED vars
    BY <2>5, StutterStep
  <2> QED  BY <2>1, <2>2, <2>3, <2>4, <2>5 DEF Next
<1> QED  BY <1>1, <1>2, PTL DEF Spec

-----------------------------------------------------------------------------
(* What follows from it.                                                   *)

\* Every variable keeps its type, whatever handlers nest: what is read from a
\* queue or a task list is a file or a task, and no chain event is handled
\* before a target chart is set.
THEOREM TypeCorrect == Spec => []TypeOK
<1>1. IInv => TypeOK
  BY DEF IInv
<1> QED  BY <1>1, InductiveInv, PTL

\* OnButtonInstallChain records an edition and saves it before any other handler
\* can run: outside that handler the recorded editions are those on disk, also
\* with an eager user, failing disks, crashes and any number of charts.
THEOREM Durable == Spec => []CommittedIsDurable
<1>1. IInv => CommittedIsDurable
  <2> SUFFICES ASSUME IInv, NEW c \in Charts, saved[c] # installed[c]
               PROVE  \E f \in Running : f.kind = "save" /\ f.chart = c
    BY DEF CommittedIsDurable
  <2>1. In("save") /\ Head(frames).chart = c
    BY DEF IInv, SavedNext
  <2>2. Head(frames) \in Running /\ Head(frames).kind = "save"
    BY <2>1, HeadKnown DEF IInv
  <2> QED  BY <2>1, <2>2
<1> QED  BY <1>1, InductiveInv, PTL

-----------------------------------------------------------------------------
(* One thing at a time: the handlers, the pending event and the transfers   *)
(* of a patient user's program.                                             *)

NoTransfer == \A t \in Threads : ~Active(t)

\* A handler, a pending chain event and a transfer are never there together, and
\* there is at most one of each: handlers never nest.
Serial ==
  /\ frames # <<>> => Len(frames) = 1 /\ chain = 0 /\ NoTransfer
  /\ chain > 0 => chain = 1 /\ NoTransfer
  /\ \A t, u \in Threads : Active(t) /\ Active(u) => t = u

NoNewTransfer == \A t \in Threads : Active(t)' => Active(t)

\* What a stack of one handler becomes.
LEMMA OneHandler ==
  ASSUME Serial, frames \in Seq(Frame), frames # <<>>
  PROVE  /\ chain = 0 /\ NoTransfer /\ Running = {Head(frames)}
         /\ Pop => frames' = <<>> /\ Running' = {}
         /\ \A f : Swap(f) => frames' = <<f>> /\ Running' = {f}
<1>1. chain = 0 /\ NoTransfer /\ Len(frames) = 1
  BY DEF Serial
<1>2. Tail(frames) = <<>> /\ Running = {Head(frames)}
  <2>1. DOMAIN frames = {1} /\ Head(frames) = frames[1]
    BY <1>1
  <2>2. Len(Tail(frames)) = 0 /\ Tail(frames) \in Seq(Frame)
    BY <1>1
  <2>3. Tail(frames) = <<>>
    BY <2>2, EmptySeq
  <2> QED  BY <2>1, <2>3 DEF Running
<1>3. ASSUME Pop PROVE frames' = <<>> /\ Running' = {}
  BY <1>2, <1>3 DEF Pop, Running
<1>4. ASSUME NEW f, Swap(f) PROVE frames' = <<f>> /\ Running' = {f}
  <2>1. <<f>> \o <<>> = <<f>>
    OBVIOUS
  <2>2. frames' = <<f>>
    BY <1>2, <1>4, <2>1 DEF Swap
  <2> QED  BY <2>2 DEF Running
<1> QED  BY <1>1, <1>2, <1>3, <1>4

\* The first handler.
LEMMA FirstHandler ==
  ASSUME frames = <<>>, NEW f, Push(f)
  PROVE  frames' = <<f>> /\ Running' = {f}
<1>1. <<f>> \o <<>> = <<f>>
  OBVIOUS
<1>2. frames' = <<f>>
  BY <1>1 DEF Push
<1> QED  BY <1>2 DEF Running

LEMMA Single == ASSUME NEW f PROVE <<f>> # <<>> /\ Len(<<f>>) = 1 /\ Head(<<f>>) = f
OBVIOUS

\* The handlers and events stay; a transfer may end.
LEMMA KeepsSerial ==
  ASSUME Serial, frames' = frames, chain' = chain, NoNewTransfer
  PROVE  Serial'
BY DEF Serial, NoTransfer, NoNewTransfer

\* An event is taken and handled at once.
LEMMA EventHandled ==
  ASSUME Serial, chain \in Nat, chain > 0, frames' = frames, chain' = chain - 1, NoNewTransfer
  PROVE  Serial'
<1>1. chain = 1 /\ frames = <<>> /\ NoTransfer
  BY DEF Serial
<1> QED  BY <1>1 DEF Serial, NoTransfer, NoNewTransfer

\* An event is taken by a handler that does not return yet.
LEMMA EventHeld ==
  ASSUME Serial, chain \in Nat, chain > 0, NEW f, Push(f), chain' = chain - 1, NoNewTransfer
  PROVE  Serial'
<1>1. chain = 1 /\ frames = <<>> /\ NoTransfer
  BY DEF Serial
<1>2. frames' = <<f>>
  BY <1>1, FirstHandler
<1> QED  BY <1>1, <1>2, Single DEF Serial, NoTransfer, NoNewTransfer

\* A handler goes on as another one, or as a dialog.
LEMMA HandlerGoesOn ==
  ASSUME Serial, frames \in Seq(Frame), frames # <<>>, NEW f, Swap(f), chain' = chain, NoNewTransfer
  PROVE  Serial'
<1>1. frames' = <<f>> /\ chain = 0 /\ NoTransfer
  BY OneHandler
<1> QED  BY <1>1, Single DEF Serial, NoTransfer, NoNewTransfer

\* A handler returns.
LEMMA HandlerReturns ==
  ASSUME Serial, frames \in Seq(Frame), frames # <<>>, Pop, chain' = chain, NoNewTransfer
  PROVE  Serial'
<1>1. frames' = <<>> /\ chain = 0 /\ NoTransfer
  BY OneHandler
<1> QED  BY <1>1 DEF Serial, NoTransfer, NoNewTransfer

\* ... and posts an event.
LEMMA HandlerPosts ==
  ASSUME Serial, frames \in Seq(Frame), frames # <<>>, Pop, chain' = chain + 1, NoNewTransfer
  PROVE  Serial'
<1>1. frames' = <<>> /\ chain = 0 /\ NoTransfer
  BY OneHandler
<1> QED  BY <1>1 DEF Serial, NoTransfer, NoNewTransfer

\* A transfer starts on thread t when nothing else is left.
LEMMA TransferAlone ==
  ASSUME NEW t \in Threads, chain' = 0, frames' = <<>>, \A u \in Threads : u # t => ~Active(u)'
  PROVE  Serial'
BY DEF Serial, NoTransfer

\* A transfer's end is handled: an event is posted.
LEMMA TransferPosts ==
  ASSUME Serial, chain \in Nat, NEW t \in Threads, Active(t), ~Active(t)', frames' = frames,
         chain' = chain + 1, NoNewTransfer
  PROVE  Serial'
<1>1. chain = 0 /\ frames = <<>> /\ \A u \in Threads : u # t => ~Active(u)
  BY DEF Serial, NoTransfer
<1> QED  BY <1>1 DEF Serial, NoTransfer, NoNewTransfer

\* ... or reported in a dialog.
LEMMA TransferReported ==
  ASSUME Serial, chain \in Nat, NEW t \in Threads, Active(t), ~Active(t)',
         NEW f, Push(f), chain' = chain, NoNewTransfer
  PROVE  Serial'
<1>1. chain = 0 /\ frames = <<>> /\ \A u \in Threads : u # t => ~Active(u)
  BY DEF Serial, NoTransfer
<1>2. frames' = <<f>>
  BY <1>1, FirstHandler
<1> QED  BY <1>1, <1>2, Single DEF Serial, NoTransfer, NoNewTransfer

\* After a restart nothing is under way.
LEMMA RestartIdle ==
  ASSUME Restart
  PROVE  frames' = <<>> /\ chain' = 0 /\ NoTransfer' /\ Running' = {} /\ Serial'
<1>1. frames' = <<>> /\ chain' = 0 /\ NoTransfer'
  BY DEF Restart, NoTransfer, Active, Idle
<1> QED  BY <1>1 DEF Serial, NoTransfer, Running

\* What an action that closes the stream on behalf of thread t ends.
LEMMA CloseEnds ==
  ASSUME TypeOK, NEW t \in Threads, CloseStream(t)
  PROVE  ~Active(t)' /\ NoNewTransfer
<1>1. xfer'[t] = Idle
  BY DEF CloseStream
<1>2. ASSUME NEW u \in Threads, u # t PROVE xfer'[u].st = xfer[u].st
  BY <1>2 DEF CloseStream, TypeOK, TypeNet, Transfer
<1> QED  BY <1>1, <1>2 DEF Active, NoNewTransfer, Idle

-----------------------------------------------------------------------------
(* Every step of a patient user's program.                                 *)

\* A click of a patient user.
LEMMA UserSerial ==
  ASSUME IInv, Serial, User, ~EagerUser
  PROVE  Serial'
<1>0. frames \in Seq(Frame) /\ chain \in Nat
  BY DEF IInv, TypeOK, TypeFrames, TypeQueue
<1>1. CASE ClickUpdate
  <2>1. NoNewTransfer
    BY <1>1 DEF ClickUpdate, NoNewTransfer, Active
  <2> QED  BY <1>1, <2>1, KeepsSerial DEF ClickUpdate
<1>2. CASE ClickUpdateFails
  <2>1. NoNewTransfer
    BY <1>2 DEF ClickUpdateFails, NoNewTransfer, Active
  <2> QED  BY <1>2, <2>1, KeepsSerial DEF ClickUpdateFails
<1>3. CASE ClickCancel
  <2>1. NoNewTransfer
    BY <1>3 DEF ClickCancel, NoNewTransfer, Active, IInv, TypeOK, TypeNet, Transfer
  <2> QED  BY <1>3, <2>1, KeepsSerial DEF ClickCancel
<1>4. ASSUME NEW c \in Charts, ClickSelect(c) PROVE Serial'
  <2>1. NoNewTransfer
    BY <1>4 DEF ClickSelect, NoNewTransfer, Active
  <2> QED  BY <1>4, <2>1, KeepsSerial DEF ClickSelect
<1>5. ASSUME NEW c \in Charts, ClickInstall(c) PROVE Serial'
  <2>1. chain = 0 /\ NoTransfer /\ frames = <<>>
    BY <1>5 DEF ClickInstall, Patience, Quiet, NoTransfer
  <2>2. NoNewTransfer /\ chain' = chain
    BY <1>5 DEF ClickInstall, NoNewTransfer, Active
  <2>3. PICK f : Push(f)
    BY <1>5 DEF ClickInstall
  <2>4. frames' = <<f>>
    BY <2>1, <2>3, FirstHandler
  <2> QED  BY <2>1, <2>2, <2>4, Single DEF Serial, NoTransfer, NoNewTransfer
<1>6. CASE ClickInstallNothing
  BY <1>6, RestartIdle DEF ClickInstallNothing
<1>7. ASSUME NEW c \in Charts, ClickInstallRefused(c) PROVE Serial'
  <2>1. NoNewTransfer
    BY <1>7 DEF ClickInstallRefused, NoNewTransfer, Active
  <2> QED  BY <1>7, <2>1, KeepsSerial DEF ClickInstallRefused
<1> QED  BY <1>1, <1>2, <1>3, <1>4, <1>5, <1>6, <1>7 DEF User

\* A step of OnButtonInstall.
LEMMA InstallingSerial ==
  ASSUME IInv, Serial, Installing
  PROVE  Serial'
<1>0. frames \in Seq(Frame) /\ chain \in Nat
  BY DEF IInv, TypeOK, TypeFrames, TypeQueue
<1>1. CASE DisableInstall
  <2>1. NoNewTransfer
    BY <1>1 DEF DisableInstall, NoNewTransfer, Active
  <2>2. frames # <<>>
    BY <1>1 DEF DisableInstall, In
  <2> QED  BY <1>0, <1>1, <2>1, <2>2, HandlerGoesOn DEF DisableInstall
<1>2. CASE InstallFails
  <2>1. NoNewTransfer
    BY <1>2 DEF InstallFails, NoNewTransfer, Active
  <2>2. frames # <<>>
    BY <1>2 DEF InstallFails, In
  <2> QED  BY <1>0, <1>2, <2>1, <2>2, HandlerReturns DEF InstallFails
<1>3. CASE InstallLeaves
  <2>1. NoNewTransfer
    BY <1>3 DEF InstallLeaves, NoNewTransfer, Active
  <2>2. frames # <<>>
    BY <1>3 DEF InstallLeaves, In
  <2> QED  BY <1>0, <1>3, <2>1, <2>2, HandlerReturns DEF InstallLeaves
<1>4. CASE PrepareFails
  <2>1. NoNewTransfer
    BY <1>4 DEF PrepareFails, NoNewTransfer, Active
  <2>2. frames # <<>>
    BY <1>4 DEF PrepareFails, In
  <2> QED  BY <1>0, <1>4, <2>1, <2>2, HandlerReturns DEF PrepareFails
<1>5. CASE PrepareOK
  <2>1. NoNewTransfer
    BY <1>5 DEF PrepareOK, NoNewTransfer, Active
  <2>2. frames # <<>>
    BY <1>5 DEF PrepareOK, In
  <2> QED  BY <1>0, <1>5, <2>1, <2>2, HandlerGoesOn DEF PrepareOK
<1>6. CASE StartDownload
  <2>1. NoNewTransfer
    BY <1>6 DEF StartDownload, NoNewTransfer, Active
  <2>2. frames # <<>>
    BY <1>6 DEF StartDownload, In
  <2> QED  BY <1>0, <1>6, <2>1, <2>2, HandlerPosts DEF StartDownload
<1>7. CASE PrepareNothing
  BY <1>7, RestartIdle DEF PrepareNothing
<1>8. CASE NameRefreshed
  <2>1. NoNewTransfer
    BY <1>8 DEF NameRefreshed, NoNewTransfer, Active
  <2>2. frames # <<>>
    BY <1>8 DEF NameRefreshed, In
  <2> QED  BY <1>0, <1>8, <2>1, <2>2, HandlerGoesOn DEF NameRefreshed
<1> QED  BY <1>1, <1>2, <1>3, <1>4, <1>5, <1>6, <1>7, <1>8 DEF Installing

\* A step of OnButtonInstallChain.
LEMMA ChainingSerial ==
  ASSUME IInv, Serial, Chaining
  PROVE  Serial'
<1>0. frames \in Seq(Frame) /\ chain \in Nat
  BY DEF IInv, TypeOK, TypeFrames, TypeQueue
<1>1. CASE ChainAborted
  <2>1. NoNewTransfer
    BY <1>1 DEF ChainAborted, NoNewTransfer, Active
  <2> QED  BY <1>0, <1>1, <2>1, EventHeld DEF ChainAborted, Dispatch
<1>2. CASE ChainVerify
  <2>1. NoNewTransfer
    BY <1>2 DEF ChainVerify, NoNewTransfer, Active
  <2> QED  BY <1>0, <1>2, <2>1, EventHeld DEF ChainVerify, Dispatch
<1>3. CASE ChainNoDirectory
  <2>1. NoNewTransfer
    BY <1>3 DEF ChainNoDirectory, NoNewTransfer, Active
  <2> QED  BY <1>0, <1>3, <2>1, EventHandled DEF ChainNoDirectory, Dispatch
<1>4. CASE ChainInstall
  <2>1. NoNewTransfer
    BY <1>4 DEF ChainInstall, NoNewTransfer, Active
  <2> QED  BY <1>0, <1>4, <2>1, EventHeld DEF ChainInstall, Dispatch
<1>5. CASE ChainNothing
  <2>1. NoNewTransfer
    BY <1>5 DEF ChainNothing, NoNewTransfer, Active
  <2> QED  BY <1>0, <1>5, <2>1, EventHandled DEF ChainNothing, Dispatch
<1>6. CASE VerifyPasses
  <2>1. NoNewTransfer
    BY <1>6 DEF VerifyPasses, NoNewTransfer, Active
  <2>2. frames # <<>>
    BY <1>6 DEF VerifyPasses, In
  <2> QED  BY <1>0, <1>6, <2>1, <2>2, HandlerPosts DEF VerifyPasses
<1>7. ASSUME NEW t \in Threads, ChainDownload(t) PROVE Serial'
  <2>1. chain = 1 /\ frames = <<>> /\ NoTransfer
    BY <1>0, <1>7 DEF ChainDownload, Dispatch, Serial
  <2>2. \A u \in Threads : u # t => ~Active(u)'
    BY <1>7, <2>1 DEF ChainDownload, StartTransfer, Active, NoTransfer
  <2>3. frames' = <<>> /\ chain' = 0
    BY <1>7, <2>1 DEF ChainDownload
  <2> QED  BY <2>2, <2>3, TransferAlone
<1>8. ASSUME NEW t \in Threads, VerifyFails(t) PROVE Serial'
  <2>1. frames # <<>>
    BY <1>8 DEF VerifyFails, In
  <2>2. chain = 0 /\ NoTransfer /\ frames' = <<>>
    BY <1>0, <1>8, <2>1, OneHandler DEF VerifyFails
  <2>3. chain' = 0 /\ \A u \in Threads : u # t => ~Active(u)'
    BY <1>8, <2>2 DEF VerifyFails, StartTransfer, Active, NoTransfer
  <2> QED  BY <2>2, <2>3, TransferAlone
<1>9. CASE VerifyPastEnd
  BY <1>9, RestartIdle DEF VerifyPastEnd
<1> QED  BY <1>1, <1>2, <1>3, <1>4, <1>5, <1>6, <1>7, <1>8, <1>9 DEF Chaining

\* A step of a curl thread, or of the handler of its events.
LEMMA TransferringSerial ==
  ASSUME IInv, Serial, Transferring
  PROVE  Serial'
<1>0. frames \in Seq(Frame) /\ chain \in Nat
  BY DEF IInv, TypeOK, TypeFrames, TypeQueue
<1>1. ASSUME NEW t \in Threads, TransferEnds(t) PROVE Serial'
  <2>1. NoNewTransfer
    BY <1>1 DEF TransferEnds, NoNewTransfer, Active, IInv, TypeOK, TypeNet, Transfer
  <2> QED  BY <1>1, <2>1, KeepsSerial DEF TransferEnds
<1>2. ASSUME NEW t \in Threads, ThreadDies(t) PROVE Serial'
  <2>1. NoNewTransfer
    BY <1>2 DEF ThreadDies, NoNewTransfer, Active, IInv, TypeOK, TypeNet, Transfer
  <2> QED  BY <1>2, <2>1, KeepsSerial DEF ThreadDies
<1>3. ASSUME NEW t \in Threads, HandleBegin(t) PROVE Serial'
  <2>1. NoNewTransfer
    BY <1>3 DEF HandleBegin, NoNewTransfer, Active, IInv, TypeOK, TypeNet, Transfer
  <2> QED  BY <1>3, <2>1, KeepsSerial DEF HandleBegin
<1>4. ASSUME NEW t \in Threads, HandleEndOK(t) PROVE Serial'
  <2>1. Active(t) /\ ~Active(t)' /\ NoNewTransfer
    BY <1>4, CloseEnds DEF HandleEndOK, Active, IInv
  <2> QED  BY <1>0, <1>4, <2>1, TransferPosts DEF HandleEndOK
<1>5. ASSUME NEW t \in Threads, HandleEndError(t) PROVE Serial'
  <2>1. Active(t) /\ ~Active(t)' /\ NoNewTransfer
    BY <1>5, CloseEnds DEF HandleEndError, Active, IInv
  <2> QED  BY <1>0, <1>5, <2>1, TransferReported DEF HandleEndError
<1> QED  BY <1>1, <1>2, <1>3, <1>4, <1>5 DEF Transferring

\* A step of the installation, or the end of a dialog.
LEMMA TasksSerial ==
  ASSUME IInv, Serial, Tasks
  PROVE  Serial'
<1>0. frames \in Seq(Frame) /\ chain \in Nat
  BY DEF IInv, TypeOK, TypeFrames, TypeQueue
<1>1. CASE ConfirmYes
  <2>1. NoNewTransfer
    BY <1>1 DEF ConfirmYes, NoNewTransfer, Active
  <2>2. frames # <<>>
    BY <1>1 DEF ConfirmYes, In
  <2> QED  BY <1>0, <1>1, <2>1, <2>2, HandlerGoesOn DEF ConfirmYes
<1>2. CASE ConfirmNo
  <2>1. NoNewTransfer
    BY <1>2 DEF ConfirmNo, NoNewTransfer, Active
  <2>2. frames # <<>>
    BY <1>2 DEF ConfirmNo, In
  <2> QED  BY <1>0, <1>2, <2>1, <2>2, HandlerReturns DEF ConfirmNo
<1>3. CASE TaskCheck
  <2>1. NoNewTransfer
    BY <1>3 DEF TaskCheck, NoNewTransfer, Active, LoopLeft
  <2>2. frames # <<>>
    BY <1>3 DEF TaskCheck, In, LoopLeft
  <2> QED  BY <1>0, <1>3, <2>1, <2>2, HandlerGoesOn DEF TaskCheck
<1>4. CASE TaskCheckFails
  <2>1. NoNewTransfer
    BY <1>4 DEF TaskCheckFails, NoNewTransfer, Active, LoopLeft, TaskError
  <2>2. frames # <<>>
    BY <1>4 DEF TaskCheckFails, In, LoopLeft, TaskError
  <2> QED  BY <1>0, <1>4, <2>1, <2>2, HandlerGoesOn DEF TaskCheckFails, LoopLeft, TaskError
<1>5. CASE TaskUnpack
  <2>1. NoNewTransfer
    BY <1>5 DEF TaskUnpack, NoNewTransfer, Active
  <2>2. frames # <<>>
    BY <1>5 DEF TaskUnpack, In
  <2> QED  BY <1>0, <1>5, <2>1, <2>2, HandlerGoesOn DEF TaskUnpack
<1>6. CASE TaskFinish
  <2>1. NoNewTransfer
    BY <1>6 DEF TaskFinish, NoNewTransfer, Active
  <2>2. frames # <<>>
    BY <1>6 DEF TaskFinish, In
  <2> QED  BY <1>0, <1>6, <2>1, <2>2, HandlerGoesOn DEF TaskFinish
<1>7. CASE TaskFinishFails
  <2>1. NoNewTransfer
    BY <1>7 DEF TaskFinishFails, NoNewTransfer, Active, TaskError
  <2>2. frames # <<>>
    BY <1>7 DEF TaskFinishFails, In, TaskError
  <2> QED  BY <1>0, <1>7, <2>1, <2>2, HandlerGoesOn DEF TaskFinishFails, TaskError
<1>8. CASE LoopDone
  <2>1. NoNewTransfer
    BY <1>8 DEF LoopDone, NoNewTransfer, Active
  <2>2. frames # <<>>
    BY <1>8 DEF LoopDone, In
  <2> QED  BY <1>0, <1>8, <2>1, <2>2, HandlerGoesOn DEF LoopDone
<1>9. CASE SaveConfig
  <2>1. NoNewTransfer
    BY <1>9 DEF SaveConfig, NoNewTransfer, Active
  <2>2. frames # <<>>
    BY <1>9 DEF SaveConfig, In
  <2> QED  BY <1>0, <1>9, <2>1, <2>2, HandlerGoesOn DEF SaveConfig
<1>10. CASE CloseFailed
  <2>1. NoNewTransfer
    BY <1>10 DEF CloseFailed, NoNewTransfer, Active
  <2>2. frames # <<>>
    BY <1>10 DEF CloseFailed, In
  <2> QED  BY <1>0, <1>10, <2>1, <2>2, HandlerReturns DEF CloseFailed
<1>11. CASE CloseAborted
  <2>1. NoNewTransfer
    BY <1>11 DEF CloseAborted, NoNewTransfer, Active
  <2>2. frames # <<>>
    BY <1>11 DEF CloseAborted, In
  <2> QED  BY <1>0, <1>11, <2>1, <2>2, HandlerReturns DEF CloseAborted
<1>12. CASE CloseReport
  <2>1. NoNewTransfer
    BY <1>12 DEF CloseReport, NoNewTransfer, Active
  <2>2. frames # <<>>
    BY <1>12 DEF CloseReport, In
  <2> QED  BY <1>0, <1>12, <2>1, <2>2, HandlerReturns DEF CloseReport
<1> QED  BY <1>1, <1>2, <1>3, <1>4, <1>5, <1>6, <1>7, <1>8, <1>9, <1>10, <1>11, <1>12 DEF Tasks

\* A user who waits until nothing is under way before clicking Install or Refresh
\* never makes two handlers of the shop panel nest, nor one run while an event is
\* pending or a transfer under way, although handlers yield to the event loop and
\* to other clicks, disks fail and the program is killed.
THEOREM NeverNested == ~EagerUser => (Spec => []Serial)
<1> SUFFICES ASSUME ~EagerUser PROVE Spec => []Serial
  OBVIOUS
<1>1. Init => Serial
  BY DEF Init, Serial, NoTransfer, Active, Idle
<1>2. IInv /\ Serial /\ [Next]_vars => Serial'
  <2> SUFFICES ASSUME IInv, Serial, [Next]_vars PROVE Serial'
    OBVIOUS
  <2>1. CASE User
    BY <2>1, UserSerial
  <2>2. CASE Crash
    BY <2>2, RestartIdle DEF Crash
  <2>3. CASE System
    BY <2>3, InstallingSerial, ChainingSerial, TransferringSerial, TasksSerial DEF System
  <2>4. CASE \E c \in Charts : ServerPublish(c)
    <3>1. frames' = frames /\ chain' = chain /\ NoNewTransfer
      BY <2>4 DEF ServerPublish, NoNewTransfer, Active
    <3> QED  BY <3>1, KeepsSerial
  <2>5. CASE UNCHANGED vars
    <3>1. frames' = frames /\ chain' = chain /\ NoNewTransfer
      BY <2>5 DEF vars, NoNewTransfer, Active
    <3> QED  BY <3>1, KeepsSerial
  <2> QED  BY <2>1, <2>2, <2>3, <2>4, <2>5 DEF Next
<1> QED  BY <1>1, <1>2, InductiveInv, PTL DEF Spec

\* So the starting installation, the pending chain event, the validation, the
\* transfer and the tasks being installed are at most one in all: no two of them
\* work on one queue index, stream and thread pointer.
THEOREM Exclusive == ~EagerUser => (Spec => []OneJob)
<1>1. IInv /\ Serial => OneJob
  <2> SUFFICES ASSUME IInv, Serial PROVE OneJob
    OBVIOUS
  <2>1. chain \in Nat /\ frames \in Seq(Frame)
    BY DEF IInv, TypeOK, TypeQueue, TypeFrames
  <2>2. CASE frames = <<>>
    <3>1. JobFrames(frames) = {}
      BY <2>2 DEF JobFrames
    <3> QED  BY <2>1, <3>1 DEF Serial, OneJob, NoTransfer
  <2>3. CASE frames # <<>>
    <3>1. chain = 0 /\ NoTransfer /\ Len(frames) = 1
      BY <2>3 DEF Serial
    <3>2. JobFrames(frames) \subseteq {1}
      BY <2>1, <3>1 DEF JobFrames
    <3> QED  BY <3>1, <3>2 DEF OneJob, NoTransfer
  <2> QED  BY <2>2, <2>3
<1> QED  BY <1>1, InductiveInv, NeverNested, PTL

-----------------------------------------------------------------------------
(* The buttons and the override status of the panel, for a patient user     *)
(* whose disk does not fail.                                                *)

\* Handlers of a job whose queue is built.
LaterKinds == {"verify", "confirm", "loop", "checked", "copying", "save"}

\* Something is under way that no handler holds.
UnderWay == chain > 0 \/ \E t \in Threads : Active(t)

\* What the panel shows, when, and why: a chain goes on to its installation unless
\* it was cancelled; a cancelled one has cleared the override status; the dialogs
\* that leave the override status as it is find it cleared; the transfer is the one
\* the Cancel button stops.  A click on Install that finds no name or slot leaves
\* the override status set, so the last conjuncts but one do without it.
Chained == UnderWay \/ In("verify") => installChain
Aborted == aborting => /\ UnderWay => ~busy
                       /\ frames # <<>> => Head(frames).kind \notin LaterKinds
Dialogs == In("report") \/ In("aborted") => ~busy
Pointed == \A t \in Threads : Active(t) => current = t
Enabled == SlotMissing \/ (Quiet => updateOn \/ installOn)
Driven  == SlotMissing \/ OverrideIsDriven

Panel == /\ Chained /\ Aborted /\ Dialogs /\ Pointed /\ Enabled
         /\ Driven /\ CancelHasTarget

PanelState == <<frames, chain, xfer, current, installChain, aborting, busy, cancelOn,
                installOn, updateOn>>

\* After a step a handler runs, ...
LEMMA PanelHeld ==
  ASSUME frames' # <<>>, NEW f, f = Head(frames'), chain' = 0, NoTransfer', ~cancelOn',
         f.kind = "verify" => installChain', f.kind \in LaterKinds => ~aborting',
         f.kind \in {"report", "aborted"} => ~busy'
  PROVE  Panel'
<1>1. ~UnderWay' /\ ~Quiet' /\ Pointed' /\ CancelHasTarget'
  BY DEF UnderWay, Quiet, NoTransfer, Pointed, CancelHasTarget
<1> QED  BY <1>1 DEF Panel, Chained, Aborted, Dialogs, Enabled, Driven, OverrideIsDriven, In

\* ... or an event or a transfer is under way, ...
LEMMA PanelWaits ==
  ASSUME frames' = <<>>, UnderWay', installChain', aborting' => ~busy', Pointed', CancelHasTarget'
  PROVE  Panel'
<1>1. ~Quiet' \/ chain' # 0
  BY DEF UnderWay, Quiet
<1>2. ~Quiet'
  BY <1>1 DEF Quiet
<1> QED  BY <1>2 DEF Panel, Chained, Aborted, Dialogs, Enabled, Driven, OverrideIsDriven, In

\* ... or nothing is.
LEMMA PanelFree ==
  ASSUME frames' = <<>>, chain' = 0, NoTransfer', ~cancelOn',
         SlotMissing \/ (~busy' /\ (updateOn' \/ installOn'))
  PROVE  Panel'
<1>1. ~UnderWay'
  BY DEF UnderWay, NoTransfer
<1> QED  BY <1>1 DEF Panel, Chained, Aborted, Dialogs, Pointed, Enabled, Driven,
                   OverrideIsDriven, CancelHasTarget, In, NoTransfer, UnderWay

LEMMA PanelSame == ASSUME Panel, UNCHANGED PanelState PROVE Panel'
BY DEF Panel, PanelState, Chained, Aborted, Dialogs, Pointed, Enabled, Driven,
       OverrideIsDriven, CancelHasTarget, In, UnderWay, Quiet, Active

LEMMA PanelRestart == ASSUME Restart PROVE Panel'
<1>1. ~busy' /\ ~cancelOn' /\ updateOn'
  BY DEF Restart
<1> QED  BY <1>1, RestartIdle, PanelFree

\* While a handler runs there is nothing to cancel.
LEMMA PanelHandler ==
  ASSUME IInv, Serial, Panel, frames # <<>>
  PROVE  /\ frames \in Seq(Frame) /\ chain = 0 /\ NoTransfer /\ ~cancelOn
         /\ Head(frames).kind = "verify" => installChain
         /\ Head(frames).kind \in LaterKinds => ~aborting
         /\ Head(frames).kind \in {"report", "aborted"} => ~busy
         /\ Pop => frames' = <<>>
         /\ \A f : Swap(f) => frames' # <<>> /\ Head(frames') = f
<1>1. frames \in Seq(Frame)
  BY DEF IInv, TypeOK, TypeFrames
<1>2. chain = 0 /\ NoTransfer
  BY <1>1, OneHandler
<1>3. ~cancelOn
  BY <1>2 DEF Panel, CancelHasTarget, NoTransfer, Active, IInv, TypeOK, TypeNet
<1>4. /\ Head(frames).kind = "verify" => installChain
      /\ Head(frames).kind \in LaterKinds => ~aborting
      /\ Head(frames).kind \in {"report", "aborted"} => ~busy
  BY DEF Panel, Chained, Aborted, Dialogs, In
<1> QED  BY <1>1, <1>2, <1>3, <1>4, OneHandler, Single

\* While an event is pending or a transfer under way, no handler runs.
LEMMA PanelWaiting ==
  ASSUME IInv, Serial, Panel, UnderWay
  PROVE  /\ frames = <<>> /\ installChain /\ (aborting => ~busy) /\ chain \in {0, 1}
         /\ chain = 1 => NoTransfer /\ ~cancelOn
<1>1. chain \in Nat
  BY DEF IInv, TypeOK, TypeQueue
<1>2. frames = <<>> /\ chain \in {0, 1} /\ (chain = 1 => NoTransfer)
  BY <1>1 DEF Serial, NoTransfer, UnderWay
<1>3. NoTransfer => ~cancelOn
  BY DEF Panel, CancelHasTarget, NoTransfer, Active, IInv, TypeOK, TypeNet
<1> QED  BY <1>2, <1>3 DEF Panel, Chained, Aborted

\* When nothing is, there is nothing to cancel either, and the panel can be used.
LEMMA PanelIdle ==
  ASSUME IInv, Panel, Quiet
  PROVE  /\ ~cancelOn /\ NoTransfer /\ frames = <<>> /\ chain = 0
         /\ SlotMissing \/ (~busy /\ (updateOn \/ installOn))
<1>1. NoTransfer
  BY DEF Quiet, NoTransfer
<1>2. ~cancelOn
  BY <1>1 DEF Panel, CancelHasTarget, NoTransfer, Active, IInv, TypeOK, TypeNet
<1> QED  BY <1>1, <1>2 DEF Panel, Quiet, Enabled, Driven, OverrideIsDriven

\* A click of a patient user.
LEMMA UserPanel ==
  ASSUME IInv, Serial, Panel, User, ~EagerUser
  PROVE  Panel'
<1>1. CASE ClickUpdate
  <2>1. frames' = <<>> /\ chain' = 0 /\ NoTransfer' /\ ~busy' /\ ~cancelOn' /\ installOn'
    BY <1>1 DEF ClickUpdate, Patience, Quiet, NoTransfer, Active
  <2> QED  BY <2>1, PanelFree
<1>2. CASE ClickUpdateFails
  <2>1. Quiet /\ updateOn' /\ ~busy'
    BY <1>2 DEF ClickUpdateFails, Patience
  <2>2. frames' = <<>> /\ chain' = 0 /\ NoTransfer' /\ ~cancelOn'
    BY <1>2, <2>1, PanelIdle DEF ClickUpdateFails, NoTransfer, Active
  <2> QED  BY <2>1, <2>2, PanelFree
<1>3. CASE ClickCancel
  <2>1. current \in Threads /\ Active(current)
    BY <1>3 DEF ClickCancel, Panel, CancelHasTarget, IInv, TypeOK, TypeNet
  <2>2. frames' = <<>>
    BY <1>3, <2>1, PanelWaiting DEF ClickCancel, UnderWay
  <2>3. installChain' /\ ~busy' /\ ~cancelOn'
    BY <1>3, <2>1, InstallAssumption DEF ClickCancel, ChartList, Controls
  <2>4. UNCHANGED <<current, chain>> /\ \A u \in Threads : Active(u)' <=> Active(u)
    BY <1>3, <2>1 DEF ClickCancel, Active, IInv, TypeOK, TypeNet, Transfer
  <2>5. UnderWay' /\ Pointed' /\ CancelHasTarget'
    BY <2>1, <2>3, <2>4 DEF UnderWay, Pointed, CancelHasTarget, Panel
  <2> QED  BY <2>2, <2>3, <2>5, PanelWaits
<1>4. ASSUME NEW c \in Charts, ClickSelect(c) PROVE Panel'
  <2>1. ~busy' /\ ~cancelOn' /\ installOn'
    BY <1>4 DEF ClickSelect, Controls
  <2>2. UNCHANGED <<frames, chain, xfer, current, installChain, aborting>>
    BY <1>4 DEF ClickSelect
  <2>3. UnderWay' = UnderWay /\ NoTransfer' = NoTransfer /\ Pointed' = Pointed
    BY <2>2 DEF UnderWay, NoTransfer, Pointed, Active
  <2>4. CASE frames # <<>>
    BY <2>1, <2>2, <2>3, <2>4, PanelHandler, PanelHeld
  <2>5. CASE UnderWay
    BY <2>1, <2>2, <2>3, <2>5, PanelWaiting, PanelWaits DEF Panel, CancelHasTarget
  <2>6. CASE frames = <<>> /\ ~UnderWay
    <3>1. chain = 0 /\ NoTransfer
      BY <2>6 DEF UnderWay, NoTransfer, IInv, TypeOK, TypeQueue
    <3> QED  BY <2>1, <2>2, <2>3, <2>6, <3>1, PanelFree
  <2> QED  BY <2>4, <2>5, <2>6
<1>5. ASSUME NEW c \in Charts, ClickInstall(c) PROVE Panel'
  <2>1. Quiet
    BY <1>5 DEF ClickInstall, Patience
  <2>2. PICK f : Push(f) /\ f.kind = "named"
    BY <1>5 DEF ClickInstall
  <2>3. frames' # <<>> /\ Head(frames') = f
    BY <2>1, <2>2, FirstHandler, Single DEF Quiet
  <2>4. chain' = 0 /\ NoTransfer' /\ ~cancelOn'
    BY <1>5, <2>1, PanelIdle DEF ClickInstall, NoTransfer, Active
  <2> QED  BY <2>2, <2>3, <2>4, PanelHeld DEF LaterKinds
<1>6. CASE ClickInstallNothing
  BY <1>6, PanelRestart DEF ClickInstallNothing
<1>7. ASSUME NEW c \in Charts, ClickInstallRefused(c) PROVE Panel'
  <2>1. Quiet /\ installOn' /\ ~busy'
    BY <1>7 DEF ClickInstallRefused, Patience
  <2>2. frames' = <<>> /\ chain' = 0 /\ NoTransfer' /\ ~cancelOn'
    BY <1>7, <2>1, PanelIdle DEF ClickInstallRefused, NoTransfer, Active
  <2> QED  BY <2>1, <2>2, PanelFree
<1> QED  BY <1>1, <1>2, <1>3, <1>4, <1>5, <1>6, <1>7 DEF User

\* A step of OnButtonInstall.
LEMMA InstallingPanel ==
  ASSUME IInv, Serial, Panel, Installing
  PROVE  Panel'
<1>1. CASE DisableInstall
  <2>1. frames # <<>> /\ Head(frames).kind = "asked"
    BY <1>1 DEF DisableInstall, In
  <2>2. PICK f : Swap(f) /\ f.kind = "prepare"
    BY <1>1 DEF DisableInstall
  <2>3. chain' = 0 /\ NoTransfer' /\ frames' # <<>> /\ Head(frames') = f
    BY <1>1, <2>1, <2>2, PanelHandler DEF DisableInstall, NoTransfer, Active
  <2>4. ~cancelOn' /\ (f.kind \in LaterKinds => ~aborting') /\ (f.kind = "report" => ~busy')
    BY <1>1, <2>1, <2>2, PanelHandler DEF DisableInstall, LaterKinds
  <2> QED  BY <2>2, <2>3, <2>4, PanelHeld
<1>2. CASE InstallFails
  <2>1. frames # <<>> /\ Head(frames).kind = "prepare"
    BY <1>2 DEF InstallFails, In
  <2>2. chain' = 0 /\ NoTransfer' /\ frames' = <<>>
    BY <1>2, <2>1, PanelHandler DEF InstallFails, NoTransfer, Active
  <2>3. ~busy' /\ ~cancelOn' /\ installOn'
    BY <1>2, <2>1, PanelHandler DEF InstallFails, Controls
  <2> QED  BY <2>2, <2>3, PanelFree
<1>3. CASE InstallLeaves
  <2>1. frames # <<>> /\ Head(frames).kind = "prepare" /\ SlotMissing
    BY <1>3 DEF InstallLeaves, In
  <2>2. chain' = 0 /\ NoTransfer' /\ frames' = <<>> /\ ~cancelOn'
    BY <1>3, <2>1, PanelHandler DEF InstallLeaves, NoTransfer, Active, Controls
  <2> QED  BY <2>1, <2>2, PanelFree
<1>4. CASE PrepareFails
  <2>1. frames # <<>> /\ Head(frames).kind = "prepare"
    BY <1>4 DEF PrepareFails, ChartList, In
  <2>2. chain' = 0 /\ NoTransfer' /\ frames' = <<>>
    BY <1>4, <2>1, PanelHandler DEF PrepareFails, ChartList, NoTransfer, Active
  <2>3. ~busy' /\ ~cancelOn' /\ installOn'
    BY <1>4, <2>1, PanelHandler DEF PrepareFails, ChartList, Controls
  <2> QED  BY <2>2, <2>3, PanelFree
<1>5. CASE PrepareOK
  <2>1. frames # <<>> /\ Head(frames).kind = "prepare"
    BY <1>5 DEF PrepareOK, ChartList, Controls, In
  <2>2. PICK f : Swap(f) /\ f.kind = "start"
    BY <1>5 DEF PrepareOK, ChartList, Controls
  <2>3. chain' = 0 /\ NoTransfer' /\ frames' # <<>> /\ Head(frames') = f
    BY <1>5, <2>1, <2>2, PanelHandler DEF PrepareOK, ChartList, Controls, NoTransfer, Active
  <2>4. ~cancelOn' /\ (f.kind \in LaterKinds => ~aborting') /\ (f.kind = "report" => ~busy')
    BY <1>5, <2>1, <2>2, PanelHandler DEF PrepareOK, ChartList, Controls, LaterKinds
  <2> QED  BY <2>2, <2>3, <2>4, PanelHeld
<1>6. CASE StartDownload
  <2>1. frames # <<>>
    BY <1>6 DEF StartDownload, In
  <2>2. frames' = <<>> /\ chain' = 1 /\ NoTransfer' /\ ~cancelOn'
    BY <1>6, <2>1, PanelHandler DEF StartDownload, NoTransfer, Active
  <2>3. installChain' /\ ~aborting'
    BY <1>6 DEF StartDownload
  <2> QED  BY <2>2, <2>3, PanelWaits DEF UnderWay, Pointed, CancelHasTarget, NoTransfer
<1>7. CASE PrepareNothing
  BY <1>7, PanelRestart DEF PrepareNothing
<1>8. CASE NameRefreshed
  <2>1. frames # <<>> /\ Head(frames).kind = "named"
    BY <1>8 DEF NameRefreshed, In
  <2>2. PICK f : Swap(f) /\ f.kind = "asked"
    BY <1>8 DEF NameRefreshed
  <2>3. chain' = 0 /\ NoTransfer' /\ frames' # <<>> /\ Head(frames') = f
    BY <1>8, <2>1, <2>2, PanelHandler DEF NameRefreshed, NoTransfer, Active
  <2>4. ~cancelOn' /\ (f.kind \in LaterKinds => ~aborting') /\ (f.kind = "report" => ~busy')
    BY <1>8, <2>1, <2>2, PanelHandler DEF NameRefreshed, LaterKinds
  <2> QED  BY <2>2, <2>3, <2>4, PanelHeld
<1> QED  BY <1>1, <1>2, <1>3, <1>4, <1>5, <1>6, <1>7, <1>8 DEF Installing

\* A step of OnButtonInstallChain.
LEMMA ChainingPanel ==
  ASSUME IInv, Serial, Panel, Chaining, ~DiskFaults
  PROVE  Panel'
<1>1. CASE ChainAborted
  <2>1. chain > 0 /\ UnderWay
    BY <1>1 DEF ChainAborted, Dispatch, UnderWay
  <2>2. chain = 1 /\ frames = <<>> /\ NoTransfer /\ ~cancelOn /\ installChain
    BY <2>1, PanelWaiting
  <2>3. PICK f : Push(f) /\ f.kind \in {"aborted"}
    BY <1>1 DEF ChainAborted
  <2>4. frames' # <<>> /\ Head(frames') = f
    BY <2>2, <2>3, FirstHandler, Single
  <2>5. chain' = 0 /\ NoTransfer' /\ ~cancelOn' /\ ~aborting'
    BY <1>1, <2>2 DEF ChainAborted, NoTransfer, Active
  <2>6. (f.kind = "verify" => installChain') /\ (f.kind = "aborted" => ~busy')
    BY <1>1, <2>1, <2>2, <2>3, PanelWaiting DEF ChainAborted
  <2> QED  BY <2>3, <2>4, <2>5, <2>6, PanelHeld
<1>2. CASE ChainVerify
  <2>1. chain > 0 /\ UnderWay
    BY <1>2 DEF ChainVerify, Dispatch, UnderWay
  <2>2. chain = 1 /\ frames = <<>> /\ NoTransfer /\ ~cancelOn /\ installChain
    BY <2>1, PanelWaiting
  <2>3. PICK f : Push(f) /\ f.kind \in {"verify"}
    BY <1>2 DEF ChainVerify
  <2>4. frames' # <<>> /\ Head(frames') = f
    BY <2>2, <2>3, FirstHandler, Single
  <2>5. chain' = 0 /\ NoTransfer' /\ ~cancelOn' /\ ~aborting'
    BY <1>2, <2>2 DEF ChainVerify, NoTransfer, Active
  <2>6. (f.kind = "verify" => installChain') /\ (f.kind = "aborted" => ~busy')
    BY <1>2, <2>1, <2>2, <2>3, PanelWaiting DEF ChainVerify
  <2> QED  BY <2>3, <2>4, <2>5, <2>6, PanelHeld
<1>3. CASE ChainNoDirectory
  BY <1>3 DEF ChainNoDirectory
<1>4. CASE ChainInstall
  <2>1. chain > 0 /\ UnderWay
    BY <1>4 DEF ChainInstall, Dispatch, UnderWay
  <2>2. chain = 1 /\ frames = <<>> /\ NoTransfer /\ ~cancelOn /\ installChain
    BY <2>1, PanelWaiting
  <2>3. PICK f : Push(f) /\ f.kind \in {"confirm", "loop"}
    BY <1>4 DEF ChainInstall
  <2>4. frames' # <<>> /\ Head(frames') = f
    BY <2>2, <2>3, FirstHandler, Single
  <2>5. chain' = 0 /\ NoTransfer' /\ ~cancelOn' /\ ~aborting'
    BY <1>4, <2>2 DEF ChainInstall, NoTransfer, Active
  <2>6. (f.kind = "verify" => installChain') /\ (f.kind = "aborted" => ~busy')
    BY <1>4, <2>1, <2>2, <2>3, PanelWaiting DEF ChainInstall
  <2> QED  BY <2>3, <2>4, <2>5, <2>6, PanelHeld
<1>5. CASE ChainNothing
  <2>1. UnderWay /\ ~installChain
    BY <1>5 DEF ChainNothing, Dispatch, UnderWay
  <2> QED  BY <2>1, PanelWaiting
<1>6. CASE VerifyPasses
  <2>1. frames # <<>> /\ Head(frames).kind = "verify"
    BY <1>6 DEF VerifyPasses, In
  <2>2. frames' = <<>> /\ chain' = 1 /\ NoTransfer' /\ ~cancelOn' /\ installChain' /\ ~aborting'
    BY <1>6, <2>1, PanelHandler DEF VerifyPasses, NoTransfer, Active, LaterKinds
  <2> QED  BY <2>2, PanelWaits DEF UnderWay, Pointed, CancelHasTarget, NoTransfer
<1>7. ASSUME NEW t \in Threads, ChainDownload(t) PROVE Panel'
  <2>0. chain > 0 /\ UnderWay
    BY <1>7 DEF ChainDownload, Dispatch, UnderWay
  <2>1. StartTransfer(t) /\ NoTransfer
    BY <1>7, <2>0, PanelWaiting DEF ChainDownload
  <2>2. NoTransfer /\ frames' = <<>> /\ installChain' /\ ~aborting'
    BY <1>7, <2>0, <2>1, PanelWaiting DEF ChainDownload
  <2>3. current' = t /\ xfer'[t].st = "run" /\ \A u \in Threads : u # t => ~Active(u)'
    BY <2>1, <2>2 DEF StartTransfer, NoTransfer, Active, IInv, TypeOK, TypeNet
  <2>4. Active(t)' /\ t # NoThread
    BY <2>3, InstallAssumption DEF Active
  <2> QED  BY <2>2, <2>3, <2>4, PanelWaits DEF UnderWay, Pointed, CancelHasTarget
<1>8. ASSUME NEW t \in Threads, VerifyFails(t) PROVE Panel'
  <2>0. frames # <<>> /\ Head(frames).kind = "verify"
    BY <1>8 DEF VerifyFails, In
  <2>1. StartTransfer(t)
    BY <1>8 DEF VerifyFails
  <2>2. NoTransfer /\ frames' = <<>> /\ installChain' /\ ~aborting'
    BY <1>8, <2>0, PanelHandler DEF VerifyFails, LaterKinds
  <2>3. current' = t /\ xfer'[t].st = "run" /\ \A u \in Threads : u # t => ~Active(u)'
    BY <2>1, <2>2 DEF StartTransfer, NoTransfer, Active, IInv, TypeOK, TypeNet
  <2>4. Active(t)' /\ t # NoThread
    BY <2>3, InstallAssumption DEF Active
  <2> QED  BY <2>2, <2>3, <2>4, PanelWaits DEF UnderWay, Pointed, CancelHasTarget
<1>9. CASE VerifyPastEnd
  BY <1>9, PanelRestart DEF VerifyPastEnd
<1> QED  BY <1>1, <1>2, <1>3, <1>4, <1>5, <1>6, <1>7, <1>8, <1>9 DEF Chaining

\* A step of a curl thread, or of the handler of its events.
LEMMA TransferringPanel ==
  ASSUME IInv, Serial, Panel, Transferring, ~DiskFaults
  PROVE  Panel'
<1>1. ASSUME NEW t \in Threads, TransferEnds(t) PROVE Panel'
  <2>1. UnderWay /\ frames' = frames /\ chain' = chain /\ \A u \in Threads : Active(u)' <=> Active(u)
    BY <1>1 DEF TransferEnds, UnderWay, Active, IInv, TypeOK, TypeNet, Transfer
  <2>2. frames' = <<>> /\ installChain' /\ (aborting' => ~busy') /\ UNCHANGED <<current, cancelOn>>
    BY <1>1, <2>1, PanelWaiting DEF TransferEnds
  <2>3. UnderWay' /\ Pointed' /\ CancelHasTarget'
    BY <2>1, <2>2 DEF UnderWay, Pointed, CancelHasTarget, Panel, IInv, TypeOK, TypeNet
  <2> QED  BY <2>2, <2>3, PanelWaits
<1>2. ASSUME NEW t \in Threads, ThreadDies(t) PROVE Panel'
  BY <1>2 DEF ThreadDies
<1>3. ASSUME NEW t \in Threads, HandleBegin(t) PROVE Panel'
  <2>1. Active(t) /\ UnderWay /\ chain' = chain /\ \A u \in Threads : Active(u)' <=> Active(u)
    BY <1>3 DEF HandleBegin, UnderWay, Active, IInv, TypeOK, TypeNet, Transfer
  <2>2. frames' = <<>> /\ installChain' /\ (aborting' => ~busy') /\ current' = current
    BY <1>3, <2>1, PanelWaiting DEF HandleBegin
  <2>3. current = t /\ t # NoThread
    BY <2>1, InstallAssumption DEF Panel, Pointed
  <2>4. UnderWay' /\ Pointed' /\ CancelHasTarget'
    BY <2>1, <2>2, <2>3 DEF UnderWay, Pointed, CancelHasTarget, Panel
  <2> QED  BY <2>2, <2>4, PanelWaits
<1>4. ASSUME NEW t \in Threads, HandleEndOK(t) PROVE Panel'
  <2>1. Active(t) /\ UnderWay /\ ~Active(t)' /\ NoNewTransfer
    BY <1>4, CloseEnds DEF HandleEndOK, UnderWay, Active, IInv
  <2>2. NoTransfer'
    BY <2>1 DEF Serial, NoTransfer, NoNewTransfer
  <2>3. frames' = <<>> /\ installChain' /\ (aborting' => ~busy') /\ ~cancelOn' /\ chain' > 0
    BY <1>4, <2>1, PanelWaiting DEF HandleEndOK
  <2> QED  BY <2>2, <2>3, PanelWaits DEF UnderWay, Pointed, CancelHasTarget, NoTransfer
<1>5. ASSUME NEW t \in Threads, HandleEndError(t) PROVE Panel'
  <2>1. Active(t) /\ UnderWay /\ ~Active(t)' /\ NoNewTransfer
    BY <1>5, CloseEnds DEF HandleEndError, UnderWay, Active, IInv
  <2>2. NoTransfer' /\ chain' = 0 /\ frames = <<>>
    BY <1>5, <2>1, PanelWaiting DEF HandleEndError, Serial, NoTransfer, NoNewTransfer
  <2>3. PICK f : Push(f) /\ f.kind = "failed"
    BY <1>5 DEF HandleEndError
  <2>4. frames' # <<>> /\ Head(frames') = f /\ ~cancelOn'
    BY <1>5, <2>2, <2>3, FirstHandler, Single DEF HandleEndError
  <2> QED  BY <2>2, <2>3, <2>4, PanelHeld DEF LaterKinds
<1> QED  BY <1>1, <1>2, <1>3, <1>4, <1>5 DEF Transferring

\* A step of the installation, or the end of a dialog.
LEMMA TasksPanel ==
  ASSUME IInv, Serial, Panel, Tasks
  PROVE  Panel'
<1>1. CASE ConfirmYes
  <2>1. frames # <<>> /\ Head(frames).kind = "confirm"
    BY <1>1 DEF ConfirmYes, In
  <2>2. PICK f : Swap(f) /\ f.kind = "loop"
    BY <1>1 DEF ConfirmYes
  <2>3. chain' = 0 /\ NoTransfer' /\ frames' # <<>> /\ Head(frames') = f
    BY <1>1, <2>1, <2>2, PanelHandler DEF ConfirmYes, NoTransfer, Active
  <2>4. ~cancelOn' /\ (f.kind \in LaterKinds => ~aborting') /\ (f.kind = "report" => ~busy')
    BY <1>1, <2>1, <2>2, PanelHandler DEF ConfirmYes, LaterKinds
  <2> QED  BY <2>2, <2>3, <2>4, PanelHeld
<1>2. CASE ConfirmNo
  <2>1. frames # <<>> /\ Head(frames).kind = "confirm"
    BY <1>2 DEF ConfirmNo, ChartList, In
  <2>2. chain' = 0 /\ NoTransfer' /\ frames' = <<>>
    BY <1>2, <2>1, PanelHandler DEF ConfirmNo, ChartList, NoTransfer, Active
  <2>3. ~busy' /\ ~cancelOn' /\ installOn'
    BY <1>2, <2>1, PanelHandler DEF ConfirmNo, ChartList, Controls
  <2> QED  BY <2>2, <2>3, PanelFree
<1>3. CASE TaskCheck
  <2>1. frames # <<>> /\ Head(frames).kind = "loop"
    BY <1>3 DEF TaskCheck, LoopLeft, In
  <2>2. PICK f : Swap(f) /\ f.kind = "checked"
    BY <1>3 DEF TaskCheck, LoopLeft
  <2>3. chain' = 0 /\ NoTransfer' /\ frames' # <<>> /\ Head(frames') = f
    BY <1>3, <2>1, <2>2, PanelHandler DEF TaskCheck, LoopLeft, NoTransfer, Active
  <2>4. ~cancelOn' /\ (f.kind \in LaterKinds => ~aborting') /\ (f.kind = "report" => ~busy')
    BY <1>3, <2>1, <2>2, PanelHandler DEF TaskCheck, LoopLeft, LaterKinds
  <2> QED  BY <2>2, <2>3, <2>4, PanelHeld
<1>4. CASE TaskCheckFails
  <2>1. frames # <<>> /\ Head(frames).kind = "loop"
    BY <1>4 DEF TaskCheckFails, LoopLeft, TaskError, In
  <2>2. PICK f : Swap(f) /\ f.kind = "report"
    BY <1>4 DEF TaskCheckFails, LoopLeft, TaskError
  <2>3. chain' = 0 /\ NoTransfer' /\ frames' # <<>> /\ Head(frames') = f
    BY <1>4, <2>1, <2>2, PanelHandler DEF TaskCheckFails, LoopLeft, TaskError, NoTransfer, Active
  <2>4. ~cancelOn' /\ (f.kind \in LaterKinds => ~aborting') /\ (f.kind = "report" => ~busy')
    BY <1>4, <2>1, <2>2, PanelHandler DEF TaskCheckFails, LoopLeft, TaskError, LaterKinds
  <2> QED  BY <2>2, <2>3, <2>4, PanelHeld
<1>5. CASE TaskUnpack
  <2>1. frames # <<>> /\ Head(frames).kind = "checked"
    BY <1>5 DEF TaskUnpack, In
  <2>h. Head(frames) \in TaskFrame
    BY <1>5, <2>1, HeadKnown DEF TaskUnpack, IInv, Frame, ClickFrame, SaveFrame, DialogFrame,
                             VerifyFrame, LoopFrame, TaskFrame
  <2> PICK f : f = [Head(frames) EXCEPT !.kind = "copying", !.yield = "all",
                     !.good = \A g \in TaskFiles(Head(frames).chart, Head(frames).task) : Good(g)]
    OBVIOUS
  <2>s. Swap(f)
    BY <1>5 DEF TaskUnpack
  <2>2. Swap(f) /\ f.kind = "copying"
    BY <2>s, <2>h DEF TaskFrame
  <2>3. chain' = 0 /\ NoTransfer' /\ frames' # <<>> /\ Head(frames') = f
    BY <1>5, <2>1, <2>2, PanelHandler DEF TaskUnpack, NoTransfer, Active
  <2>4. ~cancelOn' /\ (f.kind \in LaterKinds => ~aborting') /\ (f.kind = "report" => ~busy')
    BY <1>5, <2>1, <2>2, PanelHandler DEF TaskUnpack, LaterKinds
  <2> QED  BY <2>2, <2>3, <2>4, PanelHeld
<1>6. CASE TaskFinish
  <2>1. frames # <<>> /\ Head(frames).kind = "copying"
    BY <1>6 DEF TaskFinish, In
  <2>2. PICK f : Swap(f) /\ f.kind = "loop"
    BY <1>6 DEF TaskFinish
  <2>3. chain' = 0 /\ NoTransfer' /\ frames' # <<>> /\ Head(frames') = f
    BY <1>6, <2>1, <2>2, PanelHandler DEF TaskFinish, NoTransfer, Active
  <2>4. ~cancelOn' /\ (f.kind \in LaterKinds => ~aborting') /\ (f.kind = "report" => ~busy')
    BY <1>6, <2>1, <2>2, PanelHandler DEF TaskFinish, LaterKinds
  <2> QED  BY <2>2, <2>3, <2>4, PanelHeld
<1>7. CASE TaskFinishFails
  <2>1. frames # <<>> /\ Head(frames).kind = "copying"
    BY <1>7 DEF TaskFinishFails, TaskError, In
  <2>2. PICK f : Swap(f) /\ f.kind = "report"
    BY <1>7 DEF TaskFinishFails, TaskError
  <2>3. chain' = 0 /\ NoTransfer' /\ frames' # <<>> /\ Head(frames') = f
    BY <1>7, <2>1, <2>2, PanelHandler DEF TaskFinishFails, TaskError, NoTransfer, Active
  <2>4. ~cancelOn' /\ (f.kind \in LaterKinds => ~aborting') /\ (f.kind = "report" => ~busy')
    BY <1>7, <2>1, <2>2, PanelHandler DEF TaskFinishFails, TaskError, LaterKinds
  <2> QED  BY <2>2, <2>3, <2>4, PanelHeld
<1>8. CASE LoopDone
  <2>1. frames # <<>> /\ Head(frames).kind = "loop"
    BY <1>8 DEF LoopDone, In
  <2>2. PICK f : Swap(f) /\ f.kind = "save"
    BY <1>8 DEF LoopDone
  <2>3. chain' = 0 /\ NoTransfer' /\ frames' # <<>> /\ Head(frames') = f
    BY <1>8, <2>1, <2>2, PanelHandler DEF LoopDone, NoTransfer, Active
  <2>4. ~cancelOn' /\ (f.kind \in LaterKinds => ~aborting') /\ (f.kind = "report" => ~busy')
    BY <1>8, <2>1, <2>2, PanelHandler DEF LoopDone, LaterKinds
  <2> QED  BY <2>2, <2>3, <2>4, PanelHeld
<1>9. CASE SaveConfig
  <2>1. frames # <<>> /\ Head(frames).kind = "save"
    BY <1>9 DEF SaveConfig, In
  <2>2. PICK f : Swap(f) /\ f.kind = "report"
    BY <1>9 DEF SaveConfig
  <2>3. chain' = 0 /\ NoTransfer' /\ frames' # <<>> /\ Head(frames') = f
    BY <1>9, <2>1, <2>2, PanelHandler DEF SaveConfig, NoTransfer, Active
  <2>4. ~cancelOn' /\ (f.kind \in LaterKinds => ~aborting') /\ (f.kind = "report" => ~busy')
    BY <1>9, <2>1, <2>2, PanelHandler DEF SaveConfig, LaterKinds
  <2> QED  BY <2>2, <2>3, <2>4, PanelHeld
<1>10. CASE CloseFailed
  <2>1. frames # <<>> /\ Head(frames).kind = "failed"
    BY <1>10 DEF CloseFailed, ChartList, In
  <2>2. chain' = 0 /\ NoTransfer' /\ frames' = <<>>
    BY <1>10, <2>1, PanelHandler DEF CloseFailed, ChartList, NoTransfer, Active
  <2>3. ~busy' /\ ~cancelOn' /\ installOn'
    BY <1>10, <2>1, PanelHandler DEF CloseFailed, ChartList, Controls
  <2> QED  BY <2>2, <2>3, PanelFree
<1>11. CASE CloseAborted
  <2>1. frames # <<>> /\ Head(frames).kind = "aborted"
    BY <1>11 DEF CloseAborted, In
  <2>2. chain' = 0 /\ NoTransfer' /\ frames' = <<>>
    BY <1>11, <2>1, PanelHandler DEF CloseAborted, NoTransfer, Active
  <2>3. ~busy' /\ ~cancelOn' /\ installOn'
    BY <1>11, <2>1, PanelHandler DEF CloseAborted, Controls
  <2> QED  BY <2>2, <2>3, PanelFree
<1>12. CASE CloseReport
  <2>1. frames # <<>> /\ Head(frames).kind = "report"
    BY <1>12 DEF CloseReport, ChartList, In
  <2>2. chain' = 0 /\ NoTransfer' /\ frames' = <<>>
    BY <1>12, <2>1, PanelHandler DEF CloseReport, ChartList, NoTransfer, Active
  <2>3. ~busy' /\ ~cancelOn' /\ installOn'
    BY <1>12, <2>1, PanelHandler DEF CloseReport, ChartList, Controls
  <2> QED  BY <2>2, <2>3, PanelFree
<1> QED  BY <1>1, <1>2, <1>3, <1>4, <1>5, <1>6, <1>7, <1>8, <1>9, <1>10, <1>11, <1>12 DEF Tasks

\* The panel's invariant, for a patient user whose disk does not fail; the program
\* may be killed at any time.
THEOREM PanelInvariant == ~EagerUser /\ ~DiskFaults => (Spec => []Panel)
<1> SUFFICES ASSUME ~EagerUser, ~DiskFaults PROVE Spec => []Panel
  OBVIOUS
<1>1. Init => Panel
  <2> SUFFICES ASSUME Init PROVE Panel
    OBVIOUS
  <2>1. frames = <<>> /\ chain = 0 /\ NoTransfer /\ ~busy /\ ~cancelOn /\ updateOn
    BY DEF Init, NoTransfer, Active, Idle
  <2> QED  BY <2>1 DEF Panel, Chained, Aborted, Dialogs, Pointed, Enabled, Driven,
                     OverrideIsDriven, CancelHasTarget, In, NoTransfer, UnderWay
<1>2. IInv /\ Serial /\ Panel /\ [Next]_vars => Panel'
  <2> SUFFICES ASSUME IInv, Serial, Panel, [Next]_vars PROVE Panel'
    OBVIOUS
  <2>1. CASE User
    BY <2>1, UserPanel
  <2>2. CASE Crash
    BY <2>2, PanelRestart DEF Crash
  <2>3. CASE System
    BY <2>3, InstallingPanel, ChainingPanel, TransferringPanel, TasksPanel DEF System
  <2>4. CASE \E c \in Charts : ServerPublish(c)
    <3>1. UNCHANGED PanelState
      BY <2>4 DEF ServerPublish, PanelState
    <3> QED  BY <3>1, PanelSame
  <2>5. CASE UNCHANGED vars
    <3>1. UNCHANGED PanelState
      BY <2>5 DEF vars, PanelState
    <3> QED  BY <3>1, PanelSame
  <2> QED  BY <2>1, <2>2, <2>3, <2>4, <2>5 DEF Next
<1>3. Spec => []Serial
  BY NeverNested
<1> QED  BY <1>1, <1>2, <1>3, InductiveInv, PTL DEF Spec

\* Cancel is shown only while g_curlDownloadThread is a transfer that has not been
\* handled: a click on it always cancels something, and the right thing.
THEOREM CancelTargeted == ~EagerUser /\ ~DiskFaults => (Spec => []CancelHasTarget)
<1>1. Panel => CancelHasTarget
  BY DEF Panel
<1> QED  BY <1>1, PanelInvariant, PTL

\* When nothing is under way the user can refresh the list or install, whichever
\* way the last job ended, unless a click on Install may find no name or slot: that
\* leaves the override status set, which TLC shows can block the panel for good.
THEOREM PanelStaysUsable ==
  ~EagerUser /\ ~DiskFaults /\ ~SlotMissing => (Spec => []PanelUsable)
<1> SUFFICES ASSUME ~EagerUser, ~DiskFaults, ~SlotMissing PROVE Spec => []PanelUsable
  OBVIOUS
<1>1. Panel => PanelUsable
  BY DEF Panel, Enabled, Driven, OverrideIsDriven, PanelUsable
<1>2. Spec => []Panel
  BY PanelInvariant
<1> QED  BY <1>1, <1>2, PTL

-----------------------------------------------------------------------------
(* The override status while something is under way.                        *)

\* A handler runs, and nothing else is there, ...
LEMMA BusyHandler ==
  ASSUME NEW f, Running' = {f}, chain' = 0, NoTransfer', Working(f) => busy'
  PROVE  BusyWhileWorking'
BY DEF BusyWhileWorking, NoTransfer, Working

\* ... or none does.
LEMMA BusyEvent ==
  ASSUME frames' = <<>>, UnderWay' => busy' \/ aborting'
  PROVE  BusyWhileWorking'
BY DEF BusyWhileWorking, UnderWay, Running

\* A click of a patient user clears the override status only when no work is under
\* way, or is being cancelled.
LEMMA UserBusy ==
  ASSUME IInv, Serial, Panel, BusyWhileWorking, User, ~EagerUser
  PROVE  BusyWhileWorking'
<1>1. CASE ClickUpdate \/ ClickUpdateFails
  <2>1. frames' = <<>> /\ ~UnderWay'
    BY <1>1 DEF ClickUpdate, ClickUpdateFails, Patience, Quiet, UnderWay, Active
  <2> QED  BY <2>1, BusyEvent
<1>2. CASE ClickCancel
  <2>1. current # NoThread /\ current \in Threads /\ Active(current)
    BY <1>2 DEF ClickCancel, Panel, CancelHasTarget, IInv, TypeOK, TypeNet
  <2>2. frames' = <<>> /\ aborting'
    BY <1>2, <2>1, PanelWaiting DEF ClickCancel, UnderWay
  <2> QED  BY <2>2, BusyEvent
<1>3. ASSUME NEW c \in Charts, ClickSelect(c) PROVE BusyWhileWorking'
  <2>1. ~busy /\ UNCHANGED <<frames, chain, xfer, aborting>>
    BY <1>3 DEF ClickSelect
  <2>2. Running' = Running /\ UnderWay' = UnderWay
    BY <2>1 DEF Running, UnderWay, Active
  <2> QED  BY <2>1, <2>2 DEF BusyWhileWorking, UnderWay
<1>4. ASSUME NEW c \in Charts, ClickInstall(c) PROVE BusyWhileWorking'
  <2>1. Quiet
    BY <1>4 DEF ClickInstall, Patience
  <2>2. PICK f : Push(f) /\ f.kind = "named"
    BY <1>4 DEF ClickInstall
  <2>3. Running' = {f} /\ chain' = 0 /\ NoTransfer'
    BY <1>4, <2>1, <2>2, FirstHandler DEF ClickInstall, Quiet, NoTransfer, Active
  <2> QED  BY <2>2, <2>3, BusyHandler DEF Working
<1>5. ASSUME NEW c \in Charts, ClickInstallRefused(c) PROVE BusyWhileWorking'
  <2>1. frames' = <<>> /\ ~UnderWay'
    BY <1>5 DEF ClickInstallRefused, Patience, Quiet, UnderWay, Active
  <2> QED  BY <2>1, BusyEvent
<1>6. CASE ClickInstallNothing
  BY <1>6, RestartIdle, BusyEvent DEF ClickInstallNothing, UnderWay, NoTransfer
<1> QED  BY <1>1, <1>2, <1>3, <1>4, <1>5, <1>6 DEF User

\* A handler that runs has nothing else beside it, and is followed by nothing else.
LEMMA BusyTop ==
  ASSUME IInv, Serial, BusyWhileWorking, frames # <<>>, UNCHANGED <<chain, xfer>>
  PROVE  /\ chain' = 0 /\ NoTransfer' /\ ~UnderWay'
         /\ Working(Head(frames)) => busy
         /\ Pop => frames' = <<>>
         /\ \A f : Swap(f) => Running' = {f}
<1>1. frames \in Seq(Frame)
  BY DEF IInv, TypeOK, TypeFrames
<1>2. chain = 0 /\ NoTransfer /\ Running = {Head(frames)}
  BY <1>1, OneHandler
<1>3. chain' = 0 /\ NoTransfer' /\ ~UnderWay'
  BY <1>2 DEF NoTransfer, UnderWay, Active
<1> QED  BY <1>1, <1>2, <1>3, OneHandler DEF BusyWhileWorking

\* A handler that returns, and leaves nothing behind.
LEMMA BusyReturns ==
  ASSUME IInv, Serial, BusyWhileWorking, frames # <<>>, UNCHANGED <<chain, xfer>>, Pop
  PROVE  BusyWhileWorking'
BY BusyTop, BusyEvent

\* A handler that goes on as another.
LEMMA BusyGoesOn ==
  ASSUME IInv, Serial, BusyWhileWorking, frames # <<>>, UNCHANGED <<chain, xfer>>,
         NEW f, Swap(f), Working(f) => busy'
  PROVE  BusyWhileWorking'
BY BusyTop, BusyHandler

\* A step of OnButtonInstall sets the override status before it yields again.
LEMMA InstallingBusy ==
  ASSUME IInv, Serial, BusyWhileWorking, Installing
  PROVE  BusyWhileWorking'
<1>1. CASE NameRefreshed
  <2>1. frames # <<>> /\ UNCHANGED <<chain, xfer>> /\ busy' /\ \E f : Swap(f)
    BY <1>1 DEF NameRefreshed, In
  <2> QED  BY <2>1, BusyGoesOn
<1>2. CASE DisableInstall
  <2>1. frames # <<>> /\ UNCHANGED <<chain, xfer>> /\ \E f : Swap(f)
    BY <1>2 DEF DisableInstall, In
  <2>2. Working(Head(frames)) /\ busy' = busy
    BY <1>2 DEF DisableInstall, In, Working
  <2>3. busy'
    BY <2>1, <2>2, BusyTop
  <2> QED  BY <2>1, <2>3, BusyGoesOn
<1>3. CASE InstallFails \/ InstallLeaves \/ PrepareFails
  <2>1. frames # <<>> /\ UNCHANGED <<chain, xfer>> /\ Pop
    BY <1>3 DEF InstallFails, InstallLeaves, PrepareFails, In
  <2> QED  BY <2>1, BusyReturns
<1>4. CASE PrepareOK
  <2>1. frames # <<>> /\ UNCHANGED <<chain, xfer>> /\ busy' /\ \E f : Swap(f)
    BY <1>4 DEF PrepareOK, ChartList, Controls, In
  <2> QED  BY <2>1, BusyGoesOn
<1>5. CASE StartDownload
  <2>1. frames # <<>> /\ Working(Head(frames)) /\ busy' = busy /\ Pop
    BY <1>5 DEF StartDownload, In, Working
  <2>2. frames \in Seq(Frame)
    BY DEF IInv, TypeOK, TypeFrames
  <2>3. frames' = <<>> /\ Running = {Head(frames)}
    BY <2>1, <2>2, OneHandler
  <2>4. busy'
    BY <2>1, <2>3 DEF BusyWhileWorking
  <2> QED  BY <2>3, <2>4, BusyEvent
<1>6. CASE PrepareNothing
  BY <1>6, RestartIdle, BusyEvent DEF PrepareNothing, UnderWay, NoTransfer
<1> QED  BY <1>1, <1>2, <1>3, <1>4, <1>5, <1>6 DEF Installing

\* A step of OnButtonInstallChain.
LEMMA ChainingBusy ==
  ASSUME IInv, Serial, Panel, BusyWhileWorking, Chaining, ~DiskFaults
  PROVE  BusyWhileWorking'
<1>0. chain \in Nat /\ frames \in Seq(Frame)
  BY DEF IInv, TypeOK, TypeQueue, TypeFrames
<1>e. ASSUME chain > 0
      PROVE  frames = <<>> /\ chain = 1 /\ NoTransfer /\ (busy \/ aborting) /\ installChain
  BY <1>0, <1>e, PanelWaiting DEF UnderWay, BusyWhileWorking, Serial
<1>1. CASE ChainAborted
  <2>1. chain > 0 /\ \E f : Push(f) /\ f.kind = "aborted"
    BY <1>1 DEF ChainAborted, Dispatch
  <2>2. PICK f : Push(f) /\ f.kind = "aborted"
    BY <2>1
  <2>3. Running' = {f} /\ chain' = 0 /\ NoTransfer'
    BY <1>e, <1>1, <2>1, <2>2, FirstHandler DEF ChainAborted, NoTransfer, Active
  <2> QED  BY <2>2, <2>3, BusyHandler DEF Working
<1>2. CASE ChainVerify
  <2>1. chain > 0 /\ busy' /\ \E f : Push(f)
    BY <1>2 DEF ChainVerify, Dispatch
  <2>2. PICK f : Push(f)
    BY <2>1
  <2>3. Running' = {f} /\ chain' = 0 /\ NoTransfer'
    BY <1>e, <1>2, <2>1, <2>2, FirstHandler DEF ChainVerify, NoTransfer, Active
  <2> QED  BY <2>1, <2>3, BusyHandler
<1>3. CASE ChainNoDirectory
  BY <1>3 DEF ChainNoDirectory
<1>4. CASE ChainInstall
  <2>1. chain > 0 /\ \E f : Push(f) /\ f.kind \in {"confirm", "loop"}
    BY <1>4 DEF ChainInstall, Dispatch
  <2>2. PICK f : Push(f) /\ f.kind \in {"confirm", "loop"}
    BY <2>1
  <2>3. Running' = {f} /\ chain' = 0 /\ NoTransfer'
    BY <1>e, <1>4, <2>1, <2>2, FirstHandler DEF ChainInstall, NoTransfer, Active
  <2> QED  BY <2>2, <2>3, BusyHandler DEF Working
<1>5. CASE ChainNothing
  BY <1>e, <1>5 DEF ChainNothing, Dispatch
<1>6. CASE VerifyPasses
  <2>1. frames # <<>> /\ Working(Head(frames)) /\ busy' = busy /\ Pop
    BY <1>6 DEF VerifyPasses, In, Working
  <2>2. frames' = <<>> /\ Running = {Head(frames)}
    BY <1>0, <2>1, OneHandler
  <2>3. busy'
    BY <2>1, <2>2 DEF BusyWhileWorking
  <2> QED  BY <2>2, <2>3, BusyEvent
<1>7. ASSUME NEW t \in Threads, ChainDownload(t) PROVE BusyWhileWorking'
  <2>1. frames' = <<>> /\ busy'
    BY <1>e, <1>7 DEF ChainDownload, Dispatch, StartTransfer
  <2> QED  BY <2>1, BusyEvent
<1>8. ASSUME NEW t \in Threads, VerifyFails(t) PROVE BusyWhileWorking'
  <2>1. frames # <<>> /\ busy' /\ Pop
    BY <1>8 DEF VerifyFails, In, StartTransfer
  <2>2. frames' = <<>>
    BY <1>0, <2>1, OneHandler
  <2> QED  BY <2>1, <2>2, BusyEvent
<1>9. CASE VerifyPastEnd
  BY <1>9, RestartIdle, BusyEvent DEF VerifyPastEnd, UnderWay, NoTransfer
<1> QED  BY <1>1, <1>2, <1>3, <1>4, <1>5, <1>6, <1>7, <1>8, <1>9 DEF Chaining

\* A step of a curl thread, or of the handler of its events: the override status,
\* or the word that the chain is aborted, stays.
LEMMA TransferringBusy ==
  ASSUME IInv, Serial, Panel, BusyWhileWorking, Transferring
  PROVE  BusyWhileWorking'
<1>0. ASSUME NEW t \in Threads, Active(t) PROVE frames = <<>> /\ (busy \/ aborting) /\ chain = 0
  <2>1. UnderWay
    BY <1>0 DEF UnderWay
  <2> QED  BY <1>0, <2>1, PanelWaiting DEF BusyWhileWorking, NoTransfer
<1>1. ASSUME NEW t \in Threads, TransferEnds(t) \/ ThreadDies(t) \/ HandleBegin(t)
      PROVE  BusyWhileWorking'
  <2>1. Active(t) /\ UNCHANGED <<frames, busy, aborting>>
    BY <1>1 DEF TransferEnds, ThreadDies, HandleBegin, Active
  <2> QED  BY <1>0, <2>1, BusyEvent
<1>2. ASSUME NEW t \in Threads, HandleEndOK(t) PROVE BusyWhileWorking'
  <2>1. Active(t) /\ UNCHANGED <<frames, busy, aborting>>
    BY <1>2 DEF HandleEndOK, Active
  <2> QED  BY <1>0, <2>1, BusyEvent
<1>3. ASSUME NEW t \in Threads, HandleEndError(t) PROVE BusyWhileWorking'
  <2>1. Active(t) /\ ~Active(t)' /\ NoNewTransfer
    BY <1>3, CloseEnds DEF HandleEndError, Active, IInv
  <2>2. NoTransfer' /\ chain' = 0 /\ frames = <<>>
    BY <1>0, <1>3, <2>1 DEF HandleEndError, Serial, NoTransfer, NoNewTransfer
  <2>3. PICK f : Push(f) /\ f.kind = "failed"
    BY <1>3 DEF HandleEndError
  <2>4. Running' = {f}
    BY <2>2, <2>3, FirstHandler
  <2> QED  BY <2>2, <2>3, <2>4, BusyHandler DEF Working
<1> QED  BY <1>1, <1>2, <1>3 DEF Transferring

\* A step of the installation, or the end of a dialog.
LEMMA TasksBusy ==
  ASSUME IInv, Serial, BusyWhileWorking, Tasks
  PROVE  BusyWhileWorking'
<1>1. CASE ConfirmNo \/ CloseFailed \/ CloseAborted \/ CloseReport
  <2>1. frames # <<>> /\ UNCHANGED <<chain, xfer>> /\ Pop
    BY <1>1 DEF ConfirmNo, CloseFailed, CloseAborted, CloseReport, In
  <2> QED  BY <2>1, BusyReturns
<1>2. CASE ConfirmYes \/ TaskFinish \/ LoopDone
  <2>1. frames # <<>> /\ UNCHANGED <<chain, xfer>>
        /\ \E f : Swap(f) /\ f.kind \in {"loop", "save"}
    BY <1>2 DEF ConfirmYes, TaskFinish, LoopDone, In
  <2>2. PICK f : Swap(f) /\ f.kind \in {"loop", "save"}
    BY <2>1
  <2>3. ~Working(f)
    BY <2>2 DEF Working
  <2> QED  BY <2>1, <2>2, <2>3, BusyGoesOn
<1>3. CASE TaskCheckFails \/ TaskFinishFails \/ SaveConfig
  <2>1. frames # <<>> /\ UNCHANGED <<chain, xfer>> /\ \E f : Swap(f) /\ f.kind = "report"
    BY <1>3 DEF TaskCheckFails, TaskFinishFails, SaveConfig, TaskError, LoopLeft, In
  <2>2. PICK f : Swap(f) /\ f.kind = "report"
    BY <2>1
  <2>3. ~Working(f)
    BY <2>2 DEF Working
  <2> QED  BY <2>1, <2>2, <2>3, BusyGoesOn
<1>4. CASE TaskCheck
  <2>1. frames # <<>> /\ UNCHANGED <<chain, xfer>>
    BY <1>4 DEF TaskCheck, LoopLeft, In
  <2>2. \E f : /\ Swap(f) /\ f.kind = "checked"
               /\ f.yield = (IF {1, 2} \subseteq verified[target] THEN "no" ELSE "all")
    BY <1>4 DEF TaskCheck
  <2>3. PICK f : /\ Swap(f) /\ f.kind = "checked"
                 /\ f.yield = (IF {1, 2} \subseteq verified[target] THEN "no" ELSE "all")
    BY <2>2
  <2>4. Working(f) => busy'
    BY <1>4, <2>3 DEF TaskCheck, Working
  <2> QED  BY <2>1, <2>3, <2>4, BusyGoesOn
<1>5. CASE TaskUnpack
  <2>1. frames # <<>> /\ UNCHANGED <<chain, xfer>> /\ busy' /\ \E f : Swap(f)
    BY <1>5 DEF TaskUnpack, In
  <2> QED  BY <2>1, BusyGoesOn
<1> QED  BY <1>1, <1>2, <1>3, <1>4, <1>5 DEF Tasks

\* While a chart is requested, downloaded, validated or installed, or the chain waits
\* for an event, the override status is set, which blocks selecting another chart and
\* so the handlers' reading another chart from the panel: at every yield of every
\* handler but for the first one of OnButtonInstall, for a patient user whose disk does
\* not fail, whatever is selected in that first yield, and until a Cancel.
THEOREM SelectionBlocked == ~EagerUser /\ ~DiskFaults => (Spec => []BusyWhileWorking)
<1> SUFFICES ASSUME ~EagerUser, ~DiskFaults PROVE Spec => []BusyWhileWorking
  OBVIOUS
<1>1. Init => BusyWhileWorking
  BY DEF Init, BusyWhileWorking, Running, Active, Idle
<1>2. IInv /\ Serial /\ Panel /\ BusyWhileWorking /\ [Next]_vars => BusyWhileWorking'
  <2> SUFFICES ASSUME IInv, Serial, Panel, BusyWhileWorking, [Next]_vars
               PROVE  BusyWhileWorking'
    OBVIOUS
  <2>1. CASE User
    BY <2>1, UserBusy
  <2>2. CASE Crash
    BY <2>2, RestartIdle, BusyEvent DEF Crash, UnderWay, NoTransfer
  <2>3. CASE System
    BY <2>3, InstallingBusy, ChainingBusy, TransferringBusy, TasksBusy DEF System
  <2>4. CASE (\E c \in Charts : ServerPublish(c)) \/ UNCHANGED vars
    <3>1. UNCHANGED <<frames, chain, xfer, busy, aborting>>
      BY <2>4 DEF ServerPublish, vars
    <3>2. Running' = Running
      BY <3>1 DEF Running
    <3> QED  BY <3>1, <3>2 DEF BusyWhileWorking, Active
  <2> QED  BY <2>1, <2>2, <2>3, <2>4 DEF Next
<1>3. Spec => []Serial /\ []Panel
  BY NeverNested, PanelInvariant, PTL
<1> QED  BY <1>1, <1>2, <1>3, InductiveInv, PTL DEF Spec

=============================================================================
