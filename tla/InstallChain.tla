---------------------------- MODULE InstallChain ----------------------------
(***************************************************************************)
(* The download-and-install chain of the o-charts shop panel               *)
(* (src/src/ochartShop.cpp): "Install" asks the server for a list of task  *)
(* files, queues a key file and a zip file per task, downloads what is not *)
(* already in the cache on curl threads, and installs the tasks one after  *)
(* another into the chart directory of the slot.                           *)
(*                                                                         *)
(* Three kinds of processes interleave:                                    *)
(*   - the user, who clicks whatever button is enabled;                    *)
(*   - the GUI thread, which runs one event handler at a time, but whose   *)
(*     handlers call wxYield and open modal dialogs, so that another       *)
(*     handler may run nested inside one that has not returned (frames);   *)
(*   - the curl threads, which end with an HTTP code and post an event.    *)
(*                                                                         *)
(* An edition is a number 1..MaxEd; BaseEds are those that start a new     *)
(* base compilation.  The files of one major edition share one cache       *)
(* directory.  What a file holds is abstracted to whether it matches the   *)
(* SHA256 published by the server; what a chart directory holds, to the    *)
(* set of editions whose changes are in place.                             *)
(***************************************************************************)
EXTENDS Integers, Sequences, FiniteSets

CONSTANTS
  Charts,        \* chartsets, each with the slot assigned to this system
  Threads,       \* curl threads that may exist at one time
  MaxEd,         \* the last edition the server publishes
  BaseEds,       \* editions that start a new base compilation
  MaxTasks,      \* most task files in one answer of the server
  MaxDepth,      \* most handlers nested inside one another
  MaxClicks,     \* how often the user (or a crash) acts
  EagerUser,     \* does the user click Install or Update while work is under way?
  DiskFaults,    \* may creating or writing a file or directory fail?
  Crashes,       \* may the process die and be started again?
  SlotMissing,   \* may a click on Install find no system name, no free slot, or
                 \* no active slot?
  Reselects,     \* may the user select another chart while a click on Install
                 \* is being taken up, before the override status is set?
  NoChart, NoThread, NoFile

ASSUME InstallAssumption ==
  /\ MaxEd \in Nat \ {0}
  /\ BaseEds \subseteq 1..MaxEd
  /\ 1 \in BaseEds
  /\ MaxTasks \in Nat \ {0}
  /\ MaxDepth \in Nat /\ MaxClicks \in Nat
  /\ EagerUser \in BOOLEAN /\ DiskFaults \in BOOLEAN
  /\ Crashes \in BOOLEAN
  /\ SlotMissing \in BOOLEAN /\ Reselects \in BOOLEAN
  /\ NoChart \notin Charts /\ NoThread \notin Threads

Edition == 0..MaxEd                       \* 0: none
Task    == [ed : 1..MaxEd, base : BOOLEAN]
Part    == {"key", "zip"}
File    == [chart : Charts, task : Task, part : Part]
Quality == {"none", "bad", "good"}        \* no file; SHA256 wrong; right
Yield   == {"no", "events", "all"}        \* what may run nested in a handler

ASSUME FileAssumption == NoFile \notin File

Transfer == [file : File \cup {NoFile}, st : {"idle", "run", "ok", "err", "dead"},
             good : BOOLEAN, shown : BOOLEAN]
Idle == [file |-> NoFile, st |-> "idle", good |-> FALSE, shown |-> FALSE]

\* A handler that has not returned.  "named", "asked", "prepare" and "start" are
\* stages of OnButtonInstall, each up to its next wxYield; "failed" and "aborted"
\* are error dialogs, "confirm" and "report" the dialogs before and after the
\* tasks are installed.
ClickKinds  == {"named", "asked", "prepare", "start"}
ClickFrame  == [kind : ClickKinds, chart : Charts, yield : Yield]
SaveFrame   == [kind : {"save"}, chart : Charts, yield : {"no"}]
DialogFrame == [kind : {"failed", "aborted", "confirm", "report"}, yield : Yield]
VerifyFrame == [kind : {"verify"}, file : File, res : BOOLEAN, yield : Yield]
LoopFrame   == [kind : {"loop"}, i : Nat \ {0}, yield : Yield]
TaskFrame   == [kind : {"checked", "copying"}, i : Nat \ {0}, chart : Charts,
                task : Task, good : BOOLEAN, yield : Yield]
Frame == ClickFrame \cup SaveFrame \cup DialogFrame \cup VerifyFrame \cup LoopFrame \cup TaskFrame

VARIABLES
  srv,          \* edition the server offers, per chart
  known,        \* serverChartEdition: what the last list said
  refreshed,    \* g_chartListUpdatedOK
  installed,    \* slot->installedEdition
  saved,        \* ... as flushed to the configuration file
  content,      \* editions whose changes are in the chart directory
  action,       \* taskAction, and with it taskRequestedFile
  from,         \* taskCurrentEdition
  requested,    \* taskRequestedEdition
  tasks,        \* slot->taskFileList
  queue,        \* the tasks slot->dlQueue was built from
  verified,     \* indices of dlQueue with SHA256_Verified set
  next,         \* slot->idlQueue
  target,       \* gtargetChart, gtargetSlot
  installChain, \* m_binstallChain
  aborting,     \* m_bAbortingDownload
  installOn,    \* Install button enabled
  updateOn,     \* Update button enabled
  cancelOn,     \* Cancel button shown
  busy,         \* g_statusOverride is not empty
  offered,      \* Install button shown
  selected,     \* m_ChartPanelSelected
  remembered,   \* m_ChartSelectedID
  chain,        \* pending ID_CMD_BUTTON_INSTALL_CHAIN events
  xfer,         \* curl threads
  current,      \* g_curlDownloadThread
  stream,       \* the thread that writes to downloadOutStream
  cache,        \* the download cache
  frames,       \* handlers that have not returned, innermost first
  clicks        \* user actions and crashes so far

listVars == <<srv, known, refreshed>>
slotVars == <<installed, saved>>
jobVars  == <<action, from, requested, tasks, queue, target>>
uiVars   == <<installOn, updateOn, cancelOn, busy, offered, selected,
             remembered>>
netVars  == <<xfer, current, stream>>
vars == <<listVars, slotVars, content, jobVars, verified, next, installChain,
          aborting, uiVars, chain, netVars, cache, frames, clicks>>

TypeList == /\ srv \in [Charts -> 1..MaxEd]
            /\ known \in [Charts -> Edition]
            /\ refreshed \in BOOLEAN
TypeSlot == /\ installed \in [Charts -> Edition]
            /\ saved \in [Charts -> Edition]
TypeContent == content \in [Charts -> SUBSET (1..MaxEd)]
TypeJob == /\ action \in [Charts -> {"none", "REPLACE", "UPDATE"}]
           /\ from \in [Charts -> Edition] /\ requested \in [Charts -> Edition]
           /\ tasks \in [Charts -> Seq(Task)]
           /\ queue \in [Charts -> Seq(Task)]
           /\ target \in Charts \cup {NoChart}
TypeQueue == /\ verified \in [Charts -> SUBSET (Nat \ {0})]
             /\ next \in [Charts -> Nat]
             /\ installChain \in BOOLEAN /\ aborting \in BOOLEAN
             /\ chain \in Nat
TypePanel == /\ installOn \in BOOLEAN /\ updateOn \in BOOLEAN /\ cancelOn \in BOOLEAN
             /\ busy \in BOOLEAN /\ offered \in BOOLEAN
             /\ selected \in Charts \cup {NoChart}
             /\ remembered \in Charts \cup {NoChart}
TypeNet == /\ xfer \in [Threads -> Transfer]
           /\ current \in Threads \cup {NoThread}
           /\ stream \in Threads \cup {NoThread}
TypeCache == cache \in [File -> Quality]
TypeFrames == frames \in Seq(Frame) /\ clicks \in Nat

TypeOK == /\ TypeList /\ TypeSlot /\ TypeContent /\ TypeJob /\ TypeQueue
          /\ TypePanel /\ TypeNet /\ TypeCache /\ TypeFrames

-----------------------------------------------------------------------------
(* Editions, tasks and files.                                              *)

\* The base compilation an edition belongs to (editionInt / 100).
Major(e) == Cardinality({b \in BaseEds : b <= e})

KeyFile(c, t) == [chart |-> c, task |-> t, part |-> "key"]
ZipFile(c, t) == [chart |-> c, task |-> t, part |-> "zip"]

\* dlQueue: the key file of each task, then its zip file.
QueueLen(c) == 2 * Len(queue[c])
QueueFile(c, k) ==
  IF k % 2 = 1 THEN KeyFile(c, queue[c][(k + 1) \div 2])
               ELSE ZipFile(c, queue[c][k \div 2])

Good(f) == cache[f] = "good"

\* ComputeUpdates: reinstall or new base compilation, else an update.
Reload(c) == \/ known[c] = installed[c]
             \/ Major(known[c]) > Major(installed[c])

\* What the server may answer when edition "to" is requested, and the program
\* says it has edition "at": one base file set, or, if updates were asked for,
\* those one by one, or a base set substituted for them.
Answers(act, at, to) ==
  LET base == <<[ed |-> to, base |-> TRUE]>>
      n    == to - at
      step == [k \in 1..n |-> [ed |-> at + k, base |-> FALSE]]
  IN  {base} \cup (IF act = "UPDATE" /\ n \in 1..MaxTasks THEN {step} ELSE {})

\* Files doDownload deletes: the cache directory of a base edition, but for
\* the zip file about to be used.
Purged(c, answer) ==
  {f \in File : /\ f.chart = c
                /\ \E i \in DOMAIN answer :
                     /\ answer[i].base \/ action[c] = "REPLACE"
                     /\ Major(f.task.ed) = Major(answer[i].ed)
                     /\ f # ZipFile(c, answer[i])}

Drop(files) == [f \in File |-> IF f \in files THEN "none" ELSE cache[f]]

-----------------------------------------------------------------------------
(* The event loop.                                                         *)

\* A pending event may be dispatched: no handler is running, or the running
\* one is inside wxYield or a modal dialog.
EventsRun == /\ Len(frames) < MaxDepth
             /\ (frames # <<>> => Head(frames).yield # "no")

\* ... and so may a click, unless a modal dialog is open.
UserRuns == /\ Len(frames) < MaxDepth
            /\ (frames # <<>> => Head(frames).yield = "all")
            /\ clicks < MaxClicks

\* A thread that has yet to end, or whose end is yet to be handled.
Active(t) == xfer[t].st \in {"run", "ok", "err"}

\* Nothing is under way: no handler, no pending event, no transfer.
Quiet == /\ frames = <<>>
         /\ chain = 0
         /\ \A t \in Threads : ~Active(t)

Push(f) == frames' = <<f>> \o frames
Pop     == frames' = Tail(frames)
Swap(f) == frames' = <<f>> \o Tail(frames)

\* A patient user clicks Install or Update only when nothing is under way; what
\* the user answers in a dialog of the program is part of the click.
Patience == EagerUser \/ Quiet

\* Mutant of Controls: Install is shown before the list was refreshed.
ControlsUnlisted(panel, override) ==
  /\ cancelOn' = FALSE
  /\ installOn' = (installOn \/ ~override \/ panel = NoChart)
  /\ offered' = (panel # NoChart)
  /\ busy' = override

\* UpdateActionControls: which buttons the panel shows and enables, for a
\* selected panel, when the override status is set or not.
Controls(panel, override) ==
  /\ cancelOn' = FALSE
  /\ installOn' = (installOn \/ ~override \/ panel = NoChart)
  /\ offered' = (panel # NoChart /\ refreshed)
  /\ busy' = override

\* saveShopConfig: the registry goes to the configuration file, and is flushed.
SaveShop == saved' = installed

\* UpdateChartList: rebuilds the panels, selects the remembered chart again,
\* refreshes the buttons and saves the configuration.
ChartList(override) ==
  LET panel == IF selected # NoChart THEN selected ELSE remembered
  IN  /\ remembered' = panel /\ selected' = panel
      /\ Controls(panel, override)
      /\ SaveShop

-----------------------------------------------------------------------------
(* The user and the server.                                                *)

\* The program starts with what an earlier session left: a chartset is not
\* installed, or its first edition is.
Init ==
  /\ srv = [c \in Charts |-> 1] /\ known = [c \in Charts |-> 0]
  /\ refreshed = FALSE
  /\ installed \in [Charts -> {0, 1}] /\ saved = installed
  /\ content = [c \in Charts |-> 1..installed[c]]
  /\ action = [c \in Charts |-> "none"]
  /\ from = [c \in Charts |-> 0] /\ requested = [c \in Charts |-> 0]
  /\ tasks = [c \in Charts |-> <<>>] /\ queue = tasks
  /\ verified = [c \in Charts |-> {}] /\ next = [c \in Charts |-> 0]
  /\ target = NoChart
  /\ installChain = FALSE /\ aborting = FALSE
  /\ installOn = TRUE /\ updateOn = TRUE /\ cancelOn = FALSE
  /\ busy = FALSE /\ offered = FALSE
  /\ selected = NoChart /\ remembered = NoChart
  /\ chain = 0
  /\ xfer = [t \in Threads |-> Idle]
  /\ current = NoThread /\ stream = NoThread
  /\ cache = [f \in File |-> "none"]
  /\ frames = <<>>
  /\ clicks = 0

\* The shop publishes a new edition of a chartset.
ServerPublish(c) ==
  /\ srv[c] < MaxEd
  /\ srv' = [srv EXCEPT ![c] = @ + 1]
  /\ UNCHANGED <<known, refreshed, slotVars, content, jobVars, verified, next,
                 installChain, aborting, uiVars, chain, netVars, cache, frames,
                 clicks>>

\* The files scrubCache offers to delete: those of another major edition.
Orphans == {f \in File : Major(f.task.ed) # Major(srv[f.chart])}

\* "Refresh Chart List", answered: the list is taken over, and the user may
\* let the cache be scrubbed.
ClickUpdate ==
  /\ UserRuns /\ Patience /\ updateOn
  /\ clicks' = clicks + 1
  /\ known' = srv /\ refreshed' = TRUE
  /\ busy' = FALSE
  /\ selected' = remembered /\ offered' = (remembered # NoChart)
  /\ installOn' = TRUE /\ cancelOn' = FALSE
  /\ SaveShop
  /\ cache' \in {cache, Drop(Orphans)}
  /\ UNCHANGED <<srv, installed, content, jobVars, verified, next, installChain,
                 aborting, updateOn, remembered, chain, netVars, frames>>

\* ... and not answered: the chart stays deselected, the buttons as they were.
ClickUpdateFails ==
  /\ UserRuns /\ Patience /\ updateOn
  /\ clicks' = clicks + 1
  /\ busy' = FALSE
  /\ selected' = NoChart
  /\ saved' \in {saved, installed}
  /\ UNCHANGED <<listVars, installed, content, jobVars, verified, next,
                 installChain, aborting, installOn, updateOn, cancelOn, offered,
                 remembered, chain, netVars, cache, frames>>

\* A click on Install is being taken up, and the override status not yet set.
TakenUp == \E d \in DOMAIN frames : frames[d].kind = "named"

\* A click on a chart panel selects it, or deselects it.
ClickSelect(c) ==
  /\ UserRuns /\ ~busy
  /\ TakenUp => Reselects
  /\ clicks' = clicks + 1
  /\ LET panel == IF selected = c THEN NoChart ELSE c IN
       /\ selected' = panel
       /\ Controls(panel, FALSE)
  /\ UNCHANGED <<listVars, slotVars, content, jobVars, verified, next,
                 installChain, aborting, updateOn, remembered, chain, netVars,
                 cache, frames>>

\* "Cancel": the transfer, if one is known, is told to stop.  libcurl reports
\* it as ended, with the code the server had already sent, or none.
ClickCancel ==
  /\ UserRuns /\ cancelOn
  /\ clicks' = clicks + 1
  /\ IF current = NoThread
     THEN UNCHANGED <<aborting, installChain, xfer>>
     ELSE /\ aborting' = TRUE /\ installChain' = TRUE
          /\ IF xfer[current].st = "run"
             THEN \E st \in {"ok", "err"} :
                    xfer' = [xfer EXCEPT ![current].st = st, ![current].good = FALSE]
             ELSE UNCHANGED xfer
  /\ updateOn' = TRUE
  /\ ChartList(FALSE)
  /\ UNCHANGED <<listVars, installed, content, jobVars, verified, next, chain,
                 current, stream, cache, frames>>

\* The process dies and is started again: what is not on disk is lost.
Restart ==
  /\ known' = [c \in Charts |-> 0] /\ refreshed' = FALSE
  /\ installed' = saved
  /\ action' = [c \in Charts |-> "none"]
  /\ from' = [c \in Charts |-> 0] /\ requested' = [c \in Charts |-> 0]
  /\ tasks' = [c \in Charts |-> <<>>] /\ queue' = tasks'
  /\ verified' = [c \in Charts |-> {}] /\ next' = [c \in Charts |-> 0]
  /\ target' = NoChart
  /\ installChain' = FALSE /\ aborting' = FALSE
  /\ installOn' = TRUE /\ updateOn' = TRUE /\ cancelOn' = FALSE
  /\ busy' = FALSE /\ offered' = FALSE
  /\ selected' = NoChart /\ remembered' = NoChart
  /\ chain' = 0
  /\ xfer' = [t \in Threads |-> Idle]
  /\ current' = NoThread /\ stream' = NoThread
  /\ frames' = <<>>
  /\ UNCHANGED <<srv, saved, content, cache>>

Crash ==
  /\ Crashes /\ clicks < MaxClicks
  /\ clicks' = clicks + 1
  /\ Restart

-----------------------------------------------------------------------------
(* OnButtonInstall: check the system, ask the server, queue the files.     *)

\* The override status is cleared, the system has its name, by a dialog if need
\* be, and RefreshSystemName yields.
ClickInstall(c) ==
  /\ UserRuns /\ Patience /\ offered /\ installOn /\ selected = c
  /\ clicks' = clicks + 1
  /\ busy' = FALSE
  /\ Push([kind |-> "named", chart |-> c, yield |-> "all"])
  /\ UNCHANGED <<listVars, slotVars, content, jobVars, verified, next,
                 installChain, aborting, installOn, updateOn, cancelOn, offered,
                 selected, remembered, chain, netVars, cache>>

\* ... or the system gets no name that the shop takes.
ClickInstallRefused(c) ==
  /\ UserRuns /\ Patience /\ offered /\ installOn /\ selected = c
  /\ clicks' = clicks + 1
  /\ busy' = FALSE
  /\ UNCHANGED <<listVars, slotVars, content, jobVars, verified, next,
                 installChain, aborting, installOn, updateOn, cancelOn, offered,
                 selected, remembered, chain, netVars, cache, frames>>

\* The handler asks the selected panel for its chart before it looks whether
\* there is one: with none, the null pointer is followed.
ClickInstallNothing ==
  /\ UserRuns /\ Patience /\ offered /\ installOn /\ selected = NoChart
  /\ clicks' = clicks + 1
  /\ Restart

In(kind) == frames # <<>> /\ Head(frames).kind = kind

\* Mutant of NameRefreshed: the override status is not set before the yield.
NameRefreshedIdle ==
  /\ In("named")
  /\ Swap([kind |-> "asked", chart |-> Head(frames).chart, yield |-> "all"])
  /\ UNCHANGED <<listVars, slotVars, content, jobVars, verified, next,
                 installChain, aborting, uiVars, chain, netVars, cache, clicks>>

\* After the yield of RefreshSystemName, the override status is set.
NameRefreshed ==
  /\ In("named")
  /\ busy' = TRUE
  /\ Swap([kind |-> "asked", chart |-> Head(frames).chart, yield |-> "all"])
  /\ UNCHANGED <<listVars, slotVars, content, jobVars, verified, next,
                 installChain, aborting, installOn, updateOn, cancelOn, offered,
                 selected, remembered, chain, netVars, cache, clicks>>

\* After the next wxYield.
DisableInstall ==
  /\ In("asked")
  /\ installOn' = FALSE /\ cancelOn' = FALSE
  /\ Swap([kind |-> "prepare", chart |-> Head(frames).chart, yield |-> "all"])
  /\ UNCHANGED <<listVars, slotVars, content, jobVars, verified, next,
                 installChain, aborting, updateOn, busy, offered, selected,
                 remembered, chain, netVars, cache, clicks>>

\* Fingerprint upload or slot assignment failed; a blanked name may be saved.
InstallFails ==
  /\ In("prepare")
  /\ Controls(selected, FALSE)
  /\ saved' \in {saved, installed}
  /\ Pop
  /\ UNCHANGED <<listVars, installed, content, jobVars, verified, next,
                 installChain, aborting, updateOn, selected, remembered, chain,
                 netVars, cache, clicks>>

\* The user gives the system no name, or no slot is free, or none is active: the
\* handler returns, and the override status is left in place.
InstallLeaves ==
  /\ In("prepare") /\ SlotMissing
  /\ Controls(selected, busy)
  /\ saved' \in {saved, installed}
  /\ Pop
  /\ UNCHANGED <<listVars, installed, content, jobVars, verified, next,
                 installChain, aborting, updateOn, selected, remembered, chain,
                 netVars, cache, clicks>>

\* ComputeUpdates: what to request for chart c.
Computed(c) ==
  /\ action' = [action EXCEPT ![c] = IF Reload(c) THEN "REPLACE" ELSE "UPDATE"]
  /\ from' = [from EXCEPT ![c] = installed[c]]
  /\ requested' = [requested EXCEPT ![c] = known[c]]

\* The request fails, perhaps after the answer named the slot.
PrepareFails ==
  /\ In("prepare") /\ selected # NoChart
  /\ LET c == Head(frames).chart IN
       /\ Computed(c)
       /\ tasks' \in {tasks, [tasks EXCEPT ![c] = <<>>]}
  /\ ChartList(FALSE)
  /\ Pop
  /\ UNCHANGED <<listVars, installed, content, queue, verified, next, target,
                 installChain, aborting, updateOn, chain, netVars, cache, clicks>>

\* doPrepare reads the chart from the selected panel, which may be gone.
PrepareNothing ==
  /\ In("prepare") /\ selected = NoChart
  /\ UNCHANGED clicks
  /\ Restart

\* The request is answered with task files; doDownloadGui takes the panel.  The
\* request names the slot of the handler's chart, and the file and editions last
\* computed for the chart of the selected panel, which need not be the same.
PrepareOK ==
  /\ In("prepare") /\ selected # NoChart
  /\ LET c == Head(frames).chart IN
       /\ Computed(c)
       /\ requested'[selected] \in 1..srv[c]
       /\ \E answer \in Answers(action'[selected], from'[selected],
                               requested'[selected]) :
            tasks' = [tasks EXCEPT ![c] = answer]
       /\ Swap([kind |-> "start", chart |-> c, yield |-> "all"])
  /\ updateOn' = FALSE
  /\ ChartList(TRUE)
  /\ UNCHANGED <<listVars, installed, content, queue, verified, next, target,
                 installChain, aborting, chain, netVars, cache, clicks>>

\* doDownload: build the queue, purge the cache, kick off the chain.
StartDownload ==
  /\ In("start")
  /\ LET c == Head(frames).chart IN
       /\ queue' = [queue EXCEPT ![c] = tasks[c]]
       /\ verified' = [verified EXCEPT ![c] = {}]
       /\ next' = [next EXCEPT ![c] = 0]
       /\ target' = c
       /\ cache' = Drop(Purged(c, tasks[c]))
  /\ installChain' = TRUE /\ aborting' = FALSE
  /\ chain' = chain + 1
  /\ Pop
  /\ UNCHANGED <<listVars, slotVars, content, action, from, requested, tasks,
                 uiVars, netVars, clicks>>

-----------------------------------------------------------------------------
(* OnButtonInstallChain: one file of the queue, or the installation.       *)

\* A chain event is taken from the event queue.
Dispatch == EventsRun /\ chain > 0

\* Download the current file of the target's queue on curl thread t: the file
\* is created empty, and the queue moves on.
StartTransfer(t) ==
  LET f == QueueFile(target, next[target] + 1) IN
  /\ ~Active(t)
  /\ xfer' = [xfer EXCEPT ![t] = [file |-> f, st |-> "run", good |-> TRUE,
                                  shown |-> FALSE]]
  /\ current' = t /\ stream' = t
  /\ cache' = [cache EXCEPT ![f] = "bad"]
  /\ next' = [next EXCEPT ![target] = @ + 1]
  /\ busy' = TRUE /\ cancelOn' = TRUE

\* After a Cancel, the event only says so.
ChainAborted ==
  /\ Dispatch /\ aborting
  /\ chain' = chain - 1
  /\ aborting' = FALSE
  /\ Push([kind |-> "aborted", yield |-> "events"])
  /\ UNCHANGED <<listVars, slotVars, content, jobVars, verified, next,
                 installChain, uiVars, netVars, cache, clicks>>

QueueLeft == next[target] < QueueLen(target)

\* The file is in the cache: its SHA256 is computed, with wxYields.  res is
\* what the pass over the file finds; it may change under it.
ChainVerify ==
  /\ Dispatch /\ ~aborting /\ QueueLeft
  /\ LET f == QueueFile(target, next[target] + 1) IN
       /\ cache[f] # "none"
       /\ Push([kind |-> "verify", file |-> f, res |-> Good(f), yield |-> "all"])
  /\ chain' = chain - 1
  /\ busy' = TRUE
  /\ UNCHANGED <<listVars, slotVars, content, jobVars, verified, next,
                 installChain, aborting, installOn, updateOn, cancelOn, offered,
                 selected, remembered, netVars, cache, clicks>>

\* The file is not in the cache.
ChainDownload(t) ==
  /\ Dispatch /\ ~aborting /\ QueueLeft
  /\ cache[QueueFile(target, next[target] + 1)] = "none"
  /\ chain' = chain - 1
  /\ StartTransfer(t)
  /\ UNCHANGED <<listVars, slotVars, content, jobVars, verified, installChain,
                 aborting, installOn, updateOn, offered, selected, remembered,
                 frames, clicks>>

\* ... nor can its directory be created: the handler returns.
ChainNoDirectory ==
  /\ Dispatch /\ ~aborting /\ QueueLeft /\ DiskFaults
  /\ cache[QueueFile(target, next[target] + 1)] = "none"
  /\ chain' = chain - 1
  /\ UNCHANGED <<listVars, slotVars, content, jobVars, verified, next,
                 installChain, aborting, uiVars, netVars, cache, frames, clicks>>

\* The queue is done: install.  A REPLACE opens dialogs first.
ChainInstall ==
  /\ Dispatch /\ ~aborting /\ ~QueueLeft /\ installChain
  /\ chain' = chain - 1
  /\ installChain' = FALSE
  /\ busy' = FALSE
  /\ Push(IF action[target] = "REPLACE"
          THEN [kind |-> "confirm", yield |-> "events"]
          ELSE [kind |-> "loop", i |-> 1, yield |-> "no"])
  /\ UNCHANGED <<listVars, slotVars, content, jobVars, verified, next, aborting,
                 installOn, updateOn, cancelOn, offered, selected, remembered,
                 netVars, cache, clicks>>

\* The queue is done and the installation was already started.
ChainNothing ==
  /\ Dispatch /\ ~aborting /\ ~QueueLeft /\ ~installChain
  /\ chain' = chain - 1
  /\ UNCHANGED <<listVars, slotVars, content, jobVars, verified, next,
                 installChain, aborting, uiVars, netVars, cache, frames, clicks>>

\* Mutant of VerifyPasses: the next chain event is not posted.
VerifyPassesStops ==
  /\ In("verify")
  /\ Head(frames).res \/ Good(Head(frames).file)
  /\ verified' = [verified EXCEPT ![target] = @ \cup {next[target] + 1}]
  /\ next' = [next EXCEPT ![target] = @ + 1]
  /\ Pop
  /\ UNCHANGED <<listVars, slotVars, content, jobVars, installChain, aborting,
                 uiVars, chain, netVars, cache, clicks>>

\* validateSHA256 returned TRUE: the entry that is current NOW is proven good.
VerifyPasses ==
  /\ In("verify")
  /\ Head(frames).res \/ Good(Head(frames).file)
  /\ verified' = [verified EXCEPT ![target] = @ \cup {next[target] + 1}]
  /\ next' = [next EXCEPT ![target] = @ + 1]
  /\ chain' = chain + 1
  /\ Pop
  /\ UNCHANGED <<listVars, slotVars, content, jobVars, installChain, aborting,
                 uiVars, netVars, cache, clicks>>

\* ... or FALSE: the entry that is current NOW is downloaded.
VerifyFails(t) ==
  /\ In("verify")
  /\ ~Head(frames).res \/ ~Good(Head(frames).file)
  /\ QueueLeft
  /\ verified' = [verified EXCEPT ![target] = @ \ {next[target] + 1}]
  /\ StartTransfer(t)
  /\ Pop
  /\ UNCHANGED <<listVars, slotVars, content, jobVars, installChain, aborting,
                 installOn, updateOn, offered, selected, remembered, chain,
                 clicks>>

\* ... when the queue has none left: the access past its end is undefined,
\* taken here to end the program.
VerifyPastEnd ==
  /\ In("verify")
  /\ ~Head(frames).res \/ ~Good(Head(frames).file)
  /\ ~QueueLeft
  /\ UNCHANGED clicks
  /\ Restart

-----------------------------------------------------------------------------
(* The curl threads and the events they post.                              *)

\* A transfer ends: with code 200, its file whole or not, or with another.
TransferEnds(t) ==
  /\ xfer[t].st = "run"
  /\ \E st \in {"ok", "err"}, whole \in BOOLEAN :
       xfer' = [xfer EXCEPT ![t].st = st,
                            ![t].good = @ /\ whole /\ st = "ok"]
  /\ UNCHANGED <<listVars, slotVars, content, jobVars, verified, next,
                 installChain, aborting, uiVars, chain, current, stream, cache,
                 frames, clicks>>

\* The thread cannot set up or write its output: it ends with no event.
ThreadDies(t) ==
  /\ DiskFaults /\ xfer[t].st = "run"
  /\ xfer' = [xfer EXCEPT ![t].st = "dead", ![t].good = FALSE]
  /\ UNCHANGED <<listVars, slotVars, content, jobVars, verified, next,
                 installChain, aborting, uiVars, chain, current, stream, cache,
                 frames, clicks>>

\* onBeginEvent.
HandleBegin(t) ==
  /\ EventsRun
  /\ Active(t) /\ ~xfer[t].shown
  /\ xfer' = [xfer EXCEPT ![t].shown = TRUE]
  /\ cancelOn' = TRUE
  /\ UNCHANGED <<listVars, slotVars, content, jobVars, verified, next,
                 installChain, aborting, installOn, updateOn, busy, offered,
                 selected, remembered, chain, current, stream, cache, frames,
                 clicks>>

\* onEndEvent closes the global stream, whichever thread it belongs to: only
\* then is the file on disk what was received.
Closed == IF /\ stream # NoThread
             /\ xfer[stream].st = "ok" /\ xfer[stream].good
             /\ cache[xfer[stream].file] # "none"
          THEN [cache EXCEPT ![xfer[stream].file] = "good"]
          ELSE cache

\* Mutant of CloseStream: the thread may post its event again.
CloseStreamKeeps(t) == stream' = NoThread /\ cache' = Closed /\ UNCHANGED xfer

CloseStream(t) ==
  /\ stream' = NoThread
  /\ cache' = Closed
  /\ xfer' = [u \in Threads |->
                IF u = t THEN Idle
                ELSE IF u = stream /\ xfer[u].st = "run"
                     THEN [xfer[u] EXCEPT !.good = FALSE]
                     ELSE xfer[u]]

\* Mutant of HandleEndOK: the Cancel button is not hidden.
HandleEndOKCancel(t) ==
  /\ EventsRun
  /\ xfer[t].st = "ok" /\ xfer[t].shown
  /\ updateOn' = TRUE
  /\ CloseStream(t)
  /\ current' = NoThread
  /\ chain' = chain + 1
  /\ UNCHANGED <<listVars, slotVars, content, jobVars, verified, next,
                 installChain, aborting, installOn, busy, offered, selected,
                 remembered, cancelOn, frames, clicks>>

\* The transfer ended with code 200: the chain goes on.
HandleEndOK(t) ==
  /\ EventsRun
  /\ xfer[t].st = "ok" /\ xfer[t].shown
  /\ updateOn' = TRUE /\ cancelOn' = FALSE
  /\ CloseStream(t)
  /\ current' = NoThread
  /\ chain' = chain + 1
  /\ UNCHANGED <<listVars, slotVars, content, jobVars, verified, next,
                 installChain, aborting, installOn, busy, offered, selected,
                 remembered, frames, clicks>>

\* ... with another code: a dialog reports it.
HandleEndError(t) ==
  /\ EventsRun
  /\ xfer[t].st = "err" /\ xfer[t].shown
  /\ updateOn' = TRUE /\ cancelOn' = FALSE
  /\ CloseStream(t)
  /\ Push([kind |-> "failed", yield |-> "events"])
  /\ UNCHANGED <<listVars, slotVars, content, jobVars, verified, next,
                 installChain, aborting, installOn, busy, offered, selected,
                 remembered, current, chain, clicks>>

\* Mutant of CloseFailed: the override status is not cleared.
CloseFailedBusy ==
  /\ In("failed")
  /\ updateOn' = TRUE
  /\ ChartList(busy)
  /\ Pop
  /\ UNCHANGED <<listVars, installed, content, jobVars, verified, next,
                 installChain, aborting, chain, netVars, cache, clicks>>

\* ResetUI, once that dialog is closed.
CloseFailed ==
  /\ In("failed")
  /\ updateOn' = TRUE
  /\ ChartList(FALSE)
  /\ Pop
  /\ UNCHANGED <<listVars, installed, content, jobVars, verified, next,
                 installChain, aborting, chain, netVars, cache, clicks>>

CloseAborted ==
  /\ In("aborted")
  /\ Controls(selected, busy)
  /\ Pop
  /\ UNCHANGED <<listVars, slotVars, content, jobVars, verified, next,
                 installChain, aborting, updateOn, selected, remembered, chain,
                 netVars, cache, clicks>>


-----------------------------------------------------------------------------
(* Installing the tasks.                                                   *)

ConfirmYes ==
  /\ In("confirm")
  /\ Swap([kind |-> "loop", i |-> 1, yield |-> "no"])
  /\ UNCHANGED <<listVars, slotVars, content, jobVars, verified, next,
                 installChain, aborting, uiVars, chain, netVars, cache, clicks>>

\* The user changes the install location, and then cancels.
ConfirmNo ==
  /\ In("confirm")
  /\ ChartList(FALSE)
  /\ Pop
  /\ UNCHANGED <<listVars, installed, content, jobVars, verified, next,
                 installChain, aborting, updateOn, chain, netVars, cache, clicks>>

LoopTask == tasks[target][Head(frames).i]

\* Mutant of LoopLeft: the last task is left out.
LoopLeftShort == In("loop") /\ Head(frames).i < Len(tasks[target])
LoopLeft == In("loop") /\ Head(frames).i <= Len(tasks[target])

\* processTask: are the SHA256 sums of both files right?  A flag of dlQueue
\* stands for a sum that was checked before: the flags of its first two
\* entries, whatever the task.  Mutants: the wrong flag; no check.
ZipByKeyFlag == 1 \in verified[target] \/ Good(ZipFile(target, LoopTask))
ZipOK == 2 \in verified[target] \/ Good(ZipFile(target, LoopTask))
KeyUnchecked == TRUE
KeyOK == 1 \in verified[target] \/ Good(KeyFile(target, LoopTask))

\* validateSHA256 yields, and is called for the files not flagged.
TaskCheck ==
  /\ LoopLeft /\ ZipOK /\ KeyOK
  /\ busy' = (busy \/ ~({1, 2} \subseteq verified[target]))
  /\ Swap([kind |-> "checked", i |-> Head(frames).i, chart |-> target,
           task |-> LoopTask, good |-> FALSE,
           yield |-> IF {1, 2} \subseteq verified[target] THEN "no" ELSE "all"])
  /\ UNCHANGED <<listVars, slotVars, content, jobVars, verified, next,
                 installChain, aborting, installOn, updateOn, cancelOn, offered,
                 selected, remembered, chain, netVars, cache, clicks>>

\* A task failed: the override status is cleared and a dialog tells the error.
TaskError ==
  /\ busy' = FALSE
  /\ Swap([kind |-> "report", yield |-> "events"])
  /\ UNCHANGED <<listVars, slotVars, content, jobVars, verified, next,
                 installChain, aborting, installOn, updateOn, cancelOn, offered,
                 selected, remembered, chain, netVars, cache, clicks>>

TaskCheckFails == LoopLeft /\ ~(ZipOK /\ KeyOK) /\ TaskError

TaskFiles(c, task) == {KeyFile(c, task), ZipFile(c, task)}

\* A replacement first deletes the files of the chart directory; then the zip
\* is unpacked and the key list read.  good: both are what was published.
TaskUnpack ==
  /\ In("checked")
  /\ LET h == Head(frames) IN
       /\ content' = IF action[h.chart] = "REPLACE" \/ h.task.base
                     THEN [content EXCEPT ![h.chart] = {}] ELSE content
       /\ Swap([h EXCEPT !.kind = "copying", !.yield = "all",
                         !.good = \A f \in TaskFiles(h.chart, h.task) : Good(f)])
  /\ busy' = TRUE
  /\ UNCHANGED <<listVars, slotVars, jobVars, verified, next, installChain,
                 aborting, installOn, updateOn, cancelOn, offered, selected,
                 remembered, chain, netVars, cache, clicks>>

\* The charts are copied, the chart list and key list written.  Unless the disk
\* fails, or the files are not what was published, the task's edition is in
\* place; a copy that fails is only logged.
TaskFinish ==
  /\ In("copying")
  /\ LET h == Head(frames)
         put == [content EXCEPT ![h.chart] =
                   @ \cup (IF h.task.base THEN 1..h.task.ed ELSE {h.task.ed})]
     IN  /\ content' \in (IF h.good THEN {put} ELSE {content})
                         \cup (IF DiskFaults THEN {content} ELSE {})
         /\ Swap([kind |-> "loop", i |-> h.i + 1, yield |-> "no"])
  /\ busy' = TRUE
  /\ UNCHANGED <<listVars, slotVars, jobVars, verified, next, installChain,
                 aborting, installOn, updateOn, cancelOn, offered, selected,
                 remembered, chain, netVars, cache, clicks>>

\* ... or the task fails on the way.
TaskFinishFails ==
  /\ In("copying")
  /\ DiskFaults \/ ~Head(frames).good
  /\ TaskError

\* All tasks are done: the edition is recorded, and then saved.
LoopDone ==
  /\ In("loop") /\ ~LoopLeft
  /\ installed' = [installed EXCEPT ![target] = requested[target]]
  /\ Swap([kind |-> "save", chart |-> target, yield |-> "no"])
  /\ UNCHANGED <<listVars, saved, content, jobVars, verified, next,
                 installChain, aborting, uiVars, chain, netVars, cache, clicks>>

\* Mutant of SaveConfig: the configuration is not saved.
SaveConfigLater ==
  /\ In("save")
  /\ busy' = FALSE
  /\ Swap([kind |-> "report", yield |-> "events"])
  /\ UNCHANGED <<listVars, slotVars, content, jobVars, verified, next,
                 installChain, aborting, installOn, updateOn, cancelOn, offered,
                 selected, remembered, chain, netVars, cache, clicks>>

SaveConfig ==
  /\ In("save")
  /\ SaveShop
  /\ busy' = FALSE
  /\ Swap([kind |-> "report", yield |-> "events"])
  /\ UNCHANGED <<listVars, installed, content, jobVars, verified, next,
                 installChain, aborting, installOn, updateOn, cancelOn, offered,
                 selected, remembered, chain, netVars, cache, clicks>>

CloseReport ==
  /\ In("report")
  /\ ChartList(busy)
  /\ Pop
  /\ UNCHANGED <<listVars, installed, content, jobVars, verified, next,
                 installChain, aborting, updateOn, chain, netVars, cache, clicks>>

-----------------------------------------------------------------------------
(* The specification.                                                      *)

User == \/ ClickUpdate \/ ClickUpdateFails \/ ClickCancel \/ ClickInstallNothing
        \/ \E c \in Charts : ClickSelect(c) \/ ClickInstall(c) \/ ClickInstallRefused(c)

Installing == \/ NameRefreshed \/ DisableInstall \/ InstallFails \/ InstallLeaves
              \/ PrepareFails \/ PrepareNothing \/ PrepareOK \/ StartDownload

Chaining == \/ ChainAborted \/ ChainVerify \/ ChainNoDirectory \/ ChainInstall
            \/ ChainNothing \/ VerifyPasses \/ VerifyPastEnd
            \/ \E t \in Threads : ChainDownload(t) \/ VerifyFails(t)

Transferring == \E t \in Threads : \/ TransferEnds(t) \/ ThreadDies(t)
                                   \/ HandleBegin(t) \/ HandleEndOK(t)
                                   \/ HandleEndError(t)

Tasks == \/ ConfirmYes \/ ConfirmNo \/ TaskCheck \/ TaskCheckFails \/ TaskUnpack
         \/ TaskFinish \/ TaskFinishFails \/ LoopDone \/ SaveConfig
         \/ CloseFailed \/ CloseAborted \/ CloseReport

\* What the program does by itself once it was told to do something.
System == Installing \/ Chaining \/ Transferring \/ Tasks

Next == \/ User \/ Crash \/ System
        \/ \E c \in Charts : ServerPublish(c)

Spec == Init /\ [][Next]_vars

\* The event loop dispatches what is pending, handlers return, dialogs are
\* closed and transfers end; nobody is bound to click.
FairSpec == Spec /\ WF_vars(System)


-----------------------------------------------------------------------------
(* Properties.                                                             *)

\* The handlers that have not returned, in whatever order.
Running == {frames[d] : d \in DOMAIN frames}

JobKinds == ClickKinds \cup {"verify", "confirm", "loop", "checked", "copying", "save"}
JobFrames(s) == {d \in DOMAIN s : s[d].kind \in JobKinds}
Applying == {f.chart : f \in {g \in Running : g.kind \in {"checked", "copying"}}}

\* What processTask unpacks is what the server published: both files of a task
\* have the published SHA256 ("Check the SHA256 of both files in the task, if
\* not already proven good"), although a transfer may be cut short, the cache
\* may hold remains of an earlier attempt and flags of an earlier queue.
AppliedProvenGood ==
  \A f \in Running : f.kind = "copying" => f.good

\* An edition is recorded as installed only when every change up to it is in
\* the chart directory ("If no error, finalize the contract").
CommitComplete ==
  [][\A c \in Charts : installed'[c] # installed[c] =>
        1..installed'[c] \subseteq content'[c]]_vars

\* The recorded edition is on disk as soon as the handler that recorded it has
\* called saveShopConfig: a restart forgets no finished installation.
CommittedIsDurable ==
  \A c \in Charts :
    saved[c] = installed[c] \/ \E f \in Running : f.kind = "save" /\ f.chart = c

\* One job at a time: the starting installation, the pending chain event, the
\* validation, the transfer and the tasks being installed are at most one in
\* all, so no two of them share idlQueue, the stream and the thread pointer.
OneJob ==
  /\ chain <= 1
  /\ \A d, e \in JobFrames(frames) : d = e
  /\ \A t, u \in Threads : Active(t) /\ Active(u) => t = u
  /\ chain = 1 => JobFrames(frames) = {}
  /\ \A t \in Threads : Active(t) => chain = 0 /\ JobFrames(frames) = {}

\* The Cancel button is shown only while there is a transfer to cancel.
CancelHasTarget ==
  cancelOn => current # NoThread /\ Active(current)

\* While a chart is requested, downloaded, validated or installed, the override
\* status is set, which blocks selecting another: at every point where a handler
\* yields to the user, but for the first of OnButtonInstall, and while the chain
\* waits for an event, unless the user has just cancelled it.
Working(f) == \/ f.kind \in {"asked", "prepare", "start", "verify", "copying"}
              \/ f.kind = "checked" /\ f.yield = "all"
BusyWhileWorking ==
  /\ \A f \in Running : Working(f) => busy
  /\ chain > 0 \/ (\E t \in Threads : Active(t)) => busy \/ aborting

\* The override status is set only while something is under way that clears it.
\* It fails once a click on Install finds no name or slot.
OverrideIsDriven == busy => ~Quiet

\* When nothing is under way the user can refresh the list or install: "Update"
\* was enabled again, or the job ended without a transfer and freed "Install".
PanelUsable == Quiet => updateOn \/ (installOn /\ ~busy)

\* What the type invariant and CommittedIsDurable need besides to be inductive:
\* Install is offered and asked only once the list is known, a chain has a
\* target, and a record not yet saved belongs to the innermost handler, which
\* yields to nothing.
Ready ==
  /\ offered => refreshed
  /\ refreshed => \A c \in Charts : known[c] # 0
  /\ \A f \in Running : f.kind \in {"named", "asked", "prepare"} => refreshed

Targeted ==
  /\ target = NoChart => chain = 0 /\ \A t \in Threads : xfer[t].st = "idle"
  /\ \A f \in Running : f.kind \notin ClickKinds => target # NoChart

SavedNext ==
  \A c \in Charts :
    \/ saved[c] = installed[c]
    \/ In("save") /\ Head(frames).chart = c

IInv == TypeOK /\ Ready /\ Targeted /\ SavedNext

\* Install is offered only with a chart selected: the handler follows
\* m_ChartPanelSelected before it looks whether a chart is there.
InstallHasChart == offered /\ installOn => selected # NoChart

\* The panel of the chart a click on Install is for stays selected until its files
\* are queued.  It holds only if nothing is selected while the click is taken up.
BusyChartStays ==
  \A f \in Running : f.kind \in ClickKinds => selected = f.chart

\* Whatever was started comes to its end, and the panel is free again, unless a
\* click on Install finds no name or slot: that leaves the override status set.
PanelComesBack == []<>(Quiet /\ ~busy)

\* The chain implements the abstract store of charts.
Store == INSTANCE ChartStore
           WITH applying <- Applying
StoreSpec == Store!Spec

=============================================================================
