# Formal models of o-charts_pi

o-charts_pi is an OpenCPN plugin that buys, downloads, installs, decrypts and
draws the chart sets of o-charts.org. This directory holds TLA+ models of its
logic, the TLC configurations that check them, and proofs checked by TLAPS. All
models are of the source in `src/src` (and a little of `src/libs/s52plib`),
built for a Linux desktop with curl (`__OCPN_USE_CURL__`, which `Plugin.cmake`
sets everywhere but on Android and one old Debian).

## The system

| Component | State it keeps | Operations | Hard parts | What makes it correct |
|---|---|---|---|---|
| **Install chain** (`ochartShop.cpp`: `OnButtonInstall`, `doPrepare`, `doDownload`, `OnButtonInstallChain`, `processTask`, curl events) | task list and download queue of a slot, queue index, globals `gtargetChart`/`gtargetSlot`, `downloadOutStream`, `g_curlDownloadThread`, flags `m_binstallChain`, `m_bAbortingDownload`, buttons, override status, the cache on disk, the chart directories | Install, Cancel, Refresh, select; one event per file; one task after another | handlers nested through `wxYield` and modal dialogs; curl threads; truncated, failed, cancelled transfers; crash | only what has the published SHA256 is unpacked; an edition is recorded only when it is complete, and is saved then; one job at a time; the panel comes back |
| **Shop registry** (`getChartList`, `ProcessResponse`, `saveShopConfig`, `loadShopConfig`, login) | the list of `itemChart` with quantities and slots, credentials, the configuration file | login, refresh, merge of an answer, save, load | an answer that fails half way has already changed the list; login retried inside the refresh | what was installed stays known |
| **Slot assignment** (`doAssign`, `getChartStatus`, slot lookups) and **system name, fingerprint, dongle** (`fpr.cpp`, `tpmUtil.cpp`) | slots per quantity, the active slot, `g_lastSlotUUID`, `g_systemName`, `g_dongleName` | identify, upload, choose a name, assign, look up | lost answers, two systems and a dongle, the last slot | a machine has at most one slot, the active slot exists, slot and fingerprint belong together |
| **Edition numbers** (`GetEditionInt`) | none | fold, compare | collisions | the order is that of publication |
| **Chart set data, key lists** (`ChartSetData`, `ChartSetKeys`) | the XML lists of an installed set | load, add, edit, remove, write | several tasks merged one into the other, interruptions between any two writes | list, keys and files are those of one edition |
| **Key maps** (`uKey.cpp`, `chart.cpp`, `eSENCChart.cpp`) | system and dongle key maps, which of them is primary | load, look up, swap, clear | maps filled while an installation rewrites the lists | a chart opens with the key of its last installation, if one of the systems has it |
| **Validator** (`validator.cpp`) | the report | one pass over list, keys, files; a load per chart | its loads go through the key maps; charts are opened between them | a complete set validates, and what validates can be used |
| **Decryption server and stream** (`validate_SENC_server`, `shutdown_SENC_server`, `Osenc_instream`, `oernc_inStream`) | public and private FIFO, server process | probe, start, request, read, close | a server that is slow, dies, or starts twice; an `open` that blocks | one server; every open ends |
| **SENC reader, raster and vector charts** (`Osenc.cpp`, `chart.cpp`, `eSENCChart.cpp`: Init) | the loaded chart, `g_UserKey`, the failure counts | Init, header, full reading, key search | nested retries into the same object, truncated answers | what can be opened is, whole, and with the right key |
| **Line geometry and priorities** (`eSENCChart.cpp`, `s52plib.cpp`) | line buffer, connectors, priorities | assemble, set options, render | buffer sized from an earlier count; connectors shared; caches keyed on a hash | the buffer is exact; the owner of a line draws it |
| **Plugin shell** (`o-charts_pi.cpp`) | configuration, licences, chart-information list | Init, DeInit, messages, licences | dialogs with the event loop below them | nothing opens unaccepted, nobody is asked twice |
| **Drawing, projection, class tables, dialogs, Android, vendored libraries** | - | - | - | not modelled, see below |

They interact through shared state more than through calls. The shop panel's
handlers all run on the GUI thread and share the globals above; each `wxYield`
and each modal dialog lets another of them run in the middle. The curl threads
write files and post events to that thread. The registry's list is what Install
reads and what the configuration file holds; the installed key lists are what
the key maps read when a chart is opened, which may happen during an
installation or a validation; charts are decrypted by a server process that is
reached through FIFOs; a chart's Init first considers the licence of its set.

The repository has no tests; the promises checked here are those of comments,
log messages and dialogs, and of what the user must be able to rely on.

## What is here

| Module | Models | Kind |
|---|---|---|
| `InstallChain`, `MCInstallChain` | the install chain, its threads, its user, restarts | state machine, its instance |
| `ChartStore` | what installed charts promise | abstract specification, refined by `InstallChain` |
| `ShopRegistry` | registry, credentials, slots, names and dongle | state machine |
| `Edition` | edition numbers | pure function and its uses |
| `ChartFiles` | what `processTask` does to a directory | state machine |
| `ChartKeys` (extends `ChartFiles`) | key maps, opening charts | composition with the installations |
| `Validator` (extends `ChartKeys`), `MCValidator` | the validation | composition with key maps and installations |
| `SencServer` | the decryption server, its start, one request | state machine with two sides |
| `SencReader` (extends `SencServer`), `MCSencReader` | Init of the three kinds of charts | composition with the server |
| `LineGeometry` | line buffer of a vector chart | algorithm, step by step |
| `LineDisplay` (extends `LineGeometry`), `MCLines` | line priorities under changing options | composition with the geometry |
| `Eula` | licences | state machine |
| `InstallChain_proofs`, `InstallStore_proofs`, `ShopRegistry_proofs`, `Edition_proofs`, `ChartDirectory_proofs`, `SencReader_proofs`, `LineDisplay_proofs`, `Eula_proofs` | | TLAPS proofs |

`InstallChain` sees a set's directory as "which editions' changes are in it";
`ChartFiles` opens up that step. An operator named as a variant of its neighbour
(`LoopLeftShort` beside `LoopLeft`, `ClearKept` beside `ClearMaps`) is a
plausible mistake in the code: each property of a passing run is violated when
one of them takes its neighbour's place.

### InstallChain

*Processes.* The user; the GUI thread; the curl threads; the shop server (which
only publishes editions and answers). `frames` is the stack of handlers that
have not returned, innermost first: a handler that calls `wxYield` or opens a
dialog leaves a frame that says what it will do when it continues and what may
run meanwhile (`"all"`: events and clicks; `"events"`: a modal dialog is open,
so no clicks on the panel; `"no"`: nothing). Code between two such points is one
action. `EventsRun` and `UserRuns` are the event loop's choice.

*State.* `installed`, `tasks`, `queue`, `verified`, `next` are fields of the
slot of each chartset (`installedEdition`, `taskFileList`, `dlQueue`, its
`SHA256_Verified` flags, `idlQueue`); `action`, `from`, `requested`, `known` of the
chart (what to request, from which edition to which, and the server's last one);
`saved` is the edition in the flushed configuration file; `target`,
`installChain`, `aborting`, `chain` (pending events), `current`
(`g_curlDownloadThread`), `stream` (`downloadOutStream`) are the globals;
`installOn`, `updateOn`, `cancelOn`, `offered`, `busy`, `selected`,
`remembered` the panel. `cache` says of each cache file whether it is absent,
wrong or right; `content` which editions' changes are in a chart directory.

*Actions.* One per handler section: `ClickInstall` to `StartDownload` are
`OnButtonInstall`, whose stages are the frames `named` (the yield of
`RefreshSystemName`, the override status not yet set), `asked`, `prepare` and
`start`. It may end before them (`ClickInstallRefused`: no name the shop takes),
with the override status cleared (`InstallFails`: uploads and assignments), or
with it left in place (`InstallLeaves`: a name dialog that is cancelled, 6517; no
free slot, 6586; no active slot, 6624). `PrepareOK` asks for the file and
editions of the chart of the selected panel with the slot of the handler's
chart, as `doPrepareGUI` does (6724). `ChainAborted` to `VerifyPastEnd` are
`OnButtonInstallChain` until the queue is done, `ChainInstall` to `CloseReport` its
installation with `processTask` between `TaskCheck` and `TaskFinish`;
`TransferEnds`, `HandleBegin`, `HandleEndOK`, `HandleEndError` are the threads and
their events; `ClickUpdate`, `ClickSelect`, `ClickCancel` the other buttons;
`Restart` what `loadShopConfig` restores.

*Abstractions.*
- A file is right or wrong with respect to the published SHA256; its content is
  not modelled. The names of the cache files are: two editions of one base
  compilation share a directory, and a re-install finds the files of the last.
- An edition is a number; `BaseEds` says which start a new compilation.
- `OnButtonUpdate` is atomic: its yields and the login dialog nest only
  handlers that the patient user cannot start then; the login is part of
  `ClickUpdateFails`. Its own steps are in `ShopRegistry`.
- Which names and slots there are is not kept: whether a click on Install finds
  them is the choice between its ends, the last of them only if `SlotMissing`.
  Looking them up is in `ShopRegistry`. The dialogs for a name are part of the
  click. The yields from the lookups to the request, all with the override status
  set, are those of one stage, `prepare`.
- `Reselects` says whether the user may select another panel at the first yield.
- A task's chart copies are one stage: the yield between two files is the same
  as the one before the first. `content` counts a task as in place when it has
  been merged; which charts its zip held is a matter of `ChartFiles`.
- A null or dangling access ends the program (`Restart`), one of the outcomes it
  can have.
- The server answers with at least one task file, with the right sums.
- A transfer ends with code 200 for a whole or a truncated file alike, because
  wxcurl reports the code the server sent, also when the transfer was cut.

### ChartStore

The promise: `installed` is complete in `content` but while a task is being
applied; a task may clear a directory, and must leave the recorded edition
complete again; a record is made only of a complete edition, and saved before
the next. `InstallChain!Store` maps `applying` to the charts of the `"checked"`
and `"copying"` frames; `StoreSpec` is checked as a property.

### ShopRegistry

The first half of what the panel does: the refresh (`ClickUpdate`, `Login*`,
`Identify`, `List*`, `UpdateDone`) and an installation up to the slot it will
use (`ClickInstall`, `Name*`, `Upload*`, `doAssign`, `Assigned`, `TakeSlot`).
Handlers run one at a time; `at` is the section that runs next, and the server,
the dongle and crashes come between sections. `server` is what the shop knows:
which chartsets it lists, their quantities and slots, the names and the login
key. An answer is the server's state at that moment, or is lost, or fails; what
was asked has then happened all the same. `list` is merged by quantity and slot
UUID as `ProcessResponse` and `itemChart::Update` do, `active` is left as
`getChartStatus` leaves it, also by its early returns; `job.late` says that a job
uses indices left like that, because the name was given after they were looked
up. `saveShopConfig` and `loadShopConfig` are functions on the list; `disk` is the truth about what is
installed. Left out: thumbnails, dates, sorting, the hardware access behind the
fingerprint.

### Edition

`GetEditionInt` with its arithmetic, `getChartStatus`'s comparison and
`ComputeUpdates`'s choice, for a server that publishes editions in order and a
user who installs the latest, or, as an administrator, any.

### ChartFiles

A chart file, its entry in `ChartList.XML` and its key are each the edition that
last changed it, or 0. An installation is a list of tasks, a base set or updates
one by one; a task reads the working copies of the lists (`TaskBegin`), removes
(`TaskWithdraw`), copies file by file (`CopyChart`), writes the list
(`WriteList`), then the keys (`WriteKeys`); it may fail (`TaskError`), and the
process may die, at any step. `Torn` lets a crash leave a list half written;
`CopyFails` a copy fail and be logged only; `Skips` a chart be left out because
its file is not in the unpacked zip (5799): it keeps its old entry and file, its
key is merged all the same, and `missed` has it until a task brings it or all is
removed; `Systems` has one or two key lists
over one directory; `BaseInterrupts` an interruption between a base set's
removal of the old charts and its end. The texts of entries, and the EULA and
text files that come with a set, are left out.

### ChartKeys and Validator

`ChartKeys` adds the two key maps, filled from the lists on first use and only
where they have no key, which of them is primary, and the dongle. A key opens a
chart if it is of the edition that last changed the file and its system is
there. `OpenRaster` is `Chart_oeuRNC::Init` with its second attempt and
`SwapKeyHashes`; `OpenVector` is `oesuChart::Init`, which tries the same key
again. Charts may be opened at any step of an installation. The retry after a
server failure is that of the code: it uses the other system's key.

`Validator` adds `startValidation`: the choice of the slot (the dongle's if one is
assigned to it, installed or not, in which case the validation fails, 342-386), the
comparison of list and files (pass 1 and 2), the keys, with the index the code uses, and the
loads, one `TestLoad` per chart, between which any chart may be opened. The
order in which files and lists are found is any, an empty key list stands for
one that is not there, an empty `ChartList.XML` may be reported or not, and
reading past a list has any outcome. Left out: cancelled charts (a warning
only), vector charts of mixed sets, and installations started below a
validation; a validation whose server fails is not followed further.

### SencServer and SencReader

`SencServer` has both sides of one request. The server (external: a prebuilt
executable) starts, accepts, feeds record by record, dies at any moment. The
plugin probes it (`ProbeFails`, `Answered`), starts it after the third failure
and probes it up to `Tries` times more; no caller looks at the result. A probe
may fail because the server is slow: `late`. Osenc's private file is a regular
file, since `CreateTempFileName` has made it and `mkfifo` fails, so that reading
waits a while for more bytes and then fails; that of `oernc_inStream` is a real
FIFO, so that opening it waits for the server.

`SencReader` runs Init of the three kinds of charts on top. `at` is which
reading is under way (`h1`, `h2` header, `f1`, `f2` full, `k1`..`k4`
`validateUserKey`, `r1`, `r2` raster) and `phase` how far it is; `got` is what
the Osenc object holds, kept over retries as in the code. The files are in
`Library`: kind, permits, `Chartinfo.txt` hints, expired, cancelled or
incompatible, coverage, features with known or unknown class. What the code does
and the model keeps: a truncated reading returns without error
(`Osenc.cpp:993`); a version mismatch in a full reading falls through; SENC's
error codes are returned as OpenCPN's (`Cast`); the second failure to open is
ignored by `ingest200`, which then verifies what it has not read (`Unread`: any
verdict); oesu charts never count their failures. Left out: the payload of
records, Windows pipes, Android sockets, the job object.

### LineGeometry and LineDisplay

`LineGeometry` translates `BuildRAZFromSENCFile` as far as lines go,
`AssembleLineGeometry` and `buildExtendedGeom`: features filed by priority, the
count of points, the walk that makes connectors node-edge, edge-node and
node-node once for all that share them, the allocation, and the copy. A point
is `<<"node", n>>` or `<<"edge", e, k>>`; offsets count points. Versions 200
(sign of the edge index) and 201 (direction flag) differ as in the code; nodes
and edges of the tables may be missing; the connector from an edge is dropped
when the node before it is missing. Coordinates and bounding boxes are left out,
and connectors are keyed by numbers rather than strings, in whatever order the
map has: nothing depends on it.

`LineDisplay` adds the options message (`SetOptions`), what hides a feature only
when it is drawn (`MoveView`), and `Render`: the state hash, `UpdateLUPs` and
`SetLinePriorities` where it has changed. `Unset` is the value that an
uninitialised `max_priority_cs` happens to have. Drawing is an operator,
`Draws`.

### Eula

`dir` is what is there of a set: its EULA file, its policy, whether its
`Chartinfo.txt` names one. `array`, `shas`, `processed`, `rejected` are
`g_EULAArray`, `g_EULAShaArray`, `g_ChartInfoArray` and `g_bEULA_Rejected`;
`config` what is saved of the array. `dialogs` are those open: charts may be
opened from below them (`Nested`; OpenCPN's event loop). The start asks for all
entries shown always; each `OpenChart` and the loop over all sets after a
refresh or an installation go through `processChartinfo`. Sets are installed,
revised and deleted meanwhile; the configuration is saved on quitting and by the
preferences, and a crash loses what was not. `agreed`, `agreedNow` and `revised`
are ghosts. Left out: the choice of a localised file, `Pending` keys, the texts;
and two ways a chart is let through without a question: its set has no
`Chartinfo.txt` (4908), or the EULA file named there is not there (5017). In the
model a set that is there has both.

## Runs

| Run | Module, configuration | Bounds | Shows |
|---|---|---|---|
| `install_store` | `MCInstallChain`, `InstallStore.cfg` | 1 chart, 3 editions in 2 compilations, 7 clicks, selections at every yield, fair event loop | `AppliedProvenGood`, refinement of `ChartStore` (`StoreSpec`), `PanelComesBack` |
| `install_two_charts` | `MCInstallChain`, `InstallTwoCharts.cfg` | 2 charts, 2 editions, 6 clicks, none of them a selection at the first yield of a click on Install | `OneJob`, `BusyWhileWorking`, `CancelHasTarget`, `PanelUsable`, `CommitComplete` |
| `install_faults` | `MCInstallChain`, `InstallFaults.cfg` | 1 chart, 2 editions, 2 threads, 5 clicks and crashes, failing disk, names and slots missing, selections at every yield, eager user | `CommittedIsDurable`, `IInv` |
| `install_two_tasks` | `MCInstallChain`, `InstallTwoTasks.cfg` | 1 chart, 3 editions, 2 tasks in an answer | `AppliedProvenGood` is violated |
| `shop_slots` | `ShopRegistry`, `ShopSlots.cfg` | 1 chartset, 2 licences for 1 or 2 machines each, another dongle of the account, 2 UUIDs, 2 login keys | `TypeOK`, `SlotIsForName`, `ActiveSlotExists`, `SlotsAreDistinct`, `RecordsAreTrue`, `OnlyRefusalsForget` |
| `shop_relogin` | `ShopRegistry`, `ShopRelogin.cfg` | 1 chartset, 1 licence, no lost answers | `InstalledIsSaved` is violated |
| `edition_order` | `Edition`, `Edition.cfg` | years 2000, 2020, 2021; bases 1, 2, 99; updates 0, 1, 10, 99 | `StaleIffBehind`, `UpdateFitsBase` |
| `files_merge` | `ChartFiles`, `ChartFiles.cfg` | 2 charts, 1 system, 4 editions with bases 1 and 4, crashes, failing copies, charts left out | `TypeOK`, `EntriesKeepUp`, `FinishedIsComplete` |
| `keys_maps` | `MCValidator`, `Validator.cfg` | 2 charts (symmetric), 2 systems, 2 editions of one base, every fault but failing copies and charts left out | `MapsAgree`, `RasterOpensIfPossible`, `CompleteValidates`, `ValidIsUsable`, `BaseSetRepairs` |
| `senc` | `MCSencReader`, `Senc.cfg` | chart a with each of 13 files beside an oeSENC chart b, 2 servers, 1 try (10 in the code), limit 1 (2 in the code), fair | `TypeOK`, `OneServer`, `CoverageOnce`, `ObjectsArePrefix`, `RightOutcome`, `InitReturns` |
| `lines` | `MCLines`, `Lines.cfg` | 3 features, 2 nodes, edges of 1 and 2 points, a ring or a closed pair, versions 200 and 201, 1 change of options | `TypeOK`, `BufferIsExact`, `DrawsWhatIsDescribed`, `ChainIsOneContour`, `OwnersDraw`, `ListedOnce` |
| `eula` | `Eula`, `Eula.cfg` | 2 sets, 2 texts, once or always, 2 dialogs open | `AcceptedBeforeOpened`, `AskedOnce` |

The runs take from seconds to about two minutes; the largest are `files_merge`
(5.2 million states), `eula` (1.6 million) and `keys_maps` (0.9 million).

*Why the bounds are enough.* `InstallChain`: `MaxDepth = 2` is a handler and one
run from inside it, the deepest this chain reaches except by a third click from
inside a second, so that every pair of handlers meets; three editions are
nothing, an edition, an update, a new base; install, cancel and install again
with selections between takes six clicks. A click that finds no slot, and a panel selected at its first
yield, are switched off where what is checked fails with them, which is said
below. `shop_slots`: two licences are two
quantities; with one machine each they run out, with two a merge can put another
machine's slot before this one's; two UUIDs let every assignment have happened twice. The properties of one chartset do not
depend on another but for `g_lastSlotUUID`; a second one makes the run too
large. `edition_order`: each field has its boundaries, and two values apart by
one. `files_merge`: two charts are one that changed and one that did not;
editions 2 and 3 are two updates in a row, 4 the replacement. `keys_maps`: two
charts so that opening one can disturb the other; charts that are left out or
not copied are in `files_merge`, and the theorems about both modules have them
all. `senc`: one try stands for all,
since each does the same; two servers are enough for one too many. `lines`: the
shortest edges, since an edge's inner points never matter, and both shapes of a
closed contour. `eula`: two sets are needed for a shared licence; `"never"` is
left out because nothing is shown for it.

`CHECK_DEADLOCK FALSE` in the install runs because a bounded user stops clicking
and a panel at rest is a legitimate end; in `shop_slots` and `shop_relogin`
because bounded UUIDs and keys run out; in `senc` because the opening of a raster chart's FIFO
may really wait for ever (`oernc_inStream.cpp:752`, see `InitReturns`); in
`lines` because a chart whose options no longer change is at rest.

`EagerUser = FALSE` is a user who waits until nothing is under way before
clicking Install or Refresh (Cancel and selection are always free). That is how
the panel is meant to be used, not what it enforces; `install_faults` does
without it.

### What the properties mean

- `AppliedProvenGood`: whatever `processTask` unpacks has the published sums,
  although remains of cancelled or truncated transfers wait in the cache and
  flags of an earlier queue in memory. `CommitComplete`: an edition is recorded
  only over a complete directory. `CommittedIsDurable`: a record is on disk
  outside the handler that made it. `OneJob`: the preparing installation, the
  pending chain event, the validation, the transfer, the tasks are together at
  most one; the queue index, the stream and the thread pointer have no other
  protection. `BusyWhileWorking`: the override status, which any error
  message and any validation may clear, is set wherever the job yields to the user,
  so that no other panel is selected then, but for the yield before it is set
  the first time. `PanelUsable`, `CancelHasTarget`: the panel never blocks itself,
  and Cancel always has something to cancel. `PanelComesBack`: whatever was
  started ends, and another chart can be selected.
- `SlotIsForName`: the slot in use is assigned to the name whose fingerprint was
  uploaded, if that name was known when the slot was looked up. `ActiveSlotExists`: `GetActiveSlot` reads within the lists.
  `SlotsAreDistinct`: a lost answer, or a merge, makes no second slot of this
  machine. `RecordsAreTrue`, `OnlyRefusalsForget`: a record is true, and only
  the answer to a failing refresh loses one.
- `StaleIffBehind`, `UpdateFitsBase`: the folded number decides as the order of
  publication would.
- `EntriesKeepUp`, `FinishedIsComplete`: interrupted anywhere, updates that name
  only what changed still converge, but for the file of a chart that could not
  be copied, and for the entry and file of one that was left out until it is sent
  again. `BaseSetRepairs`: a base set does, also after half-written lists, other
  interrupted base sets, and another system's installations; of a chart that its
  zip lacked nothing old is left.
- `MapsAgree`: no map has a key its list no longer has. `RasterOpensIfPossible`:
  a raster chart opens if either system can open it. `CompleteValidates`,
  `ValidIsUsable`: the verdict is true both ways.
- `OneServer`: two processes only after a late answer. `CoverageOnce`: retries
  into one Osenc object double nothing. `ObjectsArePrefix`: of a cut answer the
  chart has the first objects, each whole but the last. `RightOutcome`: what can
  be opened is, whole, with at most one failure of the server on the way for
  oesu headers and none otherwise; what may not be is refused. `InitReturns`:
  Init ends, except for the blocked FIFO above.
- `BufferIsExact`: what is copied fills the buffer to the point, and each edge
  and connector has its own room. `DrawsWhatIsDescribed`, `ChainIsOneContour`:
  a feature draws the points of its segments, in one line where they join.
  `OwnersDraw`: a shared line is drawn by those of the highest priority that
  claim it. `ListedOnce`: filing areas again does not multiply them.
- `AcceptedBeforeOpened`, `AskedOnce`: licences.

### Fairness

`InstallChain!FairSpec` has weak fairness of `System` as a whole: a handler
returns, pending events are dispatched, dialogs are closed, transfers end (curl
gives up on a stalled connection at the latest when the connection drops). The
user and the server are not bound to do anything. `SencReader!FairSpec` has weak
fairness of `Client`, the thread that runs Init, and of `Serve`, a server that is
up and has work; the server is not bound to live. Both are what the scheduler of
the operating system gives. The other specifications have none.

### Not claimed, because it does not hold

- With failing directories `ChainNoDirectory` leaves the override status set and
  the buttons as they are, so the panel properties are claimed without disk
  faults. `InstallLeaves` leaves it set: no panel can be selected, and Install stays
  disabled, until the next refresh. After an installation from the
  cache, which no transfer ends, Update is disabled still (6745), and a click that
  finds no slot then leaves neither. `PanelUsable` and `PanelComesBack` are
  claimed without `SlotMissing`.
- At the first yield of `OnButtonInstall` another panel may be selected, and the
  request is made of two charts (6724). Where there are two, `CommitComplete` is
  checked, and `StoreSpec`, `Commits` and `RecordedInPlace` are proved, without
  `Reselects`.
- A chart that its zip lacked is in the key list, and in `ChartList.XML` with an
  older edition or not at all: the properties of `ChartFiles` except it (`missed`).
- A crash or an error after a replacement has deleted the old charts leaves the
  recorded edition without them: `StoreSpec` is claimed without crashes and disk
  faults, `FinishedIsComplete` with `BaseInterrupts = FALSE`; `BaseSetRepairs`
  is claimed with it.
- A name typed at Install, when none was known, may be used with the slot that an
  earlier status left active: `SlotIsForName` excepts it (`late`).
- With an eager user two installations share the queue, so `OneJob`,
  `AppliedProvenGood`, `CommitComplete` and `StoreSpec` are claimed for the
  patient one.
- Sets with fewer charts than XML files make the validator read past its list:
  `CompleteValidates` excepts them.
- Charts opened from below the dialog of their own set are not held back, and a
  revised licence is not shown: `AcceptedBeforeOpened` excepts both.

### Disagreements with the source's own words

Two runs show one each:

1. `processTask` tests the flags of queue entries 0 and 1 for every task, under
   the comment "Check the SHA256 of both files in the task, if not already
   proven good" (`ochartShop.cpp:5452`). With two tasks in an answer the second
   is unpacked unchecked (`install_two_tasks`).
2. "Could be a change in login_key, userName, or password. if so, force a full
   (no_key) login, and retry" (`ochartShop.cpp:4876`): the refused answer has
   already pruned every chart that was only loaded, the login saves the emptied
   list (4885), and the retry cannot bring the records back (`shop_relogin`).

More can be seen by checking the named definition with the constants given:

| Definition | Where | What TLC shows |
|---|---|---|
| `InstallHasChart` | `InstallTwoTasks.cfg` with `MaxEd = 2`, `MaxTasks = 1`, `MaxClicks = 4` | `OnButtonInstall` follows `m_ChartPanelSelected` one line before it tests the chart (`ochartShop.cpp:6452`); a refresh that fails leaves Install enabled with none selected |
| `CommitComplete` | `InstallTwoCharts.cfg` with `DiskFaults = TRUE` | "If no error, finalize the contract" (6374): a chart that cannot be copied is only logged, and its edition recorded |
| `CommitComplete` | `InstallTwoCharts.cfg` with `Reselects = TRUE` | a panel selected before the override status is set (6463): `doPrepareGUI` takes the chart from it (6724), and the edition of the chart clicked is recorded over what the other's request brought |
| `PanelUsable`; `PanelComesBack` | `InstallTwoCharts.cfg`; `InstallStore.cfg`, with `SlotMissing = TRUE` | a click on Install that finds no slot or name leaves the override status set (6517, 6586, 6624) and Install disabled; after an installation from the cache Update is disabled too (6745) |
| `OverrideIsDriven` | `InstallTwoCharts.cfg` with `SlotMissing = TRUE` | the same returns: "Installing..." stays although nothing is under way |
| `BusyWhileWorking` | `InstallTwoCharts.cfg` with `EagerUser = TRUE` | a refresh or a second click clears the override status of the job under way (4596) |
| `EveryEntryKeepsUp` | `ChartFiles.cfg` | "Can not find file referenced in ChartList" (5801): the chart is left out, and its edition recorded |
| `BusyChartStays` | `InstallTwoCharts.cfg` with `Reselects = TRUE` or `EagerUser = TRUE` | "Do not allow de-selection by mouse if this chart is busy, i.e. being prepared, or being downloaded" (3871): the override status tested there is set only after a first yield (6465), and is cleared by a refresh |
| `ListIsTheServers` | `ShopSlots.cfg` with `Charts = {c1, c2}` | `bshopValidated` is never reset (2992), so a chartset withdrawn during the session stays |
| `NoHarmDone` | `ShopSlots.cfg` with `Failures = {"lost"}` | a lost answer to the upload of the fingerprint clears the name (6530, 6551) |
| `KnownAssignedToMe` | `ShopSlots.cfg` with `Quantities = 1`, `Rooms = {3}`, `Others = {"other"}`, `MaxKeys = 1`, `Failures = {}`, `Withdraws = FALSE` | "Known assigned to me, so maybe Ready for download" (6620): with no name known `getChartStatus` returns before it sets the active slot, a refresh puts another machine's slot at the indices it left, and a name typed at Install (6513) goes straight to `GetActiveSlot` (6623). A repaint between the two would look the slot up again and hide it; repaints are not modelled |
| `FinishedIsComplete` | `ChartFiles.cfg` with `BaseInterrupts = TRUE` | the recorded edition's charts are gone, and updates do not bring them back (5396, 5513) |
| `FinishedIsComplete` | `ChartFiles.cfg` with `Torn = TRUE`, `MaxEd = 2`, `BaseEds = {1}` | lists are written in place (1021): a half-written one loses entries until the next base set |
| `FinishedIsComplete` | `ChartFiles.cfg` with `Systems = {"pc", "sgl"}` | a base set for one system removes what the other's list still names (5496, 5515) |
| `SwapOnlyFaster` | `KSpec` of `ChartKeys`, 1 chart, both systems | which map is primary decides whether a vector chart opens (`eSENCChart.cpp:799`) |
| `KeyForEachFile` | `Validator.cfg` | "There must be a key for each file found in the ChartList" (`validator.cpp:505`): one file is looked for, the one at the list's own index |
| `CompleteOfAnySize` | `Validator.cfg` with `ServerFails = FALSE` | with fewer charts than XML files the same index is past the end |
| `OnlyAsksForWhatIsThere` | `Eula.cfg` | a deleted set's licence is asked for at every start, cannot be accepted, and its refusal closes all charts (`o-charts_pi.cpp:5169`) |
| `WaitsForAnswer` | `Eula.cfg` | "Have we processed this exact ChartInfo file in this session? If so, all is well" (4899): also while its dialog is open |
| `AcceptedAsPublished` | `Eula.cfg` | "If the EULA is required to be shown, either once or always, do it here" (5019): an entry keeps its first policy and its flag when the set is revised |
| `AcceptedBeforeOpened` | `Eula.cfg` with `CanvasAtStart = FALSE` | without a window `ShowEULA` says yes and remembers the text |

`LineGeometry` and `LineDisplay` follow four more oddities, which `OwnersDraw`
and `ListedOnce` except: the state hash has the mariner's boundary parameter but
not the style set by a message without global reconfiguration
(`o-charts_pi.cpp:940`, `s52plib.cpp:622`), so that a change of style may go
unnoticed; `UpdateLUPs` files areas where a list is bare, so that one area keeps
others out of the list at its other priority, and is filed again itself;
`m_DPRI` is set at load and never again (`eSENCChart.cpp:4523`) although drawing
compares with it (`s52plib.cpp:3697`), so that boundaries may vanish when the
style changes; and features that are hidden only when drawing still claim their
lines, although `s52plib.cpp:6686` says invisible objects should not.

## Proofs

Everything below is proved by TLAPS for every value of the constants, under the
named assumptions of the modules and the conditions stated.

| Theorem | States | Condition |
|---|---|---|
| `InductiveInv`, `TypeCorrect`, `Durable` | `IInv`, `TypeOK`, `CommittedIsDurable` of `InstallChain` | - |
| `NeverNested`, `Exclusive` | handlers never nest; `OneJob` | a patient user |
| `SelectionBlocked`, `CancelTargeted` | `BusyWhileWorking`, `CancelHasTarget` | a patient user, disks that work |
| `PanelStaysUsable` | `PanelUsable` | the same, and no slot or name missing |
| `SelectionStays` | `BusyChartStays` | a patient user, disks that work, no selection before the override status is set |
| `OnlyProvenApplied` | `AppliedProvenGood` | a patient user, one task per answer |
| `ImplementsStore`, `Commits`, `RecordedInPlace` | `StoreSpec`; `CommitComplete`; recorded editions are complete on disk | `Undisturbed`: a patient user, one task per answer, disks that work, no crashes; one chart, or no selection before the override status is set |
| `Invariant`, `TypeCorrect`, `SlotNamed`, `ActiveExists`, `DistinctSlots`, `TrueRecords` | `IInv`, `TypeOK`, `SlotIsForName`, `ActiveSlotExists`, `SlotsAreDistinct`, `RecordsAreTrue` of `ShopRegistry` | - |
| `OnlyRefusals` | `OnlyRefusalsForget` | - |
| `EditionOrder`, `StaleIsBehind`, `UpdatesFit` | the folding is monotone; `StaleIffBehind`, `UpdateFitsBase` | years 2000-3999, bases 1-99, updates 0-99 |
| `FilesTyped` | `TypeOK` of `ChartFiles` | - |
| `UpdatesConverge`, `NothingFallsBehind` | `FinishedIsComplete`, `EntriesKeepUp` | `Sound`: one system, no torn lists or interrupted base sets |
| `BaseSetsRepair` | `BaseSetRepairs` | of `Spec` of `ChartFiles`, every fault, charts left out included |
| `MapsAgreeWithLists`, `RasterAlwaysOpens` | `MapsAgree`, `RasterOpensIfPossible` | of `KSpec` |
| `ValidMeansUsable`, `CompleteIsValid` | `ValidIsUsable`, `CompleteValidates` | of `VSpec`; finitely many charts |
| `Typing`, `OneServerUnlessLate`, `CoverageIsOnce`, `ObjectsAreAPrefix`, `OutcomesAreRight` | `TypeOK`, `OneServer`, `CoverageOnce`, `ObjectsArePrefix`, `RightOutcome` of `SencReader` | - |
| `HighestDraws`, `AreasListedOnce` | `OwnersDraw`, `ListedOnce` of `LineDisplay` | each feature once in the file, priorities within the levels (`LineGeometryAssumption`) |
| `BufferHoldsAll`, `LinesTyped` | `BufferIsExact`, `TypeOK` of `LineDisplay` | finitely many edges in a file; the same, and `LineDisplayAssumption` |
| `LinesAreTheFiles`, `ContoursAreFound` | `DrawsWhatIsDescribed`, `ChainIsOneContour` of `LineDisplay` | `LineGeometryAssumption`: the edges of a file have points, segments name edges |
| `EulaTyped`, `NotAskedAgain` | `TypeOK`, `AskedOnce` of `Eula` | - |
| `NotOpenedUnaccepted` | `AcceptedBeforeOpened` | `CanvasAtStart` |

*The install chain.* `InstallChain_proofs` proves for every value of the
constants (any number of charts, threads and editions, any nesting depth, eager
user, failing disks, crashes) from the assumptions `InstallAssumption` and
`FileAssumption`:

- `InductiveInv`: `Spec => []IInv`
- `TypeCorrect`: `Spec => []TypeOK`
- `Durable`: `Spec => []CommittedIsDurable`

`TypeOK` alone is not inductive. `next[target]`, `queue[target]` are typed only
if a target exists whenever an event or a handler of the chain does, and an
answer is a list of tasks only if the list is known: hence `Targeted` and
`Ready`. `Durable` needs to know that the frame which has recorded and not yet
saved is the innermost one and yields to nothing: `SavedNext`. `IInv` is their
conjunction and is also checked by TLC (`install_faults`).

The proof has one lemma per group of actions (`UserStep`, `InstallingStep`,
`ChainingStep`, `TransferringStep`, `TasksStep`, `RestartStep`, `PublishStep`,
`StutterStep`), one step per action in it, and one per part of the invariant the
action disturbs. `HeadRuns`, `PushRuns`, `PopRuns`, `SwapRuns` say what the
stack operations do to the set of running handlers; `Settled` that while an
event or a click can run every record is saved; `QueueHead` that the current
entry of a queue is a file; `AnswersType` that an answer is a list of tasks;
`TransferStarts` and `StreamCloses` type the two shared updates.

`NeverNested`: `~EagerUser => (Spec => []Serial)`, from the same assumptions and
`IInv`, with failing disks and crashes. `Serial` is that a handler, a pending
event and a transfer are never there together and that there is at most one of
each; it is inductive for a patient user, although every handler yields. Its
lemmas are one per way a step can hand the job on: an event is handled or
becomes a handler (`EventHandled`, `EventHeld`), a handler becomes another one,
returns, or returns and posts an event (`HandlerGoesOn`, `HandlerReturns`,
`HandlerPosts`), becomes a transfer (`TransferAlone`), a transfer becomes an
event or a dialog (`TransferPosts`, `TransferReported`), or all is forgotten
(`RestartIdle`); each action is assigned to its lemma. `Exclusive` follows from
`IInv` and `Serial`. The condition is needed: an eager user starts a second job,
since the button is disabled only after a yield.

`Panel` adds what the panel shows, and is inductive with `Serial`: a chain that
goes on was not cancelled (`Chained`); a cancelled one has cleared the override
status (`Aborted`); the dialogs that leave the override status alone find it
cleared (`Dialogs`); a transfer is the one Cancel stops (`Pointed`); a panel
at rest offers Install or Refresh and has no override status (`Enabled`,
`Driven`; both only if no slot is missing). It needs disks that work, because of the
early return named above. `SelectionBlocked` adds
that the override status is set at every yield of a job (`Working`).

`InstallStore_proofs` proves `OnlyProvenApplied`: `~EagerUser /\ MaxTasks = 1
=> (Spec => []AppliedProvenGood)`. Its invariant, `Proven`, relates the stack,
the flags and the cache. A handler that is copying had both files proven
(`FrameProven`); one that has checked them still finds them good; one that is
validating a file is validating the current entry of the queue, and if its pass
found the sum right it still is. Once doDownload has run (`Later`), the tasks are
those the queue was built from, and a flag belongs to an entry that was passed
and whose file is good (`Flags`); a list has one task (`Short`), so the flags of
the first two entries are those of the task. Steps that write to the cache or
replace the tasks are harmless because nothing nests: no handler relies on the
files then. `JobStays` disposes of all steps that leave the job's data alone. Both conditions are needed:
`install_two_tasks` violates it with two tasks, and two jobs of an eager user
share the queue index, so that one validation flags an entry the other was meant
for.

The same module proves that the chain implements `ChartStore` (`ImplementsStore`:
`Undisturbed => (Spec => StoreSpec)`), one lemma per group of actions that shows
each of its steps to be a step of the store or a stutter. Its invariant,
`Stored`, says that what was requested is what the one task brings: a base, or
the edition after the installed one (`Planned`); that a handler which copies an
update finds the installed edition in place; that the loop has passed its task
only with the requested edition in place; and that the recorded edition is in
place except while its successor is copied. `Commits` and `RecordedInPlace`
follow. A failing disk or a kill in the middle of a copy does leave a recorded
edition that is not in place, hence `Undisturbed`. What is requested is of the
chart of the panel selected then, so the proof needs that this is the handler's
chart (`OwnPanel`): either there is no other, or it is `SelectionStays`, which says
that the panel clicked stays selected from the click to the queue. It follows from
`SelectionBlocked`, except at the yield before the override status is set, and
from `NeverNested`, since a second handler could change the selection.

*Registry and slots.* `IInv` of `ShopRegistry_proofs` is inductive without any
condition. What the server has assigned only grows, and every record of the list
and of the file is `Genuine`: it is about a slot the server has assigned, in that
quantity and to that system, and says "installed" only of what is on disk. A
slot's UUID therefore means the same machine and chartset wherever it turns up,
and no merge, save or load in any order can make two of one (`Distinct`,
`Good`). Along an installation only `Handler` has to be carried: the active slot
of its chart is one of the name it was computed for. `Fresh`, that after a
successful refresh all charts of the file are in the list again, gives
`OnlyRefusals`, which is shown action by action: what each does to the records
in memory and in the file. Here lists are folded: `loadShopConfig` adds the
slots of the file one by one (`Loaded`), `saveShopConfig` flattens quantities
(`SavedSlots`). What these return is proved by induction on the length of their
arguments. The library's induction theorems cannot be used for that, since they
take a predicate; the well-foundedness of the strict subset order on finite sets
(`FS_StrictSubsetOrderingWellFounded`) needs none, and gives the least
counterexample (`LeastExists`). `SlotIsForName` excepts late names because of this proof: the active slot of a
chart whose status was looked up without a name is only in range.

*Editions.* `Fold` says that a number with a lower part below its weight is
ordered by its upper part first; `EditionOrder` applies it twice. The bounds are
where the folding is unambiguous: the year is taken modulo 2000, base and update
get two digits each.

*Chart files.* `Follows` says at each stage of an installation within which range
of editions the directory lies: at rest everything on disk is of the recorded
edition or a later one (`RestFollows`), because an update that was interrupted
may be ahead but never behind; before an update it is of the edition before it,
or later (`UpdateFollows`); a working copy that has been merged is of the task's
edition, or later (`CopyFollows`, `KeysFollow`); when the last task is done the
range has one member (`DoneFollows`). A chart file may be missing while an
edition in the range will bring it again (`Owed`). `Shape` has the numbers of
the tasks. With the range, it does not matter which writes an interruption lost. Nothing is
said of the entries and files of charts left out (`missed`) until a later task brings
them. `BaseSetsRepair` needs none of this, and no condition: a base set empties
directory and lists before it copies, and `Replaced` follows its one task from
there; what a failing copy or a zip did not bring is missing, not old.

*Key maps.* `KeyTypeOK` and `MapsAgree` are inductive together with the typing
of `ChartFiles`. A map that agrees with the lists still does after it was filled
from them (`LookedAgrees`), and an installation that runs to its end empties the
maps after its last write, so that what was filled in the middle is gone.
`RasterAlwaysOpens` needs no invariant but typing: the first attempt and the
second between them look in both maps, and a key found in either is found again
(`LaterKeyFound`). These
theorems are about `KSpec`, those of the validator about `VSpec`.

*Validator.* `ValInv` has two parts. `LoadedOpen`: while no error was reported,
list and files agree, and every chart that was loaded can be opened with a key in
one of the maps; opening other charts in between fills and swaps maps but loses
no key (`OpeningKeeps`). `CompleteSoFar`: a complete directory gives no error as
long as it is validated. The passes over lists and keys take the charts in an
order of their own, and the index they use stays within the keys
(`OrderShape`, `CompleteListsValidate`); that is where the number of charts must
be finite.

*Server and reader.* `Probing`: when one to three probes of a series have failed
there is no process, or one was late; so what is started then is the only one, or
`late`. The other four theorems rest on one invariant, `IInv`, without any
condition on files, charts and servers. What an answer holds record by record is
worked out first (`ContentsIs`, `ChartIs`, `RefusalIs`, `RasterIs`). Then
`Collected(q)` says what the Osenc object has when `q` records past the version
were read: the edition, `Coverage(q)`, or the objects of the features begun so
far, all but the last with their geometry; one record more gives
`Collected(q + 1)` (`ItemTaken`, from `FeatureTaken` and `PartTaken`, where a
feature of an unknown class has no object and its part goes elsewhere). `Taken`
is that a reading is at such a `q`, and that before the records nothing is there,
which is why a retry into the same object doubles nothing: what fails, fails
before them. `Judged` is what a finished reading says: with a server that was
well, whether the key fits and the chart is compatible; with one that was not,
nothing or a beginning, and the whole chart if the failures are no more than the
retries are meant for. `Ways` is why the reading was made: the second raster key
is tried only if the first does not fit, and after a successful search the key is
the chart's. `Course` has which readings there are for which charts. `RightOutcome`
follows where an Init ends (`FinishKeeps`).

*Line priorities.* `FileFeatures`, `UpdateLUPs` and `SetLinePriorities` are
folds, whose value the prover cannot compute by induction. What it can do is to
unfold the definition of a fold as a function on the initial segments of its
list, and show by the least counterexample, as for the registry, that such a
function exists (`IterExists`); so a fold has a state after every element
(`Folds`), and what each element keeps, the fold keeps (`FoldKeeps`). `Filings`
are the lists that a feature is in only where its entries put it, a line for good
and an area by the style of the list. `GivenIsTop` says that after a fold over
the levels a line has the highest at which it is claimed, whatever it had before:
lower levels come first, and a level overwrites. `DisplayInv` adds that the
priorities kept by each feature are those of the options the chart saw last;
`OwnersDraw` follows when these are in force. For `ListedOnce`, `ListedInv`
follows one priority that no feature moves to or from: its areas are once in one
list and the other is bare (`Only`), until the first update files them in both
(`Both`), and then `UpdateLUPs` finds no list bare (`LevelGives`); filing at any
other priority does not reach it (`FileOtherGives`). `With`, that assigns to a map,
is written without the `@@` of the library because the prover does not know it.

*The line buffer.* `BufferInv` relates the count to what it is a count of. While
the features are walked, `nPoints` is the points of the edges in `m_ve_hash` and
two for each pair, and there are as many connectors as pairs, each with the index
of one (`Connected`); while edges are copied, what was allocated is what has been
copied, the points of the edges still to copy (`Uncopied`) and two for each pair.
The count is a fold over a set, which chooses its elements in an order of its own:
`SumRemoves` shows by induction on the size of the set that any element may be
taken out first, so that the count does not depend on the order of the map, and
a null that `operator[]` adds to `m_ve_hash` counts nothing (`TouchedCounts`).
`ConnectKeeps` follows the elements of one segment; `OrderIsWhole` says that the
three kinds of connectors, each in any order, are all of them, and
`DuosFlattened` that their pairs have two points each. `BufferIsExact` follows:
nothing is written past the end, and nothing is left out.

*The lines in the buffer.* `DrawInv` says, at every step of the assembly, what the
maps, lists and offsets mean in terms of the file. `HashesRight`: the hash maps
have what the tables have, and what `operator[]` adds counts as not there.
`Remaining`: the segments a feature still has to walk are the file's, but for
indices the tables lack, which `ValidateHashmaps` may have made 0 (`Matches`);
`ListRight`: its list has exactly the elements of the segments it has walked.
`Waiting`: a feature with segments left is still to be visited, because each is
filed once (`FeaturesFiled`) and the walk goes over every list (`WalkVisits`).
`EdgesCopied` and `Holding` say where the points of an edge and of a connector
are: a connector's are in `pairs` until it is copied, in the buffer from then on,
and the same two points (`P`) before and after. The hard part is `Shaped`, what
these two points are. A connector belongs to the feature that needed it first,
and is used by others that may take the edge the other way. If the edge joins two
nodes, the key, a node and an edge, tells the end of the edge, whatever the
direction. If the edge is a *ring*, it does not, and the connector of one feature
may be to the end that another begins with; but then both connectors of the ring
were made by one segment, in one direction, and the two draw the same two lines
whichever way the ring is taken (`SegmentDrawn`). So invariance needs that on a
ring the two connectors agree, which is what `StartsAt` and `EndsAt` add.
`ExtendedShape` keeps it over a segment, `CopyEdgeDraw` and `CopyConnectorsDraw`
over the copies, where `DuoAt` says at which place of the flattened pairs each
one is and `OrderCovers` that every connector has a place.

*The contours.* `ChainIsOneContour` needs the order of a list as well as what is
in it. `Led`, a part of `DrawInv`, says that the list of a feature whose segments
follow one another is a `Route` from its first node to the last it has walked to:
each element, one way round or the other, begins where the one before it ended.
`SegmentRoute` shows it of one segment, where a ring again needs the two
connectors to agree, `RouteGoesOn` of a segment added to a list, and `RouteStays`
that a connector made later changes none of it. `OneContour` is about the fold of
`buildExtendedGeom` alone: of any sequences of points that lead on from each other
it makes one contour, because each is turned the way that the end of the one
before it says (`OnTheWay`), also where an element begins and ends at one point.
Its lines are those of the elements; the joints, between a point and itself, are
no lines, so the property counts those with two ends (`Real`).

*Licences.* `Kept` holds with and without a window: what was accepted in this
session is in `shas`; a saved flag is still set in memory; a dialog has the hash
of its set's text; an answer finds its entry. It gives `NotAskedAgain`.
`Agreed` needs `CanvasAtStart`: nothing gets into `shas` but by an answer; a set
flag is true; and a processed set that no dialog waits for has its licence
accepted, unless all charts are closed. A set is marked as processed before its
dialog is answered, hence the exception, and hence that of
`AcceptedBeforeOpened`.

*Only model-checked.* The liveness properties `PanelComesBack` and `InitReturns`,
which are beyond the prover, since it does neither fairness nor `ENABLED`. Every
invariant that a passing run checks is proved.

## Not modelled

- *Drawing, projection, regions* (`georef.cpp`, `cutil.cpp`, `viewport.cpp`, the
  tile caches, `s52plib` but for line priorities): floating-point code, whose
  mistakes are not of the kind a finite model shows.
- *Text and look*: dialogs, the message log, sorting and thumbnails of the
  panel, chart-information texts, preferences pages, the toolbar.
- *The decryption server* (`libs/oeserverd`): a prebuilt executable, external.
- *Windows, macOS and Android variants*: pipes, sockets, the job object, the
  platform calls of `androidSupport.cpp`. Every model is of the Linux build.
- *Answers without a file list* (`ochartShop.cpp:2573`): such an answer clears
  the tasks, and the chain records the edition with nothing installed.
- *Class registrar, install directories*: tables and paths read once at start.
- *Vendored libraries* (`libs`): third-party code. They, with the OpenGL
  headers and the drawing code, are by far most of the lines of the repository,
  which is why the models, that cover the plugin's own control, map only a few
  hundredths of it.

## Plan

Done: the install chain and its proofs; registry and slots; editions; chart
files and key lists; key maps and validator; server, stream and reader; line
geometry and priorities; licences.

Next, in this order:

1. Answers without a file list in `InstallChain` and `ChartFiles`.
2. The chart-information lists of the shell, beside the licences.
3. Object geometry: areas and their tessellation tables, point features.

## Running

    tlc -config InstallStore.cfg MCInstallChain
    tlc -config InstallTwoCharts.cfg MCInstallChain
    tlc -config InstallFaults.cfg MCInstallChain
    tlc -config InstallTwoTasks.cfg MCInstallChain
    tlc -config ShopSlots.cfg ShopRegistry
    tlc -config ShopRelogin.cfg ShopRegistry
    tlc -config Edition.cfg Edition
    tlc -config ChartFiles.cfg ChartFiles
    tlc -config Validator.cfg MCValidator
    tlc -config Senc.cfg MCSencReader
    tlc -config Lines.cfg MCLines
    tlc -config Eula.cfg Eula

    for m in *_proofs.tla; do tlapm $m; done
