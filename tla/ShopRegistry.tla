---------------------------- MODULE ShopRegistry ----------------------------
(***************************************************************************)
(* The shop's list of charts (ochartShop.cpp): the refresh that merges the *)
(* server's answer into it, the login retried inside the refresh, the      *)
(* configuration file it is saved in and loaded from, and the first half   *)
(* of an installation: system name, fingerprint, assignment of a slot, up  *)
(* to the slot that InstallChain then downloads and installs.              *)
(*                                                                         *)
(* Handlers run one at a time; `at` is the section of the handler that     *)
(* runs next, and the server, the dongle and crashes come in between.      *)
(***************************************************************************)
EXTENDS Naturals, FiniteSets, SequencesExt

CONSTANTS Charts,     \* chartsets of the account (order and chart id)
          Quantities, \* how many licences of each chartset were bought
          Rooms,      \* numbers of machines that a licence may be for
          Others,     \* names of other machines of the account
          Dongles,    \* which names are those of dongles
          Failures,   \* how an answer can fail: "lost", "error"
          MaxUuid,    \* bound: slots the server ever assigns
          MaxKeys,    \* bound: login keys the server ever issues
          Withdraws,  \* may the server take a chartset off the account?
          Resets,     \* may the user reset the system name?
          Unplugs     \* may the user pull the dongle out?

Me == "pc"            \* the name of this machine
Dongle == "sgl"       \* the name of the dongle that may be plugged in
None == ""
Names == Others \cup {Me, Dongle}

ASSUME ShopAssumption ==
  /\ Quantities \in Nat \ {0} /\ Rooms \subseteq Nat \ {0}
  /\ MaxUuid \in Nat /\ MaxKeys \in Nat \ {0} /\ {Withdraws, Resets, Unplugs} \subseteq BOOLEAN
  /\ Failures \subseteq {"lost", "error"}
  /\ Dongle \in Dongles /\ Me \notin Dongles /\ None \notin Dongles \cup Others
  /\ {Me, Dongle} \cap Others = {}

VARIABLES list,      \* ChartVector: an entry per chartset, or NoEntry
          updatedOK, \* g_chartListUpdatedOK
          lastUuid,  \* g_lastSlotUUID
          sysName, dongName, key,  \* g_systemName, g_dongleName, g_loginKey
          config,    \* the flushed configuration file
          at,        \* the handler section that runs next
          job,       \* the slot an installation runs for (gtargetSlot)
          server,    \* what the shop server knows
          plugged,   \* whether the dongle is plugged in
          disk       \* <<chartset, name>>: installed for that name

shopVars == <<list, updatedOK, lastUuid>>
names == <<sysName, dongName, key>>
world == <<server, plugged>>
vars == <<shopVars, names, config, at, job, world, disk>>

NoEntry == [none |-> TRUE]
NoActive == [q |-> 0, s |-> 0]
NoJob == [chart |-> "none"]
Idle == [in |-> "idle"]

(***************************************************************************)
(* Slots of an entry: qtys is quantityList, a sequence of [id, slots].     *)
(***************************************************************************)
SlotsOf(e) ==
  UNION {{i} \X (1..Len(e.qtys[i].slots)) : i \in 1..Len(e.qtys)}
Slot(e, p) == e.qtys[p[1]].slots[p[2]]

\* GetSlotAssignedToSystem and ...ToInstalledDongle: the first, in list order.
First(e, P) == CHOOSE p \in P : \A r \in P :
                 p[1] < r[1] \/ (p[1] = r[1] /\ p[2] <= r[2])
AssignedTo(e, name) ==
  IF name = None THEN {} ELSE {p \in SlotsOf(e) : Slot(e, p).system = name}
AnyDongle(e) == {p \in SlotsOf(e) : Slot(e, p).system \in Dongles}
WithUuid(e, u) == {p \in SlotsOf(e) : Slot(e, p).uuid = u}

\* GetActiveSlot: the indices are used unchecked.
ActiveInRange(e) ==
  e.active = NoActive \/
    \E i \in 1..Len(e.qtys) : /\ e.qtys[i].id = e.active.q
                              /\ e.active.s \in 1..Len(e.qtys[i].slots)
ActiveSlot(e) ==
  e.qtys[CHOOSE i \in 1..Len(e.qtys) : e.qtys[i].id = e.active.q].slots[e.active.s]

\* getChartStatus, and the active slot it leaves behind: an early return
\* leaves the last one.
FullyAssigned(e) == Cardinality(SlotsOf(e)) >= Len(e.qtys) * e.max
MineSystemFirst(e, dong, sys) ==
  First(e, IF AssignedTo(e, sys) # {} THEN AssignedTo(e, sys) ELSE AssignedTo(e, dong))
Mine(e, dong, sys) ==
  First(e, IF AssignedTo(e, dong) # {} THEN AssignedTo(e, dong) ELSE AssignedTo(e, sys))
getChartStatus(e, dong, sys, ok) ==
  LET mine == AssignedTo(e, dong)
      p == Mine(e, dong, sys)
  IN CASE ~ok -> [status |-> "refresh", active |-> e.active]
       [] ok /\ e.expired -> [status |-> "expired", active |-> e.active]
       [] /\ ok /\ ~e.expired /\ FullyAssigned(e) /\ AssignedTo(e, sys) = {}
          /\ ~(dong # None /\ (mine # {} \/ AnyDongle(e) # {}))
          -> [status |-> "noslot", active |-> e.active]
       [] OTHER ->
          IF mine = {} /\ AssignedTo(e, sys) = {}
          THEN [status |-> "purchased", active |-> e.active]
          ELSE [status |-> IF Slot(e, p).inst THEN "installed" ELSE "requestable",
                active |-> [q |-> e.qtys[p[1]].id, s |-> p[2]]]

Restatus(l, dong, sys, ok) ==
  [c \in Charts |-> IF l[c] = NoEntry THEN NoEntry
     ELSE [l[c] EXCEPT !.active = getChartStatus(l[c], dong, sys, ok).active]]

(***************************************************************************)
(* saveShopConfig and loadShopConfig.                                      *)
(***************************************************************************)
SavedSlots(e) ==
  FlattenSeq([i \in 1..Len(e.qtys) |-> [j \in 1..Len(e.qtys[i].slots) |->
    LET s == e.qtys[i].slots[j]
    IN [q |-> e.qtys[i].id, uuid |-> s.uuid, system |-> s.system, inst |-> s.inst]]])

saveShopConfig(l, k, sys) ==
  [key |-> k, name |-> sys, charts |->
    [c \in Charts |-> IF l[c] = NoEntry THEN NoEntry ELSE [slots |-> SavedSlots(l[c])]]]

FindQuantityIndex(e, q) == {i \in 1..Len(e.qtys) : e.qtys[i].id = q}
NewEntry == [ok |-> FALSE, expired |-> FALSE, max |-> 0, qtys |-> <<>>,
             active |-> NoActive]
LoadSlot(e, s) ==
  LET slot == [uuid |-> s.uuid, system |-> s.system, inst |-> s.inst]
      at_q == FindQuantityIndex(e, s.q)
  IN CASE at_q = {} ->
            [e EXCEPT !.qtys = Append(@, [id |-> s.q, slots |-> <<slot>>])]
       [] at_q # {} /\ WithUuid(e, s.uuid) = {} ->
            LET i == CHOOSE n \in at_q : \A m \in at_q : n <= m
            IN [e EXCEPT !.qtys[i].slots = Append(@, slot)]
       [] OTHER -> e

Loaded(e, slots) == FoldLeft(LoadSlot, e, slots)

loadShopConfig(l) ==
  [c \in Charts |-> IF config.charts[c] = NoEntry THEN l[c]
     ELSE Loaded(IF l[c] = NoEntry THEN NewEntry ELSE l[c], config.charts[c].slots)]

(***************************************************************************)
(* ProcessResponse for the list, and getChartList's pruning.               *)
(***************************************************************************)
Published(c) == [i \in 1..Quantities |-> [id |-> i, slots |-> server.slots[c][i]]]

\* itemChart::Update: a slot the entry already has, by UUID, keeps its record.
KeptNever(e, s) == [uuid |-> s.uuid, system |-> s.system, inst |-> FALSE]
KeptAny(e, s) ==
  [uuid |-> s.uuid, system |-> s.system,
   inst |-> e # NoEntry /\ \E p \in SlotsOf(e) : Slot(e, p).inst]
Kept(e, s) ==
  LET old == IF e = NoEntry THEN {} ELSE WithUuid(e, s.uuid)
  IN [uuid |-> s.uuid, system |-> s.system,
      inst |-> old # {} /\ Slot(e, First(e, old)).inst]
Update(e, c) ==
  [ok |-> TRUE, expired |-> c \in server.expired, max |-> server.room[c],
   qtys |-> [i \in 1..Quantities |->
     [id |-> i, slots |-> [j \in 1..Len(Published(c)[i].slots) |->
                             Kept(e, Published(c)[i].slots[j])]]],
   active |-> IF e = NoEntry THEN NoActive ELSE e.active]

ProcessResponse(l) ==
  [c \in Charts |-> IF c \in server.listed THEN Update(l[c], c) ELSE l[c]]
Prune(l) ==
  [c \in Charts |-> IF l[c] # NoEntry /\ l[c].ok THEN l[c] ELSE NoEntry]

Init ==
  /\ server \in [slots : {[c \in Charts |-> [i \in 1..Quantities |-> <<>>]]},
                 listed : {Charts}, expired : {{}}, key : {1}, named : BOOLEAN,
                 uuids : {0}, room : [Charts -> Rooms]]
  /\ plugged \in BOOLEAN
  /\ list = [c \in Charts |-> NoEntry] /\ updatedOK = FALSE /\ lastUuid = 0
  /\ sysName = None /\ key = 0
  /\ dongName = IF plugged THEN Dongle ELSE None
  /\ config = saveShopConfig(list, key, sysName)
  /\ at = Idle /\ job = NoJob /\ disk = {}

(***************************************************************************)
(* The server, its other users, and the dongle.                            *)
(***************************************************************************)
\* A licence of c is assigned to machine m: refused ("20", "already assigned
\* to this machine") if it has one, refused if the licence is used up.
Assigns(c, i, m) ==
  /\ server.uuids < MaxUuid
  /\ Len(server.slots[c][i]) < server.room[c]
  /\ \A n \in 1..Quantities : \A j \in 1..Len(server.slots[c][n]) :
       server.slots[c][n][j].system # m
  /\ server' = [server EXCEPT !.uuids = @ + 1,
                  !.slots[c][i] = Append(@, [uuid |-> server.uuids + 1, system |-> m])]

OtherAssigns(c, i, m) ==
  /\ Assigns(c, i, m)
  /\ UNCHANGED <<shopVars, names, config, at, job, plugged, disk>>

Withdraw(c) ==
  /\ Withdraws /\ c \in server.listed
  /\ server' = [server EXCEPT !.listed = @ \ {c}]
  /\ UNCHANGED <<shopVars, names, config, at, job, plugged, disk>>

Expire(c) ==
  /\ c \notin server.expired
  /\ server' = [server EXCEPT !.expired = @ \cup {c}]
  /\ UNCHANGED <<shopVars, names, config, at, job, plugged, disk>>

RevokeKey ==
  /\ server.key < MaxKeys
  /\ server' = [server EXCEPT !.key = @ + 1]
  /\ UNCHANGED <<shopVars, names, config, at, job, plugged, disk>>

PlugDongle ==
  /\ plugged => Unplugs
  /\ plugged' = ~plugged
  /\ UNCHANGED <<shopVars, names, config, at, job, server, disk>>

World == \/ RevokeKey \/ PlugDongle
         \/ \E c \in Charts : \/ Withdraw(c) \/ Expire(c)
                              \/ \E i \in 1..Quantities, m \in Others : OtherAssigns(c, i, m)

(***************************************************************************)
(* OnButtonUpdate: log in, ask for the list, log in again if the key was   *)
(* refused and ask once more.                                              *)
(***************************************************************************)
ClickUpdate ==
  /\ at = Idle
  /\ at' = [in |-> IF key = 0 THEN "login" ELSE "identify"]
  /\ UNCHANGED <<shopVars, names, config, job, world, disk>>

LoginOK ==
  /\ at.in \in {"login", "relogin"}
  /\ key' = server.key
  /\ config' = saveShopConfig(list, key', sysName)
  /\ at' = [in |-> IF at.in = "login" THEN "identify" ELSE "list again"]
  /\ UNCHANGED <<shopVars, sysName, dongName, job, world, disk>>

LoginFails ==
  /\ at.in \in {"login", "relogin"}
  /\ at' = Idle
  /\ UNCHANGED <<shopVars, names, config, job, world, disk>>

\* Look for the dongle; without one and without a name, ask the shop whether
\* it knows this machine (GetShopNameFromFPR).
Identify ==
  /\ at.in = "identify"
  /\ dongName' = IF plugged THEN Dongle ELSE None
  /\ sysName' \in {sysName} \cup
       IF ~plugged /\ sysName = None /\ server.named /\ key = server.key
       THEN {Me} ELSE {}
  /\ at' = [in |-> "list"]
  /\ UNCHANGED <<shopVars, key, config, job, world, disk>>

Asking == at.in \in {"list", "list again"}

ListAnswered ==
  /\ Asking /\ key = server.key
  /\ list' = Prune(ProcessResponse(list))
  /\ at' = [in |-> "listed"]
  /\ UNCHANGED <<updatedOK, lastUuid, names, config, job, world, disk>>

\* "4", "5", "6": the list is pruned all the same.
ListRefused ==
  /\ Asking /\ key # server.key
  /\ list' = Prune(list)
  /\ at' = IF at.in = "list" THEN [in |-> "relogin"] ELSE Idle
  /\ UNCHANGED <<updatedOK, lastUuid, names, config, job, world, disk>>

\* A server in maintenance, an empty body, or no XML: pruned as well.
ListError ==
  /\ Asking /\ "error" \in Failures
  /\ list' = Prune(list)
  /\ at' = Idle
  /\ UNCHANGED <<updatedOK, lastUuid, names, config, job, world, disk>>

ListLost ==
  /\ Asking /\ "lost" \in Failures
  /\ at' = Idle
  /\ UNCHANGED <<shopVars, names, config, job, world, disk>>

\* UpdateChartList and UpdateChartInfoFiles compute every chart's status.
UpdateDone ==
  /\ at.in = "listed"
  /\ updatedOK' = TRUE
  /\ list' = Restatus(list, dongName, sysName, TRUE)
  /\ config' = saveShopConfig(list', key, sysName)
  /\ at' = Idle
  /\ UNCHANGED <<lastUuid, names, job, world, disk>>

(***************************************************************************)
(* OnButtonInstall, up to the slot.                                        *)
(***************************************************************************)
Status(c) == getChartStatus(list[c], dongName, sysName, updatedOK).status

\* The button is shown for these.
ClickInstall(c) ==
  /\ at = Idle /\ job = NoJob /\ list[c] # NoEntry
  /\ Status(c) \in {"requestable", "purchased", "installed"}
  /\ at' = [in |-> "name", chart |-> c]
  /\ UNCHANGED <<shopVars, names, config, job, world, disk>>

\* GetAndValidateSystemName.
NameKnown ==
  /\ at.in = "name" /\ (sysName # None \/ dongName # None)
  /\ at' = [at EXCEPT !.in = "choose"]
  /\ UNCHANGED <<shopVars, names, config, job, world, disk>>

NameFound ==
  /\ at.in = "name" /\ sysName = None /\ dongName = None
  /\ dongName' = IF plugged THEN Dongle ELSE None
  /\ sysName' \in {None} \cup IF server.named /\ key = server.key THEN {Me} ELSE {}
  /\ sysName' # None \/ dongName' # None
  /\ at' = [at EXCEPT !.in = "choose"]
  /\ UNCHANGED <<shopVars, key, config, job, world, disk>>

\* The user types a name and its fingerprint is uploaded, or gives up; if the
\* upload fails the blank name is saved, and the installation goes on.
NameTyped ==
  /\ at.in = "name" /\ sysName = None /\ dongName = None /\ ~plugged
  /\ \/ /\ key = server.key
        /\ sysName' = Me
        /\ server' = [server EXCEPT !.named = TRUE]
        /\ UNCHANGED config
     \/ /\ "lost" \in Failures \/ key # server.key
        /\ sysName' = None
        /\ config' = saveShopConfig(list, key, None)
        /\ UNCHANGED server
     \/ UNCHANGED <<sysName, config, server>>
  /\ at' = [at EXCEPT !.in = "choose"]
  /\ UNCHANGED <<shopVars, dongName, key, job, plugged, disk>>

\* The dongle is looked for again, and which name to install for is chosen:
\* that of the installed slot, else the dongle's, else this machine's.
Choose(dong, sys, s) ==
  /\ dongName' = dong /\ sysName' = sys
  /\ list' = [list EXCEPT ![at.chart].active = s.active]
  /\ at' = [in |-> "upload", chart |-> at.chart, late |-> sys # sysName, name |->
            IF s.status = "installed"
            THEN IF AssignedTo(list[at.chart], dong) # {} THEN dong ELSE sys
            ELSE IF dong # None THEN dong ELSE sys]

ChooseName ==
  /\ at.in = "choose"
  /\ LET dong == IF plugged THEN Dongle ELSE None
         s == getChartStatus(list[at.chart], dong, sysName, updatedOK)
         nameless == s.status # "installed" /\ dong = None /\ sysName = None
     IN \/ ~nameless /\ Choose(dong, sysName, s) /\ UNCHANGED config
        \/ nameless /\ Choose(dong, Me, s) /\ UNCHANGED config
        \/ /\ nameless
           /\ dongName' = dong /\ at' = Idle
           /\ list' = [list EXCEPT ![at.chart].active = s.active]
           /\ config' = saveShopConfig(list', key, sysName)
           /\ UNCHANGED sysName
  /\ UNCHANGED <<updatedOK, lastUuid, key, job, world, disk>>

\* doUploadXFPR.
UploadOK ==
  /\ at.in = "upload" /\ key = server.key
  /\ at.name = Dongle => plugged
  /\ server' = [server EXCEPT !.named = @ \/ at.name = Me]
  /\ at' = [at EXCEPT !.in = "assign"]
  /\ UNCHANGED <<shopVars, names, config, job, plugged, disk>>

\* A lost answer is 99, a refusal 4 to 6, no dongle 1: all below 200, so the
\* name is cleared, and the blank one saved.
UploadFails ==
  /\ at.in = "upload"
  /\ \/ "lost" \in Failures \/ key # server.key \/ (at.name = Dongle /\ ~plugged)
  /\ IF at.name = Dongle
     THEN dongName' = None /\ UNCHANGED <<sysName, config>>
     ELSE /\ sysName' = None /\ UNCHANGED dongName
          /\ config' = saveShopConfig(list, key, None)
  /\ at' = Idle
  /\ UNCHANGED <<shopVars, key, job, world, disk>>

NeedAssign == AssignedTo(list[at.chart], at.name) = {}
Available(e) == {i \in 1..Len(e.qtys) : Len(e.qtys[i].slots) < e.max}

NoneAvailable ==
  /\ at.in = "assign" /\ NeedAssign /\ Available(list[at.chart]) = {}
  /\ at' = Idle
  /\ UNCHANGED <<shopVars, names, config, job, world, disk>>

\* doAssign: the answer names the new slot.
NewSlotLate(name) == [uuid |-> lastUuid, system |-> name, inst |-> FALSE]
NewSlot(name) == [uuid |-> lastUuid', system |-> name, inst |-> FALSE]
PastTheEnd(e, i) == [q |-> e.qtys[i].id, s |-> Len(e.qtys[i].slots) + 2]
LastAdded(e, i) == [q |-> e.qtys[i].id, s |-> Len(e.qtys[i].slots) + 1]
doAssign ==
  /\ at.in = "assign" /\ NeedAssign /\ key = server.key
  /\ LET c == at.chart
         free == Available(list[c])
         i == CHOOSE n \in free : \A m \in free : n <= m
     IN /\ free # {}
        /\ Assigns(c, list[c].qtys[i].id, at.name)
        /\ \/ /\ lastUuid' = server'.uuids
              /\ list' = [list EXCEPT
                   ![c].qtys[i].slots = Append(@, NewSlot(at.name)),
                   ![c].active = LastAdded(list[c], i)]
              /\ at' = [at EXCEPT !.in = "slot"]
           \/ /\ "lost" \in Failures        \* ... or is lost
              /\ at' = Idle
              /\ UNCHANGED <<list, lastUuid>>
  /\ UNCHANGED <<updatedOK, names, config, job, plugged, disk>>

\* The user declines, the server refuses, or the request is lost.
AssignFails ==
  /\ at.in = "assign" /\ NeedAssign
  /\ at' = Idle
  /\ UNCHANGED <<shopVars, names, config, job, world, disk>>

Assigned ==
  /\ at.in = "assign" /\ ~NeedAssign
  /\ at' = [at EXCEPT !.in = "slot"]
  /\ UNCHANGED <<shopVars, names, config, job, world, disk>>

\* The active slot is the one the installation runs for.
TakeSlot ==
  /\ at.in = "slot"
  /\ job' = IF list[at.chart].active = NoActive THEN NoJob
            ELSE [chart |-> at.chart, slot |-> ActiveSlot(list[at.chart]).uuid,
                  name |-> at.name, late |-> at.late]
  /\ at' = Idle
  /\ UNCHANGED <<shopVars, names, config, world, disk>>

\* The end of InstallChain: the record of the slot is set and saved.
InstallDone ==
  /\ at = Idle /\ job # NoJob
  /\ LET e == list[job.chart]
         p == IF e = NoEntry THEN {} ELSE WithUuid(e, job.slot)
     IN IF p = {} THEN UNCHANGED <<list, disk>>
        ELSE LET f == First(e, p) IN
               /\ list' = [list EXCEPT ![job.chart].qtys[f[1]].slots[f[2]].inst = TRUE]
               /\ disk' = disk \cup {<<job.chart, Slot(e, f).system>>}
  /\ config' = saveShopConfig(list', key, sysName)
  /\ job' = NoJob
  /\ UNCHANGED <<updatedOK, lastUuid, names, at, world>>

InstallFails ==
  /\ at = Idle /\ job # NoJob
  /\ job' = NoJob
  /\ UNCHANGED <<shopVars, names, config, at, world, disk>>

(***************************************************************************)
(* Preferences, the panel created again, and a restart.                    *)
(***************************************************************************)
ClearSystemName ==
  /\ Resets /\ at = Idle /\ sysName # None
  /\ sysName' = None
  /\ UNCHANGED <<shopVars, dongName, key, config, at, job, world, disk>>

ClearCredentials ==
  /\ at = Idle /\ key # 0
  /\ key' = 0
  /\ config' = saveShopConfig(list, 0, sysName)
  /\ UNCHANGED <<shopVars, sysName, dongName, at, job, world, disk>>

\* The constructor of shopPanel loads the file, over a list already there.
OpenPanel(l) ==
  /\ list' = loadShopConfig(l)
  /\ key' = config.key /\ sysName' = config.name
  /\ dongName' = IF plugged THEN Dongle ELSE None
  /\ config' = saveShopConfig(list', key', sysName')

ReopenPanel ==
  /\ at = Idle /\ job = NoJob
  /\ OpenPanel(list)
  /\ UNCHANGED <<updatedOK, lastUuid, at, job, world, disk>>

Restart ==
  /\ OpenPanel([c \in Charts |-> NoEntry])
  /\ updatedOK' = FALSE /\ lastUuid' = 0 /\ at' = Idle /\ job' = NoJob
  /\ UNCHANGED <<world, disk>>

Refresh == \/ ClickUpdate \/ LoginOK \/ LoginFails \/ Identify \/ ListAnswered
           \/ ListRefused \/ ListError \/ ListLost \/ UpdateDone
Install == \/ \E c \in Charts : ClickInstall(c)
           \/ NameKnown \/ NameFound \/ NameTyped \/ ChooseName \/ UploadOK
           \/ UploadFails \/ NoneAvailable \/ doAssign \/ AssignFails
           \/ Assigned \/ TakeSlot \/ InstallDone \/ InstallFails
Next == \/ Refresh \/ Install \/ World
        \/ ClearSystemName \/ ClearCredentials \/ ReopenPanel \/ Restart

Spec == Init /\ [][Next]_vars

(***************************************************************************)
(* Properties.                                                             *)
(***************************************************************************)
Entries == {c \in Charts : list[c] # NoEntry}

\* Every variable keeps its type.
TypeOK ==
  /\ updatedOK \in BOOLEAN /\ plugged \in BOOLEAN
  /\ lastUuid \in 0..MaxUuid /\ key \in 0..MaxKeys
  /\ sysName \in {None, Me} /\ dongName \in {None, Dongle}
  /\ disk \subseteq Charts \X Names
  /\ \A c \in Entries : \A p \in SlotsOf(list[c]) :
       Slot(list[c], p) \in [uuid : 1..MaxUuid, system : Names, inst : BOOLEAN]

JobSlotIsFor(name) ==
  \A p \in WithUuid(list[job.chart], job.slot) : Slot(list[job.chart], p).system = name

\* The slot that an installation runs for is assigned to the name whose
\* fingerprint was uploaded for it, whatever was plugged in or out, merged or
\* refreshed meanwhile, if that name was known when the slot was computed.
SlotIsForName == job # NoJob /\ ~job.late => JobSlotIsFor(job.name)

\* "Known assigned to me": the same, whenever the name was given.
KnownAssignedToMe == job # NoJob => JobSlotIsFor(job.name)

\* GetActiveSlot never reads past the lists, although merges replace them
\* under indices that an early return of getChartStatus left.
ActiveSlotExists == \A c \in Entries : ActiveInRange(list[c])

\* A UUID names one slot of the whole list (FindChartForSlotUUID relies on
\* it), and no chartset shows two slots of one machine, whatever answers
\* were lost, and however lists were merged.
SlotsAreDistinct ==
  \A c, d \in Entries : \A p \in SlotsOf(list[c]), r \in SlotsOf(list[d]) :
    /\ Slot(list[c], p).uuid = Slot(list[d], r).uuid => <<c, p>> = <<d, r>>
    /\ (c = d /\ Slot(list[c], p).system = Slot(list[c], r).system) => p = r

\* A record says "installed" only of what is installed.
RecordsAreTrue ==
  \A c \in Entries : \A p \in SlotsOf(list[c]) :
    Slot(list[c], p).inst => <<c, Slot(list[c], p).system>> \in disk

InstalledIn(slots, name) == \E i \in 1..Len(slots) : slots[i].system = name /\ slots[i].inst
Remembered(c, name) ==
  /\ list[c] # NoEntry /\ InstalledIn(SavedSlots(list[c]), name)
  /\ config.charts[c] # NoEntry /\ InstalledIn(config.charts[c].slots, name)

\* What was installed is not forgotten by the configuration file, as long as
\* the account has the chartset, although refreshes rewrite it ...
InstalledIsSaved ==
  \A d \in disk : d[1] \in server.listed =>
    config.charts[d[1]] # NoEntry /\ InstalledIn(config.charts[d[1]].slots, d[2])

\* ... nor in memory: neither refresh nor restart loses its record.
InstalledIsKnown ==
  \A d \in disk : d[1] \in server.listed => Remembered(d[1], d[2])

\* After a refresh the list holds only chartsets the server lists.
ListIsTheServers ==
  [][at.in = "list" /\ at'.in = "listed" =>
       {c \in Charts : list'[c] # NoEntry} \subseteq server.listed]_vars

\* Uploading the fingerprint of a machine whose name the shop knows does no
\* harm: this machine's name stays.
NoHarmDone ==
  [][at.in = "upload" /\ server.named /\ key = server.key => sysName' = sysName]_vars

\* What was installed stays recorded, in memory and in the file, whatever is
\* refreshed, assigned, reset, reopened or restarted: only the answer of a
\* refresh that fails may take it away.
OnlyRefusalsForget ==
  [][InstalledIsKnown => InstalledIsKnown' \/ ListRefused \/ ListError]_vars
=============================================================================
