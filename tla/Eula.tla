-------------------------------- MODULE Eula --------------------------------
(***************************************************************************)
(* The licences of chart sets (o-charts_pi.cpp).  Chartinfo.txt of a set   *)
(* names an EULA file and says whether it must be shown never, once, or    *)
(* always, that is once per session.  processChartinfo, which every Init   *)
(* of a chart calls first, shows it if it must be; the plugin shows those  *)
(* of the last session's sets when it starts, and the shop considers all   *)
(* sets again after a refresh or an installation.  Acceptance is kept with *)
(* the configuration, and by the text's hash for the session; one refusal  *)
(* closes all charts until the next start.                                 *)
(*                                                                         *)
(* A dialog is modal, but the event loop runs below it, and charts may be  *)
(* opened from there.                                                      *)
(*                                                                         *)
(* The code lets charts of a set through without a question if the set has *)
(* no Chartinfo.txt, or the EULA file that it names is not there.  Neither *)
(* is modelled: here a set that is there has its EULA file, and its        *)
(* Chartinfo.txt is written before it is looked at.                        *)
(***************************************************************************)
EXTENDS Naturals, Sequences

CONSTANTS Sets,          \* chart set directories
          Texts,         \* licence texts, for their hashes
          NoText,        \* the hash of a file that is not there
          Policies,      \* "never", "once", "always": those considered
          MaxDialogs,    \* bound: dialogs open at a time
          CanvasAtStart, \* is there a window when the plugin is made?
          Nested,        \* may charts be opened while a dialog is open?
          Revises        \* may a new edition bring another licence?

ASSUME EulaAssumption ==
  /\ NoText \notin Texts /\ Policies \subseteq {"never", "once", "always"}
  /\ MaxDialogs \in Nat /\ {CanvasAtStart, Nested, Revises} \subseteq BOOLEAN

VARIABLES dir,       \* set -> its directory, as far as it matters here
          array,     \* g_EULAArray: set -> the entry of its file
          shas,      \* g_EULAShaArray
          processed, \* g_ChartInfoArray
          rejected,  \* g_bEULA_Rejected
          config,    \* the entries saved in the configuration file
          dialogs,   \* the dialogs open, the uppermost first
          job,       \* the loop over entries or sets that is under way
          agreed,    \* texts the user has ever accepted, and in this session
          agreedNow,
          revised    \* sets whose licence changed after it was considered

shown == <<array, shas, dialogs, agreed, agreedNow>>
vars == <<dir, shown, processed, rejected, config, job, revised>>

NoJob == [in |-> "none", left |-> {}]
Empty == [i \in {} |-> FALSE]
Entry(p) == [policy |-> p, once |-> FALSE, session |-> FALSE]

\* The hash of the file an entry is kept for.
Sha(s) == IF dir[s].there THEN dir[s].text ELSE NoText

Absent(t, p) == [there |-> FALSE, info |-> "none", text |-> t, policy |-> p]

Init ==
  /\ \E t \in [Sets -> Texts], p \in [Sets -> Policies] :
       dir = [s \in Sets |-> Absent(t[s], p[s])]
  /\ array = Empty /\ shas = {} /\ processed = {} /\ rejected = FALSE
  /\ config = Empty /\ dialogs = <<>> /\ job = NoJob
  /\ agreed = {} /\ agreedNow = {} /\ revised = {}

(***************************************************************************)
(* ShowEULA: what was accepted in this session is not shown again.         *)
(***************************************************************************)
Knows(s) == Sha(s) \in shas
Ask(s, by) == dialogs' = <<[set |-> s, by |-> by, sha |-> Sha(s)]>> \o dialogs
CanAsk == Len(dialogs) < MaxDialogs

\* Without a window the answer is yes.
TakesAsAccepted(s) == shas' = shas \cup {Sha(s)}

(***************************************************************************)
(* The start of the plugin: LoadConfig, then ShowAlwaysEULAs.              *)
(***************************************************************************)
\* Bug: what was accepted is not read again.
LoadConfigAnew(saved) == [s \in DOMAIN saved |-> Entry(saved[s].policy)]
LoadConfig(saved) ==
  [s \in DOMAIN saved |-> [Entry(saved[s].policy) EXCEPT !.once = saved[s].once]]
SaveConfig == [s \in DOMAIN array |-> [policy |-> array[s].policy, once |-> array[s].once]]
Loop(in, sets) == IF sets = {} THEN NoJob ELSE [in |-> in, left |-> sets]

StartsFrom(saved) ==
  /\ config' = saved /\ array' = LoadConfig(saved)
  /\ job' = Loop("start", {s \in DOMAIN saved : saved[s].policy = "always"})
  /\ shas' = {} /\ processed' = {} /\ rejected' = FALSE /\ dialogs' = <<>>
  /\ agreedNow' = {}
  /\ UNCHANGED <<dir, agreed, revised>>

Quit == dialogs = <<>> /\ job = NoJob /\ StartsFrom(SaveConfig)
Crash == StartsFrom(config)

\* Also when the preferences are left with OK.
Preferences == /\ dialogs = <<>> /\ job = NoJob
               /\ config' = SaveConfig
               /\ UNCHANGED <<dir, shown, processed, rejected, job, revised>>

ShowAlwaysEULAs(s) ==
  /\ job.in = "start" /\ dialogs = <<>> /\ s \in job.left
  /\ job' = Loop("start", job.left \ {s})
  /\ \/ Knows(s) /\ UNCHANGED <<shas, dialogs>>
     \/ ~Knows(s) /\ CanvasAtStart /\ CanAsk /\ Ask(s, "start") /\ UNCHANGED shas
     \/ ~Knows(s) /\ ~CanvasAtStart /\ TakesAsAccepted(s) /\ UNCHANGED dialogs
  /\ UNCHANGED <<dir, array, agreed, agreedNow, processed, rejected, config, revised>>

(***************************************************************************)
(* CreateChartInfoFile, from the key list and the files of the set, and    *)
(* processChartinfo, for an Init or for the shop.                          *)
(***************************************************************************)
Info(s) == IF dir[s].info = "none" THEN dir[s].policy ELSE dir[s].info
CreateChartInfoFile(s, info) == dir' = [dir EXCEPT ![s].info = info]

\* An entry keeps the policy it was made with.
Considered(s, info) == IF s \in DOMAIN array THEN array[s] ELSE Entry(info)
Required(e) == \/ e.policy = "once" /\ ~e.once        \* once per lifetime
               \/ e.policy = "always" /\ ~e.session   \* once per session
MustShow(s, info) == s \notin processed /\ Required(Considered(s, info))

\* Bug: an entry counts as shown when it is made.
EnterShown(s, info) == [x \in DOMAIN array \cup {s} |->
  IF x = s THEN [Considered(s, info) EXCEPT !.once = TRUE] ELSE array[x]]
Enter(s, info) == [x \in DOMAIN array \cup {s} |-> Considered(x, info)]
Shown(a, s) == [a EXCEPT ![s].once = TRUE, ![s].session = TRUE]

\* The EULA need not be shown, or its text was accepted in this session.
Passes(s, info) ==
  /\ MustShow(s, info) => Knows(s)
  /\ processed' = processed \cup {s}
  /\ array' = IF s \in processed THEN array
              ELSE IF MustShow(s, info) THEN Shown(Enter(s, info), s) ELSE Enter(s, info)
  /\ UNCHANGED <<shas, dialogs>>

\* It is asked for, and the caller waits.
Asks(s, info, by) ==
  /\ MustShow(s, info) /\ ~Knows(s) /\ CanAsk
  /\ processed' = processed \cup {s}
  /\ array' = Enter(s, info)
  /\ Ask(s, by)
  /\ UNCHANGED shas

(***************************************************************************)
(* A chart is opened: Init of any kind of chart.                           *)
(***************************************************************************)
MayOpen == \/ dialogs = <<>> /\ job = NoJob
           \/ Nested /\ dialogs # <<>> /\ job.in # "start" /\ Head(dialogs).by # "start"

CanInit(s) == MayOpen /\ dir[s].there /\ ~rejected /\ CreateChartInfoFile(s, Info(s))
OpenChart(s) ==
  /\ CanInit(s) /\ Passes(s, Info(s))
  /\ UNCHANGED <<agreed, agreedNow, rejected, config, job, revised>>
OpenChartAsks(s) ==
  /\ CanInit(s) /\ Asks(s, Info(s), "init")
  /\ UNCHANGED <<agreed, agreedNow, rejected, config, job, revised>>

(***************************************************************************)
(* UpdateChartInfoFiles, at the end of a refresh or an installation: every *)
(* installed set has its Chartinfo.txt written and processed anew.         *)
(***************************************************************************)
UpdateChartInfoFiles(d) == /\ processed' = {}
                           /\ job' = Loop("update", {s \in Sets : d[s].there})
ClickUpdate ==
  /\ dialogs = <<>> /\ job = NoJob
  /\ UpdateChartInfoFiles(dir)
  /\ UNCHANGED <<dir, shown, rejected, config, revised>>

UpdateInfo(s) ==
  /\ job.in = "update" /\ dialogs = <<>> /\ s \in job.left
  /\ job' = Loop("update", job.left \ {s})
  /\ IF dir[s].there THEN CreateChartInfoFile(s, dir[s].policy) ELSE UNCHANGED dir
  /\ IF rejected \/ ~dir[s].there
     THEN UNCHANGED <<array, shas, dialogs, processed>>
     ELSE Passes(s, dir[s].policy) \/ Asks(s, dir[s].policy, "update")
  /\ UNCHANGED <<agreed, agreedNow, rejected, config, revised>>

(***************************************************************************)
(* The user answers; a file that cannot be read cannot be accepted.        *)
(***************************************************************************)
Top == Head(dialogs)
Answer == dialogs # <<>> /\ dialogs' = Tail(dialogs)

\* Bug: the hash is not kept.
RemembersNothing(sha) == shas' = shas
Remembers(sha) == shas' = shas \cup {sha}
Accept ==
  /\ Answer /\ Top.sha # NoText
  /\ Remembers(Top.sha)
  /\ agreed' = agreed \cup {Top.sha} /\ agreedNow' = agreedNow \cup {Top.sha}
  /\ array' = IF Top.by = "start" THEN array ELSE Shown(array, Top.set)
  /\ UNCHANGED <<dir, processed, rejected, config, job, revised>>

Reject ==
  /\ Answer
  /\ rejected' = TRUE
  /\ job' = IF Top.by = "start" THEN NoJob ELSE job
  /\ UNCHANGED <<dir, array, shas, agreed, agreedNow, processed, config, revised>>

(***************************************************************************)
(* What else happens to the directories: an installation, by which the     *)
(* licence may change, and the user, who deletes a set.                    *)
(***************************************************************************)
Install(s) ==
  /\ dialogs = <<>> /\ job = NoJob
  /\ \E t \in Texts, p \in Policies, i \in {"none", dir[s].info} :
       /\ Revises \/ (t = dir[s].text /\ p = dir[s].policy)
       /\ dir' = [dir EXCEPT ![s] = [there |-> TRUE, info |-> i, text |-> t, policy |-> p]]
       /\ revised' = IF s \in DOMAIN array /\ t # dir[s].text
                     THEN revised \cup {s} ELSE revised
  /\ UpdateChartInfoFiles(dir')
  /\ UNCHANGED <<shown, rejected, config>>

Delete(s) ==
  /\ dir[s].there /\ dialogs = <<>> /\ job = NoJob
  /\ dir' = [dir EXCEPT ![s] = Absent(dir[s].text, dir[s].policy)]
  /\ UNCHANGED <<shown, processed, rejected, config, job, revised>>

Next ==
  \/ Quit \/ Crash \/ Preferences \/ ClickUpdate \/ Accept \/ Reject
  \/ \E s \in Sets : \/ ShowAlwaysEULAs(s) \/ OpenChart(s) \/ OpenChartAsks(s)
                     \/ UpdateInfo(s) \/ Install(s) \/ Delete(s)

Spec == Init /\ [][Next]_vars

(***************************************************************************)
(* Properties.                                                             *)
(***************************************************************************)
Entries == [policy : Policies, once : BOOLEAN, session : BOOLEAN]
Saved == [policy : Policies, once : BOOLEAN]

Dialogs == [set : DOMAIN array, by : {"start", "init", "update"},
            sha : Texts \cup {NoText}]

\* Every variable keeps its type; an answer finds the entry it is for.
TypeOK ==
  /\ dir \in [Sets -> [there : BOOLEAN, info : {"none"} \cup Policies,
                       text : Texts, policy : Policies]]
  /\ DOMAIN array \subseteq Sets /\ array \in [DOMAIN array -> Entries]
  /\ DOMAIN config \subseteq DOMAIN array /\ config \in [DOMAIN config -> Saved]
  /\ shas \subseteq Texts \cup {NoText} /\ agreed \subseteq Texts /\ agreedNow \subseteq Texts
  /\ processed \subseteq Sets /\ revised \subseteq Sets /\ rejected \in BOOLEAN
  /\ job \in [in : {"none", "start", "update"}, left : SUBSET Sets]
  /\ dialogs \in Seq(Dialogs)

Waiting(s) == \E i \in 1..Len(dialogs) : dialogs[i].set = s

\* processChartinfo would let an Init of a chart of s go on.
LetsThrough(s) ==
  /\ dir[s].there /\ ~rejected
  /\ MustShow(s, Info(s)) => Knows(s)

Accepted(s) == CASE Info(s) = "once" -> dir[s].text \in agreed
                 [] Info(s) = "always" -> dir[s].text \in agreedNow
                 [] OTHER -> TRUE
Changed(s) == s \in revised \/ Considered(s, Info(s)).policy # Info(s)

\* No chart is opened before the user has accepted the licence its Chartinfo
\* names: at some time if it is to be shown once, in this session if it is to
\* be shown always; through refusals, crashes, sets that share a licence, and
\* sessions in which it was not asked for.  Excepted are licences that changed
\* after they were considered, and charts opened from below the dialog that
\* asks for their set.
AcceptedBeforeOpened ==
  \A s \in Sets : LetsThrough(s) /\ ~Changed(s) /\ ~Waiting(s) => Accepted(s)

\* A licence that was accepted is not asked for again: none in the session in
\* which its text was accepted, whichever set or start it was asked for, and
\* none that is to be shown once and was saved as shown.
AskedOnce ==
  [][Len(dialogs') > Len(dialogs) =>
       LET d == Head(dialogs') IN
         /\ d.sha \notin agreedNow
         /\ array'[d.set].policy = "once" /\ d.set \in DOMAIN config
              => ~config[d.set].once]_vars

\* What is not there any more is not asked for.
OnlyAsksForWhatIsThere ==
  [][Len(dialogs') > Len(dialogs) => Head(dialogs').sha # NoText]_vars

\* No chart is opened from below the dialog that asks for its licence.
WaitsForAnswer == \A s \in Sets : Waiting(s) => ~(MayOpen /\ LetsThrough(s))

\* The licence as it is published now was accepted.
AcceptedAsPublished ==
  \A s \in Sets : LetsThrough(s) /\ ~Waiting(s) => Accepted(s)
=============================================================================
