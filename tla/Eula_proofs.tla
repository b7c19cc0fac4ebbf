---------------------------- MODULE Eula_proofs ----------------------------
(***************************************************************************)
(* Proofs about Eula: a licence that was accepted is not asked for again,  *)
(* and no chart is opened before its licence was accepted, for any sets    *)
(* and licence texts.                                                      *)
(*                                                                         *)
(* The argument.  An entry's flags are set only when its text is in        *)
(* g_EULAShaArray, or has just been accepted; with a window at the start,  *)
(* nothing gets into that array but by an answer.  A Chartinfo is marked   *)
(* processed before the answer is known, so what a processed set promises  *)
(* is said only of sets that no open dialog is waiting for: a refusal      *)
(* closes all charts, an acceptance makes the promise true.                *)
(***************************************************************************)
EXTENDS Eula, SequenceTheorems, TLAPS

\* What holds with and without a window.
Kept ==
  /\ TypeOK
  /\ agreedNow \subseteq shas
  /\ processed \subseteq DOMAIN array
  /\ \A s \in DOMAIN config : config[s].once => array[s].once
  /\ job.in = "start" => \A s \in job.left : s \in DOMAIN array /\ array[s].policy = "always"
  /\ \A i \in 1..Len(dialogs) : dialogs[i].sha = Sha(dialogs[i].set)

AcceptedAs(s, p) == /\ p = "once" => dir[s].text \in agreed
                    /\ p = "always" => dir[s].text \in agreedNow

\* What holds if there is a window whenever a EULA must be shown.
Agreed ==
  /\ shas \subseteq agreedNow /\ agreedNow \subseteq agreed
  /\ \A s \in DOMAIN array \ revised :
       /\ array[s].once => dir[s].text \in agreed
       /\ array[s].session => dir[s].text \in agreedNow
  /\ \A s \in processed \ revised :
       dir[s].there /\ ~rejected /\ ~Waiting(s) => AcceptedAs(s, array[s].policy)

(***************************************************************************)
(* Sequences of dialogs, entries and what a step does to them.             *)
(***************************************************************************)
LEMMA PushProps ==
  ASSUME NEW S, NEW q \in Seq(S), NEW d \in S
  PROVE  /\ <<d>> \o q \in Seq(S) /\ Len(<<d>> \o q) = Len(q) + 1
         /\ (<<d>> \o q)[1] = d /\ Head(<<d>> \o q) = d
         /\ \A i \in 1..Len(q) : (<<d>> \o q)[i + 1] = q[i]
<1>1. <<d>> \in Seq(S) /\ Len(<<d>>) = 1 /\ <<d>>[1] = d
  OBVIOUS
<1>2. Len(q) \in Nat
  OBVIOUS
<1> QED BY <1>1, <1>2, ConcatProperties

LEMMA PopProps ==
  ASSUME NEW S, NEW q \in Seq(S), q # <<>>
  PROVE  /\ Tail(q) \in Seq(S) /\ Len(q) \in Nat \ {0} /\ Len(Tail(q)) = Len(q) - 1
         /\ Head(q) \in S /\ Head(q) = q[1]
         /\ \A i \in 1..Len(Tail(q)) : Tail(q)[i] = q[i + 1]
  BY HeadTailProperties, EmptySeq

LEMMA SeqMonotone ==
  ASSUME NEW S, NEW R, S \subseteq R, NEW q \in Seq(S) PROVE q \in Seq(R)
  BY SeqDef

LEMMA InfoTyped == ASSUME TypeOK, NEW s \in Sets PROVE Info(s) \in Policies
  BY DEF TypeOK, Info

LEMMA EnterProps ==
  ASSUME TypeOK, NEW s \in Sets, NEW p \in Policies
  PROVE  /\ DOMAIN Enter(s, p) = DOMAIN array \cup {s}
         /\ Enter(s, p) \in [DOMAIN array \cup {s} -> Entries]
         /\ Enter(s, p)[s] = Considered(s, p) /\ Considered(s, p) \in Entries
         /\ \A x \in DOMAIN array : Enter(s, p)[x] = array[x]
<1>1. Considered(s, p) \in Entries
  BY DEF TypeOK, Considered, Entry, Entries
<1> QED BY <1>1 DEF Enter, Considered, TypeOK

LEMMA ShownProps ==
  ASSUME NEW D, NEW a \in [D -> Entries], NEW s \in D
  PROVE  /\ Shown(a, s) \in [D -> Entries]
         /\ \A x \in D \ {s} : Shown(a, s)[x] = a[x]
         /\ Shown(a, s)[s] = [policy |-> a[s].policy, once |-> TRUE, session |-> TRUE]
  BY DEF Shown, Entries

\* Entries are kept, with their policies, and flags are never taken back.
Grown == /\ DOMAIN array \subseteq DOMAIN array' /\ DOMAIN array' \subseteq Sets
         /\ array' \in [DOMAIN array' -> Entries]
         /\ \A x \in DOMAIN array :
              /\ array'[x].policy = array[x].policy
              /\ array[x].once => array'[x].once

LEMMA DialogsKept ==
  ASSUME TypeOK, Grown PROVE dialogs \in Seq(Dialogs')
<1>1. Dialogs \subseteq Dialogs'
  BY DEF Dialogs, Grown
<1> QED BY <1>1, SeqMonotone DEF TypeOK

LEMMA PassesProps ==
  ASSUME TypeOK, NEW s \in Sets, NEW p \in Policies, processed \subseteq DOMAIN array,
         Passes(s, p)
  PROVE  /\ Grown /\ DOMAIN array' = DOMAIN array \cup {s}
         /\ \A x \in DOMAIN array \ {s} : array'[x] = array[x]
         /\ ~MustShow(s, p) => array'[s] = Considered(s, p)
         /\ MustShow(s, p) => array'[s].once /\ array'[s].session
<1>1. DOMAIN array \subseteq Sets /\ array \in [DOMAIN array -> Entries]
  BY DEF TypeOK
<1>2. /\ DOMAIN Enter(s, p) = DOMAIN array \cup {s}
      /\ Enter(s, p) \in [DOMAIN array \cup {s} -> Entries]
      /\ Enter(s, p)[s] = Considered(s, p)
      /\ \A x \in DOMAIN array : Enter(s, p)[x] = array[x]
  BY EnterProps
<1>3. CASE s \in processed
  BY <1>1, <1>3 DEF Passes, Grown, MustShow, Considered
<1>4. CASE s \notin processed /\ ~MustShow(s, p)
  <2>1. array' = Enter(s, p)
    BY <1>4 DEF Passes
  <2> QED BY <1>1, <1>2, <1>4, <2>1 DEF Grown
<1>5. CASE s \notin processed /\ MustShow(s, p)
  <2>1. array' = Shown(Enter(s, p), s)
    BY <1>5 DEF Passes
  <2>2. /\ array' \in [DOMAIN array \cup {s} -> Entries]
        /\ \A x \in DOMAIN array \ {s} : array'[x] = array[x]
        /\ array'[s] = [policy |-> Considered(s, p).policy, once |-> TRUE, session |-> TRUE]
    BY <1>2, <2>1, ShownProps
  <2>3. s \in DOMAIN array => Considered(s, p).policy = array[s].policy
    BY DEF Considered
  <2> QED BY <1>1, <1>5, <2>2, <2>3 DEF Grown
<1> QED BY <1>3, <1>4, <1>5

LEMMA AsksProps ==
  ASSUME TypeOK, NEW s \in Sets, NEW p \in Policies, NEW by \in {"init", "update"},
         Asks(s, p, by), dir[s].there
  PROVE  /\ Grown /\ DOMAIN array' = DOMAIN array \cup {s}
         /\ \A x \in DOMAIN array \ {s} : array'[x] = array[x]
         /\ array'[s] = Considered(s, p)
         /\ dialogs' \in Seq(Dialogs') /\ Len(dialogs') = Len(dialogs) + 1
         /\ dialogs'[1] = [set |-> s, by |-> by, sha |-> dir[s].text]
         /\ Head(dialogs') = dialogs'[1]
         /\ \A i \in 1..Len(dialogs) : dialogs'[i + 1] = dialogs[i]
<1>1. Grown /\ array'[s] = Considered(s, p) /\ DOMAIN array' = DOMAIN array \cup {s}
  <2>1. array' = Enter(s, p)
    BY DEF Asks
  <2>2. DOMAIN array \subseteq Sets /\ array \in [DOMAIN array -> Entries]
    BY DEF TypeOK
  <2>3. /\ DOMAIN Enter(s, p) = DOMAIN array \cup {s}
        /\ Enter(s, p) \in [DOMAIN array \cup {s} -> Entries]
        /\ Enter(s, p)[s] = Considered(s, p)
        /\ \A x \in DOMAIN array : Enter(s, p)[x] = array[x]
    BY EnterProps
  <2> QED BY <2>1, <2>2, <2>3 DEF Grown
<1>2. \A x \in DOMAIN array \ {s} : array'[x] = array[x]
  BY EnterProps DEF Asks
<1>3. [set |-> s, by |-> by, sha |-> dir[s].text] \in Dialogs'
  BY <1>1 DEF Dialogs, TypeOK
<1>4. dialogs \in Seq(Dialogs')
  BY <1>1, DialogsKept
<1>5. dialogs' = <<[set |-> s, by |-> by, sha |-> dir[s].text]>> \o dialogs
  BY DEF Asks, Ask, Sha
<1> QED BY <1>1, <1>2, <1>3, <1>4, <1>5, PushProps

\* A Chartinfo.txt is written; nothing else of the directory changes.
LEMMA InfoWritten ==
  ASSUME TypeOK, NEW s \in Sets, NEW p \in Policies, CreateChartInfoFile(s, p)
  PROVE  /\ dir' \in [Sets -> [there : BOOLEAN, info : {"none"} \cup Policies,
                              text : Texts, policy : Policies]]
         /\ \A x \in Sets : dir'[x].there = dir[x].there /\ dir'[x].text = dir[x].text
         /\ \A x \in Sets : Sha(x)' = Sha(x)
  BY DEF CreateChartInfoFile, TypeOK, Sha

\* The dialogs that stay open were asked for what is still there.
DialogsFit == \A i \in 1..Len(dialogs) : dialogs[i].sha = Sha(dialogs[i].set)

LEMMA DialogSets ==
  ASSUME TypeOK, NEW i \in 1..Len(dialogs)
  PROVE  dialogs[i] \in Dialogs /\ dialogs[i].set \in DOMAIN array /\ dialogs[i].set \in Sets
<1>1. dialogs \in Seq(Dialogs) /\ DOMAIN array \subseteq Sets
  BY DEF TypeOK
<1>2. dialogs[i] \in Dialogs
  BY <1>1
<1> QED BY <1>1, <1>2 DEF Dialogs

LEMMA KeptByPasses ==
  ASSUME Kept, NEW s \in Sets, NEW p \in Policies, dir[s].there,
         CreateChartInfoFile(s, p), Passes(s, p),
         UNCHANGED <<agreed, agreedNow, rejected, config, revised>>,
         job' = job \/ job' = Loop("update", job.left \ {s})
  PROVE  Kept'
<1>1. TypeOK /\ Kept
  BY DEF Kept
<1>2. processed' = processed \cup {s} /\ UNCHANGED <<shas, dialogs>>
  BY DEF Passes
<1>3. Grown /\ DOMAIN array' = DOMAIN array \cup {s}
  BY <1>1, PassesProps DEF Kept
<1>4. TypeOK'
  <2>1. dialogs' \in Seq(Dialogs')
    BY <1>1, <1>2, <1>3, DialogsKept
  <2>2. job' \in [in : {"none", "start", "update"}, left : SUBSET Sets]
    BY <1>1 DEF TypeOK, Loop, NoJob
  <2> QED BY <1>1, <1>2, <1>3, <2>1, <2>2, InfoWritten DEF TypeOK, Grown
<1>5. DialogsFit'
  BY <1>1, <1>2, InfoWritten, DialogSets DEF Kept, DialogsFit
<1>6. \A x \in DOMAIN config' : config'[x].once => array'[x].once
  BY <1>1, <1>3 DEF Grown, Kept, TypeOK
<1>7. job'.in = "start" => \A x \in job'.left : x \in DOMAIN array' /\ array'[x].policy = "always"
  BY <1>1, <1>3 DEF Grown, Kept, Loop, NoJob
<1> QED BY <1>1, <1>2, <1>3, <1>4, <1>5, <1>6, <1>7 DEF Kept, DialogsFit

LEMMA KeptByAsks ==
  ASSUME Kept, NEW s \in Sets, NEW p \in Policies, NEW by \in {"init", "update"},
         dir[s].there, CreateChartInfoFile(s, p), Asks(s, p, by),
         UNCHANGED <<agreed, agreedNow, rejected, config, revised>>,
         job' = job \/ job' = Loop("update", job.left \ {s})
  PROVE  Kept'
<1>1. TypeOK /\ Kept
  BY DEF Kept
<1>2. processed' = processed \cup {s} /\ UNCHANGED shas
  BY DEF Asks
<1>3. /\ Grown /\ DOMAIN array' = DOMAIN array \cup {s}
      /\ dialogs' \in Seq(Dialogs') /\ Len(dialogs') = Len(dialogs) + 1
      /\ dialogs'[1] = [set |-> s, by |-> by, sha |-> dir[s].text]
      /\ \A i \in 1..Len(dialogs) : dialogs'[i + 1] = dialogs[i]
  <2>1. Grown
    BY <1>1, AsksProps
  <2>5. DOMAIN array' = DOMAIN array \cup {s}
    <3>1. array' = Enter(s, p)
      BY DEF Asks
    <3> QED BY <1>1, <3>1, EnterProps
  <2>2. dialogs' \in Seq(Dialogs') /\ Len(dialogs') = Len(dialogs) + 1
    BY <1>1, AsksProps
  <2>3. dialogs'[1] = [set |-> s, by |-> by, sha |-> dir[s].text]
    BY <1>1, AsksProps
  <2>4. \A i \in 1..Len(dialogs) : dialogs'[i + 1] = dialogs[i]
    BY <1>1, AsksProps
  <2> QED BY <2>1, <2>2, <2>3, <2>4, <2>5
<1>4. TypeOK'
  <2>1. job' \in [in : {"none", "start", "update"}, left : SUBSET Sets]
    BY <1>1 DEF TypeOK, Loop, NoJob
  <2> QED BY <1>1, <1>2, <1>3, <2>1, InfoWritten DEF TypeOK, Grown
<1>5. DialogsFit'
  <2>1. Len(dialogs) \in Nat
    BY <1>1 DEF TypeOK
  <2>2. (dialogs[1].sha = Sha(dialogs[1].set))'
    <3>1. dialogs'[1].sha = Sha(s)
      BY <1>3 DEF Sha
    <3>2. Sha(s)' = Sha(s)
      BY <1>1, InfoWritten
    <3> QED BY <1>3, <3>1, <3>2
  <2>3. ASSUME NEW i \in 1..Len(dialogs)
        PROVE  (dialogs[i + 1].sha = Sha(dialogs[i + 1].set))'
    <3>1. dialogs[i].sha = Sha(dialogs[i].set) /\ dialogs[i].set \in Sets
      BY <1>1, DialogSets DEF Kept
    <3> QED BY <1>1, <1>3, <3>1, InfoWritten
  <2>4. ASSUME NEW i \in 1..Len(dialogs') PROVE (dialogs[i].sha = Sha(dialogs[i].set))'
    <3>1. CASE i = 1
      BY <2>2, <3>1
    <3>2. CASE i # 1
      <4>1. i - 1 \in 1..Len(dialogs) /\ (i - 1) + 1 = i
        BY <1>3, <2>1, <3>2
      <4> QED BY <2>3, <4>1
    <3> QED BY <3>1, <3>2
  <2> QED BY <2>4 DEF DialogsFit
<1>6. \A x \in DOMAIN config' : config'[x].once => array'[x].once
  BY <1>1, <1>3 DEF Grown, Kept, TypeOK
<1>7. job'.in = "start" => \A x \in job'.left : x \in DOMAIN array' /\ array'[x].policy = "always"
  BY <1>1, <1>3 DEF Grown, Kept, Loop, NoJob
<1> QED BY <1>1, <1>2, <1>3, <1>4, <1>5, <1>6, <1>7 DEF Kept, DialogsFit

LEMMA DirTyped ==
  ASSUME TypeOK, NEW s \in Sets
  PROVE  /\ dir[s].text \in Texts /\ dir[s].policy \in Policies
         /\ Sha(s) \in Texts \cup {NoText} /\ Info(s) \in Policies
  BY InfoTyped DEF TypeOK, Sha

LEMMA SaveConfigProps ==
  ASSUME TypeOK
  PROVE  /\ DOMAIN SaveConfig = DOMAIN array /\ SaveConfig \in [DOMAIN array -> Saved]
         /\ \A s \in DOMAIN array : SaveConfig[s].once = array[s].once
  BY DEF TypeOK, SaveConfig, Saved, Entries

LEMMA KeptByStart ==
  ASSUME Kept, NEW saved, StartsFrom(saved),
         DOMAIN saved \subseteq DOMAIN array, saved \in [DOMAIN saved -> Saved]
  PROVE  Kept'
<1>1. TypeOK
  BY DEF Kept
<1>2. /\ DOMAIN array' = DOMAIN saved /\ array' \in [DOMAIN saved -> Entries]
      /\ \A s \in DOMAIN saved : array'[s].policy = saved[s].policy /\ array'[s].once = saved[s].once
  BY DEF StartsFrom, LoadConfig, Entry, Entries, Saved
<1>3. /\ job' \in [in : {"none", "start", "update"}, left : SUBSET Sets]
      /\ \A s \in job'.left : s \in DOMAIN saved /\ saved[s].policy = "always"
  BY <1>1 DEF StartsFrom, Loop, NoJob, TypeOK
<1>4. dialogs' = <<>> /\ Len(dialogs') = 0 /\ dialogs' \in Seq(Dialogs')
  BY DEF StartsFrom
<1>5. TypeOK'
  BY <1>1, <1>2, <1>3, <1>4 DEF StartsFrom, TypeOK
<1> QED BY <1>2, <1>3, <1>4, <1>5 DEF Kept, StartsFrom

LEMMA KeptByStartDialogs ==
  ASSUME Kept, NEW s \in Sets, ShowAlwaysEULAs(s)
  PROVE  Kept'
<1>1. TypeOK /\ s \in DOMAIN array
  BY DEF Kept, ShowAlwaysEULAs
<1>2. UNCHANGED <<dir, array, agreed, agreedNow, processed, rejected, config, revised>>
  BY DEF ShowAlwaysEULAs
<1>3. /\ job' \in [in : {"none", "start", "update"}, left : SUBSET Sets]
      /\ job'.left \subseteq job.left /\ job.in = "start"
  BY <1>1 DEF ShowAlwaysEULAs, Loop, NoJob, TypeOK
<1>4. shas' \subseteq Texts \cup {NoText} /\ shas \subseteq shas'
  BY <1>1, DirTyped DEF ShowAlwaysEULAs, TakesAsAccepted, TypeOK
<1>5. dialogs' \in Seq(Dialogs') /\ DialogsFit'
  <2>1. CASE UNCHANGED dialogs
    BY <1>2, <2>1 DEF Kept, TypeOK, Dialogs, DialogsFit, Sha
  <2>2. CASE Ask(s, "start")
    <3> DEFINE d == [set |-> s, by |-> "start", sha |-> Sha(s)]
    <3>1. d \in Dialogs
      BY <1>1, DirTyped DEF Dialogs
    <3>2. dialogs = <<>> /\ dialogs' = <<d>> \o dialogs
      BY <2>2 DEF Ask, ShowAlwaysEULAs
    <3>3. dialogs' = <<d>>
      BY <3>2
    <3>4. dialogs' \in Seq(Dialogs) /\ Len(dialogs') = 1 /\ dialogs'[1] = d
      BY <3>1, <3>3
    <3>5. Dialogs' = Dialogs /\ Sha(s)' = Sha(s)
      BY <1>2 DEF Dialogs, Sha
    <3> QED BY <3>4, <3>5 DEF DialogsFit
  <2> QED BY <2>1, <2>2 DEF ShowAlwaysEULAs
<1> QED BY <1>1, <1>2, <1>3, <1>4, <1>5 DEF Kept, TypeOK, DialogsFit

\* The dialogs below the one that is answered stay as they are.
LEMMA AnswerProps ==
  ASSUME TypeOK, DialogsFit, Answer, UNCHANGED dir, Grown
  PROVE  /\ Top \in Dialogs /\ Top.set \in DOMAIN array /\ Top.set \in Sets
         /\ Top.sha = Sha(Top.set)
         /\ dialogs' \in Seq(Dialogs') /\ DialogsFit'
         /\ \A s \in Sets : Waiting(s) => s = Top.set \/ Waiting(s)'
<1>1. /\ dialogs \in Seq(Dialogs) /\ dialogs # <<>> /\ dialogs' = Tail(dialogs)
      /\ DOMAIN array \subseteq Sets
  BY DEF TypeOK, Answer
<1>2. /\ dialogs' \in Seq(Dialogs) /\ Len(dialogs) \in Nat \ {0}
      /\ Len(dialogs') = Len(dialogs) - 1
      /\ Top \in Dialogs /\ Top = dialogs[1]
      /\ \A i \in 1..Len(dialogs') : dialogs'[i] = dialogs[i + 1]
  BY <1>1, PopProps DEF Top
<1>3. Top.set \in DOMAIN array /\ Top.set \in Sets
  BY <1>1, <1>2 DEF Dialogs
<1>4. 1 \in 1..Len(dialogs)
  BY <1>2
<1>5. Top.sha = Sha(Top.set)
  BY <1>2, <1>4 DEF DialogsFit
<1>6. Dialogs \subseteq Dialogs'
  BY DEF Dialogs, Grown
<1>7. dialogs' \in Seq(Dialogs')
  BY <1>2, <1>6, SeqMonotone
<1>8. DialogsFit'
  <2>1. ASSUME NEW i \in 1..Len(dialogs') PROVE (dialogs[i].sha = Sha(dialogs[i].set))'
    <3>1. i + 1 \in 1..Len(dialogs)
      BY <1>2
    <3>2. dialogs[i + 1].sha = Sha(dialogs[i + 1].set)
      BY <3>1 DEF DialogsFit
    <3> QED BY <1>2, <3>2 DEF Sha
  <2> QED BY <2>1 DEF DialogsFit
<1>9. ASSUME NEW s \in Sets, Waiting(s), s # Top.set PROVE Waiting(s)'
  <2>1. PICK i \in 1..Len(dialogs) : dialogs[i].set = s
    BY <1>9 DEF Waiting
  <2>2. i # 1
    BY <1>2, <1>9, <2>1
  <2>3. i - 1 \in 1..Len(dialogs') /\ (i - 1) + 1 = i
    BY <1>2, <2>1, <2>2
  <2>4. dialogs'[i - 1] = dialogs[i]
    BY <1>2, <2>3
  <2> QED BY <2>1, <2>3, <2>4 DEF Waiting
<1> QED BY <1>2, <1>3, <1>5, <1>7, <1>8, <1>9

LEMMA GrownIfSame == ASSUME TypeOK, UNCHANGED array PROVE Grown
  BY DEF TypeOK, Grown

LEMMA AcceptProps ==
  ASSUME Kept, Accept
  PROVE  /\ Grown /\ DOMAIN array' = DOMAIN array
         /\ \A s \in DOMAIN array : s = Top.set \/ array'[s] = array[s]
<1>1. TypeOK /\ DialogsFit
  BY DEF Kept, DialogsFit
<1>2. /\ dialogs \in Seq(Dialogs) /\ dialogs # <<>>
      /\ DOMAIN array \subseteq Sets /\ array \in [DOMAIN array -> Entries]
  BY <1>1 DEF TypeOK, Accept, Answer
<1>3. Top.set \in DOMAIN array
  <2>1. Top \in Dialogs
    BY <1>2, PopProps DEF Top
  <2> QED BY <2>1 DEF Dialogs
<1>4. array' = array \/ array' = Shown(array, Top.set)
  BY DEF Accept
<1>5. CASE array' = array
  BY <1>2, <1>5 DEF Grown
<1>6. CASE array' = Shown(array, Top.set)
  <2>1. /\ array' \in [DOMAIN array -> Entries]
        /\ \A x \in DOMAIN array \ {Top.set} : array'[x] = array[x]
        /\ array'[Top.set] = [policy |-> array[Top.set].policy, once |-> TRUE, session |-> TRUE]
    BY <1>2, <1>3, <1>6, ShownProps
  <2> QED BY <1>2, <1>3, <2>1 DEF Grown
<1> QED BY <1>4, <1>5, <1>6

LEMMA KeptByAccept == ASSUME Kept, Accept PROVE Kept'
<1>1. TypeOK /\ DialogsFit
  BY DEF Kept, DialogsFit
<1>2. Grown /\ DOMAIN array' = DOMAIN array
  BY AcceptProps
<1>3. dialogs' \in Seq(Dialogs') /\ DialogsFit'
  BY <1>1, <1>2, AnswerProps DEF Accept
<1>4. Top.sha \in Texts /\ shas' = shas \cup {Top.sha}
  BY <1>1, <1>2, AnswerProps DEF Accept, Dialogs, Remembers
<1>5. TypeOK'
  BY <1>1, <1>2, <1>3, <1>4 DEF TypeOK, Accept, Grown
<1> QED BY <1>1, <1>2, <1>3, <1>4, <1>5 DEF Kept, DialogsFit, Accept, Grown, TypeOK

LEMMA KeptByReject == ASSUME Kept, Reject PROVE Kept'
<1>1. TypeOK /\ DialogsFit /\ Grown
  BY GrownIfSame DEF Kept, DialogsFit, Reject
<1>2. dialogs' \in Seq(Dialogs') /\ DialogsFit'
  BY <1>1, AnswerProps DEF Reject
<1>3. job' \in [in : {"none", "start", "update"}, left : SUBSET Sets]
  BY <1>1 DEF TypeOK, Reject, NoJob
<1>4. TypeOK'
  BY <1>1, <1>2, <1>3 DEF TypeOK, Reject
<1> QED BY <1>1, <1>2, <1>4 DEF Kept, DialogsFit, Reject, NoJob

LEMMA KeptByUpdate ==
  ASSUME Kept, dialogs = <<>>, UNCHANGED <<shown, rejected, config>>,
         dir' \in [Sets -> [there : BOOLEAN, info : {"none"} \cup Policies,
                           text : Texts, policy : Policies]],
         revised' \subseteq Sets, UpdateChartInfoFiles(dir')
  PROVE  Kept'
<1>1. job' \in [in : {"none", "start", "update"}, left : SUBSET Sets] /\ job'.in # "start"
  BY DEF UpdateChartInfoFiles, Loop, NoJob
<1>2. TypeOK'
  BY <1>1 DEF Kept, TypeOK, shown, UpdateChartInfoFiles, Dialogs
<1>3. Len(dialogs') = 0
  BY DEF shown
<1> QED BY <1>1, <1>2, <1>3 DEF Kept, shown, UpdateChartInfoFiles

LEMMA KeptStep == ASSUME Kept, [Next]_vars PROVE Kept'
<1>1. TypeOK
  BY DEF Kept
<1>2. CASE Quit
  BY <1>1, <1>2, SaveConfigProps, KeptByStart DEF Quit
<1>3. CASE Crash
  BY <1>1, <1>3, KeptByStart DEF Crash, TypeOK
<1>4. CASE Preferences
  <2>1. TypeOK'
    BY <1>1, <1>4, SaveConfigProps DEF Preferences, TypeOK, shown, Dialogs
  <2> QED BY <1>1, <1>4, <2>1, SaveConfigProps DEF Preferences, Kept, shown, Sha
<1>5. CASE ClickUpdate
  BY <1>1, <1>5, KeptByUpdate DEF ClickUpdate, TypeOK, UpdateChartInfoFiles
<1>6. CASE Accept
  BY <1>6, KeptByAccept
<1>7. CASE Reject
  BY <1>7, KeptByReject
<1>8. ASSUME NEW s \in Sets, ShowAlwaysEULAs(s) PROVE Kept'
  BY <1>8, KeptByStartDialogs
<1>9. ASSUME NEW s \in Sets, OpenChart(s) PROVE Kept'
  BY <1>1, <1>9, DirTyped, KeptByPasses DEF OpenChart, CanInit
<1>10. ASSUME NEW s \in Sets, OpenChartAsks(s) PROVE Kept'
  BY <1>1, <1>10, DirTyped, KeptByAsks DEF OpenChartAsks, CanInit
<1>11. ASSUME NEW s \in Sets, UpdateInfo(s) PROVE Kept'
  <2>1. CASE dir[s].there /\ Passes(s, dir[s].policy) /\ CreateChartInfoFile(s, dir[s].policy)
    BY <1>1, <1>11, <2>1, DirTyped, KeptByPasses DEF UpdateInfo
  <2>2. CASE dir[s].there /\ Asks(s, dir[s].policy, "update")
             /\ CreateChartInfoFile(s, dir[s].policy)
    BY <1>1, <1>11, <2>2, DirTyped, KeptByAsks DEF UpdateInfo
  <2>3. CASE UNCHANGED <<array, shas, dialogs, processed>>
    <3>1. /\ dir' \in [Sets -> [there : BOOLEAN, info : {"none"} \cup Policies,
                              text : Texts, policy : Policies]]
          /\ \A x \in Sets : Sha(x)' = Sha(x)
      <4>1. CASE UNCHANGED dir
        BY <1>1, <4>1 DEF TypeOK, Sha
      <4>2. CASE CreateChartInfoFile(s, dir[s].policy)
        BY <1>1, <4>2, DirTyped, InfoWritten
      <4> QED BY <1>11, <4>1, <4>2 DEF UpdateInfo
    <3>2. /\ job' \in [in : {"none", "start", "update"}, left : SUBSET Sets]
          /\ job'.in # "start"
      BY <1>1, <1>11 DEF UpdateInfo, Loop, NoJob, TypeOK
    <3>3. TypeOK'
      BY <1>1, <1>11, <2>3, <3>1, <3>2 DEF UpdateInfo, TypeOK, Dialogs
    <3>4. Len(dialogs') = 0
      BY <1>11, <2>3 DEF UpdateInfo
    <3> QED BY <1>11, <2>3, <3>2, <3>3, <3>4 DEF UpdateInfo, Kept
  <2> QED BY <1>11, <2>1, <2>2, <2>3 DEF UpdateInfo
<1>12. ASSUME NEW s \in Sets, Install(s) PROVE Kept'
  <2>1. PICK t \in Texts, p \in Policies, i \in {"none", dir[s].info} :
          /\ dir' = [dir EXCEPT ![s] = [there |-> TRUE, info |-> i, text |-> t, policy |-> p]]
          /\ revised' = IF s \in DOMAIN array /\ t # dir[s].text
                        THEN revised \cup {s} ELSE revised
    BY <1>12 DEF Install
  <2>2. /\ dir' \in [Sets -> [there : BOOLEAN, info : {"none"} \cup Policies,
                            text : Texts, policy : Policies]]
        /\ revised' \subseteq Sets
    BY <1>1, <2>1 DEF TypeOK
  <2> QED BY <1>12, <2>2, KeptByUpdate DEF Install
<1>13. ASSUME NEW s \in Sets, Delete(s) PROVE Kept'
  <2>1. TypeOK'
    BY <1>1, <1>13 DEF Delete, Absent, TypeOK, shown, Dialogs
  <2>2. Len(dialogs') = 0
    BY <1>13 DEF Delete, shown
  <2> QED BY <1>13, <2>1, <2>2 DEF Delete, Kept, shown
<1>14. CASE UNCHANGED vars
  BY <1>14 DEF vars, shown, Kept, TypeOK, Dialogs, Sha
<1> QED BY <1>2, <1>3, <1>4, <1>5, <1>6, <1>7, <1>8, <1>9, <1>10, <1>11, <1>12, <1>13,
           <1>14 DEF Next

LEMMA InitKept == Init => Kept
<1>1. Init => TypeOK
  <2> SUFFICES ASSUME Init PROVE TypeOK
    OBVIOUS
  <2>1. PICK t \in [Sets -> Texts], p \in [Sets -> Policies] :
          dir = [s \in Sets |-> Absent(t[s], p[s])]
    BY DEF Init
  <2>2. dir \in [Sets -> [there : BOOLEAN, info : {"none"} \cup Policies,
                         text : Texts, policy : Policies]]
    BY <2>1 DEF Absent
  <2>3. array \in [{} -> Entries] /\ config \in [{} -> Saved]
    BY DEF Init, Empty
  <2>4. dialogs \in Seq(Dialogs)
    BY DEF Init
  <2> QED BY <2>2, <2>3, <2>4 DEF Init, TypeOK, NoJob, Empty
<1> QED BY <1>1 DEF Init, Kept, Empty, NoJob

(***************************************************************************)
(* A licence that was accepted is not asked for again.                     *)
(***************************************************************************)
LEMMA AskedOnceStep ==
  ASSUME Kept, [Next]_vars
  PROVE  Len(dialogs') > Len(dialogs) =>
           LET d == Head(dialogs') IN
             /\ d.sha \notin agreedNow
             /\ array'[d.set].policy = "once" /\ d.set \in DOMAIN config
                  => ~config[d.set].once
<1> SUFFICES ASSUME Len(dialogs') > Len(dialogs)
             PROVE  /\ Head(dialogs').sha \notin agreedNow
                    /\ array'[Head(dialogs').set].policy = "once"
                       /\ Head(dialogs').set \in DOMAIN config
                         => ~config[Head(dialogs').set].once
  OBVIOUS
<1>1. TypeOK /\ Len(dialogs) \in Nat
  BY DEF Kept, TypeOK
<1>2. ASSUME NEW s \in Sets, NEW p \in Policies, NEW by \in {"init", "update"},
             Asks(s, p, by), dir[s].there
      PROVE  /\ Head(dialogs').sha \notin agreedNow
             /\ array'[Head(dialogs').set].policy = "once"
                /\ Head(dialogs').set \in DOMAIN config
                  => ~config[Head(dialogs').set].once
  <2>1. /\ Head(dialogs') = [set |-> s, by |-> by, sha |-> dir[s].text]
        /\ array'[s] = Considered(s, p)
    BY <1>1, <1>2, AsksProps
  <2>2. dir[s].text \notin agreedNow
    BY <1>2 DEF Asks, Knows, Sha, Kept
  <2>3. Required(Considered(s, p))
    BY <1>2 DEF Asks, MustShow
  <2>4. s \in DOMAIN config /\ config[s].once => s \in DOMAIN array /\ array[s].once
    BY <1>1 DEF Kept, TypeOK
  <2> QED BY <2>1, <2>2, <2>3, <2>4 DEF Required, Considered
<1>3. CASE Quit \/ Crash
  <2>1. Len(dialogs') = 0
    BY <1>3 DEF Quit, Crash, StartsFrom
  <2> QED BY <1>1, <2>1
<1>4. CASE Preferences \/ ClickUpdate \/ UNCHANGED vars
  BY <1>1, <1>4 DEF Preferences, ClickUpdate, shown, vars
<1>5. CASE Accept \/ Reject
  BY <1>1, <1>5, PopProps DEF Accept, Reject, Answer, TypeOK
<1>6. ASSUME NEW s \in Sets, ShowAlwaysEULAs(s)
      PROVE  /\ Head(dialogs').sha \notin agreedNow
             /\ array'[Head(dialogs').set].policy = "once"
                /\ Head(dialogs').set \in DOMAIN config
                  => ~config[Head(dialogs').set].once
  <2>1. Ask(s, "start") /\ ~Knows(s) /\ dialogs = <<>>
    BY <1>1, <1>6 DEF ShowAlwaysEULAs
  <2>2. Head(dialogs') = [set |-> s, by |-> "start", sha |-> Sha(s)]
    BY <2>1 DEF Ask
  <2>3. array' = array /\ array[s].policy = "always"
    BY <1>6 DEF ShowAlwaysEULAs, Kept
  <2> QED BY <2>1, <2>2, <2>3 DEF Knows, Kept
<1>7. ASSUME NEW s \in Sets, OpenChart(s) \/ OpenChartAsks(s)
      PROVE  /\ Head(dialogs').sha \notin agreedNow
             /\ array'[Head(dialogs').set].policy = "once"
                /\ Head(dialogs').set \in DOMAIN config
                  => ~config[Head(dialogs').set].once
  BY <1>1, <1>2, <1>7, DirTyped DEF OpenChart, OpenChartAsks, CanInit, Passes
<1>8. ASSUME NEW s \in Sets, UpdateInfo(s)
      PROVE  /\ Head(dialogs').sha \notin agreedNow
             /\ array'[Head(dialogs').set].policy = "once"
                /\ Head(dialogs').set \in DOMAIN config
                  => ~config[Head(dialogs').set].once
  BY <1>1, <1>2, <1>8, DirTyped DEF UpdateInfo, Passes
<1>9. ASSUME NEW s \in Sets, Install(s) \/ Delete(s) PROVE FALSE
  BY <1>1, <1>9 DEF Install, Delete, shown
<1> QED BY <1>3, <1>4, <1>5, <1>6, <1>7, <1>8, <1>9 DEF Next

LEMMA AlwaysKept == Spec => []Kept
  BY InitKept, KeptStep, PTL DEF Spec

\* Every variable keeps its type, and every dialog has the entry its answer
\* is for, for any sets and texts (processChartinfo, ShowEULA).
THEOREM EulaTyped == Spec => []TypeOK
<1>1. Kept => TypeOK
  BY DEF Kept
<1> QED BY <1>1, AlwaysKept, PTL

\* For any sets and texts, with or without a window at the start, a licence
\* accepted in this session, or saved as shown once, is not asked for
\* (ShowEULA, LoadConfig and SaveConfig).
THEOREM NotAskedAgain == Spec => AskedOnce
<1>1. Kept /\ [Next]_vars =>
        [Len(dialogs') > Len(dialogs) =>
           LET d == Head(dialogs') IN
             /\ d.sha \notin agreedNow
             /\ array'[d.set].policy = "once" /\ d.set \in DOMAIN config
                  => ~config[d.set].once]_vars
  BY AskedOnceStep
<1> QED BY <1>1, AlwaysKept, PTL DEF Spec, AskedOnce

(***************************************************************************)
(* No chart is opened before its licence was accepted.                     *)
(***************************************************************************)
FlagsTrue == \A s \in DOMAIN array \ revised :
               /\ array[s].once => dir[s].text \in agreed
               /\ array[s].session => dir[s].text \in agreedNow
Promise(s) == dir[s].there /\ ~rejected /\ ~Waiting(s) => AcceptedAs(s, array[s].policy)

LEMMA AgreedIs ==
  Agreed <=> /\ shas \subseteq agreedNow /\ agreedNow \subseteq agreed
             /\ FlagsTrue /\ \A s \in processed \ revised : Promise(s)
  BY DEF Agreed, FlagsTrue, Promise

\* An entry that need not be shown was accepted.
LEMMA NotRequired ==
  ASSUME Kept, Agreed, NEW s \in Sets, NEW p \in Policies, s \notin revised,
         ~Required(Considered(s, p))
  PROVE  AcceptedAs(s, Considered(s, p).policy)
  BY DEF Kept, TypeOK, Agreed, Required, Considered, Entry, AcceptedAs

LEMMA AgreedByPasses ==
  ASSUME Kept, Agreed, NEW s \in Sets, NEW p \in Policies, dir[s].there,
         CreateChartInfoFile(s, p), Passes(s, p),
         UNCHANGED <<agreed, agreedNow, rejected, config, revised>>
  PROVE  Agreed'
<1>1. TypeOK /\ processed \subseteq DOMAIN array
  BY DEF Kept
<1>2. /\ Grown /\ DOMAIN array' = DOMAIN array \cup {s}
      /\ \A x \in DOMAIN array \ {s} : array'[x] = array[x]
      /\ ~MustShow(s, p) => array'[s] = Considered(s, p)
      /\ MustShow(s, p) => array'[s].once /\ array'[s].session
  BY <1>1, PassesProps
<1>3. /\ processed' = processed \cup {s} /\ UNCHANGED <<shas, dialogs>>
      /\ MustShow(s, p) => dir[s].text \in agreedNow /\ dir[s].text \in agreed
  BY DEF Passes, Knows, Sha, Agreed
<1>4. DOMAIN array \subseteq Sets
      /\ \A x \in Sets : dir'[x].there = dir[x].there /\ dir'[x].text = dir[x].text
  BY <1>1, InfoWritten DEF TypeOK
<1>5. s \notin revised => /\ Considered(s, p).once => dir[s].text \in agreed
                          /\ Considered(s, p).session => dir[s].text \in agreedNow
  BY DEF Agreed, Considered, Entry
<1>6. FlagsTrue'
  <2>1. ASSUME NEW x \in DOMAIN array' \ revised'
        PROVE  /\ array'[x].once => dir'[x].text \in agreed'
               /\ array'[x].session => dir'[x].text \in agreedNow'
    <3>1. CASE x = s /\ MustShow(s, p)
      BY <1>3, <1>4, <3>1
    <3>2. CASE x = s /\ ~MustShow(s, p)
      BY <1>2, <1>4, <1>5, <2>1, <3>2
    <3>3. CASE x # s
      BY <1>2, <1>4, <2>1, <3>3 DEF Agreed
    <3> QED BY <3>1, <3>2, <3>3
  <2> QED BY <2>1 DEF FlagsTrue
<1>7. ASSUME NEW x \in processed' \ revised' PROVE Promise(x)'
  <2>1. CASE x \in processed
    <3>1. x \in DOMAIN array /\ x \in Sets /\ array'[x].policy = array[x].policy /\ Promise(x)
      BY <1>1, <1>2, <1>4, <1>7, <2>1, AgreedIs DEF Grown
    <3> QED BY <1>3, <1>4, <3>1 DEF Promise, AcceptedAs, Waiting
  <2>2. CASE x = s /\ x \notin processed /\ MustShow(s, p)
    BY <1>3, <1>4, <2>2 DEF Promise, AcceptedAs
  <2>3. CASE x = s /\ x \notin processed /\ ~MustShow(s, p)
    <3>1. AcceptedAs(s, Considered(s, p).policy)
      BY <1>7, <2>3, NotRequired DEF MustShow
    <3> QED BY <1>2, <1>4, <2>3, <3>1 DEF Promise, AcceptedAs
  <2> QED BY <1>3, <2>1, <2>2, <2>3
<1>8. shas' \subseteq agreedNow' /\ agreedNow' \subseteq agreed'
  BY <1>3 DEF Agreed
<1> QED BY <1>6, <1>7, <1>8 DEF Agreed, FlagsTrue, Promise

LEMMA AgreedByAsks ==
  ASSUME Kept, Agreed, NEW s \in Sets, NEW p \in Policies, NEW by \in {"init", "update"},
         dir[s].there, CreateChartInfoFile(s, p), Asks(s, p, by),
         UNCHANGED <<agreed, agreedNow, rejected, config, revised>>
  PROVE  Agreed'
<1>1. TypeOK /\ processed \subseteq DOMAIN array
  BY DEF Kept
<1>2. /\ array' = Enter(s, p) /\ processed' = processed \cup {s} /\ UNCHANGED shas
      /\ dialogs' = <<[set |-> s, by |-> by, sha |-> Sha(s)]>> \o dialogs
  BY DEF Asks, Ask
<1>3. /\ DOMAIN array' = DOMAIN array \cup {s} /\ array'[s] = Considered(s, p)
      /\ \A x \in DOMAIN array : array'[x] = array[x]
  BY <1>1, <1>2, EnterProps
<1>4. DOMAIN array \subseteq Sets
      /\ \A x \in Sets : dir'[x].there = dir[x].there /\ dir'[x].text = dir[x].text
  BY <1>1, InfoWritten DEF TypeOK
<1>5. s \notin revised => /\ Considered(s, p).once => dir[s].text \in agreed
                          /\ Considered(s, p).session => dir[s].text \in agreedNow
  BY DEF Agreed, Considered, Entry
<1>6. /\ Len(dialogs') = Len(dialogs) + 1 /\ Len(dialogs) \in Nat
      /\ dialogs'[1].set = s
      /\ \A i \in 1..Len(dialogs) : dialogs'[i + 1] = dialogs[i]
  <2>1. /\ Len(dialogs') = Len(dialogs) + 1
        /\ dialogs'[1] = [set |-> s, by |-> by, sha |-> dir[s].text]
    BY <1>1, AsksProps
  <2>2. \A i \in 1..Len(dialogs) : dialogs'[i + 1] = dialogs[i]
    BY <1>1, AsksProps
  <2>3. Len(dialogs) \in Nat
    BY <1>1 DEF TypeOK
  <2> QED BY <2>1, <2>2, <2>3
<1>7. Waiting(s)' /\ \A x : Waiting(x) => Waiting(x)'
  <2>1. Waiting(s)'
    BY <1>6 DEF Waiting
  <2>2. ASSUME NEW x, Waiting(x) PROVE Waiting(x)'
    <3>1. PICK i \in 1..Len(dialogs) : dialogs[i].set = x
      BY <2>2 DEF Waiting
    <3>2. i + 1 \in 1..Len(dialogs') /\ dialogs'[i + 1].set = x
      BY <1>6, <3>1
    <3> QED BY <3>2 DEF Waiting
  <2> QED BY <2>1, <2>2
<1>8. FlagsTrue'
  BY <1>3, <1>4, <1>5 DEF FlagsTrue, Agreed
<1>9. ASSUME NEW x \in processed' \ revised' PROVE Promise(x)'
  <2>1. CASE x = s
    BY <1>7, <2>1 DEF Promise
  <2>2. CASE x # s
    <3>1. x \in Sets /\ x \in DOMAIN array /\ array'[x] = array[x] /\ Promise(x)
      BY <1>1, <1>2, <1>3, <1>4, <1>9, <2>2, AgreedIs
    <3> QED BY <1>4, <1>7, <3>1 DEF Promise, AcceptedAs
  <2> QED BY <2>1, <2>2
<1>10. shas' \subseteq agreedNow' /\ agreedNow' \subseteq agreed'
  BY <1>2 DEF Agreed
<1> QED BY <1>8, <1>9, <1>10 DEF Agreed, FlagsTrue, Promise

\* The directories and the entries stay as they are.
LEMMA AgreedIfQuiet ==
  ASSUME Agreed, UNCHANGED <<dir, shown, rejected, revised>>, processed' \subseteq processed
  PROVE  Agreed'
  BY DEF Agreed, shown, AcceptedAs, Waiting

LEMMA AgreedByStart ==
  ASSUME Kept, Agreed, NEW saved, StartsFrom(saved), DOMAIN saved \subseteq DOMAIN array,
         \A s \in DOMAIN saved : saved[s].once => array[s].once
  PROVE  Agreed'
<1>1. /\ DOMAIN array' = DOMAIN saved
      /\ \A s \in DOMAIN saved :
           /\ array'[s].once => saved[s].once
           /\ ~array'[s].session
  BY DEF StartsFrom, LoadConfig, Entry
<1> QED BY <1>1 DEF StartsFrom, Agreed

LEMMA AgreedByAccept == ASSUME Kept, Agreed, Accept PROVE Agreed'
<1>1. TypeOK /\ DialogsFit /\ processed \subseteq DOMAIN array /\ DOMAIN array \subseteq Sets
  BY DEF Kept, DialogsFit, TypeOK
<1>2. /\ Grown /\ DOMAIN array' = DOMAIN array
      /\ \A s \in DOMAIN array : s = Top.set \/ array'[s] = array[s]
  BY AcceptProps
<1>3. UNCHANGED <<dir, processed, rejected, revised>>
  BY DEF Accept
<1>4. /\ Top.set \in DOMAIN array /\ Top.sha = Sha(Top.set)
      /\ \A s \in Sets : Waiting(s) => s = Top.set \/ Waiting(s)'
  BY <1>1, <1>2, <1>3, AnswerProps DEF Accept
<1>5. /\ shas' = shas \cup {Top.sha} /\ agreed' = agreed \cup {Top.sha}
      /\ agreedNow' = agreedNow \cup {Top.sha}
      /\ Top.sha = dir[Top.set].text
  BY <1>4 DEF Accept, Remembers, Sha
<1>6. FlagsTrue'
  BY <1>2, <1>3, <1>5 DEF FlagsTrue, Agreed
<1>7. ASSUME NEW s \in processed' \ revised' PROVE Promise(s)'
  <2>1. CASE s = Top.set
    BY <1>3, <1>5, <2>1 DEF Promise, AcceptedAs
  <2>2. CASE s # Top.set
    <3>1. s \in DOMAIN array /\ s \in Sets /\ array'[s] = array[s] /\ Promise(s)
      BY <1>1, <1>2, <1>3, <1>7, <2>2, AgreedIs
    <3> QED BY <1>3, <1>4, <1>5, <2>2, <3>1 DEF Promise, AcceptedAs
  <2> QED BY <2>1, <2>2
<1>8. shas' \subseteq agreedNow' /\ agreedNow' \subseteq agreed'
  BY <1>5 DEF Agreed
<1> QED BY <1>6, <1>7, <1>8 DEF Agreed, FlagsTrue, Promise

LEMMA AgreedStep == ASSUME CanvasAtStart, Kept, Agreed, [Next]_vars PROVE Agreed'
<1>1. TypeOK
  BY DEF Kept
<1>2. CASE Quit
  BY <1>1, <1>2, SaveConfigProps, AgreedByStart DEF Quit
<1>3. CASE Crash
  BY <1>1, <1>3, AgreedByStart DEF Crash, TypeOK, Kept
<1>4. CASE Preferences
  BY <1>4, AgreedIfQuiet DEF Preferences
<1>5. CASE ClickUpdate
  BY <1>5, AgreedIfQuiet DEF ClickUpdate, UpdateChartInfoFiles
<1>6. CASE Accept
  BY <1>6, AgreedByAccept
<1>7. CASE Reject
  BY <1>7 DEF Reject, Agreed
<1>8. ASSUME NEW s \in Sets, ShowAlwaysEULAs(s) PROVE Agreed'
  <2>1. UNCHANGED shas
    BY <1>8 DEF ShowAlwaysEULAs
  <2>2. UNCHANGED <<dir, array, agreed, agreedNow, processed, rejected, config, revised>>
    BY <1>8 DEF ShowAlwaysEULAs
  <2>3. ASSUME NEW x, Waiting(x) PROVE FALSE
    BY <1>8, <2>3 DEF ShowAlwaysEULAs, Waiting
  <2> QED BY <2>1, <2>2, <2>3 DEF Agreed, AcceptedAs
<1>9. ASSUME NEW s \in Sets, OpenChart(s) PROVE Agreed'
  BY <1>1, <1>9, DirTyped, AgreedByPasses DEF OpenChart, CanInit
<1>10. ASSUME NEW s \in Sets, OpenChartAsks(s) PROVE Agreed'
  BY <1>1, <1>10, DirTyped, AgreedByAsks DEF OpenChartAsks, CanInit
<1>11. ASSUME NEW s \in Sets, UpdateInfo(s) PROVE Agreed'
  <2>1. CASE dir[s].there /\ Passes(s, dir[s].policy) /\ CreateChartInfoFile(s, dir[s].policy)
    BY <1>1, <1>11, <2>1, DirTyped, AgreedByPasses DEF UpdateInfo
  <2>2. CASE dir[s].there /\ Asks(s, dir[s].policy, "update")
             /\ CreateChartInfoFile(s, dir[s].policy)
    BY <1>1, <1>11, <2>2, DirTyped, AgreedByAsks DEF UpdateInfo
  <2>3. CASE UNCHANGED <<array, shas, dialogs, processed>>
    <3>1. /\ DOMAIN array \subseteq Sets /\ processed \subseteq Sets
          /\ \A x \in Sets : dir'[x].there = dir[x].there /\ dir'[x].text = dir[x].text
      <4>1. CASE UNCHANGED dir
        BY <1>1, <4>1 DEF TypeOK
      <4>2. CASE CreateChartInfoFile(s, dir[s].policy)
        BY <1>1, <4>2, DirTyped, InfoWritten DEF TypeOK
      <4> QED BY <1>11, <4>1, <4>2 DEF UpdateInfo
    <3> QED BY <1>11, <2>3, <3>1 DEF UpdateInfo, Agreed, AcceptedAs, Waiting
  <2> QED BY <1>11, <2>1, <2>2, <2>3 DEF UpdateInfo
<1>12. ASSUME NEW s \in Sets, Install(s) PROVE Agreed'
  <2>1. PICK t \in Texts, p \in Policies, i \in {"none", dir[s].info} :
          /\ dir' = [dir EXCEPT ![s] = [there |-> TRUE, info |-> i, text |-> t, policy |-> p]]
          /\ revised' = IF s \in DOMAIN array /\ t # dir[s].text
                        THEN revised \cup {s} ELSE revised
    BY <1>12 DEF Install
  <2>2. processed' = {} /\ UNCHANGED <<array, shas, agreed, agreedNow>>
    BY <1>12 DEF Install, UpdateChartInfoFiles, shown
  <2>3. ASSUME NEW x \in DOMAIN array \ revised'
        PROVE  x \notin revised /\ dir'[x].text = dir[x].text
    BY <1>1, <2>1 DEF TypeOK
  <2> QED BY <2>2, <2>3 DEF Agreed
<1>13. ASSUME NEW s \in Sets, Delete(s) PROVE Agreed'
  <2>1. /\ \A x \in Sets : dir'[x].text = dir[x].text /\ (dir'[x].there => dir[x].there)
        /\ DOMAIN array \subseteq Sets /\ processed \subseteq Sets
    BY <1>1, <1>13 DEF Delete, Absent, TypeOK
  <2> QED BY <1>13, <2>1 DEF Delete, shown, Agreed, AcceptedAs, Waiting
<1>14. CASE UNCHANGED vars
  BY <1>14 DEF vars, shown, Agreed, AcceptedAs, Waiting
<1> QED BY <1>2, <1>3, <1>4, <1>5, <1>6, <1>7, <1>8, <1>9, <1>10, <1>11, <1>12, <1>13,
           <1>14 DEF Next

LEMMA AgreedIsEnough == ASSUME Kept, Agreed PROVE AcceptedBeforeOpened
<1> SUFFICES ASSUME NEW s \in Sets, LetsThrough(s), ~Changed(s), ~Waiting(s)
             PROVE  Accepted(s)
  BY DEF AcceptedBeforeOpened
<1>1. TypeOK /\ processed \subseteq DOMAIN array /\ Info(s) \in Policies
  BY DirTyped DEF Kept
<1>2. /\ s \notin revised /\ Considered(s, Info(s)).policy = Info(s)
      /\ dir[s].there /\ ~rejected
  BY DEF Changed, LetsThrough
<1>3. AcceptedAs(s, Info(s))
  <2>1. CASE s \in processed
    BY <1>1, <1>2, <2>1, AgreedIs DEF Promise, Considered
  <2>2. CASE s \notin processed /\ ~Required(Considered(s, Info(s)))
    BY <1>1, <1>2, <2>2, NotRequired
  <2>3. CASE s \notin processed /\ Required(Considered(s, Info(s)))
    BY <1>2, <2>3 DEF LetsThrough, MustShow, Knows, Sha, Agreed, AcceptedAs
  <2> QED BY <2>1, <2>2, <2>3
<1> QED BY <1>3 DEF Accepted, AcceptedAs

\* If there is a window whenever a licence must be shown, no chart is opened
\* before its licence was accepted as its entry asks for, for any sets, any
\* texts, however they are shared, any number of dialogs, refusals, crashes
\* and new editions (processChartinfo, ShowEULA, ShowAlwaysEULAs).
THEOREM NotOpenedUnaccepted == ASSUME CanvasAtStart PROVE Spec => []AcceptedBeforeOpened
<1>1. Init => Agreed
  BY DEF Init, Agreed, Empty
<1>2. Kept /\ Agreed /\ [Next]_vars => Agreed'
  BY AgreedStep
<1>3. Kept /\ Agreed => AcceptedBeforeOpened
  BY AgreedIsEnough
<1> QED BY <1>1, <1>2, <1>3, AlwaysKept, PTL DEF Spec
=============================================================================
