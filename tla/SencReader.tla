----------------------------- MODULE SencReader -----------------------------
(***************************************************************************)
(* Opening a chart: Init of oesuChart, oeuSENCChart and Chart_oeuRNC, the  *)
(* reading of the SENC by Osenc::ingestHeader and ingest200, and the       *)
(* search for the user key by validateUserKey, over a server that may be   *)
(* slow, die and be started again (SencServer).                            *)
(***************************************************************************)
EXTENDS SencServer, FiniteSets

CONSTANTS Charts,   \* charts, each of a chartset of its own
          NoChart,
          Library,  \* the assignments of files to charts considered
          FailLimit \* bound: failures after which a chart is given up (2 in the code)
ASSUME SencReaderAssumption == NoChart \notin Charts /\ FailLimit \in Nat

(***************************************************************************)
(* The files.  permit says what a key from the key lists is good for (a    *)
(* raster chart may need the second one), hint which set's UserKey         *)
(* Chartinfo.txt names.  A feature of a class that is not known has no     *)
(* object.                                                                 *)
(***************************************************************************)
Kinds == {"oesu", "oesenc", "raster"}
IsFile(f) ==
  /\ f.kind \in Kinds /\ f.permit \in {"right", "second", "wrong", "none"}
  /\ f.hint \in Charts \cup {NoChart}
  /\ {f.expired, f.cancelled, f.compatible} \subseteq BOOLEAN
  /\ f.covr \in Nat /\ f.features \in Seq([id : Nat, known : BOOLEAN])
ASSUME LibraryAssumption == \A l \in Library : \A c \in Charts : IsFile(l[c])

VARIABLES file,      \* the assignment
          chart,     \* the chart being opened, or opened last
          mode,      \* "header", "full"
          phase,     \* what the Init under way is doing
          at,        \* ... in or before which of its readings
          n,         \* retries of that
          ret,       \* what the reading returned
          got,       \* the Osenc object's edition, coverage and objects
          userKey,   \* g_UserKey: the set it belongs to
          hintTaken, \* g_bUserKeyHintTaken
          failCount, \* chartFailCount
          outcome,   \* what the last Init returned
          faults     \* what went wrong with the server in this Init: see Hurt

readerVars == <<file, chart, mode, phase, at, n, ret, got, userKey, hintTaken,
                failCount, outcome, faults>>
vars == <<serverVars, readerVars>>

F == file[chart]
Full == at \in {"f1", "f2"}
Nothing == [edition |-> "", covr |-> 0, objs |-> <<>>, obj |-> 0]

Init ==
  /\ ServerInit
  /\ file \in Library
  /\ chart = NoChart /\ mode = "header" /\ phase = "idle" /\ at = "h1" /\ n = 0
  /\ ret = "ok"
  /\ got = Nothing /\ outcome = "none" /\ faults = 0
  /\ userKey = NoChart /\ hintTaken = FALSE
  /\ failCount = [c \in Charts |-> 0]

(***************************************************************************)
(* What the server answers.                                                *)
(***************************************************************************)
Rec(t, v) == [t |-> t, v |-> v]
Header == <<Rec("edition", IF F.cancelled THEN "0" ELSE "1")>>
            \o [i \in 1..F.covr |-> Rec("covr", i)]
Body(m) == [i \in 1..m |-> Rec(IF i % 2 = 1 THEN "feature" ELSE "part",
                               F.features[(i + 1) \div 2])]
BodyLength == IF Full THEN 2 * Len(F.features) ELSE IF F.features = <<>> THEN 0 ELSE 1
Version(v) == <<Rec("version", v)>>
Contents == IF F.compatible THEN Version("good") \o Header \o Body(BodyLength)
            ELSE Version("bad")

RightKey ==
  CASE F.kind = "oesenc" -> userKey = chart
    [] F.kind = "oesu" -> F.permit = "right"
    [] OTHER -> F.permit = IF at = "r1" THEN "right" ELSE "second"

Answer ==
  CASE F.kind = "raster" ->
         IF RightKey THEN <<Rec("code", "0"), Rec("strings", 5)>> ELSE <<Rec("code", "1")>>
    [] F.kind = "oesu" ->
         IF F.expired THEN <<Rec("status", "expired")>>
         ELSE IF ~RightKey THEN <<Rec("status", "refused")>>
         ELSE <<Rec("status", "ok")>> \o Contents
    [] OTHER -> IF RightKey THEN Contents ELSE Version("1024")

(***************************************************************************)
(* The course of an Init: probes and readings, one after the other.        *)
(*   h1, h2  ingestHeader                f1, f2  ingest200                 *)
(*   k1..k4  validateUserKey             r1, r2  oernc_inStream            *)
(***************************************************************************)
Goto(p, a) == phase' = p /\ at' = a /\ n' = 0

Finish(result) ==
  /\ phase' = "idle" /\ n' = 0 /\ ret' = "ok" /\ outcome' = result
  /\ IF F.kind # "oesenc" THEN UNCHANGED <<hintTaken, failCount>>
     ELSE /\ hintTaken' = (hintTaken /\ result = "ok")
          /\ failCount' = [failCount EXCEPT ![chart] =
                             IF result = "ok" THEN 0 ELSE @ + 1]
  /\ UNCHANGED <<serverVars, file, chart, mode, at, got, userKey, faults>>

First(c, m) == IF file[c].kind = "raster" THEN "r1"
               ELSE IF m = "full" THEN "f1"
               ELSE IF file[c].kind = "oesenc" THEN "k1" ELSE "h1"

\* A failure that a retry is meant for, and one that nothing is.
Hurt(k) == faults' = IF faults + k > 2 THEN 2 ELSE faults + k

HasKey(c) == file[c].kind # "oesu" \/ file[c].permit # "none"
Blacklisted(c) == failCount[c] > FailLimit

OpenChart(c, m) ==
  /\ phase = "idle"
  /\ chart' = c /\ mode' = m /\ at' = First(c, m) /\ n' = 0 /\ got' = Nothing
  /\ faults' = 0 /\ req' = NoReq /\ pos' = 0
  /\ IF Blacklisted(c) \/ ~HasKey(c)
     THEN phase' = "idle" /\ outcome' = "remove" /\ UNCHANGED <<userKey, hintTaken>>
     ELSE /\ phase' = "probe" /\ outcome' = "none"
          /\ IF file[c].kind = "oesenc" /\ ~hintTaken
                  /\ file[c].hint # NoChart
             THEN userKey' = file[c].hint /\ hintTaken' = TRUE \* processUserKeyHint
             ELSE UNCHANGED <<userKey, hintTaken>>
  /\ UNCHANGED <<up, starting, late, file, ret, failCount>>

\* validate_SENC_server.
Probed == phase' = "open" /\ n' = 0
ProbeStep ==
  /\ phase = "probe"
  /\ \/ Answered /\ Probed /\ Hurt(0)
     \/ /\ ProbeFails(n)
        /\ IF n = LastProbe THEN Probed /\ Hurt(2) ELSE phase' = phase /\ n' = n + 1 /\ Hurt(0)
     \/ StartServer(n) /\ phase' = phase /\ n' = n + 1 /\ Hurt(0)
     \/ StartFails(n) /\ Probed /\ Hurt(2)
  /\ UNCHANGED <<file, chart, mode, at, ret, got, userKey, hintTaken, failCount, outcome>>

(***************************************************************************)
(* One reading.                                                            *)
(***************************************************************************)
Still == UNCHANGED <<file, chart, mode, at, userKey, hintTaken, failCount, outcome>>
Returns(r) == phase' = "returned" /\ ret' = r /\ n' = 0
Goes(p) == phase' = p /\ n' = 0 /\ UNCHANGED ret

\* Osenc_instream::Open, oernc_inStream::Open.
CanOpen == phase = "open" /\ ~(F.kind = "raster" /\ F.permit = "none")
Open == /\ CanOpen /\ Send(Answer)
        /\ Goes(IF F.kind = "raster" THEN "blocked" ELSE "verify")
        /\ Hurt(0) /\ UNCHANGED got /\ Still

\* ingest200 does not look at the second failure, and verifies a record that
\* it has not read.
Unread == {"corrupt", "signature", "expired", "version", "ok"}
OpenFails ==
  /\ CanOpen /\ up = 0
  /\ IF F.kind # "raster" /\ n = 0 THEN n' = 1 /\ Hurt(0) /\ UNCHANGED <<phase, ret>>
     ELSE Hurt(1) /\ \E r \in IF Full THEN Unread ELSE {"notfound"} : Returns(r)
  /\ UNCHANGED <<serverVars, got>> /\ Still

\* The key of a raster chart is looked for after the probing.
NoRasterKey == /\ phase = "open" /\ F.kind = "raster" /\ F.permit = "none"
               /\ Finish("remove")

\* The private FIFO of a raster chart is opened when the server opens it.
Unblock == /\ phase = "blocked" /\ req.st \in {"open", "cut"}
           /\ Goes("load")
           /\ UNCHANGED <<serverVars, got, faults>> /\ Still

\* oernc_inStream::Load: the FIFO blocks as long as the server has it open.
Load ==
  /\ phase = "load"
  /\ \/ /\ Takes /\ Hurt(0)
        /\ IF Record = Rec("code", "1") THEN Returns("corrupt")
           ELSE IF pos' = Len(req.answer) THEN Returns("ok") ELSE Goes(phase)
     \/ req.st = "cut" /\ Misses /\ Hurt(1) /\ Returns("corrupt")
  /\ UNCHANGED got /\ Still

\* verifySENC: a server status, from newer charts, then the version.
Verdict ==
  CASE Record.v = "expired" -> "expired"
    [] Record.v \in {"refused", "1024"} -> "signature"
    [] OTHER -> "version"
Verify ==
  /\ phase = "verify"
  /\ \/ /\ Takes /\ Hurt(0)
        /\ CASE Record = Rec("status", "ok") -> Goes("verify")
             [] Record = Rec("version", "good") -> Goes("read")
             [] OTHER -> Returns(Verdict)
     \/ /\ Misses
        /\ IF pos = 0 /\ n = 0 THEN n' = 1 /\ Hurt(0) /\ UNCHANGED <<phase, ret>>
           ELSE Hurt(1) /\ Returns("corrupt")
  /\ UNCHANGED got /\ Still

\* The records of the header, as ingestHeader keeps them.
HeaderRecord ==
  CASE Record.t = "edition" -> [got EXCEPT !.edition = Record.v]
    [] Record.t = "covr" -> [got EXCEPT !.covr = @ + 1]
    [] OTHER -> got

\* ingest200: a feature begins an object, parts are added to the last one.
NewObject == Append(got.objs, [id |-> Record.v.id, parts |-> <<>>])
AddFeatureLate == [got EXCEPT !.objs = NewObject, !.obj = Len(got.objs)]
AddFeature == [got EXCEPT !.objs = NewObject, !.obj = Len(NewObject)]
AddPart == [got EXCEPT !.objs[got.obj].parts = Append(@, Record.v.id)]
FullRecord ==
  CASE Record.t = "edition" -> [got EXCEPT !.edition = Record.v]
    [] Record.t = "feature" /\ Record.v.known -> AddFeature
    [] Record.t = "part" /\ got.obj # 0 -> AddPart
    [] OTHER -> got

\* Both end without an error when nothing more comes.
EndedBad == Returns("corrupt")
Ended == Returns("ok")
Read ==
  /\ phase = "read"
  /\ \/ /\ Takes /\ Hurt(0)
        /\ got' = IF Full THEN FullRecord ELSE HeaderRecord
        /\ IF ~Full /\ Record.t = "feature" THEN Ended ELSE Goes(phase)
     \/ Misses /\ Hurt(IF AtEnd THEN 0 ELSE 2) /\ Ended /\ UNCHANGED got
  /\ Still

(***************************************************************************)
(* What follows a reading.                                                 *)
(***************************************************************************)
\* The codes of Osenc are returned as if they were PI_InitReturn's.
Cast(r) == CASE r = "notfound" -> "retry" [] r = "version" -> "remove" [] OTHER -> r
KeyTrouble == ret \in {"signature", "corrupt"}
Cancelled == got.edition = "0"

Then(p, a, g) == /\ Goto(p, a) /\ got' = g /\ ret' = "ok"
                 /\ UNCHANGED <<serverVars, file, chart, mode, hintTaken,
                                failCount, outcome, faults>>
Again(p, a) == Then(p, a, got) /\ UNCHANGED userKey

\* oesuChart and eSENCChart::CreateHeaderDataFromeSENC: the retry reads into
\* the same Osenc object.
HeaderReturns ==
  /\ at = "h1"
  /\ \/ F.kind = "oesu" /\ Cancelled /\ Finish("noerror")
     \/ /\ ~(F.kind = "oesu" /\ Cancelled)
        /\ IF ret # "ok" THEN Again("probe", "h2") ELSE Finish("ok")
HeaderReturnsOn == at = "h2" /\ IF ret # "ok" THEN Again("probe", "h2") ELSE Finish("ok")
HeaderReturnsAgain ==
  /\ at = "h2"
  /\ Finish(IF F.kind = "oesu" /\ ret = "expired" THEN "remove" ELSE Cast(ret))

\* BuildRAZFromSENCFile and PostInit.
FullResult(r) ==
  IF r = "ok" THEN "ok"
  ELSE IF F.kind = "oesenc" THEN "retry"
  ELSE IF r = "expired" THEN "remove" ELSE r
FullReturns ==
  /\ at = "f1"
  /\ IF KeyTrouble /\ F.kind = "oesenc"
     THEN Then("open", "k1", Nothing) /\ UNCHANGED userKey
     ELSE Finish(FullResult(IF KeyTrouble \/ ret = "expired" THEN ret
                            ELSE IF Cancelled THEN "remove" ELSE "ok"))
FullReturnsAgain ==
  /\ at = "f2"
  /\ Finish(FullResult(IF ret # "ok" THEN ret ELSE IF Cancelled THEN "remove" ELSE "ok"))

\* validateUserKey.
KeepKey == userKey
ChartinfoKey == IF F.hint = NoChart THEN userKey ELSE F.hint
KeyValid ==
  Then("open", IF mode = "header" THEN "h1" ELSE "f2", Nothing) /\ UNCHANGED userKey
KeyReturns ==
  \/ /\ at \in {"k1", "k2", "k3", "k4"}
     /\ IF at = "k1" THEN ~KeyTrouble ELSE ret = "ok"
     /\ KeyValid
  \/ at = "k1" /\ KeyTrouble /\ Again("open", "k2")
  \/ at = "k2" /\ ret # "ok" /\ Again("probe", "k3")
  \/ /\ at = "k3" /\ ret # "ok"
     /\ userKey' = ChartinfoKey
     /\ Then("probe", "k4", got)
  \/ /\ at = "k4" /\ ret # "ok"
     /\ Finish(IF mode = "header" THEN "remove" ELSE FullResult("signature"))

\* Chart_oeuRNC::Init, with the second key.
RasterReturns ==
  \/ at = "r1" /\ IF ret # "ok" THEN Again("probe", "r2") ELSE Finish("ok")
  \/ at = "r2" /\ Finish(IF ret # "ok" THEN "remove" ELSE "ok")

Return ==
  /\ phase = "returned"
  /\ \/ HeaderReturns \/ HeaderReturnsAgain \/ FullReturns \/ FullReturnsAgain
     \/ KeyReturns \/ RasterReturns

Client == \/ ProbeStep \/ Open \/ OpenFails \/ NoRasterKey \/ Unblock \/ Load \/ Verify \/ Read
          \/ Return
Server == (Serve \/ Dies) /\ UNCHANGED readerVars

\* OpenCPN ends: all is forgotten but the configuration, and any server left.
Quit == /\ phase = "idle" /\ Shutdown
        /\ chart' = NoChart /\ mode' = "header" /\ at' = "h1" /\ n' = 0 /\ ret' = "ok"
        /\ got' = Nothing /\ outcome' = "none" /\ hintTaken' = FALSE
        /\ failCount' = [c \in Charts |-> 0] /\ faults' = 0
        /\ UNCHANGED <<file, phase, userKey>>

Next == \/ Client \/ Server \/ Quit
        \/ \E c \in Charts, m \in {"header", "full"} : OpenChart(c, m)

Spec == Init /\ [][Next]_vars

\* The plugin goes on, and a server that is there answers some time.
FairSpec == Spec /\ WF_vars(Client) /\ WF_vars(Serve /\ UNCHANGED readerVars)

(***************************************************************************)
(* Properties.                                                             *)
(***************************************************************************)
Results == {"ok", "notfound", "corrupt", "signature", "expired", "version"}
TypeOK ==
  /\ ServerTypeOK
  /\ file \in Library /\ chart \in Charts \cup {NoChart} /\ userKey \in Charts \cup {NoChart}
  /\ mode \in {"header", "full"} /\ hintTaken \in BOOLEAN /\ faults \in 0..2
  /\ phase \in {"idle", "probe", "open", "blocked", "load", "verify", "read", "returned"}
  /\ at \in {"h1", "h2", "f1", "f2", "k1", "k2", "k3", "k4", "r1", "r2"}
  /\ n \in 0..LastProbe /\ ret \in Results
  /\ outcome \in {"none", "noerror", "retry", "remove"} \cup Results
  /\ phase # "idle" => chart \in Charts
  /\ failCount \in [Charts -> Nat]
  /\ got.obj \in 0..Len(got.objs)

KnownTo(k) == {i \in 1..k : F.features[i].known}
AllKnown == \A i \in DOMAIN F.features : F.features[i].known

\* The objects are those of the known ones of the first k features, in their order.
ObjectsOfFirst(k) ==
  /\ Len(got.objs) = Cardinality(KnownTo(k))
  /\ \A i \in KnownTo(k) : got.objs[Cardinality(KnownTo(i))].id = F.features[i].id

\* However often the header is read into one Osenc object, no part of the
\* coverage is in it twice (ingestHeader appends to m_AuxPtrArray).
CoverageOnce == chart # NoChart => got.covr <= F.covr

\* Wherever a full reading is cut off, the objects are the chart's first known
\* features, in their order; and if it has no others, each has its own
\* attributes and geometry and all but the last have them all (ingest200).
ObjectsArePrefix ==
  chart # NoChart =>
    /\ \E k \in 0..Len(F.features) : ObjectsOfFirst(k)
    /\ AllKnown => \A i \in DOMAIN got.objs :
                     \/ got.objs[i].parts = <<got.objs[i].id>>
                     \/ i = Len(got.objs) /\ got.objs[i].parts = <<>>

Permitted == CASE F.kind = "oesenc" -> F.hint = chart
               [] F.kind = "oesu" -> F.permit = "right" /\ ~F.expired
               [] OTHER -> F.permit \in {"right", "second"}
Good == Permitted /\ F.compatible /\ ~F.cancelled
Whole ==
  F.kind # "raster" =>
    IF mode = "header" THEN got.covr = F.covr
    ELSE /\ ObjectsOfFirst(Len(F.features))
         /\ AllKnown => \A i \in DOMAIN got.objs : got.objs[i].parts = <<got.objs[i].id>>

\* A chart that can be opened is opened, and whole, whichever set's key was in
\* use before and whatever became of the charts opened before: at once if the
\* server is well, and for the header of an oesu chart also if one reading fails
\* (the retry of CreateHeaderDataFromeSENC).  With a server that is well, no
\* other chart is opened.
RightOutcome ==
  phase = "idle" /\ outcome # "none" /\ ~Blacklisted(chart) =>
    /\ Good /\ faults <= (IF F.kind = "oesu" /\ mode = "header" THEN 1 ELSE 0)
         => outcome = "ok" /\ Whole
    /\ outcome = "ok" /\ faults = 0 => Permitted \/ userKey = chart

\* Init comes back to OpenCPN, unless the server dies between a request for a
\* raster chart and the opening of its FIFO (oernc_inStream::Load waits).
Returned == phase = "idle" \/ (phase = "blocked" /\ req.st = "lost")
InitReturns == phase # "idle" ~> Returned
=============================================================================
