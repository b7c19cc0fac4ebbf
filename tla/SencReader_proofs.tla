-------------------------- MODULE SencReader_proofs --------------------------
(***************************************************************************)
(* Of SencReader, for any charts, files and numbers of servers and probes: *)
(* a second server is started only if one was late; what a reading leaves  *)
(* in an Osenc object is what the chart has, wherever it was cut off; and  *)
(* what Init returns is right.                                             *)
(***************************************************************************)
EXTENDS SencReader, FiniteSetTheorems, SequenceTheorems, TLAPS

USE SencServerAssumption, SencReaderAssumption

(***************************************************************************)
(* The servers.  When the third probe has failed there was no process, and *)
(* none can have come, unless one was late.                                *)
(***************************************************************************)
Probing ==
  /\ up \in Nat /\ starting \in Nat /\ n \in Nat /\ late \in BOOLEAN
  /\ phase = "probe" /\ n \in 1..3 => late \/ up + starting = 0
ServerInv == Probing /\ OneServer

LEMMA LastProbeNat == LastProbe \in Nat /\ LastProbe > 3
  BY DEF LastProbe

LEMMA ProbingInit == Init => ServerInv
<1> SUFFICES ASSUME Init PROVE ServerInv OBVIOUS
<1>1. up = 0 /\ starting = 0 /\ n = 0 /\ late = FALSE BY DEF Init, ServerInit
<1>2. up \in Nat /\ starting \in Nat /\ n \in Nat /\ ~(up + starting > 1) /\ n \notin 1..3
  BY <1>1
<1>3. late \in BOOLEAN BY <1>1
<1> QED BY <1>2, <1>3, Zenon DEF ServerInv, Probing, OneServer

LEMMA ProbeKeeps ==
  ASSUME ServerInv, ProbeStep PROVE ServerInv'
<1> USE LastProbeNat DEF ServerInv, Probing, OneServer
<1>1. CASE Answered /\ Probed /\ Hurt(0)
  BY <1>1 DEF Answered, Probed, serverVars
<1>2. CASE ProbeFails(n) /\ n = LastProbe /\ Probed
  BY <1>2 DEF ProbeFails, Probed
<1>3. CASE ProbeFails(n) /\ n # LastProbe /\ phase' = phase /\ n' = n + 1
  <2>1. late \in BOOLEAN /\ late' \in BOOLEAN /\ (late => late')
    BY <1>3 DEF ProbeFails
  <2>2. ~late' => ~(up > 0) /\ ~(starting > 0 /\ (n < 3 \/ n = LastProbe))
    BY <1>3 DEF ProbeFails
  <2>3. n # 3 BY <1>3 DEF ProbeFails
  <2>4. n' \in 1..3 /\ ~late' => up + starting = 0
    BY <1>3, <2>2, <2>3
  <2> QED BY <1>3, <2>1, <2>4 DEF ProbeFails
<1>4. CASE StartServer(n) /\ phase' = phase /\ n' = n + 1
  BY <1>4, phase = "probe" DEF StartServer, ProbeStep
<1>5. CASE StartFails(n) /\ Probed
  BY <1>5 DEF StartFails, Probed, serverVars
<1> QED BY <1>1, <1>2, <1>3, <1>4, <1>5 DEF ProbeStep

LEMMA ServerKeeps == ASSUME ServerInv, Server PROVE ServerInv'
<1> USE DEF ServerInv, Probing, OneServer
<1> UNCHANGED <<phase, n>> BY DEF Server, readerVars
<1>1. CASE Ready BY <1>1 DEF Ready
<1>2. CASE Accept BY <1>2 DEF Accept
<1>3. CASE Feed BY <1>3 DEF Feed
<1>4. CASE Dies BY <1>4 DEF Dies
<1> QED BY <1>1, <1>2, <1>3, <1>4 DEF Server, Serve

LEMMA ReadingKeeps ==
  ASSUME ServerInv,
         Open \/ OpenFails \/ NoRasterKey \/ Unblock \/ Load \/ Verify \/ Read \/ Return
  PROVE  ServerInv'
<1> USE DEF ServerInv, Probing, OneServer
<1>1. UNCHANGED <<up, starting, late>>
  BY DEF Open, Send, OpenFails, NoRasterKey, Unblock, Load, Verify, Read, Return,
         HeaderReturns, HeaderReturnsAgain, FullReturns, FullReturnsAgain, KeyReturns,
         KeyValid, RasterReturns, Finish, Again, Then, Takes, Misses, serverVars
<1>2. n' \in {0, 1} /\ (phase' = "probe" => n' = 0)
  <2>1. CASE Open BY <2>1 DEF Open, Goes
  <2>2. CASE OpenFails BY <2>2 DEF OpenFails, Returns, CanOpen
  <2>3. CASE NoRasterKey BY <2>3 DEF NoRasterKey, Finish
  <2>4. CASE Unblock BY <2>4 DEF Unblock, Goes
  <2>5. CASE Load BY <2>5 DEF Load, Goes, Returns
  <2>6. CASE Verify BY <2>6 DEF Verify, Goes, Returns
  <2>7. CASE Read BY <2>7 DEF Read, Goes, Ended, Returns
  <2>8. CASE Return
    BY <2>8 DEF Return, HeaderReturns, HeaderReturnsAgain, FullReturns, FullReturnsAgain,
                KeyReturns, KeyValid, RasterReturns, Finish, Again, Then, Goto
  <2> QED BY <2>1, <2>2, <2>3, <2>4, <2>5, <2>6, <2>7, <2>8
<1> QED BY <1>1, <1>2

LEMMA ServerInvStep == ASSUME ServerInv, [Next]_vars PROVE ServerInv'
<1> USE DEF ServerInv, Probing, OneServer
<1>1. CASE Client BY <1>1, ProbeKeeps, ReadingKeeps DEF Client
<1>2. CASE Server BY <1>2, ServerKeeps
<1>3. CASE Quit BY <1>3 DEF Quit, Shutdown
<1>4. ASSUME NEW c \in Charts, NEW m \in {"header", "full"}, OpenChart(c, m) PROVE ServerInv'
  BY <1>4 DEF OpenChart
<1>5. CASE UNCHANGED vars BY <1>5 DEF vars, serverVars, readerVars
<1> QED BY <1>1, <1>2, <1>3, <1>4, <1>5 DEF Next

\* validate_SENC_server starts a second process only when one was too slow for
\* a probe, whatever charts are opened and whenever servers die.
THEOREM OneServerUnlessLate == Spec => []OneServer
<1>1. ServerInv /\ [Next]_vars => ServerInv' BY ServerInvStep
<1>2. ServerInv => OneServer BY DEF ServerInv
<1> QED BY ProbingInit, <1>1, <1>2, PTL DEF Spec

(***************************************************************************)
(* The files and the answers.                                              *)
(***************************************************************************)
Features == [id : Nat, known : BOOLEAN]

LEMMA FileFacts ==
  ASSUME file \in Library, chart \in Charts
  PROVE  /\ F.kind \in Kinds /\ F.permit \in {"right", "second", "wrong", "none"}
         /\ F.hint \in Charts \cup {NoChart}
         /\ F.expired \in BOOLEAN /\ F.cancelled \in BOOLEAN /\ F.compatible \in BOOLEAN
         /\ F.covr \in Nat /\ F.features \in Seq(Features) /\ Len(F.features) \in Nat
         /\ BodyLength \in Nat
<1>1. IsFile(file[chart]) BY LibraryAssumption
<1>2. F.features \in Seq(Features) /\ F.covr \in Nat BY <1>1 DEF F, IsFile, Features
<1>3. Len(F.features) \in Nat BY <1>2
<1> QED BY <1>1, <1>2, <1>3 DEF F, IsFile, BodyLength

Edition == IF F.cancelled THEN "0" ELSE "1"
PartOf(i) == F.features[(i + 1) \div 2]
Codes == {"good", "bad", "1024", "0", "1", "ok", "expired", "refused"}
Tags == {"version", "edition", "covr", "feature", "part", "status", "code", "strings"}
Records == [t : Tags, v : Codes \cup Nat \cup {PartOf(i) : i \in Nat}]

\* What a compatible chart has after its version.
BodyItem(i) == Rec(IF i % 2 = 1 THEN "feature" ELSE "part", PartOf(i))
Item(q) == IF q = 0 THEN Rec("edition", Edition)
           ELSE IF q <= F.covr THEN Rec("covr", q) ELSE BodyItem(q - F.covr)
Total == 1 + F.covr + BodyLength

LEMMA OneRecord ==
  \A t \in Tags, v \in Codes \cup Nat :
    /\ Rec(t, v) \in Records /\ <<Rec(t, v)>> \in Seq(Records)
    /\ Len(<<Rec(t, v)>>) = 1 /\ <<Rec(t, v)>>[1] = Rec(t, v)
<1> SUFFICES ASSUME NEW t \in Tags, NEW v \in Codes \cup Nat
             PROVE  Rec(t, v) \in Records
  OBVIOUS
<1> QED BY DEF Rec, Records

\* Two sequences, one after the other.
LEMMA Joined ==
  ASSUME NEW S, NEW s \in Seq(S), NEW r \in Seq(S)
  PROVE  /\ s \o r \in Seq(S) /\ Len(s \o r) = Len(s) + Len(r)
         /\ \A i \in 1..Len(s) : (s \o r)[i] = s[i]
         /\ \A i \in 1..Len(r) : (s \o r)[Len(s) + i] = r[i]
  OBVIOUS

LEMMA HeaderIs ==
  ASSUME F.covr \in Nat
  PROVE  /\ Header \in Seq(Records) /\ Len(Header) = 1 + F.covr
         /\ Header[1] = Rec("edition", Edition)
         /\ \A q \in 1..F.covr : Header[1 + q] = Rec("covr", q)
<1> DEFINE cs == [i \in 1..F.covr |-> Rec("covr", i)]
           e == <<Rec("edition", Edition)>>
<1>1. cs \in Seq(Records) /\ Len(cs) = F.covr /\ \A q \in 1..F.covr : cs[q] = Rec("covr", q)
  <2>1. \A i \in 1..F.covr : Rec("covr", i) \in Records BY OneRecord DEF Tags
  <2> QED BY <2>1
<1>2. e \in Seq(Records) /\ Len(e) = 1 /\ e[1] = Rec("edition", Edition)
  BY OneRecord DEF Edition, Codes, Tags
<1>3. Header = e \o cs BY DEF Header, Edition
<1> HIDE DEF cs, e
<1>4. /\ e \o cs \in Seq(Records) /\ Len(e \o cs) = 1 + F.covr /\ (e \o cs)[1] = e[1]
      /\ \A i \in 1..F.covr : (e \o cs)[1 + i] = cs[i]
  <2>1. /\ e \o cs \in Seq(Records) /\ Len(e \o cs) = Len(e) + Len(cs)
        /\ \A i \in 1..Len(e) : (e \o cs)[i] = e[i]
        /\ \A i \in 1..Len(cs) : (e \o cs)[Len(e) + i] = cs[i]
    BY <1>1, <1>2, Joined
  <2>2. 1 \in 1..Len(e) BY <1>2
  <2> QED BY <1>1, <1>2, <2>1, <2>2
<1> QED BY <1>1, <1>2, <1>3, <1>4

LEMMA BodyIs ==
  ASSUME NEW m \in Nat
  PROVE  /\ Body(m) \in Seq(Records) /\ Len(Body(m)) = m
         /\ \A i \in 1..m : Body(m)[i] = BodyItem(i)
<1>1. Body(m) = [i \in 1..m |-> BodyItem(i)] BY DEF Body, BodyItem, PartOf
<1>2. \A i \in 1..m : BodyItem(i) \in Records
  <2> TAKE i \in 1..m
  <2>1. PartOf(i) \in {PartOf(j) : j \in Nat} OBVIOUS
  <2> QED BY <2>1 DEF BodyItem, Rec, Records, Tags
<1> QED BY <1>1, <1>2

LEMMA ContentsIs ==
  ASSUME file \in Library, chart \in Charts
  PROVE  /\ Contents \in Seq(Records)
         /\ ~F.compatible => Contents = <<Rec("version", "bad")>>
         /\ F.compatible => /\ Len(Contents) = 1 + Total /\ Contents[1] = Rec("version", "good")
                            /\ \A q \in 0..(Total - 1) : Contents[2 + q] = Item(q)
<1> DEFINE v == Version("good")
           b == Body(BodyLength)
           w == v \o Header
           z == w \o b
<1>0. F.covr \in Nat /\ BodyLength \in Nat /\ Total \in Nat BY FileFacts DEF Total
<1>1. /\ v \in Seq(Records) /\ Len(v) = 1 /\ v[1] = Rec("version", "good")
      /\ Version("bad") \in Seq(Records)
  BY OneRecord DEF Version, Codes, Tags
<1>2. b \in Seq(Records) /\ Len(b) = BodyLength /\ \A i \in 1..BodyLength : b[i] = BodyItem(i)
  BY <1>0, BodyIs
<1>h. /\ Header \in Seq(Records) /\ Len(Header) = 1 + F.covr
      /\ Header[1] = Rec("edition", Edition)
      /\ \A q \in 1..F.covr : Header[1 + q] = Rec("covr", q)
  BY <1>0, HeaderIs
<1> HIDE DEF v, b
<1>3. /\ w \in Seq(Records) /\ Len(w) = 2 + F.covr /\ w[1] = v[1]
      /\ \A i \in 1..Len(Header) : w[1 + i] = Header[i]
  <2>1. /\ w \in Seq(Records) /\ Len(w) = Len(v) + Len(Header)
        /\ \A i \in 1..Len(v) : w[i] = v[i]
        /\ \A i \in 1..Len(Header) : w[Len(v) + i] = Header[i]
    <3>1. v \in Seq(Records) /\ Header \in Seq(Records) BY <1>1, <1>h
    <3> QED BY <3>1, Joined DEF w
  <2>2. 1 \in 1..Len(v) BY <1>1
  <2> QED BY <1>0, <1>1, <1>h, <2>1, <2>2
<1> HIDE DEF w
<1>4. /\ z \in Seq(Records) /\ Len(z) = 1 + Total
      /\ \A i \in 1..Len(w) : z[i] = w[i]
      /\ \A i \in 1..BodyLength : z[2 + F.covr + i] = b[i]
  <2>1. /\ z \in Seq(Records) /\ Len(z) = Len(w) + Len(b)
        /\ \A i \in 1..Len(w) : z[i] = w[i]
        /\ \A i \in 1..Len(b) : z[Len(w) + i] = b[i]
    <3>1. w \in Seq(Records) /\ b \in Seq(Records) BY <1>2, <1>3
    <3> HIDE DEF z
    <3> QED BY <3>1, Joined DEF z
  <2> HIDE DEF z
  <2>2. Len(w) = 2 + F.covr /\ Len(b) = BodyLength BY <1>2, <1>3
  <2>3. 2 + F.covr + BodyLength = 1 + Total BY <1>0 DEF Total
  <2> QED BY <2>1, <2>2, <2>3
<1> HIDE DEF z
<1>5. ASSUME NEW q \in 0..(Total - 1) PROVE z[2 + q] = Item(q)
  <2>1. CASE q = 0
    <3>1. 2 \in 1..Len(w) /\ 1 \in 1..Len(Header) BY <1>0, <1>3, <1>h
    <3>2. z[2] = w[2] /\ w[2] = Header[1] BY <1>3, <1>4, <3>1
    <3> QED BY <2>1, <3>2, <1>h DEF Item
  <2>2. CASE q # 0 /\ q <= F.covr
    <3>0. q \in Nat /\ q > 0 BY <1>0, <2>2
    <3>a. Len(w) = 2 + F.covr /\ Len(Header) = 1 + F.covr BY <1>3, <1>h
    <3>b. q <= F.covr /\ F.covr \in Nat BY <1>0, <2>2
    <3>1. 2 + q \in 1..Len(w) /\ 1 + q \in 1..Len(Header) /\ q \in 1..F.covr
      BY <3>0, <3>a, <3>b
    <3>2. z[2 + q] = w[2 + q] /\ w[1 + (1 + q)] = Header[1 + q] BY <1>3, <1>4, <3>1
    <3>3. 1 + (1 + q) = 2 + q OBVIOUS
    <3> QED BY <2>2, <3>1, <3>2, <3>3, <1>h DEF Item
  <2>3. CASE q > F.covr
    <3>1. q - F.covr \in 1..BodyLength BY <1>0, <2>3 DEF Total
    <3>2. 2 + F.covr + (q - F.covr) = 2 + q BY <1>0
    <3>3. z[2 + q] = b[q - F.covr] BY <1>4, <3>1, <3>2
    <3>4. b[q - F.covr] = BodyItem(q - F.covr) BY <1>2, <3>1
    <3>5. q # 0 /\ ~(q <= F.covr) BY <1>0, <2>3
    <3> QED BY <3>3, <3>4, <3>5 DEF Item
  <2> QED BY <1>0, <2>1, <2>2, <2>3
<1>6. F.compatible => Contents = z BY DEF Contents, z, w, b, v
<1>7. z[1] = Rec("version", "good")
  <2>1. 1 \in 1..Len(w) BY <1>0, <1>3
  <2> QED BY <1>1, <1>3, <1>4, <2>1
<1>8. ~F.compatible => Contents = <<Rec("version", "bad")>> BY DEF Contents, Version
<1> QED BY <1>1, <1>4, <1>5, <1>6, <1>7, <1>8 DEF Version

\* The key is the right one, and the chart has not expired.
Fits == RightKey /\ (F.kind = "oesu" => ~F.expired)
\* The records before the edition: a status, from newer charts, and the version.
Prelude == IF F.kind = "oesu" THEN 2 ELSE 1
VersionItem == Rec("version", IF F.compatible THEN "good" ELSE "bad")

ChartAnswer ==
  /\ Prelude = 2 => Answer[1] = Rec("status", "ok")
  /\ Answer[Prelude] = VersionItem
  /\ ~F.compatible => Len(Answer) = Prelude
  /\ F.compatible => /\ Len(Answer) = Prelude + Total
                     /\ \A q \in 0..(Total - 1) : Answer[Prelude + 1 + q] = Item(q)

LEMMA RefusalIs ==
  ASSUME file \in Library, chart \in Charts, ~Fits
  PROVE  /\ Answer \in Seq(Records)
         /\ F.kind = "raster" => Answer = <<Rec("code", "1")>>
         /\ F.kind = "oesenc" => Answer = <<Rec("version", "1024")>>
         /\ F.kind = "oesu" => \/ Answer = <<Rec("status", "expired")>>
                               \/ Answer = <<Rec("status", "refused")>>
<1>1. F.kind \in {"raster", "oesenc", "oesu"} BY FileFacts DEF Kinds
<1>2. CASE F.kind = "raster"
  <2>1. Answer = <<Rec("code", "1")>> BY <1>2 DEF Answer, Fits
  <2> QED BY <1>2, <2>1, OneRecord DEF Tags, Codes
<1>3. CASE F.kind = "oesenc"
  <2>1. Answer = <<Rec("version", "1024")>> BY <1>3 DEF Answer, Fits, Version
  <2> QED BY <1>3, <2>1, OneRecord DEF Tags, Codes
<1>4. CASE F.kind = "oesu"
  <2>1. \/ Answer = <<Rec("status", "expired")>>
        \/ Answer = <<Rec("status", "refused")>>
    BY <1>4 DEF Answer, Fits
  <2> QED BY <1>4, <2>1, OneRecord DEF Tags, Codes
<1> QED BY <1>1, <1>2, <1>3, <1>4

LEMMA RasterIs ==
  ASSUME Fits, F.kind = "raster"
  PROVE  /\ Answer \in Seq(Records) /\ Len(Answer) = 2
         /\ Answer[1] = Rec("code", "0") /\ Answer[2] = Rec("strings", 5)
<1>1. Answer = <<Rec("code", "0"), Rec("strings", 5)>> BY DEF Answer, Fits
<1>2. Rec("code", "0") \in Records /\ Rec("strings", 5) \in Records
  BY OneRecord DEF Tags, Codes
<1> QED BY <1>1, <1>2

LEMMA ChartIs ==
  ASSUME file \in Library, chart \in Charts, Fits, F.kind # "raster"
  PROVE  Answer \in Seq(Records) /\ ChartAnswer
<1>1. /\ Contents \in Seq(Records)
      /\ ~F.compatible => Contents = <<Rec("version", "bad")>>
      /\ F.compatible => /\ Len(Contents) = 1 + Total /\ Contents[1] = Rec("version", "good")
                         /\ \A q \in 0..(Total - 1) : Contents[2 + q] = Item(q)
  BY ContentsIs
<1>0. F.kind \in {"raster", "oesenc", "oesu"} /\ Total \in Nat BY FileFacts DEF Kinds, Total
<1>2. CASE F.kind = "oesenc"
  <2>1. Answer = Contents /\ Prelude = 1 BY <1>2 DEF Answer, Fits, Prelude
  <2>2. \A q \in 0..(Total - 1) : 1 + 1 + q = 2 + q BY <1>0
  <2> QED BY <1>1, <2>1, <2>2 DEF ChartAnswer, VersionItem
<1>3. CASE F.kind = "oesu"
  <2> DEFINE s == <<Rec("status", "ok")>>
  <2>1. Answer = s \o Contents /\ Prelude = 2 BY <1>3 DEF Answer, Fits, Prelude
  <2>2. s \in Seq(Records) /\ Len(s) = 1 /\ s[1] = Rec("status", "ok")
    BY OneRecord DEF Tags, Codes
  <2> HIDE DEF s
  <2>3. /\ Answer \in Seq(Records) /\ Len(Answer) = Len(s) + Len(Contents)
        /\ \A i \in 1..Len(s) : Answer[i] = s[i]
        /\ \A i \in 1..Len(Contents) : Answer[Len(s) + i] = Contents[i]
    <3>1. s \in Seq(Records) /\ Contents \in Seq(Records) BY <1>1, <2>2
    <3>2. /\ s \o Contents \in Seq(Records) /\ Len(s \o Contents) = Len(s) + Len(Contents)
          /\ \A i \in 1..Len(s) : (s \o Contents)[i] = s[i]
          /\ \A i \in 1..Len(Contents) : (s \o Contents)[Len(s) + i] = Contents[i]
      BY <3>1, Joined
    <3> QED BY <2>1, <3>2
  <2>4. /\ Len(Answer) = 1 + Len(Contents) /\ Answer[1] = s[1]
        /\ \A i \in 1..Len(Contents) : Answer[1 + i] = Contents[i]
    <3>1. 1 \in 1..Len(s) BY <2>2
    <3> QED BY <2>2, <2>3, <3>1
  <2>5. CASE F.compatible
    <3>1. 1 \in 1..Len(Contents) /\ \A q \in 0..(Total - 1) : 2 + q \in 1..Len(Contents)
      BY <1>0, <1>1, <2>5
    <3>2. Answer[1 + 1] = Contents[1] BY <2>4, <3>1
    <3>3. \A q \in 0..(Total - 1) : Answer[1 + (2 + q)] = Item(q) BY <1>1, <2>4, <2>5, <3>1
    <3>4. \A q \in 0..(Total - 1) : 1 + (2 + q) = 2 + 1 + q BY <1>0
    <3>5. \A q \in 0..(Total - 1) : Answer[2 + 1 + q] = Item(q) BY <3>3, <3>4
    <3>6. Len(Answer) = 2 + Total BY <1>0, <1>1, <2>4, <2>5
    <3>7. Answer[2] = Contents[1] BY <3>2
    <3>8. Contents[1] = VersionItem BY <1>1, <2>5 DEF VersionItem
    <3>9. Answer[1] = Rec("status", "ok") BY <2>2, <2>4
    <3>10. ChartAnswer BY <2>1, <2>5, <3>5, <3>6, <3>7, <3>8, <3>9 DEF ChartAnswer
    <3> QED BY <2>3, <3>10
  <2>6. CASE ~F.compatible
    <3>1. Len(Contents) = 1 /\ Contents[1] = Rec("version", "bad") BY <1>1, <2>6
    <3>2. Len(Answer) = 2 /\ Answer[1 + 1] = Contents[1]
      <4>1. 1 \in 1..Len(Contents) BY <3>1
      <4>2. Answer[1 + 1] = Contents[1] BY <2>4, <4>1
      <4>3. Len(Answer) = 1 + 1 BY <2>4, <3>1
      <4> QED BY <4>2, <4>3
    <3> QED BY <2>1, <2>2, <2>3, <2>4, <2>6, <3>1, <3>2 DEF ChartAnswer, VersionItem
  <2> QED BY <2>5, <2>6
<1> QED BY <1>0, <1>2, <1>3

LEMMA AnswerTyped ==
  ASSUME file \in Library, chart \in Charts
  PROVE  Answer \in Seq(Records) /\ Len(Answer) \in Nat
<1>1. F.kind \in {"raster", "oesenc", "oesu"} BY FileFacts DEF Kinds
<1>2. Answer \in Seq(Records) BY <1>1, RefusalIs, RasterIs, ChartIs
<1> QED BY <1>2

(***************************************************************************)
(* The objects.  m records of features and parts have begun Begun(m) of    *)
(* the features.                                                           *)
(***************************************************************************)
Object == [id : Nat, parts : Seq(Nat)]
Begun(m) == (m + 1) \div 2
Parted(m) == AllKnown => \A i \in 1..Len(got.objs) :
               got.objs[i].parts = IF 2 * i <= m THEN <<got.objs[i].id>> ELSE <<>>
Objects(m) == ObjectsOfFirst(Begun(m)) /\ Parted(m)

LEMMA Halves ==
  ASSUME NEW m \in Nat
  PROVE  /\ m % 2 = 0 => /\ Begun(m) \in Nat /\ 2 * Begun(m) = m
                         /\ (m + 1) % 2 = 1 /\ Begun(m + 1) = Begun(m) + 1
         /\ m % 2 # 0 => /\ Begun(m) \in Nat \ {0} /\ 2 * Begun(m) = m + 1
                         /\ (m + 1) % 2 = 0 /\ Begun(m + 1) = Begun(m)
  BY DEF Begun

\* The known features among the first k.
LEMMA KnownFacts ==
  ASSUME NEW k \in Nat
  PROVE  /\ KnownTo(k) \subseteq 1..k /\ IsFiniteSet(KnownTo(k))
         /\ Cardinality(KnownTo(k)) \in Nat /\ Cardinality(KnownTo(k)) <= k
<1>1. KnownTo(k) \subseteq 1..k BY DEF KnownTo
<1>2. IsFiniteSet(1..k) /\ Cardinality(1..k) = k BY FS_Interval
<1> QED BY <1>1, <1>2, FS_Subset, FS_CardinalityType

LEMMA KnownNext ==
  ASSUME NEW k \in Nat
  PROVE  /\ F.features[k + 1].known =>
              /\ KnownTo(k + 1) = KnownTo(k) \cup {k + 1}
              /\ Cardinality(KnownTo(k + 1)) = Cardinality(KnownTo(k)) + 1
         /\ ~F.features[k + 1].known => KnownTo(k + 1) = KnownTo(k)
<1>1. 1..(k + 1) = (1..k) \cup {k + 1} OBVIOUS
<1>2. F.features[k + 1].known => KnownTo(k + 1) = KnownTo(k) \cup {k + 1}
  BY <1>1 DEF KnownTo
<1>3. ~F.features[k + 1].known => KnownTo(k + 1) = KnownTo(k)
  BY <1>1 DEF KnownTo
<1>4. k + 1 \notin KnownTo(k) BY DEF KnownTo
<1> QED BY <1>2, <1>3, <1>4, KnownFacts, FS_AddElement

LEMMA KnownBelow ==
  ASSUME NEW k \in Nat, NEW i \in KnownTo(k)
  PROVE  /\ i \in 1..k /\ Cardinality(KnownTo(i)) \in 1..Cardinality(KnownTo(k))
<1>1. i \in 1..k /\ i \in Nat /\ i # 0 BY DEF KnownTo
<1>2. KnownTo(i) \subseteq KnownTo(k) BY <1>1 DEF KnownTo
<1>3. Cardinality(KnownTo(i)) <= Cardinality(KnownTo(k))
  BY <1>1, <1>2, KnownFacts, FS_Subset
<1>4. {i} \subseteq KnownTo(i) BY <1>1 DEF KnownTo
<1>5. Cardinality({i}) = 1 /\ IsFiniteSet({i}) BY FS_Singleton
<1>6. 1 <= Cardinality(KnownTo(i)) BY <1>1, <1>4, <1>5, KnownFacts, FS_Subset
<1> QED BY <1>1, <1>3, <1>6, KnownFacts

LEMMA AllCounted ==
  ASSUME AllKnown, F.features \in Seq(Features), NEW k \in 0..Len(F.features)
  PROVE  Cardinality(KnownTo(k)) = k
<1>1. KnownTo(k) = 1..k BY DEF AllKnown, KnownTo
<1> QED BY <1>1, FS_Interval

LEMMA NoObjects ==
  ASSUME got.objs = <<>> PROVE Objects(0)
<1>1. KnownTo(0) = {} BY DEF KnownTo
<1>2. Cardinality(KnownTo(0)) = 0 BY <1>1, FS_EmptySet
<1> QED BY <1>1, <1>2 DEF Objects, ObjectsOfFirst, Parted, Begun

\* A feature begins.
LEMMA ObjectAdded ==
  ASSUME NEW k \in Nat, ObjectsOfFirst(k), got.objs \in Seq(Object), F' = F,
         F.features[k + 1].known,
         NEW o \in Object, o.id = F.features[k + 1].id, got'.objs = Append(got.objs, o)
  PROVE  ObjectsOfFirst(k + 1)'
<1>1. /\ Len(got'.objs) = Len(got.objs) + 1 /\ got'.objs[Len(got.objs) + 1] = o
      /\ Len(got.objs) \in Nat
      /\ \A j \in 1..Len(got.objs) : got'.objs[j] = got.objs[j]
  OBVIOUS
<1>2. /\ KnownTo(k + 1) = KnownTo(k) \cup {k + 1}
      /\ Cardinality(KnownTo(k + 1)) = Cardinality(KnownTo(k)) + 1
  BY KnownNext
<1>3. Len(got.objs) = Cardinality(KnownTo(k)) BY DEF ObjectsOfFirst
<1>4. ASSUME NEW i \in KnownTo(k + 1)
      PROVE  got'.objs[Cardinality(KnownTo(i))].id = F.features[i].id
  <2>1. CASE i = k + 1 BY <1>1, <1>2, <1>3, <2>1
  <2>2. CASE i \in KnownTo(k)
    <3>1. Cardinality(KnownTo(i)) \in 1..Len(got.objs) BY <1>3, <2>2, KnownBelow
    <3>2. got.objs[Cardinality(KnownTo(i))].id = F.features[i].id
      BY <2>2 DEF ObjectsOfFirst
    <3> QED BY <1>1, <3>1, <3>2
  <2> QED BY <1>2, <2>1, <2>2
<1>5. KnownTo(k + 1)' = KnownTo(k + 1) /\ \A i : KnownTo(i)' = KnownTo(i) BY DEF KnownTo
<1> QED BY <1>1, <1>2, <1>3, <1>4, <1>5 DEF ObjectsOfFirst

LEMMA ObjectSkipped ==
  ASSUME NEW k \in Nat, ObjectsOfFirst(k), ~F.features[k + 1].known
  PROVE  ObjectsOfFirst(k + 1)
<1>1. KnownTo(k + 1) = KnownTo(k) BY KnownNext
<1> QED BY <1>1 DEF ObjectsOfFirst

\* What keeps the number of objects and their ids.
LEMMA ObjectsSame ==
  ASSUME NEW k \in Nat, ObjectsOfFirst(k), F' = F, Len(got'.objs) = Len(got.objs),
         \A j \in 1..Len(got.objs) : got'.objs[j].id = got.objs[j].id
  PROVE  ObjectsOfFirst(k)'
<1>1. \A i : KnownTo(i)' = KnownTo(i) BY DEF KnownTo
<1>2. ASSUME NEW i \in KnownTo(k)
      PROVE  got'.objs[Cardinality(KnownTo(i))].id = F.features[i].id
  <2>1. Cardinality(KnownTo(i)) \in 1..Len(got.objs) BY KnownBelow DEF ObjectsOfFirst
  <2> QED BY <2>1 DEF ObjectsOfFirst
<1> QED BY <1>1, <1>2 DEF ObjectsOfFirst

(***************************************************************************)
(* What has been collected when q records past the version were read.      *)
(***************************************************************************)
GotOK == /\ got \in [edition : {"", "0", "1"}, covr : Nat, objs : Seq(Object), obj : Nat]
         /\ got.obj = Len(got.objs)

BodyRead(q) == IF q <= 1 + F.covr THEN 0 ELSE q - 1 - F.covr
Coverage(q) == IF q = 0 THEN 0 ELSE IF q <= 1 + F.covr THEN q - 1 ELSE F.covr
Collected(q) ==
  /\ got.edition = IF q = 0 THEN "" ELSE Edition
  /\ Full => got.covr = 0 /\ Objects(BodyRead(q))
  /\ ~Full => got.objs = <<>> /\ got.covr = Coverage(q)

LEMMA GotParts ==
  ASSUME GotOK
  PROVE  /\ got.edition \in {"", "0", "1"} /\ got.covr \in Nat /\ got.objs \in Seq(Object)
         /\ Len(got.objs) \in Nat /\ DOMAIN got.objs = 1..Len(got.objs)
         /\ got.obj = Len(got.objs)
         /\ got = [edition |-> got.edition, covr |-> got.covr, objs |-> got.objs,
                   obj |-> Len(got.objs)]
<1>1. got.objs \in Seq(Object) /\ got.obj = Len(got.objs) BY DEF GotOK
<1>2. Len(got.objs) \in Nat /\ DOMAIN got.objs = 1..Len(got.objs) BY <1>1, LenProperties
<1> QED BY <1>1, <1>2 DEF GotOK

LEMMA GotMade ==
  ASSUME NEW e \in {"", "0", "1"}, NEW c \in Nat, NEW s \in Seq(Object),
         got = [edition |-> e, covr |-> c, objs |-> s, obj |-> Len(s)]
  PROVE  GotOK
<1>1. Len(s) \in Nat BY LenProperties
<1> QED BY <1>1 DEF GotOK

LEMMA FeatureTaken ==
  ASSUME file \in Library, chart \in Charts, F' = F, GotOK,
         NEW m \in Nat, m % 2 = 0, m < 2 * Len(F.features), Objects(m),
         Record = BodyItem(m + 1), got' = FullRecord
  PROVE  /\ GotOK' /\ Objects(m + 1)'
         /\ got'.edition = got.edition /\ got'.covr = got.covr
<1> DEFINE k == Begun(m)
           f == F.features[k + 1]
<1>1. /\ k \in Nat /\ 2 * k = m /\ (m + 1) % 2 = 1 /\ Begun(m + 1) = k + 1
  BY Halves
<1>2. F.features \in Seq(Features) /\ Len(F.features) \in Nat BY FileFacts
<1>3. k + 1 \in 1..Len(F.features) BY <1>1, <1>2
<1>4. f \in Features BY <1>2, <1>3
<1>5. Record.t = "feature" /\ Record.v = f BY <1>1 DEF BodyItem, Rec, PartOf, Begun
<1>6. ObjectsOfFirst(k) /\ Parted(m) BY DEF Objects
<1>7. got.objs \in Seq(Object) /\ Len(got.objs) \in Nat BY DEF GotOK
<1>8. (AllKnown' => AllKnown) BY DEF AllKnown
<1>k. KnownTo(k + 1)' = KnownTo(k + 1) BY DEF KnownTo
<1> HIDE DEF k, f
<1>9. CASE f.known
  <2> DEFINE o == [id |-> f.id, parts |-> <<>>]
  <2>1. o \in Object /\ o.id = f.id /\ o.parts = <<>> BY <1>4 DEF Object, Features
  <2>2. got' = [got EXCEPT !.objs = Append(got.objs, o), !.obj = Len(Append(got.objs, o))]
    BY <1>5, <1>9 DEF FullRecord, AddFeature, NewObject
  <2> HIDE DEF o
  <2>3. got'.objs = Append(got.objs, o) /\ got'.obj = Len(got'.objs)
        /\ got'.edition = got.edition /\ got'.covr = got.covr
    BY <2>2 DEF GotOK
  <2>4. /\ Append(got.objs, o) \in Seq(Object) /\ Len(Append(got.objs, o)) = Len(got.objs) + 1
        /\ Append(got.objs, o)[Len(got.objs) + 1] = o
        /\ \A j \in 1..Len(got.objs) : Append(got.objs, o)[j] = got.objs[j]
    BY <1>7, <2>1
  <2>5. GotOK'
    <3>1. Len(Append(got.objs, o)) \in Nat BY <2>4
    <3> QED BY <2>2, <2>3, <2>4, <3>1 DEF GotOK
  <2>6. ObjectsOfFirst(k + 1)'
    BY <1>1, <1>6, <1>7, <1>9, <2>1, <2>3, ObjectAdded DEF f
  <2>7. Parted(m + 1)'
    <3> SUFFICES ASSUME AllKnown, NEW j \in 1..Len(got'.objs)
                 PROVE  got'.objs[j].parts = IF 2 * j <= m + 1 THEN <<got'.objs[j].id>> ELSE <<>>
      BY <1>8 DEF Parted
    <3>1. Len(got.objs) = k
      <4>1. k \in 0..Len(F.features) BY <1>1, <1>2, <1>3
      <4> QED BY <1>2, <1>6, <4>1, AllCounted DEF ObjectsOfFirst
    <3>2. CASE j \in 1..Len(got.objs)
      <4>1. 2 * j <= m /\ 2 * j <= m + 1 BY <1>1, <3>1, <3>2
      <4> QED BY <1>6, <2>3, <2>4, <3>2, <4>1 DEF Parted
    <3>3. CASE j = Len(got.objs) + 1
      <4>1. ~(2 * j <= m + 1) BY <1>1, <3>1, <3>3
      <4> QED BY <2>1, <2>3, <2>4, <3>3, <4>1
    <3> QED BY <1>7, <2>3, <2>4, <3>2, <3>3
  <2> QED BY <1>1, <2>3, <2>5, <2>6, <2>7 DEF Objects
<1>10. CASE ~f.known
  <2>1. got' = got BY <1>5, <1>10 DEF FullRecord
  <2>2. ObjectsOfFirst(k + 1) BY <1>1, <1>6, <1>10, ObjectSkipped DEF f
  <2>3. ~AllKnown BY <1>3, <1>10 DEF AllKnown, f
  <2>4. GotOK' BY <2>1 DEF GotOK
  <2>5. \A i : KnownTo(i)' = KnownTo(i) BY DEF KnownTo
  <2>6. ObjectsOfFirst(k + 1)' BY <2>1, <2>2, <2>5 DEF ObjectsOfFirst
  <2> QED BY <1>1, <1>8, <2>1, <2>3, <2>4, <2>6 DEF Objects, Parted
<1> QED BY <1>9, <1>10

LEMMA PartTaken ==
  ASSUME file \in Library, chart \in Charts, F' = F, GotOK,
         NEW m \in Nat, m % 2 # 0, m < 2 * Len(F.features), Objects(m),
         Record = BodyItem(m + 1), got' = FullRecord
  PROVE  /\ GotOK' /\ Objects(m + 1)'
         /\ got'.edition = got.edition /\ got'.covr = got.covr
<1> DEFINE k == Begun(m)
           f == F.features[k]
<1>1. k \in Nat \ {0} /\ 2 * k = m + 1 /\ (m + 1) % 2 = 0 /\ Begun(m + 1) = k BY Halves
<1>2. F.features \in Seq(Features) /\ Len(F.features) \in Nat BY FileFacts
<1>3. k \in 1..Len(F.features) BY <1>1, <1>2
<1>4. f \in Features BY <1>2, <1>3
<1>5. Record.t = "part" /\ Record.v = f BY <1>1 DEF BodyItem, Rec, PartOf, Begun
<1>6. ObjectsOfFirst(k) /\ Parted(m) BY DEF Objects
<1>7. got.objs \in Seq(Object) /\ Len(got.objs) \in Nat /\ got.obj = Len(got.objs)
  BY DEF GotOK
<1>8. (AllKnown' => AllKnown) BY DEF AllKnown
<1> HIDE DEF k, f
<1>c. AllKnown => Len(got.objs) = k
  <2>1. k \in 0..Len(F.features) BY <1>1, <1>2, <1>3
  <2> QED BY <1>2, <1>6, <2>1, AllCounted DEF ObjectsOfFirst
<1>9. CASE got.obj # 0
  <2> DEFINE l == Len(got.objs)
             o == [got.objs[l] EXCEPT !.parts = Append(got.objs[l].parts, f.id)]
  <2>1. l \in 1..Len(got.objs) /\ got.objs[l] \in Object BY <1>7, <1>9
  <2>2. o \in Object /\ o.id = got.objs[l].id /\ o.parts = Append(got.objs[l].parts, f.id)
    <3>1. got.objs[l].parts \in Seq(Nat) /\ got.objs[l].id \in Nat /\ f.id \in Nat
      BY <1>4, <2>1 DEF Object, Features
    <3>2. Append(got.objs[l].parts, f.id) \in Seq(Nat) BY <3>1
    <3> QED BY <2>1, <3>1, <3>2 DEF Object
  <2>3. got' = [got EXCEPT !.objs = [got.objs EXCEPT ![l] = o]]
    BY <1>5, <1>7, <1>9 DEF FullRecord, AddPart, GotOK
  <2> HIDE DEF o
  <2>4. /\ got'.objs = [got.objs EXCEPT ![l] = o] /\ got'.obj = got.obj
        /\ got'.edition = got.edition /\ got'.covr = got.covr
    BY <2>3 DEF GotOK
  <2>5. /\ got'.objs \in Seq(Object) /\ Len(got'.objs) = Len(got.objs)
        /\ got'.objs[l] = o
        /\ \A j \in 1..Len(got.objs) : j # l => got'.objs[j] = got.objs[j]
    BY <1>7, <2>1, <2>2, <2>4
  <2>6. GotOK' BY <1>7, <2>3, <2>4, <2>5 DEF GotOK
  <2>7. \A j \in 1..Len(got.objs) : got'.objs[j].id = got.objs[j].id BY <2>2, <2>5
  <2>8. ObjectsOfFirst(k)' BY <1>1, <1>6, <2>5, <2>7, ObjectsSame
  <2>9. Parted(m + 1)'
    <3> SUFFICES ASSUME AllKnown, NEW j \in 1..Len(got'.objs)
                 PROVE  got'.objs[j].parts = IF 2 * j <= m + 1 THEN <<got'.objs[j].id>> ELSE <<>>
      BY <1>8 DEF Parted
    <3>1. l = k BY <1>c
    <3>2. CASE j # l
      <4>1. 2 * j <= m /\ 2 * j <= m + 1 BY <1>1, <2>5, <3>1, <3>2
      <4> QED BY <1>6, <2>5, <3>2, <4>1 DEF Parted
    <3>3. CASE j = l
      <4>1. ~(2 * j <= m) /\ 2 * j <= m + 1 BY <1>1, <3>1, <3>3
      <4>2. got.objs[l].parts = <<>> BY <1>6, <2>1, <3>3, <4>1 DEF Parted
      <4>3. got.objs[l].id = f.id
        <5>1. k \in KnownTo(k) BY <1>1, <1>3 DEF AllKnown, KnownTo
        <5>2. Cardinality(KnownTo(k)) = k BY <1>6, <1>c DEF ObjectsOfFirst
        <5> QED BY <1>6, <3>1, <5>1, <5>2 DEF ObjectsOfFirst, f
      <4>4. o.parts = <<f.id>> /\ o.id = f.id BY <2>2, <4>2, <4>3
      <4> QED BY <2>5, <3>3, <4>1, <4>4
    <3> QED BY <3>2, <3>3
  <2> QED BY <1>1, <2>4, <2>6, <2>8, <2>9 DEF Objects
<1>10. CASE got.obj = 0
  <2>1. got' = got BY <1>5, <1>10 DEF FullRecord
  <2>2. ~AllKnown BY <1>1, <1>7, <1>10, <1>c
  <2>3. ObjectsOfFirst(k)' BY <1>1, <1>6, <2>1, ObjectsSame
  <2>4. GotOK' BY <2>1 DEF GotOK
  <2> QED BY <1>1, <1>8, <2>1, <2>2, <2>3, <2>4 DEF Objects, Parted
<1> QED BY <1>9, <1>10

LEMMA ItemTaken ==
  ASSUME file \in Library, chart \in Charts, F' = F, at' = at, GotOK,
         NEW q \in 0..(Total - 1), Collected(q), Record = Item(q),
         got' = IF Full THEN FullRecord ELSE HeaderRecord
  PROVE  GotOK' /\ Collected(q + 1)'
<1>0. /\ F.covr \in Nat /\ BodyLength \in Nat /\ Total \in Nat /\ q \in Nat /\ q < Total
      /\ Total = 1 + F.covr + BodyLength
  <2>1. F.covr \in Nat /\ BodyLength \in Nat BY FileFacts
  <2>2. Total \in Nat BY <2>1 DEF Total
  <2> QED BY <2>1, <2>2 DEF Total
<1>1. Full' = Full /\ Edition' = Edition /\ BodyRead(q + 1)' = BodyRead(q + 1)
      /\ Coverage(q + 1)' = Coverage(q + 1)
  BY DEF Full, Edition, BodyRead, Coverage
<1>2. Edition \in {"0", "1"} BY DEF Edition
<1>3. q # 0 => got.edition = Edition BY DEF Collected
<1>4. CASE q <= F.covr
  <2>1. BodyRead(q) = 0 /\ BodyRead(q + 1) = 0 BY <1>0, <1>4 DEF BodyRead
  <2>2. IF q = 0 THEN Record.t = "edition" /\ Record.v = Edition ELSE Record.t = "covr"
    BY <1>4 DEF Item, Rec
  <2>3. /\ GotOK' /\ got'.objs = got.objs /\ got'.edition = Edition
        /\ got'.covr = IF ~Full /\ q # 0 THEN got.covr + 1 ELSE got.covr
    <3>1. CASE q = 0
      <4>1. got' = [got EXCEPT !.edition = Edition]
        BY <2>2, <3>1 DEF FullRecord, HeaderRecord
      <4> QED BY <1>2, <3>1, <4>1 DEF GotOK
    <3>2. CASE q # 0 /\ Full
      <4>1. got' = got BY <2>2, <3>2 DEF FullRecord
      <4> QED BY <1>3, <3>2, <4>1 DEF GotOK
    <3>3. CASE q # 0 /\ ~Full
      <4>1. got' = [got EXCEPT !.covr = got.covr + 1] BY <2>2, <3>3 DEF HeaderRecord
      <4>0. got.covr \in Nat BY GotParts
      <4>2. got.covr + 1 \in Nat BY <4>0
      <4>3. GotOK' BY <4>1, <4>2 DEF GotOK
      <4> QED BY <1>3, <3>3, <4>1, <4>3 DEF GotOK
    <3> QED BY <3>1, <3>2, <3>3
  <2>4. ASSUME Full PROVE got'.covr = 0 /\ Objects(0)'
    <3>1. got.covr = 0 /\ Objects(0) BY <2>1, <2>4 DEF Collected
    <3>2. \A i : KnownTo(i)' = KnownTo(i) BY DEF KnownTo
    <3>3. AllKnown' = AllKnown BY DEF AllKnown
    <3>4. Objects(0)' BY <2>3, <3>1, <3>2, <3>3 DEF Objects, ObjectsOfFirst, Parted
    <3> QED BY <2>3, <2>4, <3>1, <3>4
  <2>5. ASSUME ~Full PROVE got'.objs = <<>> /\ got'.covr = Coverage(q + 1)
    <3>1. got.objs = <<>> /\ got.covr = Coverage(q) BY <2>5 DEF Collected
    <3> QED BY <1>0, <1>4, <2>3, <2>5, <3>1 DEF Coverage
  <2>6. q + 1 # 0 BY <1>0
  <2>7. Full' => got'.covr = 0 /\ Objects(BodyRead(q + 1))'
    BY <1>1, <2>1, <2>4 DEF Objects, ObjectsOfFirst, Parted
  <2>8. ~Full' => got'.objs = <<>> /\ got'.covr = Coverage(q + 1)' BY <1>1, <2>5
  <2> QED BY <1>1, <2>3, <2>6, <2>7, <2>8 DEF Collected
<1>5. CASE q > F.covr
  <2>0. PICK m \in Nat : m = q - 1 - F.covr BY <1>0, <1>5
  <2>1. /\ m \in Nat /\ BodyRead(q) = m /\ BodyRead(q + 1) = m + 1 /\ q # 0
        /\ q - F.covr = m + 1 /\ m < BodyLength
    BY <1>0, <1>5, <2>0 DEF BodyRead
  <2>2. Record = BodyItem(m + 1) BY <1>0, <1>5, <2>1 DEF Item
  <2>3. CASE Full
    <3>1. BodyLength = 2 * Len(F.features) BY <2>3 DEF BodyLength
    <3>2. Objects(m) /\ got.covr = 0 BY <2>1, <2>3 DEF Collected
    <3>3. got' = FullRecord BY <2>3
    <3>a. m < 2 * Len(F.features) /\ m \in Nat BY <2>1, <3>1
    <3>4. /\ GotOK' /\ Objects(m + 1)'
          /\ got'.edition = got.edition /\ got'.covr = got.covr
      <4>1. CASE m % 2 = 0 BY <2>2, <3>2, <3>3, <3>a, <4>1, FeatureTaken
      <4>2. CASE m % 2 # 0 BY <2>2, <3>2, <3>3, <3>a, <4>2, PartTaken
      <4> QED BY <4>1, <4>2
    <3>5. BodyRead(q + 1)' = m + 1 /\ q + 1 # 0 BY <1>0, <1>1, <2>1
    <3>6. Objects(BodyRead(q + 1))' BY <3>4, <3>5 DEF Objects, ObjectsOfFirst, Parted
    <3>7. got'.edition = Edition' /\ got'.covr = 0 BY <1>1, <1>3, <2>1, <3>2, <3>4
    <3> QED BY <1>1, <2>3, <3>4, <3>5, <3>6, <3>7 DEF Collected
  <2>4. CASE ~Full
    <3>1. Record.t \in {"feature", "part"} BY <2>2 DEF BodyItem, Rec
    <3>2. got' = got BY <2>4, <3>1 DEF HeaderRecord
    <3>3. Coverage(q + 1) = Coverage(q) BY <1>0, <1>5 DEF Coverage
    <3>4. got.objs = <<>> /\ got.covr = Coverage(q) BY <2>4 DEF Collected
    <3>5. got'.objs = <<>> /\ got'.covr = Coverage(q + 1) /\ got'.edition = Edition
      BY <1>3, <2>1, <3>2, <3>3, <3>4
    <3>6. GotOK' BY <3>2 DEF GotOK
    <3>7. q + 1 # 0 BY <1>0
    <3> QED BY <1>1, <2>4, <3>5, <3>6, <3>7 DEF Collected
  <2> QED BY <2>3, <2>4
<1> QED BY <1>0, <1>4, <1>5

\* What the chart may have at any time.
Sane == chart # NoChart => got.edition \in {"", Edition} /\ CoverageOnce /\ ObjectsArePrefix

LEMMA NothingIs ==
  ASSUME file \in Library, chart \in Charts, got = Nothing
  PROVE  /\ GotOK /\ got.edition = "" /\ got.covr = 0 /\ got.objs = <<>> /\ Collected(0)
<1>1. got.edition = "" /\ got.covr = 0 /\ got.objs = <<>> /\ got.obj = 0 BY DEF Nothing
<1>2. <<>> \in Seq(Object) /\ Len(<<>>) = 0 OBVIOUS
<1>3. got = [edition |-> "", covr |-> 0, objs |-> <<>>, obj |-> Len(<<>>)]
  BY <1>2 DEF Nothing
<1>4. GotOK BY <1>2, <1>3, GotMade
<1>5. Objects(0) BY <1>1, NoObjects
<1>6. F.covr \in Nat BY FileFacts
<1>7. BodyRead(0) = 0 /\ Coverage(0) = 0 BY <1>6 DEF BodyRead, Coverage
<1> QED BY <1>1, <1>4, <1>5, <1>7 DEF Collected

LEMMA CollectedSane ==
  ASSUME file \in Library, chart \in Charts, GotOK, NEW q \in 0..Total, Collected(q)
  PROVE  Sane
<1>0. /\ F.covr \in Nat /\ BodyLength \in Nat /\ q \in Nat /\ q <= 1 + F.covr + BodyLength
      /\ F.features \in Seq(Features) /\ Len(F.features) \in Nat
  <2>1. /\ F.covr \in Nat /\ BodyLength \in Nat /\ F.features \in Seq(Features)
        /\ Len(F.features) \in Nat
    BY FileFacts
  <2> QED BY <2>1 DEF Total
<1>1. got.edition \in {"", Edition} BY DEF Collected
<1>2. got.covr = 0 \/ got.covr = Coverage(q) BY DEF Collected
<1>c. CoverageOnce
  <2>1. Coverage(q) <= F.covr BY <1>0 DEF Coverage
  <2> QED BY <1>0, <1>2, <2>1 DEF CoverageOnce
<1>3. CASE Full
  <2> DEFINE m == BodyRead(q)
             k == Begun(m)
  <2>1. ObjectsOfFirst(k) /\ Parted(m) BY <1>3 DEF Collected, Objects
  <2>2. BodyLength = 2 * Len(F.features) BY <1>3 DEF BodyLength
  <2>3. m \in Nat /\ m <= 2 * Len(F.features) BY <1>0, <2>2 DEF BodyRead
  <2> HIDE DEF m
  <2>4. k \in Nat /\ k <= Len(F.features) /\ (2 * k = m \/ 2 * k = m + 1)
    <3>1. k \in Nat /\ (2 * k = m \/ 2 * k = m + 1) BY <2>3, Halves
    <3> HIDE DEF k
    <3> QED BY <1>0, <2>3, <3>1
  <2> HIDE DEF k
  <2>5. \E j \in 0..Len(F.features) : ObjectsOfFirst(j) BY <1>0, <2>1, <2>4
  <2>6. got.objs \in Seq(Object) /\ DOMAIN got.objs = 1..Len(got.objs) BY GotParts
  <2>7. ASSUME AllKnown, NEW i \in DOMAIN got.objs
        PROVE  \/ got.objs[i].parts = <<got.objs[i].id>>
               \/ i = Len(got.objs) /\ got.objs[i].parts = <<>>
    <3>1. k \in 0..Len(F.features) BY <1>0, <2>4
    <3>2. Len(got.objs) = k BY <1>0, <2>1, <2>7, <3>1, AllCounted DEF ObjectsOfFirst
    <3>3. got.objs[i].parts = IF 2 * i <= m THEN <<got.objs[i].id>> ELSE <<>>
      BY <2>1, <2>6, <2>7 DEF Parted
    <3>4. 2 * i <= m \/ i = k BY <2>3, <2>4, <2>6, <3>2
    <3> QED BY <3>2, <3>3, <3>4
  <2>8. ObjectsArePrefix BY <2>5, <2>7 DEF ObjectsArePrefix
  <2> QED BY <1>1, <1>c, <2>8 DEF Sane
<1>4. CASE ~Full
  <2>1. got.objs = <<>> BY <1>4 DEF Collected
  <2>2. Objects(0) /\ Begun(0) = 0 BY <2>1, NoObjects DEF Begun
  <2>3. ObjectsOfFirst(0) /\ 0 \in 0..Len(F.features) BY <1>0, <2>2 DEF Objects
  <2>4. DOMAIN got.objs = {} BY <2>1
  <2>5. ObjectsArePrefix BY <2>3, <2>4 DEF ObjectsArePrefix
  <2> QED BY <1>1, <1>c, <2>5 DEF Sane
<1> QED BY <1>3, <1>4

(***************************************************************************)
(* The invariant.                                                          *)
(***************************************************************************)
Headers == {"h1", "h2"}
Keys == {"k1", "k2", "k3", "k4"}
Rasters == {"r1", "r2"}
Started == {"blocked", "load", "verify", "read"}
Before == {"probe", "open", "blocked", "load", "verify"}

ReqOK == /\ req = [st |-> req.st, answer |-> req.answer, fed |-> req.fed]
         /\ Len(req.answer) \in Nat
Typed == TypeOK /\ ReqOK /\ GotOK

\* Which readings there are for which charts.
Course ==
  phase # "idle" =>
    /\ F.kind = "raster" <=> at \in Rasters
    /\ at \in Headers => mode = "header"
    /\ Full => mode = "full"
    /\ at \in Keys \cup {"f2"} => F.kind = "oesenc"

Asked ==
  /\ phase \in {"blocked", "load"} => F.kind = "raster"
  /\ phase \in {"verify", "read"} => F.kind # "raster"
  /\ phase \in Started => req.answer = Answer

\* What was taken of the answer so far.
Taken ==
  /\ phase \in Before => got = Nothing
  /\ phase = "verify" => pos = 0 \/ (pos = 1 /\ F.kind = "oesu" /\ Fits)
  /\ phase = "read" =>
       /\ Fits /\ F.compatible
       /\ \E q \in 0..Total : /\ pos = Prelude + q /\ Collected(q)
                              /\ ~Full => q <= 1 + F.covr

\* What a reading that is over says: of a server that was well, exactly what
\* the chart is, and of one that was not too ill, all of the chart.
Limit == IF F.kind = "oesu" /\ mode = "header" THEN 1 ELSE 0
Wellness == IF F.kind = "raster" \/ F.compatible THEN "ok" ELSE "version"
Judged ==
  phase = "returned" =>
    /\ ret # "ok" => got = Nothing
    /\ \E q \in 0..Total :
         /\ Collected(q)
         /\ ret = "ok" /\ F.kind # "raster" /\ faults <= Limit
              => 1 + F.covr <= q /\ (Full => q = Total)
    /\ faults = 0 => IF Fits THEN ret = Wellness
                     ELSE /\ ret \in {"signature", "corrupt", "expired"}
                          /\ ret = "expired" => F.kind = "oesu"
    /\ Good /\ at = "h2" /\ ret # "ok" => faults > Limit

\* Why a reading is made, and with which key.
Ways ==
  phase # "idle" =>
    /\ Good /\ at = "h2" => faults > 0
    /\ faults = 0 =>
         /\ at = "r2" => F.permit # "right"
         /\ F.kind = "oesenc" /\ at \in Headers \cup {"f2"} => userKey = chart
         /\ at = "k4" => userKey = ChartinfoKey

Settled == phase = "idle" => Sane

IInv == Typed /\ Course /\ Asked /\ Taken /\ Judged /\ Ways /\ Settled /\ RightOutcome

(***************************************************************************)
(* The parts of the invariant in the steps of one reading.                 *)
(***************************************************************************)
LEMMA HurtIs ==
  ASSUME faults \in 0..2, NEW k \in 0..2, Hurt(k)
  PROVE  /\ faults' \in 0..2 /\ faults' >= faults /\ (k = 0 => faults' = faults)
         /\ (k > 0 => faults' > 0) /\ (k > 0 /\ faults > 0 => faults' = 2)
         /\ (k = 2 => faults' = 2)
  BY DEF Hurt

LEMMA InvParts ==
  ASSUME IInv
  PROVE  /\ Typed /\ Course /\ Asked /\ Taken /\ Judged /\ Ways /\ Settled /\ RightOutcome
         /\ TypeOK /\ ReqOK /\ GotOK /\ file \in Library /\ faults \in 0..2
  BY DEF IInv, Typed, TypeOK

\* What does not change with the chart, the reading and the key.
LEMMA StillSame ==
  ASSUME Still
  PROVE  /\ F' = F /\ Full' = Full /\ Fits' = Fits /\ Prelude' = Prelude /\ Total' = Total
         /\ Limit' = Limit /\ Wellness' = Wellness /\ Good' = Good
         /\ ChartinfoKey' = ChartinfoKey /\ Answer' = Answer
         /\ file' = file /\ chart' = chart /\ mode' = mode /\ at' = at /\ userKey' = userKey
<1>1. /\ file' = file /\ chart' = chart /\ mode' = mode /\ at' = at /\ userKey' = userKey
  BY DEF Still
<1>2. F' = F /\ Full' = Full BY <1>1 DEF F, Full
<1>3. RightKey' = RightKey BY <1>1, <1>2 DEF RightKey
<1>4. BodyLength' = BodyLength BY <1>2 DEF BodyLength
<1>5. Contents' = Contents BY <1>2, <1>4 DEF Contents, Version, Rec, Header, Body
<1>6. Answer' = Answer BY <1>2, <1>3, <1>5 DEF Answer, Rec, Version
<1>7. Good' = Good BY <1>1, <1>2 DEF Good, Permitted
<1> QED BY <1>1, <1>2, <1>3, <1>4, <1>6, <1>7
        DEF Fits, Prelude, Total, Limit, Wellness, ChartinfoKey

LEMMA StillKeeps ==
  ASSUME IInv, Still, phase # "idle", phase' # "idle", faults' \in 0..2, faults' >= faults
  PROVE  Course' /\ Ways' /\ Settled' /\ RightOutcome'
<1>1. /\ F' = F /\ Full' = Full /\ Good' = Good /\ ChartinfoKey' = ChartinfoKey
      /\ mode' = mode /\ at' = at /\ userKey' = userKey /\ chart' = chart
  BY StillSame
<1>2. Course /\ Ways /\ faults \in 0..2 BY InvParts
<1>3. Course' BY <1>1, <1>2 DEF Course
<1>4. Ways'
  <2>1. (faults' = 0 => faults = 0) /\ (faults > 0 => faults' > 0) BY <1>2
  <2> QED BY <1>1, <1>2, <2>1 DEF Ways
<1> QED BY <1>3, <1>4 DEF Settled, RightOutcome

LEMMA CollectedSame ==
  ASSUME F' = F, Full' = Full, got' = got, NEW q, Collected(q)
  PROVE  Collected(q)'
<1>1. \A i : KnownTo(i)' = KnownTo(i) BY DEF KnownTo
<1>2. AllKnown' = AllKnown BY DEF AllKnown
<1>3. BodyRead(q)' = BodyRead(q) /\ Coverage(q)' = Coverage(q) /\ Edition' = Edition
  BY DEF BodyRead, Coverage, Edition
<1>4. Objects(BodyRead(q)) => Objects(BodyRead(q))'
  BY <1>1, <1>2, <1>3 DEF Objects, ObjectsOfFirst, Parted
<1> QED BY <1>3, <1>4 DEF Collected

LEMMA TotalNat ==
  ASSUME file \in Library, chart \in Charts
  PROVE  Total \in Nat /\ F.covr \in Nat /\ 1 + F.covr <= Total /\ 0 \in 0..Total
<1>1. F.covr \in Nat /\ BodyLength \in Nat BY FileFacts
<1> QED BY <1>1 DEF Total

\* Before the answer has begun nothing is there, which is what nothing gives.
LEMMA NothingTyped ==
  ASSUME TypeOK, phase \in Before, got = Nothing
  PROVE  GotOK /\ Collected(0) /\ file \in Library /\ chart \in Charts
<1>1. file \in Library /\ chart \in Charts BY DEF TypeOK, Before
<1> QED BY <1>1, NothingIs

Phases == {"idle", "probe", "open", "blocked", "load", "verify", "read", "returned"}

LEMMA TypedStill ==
  ASSUME IInv, Still, phase # "idle", UNCHANGED <<up, starting, late, req>>,
         pos' \in 0..req.fed, n' \in {0, 1}, ret' \in Results, phase' \in Phases,
         faults' \in 0..2, GotOK'
  PROVE  Typed'
<1>1. TypeOK /\ ReqOK BY InvParts
<1>2. 1 \in 0..LastProbe /\ 0 \in 0..LastProbe BY LastProbeNat
<1>3. ReqOK' BY <1>1 DEF ReqOK
<1>4. ServerTypeOK' BY <1>1 DEF TypeOK, ServerTypeOK
<1>5. chart \in Charts BY <1>1 DEF TypeOK
<1>6. got'.obj \in 0..Len(got'.objs)
  <2>1. got'.objs \in Seq(Object) /\ got'.obj = Len(got'.objs) BY DEF GotOK
  <2> QED BY <2>1
<1>7. TypeOK' BY <1>1, <1>2, <1>4, <1>5, <1>6 DEF TypeOK, Still, Phases
<1> QED BY <1>3, <1>7 DEF Typed

\* A reading that the plugin cannot go on with: nothing is there.
LEMMA ReadingFails ==
  ASSUME IInv, Still, phase \in Before, Hurt(1), UNCHANGED <<serverVars, got>>,
         NEW r \in Results, Returns(r), r = "ok" => Full
  PROVE  IInv'
<1>1. /\ Typed /\ Course /\ Ways /\ Taken /\ TypeOK /\ file \in Library /\ faults \in 0..2
  BY InvParts
<1>2. phase # "idle" /\ got = Nothing BY <1>1 DEF Before, Taken
<1>3. faults' \in 0..2 /\ faults' >= faults /\ faults' > 0 /\ (faults > 0 => faults' = 2)
  BY <1>1, HurtIs
<1>4. phase' = "returned" /\ ret' = r /\ n' = 0 BY DEF Returns
<1>5. GotOK /\ Collected(0) /\ chart \in Charts BY <1>1, <1>2, NothingTyped
<1>6. got' = got BY DEF serverVars
<1>7. GotOK' BY <1>5, <1>6 DEF GotOK
<1>8. Typed'
  <2>1. pos' \in 0..req.fed BY <1>1 DEF TypeOK, ServerTypeOK, serverVars
  <2> QED BY <1>2, <1>3, <1>4, <1>7, <2>1, TypedStill DEF Phases, serverVars
<1>9. Course' /\ Ways' /\ Settled' /\ RightOutcome'
  BY <1>2, <1>3, <1>4, StillKeeps
<1>10. Asked' /\ Taken' BY <1>4 DEF Asked, Taken, Started, Before
<1>11. /\ F' = F /\ Full' = Full /\ Total' = Total /\ Limit' = Limit /\ Good' = Good
       /\ at' = at
  BY StillSame
<1>12. Collected(0)' BY <1>5, <1>6, <1>11, CollectedSame
<1>13. 0 \in 0..Total' BY <1>1, <1>5, <1>11, TotalNat
<1>14. Full => Limit = 0 BY <1>1, <1>2 DEF Course, Limit
<1>15. Good /\ at = "h2" => faults' = 2 BY <1>1, <1>2, <1>3 DEF Ways
<1>16. Limit \in 0..1 BY DEF Limit
<1>17. Judged'
  <2>1. ~(ret' = "ok" /\ faults' <= Limit')
    BY <1>3, <1>4, <1>11, <1>14, <1>16
  <2>2. Good' /\ at' = "h2" => faults' > Limit' BY <1>3, <1>11, <1>15, <1>16
  <2>3. faults' # 0 BY <1>3
  <2>4. ret' # "ok" => got' = Nothing BY <1>2, <1>6
  <2>5. \E q \in 0..Total' : Collected(q)' BY <1>12, <1>13
  <2> HIDE DEF Returns
  <2> QED BY <2>1, <2>2, <2>3, <2>4, <2>5 DEF Judged, Nothing
<1> QED BY <1>8, <1>9, <1>10, <1>17 DEF IInv

LEMMA ProbeKeepsInv ==
  ASSUME IInv, ProbeStep PROVE IInv'
<1>1. /\ Typed /\ Course /\ Ways /\ Taken /\ TypeOK /\ ReqOK /\ GotOK /\ file \in Library
      /\ faults \in 0..2
  BY InvParts
<1>2. phase = "probe" BY DEF ProbeStep
<1>3. Still BY DEF ProbeStep, Still
<1>4. UNCHANGED <<req, pos, got, ret>> BY DEF ProbeStep, Answered, ProbeFails, StartServer,
                                              StartFails, serverVars
<1>5. /\ faults' \in 0..2 /\ faults' >= faults
  <2>1. Hurt(0) \/ Hurt(2) BY DEF ProbeStep
  <2> QED BY <1>1, <2>1, HurtIs
<1>6. phase' \in {"probe", "open"} /\ n' \in 0..LastProbe
  <2>1. n \in 0..LastProbe BY <1>1 DEF TypeOK
  <2>2. LastProbe \in Nat /\ LastProbe > 3 BY LastProbeNat
  <2>3. \/ phase' = "open" /\ n' = 0
        \/ phase' = phase /\ n' = n + 1 /\ (n = 3 \/ n # LastProbe)
    BY DEF ProbeStep, Probed, StartServer
  <2> QED BY <1>2, <2>1, <2>2, <2>3
<1>7. ServerTypeOK'
  <2>1. ServerTypeOK BY <1>1 DEF TypeOK
  <2>2. /\ up' = up /\ late' \in BOOLEAN
        /\ starting' = starting \/ (starting' = starting + 1 /\ up + starting < MaxServers)
    BY <2>1 DEF ProbeStep, Answered, ProbeFails, StartServer, StartFails, serverVars,
                ServerTypeOK
  <2>3. MaxServers \in Nat OBVIOUS
  <2>4. starting' \in Nat /\ up' + starting' <= MaxServers
    BY <2>1, <2>2, <2>3 DEF ServerTypeOK
  <2> QED BY <1>4, <2>1, <2>2, <2>4 DEF ServerTypeOK
<1>8. chart \in Charts BY <1>1, <1>2 DEF TypeOK
<1>9. TypeOK' BY <1>1, <1>3, <1>4, <1>5, <1>6, <1>7, <1>8 DEF TypeOK, Still
<1>10. Typed' BY <1>1, <1>4, <1>9 DEF Typed, ReqOK, GotOK
<1>11. Course' /\ Ways' /\ Settled' /\ RightOutcome' BY <1>2, <1>3, <1>5, <1>6, StillKeeps
<1>12. got' = Nothing BY <1>1, <1>2, <1>4 DEF Taken, Before
<1>13. Asked' /\ Judged' BY <1>6 DEF Asked, Judged, Started
<1>14. Taken' BY <1>6, <1>12 DEF Taken, Nothing
<1> QED BY <1>10, <1>11, <1>13, <1>14 DEF IInv

LEMMA OpenKeeps ==
  ASSUME IInv, Open PROVE IInv'
<1>1. /\ Typed /\ Course /\ Ways /\ Taken /\ TypeOK /\ ReqOK /\ GotOK /\ file \in Library
      /\ faults \in 0..2
  BY InvParts
<1>2. phase = "open" /\ Still /\ Hurt(0) /\ got' = got /\ Send(Answer) BY DEF Open, CanOpen
<1>3. faults' = faults BY <1>1, <1>2, HurtIs
<1>4. phase' = (IF F.kind = "raster" THEN "blocked" ELSE "verify") /\ n' = 0 /\ ret' = ret
  BY DEF Open, Goes
<1>5. chart \in Charts BY <1>1, <1>2 DEF TypeOK
<1>6. Len(Answer) \in Nat BY <1>1, <1>5, AnswerTyped
<1>7. /\ req' = [st |-> "sent", answer |-> Answer, fed |-> 0] /\ pos' = 0
      /\ UNCHANGED <<up, starting, late>>
  BY <1>2 DEF Send
<1>8. ReqOK' BY <1>6, <1>7 DEF ReqOK
<1>9. ServerTypeOK' BY <1>1, <1>6, <1>7 DEF TypeOK, ServerTypeOK
<1>10. TypeOK'
  <2>1. 0 \in 0..LastProbe BY LastProbeNat
  <2> QED BY <1>1, <1>2, <1>3, <1>4, <1>5, <1>9, <2>1 DEF TypeOK, Still
<1>11. Typed' BY <1>1, <1>2, <1>8, <1>10 DEF Typed, GotOK
<1>12. Course' /\ Ways' /\ Settled' /\ RightOutcome'
  BY <1>1, <1>2, <1>3, <1>4, StillKeeps
<1>13. F' = F /\ Answer' = Answer BY <1>2, StillSame
<1>14. Asked' BY <1>4, <1>7, <1>13 DEF Asked, Started
<1>15. got' = Nothing BY <1>1, <1>2 DEF Taken, Before
<1>16. Taken' BY <1>4, <1>7, <1>15 DEF Taken, Nothing
<1>17. Judged' BY <1>4 DEF Judged
<1> QED BY <1>11, <1>12, <1>14, <1>16, <1>17 DEF IInv

\* A try that is made once more.
LEMMA TriedAgain ==
  ASSUME IInv, Still, phase \in {"open", "verify"}, phase' = phase, ret' = ret, n' = 1,
         Hurt(0), UNCHANGED <<serverVars, got>>
  PROVE  IInv'
<1>1. /\ Typed /\ Asked /\ Taken /\ TypeOK /\ GotOK /\ faults \in 0..2 BY InvParts
<1>2. UNCHANGED <<up, starting, late, req, pos, got>> BY DEF serverVars
<1>3. faults' = faults BY <1>1, HurtIs
<1>4. GotOK' BY <1>1, <1>2 DEF GotOK
<1>5. Typed'
  <2>1. pos' \in 0..req.fed /\ ret' \in Results /\ phase' \in Phases /\ phase # "idle"
    BY <1>1, <1>2 DEF TypeOK, ServerTypeOK, Phases
  <2> QED BY <1>1, <1>2, <1>3, <1>4, <2>1, TypedStill
<1>6. Course' /\ Ways' /\ Settled' /\ RightOutcome' BY <1>1, <1>3, StillKeeps
<1>7. F' = F /\ Fits' = Fits /\ Answer' = Answer BY StillSame
<1>8. Asked' BY <1>1, <1>2, <1>7 DEF Asked
<1>9. got = Nothing BY <1>1 DEF Taken, Before
<1>10. Taken' BY <1>1, <1>2, <1>7, <1>9 DEF Taken, Nothing
<1>11. Judged' BY DEF Judged
<1> QED BY <1>5, <1>6, <1>8, <1>10, <1>11 DEF IInv

LEMMA OpenFailsKeeps ==
  ASSUME IInv, OpenFails PROVE IInv'
<1>1. Still /\ phase = "open" /\ UNCHANGED <<serverVars, got>> BY DEF OpenFails, CanOpen
<1>2. \/ n' = 1 /\ Hurt(0) /\ UNCHANGED <<phase, ret>>
      \/ Hurt(1) /\ \E r \in IF Full THEN Unread ELSE {"notfound"} : Returns(r)
  BY DEF OpenFails
<1>3. CASE n' = 1 /\ Hurt(0) /\ UNCHANGED <<phase, ret>>
  BY <1>1, <1>3, TriedAgain
<1>4. CASE Hurt(1) /\ \E r \in IF Full THEN Unread ELSE {"notfound"} : Returns(r)
  <2>1. PICK r \in IF Full THEN Unread ELSE {"notfound"} : Returns(r) BY <1>4
  <2>2. r \in Results /\ (r = "ok" => Full) BY <2>1 DEF Results, Unread
  <2>3. phase \in Before BY <1>1 DEF Before
  <2> QED BY <1>1, <1>4, <2>1, <2>2, <2>3, ReadingFails
<1> QED BY <1>2, <1>3, <1>4

LEMMA UnblockKeeps ==
  ASSUME IInv, Unblock PROVE IInv'
<1>1. /\ Typed /\ Asked /\ Taken /\ TypeOK /\ GotOK /\ faults \in 0..2 BY InvParts
<1>2. /\ phase = "blocked" /\ phase' = "load" /\ n' = 0 /\ ret' = ret /\ Still
      /\ UNCHANGED <<up, starting, late, req, pos, got, faults>>
  BY DEF Unblock, Goes, serverVars
<1>3. GotOK' BY <1>1, <1>2 DEF GotOK
<1>4. Typed'
  <2>1. pos' \in 0..req.fed /\ ret' \in Results /\ phase' \in Phases /\ phase # "idle"
    BY <1>1, <1>2 DEF TypeOK, ServerTypeOK, Phases
  <2> QED BY <1>1, <1>2, <1>3, <2>1, TypedStill
<1>5. Course' /\ Ways' /\ Settled' /\ RightOutcome' BY <1>1, <1>2, StillKeeps
<1>6. F' = F /\ Answer' = Answer BY <1>2, StillSame
<1>7. Asked' BY <1>1, <1>2, <1>6 DEF Asked, Started
<1>8. Taken' BY <1>1, <1>2 DEF Taken, Before, Nothing
<1>9. Judged' BY <1>2 DEF Judged
<1> QED BY <1>4, <1>5, <1>7, <1>8, <1>9 DEF IInv

\* A record that was taken.
LEMMA TakesIs ==
  ASSUME IInv, Takes
  PROVE  /\ pos < req.fed /\ pos' = pos + 1 /\ UNCHANGED <<up, starting, late, req>>
         /\ pos' \in 1..req.fed /\ pos \in Nat /\ req.fed <= Len(req.answer)
         /\ Len(req.answer) \in Nat /\ req.fed \in Nat
<1>1. ServerTypeOK /\ ReqOK BY InvParts DEF TypeOK
<1>2. req.fed \in 0..Len(req.answer) /\ pos \in 0..req.fed /\ Len(req.answer) \in Nat
  BY <1>1 DEF ServerTypeOK, ReqOK
<1> QED BY <1>2 DEF Takes, Avail

LEMMA LoadKeeps ==
  ASSUME IInv, Load PROVE IInv'
<1>1. /\ Typed /\ Course /\ Asked /\ Taken /\ TypeOK /\ GotOK /\ faults \in 0..2
      /\ file \in Library
  BY InvParts
<1>2. phase = "load" /\ got' = got /\ Still BY DEF Load
<1>3. /\ F.kind = "raster" /\ got = Nothing /\ at \in Rasters /\ req.answer = Answer
      /\ chart \in Charts
  BY <1>1, <1>2 DEF Asked, Taken, Course, Started, Before, TypeOK
<1>4. /\ F' = F /\ Full' = Full /\ Fits' = Fits /\ Total' = Total /\ Answer' = Answer
      /\ Wellness' = Wellness /\ at' = at
  BY <1>2, StillSame
<1>5. CASE Takes /\ Hurt(0)
  <2>1. faults' = faults BY <1>1, <1>5, HurtIs
  <2>2. /\ pos' = pos + 1 /\ UNCHANGED <<up, starting, late, req>> /\ pos' \in 1..req.fed
        /\ pos \in Nat /\ req.fed <= Len(req.answer) /\ Len(req.answer) \in Nat
        /\ req.fed \in Nat
    BY <1>5, TakesIs
  <2>3. \/ phase' = "load" /\ n' = 0 /\ ret' = ret
        \/ Record = Rec("code", "1") /\ phase' = "returned" /\ ret' = "corrupt" /\ n' = 0
        \/ Record # Rec("code", "1") /\ pos' = Len(req.answer)
           /\ phase' = "returned" /\ ret' = "ok" /\ n' = 0
    BY <1>2, <1>5 DEF Load, Goes, Returns, Takes, Misses
  <2>4. GotOK' BY <1>1, <1>2 DEF GotOK
  <2>5. Typed'
    <3>1. ret' \in Results /\ phase' \in Phases /\ n' \in {0, 1}
      BY <1>1, <2>3 DEF TypeOK, Results, Phases
    <3> QED BY <1>1, <1>2, <2>1, <2>2, <2>4, <3>1, TypedStill
  <2>6. Course' /\ Ways' /\ Settled' /\ RightOutcome'
    <3>1. phase' # "idle" BY <2>3
    <3> QED BY <1>1, <1>2, <2>1, <3>1, StillKeeps
  <2>7. Asked' BY <1>3, <1>4, <2>2, <2>3 DEF Asked
  <2>8. Taken' BY <1>2, <1>3, <2>3 DEF Taken, Nothing
  <2>9. Judged'
    <3>1. Collected(0)
      <4>1. phase \in Before BY <1>2 DEF Before
      <4> QED BY <1>1, <1>3, <4>1, NothingTyped
    <3>2. Collected(0)' /\ 0 \in 0..Total'
      BY <1>1, <1>2, <1>3, <1>4, <3>1, CollectedSame, TotalNat
    <3>3. CASE Fits
      <4>1. /\ Len(Answer) = 2 /\ Answer[1] = Rec("code", "0")
            /\ Answer[2] = Rec("strings", 5)
        BY <1>3, <3>3, RasterIs
      <4>2. pos + 1 \in {1, 2} BY <1>3, <2>2, <4>1
      <4>3. Record # Rec("code", "1") BY <1>3, <4>1, <4>2 DEF Record, Rec
      <4>4. phase' = "returned" => ret' = "ok" BY <1>2, <2>3, <4>3
      <4> QED BY <1>3, <1>4, <3>2, <3>3, <4>4 DEF Judged, Wellness
    <3>4. CASE ~Fits
      <4>1. Answer = <<Rec("code", "1")>> BY <1>1, <1>3, <3>4, RefusalIs
      <4>2. pos = 0 BY <1>3, <2>2, <4>1
      <4>3. Record = Rec("code", "1") BY <1>3, <4>1, <4>2 DEF Record
      <4>4. phase' = "returned" => ret' = "corrupt" BY <1>2, <2>3, <4>3
      <4>5. at' # "h2" /\ got' = Nothing BY <1>2, <1>3, <1>4 DEF Rasters
      <4> QED BY <1>3, <1>4, <3>2, <3>4, <4>4, <4>5 DEF Judged, Nothing
    <3> QED BY <3>3, <3>4
  <2> QED BY <2>5, <2>6, <2>7, <2>8, <2>9 DEF IInv
<1>6. CASE Misses /\ Hurt(1) /\ Returns("corrupt")
  <2>1. phase \in Before /\ "corrupt" \in Results BY <1>2 DEF Before, Results
  <2>2. UNCHANGED <<serverVars, got>> BY <1>2, <1>6 DEF Misses
  <2> QED BY <1>2, <1>6, <2>1, <2>2, ReadingFails
<1> QED BY <1>5, <1>6 DEF Load

\* The records that say of a reading what it is.
LEMMA FirstRecords ==
  ASSUME IInv, phase = "verify", Takes
  PROVE  \/ /\ ~Fits /\ Verdict \in {"signature", "expired"}
            /\ Verdict = "expired" => F.kind = "oesu"
            /\ Record # Rec("status", "ok") /\ Record # Rec("version", "good")
         \/ Fits /\ pos = 0 /\ F.kind = "oesu" /\ Record = Rec("status", "ok")
         \/ Fits /\ pos + 1 = Prelude /\ Record = VersionItem
<1>1. /\ Asked /\ Taken /\ TypeOK /\ file \in Library BY InvParts
<1>2. /\ req.answer = Answer /\ chart \in Charts /\ F.kind # "raster"
      /\ pos = 0 \/ (pos = 1 /\ F.kind = "oesu" /\ Fits)
  BY <1>1 DEF Asked, Taken, Started, TypeOK
<1>3. F.kind \in {"oesu", "oesenc"} BY <1>1, <1>2, FileFacts DEF Kinds
<1>4. Record = Answer[pos + 1] BY <1>2 DEF Record
<1>5. CASE ~Fits
  <2>1. pos = 0 BY <1>2, <1>5
  <2>2. \/ F.kind = "oesenc" /\ Answer = <<Rec("version", "1024")>>
        \/ F.kind = "oesu" /\ Answer = <<Rec("status", "expired")>>
        \/ F.kind = "oesu" /\ Answer = <<Rec("status", "refused")>>
    BY <1>1, <1>2, <1>3, <1>5, RefusalIs
  <2>3. \/ F.kind = "oesenc" /\ Record = Rec("version", "1024")
        \/ F.kind = "oesu" /\ Record = Rec("status", "expired")
        \/ F.kind = "oesu" /\ Record = Rec("status", "refused")
    BY <1>4, <2>1, <2>2
  <2>4. Record.v \in {"1024", "expired", "refused"} /\ (Record.v = "expired" => F.kind = "oesu")
        /\ Record # Rec("status", "ok") /\ Record # Rec("version", "good")
    BY <2>3 DEF Rec
  <2>5. Verdict = IF Record.v = "expired" THEN "expired" ELSE "signature"
    BY <2>4 DEF Verdict
  <2> QED BY <1>5, <2>4, <2>5
<1>6. CASE Fits
  <2>1. ChartAnswer BY <1>1, <1>2, <1>6, ChartIs
  <2>2. CASE F.kind = "oesu" /\ pos = 0
    BY <1>4, <1>6, <2>1, <2>2 DEF ChartAnswer, Prelude
  <2>3. CASE F.kind = "oesu" /\ pos = 1
    BY <1>4, <1>6, <2>1, <2>3 DEF ChartAnswer, Prelude
  <2>4. CASE F.kind = "oesenc"
    BY <1>2, <1>4, <1>6, <2>1, <2>4 DEF ChartAnswer, Prelude
  <2> QED BY <1>2, <1>3, <2>2, <2>3, <2>4
<1> QED BY <1>5, <1>6

LEMMA VerifyKeeps ==
  ASSUME IInv, Verify PROVE IInv'
<1>1. /\ Typed /\ Course /\ Ways /\ Asked /\ Taken /\ TypeOK /\ GotOK /\ faults \in 0..2
      /\ file \in Library
  BY InvParts
<1>2. phase = "verify" /\ got' = got /\ Still BY DEF Verify
<1>3. /\ F.kind # "raster" /\ got = Nothing /\ req.answer = Answer /\ chart \in Charts
  BY <1>1, <1>2 DEF Asked, Taken, Started, Before, TypeOK
<1>4. /\ F' = F /\ Full' = Full /\ Fits' = Fits /\ Total' = Total /\ Answer' = Answer
      /\ Wellness' = Wellness /\ at' = at /\ Good' = Good /\ Prelude' = Prelude
  BY <1>2, StillSame
<1>c. Collected(0) /\ Collected(0)' /\ 0 \in 0..Total /\ 0 \in 0..Total'
  <2>1. phase \in Before BY <1>2 DEF Before
  <2>2. Collected(0) BY <1>1, <1>3, <2>1, NothingTyped
  <2>3. 0 \in 0..Total BY <1>1, <1>3, TotalNat
  <2> QED BY <1>2, <1>4, <2>2, <2>3, CollectedSame
<1>5. CASE Takes /\ Hurt(0)
  <2>1. faults' = faults BY <1>1, <1>5, HurtIs
  <2>2. /\ pos' = pos + 1 /\ UNCHANGED <<up, starting, late, req>> /\ pos' \in 1..req.fed
        /\ pos \in Nat
    BY <1>5, TakesIs
  <2>3. \/ /\ ~Fits /\ Verdict \in {"signature", "expired"}
           /\ Verdict = "expired" => F.kind = "oesu"
           /\ phase' = "returned" /\ ret' = Verdict /\ n' = 0
        \/ Fits /\ pos = 0 /\ F.kind = "oesu" /\ phase' = "verify" /\ ret' = ret /\ n' = 0
        \/ Fits /\ F.compatible /\ pos + 1 = Prelude /\ phase' = "read" /\ ret' = ret /\ n' = 0
        \/ Fits /\ ~F.compatible /\ phase' = "returned" /\ ret' = "version" /\ n' = 0
    <3>0. \/ Record = Rec("status", "ok") /\ Goes("verify")
          \/ Record = Rec("version", "good") /\ Goes("read")
          \/ /\ Record # Rec("status", "ok") /\ Record # Rec("version", "good")
             /\ Returns(Verdict)
      BY <1>5 DEF Verify, Takes, Misses
    <3>1. CASE /\ ~Fits /\ Verdict \in {"signature", "expired"}
               /\ Verdict = "expired" => F.kind = "oesu"
               /\ Record # Rec("status", "ok") /\ Record # Rec("version", "good")
      BY <3>0, <3>1 DEF Returns
    <3>2. CASE Fits /\ pos = 0 /\ F.kind = "oesu" /\ Record = Rec("status", "ok")
      <4>1. Record # Rec("version", "good") BY <3>2 DEF Rec
      <4> QED BY <3>0, <3>2, <4>1 DEF Goes
    <3>3. CASE Fits /\ pos + 1 = Prelude /\ Record = VersionItem
      <4>1. CASE F.compatible
        <5>1. Record = Rec("version", "good") BY <3>3, <4>1 DEF VersionItem
        <5>2. Record # Rec("status", "ok") BY <5>1 DEF Rec
        <5> QED BY <3>0, <3>3, <4>1, <5>1, <5>2 DEF Goes
      <4>2. CASE ~F.compatible
        <5>1. Record = Rec("version", "bad") BY <3>3, <4>2 DEF VersionItem
        <5>2. Record # Rec("status", "ok") /\ Record # Rec("version", "good") /\ Record.v = "bad"
          BY <5>1 DEF Rec
        <5>3. Verdict = "version" BY <5>2 DEF Verdict
        <5> QED BY <3>0, <3>3, <4>2, <5>2, <5>3 DEF Returns
      <4> QED BY <4>1, <4>2
    <3> QED BY <1>2, <1>5, <3>1, <3>2, <3>3, FirstRecords
  <2>4. GotOK' BY <1>1, <1>2 DEF GotOK
  <2>5. Typed'
    <3>1. ret' \in Results /\ phase' \in Phases /\ n' \in {0, 1}
      BY <1>1, <2>3 DEF TypeOK, Results, Phases
    <3>2. pos' \in 0..req.fed BY <1>1, <2>2 DEF TypeOK, ServerTypeOK
    <3> QED BY <1>1, <1>2, <2>1, <2>2, <2>4, <3>1, <3>2, TypedStill
  <2>6. Course' /\ Ways' /\ Settled' /\ RightOutcome'
    <3>1. phase' # "idle" BY <2>3
    <3> QED BY <1>1, <1>2, <2>1, <3>1, StillKeeps
  <2>7. Asked' BY <1>3, <1>4, <2>2, <2>3 DEF Asked
  <2>8. Taken'
    <3>1. phase' = "verify" => pos' = 1 /\ F'.kind = "oesu" /\ Fits' BY <1>4, <2>2, <2>3
    <3>2. phase' = "read" => Fits' /\ F'.compatible /\ pos' = Prelude' + 0
      BY <1>4, <2>2, <2>3 DEF Prelude
    <3>3. 0 <= 1 + F'.covr BY <1>1, <1>3, <1>4, TotalNat
    <3>4. phase' \in Before => got' = Nothing BY <1>2, <1>3
    <3> QED BY <1>c, <3>1, <3>2, <3>3, <3>4 DEF Taken, Nothing
  <2>9. Judged'
    <3>1. got' = Nothing BY <1>2, <1>3
    <3>2. phase' = "returned" =>
            /\ ret' # "ok"
            /\ IF Fits THEN ret' = Wellness
               ELSE /\ ret' \in {"signature", "corrupt", "expired"}
                    /\ ret' = "expired" => F.kind = "oesu"
            /\ ~(Fits /\ F.compatible)
      BY <1>3, <2>3 DEF Wellness
    <3>3. phase' = "returned" => ~(Good /\ Fits)
      <4>1. Good => F.compatible BY DEF Good
      <4> QED BY <3>2, <4>1, Zenon
    <3>4. Good /\ at = "h2" /\ ~Fits => faults > 0 /\ F.kind # "oesu"
      <4>0. phase # "idle" BY <1>2
      <4>1. Good /\ at = "h2" => faults > 0 BY <1>1, <4>0, Zenon DEF Ways
      <4>2. F.kind = "oesu" /\ Good => Fits BY DEF Good, Permitted, Fits, RightKey
      <4> QED BY <4>1, <4>2
    <3>5. F.kind # "oesu" => Limit' = 0 BY <1>4 DEF Limit
    <3>6. Good' /\ at' = "h2" /\ phase' = "returned" => faults' > Limit'
      BY <1>1, <1>4, <2>1, <3>3, <3>4, <3>5
    <3> QED BY <1>4, <1>c, <3>1, <3>2, <3>6 DEF Judged, Nothing
  <2> QED BY <2>5, <2>6, <2>7, <2>8, <2>9 DEF IInv
<1>6. CASE Misses /\ pos = 0 /\ n = 0 /\ n' = 1 /\ Hurt(0) /\ UNCHANGED <<phase, ret>>
  BY <1>2, <1>6, TriedAgain DEF Misses
<1>7. CASE Misses /\ Hurt(1) /\ Returns("corrupt")
  <2>1. phase \in Before /\ "corrupt" \in Results BY <1>2 DEF Before, Results
  <2>2. UNCHANGED <<serverVars, got>> BY <1>2, <1>7 DEF Misses
  <2> QED BY <1>2, <1>7, <2>1, <2>2, ReadingFails
<1> QED BY <1>5, <1>6, <1>7 DEF Verify

LEMMA ReadKeeps ==
  ASSUME IInv, Read PROVE IInv'
<1>1. /\ Typed /\ Course /\ Ways /\ Asked /\ Taken /\ TypeOK /\ ReqOK /\ GotOK
      /\ faults \in 0..2 /\ file \in Library
  BY InvParts
<1>2. phase = "read" /\ Still BY DEF Read
<1>3. /\ F.kind # "raster" /\ req.answer = Answer /\ chart \in Charts /\ Fits /\ F.compatible
  BY <1>1, <1>2 DEF Asked, Taken, Started, TypeOK
<1>4. /\ F' = F /\ Full' = Full /\ Fits' = Fits /\ Total' = Total /\ Answer' = Answer
      /\ Wellness' = Wellness /\ at' = at /\ Prelude' = Prelude /\ Limit' = Limit
  BY <1>2, StillSame
<1>5. PICK q \in 0..Total : /\ pos = Prelude + q /\ Collected(q)
                            /\ ~Full => q <= 1 + F.covr
  BY <1>1, <1>2 DEF Taken
<1>6. ChartAnswer BY <1>1, <1>3, ChartIs
<1>7. /\ Total \in Nat /\ F.covr \in Nat /\ 1 + F.covr <= Total /\ Prelude \in 1..2
      /\ q \in Nat /\ q <= Total
  <2>1. Total \in Nat /\ F.covr \in Nat /\ 1 + F.covr <= Total BY <1>1, <1>3, TotalNat
  <2> QED BY <1>5, <2>1 DEF Prelude
<1>8. Len(req.answer) = Prelude + Total BY <1>3, <1>6 DEF ChartAnswer
<1>9. Wellness = "ok" BY <1>3 DEF Wellness
<1>10. CASE Takes /\ Hurt(0)
  <2>1. faults' = faults BY <1>1, <1>10, HurtIs
  <2>2. /\ pos' = pos + 1 /\ UNCHANGED <<up, starting, late, req>> /\ pos' \in 1..req.fed
        /\ pos < req.fed /\ req.fed <= Len(req.answer) /\ req.fed \in Nat
    BY <1>10, TakesIs
  <2>3. q \in 0..(Total - 1) /\ pos' = Prelude + (q + 1) /\ q + 1 \in 0..Total
    BY <1>5, <1>7, <1>8, <2>2
  <2>4. Record = Item(q)
    <3>1. pos + 1 = Prelude + 1 + q BY <1>5, <1>7
    <3>2. Record = Answer[Prelude + 1 + q] BY <1>3, <3>1 DEF Record
    <3> QED BY <1>3, <1>6, <2>3, <3>2 DEF ChartAnswer
  <2>5. got' = IF Full THEN FullRecord ELSE HeaderRecord
    BY <1>10 DEF Read, Takes, Misses, Avail
  <2>6. GotOK' /\ Collected(q + 1)'
    BY <1>1, <1>3, <1>4, <1>5, <2>3, <2>4, <2>5, ItemTaken
  <2>7. IF ~Full /\ Record.t = "feature" THEN phase' = "returned" /\ ret' = "ok" /\ n' = 0
        ELSE phase' = "read" /\ ret' = ret /\ n' = 0
    BY <1>2, <1>10 DEF Read, Takes, Misses, Avail, Ended, Returns, Goes
  <2>8. Typed'
    <3>1. ret' \in Results /\ phase' \in Phases /\ n' \in {0, 1}
      BY <1>1, <2>7 DEF TypeOK, Results, Phases
    <3>2. pos' \in 0..req.fed BY <2>2
    <3> QED BY <1>1, <1>2, <2>1, <2>2, <2>6, <3>1, <3>2, TypedStill
  <2>9. Course' /\ Ways' /\ Settled' /\ RightOutcome'
    <3>1. phase' # "idle" BY <2>7
    <3> QED BY <1>1, <1>2, <2>1, <3>1, StillKeeps
  <2>10. Asked' BY <1>3, <1>4, <2>2, <2>7 DEF Asked
  <2>11. CASE ~Full /\ Record.t = "feature"
    <3>1. q > F.covr
      <4>1. q <= F.covr => Item(q).t # "feature" BY DEF Item, Rec
      <4> QED BY <1>7, <2>4, <2>11, <4>1
    <3>2. 1 + F.covr <= q + 1 BY <1>7, <3>1
    <3>3. phase' = "returned" /\ ret' = "ok" BY <2>7, <2>11
    <3>4. Taken' BY <3>3 DEF Taken, Before
    <3>5. \E r \in 0..Total' : Collected(r)' /\ 1 + F'.covr <= r /\ (Full' => r = Total')
      BY <1>4, <2>3, <2>6, <2>11, <3>2
    <3>6. Judged' BY <1>3, <1>4, <1>9, <3>3, <3>5 DEF Judged
    <3> QED BY <2>8, <2>9, <2>10, <3>4, <3>6 DEF IInv
  <2>12. CASE ~(~Full /\ Record.t = "feature")
    <3>1. phase' = "read" BY <2>7, <2>12
    <3>2. ~Full => q + 1 <= 1 + F.covr
      <4> SUFFICES ASSUME ~Full PROVE q <= F.covr BY <1>7
      <4>1. q <= 1 + F.covr BY <1>5
      <4>2. CASE q = 1 + F.covr
        <5>1. Item(q) = BodyItem(1)
          <6>1. q # 0 /\ ~(q <= F.covr) /\ q - F.covr = 1 BY <1>7, <4>2
          <6> QED BY <6>1 DEF Item
        <5>2. Record.t = "feature" BY <2>4, <5>1 DEF BodyItem, Rec
        <5> QED BY <2>12, <5>2
      <4> QED BY <1>7, <4>1, <4>2
    <3>3. Judged' BY <3>1 DEF Judged
    <3>4. \E r \in 0..Total' : pos' = Prelude' + r /\ Collected(r)' /\ (~Full' => r <= 1 + F'.covr)
      BY <1>4, <2>3, <2>6, <3>2
    <3>5. Taken' BY <1>3, <1>4, <3>1, <3>4 DEF Taken, Before
    <3> QED BY <2>8, <2>9, <2>10, <3>3, <3>5 DEF IInv
  <2> QED BY <2>11, <2>12
<1>11. CASE Misses /\ Hurt(IF AtEnd THEN 0 ELSE 2) /\ Ended /\ UNCHANGED got
  <2>1. faults' \in 0..2 /\ faults' >= faults /\ (~AtEnd => faults' = 2)
    <3>1. (IF AtEnd THEN 0 ELSE 2) \in 0..2 OBVIOUS
    <3>2. CASE AtEnd
      <4>1. Hurt(0) BY <1>11, <3>2
      <4> QED BY <1>1, <3>2, <4>1, HurtIs
    <3>3. CASE ~AtEnd
      <4>1. Hurt(2) BY <1>11, <3>3
      <4> QED BY <1>1, <3>3, <4>1, HurtIs
    <3> QED BY <3>2, <3>3
  <2>2. /\ UNCHANGED <<up, starting, late, req, pos, got>> /\ phase' = "returned"
        /\ ret' = "ok" /\ n' = 0 /\ ~Avail
    BY <1>11 DEF Misses, serverVars, Ended, Returns
  <2>3. GotOK' BY <1>1, <2>2 DEF GotOK
  <2>4. Typed'
    <3>1. pos' \in 0..req.fed /\ ret' \in Results /\ phase' \in Phases
      BY <1>1, <2>2 DEF TypeOK, ServerTypeOK, Phases, Results
    <3> QED BY <1>1, <1>2, <2>1, <2>2, <2>3, <3>1, TypedStill
  <2>5. Course' /\ Ways' /\ Settled' /\ RightOutcome'
    BY <1>1, <1>2, <2>1, <2>2, StillKeeps
  <2>6. Asked' /\ Taken' BY <2>2 DEF Asked, Taken, Started, Before
  <2>7. Collected(q)' BY <1>4, <1>5, <2>2, CollectedSame
  <2>8. AtEnd => q = Total
    <3>1. pos \in Nat /\ ~(pos < req.fed) /\ pos <= req.fed
      BY <1>1, <2>2 DEF TypeOK, ServerTypeOK, Avail
    <3>2. AtEnd => pos = Len(req.answer)
      <4>1. req.fed \in Nat BY <1>1 DEF TypeOK, ServerTypeOK, ReqOK
      <4> QED BY <3>1, <4>1 DEF AtEnd
    <3> QED BY <1>5, <1>7, <1>8, <3>2
  <2>9. faults' <= Limit' => AtEnd BY <1>4, <2>1 DEF Limit
  <2>10. \E r \in 0..Total' : /\ Collected(r)'
                              /\ faults' <= Limit' => 1 + F'.covr <= r /\ r = Total'
    BY <1>4, <1>5, <1>7, <2>7, <2>8, <2>9
  <2>11. Judged' BY <1>3, <1>4, <1>9, <2>2, <2>10 DEF Judged
  <2> QED BY <2>4, <2>5, <2>6, <2>11 DEF IInv
<1> QED BY <1>10, <1>11 DEF Read

(***************************************************************************)
(* What follows a reading.                                                 *)
(***************************************************************************)
LEMMA InvSane ==
  ASSUME IInv, phase # "idle" PROVE Sane /\ chart \in Charts
<1>1. /\ Taken /\ Judged /\ TypeOK /\ GotOK /\ file \in Library BY InvParts
<1>2. chart \in Charts BY <1>1 DEF TypeOK
<1>3. \E q \in 0..Total : Collected(q)
  <2>1. CASE phase \in Before
    <3>1. Collected(0) /\ 0 \in 0..Total
      BY <1>1, <1>2, <2>1, NothingTyped, TotalNat DEF Taken
    <3> QED BY <3>1
  <2>2. CASE phase = "read" BY <1>1, <2>2 DEF Taken
  <2>3. CASE phase = "returned" BY <1>1, <2>3 DEF Judged
  <2> QED BY <1>1, <2>1, <2>2, <2>3 DEF TypeOK, Before
<1> QED BY <1>1, <1>2, <1>3, CollectedSane

LEMMA SaneSame ==
  ASSUME Sane, file' = file, chart' = chart, got' = got PROVE Sane'
<1>1. F' = F BY DEF F
<1>2. (\A i : KnownTo(i)' = KnownTo(i)) /\ AllKnown' = AllKnown /\ Edition' = Edition
  BY <1>1 DEF KnownTo, AllKnown, Edition
<1>3. \A k : ObjectsOfFirst(k)' = ObjectsOfFirst(k) BY <1>1, <1>2 DEF ObjectsOfFirst
<1>4. CoverageOnce => CoverageOnce' BY <1>1 DEF CoverageOnce
<1>5. chart # NoChart /\ ObjectsArePrefix => ObjectsArePrefix'
  <2> SUFFICES ASSUME chart # NoChart, ObjectsArePrefix PROVE ObjectsArePrefix' OBVIOUS
  <2>1. \E k \in 0..Len(F'.features) : ObjectsOfFirst(k)'
    BY <1>1, <1>3 DEF ObjectsArePrefix
  <2> QED BY <1>1, <1>2, <2>1 DEF ObjectsArePrefix
<1> QED BY <1>2, <1>4, <1>5 DEF Sane, CoverageOnce, ObjectsArePrefix

Outcomes == {"none", "noerror", "retry", "remove"} \cup Results

\* What Init returns to OpenCPN is right.
LEMMA FinishKeeps ==
  ASSUME IInv, phase # "idle", NEW result \in Outcomes, result # "none", Finish(result),
         Good /\ faults <= Limit => result = "ok" /\ Whole,
         result = "ok" /\ faults = 0 => Permitted \/ userKey = chart
  PROVE  IInv'
<1>1. /\ Typed /\ TypeOK /\ ReqOK /\ GotOK BY InvParts
<1>2. Sane /\ chart \in Charts BY InvSane
<1>3. /\ phase' = "idle" /\ n' = 0 /\ ret' = "ok" /\ outcome' = result
      /\ UNCHANGED <<up, starting, req, pos, late, file, chart, mode, at, got, userKey, faults>>
  BY DEF Finish, serverVars
<1>4. hintTaken' \in BOOLEAN /\ failCount' \in [Charts -> Nat]
  <2>1. hintTaken \in BOOLEAN /\ failCount \in [Charts -> Nat] BY <1>1 DEF TypeOK
  <2>2. CASE F.kind # "oesenc" BY <2>1, <2>2 DEF Finish
  <2>3. CASE F.kind = "oesenc"
    <3>1. failCount[chart] + 1 \in Nat /\ failCount[chart] \in Nat BY <1>2, <2>1
    <3>2. /\ hintTaken' = (hintTaken /\ result = "ok")
          /\ failCount' = [failCount EXCEPT ![chart] =
                             IF result = "ok" THEN 0 ELSE failCount[chart] + 1]
      BY <2>3 DEF Finish
    <3> QED BY <2>1, <3>1, <3>2
  <2> QED BY <2>2, <2>3
<1>5. Typed'
  <2>1. ReqOK' /\ GotOK' /\ ServerTypeOK' BY <1>1, <1>3 DEF ReqOK, GotOK, TypeOK, ServerTypeOK
  <2>2. 0 \in 0..LastProbe BY LastProbeNat
  <2>3. TypeOK' BY <1>1, <1>2, <1>3, <1>4, <2>1, <2>2 DEF TypeOK, Outcomes, Results
  <2> QED BY <2>1, <2>3 DEF Typed
<1>6. Course' /\ Asked' /\ Taken' /\ Judged' /\ Ways'
  BY <1>3 DEF Course, Asked, Taken, Judged, Ways, Started, Before
<1>7. Settled' BY <1>2, <1>3, SaneSame DEF Settled
<1>8. RightOutcome'
  <2>1. F' = F BY <1>3 DEF F
  <2>2. Permitted' = Permitted /\ Good' = Good BY <1>3, <2>1 DEF Permitted, Good
  <2>3. \A i : KnownTo(i)' = KnownTo(i) BY <2>1 DEF KnownTo
  <2>4. AllKnown' = AllKnown BY <2>1 DEF AllKnown
  <2>5. \A k : ObjectsOfFirst(k)' = ObjectsOfFirst(k)
    BY <1>3, <2>1, <2>3 DEF ObjectsOfFirst
  <2>6. Whole => Whole' BY <1>3, <2>1, <2>4, <2>5 DEF Whole
  <2>7. Good' /\ faults' <= (IF F'.kind = "oesu" /\ mode' = "header" THEN 1 ELSE 0)
          => outcome' = "ok" /\ Whole'
    BY <1>3, <2>1, <2>2, <2>6 DEF Limit
  <2>8. outcome' = "ok" /\ faults' = 0 => Permitted' \/ userKey' = chart'
    BY <1>3, <2>2
  <2> QED BY <2>7, <2>8 DEF RightOutcome
<1> QED BY <1>5, <1>6, <1>7, <1>8 DEF IInv

LEMMA NoRasterKeyKeeps ==
  ASSUME IInv, NoRasterKey PROVE IInv'
<1>1. phase # "idle" /\ F.kind = "raster" /\ F.permit = "none" /\ Finish("remove")
  BY DEF NoRasterKey
<1>2. ~Good BY <1>1 DEF Good, Permitted
<1>3. "remove" \in Outcomes BY DEF Outcomes
<1> QED BY <1>1, <1>2, <1>3, FinishKeeps

\* Another reading is begun, with nothing there.
LEMMA ThenKeeps ==
  ASSUME IInv, phase = "returned", phase' \in {"probe", "open"}, n' = 0, got' = Nothing,
         ret' = "ok", userKey' \in Charts \cup {NoChart},
         UNCHANGED <<serverVars, file, chart, mode, hintTaken, failCount, outcome, faults>>,
         at' \in Headers \cup Keys \cup Rasters \cup {"f1", "f2"},
         F.kind = "raster" <=> at' \in Rasters,
         at' \in Headers => mode = "header",
         at' \in {"f1", "f2"} => mode = "full",
         at' \in Keys \cup {"f2"} => F.kind = "oesenc",
         Good /\ at' = "h2" => faults > 0,
         faults = 0 => /\ at' = "r2" => F.permit # "right"
                       /\ F.kind = "oesenc" /\ at' \in Headers \cup {"f2"} => userKey' = chart
                       /\ at' = "k4" => userKey' = ChartinfoKey'
  PROVE  IInv'
<1>1. Typed /\ TypeOK /\ ReqOK /\ file \in Library BY InvParts
<1>2. chart \in Charts BY <1>1 DEF TypeOK
<1>3. F' = F /\ UNCHANGED <<up, starting, req, pos, late>> BY DEF F, serverVars
<1>4. Good' = Good BY <1>3 DEF Good, Permitted
<1>5. GotOK'
  <2>1. <<>> \in Seq(Object) /\ Len(<<>>) = 0 OBVIOUS
  <2> QED BY <2>1 DEF GotOK, Nothing
<1>6. TypeOK'
  <2>1. 0 \in 0..LastProbe BY LastProbeNat
  <2>2. ServerTypeOK' BY <1>1, <1>3 DEF TypeOK, ServerTypeOK
  <2>3. got'.obj \in 0..Len(got'.objs)
    <3>1. got'.objs \in Seq(Object) /\ got'.obj = Len(got'.objs) BY <1>5 DEF GotOK
    <3> QED BY <3>1
  <2> QED BY <1>1, <1>2, <2>1, <2>2, <2>3
          DEF TypeOK, Headers, Keys, Rasters, Results
<1>7. Typed' BY <1>1, <1>3, <1>5, <1>6 DEF Typed, ReqOK
<1>8. Course' BY <1>3 DEF Course, Full
<1>9. Ways' BY <1>3, <1>4 DEF Ways
<1>10. Asked' /\ Taken' /\ Judged' /\ Settled' /\ RightOutcome'
  BY DEF Asked, Taken, Judged, Settled, RightOutcome, Started, Before, Nothing
<1> QED BY <1>7, <1>8, <1>9, <1>10 DEF IInv

\* What a reading says that went well.
LEMMA GoodReads ==
  ASSUME IInv, phase = "returned", faults = 0
  PROVE  /\ Fits => ret = Wellness
         /\ ~Fits => /\ ret \in {"signature", "corrupt", "expired"}
                     /\ ret = "expired" => F.kind = "oesu"
         /\ Good /\ Fits => ret = "ok"
         /\ ret = "ok" => Fits
<1>1. Judged BY InvParts
<1>2. Good => Wellness = "ok" BY DEF Good, Wellness
<1> QED BY <1>1, <1>2 DEF Judged

LEMMA FitsIs ==
  ASSUME IInv, phase # "idle"
  PROVE  /\ F.kind \in {"oesu", "oesenc", "raster"}
         /\ F.kind = "oesu" => (Fits <=> Permitted)
         /\ F.kind = "oesenc" => (Fits <=> userKey = chart)
         /\ F.kind = "raster" => (Fits <=> F.permit = IF at = "r1" THEN "right" ELSE "second")
         /\ Fits => Permitted \/ userKey = chart
<1>1. F.kind \in {"oesu", "oesenc", "raster"}
  BY InvParts, InvSane, FileFacts DEF Kinds
<1>2. F.kind = "oesu" => (Fits <=> Permitted) BY DEF Fits, RightKey, Permitted
<1>3. F.kind = "oesenc" => (Fits <=> userKey = chart) BY DEF Fits, RightKey
<1>4. F.kind = "raster" =>
        /\ Fits <=> F.permit = IF at = "r1" THEN "right" ELSE "second"
        /\ Permitted <=> F.permit \in {"right", "second"}
  BY DEF Fits, RightKey, Permitted
<1> QED BY <1>1, <1>2, <1>3, <1>4

LEMMA BegunTwice ==
  ASSUME NEW k \in Nat PROVE Begun(2 * k) = k
<1>1. 2 * k \in Nat /\ (2 * k) % 2 = 0 OBVIOUS
<1>2. Begun(2 * k) \in Nat /\ 2 * Begun(2 * k) = 2 * k BY <1>1, Halves
<1> QED BY <1>2

LEMMA WholeAtEnd ==
  ASSUME IInv, phase = "returned", ret = "ok", Good, faults <= Limit, F.kind # "raster",
         at \in Headers \/ Full
  PROVE  Whole /\ ~Cancelled
<1>1. /\ Judged /\ Course /\ GotOK /\ file \in Library BY InvParts
<1>2. chart \in Charts BY InvSane
<1>3. PICK q \in 0..Total : Collected(q) /\ 1 + F.covr <= q /\ (Full => q = Total)
  BY <1>1 DEF Judged
<1>4. /\ Total \in Nat /\ F.covr \in Nat /\ q \in Nat /\ q # 0 /\ BodyLength \in Nat
      /\ F.features \in Seq(Features) /\ Len(F.features) \in Nat
  BY <1>1, <1>2, <1>3, TotalNat, FileFacts
<1>5. ~Cancelled
  <2>1. got.edition = Edition BY <1>3, <1>4 DEF Collected
  <2>2. Edition = "1" BY DEF Good, Edition
  <2> QED BY <2>1, <2>2 DEF Cancelled
<1>6. CASE Full
  <2>1. mode = "full" BY <1>1, <1>6 DEF Course
  <2>2. BodyLength = 2 * Len(F.features) BY <1>6 DEF BodyLength
  <2>3. BodyRead(q) = 2 * Len(F.features) BY <1>3, <1>4, <1>6, <2>2 DEF BodyRead, Total
  <2>4. Objects(2 * Len(F.features)) BY <1>3, <1>6, <2>3 DEF Collected
  <2>5. Begun(2 * Len(F.features)) = Len(F.features) BY <1>4, BegunTwice
  <2>6. ObjectsOfFirst(Len(F.features)) /\ Parted(2 * Len(F.features))
    BY <2>4, <2>5 DEF Objects
  <2>7. ASSUME AllKnown, NEW i \in DOMAIN got.objs
        PROVE  got.objs[i].parts = <<got.objs[i].id>>
    <3>1. Len(F.features) \in 0..Len(F.features) BY <1>4
    <3>2. Len(got.objs) = Len(F.features)
      BY <1>4, <2>6, <2>7, <3>1, AllCounted DEF ObjectsOfFirst
    <3>3. i \in 1..Len(got.objs) BY <1>1, GotParts
    <3>4. 2 * i <= 2 * Len(F.features) BY <1>4, <3>2, <3>3
    <3> QED BY <2>6, <2>7, <3>3, <3>4 DEF Parted
  <2> QED BY <1>5, <2>1, <2>6, <2>7 DEF Whole
<1>7. CASE ~Full
  <2>1. mode = "header" BY <1>1, <1>7 DEF Course
  <2>2. got.covr = Coverage(q) BY <1>3, <1>7 DEF Collected
  <2>3. Coverage(q) = F.covr BY <1>3, <1>4 DEF Coverage
  <2> QED BY <1>5, <2>1, <2>2, <2>3 DEF Whole
<1> QED BY <1>6, <1>7

LEMMA AgainIs ==
  ASSUME NEW p, NEW a, Again(p, a)
  PROVE  /\ phase' = p /\ at' = a /\ n' = 0 /\ got' = got /\ ret' = "ok" /\ userKey' = userKey
         /\ UNCHANGED <<serverVars, file, chart, mode, hintTaken, failCount, outcome, faults>>
  BY DEF Again, Then, Goto

\* The header.
LEMMA HeaderFacts ==
  ASSUME IInv, phase = "returned", at \in Headers
  PROVE  /\ F.kind # "raster" /\ mode = "header" /\ faults \in 0..2
         /\ faults = 0 /\ F.kind = "oesenc" => userKey = chart
         /\ Good /\ ret # "ok" => faults > 0
         /\ ret # "ok" => got = Nothing
         /\ Good /\ ret # "ok" /\ at = "h2" => faults > Limit
<1>1. Course /\ Ways /\ Judged /\ faults \in 0..2 BY InvParts
<1>2. F.kind # "raster" /\ mode = "header" BY <1>1 DEF Course, Headers, Rasters
<1>3. faults = 0 /\ F.kind = "oesenc" => userKey = chart BY <1>1 DEF Ways
<1>4. Good /\ faults = 0 => Fits BY <1>2, <1>3, FitsIs DEF Good
<1>5. Good /\ faults = 0 => ret = "ok" BY <1>4, GoodReads
<1>6. Good /\ ret # "ok" => faults > 0 BY <1>1, <1>5
<1> QED BY <1>1, <1>2, <1>3, <1>6 DEF Judged

LEMMA HeaderOnce ==
  ASSUME IInv, phase = "returned", at \in Headers, ret # "ok", Again("probe", "h2")
  PROVE  IInv'
<1>1. /\ F.kind # "raster" /\ mode = "header" /\ (Good => faults > 0) /\ got = Nothing
      /\ faults = 0 /\ F.kind = "oesenc" => userKey = chart
  BY HeaderFacts
<1>2. /\ phase' = "probe" /\ at' = "h2" /\ n' = 0 /\ got' = Nothing /\ ret' = "ok"
      /\ userKey' = userKey
      /\ UNCHANGED <<serverVars, file, chart, mode, hintTaken, failCount, outcome, faults>>
  BY <1>1, AgainIs
<1>3. userKey' \in Charts \cup {NoChart} BY <1>2, InvParts DEF TypeOK
<1> QED BY <1>1, <1>2, <1>3, ThenKeeps DEF Headers, Keys, Rasters

LEMMA HeaderOk ==
  ASSUME IInv, phase = "returned", at \in Headers, ret = "ok", Finish("ok")
  PROVE  IInv'
<1>1. F.kind # "raster" BY HeaderFacts
<1>2. Good /\ faults <= Limit => Whole BY <1>1, WholeAtEnd
<1>3. faults = 0 => Permitted \/ userKey = chart BY GoodReads, FitsIs
<1>4. "ok" \in Outcomes BY DEF Outcomes, Results
<1> QED BY <1>2, <1>3, <1>4, FinishKeeps

LEMMA HeaderKeeps ==
  ASSUME IInv, phase = "returned", HeaderReturns \/ HeaderReturnsAgain
  PROVE  IInv'
<1>1. at \in Headers BY DEF HeaderReturns, HeaderReturnsAgain, Headers
<1>2. CASE F.kind = "oesu" /\ Cancelled /\ Finish("noerror")
  <2>1. Sane /\ chart \in Charts BY InvSane
  <2>2. got.edition = "0" /\ got.edition \in {"", Edition} BY <1>2, <2>1 DEF Sane, Cancelled
  <2>3. ~Good BY <2>2 DEF Edition, Good
  <2>4. "noerror" \in Outcomes BY DEF Outcomes
  <2> QED BY <1>2, <2>3, <2>4, FinishKeeps
<1>3. CASE ret # "ok" /\ Again("probe", "h2") BY <1>1, <1>3, HeaderOnce
<1>4. CASE ret = "ok" /\ Finish("ok") BY <1>1, <1>4, HeaderOk
<1>5. CASE /\ at = "h2"
           /\ Finish(IF F.kind = "oesu" /\ ret = "expired" THEN "remove" ELSE Cast(ret))
  <2>1. CASE ret = "ok"
    <3>1. Cast(ret) = "ok" BY <2>1 DEF Cast
    <3>2. Finish("ok") BY <1>5, <2>1, <3>1
    <3> QED BY <1>1, <2>1, <3>2, HeaderOk
  <2>2. CASE ret # "ok"
    <3>1. ret \in Results BY InvParts DEF TypeOK
    <3>2. PICK r \in Outcomes : r = IF F.kind = "oesu" /\ ret = "expired" THEN "remove"
                                    ELSE Cast(ret)
      BY <3>1 DEF Cast, Outcomes, Results
    <3>3. r # "ok" /\ r # "none" BY <2>2, <3>1, <3>2 DEF Cast, Results
    <3>4. Finish(r) BY <1>5, <3>2
    <3>5. ~(Good /\ faults <= Limit)
      <4>1. Good => faults > Limit BY <1>1, <1>5, <2>2, HeaderFacts
      <4>2. faults \in 0..2 /\ Limit \in 0..1 BY InvParts DEF Limit
      <4> QED BY <4>1, <4>2
    <3> QED BY <3>3, <3>4, <3>5, FinishKeeps
  <2> QED BY <2>1, <2>2
<1> QED BY <1>2, <1>3, <1>4, <1>5 DEF HeaderReturns, HeaderReturnsAgain

(***************************************************************************)
(* The whole chart, the key, and the raster chart.                         *)
(***************************************************************************)
LEMMA FullFacts ==
  ASSUME IInv, phase = "returned", at \in {"f1", "f2"}
  PROVE  /\ F.kind # "raster" /\ mode = "full" /\ Limit = 0 /\ faults \in 0..2 /\ Full
         /\ at = "f2" => F.kind = "oesenc" /\ (faults = 0 => userKey = chart)
         /\ ret \in Results
<1>1. Course /\ Ways /\ faults \in 0..2 /\ TypeOK BY InvParts
<1>2. Full BY DEF Full
<1>3. F.kind # "raster" /\ mode = "full" BY <1>1, <1>2 DEF Course, Rasters
<1> QED BY <1>1, <1>2, <1>3 DEF Course, Ways, Limit, TypeOK

\* The chart's Init ends with r, which is "ok" only for a reading that fitted.
LEMMA FullEnds ==
  ASSUME IInv, phase = "returned", at \in {"f1", "f2"}, NEW r \in Results \cup {"remove"},
         Finish(FullResult(r)), Good /\ faults = 0 => r = "ok" /\ Whole,
         r = "ok" /\ faults = 0 => Fits
  PROVE  IInv'
<1>1. Limit = 0 /\ faults \in 0..2 BY FullFacts
<1>2. PICK s \in Outcomes : s = FullResult(r) BY DEF FullResult, Outcomes, Results
<1>3. s # "none" /\ (s = "ok" <=> r = "ok") BY <1>2 DEF FullResult, Results
<1>4. Finish(s) BY <1>2
<1>5. Good /\ faults <= Limit => s = "ok" /\ Whole BY <1>1, <1>3
<1>6. s = "ok" /\ faults = 0 => Permitted \/ userKey = chart BY <1>3, FitsIs
<1> QED BY <1>3, <1>4, <1>5, <1>6, FinishKeeps

LEMMA FullKeeps ==
  ASSUME IInv, phase = "returned", FullReturns \/ FullReturnsAgain
  PROVE  IInv'
<1>1. at \in {"f1", "f2"} BY DEF FullReturns, FullReturnsAgain
<1>2. /\ F.kind # "raster" /\ mode = "full" /\ Limit = 0 /\ faults \in 0..2 /\ Full
      /\ at = "f2" => F.kind = "oesenc" /\ (faults = 0 => userKey = chart)
      /\ ret \in Results
  BY <1>1, FullFacts
<1>3. F.kind = "oesenc" \/ F.kind = "oesu" BY <1>2, FitsIs
<1>4. Good /\ ret = "ok" /\ faults = 0 => Whole /\ ~Cancelled BY <1>2, WholeAtEnd
<1>5. CASE at = "f1" /\ KeyTrouble /\ F.kind = "oesenc" /\ FullReturns
  <2>1. Then("open", "k1", Nothing) /\ userKey' = userKey BY <1>5 DEF FullReturns
  <2>2. /\ phase' = "open" /\ at' = "k1" /\ n' = 0 /\ got' = Nothing /\ ret' = "ok"
        /\ UNCHANGED <<serverVars, file, chart, mode, hintTaken, failCount, outcome, faults>>
    BY <2>1 DEF Then, Goto
  <2>3. userKey' \in Charts \cup {NoChart} BY <2>1, InvParts DEF TypeOK
  <2> QED BY <1>5, <2>1, <2>2, <2>3, ThenKeeps DEF Headers, Keys, Rasters
<1>6. CASE /\ at = "f1" /\ ~(KeyTrouble /\ F.kind = "oesenc")
           /\ KeyTrouble \/ ret = "expired"
           /\ FullReturns
  <2>1. Finish(FullResult(ret))
    <3>1. FullReturns => Finish(FullResult(IF KeyTrouble \/ ret = "expired" THEN ret
                                           ELSE IF Cancelled THEN "remove" ELSE "ok"))
      BY <1>6 DEF FullReturns
    <3> QED BY <1>6, <3>1
  <2>2. ret # "ok" BY <1>6 DEF KeyTrouble
  <2>3. ~(Good /\ faults = 0)
    <3> SUFFICES ASSUME Good, faults = 0 PROVE FALSE OBVIOUS
    <3>1. ~Fits BY <2>2, GoodReads
    <3>2. F.kind = "oesenc" BY <1>3, <3>1, FitsIs DEF Good
    <3>3. ret = "expired" BY <1>6, <3>2
    <3> QED BY <3>1, <3>2, <3>3, GoodReads
  <2>4. PICK r \in Results : r = ret BY <1>2
  <2> QED BY <1>1, <2>1, <2>2, <2>3, <2>4, FullEnds
<1>7. CASE at = "f1" /\ ~KeyTrouble /\ ret # "expired" /\ FullReturns
  <2>1. Finish(FullResult(IF Cancelled THEN "remove" ELSE "ok"))
    <3>1. FullReturns => Finish(FullResult(IF KeyTrouble \/ ret = "expired" THEN ret
                                           ELSE IF Cancelled THEN "remove" ELSE "ok"))
      BY <1>7 DEF FullReturns
    <3> QED BY <1>7, <3>1
  <2>2. PICK r \in Results \cup {"remove"} : r = IF Cancelled THEN "remove" ELSE "ok"
    BY DEF Results
  <2>3. faults = 0 => Fits BY <1>7, GoodReads DEF KeyTrouble
  <2>4. Good /\ faults = 0 => r = "ok" /\ Whole BY <1>4, <2>2, <2>3, GoodReads
  <2> QED BY <1>1, <2>1, <2>2, <2>3, <2>4, FullEnds
<1>8. CASE at = "f2" /\ FullReturnsAgain
  <2>1. Finish(FullResult(IF ret # "ok" THEN ret ELSE IF Cancelled THEN "remove" ELSE "ok"))
    BY <1>8 DEF FullReturnsAgain
  <2>2. PICK r \in Results \cup {"remove"} :
          r = IF ret # "ok" THEN ret ELSE IF Cancelled THEN "remove" ELSE "ok"
    BY <1>2 DEF Results
  <2>3. faults = 0 => Fits BY <1>2, <1>8, FitsIs
  <2>4. Good /\ faults = 0 => r = "ok" /\ Whole BY <1>4, <2>2, <2>3, GoodReads
  <2> QED BY <1>1, <2>1, <2>2, <2>3, <2>4, FullEnds
<1> QED BY <1>5, <1>6, <1>7, <1>8 DEF FullReturns, FullReturnsAgain

LEMMA KeyKeeps ==
  ASSUME IInv, phase = "returned", KeyReturns PROVE IInv'
<1>1. at \in Keys BY DEF KeyReturns, Keys
<1>2. Course /\ Ways /\ TypeOK /\ faults \in 0..2 BY InvParts
<1>3. F.kind = "oesenc" BY <1>1, <1>2 DEF Course
<1>4. mode \in {"header", "full"} /\ userKey \in Charts \cup {NoChart} BY <1>2 DEF TypeOK
<1>5. chart \in Charts BY InvSane
<1>6. CASE KeyValid /\ (IF at = "k1" THEN ~KeyTrouble ELSE ret = "ok")
  <2>1. /\ phase' = "open" /\ at' = (IF mode = "header" THEN "h1" ELSE "f2") /\ n' = 0
        /\ got' = Nothing /\ ret' = "ok" /\ userKey' = userKey
        /\ UNCHANGED <<serverVars, file, chart, mode, hintTaken, failCount, outcome, faults>>
    BY <1>6 DEF KeyValid, Then, Goto
  <2>2. faults = 0 => userKey = chart
    <3> SUFFICES ASSUME faults = 0 PROVE Fits BY <1>3, FitsIs
    <3>1. ret \notin {"signature", "corrupt"} BY <1>6 DEF KeyTrouble
    <3> QED BY <1>3, <3>1, GoodReads
  <2> QED BY <1>3, <1>4, <2>1, <2>2, ThenKeeps DEF Headers, Keys, Rasters
<1>7. ASSUME NEW p \in {"probe", "open"}, NEW a \in {"k2", "k3"}, ret # "ok", Again(p, a)
      PROVE  IInv'
  <2>1. got = Nothing BY <1>7, InvParts DEF Judged
  <2>2. /\ phase' = p /\ at' = a /\ n' = 0 /\ got' = Nothing /\ ret' = "ok"
        /\ userKey' = userKey
        /\ UNCHANGED <<serverVars, file, chart, mode, hintTaken, failCount, outcome, faults>>
    BY <1>7, <2>1, AgainIs
  <2>3. at' \in Keys /\ at' \notin Headers \cup Rasters \cup {"f1", "f2", "k4"}
    BY <1>7, <2>2 DEF Headers, Keys, Rasters
  <2> HIDE DEF Keys
  <2>4. at' \notin {"h2", "r2"} BY <2>3 DEF Headers, Rasters
  <2> QED BY <1>3, <1>4, <2>2, <2>3, <2>4, ThenKeeps
<1>8. CASE at = "k3" /\ ret # "ok" /\ userKey' = ChartinfoKey /\ Then("probe", "k4", got)
  <2>1. got = Nothing BY <1>8, InvParts DEF Judged
  <2>2. /\ phase' = "probe" /\ at' = "k4" /\ n' = 0 /\ got' = Nothing /\ ret' = "ok"
        /\ UNCHANGED <<serverVars, file, chart, mode, hintTaken, failCount, outcome, faults>>
    BY <1>8, <2>1 DEF Then, Goto
  <2>3. F' = F BY <2>2 DEF F
  <2>4. userKey' = ChartinfoKey' BY <1>8, <2>3 DEF ChartinfoKey
  <2>5. userKey' \in Charts \cup {NoChart}
    BY <1>4, <1>5, <1>8, InvParts, FileFacts DEF ChartinfoKey
  <2> QED BY <1>3, <2>2, <2>4, <2>5, ThenKeeps DEF Headers, Keys, Rasters
<1>9. CASE /\ at = "k4" /\ ret # "ok"
           /\ Finish(IF mode = "header" THEN "remove" ELSE FullResult("signature"))
  <2>1. FullResult("signature") = "retry" BY <1>3 DEF FullResult
  <2>2. PICK r \in {"remove", "retry"} :
          r = IF mode = "header" THEN "remove" ELSE FullResult("signature")
    BY <2>1
  <2>3. Finish(r) BY <1>9, <2>2
  <2>4. ~(Good /\ faults <= Limit)
    <3> SUFFICES ASSUME Good, faults <= Limit PROVE FALSE OBVIOUS
    <3>1. faults = 0 BY <1>2, <1>3 DEF Limit
    <3>2. userKey = ChartinfoKey BY <1>2, <1>9, <3>1 DEF Ways
    <3>3. F.hint = chart BY <1>3 DEF Good, Permitted
    <3>4. chart # NoChart BY <1>5
    <3>5. Fits BY <1>3, <3>2, <3>3, <3>4, FitsIs DEF ChartinfoKey
    <3> QED BY <1>9, <3>1, <3>5, GoodReads
  <2>5. r \in Outcomes /\ r # "none" /\ r # "ok" BY DEF Outcomes
  <2> QED BY <2>3, <2>4, <2>5, FinishKeeps
<1>10. CASE at = "k1" /\ KeyTrouble /\ Again("open", "k2")
  BY <1>7, <1>10 DEF KeyTrouble
<1>11. CASE at = "k2" /\ ret # "ok" /\ Again("probe", "k3")
  BY <1>7, <1>11
<1> QED BY <1>6, <1>8, <1>9, <1>10, <1>11 DEF KeyReturns

LEMMA RasterKeeps ==
  ASSUME IInv, phase = "returned", RasterReturns PROVE IInv'
<1>1. at \in Rasters BY DEF RasterReturns, Rasters
<1>2. Course /\ Ways /\ faults \in 0..2 BY InvParts
<1>3. F.kind = "raster" BY <1>1, <1>2 DEF Course
<1>4. Limit = 0 /\ Whole BY <1>3 DEF Limit, Whole
<1>5. CASE at = "r1" /\ ret # "ok" /\ Again("probe", "r2")
  <2>1. got = Nothing BY <1>5, InvParts DEF Judged
  <2>2. /\ phase' = "probe" /\ at' = "r2" /\ n' = 0 /\ got' = Nothing /\ ret' = "ok"
        /\ userKey' = userKey
        /\ UNCHANGED <<serverVars, file, chart, mode, hintTaken, failCount, outcome, faults>>
    BY <1>5, <2>1, AgainIs
  <2>3. userKey' \in Charts \cup {NoChart} BY <2>2, InvParts DEF TypeOK
  <2>4. faults = 0 => F.permit # "right"
    <3> SUFFICES ASSUME faults = 0, F.permit = "right" PROVE FALSE OBVIOUS
    <3>1. Fits BY <1>3, <1>5, FitsIs
    <3>2. Wellness = "ok" BY <1>3 DEF Wellness
    <3> QED BY <1>5, <3>1, <3>2, GoodReads
  <2> QED BY <1>3, <2>2, <2>3, <2>4, ThenKeeps DEF Headers, Keys, Rasters
<1>6. CASE ret = "ok" /\ Finish("ok")
  <2>1. faults = 0 => Permitted \/ userKey = chart BY <1>6, GoodReads, FitsIs
  <2>2. "ok" \in Outcomes BY DEF Outcomes, Results
  <2> QED BY <1>4, <1>6, <2>1, <2>2, FinishKeeps
<1>7. CASE at = "r2" /\ ret # "ok" /\ Finish("remove")
  <2>1. ~(Good /\ faults <= Limit)
    <3> SUFFICES ASSUME Good, faults <= Limit PROVE FALSE OBVIOUS
    <3>1. faults = 0 BY <1>2, <1>4
    <3>2. F.permit = "second" BY <1>2, <1>3, <1>7, <3>1 DEF Ways, Good, Permitted
    <3>3. Fits BY <1>3, <1>7, <3>2, FitsIs
    <3> QED BY <1>7, <3>1, <3>3, GoodReads
  <2>2. "remove" \in Outcomes BY DEF Outcomes
  <2> QED BY <1>7, <2>1, <2>2, FinishKeeps
<1> QED BY <1>5, <1>6, <1>7 DEF RasterReturns

(***************************************************************************)
(* The steps between the Inits, and those of the server.                   *)
(***************************************************************************)
LEMMA NothingOK ==
  /\ Nothing \in [edition : {"", "0", "1"}, covr : Nat, objs : Seq(Object), obj : Nat]
  /\ Nothing.obj = Len(Nothing.objs) /\ Nothing.obj \in 0..Len(Nothing.objs)
  /\ Nothing.covr = 0 /\ Nothing.objs = <<>> /\ Nothing.edition = ""
<1>1. <<>> \in Seq(Object) /\ Len(<<>>) = 0 OBVIOUS
<1> QED BY <1>1 DEF Nothing

LEMMA OpenChartKeeps ==
  ASSUME IInv, NEW c \in Charts, NEW m \in {"header", "full"}, OpenChart(c, m)
  PROVE  IInv'
<1>1. Typed /\ TypeOK /\ ReqOK /\ file \in Library BY InvParts
<1>2. /\ phase = "idle" /\ chart' = c /\ mode' = m /\ at' = First(c, m) /\ n' = 0
      /\ got' = Nothing /\ faults' = 0 /\ req' = NoReq /\ pos' = 0
      /\ UNCHANGED <<up, starting, late, file, ret, failCount>>
  BY DEF OpenChart
<1>3. F' = file[c] BY <1>2 DEF F
<1>4. IsFile(file[c]) BY <1>1, LibraryAssumption
<1>5. /\ F'.kind \in {"oesu", "oesenc", "raster"} /\ F'.hint \in Charts \cup {NoChart}
      /\ F'.covr \in Nat /\ F'.features \in Seq(Features)
  BY <1>3, <1>4 DEF IsFile, Kinds, Features
<1>6. \/ phase' = "idle" /\ outcome' = "remove" /\ userKey' = userKey
         /\ hintTaken' = hintTaken /\ (Blacklisted(c) \/ ~HasKey(c))
      \/ /\ phase' = "probe" /\ outcome' = "none"
         /\ \/ userKey' = F'.hint /\ hintTaken' = TRUE
            \/ userKey' = userKey /\ hintTaken' = hintTaken
  BY <1>3 DEF OpenChart
<1>7. at' = IF F'.kind = "raster" THEN "r1" ELSE IF m = "full" THEN "f1"
            ELSE IF F'.kind = "oesenc" THEN "k1" ELSE "h1"
  BY <1>2, <1>3 DEF First
<1>8. Typed'
  <2>1. Len(<<>>) = 0 OBVIOUS
  <2>2. ReqOK' BY <1>2, <2>1 DEF ReqOK, NoReq
  <2>3. GotOK' BY <1>2, NothingOK DEF GotOK
  <2>4. ServerTypeOK' BY <1>1, <1>2, <2>1 DEF TypeOK, ServerTypeOK, NoReq
  <2>5. at' \in {"r1", "f1", "k1", "h1"} BY <1>7
  <2>6. 0 \in 0..LastProbe BY LastProbeNat
  <2>7. got'.obj \in 0..Len(got'.objs) BY <1>2, NothingOK
  <2>8. userKey' \in Charts \cup {NoChart} /\ hintTaken' \in BOOLEAN
    BY <1>1, <1>5, <1>6 DEF TypeOK
  <2>9. phase' \in {"idle", "probe"} /\ outcome' \in {"remove", "none"} BY <1>6
  <2>10. TypeOK' BY <1>1, <1>2, <2>4, <2>5, <2>6, <2>7, <2>8, <2>9 DEF TypeOK
  <2> QED BY <2>2, <2>3, <2>10 DEF Typed
<1>9. Course' BY <1>2, <1>7 DEF Course, Full, Rasters, Headers, Keys
<1>10. Asked' /\ Judged' BY <1>6 DEF Asked, Judged, Started
<1>11. Taken' BY <1>2, <1>6 DEF Taken, Nothing
<1>12. Ways'
  <2>1. at' \notin {"h2", "r2", "f2", "k4"} /\ (F'.kind = "oesenc" => at' # "h1") BY <1>7
  <2> QED BY <2>1 DEF Ways, Headers
<1>13. Settled'
  <2>1. KnownTo(0)' = {} BY DEF KnownTo
  <2>2. Cardinality(KnownTo(0)') = 0 BY <2>1, FS_EmptySet
  <2>e. Len(<<>>) = 0 /\ DOMAIN <<>> = {} OBVIOUS
  <2>3. /\ got'.covr = 0 /\ got'.objs = <<>> /\ got'.edition = "" /\ Len(got'.objs) = 0
        /\ DOMAIN got'.objs = {}
    BY <1>2, <2>e, NothingOK
  <2>4. ObjectsOfFirst(0)' BY <2>1, <2>2, <2>3 DEF ObjectsOfFirst
  <2>5. 0 \in 0..Len(F'.features) BY <1>5
  <2>6. ObjectsArePrefix' BY <2>3, <2>4, <2>5 DEF ObjectsArePrefix
  <2>7. CoverageOnce'
    <3>0. F'.covr \in Nat /\ got'.covr = 0 BY <1>5, <2>3
    <3>1. got'.covr <= F'.covr BY <3>0
    <3> QED BY <3>1 DEF CoverageOnce
  <2> QED BY <2>3, <2>6, <2>7 DEF Settled, Sane
<1>14. RightOutcome'
  <2>1. CASE phase' = "probe" BY <2>1 DEF RightOutcome
  <2>2. CASE outcome' = "remove" /\ (Blacklisted(c) \/ ~HasKey(c))
    <3>1. Blacklisted(c) => Blacklisted(chart)' BY <1>2 DEF Blacklisted
    <3>2. ~HasKey(c) => ~Good' BY <1>2, <1>3 DEF HasKey, Good, Permitted
    <3> QED BY <2>2, <3>1, <3>2 DEF RightOutcome
  <2> QED BY <1>6, <2>1, <2>2
<1> QED BY <1>8, <1>9, <1>10, <1>11, <1>12, <1>13, <1>14 DEF IInv

LEMMA QuitKeeps ==
  ASSUME IInv, Quit PROVE IInv'
<1>1. Typed /\ TypeOK /\ ReqOK BY InvParts
<1>2. /\ phase' = "idle" /\ chart' = NoChart /\ mode' = "header" /\ at' = "h1" /\ n' = 0
      /\ ret' = "ok" /\ got' = Nothing /\ outcome' = "none" /\ hintTaken' = FALSE
      /\ failCount' = [c \in Charts |-> 0] /\ faults' = 0 /\ req' = NoReq /\ pos' = 0
      /\ up' = (IF up > 0 THEN up - 1 ELSE 0)
      /\ UNCHANGED <<starting, late, file, userKey>>
  BY DEF Quit, Shutdown
<1>3. Typed'
  <2>1. Len(<<>>) = 0 OBVIOUS
  <2>2. ReqOK' BY <1>2, <2>1 DEF ReqOK, NoReq
  <2>3. GotOK' BY <1>2, NothingOK DEF GotOK
  <2>4. ServerTypeOK' BY <1>1, <1>2, <2>1 DEF TypeOK, ServerTypeOK, NoReq
  <2>5. 0 \in 0..LastProbe BY LastProbeNat
  <2>6. got'.obj \in 0..Len(got'.objs) BY <1>2, NothingOK
  <2>f. failCount' \in [Charts -> Nat] BY <1>2
  <2>b. hintTaken' \in BOOLEAN BY <1>2
  <2>7. faults' \in 0..2 /\ n' \in 0..LastProbe /\ ret' \in Results
    BY <1>2, <2>5 DEF Results
  <2>8. file' \in Library /\ userKey' \in Charts \cup {NoChart} BY <1>1, <1>2 DEF TypeOK
  <2>9. TypeOK' BY <1>2, <2>4, <2>6, <2>f, <2>b, <2>7, <2>8 DEF TypeOK
  <2> QED BY <2>2, <2>3, <2>9 DEF Typed
<1>4. Course' /\ Asked' /\ Taken' /\ Judged' /\ Ways' /\ Settled' /\ RightOutcome'
  BY <1>2 DEF Course, Asked, Taken, Judged, Ways, Settled, Sane, RightOutcome, Started, Before
<1> QED BY <1>3, <1>4 DEF IInv

\* What the reader knows stays, whatever the server does.
LEMMA ReaderSame ==
  ASSUME IInv, UNCHANGED readerVars, req'.answer = req.answer, pos' = pos, Typed'
  PROVE  IInv'
<1>1. /\ UNCHANGED <<file, chart, mode, phase, at, n, ret, got, userKey, hintTaken,
                     failCount, outcome, faults>>
      /\ Still
  BY DEF readerVars, Still
<1>2. /\ Course /\ Asked /\ Taken /\ Judged /\ Ways /\ Settled /\ RightOutcome
  BY InvParts
<1>3. /\ F' = F /\ Full' = Full /\ Fits' = Fits /\ Prelude' = Prelude /\ Total' = Total
      /\ Limit' = Limit /\ Wellness' = Wellness /\ Good' = Good
      /\ ChartinfoKey' = ChartinfoKey /\ Answer' = Answer
  BY <1>1, StillSame
<1>4. \A q : Collected(q) => Collected(q)'
  BY <1>1, <1>3, CollectedSame
<1>5. Course' BY <1>1, <1>2, <1>3 DEF Course
<1>6. Asked' BY <1>1, <1>2, <1>3 DEF Asked
<1>7. Taken'
  <2>1. phase' \in Before => got' = Nothing BY <1>1, <1>2 DEF Taken
  <2>2. phase' = "verify" => pos' = 0 \/ (pos' = 1 /\ F'.kind = "oesu" /\ Fits')
    BY <1>1, <1>2, <1>3 DEF Taken
  <2>3. ASSUME phase' = "read"
        PROVE  /\ Fits' /\ F'.compatible
               /\ \E q \in 0..Total' : /\ pos' = Prelude' + q /\ Collected(q)'
                                       /\ ~Full' => q <= 1 + F'.covr
    <3>1. phase = "read" BY <1>1, <2>3
    <3> QED BY <1>2, <1>3, <1>4, <3>1 DEF Taken
  <2> QED BY <2>1, <2>2, <2>3 DEF Taken, Nothing
<1>8. Judged'
  <2> SUFFICES ASSUME phase' = "returned" PROVE Judged' BY DEF Judged
  <2>1. phase = "returned" BY <1>1
  <2>2. \E q \in 0..Total' :
          /\ Collected(q)'
          /\ ret' = "ok" /\ F'.kind # "raster" /\ faults' <= Limit'
               => 1 + F'.covr <= q /\ (Full' => q = Total')
    BY <1>1, <1>2, <1>3, <1>4, <2>1 DEF Judged
  <2>3. /\ ret' # "ok" => got' = Nothing
        /\ faults' = 0 => IF Fits' THEN ret' = Wellness'
                          ELSE /\ ret' \in {"signature", "corrupt", "expired"}
                               /\ ret' = "expired" => F'.kind = "oesu"
        /\ Good' /\ at' = "h2" /\ ret' # "ok" => faults' > Limit'
    BY <1>1, <1>2, <1>3, <2>1 DEF Judged
  <2> QED BY <2>2, <2>3 DEF Judged, Nothing
<1>9. Ways' BY <1>1, <1>2, <1>3 DEF Ways
<1>10. Settled'
  <2>1. Settled BY <1>2
  <2> QED BY <1>1, <2>1, SaneSame DEF Settled
<1>11. RightOutcome'
  <2>1. Permitted' = Permitted BY <1>1, <1>3 DEF Permitted
  <2>2. \A i : KnownTo(i)' = KnownTo(i) BY <1>3 DEF KnownTo
  <2>3. AllKnown' = AllKnown BY <1>3 DEF AllKnown
  <2>4. \A k : ObjectsOfFirst(k)' = ObjectsOfFirst(k)
    BY <1>1, <1>3, <2>2 DEF ObjectsOfFirst
  <2>5. Whole' = Whole BY <1>1, <1>3, <2>3, <2>4 DEF Whole
  <2>6. Blacklisted(chart)' = Blacklisted(chart) BY <1>1 DEF Blacklisted
  <2> QED BY <1>1, <1>2, <1>3, <2>1, <2>5, <2>6 DEF RightOutcome
<1> QED BY <1>5, <1>6, <1>7, <1>8, <1>9, <1>10, <1>11 DEF IInv

LEMMA ServerKeepsInv ==
  ASSUME IInv, Server PROVE IInv'
<1>1. Typed /\ TypeOK /\ ReqOK /\ GotOK /\ ServerTypeOK BY InvParts DEF TypeOK
<1>2. UNCHANGED readerVars BY DEF Server
<1>3. UNCHANGED <<file, chart, mode, phase, at, n, ret, got, userKey, hintTaken,
                  failCount, outcome, faults>>
  BY <1>2 DEF readerVars
<1>4. /\ up' \in Nat /\ starting' \in Nat /\ up' + starting' <= MaxServers
      /\ late' = late /\ pos' = pos
  BY <1>1 DEF Server, Serve, Ready, Accept, Feed, Dies, ServerTypeOK
<1>5. /\ req' = [st |-> req'.st, answer |-> req.answer, fed |-> req'.fed]
      /\ req'.st \in {"none", "sent", "open", "lost", "cut"}
      /\ req'.fed \in req.fed..Len(req.answer)
  <2>1. req = [st |-> req.st, answer |-> req.answer, fed |-> req.fed]
        /\ req.fed \in 0..Len(req.answer) /\ Len(req.answer) \in Nat
        /\ req.st \in {"none", "sent", "open", "lost", "cut"}
    BY <1>1 DEF ReqOK, ServerTypeOK
  <2>2. CASE Ready BY <2>1, <2>2 DEF Ready
  <2>3. CASE Accept BY <2>1, <2>3 DEF Accept
  <2>4. CASE Feed BY <2>1, <2>4 DEF Feed
  <2>5. CASE Dies
    <3>1. Lost(req.st) \in {"none", "sent", "open", "lost", "cut"} BY <2>1 DEF Lost
    <3>2. req' = [req EXCEPT !.st = Lost(req.st)] \/ req' = req BY <2>5 DEF Dies
    <3> QED BY <2>1, <3>1, <3>2
  <2> QED BY <2>2, <2>3, <2>4, <2>5 DEF Server, Serve
<1>6. req'.answer = req.answer BY <1>5
<1>7. ReqOK' BY <1>1, <1>5, <1>6 DEF ReqOK
<1>8. ServerTypeOK'
  <2>1. req.fed \in Nat /\ pos \in 0..req.fed /\ Len(req.answer) \in Nat
    BY <1>1 DEF ServerTypeOK, ReqOK
  <2>2. req'.fed \in 0..Len(req'.answer) /\ pos' \in 0..req'.fed BY <1>4, <1>5, <1>6, <2>1
  <2> QED BY <1>1, <1>4, <1>5, <2>2 DEF ServerTypeOK
<1>9. Typed'
  <2>1. GotOK' BY <1>1, <1>3 DEF GotOK
  <2>2. TypeOK' BY <1>1, <1>3, <1>8 DEF TypeOK
  <2> QED BY <1>7, <2>1, <2>2 DEF Typed
<1> QED BY <1>2, <1>4, <1>6, <1>9, ReaderSame

LEMMA ReaderInit == Init => IInv
<1> SUFFICES ASSUME Init PROVE IInv OBVIOUS
<1>1. /\ phase = "idle" /\ chart = NoChart /\ mode = "header" /\ at = "h1" /\ n = 0
      /\ ret = "ok" /\ got = Nothing /\ outcome = "none" /\ hintTaken = FALSE
      /\ failCount = [c \in Charts |-> 0] /\ faults = 0 /\ req = NoReq /\ pos = 0
      /\ up = 0 /\ starting = 0 /\ late = FALSE /\ file \in Library /\ userKey = NoChart
  BY DEF Init, ServerInit
<1>2. Len(<<>>) = 0 OBVIOUS
<1>3. ReqOK BY <1>1, <1>2 DEF ReqOK, NoReq
<1>4. GotOK BY <1>1, NothingOK DEF GotOK
<1>5. ServerTypeOK
  <2>1. req.st = "none" /\ req.fed = 0 /\ Len(req.answer) = 0 BY <1>1, <1>2 DEF NoReq
  <2>2. req.fed \in 0..Len(req.answer) /\ pos \in 0..req.fed BY <1>1, <2>1
  <2>3. up = 0 /\ starting = 0 /\ MaxServers \in Nat BY <1>1
  <2>4. up \in Nat /\ starting \in Nat /\ up + starting <= MaxServers BY <2>3
  <2>5. late \in BOOLEAN BY <1>1
  <2> QED BY <2>1, <2>2, <2>4, <2>5 DEF ServerTypeOK
<1>6. 0 \in 0..LastProbe BY LastProbeNat
<1>7. TypeOK
  <2>1. failCount \in [Charts -> Nat] BY <1>1
  <2>2. hintTaken \in BOOLEAN BY <1>1
  <2>3. faults \in 0..2 /\ n \in 0..LastProbe /\ ret \in Results BY <1>1, <1>6 DEF Results
  <2>4. got.obj \in 0..Len(got.objs) BY <1>1, NothingOK
  <2> QED BY <1>1, <1>5, <2>1, <2>2, <2>3, <2>4 DEF TypeOK
<1>8. Course /\ Asked /\ Taken /\ Judged /\ Ways /\ Settled /\ RightOutcome
  BY <1>1 DEF Course, Asked, Taken, Judged, Ways, Settled, Sane, RightOutcome, Started, Before
<1> QED BY <1>3, <1>4, <1>7, <1>8 DEF IInv, Typed

LEMMA ReaderStep == ASSUME IInv, [Next]_vars PROVE IInv'
<1>1. CASE Client
  <2>1. Return => IInv'
    BY HeaderKeeps, FullKeeps, KeyKeeps, RasterKeeps DEF Return
  <2> QED BY <1>1, <2>1, ProbeKeepsInv, OpenKeeps, OpenFailsKeeps, NoRasterKeyKeeps,
             UnblockKeeps, LoadKeeps, VerifyKeeps, ReadKeeps DEF Client
<1>2. CASE Server BY <1>2, ServerKeepsInv
<1>3. CASE Quit BY <1>3, QuitKeeps
<1>4. ASSUME NEW c \in Charts, NEW m \in {"header", "full"}, OpenChart(c, m) PROVE IInv'
  BY <1>4, OpenChartKeeps
<1>5. CASE UNCHANGED vars
  <2>1. UNCHANGED readerVars /\ UNCHANGED <<up, starting, req, pos, late>>
    BY <1>5 DEF vars, serverVars
  <2>2. Typed /\ UNCHANGED <<file, chart, mode, phase, at, n, ret, got, userKey, hintTaken,
                             failCount, outcome, faults>>
    BY <2>1, InvParts DEF readerVars
  <2>3. ReqOK' /\ GotOK' /\ ServerTypeOK'
    BY <2>1, <2>2 DEF Typed, TypeOK, ServerTypeOK, ReqOK, GotOK
  <2>4. TypeOK' BY <2>2, <2>3 DEF Typed, TypeOK
  <2>5. Typed' BY <2>3, <2>4 DEF Typed
  <2> QED BY <2>1, <2>5, ReaderSame
<1> QED BY <1>1, <1>2, <1>3, <1>4, <1>5 DEF Next

LEMMA ReaderInv == Spec => []IInv
<1>1. IInv /\ [Next]_vars => IInv' BY ReaderStep
<1> QED BY ReaderInit, <1>1, PTL DEF Spec

\* What the invariant says of the chart whatever Init is at.
LEMMA InvIsSane == IInv => Sane
  BY InvSane, InvParts DEF Settled

\* The server, the request, the Init and the Osenc object stay what they are
\* made to be.
THEOREM Typing == Spec => []TypeOK
<1>1. IInv => TypeOK BY InvParts
<1> QED BY ReaderInv, <1>1, PTL

\* No part of the coverage is in an Osenc object twice, although the retry of
\* CreateHeaderDataFromeSENC reads the header into the one that failed.
THEOREM CoverageIsOnce == Spec => []CoverageOnce
<1>1. Sane => CoverageOnce BY DEF Sane, CoverageOnce
<1>2. IInv => CoverageOnce BY InvIsSane, <1>1
<1> QED BY ReaderInv, <1>2, PTL

\* Wherever ingest200 is cut off, the objects are those of the first features.
THEOREM ObjectsAreAPrefix == Spec => []ObjectsArePrefix
<1>1. Sane => ObjectsArePrefix BY DEF Sane, ObjectsArePrefix
<1>2. IInv => ObjectsArePrefix BY InvIsSane, <1>1
<1> QED BY ReaderInv, <1>2, PTL

\* What Init returns is right whatever key the search of validateUserKey comes
\* upon and whatever the charts opened before have left behind.
THEOREM OutcomesAreRight == Spec => []RightOutcome
<1>1. IInv => RightOutcome BY InvParts
<1> QED BY ReaderInv, <1>1, PTL
=============================================================================
