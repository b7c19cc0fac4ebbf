----------------------------- MODULE ChartKeys ------------------------------
(***************************************************************************)
(* Finding the key of a chart (uKey.cpp) and opening the chart with it     *)
(* (Chart_oeuRNC::Init, oesuChart::Init), beside the installations that    *)
(* rewrite the key lists (ChartFiles).                                     *)
(*                                                                         *)
(* A map per system is filled from the key lists on first use, and only    *)
(* where it has no key; the maps are emptied when an installation ends.    *)
(* A key opens a chart if it is of the edition that last changed the chart *)
(* and its system is present: this machine always is, the dongle if it is  *)
(* plugged in.                                                             *)
(***************************************************************************)
EXTENDS ChartFiles

CONSTANT ServerFails  \* may the decryption server fail to answer?

ASSUME ChartKeysAssumption == Systems \subseteq {"pc", "sgl"} /\ ServerFails \in BOOLEAN

VARIABLES map,      \* keyMapSystem, keyMapDongle
          primary,  \* the system pPrimaryKey points to
          plugged,  \* is the dongle plugged in?
          aborted   \* did an installation end early since the maps were empty?

keyVars == <<map, primary, plugged, aborted>>
vars == <<chartVars, keyVars>>

NoKeys == [s \in {"pc", "sgl"} |-> Empty]
Other(s) == IF s = "pc" THEN "sgl" ELSE "pc"
Lists(s) == IF s \in Systems THEN keys[s] ELSE Empty

KeyInit == /\ map = NoKeys /\ primary = "sgl"
           /\ plugged \in BOOLEAN /\ aborted = FALSE

(***************************************************************************)
(* uKey.cpp.                                                               *)
(***************************************************************************)
\* parseKeyFile for every key list: a key that is there stays.
loadKeyMaps(m) ==
  [s \in {"pc", "sgl"} |->
    [i \in Ids |-> IF m[s][i] # 0 THEN m[s][i] ELSE Lists(s)[i]]]

\* getPrimaryKey, getAlternateKey: the maps are loaded if there is no key.
Looked(m, s, i) == IF m[s][i] # 0 THEN m ELSE loadKeyMaps(m)
Key(m, s, i) == Looked(m, s, i)[s][i]

\* Init of both kinds of charts: the map to begin with, and the maps then.
FirstSystem(m, p, i) == IF Key(m, p, i) # 0 THEN p ELSE Other(p)
FirstMaps(m, p, i) ==
  IF Key(m, p, i) # 0 THEN Looked(m, p, i) ELSE Looked(Looked(m, p, i), Other(p), i)

Present(s) == s = "pc" \/ plugged
Opens(s, k, i) == k # 0 /\ k = files[i] /\ Present(s)

(***************************************************************************)
(* Opening a chart.                                                        *)
(***************************************************************************)
\* A raster chart that cannot be opened is tried with the other key.
RasterNoRetry(m, p, i) ==
  Opens(FirstSystem(m, p, i), Key(m, FirstSystem(m, p, i), i), i)
RasterOpens(m, p, i) ==
  LET s == FirstSystem(m, p, i)
      m1 == FirstMaps(m, p, i)
  IN Opens(s, m1[s][i], i) \/ (m1[s][i] # 0 /\ Opens(Other(s), Key(m1, Other(s), i), i))

OpenRaster(i) ==
  /\ files[i] # 0
  /\ LET s == FirstSystem(map, primary, i)
         m1 == FirstMaps(map, primary, i)
     IN IF m1[s][i] = 0
        THEN map' = m1 /\ UNCHANGED primary
        ELSE \/ /\ Opens(s, m1[s][i], i)
                /\ map' = m1 /\ primary' = s
             \/ /\ ServerFails \/ ~Opens(s, m1[s][i], i)
                /\ map' = Looked(m1, Other(s), i) /\ primary' = Other(s)
  /\ UNCHANGED <<chartVars, plugged, aborted>>

\* A vector chart is tried again with the same key.
VectorOpens(m, p, i) ==
  Opens(FirstSystem(m, p, i), FirstMaps(m, p, i)[FirstSystem(m, p, i)][i], i)

OpenVector(i) ==
  /\ files[i] # 0
  /\ map' = FirstMaps(map, primary, i)
  /\ primary' = IF map'[FirstSystem(map, primary, i)][i] = 0 THEN primary
                ELSE FirstSystem(map, primary, i)
  /\ UNCHANGED <<chartVars, plugged, aborted>>

PlugDongle == plugged' = ~plugged /\ UNCHANGED <<chartVars, map, primary, aborted>>

\* "Clear out the global key hashes..."
ClearKept == map' = map
ClearMaps == map' = NoKeys
DoneAndClear ==
  /\ Done
  /\ ClearMaps /\ aborted' = FALSE
  /\ UNCHANGED <<primary, plugged>>

Abort == TaskError /\ aborted' = TRUE /\ UNCHANGED <<map, primary, plugged>>

CrashAndRestart ==
  /\ Crash
  /\ map' = NoKeys /\ primary' = "sgl" /\ aborted' = FALSE
  /\ UNCHANGED plugged

Install ==
  /\ Publish \/ (\E s \in Systems : Start(s)) \/ TaskStep
  /\ UNCHANGED keyVars

KNext == \/ Install \/ DoneAndClear \/ Abort \/ CrashAndRestart \/ PlugDongle
         \/ \E i \in Ids : OpenRaster(i) \/ OpenVector(i)

KSpec == Init /\ KeyInit /\ [][KNext]_vars

(***************************************************************************)
(* Properties.                                                             *)
(***************************************************************************)
\* Every variable keeps its type.
KeyTypeOK == /\ map \in [{"pc", "sgl"} -> Gen]
             /\ primary \in {"pc", "sgl"} /\ {plugged, aborted} \subseteq BOOLEAN

\* Between installations no map holds a key that its list no longer holds,
\* although charts are opened, and maps filled, while lists are rewritten.
MapsAgree ==
  (job = NoJob /\ ~aborted) =>
    \A s \in Systems, i \in Ids : map[s][i] # 0 => map[s][i] = keys[s][i]

\* A raster chart opens if either system has the right key for it, whatever
\* was opened before and whichever map is the primary one.
RasterOpensIfPossible ==
  (job = NoJob /\ ~aborted) =>
    \A i \in Ids : (\E s \in Systems : Opens(s, keys[s][i], i)) =>
      RasterOpens(map, primary, i)

\* Interchanging the hashes only makes the next time faster.
SwapOnlyFaster ==
  (job = NoJob /\ ~aborted) =>
    \A i \in Ids : VectorOpens(map, primary, i) = VectorOpens(map, Other(primary), i)
=============================================================================
