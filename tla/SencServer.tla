----------------------------- MODULE SencServer -----------------------------
(***************************************************************************)
(* The decryption server, oexserverd, and one request of the plugin to it  *)
(* (Osenc_instream, oernc_inStream and validate_SENC_server, on Linux).    *)
(*                                                                         *)
(* A request is written to a public FIFO and names a private file, from    *)
(* which the answer is read record by record.  For vector charts the       *)
(* private file is an ordinary one, since CreateTempFileName has made it   *)
(* and mkfifo fails: reading waits a while for the next bytes and then     *)
(* fails.  For raster charts it is a FIFO, and opening it waits for the    *)
(* server.  The server itself is external: it may be slow, and die.        *)
(***************************************************************************)
EXTENDS Naturals, Sequences

CONSTANTS MaxServers, \* bound: server processes at a time
          Tries       \* bound: probes of a server just started (10 in the code)

ASSUME SencServerAssumption == MaxServers \in Nat /\ Tries \in Nat \ {0}

VARIABLES up,        \* server processes that read the public FIFO
          starting,  \* ... and that do not yet
          req,       \* the request under way
          pos,       \* records of its answer that were read
          late       \* has a server been too slow for a probe?

serverVars == <<up, starting, req, pos, late>>

NoReq == [st |-> "none", answer |-> <<>>, fed |-> 0]

ServerInit == up = 0 /\ starting = 0 /\ req = NoReq /\ pos = 0 /\ late = FALSE

(***************************************************************************)
(* The server.                                                             *)
(***************************************************************************)
Ready == /\ starting > 0
         /\ starting' = starting - 1 /\ up' = up + 1
         /\ UNCHANGED <<req, pos, late>>

Accept == /\ up > 0 /\ req.st = "sent"
          /\ req' = [req EXCEPT !.st = "open"]
          /\ UNCHANGED <<up, starting, pos, late>>

Feed == /\ up > 0 /\ req.st = "open" /\ req.fed < Len(req.answer)
        /\ req' = [req EXCEPT !.fed = @ + 1]
        /\ UNCHANGED <<up, starting, pos, late>>

\* What only the dead process had taken is lost; with the last one, all is.
Lost(st) == CASE st = "sent" -> "lost" [] st = "open" -> "cut" [] OTHER -> st
Dies == /\ up > 0
        /\ up' = up - 1
        /\ \/ req' = [req EXCEPT !.st = Lost(@)]
           \/ up > 1 /\ UNCHANGED req
        /\ UNCHANGED <<starting, pos, late>>

(***************************************************************************)
(* Reading the answer.                                                     *)
(***************************************************************************)
Avail == pos < req.fed
Record == req.answer[pos + 1]
AtEnd == req.fed = Len(req.answer)

\* Nothing comes for as long as Read waits.
Misses == ~Avail /\ UNCHANGED serverVars

Takes == /\ Avail
         /\ pos' = pos + 1
         /\ UNCHANGED <<up, starting, req, late>>

SendOn(answer) == /\ up > 0
                  /\ req' = [st |-> "sent", answer |-> answer, fed |-> 0]
                  /\ UNCHANGED <<up, starting, pos, late>>
Send(answer) == /\ up > 0
                /\ req' = [st |-> "sent", answer |-> answer, fed |-> 0]
                /\ pos' = 0
                /\ UNCHANGED <<up, starting, late>>

(***************************************************************************)
(* validate_SENC_server: n probes have failed.  After the third a server   *)
(* is started, and probed up to Tries times; no caller looks at the result.*)
(***************************************************************************)
LastProbe == 3 + Tries

Answered == up > 0 /\ UNCHANGED serverVars

\* No server, or one that does not answer in time.
ProbeFails(n) ==
  /\ n # 3
  /\ late' = (late \/ up > 0 \/ (starting > 0 /\ (n < 3 \/ n = LastProbe)))
  /\ UNCHANGED <<up, starting, req, pos>>

StartUnasked(n) ==
  /\ n \in {0, 3} /\ up + starting < MaxServers
  /\ starting' = starting + 1
  /\ UNCHANGED <<up, req, pos, late>>
StartServer(n) ==
  /\ n = 3 /\ up + starting < MaxServers
  /\ starting' = starting + 1
  /\ UNCHANGED <<up, req, pos, late>>

\* "could not be started": the probes that would follow are left out.
StartFails(n) == n = 3 /\ UNCHANGED serverVars

\* shutdown_SENC_server: one process takes the command and ends.
Shutdown == /\ up' = IF up > 0 THEN up - 1 ELSE 0
            /\ req' = NoReq /\ pos' = 0
            /\ UNCHANGED <<starting, late>>

Serve == Ready \/ Accept \/ Feed

ServerTypeOK ==
  /\ up \in Nat /\ starting \in Nat /\ up + starting <= MaxServers
  /\ req.st \in {"none", "sent", "open", "lost", "cut"}
  /\ req.fed \in 0..Len(req.answer) /\ pos \in 0..req.fed
  /\ late \in BOOLEAN

\* There is one server, unless one was so slow that it was taken for dead:
\* what validate_SENC_server asks before it starts a process.
OneServer == up + starting > 1 => late
=============================================================================
