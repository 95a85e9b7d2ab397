----------------------------- MODULE MCSession -----------------------------
(***************************************************************************)
(* Connect and LineReader as one session: stratum_run_client connects, and *)
(* once its loop runs the line reader reads from the connection.           *)
(***************************************************************************)
EXTENDS Connect, LineReader

VARIABLE reading     \* the bytes of the pool are being followed

sessionVars == <<vars, readerVars, reading>>

SessionInit == Init /\ ReaderInit /\ ~use_tls /\ reading = FALSE

(* The life around the loop, its reads left out. *)
Lives == ~reading /\ Next /\ UNCHANGED <<readerVars, reading>>

(* The loop begins to read.  Bound: one way into the loop is followed, for *)
(* each transport; nothing of it but the transport matters to read_line.   *)
BeginReading ==
    /\ at = "running" /\ ~reading /\ reading' = TRUE
    /\ scheme # "insecure" /\ sessions = 1 /\ changes = 0 /\ ~miner /\ ~raw /\ ~expired
    /\ server = [up |-> TRUE, tls |-> TRUE, trusted |-> TRUE, silent |-> FALSE] /\ steady
    /\ use_tls' = (Mode # "plain")
    /\ UNCHANGED <<vars, stream, wire, ssl, eof, buffer, lines, pc, rc>>

Reads == reading /\ ReaderNext /\ UNCHANGED <<vars, reading>>

SessionNext == Lives \/ BeginReading \/ Reads

(* The fairness of the two parts. *)
SessionSpec ==
    /\ SessionInit /\ [][SessionNext]_sessionVars
    /\ WF_vars(~reading /\ FairClient) /\ WF_vars(~reading /\ FairLoopEnd)
    /\ WF_readerVars(reading /\ ReadLoop) /\ SF_readerVars(reading /\ Ready)
=============================================================================
