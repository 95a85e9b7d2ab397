------------------------------ MODULE MCProxy ------------------------------
(***************************************************************************)
(* ProxyServer and Proxy as one process: main accepts clients, and a       *)
(* client's thread relays its bytes.                                       *)
(***************************************************************************)
EXTENDS ProxyServer, Proxy

VARIABLE followed    \* the thread of a client is being followed

proxyVars == <<serverVars, vars, followed>>

-----------------------------------------------------------------------------
(* Values of the constants. *)

Plain == [file |-> "absent", required |-> FALSE, file_mode |-> "none", file_tls |-> "none",
          file_verify |-> "none", root_verify |-> "none", paths |-> "neither",
          arg_mode |-> "none", arg_no_verify |-> FALSE]

(* The command lines that matter to the files, every mode setting, and     *)
(* every setting of the verification.                                      *)
MCConfigured ==
    {[Plain EXCEPT !.file = f, !.required = r, !.paths = p, !.arg_mode = a] :
        f \in {"absent", "malformed", "bad_url", "good"}, r \in BOOLEAN, p \in Paths, a \in Opt(Modes)}
    \cup
    {[Plain EXCEPT !.file = "good", !.file_mode = m, !.file_tls = t, !.arg_mode = a] :
        m \in Opt(Modes), t \in Opt(Flag), a \in {"none", "tls"}}
    \cup
    {[Plain EXCEPT !.file = "good", !.file_verify = v, !.root_verify = w, !.arg_no_verify = n] :
        v \in Opt(Flag), w \in Opt(Flag), n \in BOOLEAN}

-----------------------------------------------------------------------------
ProxyInit ==
    /\ ServerInit /\ followed = FALSE
    /\ Init /\ listen_mode = CHOOSE m \in ListenModes : TRUE
    /\ ~speaks_tls

Serves == ~followed /\ ServerNext /\ UNCHANGED <<vars, followed>>

(* Bound: the first client of the first start is followed, in each mode;   *)
(* nothing but the mode is handed to its thread.  In mode "tcp" it makes   *)
(* no difference to Proxy whether the client speaks TLS.                   *)
Follow ==
    /\ ~followed /\ followed' = TRUE
    /\ main_at = "serving" /\ starts = 1 /\ clients = 1
    /\ setup \in {[Plain EXCEPT !.arg_mode = m] : m \in ListenModes}
    /\ listen_mode' = config_listen_mode
    /\ speaks_tls' \in IF listen_mode' = "tcp" THEN {FALSE} ELSE BOOLEAN
    /\ UNCHANGED <<serverVars, at, use_tls, data, off, progress, streams, closed, cause,
                   hello, sent, wire, room, got, eof, gone>>

Relays == followed /\ Next /\ UNCHANGED <<serverVars, followed>>

ProxyNext == Serves \/ Follow \/ Relays

(* The fairness of Proxy; none is assumed of main. *)
ProxySpec ==
    /\ ProxyInit /\ [][ProxyNext]_proxyVars
    /\ WF_vars(followed /\ ~InHandshake /\ Thread)
    /\ WF_vars(followed /\ PeerReceive("client"))
=============================================================================
