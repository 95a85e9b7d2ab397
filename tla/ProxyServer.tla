---------------------------- MODULE ProxyServer ----------------------------
(***************************************************************************)
(* The process of src/src/proxy_main.c around its client threads: main     *)
(* resolves the configuration, finds or generates the listener's           *)
(* certificate and key, listens, and accepts clients until accept fails.   *)
(* A signal may end the process between any two steps; it is started again *)
(* with the same command line and finds the two files as they were left.   *)
(***************************************************************************)
EXTENDS Integers

CONSTANTS
    Configured,      \* possible proxy.json contents and arguments: set of records, see Setup
    MaxStarts,       \* bound on the starts of the process
    MaxClients       \* bound on the clients connected at once

ASSUME BoundAssumption == MaxStarts \in Nat \ {0} /\ MaxClients \in Nat

(* A setting that may be missing, and its value over an earlier one. *)
Opt(S) == S \cup {"none"}
Over(old, new) == IF new = "none" THEN old ELSE new

Modes == {"auto", "tcp", "tls"}
Paths == {"both", "one", "neither"}   \* which of cert and key are configured
Flag  == {"on", "off"}

(* file: whether proxy.json can be read and parsed; required: it was named *)
(* with --config.  file_* are the settings in it, arg_* the arguments.     *)
Setup == [file : {"absent", "malformed", "bad_url", "good"}, required : BOOLEAN,
          file_mode : Opt(Modes), file_tls : Opt(Flag), file_verify : Opt(Flag),
          root_verify : Opt(Flag), paths : Paths,
          arg_mode : Opt(Modes), arg_no_verify : BOOLEAN]

ASSUME SetupAssumption == Configured \subseteq Setup

(* Contents of a certificate or key file: a number names a key pair, 0 the *)
(* one the operator installed.                                             *)
Absent  == -2
Partial == -1

VARIABLES
    setup,           \* the command line and proxy.json
    main_at,         \* where main is; "down" when no process runs
    config_listen_mode, upstream_verify,   \* listen_mode and upstream_verify of config
    cert, key,       \* the two files
    loaded,          \* the pair in server_ctx, Absent when there is none
    rc,              \* exit status of the last run, "killed" when it was
    clients,         \* running client threads
    fds,             \* accepted sockets not closed
    starts           \* starts so far; names the pair a start generates

serverVars == <<setup, main_at, config_listen_mode, upstream_verify, cert, key, loaded, rc,
                clients, fds, starts>>

ServerInit ==
    /\ setup \in Configured
    /\ main_at = "down"
    /\ config_listen_mode = "auto" /\ upstream_verify = "off"
    /\ cert \in IF setup.paths = "both" THEN {Absent, 0} ELSE {Absent}
    /\ key \in IF setup.paths = "both" THEN {Absent, 0} ELSE {Absent}
    /\ loaded = Absent /\ rc = "none"
    /\ clients = 0 /\ fds = 0 /\ starts = 0

-----------------------------------------------------------------------------
(* main up to the listener. *)

Exit(status) ==
    /\ main_at' = "down" /\ rc' = status /\ loaded' = Absent
    /\ clients' = 0 /\ fds' = 0

Step(next) == main_at' = next /\ UNCHANGED <<rc, loaded, clients, fds>>

Kept == UNCHANGED <<setup, config_listen_mode, upstream_verify, starts>>

(* load_proxy_config reads nothing of a file it cannot parse; unless       *)
(* --config names it, main goes on with the defaults.                      *)
FileRead == setup.file = "good"

(* Faulty variant: arguments are applied before the file.                  *)
ListenModeFileLast ==
    Over(Over("auto", setup.arg_mode), IF FileRead THEN setup.file_mode ELSE "none")

(* listen.tls comes after listen.mode, and "off" means auto. *)
ListenMode ==
    LET from_file == Over(Over("auto", setup.file_mode),
                          CASE setup.file_tls = "on"  -> "tls"
                            [] setup.file_tls = "off" -> "auto"
                            [] OTHER                  -> "none")
    IN  Over(IF FileRead THEN from_file ELSE "auto", setup.arg_mode)

(* Faulty variant: the argument is applied before the file.                *)
UpstreamVerifyFileLast ==
    IF FileRead THEN Over(Over("off", setup.file_verify), setup.root_verify) ELSE "off"

(* The root's upstream-verify comes after upstream.verify. *)
UpstreamVerify ==
    LET from_file == Over(Over("off", setup.file_verify), setup.root_verify)
    IN  IF setup.arg_no_verify THEN "off" ELSE IF FileRead THEN from_file ELSE "off"

Start ==
    /\ main_at = "down" /\ starts < MaxStarts
    /\ starts' = starts + 1
    /\ config_listen_mode' = ListenMode /\ upstream_verify' = UpstreamVerify
    /\ IF \/ setup.file = "bad_url"
          \/ setup.required /\ setup.file \in {"absent", "malformed"}
       THEN Exit("error")
       ELSE Step("resolve")
    /\ UNCHANGED <<setup, cert, key>>

(* Default paths when neither is configured; one alone is an error. *)
ResolvePaths ==
    /\ main_at = "resolve"
    /\ IF config_listen_mode = "tcp" THEN Step("listen")
       ELSE IF setup.paths = "one" THEN Exit("usage")
       ELSE \/ Step("check")
            \/ setup.paths = "neither" /\ Exit("error")      \* ensure_directory
    /\ UNCHANGED <<cert, key>> /\ Kept

(* Faulty variant: a pair is generated on every start.                     *)
MustGenerateAlways == TRUE

(* The files are only asked whether they can be read. *)
MustGenerate == cert = Absent \/ key = Absent

CheckFiles ==
    /\ main_at = "check"
    /\ Step(IF MustGenerate THEN "open_key" ELSE "load")
    /\ UNCHANGED <<cert, key>> /\ Kept

(* Faulty variant: the two files are written in the other order.           *)
GenerateCertFirst ==
    \/ /\ main_at = "open_key" /\ cert' = Partial /\ Step("write_key") /\ UNCHANGED key
    \/ /\ main_at = "write_key" /\ cert' = starts /\ Step("open_cert") /\ UNCHANGED key
    \/ /\ main_at = "open_cert" /\ key' = Partial /\ Step("write_cert") /\ UNCHANGED cert
    \/ /\ main_at = "write_cert" /\ key' = starts /\ Step("load") /\ UNCHANGED cert

(* generate_self_signed_cert: each file is truncated by fopen, filled by   *)
(* PEM_write in a stdio buffer and written by fclose, the key first.  What *)
(* fclose returns is ignored: on a full disk the file stays cut short and  *)
(* the next step is taken all the same.                                    *)
Generate ==
    \/ /\ main_at = "open_key" /\ key' = Partial /\ Step("write_key") /\ UNCHANGED cert
    \/ /\ main_at = "write_key" /\ key' \in {starts, Partial} /\ Step("open_cert") /\ UNCHANGED cert
    \/ /\ main_at = "open_cert" /\ cert' = Partial /\ Step("write_cert") /\ UNCHANGED key
    \/ /\ main_at = "write_cert" /\ cert' \in {starts, Partial} /\ Step("load") /\ UNCHANGED key

GenerateStep == Generate /\ Kept

(* fopen fails, or PEM_write, which sees the error of an early flush. *)
GenerateFails ==
    /\ main_at \in {"open_key", "write_key", "open_cert", "write_cert"}
    /\ Exit("error") /\ UNCHANGED <<cert, key>> /\ Kept

(* Faulty variant: the key is not compared with the certificate.           *)
LoadPairAnyKey ==
    /\ main_at = "load"
    /\ IF cert >= 0 /\ key >= 0
       THEN main_at' = "listen" /\ loaded' = cert /\ UNCHANGED <<rc, clients, fds>>
       ELSE Exit("load_failed")
    /\ UNCHANGED <<cert, key>> /\ Kept

(* SSL_CTX_use_certificate_chain_file and SSL_CTX_use_PrivateKey_file: the *)
(* second fails on a key that is not the certificate's.                    *)
LoadPair ==
    /\ main_at = "load"
    /\ \/ IF cert >= 0 /\ key = cert
          THEN main_at' = "listen" /\ loaded' = cert /\ UNCHANGED <<rc, clients, fds>>
          ELSE Exit("load_failed")
       \/ Exit("error")                                     \* SSL_CTX_new
    /\ UNCHANGED <<cert, key>> /\ Kept

Listen ==
    /\ main_at = "listen"
    /\ Step("serving") \/ Exit("error")
    /\ UNCHANGED <<cert, key>> /\ Kept

-----------------------------------------------------------------------------
(* The accept loop. *)

(* Faulty variant: a socket whose thread cannot be created stays open.     *)
AcceptClientLeaks ==
    /\ fds' = fds + 1
    /\ clients' \in {clients, clients + 1}

(* A failed pthread_create closes the socket. *)
AcceptClient ==
    \/ clients' = clients + 1 /\ fds' = fds + 1
    \/ UNCHANGED <<clients, fds>>

Accept ==
    /\ main_at = "serving" /\ clients < MaxClients
    /\ AcceptClient
    /\ UNCHANGED <<main_at, rc, loaded, cert, key>> /\ Kept

(* A client thread returns; module Proxy is what it does. *)
ClientReturns ==
    /\ main_at = "serving" /\ clients > 0
    /\ clients' = clients - 1 /\ fds' = fds - 1
    /\ UNCHANGED <<main_at, rc, loaded, cert, key>> /\ Kept

(* Any error of accept but EAGAIN and EINTR, or a failed calloc, ends the  *)
(* process and with it every client.                                       *)
AcceptFails ==
    /\ main_at = "serving" /\ Exit("ended") /\ UNCHANGED <<cert, key>> /\ Kept

(* A signal.  What fclose has handed to the system stays in the file; the  *)
(* loss of power, after which it need not, is not modelled.                *)
Killed == main_at # "down" /\ Exit("killed") /\ UNCHANGED <<cert, key>> /\ Kept

ServerStopped == main_at = "down" /\ starts = MaxStarts /\ UNCHANGED serverVars

ServerNext ==
    \/ Start \/ ResolvePaths \/ CheckFiles \/ GenerateStep \/ GenerateFails
    \/ LoadPair \/ Listen \/ Accept \/ ClientReturns \/ AcceptFails \/ Killed \/ ServerStopped

ServerSpec == ServerInit /\ [][ServerNext]_serverVars

-----------------------------------------------------------------------------
(* Properties.                                                             *)

(* Values of main's variables and of the two files. *)
ServerTypeOK ==
    /\ setup \in Setup
    /\ main_at \in {"down", "resolve", "check", "open_key", "write_key", "open_cert",
               "write_cert", "load", "listen", "serving"}
    /\ config_listen_mode \in Modes /\ upstream_verify \in Flag
    /\ cert \in Absent..MaxStarts /\ key \in Absent..MaxStarts /\ loaded \in Absent..MaxStarts
    /\ rc \in {"none", "killed", "load_failed", "error", "usage", "ended"}
    /\ clients \in 0..MaxClients /\ fds \in Int /\ starts \in 0..MaxStarts

(* Beside a generated certificate is its own key or one cut short by a     *)
(* write error, never another key or none, wherever the process ended: the *)
(* key is written first (lines 840-851).                                   *)
CertificateHasOwnKey == cert >= 1 => key \in {cert, Partial}

(* A process that serves TLS serves the pair its files hold, so a restart  *)
(* presents the certificate clients have already seen.                     *)
ServesStoredPair ==
    main_at = "serving" =>
        IF config_listen_mode = "tcp" THEN loaded = Absent
        ELSE loaded >= 0 /\ loaded = cert /\ loaded = key

(* No step replaces a complete pair, generated or installed (line 1121).   *)
PairKept == [][cert >= 0 /\ key = cert => cert' = cert /\ key' = key]_serverVars

(* Every accepted socket belongs to a running client thread, the ones      *)
(* whose thread could not be created included (lines 1181-1185).           *)
SocketPerClient == fds = clients

(* A mode given as an argument is the mode the proxy listens in and        *)
(* --upstream-no-verify turns verification off, whatever the file says     *)
(* (lines 1062-1098); a proxy in TCP mode never touches the two files.     *)
ArgumentWins ==
    main_at # "down" =>
        /\ setup.arg_mode # "none" => config_listen_mode = setup.arg_mode
        /\ setup.arg_no_verify => upstream_verify = "off"
        /\ setup.arg_mode = "tcp" => main_at \in {"resolve", "listen", "serving"}

(* The server is sound wherever it ended and however it is configured: no  *)
(* generated certificate is beside a key that is not its own, TLS is       *)
(* served only with a complete pair, the one on disk, arguments win, and   *)
(* no socket is lost.                                                      *)
ServerSound ==
    ServerTypeOK /\ CertificateHasOwnKey /\ ServesStoredPair /\ SocketPerClient /\ ArgumentWins
=============================================================================
