------------------------- MODULE ProxyServerProofs -------------------------
(***************************************************************************)
(* Proofs about ProxyServer: the certificate and key on disk survive any   *)
(* number of starts and kills, and what is served is what is stored.       *)
(***************************************************************************)
EXTENDS ProxyServer, TLAPS

Generating == {"open_key", "write_key", "open_cert", "write_cert"}

(* Where the two files are while generate_self_signed_cert writes them: it *)
(* is called only when one is missing, so there is no pair to lose.        *)
FilesHere ==
    /\ main_at = "open_key" => cert = Absent \/ key = Absent
    /\ main_at = "write_key" => key = Partial
    /\ main_at = "open_cert" => key \in {starts, Partial}
    /\ main_at = "write_cert" => key \in {starts, Partial} /\ cert = Partial
    /\ main_at \in Generating => cert <= 0
    /\ main_at # "down" => starts >= 1

(* The pair in server_ctx. *)
LoadedHere ==
    /\ main_at \in Generating \cup {"check", "load"} => config_listen_mode # "tcp"
    /\ loaded = IF main_at \in {"listen", "serving"} /\ config_listen_mode # "tcp" THEN cert ELSE Absent
    /\ main_at \in {"listen", "serving"} /\ config_listen_mode # "tcp" => cert = key /\ cert >= 0

ModeHere == main_at # "down" => config_listen_mode = ListenMode /\ upstream_verify = UpstreamVerify

ServerInv == ServerTypeOK /\ CertificateHasOwnKey /\ SocketPerClient /\ FilesHere /\ LoadedHere /\ ModeHere

(* Whatever proxy.json and the arguments say, the mode is a mode. *)
LEMMA ModeType == ASSUME setup \in Setup
                  PROVE  /\ ListenMode \in Modes
                         /\ setup.arg_mode # "none" => ListenMode = setup.arg_mode
<1>1. setup.file_mode \in Opt(Modes) /\ setup.file_tls \in Opt(Flag) /\ setup.arg_mode \in Opt(Modes)
  BY DEF Setup
<1> QED BY <1>1 DEF ListenMode, Over, Opt, Modes, Flag

LEMMA VerifyType == ASSUME setup \in Setup PROVE UpstreamVerify \in Flag
<1>1. setup.file_verify \in Opt(Flag) /\ setup.root_verify \in Opt(Flag)
  BY DEF Setup
<1> QED BY <1>1 DEF UpstreamVerify, Over, Opt, Flag

LEMMA InitServerInv == ServerInit => ServerInv
<1> SUFFICES ASSUME ServerInit PROVE ServerInv
  OBVIOUS
<1>1. cert \in {Absent, 0} /\ key \in {Absent, 0} /\ setup \in Setup
  BY SetupAssumption DEF ServerInit
<1> QED BY <1>1, BoundAssumption
        DEF ServerInit, ServerInv, ServerTypeOK, CertificateHasOwnKey, SocketPerClient, FilesHere, LoadedHere, ModeHere,
            Modes, Flag, Absent, Generating

(* The numbers among the variables. *)
LEMMA Numbers ==
    ASSUME ServerInv
    PROVE  /\ cert \in Int /\ key \in Int /\ starts \in Nat /\ clients \in Nat /\ fds \in Int
           /\ MaxStarts \in Nat /\ MaxClients \in Nat /\ starts <= MaxStarts
BY BoundAssumption DEF ServerInv, ServerTypeOK, Absent

(* A process that ends, by itself or killed, leaves the files alone. *)
LEMMA ExitStep ==
    ASSUME ServerInv, NEW status \in {"killed", "load_failed", "error", "usage", "ended"},
           Exit(status), UNCHANGED <<cert, key>>, Kept
    PROVE  ServerInv'
<1> USE DEF ServerInv, Exit, Kept
<1>1. ServerTypeOK'
  <2>1. loaded' \in Absent..MaxStarts /\ clients' \in 0..MaxClients /\ fds' \in Int
    BY BoundAssumption DEF Absent
  <2> QED BY <2>1 DEF ServerTypeOK
<1>2. CertificateHasOwnKey' /\ SocketPerClient'
  BY DEF CertificateHasOwnKey, SocketPerClient
<1>3. FilesHere' /\ LoadedHere' /\ ModeHere'
  BY DEF FilesHere, LoadedHere, ModeHere, Generating
<1> QED BY <1>1, <1>2, <1>3

(* A step of main that only moves on. *)
LEMMA MoveStep ==
    ASSUME ServerInv, Kept, UNCHANGED <<cert, key>>,
           \/ main_at = "resolve" /\ main_at' = "listen" /\ config_listen_mode = "tcp"
           \/ main_at = "resolve" /\ main_at' = "check" /\ config_listen_mode # "tcp"
           \/ main_at = "check" /\ main_at' = "open_key" /\ MustGenerate
           \/ main_at = "check" /\ main_at' = "load"
           \/ main_at = "listen" /\ main_at' = "serving",
           UNCHANGED <<rc, loaded, clients, fds>>
    PROVE  ServerInv'
<1> USE DEF ServerInv, Kept
<1>1. ServerTypeOK'
  BY DEF ServerTypeOK
<1>2. CertificateHasOwnKey' /\ SocketPerClient' /\ ModeHere'
  BY DEF CertificateHasOwnKey, SocketPerClient, ModeHere, ListenMode, UpstreamVerify, FileRead
<1>3. FilesHere'
  BY Numbers DEF FilesHere, Generating, MustGenerate, CertificateHasOwnKey, Absent, Partial
<1>4. LoadedHere'
  BY DEF LoadedHere, Generating
<1> QED BY <1>1, <1>2, <1>3, <1>4

LEMMA GenerateKeeps == ASSUME ServerInv, GenerateStep PROVE ServerInv'
<1> USE DEF ServerInv, GenerateStep, Generate, Step, Kept
<1>1. ServerTypeOK'
  <2>1. cert' \in Absent..MaxStarts /\ key' \in Absent..MaxStarts
    BY Numbers DEF ServerTypeOK, Absent, Partial
  <2>2. main_at' \in {"write_key", "open_cert", "write_cert", "load"}
    OBVIOUS
  <2> QED BY <2>1, <2>2 DEF ServerTypeOK
<1>2. CertificateHasOwnKey'
  BY Numbers DEF CertificateHasOwnKey, FilesHere, Generating, Partial, Absent
<1>3. SocketPerClient' /\ ModeHere'
  BY DEF SocketPerClient, ModeHere, ListenMode, UpstreamVerify, FileRead
<1>4. FilesHere'
  BY Numbers DEF FilesHere, Generating, Partial
<1>5. LoadedHere'
  BY DEF LoadedHere, Generating
<1> QED BY <1>1, <1>2, <1>3, <1>4, <1>5

LEMMA NextServerInv == ASSUME ServerInv, [ServerNext]_serverVars PROVE ServerInv'
<1>1. CASE Start
  <2>1. setup \in Setup
    BY DEF ServerInv, ServerTypeOK
  <2>2. ServerTypeOK'
    <3>1. config_listen_mode' \in Modes /\ upstream_verify' \in Flag /\ starts' \in 1..MaxStarts
      BY <1>1, <2>1, ModeType, VerifyType, Numbers DEF Start
    <3>2. loaded' \in Absent..MaxStarts /\ clients' \in 0..MaxClients /\ fds' \in Int
      BY <1>1, BoundAssumption DEF Start, Exit, Step, ServerInv, ServerTypeOK, Absent
    <3>3. /\ main_at' \in {"down", "resolve"} /\ rc' \in {"error", rc}
          /\ UNCHANGED <<setup, cert, key>> /\ starts' \in 0..MaxStarts
      BY <1>1, <3>1, BoundAssumption DEF Start, Exit, Step
    <3> QED BY <3>1, <3>2, <3>3 DEF ServerInv, ServerTypeOK
  <2>3. CertificateHasOwnKey' /\ SocketPerClient' /\ ModeHere'
    BY <1>1 DEF Start, Exit, Step, ServerInv, CertificateHasOwnKey, SocketPerClient, ModeHere, ListenMode, UpstreamVerify, FileRead
  <2>4. FilesHere'
    BY <1>1, Numbers DEF Start, Exit, Step, FilesHere, Generating
  <2>5. LoadedHere'
    BY <1>1 DEF Start, Exit, Step, ServerInv, LoadedHere, Generating
  <2> QED BY <2>2, <2>3, <2>4, <2>5 DEF ServerInv
<1>2. CASE ResolvePaths
  BY <1>2, ExitStep, MoveStep DEF ResolvePaths, Step
<1>3. CASE CheckFiles
  BY <1>3, MoveStep DEF CheckFiles, Step
<1>4. CASE GenerateStep
  BY <1>4, GenerateKeeps
<1>5. CASE GenerateFails \/ AcceptFails \/ Killed
  BY <1>5, ExitStep DEF GenerateFails, AcceptFails, Killed
<1>6. CASE LoadPair
  <2>1. CASE /\ main_at' = "listen" /\ loaded' = cert /\ cert >= 0 /\ key = cert
             /\ UNCHANGED <<rc, clients, fds>>
    <3>1. main_at = "load" /\ UNCHANGED <<cert, key>> /\ Kept
      BY <1>6 DEF LoadPair
    <3> USE <2>1, <3>1 DEF ServerInv, Kept
    <3>2. ServerTypeOK'
      BY DEF ServerTypeOK
    <3>3. CertificateHasOwnKey' /\ SocketPerClient' /\ ModeHere'
      BY DEF CertificateHasOwnKey, SocketPerClient, ModeHere, ListenMode, UpstreamVerify, FileRead
    <3>4. FilesHere' /\ LoadedHere'
      BY DEF FilesHere, LoadedHere, Generating
    <3> QED BY <3>2, <3>3, <3>4
  <2>2. CASE Exit("load_failed") \/ Exit("error")
    BY <1>6, <2>2, ExitStep DEF LoadPair
  <2> QED BY <1>6, <2>1, <2>2 DEF LoadPair
<1>7. CASE Listen
  BY <1>7, ExitStep, MoveStep DEF Listen, Step
<1>8. CASE Accept \/ ClientReturns
  <2> USE <1>8 DEF Accept, AcceptClient, ClientReturns, ServerInv, Kept
  <2>1. clients' \in 0..MaxClients /\ fds' \in Int /\ SocketPerClient'
    BY Numbers DEF ServerTypeOK, SocketPerClient
  <2>2. ServerTypeOK' /\ CertificateHasOwnKey'
    BY <2>1 DEF ServerTypeOK, CertificateHasOwnKey
  <2>3. FilesHere' /\ LoadedHere' /\ ModeHere'
    BY DEF FilesHere, LoadedHere, ModeHere, ListenMode, UpstreamVerify, FileRead, Generating
  <2> QED BY <2>1, <2>2, <2>3
<1>9. CASE ServerStopped \/ UNCHANGED serverVars
  BY <1>9 DEF ServerStopped, serverVars, ServerInv, ServerTypeOK, CertificateHasOwnKey, SocketPerClient, FilesHere, LoadedHere,
              ModeHere, ListenMode, UpstreamVerify, FileRead
<1> QED BY <1>1, <1>2, <1>3, <1>4, <1>5, <1>6, <1>7, <1>8, <1>9 DEF ServerNext

LEMMA ServerInvariant == ServerSpec => []ServerInv
BY InitServerInv, NextServerInv, PTL DEF ServerSpec

(* However often proxy_main.c is started, killed and started again, and    *)
(* whatever its configuration: beside a generated certificate is its own   *)
(* key or one cut short by a write error, TLS is served only with the      *)
(* complete pair on disk, arguments win over the file, and each accepted   *)
(* socket has its thread.                                                  *)
THEOREM ServerIsSound == ServerSpec => []ServerSound
<1>1. ServerInv => ServerSound
  <2> SUFFICES ASSUME ServerInv PROVE ServesStoredPair /\ ArgumentWins
    BY DEF ServerInv, ServerSound
  <2>1. ServesStoredPair
    BY DEF ServerInv, LoadedHere, ServesStoredPair
  <2>2. ArgumentWins
    <3>1. setup \in Setup
      BY DEF ServerInv, ServerTypeOK
    <3>2. main_at # "down" /\ setup.arg_mode # "none" => config_listen_mode = setup.arg_mode
      BY <3>1, ModeType DEF ServerInv, ModeHere
    <3>3. main_at # "down" /\ setup.arg_no_verify => upstream_verify = "off"
      BY DEF ServerInv, ModeHere, UpstreamVerify
    <3>4. main_at # "down" /\ setup.arg_mode = "tcp" => main_at \in {"resolve", "listen", "serving"}
      BY <3>2 DEF ServerInv, LoadedHere, Generating, ServerTypeOK
    <3> QED BY <3>2, <3>3, <3>4 DEF ArgumentWins
  <2> QED BY <2>1, <2>2
<1> QED BY <1>1, ServerInvariant, PTL

(* No step of any start touches a complete pair, generated or installed.   *)
THEOREM PairIsKept == ServerSpec => PairKept
<1>1. ServerInv /\ [ServerNext]_serverVars => [cert >= 0 /\ key = cert => cert' = cert /\ key' = key]_serverVars
  <2> SUFFICES ASSUME ServerInv, ServerNext, cert >= 0, key = cert
               PROVE  cert' = cert /\ key' = key
    BY DEF serverVars
  <2>1. ~GenerateStep
    BY Numbers DEF ServerInv, FilesHere, Generating, GenerateStep, Generate, Absent, Partial
  <2> QED BY <2>1 DEF ServerNext, Start, ResolvePaths, CheckFiles, GenerateFails, LoadPair, Listen, Accept,
                      ClientReturns, AcceptFails, Killed, ServerStopped, serverVars
<1> QED BY <1>1, ServerInvariant, PTL DEF ServerSpec, PairKept
=============================================================================
