\* Three starts in every configuration; one connection, every listening mode
\* and kind of client, three bytes each way through a buffer of two and a
\* socket of two.
CONSTANTS
    Configured <- MCConfigured
    MaxStarts = 3
    MaxClients = 2
    ListenModes = {"auto", "tcp", "tls"}
    BufferSize = 2
    SocketRoom = 2
    MaxBytes = 3
SPECIFICATION ProxySpec
INVARIANTS RelaySound ServerSound
PROPERTIES ForwardsBytes ClientServed PairKept
