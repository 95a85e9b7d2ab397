\* Two sessions with two changes of the server; lines of up to three bytes and
\* longer ones, in pieces of up to two bytes.
CONSTANTS
    Schemes = {"tcp", "tls", "insecure", "invalid"}
    MaxChanges = 2
    MaxSessions = 2
    Letters = {"a"}
    BufferSize = 3
    MaxRecord = 2
    MaxBytes = 5
SPECIFICATION SessionSpec
INVARIANTS SessionSound ReaderExact
PROPERTIES RuntimeLimitHolds LineReturned
