----------------------------- MODULE LineReader -----------------------------
(***************************************************************************)
(* How a session of src/src/stratum.c cuts the bytes of the pool into      *)
(* lines: read_line with its buffer, conn_read and conn_pending over plain *)
(* TCP and over TLS, called from the loop of stratum_run_client.  The pool *)
(* sends bytes in pieces of any size; over TLS a piece is a record, which  *)
(* OpenSSL takes from the socket whole and hands out as the caller asks.   *)
(***************************************************************************)
EXTENDS Integers, Sequences, FiniteSets

CONSTANTS
    Letters,         \* bytes that are neither CR nor LF
    BufferSize,      \* 65536, of line_reader_t and of the caller's line
    MaxRecord,       \* bound on the bytes the pool sends at once
    MaxBytes         \* bound on the bytes the pool sends

ASSUME ReaderAssumption ==
    /\ BufferSize \in Nat \ {0} /\ MaxRecord \in Nat \ {0} /\ MaxBytes \in Nat
    /\ {"CR", "LF"} \cap Letters = {}

Bytes == Letters \cup {"CR", "LF"}

VARIABLES
    use_tls,         \* conn->use_tls
    stream,          \* all the bytes the pool has sent
    wire,            \* pieces that have reached the socket and were not read
    ssl,             \* decrypted bytes of the current record, SSL_pending
    eof,             \* the pool has closed
    buffer,          \* reader->buffer[0..used)
    lines,           \* the lines read_line has returned
    pc,              \* "loop": in stratum_run_client; "ended": the loop is left
    rc               \* the last result of read_line

readerVars == <<use_tls, stream, wire, ssl, eof, buffer, lines, pc, rc>>
pool == <<use_tls, stream, eof>>

ReaderInit ==
    /\ use_tls \in BOOLEAN
    /\ stream = << >> /\ wire = << >> /\ ssl = << >> /\ eof = FALSE
    /\ buffer = << >> /\ lines = << >>
    /\ pc = "loop" /\ rc = 1

-----------------------------------------------------------------------------
(* read_line. *)

(* Position of the first LF of a sequence that has one. *)
HasLine(s) == \E i \in 1..Len(s) : s[i] = "LF"
FirstLF(s) == CHOOSE i \in 1..Len(s) : s[i] = "LF" /\ \A j \in 1..(i - 1) : s[j] # "LF"

(* The line that ends at position i, without a CR before the LF. *)
LineLen(s, i) == IF i > 1 /\ s[i - 1] = "CR" THEN i - 2 ELSE i - 1

Min2(a, b) == IF a < b THEN a ELSE b

Return(result) ==
    /\ rc' = result
    /\ pc' = IF result \in {1, -3} THEN "loop" ELSE "ended"

Call == pc = "loop" /\ pc' = "scan" /\ UNCHANGED <<pool, wire, ssl, buffer, lines, rc>>

(* Faulty variant: only the bytes copied out are consumed.                 *)
ConsumedLine(i) == LineLen(buffer, i) + 1

Consumed(i) == i

(* Faulty variant: the buffer is found full before it is searched.         *)
BufferFullFirst == Len(buffer) = BufferSize

BufferFull == ~HasLine(buffer) /\ Len(buffer) = BufferSize

(* A line is in the buffer, the buffer is full, or more must be read. *)
Scan ==
    /\ pc = "scan"
    /\ \/ /\ HasLine(buffer) /\ ~BufferFull
          /\ LET i == FirstLF(buffer)
             IN  IF LineLen(buffer, i) >= BufferSize
                 THEN Return(-2) /\ UNCHANGED <<buffer, lines>>
                 ELSE /\ lines' = Append(lines, SubSeq(buffer, 1, LineLen(buffer, i)))
                      /\ buffer' = SubSeq(buffer, Consumed(i) + 1, Len(buffer))
                      /\ Return(1)
       \/ /\ BufferFull
          /\ Return(-2) /\ UNCHANGED <<buffer, lines>>
       \/ /\ ~HasLine(buffer) /\ Len(buffer) < BufferSize
          /\ pc' = "wait" /\ UNCHANGED <<rc, buffer, lines>>
    /\ UNCHANGED <<pool, wire, ssl>>

(* Faulty variant: bytes that OpenSSL holds are not asked for.             *)
ConnPendingNever == FALSE

ConnPending == ssl # << >>

(* select, unless decrypted bytes are pending. *)
Ready ==
    /\ pc = "wait" /\ (ConnPending \/ wire # << >> \/ eof)
    /\ pc' = "read" /\ UNCHANGED <<pool, wire, ssl, buffer, lines, rc>>

Timeout ==
    /\ pc = "wait" /\ ~ConnPending /\ wire = << >> /\ ~eof
    /\ Return(-3) /\ UNCHANGED <<pool, wire, ssl, buffer, lines>>

Interrupted ==
    /\ pc = "wait" /\ ~ConnPending
    /\ pc' = "scan" /\ UNCHANGED <<pool, wire, ssl, buffer, lines, rc>>

SelectFails ==
    /\ pc = "wait" /\ ~ConnPending
    /\ Return(-1) /\ UNCHANGED <<pool, wire, ssl, buffer, lines>>

(* Faulty variant: a read may fill the buffer past its end.                *)
RoomWhole == BufferSize

Room == BufferSize - Len(buffer)

(* Faulty variant: the end of the socket's bytes is the end of the stream. *)
AtEofSocket == wire = << >> /\ eof

AtEof == ssl = << >> /\ wire = << >> /\ eof

(* conn_read.  TCP: any part of what the socket holds.  TLS: bytes of the  *)
(* current record; without one the next is taken from the socket.  A       *)
(* record without data (a session ticket) is processed and skipped; the    *)
(* socket blocks, so SSL_read then waits for the next record.              *)
Read ==
    /\ pc = "read"
    /\ \/ /\ ~use_tls /\ wire # << >>
          /\ \E n \in 1..Min2(Room, Len(Head(wire))) :
                /\ buffer' = buffer \o SubSeq(Head(wire), 1, n)
                /\ wire' = IF n = Len(Head(wire)) THEN Tail(wire)
                           ELSE << SubSeq(Head(wire), n + 1, Len(Head(wire))) >> \o Tail(wire)
          /\ pc' = "scan" /\ UNCHANGED <<ssl, rc>>
       \/ /\ use_tls
          /\ LET record == IF ssl = << >> /\ wire # << >> THEN Head(wire) ELSE ssl
                 n      == Min2(Room, Len(record))
             IN  /\ record # << >>
                 /\ buffer' = buffer \o SubSeq(record, 1, n)
                 /\ ssl' = SubSeq(record, n + 1, Len(record))
          /\ wire' = IF ssl = << >> THEN Tail(wire) ELSE wire
          /\ pc' = "scan" /\ UNCHANGED rc
       \/ /\ use_tls /\ ssl = << >> /\ wire # << >> /\ Head(wire) = << >>
          /\ wire' = Tail(wire) /\ UNCHANGED <<ssl, buffer, pc, rc>>
       \/ /\ AtEof
          /\ Return(0) /\ UNCHANGED <<wire, ssl, buffer>>
       \/ /\ ssl = << >> /\ eof                                      \* reset
          /\ Return(-1) /\ UNCHANGED <<wire, ssl, buffer>>
    /\ UNCHANGED <<pool, lines>>

ReadLoop == Call \/ Scan \/ Ready \/ Timeout \/ Interrupted \/ SelectFails \/ Read

-----------------------------------------------------------------------------
(* The pool. *)

Pieces == UNION {[1..n -> Bytes] : n \in 1..MaxRecord}

Send ==
    /\ ~eof
    /\ \E piece \in Pieces :
         /\ Len(stream) + Len(piece) <= MaxBytes
         /\ stream' = stream \o piece
         /\ wire' = Append(wire, piece)
    /\ UNCHANGED <<use_tls, ssl, eof, buffer, lines, pc, rc>>

Ticket ==
    /\ use_tls /\ ~eof /\ stream = << >> /\ wire = << >> /\ wire' = << << >> >>
    /\ UNCHANGED <<pool, ssl, buffer, lines, pc, rc>>

Close == ~eof /\ eof' = TRUE /\ UNCHANGED <<use_tls, stream, wire, ssl, buffer, lines, pc, rc>>

Ended == pc = "ended" /\ UNCHANGED readerVars

ReaderNext == ReadLoop \/ Send \/ Ticket \/ Close \/ Ended

ReaderSpec == ReaderInit /\ [][ReaderNext]_readerVars

(* The session's thread keeps running and its select is not interrupted    *)
(* every time; nothing is assumed of the pool.                             *)
ReaderFairSpec == ReaderSpec /\ WF_readerVars(ReadLoop) /\ SF_readerVars(Ready)

-----------------------------------------------------------------------------
(* Properties.                                                             *)

(* Values of the reader's variables; the buffer keeps its size. *)
ReaderTypeOK ==
    /\ use_tls \in BOOLEAN /\ eof \in BOOLEAN
    /\ stream \in Seq(Bytes) /\ wire \in Seq(Seq(Bytes)) /\ ssl \in Seq(Bytes)
    /\ buffer \in Seq(Bytes) /\ Len(buffer) <= BufferSize
    /\ lines \in Seq(Seq(Bytes))
    /\ pc \in {"loop", "scan", "wait", "read", "ended"} /\ rc \in {1, 0, -1, -2, -3}

(* The lines of a stream, by counting its LFs: line k lies between the     *)
(* LFs k-1 and k.                                                          *)
Ends(s) == {i \in 1..Len(s) : s[i] = "LF"}
EndOf(s, k) == IF k = 0 THEN 0 ELSE CHOOSE i \in Ends(s) : Cardinality({j \in Ends(s) : j <= i}) = k
LineOf(s, k) ==
    LET text == SubSeq(s, EndOf(s, k - 1) + 1, EndOf(s, k) - 1)
    IN  IF text # << >> /\ text[Len(text)] = "CR" THEN SubSeq(text, 1, Len(text) - 1) ELSE text

(* Bytes of line k before its LF, or so far. *)
LengthOf(s, k) ==
    (IF k <= Cardinality(Ends(s)) THEN EndOf(s, k) - 1 ELSE Len(s)) - EndOf(s, k - 1)

(* However the bytes are split into pieces, records and reads, read_line   *)
(* returns the lines of the stream, in order and whole, each without its   *)
(* line end, and the buffer continues where the last one ended.            *)
LinesExact ==
    LET k == Len(lines)
    IN  /\ k <= Cardinality(Ends(stream))
        /\ \A i \in 1..k : lines[i] = LineOf(stream, i)
        /\ EndOf(stream, k) + Len(buffer) <= Len(stream)
        /\ buffer = SubSeq(stream, EndOf(stream, k) + 1, EndOf(stream, k) + Len(buffer))

(* A session is ended for its line length only by a line that fills the    *)
(* buffer, never by what had been buffered with it (lines 849, 862).       *)
TooLongOnly == rc = -2 => LengthOf(stream, Len(lines) + 1) >= BufferSize

(* When the end of the stream is reported, every complete line before it   *)
(* has been returned.                                                      *)
LinesBeforeEof == rc = 0 => Len(lines) = Cardinality(Ends(stream))

(* read_line is exact: it returns the lines of the stream and no others,   *)
(* ends a session for its line length only when it must, and reports the   *)
(* end of the stream after the last complete line.                         *)
ReaderExact == ReaderTypeOK /\ LinesExact /\ TooLongOnly /\ LinesBeforeEof

(* A complete line of the pool is returned although the bytes behind it    *)
(* have long left the socket, unless the session ends (line 866).          *)
LineReturned ==
    \A k \in 1..MaxBytes :
        (Cardinality(Ends(stream)) >= k) ~> (Len(lines) >= k \/ pc = "ended")
=============================================================================
