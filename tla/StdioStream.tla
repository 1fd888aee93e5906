---------------------------- MODULE StdioStream -----------------------------
(***************************************************************************)
(* StdioStream of src/lib/base/stdiostream.cpp: a Stream over a C++        *)
(* iostream with a read-ahead FIFO that makes Peek possible.               *)
(*                                                                         *)
(* Peek reads from the inner stream and appends what it read to the FIFO;  *)
(* Read first drains the FIFO, then reads the rest from the inner stream.  *)
(* Both hand the inner read the count size - peek_len, a size_t of W bits  *)
(* that std::istream::read receives as a signed streamsize.                *)
(*                                                                         *)
(* The inner stream is a finite input (a file or a pipe up to its end).   *)
(* Its failbit follows libstdc++: a read that gets fewer bytes than asked, *)
(* or a negative count, sets it together with eofbit, and once set every   *)
(* read gets nothing.  The inner stream is a std::iostream: reads and      *)
(* writes share that one state, so a write after it is set writes nothing. *)
(*                                                                         *)
(* Callers stop using the stream once they have closed it.                *)
(***************************************************************************)
EXTENDS Naturals, Integers, Sequences, SequencesExt

CONSTANTS
    Input,      \* the bytes the inner stream holds, in order (distinct values)
    MaxSize,    \* the largest size a caller passes to Read or Peek
    W,          \* the width of size_t and streamsize in bits
    MaxCalls,   \* bound on Read, Peek and Write calls
    OwnsStream  \* the constructor's ownsStream argument

ASSUME W \in Nat /\ 2^(W - 1) > Len(Input) + MaxSize
ASSUME OwnsStream \in BOOLEAN

Bytes == {Input[i] : i \in 1..Len(Input)}
Sizes == 0..MaxSize

\* Arithmetic on a size_t of W bits.
Word == 2^W
SizeT(x) == x % Word

\* A size_t converted to std::streamsize: values with the top bit set are
\* negative.
StreamSize(x) == IF x >= Word \div 2 THEN x - Word ELSE x

VARIABLES
    pos,        \* bytes taken from the inner stream so far
    fail,       \* the inner stream's failbit
    fifo,       \* m_ReadAheadBuffer
    delivered,  \* history: every byte Read has returned, in order
    op,         \* the last call: "none", "read" or "peek"
    out,        \* the bytes the last call put into the caller's buffer
    lastSize,   \* the size argument of the last call
    calls,      \* number of calls so far
    written,    \* bytes Write has put into the inner stream
    connected,  \* the Stream's connected flag
    closed,     \* Close has been called
    innerAlive  \* the inner iostream has not been deleted

vars == <<pos, fail, fifo, delivered, op, out, lastSize, calls, written,
          connected, closed, innerAlive>>

(***************************************************************************)
(* Helpers                                                                 *)
(***************************************************************************)

\* m_InnerStream->read(p, n) followed by gcount(): nothing once failbit
\* is set or when the count is negative, otherwise what is left up to n.
InnerReadCount(n) ==
    IF fail \/ n < 0 THEN 0
    ELSE IF n <= Len(Input) - pos THEN n ELSE Len(Input) - pos

\* The failbit after that read: set when fewer than n bytes were read.
InnerFails(n) == fail \/ InnerReadCount(n) # n

\* The bytes that read takes from the inner stream.
InnerBytes(n) == SubSeq(Input, pos + 1, pos + InnerReadCount(n))

\* The count passed to the inner read: size - peek_len as size_t, then
\* taken as a streamsize.
InnerCount(size) == StreamSize(SizeT(size - Len(fifo)))

\* The inner stream's eofbit: in this model it is set exactly when failbit
\* is, by the read that came up short.
InnerEof == fail

\* Variant of GetAvailableBytes that ignores the read-ahead FIFO.
GetAvailableBytesNoFifo == IF InnerEof THEN 0 ELSE 1024

\* StdioStream::GetAvailableBytes: 0 once the inner stream is at its end
\* and the FIFO is empty, otherwise 1024 ("doesn't have to be accurate").
GetAvailableBytes == IF InnerEof /\ fifo = <<>> THEN 0 ELSE 1024

(***************************************************************************)
(* Operations                                                              *)
(***************************************************************************)

Init ==
    /\ pos = 0
    /\ fail = FALSE
    /\ fifo = <<>>
    /\ delivered = <<>>
    /\ op = "none"
    /\ out = <<>>
    /\ lastSize = 0
    /\ calls = 0
    /\ written = 0
    /\ connected = FALSE
    /\ closed = FALSE
    /\ innerAlive = TRUE

\* Variant of Read that peeks at the FIFO instead of draining it.
ReadNoDrain(size) ==
    LET n == InnerCount(size)
        got == fifo \o InnerBytes(n)
    IN
    /\ ~closed
    /\ calls < MaxCalls
    /\ calls' = calls + 1
    /\ UNCHANGED <<written, connected, closed, innerAlive>>
    /\ pos' = pos + InnerReadCount(n)
    /\ fail' = InnerFails(n)
    /\ delivered' = delivered \o got
    /\ op' = "read"
    /\ out' = got
    /\ lastSize' = size
    /\ UNCHANGED fifo

\* StdioStream::Read: every byte of the FIFO (FIFO::Read of
\* GetAvailableBytes() bytes), then size - peek_len bytes of the inner
\* stream after them.
Read(size) ==
    LET n == InnerCount(size)
        got == fifo \o InnerBytes(n)
    IN
    /\ ~closed
    /\ calls < MaxCalls
    /\ calls' = calls + 1
    /\ UNCHANGED <<written, connected, closed, innerAlive>>
    /\ pos' = pos + InnerReadCount(n)
    /\ fail' = InnerFails(n)
    /\ fifo' = <<>>
    /\ delivered' = delivered \o got
    /\ op' = "read"
    /\ out' = got
    /\ lastSize' = size

\* Variant of Peek that does not keep the bytes it read in the FIFO.
PeekNoWriteBack(size) ==
    LET n == InnerCount(size)
    IN
    /\ ~closed
    /\ calls < MaxCalls
    /\ calls' = calls + 1
    /\ UNCHANGED <<written, connected, closed, innerAlive>>
    /\ pos' = pos + InnerReadCount(n)
    /\ fail' = InnerFails(n)
    /\ op' = "peek"
    /\ out' = fifo \o InnerBytes(n)
    /\ lastSize' = size
    /\ UNCHANGED <<fifo, delivered>>

\* StdioStream::Peek: every byte of the FIFO (FIFO::Peek, which leaves
\* them), then size - peek_len bytes of the inner stream, which are
\* appended to the FIFO.
Peek(size) ==
    LET n == InnerCount(size)
    IN
    /\ ~closed
    /\ calls < MaxCalls
    /\ calls' = calls + 1
    /\ UNCHANGED <<written, connected, closed, innerAlive>>
    /\ pos' = pos + InnerReadCount(n)
    /\ fail' = InnerFails(n)
    /\ fifo' = fifo \o InnerBytes(n)
    /\ op' = "peek"
    /\ out' = fifo \o InnerBytes(n)
    /\ lastSize' = size
    /\ UNCHANGED delivered

\* StdioStream::Start: Stream::Start after SetConnected(true).
Start ==
    /\ ~closed
    /\ ~connected
    /\ connected' = TRUE
    /\ UNCHANGED <<pos, fail, fifo, delivered, op, out, lastSize, calls,
                   written, closed, innerAlive>>

\* StdioStream::Write: m_InnerStream->write(buffer, size).  The ostream
\* sentry fails once the shared state is not good, and nothing is written.
Write(size) ==
    /\ ~closed
    /\ calls < MaxCalls
    /\ calls' = calls + 1
    /\ written' = IF fail THEN written ELSE written + size
    /\ UNCHANGED <<pos, fail, fifo, delivered, op, out, lastSize,
                   connected, closed, innerAlive>>

\* StdioStream::Close: the inner stream is deleted when the object owns
\* it, then Stream::Close.
Close ==
    /\ ~closed
    /\ closed' = TRUE
    /\ innerAlive' = ~OwnsStream
    /\ connected' = FALSE
    /\ UNCHANGED <<pos, fail, fifo, delivered, op, out, lastSize, calls,
                   written>>

Next ==
    \/ \E size \in Sizes : Read(size)
    \/ \E size \in Sizes : Peek(size)
    \/ \E size \in Sizes : Write(size)
    \/ Start
    \/ Close

Spec == Init /\ [][Next]_vars

(***************************************************************************)
(* Properties                                                              *)
(***************************************************************************)

\* Read hands out the stream's bytes once each and in order, whatever mix
\* of Peek and Read calls, of any sizes, came before: the FIFO bytes first,
\* then the inner stream's.
ReadsInOrder ==
    IsPrefix(delivered, Input)

\* What Peek returns is exactly what the following Reads will return:
\* the bytes right after those already delivered.
PeekPreviews ==
    op = "peek" => IsPrefix(delivered \o out, Input)

\* Once GetAvailableBytes reports 0, it keeps reporting 0 and no later Read
\* returns a byte: a caller's "while (GetAvailableBytes() > 0) Read" loop
\* stops with nothing left that a Read could still return, bytes peeked
\* into the FIFO included.  That is not "only at the real end": after the
\* wrapped count of line 68 it reports 0 with input unread, which no Read
\* returns either (see NoBufferOverrun).
EndIsFinal ==
    [][GetAvailableBytes = 0 =>
          /\ delivered' = delivered
          /\ GetAvailableBytes' = 0]_vars

\* Neither Read nor Peek writes more than size bytes into the caller's
\* buffer.
NoBufferOverrun ==
    Len(out) <= lastSize

=============================================================================
