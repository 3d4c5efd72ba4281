--------------------------- MODULE StreamAssembler ---------------------------
(***************************************************************************)
(* The worker's byte stream (roi_ipc_process_stream_bytes in               *)
(* src/src/roi_ipc_client.c) and the decoder it feeds (roi_frame_msg_v1.h):*)
(* bytes arrive in reads of any length, are kept in stream_buffer, and     *)
(* every complete message at a magic number is taken out and decoded.      *)
(*                                                                         *)
(* Sizes are scaled down: each field of the header is one byte, at its     *)
(* place behind the magic number, and one byte of payload stands for the   *)
(* rest.  The loop's turns are steps of their own, since nothing else      *)
(* touches the worker's buffer.                                            *)
(***************************************************************************)
EXTENDS Integers, Sequences

CONSTANTS
    Magic,                  \* ROI_FRAME_MSG_V1_MAGIC, as bytes
    SchemaVersion, HeaderSize,
    MessageSize,            \* ROI_FRAME_MSG_V1_MESSAGE_SIZE
    NonFinite,              \* a payload whose floats are not finite
    BufferCap,              \* ROI_IPC_STREAM_BUFFER_BYTES
    ReadMax,                \* ROI_IPC_READ_BUFFER_BYTES
    Items,                  \* what a producer may write at once
    MaxItems                \* bound on the writes of one behaviour

VersionAt == Len(Magic) + 1
HeaderSizeAt == Len(Magic) + 2
MessageSizeAt == Len(Magic) + 3
PayloadAt == Len(Magic) + 4

ASSUME AssemblerAssumption ==
    /\ Magic \in Seq(Nat) /\ Len(Magic) > 0
    /\ Items \subseteq Seq(Nat)
    /\ MessageSize \in Nat /\ MessageSize >= PayloadAt
    /\ BufferCap \in Nat /\ ReadMax \in Nat \ {0}
    /\ MessageSize + ReadMax <= BufferCap
    /\ MaxItems \in Nat

VARIABLES
    written,        \* the items the producer writes, in order
    arrived,        \* how many bytes of them have been read
    stream_buffer,
    delivered,      \* the messages handed on since bytes were last lost
    start,          \* history: where the bytes kept since then begin
    a_pc            \* "read", or "scan" inside the loop

assemblerVars == <<written, arrived, stream_buffer, delivered, start, a_pc>>

\* All bytes of a sequence of items.
Bytes(items) ==
    LET f[n \in 0..Len(items)] == IF n = 0 THEN <<>> ELSE f[n - 1] \o items[n]
    IN  f[Len(items)]

Drop(s, n) == SubSeq(s, n + 1, Len(s))

AssemblerInit ==
    /\ written \in UNION {[1..n -> Items] : n \in 0..MaxItems}
    /\ arrived = 0 /\ stream_buffer = <<>> /\ delivered = <<>> /\ start = 0
    /\ a_pc = "read"

-----------------------------------------------------------------------------
(* roi_frame_msg_v1_decode *)

Decode(m) ==
    IF Len(m) < MessageSize THEN "truncated"
    ELSE IF SubSeq(m, 1, Len(Magic)) # Magic THEN "bad_magic"
    ELSE IF m[VersionAt] # SchemaVersion THEN "unsupported_version"
    ELSE IF m[HeaderSizeAt] # HeaderSize THEN "bad_header_size"
    ELSE IF m[MessageSizeAt] # MessageSize \/ Len(m) # m[MessageSizeAt]
         THEN "bad_message_size"
    ELSE IF m[PayloadAt] = NonFinite THEN "nonfinite_roi"
    ELSE "ok"

\* roi_ipc_process_frame_bytes: only a message that decodes is handed on.
ProcessFrameBytes(m) ==
    delivered' = IF Decode(m) = "ok" THEN Append(delivered, m) ELSE delivered

-----------------------------------------------------------------------------
(* Reading, and the loop over the buffer *)

\* The append, which gives up the oldest bytes when the buffer is full.
Read(n) ==
    LET end == arrived + n
        bytes == SubSeq(Bytes(written), arrived + 1, end)
        over == Len(stream_buffer) + n - BufferCap
    IN  /\ a_pc = "read" /\ end <= Len(Bytes(written))
        /\ arrived' = end
        /\ IF over > 0
           THEN /\ stream_buffer' = Drop(stream_buffer, over) \o bytes
                /\ start' = end - BufferCap /\ delivered' = <<>>
           ELSE /\ stream_buffer' = stream_buffer \o bytes
                /\ UNCHANGED <<start, delivered>>
        /\ a_pc' = "scan"
        /\ UNCHANGED written

\* A message-mode pipe holds a write that does not fit one read: that write and
\* what is buffered are given up (roi_ipc_drain_oversized_message).
ReadOversized(n) ==
    /\ a_pc = "read" /\ arrived + n <= Len(Bytes(written))
    /\ arrived' = arrived + n /\ start' = arrived + n
    /\ stream_buffer' = <<>> /\ delivered' = <<>>
    /\ UNCHANGED <<written, a_pc>>

MagicAt(s, i) ==
    /\ i + Len(Magic) - 1 <= Len(s)
    /\ SubSeq(s, i, i + Len(Magic) - 1) = Magic

\* The first magic number at or behind position i; 0 if there is none.
FindMagic(s, i) ==
    IF \A j \in i..Len(s) : ~MagicAt(s, j) THEN 0
    ELSE CHOOSE j \in i..Len(s) :
            MagicAt(s, j) /\ \A k \in i..j - 1 : ~MagicAt(s, k)

Smaller(m, n) == IF m < n THEN m ELSE n

Buffered == Len(stream_buffer)
Declared == stream_buffer[MessageSizeAt]
AtHeader == /\ a_pc = "scan" /\ FindMagic(stream_buffer, 1) = 1
            /\ Buffered >= MessageSizeAt
\* Mutant: the smallest size is refused.
BadSmallest(size) == size <= MessageSize \/ size > BufferCap

BadSize(size) == size < MessageSize \/ size > BufferCap

\* Nothing more to do until the next read.
Wait ==
    /\ a_pc = "scan"
    /\ \/ Buffered < Len(Magic)
       \/ FindMagic(stream_buffer, 1) = 1 /\ Buffered < MessageSizeAt
       \/ AtHeader /\ ~BadSize(Declared) /\ Buffered < Declared
    /\ a_pc' = "read"
    /\ UNCHANGED <<written, arrived, stream_buffer, delivered, start>>

\* Mutant: what may be the beginning of a magic number is dropped as well.
DropNoMagic ==
    /\ a_pc = "scan" /\ Buffered >= Len(Magic) /\ FindMagic(stream_buffer, 1) = 0
    /\ stream_buffer' = <<>>
    /\ a_pc' = "read"
    /\ UNCHANGED <<written, arrived, delivered, start>>

\* No magic number: what may be the beginning of one is kept.
KeepTail ==
    /\ a_pc = "scan" /\ Buffered >= Len(Magic) /\ FindMagic(stream_buffer, 1) = 0
    /\ stream_buffer' =
            Drop(stream_buffer, Buffered - Smaller(Buffered, Len(Magic) - 1))
    /\ a_pc' = "read"
    /\ UNCHANGED <<written, arrived, delivered, start>>

SkipToMagic ==
    /\ a_pc = "scan" /\ FindMagic(stream_buffer, 1) > 1
    /\ stream_buffer' = Drop(stream_buffer, FindMagic(stream_buffer, 1) - 1)
    /\ UNCHANGED <<written, arrived, delivered, start, a_pc>>

SkipBadSize ==
    /\ AtHeader /\ BadSize(Declared)
    /\ stream_buffer' = Drop(stream_buffer, 1)
    /\ UNCHANGED <<written, arrived, delivered, start, a_pc>>

TakeMessage ==
    /\ AtHeader /\ ~BadSize(Declared) /\ Buffered >= Declared
    /\ ProcessFrameBytes(SubSeq(stream_buffer, 1, Declared))
    /\ stream_buffer' = Drop(stream_buffer, Declared)
    /\ UNCHANGED <<written, arrived, start, a_pc>>

Scan == Wait \/ KeepTail \/ SkipToMagic \/ SkipBadSize \/ TakeMessage

AssemblerNext ==
    \/ \E n \in 1..ReadMax : Read(n)
    \/ \E n \in ReadMax + 1..BufferCap : ReadOversized(n)
    \/ Scan

AssemblerSpec == AssemblerInit /\ [][AssemblerNext]_assemblerVars

-----------------------------------------------------------------------------
(* What must hold *)

\* The reference: the messages in a sequence of bytes, read from left to right.
Messages(s) ==
    LET f[i \in 1..Len(s) + 1] ==
            IF i > Len(s) THEN <<>>
            ELSE IF ~MagicAt(s, i) THEN f[i + 1]
            ELSE IF i + MessageSizeAt - 1 > Len(s) THEN <<>>
            ELSE LET size == s[i + MessageSizeAt - 1]
                     m == SubSeq(s, i, i + size - 1)
                 IN  IF BadSize(size) THEN f[i + 1]
                     ELSE IF i + size - 1 > Len(s) THEN <<>>
                     ELSE (IF Decode(m) = "ok" THEN <<m>> ELSE <<>>)
                            \o f[i + size]
    IN  f[1]

\* How the bytes were cut into reads makes no difference: what was delivered
\* since bytes were last given up is what the reference finds in all the bytes
\* that came since then, with nothing held back, repeated or found too early.
ChunkingIsIrrelevant ==
    a_pc = "read" =>
        delivered = Messages(SubSeq(Bytes(written), start + 1, arrived))

\* A write that keeps the stream in step: a message of any version and content
\* whose declared size is its own, small enough for the buffer whatever the
\* reads are, or a byte that cannot complete a magic number.
InStep(item) ==
    \/ /\ Len(item) \in MessageSize..BufferCap - ReadMax + 1
       /\ MagicAt(item, 1) /\ item[MessageSizeAt] = Len(item)
    \/ Len(item) = 1 /\ item[1] # Magic[Len(Magic)]

\* The valid messages among the items that have arrived completely.
ArrivedMessages ==
    LET f[n \in 0..Len(written)] ==
            IF n = 0 THEN <<>>
            ELSE IF /\ Len(Bytes(SubSeq(written, 1, n))) <= arrived
                    /\ Decode(written[n]) = "ok"
            THEN Append(f[n - 1], written[n]) ELSE f[n - 1]
    IN  f[Len(written)]

\* Between garbage, messages of other versions and sizes, and however the reads
\* fall, each valid message is delivered, once, in order, and as soon as its
\* last byte has arrived; and the next read, whatever its length, does not
\* overflow the buffer.
NothingLost ==
    a_pc = "read" /\ start = 0 /\ (\A i \in 1..Len(written) : InStep(written[i]))
        => /\ delivered = ArrivedMessages
           /\ Len(stream_buffer) + ReadMax <= BufferCap
=============================================================================
