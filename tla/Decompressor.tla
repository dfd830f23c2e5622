----------------------------- MODULE Decompressor -----------------------------
(* res::ZstdDecompressor: a file is read block by block into two buffers in turn,
   while the decompressor's thread takes the block read before (LoadDecompressFile,
   DecompressorThread::ThreadMain, StreamDecompressZstd).  A byte of a file is its
   position; a frame is the sizes of what Zstandard asks for, and decompresses to
   its own bytes. *)
EXTENDS Integers, Sequences, SequencesExt

CONSTANTS Files,         \* records [size, frame]
          cReadSize, None,
          MaxLoads       \* bound: the files loaded

VARIABLES m_stream_count, m_is_error, m_current_stream_context,
          m_decompress_finish_event, m_stream_finish_event,
          buffer,        \* the two halves of the stream memory
          messages, worker, loader

vars == <<m_stream_count, m_is_error, m_current_stream_context, m_decompress_finish_event,
          m_stream_finish_event, buffer, messages, worker, loader>>
thread_vars == <<m_stream_count, m_is_error, m_decompress_finish_event, worker>>

Least(a, b) == IF a < b THEN a ELSE b
Bytes(first, n) == [i \in 1 .. n |-> first + i]
FrameSize(frame) == FoldLeft(LAMBDA a, b : a + b, 0, frame)
NoFile == [size |-> 0, frame |-> <<>>]

\* m_stream_count is not initialised; only its last bit matters.
Init == /\ m_stream_count \in 0 .. 1
        /\ m_is_error = FALSE /\ m_current_stream_context = None
        /\ m_decompress_finish_event = TRUE /\ m_stream_finish_event = FALSE
        /\ buffer = [i \in 0 .. 1 |-> [b \in 1 .. cReadSize |-> 0]] /\ messages = <<>> /\ worker = [pc |-> "wait", size |-> 0]
        /\ loader = [pc |-> "idle", file |-> NoFile, offset |-> 0, size_read |-> 0, select |-> 1,
                     failed |-> FALSE, output |-> <<>>,
                     even |-> TRUE, loads |-> 0]  \* the count at its start; how many
-----------------------------------------------------------------------------
\* ReadFile into one of the halves: what is left of the file, at most a block;
\* nothing can be read at its end, and the device may fail.
Read(half) ==
    LET n == Least(cReadSize, loader.file.size - loader.offset)
    IN \/ /\ n > 0
          /\ buffer' = [buffer EXCEPT ![half] = Bytes(loader.offset, n) \o SubSeq(@, n + 1, cReadSize)]
          /\ loader' = [loader EXCEPT !.offset = @ + n, !.size_read = n, !.pc = "read"]
       \/ /\ UNCHANGED buffer
          /\ loader' = [loader EXCEPT !.failed = TRUE, !.size_read = 0, !.pc = "read"]

\* LoadDecompressFile, up to the first block.
Load ==
    \E f \in Files :
        /\ loader.pc = "idle" /\ loader.loads < MaxLoads
        /\ loader' = [loader EXCEPT !.pc = "first", !.file = f, !.offset = 0, !.failed = FALSE, !.select = 1,
                                    !.output = <<>>, !.loads = @ + 1]
        /\ UNCHANGED <<thread_vars, m_current_stream_context, m_stream_finish_event, buffer, messages>>

\* The first block, from which the frame's sizes are taken; the device, the frame
\* or the buffer may fail the load.
FirstRead ==
    LET n == Least(cReadSize, loader.file.size)
    IN /\ loader.pc = "first"
       /\ \/ /\ buffer' = [buffer EXCEPT ![0] = Bytes(0, n) \o SubSeq(@, n + 1, cReadSize)]
             /\ loader' = [loader EXCEPT !.offset = n, !.size_read = n,
                                         !.pc = IF n < cReadSize THEN "single" ELSE "previous"]
          \/ loader' = [loader EXCEPT !.failed = TRUE, !.pc = "idle"] /\ UNCHANGED buffer
       /\ UNCHANGED <<thread_vars, m_current_stream_context, m_stream_finish_event, messages>>

\* A file smaller than a block is decompressed by its loader.
SingleLoad ==
    /\ loader.pc = "single"
    /\ loader' = [loader EXCEPT !.pc = "idle",
                                !.output = SubSeq(buffer[0], 1, FrameSize(loader.file.frame))]
    /\ UNCHANGED <<thread_vars, m_current_stream_context, m_stream_finish_event, buffer, messages>>

\* The end of the file before it.
WaitForPrevious ==
    /\ loader.pc = "previous" /\ m_decompress_finish_event
    /\ m_decompress_finish_event' = FALSE
    /\ m_current_stream_context' = [state |-> "Begin", frame |-> loader.file.frame, output |-> <<>>, leftover |-> <<>>]
    /\ loader' = [loader EXCEPT !.pc = "send", !.size_read = cReadSize, !.even = (m_stream_count % 2 = 0)]
    /\ UNCHANGED <<m_stream_count, m_is_error, worker, m_stream_finish_event, buffer, messages>>

Send(from, to) ==
    /\ loader.pc = from
    /\ m_stream_finish_event' = FALSE
    /\ messages' = Append(messages, loader.size_read)
    /\ loader' = [loader EXCEPT !.pc = to]
    /\ UNCHANGED <<thread_vars, m_current_stream_context, buffer>>

SendBlock == Send("send", "next")

NextHalf_Same(half) == half
NextHalf(half) == 1 - half

ReadNext ==
    /\ loader.pc = "next"
    /\ Read(loader.select)
    /\ UNCHANGED <<thread_vars, m_current_stream_context, m_stream_finish_event, messages>>

Return(failed) ==
    /\ m_current_stream_context' = None
    /\ loader' = [loader EXCEPT !.pc = "idle", !.failed = failed, !.output = m_current_stream_context.output]

\* The block before was decompressed: the next one is sent, or the last.
WaitForBlock ==
    /\ loader.pc = "read" /\ m_stream_finish_event
    /\ IF loader.failed \/ m_is_error THEN Return(TRUE)
       ELSE IF loader.offset >= loader.file.size /\ m_current_stream_context.frame = <<>> THEN Return(FALSE)
       ELSE /\ loader' = [loader EXCEPT !.select = NextHalf(@),
                                        !.pc = IF loader.offset < loader.file.size THEN "send" ELSE "final"]
            /\ UNCHANGED m_current_stream_context
    /\ UNCHANGED <<thread_vars, m_stream_finish_event, buffer, messages>>

SendFinal == Send("final", "last")

WaitForFinal ==
    /\ loader.pc = "last" /\ m_stream_finish_event
    /\ Return(m_is_error)
    /\ UNCHANGED <<thread_vars, m_stream_finish_event, buffer, messages>>
-----------------------------------------------------------------------------
\* StreamDecompressZstd: what Zstandard asks for is taken from the stream, after
\* the leftovers of the blocks before, for which there is enough room; other bytes
\* than the frame's next ones are an error.  It is finished only when it asks for
\* nothing while there is still some stream.
StreamDecompressPiece(stream, x) ==
    LET next_size == Head(x.frame)
        n == Least(next_size - Len(x.leftover), Len(stream))
        taken == x.leftover \o SubSeq(stream, 1, n)
        Ends(y) == [stream |-> <<>>, x |-> y]
    IN IF stream = <<>> THEN Ends(x)
       ELSE IF x.frame = <<>> THEN Ends([x EXCEPT !.state = "Finished"])
       ELSE IF Len(taken) < next_size THEN Ends([x EXCEPT !.state = "Streaming", !.leftover = taken])
       ELSE IF taken # Bytes(Len(x.output), next_size) THEN Ends([x EXCEPT !.state = "Error"])
       ELSE [stream |-> SubSeq(stream, n + 1, Len(stream)),
             x |-> [state |-> "Streaming", frame |-> Tail(x.frame), leftover |-> <<>>,
                    output |-> x.output \o taken]]
StreamDecompressZstd(stream, x) ==
    LET after[k \in 0 .. Len(x.frame) + 1] ==   \* after k turns of the loop
            IF k = 0 THEN [stream |-> stream, x |-> x]
            ELSE StreamDecompressPiece(after[k - 1].stream, after[k - 1].x)
    IN after[Len(x.frame) + 1].x

Receive ==
    /\ worker.pc = "wait" /\ messages # <<>>
    /\ worker' = [pc |-> "decompress", size |-> Head(messages)]
    /\ messages' = Tail(messages)
    /\ UNCHANGED <<m_stream_count, m_is_error, m_current_stream_context, m_decompress_finish_event,
                   m_stream_finish_event, buffer, loader>>

\* ThreadMain, of a context that is there.
Decompress ==
    LET x == StreamDecompressZstd(SubSeq(buffer[m_stream_count % 2], 1, worker.size), m_current_stream_context)
    IN /\ worker.pc = "decompress" /\ m_current_stream_context # None
       /\ m_current_stream_context' = x
       /\ m_stream_count' = (m_stream_count + 1) % 2
       /\ m_is_error' = (x.state = "Error")
       /\ m_decompress_finish_event' = (m_decompress_finish_event \/ x.state \in {"Finished", "Error"})
       /\ worker' = [worker EXCEPT !.pc = "signal"]
       /\ UNCHANGED <<m_stream_finish_event, buffer, messages, loader>>

SignalStreamFinish ==
    /\ worker.pc = "signal"
    /\ m_stream_finish_event' = TRUE
    /\ worker' = [worker EXCEPT !.pc = "wait"]
    /\ UNCHANGED <<m_stream_count, m_is_error, m_current_stream_context, m_decompress_finish_event,
                   buffer, messages, loader>>

Worker == Receive \/ Decompress \/ SignalStreamFinish
Loader == FirstRead \/ SingleLoad \/ WaitForPrevious \/ SendBlock \/ ReadNext \/ WaitForBlock
          \/ SendFinal \/ WaitForFinal
Next == Load \/ Loader \/ Worker
Spec == Init /\ [][Next]_vars /\ WF_vars(Loader) /\ WF_vars(Worker)
-----------------------------------------------------------------------------
Truncated(file) == file.size < FrameSize(file.frame)

\* Whatever the loader and the thread overlap, the bytes are decompressed in
\* their order, and all of them when the load of a whole file succeeds: a load that begins at an
\* even count of streams never decompresses a half that is being read into.
OutputIsFile ==
    loader.even =>
      /\ m_current_stream_context # None => m_current_stream_context.state # "Error"
      /\ loader.pc = "idle" /\ ~loader.failed => IsPrefix(loader.output, Bytes(0, FrameSize(loader.file.frame)))
      /\ loader.pc = "idle" /\ ~loader.failed /\ ~Truncated(loader.file) =>
            Len(loader.output) = FrameSize(loader.file.frame)

\* The thread has a context whenever it works, and the loader does not return,
\* which ends the context, before the thread rests.
ThreadHasContext ==
    /\ worker.pc = "decompress" => m_current_stream_context # None
    /\ loader.pc = "idle" => worker.pc = "wait" /\ messages = <<>>
=============================================================================
