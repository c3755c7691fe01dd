-------------------------------- MODULE RtcPipe --------------------------------
(***************************************************************************)
(* The bytes of one file, or of one JSON text, on their way from app to    *)
(* app over a data channel: RTCFileSender, process_in_chunks, the channel, *)
(* to_receive_stream, the receiving task, buffer_receiver, the app's sink. *)
(*                                                                         *)
(* Every stage is a task of its own with a bounded queue before it, cuts   *)
(* the bytes anew and forwards them; the end travels as a closed queue,    *)
(* over the data channel as a string.  A byte is its place in the file.    *)
(***************************************************************************)
EXTENDS Integers, SequencesExt

CONSTANTS
    Length,         \* bytes of the file or the text
    Blocks,         \* sizes of what the sending app passes to send()
    CHUNK_SIZE,     \* 16 KiB in the code
    BUFFER_SIZE,    \* 1 MiB in the code
    InboxCapacity,  \* to_receive_stream(.., 16)
    FileCapacity    \* mpsc::channel::<Bytes>(4)

ASSUME SizesAssumption ==
    /\ Length \in Nat
    /\ Blocks \subseteq Nat \ {0}
    /\ {CHUNK_SIZE, BUFFER_SIZE, InboxCapacity, FileCapacity} \subseteq Nat \ {0}

VARIABLES
    mode,       \* "file", or "text": receive_string_from_chunks reads it
    pushed,     \* bytes the sending app has passed on
    open,       \* it holds its end of the queue
    input,      \* binary_tx .. rx, capacity 1
    buffer,     \* of process_in_chunks
    writer,     \* the sending task: "run", "ended", "failed"
    net,        \* on the way
    inbox,      \* receive_rx
    reader,     \* the receiving task: "run", "ended", "failed"
    file,       \* file_state.binary_tx .. binary_rx
    dropped,    \* the app has dropped binary_rx
    merged,     \* the buffer of buffer_receiver, or of the text
    merger,     \* buffer_receiver's task
    out,        \* its queue, capacity 1
    got,        \* what the receiving app has
    ended,      \* and that it has been told the end
    link

senderVars == <<pushed, open, input, buffer, writer>>
receiverVars == <<reader, file, dropped, merged, merger, out, got, ended>>
vars == <<mode, senderVars, net, inbox, receiverVars, link>>

End == <<>>     \* the string after the last chunk: a delimiter or a header

Bytes(from, to) == [i \in 1..(to - from) |-> from + i]
Upto(n) == Bytes(0, n)

Init ==
    /\ mode \in {"file", "text"}
    /\ pushed = 0 /\ open = TRUE /\ input = <<>> /\ buffer = <<>> /\ writer = "run"
    /\ net = <<>> /\ inbox = <<>> /\ link = "up"
    /\ reader = "run" /\ file = <<>> /\ dropped = FALSE
    /\ merged = <<>> /\ merger = "run" /\ out = <<>> /\ got = <<>> /\ ended = FALSE

-----------------------------------------------------------------------------
(* The sending side.                                                       *)

\* RTCFileSender::send; a text is one block, whose sender goes away with it.
Push ==
    /\ open /\ Len(input) < 1
    /\ \E n \in IF mode = "text" THEN {Length} ELSE Blocks :
          /\ pushed + n <= Length
          /\ input' = Append(input, Bytes(pushed, pushed + n))
          /\ pushed' = pushed + n
    /\ open' = (mode = "file")
    /\ UNCHANGED <<mode, buffer, writer, net, inbox, receiverVars, link>>

\* The app drops its RTCFileSender, whatever it has sent.
CloseInput ==
    /\ open /\ mode = "file"
    /\ open' = FALSE
    /\ UNCHANGED <<mode, pushed, input, buffer, writer, net, inbox, receiverVars, link>>

\* data_channel.send: on a dead connection it fails, or the data is lost.
Send(items, state) ==
    \/ link = "up" /\ net' = net \o items /\ writer' = state
    \/ link = "down" /\ writer' \in {state, "failed"} /\ UNCHANGED net

FullChunks(bytes) == Len(bytes) \div CHUNK_SIZE

\* process_in_chunks: full chunks leave the buffer, the rest waits for more.
Forward ==
    LET all == buffer \o Head(input)
        n == FullChunks(all)
    IN  /\ writer = "run" /\ input # <<>>
        /\ input' = Tail(input)
        /\ Send([i \in 1..n |-> SubSeq(all, (i - 1) * CHUNK_SIZE + 1, i * CHUNK_SIZE)],
                "run")
        /\ buffer' = SubSeq(all, n * CHUNK_SIZE + 1, Len(all))
        /\ UNCHANGED <<mode, pushed, open, inbox, receiverVars, link>>

\* Mutant: what is left in the buffer is not sent.
NoLeftover(bytes) == <<End>>
Leftover(bytes) == IF bytes = <<>> THEN <<End>> ELSE <<bytes, End>>

ForwardLast ==
    /\ writer = "run" /\ input = <<>> /\ ~open
    /\ Send(Leftover(buffer), "ended")
    /\ buffer' = <<>>
    /\ UNCHANGED <<mode, pushed, open, input, inbox, receiverVars, link>>

-----------------------------------------------------------------------------
(* The channel: on_message waits until its queue has room.                 *)

Deliver ==
    /\ link = "up" /\ net # <<>> /\ Len(inbox) < InboxCapacity
    /\ inbox' = Append(inbox, Head(net))
    /\ net' = Tail(net)
    /\ UNCHANGED <<mode, senderVars, receiverVars, link>>

LinkLost ==
    /\ link = "up"
    /\ link' = "down" /\ net' = <<>>
    /\ UNCHANGED <<mode, senderVars, inbox, receiverVars>>

-----------------------------------------------------------------------------
(* The receiving side.                                                     *)

\* binary_tx.send waits for room; without a receiver it fails the task.
ReadChunk ==
    /\ mode = "file" /\ reader = "run"
    /\ inbox # <<>> /\ Head(inbox) # End
    /\ inbox' = Tail(inbox)
    /\ \/ dropped /\ reader' = "failed" /\ UNCHANGED file
       \/ ~dropped /\ Len(file) < FileCapacity
          /\ file' = Append(file, Head(inbox)) /\ UNCHANGED reader
    /\ UNCHANGED <<mode, senderVars, net, dropped, merged, merger, out, got, ended, link>>

\* Mutant: file_state keeps the queue open.
FileStateKept == "run"
FileStateNone == "ended"

\* A string: file_state is set to None, which closes the queue.
ReadEnd ==
    /\ mode = "file" /\ reader = "run"
    /\ inbox # <<>> /\ Head(inbox) = End
    /\ inbox' = Tail(inbox)
    /\ reader' = FileStateNone
    /\ UNCHANGED <<mode, senderVars, net, file, dropped, merged, merger, out, got, ended,
                   link>>

\* receive_string_from_chunks
ReadText ==
    /\ mode = "text" /\ reader = "run" /\ inbox # <<>>
    /\ inbox' = Tail(inbox)
    /\ \/ /\ Head(inbox) # End
          /\ merged' = merged \o Head(inbox)
          /\ UNCHANGED <<reader, got, ended>>
       \/ /\ Head(inbox) = End
          /\ got' = merged /\ ended' = TRUE /\ reader' = "ended"
          /\ UNCHANGED merged
    /\ UNCHANGED <<mode, senderVars, net, file, dropped, merger, out, link>>

\* Mutant: the buffer is emptied before it is copied.
ClearFirst(bytes) == <<>>
Copied(bytes) == <<bytes>>

\* buffer_receiver: takes what comes until it has BUFFER_SIZE, ...
Merge ==
    /\ mode = "file" /\ merger = "run" /\ ~dropped
    /\ file # <<>> /\ Len(merged) < BUFFER_SIZE
    /\ merged' = merged \o Head(file)
    /\ file' = Tail(file)
    /\ UNCHANGED <<mode, senderVars, net, inbox, reader, dropped, merger, out, got, ended,
                   link>>

\* ... passes that on, and at the end what is left.
PassOn ==
    /\ mode = "file" /\ merger = "run" /\ ~dropped /\ Len(out) < 1
    /\ \/ Len(merged) >= BUFFER_SIZE /\ UNCHANGED merger
       \/ /\ Len(merged) < BUFFER_SIZE /\ file = <<>> /\ reader # "run"
          /\ merger' = "ended"
    /\ out' = IF merged = <<>> THEN out ELSE out \o Copied(merged)
    /\ merged' = <<>>
    /\ UNCHANGED <<mode, senderVars, net, inbox, reader, file, dropped, got, ended, link>>

\* RTCFileReceiver::receive and the app behind its sink.
Receive ==
    /\ \/ /\ out # <<>>
          /\ got' = got \o Head(out) /\ out' = Tail(out)
          /\ UNCHANGED ended
       \/ /\ mode = "file" /\ ~ended /\ out = <<>> /\ merger = "ended"
          /\ ended' = TRUE
          /\ UNCHANGED <<got, out>>
    /\ UNCHANGED <<mode, senderVars, net, inbox, reader, file, dropped, merged, merger, link>>

\* The app drops the stream instead of receiving it.
Drop ==
    /\ mode = "file" /\ ~dropped /\ merged = <<>> /\ out = <<>> /\ got = <<>> /\ ~ended
    /\ dropped' = TRUE
    /\ file' = <<>>
    /\ UNCHANGED <<mode, senderVars, net, inbox, reader, merged, merger, out, got, ended, link>>

-----------------------------------------------------------------------------

Tasks == Forward \/ ForwardLast \/ Deliver \/ ReadChunk \/ ReadEnd \/ ReadText
         \/ Merge \/ PassOn \/ Receive
Next == Push \/ CloseInput \/ Tasks \/ LinkLost \/ Drop

Spec == Init /\ [][Next]_vars

\* Every task runs; an app that receives a stream reads it.
FairSpec == Spec /\ WF_vars(Forward) /\ WF_vars(ForwardLast) /\ WF_vars(Deliver)
                 /\ WF_vars(ReadChunk) /\ WF_vars(ReadEnd) /\ WF_vars(ReadText)
                 /\ WF_vars(Merge) /\ WF_vars(PassOn) /\ WF_vars(Receive)

-----------------------------------------------------------------------------
(* Correctness.                                                            *)

\* What has reached the receiving side.
Arrived == got \o FlattenSeq(out) \o merged \o FlattenSeq(file) \o FlattenSeq(inbox)

\* Six tasks cut the bytes three times over: none is lost, doubled or moved
\* while the connection lives and the app takes them.
NothingLost ==
    (link = "up" /\ ~dropped /\ ~(mode = "text" /\ ended)) =>
        Arrived \o FlattenSeq(net) \o buffer \o FlattenSeq(input) = Upto(pushed)

\* An app that is told the end of a file or a text has all that was sent of it,
\* also when the connection is lost halfway: the loss is no end of file.
EndedMeansAll == ended => ~open /\ got = Upto(pushed)

-----------------------------------------------------------------------------
(* Why they hold.                                                          *)

\* The type invariant.
Byte == 1..Length
TypeOK ==
    /\ mode \in {"file", "text"} /\ link \in {"up", "down"} /\ pushed \in 0..Length
    /\ open \in BOOLEAN /\ dropped \in BOOLEAN /\ ended \in BOOLEAN
    /\ writer \in {"run", "ended", "failed"} /\ reader \in {"run", "ended", "failed"}
    /\ merger \in {"run", "ended"}
    /\ buffer \in Seq(Byte) /\ merged \in Seq(Byte) /\ got \in Seq(Byte)
    /\ input \in Seq(Seq(Byte)) /\ net \in Seq(Seq(Byte)) /\ inbox \in Seq(Seq(Byte))
    /\ file \in Seq(Seq(Byte)) /\ out \in Seq(Seq(Byte))

\* The end is the last thing on its way, after the last byte.
Final(q) == \A i \in 1..Len(q) : q[i] = End => i = Len(q)
EndInv ==
    /\ writer = "ended" => ~open /\ input = <<>> /\ buffer = <<>>
    /\ link = "down" => net = <<>>
    /\ Final(net) /\ (End \in Range(net) => writer = "ended")
    /\ Final(inbox) /\ (End \in Range(inbox) => writer = "ended" /\ net = <<>>)
    /\ reader = "ended" => writer = "ended" /\ inbox = <<>> /\ net = <<>>

\* A text takes no file's way, and a file's stream ends with its queue.
ModeInv ==
    /\ mode = "text" => /\ file = <<>> /\ out = <<>> /\ ~dropped /\ merger = "run"
                        /\ IF ended THEN reader = "ended" ELSE got = <<>>
    /\ mode = "file" /\ ended => merger = "ended" /\ out = <<>>
    /\ merger = "ended" => reader = "ended" /\ merged = <<>> /\ file = <<>>
    /\ reader = "failed" => dropped

\* Once the end has arrived, so has everything before it: a connection that is lost
\* from then on takes nothing with it.
EndArrived == End \in Range(inbox) \/ reader = "ended"
AllInv ==
    /\ EndArrived /\ ~dropped /\ ~(mode = "text" /\ ended) => Arrived = Upto(pushed)
    /\ merger = "ended" => got \o FlattenSeq(out) = Upto(pushed)
    /\ mode = "text" /\ ended => got = Upto(pushed)

\* The inductive invariant.
IndInv == TypeOK /\ EndInv /\ ModeInv /\ NothingLost /\ AllInv

-----------------------------------------------------------------------------

\* Full queues hold every task up in turn and none for good: what the sending app
\* has finished arrives, if the connection lives and the app takes it.
AllArrives == ~open ~> (ended \/ link = "down" \/ dropped)
=============================================================================
