------------------------------ MODULE ExtProc -------------------------------
(***************************************************************************)
(* One ext_proc stream (extproc/server.rs): Envoy writes processing        *)
(* requests, the spawned task answers them one by one through a bounded    *)
(* channel that the gRPC server drains, and either side may go away.  The  *)
(* answer to a request is process (extproc/processor.rs).                  *)
(*                                                                         *)
(* Envoy drops the stream by closing both directions: the receiver of the  *)
(* channel goes, and the inbound side ends or fails.                       *)
(***************************************************************************)
EXTENDS Integers, Sequences, SequencesExt

CONSTANTS
  Messages,     \* processing requests Envoy sends
  ChannelSize,  \* mpsc::channel(16)
  MaxMessages,  \* bound: requests of one stream
  NoMessage     \* no request in hand

ASSUME ExtProcAssumption == ChannelSize \in Nat \ {0} /\ MaxMessages \in Nat

VARIABLES
  task,      \* of the stream: "none", "reading", "sending", "failing", "done"
  inbound,   \* items on their way to the task
  writing,   \* Envoy may still write: "yes", "closed" or "failed"
  message,   \* the request in the task's hands
  channel,   \* answers the server has not taken yet
  receiver,  \* the receiving end exists
  answers,   \* history: answers Envoy received
  written    \* history: requests Envoy wrote

extProcVars ==
  <<task, inbound, writing, message, channel, receiver, answers, written>>

-----------------------------------------------------------------------------
(* process: a message has a kind and, for request headers, what its three  *)
(* control headers say ("none" if absent)                                  *)

Common(mutation) == [header_mutation |-> mutation]

\* value.parse::<u32>().unwrap_or(403)
ImmediateStatus(value) == IF value = "junk" THEN "403" ELSE value

\* split_once('=') finds nothing to set in a value without '='.
Mutation(value) == IF value = "no_equals" THEN "none" ELSE value

request_headers(m) ==
  IF m.immediate # "none"
  THEN [kind |-> "immediate", status |-> ImmediateStatus(m.immediate),
        body |-> IF m.body = "none" THEN "blocked by ext_proc" ELSE m.body]
  ELSE [kind |-> "request_headers", response |-> Common(Mutation(m.set))]

\* Mutant of process: the two body kinds are swapped.
process_swapped(m) ==
  CASE m.kind = "request_headers" -> request_headers(m)
    [] m.kind = "request_body" -> [kind |-> "response_body", response |-> Common("none")]
    [] m.kind = "response_body" -> [kind |-> "request_body", response |-> Common("none")]
    [] m.kind = "response_headers" -> [kind |-> m.kind, response |-> Common("none")]
    [] m.kind = "none" -> [kind |-> "none"]

process(m) ==
  CASE m.kind = "request_headers" -> request_headers(m)
    [] m.kind \in {"request_body", "response_body", "response_headers"} ->
         [kind |-> m.kind, response |-> Common("none")]
    [] m.kind = "none" -> [kind |-> "none"]

-----------------------------------------------------------------------------
ExtProcInit ==
  /\ task = "none" /\ inbound = <<>> /\ writing = "closed"
  /\ message = NoMessage /\ channel = <<>> /\ receiver = FALSE
  /\ answers = <<>> /\ written = <<>>

\* Envoy opens a stream: the handler spawns the task and returns the receiver.
OpenStream ==
  /\ task = "none"
  /\ task' = "reading" /\ writing' = "yes" /\ receiver' = TRUE
  /\ inbound' = <<>> /\ message' = NoMessage /\ channel' = <<>>
  /\ answers' = <<>> /\ written' = <<>>

EnvoyWrites(m) ==
  /\ writing = "yes" /\ Len(written) < MaxMessages
  /\ written' = Append(written, m)
  /\ inbound' = Append(inbound, m)
  /\ UNCHANGED <<task, writing, message, channel, receiver, answers>>

\* Envoy half-closes after its last request, or the connection breaks: what
\* is on its way arrives, followed by the end or by an error.
EnvoyStopsWriting(how) ==
  /\ writing = "yes"
  /\ writing' = how
  /\ UNCHANGED <<task, inbound, message, channel, receiver, answers, written>>

\* Envoy or the server drops the response stream.
DropReceiver ==
  /\ receiver
  /\ receiver' = FALSE /\ channel' = <<>>
  /\ UNCHANGED <<task, inbound, writing, message, answers, written>>

\* inbound.next() is Some(Ok(message)).
Receive ==
  /\ task = "reading" /\ inbound # <<>>
  /\ message' = Head(inbound) /\ inbound' = Tail(inbound)
  /\ task' = "sending"
  /\ UNCHANGED <<writing, channel, receiver, answers, written>>

\* Some(Err(status)), or None: the end of the stream ends the task.
ReceiveEnd ==
  /\ task = "reading" /\ inbound = <<>> /\ writing # "yes"
  /\ task' = IF writing = "failed" THEN "failing" ELSE "done"
  /\ UNCHANGED <<inbound, writing, message, channel, receiver, answers, written>>

\* Mutant of Send: a full channel loses the answer instead of waiting.
TrySend ==
  /\ task \in {"sending", "failing"} /\ receiver
  /\ channel' = IF Len(channel) = ChannelSize THEN channel
                ELSE Append(channel, IF task = "failing" THEN [kind |-> "error"]
                                     ELSE process(message))
  /\ task' = IF task = "failing" THEN "done" ELSE "reading"
  /\ message' = NoMessage
  /\ UNCHANGED <<inbound, writing, receiver, answers, written>>

\* tx.send(..).await has room.
Send ==
  /\ task \in {"sending", "failing"} /\ receiver /\ Len(channel) < ChannelSize
  /\ channel' = Append(channel, IF task = "failing" THEN [kind |-> "error"]
                                ELSE process(message))
  /\ task' = IF task = "failing" THEN "done" ELSE "reading"
  /\ message' = NoMessage
  /\ UNCHANGED <<inbound, writing, receiver, answers, written>>

\* Mutant of SendFails: the failed send is ignored and the loop goes on.
SendFailureIgnored ==
  /\ task \in {"sending", "failing"} /\ ~receiver
  /\ task' = "reading" /\ message' = NoMessage
  /\ UNCHANGED <<inbound, writing, channel, receiver, answers, written>>

\* The receiver is gone: break.
SendFails ==
  /\ task \in {"sending", "failing"} /\ ~receiver
  /\ task' = "done" /\ message' = NoMessage
  /\ UNCHANGED <<inbound, writing, channel, receiver, answers, written>>

\* The server takes an answer from the channel and Envoy reads it.
Deliver ==
  /\ channel # <<>>
  /\ answers' = Append(answers, Head(channel)) /\ channel' = Tail(channel)
  /\ UNCHANGED <<task, inbound, writing, message, receiver, written>>

\* The task has ended and its answers are taken: the response stream ends.
CloseStream ==
  /\ task = "done" /\ channel = <<>>
  /\ task' = "none" /\ receiver' = FALSE /\ writing' = "closed"
  /\ inbound' = <<>> /\ answers' = <<>> /\ written' = <<>>
  /\ UNCHANGED <<message, channel>>

TaskStep == Receive \/ ReceiveEnd \/ Send \/ SendFails

-----------------------------------------------------------------------------
(* Properties                                                              *)

\* Whether an answer is one Envoy may be given for a request: of the same
\* kind, or an immediate response to request headers that ask for one.
AnswerFits(m, answer) ==
  \/ answer.kind = m.kind
  \/ answer.kind = "immediate" /\ m.kind = "request_headers" /\ m.immediate # "none"

\* Envoy is answered in the order it asked, one answer of the right kind per
\* request and none twice; an error is the last thing it receives, and only
\* after every request it wrote was answered (the loop of process).
AnswersInOrder ==
  \A i \in DOMAIN answers :
    \/ i <= Len(written) /\ AnswerFits(written[i], answers[i])
    \/ answers[i].kind = "error" /\ i = Len(answers) /\ i = Len(written) + 1

\* Nothing disappears between the two ends: as long as the receiver exists,
\* what Envoy wrote is answered, in the channel, in the task's hands or on its
\* way, each request in exactly one of these places (the send that waits).
NothingLost ==
  receiver =>
    LET replied == Len(SelectSeq(answers \o channel, LAMBDA a : a.kind # "error"))
        held == IF task = "sending" THEN 1 ELSE 0
    IN replied + held + Len(inbound) = Len(written)

\* A stream that Envoy has finished with does not stay: its task ends, whether
\* Envoy closed its side, the connection broke, or nobody reads the answers any
\* more while another request comes (the breaks of the loop).
StreamsEnd ==
  /\ task # "none" /\ writing # "yes" ~> task = "none"
  /\ task = "sending" ~> task # "sending"
=============================================================================
