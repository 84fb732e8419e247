---------------------------- MODULE DiscordOutput ----------------------------
(***************************************************************************)
(* The output module: messages go to Discord directly, or through a queue  *)
(* that one worker empties.  A message is cut into chunks the service      *)
(* takes, and a lock keeps the chunks of one message together.             *)
(*                                                                         *)
(* A message is [by, no, to, text]: the command that made it and its       *)
(* number there, where it goes and its text, a sequence of characters.     *)
(***************************************************************************)
EXTENDS ModuleStartup, SequencesExt

CONSTANTS
  Commands,     \* the commands the users give; each is handled by a task
  Texts,        \* the texts the model may produce
  Limit,        \* the longest chunk the module makes
  DiscordLimit, \* the longest message Discord takes
  MaxFaults     \* startups and requests that fail

VARIABLES
  queue,      \* the messages that wait for the worker
  unfinished, \* the messages a drain of the queue waits for
  sending,    \* what the worker and each command are sending: message and chunks left
  lock,       \* who may send chunks now, or "free"
  sent,       \* the chunks Discord has taken, each with its message
  delivered,  \* the messages of which every chunk was taken
  dropped,    \* the messages that could not be sent to the end
  faults      \* requests that have failed

outputVars == <<queue, unfinished, sending, lock, sent, delivered, dropped, faults>>

Worker == "worker"

ASSUME OutputAssumption ==
  /\ Commands \cap {Worker, "free"} = {} /\ MaxFaults \in Nat
  /\ Limit \in Nat \ {0}

Senders == Commands \union {Worker}
Chars == {"x", "y", "-", " ", "\n"}
Ack == <<"x">>
Nothing == [msg |-> <<>>, rest |-> <<>>]

-----------------------------------------------------------------------------
(* Cutting a text into chunks.                                             *)

\* The characters of a text that are in T.
Only(text, T) == FlattenSeq([i \in DOMAIN text |-> IF text[i] \in T THEN <<text[i]>> ELSE <<>>])

\* The text without white space; what remains of it is what a reader misses
\* when it is lost.
Readable(text) == Only(text, Chars \ {" ", "\n"})

\* A chunk of nothing but white space or a separator line is not sent.
Rule == <<"-", "-", "-">>
IsRule(chunk) ==
  Readable(chunk) = Rule /\ \E i \in 1 .. Len(chunk) - 2 : SubSeq(chunk, i, i + 2) = Rule
Worth(chunk) == Readable(chunk) # <<>> /\ ~IsRule(chunk)

Join(buffer, part) == IF buffer = <<>> THEN part ELSE buffer \o <<"\n">> \o part
Kept(chunks, chunk) == IF Worth(chunk) THEN Append(chunks, chunk) ELSE chunks

\* Where a line that is too long is cut: at its last blank, if any.
CutAt(line) ==
  LET Blanks == {i \in 1 .. Limit - 1 : line[i + 1] = " "}
  IN  IF Blanks = {} THEN Limit ELSE CHOOSE i \in Blanks : \A j \in Blanks : i >= j

\* The loop over the lines has chunks, a buffer and what is read of a line.  A
\* part cut off a line that is too long ends a chunk.
CutOff(acc) ==
  [chunks |-> Kept(acc.chunks, Join(acc.buffer, SubSeq(acc.line, 1, CutAt(acc.line)))),
   buffer |-> <<>>,
   line |-> SubSeq(acc.line, CutAt(acc.line) + 1, Len(acc.line))]

\* Parts are cut off until the rest of the line is short enough.
_wrap_line(acc) ==
  LET upTo[i \in 0 .. Len(acc.line)] ==
        IF i = 0 THEN acc
        ELSE IF Len(upTo[i - 1].line) > Limit THEN CutOff(upTo[i - 1]) ELSE upTo[i - 1]
  IN  upTo[Len(acc.line)]

\* One line: its last part joins the buffer if it fits.
AddLine(acc) ==
  LET cut == _wrap_line(acc)
      joined == Join(cut.buffer, cut.line)
  IN  IF Readable(acc.line) = <<>> /\ Readable(acc.buffer) = <<>>
      THEN [acc EXCEPT !.line = <<>>]
      ELSE IF Len(joined) <= Limit
      THEN [chunks |-> cut.chunks, buffer |-> joined, line |-> <<>>]
      ELSE [chunks |-> Kept(cut.chunks, cut.buffer), buffer |-> cut.line, line |-> <<>>]

\* The text is read character by character.
Lines(text) ==
  LET upTo[i \in 0 .. Len(text)] ==
        IF i = 0 THEN [chunks |-> <<>>, buffer |-> <<>>, line |-> <<>>]
        ELSE IF text[i] = "\n" THEN AddLine(upTo[i - 1])
        ELSE [upTo[i - 1] EXCEPT !.line = Append(@, text[i])]
  IN  upTo[Len(text)]

_yield_chunks(text) ==
  LET end == AddLine(Lines(text))
  IN  Kept(end.chunks, end.buffer)

\* The chunks of every text that is sent.
Chunks == [text \in Texts \cup {<<>>, Ack} |-> _yield_chunks(text)]

-----------------------------------------------------------------------------

\* The output module of app.state or of the bot: there until it shuts down.
OutputThere == "discord_output" \in loaded \ down /\ phase # "stopped"

\* The output module holds the bot from the beginning of its startup to its
\* shutdown.
BotUsable == OutputThere /\ at["discord_output"] > 0 /\ connected

NoFault == faults' = faults
Fault == startFaults + faults < MaxFaults /\ faults' = faults + 1

OutputInit ==
  /\ queue = <<>> /\ unfinished = 0
  /\ sending = [s \in Senders |-> Nothing]
  /\ lock = "free"
  /\ sent = <<>> /\ delivered = {} /\ dropped = {}
  /\ faults = 0

\* A message is queued, or its sender finds no output module.
Queued(msgs) ==
  /\ queue' = IF OutputThere THEN queue \o msgs ELSE queue
  /\ unfinished' = IF OutputThere THEN unfinished + Len(msgs) ELSE unfinished

\* A mutant: task_done is only called for messages that were sent.
FinishSent(s) ==
  /\ sending' = [sending EXCEPT ![s] = Nothing]
  /\ lock' = IF lock = s THEN "free" ELSE lock
  /\ unfinished' = IF s = Worker /\ sending[s].rest = <<>> THEN unfinished - 1 ELSE unfinished

\* A message is over, for the sender and for the queue.
Finish(s) ==
  /\ sending' = [sending EXCEPT ![s] = Nothing]
  /\ lock' = IF lock = s THEN "free" ELSE lock
  /\ unfinished' = IF s = Worker THEN unfinished - 1 ELSE unfinished

\* The sender takes a message up: it looks for the channel or the user and cuts
\* the text, or the message is dropped because there is no bot or it is not
\* found.
TakeUp(s, msg, done) ==
  \/ /\ BotUsable /\ NoFault
     /\ sending' = [sending EXCEPT ![s] = [msg |-> msg, rest |-> Chunks[msg.text]]]
     /\ UNCHANGED <<unfinished, dropped>>
  \/ /\ IF BotUsable THEN Fault ELSE NoFault
     /\ dropped' = dropped \union {msg}
     /\ unfinished' = unfinished - done
     /\ UNCHANGED sending

\* The worker takes the next message of the queue.
WorkerGet ==
  /\ "discord_output" \in ready \ down
  /\ sending[Worker] = Nothing /\ queue # <<>>
  /\ TakeUp(Worker, Head(queue), 1)
  /\ queue' = Tail(queue)
  /\ UNCHANGED <<lock, sent, delivered>>

\* A mutant: the chunks are sent without the lock.
MaySendAnytime(s) == sending[s] # Nothing

\* A sender with chunks waits for the lock.
MaySend(s) == sending[s] # Nothing /\ lock \in {"free", s}

\* One chunk is sent; the sender keeps the lock while it waits between chunks.
SendChunk(s) ==
  /\ MaySend(s) /\ sending[s].rest # <<>> /\ connected
  /\ Len(Head(sending[s].rest)) <= DiscordLimit
  /\ lock' = s
  /\ sent' = Append(sent, [msg |-> sending[s].msg, chunk |-> Head(sending[s].rest)])
  /\ sending' = [sending EXCEPT ![s].rest = Tail(@)]
  /\ UNCHANGED <<queue, unfinished, delivered, dropped, faults>>

\* Discord refuses a chunk, because it is too long or for a reason of its own,
\* or the bot is closed: the rest is dropped.
SendFails(s) ==
  /\ MaySend(s) /\ sending[s].rest # <<>>
  /\ IF connected /\ Len(Head(sending[s].rest)) <= DiscordLimit THEN Fault ELSE NoFault
  /\ dropped' = dropped \union {sending[s].msg}
  /\ Finish(s)
  /\ UNCHANGED <<queue, sent, delivered>>

\* All chunks are sent and the statistics updated.
SendDone(s) ==
  /\ MaySend(s) /\ sending[s].rest = <<>>
  /\ delivered' = delivered \union {sending[s].msg}
  /\ Finish(s)
  /\ UNCHANGED <<queue, sent, dropped, faults>>

SendStep(s) == SendChunk(s) \/ SendFails(s) \/ SendDone(s)

\* The shutdown cancels the worker: what it was sending is dropped, what is
\* queued stays there.
CancelWorker ==
  /\ dropped' = IF sending[Worker] = Nothing THEN dropped ELSE dropped \union {sending[Worker].msg}
  /\ IF sending[Worker] = Nothing THEN UNCHANGED <<sending, lock, unfinished>> ELSE Finish(Worker)
  /\ UNCHANGED <<queue, sent, delivered, faults>>

OutputTypeOK ==
  /\ unfinished \in Nat
  /\ lock \in Senders \union {"free"}
  /\ lock # "free" => sending[lock] # Nothing
  /\ faults \in 0 .. MaxFaults

-----------------------------------------------------------------------------

\* What was sent of a message, and what there is to say in a text besides separator
\* lines, which the cutting may drop.
TextSent(m) == FlattenSeq([i \in DOMAIN sent |-> IF sent[i].msg = m THEN sent[i].chunk ELSE <<>>])
Plain(text) == Only(Readable(text), Chars \ {"-"})

\* Between two chunks of a message no chunk of another one is sent.
ChunksStayTogether ==
  \A i, j, k \in DOMAIN sent :
    i < j /\ j < k /\ sent[i].msg = sent[k].msg => sent[j].msg = sent[i].msg

\* What a message that was sent to the end says is what its text says, in order and
\* once.
TextsArriveWhole == \A m \in delivered : Plain(TextSent(m)) = Plain(m.text)

\* Messages arrive in one piece and whole, whatever is sent directly while the worker
\* is at it (discord_output_module.py _deliver_in_chunks, _yield_chunks).
MessagesArriveWhole == ChunksStayTogether /\ TextsArriveWhole

\* A drain of the queue waits for exactly the messages that are not over: those
\* queued and the one the worker has, whether sending fails, succeeds or is
\* cancelled (discord_output_module.py wait_for_drain, _queue_worker).
DrainWaitsForTheRest ==
  unfinished = Len(queue) + (IF sending[Worker] = Nothing THEN 0 ELSE 1)

\* The queue is sound: the lock is held by somebody who sends, and the count of
\* unfinished messages is right (_queue_worker, wait_for_drain).
QueueIsSound == OutputTypeOK /\ DrainWaitsForTheRest
=============================================================================
