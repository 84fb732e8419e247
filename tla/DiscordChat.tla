----------------------------- MODULE DiscordChat -----------------------------
(***************************************************************************)
(* The commands users give the bot, from the moment the input module has   *)
(* registered them: each runs as a task of its own through the chat and    *)
(* the language model modules and answers through the output module, while *)
(* the server is still starting, serves, or is already shutting down.      *)
(*                                                                         *)
(* A persona command starts a thread in the table of conversations: its    *)
(* question, then the answer.  Administrators delete threads and old rows. *)
(***************************************************************************)
EXTENDS DiscordOutput

CONSTANTS
  Kinds,        \* the kinds of command given: query, summarize, persona
  ContextLimit, \* how many stored messages a persona command reads
  MaxDeletes    \* deletions by administrators

\* The bot's commands need the modules that answer them.
ASSUME ChatAssumption ==
  /\ \A I \in Installations :
       "social_input" \in I => {"discord_output", "discord_chat", "openai"} \subseteq I
  /\ Kinds \subseteq {"persona", "summarize", "rpc", "register", "credits", "guildcredits"}
  /\ Texts # {} /\ Texts \subseteq Seq(Chars) /\ MaxDeletes \in Nat

VARIABLES
  cmd,      \* what each command is doing
  rows,     \* the table of conversations: a function from recids to messages
  inserted, \* the last recid given out
  lost,     \* threads whose question was not stored, or was deleted
  deletes   \* deletions so far

chatVars == <<cmd, rows, inserted, lost, deletes>>
discordVars == <<startupVars, outputVars, chatVars>>

Row == [thread : Commands, role : {"user", "assistant"}]
Fresh == [pc |-> "new", text |-> <<>>, ctx |-> {}, no |-> 0]

ChatInit ==
  /\ StartupInit /\ OutputInit
  /\ cmd = [c \in Commands |-> Fresh]
  /\ rows = <<>> /\ inserted = 0 /\ lost = {} /\ deletes = 0

-----------------------------------------------------------------------------

\* The commands are registered with the bot while the input module is up.
Registered == connected /\ "social_input" \in ready \ down

\* A module that is on the application state and ready.
Reached(m) == phase # "stopped" /\ m \in ready
Gone(m) == phase = "stopped"

\* The database and the model client until their modules shut down.
DatabaseUp == "db" \notin down /\ "openai" \notin down
ClientUp == "openai" \notin down

In(c, pc) == cmd[c].pc = pc
GoesTo(c, pc) == cmd' = [cmd EXCEPT ![c].pc = pc]
Message(c, to, text) == [by |-> c, no |-> cmd[c].no, to |-> to, text |-> text]
Following(c, to, text) == [by |-> c, no |-> cmd[c].no + 1, to |-> to, text |-> text]

\* A notice for the channel: through the chat module, else put on the queue,
\* else sent directly; each of them needs the output module.
_queue_channel_notice(c) ==
  /\ Queued(<<Message(c, "channel", Ack)>>)
  /\ cmd' = [cmd EXCEPT ![c].pc = "done", ![c].no = @ + 1]
  /\ UNCHANGED <<sending, lock, sent, delivered, dropped>>

Inserts(row) ==
  /\ inserted' = inserted + 1
  /\ rows' = [i \in DOMAIN rows \cup {inserted'} |-> IF i = inserted' THEN row ELSE rows[i]]

\* A mutant: the thread is kept by the module instead of the command.
insert_message_shared(c, role) ==
  Inserts([thread |-> IF inserted \in DOMAIN rows THEN rows[inserted].thread ELSE c, role |-> role])

\* A message is stored in the thread of its command.
insert_message_v1(c, role) == Inserts([thread |-> c, role |-> role])

NotStored == UNCHANGED <<rows, inserted>>

\* A failure to store a message is only logged.
log_message(c, role) ==
  \/ DatabaseUp /\ NoFault /\ insert_message_v1(c, role)
  \/ (IF DatabaseUp THEN Fault ELSE NoFault) /\ NotStored

\* The last messages stored for the channel, whoever's they are.
list_channel_messages_v1 ==
  {rows[i] : i \in {j \in DOMAIN rows : Cardinality({k \in DOMAIN rows : k > j}) < ContextLimit}}

\* The context a command gets: that, or nothing when it cannot be read.
get_channel_context(c) ==
  \/ DatabaseUp /\ NoFault /\ cmd' = [cmd EXCEPT ![c].pc = "context", ![c].ctx = list_channel_messages_v1]
  \/ (IF DatabaseUp THEN Fault ELSE NoFault) /\ GoesTo(c, "context")

\* The persona's row can be read.
_get_persona == DatabaseUp

\* What the model may answer; nothing without a client.
generate_chat == IF ClientUp THEN Texts ELSE {<<>>}

\* The channel's messages can be read or not.
fetch_channel_history_backwards(read, failed) ==
  \/ connected /\ NoFault /\ read
  \/ (IF connected THEN Fault ELSE NoFault) /\ failed

QuietOutput == UNCHANGED <<queue, unfinished, sending, lock, sent, delivered, dropped>>
QuietStartup == UNCHANGED startupVars
QuietTable == UNCHANGED <<rows, inserted, lost, deletes>>

-----------------------------------------------------------------------------
(* The commands.                                                           *)

Give(c, kind) ==
  /\ In(c, "new") /\ Registered
  /\ GoesTo(c, kind)
  /\ QuietStartup /\ QuietOutput /\ QuietTable /\ NoFault

\* These dispatch one operation; its result or its error goes to the channel.
_handle_rpc_command(c) == In(c, "rpc") /\ _queue_channel_notice(c)
_handle_register_command(c) == In(c, "register") /\ _queue_channel_notice(c)
_handle_credits_command(c) == In(c, "credits") /\ _queue_channel_notice(c)
_handle_guildcredits_command(c) == In(c, "guildcredits") /\ _queue_channel_notice(c)

\* One of them ends.
Operation(c) ==
  /\ \/ _handle_rpc_command(c) \/ _handle_register_command(c)
     \/ _handle_credits_command(c) \/ _handle_guildcredits_command(c)
  /\ QuietStartup /\ QuietTable /\ NoFault

\* summarize: a bad number of hours is answered at once.
_handle_summarize_command(c) ==
  /\ In(c, "summarize")
  /\ \/ _queue_channel_notice(c)
     \/ Reached("discord_chat") /\ GoesTo(c, "history") /\ QuietOutput
  /\ QuietStartup /\ QuietTable /\ NoFault

\* The channel's messages are read; when that fails so does the operation.
summarize_channel(c) ==
  /\ In(c, "history")
  /\ fetch_channel_history_backwards(GoesTo(c, "summary") /\ QuietOutput, _queue_channel_notice(c))
  /\ QuietStartup /\ QuietTable

\* The model writes the summary; a failure leaves it empty.
summarize_chat(c) ==
  /\ In(c, "summary")
  /\ Reached("openai") \/ Gone("openai")
  /\ \E text \in generate_chat :
       cmd' = [cmd EXCEPT ![c].pc = "summarized", ![c].text = text]
  /\ QuietStartup /\ QuietOutput /\ QuietTable /\ NoFault

\* The summary is queued for the user and the notice for the channel.  Without
\* messages, with too many, without a summary or without the output module the
\* handler sends the notice once more.
deliver_summary(c) ==
  /\ In(c, "summarized")
  /\ \/ /\ Readable(cmd[c].text) # <<>>
        /\ Queued(<<Message(c, "user", cmd[c].text), Following(c, "channel", Ack)>>)
     \/ Queued(<<Message(c, "channel", Ack), Following(c, "channel", Ack)>>)
  /\ cmd' = [cmd EXCEPT ![c].pc = "done", ![c].no = @ + 2, ![c].text = <<>>]
  /\ UNCHANGED <<sending, lock, sent, delivered, dropped>>
  /\ QuietStartup /\ QuietTable /\ NoFault

\* persona: usage and a missing chat module are answered at once.
_handle_persona_command(c) ==
  /\ In(c, "persona")
  /\ \/ _queue_channel_notice(c)
     \/ Reached("discord_chat") /\ GoesTo(c, "parsed") /\ QuietOutput
  /\ QuietStartup /\ QuietTable /\ NoFault

\* A mutant: a command that failed ends without a notice.
_finalize_without_notice(c) ==
  cmd' = [cmd EXCEPT ![c].pc = "done", ![c].text = <<>>, ![c].ctx = {}]

\* The persona workflow is over: the command's notice is next.
_finalize_persona_context(c) ==
  cmd' = [cmd EXCEPT ![c].pc = "ack", ![c].text = <<>>, ![c].ctx = {}]

\* The persona is looked up; without one the command is over.
get_persona(c) ==
  \/ Reached("openai") /\ _get_persona /\ GoesTo(c, "persona_found")
  \/ (Reached("openai") \/ Gone("openai")) /\ _finalize_persona_context(c)

\* The command is taken apart and its persona fetched.
_persona_fetch_persona(c) ==
  /\ In(c, "parsed")
  /\ get_persona(c)
  /\ QuietStartup /\ QuietOutput /\ QuietTable /\ NoFault

\* The stored conversation of the channel is read.
_persona_fetch_conversation(c) ==
  /\ In(c, "persona_found")
  /\ get_channel_context(c)
  /\ QuietStartup /\ QuietOutput /\ QuietTable

\* What was said in the channel is read.
get_channel_history(c) ==
  fetch_channel_history_backwards(GoesTo(c, "channel_read"), _finalize_persona_context(c))

_persona_fetch_channel_history(c) ==
  /\ In(c, "context")
  /\ get_channel_history(c)
  /\ QuietStartup /\ QuietOutput /\ QuietTable

\* The question is stored under a new thread; a failure is only logged.
_persona_insert_conversation_input(c) ==
  /\ In(c, "channel_read")
  /\ \/ /\ GoesTo(c, "asked") /\ UNCHANGED deletes
        /\ log_message(c, "user")
        /\ lost' = IF inserted' = inserted THEN lost \union {c} ELSE lost
     \/ _finalize_persona_context(c) /\ NoFault /\ QuietTable
  /\ QuietStartup /\ QuietOutput

\* The model answers; without a client the answer is empty.
generate_persona_response(c) ==
  /\ In(c, "asked")
  /\ \/ /\ Reached("openai") \/ Gone("openai")
        /\ NoFault
        /\ \E text \in generate_chat :
             cmd' = [cmd EXCEPT ![c].pc = "generated", ![c].text = text, ![c].ctx = {}]
     \/ Fault /\ _finalize_persona_context(c)
  /\ QuietStartup /\ QuietOutput /\ QuietTable

\* The answer is stored in the thread; a failure is only logged.
_persona_generate_response(c) ==
  /\ In(c, "generated")
  /\ GoesTo(c, "answered")
  /\ IF cmd[c].text # <<>> THEN log_message(c, "assistant") ELSE NoFault /\ NotStored
  /\ QuietStartup /\ QuietOutput /\ UNCHANGED <<lost, deletes>>

\* The answer is queued for the channel.
deliver_persona_response(c) ==
  /\ In(c, "answered")
  /\ IF cmd[c].text # <<>>
     THEN /\ Queued(<<Message(c, "channel", cmd[c].text)>>)
          /\ cmd' = [cmd EXCEPT ![c].pc = "ack", ![c].no = @ + 1,
                                       ![c].text = <<>>]
     ELSE _finalize_persona_context(c) /\ UNCHANGED <<queue, unfinished>>
  /\ UNCHANGED <<sending, lock, sent, delivered, dropped>>
  /\ QuietStartup /\ QuietTable /\ NoFault

\* The persona command's notice goes to the output module, if it is there.
send_channel_message(c) ==
  /\ In(c, "ack")
  /\ cmd' = [cmd EXCEPT ![c].pc = "done", ![c].no = @ + 1]
  /\ IF OutputThere THEN TakeUp(c, Message(c, "channel", Ack), 0)
     ELSE NoFault /\ UNCHANGED <<sending, unfinished, dropped>>
  /\ UNCHANGED <<queue, lock, sent, delivered>>
  /\ QuietStartup /\ QuietTable

CommandStep(c) ==
  \/ Operation(c) \/ _handle_summarize_command(c)
  \/ summarize_channel(c) \/ summarize_chat(c) \/ deliver_summary(c)
  \/ _handle_persona_command(c) \/ _persona_fetch_persona(c)
  \/ _persona_fetch_conversation(c) \/ _persona_fetch_channel_history(c)
  \/ _persona_insert_conversation_input(c) \/ generate_persona_response(c)
  \/ _persona_generate_response(c) \/ deliver_persona_response(c)
  \/ send_channel_message(c)

-----------------------------------------------------------------------------
(* The table of conversations.                                             *)

Deletes(some) ==
  /\ phase = "serving" /\ deletes < MaxDeletes /\ deletes' = deletes + 1
  /\ rows' = [i \in DOMAIN rows \ some |-> rows[i]]
  /\ lost' = lost \union {rows[i].thread : i \in {j \in DOMAIN rows \cap some : rows[j].role = "user"}}
  /\ QuietStartup /\ QuietOutput /\ NoFault /\ UNCHANGED <<cmd, inserted>>

delete_by_thread_v1(t) == {i \in DOMAIN rows : rows[i].thread = t}
delete_before_timestamp_v1(n) == {i \in DOMAIN rows : i <= n}

delete_conversation_thread(t) == Deletes(delete_by_thread_v1(t))
delete_conversations_before(n) == Deletes(delete_before_timestamp_v1(n))

-----------------------------------------------------------------------------

Serving == StartupStep /\ UNCHANGED <<outputVars, chatVars>>
Stopping == Stop /\ UNCHANGED <<outputVars, chatVars>>
ShuttingDown(m) ==
  /\ ShutDown(m)
  /\ IF m = "discord_output" THEN CancelWorker ELSE UNCHANGED outputVars
  /\ UNCHANGED chatVars
Sending(s) == SendStep(s) /\ UNCHANGED <<startupVars, chatVars>>
WorkingQueue == WorkerGet /\ UNCHANGED <<startupVars, chatVars>>

ChatNext ==
  \/ Serving \/ Stopping \/ \E m \in loaded : ShuttingDown(m)
  \/ \E s \in Senders : Sending(s)
  \/ WorkingQueue
  \/ \E c \in Commands : (\E kind \in Kinds : Give(c, kind)) \/ CommandStep(c)
  \/ \E t \in Commands : delete_conversation_thread(t)
  \/ \E n \in DOMAIN rows : delete_conversations_before(n)

ChatSpec == ChatInit /\ [][ChatNext]_discordVars

ChatTypeOK ==
  /\ rows \in [DOMAIN rows -> Row] /\ DOMAIN rows \subseteq 1 .. inserted
  /\ lost \subseteq Commands
  /\ deletes \in 0 .. MaxDeletes

-----------------------------------------------------------------------------

\* Whatever overlaps, fails or is deleted, an answer in the table follows the
\* question of its thread, each at most once, unless that question was lost:
\* its own insert failed or an administrator deleted it
\* (discord_chat_module.py _persona_insert_conversation_input,
\* _persona_generate_response; conversations/mssql.py).
AnswersFollowQuestions ==
  \A i \in DOMAIN rows :
    /\ \A j \in DOMAIN rows : rows[i] = rows[j] => i = j
    /\ rows[i].role = "assistant" =>
         \/ rows[i].thread \in lost
         \/ \E j \in DOMAIN rows : j < i /\ rows[j] = [thread |-> rows[i].thread, role |-> "user"]

\* The stored messages a question is sent with are older than the question:
\* nothing of its own thread is among them
\* (discord_chat_module.py handle_persona_command).
ContextIsOlder ==
  \A c \in Commands : \A row \in cmd[c].ctx : row.thread # c

\* The conversations are sound: what is stored and what is sent with a question
\* are in the order in which it was said (discord_chat_module.py).
ConversationsAreSound == ChatTypeOK /\ AnswersFollowQuestions /\ ContextIsOlder

OnTheWay(c) ==
  \/ \E i \in DOMAIN queue : queue[i].by = c
  \/ \E s \in Senders : sending[s] # Nothing /\ sending[s].msg.by = c

\* While the server serves no command is stuck.
CommandsGoOn ==
  phase = "serving" =>
    \A c \in Commands : cmd[c].pc \notin {"new", "done"} => ENABLED CommandStep(c)

\* When a command is over and nothing of it is on the way, a message of it was
\* delivered or at least tried.
AnswersAreTried ==
  phase \in {"starting", "serving"} =>
    \A c \in Commands :
      In(c, "done") => OnTheWay(c) \/ \E m \in delivered \union dropped : m.by = c

\* Every command gets an answer: none is stuck while the server serves, and
\* when one is over and nothing of it is on the way, a message of it was
\* delivered or at least tried, whatever failed, unless the output module was
\* shutting down (discord_input_provider.py; discord_chat_module.py;
\* discord_output_module.py _queue_worker).
CommandsAreAnswered == CommandsGoOn /\ AnswersAreTried
=============================================================================
