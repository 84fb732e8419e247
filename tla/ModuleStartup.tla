---------------------------- MODULE ModuleStartup ----------------------------
(***************************************************************************)
(* The module manager: every module is created before any is started, then *)
(* all start at once (asyncio.gather) and wait for one another's readiness *)
(* events.  The server serves when every startup has returned; the first   *)
(* startup that raises ends the process.  At the end all shut down at once. *)
(*                                                                         *)
(* The Discord bot is special: modules look it up when they come to it, it *)
(* takes itself off the application state when it fails to start, and it   *)
(* is ready without a connection when another process holds its lock.      *)
(***************************************************************************)
EXTENDS Naturals, Sequences, FiniteSets

CONSTANTS
  Installations, \* the sets of modules to start; one is chosen at the start
  MaxStartFaults \* how many startups raise or give up

VARIABLES
  loaded,     \* the modules of this server
  at,         \* how far each startup is: the place in its needs it waits at
  ready,      \* the modules whose readiness event is set
  returned,   \* the modules whose startup has returned
  down,       \* the modules that are shut down
  phase,      \* starting, failing, failed, serving, stopping or stopped
  connected,  \* the bot of this process is connected to Discord
  botGone,    \* app.state.discord_bot is None
  startFaults \* startups that have failed

startupVars ==
  <<loaded, at, ready, returned, down, phase, connected, botGone, startFaults>>

-----------------------------------------------------------------------------
(* What each startup awaits, in the order it comes to it.                  *)

env_needs == <<>>
db_needs == <<"env">>
discord_bot_needs == <<"env", "db">>
role_needs == <<"db">>
auth_needs == <<"env", "db", "discord_bot", "role">>
oauth_needs == <<"auth", "db", "env", "discord_bot">>
session_needs == <<"auth", "db", "oauth", "discord_bot">>
mcp_gateway_needs == <<"db", "auth", "oauth", "discord_bot">>
discord_output_needs == <<"discord_bot">>
discord_chat_needs == <<"discord_bot">>
social_input_needs == <<"discord_bot">>
openai_needs == <<"db", "discord_bot", "discord_output">>
storage_needs == <<"env", "db", "auth", "discord_bot">>
finance_needs == <<"db">>
async_task_needs == <<"db", "finance">>
batch_job_needs == <<"db">>
billing_import_needs == <<>>
bsky_needs == <<"db">>
content_pages_needs == <<"db">>
content_wiki_needs == <<"db">>
conversations_needs == <<"db">>
database_cli_needs == <<"db", "env">>
models_registry_needs == <<"db">>
profile_needs == <<"db", "auth">>
public_gallery_needs == <<"db", "discord_bot">>
public_links_needs == <<"db", "discord_bot">>
public_users_needs == <<"db", "discord_bot">>
public_vars_needs == <<"db", "auth", "discord_bot">>
role_admin_needs == <<"db", "role", "discord_bot">>
rpcdispatch_needs == <<"db">>
service_renewals_needs == <<"db">>
service_routes_needs == <<"db", "auth">>
system_config_needs == <<"db", "discord_bot">>
user_admin_needs == <<"db", "discord_bot">>

Needs ==
  [ env |-> env_needs, db |-> db_needs, discord_bot |-> discord_bot_needs,
    role |-> role_needs, auth |-> auth_needs, oauth |-> oauth_needs,
    session |-> session_needs, mcp_gateway |-> mcp_gateway_needs,
    discord_output |-> discord_output_needs, discord_chat |-> discord_chat_needs,
    social_input |-> social_input_needs, openai |-> openai_needs,
    storage |-> storage_needs, finance |-> finance_needs,
    async_task |-> async_task_needs, batch_job |-> batch_job_needs,
    billing_import |-> billing_import_needs, bsky |-> bsky_needs,
    content_pages |-> content_pages_needs, content_wiki |-> content_wiki_needs,
    conversations |-> conversations_needs, database_cli |-> database_cli_needs,
    models_registry |-> models_registry_needs, profile |-> profile_needs,
    public_gallery |-> public_gallery_needs, public_links |-> public_links_needs,
    public_users |-> public_users_needs, public_vars |-> public_vars_needs,
    role_admin |-> role_admin_needs, rpcdispatch |-> rpcdispatch_needs,
    service_renewals |-> service_renewals_needs,
    service_routes |-> service_routes_needs,
    system_config |-> system_config_needs, user_admin |-> user_admin_needs ]

\* Any set of the modules, but the authentication never without a module that
\* waits for it.
ASSUME StartupAssumption ==
  /\ \A I \in Installations : I \subseteq DOMAIN Needs /\ ("auth" \in I => "oauth" \in I)
  /\ MaxStartFaults \in Nat

\* A module with everything it needs, directly or not.
Closure(m) ==
  LET Grow[n \in Nat] ==
        IF n = 0 THEN {m}
        ELSE Grow[n - 1] \union UNION {{Needs[x][i] : i \in DOMAIN Needs[x]} : x \in Grow[n - 1]}
  IN  Grow[5]

-----------------------------------------------------------------------------

\* Startups go on until the process ends, also after one has raised.
Starting == {"starting", "failing"}

\* Module objects sit on the application state from before the startups until
\* they are all shut down; only the bot takes itself off.
Present(m) == m \in loaded /\ (m = "discord_bot" => ~botGone)

\* A startup goes on until it comes to a module that is there and not ready.
NextStop(m, i) ==
  LET Stops == {j \in i .. Len(Needs[m]) : Present(Needs[m][j]) /\ Needs[m][j] \notin ready}
  IN  IF Stops = {} THEN Len(Needs[m]) + 1
      ELSE CHOOSE j \in Stops : \A k \in Stops : j <= k

\* A startup has passed everything it waits for and does its own work.
Working(m) == at[m] = Len(Needs[m]) + 1 /\ m \notin returned

StartupInit ==
  /\ loaded \in Installations
  /\ at = [m \in loaded |-> 0]
  /\ ready = {} /\ returned = {} /\ down = {}
  /\ phase = "starting"
  /\ connected = FALSE /\ botGone = FALSE
  /\ startFaults = 0

\* What a startup waited for is there.
MayProceed(m) ==
  /\ at[m] <= Len(Needs[m])
  /\ at[m] > 0 => Needs[m][at[m]] \in ready

\* A startup runs from one wait to the next.
Proceed(m) ==
  /\ phase \in Starting /\ m \in loaded /\ MayProceed(m)
  /\ at' = [at EXCEPT ![m] = NextStop(m, at[m] + 1)]
  /\ UNCHANGED <<loaded, ready, returned, down, phase, connected, botGone, startFaults>>

\* The input module finds a bot that is ready but has no connection.
MissesBot(m) == m = "social_input" /\ ~botGone /\ ~connected

\* A startup ends well: the module is ready.  The bot logs in; if another
\* process holds its lock it is ready without a connection.
Started(m) ==
  /\ phase \in Starting /\ m \in loaded /\ Working(m) /\ ~MissesBot(m)
  /\ ready' = ready \union {m}
  /\ returned' = returned \union {m}
  /\ connected' = (connected \/ m = "discord_bot")
  /\ UNCHANGED <<loaded, at, down, phase, botGone, startFaults>>

\* Another process holds the lock of the bot.
StartedWithoutBot ==
  /\ phase \in Starting /\ "discord_bot" \in loaded /\ Working("discord_bot")
  /\ startFaults < MaxStartFaults
  /\ startFaults' = startFaults + 1
  /\ ready' = ready \union {"discord_bot"}
  /\ returned' = returned \union {"discord_bot"}
  /\ UNCHANGED <<loaded, at, down, phase, connected, botGone>>

\* The authentication providers cannot be reached: the startup catches it and
\* returns, and the module is never ready.
AuthGivesUp ==
  /\ phase \in Starting /\ "auth" \in loaded /\ Working("auth")
  /\ startFaults < MaxStartFaults
  /\ startFaults' = startFaults + 1
  /\ returned' = returned \union {"auth"}
  /\ UNCHANGED <<loaded, at, ready, down, phase, connected, botGone>>

\* A startup that raises breaks off startup_all: the database or the configuration
\* cannot be read, the bot cannot log in, or there is no connection.
StartRaises(m) ==
  /\ phase \in Starting /\ m \in loaded /\ Working(m)
  /\ \/ MissesBot(m) /\ startFaults' = startFaults
     \/ m \in {"db", "discord_bot", "auth", "openai", "mcp_gateway"}
        /\ startFaults < MaxStartFaults /\ startFaults' = startFaults + 1
  /\ phase' = "failing"
  /\ botGone' = (botGone \/ m = "discord_bot")
  /\ UNCHANGED <<loaded, at, ready, returned, down, connected>>

\* The exception reaches the server, which ends the process.
Exit ==
  /\ phase = "failing"
  /\ phase' = "failed"
  /\ UNCHANGED <<loaded, at, ready, returned, down, connected, botGone, startFaults>>

\* A mutant: the startups are created but not awaited.
ServeAtOnce ==
  /\ phase = "starting" /\ \A m \in loaded : at[m] > 0
  /\ phase' = "serving"
  /\ UNCHANGED <<loaded, at, ready, returned, down, connected, botGone, startFaults>>

\* Every startup has returned: the application is served.
Serve ==
  /\ phase = "starting" /\ returned = loaded
  /\ phase' = "serving"
  /\ UNCHANGED <<loaded, at, ready, returned, down, connected, botGone, startFaults>>

\* The modules whose shutdown waits for something else to end.
SlowToStop ==
  {"db", "auth", "storage", "billing_import", "async_task", "batch_job", "discord_bot", "discord_output"}

\* The server is told to stop: all modules shut down at once, those that wait
\* for nothing before anything else runs.
Stop ==
  /\ phase = "serving"
  /\ phase' = "stopping"
  /\ down' = loaded \ SlowToStop
  /\ UNCHANGED <<loaded, at, ready, returned, connected, botGone, startFaults>>

\* One module's shutdown; the last one takes every module off the state.
ShutDown(m) ==
  /\ phase = "stopping" /\ m \in loaded \ down
  /\ down' = down \union {m}
  /\ phase' = IF down' = loaded THEN "stopped" ELSE phase
  /\ connected' = (connected /\ m # "discord_bot")
  /\ botGone' = (botGone \/ m = "discord_bot")
  /\ UNCHANGED <<loaded, at, ready, returned, startFaults>>

StartupStep ==
  \/ \E m \in loaded : Proceed(m) \/ Started(m) \/ StartRaises(m)
  \/ StartedWithoutBot \/ AuthGivesUp
  \/ Serve \/ Exit

StartupTypeOK ==
  /\ loaded \in Installations
  /\ \A m \in loaded : at[m] \in 0 .. Len(Needs[m]) + 1
  /\ ready \subseteq returned /\ returned \subseteq loaded /\ down \subseteq loaded
  /\ phase \in Starting \union {"failed", "serving", "stopping", "stopped"}
  /\ connected \in BOOLEAN /\ botGone \in BOOLEAN
  /\ startFaults \in 0 .. MaxStartFaults

-----------------------------------------------------------------------------

\* The server never serves with a module that is not ready: the startup of the
\* authentication module returns even when its providers fail, but then others
\* wait for it for ever and startup_all does not return
\* (modules/__init__.py startup_all; auth_module.py startup).
ServedWhenReady == phase \in {"serving", "stopping"} => ready = loaded

\* The startups never wait for one another in a circle: until all have
\* returned some startup can go on, or ends well or with an exception, unless the
\* authentication providers failed quietly and everything that is left waits for
\* that module (modules/__init__.py startup_all; on_ready in every startup).
StartupsNeverStall ==
  phase = "starting" => \/ returned = loaded
                        \/ \E m \in loaded : MayProceed(m) \/ Working(m)
                        \/ "auth" \in returned \ ready

\* Startups are sound: the server serves when every module is ready, and gets
\* there (modules/__init__.py startup_all).
StartupIsSound == StartupTypeOK /\ ServedWhenReady /\ StartupsNeverStall
=============================================================================
