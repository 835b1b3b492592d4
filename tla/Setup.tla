------------------------------- MODULE Setup -------------------------------
(***************************************************************************)
(* kyomi-connect's command line around its configuration: the setup wizard *)
(* (wizard.rs) with the browser callback (callback_server.rs), the files   *)
(* it writes (config_file.rs), the service unit (service.rs) and what an   *)
(* agent makes of all that when it starts (main.rs, config.rs).            *)
(*                                                                         *)
(* A value is known by the setup run in which it was entered.  The process *)
(* may be killed at every step; fs::write truncates a file before it fills *)
(* it.                                                                     *)
(***************************************************************************)
EXTENDS Naturals

CONSTANTS
  MaxSetups,  \* bound: runs of the wizard
  None, Torn  \* no file; a file that was truncated and not written

Kinds == {"good", "no_kid", "bad"}
Tokens == [run : Nat, kind : Kinds]
Configs == [token : Tokens, db : Nat, ca : {None, "ca"}]

ASSUME SetupAssumption ==
  /\ MaxSetups \in Nat \ {0}
  /\ None # Torn
  /\ {None, Torn} \cap (Nat \cup Configs) = {}

VARIABLES
  pc,          \* where the wizard is
  run,         \* runs of the wizard so far
  tty,         \* stdin is a terminal
  existing,    \* what ConfigFile::load returned at its start
  draft,       \* the answers so far
  server,      \* the run whose callback server listens, or None
  sender,      \* token_tx has not been taken
  token_rx,    \* what the oneshot holds
  page,        \* the page the browser got last
  home, etc,   \* the configuration directories: config.toml and .db-password
  env,         \* /etc/kyomi-connect/env
  unit,        \* the service unit is installed
  agent,       \* configuration of the agent that runs, or None
  entered,     \* history: settings and password saved together
  before,      \* history: home when the wizard started
  interrupted  \* history: a save was killed or failed half way

files == <<home, etc, env, unit>>
callback == <<server, sender, token_rx, page>>
wizard == <<pc, run, tty, existing, draft, before>>
vars == <<wizard, callback, files, agent, entered, interrupted>>

NoDir == [config |-> None, password |-> None]
NoDraft == [token |-> None, db |-> None, password |-> None]
Parsed(c) == c \notin {None, Torn}

Init ==
  /\ pc = "off" /\ run = 0 /\ tty = FALSE /\ existing = None /\ draft = NoDraft
  /\ server = None /\ sender = FALSE /\ token_rx = None /\ page = None
  /\ home = NoDir /\ etc = NoDir /\ env = None /\ unit = FALSE
  /\ agent = None /\ entered = {} /\ before = NoDir /\ interrupted = FALSE

(***************************************************************************)
(* Loading.                                                                *)
(***************************************************************************)
\* The first file that exists is the one; if it cannot be parsed, none is.
Load ==
  CASE Parsed(home.config) -> home.config
    [] home.config = None /\ Parsed(etc.config) -> etc.config
    [] OTHER -> None

\* The password of a configuration, read from the file it names in home.
\* Only a missing file is an error: a truncated one is an empty password.
PasswordOf(c) == IF c = None THEN None ELSE home.password

\* ConnectConfig::from_env: the environment first, then the file.  The token's
\* key id is required here.  "amid" is history: the agent started while a wizard
\* had begun to write the password and not the settings yet.
FromEnv(e) ==
  LET f == Load
      c == IF e # None THEN e ELSE f
  IN IF c = None \/ c.token.kind # "good" \/ PasswordOf(c) = None
     THEN None
     ELSE [token |-> c.token, db |-> c.db, ca |-> c.ca, password |-> PasswordOf(c),
           by |-> IF e # None THEN "service" ELSE "file",
           amid |-> pc \in {"password_open", "save_config"}]

(***************************************************************************)
(* The wizard.  Failing exits the process and ends the callback server.    *)
(***************************************************************************)
Exit ==
  /\ pc' = "off" /\ draft' = NoDraft /\ existing' = None
  /\ server' = None /\ sender' = FALSE /\ token_rx' = None
  /\ UNCHANGED <<run, tty, before, page>>

quiet == <<files, agent, entered, interrupted>>
Step(next) == pc' = next /\ UNCHANGED <<run, tty, existing, before, callback>>
Answer(field, value, next) == Step(next) /\ draft' = [draft EXCEPT ![field] = value]

\* `setup`, or no command and nothing configured.
RunSetup ==
  /\ pc = "off" /\ agent = None /\ run < MaxSetups
  /\ pc' = "resolve" /\ run' = run + 1
  /\ tty' \in BOOLEAN
  /\ existing' = Load /\ before' = home /\ draft' = NoDraft
  /\ UNCHANGED <<callback, files, agent, entered, interrupted>>

\* --token, --token-file, the current token, or the browser.
ResolveToken ==
  /\ pc = "resolve"
  /\ \/ Exit
     \/ \E k \in Kinds : Answer("token", [run |-> run, kind |-> k], "verify")
     \/ tty /\ existing # None /\ Answer("token", existing.token, "verify")
     \/ tty /\ Step("browser") /\ UNCHANGED draft
  /\ UNCHANGED quiet

\* The local callback server starts, or the token is typed.
StartCallbackServer ==
  /\ pc = "browser"
  /\ \/ /\ server' = run /\ sender' = TRUE /\ token_rx' = None /\ pc' = "waiting"
        /\ UNCHANGED <<run, tty, existing, before, draft, page>>
     \/ Step("paste") /\ UNCHANGED draft
  /\ UNCHANGED quiet

ManualPaste ==
  /\ pc = "paste"
  /\ Exit \/ \E k \in Kinds : Answer("token", [run |-> run, kind |-> k], "verify")
  /\ UNCHANGED quiet

\* Mutant: the state is not compared.
CallbackUnchecked(state, token) ==
  /\ server # None
  /\ IF state = None \/ token = None
     THEN page' = "error" /\ UNCHANGED <<sender, token_rx>>
     ELSE /\ page' = "success" /\ sender' = FALSE
          /\ token_rx' = IF sender /\ pc = "waiting" THEN token ELSE token_rx
  /\ UNCHANGED <<wizard, server, quiet>>
\* A browser tab of this or of an earlier run calls back.  The sender is taken
\* once; what it sends is lost if nobody waits any more.
Callback(state, token) ==
  /\ server # None
  /\ IF state # server \/ token = None
     THEN page' = "error" /\ UNCHANGED <<sender, token_rx>>
     ELSE /\ page' = "success" /\ sender' = FALSE
          /\ token_rx' = IF sender /\ pc = "waiting" THEN token ELSE token_rx
  /\ UNCHANGED <<wizard, server, quiet>>

\* The select of resolve_token_interactive: browser, stdin, ten minutes.
Received(token) ==
  /\ pc' = "verify"
  /\ draft' = [draft EXCEPT !.token = token]
  /\ token_rx' = None
  /\ UNCHANGED <<run, tty, existing, before, server, sender, page>>
\* Mutant: no timeout, and nothing typed is not an answer.
AwaitTokenForever ==
  /\ pc = "waiting"
  /\ token_rx # None /\ Received(token_rx)
  /\ UNCHANGED quiet
AwaitToken ==
  /\ pc = "waiting"
  /\ \/ token_rx # None /\ Received(token_rx)
     \/ \E k \in Kinds : Received([run |-> run, kind |-> k])
     \/ Exit
  /\ UNCHANGED quiet

\* The signature (a key id is not required), then the token's datasource.
VerifyToken ==
  /\ pc = "verify"
  /\ Exit \/ (draft.token.kind # "bad" /\ Step("settings") /\ UNCHANGED draft)
  /\ UNCHANGED quiet

\* Host, port, name, user and SSL mode: given, typed, or kept.
AskSettings ==
  /\ pc = "settings"
  /\ \/ Exit
     \/ Answer("db", run, "password")
     \/ existing # None /\ Answer("db", existing.db, "password")
  /\ UNCHANGED quiet

\* Mutant: the password is written as soon as it is known.
AskPasswordSaves ==
  /\ pc = "password"
  /\ \/ Exit /\ UNCHANGED home
     \/ Answer("password", run, "test") /\ home' = [home EXCEPT !.password = run]
  /\ UNCHANGED <<etc, env, unit, agent, entered, interrupted>>
\* An empty password is refused, wherever it comes from.
AskPassword ==
  /\ pc = "password"
  /\ \/ Exit
     \/ Answer("password", run, "test")
     \/ PasswordOf(existing) \in Nat /\ Answer("password", PasswordOf(existing), "test")
  /\ UNCHANGED quiet

\* A failed test ends an unattended setup only.
TestDatabaseConnection ==
  /\ pc = "test"
  /\ \E ok \in BOOLEAN : IF ok \/ tty THEN Step("save_password") /\ UNCHANGED draft ELSE Exit
  /\ UNCHANGED quiet

\* fs::write in two steps, each of which may fail.
Interrupt == Exit /\ interrupted' = TRUE /\ UNCHANGED <<home, entered>>
SavePassword ==
  /\ pc \in {"save_password", "password_open"}
  /\ \/ Interrupt
     \/ /\ IF pc = "save_password"
           THEN Step("password_open") /\ home' = [home EXCEPT !.password = Torn]
           ELSE Step("save_config") /\ home' = [home EXCEPT !.password = draft.password]
        /\ UNCHANGED <<draft, entered, interrupted>>
  /\ UNCHANGED <<etc, env, unit, agent>>

NewConfig == [token |-> draft.token, db |-> draft.db, ca |-> None]

\* Mutant: the settings that are saved are those that were loaded.
SaveConfigStale ==
  /\ pc \in {"save_config", "config_open"}
  /\ \/ Interrupt
     \/ pc = "save_config" /\ Step("config_open") /\ home' = [home EXCEPT !.config = Torn]
          /\ UNCHANGED <<draft, entered, interrupted>>
     \/ /\ pc = "config_open" /\ Step("agent")
        /\ home' = [home EXCEPT !.config = IF existing # None THEN existing ELSE NewConfig]
        /\ entered' = entered \cup {<<draft.db, draft.password>>}
        /\ UNCHANGED <<draft, interrupted>>
  /\ UNCHANGED <<etc, env, unit, agent>>
SaveConfig ==
  /\ pc \in {"save_config", "config_open"}
  /\ \/ Interrupt
     \/ pc = "save_config" /\ Step("config_open") /\ home' = [home EXCEPT !.config = Torn]
          /\ UNCHANGED <<draft, entered, interrupted>>
     \/ /\ pc = "config_open" /\ Step("agent")
        /\ home' = [home EXCEPT !.config = NewConfig]
        /\ entered' = entered \cup {<<draft.db, draft.password>>}
        /\ UNCHANGED <<draft, interrupted>>
  /\ UNCHANGED <<etc, env, unit, agent>>

\* The process is killed.
Kill ==
  /\ pc # "off"
  /\ Exit
  /\ interrupted' = (interrupted \/ pc \in {"password_open", "save_config", "config_open"})
  /\ UNCHANGED <<files, agent, entered>>

(***************************************************************************)
(* Agents and the service.                                                 *)
(***************************************************************************)
\* run_agent after a setup; or as `run`, or started by systemd: a process of its
\* own, which may start in the middle of a save too.  (While a wizard asks, the
\* files are as it found them: an agent reads then what it could read before.)
RunAgent(e) ==
  /\ agent = None
  /\ \/ pc = "agent" /\ e = None /\ Exit
     \/ /\ pc \in {"off", "password_open", "save_config", "config_open"} /\ (e = None \/ unit)
        /\ UNCHANGED <<wizard, callback>>
  /\ agent' = FromEnv(e)
  /\ UNCHANGED <<files, entered, interrupted>>

StopAgent ==
  /\ agent # None
  /\ agent' = None
  /\ UNCHANGED <<wizard, callback, files, entered, interrupted>>

\* Copies home to /etc the first time, and makes the environment of what is
\* there; the path of the password file stays the one in home.
Install ==
  /\ pc = "off"
  /\ etc' = IF etc = NoDir THEN home ELSE etc
  /\ IF etc'.config = Torn
     THEN UNCHANGED <<env, unit>>
     ELSE env' = (IF etc'.config = None THEN env ELSE etc'.config) /\ unit' = TRUE
  /\ UNCHANGED <<wizard, callback, home, agent, entered, interrupted>>

Uninstall ==
  /\ pc = "off" /\ unit
  /\ unit' = FALSE
  /\ UNCHANGED <<wizard, callback, home, etc, env, agent, entered, interrupted>>

\* The user adds db_ssl_ca or health_port to config.toml.
EditConfig ==
  /\ pc = "off" /\ Parsed(home.config) /\ home.config.ca = None
  /\ home' = [home EXCEPT !.config.ca = "ca"]
  /\ UNCHANGED <<wizard, callback, etc, env, unit, agent, entered, interrupted>>

Wizard ==
  \/ ResolveToken \/ StartCallbackServer \/ ManualPaste \/ AwaitToken \/ VerifyToken
  \/ AskSettings \/ AskPassword \/ TestDatabaseConnection \/ SavePassword \/ SaveConfig

Next ==
  \/ RunSetup \/ Wizard \/ Kill
  \/ \E s \in 1..run \cup {None} :
       Callback(s, None) \/ \E k \in Kinds : Callback(s, [run |-> s, kind |-> k])
  \/ \E e \in {None, env} : RunAgent(e)
  \/ StopAgent \/ Install \/ Uninstall \/ EditConfig

Spec == Init /\ [][Next]_vars

\* The wizard's own timers fire; nobody need type or click anything.
FairSpec == Spec /\ WF_vars(AwaitToken)

-----------------------------------------------------------------------------
(* Properties *)

\* An agent that reads the configuration files never joins the settings of one
\* setup with the password of another, unless a save was interrupted or the agent
\* started in the middle of one: the password is written first, and until the
\* settings are truncated an agent joins the old settings with the new password,
\* or with none.  While the settings are written it finds no configuration.
RunsWhatWasSaved ==
  agent # None /\ ~interrupted /\ ~agent.amid =>
    (agent.by = "file" => <<agent.db, agent.password>> \in entered)

\* A setup that ends early (a bad token, no answer, a failed test, a kill)
\* leaves the configuration as it found it, unless it was already saving.
FailureChangesNothing ==
  [][pc # "off" /\ pc # "agent" /\ pc' = "off" /\ ~interrupted' => home' = before]_vars

\* The token of a setup is never the one a browser tab of an earlier setup
\* sends, on whatever port and however late.
OnlyItsOwnToken ==
  pc = "verify" =>
    draft.token.run = run \/ (existing # None /\ draft.token = existing.token)

\* Waiting for the browser ends.
WaitEnds == (pc = "waiting") ~> (pc # "waiting")
=============================================================================
