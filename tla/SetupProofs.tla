---------------------------- MODULE SetupProofs ----------------------------
(***************************************************************************)
(* What a setup leaves behind and what an agent makes of it, for any       *)
(* number of runs of the wizard, kills and callbacks.                      *)
(***************************************************************************)
EXTENDS Setup, TLAPS

Dirs == [config : Configs \cup {None, Torn}, password : Nat \cup {None, Torn}]

TypeInv ==
  /\ run \in Nat
  /\ home \in Dirs /\ etc \in Dirs
  /\ existing \in Configs \cup {None}
  /\ draft \in [token : Tokens \cup {None}, db : Nat \cup {None}, password : Nat \cup {None}]

\* The wizard's phases: before it has a token, with the token, with the
\* settings, with the password, while it writes, and when all is written.
Tokenless == {"resolve", "browser", "waiting", "paste"}
Saving == {"password_open", "save_config", "config_open"}
Entered == {"test", "save_password"} \cup Saving
Asking == {"verify", "settings", "password"} \cup Entered

DraftInv ==
  /\ pc \in {"off", "agent"} \cup Tokenless \cup Asking
  /\ pc \in Asking => draft.token \in Tokens
  /\ pc \in {"password"} \cup Entered => draft.db \in Nat
  /\ pc \in Entered => draft.password \in Nat

\* A callback server and what it has received belong to the run that waits.
CallbackInv ==
  /\ server # None => server = run
  /\ token_rx # None => token_rx \in Tokens /\ token_rx.run = run
  /\ pc = "off" => server = None /\ token_rx = None

\* Nothing is written before all answers are known.
BeforeInv == pc \in Tokenless \cup (Asking \ Saving) => home = before

\* Unless a save was interrupted, home is empty or holds one setup's answers; the
\* settings cannot be read while they are written.
HomeInv ==
  /\ ~interrupted =>
       /\ pc \notin Saving =>
            home = NoDir \/ (home.config \in Configs /\ <<home.config.db, home.password>> \in entered)
       /\ pc \in {"save_config", "config_open"} => home.password = draft.password
  /\ pc = "config_open" => home.config = Torn

IInv ==
  TypeInv /\ DraftInv /\ CallbackInv /\ BeforeInv /\ HomeInv /\ OnlyItsOwnToken /\ RunsWhatWasSaved

-----------------------------------------------------------------------------
\* The initial state satisfies the invariant.
LEMMA InitIInv == Init => IInv
<1> SUFFICES ASSUME Init PROVE IInv
  OBVIOUS
<1> USE DEF Init, NoDir, NoDraft
<1>1. TypeInv
  BY DEF TypeInv, Dirs
<1>2. DraftInv /\ CallbackInv /\ BeforeInv
  BY DEF DraftInv, CallbackInv, BeforeInv, Tokenless, Asking, Entered, Saving
<1>3. HomeInv
  BY DEF HomeInv, Saving
<1>4. OnlyItsOwnToken /\ RunsWhatWasSaved
  BY DEF OnlyItsOwnToken, RunsWhatWasSaved
<1> QED BY <1>1, <1>2, <1>3, <1>4 DEF IInv

\* The wizard's process ends: harmless before it writes, noted while it does.
LEMMA ExitStep ==
  ASSUME IInv, Exit, UNCHANGED <<home, etc, entered>>, RunsWhatWasSaved',
         ~interrupted' => ~interrupted /\ pc \notin Saving
  PROVE  IInv'
<1> USE DEF Exit, NoDraft
<1>1. TypeInv'
  BY DEF IInv, TypeInv
<1>2. DraftInv' /\ CallbackInv' /\ BeforeInv'
  BY DEF IInv, DraftInv, CallbackInv, BeforeInv, Tokenless, Asking, Entered, Saving
<1>3. HomeInv'
  BY DEF IInv, HomeInv, Saving, NoDir
<1>4. OnlyItsOwnToken'
  BY DEF OnlyItsOwnToken
<1> QED BY <1>1, <1>2, <1>3, <1>4 DEF IInv

\* A step of the wizard that asks or tests leaves files and agent alone.
LEMMA AskStep ==
  ASSUME IInv, quiet' = quiet, before' = before, TypeInv', DraftInv', CallbackInv', OnlyItsOwnToken',
         pc \in Tokenless \cup (Asking \ Saving), pc' \in Tokenless \cup (Asking \ Saving)
  PROVE  IInv'
<1> USE DEF quiet, files
<1>1. BeforeInv'
  BY DEF IInv, BeforeInv
<1>2. HomeInv'
  BY DEF IInv, HomeInv, Saving, Tokenless, NoDir
<1>3. RunsWhatWasSaved'
  BY DEF IInv, RunsWhatWasSaved
<1> QED BY <1>1, <1>2, <1>3 DEF IInv

\* A step that answers one question.
LEMMA AnswerStep ==
  ASSUME IInv, quiet' = quiet, NEW f \in {"token", "db", "password"}, NEW v, NEW next,
         Answer(f, v, next), pc \in Tokenless \cup (Asking \ Saving),
         \/ /\ f = "token" /\ next = "verify" /\ v \in Tokens
            /\ v.run = run \/ (existing # None /\ v = existing.token)
         \/ f = "db" /\ next = "password" /\ pc = "settings" /\ v \in Nat
         \/ f = "password" /\ next = "test" /\ pc = "password" /\ v \in Nat
  PROVE  IInv'
<1> USE DEF Answer, Step
<1>1. /\ draft' = [draft EXCEPT ![f] = v] /\ pc' = next
      /\ UNCHANGED <<run, existing, before, server, token_rx>>
  BY DEF callback
<1>2. TypeInv'
  BY <1>1 DEF IInv, TypeInv, quiet, files
<1>3. /\ draft'[f] = v
      /\ \A g \in {"token", "db", "password"} \ {f} : draft'[g] = draft[g]
  BY <1>1 DEF IInv, TypeInv
<1>4. DraftInv'
  BY <1>1, <1>3 DEF IInv, DraftInv, Tokenless, Asking, Entered, Saving
<1>5. CallbackInv'
  BY <1>1 DEF IInv, CallbackInv
<1>6. OnlyItsOwnToken'
  BY <1>1, <1>3 DEF OnlyItsOwnToken
<1>7. pc' \in Tokenless \cup (Asking \ Saving) /\ before' = before
  BY <1>1 DEF Tokenless, Asking, Entered, Saving
<1> QED BY <1>2, <1>4, <1>5, <1>6, <1>7, AskStep

\* A step that only goes on.
LEMMA MoveStep ==
  ASSUME IInv, quiet' = quiet, NEW next, Step(next), draft' = draft,
         \/ pc = "resolve" /\ next = "browser"
         \/ pc = "browser" /\ next = "paste"
         \/ pc = "verify" /\ next = "settings"
         \/ pc = "test" /\ next = "save_password"
  PROVE  IInv'
<1> USE DEF Step, callback
<1>1. TypeInv'
  BY DEF IInv, TypeInv, quiet, files
<1>2. DraftInv' /\ CallbackInv'
  BY DEF IInv, DraftInv, CallbackInv, Tokenless, Asking, Entered, Saving
<1>3. OnlyItsOwnToken'
  BY DEF OnlyItsOwnToken
<1>4. /\ pc \in Tokenless \cup (Asking \ Saving) /\ pc' \in Tokenless \cup (Asking \ Saving)
      /\ before' = before
  BY DEF Tokenless, Asking, Entered, Saving
<1> QED BY <1>1, <1>2, <1>3, <1>4, AskStep

\* Every step of the wizard up to the first write.
LEMMA AskingIInv ==
  ASSUME IInv,
         ResolveToken \/ StartCallbackServer \/ ManualPaste \/ AwaitToken \/ VerifyToken
           \/ AskSettings \/ AskPassword \/ TestDatabaseConnection
  PROVE  IInv'
<1>0. run \in Nat /\ existing \in Configs \cup {None} /\ home \in Dirs
  BY DEF IInv, TypeInv
<1>1. \A k \in Kinds : [run |-> run, kind |-> k] \in Tokens /\ [run |-> run, kind |-> k].run = run
  BY <1>0 DEF Tokens
<1>2. existing # None => existing.token \in Tokens /\ existing.db \in Nat
  BY <1>0 DEF Configs
<1>3. quiet' = quiet /\ pc \in Tokenless \cup (Asking \ Saving)
  BY DEF ResolveToken, StartCallbackServer, ManualPaste, AwaitToken, VerifyToken, AskSettings,
         AskPassword, TestDatabaseConnection, Tokenless, Asking, Entered, Saving
<1>4. CASE Exit
  <2>1. UNCHANGED <<home, etc, entered, interrupted, agent>> /\ pc \notin Saving
    BY <1>3 DEF quiet, files, Tokenless, Saving
  <2>2. RunsWhatWasSaved'
    BY <2>1 DEF IInv, RunsWhatWasSaved
  <2> QED BY <1>4, <2>1, <2>2, ExitStep
<1>5. CASE ResolveToken /\ ~Exit
  <2>1. CASE \E k \in Kinds : Answer("token", [run |-> run, kind |-> k], "verify")
    BY <1>1, <1>3, <2>1, AnswerStep
  <2>2. CASE existing # None /\ Answer("token", existing.token, "verify")
    BY <1>2, <1>3, <2>2, AnswerStep
  <2>3. CASE Step("browser") /\ draft' = draft
    BY <1>3, <1>5, <2>3, MoveStep DEF ResolveToken
  <2> QED BY <1>5, <2>1, <2>2, <2>3 DEF ResolveToken
<1>6. CASE StartCallbackServer /\ ~Exit
  <2>1. CASE pc' = "waiting"
    <3>1. /\ server' = run /\ token_rx' = None
          /\ UNCHANGED <<run, existing, before, draft>> /\ pc = "browser"
      BY <1>6, <2>1 DEF StartCallbackServer, Step
    <3>2. TypeInv'
      BY <3>1, <1>3 DEF IInv, TypeInv, quiet, files
    <3>3. DraftInv' /\ CallbackInv' /\ OnlyItsOwnToken'
      BY <3>1, <2>1 DEF IInv, DraftInv, CallbackInv, OnlyItsOwnToken, Tokenless, Asking, Entered, Saving
    <3> QED BY <1>3, <2>1, <3>1, <3>2, <3>3, AskStep DEF Tokenless
  <2>2. CASE Step("paste") /\ draft' = draft
    BY <1>3, <1>6, <2>2, MoveStep DEF StartCallbackServer
  <2> QED BY <1>6, <2>1, <2>2 DEF StartCallbackServer
<1>7. CASE ManualPaste /\ ~Exit
  BY <1>1, <1>3, <1>7, AnswerStep DEF ManualPaste
<1>8. CASE AwaitToken /\ ~Exit
  <2>1. PICK t \in Tokens : Received(t) /\ t.run = run
    BY <1>1, <1>8 DEF AwaitToken, IInv, CallbackInv
  <2>2. /\ pc' = "verify" /\ draft' = [draft EXCEPT !.token = t] /\ token_rx' = None
        /\ UNCHANGED <<run, existing, before, server>>
    BY <2>1 DEF Received
  <2>3. TypeInv' /\ draft'.token = t
    BY <2>2, <1>3 DEF IInv, TypeInv, quiet, files
  <2>4. DraftInv' /\ CallbackInv' /\ OnlyItsOwnToken'
    BY <2>1, <2>2, <2>3 DEF IInv, DraftInv, CallbackInv, OnlyItsOwnToken, Tokenless, Asking, Entered, Saving
  <2> QED BY <1>3, <2>2, <2>3, <2>4, AskStep DEF Asking, Saving
<1>9. CASE VerifyToken /\ ~Exit
  BY <1>3, <1>9, MoveStep DEF VerifyToken
<1>10. CASE AskSettings /\ ~Exit
  BY <1>0, <1>2, <1>3, <1>10, AnswerStep DEF AskSettings
<1>11. CASE AskPassword /\ ~Exit
  BY <1>0, <1>3, <1>11, AnswerStep DEF AskPassword
<1>12. CASE TestDatabaseConnection /\ ~Exit
  BY <1>3, <1>12, MoveStep DEF TestDatabaseConnection
<1> QED BY <1>4, <1>5, <1>6, <1>7, <1>8, <1>9, <1>10, <1>11, <1>12

\* The two files are written, or a write fails.
LEMMA SavingIInv ==
  ASSUME IInv, SavePassword \/ SaveConfig
  PROVE  IInv'
<1> USE DEF Step, callback
<1>0. /\ etc' = etc /\ agent' = agent
      /\ pc \in {"save_password"} \cup Saving
  BY DEF SavePassword, SaveConfig, Saving
<1>1. /\ home = [config |-> home.config, password |-> home.password]
      /\ home.config \in Configs \cup {None, Torn} /\ home.password \in Nat \cup {None, Torn}
  BY DEF IInv, TypeInv, Dirs
<1>2. draft.token \in Tokens /\ draft.db \in Nat /\ draft.password \in Nat
  BY <1>0 DEF IInv, DraftInv, Asking, Entered, Saving
<1>3. CASE Interrupt
  <2>1. Exit /\ interrupted' = TRUE /\ UNCHANGED <<home, etc, entered>>
    BY <1>0, <1>3 DEF Interrupt
  <2>2. RunsWhatWasSaved'
    BY <2>1 DEF RunsWhatWasSaved
  <2> QED BY <2>1, <2>2, ExitStep
<1>4. ASSUME ~Interrupt
      PROVE  /\ UNCHANGED <<draft, interrupted, run, existing, server, token_rx>>
             /\ \/ /\ pc = "save_password" /\ pc' = "password_open" /\ entered' = entered
                   /\ home' = [home EXCEPT !.password = Torn]
                \/ /\ pc = "password_open" /\ pc' = "save_config" /\ entered' = entered
                   /\ home' = [home EXCEPT !.password = draft.password]
                \/ /\ pc = "save_config" /\ pc' = "config_open" /\ entered' = entered
                   /\ home' = [home EXCEPT !.config = Torn]
                \/ /\ pc = "config_open" /\ pc' = "agent"
                   /\ entered' = entered \cup {<<draft.db, draft.password>>}
                   /\ home' = [home EXCEPT !.config = NewConfig]
  BY <1>4 DEF SavePassword, SaveConfig
<1>5. CASE ~Interrupt
  <2> DEFINE c == NewConfig
  <2>1. c \in Configs /\ c.db = draft.db
    BY <1>2 DEF NewConfig, Configs
  <2> HIDE DEF c
  <2>2. \/ /\ pc = "save_password" /\ pc' = "password_open"
           /\ home' = [config |-> home.config, password |-> Torn]
        \/ /\ pc = "password_open" /\ pc' = "save_config"
           /\ home' = [config |-> home.config, password |-> draft.password]
        \/ /\ pc = "save_config" /\ pc' = "config_open"
           /\ home' = [config |-> Torn, password |-> home.password]
        \/ /\ pc = "config_open" /\ pc' = "agent"
           /\ home' = [config |-> c, password |-> home.password]
    BY <1>1, <1>4, <1>5 DEF c
  <2>3. home' \in Dirs
    BY <1>1, <1>2, <2>1, <2>2 DEF Dirs
  <2>4. TypeInv'
    BY <1>0, <1>4, <1>5, <2>3 DEF IInv, TypeInv
  <2>5. DraftInv' /\ CallbackInv' /\ BeforeInv' /\ OnlyItsOwnToken'
    BY <1>4, <1>5 DEF IInv, DraftInv, CallbackInv, BeforeInv, OnlyItsOwnToken, Tokenless, Asking, Entered, Saving
  <2>6. HomeInv'
    <3>0. pc' = "config_open" => home'.config = Torn
      BY <2>2
    <3> SUFFICES ASSUME ~interrupted
                 PROVE  /\ pc' \notin Saving =>
                             /\ home'.config \in Configs
                             /\ <<home'.config.db, home'.password>> \in entered'
                        /\ pc' \in {"save_config", "config_open"} => home'.password = draft.password
      BY <1>4, <1>5, <3>0 DEF HomeInv
    <3>1. CASE pc = "save_password" \/ pc = "password_open"
      BY <3>1, <2>2 DEF Saving
    <3>2. CASE pc = "save_config"
      BY <3>2, <2>2 DEF Saving, IInv, HomeInv
    <3>3. CASE pc = "config_open"
      <4>1. home.password = draft.password
        BY <3>3 DEF IInv, HomeInv
      <4> QED BY <3>3, <4>1, <2>1, <2>2, <1>4, <1>5 DEF Saving
    <3> QED BY <3>1, <3>2, <3>3, <1>0 DEF Saving
  <2>7. RunsWhatWasSaved'
    BY <1>0, <1>4, <1>5 DEF IInv, RunsWhatWasSaved
  <2> QED BY <2>4, <2>5, <2>6, <2>7 DEF IInv
<1> QED BY <1>3, <1>5

\* An agent starts from the files of one setup, or from the service's environment.
LEMMA RunAgentIInv ==
  ASSUME IInv, NEW e, RunAgent(e)
  PROVE  IInv'
<1>1. /\ agent' = FromEnv(e) /\ UNCHANGED <<home, etc, entered, interrupted>>
      /\ pc \in {"off", "agent"} \cup Saving /\ (Exit => pc \in {"off", "agent"})
  BY DEF RunAgent, files, Saving, Exit, wizard
<1>2. RunsWhatWasSaved'
  <2> SUFFICES ASSUME agent' # None, ~interrupted, ~agent'.amid, agent'.by = "file"
               PROVE  <<agent'.db, agent'.password>> \in entered
    BY <1>1 DEF RunsWhatWasSaved
  <2> DEFINE c == IF e # None THEN e ELSE Load
             a == [token |-> c.token, db |-> c.db, ca |-> c.ca, password |-> PasswordOf(c),
                   by |-> IF e # None THEN "service" ELSE "file",
                   amid |-> pc \in {"password_open", "save_config"}]
  <2>1. agent' = a /\ c # None /\ PasswordOf(c) # None
    BY <1>1 DEF FromEnv
  <2>2. e = None /\ c = Load /\ agent'.db = c.db /\ agent'.password = home.password
        /\ pc \notin {"password_open", "save_config"}
    BY <2>1 DEF PasswordOf
  <2> HIDE DEF c, a
  <2>3. home.password # None
    BY <2>1, <2>2 DEF PasswordOf
  <2>4. home.config \in Configs /\ <<home.config.db, home.password>> \in entered
    <3>1. pc # "config_open"
      BY <2>1, <2>2, SetupAssumption DEF IInv, HomeInv, Load, Parsed
    <3> QED BY <2>2, <2>3, <3>1, <1>1 DEF IInv, HomeInv, NoDir, Saving
  <2>5. Load = home.config
    BY <2>4, SetupAssumption DEF Load, Parsed
  <2> QED BY <2>2, <2>4, <2>5
<1>3. CASE Exit
  BY <1>1, <1>2, <1>3, ExitStep DEF Saving
<1>4. CASE UNCHANGED <<wizard, callback>>
  <2>1. /\ UNCHANGED <<pc, run, existing, draft, before, server, token_rx>>
    BY <1>4 DEF wizard, callback
  <2>2. TypeInv' /\ DraftInv' /\ CallbackInv'
    BY <1>1, <2>1 DEF IInv, TypeInv, DraftInv, CallbackInv
  <2>3. BeforeInv' /\ HomeInv' /\ OnlyItsOwnToken'
    BY <1>1, <2>1 DEF IInv, BeforeInv, HomeInv, OnlyItsOwnToken
  <2> QED BY <1>2, <2>2, <2>3 DEF IInv
<1> QED BY <1>3, <1>4 DEF RunAgent

\* A wizard starts.
LEMMA RunSetupIInv ==
  ASSUME IInv, RunSetup
  PROVE  IInv'
<1>1. /\ pc = "off" /\ pc' = "resolve" /\ run' = run + 1 /\ existing' = Load /\ before' = home
      /\ draft' = NoDraft
      /\ UNCHANGED <<server, token_rx, home, etc, agent, entered, interrupted>>
  BY DEF RunSetup, callback, files
<1>2. Load \in Configs \cup {None}
  BY DEF Load, Parsed, IInv, TypeInv, Dirs
<1>3. TypeInv'
  BY <1>1, <1>2 DEF IInv, TypeInv, NoDraft
<1>4. DraftInv' /\ CallbackInv' /\ BeforeInv' /\ OnlyItsOwnToken'
  BY <1>1 DEF IInv, DraftInv, CallbackInv, BeforeInv, OnlyItsOwnToken, Tokenless, Asking, Entered, Saving
<1>5. HomeInv' /\ RunsWhatWasSaved'
  BY <1>1 DEF IInv, HomeInv, RunsWhatWasSaved, Saving
<1> QED BY <1>3, <1>4, <1>5 DEF IInv

\* A browser tab calls back.
LEMMA CallbackIInv ==
  ASSUME IInv, NEW s \in 1..run \cup {None},
         Callback(s, None) \/ \E k \in Kinds : Callback(s, [run |-> s, kind |-> k])
  PROVE  IInv'
<1>1. /\ UNCHANGED <<pc, run, existing, draft, before, server>>
      /\ UNCHANGED <<home, etc, agent, entered, interrupted>> /\ server # None
  BY DEF Callback, wizard, quiet, files
<1>2. \/ token_rx' = token_rx
      \/ s = server /\ pc = "waiting" /\ \E k \in Kinds : token_rx' = [run |-> s, kind |-> k]
  BY DEF Callback
<1>3. run \in Nat /\ server = run
  BY <1>1 DEF IInv, TypeInv, CallbackInv
<1>4. CallbackInv'
  BY <1>1, <1>2, <1>3 DEF IInv, CallbackInv, Tokens
<1>5. TypeInv' /\ DraftInv'
  BY <1>1 DEF IInv, TypeInv, DraftInv
<1>6. BeforeInv' /\ HomeInv' /\ OnlyItsOwnToken' /\ RunsWhatWasSaved'
  BY <1>1 DEF IInv, BeforeInv, HomeInv, OnlyItsOwnToken, RunsWhatWasSaved
<1> QED BY <1>4, <1>5, <1>6 DEF IInv

\* The service, the user's editor, and nothing at all.
LEMMA OutsideIInv ==
  ASSUME IInv, StopAgent \/ Install \/ Uninstall \/ EditConfig \/ UNCHANGED vars
  PROVE  IInv'
<1>1. /\ UNCHANGED <<pc, run, existing, draft, before, server, token_rx, entered, interrupted>>
      /\ agent' = agent \/ agent' = None
  BY DEF StopAgent, Install, Uninstall, EditConfig, vars, wizard, callback, files
<1>2. RunsWhatWasSaved'
  BY <1>1 DEF IInv, RunsWhatWasSaved
<1>3. home' \in Dirs /\ etc' \in Dirs /\ (pc # "off" => home' = home)
      /\ (home' = home \/ /\ home.config \in Configs /\ home'.config \in Configs
                          /\ home'.config.db = home.config.db /\ home'.password = home.password)
  <2>0. home \in Dirs /\ etc \in Dirs
    BY DEF IInv, TypeInv
  <2>1. CASE EditConfig
    <3> DEFINE d == [home.config EXCEPT !.ca = "ca"]
    <3>1. home' = [home EXCEPT !.config = d] /\ etc' = etc /\ pc = "off" /\ home.config \in Configs
      BY <2>0, <2>1 DEF EditConfig, Dirs, Parsed
    <3>2. d \in Configs /\ d.db = home.config.db
      BY <3>1 DEF Configs
    <3> HIDE DEF d
    <3> QED BY <2>0, <3>1, <3>2 DEF Dirs
  <2>2. CASE Install
    BY <2>0, <2>2 DEF Install
  <2>3. CASE StopAgent \/ Uninstall \/ UNCHANGED vars
    BY <2>0, <2>3 DEF StopAgent, Uninstall, vars, files
  <2> QED BY <2>1, <2>2, <2>3
<1>4. TypeInv' /\ DraftInv' /\ CallbackInv' /\ OnlyItsOwnToken'
  BY <1>1, <1>3 DEF IInv, TypeInv, DraftInv, CallbackInv, OnlyItsOwnToken
<1>5. BeforeInv'
  BY <1>1, <1>3 DEF IInv, BeforeInv, Tokenless, Asking, Entered, Saving
<1>6. HomeInv'
  BY <1>1, <1>3, SetupAssumption DEF IInv, HomeInv, NoDir, Saving
<1> QED BY <1>2, <1>4, <1>5, <1>6 DEF IInv

\* Every step preserves the invariant.
LEMMA NextIInv ==
  ASSUME IInv, [Next]_vars
  PROVE  IInv'
<1>1. CASE Kill
  <2>1. /\ Exit /\ UNCHANGED <<home, etc, entered, agent>>
        /\ interrupted' = (interrupted \/ pc \in Saving)
    BY <1>1 DEF Kill, files, Saving
  <2>2. RunsWhatWasSaved'
    BY <2>1 DEF IInv, RunsWhatWasSaved
  <2> QED BY <2>1, <2>2, ExitStep
<1> QED BY <1>1, RunSetupIInv, AskingIInv, SavingIInv, RunAgentIInv, CallbackIInv, OutsideIInv
        DEF Next, Wizard

\* IInv holds in every reachable state.
LEMMA Invariance == Spec => []IInv
BY InitIInv, NextIInv, PTL DEF Spec

-----------------------------------------------------------------------------
\* An agent that reads config.toml and .db-password never joins the settings of
\* one setup with the password of another, unless a save was interrupted or the
\* agent started between the writes of the two files.
THEOREM RunsWhatWasSavedHolds == Spec => []RunsWhatWasSaved
<1>1. IInv => RunsWhatWasSaved
  BY DEF IInv
<1> QED BY <1>1, Invariance, PTL

\* No setup takes the token that a browser tab of an earlier setup sends to the
\* callback server, however late.
THEOREM OnlyItsOwnTokenHolds == Spec => []OnlyItsOwnToken
<1>1. IInv => OnlyItsOwnToken
  BY DEF IInv
<1> QED BY <1>1, Invariance, PTL

\* A setup that ends before the first fs::write leaves the directory as it was;
\* one that ends while it writes is counted as interrupted.
THEOREM FailureChangesNothingHolds == Spec => FailureChangesNothing
<1> DEFINE Unharmed == pc # "off" /\ pc # "agent" /\ pc' = "off" /\ ~interrupted' => home' = before
<1>1. IInv /\ [Next]_vars => [Unharmed]_vars
  <2> SUFFICES ASSUME IInv, Next, pc # "off", pc # "agent", pc' = "off", ~interrupted'
               PROVE  home' = before
    OBVIOUS
  <2>1. pc \in Tokenless \cup Asking
    BY DEF IInv, DraftInv
  <2>2. home' = home /\ pc \notin Saving
    <3>1. CASE Kill
      BY <3>1 DEF Kill, files, Saving
    <3>2. CASE SavePassword \/ SaveConfig
      BY <3>2 DEF SavePassword, SaveConfig, Interrupt, Step
    <3>3. CASE Wizard /\ ~(SavePassword \/ SaveConfig)
      BY <3>3 DEF Wizard, ResolveToken, StartCallbackServer, ManualPaste, AwaitToken, VerifyToken,
             AskSettings, AskPassword, TestDatabaseConnection, quiet, files, Saving
    <3>4. CASE ~Kill /\ ~Wizard
      BY <3>4 DEF Next, RunSetup, Callback, RunAgent, StopAgent, Install, Uninstall, EditConfig, wizard
    <3> QED BY <3>1, <3>2, <3>3, <3>4
  <2> QED BY <2>1, <2>2 DEF IInv, BeforeInv
<1>2. Spec => [][Unharmed]_vars
  BY <1>1, Invariance, PTL DEF Spec
<1> QED BY <1>2 DEF FailureChangesNothing
=============================================================================
