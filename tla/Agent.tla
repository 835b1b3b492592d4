------------------------------- MODULE Agent -------------------------------
(***************************************************************************)
(* The agent process as its orchestrator sees it: the startup sequence and *)
(* the readiness loop of run_agent (crates/kyomi-connect/src/main.rs), the *)
(* health endpoints (health.rs) and the liveness probe that the Helm chart *)
(* configures.  Time is counted in units of five seconds.                  *)
(*                                                                         *)
(* ws_connected goes up and down as module WsClient decides; here it is an *)
(* environment step.  `database` is what a connection test would find.     *)
(***************************************************************************)
EXTENDS Naturals

CONSTANTS
  RefreshPeriod,     \* interval(30 s)
  CheckTimeout,      \* the 5 s given to refresh_database_readiness
  ProbePeriod,       \* livenessProbe.periodSeconds
  ProbeDelay,        \* livenessProbe.initialDelaySeconds
  FailureThreshold,  \* failed probes in a row after which a process is killed
  LivenessPath       \* livenessProbe.httpGet.path: "/healthz" in the chart

ASSUME AgentAssumption ==
  /\ RefreshPeriod \in Nat \ {0}
  /\ CheckTimeout \in 1..RefreshPeriod
  /\ ProbePeriod \in Nat \ {0}
  /\ ProbeDelay \in 0..ProbePeriod
  /\ FailureThreshold \in Nat \ {0}
  /\ LivenessPath \in {"/healthz", "/livez"}

VARIABLES
  process,       \* "testing" (token, database), "connecting" (connect_once),
                 \* "serving"
  ws_connected,
  db_healthy,
  health_server, \* the health server's port could be bound
  since_tick,    \* time since the interval ticked
  check,         \* the connection test: "idle" or "running"
  check_age,     \* time since it started
  seen,          \* states of the database since it started
  database,      \* "up" or "down"
  stable,        \* time since the database changed, up to Lag + 1
  since_probe,   \* time since the last liveness probe
  failures,      \* failed probes in a row
  checked,       \* history: a connection test has ended in this process
  killed         \* history: where the process was when it was last killed

flags == <<ws_connected, db_healthy, health_server>>
loopVars == <<since_tick, check, check_age, seen, checked>>
dbVars == <<database, stable>>
probeVars == <<since_probe, failures, killed>>
vars == <<process, flags, loopVars, dbVars, probeVars>>

\* The delay that docs/deployment.md states.
Lag == RefreshPeriod + CheckTimeout

Init ==
  /\ process = "testing"
  /\ ws_connected = FALSE
  /\ db_healthy = TRUE
  /\ health_server = FALSE
  /\ since_tick = RefreshPeriod
  /\ check = "idle"
  /\ check_age = 0
  /\ seen = {}
  /\ checked = FALSE
  /\ database \in {"up", "down"}
  /\ stable = 0
  /\ since_probe = ProbePeriod - ProbeDelay
  /\ failures = 0
  /\ killed = "none"

-----------------------------------------------------------------------------
(* Startup *)

\* A new process: what the old one kept in memory is gone.
Restart ==
  /\ process' = "testing"
  /\ ws_connected' = FALSE
  /\ db_healthy' = TRUE
  /\ health_server' = FALSE
  /\ since_tick' = RefreshPeriod
  /\ check' = "idle"
  /\ check_age' = 0
  /\ seen' = {}
  /\ checked' = FALSE
  /\ since_probe' = ProbePeriod - ProbeDelay
  /\ failures' = 0
  /\ UNCHANGED dbVars

\* The token is valid and the database answers.
StartupOk ==
  /\ process = "testing"
  /\ database = "up"
  /\ process' = "connecting"
  /\ UNCHANGED <<flags, loopVars, dbVars, probeVars>>

\* The token or the connection test is refused: exit(1).
StartupFails ==
  /\ process = "testing"
  /\ Restart
  /\ UNCHANGED killed

\* fetch_connect_info_safe and connect_once have returned, whatever they say;
\* nothing bounds the time they take.  Only now are the flags created and the
\* health server, which gives up if it cannot bind its port, and the readiness
\* loop spawned.
StartServing ==
  /\ process = "connecting"
  /\ process' = "serving"
  /\ health_server' \in BOOLEAN
  /\ UNCHANGED <<ws_connected, db_healthy, loopVars, dbVars, probeVars>>

-----------------------------------------------------------------------------
(* The readiness loop *)

\* interval.tick(): the first one is immediate, later ones follow a period
\* after the one before (MissedTickBehavior::Delay).
TickDue == process = "serving" /\ check = "idle" /\ since_tick >= RefreshPeriod

\* Mutant: the interval is not restarted.
RefreshTickKeepsTime ==
  /\ TickDue
  /\ check' = "running"
  /\ check_age' = 0
  /\ seen' = {database}
  /\ UNCHANGED <<process, flags, since_tick, checked, dbVars, probeVars>>

RefreshTick ==
  /\ TickDue
  /\ since_tick' = 0
  /\ check' = "running"
  /\ check_age' = 0
  /\ seen' = {database}
  /\ UNCHANGED <<process, flags, checked, dbVars, probeVars>>

\* Mutant: once down, readiness never comes back.
CheckReturnsSticky ==
  /\ check = "running"
  /\ \E found \in seen : db_healthy' = (db_healthy /\ found = "up")
  /\ check' = "idle"
  /\ checked' = TRUE
  /\ UNCHANGED <<process, ws_connected, health_server, since_tick, check_age, seen, dbVars, probeVars>>

\* The test returns what it found at some moment since it started.
CheckReturns ==
  /\ check = "running"
  /\ \E found \in seen : db_healthy' = (found = "up")
  /\ check' = "idle"
  /\ checked' = TRUE
  /\ UNCHANGED <<process, ws_connected, health_server, since_tick, check_age, seen, dbVars, probeVars>>

\* Mutant: a test that times out leaves the flag as it is.
CheckTimesOutKeepsFlag ==
  /\ check = "running"
  /\ check_age = CheckTimeout
  /\ "down" \in seen
  /\ check' = "idle"
  /\ checked' = TRUE
  /\ UNCHANGED <<process, flags, since_tick, check_age, seen, dbVars, probeVars>>

\* The test hangs on a database that is down until the timeout.
CheckTimesOut ==
  /\ check = "running"
  /\ check_age = CheckTimeout
  /\ "down" \in seen
  /\ db_healthy' = FALSE
  /\ check' = "idle"
  /\ checked' = TRUE
  /\ UNCHANGED <<process, ws_connected, health_server, since_tick, check_age, seen, dbVars, probeVars>>

-----------------------------------------------------------------------------
(* The health endpoints and their probe *)

\* The answers are 200; without the server there is none.
Healthz == health_server /\ ws_connected /\ db_healthy

Livez == health_server

ProbeDue == since_probe >= ProbePeriod

ProbePasses == IF LivenessPath = "/livez" THEN Livez ELSE Healthz

\* The kubelet probes the container; too many failures in a row kill it.
LivenessProbe ==
  /\ ProbeDue
  /\ \/ /\ ProbePasses
        /\ since_probe' = 0
        /\ failures' = 0
        /\ UNCHANGED <<process, flags, loopVars, dbVars, killed>>
     \/ /\ ~ProbePasses
        /\ failures + 1 < FailureThreshold
        /\ since_probe' = 0
        /\ failures' = failures + 1
        /\ UNCHANGED <<process, flags, loopVars, dbVars, killed>>
     \/ /\ ~ProbePasses
        /\ failures + 1 >= FailureThreshold
        /\ killed' = IF process = "serving" /\ ~health_server THEN "unbound" ELSE process
        /\ Restart

-----------------------------------------------------------------------------
(* The environment *)

DatabaseChanges ==
  /\ database' = IF database = "up" THEN "down" ELSE "up"
  /\ stable' = 0
  /\ seen' = IF check = "running" THEN seen \cup {database'} ELSE seen
  /\ UNCHANGED <<process, flags, since_tick, check, check_age, checked, probeVars>>

\* run_forever publishes or withdraws the WebSocket session.
WsChanges ==
  /\ process = "serving"
  /\ ws_connected' = ~ws_connected
  /\ UNCHANGED <<process, db_healthy, health_server, loopVars, dbVars, probeVars>>

\* Time passes unless a timer is due.
Advance ==
  /\ ~TickDue
  /\ ~ProbeDue
  /\ ~(check = "running" /\ check_age = CheckTimeout)
  /\ since_tick' = IF process = "serving" THEN since_tick + 1 ELSE since_tick
  /\ check_age' = IF check = "running" THEN check_age + 1 ELSE 0
  /\ stable' = IF stable <= Lag THEN stable + 1 ELSE stable
  /\ since_probe' = since_probe + 1
  /\ UNCHANGED <<process, flags, check, seen, checked, database, failures, killed>>

Next ==
  \/ StartupOk
  \/ StartupFails
  \/ StartServing
  \/ RefreshTick
  \/ CheckReturns
  \/ CheckTimesOut
  \/ LivenessProbe
  \/ DatabaseChanges
  \/ WsChanges
  \/ Advance

Spec == Init /\ [][Next]_vars

-----------------------------------------------------------------------------
(* Properties *)

\* Every variable has its type; no timer runs past its deadline.
TypeOK ==
  /\ process \in {"testing", "connecting", "serving"}
  /\ ws_connected \in BOOLEAN
  /\ db_healthy \in BOOLEAN
  /\ health_server \in BOOLEAN
  /\ since_tick \in 0..RefreshPeriod
  /\ check \in {"idle", "running"}
  /\ check_age \in 0..CheckTimeout
  /\ seen \subseteq {"up", "down"}
  /\ database \in {"up", "down"}
  /\ stable \in 0..(Lag + 1)
  /\ since_probe \in 0..ProbePeriod
  /\ failures \in 0..(FailureThreshold - 1)
  /\ checked \in BOOLEAN
  /\ killed \in {"none", "testing", "connecting", "serving", "unbound"}

\* Once the readiness loop has completed a test, it reports an outage that has
\* lasted longer than one period and one timeout, however the outage falls
\* between and into the tests (refresh_database_readiness and its loop).
OutageNoticed ==
  process = "serving" /\ checked /\ database = "down" /\ stable > Lag => ~db_healthy

\* The same for the database's return: readiness recovers by itself.
RecoveryNoticed ==
  process = "serving" /\ checked /\ database = "up" /\ stable > Lag => db_healthy

\* A serving agent is never restarted for a readiness failure (an outage of
\* the backend or of the database): docs/deployment.md asks for it and names
\* /livez as the liveness path.  The chart's livenessProbe asks /healthz.
ServingNeverKilled == killed # "serving"
=============================================================================
