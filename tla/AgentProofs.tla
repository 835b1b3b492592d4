---------------------------- MODULE AgentProofs ----------------------------
(***************************************************************************)
(* The readiness loop notices every change of the database within one      *)
(* period and one timeout, for all periods and timeouts.                   *)
(***************************************************************************)
EXTENDS Agent, TLAPS

(***************************************************************************)
(* The inductive invariant.  A running test started when the interval      *)
(* ticked (CheckInv).  What it may still report about a database that has  *)
(* changed since is no older than the test itself (SeenInv).  A flag that  *)
(* is wrong has been so for no longer than the interval runs, and while    *)
(* the test that will correct it runs, a period longer (StaleInv).         *)
(***************************************************************************)
CheckInv ==
  /\ checked => process = "serving"
  /\ check = "running" => /\ process = "serving"
                          /\ check_age = since_tick
                          /\ since_tick <= CheckTimeout

SeenInv ==
  check = "running" =>
    /\ database \in seen
    /\ \A d \in seen : d # database => stable <= check_age

Wrong == db_healthy # (database = "up")

StaleInv ==
  checked /\ Wrong =>
    /\ check = "idle" => stable <= since_tick
    /\ check = "running" => stable <= since_tick + RefreshPeriod

IInv == TypeOK /\ CheckInv /\ SeenInv /\ StaleInv

-----------------------------------------------------------------------------
\* The initial states satisfy the invariant: no test is running and none has
\* ended.
LEMMA InitIInv == Init => IInv
<1> USE AgentAssumption DEF Init
<1>1. Init => TypeOK
  <2>1. ProbePeriod - ProbeDelay \in 0..ProbePeriod /\ 0 \in 0..(FailureThreshold - 1)
    OBVIOUS
  <2>2. 0 \in 0..(Lag + 1) /\ RefreshPeriod \in 0..RefreshPeriod /\ 0 \in 0..CheckTimeout
    BY DEF Lag
  <2> QED
    BY <2>1, <2>2 DEF TypeOK
<1>2. Init => CheckInv /\ SeenInv /\ StaleInv
  BY DEF CheckInv, SeenInv, StaleInv
<1> QED
  BY <1>1, <1>2 DEF IInv

\* A new process satisfies the invariant like the first one.
LEMMA RestartIInv ==
  ASSUME IInv, Restart, killed' \in {"none", "testing", "connecting", "serving", "unbound"}
  PROVE  IInv'
<1> USE AgentAssumption DEF Restart, dbVars
<1>1. TypeOK'
  <2>1. ProbePeriod - ProbeDelay \in 0..ProbePeriod /\ 0 \in 0..(FailureThreshold - 1)
    OBVIOUS
  <2>2. RefreshPeriod \in 0..RefreshPeriod /\ 0 \in 0..CheckTimeout
    OBVIOUS
  <2> QED
    BY <2>1, <2>2 DEF IInv, TypeOK
<1>2. CheckInv' /\ SeenInv' /\ StaleInv'
  BY DEF CheckInv, SeenInv, StaleInv
<1> QED
  BY <1>1, <1>2 DEF IInv

\* Every step of the startup sequence, the readiness loop, the probe and the
\* environment preserves the invariant.
LEMMA NextIInv == IInv /\ [Next]_vars => IInv'
<1> SUFFICES ASSUME IInv, [Next]_vars
             PROVE  IInv'
  OBVIOUS
<1> USE AgentAssumption DEF IInv, flags, loopVars, dbVars, probeVars
<1>1. CASE StartupOk
  <2>1. TypeOK'
    BY <1>1 DEF StartupOk, TypeOK, Lag
  <2>2. CheckInv' /\ SeenInv' /\ StaleInv'
    BY <1>1 DEF StartupOk, TypeOK, CheckInv, SeenInv, StaleInv, Wrong
  <2> QED
    BY <2>1, <2>2
<1>2. CASE StartupFails
  <2>1. killed' \in {"none", "testing", "connecting", "serving", "unbound"}
    BY <1>2 DEF StartupFails, TypeOK
  <2> QED
    BY <1>2, <2>1, RestartIInv DEF StartupFails
<1>3. CASE StartServing
  <2>1. TypeOK'
    BY <1>3 DEF StartServing, TypeOK, Lag
  <2>2. CheckInv' /\ SeenInv' /\ StaleInv'
    BY <1>3 DEF StartServing, TypeOK, CheckInv, SeenInv, StaleInv, Wrong
  <2> QED
    BY <2>1, <2>2
<1>4. CASE RefreshTick
  <2>1. TypeOK'
    BY <1>4 DEF RefreshTick, TypeOK, Lag
  <2>2. CheckInv' /\ SeenInv'
    BY <1>4 DEF RefreshTick, TickDue, TypeOK, CheckInv, SeenInv
  <2>3. StaleInv'
    BY <1>4 DEF RefreshTick, TickDue, TypeOK, StaleInv, Wrong, Lag
  <2> QED
    BY <2>1, <2>2, <2>3
<1>5. CASE CheckReturns
  <2>1. PICK found \in seen : db_healthy' = (found = "up")
    BY <1>5 DEF CheckReturns
  <2>2. TypeOK'
    BY <1>5, <2>1 DEF CheckReturns, TypeOK, Lag
  <2>3. CheckInv' /\ SeenInv'
    BY <1>5 DEF CheckReturns, CheckInv, SeenInv
  <2>4. Wrong' => found # database
    BY <1>5, <2>1 DEF CheckReturns, Wrong
  <2>5. StaleInv'
    BY <1>5, <2>4 DEF CheckReturns, CheckInv, SeenInv, StaleInv
  <2> QED
    BY <2>2, <2>3, <2>5
<1>6. CASE CheckTimesOut
  <2>1. TypeOK'
    BY <1>6 DEF CheckTimesOut, TypeOK, Lag
  <2>2. CheckInv' /\ SeenInv'
    BY <1>6 DEF CheckTimesOut, CheckInv, SeenInv
  <2>3. Wrong' => database # "down"
    BY <1>6 DEF CheckTimesOut, Wrong
  <2>4. StaleInv'
    BY <1>6, <2>3 DEF CheckTimesOut, CheckInv, SeenInv, StaleInv
  <2> QED
    BY <2>1, <2>2, <2>4
<1>7. CASE LivenessProbe
  <2>1. CASE UNCHANGED <<process, flags, loopVars, dbVars, killed>> /\ since_probe' = 0
             /\ failures' \in 0..(FailureThreshold - 1)
    <3>1. TypeOK'
      BY <2>1 DEF TypeOK, Lag
    <3>2. CheckInv' /\ SeenInv' /\ StaleInv'
      BY <2>1 DEF CheckInv, SeenInv, StaleInv, Wrong
    <3> QED
      BY <3>1, <3>2
  <2>2. CASE Restart /\ killed' = IF process = "serving" /\ ~health_server
                                  THEN "unbound" ELSE process
    <3>1. killed' \in {"none", "testing", "connecting", "serving", "unbound"}
      BY <2>2 DEF TypeOK
    <3> QED
      BY <2>2, <3>1, RestartIInv
  <2> QED
    BY <1>7, <2>1, <2>2 DEF LivenessProbe, TypeOK
<1>8. CASE DatabaseChanges
  <2>1. TypeOK'
    BY <1>8 DEF DatabaseChanges, TypeOK, Lag
  <2>2. CheckInv' /\ SeenInv'
    BY <1>8 DEF DatabaseChanges, TypeOK, CheckInv, SeenInv
  <2>3. StaleInv'
    BY <1>8 DEF DatabaseChanges, TypeOK, StaleInv
  <2> QED
    BY <2>1, <2>2, <2>3
<1>9. CASE WsChanges
  <2>1. TypeOK'
    BY <1>9 DEF WsChanges, TypeOK, Lag
  <2>2. CheckInv' /\ SeenInv' /\ StaleInv'
    BY <1>9 DEF WsChanges, CheckInv, SeenInv, StaleInv, Wrong
  <2> QED
    BY <2>1, <2>2
<1>10. CASE Advance
  <2>1. TypeOK'
    BY <1>10 DEF Advance, TickDue, ProbeDue, TypeOK, CheckInv, Lag
  <2>2. CheckInv' /\ SeenInv'
    BY <1>10 DEF Advance, TypeOK, CheckInv, SeenInv
  <2>3. Wrong' <=> Wrong
    BY <1>10 DEF Advance, Wrong
  <2>4. StaleInv'
    BY <1>10, <2>3 DEF Advance, TypeOK, CheckInv, StaleInv
  <2> QED
    BY <2>1, <2>2, <2>4
<1>11. CASE UNCHANGED vars
  <2>1. TypeOK'
    BY <1>11 DEF vars, TypeOK, Lag
  <2>2. CheckInv' /\ SeenInv' /\ StaleInv'
    BY <1>11 DEF vars, CheckInv, SeenInv, StaleInv, Wrong
  <2> QED
    BY <2>1, <2>2
<1> QED
  BY <1>1, <1>2, <1>3, <1>4, <1>5, <1>6, <1>7, <1>8, <1>9, <1>10, <1>11 DEF Next

\* The invariant holds in every reachable state.
LEMMA InvariantHolds == Spec => []IInv
BY InitIInv, NextIInv, PTL DEF Spec

-----------------------------------------------------------------------------
\* Type correctness; in particular no timer of the readiness loop or of the
\* probe runs past its deadline.
THEOREM TypeCorrect == Spec => []TypeOK
<1>1. IInv => TypeOK
  BY DEF IInv
<1> QED
  BY <1>1, InvariantHolds, PTL

\* An outage is reported after at most a period and a timeout, for every
\* period and every timeout that is no longer (refresh_database_readiness).
THEOREM OutageNoticedHolds == Spec => []OutageNoticed
<1>1. IInv => OutageNoticed
  BY AgentAssumption DEF IInv, TypeOK, CheckInv, StaleInv, Wrong, OutageNoticed, Lag
<1> QED
  BY <1>1, InvariantHolds, PTL

\* The same for the return of the database.
THEOREM RecoveryNoticedHolds == Spec => []RecoveryNoticed
<1>1. IInv => RecoveryNoticed
  BY AgentAssumption DEF IInv, TypeOK, CheckInv, StaleInv, Wrong, RecoveryNoticed, Lag
<1> QED
  BY <1>1, InvariantHolds, PTL
=============================================================================
