-------------------------- MODULE SshTunnelProofs --------------------------
(***************************************************************************)
(* What closing and dropping a tunnel leaves behind, for any number of     *)
(* Unix sockets and connections, wherever closes have been dropped.        *)
(***************************************************************************)
EXTENDS SshTunnel, TLAPS

Owners == {"idle", "dialing", "trusted", "failed", "open", "closed", "dropped",
           "await_main", "abort_main", "close_proxy", "await_proxy", "close_unix", "await_unix"}

ConnStates ==
  [via : Listeners \cup {None},
   relay : {"none", "backlog", "header", "dial", "piping", "done", "reaped"},
   fwd : {"none", "backlog", "opening", "piping", "done", "reaped"}]

TypeInv ==
  /\ owner \in Owners
  /\ task \in [Listeners -> {"none", "parked", "awake", "draining", "ended"}]
  /\ handles \subseteq {"main", "proxy"}
  /\ unix \in Ports \cup {None}
  /\ conn \in [Conns -> ConnStates]

\* A listener whose handle nobody has is over or about to be, unless close still
\* waits for it or has detached it; if no close was dropped it is over, or close
\* waits for it.
HandleInv ==
  /\ "main" \notin handles /\ owner # "await_main" => Over("main") \/ "main" \in aborted \cup Detached
  /\ "proxy" \notin handles => Over("proxy") \/ "proxy" \in aborted
  /\ cancelled = {} /\ owner # "dropped" =>
       /\ "main" \notin handles /\ owner \notin {"await_main", "abort_main"} => Over("main")
       /\ "proxy" \notin handles /\ owner # "await_proxy" => Over("proxy")

\* A relay that is not the tunnel's own any more is over or about to be.
RelayInv ==
  /\ \A p \in Ports : p # unix => Over(p) \/ p \in aborted
  /\ owner = "await_unix" => unix # None /\ (task[unix] = "ended" \/ unix \in aborted)

\* The handles there are before connect has returned, and what close has taken
\* by the time it gets to each of its steps.
TakenInv ==
  /\ owner \in {"idle", "dialing", "trusted"} => handles = {}
  /\ owner \in {"await_main", "abort_main", "close_proxy"} => "main" \notin handles
  /\ owner \in {"await_proxy", "close_unix", "await_unix", "closed", "dropped"} => handles = {}
  /\ owner \in {"closed", "dropped"} => unix = None

IInv == TypeInv /\ HandleInv /\ RelayInv /\ TakenInv /\ NoOrphanedSocket

-----------------------------------------------------------------------------
\* The initial state satisfies the invariant.
LEMMA InitIInv == Init => IInv
<1> SUFFICES ASSUME Init PROVE IInv
  OBVIOUS
<1>1. NoConn \in ConnStates
  BY DEF NoConn, ConnStates
<1>2. TypeInv
  BY <1>1 DEF Init, TypeInv, Owners
<1>3. \A l \in Listeners : Over(l)
  BY DEF Init, Over
<1>4. HandleInv /\ RelayInv /\ TakenInv
  BY <1>3 DEF Init, HandleInv, Detached, RelayInv, TakenInv, Listeners
<1>5. NoOrphanedSocket
  BY DEF Init, NoOrphanedSocket
<1> QED BY <1>2, <1>4, <1>5 DEF IInv

\* A step of a listener task, which has a handle or is waited for while it runs.
LEMMA TaskStep ==
  ASSUME IInv, NEW l \in Listeners, NEW x \in {"parked", "awake", "draining", "ended"},
         UNCHANGED <<owner, held, cancelled>>, conn' \in [Conns -> ConnStates],
         task' = [task EXCEPT ![l] = x], ~Over(l) \/ x = "ended",
         \/ aborted' = aborted
         \/ x = "ended" /\ aborted' = aborted \ {l}
  PROVE  IInv'
<1> USE DEF held
<1>1. /\ task'[l] = x
      /\ \A k \in Listeners \ {l} : task'[k] = task[k]
  BY DEF IInv, TypeInv
<1>2. TypeInv'
  BY DEF IInv, TypeInv
<1>3. \A k \in Listeners : Over(k) => Over(k)'
  BY <1>1 DEF Over
<1>4. \A k \in Listeners : k \in aborted => Over(k)' \/ k \in aborted'
  BY <1>1 DEF Over
<1>5. HandleInv'
  BY <1>3, <1>4 DEF IInv, HandleInv, Detached, Listeners
<1>6. RelayInv'
  <2>1. \A p \in Ports : p # unix' => Over(p)' \/ p \in aborted'
    BY <1>3, <1>4 DEF IInv, RelayInv, Listeners
  <2>2. ASSUME owner' = "await_unix"
        PROVE  unix' # None /\ (task'[unix'] = "ended" \/ unix' \in aborted')
    <3>1. unix \in Listeners /\ unix # None /\ (task[unix] = "ended" \/ unix \in aborted)
      BY <2>2 DEF IInv, TypeInv, RelayInv, Listeners
    <3> QED BY <3>1, <1>1 DEF Over
  <2> QED BY <2>1, <2>2 DEF RelayInv
<1>7. TakenInv' /\ NoOrphanedSocket'
  BY DEF IInv, TakenInv, NoOrphanedSocket
<1> QED BY <1>2, <1>5, <1>6, <1>7 DEF IInv

\* A step of connections and of the session only.
LEMMA ConnStepIInv ==
  ASSUME IInv, UNCHANGED <<owner, listening, held, cancelled>>, conn' \in [Conns -> ConnStates]
  PROVE  IInv'
BY DEF IInv, TypeInv, HandleInv, Detached, RelayInv, TakenInv, NoOrphanedSocket, Over, Detached, listening, held

\* Connections stay well formed, and nothing else changes with them.
LEMMA ConnSteps ==
  ASSUME IInv, NEW c \in Conns, ConnStep(c)
  PROVE  UNCHANGED elsewhere /\ conn' \in [Conns -> ConnStates]
<1> DEFINE k == conn[c]
<1>0. conn \in [Conns -> ConnStates]
  BY DEF IInv, TypeInv
<1>1. k \in ConnStates
  BY <1>0
<1>2. \A v \in ConnStates : [conn EXCEPT ![c] = v] \in [Conns -> ConnStates]
  BY <1>0
<1> HIDE DEF k
<1>3. /\ \A x \in {"done", "piping"} : [k EXCEPT !.fwd = x] \in ConnStates
      /\ \A x \in {"dial", "done"} : [k EXCEPT !.relay = x] \in ConnStates
      /\ [k EXCEPT !.relay = "piping", !.fwd = "backlog"] \in ConnStates
      /\ \A l \in Listeners : /\ [k EXCEPT !.via = l, !.fwd = "backlog"] \in ConnStates
                             /\ [k EXCEPT !.via = l, !.relay = "backlog"] \in ConnStates
  BY <1>1 DEF ConnStates
<1>4. CASE \E l \in Listeners : ClientConnects(c, l)
  <2>1. PICK l \in Listeners : ClientConnects(c, l)
    BY <1>4
  <2>2. \/ conn' = [conn EXCEPT ![c] = [k EXCEPT !.via = l, !.fwd = "backlog"]]
        \/ conn' = [conn EXCEPT ![c] = [k EXCEPT !.via = l, !.relay = "backlog"]]
    BY <2>1 DEF ClientConnects, k
  <2> QED BY <1>2, <1>3, <2>1, <2>2 DEF ClientConnects
<1>5. CASE OpenChannel(c) \/ ForwardEnds(c) \/ CancelForward(c)
  <2>1. UNCHANGED elsewhere /\ \E x \in {"done", "piping"} : conn' = [conn EXCEPT ![c] = [k EXCEPT !.fwd = x]]
    BY <1>5 DEF OpenChannel, ForwardEnds, CancelForward, k
  <2> QED BY <1>2, <1>3, <2>1
<1>6. CASE ProxyHeader(c) \/ RelayEnds(c) \/ CancelRelay(c) \/ (RelayConnects(c) /\ ~Live("main"))
  <2>1. UNCHANGED elsewhere /\ \E x \in {"dial", "done"} : conn' = [conn EXCEPT ![c] = [k EXCEPT !.relay = x]]
    BY <1>6 DEF ProxyHeader, RelayEnds, CancelRelay, RelayConnects, k
  <2> QED BY <1>2, <1>3, <2>1
<1>7. CASE RelayConnects(c) /\ Live("main")
  <2>1. UNCHANGED elsewhere /\ conn' = [conn EXCEPT ![c] = [k EXCEPT !.relay = "piping", !.fwd = "backlog"]]
    BY <1>0, <1>1, <1>7 DEF RelayConnects, k, ConnStates
  <2> QED BY <1>2, <1>3, <2>1
<1> QED BY <1>4, <1>5, <1>6, <1>7 DEF ConnStep

\* Every step of a listener task.
LEMMA ListenerStepIInv ==
  ASSUME IInv, NEW l \in Listeners, ListenerStep(l)
  PROVE  IInv'
<1>0. task[l] \in {"none", "parked", "awake", "draining", "ended"} /\ conn \in [Conns -> ConnStates]
  BY DEF IInv, TypeInv
<1>1. CASE AcceptError(l)
  <2> DEFINE x == IF l = "main" THEN "awake" ELSE "draining"
  <2>1. x \in {"parked", "awake", "draining", "ended"}
    OBVIOUS
  <2>2. /\ task' = [task EXCEPT ![l] = x] /\ aborted' = aborted /\ ~Over(l)
        /\ UNCHANGED <<owner, held, cancelled, conn>>
    BY <1>1 DEF AcceptError, Over
  <2> HIDE DEF x
  <2> QED BY <1>0, <2>1, <2>2, TaskStep
<1>2. CASE Park(l)
  BY <1>0, <1>2, TaskStep DEF Park, Over
<1>3. CASE Notified(l)
  <2> DEFINE x == IF l = "main" THEN "ended" ELSE "draining"
  <2>1. x \in {"parked", "awake", "draining", "ended"}
    OBVIOUS
  <2>2. /\ task' = [task EXCEPT ![l] = x] /\ ~Over(l)
        /\ aborted' = aborted \/ (x = "ended" /\ aborted' = aborted \ {l})
        /\ UNCHANGED <<owner, held, cancelled, conn>>
    BY <1>3 DEF Notified, Over
  <2> HIDE DEF x
  <2> QED BY <1>0, <2>1, <2>2, TaskStep
<1>4. CASE Drained(l)
  BY <1>0, <1>4, TaskStep DEF Drained
<1>5. CASE Aborted(l)
  BY <1>0, <1>5, TaskStep DEF Aborted
<1>6. ASSUME NEW c \in Conns, Accept(l, c) \/ Reap(l, c)
      PROVE  conn' \in [Conns -> ConnStates]
  <2> DEFINE k == conn[c]
  <2>1. k \in ConnStates
    BY <1>0
  <2> HIDE DEF k
  <2>2. /\ \A y \in {"opening", "reaped"} : [k EXCEPT !.fwd = y] \in ConnStates
        /\ \A y \in {"header", "dial", "reaped"} : [k EXCEPT !.relay = y] \in ConnStates
    BY <2>1 DEF ConnStates
  <2>3. \E v \in ConnStates : conn' = [conn EXCEPT ![c] = v]
    <3>1. \/ \E y \in {"opening", "reaped"} : conn' = [conn EXCEPT ![c].fwd = y]
          \/ \E y \in {"header", "dial", "reaped"} : conn' = [conn EXCEPT ![c].relay = y]
      BY <1>6 DEF Accept, Reap, Listeners
    <3> QED BY <2>2, <3>1 DEF k
  <2> QED BY <2>3, <1>0
<1>7. ASSUME NEW c \in Conns, Accept(l, c) \/ Reap(l, c)
      PROVE  IInv'
  <2>1. /\ task' = [task EXCEPT ![l] = "awake"] /\ aborted' = aborted /\ ~Over(l)
        /\ UNCHANGED <<owner, held, cancelled>>
    BY <1>7 DEF Accept, Reap, Wake, Over
  <2> QED BY <1>6, <1>7, <2>1, TaskStep
<1> QED BY <1>1, <1>2, <1>3, <1>4, <1>5, <1>7 DEF ListenerStep

\* Connecting, binding and dropping.
LEMMA OwnerIInv ==
  ASSUME IInv,
         Configure \/ Dial \/ Connect \/ BindHttpProxy \/ (\E p \in Ports : BindUnixSocket(p)) \/ Drop
  PROVE  IInv'
<1> USE TunnelAssumption DEF Listeners, held, listening
<1>1. CASE Configure \/ Dial
  <2>1. /\ UNCHANGED <<task, aborted, handles, unix, dirs, conn, cancelled>>
        /\ owner \in {"idle", "dialing"} /\ owner' \in {"dialing", "trusted", "failed"}
    BY <1>1 DEF Configure, Dial, Fail
  <2> QED BY <2>1 DEF IInv, TypeInv, Owners, HandleInv, Detached, RelayInv, TakenInv, NoOrphanedSocket, Over
<1>2. CASE Connect
  <2>1. CASE owner' = "failed"
    <3>1. UNCHANGED <<task, aborted, handles, unix, dirs, conn, cancelled>> /\ owner = "trusted"
      BY <1>2, <2>1 DEF Connect, Fail
    <3> QED BY <2>1, <3>1 DEF IInv, TypeInv, Owners, HandleInv, Detached, RelayInv, TakenInv, NoOrphanedSocket, Over
  <2>2. CASE owner' = "open"
    <3>1. /\ task' = [task EXCEPT !["main"] = "awake"] /\ handles' = {"main"}
          /\ UNCHANGED <<aborted, unix, dirs, conn, cancelled>> /\ owner = "trusted"
      BY <1>2, <2>2 DEF Connect, Fail
    <3>2. \A l \in Listeners \ {"main"} : task'[l] = task[l]
      BY <3>1 DEF IInv, TypeInv
    <3>3. TypeInv'
      BY <2>2, <3>1 DEF IInv, TypeInv, Owners
    <3>4. HandleInv' /\ TakenInv' /\ NoOrphanedSocket'
      BY <2>2, <3>1, <3>2 DEF IInv, TypeInv, HandleInv, Detached, TakenInv, NoOrphanedSocket, Over
    <3>5. RelayInv'
      BY <2>2, <3>1, <3>2 DEF IInv, RelayInv, Over
    <3> QED BY <3>3, <3>4, <3>5 DEF IInv
  <2> QED BY <1>2, <2>1, <2>2 DEF Connect, Fail
<1>3. CASE BindHttpProxy
  <2>1. /\ task' = [task EXCEPT !["proxy"] = "awake"] /\ handles' = handles \cup {"proxy"}
        /\ UNCHANGED <<aborted, unix, dirs, conn, cancelled>>
        /\ owner \in {"open", "closed"} /\ owner' = "open"
    BY <1>3 DEF BindHttpProxy
  <2>2. \A l \in Listeners \ {"proxy"} : task'[l] = task[l]
    BY <2>1 DEF IInv, TypeInv
  <2>3. TypeInv'
    BY <2>1 DEF IInv, TypeInv, Owners
  <2>4. HandleInv' /\ TakenInv' /\ NoOrphanedSocket'
    BY <2>1, <2>2 DEF IInv, TypeInv, HandleInv, Detached, TakenInv, NoOrphanedSocket, Over
  <2>5. RelayInv'
    BY <2>1, <2>2 DEF IInv, RelayInv, Over
  <2> QED BY <2>3, <2>4, <2>5 DEF IInv
<1>4. ASSUME NEW p \in Ports, BindUnixSocket(p)
      PROVE  IInv'
  <2>1. /\ task' = [task EXCEPT ![p] = "awake"] /\ unix' = p /\ unix # p
        /\ dirs' = (dirs \cup {p}) \ {unix}
        /\ aborted' = aborted \cup {l \in {unix} \ {None} : task[l] # "ended"}
        /\ UNCHANGED <<handles, conn, cancelled>>
        /\ owner \in {"open", "closed"} /\ owner' = "open"
    BY <1>4 DEF BindUnixSocket, Abort
  <2>2. \A l \in Listeners \ {p} : task'[l] = task[l]
    BY <2>1 DEF IInv, TypeInv
  <2>3. TypeInv'
    BY <2>1 DEF IInv, TypeInv, Owners
  <2>4. HandleInv' /\ TakenInv'
    BY <2>1, <2>2 DEF IInv, HandleInv, Detached, TakenInv, Over
  <2>5. RelayInv'
    BY <2>1, <2>2 DEF IInv, TypeInv, RelayInv, Over
  <2>6. NoOrphanedSocket'
    BY <2>1 DEF IInv, NoOrphanedSocket
  <2> QED BY <2>3, <2>4, <2>5, <2>6 DEF IInv
<1>5. CASE Drop
  <2>1. /\ owner' = "dropped" /\ handles' = {} /\ unix' = None /\ dirs' = dirs \ {unix}
        /\ aborted' = aborted \cup {l \in (handles \cup {unix}) \ {None} : task[l] # "ended"}
        /\ UNCHANGED <<task, conn, cancelled>> /\ owner \in {"open", "closed"}
    BY <1>5 DEF Drop, DropRelay, Abort
  <2>2. TypeInv' /\ TakenInv'
    BY <2>1 DEF IInv, TypeInv, Owners, TakenInv
  <2>3. \A l \in {"main", "proxy"} : l \in handles => Over(l)' \/ l \in aborted'
    BY <2>1 DEF Over
  <2>4. \A l \in {"main", "proxy"} : Over(l) \/ l \in aborted => Over(l)' \/ l \in aborted'
    BY <2>1 DEF Over
  <2>5. HandleInv'
    BY <2>1, <2>3, <2>4 DEF IInv, HandleInv, Detached
  <2>6. RelayInv'
    BY <2>1 DEF IInv, TypeInv, RelayInv, Over
  <2>7. NoOrphanedSocket'
    BY <2>1 DEF IInv, NoOrphanedSocket
  <2> QED BY <2>2, <2>5, <2>6, <2>7 DEF IInv
<1> QED BY <1>1, <1>2, <1>3, <1>4, <1>5

\* Every step of close, and close dropped at an await.
LEMMA ClosingIInv ==
  ASSUME IInv, Closing \/ CancelClose
  PROVE  IInv'
<1> USE TunnelAssumption DEF Listeners
<1>0. UNCHANGED <<task, conn>>
  BY DEF Closing, CancelClose, Close, MainTimeout, MainJoined, CloseProxy, ProxyJoined, CloseUnix,
         UnixJoined, listening
<1>1. \A l : Over(l)' = Over(l)
  BY <1>0 DEF Over
<1>2. CASE Close
  <2>1. /\ owner = "open" /\ owner' = (IF "main" \in handles THEN "await_main" ELSE "close_proxy")
        /\ handles' = handles \ {"main"} /\ UNCHANGED <<aborted, unix, dirs, cancelled>>
    BY <1>2 DEF Close
  <2>2. TypeInv' /\ TakenInv' /\ NoOrphanedSocket'
    BY <1>0, <2>1 DEF IInv, TypeInv, Owners, TakenInv, NoOrphanedSocket
  <2>3. HandleInv' /\ RelayInv'
    BY <1>0, <1>1, <2>1 DEF IInv, HandleInv, Detached, RelayInv
  <2> QED BY <2>2, <2>3 DEF IInv
<1>3. CASE MainTimeout
  <2>1. /\ owner = "await_main" /\ owner' = "abort_main"
        /\ aborted \subseteq aborted' /\ "main" \in aborted'
        /\ UNCHANGED <<handles, unix, dirs, cancelled>>
    BY <1>3 DEF MainTimeout, Abort, held
  <2>2. TypeInv' /\ TakenInv' /\ NoOrphanedSocket'
    BY <1>0, <2>1 DEF IInv, TypeInv, Owners, TakenInv, NoOrphanedSocket
  <2>3. HandleInv' /\ RelayInv'
    BY <1>0, <1>1, <2>1 DEF IInv, HandleInv, Detached, RelayInv
  <2> QED BY <2>2, <2>3 DEF IInv
<1>4. CASE MainJoined
  <2>1. /\ owner \in {"await_main", "abort_main"} /\ owner' = "close_proxy" /\ Over("main")
        /\ UNCHANGED <<aborted, handles, unix, dirs, cancelled>>
    BY <1>4 DEF MainJoined, held, listening, Over
  <2>2. TypeInv' /\ TakenInv' /\ NoOrphanedSocket'
    BY <1>0, <2>1 DEF IInv, TypeInv, Owners, TakenInv, NoOrphanedSocket
  <2>3. HandleInv' /\ RelayInv'
    BY <1>0, <1>1, <2>1 DEF IInv, HandleInv, Detached, RelayInv
  <2> QED BY <2>2, <2>3 DEF IInv
<1>5. CASE CloseProxy
  <2>1. /\ owner = "close_proxy"
        /\ owner' = (IF "proxy" \in handles THEN "await_proxy" ELSE "close_unix")
        /\ aborted \subseteq aborted' /\ handles' = handles \ {"proxy"}
        /\ "proxy" \in handles => Over("proxy") \/ "proxy" \in aborted'
        /\ UNCHANGED <<unix, dirs, cancelled>>
    BY <1>5 DEF CloseProxy, Abort, Over
  <2>2. TypeInv' /\ TakenInv' /\ NoOrphanedSocket'
    BY <1>0, <2>1 DEF IInv, TypeInv, Owners, TakenInv, NoOrphanedSocket
  <2>3. HandleInv' /\ RelayInv'
    BY <1>0, <1>1, <2>1 DEF IInv, HandleInv, Detached, RelayInv
  <2> QED BY <2>2, <2>3 DEF IInv
<1>6. CASE ProxyJoined
  <2>1. /\ owner = "await_proxy" /\ owner' = "close_unix" /\ Over("proxy")
        /\ UNCHANGED <<aborted, handles, unix, dirs, cancelled>>
    BY <1>6 DEF ProxyJoined, listening, Over
  <2>2. TypeInv' /\ TakenInv' /\ NoOrphanedSocket'
    BY <1>0, <2>1 DEF IInv, TypeInv, Owners, TakenInv, NoOrphanedSocket
  <2>3. HandleInv' /\ RelayInv'
    BY <1>0, <1>1, <2>1 DEF IInv, HandleInv, Detached, RelayInv
  <2> QED BY <2>2, <2>3 DEF IInv
<1>7. CASE CloseUnix
  <2>1. /\ owner = "close_unix"
        /\ IF unix # None
           THEN owner' = "await_unix" /\ aborted' = aborted \cup {l \in {unix} \ {None} : task[l] # "ended"}
           ELSE owner' = "closed" /\ aborted' = aborted
        /\ UNCHANGED <<handles, unix, dirs, cancelled>>
    BY <1>7 DEF CloseUnix, Abort, held
  <2>2. TypeInv' /\ TakenInv' /\ NoOrphanedSocket'
    BY <1>0, <2>1 DEF IInv, TypeInv, Owners, TakenInv, NoOrphanedSocket
  <2>3. HandleInv'
    BY <1>0, <1>1, <2>1 DEF IInv, HandleInv, Detached
  <2>4. RelayInv'
    BY <1>0, <1>1, <2>1 DEF IInv, RelayInv
  <2> QED BY <2>2, <2>3, <2>4 DEF IInv
<1>8. CASE UnixJoined \/ CancelClose
  <2>1. /\ owner \in {"await_main", "abort_main", "await_proxy", "await_unix"}
        /\ owner' \in {"open", "closed"} /\ (owner' = "open" => cancelled' = cancelled \cup {owner})
        /\ (owner' = "closed" => owner = "await_unix" /\ cancelled' = cancelled)
        /\ IF owner = "await_unix" THEN unix' = None /\ dirs' = dirs \ {unix}
                                   ELSE unix' = unix /\ dirs' = dirs
        /\ UNCHANGED <<aborted, handles>>
    BY <1>8 DEF UnixJoined, CancelClose, DropRelay, listening
  <2>2. TypeInv' /\ TakenInv'
    BY <1>0, <2>1 DEF IInv, TypeInv, Owners, TakenInv
  <2>3. HandleInv'
    BY <1>0, <1>1, <2>1 DEF IInv, HandleInv, Detached
  <2>4. RelayInv'
    BY <1>0, <1>1, <2>1 DEF IInv, TypeInv, RelayInv, Over
  <2>5. NoOrphanedSocket'
    BY <2>1 DEF IInv, NoOrphanedSocket
  <2> QED BY <2>2, <2>3, <2>4, <2>5 DEF IInv
<1> QED BY <1>2, <1>3, <1>4, <1>5, <1>6, <1>7, <1>8 DEF Closing

\* Every step preserves the invariant.
LEMMA NextIInv ==
  ASSUME IInv, [Next]_vars
  PROVE  IInv'
<1>1. ASSUME NEW c \in Conns, ConnStep(c)
      PROVE  IInv'
  <2>1. conn' \in [Conns -> ConnStates] /\ UNCHANGED <<owner, listening, held, cancelled>>
    BY <1>1, ConnSteps DEF elsewhere
  <2> QED BY <2>1, ConnStepIInv
<1>2. CASE SessionLost \/ UNCHANGED vars
  <2>1. UNCHANGED <<owner, listening, held, conn, cancelled>>
    BY <1>2 DEF SessionLost, vars
  <2> QED BY <2>1, ConnStepIInv DEF IInv, TypeInv
<1> QED BY <1>1, <1>2, ListenerStepIInv, OwnerIInv, ClosingIInv DEF Next

\* IInv holds in every reachable state.
LEMMA Invariance == Spec => []IInv
BY InitIInv, NextIInv, PTL DEF Spec

-----------------------------------------------------------------------------
\* A socket directory is on disk only while the relay that owns it exists: after
\* failed accepts, replaced relays and closes dropped at an await.
THEOREM NoOrphanedSocketHolds == Spec => []NoOrphanedSocket
<1>1. IInv => NoOrphanedSocket
  BY DEF IInv
<1> QED BY <1>1, Invariance, PTL

\* After SshTunnel::close and after Drop there is no socket file and no handle,
\* and every listener is over or aborted, whichever notifications were lost and
\* wherever closes were dropped, except the one that a close dropped at its first
\* await has detached; a close that was never dropped has seen the first listener
\* and the proxy end.
THEOREM CloseLeavesNothingHolds == Spec => []CloseLeavesNothing
<1>1. ASSUME IInv PROVE CloseLeavesNothing
  <2> SUFFICES ASSUME owner \in {"closed", "dropped"}
               PROVE  /\ dirs = {} /\ handles = {}
                      /\ \A l \in Listeners \ Detached : Over(l) \/ l \in aborted
                      /\ owner = "closed" /\ cancelled = {} => Over("main") /\ Over("proxy")
    BY DEF CloseLeavesNothing
  <2>1. handles = {} /\ unix = None
    BY <1>1 DEF IInv, TakenInv
  <2>2. owner = "closed" /\ cancelled = {} => Over("main") /\ Over("proxy")
    BY <1>1, <2>1 DEF IInv, HandleInv, Detached
  <2>3. \A p \in Ports : Over(p) \/ p \in aborted
    BY <1>1, <2>1, TunnelAssumption DEF IInv, RelayInv, Listeners
  <2>4. \A l \in {"main", "proxy"} \ Detached : Over(l) \/ l \in aborted
    BY <1>1, <2>1 DEF IInv, HandleInv, Detached
  <2>5. dirs = {}
    BY <1>1, <2>1 DEF IInv, NoOrphanedSocket
  <2> QED BY <2>1, <2>2, <2>3, <2>4, <2>5 DEF Listeners
<1> QED BY <1>1, Invariance, PTL
=============================================================================
