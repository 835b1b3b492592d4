----------------------------- MODULE SshTunnel -----------------------------
(***************************************************************************)
(* SshTunnel (kyomi-datasource, ssh_tunnel.rs).  A tunnel owns a listener  *)
(* task that forwards TCP connections through an SSH session and, when a   *)
(* driver asks for them, an HTTP proxy and a Unix socket relay, each a     *)
(* listener task of its own that dials the first one.  Every listener      *)
(* keeps its connections in a JoinSet.  The owner may bind, close and drop *)
(* the tunnel while connections come and go; close is a future that may be *)
(* dropped at each of its awaits.                                          *)
(***************************************************************************)
EXTENDS Naturals, FiniteSets

CONSTANTS
  Ports,      \* database ports a Unix socket is bound for
  Conns,      \* connections of clients
  RawConfigs, \* connection_config objects
  None

DefaultSshPort == 22
PortSpace == 65536

Listeners == {"main", "proxy"} \cup Ports

ASSUME TunnelAssumption ==
  /\ None \notin Listeners
  /\ Ports \cap {"main", "proxy"} = {}
  /\ \A r \in RawConfigs : r.port = None \/ r.port \in Nat

VARIABLES
  owner,     \* what the owner of the tunnel is doing
  cfg,       \* the configuration being connected with
  task,      \* state of each listener task
  woken,     \* listeners whose Notified has been completed
  aborted,   \* listeners whose task is aborted and has not noticed yet
  handles,   \* task_handle and proxy_task_handle
  proxyAddr, \* proxy_addr is Some
  unix,      \* port of unix_socket, or None
  dirs,      \* socket directories on disk
  conn,      \* connections
  session,   \* the SSH session: "up" or "lost"
  cancelled  \* history: the awaits at which a close was dropped

listening == <<task, woken, aborted>>
held == <<handles, proxyAddr, unix, dirs>>
vars == <<owner, cfg, listening, held, conn, session, cancelled>>

Live(l) == task[l] \in {"parked", "awake"}
\* handle.abort(); a task that has ended is left alone.
Abort(ls) == aborted' = aborted \cup {l \in ls \ {None} : task[l] # "ended"}

(***************************************************************************)
(* Connecting.                                                             *)
(***************************************************************************)
\* Empty strings count as missing; the port is cut to 16 bits.
FromConnectionConfig(raw) ==
  [valid |-> raw.host # "" /\ raw.username # "" /\ raw.key # "",
   port |-> IF raw.port = None THEN DefaultSshPort ELSE raw.port % PortSpace,
   key |-> raw.key, passphrase |-> raw.passphrase, fingerprint |-> raw.fingerprint]

ParsePrivateKey(c) ==
  \/ c.key = "plain"
  \/ c.key = "encrypted" /\ c.passphrase = "right"

SshPort(c) == IF c.port = 0 THEN DefaultSshPort ELSE c.port

CheckServerKey(c, actual) == c.fingerprint = "" \/ c.fingerprint = actual

NoConfig == [port |-> None]
NoConn == [via |-> None, relay |-> "none", fwd |-> "none"]

Init ==
  /\ owner = "idle" /\ cfg = NoConfig
  /\ task = [l \in Listeners |-> "none"]
  /\ woken = {} /\ aborted = {} /\ handles = {}
  /\ proxyAddr = FALSE /\ unix = None /\ dirs = {}
  /\ conn = [c \in Conns |-> NoConn]
  /\ session = "up" /\ cancelled = {}

\* The key is parsed before anything is dialled.
Configure ==
  /\ owner = "idle"
  /\ \E raw \in RawConfigs :
       LET c == FromConnectionConfig(raw)
       IN IF c.valid /\ ParsePrivateKey(c)
          THEN owner' = "dialing" /\ cfg' = [raw |-> raw, port |-> SshPort(c), fingerprint |-> c.fingerprint, host |-> None]
          ELSE owner' = "failed" /\ cfg' = NoConfig
  /\ UNCHANGED <<listening, held, conn, session, cancelled>>

Fail == owner' = "failed" /\ cfg' = NoConfig

\* russh::client::connect with its timeout; the host key is checked in it.
Dial ==
  /\ owner = "dialing"
  /\ \/ Fail
     \/ \E actual \in {"host", "other"} :
          IF CheckServerKey(cfg, actual)
          THEN owner' = "trusted" /\ cfg' = [cfg EXCEPT !.host = actual]
          ELSE Fail
  /\ UNCHANGED <<listening, held, conn, session, cancelled>>

\* The key is accepted, the local listener is bound and its task spawned.  A
\* task that has not been polled yet is "awake": it has no Notified to complete.
Connect ==
  /\ owner = "trusted"
  /\ \/ Fail /\ UNCHANGED <<task, handles>>
     \/ /\ owner' = "open" /\ cfg' = NoConfig
        /\ task' = [task EXCEPT !["main"] = "awake"]
        /\ handles' = {"main"}
  /\ UNCHANGED <<woken, aborted, proxyAddr, unix, dirs, conn, session, cancelled>>

(***************************************************************************)
(* Binding, as drivers do: ClickHouse binds the proxy, the sqlx drivers    *)
(* Unix sockets.  Each is bound at most once.  A tunnel that has been      *)
(* closed can still be bound, and is then one to close again.              *)
(***************************************************************************)
BindHttpProxy ==
  /\ owner \in {"open", "closed"}
  /\ ~proxyAddr /\ \A l \in {"proxy"} \cup Ports : task[l] = "none"
  /\ owner' = "open"
  /\ task' = [task EXCEPT !["proxy"] = "awake"]
  /\ handles' = handles \cup {"proxy"}
  /\ proxyAddr' = TRUE
  /\ UNCHANGED <<cfg, woken, aborted, unix, dirs, conn, session, cancelled>>

\* Mutant: the relay that is replaced keeps its directory.
BindUnixSocketLeaving(p) ==
  /\ owner \in {"open", "closed"}
  /\ unix # p /\ task[p] = "none" /\ task["proxy"] = "none"
  /\ owner' = "open"
  /\ task' = [task EXCEPT ![p] = "awake"]
  /\ dirs' = dirs \cup {p}
  /\ unix' = p
  /\ Abort({unix})
  /\ UNCHANGED <<cfg, woken, handles, proxyAddr, conn, session, cancelled>>
\* create_socket_directory, bind, spawn; storing the new relay drops the old.
\* A bind that fails removes the directory it has made and changes nothing.
BindUnixSocket(p) ==
  /\ owner \in {"open", "closed"}
  /\ unix # p /\ task[p] = "none" /\ task["proxy"] = "none"
  /\ owner' = "open"
  /\ task' = [task EXCEPT ![p] = "awake"]
  /\ dirs' = (dirs \cup {p}) \ {unix}
  /\ unix' = p
  /\ Abort({unix})
  /\ UNCHANGED <<cfg, woken, handles, proxyAddr, conn, session, cancelled>>

(***************************************************************************)
(* Listener tasks.  The handlers of select! are synchronous; while one     *)
(* runs the task is "awake" and has no Notified.                           *)
(***************************************************************************)
Waiting(l, c) == IF l = "main" THEN conn[c].fwd = "backlog" ELSE conn[c].via = l /\ conn[c].relay = "backlog"

\* A ready branch is taken at random: one that is not the notification
\* drops the Notified, and with it the notification.
Wake(l) == task' = [task EXCEPT ![l] = "awake"] /\ woken' = woken \ {l}

Accept(l, c) ==
  /\ task[l] = "parked" /\ Waiting(l, c)
  /\ Wake(l)
  /\ conn' = CASE l = "main" -> [conn EXCEPT ![c].fwd = "opening"]
               [] l = "proxy" -> [conn EXCEPT ![c].relay = "header"]
               [] l \in Ports -> [conn EXCEPT ![c].relay = "dial"]
  /\ UNCHANGED <<owner, cfg, aborted, held, session, cancelled>>

\* The first listener goes on after a failed accept, the others give up.
AcceptError(l) ==
  /\ task[l] = "parked"
  /\ task' = [task EXCEPT ![l] = IF l = "main" THEN "awake" ELSE "draining"]
  /\ woken' = woken \ {l}
  /\ UNCHANGED <<owner, cfg, aborted, held, conn, session, cancelled>>

\* connections.join_next()
Reap(l, c) ==
  /\ task[l] = "parked"
  /\ IF l = "main"
     THEN conn[c].fwd = "done" /\ conn' = [conn EXCEPT ![c].fwd = "reaped"]
     ELSE conn[c].via = l /\ conn[c].relay = "done" /\ conn' = [conn EXCEPT ![c].relay = "reaped"]
  /\ Wake(l)
  /\ UNCHANGED <<owner, cfg, aborted, held, session, cancelled>>

Park(l) ==
  /\ task[l] = "awake"
  /\ task' = [task EXCEPT ![l] = "parked"]
  /\ UNCHANGED <<owner, cfg, woken, aborted, held, conn, session, cancelled>>

\* The first listener drops its JoinSet, the others shut theirs down.
Notified(l) ==
  /\ task[l] = "parked" /\ l \in woken
  /\ task' = [task EXCEPT ![l] = IF l = "main" THEN "ended" ELSE "draining"]
  /\ woken' = woken \ {l}
  /\ aborted' = IF l = "main" THEN aborted \ {l} ELSE aborted
  /\ UNCHANGED <<owner, cfg, held, conn, session, cancelled>>

\* connections.shutdown().await
Drained(l) ==
  /\ task[l] = "draining"
  /\ \A c \in Conns : conn[c].via = l => conn[c].relay \in {"none", "backlog", "done", "reaped"}
  /\ task' = [task EXCEPT ![l] = "ended"]
  /\ aborted' = aborted \ {l}
  /\ UNCHANGED <<owner, cfg, woken, held, conn, session, cancelled>>

Aborted(l) ==
  /\ l \in aborted
  /\ task' = [task EXCEPT ![l] = "ended"]
  /\ woken' = woken \ {l} /\ aborted' = aborted \ {l}
  /\ UNCHANGED <<owner, cfg, held, conn, session, cancelled>>

(***************************************************************************)
(* Connections: the relay a driver may have dialled and the forwarding     *)
(* through the SSH session.  Peers close either end when they like; what a *)
(* connection carries is left out.                                         *)
(***************************************************************************)
Ended(c) == conn[c].fwd \in {"none", "done", "reaped"} /\ conn[c].relay \in {"none", "done", "reaped"}
elsewhere == <<owner, cfg, listening, held, session, cancelled>>

\* A driver connects to a listener.
ClientConnects(c, l) ==
  /\ conn[c] = NoConn /\ Live(l)
  /\ conn' = [conn EXCEPT ![c] = IF l = "main" THEN [@ EXCEPT !.via = l, !.fwd = "backlog"]
                                              ELSE [@ EXCEPT !.via = l, !.relay = "backlog"]]
  /\ UNCHANGED elsewhere

\* proxy_connection: a complete header, or one that is too large, late or cut.
ProxyHeader(c) ==
  /\ conn[c].relay = "header"
  /\ \E next \in {"dial", "done"} : conn' = [conn EXCEPT ![c].relay = next]
  /\ UNCHANGED elsewhere

\* TcpStream::connect(target): refused once the first listener is gone.
RelayConnects(c) ==
  /\ conn[c].relay = "dial"
  /\ conn' = IF Live("main") THEN [conn EXCEPT ![c].relay = "piping", ![c].fwd = "backlog"]
                             ELSE [conn EXCEPT ![c].relay = "done"]
  /\ UNCHANGED elsewhere

\* copy_bidirectional passes the end of a direction on and waits for the other.
RelayEnds(c) ==
  /\ conn[c].relay = "piping" /\ conn[c].fwd \in {"done", "reaped"}
  /\ conn' = [conn EXCEPT ![c].relay = "done"]
  /\ UNCHANGED elsewhere

OpenChannel(c) ==
  /\ conn[c].fwd = "opening"
  /\ \E next \in {"done"} \cup (IF session = "up" THEN {"piping"} ELSE {}) :
       conn' = [conn EXCEPT ![c].fwd = next]
  /\ UNCHANGED elsewhere

\* n == 0 or an error of a direction: the other one is dropped with it, so a
\* client that half-closes loses the rest of the answer.
ForwardEnds(c) ==
  /\ conn[c].fwd = "piping"
  /\ conn' = [conn EXCEPT ![c].fwd = "done"]
  /\ UNCHANGED elsewhere

\* The JoinSet or the backlog the connection was in is gone.
CancelForward(c) ==
  /\ task["main"] = "ended" /\ conn[c].fwd \in {"backlog", "opening", "piping"}
  /\ conn' = [conn EXCEPT ![c].fwd = "done"]
  /\ UNCHANGED elsewhere
CancelRelay(c) ==
  /\ conn[c].via \in Listeners \ {"main"}
  /\ \/ task[conn[c].via] = "ended" /\ conn[c].relay \in {"backlog", "header", "dial", "piping"}
     \/ task[conn[c].via] = "draining" /\ conn[c].relay \in {"header", "dial", "piping"}
  /\ conn' = [conn EXCEPT ![c].relay = "done"]
  /\ UNCHANGED elsewhere

SessionLost ==
  /\ session = "up" /\ Live("main")
  /\ session' = "lost"
  /\ UNCHANGED <<owner, cfg, listening, held, conn, cancelled>>

(***************************************************************************)
(* Closing.                                                                *)
(***************************************************************************)

\* notify_waiters reaches the tasks that wait at this moment.
Close ==
  /\ owner = "open"
  /\ woken' = woken \cup {l \in Listeners : task[l] = "parked"}
  /\ owner' = IF "main" \in handles THEN "await_main" ELSE "close_proxy"
  /\ handles' = handles \ {"main"}
  /\ UNCHANGED <<cfg, task, aborted, proxyAddr, unix, dirs, conn, session, cancelled>>

\* Mutant: close gives up after five seconds without aborting the task.
MainTimeoutGivesUp ==
  /\ owner = "await_main" /\ task["main"] # "ended"
  /\ owner' = "close_proxy"
  /\ UNCHANGED <<cfg, listening, held, conn, session, cancelled>>
\* Mutant: close waits for the task without a timeout.
MainTimeoutNever == FALSE
\* Five seconds have passed.
MainTimeout ==
  /\ owner = "await_main" /\ task["main"] # "ended"
  /\ Abort({"main"})
  /\ owner' = "abort_main"
  /\ UNCHANGED <<cfg, task, woken, held, conn, session, cancelled>>

MainJoined ==
  /\ owner \in {"await_main", "abort_main"} /\ task["main"] = "ended"
  /\ owner' = "close_proxy"
  /\ UNCHANGED <<cfg, listening, held, conn, session, cancelled>>

CloseProxy ==
  /\ owner = "close_proxy"
  /\ IF "proxy" \in handles
     THEN Abort({"proxy"}) /\ owner' = "await_proxy" /\ UNCHANGED proxyAddr
     ELSE proxyAddr' = FALSE /\ owner' = "close_unix" /\ UNCHANGED aborted
  /\ handles' = handles \ {"proxy"}
  /\ UNCHANGED <<cfg, task, woken, unix, dirs, conn, session, cancelled>>

ProxyJoined ==
  /\ owner = "await_proxy" /\ task["proxy"] = "ended"
  /\ proxyAddr' = FALSE /\ owner' = "close_unix"
  /\ UNCHANGED <<cfg, listening, handles, unix, dirs, conn, session, cancelled>>

CloseUnix ==
  /\ owner = "close_unix"
  /\ IF unix # None
     THEN Abort({unix}) /\ owner' = "await_unix"
     ELSE owner' = "closed" /\ UNCHANGED aborted
  /\ UNCHANGED <<cfg, task, woken, held, conn, session, cancelled>>

\* The relay is dropped at the end of its scope.
DropRelay == dirs' = dirs \ {unix} /\ unix' = None

UnixJoined ==
  /\ owner = "await_unix" /\ task[unix] = "ended"
  /\ DropRelay /\ owner' = "closed"
  /\ UNCHANGED <<cfg, listening, handles, proxyAddr, conn, session, cancelled>>

\* The future of close is dropped at an await; what it has taken goes with it.
CancelClose ==
  /\ owner \in {"await_main", "abort_main", "await_proxy", "await_unix"}
  /\ owner' = "open"
  /\ cancelled' = cancelled \cup {owner}
  /\ IF owner = "await_unix" THEN DropRelay ELSE UNCHANGED <<dirs, unix>>
  /\ UNCHANGED <<cfg, listening, handles, proxyAddr, conn, session>>

\* Mutant: Drop leaves the proxy to its notification.
DropKeepingProxy ==
  /\ owner \in {"open", "closed"}
  /\ owner' = "dropped"
  /\ Abort((handles \ {"proxy"}) \cup {unix})
  /\ handles' = {}
  /\ DropRelay
  /\ UNCHANGED <<cfg, task, woken, proxyAddr, conn, session, cancelled>>
Drop ==
  /\ owner \in {"open", "closed"}
  /\ owner' = "dropped"
  /\ Abort(handles \cup {unix})
  /\ handles' = {}
  /\ DropRelay
  /\ UNCHANGED <<cfg, task, woken, proxyAddr, conn, session, cancelled>>

-----------------------------------------------------------------------------
Closing == Close \/ MainTimeout \/ MainJoined \/ CloseProxy \/ ProxyJoined \/ CloseUnix \/ UnixJoined

ListenerStep(l) ==
  \/ AcceptError(l) \/ Park(l) \/ Notified(l) \/ Drained(l) \/ Aborted(l)
  \/ \E c \in Conns : Accept(l, c) \/ Reap(l, c)

ConnStep(c) ==
  \/ ProxyHeader(c) \/ RelayConnects(c) \/ RelayEnds(c) \/ OpenChannel(c)
  \/ ForwardEnds(c) \/ CancelForward(c) \/ CancelRelay(c)
  \/ \E l \in Listeners : ClientConnects(c, l)

Next ==
  \/ Configure \/ Dial \/ Connect
  \/ BindHttpProxy \/ \E p \in Ports : BindUnixSocket(p)
  \/ \E l \in Listeners : ListenerStep(l)
  \/ \E c \in Conns : ConnStep(c)
  \/ SessionLost
  \/ Closing \/ CancelClose \/ Drop

Spec == Init /\ [][Next]_vars

(***************************************************************************)
(* Fairness: tasks that can run are polled, aborts take effect and the     *)
(* five seconds of close pass.  Peers and the owner need not do anything.  *)
(***************************************************************************)
FairSpec ==
  /\ Spec
  /\ \A l \in Listeners : WF_vars(Park(l)) /\ WF_vars(Drained(l)) /\ WF_vars(Aborted(l))
  /\ \A c \in Conns : WF_vars(CancelForward(c)) /\ WF_vars(CancelRelay(c))
  /\ WF_vars(Closing /\ owner # "open")

-----------------------------------------------------------------------------
(* Properties *)

Over(l) == task[l] \in {"none", "ended"}

\* What nobody can abort any more: close takes the handle of the first listener
\* before it waits for it, and has not aborted it when it is dropped there.
Detached == IF "await_main" \in cancelled THEN {"main"} ELSE {}

\* A tunnel that is closed or dropped has no socket file, and every listener of
\* it is over or has been aborted, whichever notifications were lost and at
\* whichever awaits earlier closes were dropped; only the listener that a close
\* dropped at its first await has detached is left to its notification.  A close
\* that was never dropped has seen the end of the listeners it waits for.
CloseLeavesNothing ==
  owner \in {"closed", "dropped"} =>
    /\ dirs = {} /\ handles = {}
    /\ \A l \in Listeners \ Detached : Over(l) \/ l \in aborted
    /\ owner = "closed" /\ cancelled = {} => Over("main") /\ Over("proxy")

\* A socket directory is on disk only while the relay that owns it exists,
\* also after failed accepts, replaced relays and cancelled closes.
NoOrphanedSocket == dirs = {unix} \ {None}

\* A tunnel that is dropped frees its listeners and its connections, and with
\* them the SSH session, also after closes dropped at an await.  A close dropped
\* at its first await detaches the first listener: Drop has no handle left to
\* abort it with, and that task and what it forwards may stay; the proxy, the
\* Unix sockets and their connections are freed even then.
DropReclaims ==
  (owner = "dropped") ~>
    /\ \A l \in Listeners \ Detached : Over(l)
    /\ \A c \in Conns : conn[c].relay \in {"none", "done", "reaped"}
    /\ Detached = {} => \A c \in Conns : Ended(c)

\* close returns (or is dropped) even if every notification is lost.
CloseReturns == (owner = "await_main") ~> (owner \in {"closed", "open"})
=============================================================================
