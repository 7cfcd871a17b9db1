---------------------------- MODULE NotifServer ----------------------------
(***************************************************************************)
(* The notification server of pubsub.rs: the routes a client adds, the     *)
(* accept loop of run, and the handler that run spawns for each            *)
(* connection.  The loop is one task: it waits for a connection or for the *)
(* shutdown future, and with TLS it also waits for the handshake of the    *)
(* connection it has accepted.  The handlers run beside it in a JoinSet.   *)
(***************************************************************************)
EXTENDS Integers, FiniteSets

CONSTANTS
  Conn,      \* peers, each with at most one connection at a time
  Path,      \* request paths
  Callback,  \* callbacks, each for a type of resource of its own
  Files,     \* accepted connections for which the process has file descriptors
  None       \* no route, no request, or a body no callback can read

ASSUME FilesAssumption == Files \in Nat

ASSUME NoneAssumption == None \notin Callback

Method == {"POST", "GET"}

\* A notification is of the resource type of one callback, or of none.
Request == [path : Path, method : Method, body : Callback \cup {None}]

ASSUME NoRequestAssumption == None \notin Request

\* The answers that tell the server it has succeeded, and the others; a
\* callback may give any of them.
Success == {"Created", "NoContent"}
SEPResponse == Success \cup {"BadRequest", "NotFound", "MethodNotAllowed"}

\* A request that was answered with a success: its callback is the one that ran
\* for it to its end, None if none did.
Ack == [path : Path, method : Method, body : Callback \cup {None},
        ran : Callback \cup {None}]

ASSUME NoAckAssumption == None \notin Ack

VARIABLES
  phase,     \* how far run has come
  requested, \* the shutdown future has completed
  https,     \* a TLS configuration was given
  routes,    \* the callback of each path, or None
  conn,      \* the state of each connection
  request,   \* the request being handled on each connection, or None
  ack        \* history: the last request on each connection, if it was
             \* answered with a success

vars == <<phase, requested, https, routes, conn, request, ack>>

\* A connection that a spawned handler serves.
Handling == {"idle", "body", "callback"}

TypeOK ==
  /\ phase \in {"new", "listening", "stopping", "stopped", "failed"}
  /\ requested \in BOOLEAN
  /\ https \in BOOLEAN
  /\ routes \in [Path -> Callback \cup {None}]
  /\ conn \in [Conn -> {"closed", "backlog", "handshake"} \cup Handling]
  /\ request \in [Conn -> Request \cup {None}]
  /\ ack \in [Conn -> Ack \cup {None}]
  /\ \A c \in Conn : request[c] # None <=> conn[c] \in {"body", "callback"}

Init ==
  /\ phase = "new"
  /\ requested = FALSE
  /\ https = FALSE
  /\ routes = [p \in Path |-> None]
  /\ conn = [c \in Conn |-> "closed"]
  /\ request = [c \in Conn |-> None]
  /\ ack = [c \in Conn |-> None]

-----------------------------------------------------------------------------
(* Setting the server up.                                                  *)

\* A later callback for the same path replaces the earlier one.
Add(p, k) ==
  /\ phase = "new"
  /\ routes' = [routes EXCEPT ![p] = k]
  /\ UNCHANGED <<phase, requested, https, conn, request, ack>>

WithHttps ==
  /\ phase = "new"
  /\ https' = TRUE
  /\ UNCHANGED <<phase, requested, routes, conn, request, ack>>

\* The certificate files cannot be loaded, or the address cannot be bound.
CannotStart ==
  /\ phase = "new"
  /\ phase' = "failed"
  /\ UNCHANGED <<requested, https, routes, conn, request, ack>>

Listen ==
  /\ phase = "new"
  /\ phase' = "listening"
  /\ UNCHANGED <<requested, https, routes, conn, request, ack>>

-----------------------------------------------------------------------------
(* The accept loop.                                                        *)

\* The connection ends, but its request is not forgotten.
EndedKeeping(c) ==
  /\ conn' = [conn EXCEPT ![c] = "closed"]
  /\ request' = request
  /\ ack' = [ack EXCEPT ![c] = None]

Ended(c) ==
  /\ conn' = [conn EXCEPT ![c] = "closed"]
  /\ request' = [request EXCEPT ![c] = None]
  /\ ack' = [ack EXCEPT ![c] = None]

\* serve_connection awaited in the loop instead of in a task.
BusyServing == \E c \in Conn : conn[c] \in {"handshake"} \cup Handling

\* The loop is waiting for a peer, not for the select!.
Busy == \E c \in Conn : conn[c] = "handshake"

\* Every file descriptor is in use: accept takes nothing from the backlog.
Exhausted == Cardinality({c \in Conn : conn[c] \in {"handshake"} \cup Handling}) >= Files

\* Without TLS the handler is spawned at once.
Accept(c) ==
  /\ phase = "listening"
  /\ ~Busy
  /\ ~Exhausted
  /\ conn[c] = "backlog"
  /\ conn' = [conn EXCEPT ![c] = IF https THEN "handshake" ELSE "idle"]
  /\ UNCHANGED <<phase, requested, https, routes, request, ack>>

\* accept reports that the connection is gone, and the loop continues.  When
\* there is no file descriptor it reports that, the loop continues too, and the
\* connection goes on waiting: a step that changes nothing.
AcceptError(c) ==
  /\ phase = "listening"
  /\ ~Busy
  /\ ~Exhausted
  /\ conn[c] = "backlog"
  /\ Ended(c)
  /\ UNCHANGED <<phase, requested, https, routes>>

HandshakeDone(c) ==
  /\ phase = "listening"
  /\ conn[c] = "handshake"
  /\ conn' = [conn EXCEPT ![c] = "idle"]
  /\ UNCHANGED <<phase, requested, https, routes, request, ack>>

\* Logged, and the loop continues.
HandshakeError(c) ==
  /\ phase = "listening"
  /\ conn[c] = "handshake"
  /\ Ended(c)
  /\ UNCHANGED <<phase, requested, https, routes>>

\* The listener is dropped, and what it has not accepted with it.
Dropped == [c \in Conn |-> IF conn[c] = "backlog" THEN "closed" ELSE conn[c]]

\* Ssl::new or SslStream::new fails: run returns the error at once.
RunError(c) ==
  /\ phase = "listening"
  /\ ~Busy
  /\ ~Exhausted
  /\ https
  /\ conn[c] = "backlog"
  /\ phase' = "failed"
  /\ conn' = Dropped
  /\ UNCHANGED <<requested, https, routes, request, ack>>

\* The loop is left only once no connection is being served, and in the middle
\* of a handshake.
BreakWhenServed ==
  /\ phase = "listening"
  /\ requested
  /\ \A c \in Conn : conn[c] \in {"closed", "backlog"}
  /\ phase' = "stopping"
  /\ UNCHANGED <<requested, https, routes, conn, request, ack>>
BreakBusy ==
  /\ phase = "listening"
  /\ requested
  /\ phase' = "stopping"
  /\ UNCHANGED <<requested, https, routes, conn, request, ack>>

\* The select! takes the shutdown branch.
Break ==
  /\ phase = "listening"
  /\ requested
  /\ ~Busy
  /\ phase' = "stopping"
  /\ UNCHANGED <<requested, https, routes, conn, request, ack>>

\* JoinSet::shutdown, or the drop of the JoinSet of a run that has failed:
\* a handler is dropped where it waits.
Abort(c) ==
  /\ phase \in {"stopping", "failed"}
  /\ conn[c] \in Handling
  /\ Ended(c)
  /\ UNCHANGED <<phase, requested, https, routes>>

\* JoinSet::shutdown has seen every handler end.
Return ==
  /\ phase = "stopping"
  /\ \A c \in Conn : conn[c] \notin Handling
  /\ phase' = "stopped"
  /\ conn' = Dropped
  /\ UNCHANGED <<requested, https, routes, request, ack>>

-----------------------------------------------------------------------------
(* A connection's handler.  What it does while it is being aborted is the  *)
(* poll that was in progress on another thread.                            *)

\* The answer a to request r, for which callback k has run, is sent.
Answer(c, r, k, a) ==
  /\ ack' = [ack EXCEPT ![c] =
       IF a \in Success THEN [path |-> r.path, method |-> r.method,
                              body |-> r.body, ran |-> k]
       ELSE None]
  /\ conn' = [conn EXCEPT ![c] = "idle"]
  /\ request' = [request EXCEPT ![c] = None]

\* What the router answers without reading the body.
Refusal(r) ==
  IF routes[r.path] = None THEN "NotFound" ELSE "MethodNotAllowed"

\* There is no route for the path, or the method is not POST.
Refuse(c, r) ==
  /\ conn[c] = "idle"
  /\ routes[r.path] = None \/ r.method # "POST"
  /\ Answer(c, r, None, Refusal(r))
  /\ UNCHANGED <<phase, requested, https, routes>>

\* The body is still to come.
Take(c, r) ==
  /\ conn[c] = "idle"
  /\ routes[r.path] # None
  /\ r.method = "POST"
  /\ conn' = [conn EXCEPT ![c] = "body"]
  /\ request' = [request EXCEPT ![c] = r]
  /\ ack' = [ack EXCEPT ![c] = None]
  /\ UNCHANGED <<phase, requested, https, routes>>

\* A route that takes any notification.
ReadableAny(r) == r.body # None

\* deserialize succeeds.
Readable(r) == r.body = routes[r.path]

\* The body is not a notification of the type of the route.
Reject(c) ==
  /\ conn[c] = "body"
  /\ ~Readable(request[c])
  /\ Answer(c, request[c], None, "BadRequest")
  /\ UNCHANGED <<phase, requested, https, routes>>

Call(c) ==
  /\ conn[c] = "body"
  /\ Readable(request[c])
  /\ conn' = [conn EXCEPT ![c] = "callback"]
  /\ UNCHANGED <<phase, requested, https, routes, request, ack>>

CallbackAnswers(c, a) ==
  /\ conn[c] = "callback"
  /\ Answer(c, request[c], routes[request[c].path], a)
  /\ UNCHANGED <<phase, requested, https, routes>>

\* The body cannot be read, is not text, the answer has no valid header, the
\* callback panics, or the peer is gone: the handler ends.
HandlerError(c) ==
  /\ conn[c] \in Handling
  /\ Ended(c)
  /\ UNCHANGED <<phase, requested, https, routes>>

-----------------------------------------------------------------------------
(* The environment.                                                        *)

\* The kernel completes the connection as long as the listener exists.
Connect(c) ==
  /\ phase \in {"listening", "stopping"}
  /\ conn[c] = "closed"
  /\ conn' = [conn EXCEPT ![c] = "backlog"]
  /\ UNCHANGED <<phase, requested, https, routes, request, ack>>

ShutdownFuture ==
  /\ ~requested
  /\ requested' = TRUE
  /\ UNCHANGED <<phase, https, routes, conn, request, ack>>

Loop(c) == Accept(c) \/ AcceptError(c) \/ RunError(c)

Handler(c) ==
  \/ \E r \in Request : Refuse(c, r) \/ Take(c, r)
  \/ Reject(c)
  \/ Call(c)
  \/ \E a \in SEPResponse : CallbackAnswers(c, a)
  \/ HandlerError(c)
  \/ Abort(c)

Next ==
  \/ \E p \in Path : \E k \in Callback : Add(p, k)
  \/ WithHttps
  \/ CannotStart
  \/ Listen
  \/ Break
  \/ Return
  \/ ShutdownFuture
  \/ \E c \in Conn : \/ Connect(c)
                     \/ Loop(c)
                     \/ HandshakeDone(c)
                     \/ HandshakeError(c)
                     \/ Handler(c)

Spec == Init /\ [][Next]_vars

\* The kernel hands connections over in their order, the select! picks at
\* random among its ready branches, and the executor drops an aborted task at
\* its next await.  No peer has to finish its handshake or its request, and no
\* callback has to answer.
Fairness ==
  /\ \A c \in Conn : SF_vars(Loop(c)) /\ WF_vars(Abort(c))
  /\ SF_vars(Break)
  /\ WF_vars(Return)

FairSpec == Spec /\ Fairness

-----------------------------------------------------------------------------
(* Properties.                                                             *)

\* run has returned and nothing is connected.
Over == phase = "stopped" /\ \A c \in Conn : conn[c] = "closed"

\* When run has returned after a shutdown nothing of it is left, and nothing
\* comes back: neither a handler, nor a handshake that was under way, nor what
\* was still waiting to be accepted finds a callback to run any more.
StaysStopped == [](phase = "stopped" => []Over)

\* A success is never sent for a notification that was not handled: a server
\* that hears 201 or 204 knows that the callback of this very path has run to
\* its end on a resource of its own type.
NoSilentSuccess ==
  \A c \in Conn : ack[c] # None
    => /\ ack[c].method = "POST"
       /\ ack[c].ran # None
       /\ ack[c].ran = routes[ack[c].path]
       /\ ack[c].body = ack[c].ran

\* No connection waits in the backlog for ever because of another: a peer that
\* breaks its connection, holds back its body, or keeps a callback waiting does
\* not end the loop or hold it up.  One that never ends its handshake does, and
\* so do peers that never give their file descriptors back.  Until the shutdown
\* only an error of TLS ends run (which run does not promise: it is to recover
\* from all errors but those of its start).
ServedUnlessStalled ==
  \A c \in Conn :
    [](conn[c] = "backlog" /\ phase = "listening"
         => <>(\/ conn[c] # "backlog" /\ phase = "listening"
               \/ requested
               \/ https /\ phase = "failed"
               \/ []Exhausted
               \/ \E d \in Conn : [](conn[d] = "handshake")))

\* The server stops when it is told to, whatever its handlers and their peers
\* are waiting for, unless a peer never ends its handshake.
StopsUnlessStalled ==
  [](requested /\ phase = "listening"
       => <>(\/ phase \in {"stopped", "failed"}
             \/ \E d \in Conn : [](conn[d] = "handshake")))
=============================================================================
