---------------------------- MODULE NotifProofs ----------------------------
(***************************************************************************)
(* Theorems about NotifServer, for any number of connections, paths and    *)
(* callbacks: its type, that run leaves nothing behind for good, and that  *)
(* a success is only sent for what was handled.                            *)
(***************************************************************************)
EXTENDS NotifServer, TLAPS

\* Nothing is connected, and nothing answered, before run listens.
QuietBefore ==
  phase = "new" => \A c \in Conn : conn[c] = "closed" /\ ack[c] = None

\* No handler is left when run has returned from a shutdown.
QuietAfter ==
  phase = "stopped" => \A c \in Conn : conn[c] \notin Handling

\* What a connection is handling has passed the checks made so far.
Checked ==
  \A c \in Conn :
    /\ conn[c] \in {"body", "callback"}
         => request[c].method = "POST" /\ routes[request[c].path] # None
    /\ conn[c] = "callback" => request[c].body = routes[request[c].path]

IInv == TypeOK /\ QuietBefore /\ Checked /\ QuietAfter /\ NoSilentSuccess

-----------------------------------------------------------------------------

\* Ending a connection only takes something away.
LEMMA EndedInv ==
  ASSUME IInv, NEW c \in Conn, Ended(c), phase # "new",
         UNCHANGED <<phase, requested, https, routes>>
  PROVE  IInv'
<1>1. \A d \in Conn : d # c => /\ conn'[d] = conn[d]
                              /\ request'[d] = request[d]
                              /\ ack'[d] = ack[d]
  BY DEF Ended, IInv, TypeOK
<1>2. conn'[c] = "closed" /\ request'[c] = None /\ ack'[c] = None
  BY DEF Ended, IInv, TypeOK
<1>3. TypeOK'
  BY <1>1, <1>2 DEF Ended, IInv, TypeOK, Handling
<1> QED BY <1>1, <1>2, <1>3
        DEF IInv, QuietBefore, Checked, QuietAfter, NoSilentSuccess, Handling

\* An answer keeps the invariant if it is a success only after the callback of
\* the route has run on a body of its own.
LEMMA AnswerInv ==
  ASSUME IInv, NEW c \in Conn, conn[c] \in Handling, NEW r \in Request,
         NEW k \in Callback \cup {None}, NEW a, Answer(c, r, k, a),
         UNCHANGED <<phase, requested, https, routes>>,
         a \in Success => /\ r.method = "POST" /\ k # None
                          /\ k = routes[r.path] /\ r.body = k
  PROVE  IInv'
<1> DEFINE told == IF a \in Success
                   THEN [path |-> r.path, method |-> r.method,
                         body |-> r.body, ran |-> k]
                   ELSE None
<1>1. \A d \in Conn : d # c => /\ conn'[d] = conn[d]
                              /\ request'[d] = request[d]
                              /\ ack'[d] = ack[d]
  BY DEF Answer, IInv, TypeOK
<1>2. conn'[c] = "idle" /\ request'[c] = None /\ ack'[c] = told
  BY DEF Answer, IInv, TypeOK
<1>3. told \in Ack \cup {None}
  BY DEF Ack, Request
<1>4. TypeOK'
  <2>1. ack' \in [Conn -> Ack \cup {None}]
    BY <1>3 DEF Answer, IInv, TypeOK
  <2> QED BY <1>1, <1>2, <2>1 DEF Answer, IInv, TypeOK, Handling
<1>5. phase # "stopped" /\ phase # "new"
  BY DEF IInv, QuietAfter, QuietBefore, Handling
<1>6. QuietBefore' /\ Checked' /\ QuietAfter'
  BY <1>1, <1>2, <1>5 DEF IInv, QuietBefore, Checked, QuietAfter
<1>7. NoSilentSuccess'
  <2> SUFFICES ASSUME NEW d \in Conn, ack'[d] # None
               PROVE  /\ ack'[d].method = "POST" /\ ack'[d].ran # None
                      /\ ack'[d].ran = routes'[ack'[d].path]
                      /\ ack'[d].body = ack'[d].ran
    BY DEF NoSilentSuccess
  <2>1. CASE d = c
    BY <1>2, <2>1
  <2>2. CASE d # c
    BY <1>1, <2>2 DEF IInv, NoSilentSuccess
  <2> QED BY <2>1, <2>2
<1> QED BY <1>4, <1>6, <1>7 DEF IInv

\* The steps that set the server up or move run from phase to phase.
LEMMA PhaseInv ==
  ASSUME IInv,
         \/ \E p \in Path : \E k \in Callback : Add(p, k)
         \/ WithHttps \/ CannotStart \/ Listen \/ Break \/ Return
         \/ ShutdownFuture
  PROVE  IInv'
<1>1. ASSUME NEW p \in Path, NEW k \in Callback, Add(p, k) PROVE IInv'
  <2>1. \A c \in Conn : conn[c] = "closed" /\ ack[c] = None
    BY <1>1 DEF Add, IInv, QuietBefore
  <2> QED BY <1>1, <2>1 DEF Add, IInv, TypeOK, QuietBefore, Checked,
                            QuietAfter, NoSilentSuccess
<1>2. CASE WithHttps \/ CannotStart \/ Listen \/ Break \/ ShutdownFuture
  BY <1>2 DEF WithHttps, CannotStart, Listen, Break, ShutdownFuture, IInv,
              TypeOK, QuietBefore, Checked, QuietAfter, NoSilentSuccess
<1>3. CASE Return
  <2>1. \A c \in Conn : conn'[c] \notin Handling
                         /\ (conn'[c] = conn[c] \/ conn'[c] = "closed")
    BY <1>3 DEF Return, Dropped, Handling, IInv, TypeOK
  <2>2. TypeOK'
    <3>1. \A c \in Conn : conn[c] = "backlog" => request[c] = None
      BY DEF IInv, TypeOK
    <3>2. conn' \in [Conn -> {"closed", "backlog", "handshake"} \cup Handling]
      BY <1>3 DEF Return, Dropped, IInv, TypeOK
    <3>3. \A c \in Conn : request[c] # None <=> conn'[c] \in {"body", "callback"}
      BY <1>3 DEF Return, Dropped, IInv, TypeOK, Handling
    <3> QED BY <1>3, <3>2, <3>3 DEF Return, IInv, TypeOK
  <2> QED BY <1>3, <2>1, <2>2
          DEF Return, IInv, QuietBefore, Checked, QuietAfter,
              NoSilentSuccess, Handling
<1> QED BY <1>1, <1>2, <1>3

\* The accept loop: a connection only becomes a handler while run listens.
LEMMA LoopInv ==
  ASSUME IInv, NEW c \in Conn,
         Loop(c) \/ HandshakeDone(c) \/ HandshakeError(c) \/ Connect(c)
  PROVE  IInv'
<1>1. CASE AcceptError(c) \/ HandshakeError(c)
  BY <1>1, EndedInv DEF AcceptError, HandshakeError
<1>2. CASE Accept(c) \/ HandshakeDone(c) \/ Connect(c)
  <2>1. /\ \A d \in Conn : d # c => conn'[d] = conn[d]
        /\ conn'[c] \in {"handshake", "idle", "backlog"}
        /\ phase # "new" /\ phase # "stopped"
        /\ conn[c] \in {"closed", "backlog", "handshake"}
        /\ UNCHANGED <<phase, requested, https, routes, request, ack>>
    BY <1>2 DEF Accept, HandshakeDone, Connect, IInv, TypeOK
  <2>2. conn' \in [Conn -> {"closed", "backlog", "handshake"} \cup Handling]
    BY <1>2 DEF Accept, HandshakeDone, Connect, IInv, TypeOK, Handling
  <2>3. TypeOK'
    BY <2>1, <2>2 DEF IInv, TypeOK
  <2> QED BY <2>1, <2>3 DEF IInv, QuietBefore, Checked, QuietAfter,
                            NoSilentSuccess, Handling
<1>3. CASE RunError(c)
  <2>1. \A d \in Conn : conn'[d] = conn[d]
                          \/ (conn[d] = "backlog" /\ conn'[d] = "closed")
    BY <1>3 DEF RunError, Dropped, IInv, TypeOK
  <2>2. conn' \in [Conn -> {"closed", "backlog", "handshake"} \cup Handling]
    BY <1>3 DEF RunError, Dropped, IInv, TypeOK
  <2>3. TypeOK'
    BY <1>3, <2>1, <2>2 DEF RunError, IInv, TypeOK, Handling
  <2> QED BY <1>3, <2>1, <2>3 DEF RunError, IInv, QuietBefore, Checked,
                                  QuietAfter, NoSilentSuccess, Handling
<1> QED BY <1>1, <1>2, <1>3 DEF Loop

\* The handlers: what they answer with a success has passed every check.
LEMMA HandlerInv ==
  ASSUME IInv, NEW c \in Conn, Handler(c)
  PROVE  IInv'
<1>0. phase \in {"stopping", "failed"} \/ conn[c] \in Handling => phase # "new"
  BY DEF IInv, QuietBefore, Handling
<1>1. ASSUME NEW r \in Request, Refuse(c, r) PROVE IInv'
  <2>1. Refusal(r) \notin Success
    BY DEF Refusal, Success
  <2> QED BY <1>1, <2>1, AnswerInv DEF Refuse, Handling
<1>2. ASSUME NEW r \in Request, Take(c, r) PROVE IInv'
  <2>1. /\ conn[c] = "idle" /\ conn'[c] = "body" /\ request'[c] = r
        /\ ack'[c] = None
        /\ r.method = "POST" /\ routes[r.path] # None
        /\ \A d \in Conn : d # c => /\ conn'[d] = conn[d]
                                    /\ request'[d] = request[d]
                                    /\ ack'[d] = ack[d]
        /\ UNCHANGED <<phase, requested, https, routes>>
    BY <1>2 DEF Take, IInv, TypeOK
  <2>2. phase # "stopped" /\ phase # "new"
    BY <2>1 DEF IInv, QuietAfter, QuietBefore, Handling
  <2>3. TypeOK'
    BY <1>2, <2>1, NoRequestAssumption DEF Take, IInv, TypeOK, Handling
  <2> QED BY <2>1, <2>2, <2>3 DEF IInv, QuietBefore, Checked, QuietAfter,
                                  NoSilentSuccess
<1>3. CASE Reject(c)
  <2>1. request[c] \in Request
    BY <1>3 DEF Reject, IInv, TypeOK
  <2> QED BY <1>3, <2>1, AnswerInv DEF Reject, Handling, Success
<1>4. CASE Call(c)
  <2>1. /\ conn[c] = "body" /\ conn'[c] = "callback"
        /\ request[c].body = routes[request[c].path]
        /\ \A d \in Conn : d # c => conn'[d] = conn[d]
        /\ UNCHANGED <<phase, requested, https, routes, request, ack>>
    BY <1>4 DEF Call, Readable, IInv, TypeOK
  <2>2. phase # "stopped" /\ phase # "new"
    BY <2>1 DEF IInv, QuietAfter, QuietBefore, Handling
  <2>3. TypeOK'
    BY <1>4, <2>1 DEF Call, IInv, TypeOK, Handling
  <2> QED BY <2>1, <2>2, <2>3 DEF IInv, QuietBefore, Checked, QuietAfter,
                                  NoSilentSuccess
<1>5. ASSUME NEW a \in SEPResponse, CallbackAnswers(c, a) PROVE IInv'
  <2>1. conn[c] = "callback" /\ request[c] \in Request
    BY <1>5 DEF CallbackAnswers, IInv, TypeOK
  <2>2. routes[request[c].path] \in Callback \cup {None}
    BY <2>1 DEF IInv, TypeOK, Request
  <2>3. /\ request[c].method = "POST" /\ routes[request[c].path] # None
        /\ request[c].body = routes[request[c].path]
    BY <2>1 DEF IInv, Checked
  <2> QED BY <1>5, <2>1, <2>2, <2>3, AnswerInv DEF CallbackAnswers, Handling
<1>6. CASE HandlerError(c) \/ Abort(c)
  BY <1>0, <1>6, EndedInv DEF HandlerError, Abort
<1> QED BY <1>1, <1>2, <1>3, <1>4, <1>5, <1>6 DEF Handler

\* The invariant is inductive.
LEMMA Inductive == Spec => []IInv
<1>1. Init => IInv
  BY DEF Init, IInv, TypeOK, QuietBefore, Checked, QuietAfter,
         NoSilentSuccess
<1>2. IInv /\ [Next]_vars => IInv'
  <2> SUFFICES ASSUME IInv, [Next]_vars PROVE IInv'
    OBVIOUS
  <2>1. CASE UNCHANGED vars
    BY <2>1 DEF vars, IInv, TypeOK, QuietBefore, Checked, QuietAfter,
                NoSilentSuccess
  <2> QED BY <2>1, PhaseInv, LoopInv, HandlerInv DEF Next
<1> QED BY <1>1, <1>2, PTL DEF Spec

-----------------------------------------------------------------------------
(* The theorems.                                                           *)

\* Every variable keeps its type, and a connection has a request exactly while
\* its handler works on one.
THEOREM TypeCorrect == Spec => []TypeOK
<1>1. IInv => TypeOK
  BY DEF IInv
<1> QED BY <1>1, Inductive, PTL

\* A success is only ever sent for a POST whose path has a callback of the
\* type of the body, after that callback has run to its end.
THEOREM SuccessIsEarned == Spec => []NoSilentSuccess
<1>1. IInv => NoSilentSuccess
  BY DEF IInv
<1> QED BY <1>1, Inductive, PTL

-----------------------------------------------------------------------------
(* The end of run is final.                                                *)

\* Only a loop that runs waits for a handshake.
Shaking == \A c \in Conn : conn[c] = "handshake" => phase = "listening"

Stopped == phase = "stopped" => Over

LEMMA NextStopped ==
  ASSUME IInv, Shaking, Stopped, [Next]_vars
  PROVE  Shaking' /\ Stopped'
<1>0. conn \in [Conn -> {"closed", "backlog", "handshake"} \cup Handling]
  BY DEF IInv, TypeOK
<1>1. CASE \/ \E p \in Path : \E k \in Callback : Add(p, k)
           \/ WithHttps \/ ShutdownFuture \/ UNCHANGED vars
  BY <1>1 DEF Add, WithHttps, ShutdownFuture, vars, Shaking, Stopped, Over
<1>2. CASE CannotStart \/ Listen \/ Break
  BY <1>2 DEF CannotStart, Listen, Break, Busy, Shaking, Stopped, Over, IInv,
              QuietBefore
<1>3. CASE Return
  <2>1. phase = "stopping" /\ phase' = "stopped" /\ conn' = Dropped
    BY <1>3 DEF Return
  <2>2. \A c \in Conn : conn[c] \in {"closed", "backlog"}
    BY <1>0, <1>3, <2>1 DEF Return, Shaking
  <2>3. \A c \in Conn : conn'[c] = "closed"
    BY <2>1, <2>2 DEF Dropped
  <2> QED BY <2>1, <2>3 DEF Shaking, Stopped, Over
<1>4. ASSUME NEW c \in Conn, RunError(c) PROVE Shaking' /\ Stopped'
  <2>1. phase' = "failed" /\ conn' = Dropped /\ ~Busy
    BY <1>4 DEF RunError
  <2> QED BY <2>1 DEF Dropped, Busy, Shaking, Stopped
<1>5. ASSUME NEW c \in Conn,
             \/ Accept(c) \/ AcceptError(c) \/ HandshakeDone(c)
             \/ HandshakeError(c) \/ Connect(c) \/ Handler(c)
      PROVE  Shaking' /\ Stopped'
  <2>1. /\ phase' = phase
        /\ \E s \in {"closed", "backlog", "handshake"} \cup Handling :
             /\ conn' = [conn EXCEPT ![c] = s]
             /\ s = "handshake" => phase = "listening"
    BY <1>5 DEF Accept, AcceptError, HandshakeDone, HandshakeError, Connect,
                Handler, Refuse, Take, Reject, Call, CallbackAnswers,
                HandlerError, Abort, Answer, Ended, Handling
  <2>2. phase # "stopped"
    BY <1>5 DEF Accept, AcceptError, HandshakeDone, HandshakeError, Connect,
                Handler, Refuse, Take, Reject, Call, CallbackAnswers,
                HandlerError, Abort, Stopped, Over, Handling
  <2> QED BY <1>0, <2>1, <2>2 DEF Shaking, Stopped
<1> QED BY <1>1, <1>2, <1>3, <1>4, <1>5 DEF Next, Loop

\* When run has returned from a shutdown it is over for good: every connection
\* is closed, those in the backlog too, and no later request finds a handler
\* or runs a callback.
THEOREM StopsForGood == Spec => StaysStopped
<1>1. Init => Shaking /\ Stopped
  BY DEF Init, Shaking, Stopped
<1>2. IInv /\ Shaking /\ Stopped /\ [Next]_vars => Shaking' /\ Stopped'
  BY NextStopped
<1>3. Over /\ Stopped' /\ [Next]_vars => Over'
  BY DEF Over, Stopped, Next, Add, WithHttps, CannotStart, Listen, Break, Return,
         ShutdownFuture, Connect, Loop, Accept, AcceptError, RunError,
         HandshakeDone, HandshakeError, Handler, Refuse, Take, Reject, Call,
         CallbackAnswers, HandlerError, Abort, vars
<1>4. Stopped /\ phase = "stopped" => Over
  BY DEF Stopped
<1> QED BY <1>1, <1>2, <1>3, <1>4, Inductive, PTL DEF Spec, StaysStopped
=============================================================================
