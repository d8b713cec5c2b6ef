--------------------------- MODULE PolicyEvalClient ---------------------------
(***************************************************************************)
(* The environment side of the WebSocket protocol: PolicyEvalClient        *)
(* (client_server/ws/protocol/client.py) as WsModelClient drives it        *)
(* (client_server/ws/model_client.py).  One coroutine at a time makes a    *)
(* request; it connects, reconnects and retries inside that request.  Next *)
(* to it run one receive loop for each connection and, after the caller    *)
(* has given up or is done, close().  Links fail, the server process dies  *)
(* and comes back as another one, and every wait of the caller can time    *)
(* out.  One action is the code between two awaits.                        *)
(*                                                                         *)
(* Every HELLO has a fresh id and is sent on a fresh connection, so that   *)
(* connection stands for the id.                                           *)
(***************************************************************************)
EXTENDS Naturals, FiniteSets

CONSTANTS
  Requests,     \* logical requests of the caller, each with its request_id
  Conns,        \* websocket connections the client may open, each once
  MaxAttempts,  \* max_connect_attempts
  MaxEpoch,     \* bound: server processes that run one after the other
  None

Ids == Requests \cup Conns

ASSUME IdsAssumption    == Requests \cap Conns = {}
ASSUME NoneAssumption   == None \notin Ids
ASSUME BoundsAssumption == MaxAttempts \in Nat \ {0} /\ MaxEpoch \in Nat

VARIABLES
  epoch, up,     \* the server process, numbered from 1, and whether it listens
  link,          \* [Conns -> new | open | lost | shut], shut by the client
  peer,          \* [Conns -> process behind the connection, 0 before it opens]
  unanswered,    \* [Conns -> ids of the frames the server has yet to answer]
  ws, recvTask,  \* _ws, _recv_task: a connection or None
  recv,          \* [Conns -> none | running | cancelled | done], its _recv_loop
  pinned,        \* _server_instance_id, 0 before the first handshake
  closed,        \* _closed
  pending,       \* keys of _pending
  fut,           \* the future the caller awaits, and the frame that resolved it
  stage,         \* the await the caller is at, "idle" or "gone"
  req,           \* its request, None in the constructor
  retried,       \* _reconnect_attempted
  recheck,       \* connect() returns into a retry, which looks at _ws again
  attempts,      \* attempt of the connect loop
  on,            \* connection the caller sends on
  joining,       \* the receive loop a reset of the caller waits for
  after,         \* what the caller does after that reset
  closer,        \* progress of close()
  closerJoins,   \* the receive loop the reset of close() waits for
  result,        \* [Requests -> how the request ended]
  copies,        \* history: times each request was delivered to a server
  seenBy,        \* history: the server processes it was delivered to
  expired        \* history: requests that hit a timeout

netVars == <<epoch, up, link, peer, unanswered>>
sockVars == <<ws, recvTask, recv, pinned>>
futVars == <<pending, fut>>
retryVars == <<retried, recheck>>
callVars == <<stage, req, retryVars, attempts, on, joining, after, result>>
closeVars == <<closed, closer, closerJoins>>
history == <<copies, seenBy, expired>>
vars == <<netVars, sockVars, futVars, callVars, closeVars, history>>

Failures == {"error", "timeout", "unreachable", "restarted", "closed", "cancelled"}
FutureState == {"none", "waiting", "ok", "error", "failed"}
Future == [id : Ids \cup {None}, state : FutureState, by : Ids \cup {None}]

\* The constructor of WsModelClient calls connect().
Init ==
  /\ epoch = 0 /\ up = FALSE
  /\ link = [c \in Conns |-> "new"]
  /\ peer = [c \in Conns |-> 0]
  /\ unanswered = [c \in Conns |-> {}]
  /\ ws = None /\ recvTask = None
  /\ recv = [c \in Conns |-> "none"]
  /\ pinned = 0
  /\ pending = {}
  /\ fut = [id |-> None, state |-> "none", by |-> None]
  /\ stage = "opening" /\ req = None /\ retried = FALSE /\ recheck = FALSE /\ attempts = 1
  /\ on = None /\ joining = None /\ after = "retry"
  /\ result = [r \in Requests |-> "none"]
  /\ closed = FALSE /\ closer = "no" /\ closerJoins = None
  /\ copies = [r \in Requests |-> 0]
  /\ seenBy = [r \in Requests |-> {}]
  /\ expired = {}

-----------------------------------------------------------------------------
(* The server process and the network.                                     *)

Boot ==
  /\ ~up /\ epoch < MaxEpoch
  /\ up' = TRUE /\ epoch' = epoch + 1
  /\ UNCHANGED <<link, peer, unanswered, sockVars, futVars, callVars, closeVars, history>>

\* The process dies, with every connection to it.
Crash ==
  /\ up
  /\ up' = FALSE
  /\ link' = [c \in Conns |-> IF link[c] = "open" THEN "lost" ELSE link[c]]
  /\ UNCHANGED <<epoch, peer, unanswered, sockVars, futVars, callVars, closeVars, history>>

LoseLink(c) ==
  /\ link[c] = "open"
  /\ link' = [link EXCEPT ![c] = "lost"]
  /\ UNCHANGED <<epoch, up, peer, unanswered, sockVars, futVars, callVars, closeVars, history>>

-----------------------------------------------------------------------------
(* What several of the caller's steps do.                                  *)

\* The request, or the constructor, ends.
End(outcome) ==
  /\ stage' = IF req = None /\ outcome # "ok" THEN "gone" ELSE "idle"
  /\ result' = [r \in Requests |-> IF r = req THEN outcome ELSE result[r]]
  /\ req' = None

\* connect(): the loop refuses to begin once the client is closed.
StartConnect ==
  IF closed THEN End("closed") /\ attempts' = attempts
  ELSE /\ stage' = "opening" /\ attempts' = 1
       /\ UNCHANGED <<req, result>>

\* A fresh future for id, registered before its frame is sent.
AwaitReply(id) ==
  /\ pending' = pending \cup {id}
  /\ fut' = [id |-> id, state |-> "waiting", by |-> None]

\* _fail_pending: every registered future fails and the table is emptied.
FailPending ==
  /\ pending' = {}
  /\ fut' = IF fut.id \in pending THEN [fut EXCEPT !.state = "failed"] ELSE fut

\* Mutant of Detach: the receive loop goes but its connection stays open.
DetachOnly(conn, task) ==
  /\ ws' = None /\ recvTask' = None
  /\ link' = link
  /\ recv' = [c \in Conns |-> IF c = task /\ recv[c] # "done" THEN "cancelled" ELSE recv[c]]

\* The synchronous half of _reset_connection_state: detach, cancel, close.
Detach(conn, task) ==
  /\ ws' = None /\ recvTask' = None
  /\ link' = [c \in Conns |-> IF c = conn /\ link[c] # "new" THEN "shut" ELSE link[c]]
  /\ recv' = [c \in Conns |-> IF c = task /\ recv[c] # "done" THEN "cancelled" ELSE recv[c]]

\* The caller resets the connection and goes on with next.  The future it
\* waited for is popped; the others fail when there was a connection.
Reset(next) ==
  /\ Detach(ws, recvTask)
  /\ pending' = IF ws # None THEN {} ELSE pending \ {fut.id}
  /\ joining' = recvTask
  /\ after' = next
  /\ stage' = "reset"

-----------------------------------------------------------------------------
(* connect(): one attempt opens a connection and shakes hands.             *)

\* Mutant of OpenedInTime: close() is not looked for after the await.
NeverClosed == TRUE

\* _raise_if_closed_during_connect
OpenedInTime == ~closed

\* websockets.connect returns; the receive loop and the HELLO start.
Opened(c) ==
  /\ stage = "opening" /\ up /\ link[c] = "new"
  /\ peer' = [peer EXCEPT ![c] = epoch]
  /\ IF OpenedInTime
     THEN /\ ws' = c /\ recvTask' = c
          /\ link' = [link EXCEPT ![c] = "open"]
          /\ recv' = [recv EXCEPT ![c] = "running"]
          /\ AwaitReply(c)
          /\ on' = c /\ stage' = "helloSend"
          /\ UNCHANGED <<joining, after>>
     ELSE /\ ws' = None /\ recvTask' = None
          /\ link' = [link EXCEPT ![c] = "shut"]
          /\ recv' = [recv EXCEPT ![c] = "cancelled"]
          /\ stage' = "reset" /\ joining' = c /\ after' = "closed"
          /\ UNCHANGED <<pending, fut, on>>
  /\ UNCHANGED <<epoch, up, unanswered, pinned, req, retryVars, attempts, result,
                 closeVars, history>>

\* Refused, unreachable or longer than connect_timeout_s.
OpenFails ==
  /\ stage = "opening"
  /\ Reset("retry")
  /\ UNCHANGED <<epoch, up, peer, unanswered, pinned, fut, req, retryVars, attempts, on,
                 result, closeVars, history>>

\* Every frame handed to an open link reaches the server; on a link that was
\* lost unnoticed it goes nowhere.
Transmit(c, id) ==
  unanswered' = [unanswered EXCEPT ![c] = IF link[c] = "open" THEN @ \cup {id} ELSE @]

HelloSent ==
  /\ stage = "helloSend" /\ link[on] \in {"open", "lost"}
  /\ Transmit(on, on)
  /\ stage' = "helloWait"
  /\ UNCHANGED <<epoch, up, link, peer, sockVars, futVars, req, retryVars, attempts, on,
                 joining, after, result, closeVars, history>>

\* The send of the HELLO or its answer fails or takes longer than
\* handshake_timeout_s.
HelloFails ==
  /\ stage \in {"helloSend", "helloWait"}
  /\ stage = "helloWait" => fut.state # "ok"
  /\ Reset("retry")
  /\ UNCHANGED <<epoch, up, peer, unanswered, pinned, fut, req, retryVars, attempts, on,
                 result, closeVars, history>>

\* Mutant of SameServer: the identity of the process is not compared.
AnyServer(c) == TRUE

\* _check_server_identity: the first process is pinned.
SameServer(c) == pinned \in {0, peer[c]}

HelloRefused ==
  /\ stage = "helloWait" /\ fut.state = "ok" /\ ~SameServer(on)
  /\ Reset("restarted")
  /\ UNCHANGED <<epoch, up, peer, unanswered, pinned, fut, req, retryVars, attempts, on,
                 result, closeVars, history>>

HelloTooLate ==
  /\ stage = "helloWait" /\ fut.state = "ok" /\ SameServer(on) /\ closed
  /\ pinned' = peer[on]
  /\ Reset("closed")
  /\ UNCHANGED <<epoch, up, peer, unanswered, fut, req, retryVars, attempts, on,
                 result, closeVars, history>>

\* connect() has succeeded.
Welcome ==
  /\ stage = "helloWait" /\ fut.state = "ok" /\ SameServer(on) /\ ~closed
  /\ pinned' = peer[on]
  /\ UNCHANGED <<netVars, ws, recvTask, recv, retried, joining, after,
                 closeVars, history>>

ConstructorEnds ==
  /\ Welcome /\ req = None
  /\ End("ok")
  /\ UNCHANGED <<futVars, recheck, attempts, on>>

\* The receive loop has ended since it read the ack: a retry connects again.
LostAgain ==
  /\ Welcome /\ req # None /\ ws = None /\ recheck
  /\ recheck' = FALSE
  /\ stage' = "opening" /\ attempts' = 1
  /\ UNCHANGED <<futVars, req, on, result>>

\* The request that needed the connection is sent on what _ws is now.
Connected ==
  /\ Welcome /\ req # None /\ (ws = None => ~recheck)
  /\ AwaitReply(req)
  /\ on' = ws
  /\ stage' = "send"
  /\ UNCHANGED <<req, recheck, attempts, result>>

\* The asynchronous half of a reset: the connection is closed and the
\* cancelled receive loop has ended.
Joined(c) == c \notin {d \in Conns : recv[d] \in {"running", "cancelled"}}

\* A failed attempt was not the last one and the time is not up.
AttemptsLeft ==
  /\ stage = "reset" /\ after = "retry" /\ Joined(joining)
  /\ attempts < MaxAttempts
  /\ stage' = "backoff"
  /\ UNCHANGED <<netVars, sockVars, futVars, req, retryVars, attempts, on, joining, after,
                 result, closeVars, history>>

\* The last attempt, or max_connect_seconds have passed.
GiveUp ==
  /\ stage = "reset" /\ after = "retry" /\ Joined(joining)
  /\ End("unreachable")
  /\ UNCHANGED <<netVars, sockVars, futVars, retryVars, attempts, on, joining, after,
                 closeVars, history>>

Refuse ==
  /\ stage = "reset" /\ after \in {"restarted", "closed"} /\ Joined(joining)
  /\ End(after)
  /\ UNCHANGED <<netVars, sockVars, futVars, retryVars, attempts, on, joining, after,
                 closeVars, history>>

BackoffEnds ==
  /\ stage = "backoff"
  /\ IF closed
     THEN End("closed") /\ attempts' = attempts
     ELSE /\ stage' = "opening" /\ attempts' = attempts + 1
          /\ UNCHANGED <<req, result>>
  /\ UNCHANGED <<netVars, sockVars, futVars, retryVars, on, joining, after,
                 closeVars, history>>

-----------------------------------------------------------------------------
(* request()                                                               *)

\* The caller issues a request; without a connection it connects first.
Call(r) ==
  /\ stage = "idle" /\ closer = "no" /\ result[r] = "none"
  /\ req' = r /\ retried' = FALSE /\ recheck' = FALSE
  /\ IF ws = None
     THEN stage' = "opening" /\ attempts' = 1 /\ UNCHANGED <<futVars, on>>
     ELSE /\ AwaitReply(r)
          /\ on' = ws
          /\ stage' = "send"
          /\ attempts' = attempts
  /\ UNCHANGED <<netVars, sockVars, joining, after, result, closeVars, history>>

LinkUp(c) == c \in {d \in Conns : link[d] = "open"}

\* One more copy of the request is in the hands of the server.
Delivered ==
  /\ copies' = [copies EXCEPT ![req] = @ + 1]
  /\ seenBy' = [seenBy EXCEPT ![req] = @ \cup {peer[on]}]

Sent ==
  /\ stage = "send" /\ on # None /\ link[on] \in {"open", "lost"}
  /\ Transmit(on, req)
  /\ IF LinkUp(on) THEN Delivered ELSE UNCHANGED <<copies, seenBy>>
  /\ stage' = "wait"
  /\ UNCHANGED <<epoch, up, link, peer, sockVars, futVars, req, retryVars, attempts, on,
                 joining, after, result, closeVars, expired>>

\* A send cut short may still have reached the server.
MayBeDelivered ==
  \/ UNCHANGED <<unanswered, copies, seenBy>>
  \/ /\ LinkUp(on)
     /\ Transmit(on, req) /\ Delivered

\* Mutant of MayRetry: a retry may be followed by another.
RetryAlways == ~closed

MayRetry == ~retried /\ ~closed

\* send() raised, or there is no connection any more: reset, reconnect and
\* retry once under the same id.
SendFails ==
  /\ stage = "send" /\ ~LinkUp(on)
  /\ IF MayRetry
     THEN /\ Reset("resend") /\ retried' = TRUE /\ recheck' = TRUE
          /\ UNCHANGED <<req, result>>
     ELSE /\ End("error")
          /\ pending' = pending \ {req}
          /\ UNCHANGED <<ws, recvTask, recv, link, joining, after, retryVars>>
  /\ UNCHANGED <<epoch, up, peer, unanswered, pinned, fut, attempts, on,
                 closeVars, history>>

Reconnect ==
  /\ stage = "reset" /\ after = "resend" /\ Joined(joining)
  /\ StartConnect
  /\ UNCHANGED <<netVars, sockVars, futVars, retryVars, on, joining, after,
                 closeVars, history>>

\* Mutant of SendTimeout: a send that timed out is retried.
SendTimeoutRetried ==
  /\ stage = "send" /\ ~retried /\ ~closed
  /\ MayBeDelivered
  /\ expired' = expired \cup {req}
  /\ Reset("resend") /\ retried' = TRUE /\ recheck' = TRUE
  /\ UNCHANGED <<epoch, up, peer, pinned, fut, req, attempts, on, result, closeVars>>

\* A peer that stops reading blocks the send.
SendTimeout ==
  /\ stage = "send" /\ on # None
  /\ MayBeDelivered
  /\ expired' = expired \cup {req}
  /\ pending' = pending \ {req}
  /\ End("timeout")
  /\ UNCHANGED <<epoch, up, link, peer, sockVars, fut, retryVars, attempts, on, joining,
                 after, closeVars>>

Answered ==
  /\ stage = "wait" /\ fut.state = "ok"
  /\ End("ok")
  /\ UNCHANGED <<netVars, sockVars, futVars, retryVars, attempts, on, joining, after,
                 closeVars, history>>

\* An ERROR reply, or a connection that dropped: without a connection the
\* request is retried once.
WaitFails ==
  /\ stage = "wait" /\ fut.state \in {"error", "failed"}
  /\ pending' = pending \ {req}
  /\ IF ws = None /\ MayRetry
     THEN retried' = TRUE /\ recheck' = TRUE /\ StartConnect
     ELSE End("error") /\ UNCHANGED <<retryVars, attempts>>
  /\ UNCHANGED <<netVars, sockVars, fut, on, joining, after, closeVars, history>>

\* Mutant of WaitTimeout: it never fires.
WaitForever == FALSE

WaitTimeout ==
  /\ stage = "wait" /\ fut.state = "waiting"
  /\ expired' = expired \cup {req}
  /\ pending' = pending \ {req}
  /\ End("timeout")
  /\ UNCHANGED <<netVars, sockVars, fut, retryVars, attempts, on, joining, after,
                 closeVars, copies, seenBy>>

-----------------------------------------------------------------------------
(* _recv_loop and _dispatch_incoming                                       *)

\* Mutant of Resolves: any reply resolves the future that is waiting.
AnyReply(id) == fut.id \in pending

\* The reply is for a registered future; one that came too late is not.
Resolves(id) == id \in pending /\ fut.id = id

\* The server answers frame id on connection c and the receive loop reads it.
Receive(c, id, kind) ==
  /\ recv[c] = "running" /\ link[c] \in {"open", "lost"} /\ id \in unanswered[c]
  /\ unanswered' = [unanswered EXCEPT ![c] = @ \ {id}]
  /\ pending' = pending \ {IF Resolves(id) THEN fut.id ELSE id}
  /\ fut' = IF Resolves(id) /\ fut.state = "waiting"
            THEN [fut EXCEPT !.state = kind, !.by = id] ELSE fut
  /\ UNCHANGED <<epoch, up, link, peer, sockVars, callVars, closeVars, history>>

\* Mutant of RecvEnds: a cancelled loop reads on.
RecvIgnoresCancel(c) ==
  /\ recv[c] = "running" /\ link[c] # "open"
  /\ recv' = [recv EXCEPT ![c] = "done"]
  /\ IF ws = c /\ ~closed
     THEN ws' = None /\ FailPending /\ link' = [link EXCEPT ![c] = "shut"]
     ELSE UNCHANGED <<ws, futVars, link>>
  /\ UNCHANGED <<epoch, up, peer, unanswered, recvTask, pinned, callVars,
                 closeVars, history>>

\* The loop of connection c ends, by itself or cancelled.  It cleans up when
\* its connection is still the current one.
RecvEnds(c) ==
  /\ recv[c] = "cancelled" \/ (recv[c] = "running" /\ link[c] # "open")
  /\ recv' = [recv EXCEPT ![c] = "done"]
  /\ IF ws = c /\ ~closed
     THEN /\ ws' = None
          /\ FailPending
          /\ link' = [link EXCEPT ![c] = "shut"]
     ELSE UNCHANGED <<ws, futVars, link>>
  /\ UNCHANGED <<epoch, up, peer, unanswered, recvTask, pinned, callVars,
                 closeVars, history>>

-----------------------------------------------------------------------------
(* close(), called when idle or after the caller was interrupted and left   *)
(* its request behind on the loop thread.                                   *)

CloseResets ==
  /\ FailPending
  /\ Detach(ws, recvTask)
  /\ closerJoins' = recvTask
  /\ closer' = "resetting"

Close ==
  /\ closer = "no" /\ (stage = "idle" \/ req # None)
  /\ closed' = TRUE
  /\ IF ws # None
     THEN closer' = "sending" /\ UNCHANGED <<ws, recvTask, recv, link, futVars, closerJoins>>
     ELSE CloseResets
  /\ UNCHANGED <<epoch, up, peer, unanswered, pinned, callVars, history>>

\* send_close() has sent its frame, failed or timed out.
CloseSent ==
  /\ closer = "sending"
  /\ CloseResets
  /\ UNCHANGED <<epoch, up, peer, unanswered, pinned, callVars, closed, history>>

CloseDone ==
  /\ closer = "resetting" /\ Joined(closerJoins)
  /\ closer' = "done"
  /\ UNCHANGED <<netVars, sockVars, futVars, callVars, closed, closerJoins, history>>

\* _shutdown_loop cancels what is left on the loop.
CancelLeftover ==
  /\ closer = "done" /\ stage \notin {"idle", "gone"}
  /\ pending' = pending \ {fut.id}
  /\ End("cancelled")
  /\ UNCHANGED <<netVars, sockVars, fut, retryVars, attempts, on, joining, after,
                 closeVars, history>>

-----------------------------------------------------------------------------
Environment == Boot \/ Crash \/ \E c \in Conns : LoseLink(c)

Connecting ==
  \/ (\E c \in Conns : Opened(c)) \/ OpenFails
  \/ HelloSent \/ HelloFails \/ HelloRefused \/ HelloTooLate
  \/ ConstructorEnds \/ LostAgain \/ Connected
  \/ AttemptsLeft \/ GiveUp \/ Refuse \/ BackoffEnds

Requesting ==
  \/ Sent \/ SendFails \/ Reconnect \/ SendTimeout
  \/ Answered \/ WaitFails \/ WaitTimeout

Receiving(c) ==
  \/ \E id \in Ids, kind \in {"ok", "error"} : Receive(c, id, kind)
  \/ RecvEnds(c)

Closing == CloseSent \/ CloseDone \/ CancelLeftover

Next ==
  \/ Environment
  \/ \E r \in Requests : Call(r)
  \/ Connecting \/ Requesting
  \/ \E c \in Conns : Receiving(c)
  \/ Close \/ Closing

Spec == Init /\ [][Next]_vars

\* The loop runs every ready task and every expired timer.
Fairness ==
  /\ WF_vars(Connecting \/ Requesting)
  /\ \A c \in Conns : WF_vars(RecvEnds(c))
  /\ WF_vars(Closing)

FairSpec == Spec /\ Fairness
-----------------------------------------------------------------------------
(* Properties.                                                             *)

\* Every variable keeps its type.
TypeOK ==
  /\ epoch \in Nat /\ up \in BOOLEAN
  /\ link \in [Conns -> {"new", "open", "lost", "shut"}]
  /\ peer \in [Conns -> Nat]
  /\ unanswered \in [Conns -> SUBSET Ids]
  /\ ws \in Conns \cup {None} /\ recvTask \in Conns \cup {None}
  /\ recv \in [Conns -> {"none", "running", "cancelled", "done"}]
  /\ pinned \in Nat
  /\ pending \subseteq Ids
  /\ fut \in Future
  /\ stage \in {"idle", "gone", "opening", "helloSend", "helloWait", "reset",
                "backoff", "send", "wait"}
  /\ req \in Requests \cup {None} /\ retried \in BOOLEAN /\ recheck \in BOOLEAN
  /\ attempts \in 1..MaxAttempts
  /\ on \in Conns \cup {None} /\ joining \in Conns \cup {None}
  /\ after \in {"retry", "resend", "restarted", "closed"}
  /\ result \in [Requests -> Failures \cup {"none", "ok"}]
  /\ closed \in BOOLEAN /\ closer \in {"no", "sending", "resetting", "done"}
  /\ closerJoins \in Conns \cup {None}
  /\ copies \in [Requests -> Nat]
  /\ seenBy \in [Requests -> SUBSET Nat]
  /\ expired \subseteq Requests

\* The server process that saw the first request sees all of them: a request
\* never reaches a process that has lost the model state
\* (_check_server_identity).
OneServer ==
  \A r, s \in Requests : \A i \in seenBy[r], j \in seenBy[s] : i = j

\* However often the link fails, a request is delivered at most twice, the
\* number the replay cache of the server is sized for (request).
AtMostTwoCopies == \A r \in Requests : copies[r] <= 2

\* A timeout is final: the request may be executing, so no further copy of it
\* is ever sent (the timeout branches of request).
TimeoutIsFinal ==
  [][\A r \in expired : copies'[r] = copies[r]]_vars

\* The answer a request returns is the answer to that request, also when the
\* answer to an earlier, timed out one arrives first (_dispatch_incoming).
OwnAnswer ==
  stage = "wait" /\ fut.state \in {"ok", "error"} => fut.by = req

\* Once close() has returned and the caller is off the loop nothing is left
\* behind: no connection that is not closed, no receive loop that runs on.
NoLeak ==
  closer = "done" /\ stage = "idle" =>
    /\ \A c \in Conns : link[c] \notin {"open", "lost"} /\ recv[c] # "running"
    /\ ws = None

\* After close() has returned no frame is sent on any connection, not even by
\* a request that was left behind (_raise_if_closed_during_connect).
SilentAfterClose ==
  [][closer = "done" => \A c \in Conns : unanswered'[c] \subseteq unanswered[c]]_vars

\* Every request returns, whatever the network and the server do.
CallEnds == stage \notin {"idle", "gone"} ~> stage \in {"idle", "gone"}

\* close() returns.
CloseEnds == closer # "no" ~> closer = "done"
=============================================================================
