------------------------------ MODULE LegacyTcp ------------------------------
(***************************************************************************)
(* The legacy TCP transport: ModelClient of tcp/model_client.py, which     *)
(* makes its calls one after the other, and ModelServer of                 *)
(* tcp/model_server.py, which serves each connection by a thread of its own*)
(* and calls the model without a lock.                                     *)
(*                                                                         *)
(* Calls are numbered in the order the client makes them and connections in*)
(* the order they are opened.  A message is the number of its call.        *)
(***************************************************************************)
EXTENDS Naturals, Sequences, FiniteSets

CONSTANTS
  NCalls,       \* bound: calls the client makes
  MaxAttempts,  \* CONNECT_MAX_ATTEMPTS
  MaxLosses,    \* bound: connections that break under the client
  Failing       \* the calls whose method raises

Calls == 1..NCalls
\* Every call is sent at most twice, on connections of their own.
Conns == 1..(2 * NCalls + 1)
Error == 0

VARIABLES
  listening,  \* the server's port is open
  client,     \* "connecting", "idle", "receiving" or "done"
  call,       \* the call under way, 0 before the first
  retried,    \* _reconnect_attempted
  attempts,   \* failed attempts of the current _connect
  sock,       \* the client's connection, 0: None
  opened,     \* connections so far
  losses,
  closed,     \* connections the client has closed
  inbox,      \* [Conns -> calls sent and not read]
  outbox,     \* [Conns -> answers sent and not read]
  thread,     \* [Conns -> the server's thread]
  serving,    \* [Conns -> the call it executes]
  ran,        \* history: executions that have started, in order
  got         \* [Calls -> what the caller got]

vars == <<listening, client, call, retried, attempts, sock, opened, losses, closed,
          inbox, outbox, thread, serving, ran, got>>
server == <<inbox, outbox, thread, serving, ran>>

Init ==
  /\ listening = FALSE
  /\ client = "connecting" /\ call = 0 /\ retried = FALSE
  /\ attempts = 0 /\ sock = 0 /\ opened = 0 /\ losses = 0 /\ closed = {}
  /\ inbox = [c \in Conns |-> <<>>] /\ outbox = [c \in Conns |-> <<>>]
  /\ thread = [c \in Conns |-> "none"] /\ serving = [c \in Conns |-> 0]
  /\ ran = <<>>
  /\ got = [k \in Calls |-> <<>>]

-----------------------------------------------------------------------------
(* ModelClient.                                                            *)

\* The server has loaded its model and opens the port.
Listen ==
  /\ ~listening
  /\ listening' = TRUE
  /\ UNCHANGED <<client, call, retried, attempts, sock, opened, losses, closed, server, got>>

\* _send_recv: the request goes out whole; the client waits for the answer.
Send(k, c) ==
  /\ inbox' = [inbox EXCEPT ![c] = Append(@, k)]
  /\ client' = "receiving"

\* The constructor raises into the caller, and so does call().
GiveUp ==
  /\ client' = IF call \in Calls THEN "idle" ELSE "done"
  /\ got' = [k \in Calls |-> IF k = call THEN <<"raised">> ELSE got[k]]
  /\ UNCHANGED inbox

\* _connect succeeds; inside call() the request is sent again at once.
Connect ==
  LET c == opened + 1
  IN /\ client = "connecting" /\ listening
     /\ opened' = c /\ sock' = c /\ attempts' = 0
     /\ thread' = [thread EXCEPT ![c] = "reading"]
     /\ IF call = 0 THEN client' = "idle" /\ UNCHANGED inbox ELSE Send(call, c)
     /\ UNCHANGED <<listening, call, retried, losses, closed, outbox, serving, ran, got>>

\* An attempt fails; after the last one _connect raises.
ConnectFails ==
  /\ client = "connecting"
  /\ listening => losses < MaxLosses
  /\ losses' = IF listening THEN losses + 1 ELSE losses
  /\ attempts' = (attempts + 1) % MaxAttempts
  /\ IF attempts + 1 < MaxAttempts THEN UNCHANGED <<client, got, inbox>> ELSE GiveUp
  /\ UNCHANGED <<listening, call, retried, sock, opened, closed, outbox, thread, serving, ran>>

\* Mutant of MayRetry: the flag of the second attempt is not passed on.
MayAlwaysRetry == TRUE

MayRetry == ~retried

\* call(): the first failure reconnects and sends again, the second raises.
AfterFailure ==
  IF MayRetry
  THEN client' = "connecting" /\ retried' = TRUE /\ UNCHANGED <<got, inbox>>
  ELSE GiveUp /\ UNCHANGED retried

\* _send_recv closes the socket on every exception.
Failed == closed' = closed \cup {sock} /\ sock' = 0 /\ AfterFailure

\* The next call; without a socket (a call before it raised) sending fails.
Call ==
  /\ client = "idle" /\ call < NCalls
  /\ call' = call + 1
  /\ IF sock # 0
     THEN Send(call + 1, sock) /\ retried' = FALSE
     ELSE client' = "connecting" /\ retried' = TRUE /\ UNCHANGED inbox
  /\ UNCHANGED <<listening, attempts, sock, opened, losses, closed, outbox, thread,
                 serving, ran, got>>

\* call(): "res" of the response, None when there is none.
Outcome(answer) == IF answer = Error THEN <<"None">> ELSE <<"result", answer>>

\* The response is complete.
Receive ==
  /\ client = "receiving" /\ outbox[sock] # <<>>
  /\ got' = [got EXCEPT ![call] = Outcome(Head(outbox[sock]))]
  /\ outbox' = [outbox EXCEPT ![sock] = Tail(@)]
  /\ client' = "idle"
  /\ UNCHANGED <<listening, call, retried, attempts, sock, opened, losses, closed,
                 inbox, thread, serving, ran>>

\* The server's thread has ended and all it sent was read.
PeerGone == outbox[sock] = <<>> /\ thread[sock] = "ended"

\* _recv_response raises: the peer is gone, or nothing came within the
\* timeout, or the connection broke, before or after the request arrived.
ReceiveFails ==
  /\ client = "receiving"
  /\ \/ PeerGone /\ UNCHANGED losses
     \/ losses < MaxLosses /\ losses' = losses + 1
  /\ Failed
  /\ UNCHANGED <<listening, call, attempts, opened, outbox, thread, serving, ran>>

-----------------------------------------------------------------------------
(* ModelServer._handle_client, one thread for each connection.             *)

\* A request was read and its method is called: no lock is taken, and the
\* thread does not notice that the client has left.
Execute(c) ==
  /\ thread[c] = "reading" /\ inbox[c] # <<>>
  /\ serving' = [serving EXCEPT ![c] = Head(inbox[c])]
  /\ inbox' = [inbox EXCEPT ![c] = Tail(@)]
  /\ ran' = Append(ran, Head(inbox[c]))
  /\ thread' = [thread EXCEPT ![c] = "executing"]
  /\ UNCHANGED <<listening, client, call, retried, attempts, sock, opened, losses, closed,
                 outbox, got>>

\* The method returns, or raises: the error is answered and ends the thread.
\* What is sent to a client that left is lost, and ends the thread as well.
Answer(c) ==
  LET k == serving[c]
      lost == c \in closed
      raised == k \in Failing
  IN /\ thread[c] = "executing"
     /\ outbox' = IF lost THEN outbox
                  ELSE [outbox EXCEPT ![c] = Append(@, IF raised THEN Error ELSE k)]
     /\ thread' = [thread EXCEPT ![c] =
          IF raised \/ lost THEN "ended" ELSE "reading"]
     /\ UNCHANGED <<listening, client, call, retried, attempts, sock, opened, losses, closed,
                    inbox, serving, ran, got>>

\* recv returns nothing, or fails: the thread ends.
ThreadEnds(c) ==
  /\ thread[c] = "reading" /\ c \in closed
  /\ thread' = [thread EXCEPT ![c] = "ended"]
  /\ UNCHANGED <<listening, client, call, retried, attempts, sock, opened, losses, closed,
                 inbox, outbox, serving, ran, got>>

-----------------------------------------------------------------------------
ClientStep == Connect \/ ConnectFails \/ Call \/ Receive \/ ReceiveFails

ThreadStep(c) == Execute(c) \/ Answer(c) \/ ThreadEnds(c)

Next == Listen \/ ClientStep \/ \E c \in Conns : ThreadStep(c)

Spec == Init /\ [][Next]_vars
-----------------------------------------------------------------------------
Runs(k) == Cardinality({i \in DOMAIN ran : ran[i] = k})

\* Every variable keeps its type.
TypeOK ==
  /\ listening \in BOOLEAN /\ retried \in BOOLEAN
  /\ client \in {"connecting", "idle", "receiving", "done"}
  /\ call \in 0..NCalls /\ attempts \in 0..(MaxAttempts - 1)
  /\ sock \in Conns \cup {0} /\ opened \in 0..(2 * NCalls + 1) /\ losses \in 0..MaxLosses
  /\ closed \subseteq Conns
  /\ \A c \in Conns :
       /\ inbox[c] \in Seq(Calls) /\ outbox[c] \in Seq(Calls \cup {Error})
       /\ thread[c] \in {"none", "reading", "executing", "ended"}
       /\ serving[c] \in 0..NCalls
  /\ ran \in Seq(Calls)
  /\ \A k \in Calls :
       got[k] \in {<<>>, <<"raised">>, <<"None">>} \cup ({"result"} \X Calls)

\* A caller gets the result of its own call, however many answers of earlier
\* attempts are still under way (_send_recv closes the socket when it fails).
OwnAnswer == \A k \in Calls : got[k] \in {<<>>, <<"raised">>, <<"None">>, <<"result", k>>}

\* The retry of a call whose answer was lost makes the model execute it
\* again, but never a third time (_reconnect_attempted).
AtMostTwice == \A k \in Calls : Runs(k) <= 2

\* A call the client retried may execute twice at the same time, on two
\* threads: two executions overlap only when they are copies or the older one
\* was abandoned.
OverlapNeedsLoss ==
  \A c, d \in Conns :
    c < d /\ thread[c] = "executing" /\ thread[d] = "executing" => c \in closed
=============================================================================
