----------------------- MODULE PolicyEvalClientProofs ------------------------
(***************************************************************************)
(* The environment's client, for any number of requests, connections,      *)
(* attempts and server processes: whose answers it takes, which process it *)
(* talks to, and what it leaves behind.                                    *)
(***************************************************************************)
EXTENDS PolicyEvalClient, TLAPS

\* An open connection, or a receive loop that runs, is the client's current
\* one; close() leaves none.
Links ==
  /\ \A c \in Conns : link[c] \in {"open", "lost"} => ws = c
  /\ \A c \in Conns : recv[c] = "running" => ws = c /\ recvTask = c
  /\ \A c \in Conns : link[c] # "new" => peer[c] # 0
  /\ up => epoch # 0
  /\ ws # None => link[ws] # "new"
  /\ on # None => link[on] # "new"
  /\ closer # "no" => closed
  /\ closer \in {"resetting", "done"} => ws = None

\* The caller sends requests on connections to the pinned process only.
Pinned ==
  /\ stage \in {"opening", "reset", "backoff"} => ws = None
  /\ stage \in {"helloSend", "helloWait"} => on # None /\ ws \in {on, None}
  /\ stage \in {"idle", "send", "wait"} /\ ws # None => peer[ws] = pinned
  /\ stage \in {"send", "wait"} /\ on # None => peer[on] = pinned
  /\ \A r \in Requests : \A i \in seenBy[r] : i = pinned /\ i # 0

\* How often a request that has not ended may have been delivered.
Budget == (IF retried THEN 1 ELSE 0) + (IF stage = "wait" THEN 1 ELSE 0)

\* What is known of a request until it ends, and of its future.
Asking ==
  /\ stage \in {"idle", "gone"} => req = None
  /\ stage \in {"send", "wait"} => req # None /\ fut.id = req
  /\ fut.state \in {"ok", "error"} => fut.by = fut.id
  /\ \A r \in Requests : copies[r] <= 2
  /\ \A r \in Requests : result[r] = "none" /\ r # req => copies[r] = 0
  /\ \A r \in Requests : r = req => result[r] = "none" /\ copies[r] <= Budget
  /\ \A r \in expired : result[r] # "none"
  /\ stage = "backoff" => attempts < MaxAttempts

\* The parts of TypeOK.
NetTypes ==
  /\ epoch \in Nat /\ up \in BOOLEAN
  /\ link \in [Conns -> {"new", "open", "lost", "shut"}]
  /\ peer \in [Conns -> Nat]
  /\ unanswered \in [Conns -> SUBSET Ids]

SockTypes ==
  /\ ws \in Conns \cup {None} /\ recvTask \in Conns \cup {None}
  /\ recv \in [Conns -> {"none", "running", "cancelled", "done"}]
  /\ pinned \in Nat

FutTypes == pending \subseteq Ids /\ fut \in Future

CallTypes ==
  /\ stage \in {"idle", "gone", "opening", "helloSend", "helloWait", "reset",
                "backoff", "send", "wait"}
  /\ req \in Requests \cup {None} /\ retried \in BOOLEAN /\ recheck \in BOOLEAN
  /\ attempts \in 1..MaxAttempts
  /\ on \in Conns \cup {None} /\ joining \in Conns \cup {None}
  /\ after \in {"retry", "resend", "restarted", "closed"}
  /\ result \in [Requests -> Failures \cup {"none", "ok"}]

CloseTypes ==
  /\ closed \in BOOLEAN /\ closer \in {"no", "sending", "resetting", "done"}
  /\ closerJoins \in Conns \cup {None}

HistTypes ==
  /\ copies \in [Requests -> Nat]
  /\ seenBy \in [Requests -> SUBSET Nat]
  /\ expired \subseteq Requests

IInv == TypeOK /\ Links /\ Pinned /\ Asking

\* None is neither a request nor a connection.
LEMMA NoneIsNoId == None \notin Requests /\ None \notin Conns
  BY NoneAssumption DEF Ids

-----------------------------------------------------------------------------
(* Types.                                                                  *)

\* Every step keeps the types.
LEMMA TypesStep ==
  ASSUME TypeOK, Pinned, Asking, Next
  PROVE  TypeOK'
PROOF
  <1> USE NoneIsNoId, BoundsAssumption
  <1> USE DEF netVars, sockVars, futVars, callVars, retryVars, closeVars, history
  <1>a. NetTypes /\ SockTypes /\ FutTypes /\ CallTypes /\ CloseTypes /\ HistTypes
    BY DEF TypeOK, NetTypes, SockTypes, FutTypes, CallTypes, CloseTypes, HistTypes
  <1>c. MaxAttempts \in Nat /\ 1 \in 1..MaxAttempts
    BY BoundsAssumption
  <1>b. SUFFICES NetTypes' /\ SockTypes' /\ FutTypes' /\ CallTypes' /\ CloseTypes' /\ HistTypes'
    BY DEF TypeOK, NetTypes, SockTypes, FutTypes, CallTypes, CloseTypes, HistTypes
  <1>1. CASE Boot
    BY <1>1, <1>a, <1>c DEF Boot, NetTypes, SockTypes, FutTypes, CallTypes,
       CloseTypes, HistTypes, Future, FutureState, Ids, Failures
  <1>2. CASE Crash
    <2>1. NetTypes'
      BY <1>2, <1>a DEF Crash, Ids, NetTypes
    <2>2. SockTypes'
      BY <1>2, <1>a DEF Crash, SockTypes
    <2>3. FutTypes'
      BY <1>2, <1>a DEF Crash, Ids, Future, FutureState, FutTypes
    <2>4. CallTypes'
      BY <1>2, <1>a, <1>c DEF Crash, CallTypes, Failures
    <2>5. CloseTypes'
      BY <1>2, <1>a DEF Crash, CloseTypes
    <2>6. HistTypes'
      BY <1>2, <1>a DEF Crash, HistTypes
    <2> QED BY <2>1, <2>2, <2>3, <2>4, <2>5, <2>6
  <1>3. CASE \E c \in Conns : LoseLink(c)
    BY <1>3, <1>a, <1>c DEF LoseLink, NetTypes, SockTypes, FutTypes, CallTypes,
       CloseTypes, HistTypes, Future, FutureState, Ids, Failures
  <1>4. CASE \E c \in Conns : Opened(c)
    BY <1>4, <1>a, <1>c DEF Opened, OpenedInTime, AwaitReply, NetTypes, SockTypes,
       FutTypes, CallTypes, CloseTypes, HistTypes, Future, FutureState, Ids,
       Failures
  <1>5. CASE OpenFails
    BY <1>5, <1>a, <1>c DEF OpenFails, Reset, Detach, NetTypes, SockTypes,
       FutTypes, CallTypes, CloseTypes, HistTypes, Future, FutureState, Ids,
       Failures
  <1>6. CASE HelloSent
    <2>1. NetTypes'
      BY <1>6, <1>a DEF HelloSent, Transmit, Ids, NetTypes
    <2>2. SockTypes'
      BY <1>6, <1>a DEF HelloSent, Transmit, SockTypes
    <2>3. FutTypes'
      BY <1>6, <1>a DEF HelloSent, Transmit, Ids, Future, FutureState, FutTypes
    <2>4. CallTypes'
      BY <1>6, <1>a, <1>c DEF HelloSent, Transmit, CallTypes, Failures
    <2>5. CloseTypes'
      BY <1>6, <1>a DEF HelloSent, Transmit, CloseTypes
    <2>6. HistTypes'
      BY <1>6, <1>a DEF HelloSent, Transmit, HistTypes
    <2> QED BY <2>1, <2>2, <2>3, <2>4, <2>5, <2>6
  <1>7. CASE HelloFails
    BY <1>7, <1>a, <1>c DEF HelloFails, Reset, Detach, NetTypes, SockTypes,
       FutTypes, CallTypes, CloseTypes, HistTypes, Future, FutureState, Ids,
       Failures
  <1>8. CASE HelloRefused
    BY <1>8, <1>a, <1>c DEF HelloRefused, Reset, Detach, SameServer, NetTypes,
       SockTypes, FutTypes, CallTypes, CloseTypes, HistTypes, Future, FutureState,
       Ids, Failures
  <1>9. CASE HelloTooLate
    <2>1. NetTypes'
      BY <1>9, <1>a DEF HelloTooLate, Reset, Detach, SameServer, Ids, NetTypes
    <2>2. SockTypes'
      BY <1>9, <1>a DEF HelloTooLate, Reset, Detach, SameServer, SockTypes,
         NetTypes, CallTypes, Pinned
    <2>3. FutTypes'
      BY <1>9, <1>a DEF HelloTooLate, Reset, Detach, SameServer, Ids, Future,
         FutureState, FutTypes
    <2>4. CallTypes'
      BY <1>9, <1>a, <1>c DEF HelloTooLate, Reset, Detach, SameServer,
         CallTypes, Failures, SockTypes
    <2>5. CloseTypes'
      BY <1>9, <1>a DEF HelloTooLate, Reset, Detach, SameServer, CloseTypes
    <2>6. HistTypes'
      BY <1>9, <1>a DEF HelloTooLate, Reset, Detach, SameServer, HistTypes
    <2> QED BY <2>1, <2>2, <2>3, <2>4, <2>5, <2>6
  <1>10. CASE ConstructorEnds
    <2>1. NetTypes'
      BY <1>10, <1>a DEF ConstructorEnds, Welcome, SameServer, End, Ids, NetTypes
    <2>2. SockTypes'
      BY <1>10, <1>a DEF ConstructorEnds, Welcome, SameServer, End, SockTypes,
         NetTypes, CallTypes, Pinned
    <2>3. FutTypes'
      BY <1>10, <1>a DEF ConstructorEnds, Welcome, SameServer, End, Ids, Future,
         FutureState, FutTypes
    <2>4. CallTypes'
      BY <1>10, <1>a, <1>c DEF ConstructorEnds, Welcome, SameServer, End,
         CallTypes, Failures
    <2>5. CloseTypes'
      BY <1>10, <1>a DEF ConstructorEnds, Welcome, SameServer, End, CloseTypes
    <2>6. HistTypes'
      BY <1>10, <1>a DEF ConstructorEnds, Welcome, SameServer, End, HistTypes
    <2> QED BY <2>1, <2>2, <2>3, <2>4, <2>5, <2>6
  <1>11. CASE LostAgain
    <2>1. NetTypes'
      BY <1>11, <1>a DEF LostAgain, Welcome, SameServer, Ids, NetTypes
    <2>2. SockTypes'
      BY <1>11, <1>a DEF LostAgain, Welcome, SameServer, SockTypes, NetTypes,
         CallTypes, Pinned
    <2>3. FutTypes'
      BY <1>11, <1>a DEF LostAgain, Welcome, SameServer, Ids, Future,
         FutureState, FutTypes
    <2>4. CallTypes'
      BY <1>11, <1>a, <1>c DEF LostAgain, Welcome, SameServer, CallTypes, Failures
    <2>5. CloseTypes'
      BY <1>11, <1>a DEF LostAgain, Welcome, SameServer, CloseTypes
    <2>6. HistTypes'
      BY <1>11, <1>a DEF LostAgain, Welcome, SameServer, HistTypes
    <2> QED BY <2>1, <2>2, <2>3, <2>4, <2>5, <2>6
  <1>12. CASE Connected
    <2>1. NetTypes'
      BY <1>12, <1>a DEF Connected, Welcome, SameServer, AwaitReply, Ids, NetTypes
    <2>2. SockTypes'
      BY <1>12, <1>a DEF Connected, Welcome, SameServer, AwaitReply, SockTypes,
         NetTypes, CallTypes, Pinned
    <2>3. FutTypes'
      BY <1>12, <1>a DEF Connected, Welcome, SameServer, AwaitReply, Ids,
         Future, FutureState, FutTypes, CallTypes
    <2>4. CallTypes'
      BY <1>12, <1>a, <1>c DEF Connected, Welcome, SameServer, AwaitReply,
         CallTypes, Failures, SockTypes
    <2>5. CloseTypes'
      BY <1>12, <1>a DEF Connected, Welcome, SameServer, AwaitReply, CloseTypes
    <2>6. HistTypes'
      BY <1>12, <1>a DEF Connected, Welcome, SameServer, AwaitReply, HistTypes
    <2> QED BY <2>1, <2>2, <2>3, <2>4, <2>5, <2>6
  <1>13. CASE AttemptsLeft
    BY <1>13, <1>a, <1>c DEF AttemptsLeft, NetTypes, SockTypes, FutTypes,
       CallTypes, CloseTypes, HistTypes, Future, FutureState, Ids, Failures
  <1>14. CASE GiveUp
    BY <1>14, <1>a, <1>c DEF GiveUp, End, NetTypes, SockTypes, FutTypes,
       CallTypes, CloseTypes, HistTypes, Future, FutureState, Ids, Failures
  <1>15. CASE Refuse
    BY <1>15, <1>a, <1>c DEF Refuse, End, NetTypes, SockTypes, FutTypes,
       CallTypes, CloseTypes, HistTypes, Future, FutureState, Ids, Failures
  <1>16. CASE BackoffEnds
    <2>1. NetTypes'
      BY <1>16, <1>a DEF BackoffEnds, End, Ids, NetTypes
    <2>2. SockTypes'
      BY <1>16, <1>a DEF BackoffEnds, End, SockTypes
    <2>3. FutTypes'
      BY <1>16, <1>a DEF BackoffEnds, End, Ids, Future, FutureState, FutTypes
    <2>4. CallTypes'
      BY <1>16, <1>a, <1>c DEF BackoffEnds, End, CallTypes, Failures, Asking
    <2>5. CloseTypes'
      BY <1>16, <1>a DEF BackoffEnds, End, CloseTypes
    <2>6. HistTypes'
      BY <1>16, <1>a DEF BackoffEnds, End, HistTypes
    <2> QED BY <2>1, <2>2, <2>3, <2>4, <2>5, <2>6
  <1>17. CASE \E r \in Requests : Call(r)
    <2>0. PICK r \in Requests : Call(r)
      BY <1>17
    <2>1. NetTypes'
      BY <2>0, <1>a DEF Call, AwaitReply, Ids, NetTypes
    <2>2. SockTypes'
      BY <2>0, <1>a DEF Call, AwaitReply, SockTypes
    <2>3. FutTypes'
      BY <2>0, <1>a DEF Call, AwaitReply, Ids, Future, FutureState, FutTypes
    <2>4. CallTypes'
      BY <2>0, <1>a, <1>c DEF Call, AwaitReply, CallTypes, Failures, SockTypes
    <2>5. CloseTypes'
      BY <2>0, <1>a DEF Call, AwaitReply, CloseTypes
    <2>6. HistTypes'
      BY <2>0, <1>a DEF Call, AwaitReply, HistTypes
    <2> QED BY <2>1, <2>2, <2>3, <2>4, <2>5, <2>6
  <1>18. CASE Sent
    <2>1. NetTypes'
      BY <1>18, <1>a DEF Sent, Transmit, LinkUp, Delivered, Ids, NetTypes,
         CallTypes, Asking
    <2>2. SockTypes'
      BY <1>18, <1>a DEF Sent, Transmit, LinkUp, Delivered, SockTypes
    <2>3. FutTypes'
      BY <1>18, <1>a DEF Sent, Transmit, LinkUp, Delivered, Ids, Future,
         FutureState, FutTypes
    <2>4. CallTypes'
      BY <1>18, <1>a, <1>c DEF Sent, Transmit, LinkUp, Delivered, CallTypes, Failures
    <2>5. CloseTypes'
      BY <1>18, <1>a DEF Sent, Transmit, LinkUp, Delivered, CloseTypes
    <2>6. HistTypes'
      BY <1>18, <1>a DEF Sent, Transmit, LinkUp, Delivered, HistTypes, NetTypes,
         CallTypes, Asking
    <2> QED BY <2>1, <2>2, <2>3, <2>4, <2>5, <2>6
  <1>19. CASE SendFails
    <2>1. NetTypes'
      BY <1>19, <1>a DEF SendFails, Reset, Detach, MayRetry, End, LinkUp, Ids, NetTypes
    <2>2. SockTypes'
      BY <1>19, <1>a DEF SendFails, Reset, Detach, MayRetry, End, LinkUp, SockTypes
    <2>3. FutTypes'
      BY <1>19, <1>a DEF SendFails, Reset, Detach, MayRetry, End, LinkUp, Ids,
         Future, FutureState, FutTypes
    <2>4. CallTypes'
      BY <1>19, <1>a, <1>c DEF SendFails, Reset, Detach, MayRetry, End, LinkUp,
         CallTypes, Failures, SockTypes
    <2>5. CloseTypes'
      BY <1>19, <1>a DEF SendFails, Reset, Detach, MayRetry, End, LinkUp, CloseTypes
    <2>6. HistTypes'
      BY <1>19, <1>a DEF SendFails, Reset, Detach, MayRetry, End, LinkUp, HistTypes
    <2> QED BY <2>1, <2>2, <2>3, <2>4, <2>5, <2>6
  <1>20. CASE Reconnect
    BY <1>20, <1>a, <1>c DEF Reconnect, StartConnect, End, NetTypes, SockTypes,
       FutTypes, CallTypes, CloseTypes, HistTypes, Future, FutureState, Ids,
       Failures
  <1>21. CASE SendTimeout
    <2>1. NetTypes'
      BY <1>21, <1>a DEF SendTimeout, MayBeDelivered, Transmit, LinkUp,
         Delivered, End, Ids, NetTypes, CallTypes, Asking
    <2>2. SockTypes'
      BY <1>21, <1>a DEF SendTimeout, MayBeDelivered, Transmit, LinkUp,
         Delivered, End, SockTypes
    <2>3. FutTypes'
      BY <1>21, <1>a DEF SendTimeout, MayBeDelivered, Transmit, LinkUp,
         Delivered, End, Ids, Future, FutureState, FutTypes
    <2>4. CallTypes'
      BY <1>21, <1>a, <1>c DEF SendTimeout, MayBeDelivered, Transmit, LinkUp,
         Delivered, End, CallTypes, Failures
    <2>5. CloseTypes'
      BY <1>21, <1>a DEF SendTimeout, MayBeDelivered, Transmit, LinkUp,
         Delivered, End, CloseTypes
    <2>6. HistTypes'
      BY <1>21, <1>a DEF SendTimeout, MayBeDelivered, Transmit, LinkUp,
         Delivered, End, HistTypes, NetTypes, CallTypes, Asking
    <2> QED BY <2>1, <2>2, <2>3, <2>4, <2>5, <2>6
  <1>22. CASE Answered
    BY <1>22, <1>a, <1>c DEF Answered, End, NetTypes, SockTypes, FutTypes,
       CallTypes, CloseTypes, HistTypes, Future, FutureState, Ids, Failures
  <1>23. CASE WaitFails
    <2>1. NetTypes'
      BY <1>23, <1>a DEF WaitFails, MayRetry, StartConnect, End, Ids, NetTypes
    <2>2. SockTypes'
      BY <1>23, <1>a DEF WaitFails, MayRetry, StartConnect, End, SockTypes
    <2>3. FutTypes'
      BY <1>23, <1>a DEF WaitFails, MayRetry, StartConnect, End, Ids, Future,
         FutureState, FutTypes
    <2>4. CallTypes'
      BY <1>23, <1>a, <1>c DEF WaitFails, MayRetry, StartConnect, End,
         CallTypes, Failures
    <2>5. CloseTypes'
      BY <1>23, <1>a DEF WaitFails, MayRetry, StartConnect, End, CloseTypes
    <2>6. HistTypes'
      BY <1>23, <1>a DEF WaitFails, MayRetry, StartConnect, End, HistTypes
    <2> QED BY <2>1, <2>2, <2>3, <2>4, <2>5, <2>6
  <1>24. CASE WaitTimeout
    <2>1. NetTypes'
      BY <1>24, <1>a DEF WaitTimeout, End, Ids, NetTypes
    <2>2. SockTypes'
      BY <1>24, <1>a DEF WaitTimeout, End, SockTypes
    <2>3. FutTypes'
      BY <1>24, <1>a DEF WaitTimeout, End, Ids, Future, FutureState, FutTypes
    <2>4. CallTypes'
      BY <1>24, <1>a, <1>c DEF WaitTimeout, End, CallTypes, Failures
    <2>5. CloseTypes'
      BY <1>24, <1>a DEF WaitTimeout, End, CloseTypes
    <2>6. HistTypes'
      BY <1>24, <1>a DEF WaitTimeout, End, HistTypes, CallTypes, Asking
    <2> QED BY <2>1, <2>2, <2>3, <2>4, <2>5, <2>6
  <1>25. CASE \E c \in Conns, id \in Ids, kind \in {"ok", "error"} : Receive(c, id, kind)
    <2>0. PICK c \in Conns, id \in Ids, kind \in {"ok", "error"} : Receive(c, id, kind)
      BY <1>25
    <2>1. NetTypes'
      BY <2>0, <1>a DEF Receive, Resolves, Ids, NetTypes
    <2>2. SockTypes'
      BY <2>0, <1>a DEF Receive, Resolves, SockTypes
    <2>3. FutTypes'
      BY <2>0, <1>a DEF Receive, Resolves, Ids, Future, FutureState, FutTypes
    <2>4. CallTypes'
      BY <2>0, <1>a, <1>c DEF Receive, Resolves, CallTypes, Failures
    <2>5. CloseTypes'
      BY <2>0, <1>a DEF Receive, Resolves, CloseTypes
    <2>6. HistTypes'
      BY <2>0, <1>a DEF Receive, Resolves, HistTypes
    <2> QED BY <2>1, <2>2, <2>3, <2>4, <2>5, <2>6
  <1>26. CASE \E c \in Conns : RecvEnds(c)
    BY <1>26, <1>a, <1>c DEF RecvEnds, FailPending, NetTypes, SockTypes, FutTypes,
       CallTypes, CloseTypes, HistTypes, Future, FutureState, Ids, Failures
  <1>27. CASE Close
    BY <1>27, <1>a, <1>c DEF Close, CloseResets, FailPending, Detach, NetTypes,
       SockTypes, FutTypes, CallTypes, CloseTypes, HistTypes, Future, FutureState,
       Ids, Failures
  <1>28. CASE CloseSent
    BY <1>28, <1>a, <1>c DEF CloseSent, CloseResets, FailPending, Detach,
       NetTypes, SockTypes, FutTypes, CallTypes, CloseTypes, HistTypes, Future,
       FutureState, Ids, Failures
  <1>29. CASE CloseDone
    BY <1>29, <1>a, <1>c DEF CloseDone, NetTypes, SockTypes, FutTypes, CallTypes,
       CloseTypes, HistTypes, Future, FutureState, Ids, Failures
  <1>30. CASE CancelLeftover
    BY <1>30, <1>a, <1>c DEF CancelLeftover, End, NetTypes, SockTypes, FutTypes,
       CallTypes, CloseTypes, HistTypes, Future, FutureState, Ids, Failures
  <1> QED BY <1>1, <1>2, <1>3, <1>4, <1>5, <1>6, <1>7, <1>8, <1>9, <1>10, <1>11,
     <1>12, <1>13,
             <1>14, <1>15, <1>16, <1>17, <1>18, <1>19, <1>20, <1>21, <1>22, <1>23, <1>24, <1>25,
             <1>26, <1>27, <1>28, <1>29, <1>30
          DEF Next, Environment, Connecting, Requesting, Receiving, Closing

-----------------------------------------------------------------------------
(* The connections.                                                        *)

\* No step leaves a connection, or a receive loop, that is not the current one.
LEMMA LinksStep ==
  ASSUME TypeOK, Links, Pinned, Next
  PROVE  Links'
PROOF
  <1> USE NoneIsNoId, BoundsAssumption
  <1> USE DEF netVars, sockVars, futVars, callVars, retryVars, closeVars, history, TypeOK, Links, Pinned
  <1>1. CASE Boot
    BY <1>1 DEF Boot
  <1>2. CASE Crash
    BY <1>2 DEF Crash
  <1>3. CASE \E c \in Conns : LoseLink(c)
    BY <1>3 DEF LoseLink
  <1>4. CASE \E c \in Conns : Opened(c)
    BY <1>4 DEF Opened, OpenedInTime, AwaitReply
  <1>5. CASE OpenFails
    BY <1>5 DEF OpenFails, Reset, Detach
  <1>6. CASE HelloSent
    BY <1>6 DEF HelloSent, Transmit
  <1>7. CASE HelloFails
    BY <1>7 DEF HelloFails, Reset, Detach
  <1>8. CASE HelloRefused
    BY <1>8 DEF HelloRefused, Reset, Detach, SameServer
  <1>9. CASE HelloTooLate
    BY <1>9 DEF HelloTooLate, Reset, Detach, SameServer
  <1>10. CASE ConstructorEnds
    BY <1>10 DEF ConstructorEnds, Welcome, SameServer, End
  <1>11. CASE LostAgain
    BY <1>11 DEF LostAgain, Welcome, SameServer
  <1>12. CASE Connected
    BY <1>12 DEF Connected, Welcome, SameServer, AwaitReply
  <1>13. CASE AttemptsLeft
    BY <1>13 DEF AttemptsLeft
  <1>14. CASE GiveUp
    BY <1>14 DEF GiveUp, End
  <1>15. CASE Refuse
    BY <1>15 DEF Refuse, End
  <1>16. CASE BackoffEnds
    BY <1>16 DEF BackoffEnds, End
  <1>17. CASE \E r \in Requests : Call(r)
    BY <1>17 DEF Call, AwaitReply
  <1>18. CASE Sent
    BY <1>18 DEF Sent, Transmit, LinkUp, Delivered
  <1>19. CASE SendFails
    BY <1>19 DEF SendFails, Reset, Detach, MayRetry, End, LinkUp
  <1>20. CASE Reconnect
    BY <1>20 DEF Reconnect, StartConnect, End
  <1>21. CASE SendTimeout
    BY <1>21 DEF SendTimeout, MayBeDelivered, Transmit, LinkUp, Delivered, End
  <1>22. CASE Answered
    BY <1>22 DEF Answered, End
  <1>23. CASE WaitFails
    BY <1>23 DEF WaitFails, MayRetry, StartConnect, End
  <1>24. CASE WaitTimeout
    BY <1>24 DEF WaitTimeout, End
  <1>25. CASE \E c \in Conns, id \in Ids, kind \in {"ok", "error"} : Receive(c, id, kind)
    BY <1>25 DEF Receive, Resolves
  <1>26. CASE \E c \in Conns : RecvEnds(c)
    BY <1>26 DEF RecvEnds, FailPending
  <1>27. CASE Close
    BY <1>27 DEF Close, CloseResets, FailPending, Detach
  <1>28. CASE CloseSent
    BY <1>28 DEF CloseSent, CloseResets, FailPending, Detach
  <1>29. CASE CloseDone
    BY <1>29 DEF CloseDone
  <1>30. CASE CancelLeftover
    BY <1>30 DEF CancelLeftover, End
  <1> QED BY <1>1, <1>2, <1>3, <1>4, <1>5, <1>6, <1>7, <1>8, <1>9, <1>10, <1>11,
     <1>12, <1>13,
             <1>14, <1>15, <1>16, <1>17, <1>18, <1>19, <1>20, <1>21, <1>22, <1>23, <1>24, <1>25,
             <1>26, <1>27, <1>28, <1>29, <1>30
          DEF Next, Environment, Connecting, Requesting, Receiving, Closing

-----------------------------------------------------------------------------
(* The server process.                                                     *)

\* No step goes on to another server process.
LEMMA PinnedStep ==
  ASSUME TypeOK, Links, Pinned, Asking, Next
  PROVE  Pinned'
PROOF
  <1> USE NoneIsNoId, BoundsAssumption
  <1> USE DEF netVars, sockVars, futVars, callVars, retryVars, closeVars, history, TypeOK, Links, Pinned, Asking
  <1>1. CASE Boot
    BY <1>1 DEF Boot
  <1>2. CASE Crash
    BY <1>2 DEF Crash
  <1>3. CASE \E c \in Conns : LoseLink(c)
    BY <1>3 DEF LoseLink
  <1>4. CASE \E c \in Conns : Opened(c)
    BY <1>4 DEF Opened, OpenedInTime, AwaitReply
  <1>5. CASE OpenFails
    BY <1>5 DEF OpenFails, Reset, Detach
  <1>6. CASE HelloSent
    BY <1>6 DEF HelloSent, Transmit
  <1>7. CASE HelloFails
    BY <1>7 DEF HelloFails, Reset, Detach
  <1>8. CASE HelloRefused
    BY <1>8 DEF HelloRefused, Reset, Detach, SameServer
  <1>9. CASE HelloTooLate
    BY <1>9 DEF HelloTooLate, Reset, Detach, SameServer
  <1>10. CASE ConstructorEnds
    BY <1>10 DEF ConstructorEnds, Welcome, SameServer, End
  <1>11. CASE LostAgain
    BY <1>11 DEF LostAgain, Welcome, SameServer
  <1>12. CASE Connected
    BY <1>12 DEF Connected, Welcome, SameServer, AwaitReply
  <1>13. CASE AttemptsLeft
    BY <1>13 DEF AttemptsLeft
  <1>14. CASE GiveUp
    BY <1>14 DEF GiveUp, End
  <1>15. CASE Refuse
    BY <1>15 DEF Refuse, End
  <1>16. CASE BackoffEnds
    BY <1>16 DEF BackoffEnds, End
  <1>17. CASE \E r \in Requests : Call(r)
    BY <1>17 DEF Call, AwaitReply
  <1>18. CASE Sent
    BY <1>18 DEF Sent, Transmit, LinkUp, Delivered
  <1>19. CASE SendFails
    BY <1>19 DEF SendFails, Reset, Detach, MayRetry, End, LinkUp
  <1>20. CASE Reconnect
    BY <1>20 DEF Reconnect, StartConnect, End
  <1>21. CASE SendTimeout
    BY <1>21 DEF SendTimeout, MayBeDelivered, Transmit, LinkUp, Delivered, End
  <1>22. CASE Answered
    BY <1>22 DEF Answered, End
  <1>23. CASE WaitFails
    BY <1>23 DEF WaitFails, MayRetry, StartConnect, End
  <1>24. CASE WaitTimeout
    BY <1>24 DEF WaitTimeout, End
  <1>25. CASE \E c \in Conns, id \in Ids, kind \in {"ok", "error"} : Receive(c, id, kind)
    BY <1>25 DEF Receive, Resolves
  <1>26. CASE \E c \in Conns : RecvEnds(c)
    BY <1>26 DEF RecvEnds, FailPending
  <1>27. CASE Close
    BY <1>27 DEF Close, CloseResets, FailPending, Detach
  <1>28. CASE CloseSent
    BY <1>28 DEF CloseSent, CloseResets, FailPending, Detach
  <1>29. CASE CloseDone
    BY <1>29 DEF CloseDone
  <1>30. CASE CancelLeftover
    BY <1>30 DEF CancelLeftover, End
  <1> QED BY <1>1, <1>2, <1>3, <1>4, <1>5, <1>6, <1>7, <1>8, <1>9, <1>10, <1>11,
     <1>12, <1>13,
             <1>14, <1>15, <1>16, <1>17, <1>18, <1>19, <1>20, <1>21, <1>22, <1>23, <1>24, <1>25,
             <1>26, <1>27, <1>28, <1>29, <1>30
          DEF Next, Environment, Connecting, Requesting, Receiving, Closing

-----------------------------------------------------------------------------
(* The requests.                                                           *)

\* No step sends a request more often than its budget, or after it has ended.
LEMMA AskingStep ==
  ASSUME TypeOK, Links, Pinned, Asking, Next
  PROVE  Asking'
PROOF
  <1> USE NoneIsNoId, BoundsAssumption
  <1> USE DEF netVars, sockVars, futVars, callVars, retryVars, closeVars, history, TypeOK, Asking, Budget, Future
  <1>1. CASE Boot
    BY <1>1 DEF Boot
  <1>2. CASE Crash
    BY <1>2 DEF Crash
  <1>3. CASE \E c \in Conns : LoseLink(c)
    BY <1>3 DEF LoseLink
  <1>4. CASE \E c \in Conns : Opened(c)
    BY <1>4 DEF Opened, OpenedInTime, AwaitReply
  <1>5. CASE OpenFails
    BY <1>5 DEF OpenFails, Reset, Detach
  <1>6. CASE HelloSent
    BY <1>6 DEF HelloSent, Transmit
  <1>7. CASE HelloFails
    BY <1>7 DEF HelloFails, Reset, Detach
  <1>8. CASE HelloRefused
    BY <1>8 DEF HelloRefused, Reset, Detach, SameServer
  <1>9. CASE HelloTooLate
    BY <1>9 DEF HelloTooLate, Reset, Detach, SameServer
  <1>10. CASE ConstructorEnds
    BY <1>10 DEF ConstructorEnds, Welcome, SameServer, End
  <1>11. CASE LostAgain
    BY <1>11 DEF LostAgain, Welcome, SameServer
  <1>12. CASE Connected
    BY <1>12 DEF Connected, Welcome, SameServer, AwaitReply
  <1>13. CASE AttemptsLeft
    BY <1>13 DEF AttemptsLeft
  <1>14. CASE GiveUp
    BY <1>14 DEF GiveUp, End
  <1>15. CASE Refuse
    BY <1>15 DEF Refuse, End
  <1>16. CASE BackoffEnds
    BY <1>16 DEF BackoffEnds, End
  <1>17. CASE \E r \in Requests : Call(r)
    BY <1>17 DEF Call, AwaitReply
  <1>18. CASE Sent
    BY <1>18 DEF Sent, Transmit, LinkUp, Delivered
  <1>19. CASE SendFails
    BY <1>19 DEF SendFails, Reset, Detach, MayRetry, End, LinkUp
  <1>20. CASE Reconnect
    BY <1>20 DEF Reconnect, StartConnect, End
  <1>21. CASE SendTimeout
    BY <1>21 DEF SendTimeout, MayBeDelivered, Transmit, LinkUp, Delivered, End
  <1>22. CASE Answered
    BY <1>22 DEF Answered, End
  <1>23. CASE WaitFails
    BY <1>23 DEF WaitFails, MayRetry, StartConnect, End
  <1>24. CASE WaitTimeout
    BY <1>24 DEF WaitTimeout, End
  <1>25. CASE \E c \in Conns, id \in Ids, kind \in {"ok", "error"} : Receive(c, id, kind)
    BY <1>25 DEF Receive, Resolves
  <1>26. CASE \E c \in Conns : RecvEnds(c)
    BY <1>26 DEF RecvEnds, FailPending
  <1>27. CASE Close
    BY <1>27 DEF Close, CloseResets, FailPending, Detach
  <1>28. CASE CloseSent
    BY <1>28 DEF CloseSent, CloseResets, FailPending, Detach
  <1>29. CASE CloseDone
    BY <1>29 DEF CloseDone
  <1>30. CASE CancelLeftover
    BY <1>30 DEF CancelLeftover, End
  <1> QED BY <1>1, <1>2, <1>3, <1>4, <1>5, <1>6, <1>7, <1>8, <1>9, <1>10, <1>11,
     <1>12, <1>13,
             <1>14, <1>15, <1>16, <1>17, <1>18, <1>19, <1>20, <1>21, <1>22, <1>23, <1>24, <1>25,
             <1>26, <1>27, <1>28, <1>29, <1>30
          DEF Next, Environment, Connecting, Requesting, Receiving, Closing

-----------------------------------------------------------------------------
(* The invariant.                                                          *)

\* The invariant holds in the constructor.
LEMMA InitIInv == Init => IInv
PROOF
  <1> SUFFICES ASSUME Init PROVE IInv
    OBVIOUS
  <1> USE NoneIsNoId, BoundsAssumption DEF Init
  <1>0. MaxAttempts \in Nat /\ 1 \in 1..MaxAttempts
    BY BoundsAssumption
  <1>1. TypeOK
    <2>1. fut \in Future /\ pending \subseteq Ids
      BY DEF Future, FutureState, Ids
    <2> QED BY <1>0, <2>1 DEF TypeOK
  <1>2. Links /\ Pinned
    BY DEF Links, Pinned
  <1>3. Asking
    BY DEF Asking, Budget
  <1> QED BY <1>1, <1>2, <1>3 DEF IInv

\* Every step preserves it.
LEMMA StepIInv == IInv /\ [Next]_vars => IInv'
PROOF
  <1> SUFFICES ASSUME IInv, [Next]_vars PROVE IInv'
    OBVIOUS
  <1>1. CASE Next
    BY <1>1, TypesStep, LinksStep, PinnedStep, AskingStep DEF IInv
  <1>2. CASE UNCHANGED vars
    BY <1>2 DEF IInv, vars, netVars, sockVars, futVars, callVars, retryVars, closeVars,
       history, TypeOK, Links, Pinned, Asking, Budget
  <1> QED BY <1>1, <1>2

\* It always holds.
LEMMA AlwaysIInv == Spec => []IInv
  BY InitIInv, StepIInv, PTL DEF Spec

\* Every variable of the client keeps its type.
THEOREM ClientTypes == Spec => []TypeOK
PROOF
  <1>1. IInv => TypeOK
    BY DEF IInv
  <1> QED BY <1>1, AlwaysIInv, PTL

\* Whatever processes replace the server, all requests that are delivered
\* reach the one the client shook hands with first (_check_server_identity).
THEOREM AlwaysOneServer == Spec => []OneServer
PROOF
  <1>1. IInv => OneServer
    BY DEF IInv, Pinned, OneServer
  <1> QED BY <1>1, AlwaysIInv, PTL

\* However many connections, attempts and processes there are, one request is
\* delivered at most twice (request).
THEOREM NeverThreeCopies == Spec => []AtMostTwoCopies
PROOF
  <1>1. IInv => AtMostTwoCopies
    BY DEF IInv, Asking, AtMostTwoCopies
  <1> QED BY <1>1, AlwaysIInv, PTL

\* However many requests timed out before, what a request returns is the
\* answer to itself (_dispatch_incoming).
THEOREM AlwaysOwnAnswer == Spec => []OwnAnswer
PROOF
  <1>1. IInv => OwnAnswer
    BY DEF IInv, Asking, OwnAnswer
  <1> QED BY <1>1, AlwaysIInv, PTL

\* After close() no connection the client ever opened stays open, and no
\* receive loop runs on (close, _reset_connection_state).
THEOREM NothingLeaks == Spec => []NoLeak
PROOF
  <1>1. IInv => NoLeak
    BY NoneIsNoId DEF IInv, Links, NoLeak
  <1> QED BY <1>1, AlwaysIInv, PTL

\* A step that delivers a copy is a send of the request that is running.
LEMMA OnlySendsCopy ==
  ASSUME Next
  PROVE  UNCHANGED copies \/ Delivered
PROOF
  <1> USE DEF netVars, sockVars, futVars, callVars, retryVars, closeVars, history, Welcome
  <1>1. CASE Sent
    BY <1>1 DEF Sent
  <1>2. CASE SendTimeout
    BY <1>2 DEF SendTimeout, MayBeDelivered
  <1>3. CASE Environment
    BY <1>3 DEF Environment, Boot, Crash, LoseLink
  <1>4. CASE Connecting
    BY <1>4 DEF Connecting, Opened, OpenFails, HelloSent, HelloFails,
       HelloRefused, HelloTooLate,
       ConstructorEnds, LostAgain, Connected, AttemptsLeft, GiveUp, Refuse, BackoffEnds
  <1>5. CASE SendFails \/ Reconnect \/ Answered \/ WaitFails \/ WaitTimeout
    BY <1>5 DEF SendFails, Reconnect, Answered, WaitFails, WaitTimeout
  <1>6. CASE Close \/ Closing
    BY <1>6 DEF Close, Closing, CloseSent, CloseDone, CancelLeftover
  <1>7. CASE (\E r \in Requests : Call(r)) \/ \E c \in Conns : Receiving(c)
    BY <1>7 DEF Call, Receiving, Receive, RecvEnds
  <1> QED BY <1>1, <1>2, <1>3, <1>4, <1>5, <1>6, <1>7 DEF Next, Requesting

\* The frames the server has yet to answer grow by a send only, and shrink
\* with an answer.
LEMMA OnlySendsAsk ==
  ASSUME Next
  PROVE  \/ UNCHANGED unanswered
         \/ \E d, id : Transmit(d, id)
         \/ \E d \in Conns : \E id : unanswered' = [unanswered EXCEPT ![d] = @ \ {id}]
PROOF
  <1> USE DEF netVars, sockVars, futVars, callVars, retryVars, closeVars, history, Welcome
  <1>1. CASE Sent
    BY <1>1 DEF Sent
  <1>2. CASE SendTimeout
    BY <1>2 DEF SendTimeout, MayBeDelivered
  <1>3. CASE Environment
    BY <1>3 DEF Environment, Boot, Crash, LoseLink
  <1>4. CASE HelloSent
    BY <1>4 DEF HelloSent
  <1>5. CASE Connecting /\ ~HelloSent
    BY <1>5 DEF Connecting, Opened, OpenFails, HelloFails, HelloRefused, HelloTooLate,
       ConstructorEnds, LostAgain, Connected, AttemptsLeft, GiveUp, Refuse, BackoffEnds
  <1>6. CASE SendFails \/ Reconnect \/ Answered \/ WaitFails \/ WaitTimeout
    BY <1>6 DEF SendFails, Reconnect, Answered, WaitFails, WaitTimeout
  <1>7. CASE Close \/ Closing
    BY <1>7 DEF Close, Closing, CloseSent, CloseDone, CancelLeftover
  <1>8. CASE \E r \in Requests : Call(r)
    BY <1>8 DEF Call
  <1>9. CASE \E c \in Conns : Receiving(c)
    <2>1. PICK c \in Conns : Receiving(c)
      BY <1>9
    <2>2. CASE \E id \in Ids, kind \in {"ok", "error"} : Receive(c, id, kind)
      BY <2>2 DEF Receive
    <2>3. CASE RecvEnds(c)
      BY <2>3 DEF RecvEnds
    <2> QED BY <2>1, <2>2, <2>3 DEF Receiving
  <1> QED BY <1>1, <1>2, <1>3, <1>4, <1>5, <1>6, <1>7, <1>8, <1>9 DEF Next, Requesting

\* A request that timed out is over, and only a running request is sent: no
\* copy of it is ever delivered again (the timeout branches of request).
THEOREM TimeoutsAreFinal == Spec => TimeoutIsFinal
PROOF
  <1>1. IInv /\ [Next]_vars => [\A r \in expired : copies'[r] = copies[r]]_vars
    <2> SUFFICES ASSUME IInv, Next, NEW r \in expired PROVE copies'[r] = copies[r]
      OBVIOUS
    <2>1. r # req /\ r \in Requests /\ copies \in [Requests -> Nat]
      BY DEF IInv, Asking, TypeOK
    <2>2. CASE Delivered
      BY <2>1, <2>2 DEF Delivered
    <2> QED BY <2>2, OnlySendsCopy
  <1> QED BY <1>1, AlwaysIInv, PTL DEF Spec, TimeoutIsFinal

\* After close() every connection is shut or lost to the client, so that what
\* a request left behind still does reaches nobody
\* (_raise_if_closed_during_connect).
THEOREM ClosedIsSilent == Spec => SilentAfterClose
PROOF
  <1>1. IInv /\ [Next]_vars
          => [closer = "done" => \A c \in Conns : unanswered'[c] \subseteq unanswered[c]]_vars
    <2> SUFFICES ASSUME IInv, Next, closer = "done", NEW c \in Conns
                 PROVE  unanswered'[c] \subseteq unanswered[c]
      OBVIOUS
    <2>1. \A d \in Conns : link[d] # "open"
      BY NoneIsNoId DEF IInv, Links
    <2>2. unanswered \in [Conns -> SUBSET Ids]
      BY DEF IInv, TypeOK
    <2>3. ASSUME NEW d, NEW id, Transmit(d, id) PROVE unanswered'[c] \subseteq unanswered[c]
      BY <2>1, <2>2, <2>3 DEF Transmit
    <2>4. ASSUME NEW d \in Conns, NEW id, unanswered' = [unanswered EXCEPT ![d] = @ \ {id}]
          PROVE  unanswered'[c] \subseteq unanswered[c]
      BY <2>2, <2>4
    <2> QED BY <2>3, <2>4, OnlySendsAsk
  <1> QED BY <1>1, AlwaysIInv, PTL DEF Spec, SilentAfterClose
=============================================================================
