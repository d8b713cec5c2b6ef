---------------------------- MODULE PolicyServer ----------------------------
(***************************************************************************)
(* The WebSocket policy server of client_server/ws/model_server.py: one    *)
(* asyncio loop that serves several connections, executes every request id *)
(* once, replays the answer to duplicates from a bounded LRU cache, and    *)
(* calls a model that is not thread safe under one lock.                   *)
(*                                                                         *)
(* An Attempt is one transmission of a frame by a peer: a retry is a second*)
(* attempt that carries the request id of the first.  Each attempt gets a  *)
(* respond task (pc); the attempt that finds its id neither cached nor in  *)
(* flight also leads an execution task (task), which duplicates await.  One*)
(* action is the code between two awaits, so a step is what the event loop *)
(* runs without interruption; ready tasks are scheduled in any order, a    *)
(* superset of asyncio's queue.                                            *)
(***************************************************************************)
EXTENDS Naturals, FiniteSets, Sequences

CONSTANTS
  Attempts,      \* transmissions of frames by peers
  Requests,      \* request ids
  Conns,         \* websocket connections a peer may open, each once
  Types,         \* the message types peers send, a subset of AllTypes
  Results,       \* how a model call may end, a subset of AllResults
  CacheSize,     \* _RESPONSE_CACHE_SIZE
  MaxInflight,   \* _MAX_INFLIGHT_RESPONSES
  None           \* no frame, no holder, no entry

\* What a peer may put on the wire.  UNSUPPORTED is a well-formed type the
\* dispatcher does not serve, MALFORMED a frame decode_envelope rejects.
AllTypes == {"HELLO", "HEARTBEAT", "PREPARE_CASE", "RESET", "CALL", "INFER",
             "TRIAL_END", "CLOSE", "UNSUPPORTED", "MALFORMED"}

\* A model method returns a value the codec can encode, one it cannot, or raises.
AllResults == {"ok", "bad", "error"}

ASSUME TypesAssumption == Types \subseteq AllTypes /\ Results \subseteq AllResults
ASSUME SizesAssumption == CacheSize \in Nat \ {0} /\ MaxInflight \in Nat
ASSUME NoneAssumption  == None \notin Attempts

VARIABLES
  server,     \* down, up, closing (close + wait_closed) or draining
  sock,       \* [Conns -> new | open | closed], the transport
  handler,    \* [Conns -> idle | reading | draining | done]
  inbox,      \* frames received by the transport and not yet read
  inline,     \* attempt a handler answers itself, for backpressure
  frame,      \* what each attempt carries: id, type, conn
  pc,         \* progress of each attempt's respond task
  awaits,     \* leader of the execution a respond task awaits
  reply,      \* the response a respond task holds
  task,       \* progress of the execution task an attempt leads
  outcome,    \* how that task ended
  inflight,   \* _inflight: request id -> leader
  lock,       \* holder of _model_lock
  cache,      \* _response_cache: request id -> type and reply
  recency,    \* position in the OrderedDict, 0 when absent, newest = CacheSize
  drainSet,   \* executions stop() waits for
  calls,      \* history: model calls made for each id
  evicted,    \* history: times each id left the cache
  abandoned   \* history: executions a stop() gave up on

connVars == <<server, sock, handler, inbox, drainSet, abandoned>>
respVars == <<inline, frame, pc, awaits, reply>>
execVars == <<task, outcome, inflight, lock, calls>>
cacheVars == <<cache, recency, evicted>>
vars == <<connVars, respVars, execVars, cacheVars>>

Kinds == {"ok", "bad", "error", "reused", "invalid", "closing"}
Reply == [by : Attempts, kind : Kinds]
Frame == [id : Requests, type : Types, conn : Conns]
Entry == [type : Types, reply : Reply]

ActiveTask == {"created", "decoding", "locking", "running", "acting"}
LivePc == {"created", "waiting", "encoded"}

Init ==
  /\ server = "down"
  /\ sock = [c \in Conns |-> "new"]
  /\ handler = [c \in Conns |-> "idle"]
  /\ inbox = [c \in Conns |-> <<>>]
  /\ inline = [c \in Conns |-> None]
  /\ frame = [a \in Attempts |-> None]
  /\ pc = [a \in Attempts |-> "unsent"]
  /\ awaits = [a \in Attempts |-> None]
  /\ reply = [a \in Attempts |-> None]
  /\ task = [a \in Attempts |-> "none"]
  /\ outcome = [a \in Attempts |-> None]
  /\ inflight = [r \in Requests |-> None]
  /\ lock = None
  /\ cache = [r \in Requests |-> None]
  /\ recency = [r \in Requests |-> 0]
  /\ drainSet = {}
  /\ calls = [r \in Requests |-> 0]
  /\ evicted = [r \in Requests |-> 0]
  /\ abandoned = {}

-----------------------------------------------------------------------------
(* The replay cache: an LRU dictionary of bounded size.                    *)

Cached(r) == recency[r] > 0

\* r becomes the newest entry: everything newer than its old place moves down
\* one.  When r was absent (place 0) every entry moves down and the oldest of
\* a full cache falls out.
Touched(r) ==
  [x \in Requests |-> IF x = r THEN CacheSize
                      ELSE IF recency[x] > recency[r] THEN recency[x] - 1
                      ELSE recency[x]]

\* popitem(last=False): the id that falls out when r is stored.
Evicts(r, x) == x # r /\ recency[x] = 1 /\ recency[r] = 0

\* _cache_response
Store(r, type, rep) ==
  /\ recency' = Touched(r)
  /\ cache' = [x \in Requests |-> IF x = r THEN [type |-> type, reply |-> rep]
                                  ELSE IF Evicts(r, x) THEN None
                                  ELSE cache[x]]
  /\ evicted' = [x \in Requests |-> evicted[x] + IF Evicts(r, x) THEN 1 ELSE 0]

-----------------------------------------------------------------------------
(* Peers: they open connections, send frames and vanish at any time.       *)

Connect(c) ==
  /\ server = "up" /\ sock[c] = "new"
  /\ sock' = [sock EXCEPT ![c] = "open"]
  /\ handler' = [handler EXCEPT ![c] = "reading"]
  /\ UNCHANGED <<server, inbox, drainSet, abandoned, respVars, execVars, cacheVars>>

Send(a, c, r, t) ==
  /\ pc[a] = "unsent" /\ sock[c] = "open"
  /\ frame' = [frame EXCEPT ![a] = [id |-> r, type |-> t, conn |-> c]]
  /\ pc' = [pc EXCEPT ![a] = "wire"]
  /\ inbox' = [inbox EXCEPT ![c] = Append(@, a)]
  /\ UNCHANGED <<server, sock, handler, drainSet, abandoned,
                 inline, awaits, reply, execVars, cacheVars>>

\* A lost link, a peer that goes away or a keepalive timeout.
Drop(c) ==
  /\ sock[c] = "open"
  /\ sock' = [sock EXCEPT ![c] = "closed"]
  /\ UNCHANGED <<server, handler, inbox, drainSet, abandoned,
                 respVars, execVars, cacheVars>>

-----------------------------------------------------------------------------
(* _handle_connection: the reader loop of one connection.                  *)

\* The respond tasks of connection c that have not ended (the set pending).
Pending(c) ==
  {a \in Attempts : pc[a] \in LivePc /\ frame[a].conn = c /\ inline[c] # a}

\* Mutant of Full: one task too many.
FullLate(c) == Cardinality(Pending(c)) > MaxInflight

\* The connection is at its cap of concurrent respond tasks.
Full(c) == Cardinality(Pending(c)) >= MaxInflight

\* Reads the next frame unless the handler itself is answering one.
TakeFrame(c, a) ==
  /\ handler[c] = "reading" /\ inline[c] = None
  /\ inbox[c] # <<>> /\ a = Head(inbox[c]) /\ pc[a] = "wire"
  /\ inbox' = [inbox EXCEPT ![c] = Tail(@)]

\* A frame that is not binary, or that carries no usable message id, is dropped.
IgnoreFrame(c, a) ==
  /\ TakeFrame(c, a) /\ frame[a].type = "MALFORMED"
  /\ pc' = [pc EXCEPT ![a] = "ignored"]
  /\ UNCHANGED <<server, sock, handler, drainSet, abandoned,
                 inline, frame, awaits, reply, execVars, cacheVars>>

\* _reject_invalid_frame: the handler itself sends the ERROR reply.
RejectFrame(c, a) ==
  /\ TakeFrame(c, a) /\ frame[a].type = "MALFORMED"
  /\ inline' = [inline EXCEPT ![c] = a]
  /\ pc' = [pc EXCEPT ![a] = "encoded"]
  /\ reply' = [reply EXCEPT ![a] = [by |-> a, kind |-> "invalid"]]
  /\ UNCHANGED <<server, sock, handler, drainSet, abandoned,
                 frame, awaits, execVars, cacheVars>>

\* create_task(respond(frame)), or respond inline at the in-flight cap.
AcceptFrame(c, a) ==
  /\ TakeFrame(c, a) /\ frame[a].type # "MALFORMED"
  /\ inline' = [inline EXCEPT ![c] =
                  IF Full(c) THEN a ELSE None]
  /\ pc' = [pc EXCEPT ![a] = "created"]
  /\ UNCHANGED <<server, sock, handler, drainSet, abandoned,
                 frame, awaits, reply, execVars, cacheVars>>

\* The loop ends once the transport is closed; frames it still buffers may or
\* may not have been read before.
EndLoop(c) ==
  /\ handler[c] = "reading" /\ inline[c] = None /\ sock[c] = "closed"
  /\ handler' = [handler EXCEPT ![c] = "draining"]
  /\ UNCHANGED <<server, sock, inbox, drainSet, abandoned,
                 respVars, execVars, cacheVars>>

DrainDone(c) ==
  /\ handler[c] = "draining" /\ Pending(c) = {}
  /\ handler' = [handler EXCEPT ![c] = "done"]
  /\ UNCHANGED <<server, sock, inbox, drainSet, abandoned,
                 respVars, execVars, cacheVars>>

Finished(a) == task[a] \in {"done", "popped"}

\* Mutant of DrainTimeout: the wait has no timeout.
DrainForever(c) == FALSE

\* asyncio.wait(pending, timeout) expires: only waiters whose execution is
\* still unfinished can be left after 30 s.  Cancelling them leaves the
\* shielded executions alone.
DrainTimeout(c) ==
  /\ handler[c] = "draining" /\ Pending(c) # {}
  /\ \A a \in Pending(c) : pc[a] = "waiting" /\ ~Finished(awaits[a])
  /\ handler' = [handler EXCEPT ![c] = "done"]
  /\ pc' = [a \in Attempts |-> IF a \in Pending(c) THEN "cancelled" ELSE pc[a]]
  /\ UNCHANGED <<server, sock, inbox, drainSet, abandoned,
                 inline, frame, awaits, reply, execVars, cacheVars>>

-----------------------------------------------------------------------------
(* respond(frame): process_frame, encode, send.                            *)

\* A response the codec cannot encode becomes an INTERNAL error.
Repaired(rep) == IF rep.kind = "bad" THEN [rep EXCEPT !.kind = "error"] ELSE rep

\* Mutant of Encode: the unencodable response is only logged.
EncodeOrDrop(a, rep) ==
  /\ reply' = [reply EXCEPT ![a] = rep]
  /\ pc' = [pc EXCEPT ![a] = IF rep.kind = "bad" THEN "ignored" ELSE "encoded"]

\* A respond task that has its response encodes it, in the same step.
Encode(a, rep) ==
  /\ reply' = [reply EXCEPT ![a] = Repaired(rep)]
  /\ pc' = [pc EXCEPT ![a] = "encoded"]

\* Mutant of Overwrite: the poisoned entry stays.
NoOverwrite(a, rep) == UNCHANGED cacheVars

\* The entry of an unencodable response is replaced too.
Overwrite(a, rep) ==
  IF rep.kind = "bad"
  THEN Store(frame[a].id, frame[a].type, Repaired(rep))
  ELSE UNCHANGED cacheVars

\* Mutant of SameType: ids are taken to be unique across types.
AnyType(type, a) == TRUE

\* The type the id was first used with is the type of this frame.
SameType(type, a) == type = frame[a].type

\* Mutant of InFlight: duplicates are looked up in the cache only.
NeverInFlight(r) == FALSE

InFlight(r) == inflight[r] # None

\* process_frame: the id is cached; a replay makes the entry the newest.
ReplayCached(a) ==
  LET r == frame[a].id
      entry == cache[r]
  IN /\ pc[a] = "created" /\ Cached(r)
     /\ IF SameType(entry.type, a)
        THEN /\ Encode(a, entry.reply)
             /\ Store(r, entry.type, Repaired(entry.reply))
        ELSE /\ Encode(a, [by |-> a, kind |-> "reused"])
             /\ UNCHANGED cacheVars
     /\ UNCHANGED <<connVars, inline, frame, awaits, execVars>>

\* _execute_once: the id is in flight, so await the running execution.
JoinInflight(a) ==
  LET r == frame[a].id
      leader == inflight[r]
  IN /\ pc[a] = "created" /\ ~Cached(r) /\ InFlight(r)
     /\ IF SameType(frame[leader].type, a)
        THEN /\ awaits' = [awaits EXCEPT ![a] = leader]
             /\ pc' = [pc EXCEPT ![a] = "waiting"]
             /\ UNCHANGED reply
        ELSE /\ Encode(a, [by |-> a, kind |-> "reused"])
             /\ UNCHANGED awaits
     /\ UNCHANGED <<connVars, inline, frame, execVars, cacheVars>>

\* _execute_once: a new id, so create its execution and await it.
LeadExecution(a) ==
  LET r == frame[a].id
  IN /\ pc[a] = "created" /\ ~Cached(r) /\ ~InFlight(r)
     /\ task' = [task EXCEPT ![a] = "created"]
     /\ inflight' = [inflight EXCEPT ![r] = a]
     /\ awaits' = [awaits EXCEPT ![a] = a]
     /\ pc' = [pc EXCEPT ![a] = "waiting"]
     /\ UNCHANGED <<connVars, inline, frame, reply,
                    outcome, lock, calls, cacheVars>>

\* The awaited execution has ended with a response.
Resume(a) ==
  LET rep == [by |-> awaits[a], kind |-> outcome[awaits[a]]]
  IN /\ pc[a] = "waiting" /\ Finished(awaits[a]) /\ rep.kind # "closing"
     /\ Encode(a, rep)
     /\ Overwrite(a, rep)
     /\ UNCHANGED <<connVars, inline, frame, awaits, execVars>>

\* No response (CLOSE): close this attempt's connection.
CloseSocket(a) ==
  LET c == frame[a].conn
  IN /\ pc[a] = "waiting" /\ Finished(awaits[a]) /\ outcome[awaits[a]] = "closing"
     /\ sock' = [sock EXCEPT ![c] = "closed"]
     /\ inline' = [inline EXCEPT ![c] = IF @ = a THEN None ELSE @]
     /\ pc' = [pc EXCEPT ![a] = "closed"]
     /\ UNCHANGED <<server, handler, inbox, drainSet, abandoned,
                    frame, awaits, reply, execVars, cacheVars>>

\* The send, serialised by send_lock: it returns, or raises ConnectionClosed,
\* which is swallowed.
SendReply(a) ==
  LET c == frame[a].conn
  IN /\ pc[a] = "encoded"
     /\ inline' = [inline EXCEPT ![c] = IF @ = a THEN None ELSE @]
     /\ pc' = [pc EXCEPT ![a] = IF sock[c] = "open" THEN "sent" ELSE "undelivered"]
     /\ UNCHANGED <<connVars, frame, awaits, reply, execVars, cacheVars>>

-----------------------------------------------------------------------------
(* _execute_frame and _dispatch_frame: the execution led by attempt a.     *)

\* The execution ends: the model lock is released if held and the response,
\* when there is one, is cached, errors included.
Finish(a, kind) ==
  /\ task' = [task EXCEPT ![a] = "done"]
  /\ outcome' = [outcome EXCEPT ![a] = kind]
  /\ lock' = IF lock = a THEN None ELSE lock
  /\ IF kind = "closing"
     THEN UNCHANGED cacheVars
     ELSE Store(frame[a].id, frame[a].type, [by |-> a, kind |-> kind])

\* Requests answered without the model: HELLO, HEARTBEAT and CLOSE; PREPARE_CASE
\* and TRIAL_END when the model has no hook; RESET, CALL and INFER when the
\* method or its payload is missing; any unsupported type.
Direct(t) ==
  CASE t \in {"HELLO", "HEARTBEAT"} -> {"ok"}
    [] t \in {"PREPARE_CASE", "TRIAL_END"} -> {"ok"}
    [] t = "CLOSE" -> {"closing"}
    [] OTHER -> {"error"}

\* Where a request that does need the model goes next.  CALL and INFER decode
\* camera frames in a worker thread before they take the lock.
FirstStage(t) ==
  CASE t = "CALL" -> {"decoding", "locking"}
    [] t = "INFER" -> {"decoding"}
    [] t \in {"RESET", "PREPARE_CASE", "TRIAL_END"} -> {"locking"}
    [] OTHER -> {}

AnswerDirectly(a) ==
  /\ task[a] = "created"
  /\ \E kind \in Direct(frame[a].type) : Finish(a, kind)
  /\ UNCHANGED <<connVars, respVars, inflight, calls>>

Dispatch(a) ==
  /\ task[a] = "created"
  /\ \E stage \in FirstStage(frame[a].type) : task' = [task EXCEPT ![a] = stage]
  /\ UNCHANGED <<connVars, respVars, outcome, inflight, lock, calls, cacheVars>>

DecodeFails(a) ==
  /\ task[a] = "decoding"
  /\ Finish(a, "error")
  /\ UNCHANGED <<connVars, respVars, inflight, calls>>

DecodeDone(a) ==
  /\ task[a] = "decoding"
  /\ task' = [task EXCEPT ![a] = "locking"]
  /\ UNCHANGED <<connVars, respVars, outcome, inflight, lock, calls, cacheVars>>

LockFree == lock = None

AcquireLock(a) ==
  /\ task[a] = "locking" /\ LockFree
  /\ lock' = a
  /\ task' = [task EXCEPT ![a] = "running"]
  /\ calls' = [calls EXCEPT ![frame[a].id] = @ + 1]
  /\ UNCHANGED <<connVars, respVars, outcome, inflight, cacheVars>>

ModelReturns(a) ==
  /\ task[a] = "running" /\ frame[a].type # "INFER"
  /\ \E kind \in Results : Finish(a, kind)
  /\ UNCHANGED <<connVars, respVars, inflight, calls>>

\* Mutant of InferObserves: update_obs and get_action are two model calls.
InferUnpaired(a) ==
  /\ task[a] = "running" /\ frame[a].type = "INFER"
  /\ task' = [task EXCEPT ![a] = "acting"]
  /\ lock' = None
  /\ UNCHANGED <<connVars, respVars, outcome, inflight, calls, cacheVars>>

\* INFER: update_obs, then get_action under the same hold of the lock.
InferObserves(a) ==
  /\ task[a] = "running" /\ frame[a].type = "INFER"
  /\ task' = [task EXCEPT ![a] = "acting"]
  /\ UNCHANGED <<connVars, respVars, outcome, inflight, lock, calls, cacheVars>>

InferFails(a) ==
  /\ task[a] = "running" /\ frame[a].type = "INFER"
  /\ Finish(a, "error")
  /\ UNCHANGED <<connVars, respVars, inflight, calls>>

InferActs(a) ==
  /\ task[a] = "acting"
  /\ \E kind \in Results : Finish(a, kind)
  /\ UNCHANGED <<connVars, respVars, inflight, calls>>

\* The done callback, run on a later turn of the loop.
PopInflight(a) ==
  /\ task[a] = "done"
  /\ task' = [task EXCEPT ![a] = "popped"]
  /\ inflight' = [inflight EXCEPT ![frame[a].id] = None]
  /\ UNCHANGED <<connVars, respVars, outcome, lock, calls, cacheVars>>

-----------------------------------------------------------------------------
(* start() and stop().                                                     *)

Start ==
  /\ server = "down"
  /\ server' = "up"
  /\ UNCHANGED <<sock, handler, inbox, drainSet, abandoned,
                 respVars, execVars, cacheVars>>

\* Server.close() closes every connection.
CloseServer ==
  /\ server = "up"
  /\ server' = "closing"
  /\ sock' = [c \in Conns |-> IF sock[c] = "open" THEN "closed" ELSE sock[c]]
  /\ UNCHANGED <<handler, inbox, drainSet, abandoned, respVars, execVars, cacheVars>>

\* Mutant of HandlersReturned: the snapshot is taken before wait_closed().
NoWaitClosed == TRUE

HandlersReturned == \A c \in Conns : handler[c] \in {"idle", "done"}

\* wait_closed() returns when every handler has; then the in-flight snapshot.
HandlersGone ==
  /\ server = "closing" /\ HandlersReturned
  /\ server' = "draining"
  /\ drainSet' = {a \in Attempts : \E r \in Requests : inflight[r] = a}
  /\ UNCHANGED <<sock, handler, inbox, abandoned, respVars, execVars, cacheVars>>

StopDone ==
  /\ server = "draining" /\ \A a \in drainSet : Finished(a)
  /\ server' = "down"
  /\ drainSet' = {}
  /\ UNCHANGED <<sock, handler, inbox, abandoned, respVars, execVars, cacheVars>>

\* Mutant of StopTimeout: stop() waits for a hung model.
StopWaitsForever == FALSE

StopTimeout ==
  /\ server = "draining" /\ \E a \in drainSet : ~Finished(a)
  /\ server' = "down"
  /\ abandoned' = abandoned \cup {a \in drainSet : ~Finished(a)}
  /\ drainSet' = {}
  /\ UNCHANGED <<sock, handler, inbox, respVars, execVars, cacheVars>>

-----------------------------------------------------------------------------
Peer ==
  \/ \E c \in Conns : Connect(c) \/ Drop(c)
  \/ \E a \in Attempts, c \in Conns, r \in Requests, t \in Types : Send(a, c, r, t)

Handle(c) ==
  \/ \E a \in Attempts : IgnoreFrame(c, a) \/ RejectFrame(c, a) \/ AcceptFrame(c, a)
  \/ EndLoop(c) \/ DrainDone(c) \/ DrainTimeout(c)

Respond(a) ==
  \/ ReplayCached(a) \/ JoinInflight(a) \/ LeadExecution(a)
  \/ Resume(a) \/ CloseSocket(a) \/ SendReply(a)

Execute(a) ==
  \/ AnswerDirectly(a) \/ Dispatch(a) \/ DecodeFails(a) \/ DecodeDone(a)
  \/ AcquireLock(a) \/ PopInflight(a)

Model(a) ==
  \/ ModelReturns(a) \/ InferObserves(a) \/ InferFails(a) \/ InferActs(a)

Lifecycle == Start \/ CloseServer \/ HandlersGone \/ StopDone \/ StopTimeout

Next ==
  \/ Peer \/ Lifecycle
  \/ \E c \in Conns : Handle(c)
  \/ \E a \in Attempts : Respond(a) \/ Execute(a) \/ Model(a)

Spec == Init /\ [][Next]_vars

\* The loop runs every ready task and every expired timer; asyncio.Lock serves
\* its waiters in order, so the model lock starves no execution.
LoopFairness ==
  /\ \A c \in Conns : WF_vars(Handle(c))
  /\ \A a \in Attempts :
       WF_vars(Respond(a)) /\ WF_vars(Execute(a)) /\ SF_vars(AcquireLock(a))
  /\ WF_vars(HandlersGone \/ StopDone \/ StopTimeout)

ModelFairness == \A a \in Attempts : WF_vars(Model(a))

FairSpec == Spec /\ LoopFairness /\ ModelFairness

\* The model may hang in any call.
HungModelSpec == Spec /\ LoopFairness
-----------------------------------------------------------------------------
(* Properties.                                                             *)

\* Every variable keeps its type.
TypeOK ==
  /\ server \in {"down", "up", "closing", "draining"}
  /\ sock \in [Conns -> {"new", "open", "closed"}]
  /\ handler \in [Conns -> {"idle", "reading", "draining", "done"}]
  /\ inbox \in [Conns -> Seq(Attempts)]
  /\ inline \in [Conns -> Attempts \cup {None}]
  /\ frame \in [Attempts -> Frame \cup {None}]
  /\ pc \in [Attempts -> LivePc \cup {"unsent", "wire", "ignored", "sent",
                                      "undelivered", "closed", "cancelled"}]
  /\ awaits \in [Attempts -> Attempts \cup {None}]
  /\ reply \in [Attempts -> Reply \cup {None}]
  /\ task \in [Attempts -> ActiveTask \cup {"none", "done", "popped"}]
  /\ outcome \in [Attempts -> Kinds \cup {None}]
  /\ inflight \in [Requests -> Attempts \cup {None}]
  /\ lock \in Attempts \cup {None}
  /\ cache \in [Requests -> Entry \cup {None}]
  /\ recency \in [Requests -> 0..CacheSize]
  /\ drainSet \subseteq Attempts
  /\ calls \in [Requests -> Nat]
  /\ evicted \in [Requests -> Nat]
  /\ abandoned \subseteq Attempts

\* Two executions of one request id never overlap, however many copies of the
\* frame arrive and however their connections fare (_execute_once).
SingleFlight ==
  \A a, b \in Attempts :
    a # b /\ task[a] \in ActiveTask /\ task[b] \in ActiveTask
      => frame[a].id # frame[b].id

\* A request id reaches the model once, and again only after its entry fell
\* out of the replay cache (process_frame, _cache_response).
AtMostOncePerResidence ==
  \A r \in Requests : calls[r] <= 1 + evicted[r]

\* A peer is only ever answered with the result of its own request: the same
\* id and the same message type (the type checks of process_frame and
\* _execute_once).
AnswersOwnRequest ==
  \A a \in Attempts :
    pc[a] = "sent" /\ reply[a].kind \in {"ok", "error"}
      => /\ frame[reply[a].by].id = frame[a].id
         /\ frame[reply[a].by].type = frame[a].type

\* All the copies of a request get one answer, and that answer is what the
\* cache will replay, as long as the id was never evicted.  A result that could
\* not be encoded is not an exception: the error that replaced it is replayed.
OneAnswerPerRequest ==
  \A a \in Attempts :
    pc[a] = "sent" /\ reply[a].kind \in {"ok", "error"} /\ evicted[frame[a].id] = 0
      => /\ Cached(frame[a].id) => cache[frame[a].id].reply = reply[a]
         /\ \A b \in Attempts :
              /\ pc[b] = "sent" /\ frame[b].id = frame[a].id
              /\ reply[b].kind \in {"ok", "error"}
              => reply[b] = reply[a]

\* The cache never holds more than CacheSize entries and its order is total.
CacheBounded ==
  /\ Cardinality({r \in Requests : Cached(r)}) <= CacheSize
  /\ \A r, s \in Requests : r # s /\ Cached(r) => recency[r] # recency[s]

\* The model is not thread safe: at most one execution is inside it
\* (_call_model_method and the lock of _handle_infer).
ModelMutex ==
  \A a, b \in Attempts :
    task[a] \in {"running", "acting"} /\ task[b] \in {"running", "acting"} => a = b

\* No model call begins between the two halves of an INFER, so its get_action
\* acts on its own observation (_handle_infer).
InferPairAtomic ==
  [][(\E a \in Attempts : task[a] = "acting") => calls' = calls]_vars

\* When stop() has returned, the only executions that may still run are those
\* it gave up on and logged: none can begin behind its snapshot.
StopDrains ==
  server = "down" => {a \in Attempts : task[a] \in ActiveTask} \subseteq abandoned

\* A connection never has more respond tasks than the cap.
Backpressure ==
  \A c \in Conns : Cardinality(Pending(c)) <= MaxInflight

\* Once a frame is accepted its peer is answered or is gone.
FrameAnswered ==
  \A a \in Attempts :
    pc[a] = "created" ~> pc[a] \in {"sent", "closed", "undelivered", "cancelled"}

\* The same where the model may hang: a model that returns is enough.
AnsweredUnlessHung == ModelFairness => FrameAnswered

\* A hung model cannot pin the handler of a connection that was lost.
HandlerEnds ==
  \A c \in Conns : handler[c] = "draining" ~> handler[c] = "done"

\* stop() returns.
StopReturns ==
  server = "closing" ~> server = "down"
=============================================================================
