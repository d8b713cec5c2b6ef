------------------------- MODULE PolicyServerProofs -------------------------
(***************************************************************************)
(* Proofs about PolicyServer for every set of attempts, request ids and    *)
(* connections, every cache size and every in-flight cap.                  *)
(***************************************************************************)
EXTENDS PolicyServer, FiniteSetTheorems, FunctionTheorems, TLAPS

-----------------------------------------------------------------------------
(* The inductive invariant, by named parts.                                *)

\* What was sent has a frame.
FrameInv == \A a \in Attempts : pc[a] # "unsent" => frame[a] \in Frame

\* An execution belongs to an attempt that was read, and an ended one has an
\* outcome of its own kind: a result, or "closing" for CLOSE alone.
TaskInv ==
  \A a \in Attempts :
    /\ task[a] # "none" => pc[a] \notin {"unsent", "wire", "created", "ignored"}
    /\ Finished(a) => outcome[a] \in {"ok", "bad", "error", "closing"}

\* A respond task awaits an execution of its own id and type.
WaitInv ==
  \A a \in Attempts :
    pc[a] = "waiting" =>
      /\ awaits[a] \in Attempts
      /\ task[awaits[a]] # "none"
      /\ frame[awaits[a]].id = frame[a].id
      /\ frame[awaits[a]].type = frame[a].type

\* The in-flight table holds exactly the executions not yet popped.
InflightInv ==
  /\ \A r \in Requests : inflight[r] # None =>
       /\ frame[inflight[r]].id = r
       /\ task[inflight[r]] \in ActiveTask \cup {"done"}
  /\ \A a \in Attempts : task[a] \in ActiveTask \cup {"done"} =>
       inflight[frame[a].id] = a

\* The lock is held by the execution inside the model.
LockInv ==
  \A a \in Attempts : task[a] \in {"running", "acting"} <=> lock = a

\* A cached entry answers its own id, with a result.
CacheInv ==
  \A r \in Requests : recency[r] > 0 =>
    /\ cache[r] \in Entry
    /\ cache[r].reply.kind \in {"ok", "bad", "error"}
    /\ pc[cache[r].reply.by] # "unsent"
    /\ frame[cache[r].reply.by].id = r
    /\ frame[cache[r].reply.by].type = cache[r].type

\* No two entries share a position.
RecencyInv ==
  \A r, s \in Requests : r # s /\ recency[r] > 0 => recency[r] # recency[s]

IInv ==
  /\ TypeOK /\ FrameInv /\ TaskInv /\ WaitInv /\ InflightInv
  /\ LockInv /\ CacheInv /\ RecencyInv

\* An id that is neither cached nor past its model call has been called at most
\* once for each time it was evicted.
CallsInv ==
  \A r \in Requests :
    /\ calls[r] <= 1 + evicted[r]
    /\ recency[r] = 0 /\ inflight[r] = None => calls[r] <= evicted[r]
    /\ \A a \in Attempts :
         inflight[r] = a =>
           /\ task[a] \in {"created", "decoding", "locking"} => calls[r] <= evicted[r]
           /\ task[a] = "done" /\ recency[r] = 0 => calls[r] <= evicted[r]

\* A reply a respond task holds answers the request of that task.
ReplyInv ==
  \A a \in Attempts :
    pc[a] \in {"encoded", "sent"} =>
      /\ reply[a] \in Reply
      /\ reply[a].kind \in {"ok", "error"} =>
           /\ pc[reply[a].by] # "unsent"
           /\ frame[reply[a].by].id = frame[a].id
           /\ frame[reply[a].by].type = frame[a].type

-----------------------------------------------------------------------------
(* What storing an entry does to the cache.                                *)

LEMMA StoreFacts ==
  ASSUME TypeOK, RecencyInv,
         NEW r \in Requests, NEW type \in Types, NEW rep \in Reply,
         Store(r, type, rep)
  PROVE  /\ recency' \in [Requests -> 0..CacheSize]
         /\ cache' \in [Requests -> Entry \cup {None}]
         /\ evicted' \in [Requests -> Nat]
         /\ RecencyInv'
         /\ recency'[r] > 0 /\ cache'[r] = [type |-> type, reply |-> rep]
         /\ \A x \in Requests : x # r /\ recency'[x] > 0
              => recency[x] > 0 /\ cache'[x] = cache[x]
         /\ \A x \in Requests : evicted'[x] >= evicted[x]
         /\ \A x \in Requests : recency[x] > 0 /\ recency'[x] = 0
              => evicted'[x] = evicted[x] + 1
<1> USE SizesAssumption
<1>1. recency' = Touched(r) /\ recency \in [Requests -> 0..CacheSize]
  BY DEF Store, TypeOK
<1>2. recency' \in [Requests -> 0..CacheSize]
  BY <1>1 DEF Touched
<1>3. cache' \in [Requests -> Entry \cup {None}]
  BY DEF Store, Entry, TypeOK
<1>4. evicted' \in [Requests -> Nat]
  BY DEF Store, TypeOK
<1>5. RecencyInv'
  BY <1>1 DEF Touched, RecencyInv
<1>6. recency'[r] > 0 /\ cache'[r] = [type |-> type, reply |-> rep]
  BY <1>1 DEF Touched, Store
<1>7. ASSUME NEW x \in Requests, x # r, recency'[x] > 0
      PROVE  recency[x] > 0 /\ cache'[x] = cache[x]
  BY <1>1, <1>7 DEF Touched, Store, Evicts
<1>8. ASSUME NEW x \in Requests
      PROVE  evicted'[x] >= evicted[x]
  BY DEF Store, TypeOK
<1>9. ASSUME NEW x \in Requests, recency[x] > 0, recency'[x] = 0
      PROVE  evicted'[x] = evicted[x] + 1
  BY <1>1, <1>9 DEF Touched, Store, Evicts, TypeOK
<1>10. QED
  BY <1>2, <1>3, <1>4, <1>5, <1>6, <1>7, <1>8, <1>9

-----------------------------------------------------------------------------
(* Every step preserves IInv.                                              *)

LEMMA PeerPreserves ==
  ASSUME IInv, Peer
  PROVE  IInv'
<1> USE DEF connVars, respVars, execVars, cacheVars
<1>1. ASSUME NEW c \in Conns,
             Connect(c)
      PROVE  IInv'
  <2>1. TypeOK'
    BY <1>1 DEF IInv, TypeOK, FrameInv, TaskInv, WaitInv, CacheInv, Finished,
      LivePc, ActiveTask, Connect
  <2>2. FrameInv' /\ TaskInv' /\ WaitInv'
    BY <1>1 DEF IInv, TypeOK, FrameInv, TaskInv, WaitInv, Finished, Frame,
      ActiveTask, Connect
  <2>3. InflightInv' /\ LockInv'
    BY <1>1 DEF IInv, TypeOK, FrameInv, TaskInv, InflightInv, LockInv,
      ActiveTask, Frame, Connect
  <2>4. CacheInv' /\ RecencyInv'
    BY <1>1 DEF IInv, TypeOK, FrameInv, CacheInv, RecencyInv, Entry, Reply,
      Connect
  <2> QED
    BY <2>1, <2>2, <2>3, <2>4 DEF IInv
<1>2. ASSUME NEW c \in Conns,
             Drop(c)
      PROVE  IInv'
  <2>1. TypeOK'
    BY <1>2 DEF IInv, TypeOK, FrameInv, TaskInv, WaitInv, CacheInv, Finished,
      LivePc, ActiveTask, Drop
  <2>2. FrameInv' /\ TaskInv' /\ WaitInv'
    BY <1>2 DEF IInv, TypeOK, FrameInv, TaskInv, WaitInv, Finished, Frame,
      ActiveTask, Drop
  <2>3. InflightInv' /\ LockInv'
    BY <1>2 DEF IInv, TypeOK, FrameInv, TaskInv, InflightInv, LockInv,
      ActiveTask, Frame, Drop
  <2>4. CacheInv' /\ RecencyInv'
    BY <1>2 DEF IInv, TypeOK, FrameInv, CacheInv, RecencyInv, Entry, Reply,
      Drop
  <2> QED
    BY <2>1, <2>2, <2>3, <2>4 DEF IInv
<1>3. ASSUME NEW a \in Attempts, NEW c \in Conns, NEW r \in Requests, NEW t \in Types,
             Send(a, c, r, t)
      PROVE  IInv'
  <2>1. TypeOK'
    BY <1>3 DEF IInv, TypeOK, FrameInv, TaskInv, WaitInv, CacheInv, Finished,
      LivePc, ActiveTask, Frame, Send
  <2>2. FrameInv' /\ TaskInv' /\ WaitInv'
    BY <1>3 DEF IInv, TypeOK, FrameInv, TaskInv, WaitInv, Finished, Frame,
      ActiveTask, Send
  <2>3. InflightInv' /\ LockInv'
    BY <1>3 DEF IInv, TypeOK, FrameInv, TaskInv, InflightInv, LockInv,
      ActiveTask, Frame, Send
  <2>4. CacheInv' /\ RecencyInv'
    BY <1>3 DEF IInv, TypeOK, FrameInv, CacheInv, RecencyInv, Entry, Reply,
      Send
  <2> QED
    BY <2>1, <2>2, <2>3, <2>4 DEF IInv
<1> QED
  BY <1>1, <1>2, <1>3 DEF Peer

LEMMA HandlePreserves ==
  ASSUME IInv, NEW c \in Conns, Handle(c)
  PROVE  IInv'
<1> USE DEF connVars, respVars, execVars, cacheVars
<1>1. ASSUME NEW a \in Attempts, IgnoreFrame(c, a)
      PROVE  IInv'
  <2>1. TypeOK'
    BY <1>1 DEF IInv, TypeOK, FrameInv, TaskInv, WaitInv, CacheInv, Finished,
      LivePc, ActiveTask, IgnoreFrame, TakeFrame
  <2>2. FrameInv' /\ TaskInv' /\ WaitInv'
    BY <1>1 DEF IInv, TypeOK, FrameInv, TaskInv, WaitInv, Finished, Frame,
      ActiveTask, IgnoreFrame, TakeFrame
  <2>3. InflightInv' /\ LockInv'
    BY <1>1 DEF IInv, TypeOK, FrameInv, TaskInv, InflightInv, LockInv,
      ActiveTask, Frame, IgnoreFrame, TakeFrame
  <2>4. CacheInv' /\ RecencyInv'
    BY <1>1 DEF IInv, TypeOK, FrameInv, CacheInv, RecencyInv, Entry, Reply,
      IgnoreFrame, TakeFrame
  <2> QED
    BY <2>1, <2>2, <2>3, <2>4 DEF IInv
<1>2. ASSUME NEW a \in Attempts, RejectFrame(c, a)
      PROVE  IInv'
  <2>1. TypeOK'
    BY <1>2 DEF IInv, TypeOK, FrameInv, TaskInv, WaitInv, CacheInv, Finished,
      LivePc, ActiveTask, Reply, Kinds, RejectFrame, TakeFrame
  <2>2. FrameInv' /\ TaskInv' /\ WaitInv'
    BY <1>2 DEF IInv, TypeOK, FrameInv, TaskInv, WaitInv, Finished, Frame,
      ActiveTask, RejectFrame, TakeFrame
  <2>3. InflightInv' /\ LockInv'
    BY <1>2 DEF IInv, TypeOK, FrameInv, TaskInv, InflightInv, LockInv,
      ActiveTask, Frame, RejectFrame, TakeFrame
  <2>4. CacheInv' /\ RecencyInv'
    BY <1>2 DEF IInv, TypeOK, FrameInv, CacheInv, RecencyInv, Entry, Reply,
      RejectFrame, TakeFrame
  <2> QED
    BY <2>1, <2>2, <2>3, <2>4 DEF IInv
<1>3. ASSUME NEW a \in Attempts, AcceptFrame(c, a)
      PROVE  IInv'
  <2>1. TypeOK'
    BY <1>3 DEF IInv, TypeOK, FrameInv, TaskInv, WaitInv, CacheInv, Finished,
      LivePc, ActiveTask, AcceptFrame, TakeFrame
  <2>2. FrameInv' /\ TaskInv' /\ WaitInv'
    BY <1>3 DEF IInv, TypeOK, FrameInv, TaskInv, WaitInv, Finished, Frame,
      ActiveTask, AcceptFrame, TakeFrame
  <2>3. InflightInv' /\ LockInv'
    BY <1>3 DEF IInv, TypeOK, FrameInv, TaskInv, InflightInv, LockInv,
      ActiveTask, Frame, AcceptFrame, TakeFrame
  <2>4. CacheInv' /\ RecencyInv'
    BY <1>3 DEF IInv, TypeOK, FrameInv, CacheInv, RecencyInv, Entry, Reply,
      AcceptFrame, TakeFrame
  <2> QED
    BY <2>1, <2>2, <2>3, <2>4 DEF IInv
<1>4. CASE EndLoop(c)
  <2>1. TypeOK'
    BY <1>4 DEF IInv, TypeOK, FrameInv, TaskInv, WaitInv, CacheInv, Finished,
      LivePc, ActiveTask, EndLoop
  <2>2. FrameInv' /\ TaskInv' /\ WaitInv'
    BY <1>4 DEF IInv, TypeOK, FrameInv, TaskInv, WaitInv, Finished, Frame,
      ActiveTask, EndLoop
  <2>3. InflightInv' /\ LockInv'
    BY <1>4 DEF IInv, TypeOK, FrameInv, TaskInv, InflightInv, LockInv,
      ActiveTask, Frame, EndLoop
  <2>4. CacheInv' /\ RecencyInv'
    BY <1>4 DEF IInv, TypeOK, FrameInv, CacheInv, RecencyInv, Entry, Reply,
      EndLoop
  <2> QED
    BY <2>1, <2>2, <2>3, <2>4 DEF IInv
<1>5. CASE DrainDone(c)
  <2>1. TypeOK'
    BY <1>5 DEF IInv, TypeOK, FrameInv, TaskInv, WaitInv, CacheInv, Finished,
      LivePc, ActiveTask, DrainDone
  <2>2. FrameInv' /\ TaskInv' /\ WaitInv'
    BY <1>5 DEF IInv, TypeOK, FrameInv, TaskInv, WaitInv, Finished, Frame,
      ActiveTask, DrainDone
  <2>3. InflightInv' /\ LockInv'
    BY <1>5 DEF IInv, TypeOK, FrameInv, TaskInv, InflightInv, LockInv,
      ActiveTask, Frame, DrainDone
  <2>4. CacheInv' /\ RecencyInv'
    BY <1>5 DEF IInv, TypeOK, FrameInv, CacheInv, RecencyInv, Entry, Reply,
      DrainDone
  <2> QED
    BY <2>1, <2>2, <2>3, <2>4 DEF IInv
<1>6. CASE DrainTimeout(c)
  <2>1. TypeOK'
    BY <1>6 DEF IInv, TypeOK, FrameInv, TaskInv, WaitInv, CacheInv, Finished,
      LivePc, ActiveTask, DrainTimeout, Pending
  <2>2. FrameInv' /\ TaskInv' /\ WaitInv'
    BY <1>6 DEF IInv, TypeOK, FrameInv, TaskInv, WaitInv, Finished, Frame,
      ActiveTask, DrainTimeout, Pending
  <2>3. InflightInv' /\ LockInv'
    BY <1>6 DEF IInv, TypeOK, FrameInv, TaskInv, InflightInv, LockInv,
      ActiveTask, Frame, DrainTimeout, Pending
  <2>4. CacheInv' /\ RecencyInv'
    BY <1>6 DEF IInv, TypeOK, FrameInv, CacheInv, RecencyInv, Entry, Reply,
      DrainTimeout, Pending
  <2> QED
    BY <2>1, <2>2, <2>3, <2>4 DEF IInv
<1> QED
  BY <1>1, <1>2, <1>3, <1>4, <1>5, <1>6 DEF Handle

LEMMA StorePreserves ==
  ASSUME IInv, NEW r \in Requests, NEW type \in Types, NEW rep \in Reply,
         NEW b \in Attempts, b = rep.by, rep.kind \in {"ok", "bad", "error"},
         pc[b] # "unsent", pc'[b] # "unsent", frame[b].id = r, frame[b].type = type,
         \A a \in Attempts : pc[a] # "unsent" => pc'[a] # "unsent",
         Store(r, type, rep), UNCHANGED frame
  PROVE  /\ recency' \in [Requests -> 0..CacheSize]
         /\ cache' \in [Requests -> Entry \cup {None}]
         /\ evicted' \in [Requests -> Nat]
         /\ CacheInv' /\ RecencyInv'
<1>1. TypeOK /\ RecencyInv /\ CacheInv
  BY DEF IInv
<1>2. /\ recency' \in [Requests -> 0..CacheSize]
      /\ cache' \in [Requests -> Entry \cup {None}]
      /\ evicted' \in [Requests -> Nat]
      /\ RecencyInv'
      /\ cache'[r] = [type |-> type, reply |-> rep]
      /\ \A x \in Requests : x # r /\ recency'[x] > 0
           => recency[x] > 0 /\ cache'[x] = cache[x]
  BY <1>1, StoreFacts
<1>3. ASSUME NEW x \in Requests, recency'[x] > 0
      PROVE  /\ cache'[x] \in Entry
             /\ cache'[x].reply.kind \in {"ok", "bad", "error"}
             /\ pc'[cache'[x].reply.by] # "unsent"
             /\ frame[cache'[x].reply.by].id = x
             /\ frame[cache'[x].reply.by].type = cache'[x].type
  <2>1. CASE x = r
    BY <2>1, <1>2 DEF Entry
  <2>2. CASE x # r
    <3>1. recency[x] > 0 /\ cache'[x] = cache[x]
      BY <2>2, <1>2, <1>3
    <3>2. cache[x] \in Entry /\ cache[x].reply.by \in Attempts
      BY <1>1, <3>1 DEF CacheInv, Entry, Reply
    <3> QED
      BY <1>1, <3>1, <3>2 DEF CacheInv
  <2> QED
    BY <2>1, <2>2
<1> QED
  BY <1>2, <1>3 DEF CacheInv

LEMMA EncodePreserves ==
  ASSUME IInv, NEW a \in Attempts, NEW rep \in Reply,
         pc[a] \in {"created", "waiting"}, Encode(a, rep),
         UNCHANGED <<connVars, inline, frame, awaits, execVars>>,
         recency' \in [Requests -> 0..CacheSize],
         cache' \in [Requests -> Entry \cup {None}],
         evicted' \in [Requests -> Nat], CacheInv', RecencyInv'
  PROVE  IInv'
<1> USE DEF connVars, execVars
<1>1. Repaired(rep) \in Reply
  BY DEF Repaired, Reply, Kinds
<1>2. TypeOK'
  BY <1>1 DEF IInv, TypeOK, Encode, LivePc
<1>3. FrameInv' /\ TaskInv' /\ WaitInv'
  BY DEF IInv, TypeOK, FrameInv, TaskInv, WaitInv, Finished, Encode
<1>4. InflightInv' /\ LockInv'
  BY DEF IInv, TypeOK, InflightInv, LockInv, Encode
<1> QED
  BY <1>2, <1>3, <1>4 DEF IInv

\* A step of a respond task that leaves the cache alone.
LEMMA CacheUntouched ==
  ASSUME IInv, UNCHANGED <<frame, cacheVars>>,
         \A a \in Attempts : pc[a] # "unsent" => pc'[a] # "unsent"
  PROVE  /\ recency' \in [Requests -> 0..CacheSize]
         /\ cache' \in [Requests -> Entry \cup {None}]
         /\ evicted' \in [Requests -> Nat]
         /\ CacheInv' /\ RecencyInv'
<1>1. CacheInv'
  BY DEF IInv, CacheInv, Entry, Reply, cacheVars
<1> QED
  BY <1>1 DEF IInv, TypeOK, RecencyInv, cacheVars

LEMMA RespondPreserves ==
  ASSUME IInv, NEW a \in Attempts, Respond(a)
  PROVE  IInv'
<1> USE DEF connVars, respVars, execVars, cacheVars
<1>1. CASE ReplayCached(a)
  <2> DEFINE r == frame[a].id
             entry == cache[r]
             rep == Repaired(entry.reply)
  <2>1. /\ pc[a] = "created" /\ frame[a] \in Frame /\ r \in Requests
        /\ entry \in Entry /\ entry.type \in Types /\ entry.reply \in Reply
        /\ entry.reply.kind \in {"ok", "bad", "error"} /\ entry.reply.by \in Attempts
        /\ pc[entry.reply.by] # "unsent" /\ frame[entry.reply.by].id = r
        /\ frame[entry.reply.by].type = entry.type
    BY <1>1 DEF IInv, FrameInv, CacheInv, ReplayCached, Cached, Frame, Entry, Reply
  <2>2. UNCHANGED <<connVars, inline, frame, awaits, execVars>>
    BY <1>1 DEF ReplayCached
  <2>3. CASE SameType(entry.type, a)
    <3>1. Encode(a, entry.reply) /\ Store(r, entry.type, rep)
      BY <1>1, <2>3 DEF ReplayCached
    <3>2. /\ rep \in Reply /\ rep.by = entry.reply.by
          /\ rep.kind \in {"ok", "bad", "error"}
      BY <2>1 DEF Repaired, Reply, Kinds
    <3>3. \A x \in Attempts : pc[x] # "unsent" => pc'[x] # "unsent"
      BY <3>1 DEF Encode, IInv, TypeOK
    <3> HIDE DEF r, entry, rep
    <3>4. /\ recency' \in [Requests -> 0..CacheSize]
          /\ cache' \in [Requests -> Entry \cup {None}]
          /\ evicted' \in [Requests -> Nat] /\ CacheInv' /\ RecencyInv'
      BY <2>1, <2>2, <3>1, <3>2, <3>3, StorePreserves
    <3> QED
      BY <2>1, <2>2, <3>1, <3>4, EncodePreserves
  <2>4. CASE ~SameType(entry.type, a)
    <3>1. Encode(a, [by |-> a, kind |-> "reused"]) /\ UNCHANGED cacheVars
      BY <1>1, <2>4 DEF ReplayCached
    <3>2. \A x \in Attempts : pc[x] # "unsent" => pc'[x] # "unsent"
      BY <3>1 DEF Encode, IInv, TypeOK
    <3>3. [by |-> a, kind |-> "reused"] \in Reply
      BY DEF Reply, Kinds
    <3> QED
      BY <2>1, <2>2, <3>1, <3>2, <3>3, CacheUntouched, EncodePreserves
  <2> QED
    BY <2>3, <2>4
<1>2. CASE JoinInflight(a)
  <2> DEFINE r == frame[a].id
             leader == inflight[r]
  <2>0. /\ pc[a] = "created" /\ frame[a] \in Frame /\ r \in Requests
        /\ leader # None /\ inflight \in [Requests -> Attempts \cup {None}]
    BY <1>2 DEF IInv, TypeOK, FrameInv, JoinInflight, InFlight, Frame
  <2>1. /\ pc[a] = "created" /\ frame[a] \in Frame /\ r \in Requests
        /\ leader # None /\ leader \in Attempts
        /\ task[leader] # "none" /\ frame[leader].id = r
    BY <2>0 DEF IInv, InflightInv, ActiveTask
  <2>2. UNCHANGED <<connVars, inline, frame, execVars, cacheVars>>
    BY <1>2 DEF JoinInflight
  <2>3. CASE SameType(frame[leader].type, a)
    <3>1. /\ awaits' = [awaits EXCEPT ![a] = leader]
          /\ pc' = [pc EXCEPT ![a] = "waiting"] /\ reply' = reply
      BY <1>2, <2>3 DEF JoinInflight
    <3>2. frame[leader].type = frame[a].type
      BY <2>3 DEF SameType
    <3> HIDE DEF leader
    <3>3. TypeOK'
      BY <2>1, <2>2, <3>1 DEF IInv, TypeOK, LivePc
    <3>4. FrameInv' /\ TaskInv' /\ WaitInv'
      BY <2>1, <2>2, <3>1, <3>2
      DEF IInv, TypeOK, FrameInv, TaskInv, WaitInv, Finished
    <3>5. InflightInv' /\ LockInv'
      BY <2>2 DEF IInv, InflightInv, LockInv
    <3>6. CacheInv' /\ RecencyInv'
      BY <2>1, <2>2, <3>1, CacheUntouched DEF IInv, TypeOK
    <3> QED
      BY <3>3, <3>4, <3>5, <3>6 DEF IInv
  <2>4. CASE ~SameType(frame[leader].type, a)
    <3>1. Encode(a, [by |-> a, kind |-> "reused"]) /\ UNCHANGED awaits
      BY <1>2, <2>4 DEF JoinInflight
    <3>2. \A x \in Attempts : pc[x] # "unsent" => pc'[x] # "unsent"
      BY <3>1 DEF Encode, IInv, TypeOK
    <3>3. [by |-> a, kind |-> "reused"] \in Reply
      BY DEF Reply, Kinds
    <3>4. /\ recency' \in [Requests -> 0..CacheSize]
          /\ cache' \in [Requests -> Entry \cup {None}]
          /\ evicted' \in [Requests -> Nat] /\ CacheInv' /\ RecencyInv'
      BY <2>2, <3>2, CacheUntouched
    <3> HIDE DEF leader, r
    <3> QED
      BY <2>1, <2>2, <3>1, <3>3, <3>4, EncodePreserves
  <2> QED
    BY <2>3, <2>4
<1>3. CASE LeadExecution(a)
  <2>1. /\ pc[a] = "created" /\ frame[a] \in Frame /\ frame[a].id \in Requests
        /\ inflight[frame[a].id] = None /\ task[a] = "none"
    BY <1>3 DEF IInv, TypeOK, FrameInv, TaskInv, LeadExecution, InFlight, Frame
  <2>2. /\ task' = [task EXCEPT ![a] = "created"]
        /\ inflight' = [inflight EXCEPT ![frame[a].id] = a]
        /\ awaits' = [awaits EXCEPT ![a] = a]
        /\ pc' = [pc EXCEPT ![a] = "waiting"]
        /\ UNCHANGED <<connVars, inline, frame, reply, outcome, lock, calls, cacheVars>>
    BY <1>3 DEF LeadExecution
  <2>3. TypeOK'
    BY <2>1, <2>2 DEF IInv, TypeOK, LivePc, ActiveTask
  <2>4. FrameInv' /\ TaskInv' /\ WaitInv'
    BY <2>1, <2>2 DEF IInv, TypeOK, FrameInv, TaskInv, WaitInv, Finished
  <2>5. ASSUME NEW r \in Requests, inflight'[r] # None
        PROVE  /\ frame'[inflight'[r]].id = r
               /\ task'[inflight'[r]] \in ActiveTask \cup {"done"}
    <3>1. CASE r = frame[a].id
      BY <3>1, <2>1, <2>2 DEF IInv, TypeOK, ActiveTask
    <3>2. CASE r # frame[a].id
      <4>1. inflight'[r] = inflight[r] /\ inflight[r] # None /\ inflight[r] \in Attempts
        BY <3>2, <2>2, <2>5 DEF IInv, TypeOK
      <4>2. frame[inflight[r]].id = r /\ task[inflight[r]] \in ActiveTask \cup {"done"}
        BY <4>1 DEF IInv, InflightInv
      <4>3. inflight[r] # a
        BY <4>2, <2>1 DEF ActiveTask
      <4> QED
        BY <4>1, <4>2, <4>3, <2>2 DEF IInv, TypeOK
    <3> QED
      BY <3>1, <3>2
  <2>6. ASSUME NEW b \in Attempts, task'[b] \in ActiveTask \cup {"done"}
        PROVE  inflight'[frame'[b].id] = b
    <3>1. CASE b = a
      BY <3>1, <2>1, <2>2 DEF IInv, TypeOK
    <3>2. CASE b # a
      <4>1. task[b] \in ActiveTask \cup {"done"}
        BY <3>2, <2>2, <2>6 DEF IInv, TypeOK
      <4>2. inflight[frame[b].id] = b
        BY <4>1 DEF IInv, InflightInv
      <4>3. frame[b].id # frame[a].id
        BY <4>2, <2>1, NoneAssumption
      <4> QED
        BY <4>2, <4>3, <2>1, <2>2 DEF IInv, TypeOK
    <3> QED
      BY <3>1, <3>2
  <2>7. InflightInv'
    BY <2>5, <2>6 DEF InflightInv
  <2>8. LockInv'
    BY <2>1, <2>2 DEF IInv, TypeOK, LockInv
  <2>9. CacheInv' /\ RecencyInv'
    BY <2>1, <2>2, CacheUntouched DEF IInv, TypeOK
  <2> QED
    BY <2>3, <2>4, <2>7, <2>8, <2>9 DEF IInv
<1>4. CASE Resume(a)
  <2> DEFINE rep == [by |-> awaits[a], kind |-> outcome[awaits[a]]]
  <2>1. /\ pc[a] = "waiting" /\ frame[a] \in Frame /\ awaits[a] \in Attempts
        /\ rep.kind \in {"ok", "bad", "error"} /\ rep \in Reply
        /\ pc[awaits[a]] # "unsent" /\ frame[awaits[a]].id = frame[a].id
        /\ frame[awaits[a]].type = frame[a].type
        /\ frame[a].id \in Requests /\ frame[a].type \in Types
    BY <1>4 DEF IInv, FrameInv, TaskInv, WaitInv, Resume, Finished, Frame, Reply, Kinds
  <2>2. UNCHANGED <<connVars, inline, frame, awaits, execVars>>
    BY <1>4 DEF Resume
  <2>3. Encode(a, rep) /\ Overwrite(a, rep)
    BY <1>4 DEF Resume
  <2>4. \A x \in Attempts : pc[x] # "unsent" => pc'[x] # "unsent"
    BY <2>3 DEF Encode, IInv, TypeOK
  <2>5. rep.by = awaits[a]
    OBVIOUS
  <2> HIDE DEF rep
  <2>6. CASE rep.kind = "bad"
    <3>1. Store(frame[a].id, frame[a].type, Repaired(rep))
      BY <2>3, <2>6 DEF Overwrite
    <3>2. /\ Repaired(rep) \in Reply /\ Repaired(rep).by = awaits[a]
          /\ Repaired(rep).kind \in {"ok", "bad", "error"}
      BY <2>1, <2>5, <2>6 DEF Repaired, Reply, Kinds
    <3>3. /\ recency' \in [Requests -> 0..CacheSize]
          /\ cache' \in [Requests -> Entry \cup {None}]
          /\ evicted' \in [Requests -> Nat] /\ CacheInv' /\ RecencyInv'
      BY <2>1, <2>2, <2>4, <3>1, <3>2, StorePreserves
    <3> QED
      BY <2>1, <2>2, <2>3, <3>3, EncodePreserves
  <2>7. CASE rep.kind # "bad"
    <3>1. UNCHANGED cacheVars
      BY <2>3, <2>7 DEF Overwrite
    <3> QED
      BY <2>1, <2>2, <2>3, <2>4, <3>1, CacheUntouched, EncodePreserves
  <2> QED
    BY <2>6, <2>7
<1>5. CASE CloseSocket(a)
  <2>1. TypeOK'
    BY <1>5 DEF IInv, TypeOK, FrameInv, TaskInv, WaitInv, CacheInv, Finished,
      LivePc, ActiveTask, Frame, CloseSocket
  <2>2. FrameInv' /\ TaskInv' /\ WaitInv'
    BY <1>5 DEF IInv, TypeOK, FrameInv, TaskInv, WaitInv, Finished, Frame,
      ActiveTask, CloseSocket
  <2>3. InflightInv' /\ LockInv'
    BY <1>5 DEF IInv, TypeOK, FrameInv, TaskInv, InflightInv, LockInv,
      ActiveTask, Frame, CloseSocket
  <2>4. CacheInv' /\ RecencyInv'
    BY <1>5 DEF IInv, TypeOK, FrameInv, CacheInv, RecencyInv, Entry, Reply,
      CloseSocket
  <2> QED
    BY <2>1, <2>2, <2>3, <2>4 DEF IInv
<1>6. CASE SendReply(a)
  <2>1. TypeOK'
    BY <1>6 DEF IInv, TypeOK, FrameInv, TaskInv, WaitInv, CacheInv, Finished,
      LivePc, ActiveTask, Frame, SendReply
  <2>2. FrameInv' /\ TaskInv' /\ WaitInv'
    BY <1>6 DEF IInv, TypeOK, FrameInv, TaskInv, WaitInv, Finished, Frame,
      ActiveTask, SendReply
  <2>3. InflightInv' /\ LockInv'
    BY <1>6 DEF IInv, TypeOK, FrameInv, TaskInv, InflightInv, LockInv,
      ActiveTask, Frame, SendReply
  <2>4. CacheInv' /\ RecencyInv'
    BY <1>6 DEF IInv, TypeOK, FrameInv, CacheInv, RecencyInv, Entry, Reply,
      SendReply
  <2> QED
    BY <2>1, <2>2, <2>3, <2>4 DEF IInv
<1> QED
  BY <1>1, <1>2, <1>3, <1>4, <1>5, <1>6 DEF Respond

\* The end of an execution, whatever its outcome.
LEMMA FinishPreserves ==
  ASSUME IInv, NEW a \in Attempts, task[a] \in ActiveTask,
         NEW kind \in {"ok", "bad", "error", "closing"}, Finish(a, kind),
         UNCHANGED <<connVars, respVars, inflight, calls>>
  PROVE  IInv'
<1> USE DEF connVars, respVars
<1>1. /\ frame[a] \in Frame /\ frame[a].id \in Requests /\ frame[a].type \in Types
      /\ pc[a] # "unsent"
  BY DEF IInv, FrameInv, TaskInv, ActiveTask, Frame
<1>2. /\ task' = [task EXCEPT ![a] = "done"]
      /\ outcome' = [outcome EXCEPT ![a] = kind]
      /\ lock' = IF lock = a THEN None ELSE lock
  BY DEF Finish
<1>3. /\ recency' \in [Requests -> 0..CacheSize]
      /\ cache' \in [Requests -> Entry \cup {None}]
      /\ evicted' \in [Requests -> Nat]
      /\ CacheInv' /\ RecencyInv'
  <2>1. CASE kind = "closing"
    BY <2>1, CacheUntouched DEF Finish
  <2>2. CASE kind # "closing"
    <3> DEFINE rep == [by |-> a, kind |-> kind]
    <3>1. Store(frame[a].id, frame[a].type, rep)
      BY <2>2 DEF Finish
    <3>2. /\ rep \in Reply /\ rep.by = a /\ rep.kind \in {"ok", "bad", "error"}
      BY <2>2 DEF Reply, Kinds
    <3> HIDE DEF rep
    <3> QED
      BY <1>1, <3>1, <3>2, StorePreserves
  <2> QED
    BY <2>1, <2>2
<1>4. TypeOK'
  BY <1>2, <1>3 DEF IInv, TypeOK, Kinds
<1>5. FrameInv' /\ TaskInv' /\ WaitInv'
  BY <1>2 DEF IInv, TypeOK, FrameInv, TaskInv, WaitInv, Finished, ActiveTask
<1>6. InflightInv' /\ LockInv'
  BY <1>2, NoneAssumption DEF IInv, TypeOK, InflightInv, LockInv, ActiveTask
<1> QED
  BY <1>3, <1>4, <1>5, <1>6 DEF IInv

LEMMA ExecutePreserves ==
  ASSUME IInv, NEW a \in Attempts, Execute(a)
  PROVE  IInv'
<1> USE DEF connVars, respVars, execVars, cacheVars
<1>1. CASE AnswerDirectly(a)
  <2>1. PICK kind \in {"ok", "bad", "error", "closing"} : Finish(a, kind)
    BY <1>1 DEF AnswerDirectly, Direct, AllResults
  <2>2. task[a] \in ActiveTask /\ UNCHANGED <<connVars, respVars, inflight, calls>>
    BY <1>1 DEF AnswerDirectly, ActiveTask
  <2> QED
    BY <2>1, <2>2, FinishPreserves
<1>2. CASE Dispatch(a)
  <2>1. TypeOK'
    BY <1>2 DEF IInv, TypeOK, FrameInv, TaskInv, WaitInv, CacheInv, Finished,
      LivePc, ActiveTask, Dispatch, FirstStage
  <2>2. FrameInv' /\ TaskInv' /\ WaitInv'
    BY <1>2 DEF IInv, TypeOK, FrameInv, TaskInv, WaitInv, Finished, Frame,
      ActiveTask, Dispatch, FirstStage
  <2>3. InflightInv' /\ LockInv'
    BY <1>2 DEF IInv, TypeOK, FrameInv, TaskInv, InflightInv, LockInv,
      ActiveTask, Frame, Dispatch, FirstStage
  <2>4. CacheInv' /\ RecencyInv'
    BY <1>2 DEF IInv, TypeOK, FrameInv, CacheInv, RecencyInv, Entry, Reply,
      Dispatch, FirstStage
  <2> QED
    BY <2>1, <2>2, <2>3, <2>4 DEF IInv
<1>3. CASE DecodeFails(a)
  <2>1. PICK kind \in {"ok", "bad", "error", "closing"} : Finish(a, kind)
    BY <1>3 DEF DecodeFails, Direct, AllResults
  <2>2. task[a] \in ActiveTask /\ UNCHANGED <<connVars, respVars, inflight, calls>>
    BY <1>3 DEF DecodeFails, ActiveTask
  <2> QED
    BY <2>1, <2>2, FinishPreserves
<1>4. CASE DecodeDone(a)
  <2>1. TypeOK'
    BY <1>4 DEF IInv, TypeOK, FrameInv, TaskInv, WaitInv, CacheInv, Finished,
      LivePc, ActiveTask, DecodeDone
  <2>2. FrameInv' /\ TaskInv' /\ WaitInv'
    BY <1>4 DEF IInv, TypeOK, FrameInv, TaskInv, WaitInv, Finished, Frame,
      ActiveTask, DecodeDone
  <2>3. InflightInv' /\ LockInv'
    BY <1>4 DEF IInv, TypeOK, FrameInv, TaskInv, InflightInv, LockInv,
      ActiveTask, Frame, DecodeDone
  <2>4. CacheInv' /\ RecencyInv'
    BY <1>4 DEF IInv, TypeOK, FrameInv, CacheInv, RecencyInv, Entry, Reply,
      DecodeDone
  <2> QED
    BY <2>1, <2>2, <2>3, <2>4 DEF IInv
<1>5. CASE AcquireLock(a)
  <2>0. /\ task[a] = "locking" /\ lock = None /\ frame[a].id \in Requests
        /\ task' = [task EXCEPT ![a] = "running"] /\ lock' = a
        /\ calls' = [calls EXCEPT ![frame[a].id] = @ + 1]
        /\ UNCHANGED <<connVars, respVars, outcome, inflight, cacheVars>>
    BY <1>5 DEF IInv, FrameInv, TaskInv, Frame, AcquireLock, LockFree
  <2>1. TypeOK'
    BY <2>0 DEF IInv, TypeOK, ActiveTask
  <2>2. FrameInv' /\ TaskInv' /\ WaitInv'
    BY <2>0 DEF IInv, TypeOK, FrameInv, TaskInv, WaitInv, Finished
  <2>3. InflightInv'
    BY <2>0 DEF IInv, TypeOK, InflightInv, ActiveTask
  <2>4. LockInv'
    BY <2>0, NoneAssumption DEF IInv, TypeOK, LockInv
  <2>5. CacheInv' /\ RecencyInv'
    BY <2>0 DEF IInv, CacheInv, RecencyInv
  <2> QED
    BY <2>1, <2>2, <2>3, <2>4, <2>5 DEF IInv
<1>6. CASE PopInflight(a)
  <2>1. /\ task[a] = "done" /\ frame[a] \in Frame /\ frame[a].id \in Requests
        /\ inflight[frame[a].id] = a
    BY <1>6 DEF IInv, FrameInv, TaskInv, InflightInv, PopInflight, Frame
  <2>2. /\ task' = [task EXCEPT ![a] = "popped"]
        /\ inflight' = [inflight EXCEPT ![frame[a].id] = None]
        /\ UNCHANGED <<connVars, respVars, outcome, lock, calls, cacheVars>>
    BY <1>6 DEF PopInflight
  <2>3. TypeOK'
    BY <2>1, <2>2 DEF IInv, TypeOK
  <2>4. FrameInv' /\ TaskInv' /\ WaitInv'
    BY <2>1, <2>2 DEF IInv, TypeOK, FrameInv, TaskInv, WaitInv, Finished
  <2>5. ASSUME NEW r \in Requests, inflight'[r] # None
        PROVE  /\ frame'[inflight'[r]].id = r
               /\ task'[inflight'[r]] \in ActiveTask \cup {"done"}
    <3>1. r # frame[a].id /\ inflight'[r] = inflight[r] /\ inflight[r] \in Attempts
      BY <2>1, <2>2, <2>5 DEF IInv, TypeOK
    <3>2. frame[inflight[r]].id = r /\ task[inflight[r]] \in ActiveTask \cup {"done"}
      BY <3>1, <2>5 DEF IInv, InflightInv
    <3> QED
      BY <3>1, <3>2, <2>2 DEF IInv, TypeOK
  <2>6. ASSUME NEW b \in Attempts, task'[b] \in ActiveTask \cup {"done"}
        PROVE  inflight'[frame'[b].id] = b
    <3>1. b # a /\ task[b] \in ActiveTask \cup {"done"}
      BY <2>2, <2>6 DEF IInv, TypeOK, ActiveTask
    <3>2. inflight[frame[b].id] = b
      BY <3>1 DEF IInv, InflightInv
    <3> QED
      BY <3>1, <3>2, <2>1, <2>2 DEF IInv, TypeOK
  <2>7. InflightInv'
    BY <2>5, <2>6 DEF InflightInv
  <2>8. LockInv' /\ CacheInv' /\ RecencyInv'
    BY <2>1, <2>2 DEF IInv, TypeOK, LockInv, CacheInv, RecencyInv
  <2> QED
    BY <2>3, <2>4, <2>7, <2>8 DEF IInv
<1> QED
  BY <1>1, <1>2, <1>3, <1>4, <1>5, <1>6 DEF Execute

LEMMA ModelPreserves ==
  ASSUME IInv, NEW a \in Attempts, Model(a)
  PROVE  IInv'
<1> USE DEF connVars, respVars, execVars, cacheVars
<1>1. CASE ModelReturns(a)
  <2>1. PICK kind \in {"ok", "bad", "error", "closing"} : Finish(a, kind)
    BY <1>1, TypesAssumption DEF ModelReturns, Direct, AllResults
  <2>2. task[a] \in ActiveTask /\ UNCHANGED <<connVars, respVars, inflight, calls>>
    BY <1>1 DEF ModelReturns, ActiveTask
  <2> QED
    BY <2>1, <2>2, FinishPreserves
<1>2. CASE InferObserves(a)
  <2>1. TypeOK'
    BY <1>2 DEF IInv, TypeOK, FrameInv, TaskInv, WaitInv, CacheInv, Finished,
      LivePc, ActiveTask, InferObserves
  <2>2. FrameInv' /\ TaskInv' /\ WaitInv'
    BY <1>2 DEF IInv, TypeOK, FrameInv, TaskInv, WaitInv, Finished, Frame,
      ActiveTask, InferObserves
  <2>3. InflightInv' /\ LockInv'
    BY <1>2 DEF IInv, TypeOK, FrameInv, TaskInv, InflightInv, LockInv,
      ActiveTask, Frame, InferObserves
  <2>4. CacheInv' /\ RecencyInv'
    BY <1>2 DEF IInv, TypeOK, FrameInv, CacheInv, RecencyInv, Entry, Reply,
      InferObserves
  <2> QED
    BY <2>1, <2>2, <2>3, <2>4 DEF IInv
<1>3. CASE InferFails(a)
  <2>1. PICK kind \in {"ok", "bad", "error", "closing"} : Finish(a, kind)
    BY <1>3, TypesAssumption DEF InferFails, Direct, AllResults
  <2>2. task[a] \in ActiveTask /\ UNCHANGED <<connVars, respVars, inflight, calls>>
    BY <1>3 DEF InferFails, ActiveTask
  <2> QED
    BY <2>1, <2>2, FinishPreserves
<1>4. CASE InferActs(a)
  <2>1. PICK kind \in {"ok", "bad", "error", "closing"} : Finish(a, kind)
    BY <1>4, TypesAssumption DEF InferActs, Direct, AllResults
  <2>2. task[a] \in ActiveTask /\ UNCHANGED <<connVars, respVars, inflight, calls>>
    BY <1>4 DEF InferActs, ActiveTask
  <2> QED
    BY <2>1, <2>2, FinishPreserves
<1> QED
  BY <1>1, <1>2, <1>3, <1>4 DEF Model

LEMMA LifecyclePreserves ==
  ASSUME IInv, Lifecycle
  PROVE  IInv'
<1> USE DEF connVars, respVars, execVars, cacheVars
<1>1. CASE Start
  <2>1. TypeOK'
    BY <1>1 DEF IInv, TypeOK, FrameInv, TaskInv, WaitInv, CacheInv, Finished,
      LivePc, ActiveTask, Start
  <2>2. FrameInv' /\ TaskInv' /\ WaitInv'
    BY <1>1 DEF IInv, TypeOK, FrameInv, TaskInv, WaitInv, Finished, Frame,
      ActiveTask, Start
  <2>3. InflightInv' /\ LockInv'
    BY <1>1 DEF IInv, TypeOK, FrameInv, TaskInv, InflightInv, LockInv,
      ActiveTask, Frame, Start
  <2>4. CacheInv' /\ RecencyInv'
    BY <1>1 DEF IInv, TypeOK, FrameInv, CacheInv, RecencyInv, Entry, Reply,
      Start
  <2> QED
    BY <2>1, <2>2, <2>3, <2>4 DEF IInv
<1>2. CASE CloseServer
  <2>1. TypeOK'
    BY <1>2 DEF IInv, TypeOK, FrameInv, TaskInv, WaitInv, CacheInv, Finished,
      LivePc, ActiveTask, CloseServer
  <2>2. FrameInv' /\ TaskInv' /\ WaitInv'
    BY <1>2 DEF IInv, TypeOK, FrameInv, TaskInv, WaitInv, Finished, Frame,
      ActiveTask, CloseServer
  <2>3. InflightInv' /\ LockInv'
    BY <1>2 DEF IInv, TypeOK, FrameInv, TaskInv, InflightInv, LockInv,
      ActiveTask, Frame, CloseServer
  <2>4. CacheInv' /\ RecencyInv'
    BY <1>2 DEF IInv, TypeOK, FrameInv, CacheInv, RecencyInv, Entry, Reply,
      CloseServer
  <2> QED
    BY <2>1, <2>2, <2>3, <2>4 DEF IInv
<1>3. CASE HandlersGone
  <2>1. TypeOK'
    BY <1>3 DEF IInv, TypeOK, FrameInv, TaskInv, WaitInv, CacheInv, Finished,
      LivePc, ActiveTask, HandlersGone
  <2>2. FrameInv' /\ TaskInv' /\ WaitInv'
    BY <1>3 DEF IInv, TypeOK, FrameInv, TaskInv, WaitInv, Finished, Frame,
      ActiveTask, HandlersGone
  <2>3. InflightInv' /\ LockInv'
    BY <1>3 DEF IInv, TypeOK, FrameInv, TaskInv, InflightInv, LockInv,
      ActiveTask, Frame, HandlersGone
  <2>4. CacheInv' /\ RecencyInv'
    BY <1>3 DEF IInv, TypeOK, FrameInv, CacheInv, RecencyInv, Entry, Reply,
      HandlersGone
  <2> QED
    BY <2>1, <2>2, <2>3, <2>4 DEF IInv
<1>4. CASE StopDone
  <2>1. TypeOK'
    BY <1>4 DEF IInv, TypeOK, FrameInv, TaskInv, WaitInv, CacheInv, Finished,
      LivePc, ActiveTask, StopDone
  <2>2. FrameInv' /\ TaskInv' /\ WaitInv'
    BY <1>4 DEF IInv, TypeOK, FrameInv, TaskInv, WaitInv, Finished, Frame,
      ActiveTask, StopDone
  <2>3. InflightInv' /\ LockInv'
    BY <1>4 DEF IInv, TypeOK, FrameInv, TaskInv, InflightInv, LockInv,
      ActiveTask, Frame, StopDone
  <2>4. CacheInv' /\ RecencyInv'
    BY <1>4 DEF IInv, TypeOK, FrameInv, CacheInv, RecencyInv, Entry, Reply,
      StopDone
  <2> QED
    BY <2>1, <2>2, <2>3, <2>4 DEF IInv
<1>5. CASE StopTimeout
  <2>1. TypeOK'
    BY <1>5 DEF IInv, TypeOK, FrameInv, TaskInv, WaitInv, CacheInv, Finished,
      LivePc, ActiveTask, StopTimeout
  <2>2. FrameInv' /\ TaskInv' /\ WaitInv'
    BY <1>5 DEF IInv, TypeOK, FrameInv, TaskInv, WaitInv, Finished, Frame,
      ActiveTask, StopTimeout
  <2>3. InflightInv' /\ LockInv'
    BY <1>5 DEF IInv, TypeOK, FrameInv, TaskInv, InflightInv, LockInv,
      ActiveTask, Frame, StopTimeout
  <2>4. CacheInv' /\ RecencyInv'
    BY <1>5 DEF IInv, TypeOK, FrameInv, CacheInv, RecencyInv, Entry, Reply,
      StopTimeout
  <2> QED
    BY <2>1, <2>2, <2>3, <2>4 DEF IInv
<1> QED
  BY <1>1, <1>2, <1>3, <1>4, <1>5 DEF Lifecycle

\* Nothing changes.
LEMMA StutterPreserves ==
  ASSUME IInv, UNCHANGED vars
  PROVE  IInv'
<1> USE DEF vars, connVars, respVars, execVars, cacheVars
<1>1. TypeOK' /\ FrameInv' /\ TaskInv' /\ WaitInv' /\ InflightInv' /\ LockInv'
  BY DEF IInv, TypeOK, FrameInv, TaskInv, WaitInv, InflightInv, LockInv, Finished
<1>2. CacheInv' /\ RecencyInv'
  BY DEF IInv, CacheInv, RecencyInv
<1> QED
  BY <1>1, <1>2 DEF IInv

LEMMA InitEstablishes == Init => IInv
<1> SUFFICES ASSUME Init PROVE IInv
  OBVIOUS
<1>1. TypeOK
  BY SizesAssumption DEF Init, TypeOK
<1>2. FrameInv /\ TaskInv /\ WaitInv /\ InflightInv /\ LockInv
  BY NoneAssumption
  DEF Init, FrameInv, TaskInv, WaitInv, InflightInv, LockInv, Finished, ActiveTask
<1>3. CacheInv /\ RecencyInv
  BY DEF Init, CacheInv, RecencyInv
<1> QED
  BY <1>1, <1>2, <1>3 DEF IInv

\* The inductive invariant holds in every reachable state.
THEOREM Inductive == Spec => []IInv
<1>1. IInv /\ [Next]_vars => IInv'
  BY PeerPreserves, LifecyclePreserves, HandlePreserves, RespondPreserves,
     ExecutePreserves, ModelPreserves, StutterPreserves DEF Next
<1> QED
  BY InitEstablishes, <1>1, PTL DEF Spec

-----------------------------------------------------------------------------
(* What follows from IInv alone.                                           *)

\* Every variable keeps its type.
THEOREM TypeCorrect == Spec => []TypeOK
<1>1. IInv => TypeOK
  BY DEF IInv
<1> QED
  BY <1>1, Inductive, PTL

\* However frames are duplicated and connections lost, two executions of one
\* request id never overlap.
THEOREM SingleFlightHolds == Spec => []SingleFlight
<1>1. IInv => SingleFlight
  BY DEF IInv, InflightInv, SingleFlight
<1> QED
  BY <1>1, Inductive, PTL

\* At most one execution is inside the model.
THEOREM ModelMutexHolds == Spec => []ModelMutex
<1>1. IInv => ModelMutex
  BY DEF IInv, LockInv, ModelMutex
<1> QED
  BY <1>1, Inductive, PTL

\* The replay cache stays within its bound, in a total order.
THEOREM CacheBoundedHolds == Spec => []CacheBounded
<1>1. ASSUME IInv PROVE CacheBounded
  <2> DEFINE S == {r \in Requests : Cached(r)}
             f == [r \in S |-> recency[r]]
  <2>1. /\ recency \in [Requests -> 0..CacheSize]
        /\ \A r, s \in Requests : r # s /\ recency[r] > 0 => recency[r] # recency[s]
    BY <1>1 DEF IInv, TypeOK, RecencyInv
  <2>2. f \in Injection(S, 1..CacheSize)
    BY <2>1, SizesAssumption DEF Cached, Injection, IsInjective
  <2>3. IsFiniteSet(1..CacheSize) /\ Cardinality(1..CacheSize) = CacheSize
    BY FS_Interval, SizesAssumption
  <2>4. Cardinality(S) <= CacheSize
    <3> HIDE DEF S, f
    <3> QED
      BY <2>2, <2>3, FS_Injection
  <2> QED
    BY <2>1, <2>4 DEF CacheBounded, Cached
<1> QED
  BY <1>1, Inductive, PTL

\* No model call begins between the two halves of an INFER.
THEOREM InferPairAtomicHolds == Spec => InferPairAtomic
<1>1. ASSUME IInv, [Next]_vars, NEW b \in Attempts, task[b] = "acting"
      PROVE  calls' = calls
  <2>1. lock = b /\ b # None
    BY <1>1, NoneAssumption DEF IInv, LockInv
  <2>2. \A a \in Attempts : ~AcquireLock(a)
    BY <2>1 DEF AcquireLock, LockFree
  <2> QED
    BY <1>1, <2>2
    DEF Next, vars, connVars, respVars, execVars, cacheVars, Peer, Lifecycle, Handle,
        Respond, Execute, Model, Connect, Drop, Send, Start, CloseServer, HandlersGone,
        StopDone, StopTimeout, IgnoreFrame, RejectFrame, AcceptFrame, EndLoop, DrainDone,
        DrainTimeout, ReplayCached, JoinInflight, LeadExecution, Resume, CloseSocket,
        SendReply, AnswerDirectly, Dispatch, DecodeFails, DecodeDone, PopInflight,
        ModelReturns, InferObserves, InferFails, InferActs
<1>2. IInv /\ [Next]_vars => [(\E a \in Attempts : task[a] = "acting") => calls' = calls]_vars
  BY <1>1
<1> QED
  BY <1>2, Inductive, PTL DEF Spec, InferPairAtomic

-----------------------------------------------------------------------------
(* At most one model call for each stay in the cache.                      *)

LEMMA CallsUnchanged ==
  ASSUME CallsInv, UNCHANGED <<execVars, cacheVars>>
  PROVE  CallsInv'
BY DEF CallsInv, execVars, cacheVars

\* What storing an entry does to the eviction counts.
LEMMA StoreCounts ==
  ASSUME TypeOK, RecencyInv,
         NEW r \in Requests, NEW type \in Types, NEW rep \in Reply,
         Store(r, type, rep)
  PROVE  /\ recency'[r] > 0
         /\ \A x \in Requests :
              /\ calls[x] \in Nat /\ evicted[x] \in Nat /\ evicted'[x] \in Nat
              /\ recency[x] \in Nat /\ recency'[x] \in Nat
              /\ evicted'[x] >= evicted[x]
              /\ recency[x] > 0 /\ recency'[x] = 0 => evicted'[x] = evicted[x] + 1
<1>1. /\ recency' \in [Requests -> 0..CacheSize] /\ evicted' \in [Requests -> Nat]
      /\ recency'[r] > 0
      /\ \A x \in Requests : evicted'[x] >= evicted[x]
      /\ \A x \in Requests : recency[x] > 0 /\ recency'[x] = 0
           => evicted'[x] = evicted[x] + 1
  BY StoreFacts
<1>2. /\ recency \in [Requests -> 0..CacheSize] /\ evicted \in [Requests -> Nat]
      /\ calls \in [Requests -> Nat]
  BY DEF TypeOK
<1> QED
  BY <1>1, <1>2, SizesAssumption

\* A replay touches the cache only.
LEMMA CallsTouch ==
  ASSUME IInv, CallsInv, UNCHANGED execVars,
         NEW r \in Requests, NEW type \in Types, NEW rep \in Reply,
         Store(r, type, rep)
  PROVE  CallsInv'
<1>1. TypeOK /\ RecencyInv
  BY DEF IInv
<1>2. \A x \in Requests :
        /\ calls[x] \in Nat /\ evicted[x] \in Nat /\ evicted'[x] \in Nat
        /\ recency[x] \in Nat /\ recency'[x] \in Nat
        /\ evicted'[x] >= evicted[x]
        /\ recency[x] > 0 /\ recency'[x] = 0 => evicted'[x] = evicted[x] + 1
  BY <1>1, StoreCounts
<1> QED
  BY <1>2 DEF CallsInv, execVars

\* An execution that ends either leaves its id cached or, for CLOSE, has made
\* no call.
LEMMA CallsFinish ==
  ASSUME IInv, CallsInv, NEW a \in Attempts, task[a] \in ActiveTask,
         NEW kind \in {"ok", "bad", "error", "closing"},
         kind = "closing" => task[a] = "created",
         Finish(a, kind), UNCHANGED <<respVars, inflight, calls>>
  PROVE  CallsInv'
<1> DEFINE id == frame[a].id
<1>1. TypeOK /\ RecencyInv /\ InflightInv /\ frame[a] \in Frame
  BY DEF IInv, TaskInv, FrameInv, ActiveTask
<1>2. /\ id \in Requests /\ frame[a].type \in Types /\ inflight[id] = a
      /\ \A x \in Requests : x # id => inflight[x] # a
  BY <1>1, NoneAssumption DEF InflightInv, Frame
<1>3. /\ task'[a] = "done"
      /\ \A b \in Attempts : b # a => task'[b] = task[b]
      /\ inflight' = inflight /\ calls' = calls
  BY <1>1 DEF Finish, TypeOK
<1>4. CASE kind = "closing"
  <2>1. UNCHANGED <<cache, recency, evicted>>
    BY <1>4 DEF Finish, cacheVars
  <2>2. calls[id] <= evicted[id]
    BY <1>2, <1>4 DEF CallsInv
  <2> QED
    BY <1>2, <1>3, <2>1, <2>2 DEF CallsInv
<1>5. CASE kind # "closing"
  <2> DEFINE rep == [by |-> a, kind |-> kind]
  <2>1. rep \in Reply
    BY DEF Reply, Kinds
  <2>2. Store(id, frame[a].type, rep)
    BY <1>5 DEF Finish
  <2>3. /\ recency'[id] > 0
        /\ \A x \in Requests :
             /\ calls[x] \in Nat /\ evicted[x] \in Nat /\ evicted'[x] \in Nat
             /\ evicted'[x] >= evicted[x]
             /\ recency[x] > 0 /\ recency'[x] = 0 => evicted'[x] = evicted[x] + 1
             /\ recency[x] \in Nat /\ recency'[x] \in Nat
    BY <1>1, <1>2, <2>1, <2>2, StoreCounts
  <2>4. ASSUME NEW x \in Requests
        PROVE  /\ calls'[x] <= 1 + evicted'[x]
               /\ recency'[x] = 0 /\ inflight'[x] = None => calls'[x] <= evicted'[x]
               /\ \A b \in Attempts : inflight'[x] = b =>
                    /\ task'[b] \in {"created", "decoding", "locking"}
                         => calls'[x] <= evicted'[x]
                    /\ task'[b] = "done" /\ recency'[x] = 0 => calls'[x] <= evicted'[x]
    <3>1. CASE x = id
      BY <3>1, <1>2, <1>3, <2>3, NoneAssumption DEF CallsInv
    <3>2. CASE x # id
      BY <3>2, <1>2, <1>3, <2>3 DEF CallsInv
    <3> QED
      BY <3>1, <3>2
  <2> QED
    BY <2>4 DEF CallsInv
<1> QED
  BY <1>4, <1>5

LEMMA CallsRespond ==
  ASSUME IInv, CallsInv, NEW a \in Attempts, Respond(a)
  PROVE  CallsInv'
<1>1. CASE JoinInflight(a)
  BY <1>1, CallsUnchanged DEF JoinInflight
<1>2. CASE CloseSocket(a)
  BY <1>2, CallsUnchanged DEF CloseSocket
<1>3. CASE SendReply(a)
  BY <1>3, CallsUnchanged DEF SendReply
<1>4. CASE ReplayCached(a)
  <2>1. frame[a] \in Frame /\ frame[a].id \in Requests
    BY <1>4 DEF IInv, FrameInv, ReplayCached, Frame
  <2>2. cache[frame[a].id] \in Entry
    BY <1>4, <2>1 DEF IInv, CacheInv, ReplayCached, Cached
  <2>3. Repaired(cache[frame[a].id].reply) \in Reply
    BY <2>2 DEF Repaired, Entry, Reply, Kinds
  <2>4. CASE UNCHANGED cacheVars
    BY <1>4, <2>4, CallsUnchanged DEF ReplayCached
  <2>5. CASE Store(frame[a].id, cache[frame[a].id].type,
                   Repaired(cache[frame[a].id].reply))
    <3>1. cache[frame[a].id].type \in Types /\ UNCHANGED execVars
      BY <1>4, <2>2 DEF Entry, ReplayCached
    <3> QED
      BY <2>1, <2>3, <2>5, <3>1, CallsTouch
  <2> QED
    BY <1>4, <2>4, <2>5 DEF ReplayCached
<1>5. CASE Resume(a)
  <2> DEFINE rep == [by |-> awaits[a], kind |-> outcome[awaits[a]]]
  <2>1. /\ frame[a] \in Frame /\ frame[a].id \in Requests /\ frame[a].type \in Types
        /\ awaits[a] \in Attempts
    BY <1>5 DEF IInv, FrameInv, WaitInv, Resume, Frame
  <2>2. outcome[awaits[a]] \in Kinds
    BY <1>5, <2>1 DEF IInv, TaskInv, Resume, Kinds
  <2>3. Repaired(rep) \in Reply /\ UNCHANGED execVars
    BY <1>5, <2>1, <2>2 DEF Repaired, Reply, Kinds, Resume
  <2>4. CASE UNCHANGED cacheVars
    BY <2>3, <2>4, CallsUnchanged
  <2>5. CASE Store(frame[a].id, frame[a].type, Repaired(rep))
    BY <2>1, <2>3, <2>5, CallsTouch
  <2> QED
    BY <1>5, <2>4, <2>5 DEF Resume, Overwrite
<1>6. CASE LeadExecution(a)
  <2> DEFINE id == frame[a].id
  <2>1. frame[a] \in Frame /\ id \in Requests
    BY <1>6 DEF IInv, FrameInv, LeadExecution, Frame
  <2>2. recency[id] = 0 /\ inflight[id] = None
    <3>1. recency[id] \in 0..CacheSize
      BY <2>1 DEF IInv, TypeOK
    <3> QED
      BY <1>6, <3>1, SizesAssumption DEF LeadExecution, Cached, InFlight
  <2>3. /\ calls' = calls /\ evicted' = evicted /\ recency' = recency
        /\ inflight'[id] = a
        /\ \A x \in Requests : x # id => inflight'[x] = inflight[x]
        /\ task'[a] = "created"
        /\ \A b \in Attempts : b # a => task'[b] = task[b]
    BY <1>6, <2>1 DEF LeadExecution, IInv, TypeOK, cacheVars
  <2>4. \A x \in Requests : inflight[x] # a
    BY <1>6, NoneAssumption
    DEF IInv, InflightInv, TaskInv, LeadExecution, ActiveTask
  <2> QED
    BY <2>1, <2>2, <2>3, <2>4 DEF CallsInv
<1> QED
  BY <1>1, <1>2, <1>3, <1>4, <1>5, <1>6 DEF Respond

LEMMA CallsExecute ==
  ASSUME IInv, CallsInv, NEW a \in Attempts, Execute(a)
  PROVE  CallsInv'
<1>1. CASE AnswerDirectly(a)
  <2>1. PICK kind \in Direct(frame[a].type) : Finish(a, kind)
    BY <1>1 DEF AnswerDirectly
  <2>2. kind \in {"ok", "bad", "error", "closing"}
    BY <2>1 DEF Direct
  <2> QED
    BY <1>1, <2>1, <2>2, CallsFinish DEF AnswerDirectly, ActiveTask
<1>2. CASE DecodeFails(a)
  BY <1>2, CallsFinish DEF DecodeFails, ActiveTask
<1>3. CASE Dispatch(a) \/ DecodeDone(a)
  <2>1. /\ UNCHANGED <<inflight, calls, evicted, recency>>
        /\ task[a] \in {"created", "decoding"}
        /\ task'[a] \in {"decoding", "locking"}
        /\ \A b \in Attempts : b # a => task'[b] = task[b]
    BY <1>3 DEF Dispatch, DecodeDone, FirstStage, IInv, TypeOK, cacheVars
  <2> QED
    BY <2>1 DEF CallsInv
<1>4. CASE AcquireLock(a)
  <2> DEFINE id == frame[a].id
  <2>1. frame[a] \in Frame /\ id \in Requests
    BY <1>4 DEF IInv, TaskInv, FrameInv, AcquireLock, Frame
  <2>2. inflight[id] = a /\ \A x \in Requests : x # id => inflight[x] # a
    BY <1>4, <2>1, NoneAssumption DEF IInv, InflightInv, AcquireLock, ActiveTask
  <2>3. /\ UNCHANGED <<inflight, evicted, recency>>
        /\ task[a] = "locking" /\ task'[a] = "running"
        /\ \A b \in Attempts : b # a => task'[b] = task[b]
        /\ calls'[id] = calls[id] + 1
        /\ \A x \in Requests : x # id => calls'[x] = calls[x]
        /\ \A x \in Requests : calls[x] \in Nat /\ evicted[x] \in Nat
    BY <1>4, <2>1 DEF AcquireLock, IInv, TypeOK, cacheVars
  <2> QED
    BY <2>1, <2>2, <2>3, NoneAssumption DEF CallsInv
<1>5. CASE PopInflight(a)
  <2> DEFINE id == frame[a].id
  <2>1. frame[a] \in Frame /\ id \in Requests
    BY <1>5 DEF IInv, TaskInv, FrameInv, PopInflight, Frame
  <2>2. inflight[id] = a /\ \A x \in Requests : x # id => inflight[x] # a
    BY <1>5, <2>1, NoneAssumption DEF IInv, InflightInv, PopInflight
  <2>3. /\ UNCHANGED <<calls, evicted, recency>>
        /\ inflight'[id] = None
        /\ \A x \in Requests : x # id => inflight'[x] = inflight[x]
        /\ task[a] = "done" /\ \A b \in Attempts : b # a => task'[b] = task[b]
    BY <1>5, <2>1 DEF PopInflight, IInv, TypeOK, cacheVars
  <2> QED
    BY <2>1, <2>2, <2>3, NoneAssumption DEF CallsInv
<1> QED
  BY <1>1, <1>2, <1>3, <1>4, <1>5 DEF Execute

LEMMA CallsModel ==
  ASSUME IInv, CallsInv, NEW a \in Attempts, Model(a)
  PROVE  CallsInv'
<1>1. CASE InferObserves(a)
  BY <1>1 DEF InferObserves, CallsInv, IInv, TypeOK, cacheVars
<1>2. CASE InferFails(a)
  BY <1>2, CallsFinish DEF InferFails, ActiveTask
<1>3. CASE ModelReturns(a) \/ InferActs(a)
  <2>1. PICK kind \in Results : Finish(a, kind)
    BY <1>3 DEF ModelReturns, InferActs
  <2>2. kind \in {"ok", "bad", "error", "closing"} /\ kind # "closing"
    BY TypesAssumption DEF AllResults
  <2> QED
    BY <1>3, <2>1, <2>2, CallsFinish DEF ModelReturns, InferActs, ActiveTask
<1> QED
  BY <1>1, <1>2, <1>3 DEF Model

\* A request id reaches the model once, and again only after its entry fell out
\* of the replay cache.
THEOREM AtMostOncePerResidenceHolds == Spec => []AtMostOncePerResidence
<1>1. Init => CallsInv
  BY NoneAssumption DEF Init, CallsInv
<1>2. ASSUME IInv, CallsInv, [Next]_vars
      PROVE  CallsInv'
  <2>1. CASE Peer \/ Lifecycle \/ UNCHANGED vars \/ \E c \in Conns : Handle(c)
    <3>1. UNCHANGED <<execVars, cacheVars>>
      BY <2>1
      DEF vars, Peer, Lifecycle, Handle, Connect, Drop, Send, Start, CloseServer,
          HandlersGone, StopDone, StopTimeout, IgnoreFrame, RejectFrame, AcceptFrame,
          EndLoop, DrainDone, DrainTimeout
    <3> QED
      BY <1>2, <3>1, CallsUnchanged
  <2> QED
    BY <1>2, <2>1, CallsRespond, CallsExecute, CallsModel DEF Next
<1>3. CallsInv => AtMostOncePerResidence
  BY DEF CallsInv, AtMostOncePerResidence
<1> QED
  BY <1>1, <1>2, <1>3, Inductive, PTL DEF Spec

-----------------------------------------------------------------------------
(* Answers reach the request they belong to.                               *)

\* What an attempt carries never changes once it is sent.
LEMMA FrameStable ==
  ASSUME IInv, [Next]_vars, NEW a \in Attempts, pc[a] # "unsent"
  PROVE  frame'[a] = frame[a] /\ pc'[a] # "unsent"
<1>1. pc \in [Attempts -> LivePc \cup {"unsent", "wire", "ignored", "sent",
                                       "undelivered", "closed", "cancelled"}]
  BY DEF IInv, TypeOK
<1>2. CASE \E b \in Attempts, c \in Conns, r \in Requests, t \in Types : Send(b, c, r, t)
  BY <1>1, <1>2 DEF Send, IInv, TypeOK
<1>3. CASE Lifecycle \/ UNCHANGED vars \/ \E c \in Conns : Connect(c) \/ Drop(c)
  BY <1>3
  DEF vars, respVars, Lifecycle, Connect, Drop, Start, CloseServer, HandlersGone,
      StopDone, StopTimeout
<1>4. CASE \E c \in Conns : Handle(c)
  BY <1>1, <1>4
  DEF respVars, Handle, IgnoreFrame, RejectFrame, AcceptFrame, EndLoop, DrainDone,
      DrainTimeout
<1>5. CASE \E b \in Attempts : Respond(b)
  BY <1>1, <1>5
  DEF Respond, Encode, ReplayCached, JoinInflight, LeadExecution, Resume, CloseSocket,
      SendReply
<1>6. CASE \E b \in Attempts : Execute(b) \/ Model(b)
  BY <1>6
  DEF respVars, Execute, Model, AnswerDirectly, Dispatch, DecodeFails, DecodeDone,
      AcquireLock, PopInflight, ModelReturns, InferObserves, InferFails, InferActs
<1> QED
  BY <1>2, <1>3, <1>4, <1>5, <1>6 DEF Next, Peer

\* A step that leaves the replies of answered attempts alone.
LEMMA ReplyKept ==
  ASSUME IInv, ReplyInv, [Next]_vars,
         NEW a \in Attempts, pc[a] \in {"encoded", "sent"}, reply'[a] = reply[a]
  PROVE  /\ reply'[a] \in Reply
         /\ reply'[a].kind \in {"ok", "error"} =>
              /\ pc'[reply'[a].by] # "unsent"
              /\ frame'[reply'[a].by].id = frame'[a].id
              /\ frame'[reply'[a].by].type = frame'[a].type
<1>1. reply[a] \in Reply /\ reply[a].by \in Attempts
  BY DEF ReplyInv, Reply
<1>2. frame'[a] = frame[a]
  BY FrameStable
<1>3. reply[a].kind \in {"ok", "error"} =>
        frame'[reply[a].by] = frame[reply[a].by] /\ pc'[reply[a].by] # "unsent"
  BY <1>1, FrameStable DEF ReplyInv
<1> QED
  BY <1>1, <1>2, <1>3 DEF ReplyInv

\* A respond task that encodes a reply of its own request.
LEMMA ReplyEncoded ==
  ASSUME IInv, ReplyInv, [Next]_vars, NEW a \in Attempts, pc[a] # "unsent",
         NEW rep \in Reply, Encode(a, rep), UNCHANGED frame,
         rep.kind \in {"ok", "bad", "error"} =>
           /\ pc[rep.by] # "unsent"
           /\ frame[rep.by].id = frame[a].id
           /\ frame[rep.by].type = frame[a].type
  PROVE  ReplyInv'
<1>1. /\ reply'[a] = Repaired(rep) /\ pc'[a] = "encoded"
      /\ \A b \in Attempts : b # a => reply'[b] = reply[b] /\ pc'[b] = pc[b]
  BY DEF Encode, IInv, TypeOK
<1>2. /\ Repaired(rep) \in Reply /\ Repaired(rep).by = rep.by /\ rep.by \in Attempts
      /\ Repaired(rep).kind \in {"ok", "error"} => rep.kind \in {"ok", "bad", "error"}
  BY DEF Repaired, Reply, Kinds
<1>3. rep.kind \in {"ok", "bad", "error"} => pc'[rep.by] # "unsent"
  BY <1>2, FrameStable
<1>4. ASSUME NEW b \in Attempts, pc'[b] \in {"encoded", "sent"}
      PROVE  /\ reply'[b] \in Reply
             /\ reply'[b].kind \in {"ok", "error"} =>
                  /\ pc'[reply'[b].by] # "unsent"
                  /\ frame'[reply'[b].by].id = frame'[b].id
                  /\ frame'[reply'[b].by].type = frame'[b].type
  <2>1. CASE b = a
    BY <2>1, <1>1, <1>2, <1>3
  <2>2. CASE b # a
    BY <2>2, <1>1, <1>4, ReplyKept
  <2> QED
    BY <2>1, <2>2
<1> QED
  BY <1>4 DEF ReplyInv

LEMMA ReplyRespond ==
  ASSUME IInv, ReplyInv, [Next]_vars, NEW a \in Attempts, Respond(a)
  PROVE  ReplyInv'
<1>1. CASE ReplayCached(a)
  <2> DEFINE entry == cache[frame[a].id]
  <2>1. frame[a].id \in Requests /\ pc[a] # "unsent"
    BY <1>1 DEF IInv, FrameInv, ReplayCached, Frame
  <2>2. /\ entry \in Entry /\ entry.reply \in Reply /\ entry.reply.by \in Attempts
        /\ pc[entry.reply.by] # "unsent"
        /\ frame[entry.reply.by].id = frame[a].id
        /\ frame[entry.reply.by].type = entry.type
    BY <1>1, <2>1 DEF IInv, CacheInv, ReplayCached, Cached, Entry, Reply
  <2>3. CASE SameType(entry.type, a)
    <3>1. Encode(a, entry.reply) /\ UNCHANGED frame
      BY <1>1, <2>3 DEF ReplayCached
    <3> QED
      BY <2>1, <2>2, <2>3, <3>1, ReplyEncoded DEF SameType
  <2>4. CASE ~SameType(entry.type, a)
    <3>1. Encode(a, [by |-> a, kind |-> "reused"]) /\ UNCHANGED frame
      BY <1>1, <2>4 DEF ReplayCached
    <3>2. [by |-> a, kind |-> "reused"] \in Reply
      BY DEF Reply, Kinds
    <3> QED
      BY <2>1, <3>1, <3>2, ReplyEncoded
  <2> QED
    BY <2>3, <2>4
<1>2. CASE JoinInflight(a)
  <2>1. CASE Encode(a, [by |-> a, kind |-> "reused"])
    <3>1. [by |-> a, kind |-> "reused"] \in Reply /\ pc[a] # "unsent" /\ UNCHANGED frame
      BY <1>2 DEF Reply, Kinds, JoinInflight
    <3> QED
      BY <2>1, <3>1, ReplyEncoded
  <2>2. CASE UNCHANGED reply /\ pc' = [pc EXCEPT ![a] = "waiting"]
    BY <2>2, ReplyKept DEF ReplyInv, IInv, TypeOK
  <2> QED
    BY <1>2, <2>1, <2>2 DEF JoinInflight
<1>3. CASE LeadExecution(a) \/ CloseSocket(a) \/ SendReply(a)
  <2>1. \A b \in Attempts : pc'[b] \in {"encoded", "sent"} =>
          pc[b] \in {"encoded", "sent"} /\ reply'[b] = reply[b]
    BY <1>3 DEF LeadExecution, CloseSocket, SendReply, IInv, TypeOK
  <2> QED
    BY <2>1, ReplyKept DEF ReplyInv
<1>4. CASE Resume(a)
  <2> DEFINE rep == [by |-> awaits[a], kind |-> outcome[awaits[a]]]
  <2>1. /\ pc[a] # "unsent" /\ awaits[a] \in Attempts
        /\ task[awaits[a]] # "none"
        /\ frame[awaits[a]].id = frame[a].id
        /\ frame[awaits[a]].type = frame[a].type
    BY <1>4 DEF IInv, WaitInv, Resume
  <2>2. rep \in Reply /\ pc[rep.by] # "unsent"
    BY <1>4, <2>1 DEF IInv, TaskInv, Resume, Kinds, Reply
  <2>3. Encode(a, rep) /\ UNCHANGED frame
    BY <1>4 DEF Resume
  <2> HIDE DEF rep
  <2> QED
    BY <2>1, <2>2, <2>3, ReplyEncoded DEF rep
<1> QED
  BY <1>1, <1>2, <1>3, <1>4 DEF Respond

\* A peer is only ever answered with the result of its own request.
THEOREM AnswersOwnRequestHolds == Spec => []AnswersOwnRequest
<1>1. Init => ReplyInv
  BY DEF Init, ReplyInv
<1>2. ASSUME IInv, ReplyInv, [Next]_vars
      PROVE  ReplyInv'
  <2>1. CASE \E c \in Conns, a \in Attempts : RejectFrame(c, a)
    <3>1. PICK c \in Conns, a \in Attempts : RejectFrame(c, a)
      BY <2>1
    <3>2. /\ reply'[a] = [by |-> a, kind |-> "invalid"] /\ reply'[a] \in Reply
          /\ \A b \in Attempts : b # a => reply'[b] = reply[b] /\ pc'[b] = pc[b]
      BY <1>2, <3>1 DEF RejectFrame, IInv, TypeOK, Reply, Kinds
    <3> QED
      BY <1>2, <3>2, ReplyKept DEF ReplyInv
  <2>2. CASE \E a \in Attempts : Respond(a)
    BY <1>2, <2>2, ReplyRespond
  <2>3. CASE \/ Peer \/ Lifecycle \/ UNCHANGED vars
             \/ \E a \in Attempts : Execute(a) \/ Model(a)
    <3>1. \A b \in Attempts : pc'[b] \in {"encoded", "sent"} =>
            pc[b] \in {"encoded", "sent"} /\ reply'[b] = reply[b]
      BY <1>2, <2>3
      DEF vars, respVars, Peer, Lifecycle, Connect, Drop, Send, Start, CloseServer,
          HandlersGone, StopDone, StopTimeout, Execute, Model, AnswerDirectly, Dispatch,
          DecodeFails, DecodeDone, AcquireLock, PopInflight, ModelReturns,
          InferObserves, InferFails, InferActs, IInv, TypeOK
    <3> QED
      BY <1>2, <3>1, ReplyKept DEF ReplyInv
  <2>4. CASE \E c \in Conns : \/ EndLoop(c) \/ DrainDone(c) \/ DrainTimeout(c)
                              \/ \E a \in Attempts : IgnoreFrame(c, a) \/ AcceptFrame(c, a)
    <3>1. \A b \in Attempts : pc'[b] \in {"encoded", "sent"} =>
            pc[b] \in {"encoded", "sent"} /\ reply'[b] = reply[b]
      BY <1>2, <2>4
      DEF respVars, EndLoop, DrainDone, DrainTimeout, IgnoreFrame, AcceptFrame, IInv, TypeOK
    <3> QED
      BY <1>2, <3>1, ReplyKept DEF ReplyInv
  <2> QED
    BY <1>2, <2>1, <2>2, <2>3, <2>4 DEF Next, Handle
<1>3. IInv /\ ReplyInv => AnswersOwnRequest
  BY DEF ReplyInv, AnswersOwnRequest
<1> QED
  BY <1>1, <1>2, <1>3, Inductive, PTL DEF Spec

-----------------------------------------------------------------------------
(***************************************************************************)
(* The server under load: what stop() leaves behind, how many tasks a      *)
(* connection has, and that all copies of a request are told the same.     *)
(***************************************************************************)
\* Frames a transport holds were sent on that connection.
Inboxes ==
  \A c \in Conns : \A i \in DOMAIN inbox[c] :
    pc[inbox[c][i]] # "unsent" /\ frame[inbox[c][i]].conn = c

\* A respond task lives only while its handler does, and a handler that has
\* left its loop answers nothing itself.
Handled ==
  /\ \A a \in Attempts : pc[a] \in LivePc => handler[frame[a].conn] \in {"reading", "draining"}
  /\ \A c \in Conns : handler[c] # "reading" => inline[c] = None
  /\ \A c \in Conns : inline[c] # None => frame[inline[c]].conn = c /\ pc[inline[c]] \in LivePc

\* From the snapshot of stop() on no handler is left, so no execution begins,
\* and what still runs is in the snapshot or was given up before.
Quiesced ==
  server \in {"draining", "down"} =>
    /\ HandlersReturned
    /\ \A a \in Attempts : task[a] \in ActiveTask =>
         a \in abandoned \/ (server = "draining" /\ a \in drainSet)

\* The tasks that count against the cap.
Capped ==
  \A c \in Conns : IsFiniteSet(Pending(c)) /\ Cardinality(Pending(c)) <= MaxInflight

LoadInv == Inboxes /\ Handled /\ Quiesced /\ Capped

\* Two answers that differ in what could not be encoded only.
Repairs(x, y) == x = y \/ x = Repaired(y)


-----------------------------------------------------------------------------
(* Frames and handlers.                                                    *)

\* The head of a transport's frames was sent on that connection.
LEMMA TakenFrame ==
  ASSUME IInv, Inboxes, NEW c \in Conns, NEW a \in Attempts, TakeFrame(c, a)
  PROVE  /\ frame[a].conn = c /\ pc[a] = "wire"
         /\ \A i \in DOMAIN inbox'[c] : i + 1 \in DOMAIN inbox[c] /\ inbox'[c][i] = inbox[c][i + 1]
         /\ \A d \in Conns : d # c => inbox'[d] = inbox[d]
PROOF
  <1>1. inbox[c] \in Seq(Attempts) /\ inbox[c] # <<>> /\ inbox'[c] = Tail(inbox[c])
    BY DEF TakeFrame, IInv, TypeOK
  <1>2. Len(inbox[c]) \in Nat \ {0} /\ DOMAIN inbox[c] = 1..Len(inbox[c])
    BY <1>1
  <1>3. Head(inbox[c]) = inbox[c][1] /\ 1 \in DOMAIN inbox[c]
    BY <1>1, <1>2
  <1>4. \A i \in DOMAIN inbox'[c] : i + 1 \in DOMAIN inbox[c] /\ inbox'[c][i] = inbox[c][i + 1]
    BY <1>1, <1>2
  <1>5. \A d \in Conns : d # c => inbox'[d] = inbox[d]
    BY DEF TakeFrame, IInv, TypeOK
  <1> QED BY <1>3, <1>4, <1>5 DEF TakeFrame, Inboxes

LEMMA InboxesStep ==
  ASSUME IInv, Inboxes, [Next]_vars
  PROVE  Inboxes'
PROOF
  <1> USE DEF connVars
  <1>1. ASSUME NEW c \in Conns, NEW i, i \in DOMAIN inbox[c]
        PROVE  /\ inbox[c][i] \in Attempts
               /\ pc'[inbox[c][i]] # "unsent" /\ frame'[inbox[c][i]].conn = c
    <2>1. inbox[c][i] \in Attempts
      BY <1>1 DEF IInv, TypeOK
    <2> QED BY <1>1, <2>1, FrameStable DEF Inboxes
  <1>2. CASE UNCHANGED inbox
    BY <1>1, <1>2 DEF Inboxes
  <1>3. ASSUME NEW a \in Attempts, NEW c \in Conns, NEW r \in Requests, NEW t \in Types,
               Send(a, c, r, t)
        PROVE  Inboxes'
    <2>1. inbox[c] \in Seq(Attempts) /\ inbox'[c] = Append(inbox[c], a)
      BY <1>3 DEF Send, IInv, TypeOK
    <2>2. pc'[a] # "unsent" /\ frame'[a].conn = c
      BY <1>3 DEF Send, IInv, TypeOK
    <2>3. ASSUME NEW i \in DOMAIN inbox'[c]
          PROVE  pc'[inbox'[c][i]] # "unsent" /\ frame'[inbox'[c][i]].conn = c
      <3>1. CASE i \in DOMAIN inbox[c]
        <4>1. inbox'[c][i] = inbox[c][i]
          BY <2>1, <3>1
        <4> QED BY <1>1, <3>1, <4>1
      <3>2. CASE i \notin DOMAIN inbox[c]
        <4>1. inbox'[c][i] = a
          BY <2>1, <2>3, <3>2
        <4> QED BY <2>2, <4>1
      <3> QED BY <3>1, <3>2
    <2>4. \A d \in Conns : d # c => inbox'[d] = inbox[d]
      BY <1>3 DEF Send, IInv, TypeOK
    <2> QED BY <1>1, <2>3, <2>4 DEF Inboxes
  <1>4. ASSUME NEW c \in Conns, NEW a \in Attempts, TakeFrame(c, a) PROVE Inboxes'
    <2>1. ASSUME NEW i \in DOMAIN inbox'[c]
          PROVE  pc'[inbox'[c][i]] # "unsent" /\ frame'[inbox'[c][i]].conn = c
      <3>1. i + 1 \in DOMAIN inbox[c] /\ inbox'[c][i] = inbox[c][i + 1]
        BY <1>4, <2>1, TakenFrame
      <3> QED BY <1>1, <3>1
    <2>2. \A d \in Conns : d # c => inbox'[d] = inbox[d]
      BY <1>4, TakenFrame
    <2> QED BY <1>1, <2>1, <2>2 DEF Inboxes
  <1>5. CASE \E a \in Attempts : Respond(a) \/ Execute(a) \/ Model(a)
    <2>1. UNCHANGED inbox
      BY <1>5 DEF Respond, ReplayCached, JoinInflight, LeadExecution, Resume, CloseSocket,
         SendReply, Execute, AnswerDirectly, Dispatch, DecodeFails, DecodeDone, AcquireLock,
         PopInflight, Model, ModelReturns, InferObserves, InferFails, InferActs
    <2> QED BY <1>2, <2>1
  <1>6. CASE Lifecycle \/ UNCHANGED vars \/ \E c \in Conns : Connect(c) \/ Drop(c)
    <2>1. UNCHANGED inbox
      BY <1>6 DEF vars, Lifecycle, Start, CloseServer, HandlersGone, StopDone, StopTimeout,
         Connect, Drop
    <2> QED BY <1>2, <2>1
  <1>7. CASE \E c \in Conns : Handle(c)
    <2>1. \/ UNCHANGED inbox
          \/ \E c \in Conns, a \in Attempts : TakeFrame(c, a)
      BY <1>7 DEF Handle, IgnoreFrame, RejectFrame, AcceptFrame, EndLoop, DrainDone,
         DrainTimeout
    <2> QED BY <1>2, <1>4, <2>1
  <1> QED BY <1>3, <1>5, <1>6, <1>7 DEF Next, Peer

\* A step of respond tasks: handlers stay, and what leaves a handler is
\* answered.
LEMMA HandledRespond ==
  ASSUME IInv, Handled, NEW a \in Attempts, Respond(a)
  PROVE  Handled'
PROOF
  <1> USE DEF connVars, LivePc
  <1>1. UNCHANGED <<handler, frame>>
    BY DEF Respond, ReplayCached, JoinInflight, LeadExecution, Resume, CloseSocket, SendReply
  <1>2. /\ pc[a] \in LivePc
        /\ \A b \in Attempts : b # a => pc'[b] = pc[b]
    BY DEF Respond, ReplayCached, JoinInflight, LeadExecution, Resume, CloseSocket, SendReply,
       Encode, IInv, TypeOK
  <1>3. CASE UNCHANGED inline /\ pc'[a] \in LivePc
    <2>1. \A c \in Conns : inline[c] \in Attempts \cup {None}
      BY DEF IInv, TypeOK
    <2>2. \A b \in Attempts : pc'[b] \in LivePc <=> pc[b] \in LivePc
      BY <1>2, <1>3
    <2> QED BY <1>1, <1>3, <2>1, <2>2 DEF Handled
  <1>4. CASE inline' = [inline EXCEPT ![frame[a].conn] = IF @ = a THEN None ELSE @]
    <2>1. \A c \in Conns : inline'[c] \in {inline[c], None}
      BY <1>4 DEF IInv, TypeOK
    <2>2. \A c \in Conns : inline'[c] # a
      BY <1>4, NoneAssumption DEF IInv, TypeOK, Handled
    <2>3. \A c \in Conns : inline[c] \in Attempts \cup {None}
      BY DEF IInv, TypeOK
    <2>4. \A b \in Attempts : pc'[b] \in LivePc => pc[b] \in LivePc
      BY <1>2
    <2> QED BY <1>1, <1>2, <2>1, <2>2, <2>3, <2>4 DEF Handled
  <1>5. \/ UNCHANGED inline /\ pc'[a] \in LivePc
        \/ inline' = [inline EXCEPT ![frame[a].conn] = IF @ = a THEN None ELSE @]
    BY DEF Respond, ReplayCached, JoinInflight, LeadExecution, Resume, CloseSocket, SendReply,
       Encode, IInv, TypeOK
  <1> QED BY <1>3, <1>4, <1>5

LEMMA HandledStep ==
  ASSUME IInv, Inboxes, Handled, [Next]_vars
  PROVE  Handled'
PROOF
  <1> USE DEF connVars, respVars, LivePc
  <1>1. CASE \E a \in Attempts : Respond(a)
    BY <1>1, HandledRespond
  <1>2. CASE Lifecycle \/ UNCHANGED vars \/ \E a \in Attempts : Execute(a) \/ Model(a)
    <2>1. UNCHANGED <<handler, respVars>>
      BY <1>2 DEF vars, Lifecycle, Start, CloseServer, HandlersGone, StopDone, StopTimeout,
         Execute, AnswerDirectly, Dispatch, DecodeFails, DecodeDone, AcquireLock,
         PopInflight, Model, ModelReturns, InferObserves, InferFails, InferActs
    <2> QED BY <2>1 DEF Handled
  <1>3. CASE Peer
    <2>1. CASE \E c \in Conns : Drop(c)
      BY <2>1 DEF Drop, Handled
    <2>2. CASE \E c \in Conns : Connect(c)
      <3>1. PICK c \in Conns : Connect(c)
        BY <2>2
      <3>2. /\ UNCHANGED respVars /\ handler'[c] = "reading"
            /\ \A d \in Conns : d # c => handler'[d] = handler[d]
        BY <3>1 DEF Connect, IInv, TypeOK
      <3>3. \A b \in Attempts : frame[b].conn = c => handler'[frame[b].conn] = "reading"
        BY <3>2
      <3>4. \A b \in Attempts : pc[b] \in LivePc => frame[b].conn \in Conns
        BY DEF IInv, FrameInv, Frame
      <3> QED BY <3>2, <3>3, <3>4 DEF Handled
    <2>3. CASE \E a \in Attempts, c \in Conns, r \in Requests, t \in Types : Send(a, c, r, t)
      <3>1. PICK a \in Attempts, c \in Conns, r \in Requests, t \in Types : Send(a, c, r, t)
        BY <2>3
      <3>2. /\ UNCHANGED <<handler, inline>> /\ pc[a] = "unsent" /\ pc'[a] = "wire"
            /\ \A b \in Attempts : b # a => pc'[b] = pc[b] /\ frame'[b] = frame[b]
        BY <3>1 DEF Send, IInv, TypeOK
      <3>3. \A d \in Conns : inline[d] \in Attempts \cup {None} /\ inline[d] # a
        <4>1. \A d \in Conns : inline[d] \in Attempts \cup {None}
          BY DEF IInv, TypeOK
        <4> QED BY <3>2, <4>1, NoneAssumption DEF Handled
      <3> QED BY <3>2, <3>3 DEF Handled
    <2> QED BY <1>3, <2>1, <2>2, <2>3 DEF Peer
  <1>4. ASSUME NEW c \in Conns, NEW a \in Attempts,
               IgnoreFrame(c, a) \/ RejectFrame(c, a) \/ AcceptFrame(c, a)
        PROVE  Handled'
    <2>1. /\ handler[c] = "reading" /\ inline[c] = None /\ frame[a].conn = c /\ pc[a] = "wire"
      BY <1>4, TakenFrame DEF IgnoreFrame, RejectFrame, AcceptFrame, TakeFrame
    <2>2. /\ UNCHANGED <<handler, frame>>
          /\ \A b \in Attempts : b # a => pc'[b] = pc[b]
          /\ \A d \in Conns : d # c => inline'[d] = inline[d]
          /\ inline'[c] = None \/ (inline'[c] = a /\ pc'[a] \in LivePc)
      BY <1>4, <2>1 DEF IgnoreFrame, RejectFrame, AcceptFrame, IInv, TypeOK
    <2>3. \A d \in Conns : inline[d] # a /\ inline[d] \in Attempts \cup {None}
      BY <2>1, NoneAssumption DEF IInv, TypeOK, Handled
    <2> QED BY <2>1, <2>2, <2>3 DEF Handled
  <1>5. ASSUME NEW c \in Conns, EndLoop(c) PROVE Handled'
    <2>1. /\ UNCHANGED respVars /\ inline[c] = None /\ handler'[c] = "draining"
          /\ \A d \in Conns : d # c => handler'[d] = handler[d]
      BY <1>5 DEF EndLoop, IInv, TypeOK
    <2>2. \A b \in Attempts : pc[b] \in LivePc => frame[b].conn \in Conns
      BY DEF IInv, FrameInv, Frame
    <2> QED BY <2>1, <2>2 DEF Handled
  <1>6. ASSUME NEW c \in Conns, DrainDone(c) \/ DrainTimeout(c) PROVE Handled'
    <2>1. /\ UNCHANGED <<inline, frame>> /\ handler[c] = "draining" /\ handler'[c] = "done"
          /\ \A d \in Conns : d # c => handler'[d] = handler[d]
      BY <1>6 DEF DrainDone, DrainTimeout, IInv, TypeOK
    <2>2. \A b \in Attempts : pc'[b] \in LivePc => pc[b] \in LivePc /\ b \notin Pending(c)
      BY <1>6 DEF DrainDone, DrainTimeout
    <2>3. \A b \in Attempts : pc'[b] \in LivePc => frame[b].conn # c
      BY <2>1, <2>2, NoneAssumption DEF Pending, Handled
    <2>4. \A b \in Attempts : pc[b] \in LivePc => frame[b].conn \in Conns
      BY DEF IInv, FrameInv, Frame
    <2>5. ASSUME NEW d \in Conns, inline[d] # None
          PROVE  frame[inline[d]].conn = d /\ pc'[inline[d]] \in LivePc
      <3>1. inline[d] \in Attempts /\ frame[inline[d]].conn = d /\ pc[inline[d]] \in LivePc
        BY <2>5 DEF IInv, TypeOK, Handled
      <3>2. inline[d] \notin Pending(c)
        BY <3>1 DEF Pending
      <3> QED BY <1>6, <3>1, <3>2 DEF DrainDone, DrainTimeout
    <2>6. \A d \in Conns : handler'[d] # "reading" => inline'[d] = None
      BY <2>1 DEF Handled
    <2>7. \A b \in Attempts : pc'[b] \in LivePc => handler'[frame'[b].conn] \in {"reading", "draining"}
      BY <2>1, <2>2, <2>3, <2>4 DEF Handled
    <2> QED BY <2>1, <2>5, <2>6, <2>7 DEF Handled
  <1> QED BY <1>1, <1>2, <1>3, <1>4, <1>5, <1>6 DEF Next, Handle

-----------------------------------------------------------------------------
(* stop() and the cap.                                                     *)

\* The states an execution can be in.
LEMMA ActiveOrOver ==
  ASSUME NEW a \in Attempts, task[a] \in ActiveTask
  PROVE  ~Finished(a) /\ task[a] # "none"
PROOF
  BY DEF Finished, ActiveTask

LEMMA QuiescedLifecycle ==
  ASSUME IInv, Quiesced, Lifecycle
  PROVE  Quiesced'
PROOF
  <1> USE DEF respVars, execVars
  <1>1. CASE Start \/ CloseServer
    BY <1>1 DEF Start, CloseServer, Quiesced
  <1>2. CASE HandlersGone
    <2>1. ASSUME NEW a \in Attempts, task[a] \in ActiveTask
          PROVE  a \in drainSet'
      <3>1. frame[a].id \in Requests
        BY <2>1, ActiveOrOver DEF IInv, TaskInv, FrameInv, Frame
      <3>2. inflight[frame[a].id] = a
        BY <2>1 DEF IInv, InflightInv
      <3> QED BY <1>2, <3>1, <3>2 DEF HandlersGone
    <2> QED BY <1>2, <2>1 DEF HandlersGone, HandlersReturned, Quiesced
  <1>3. CASE StopDone
    <2>1. \A a \in Attempts : task[a] \in ActiveTask => a \in abandoned
      BY <1>3, ActiveOrOver DEF StopDone, Quiesced
    <2> QED BY <1>3, <2>1 DEF StopDone, HandlersReturned, Quiesced
  <1>4. CASE StopTimeout
    <2>1. \A a \in Attempts : task[a] \in ActiveTask => a \in abandoned'
      BY <1>4, ActiveOrOver DEF StopTimeout, Quiesced
    <2> QED BY <1>4, <2>1 DEF StopTimeout, HandlersReturned, Quiesced
  <1> QED BY <1>1, <1>2, <1>3, <1>4 DEF Lifecycle

\* With no handler left no frame is read and no respond task lives.
LEMMA NothingReads ==
  ASSUME IInv, Handled, HandlersReturned
  PROVE  /\ \A c \in Conns : ~Handle(c)
         /\ \A a \in Attempts : ~Respond(a)
PROOF
  <1>1. \A c \in Conns : ~Handle(c)
    BY DEF HandlersReturned, Handle, IgnoreFrame, RejectFrame, AcceptFrame, TakeFrame,
       EndLoop, DrainDone, DrainTimeout
  <1>2. \A a \in Attempts : pc[a] \notin LivePc
    BY DEF HandlersReturned, Handled, IInv, FrameInv, Frame, LivePc
  <1>3. \A a \in Attempts : ~Respond(a)
    BY <1>2 DEF LivePc, Respond, ReplayCached, JoinInflight, LeadExecution, Resume,
       CloseSocket, SendReply
  <1> QED BY <1>1, <1>3

LEMMA QuiescedStep ==
  ASSUME IInv, Handled, Quiesced, [Next]_vars
  PROVE  Quiesced'
PROOF
  <1> USE DEF connVars, execVars
  <1>1. CASE Lifecycle
    BY <1>1, QuiescedLifecycle
  <1>2. CASE Peer \/ UNCHANGED vars
    <2>1. UNCHANGED <<server, drainSet, abandoned, task>>
      BY <1>2 DEF vars, Peer, Connect, Drop, Send
    <2>2. server # "up" => UNCHANGED handler
      BY <1>2 DEF vars, Peer, Connect, Drop, Send
    <2> QED BY <2>1, <2>2 DEF Quiesced, HandlersReturned
  <1>3. CASE \/ \E c \in Conns : Handle(c)
             \/ \E a \in Attempts : Respond(a)
    <2>1. UNCHANGED server
      BY <1>3 DEF Handle, IgnoreFrame, RejectFrame, AcceptFrame, EndLoop, DrainDone,
         DrainTimeout, Respond, ReplayCached, JoinInflight, LeadExecution, Resume,
         CloseSocket, SendReply
    <2> QED BY <1>3, <2>1, NothingReads DEF Quiesced
  <1>4. CASE \E a \in Attempts : Execute(a) \/ Model(a)
    <2>1. PICK a \in Attempts : Execute(a) \/ Model(a)
      BY <1>4
    <2>2. UNCHANGED connVars
      BY <2>1 DEF Execute, AnswerDirectly, Dispatch, DecodeFails, DecodeDone,
         AcquireLock, PopInflight, Model, ModelReturns, InferObserves, InferFails, InferActs
    <2>3. /\ \A b \in Attempts : b # a => task'[b] = task[b]
          /\ task'[a] \in ActiveTask => task[a] \in ActiveTask
      BY <2>1 DEF Execute, AnswerDirectly, Dispatch, DecodeFails, DecodeDone,
         AcquireLock, PopInflight, Model, ModelReturns, InferObserves, InferFails, InferActs,
         Finish, IInv, TypeOK, ActiveTask
    <2> QED BY <2>2, <2>3 DEF Quiesced, HandlersReturned
  <1> QED BY <1>1, <1>2, <1>3, <1>4 DEF Next

\* A step after which no connection has more tasks keeps to the cap.
LEMMA CappedSubset ==
  ASSUME Capped, NEW c \in Conns, NEW S, S \subseteq Pending(c)
  PROVE  IsFiniteSet(S) /\ Cardinality(S) <= MaxInflight
PROOF
  <1>1. IsFiniteSet(Pending(c)) /\ Cardinality(Pending(c)) <= MaxInflight
    BY DEF Capped
  <1>2. IsFiniteSet(S) /\ Cardinality(S) <= Cardinality(Pending(c))
    BY <1>1, FS_Subset
  <1>3. Cardinality(S) \in Nat /\ Cardinality(Pending(c)) \in Nat
    BY <1>1, <1>2, FS_CardinalityType
  <1> QED BY <1>1, <1>2, <1>3, SizesAssumption

LEMMA CappedRespond ==
  ASSUME IInv, Handled, Capped, NEW a \in Attempts, Respond(a)
  PROVE  Capped'
PROOF
  <1> USE DEF connVars, LivePc
  <1>1. UNCHANGED frame
    BY DEF Respond, ReplayCached, JoinInflight, LeadExecution, Resume, CloseSocket, SendReply
  <1>2. pc[a] \in LivePc /\ \A b \in Attempts : b # a => pc'[b] = pc[b]
    BY DEF Respond, ReplayCached, JoinInflight, LeadExecution, Resume, CloseSocket, SendReply,
       Encode, IInv, TypeOK
  <1>3. \/ UNCHANGED inline
        \/ /\ inline' = [inline EXCEPT ![frame[a].conn] = IF @ = a THEN None ELSE @]
           /\ pc'[a] \notin LivePc
    BY DEF Respond, ReplayCached, JoinInflight, LeadExecution, Resume, CloseSocket, SendReply,
       IInv, TypeOK
  <1>4. \A c \in Conns : inline'[c] = inline[c] \/ (inline[c] = a /\ pc'[a] \notin LivePc)
    BY <1>3 DEF IInv, TypeOK
  <1>5. \A c \in Conns : Pending(c)' \subseteq Pending(c)
    BY <1>1, <1>2, <1>4 DEF Pending
  <1> QED BY <1>5, CappedSubset DEF Capped

LEMMA CappedStep ==
  ASSUME IInv, Inboxes, Handled, Capped, [Next]_vars
  PROVE  Capped'
PROOF
  <1> USE DEF connVars, respVars
  <1>1. CASE \E a \in Attempts : Respond(a)
    BY <1>1, CappedRespond
  <1>2. CASE \/ Lifecycle \/ UNCHANGED vars
             \/ \E a \in Attempts : Execute(a) \/ Model(a)
             \/ \E c \in Conns : Connect(c) \/ Drop(c) \/ EndLoop(c) \/ DrainDone(c)
    <2>1. UNCHANGED respVars
      BY <1>2 DEF vars, Lifecycle, Start, CloseServer, HandlersGone, StopDone, StopTimeout,
         Execute, AnswerDirectly, Dispatch, DecodeFails, DecodeDone, AcquireLock,
         PopInflight, Model, ModelReturns, InferObserves, InferFails, InferActs,
         Connect, Drop, EndLoop, DrainDone
    <2>2. \A c \in Conns : Pending(c)' \subseteq Pending(c)
      BY <2>1 DEF Pending
    <2> QED BY <2>2, CappedSubset DEF Capped
  <1>3. CASE \E a \in Attempts, c \in Conns, r \in Requests, t \in Types : Send(a, c, r, t)
    <2>1. PICK a \in Attempts, c \in Conns, r \in Requests, t \in Types : Send(a, c, r, t)
      BY <1>3
    <2>2. /\ UNCHANGED inline /\ pc'[a] = "wire"
          /\ \A b \in Attempts : b # a => pc'[b] = pc[b] /\ frame'[b] = frame[b]
      BY <2>1 DEF Send, IInv, TypeOK
    <2>3. \A d \in Conns : Pending(d)' \subseteq Pending(d)
      BY <2>2 DEF Pending, LivePc
    <2> QED BY <2>3, CappedSubset DEF Capped
  <1>4. CASE \E c \in Conns : DrainTimeout(c)
    <2>1. \A b \in Attempts : pc'[b] \in LivePc => pc[b] \in LivePc
      BY <1>4 DEF DrainTimeout, LivePc
    <2>2. UNCHANGED <<inline, frame>>
      BY <1>4 DEF DrainTimeout
    <2>3. \A d \in Conns : Pending(d)' \subseteq Pending(d)
      BY <2>1, <2>2 DEF Pending
    <2> QED BY <2>3, CappedSubset DEF Capped
  <1>5. ASSUME NEW c \in Conns, NEW a \in Attempts,
               IgnoreFrame(c, a) \/ RejectFrame(c, a) \/ AcceptFrame(c, a)
        PROVE  Capped'
    <2>1. /\ inline[c] = None /\ frame[a].conn = c
      BY <1>5, TakenFrame DEF IgnoreFrame, RejectFrame, AcceptFrame, TakeFrame
    <2>2. /\ UNCHANGED frame
          /\ \A b \in Attempts : b # a => pc'[b] = pc[b]
          /\ \A d \in Conns : d # c => inline'[d] = inline[d]
      BY <1>5 DEF IgnoreFrame, RejectFrame, AcceptFrame, IInv, TypeOK
    <2>3. \A d \in Conns : d # c => Pending(d)' \subseteq Pending(d)
      BY <2>1, <2>2 DEF Pending
    <2>4. \A b \in Attempts : b # a /\ b \in Pending(c)' => b \in Pending(c)
      BY <2>1, <2>2, NoneAssumption DEF Pending
    <2>5. CASE ~Full(c)
      <3>1. IsFiniteSet(Pending(c)) /\ Cardinality(Pending(c)) \in Nat
        BY FS_CardinalityType DEF Capped
      <3>2. /\ IsFiniteSet(Pending(c) \cup {a})
            /\ Cardinality(Pending(c) \cup {a}) <= Cardinality(Pending(c)) + 1
        BY <3>1, FS_AddElement
      <3>3. Pending(c)' \subseteq Pending(c) \cup {a}
        BY <2>4 DEF Pending
      <3>4. /\ IsFiniteSet(Pending(c)')
            /\ Cardinality(Pending(c)') <= Cardinality(Pending(c) \cup {a})
        BY <3>2, <3>3, FS_Subset
      <3>5. Cardinality(Pending(c)') \in Nat /\ Cardinality(Pending(c) \cup {a}) \in Nat
        BY <3>2, <3>4, FS_CardinalityType
      <3>6. Cardinality(Pending(c)') <= MaxInflight
        BY <2>5, <3>1, <3>2, <3>4, <3>5, SizesAssumption DEF Full
      <3>7. \A d \in Conns \ {c} :
              IsFiniteSet(Pending(d)') /\ Cardinality(Pending(d)') <= MaxInflight
        BY <2>3, CappedSubset
      <3> QED BY <3>4, <3>6, <3>7 DEF Capped
    <2>6. CASE Full(c)
      <3>1. pc'[a] \notin LivePc \/ inline'[c] = a
        BY <1>5, <2>6 DEF IgnoreFrame, RejectFrame, AcceptFrame, IInv, TypeOK, LivePc
      <3>2. a \notin Pending(c)'
        BY <3>1 DEF Pending
      <3>3. Pending(c)' \subseteq Attempts
        BY DEF Pending
      <3>4. Pending(c)' \subseteq Pending(c)
        BY <2>4, <3>2, <3>3
      <3>5. \A d \in Conns : Pending(d)' \subseteq Pending(d)
        BY <2>3, <3>4
      <3> QED BY <3>5, CappedSubset DEF Capped
    <2> QED BY <2>5, <2>6
  <1> QED BY <1>1, <1>2, <1>3, <1>4, <1>5 DEF Next, Peer, Handle

\* LoadInv of every reachable state.
THEOREM LoadInductive == Spec => []LoadInv
PROOF
  <1>1. Init => LoadInv
    <2> SUFFICES ASSUME Init PROVE LoadInv
      OBVIOUS
    <2>1. \A c \in Conns : inbox[c] = <<>> /\ Pending(c) = {}
      BY DEF Init, Pending, LivePc
    <2>2. Inboxes
      BY <2>1 DEF Inboxes
    <2>3. Handled
      BY DEF Init, Handled, LivePc
    <2>4. Quiesced
      BY DEF Init, Quiesced, HandlersReturned, ActiveTask
    <2>5. Capped
      <3>1. IsFiniteSet({}) /\ Cardinality({}) = 0
        BY FS_EmptySet
      <3>2. ASSUME NEW c \in Conns
            PROVE  IsFiniteSet(Pending(c)) /\ Cardinality(Pending(c)) <= MaxInflight
        <4>1. Pending(c) = {}
          BY <2>1
        <4> HIDE DEF Pending
        <4> QED BY <3>1, <4>1, SizesAssumption
      <3> QED BY <3>2 DEF Capped
    <2> QED BY <2>2, <2>3, <2>4, <2>5 DEF LoadInv
  <1>2. IInv /\ LoadInv /\ [Next]_vars => LoadInv'
    BY InboxesStep, HandledStep, QuiescedStep, CappedStep DEF LoadInv
  <1> QED BY <1>1, <1>2, Inductive, PTL DEF Spec

\* When stop() has returned, the only executions that may still run are those it
\* gave up on and logged.
THEOREM StopDrainsHolds == Spec => []StopDrains
PROOF
  <1>1. LoadInv => StopDrains
    BY DEF LoadInv, Quiesced, StopDrains
  <1> QED BY <1>1, LoadInductive, PTL

\* A connection never has more respond tasks than the cap.
THEOREM BackpressureHolds == Spec => []Backpressure
PROOF
  <1>1. LoadInv => Backpressure
    BY DEF LoadInv, Capped, Backpressure
  <1> QED BY <1>1, LoadInductive, PTL

-----------------------------------------------------------------------------
(* One answer per request.                                                 *)

\* While an id was never evicted: an execution of it runs only when none has
\* answered yet; what an execution left is in the cache, repaired or not; and
\* what a peer was, or is about to be, told is in the cache as it is.
SettledAt(a) ==
  LET r == frame[a].id IN
    pc[a] # "unsent" /\ evicted[r] = 0 =>
      /\ task[a] \in ActiveTask => ~Cached(r)
      /\ Finished(a) /\ outcome[a] # "closing" =>
           Cached(r) /\ Repairs(cache[r].reply, [by |-> a, kind |-> outcome[a]])
      /\ pc[a] \in {"encoded", "sent"} /\ reply[a].kind \in {"ok", "error"} =>
           Cached(r) /\ cache[r].reply = reply[a]

\* Nothing an attempt relies on is taken away from it in the cache.
KeepsEntry(r) ==
  evicted'[r] = 0 =>
    /\ evicted[r] = 0
    /\ recency'[r] > 0 <=> recency[r] > 0
    /\ recency[r] > 0 => cache'[r] = cache[r]

\* A step of others: an attempt whose entry stays, whose execution does not
\* begin or end, and that is told nothing new.
LEMMA SettledKept ==
  ASSUME IInv, [Next]_vars, NEW b \in Attempts, pc[b] # "unsent" => SettledAt(b),
         pc[b] # "unsent" => KeepsEntry(frame[b].id),
         task'[b] \in ActiveTask => task[b] \in ActiveTask,
         Finished(b)' => Finished(b) /\ outcome'[b] = outcome[b],
         pc'[b] \in {"encoded", "sent"} =>
           pc[b] \in {"encoded", "sent"} /\ reply'[b] = reply[b]
  PROVE  SettledAt(b)'
PROOF
  <1>1. CASE pc[b] = "unsent"
    <2>1. task[b] \notin ActiveTask /\ ~Finished(b)
      BY <1>1 DEF IInv, TaskInv, ActiveTask, Finished
    <2> QED BY <1>1, <2>1 DEF SettledAt
  <1>2. CASE pc[b] # "unsent"
    <2>1. frame'[b] = frame[b]
      BY <1>2, FrameStable
    <2> QED BY <1>2, <2>1 DEF SettledAt, KeepsEntry, Cached
  <1> QED BY <1>1, <1>2

LEMMA StoreKeeps ==
  ASSUME IInv, NEW r \in Requests, NEW type \in Types, NEW rep \in Reply,
         Store(r, type, rep)
  PROVE  /\ \A x \in Requests : x # r => KeepsEntry(x)
         /\ evicted'[r] = evicted[r]
         /\ recency'[r] > 0 /\ cache'[r].reply = rep
PROOF
  <1>1. TypeOK /\ RecencyInv
    BY DEF IInv
  <1>2. /\ recency' \in [Requests -> 0..CacheSize]
        /\ evicted' \in [Requests -> Nat]
        /\ recency'[r] > 0 /\ cache'[r] = [type |-> type, reply |-> rep]
        /\ \A x \in Requests : x # r /\ recency'[x] > 0
             => recency[x] > 0 /\ cache'[x] = cache[x]
        /\ \A x \in Requests : evicted'[x] >= evicted[x]
        /\ \A x \in Requests : recency[x] > 0 /\ recency'[x] = 0
             => evicted'[x] = evicted[x] + 1
    BY <1>1, StoreFacts
  <1>3. evicted \in [Requests -> Nat]
    BY <1>1 DEF TypeOK
  <1>4. ASSUME NEW x \in Requests, x # r, evicted'[x] = 0
        PROVE  /\ evicted[x] = 0
               /\ recency'[x] > 0 <=> recency[x] > 0
               /\ recency[x] > 0 => cache'[x] = cache[x]
    <2>1. evicted[x] = 0
      BY <1>2, <1>3, <1>4
    <2>2. recency[x] > 0 => recency'[x] > 0
      BY <1>2, <1>4, <2>1
    <2> QED BY <1>2, <1>4, <2>1, <2>2
  <1>5. evicted'[r] = evicted[r]
    BY <1>3 DEF Store, Evicts
  <1> QED BY <1>2, <1>4, <1>5 DEF KeepsEntry

\* Encoding twice repairs once.
LEMMA RepairedTwice ==
  ASSUME NEW x
  PROVE  /\ Repaired(Repaired(x)) = Repaired(x)
         /\ x.kind # "bad" => Repaired(x) = x
PROOF
  <1>1. CASE x.kind = "bad"
    <2>1. Repaired(x) = [x EXCEPT !.kind = "error"]
      BY <1>1 DEF Repaired
    <2> QED BY <1>1, <2>1 DEF Repaired
  <1>2. CASE x.kind # "bad"
    BY <1>2 DEF Repaired
  <1> QED BY <1>1, <1>2

\* A respond task that is told what the cache holds, or the repair of it, and
\* leaves the repair in the cache.
LEMMA SettledAnswer ==
  ASSUME IInv, \A b \in Attempts : SettledAt(b), [Next]_vars,
         NEW a \in Attempts, NEW r, r = frame[a].id, pc[a] \in LivePc, NEW rep, Encode(a, rep),
         UNCHANGED <<frame, task, outcome>>,
         \A x \in Requests : x # r => KeepsEntry(x),
         evicted[r] = evicted'[r],
         evicted[r] = 0 =>
           /\ recency[r] > 0 /\ recency'[r] > 0
           /\ cache[r].reply \in {rep, Repaired(rep)}
           /\ cache'[r].reply = Repaired(rep)
  PROVE  \A b \in Attempts : SettledAt(b)'
PROOF
  <1>1. /\ reply'[a] = Repaired(rep) /\ pc'[a] = "encoded"
        /\ \A b \in Attempts : b # a => reply'[b] = reply[b] /\ pc'[b] = pc[b]
    BY DEF Encode, IInv, TypeOK
  <1>2. ASSUME NEW b \in Attempts, pc[b] # "unsent", frame[b].id = r, evicted[r] = 0
        PROVE  SettledAt(b)'
    <2>1. /\ Cached(r) /\ Cached(r)'
          /\ cache'[r].reply = Repaired(cache[r].reply)
      BY <1>2, RepairedTwice DEF Cached
    <2>2. task'[b] \notin ActiveTask
      BY <1>2, <2>1 DEF SettledAt
    <2>3. ASSUME Finished(b), outcome[b] # "closing"
          PROVE  Repairs(cache'[r].reply, [by |-> b, kind |-> outcome[b]])
      <3>1. Repairs(cache[r].reply, [by |-> b, kind |-> outcome[b]])
        BY <1>2, <2>3 DEF SettledAt
      <3> QED BY <2>1, <3>1, RepairedTwice DEF Repairs
    <2>4. ASSUME pc'[b] \in {"encoded", "sent"}, reply'[b].kind \in {"ok", "error"}
          PROVE  cache'[r].reply = reply'[b]
      <3>1. CASE b = a
        BY <1>1, <1>2, <3>1
      <3>2. CASE b # a
        <4>1. cache[r].reply = reply[b] /\ reply'[b] = reply[b]
          BY <1>1, <1>2, <2>4, <3>2 DEF SettledAt
        <4> QED BY <2>1, <2>4, <4>1, RepairedTwice
      <3> QED BY <3>1, <3>2
    <2>5. Finished(b)' <=> Finished(b)
      BY DEF Finished
    <2>6. frame'[b].id = r /\ outcome'[b] = outcome[b]
      BY <1>2
    <2> QED BY <1>2, <2>1, <2>2, <2>3, <2>4, <2>5, <2>6 DEF SettledAt
  <1>3. ASSUME NEW b \in Attempts, pc[b] # "unsent", frame[b].id = r, evicted[r] # 0
        PROVE  SettledAt(b)'
    <2>1. frame'[b].id = r /\ evicted'[r] # 0
      BY <1>3
    <2> QED BY <2>1 DEF SettledAt
  <1>4. ASSUME NEW b \in Attempts, pc[b] # "unsent" => frame[b].id # r
        PROVE  SettledAt(b)'
    <2>1. b # a
      BY <1>4 DEF LivePc
    <2>2. pc[b] # "unsent" => frame[b].id \in Requests
      BY DEF IInv, FrameInv, Frame
    <2>3. pc[b] # "unsent" => KeepsEntry(frame[b].id)
      BY <1>4, <2>2
    <2>4. Finished(b)' <=> Finished(b)
      BY DEF Finished
    <2> QED BY <1>1, <2>1, <2>3, <2>4, SettledKept
  <1> QED BY <1>2, <1>3, <1>4

\* The end of an execution.
LEMMA SettledFinish ==
  ASSUME IInv, \A b \in Attempts : SettledAt(b), [Next]_vars,
         NEW a \in Attempts, NEW r, r = frame[a].id, task[a] \in ActiveTask,
         NEW kind \in {"ok", "bad", "error", "closing"}, Finish(a, kind),
         UNCHANGED <<connVars, respVars, inflight, calls>>
  PROVE  \A b \in Attempts : SettledAt(b)'
PROOF
  <1> DEFINE rep == [by |-> a, kind |-> kind]
  <1> USE DEF respVars
  <1>1. /\ pc[a] # "unsent" /\ r \in Requests /\ frame[a].type \in Types
    BY DEF IInv, TaskInv, FrameInv, Frame, ActiveTask
  <1>2. /\ task'[a] = "done" /\ outcome'[a] = kind
        /\ \A b \in Attempts : b # a => task'[b] = task[b] /\ outcome'[b] = outcome[b]
    BY DEF Finish, IInv, TypeOK
  <1>3. \A b \in Attempts : b # a => (Finished(b)' <=> Finished(b))
    BY <1>2 DEF Finished
  <1>4. CASE kind = "closing"
    <2>1. \A x \in Requests : KeepsEntry(x)
      BY <1>4 DEF Finish, cacheVars, KeepsEntry
    <2>2. \A b \in Attempts : b # a => SettledAt(b)'
      <3> SUFFICES ASSUME NEW b \in Attempts, b # a PROVE SettledAt(b)'
        OBVIOUS
      <3>1. pc[b] # "unsent" => KeepsEntry(frame[b].id)
        BY <2>1 DEF IInv, FrameInv, Frame
      <3> QED BY <1>2, <1>3, <3>1, SettledKept
    <2>3. SettledAt(a)'
      <3>1. task'[a] \notin ActiveTask /\ outcome'[a] = "closing"
        BY <1>2, <1>4 DEF ActiveTask
      <3>2. UNCHANGED <<frame, pc, reply, evicted, recency, cache>>
        BY <1>4 DEF Finish, cacheVars
      <3> QED BY <3>1, <3>2 DEF SettledAt, Cached
    <2> QED BY <2>2, <2>3
  <1>5. CASE kind # "closing"
    <2>1. Store(r, frame[a].type, rep) /\ rep \in Reply
      BY <1>5 DEF Finish, Reply, Kinds
    <2>2. /\ \A x \in Requests : x # r => KeepsEntry(x)
          /\ evicted'[r] = evicted[r]
          /\ recency'[r] > 0 /\ cache'[r].reply = rep
      <3> HIDE DEF rep
      <3> QED BY <1>1, <2>1, StoreKeeps
    <2>3. ASSUME NEW b \in Attempts, pc[b] # "unsent", frame[b].id = r
          PROVE  SettledAt(b)'
      <3>1. CASE evicted[r] = 0
        <4>1. ~Cached(r)
          BY <1>1, <3>1 DEF SettledAt
        <4>2. ~(pc'[b] \in {"encoded", "sent"} /\ reply'[b].kind \in {"ok", "error"})
          BY <2>3, <3>1, <4>1 DEF SettledAt
        <4>3. b # a => task[b] \notin ActiveTask
          BY <2>3 DEF IInv, InflightInv
        <4>4. b # a => ~(Finished(b) /\ outcome[b] # "closing")
          BY <2>3, <3>1, <4>1 DEF SettledAt
        <4>5. task'[b] \notin ActiveTask
          BY <1>2, <4>3 DEF ActiveTask
        <4>6. Finished(b)' /\ outcome'[b] # "closing" =>
                Cached(r)' /\ Repairs(cache'[r].reply, [by |-> b, kind |-> outcome'[b]])
          BY <1>2, <1>3, <2>2, <4>4 DEF Repairs, Cached
        <4>7. frame'[b].id = r
          BY <2>3
        <4> HIDE DEF rep
        <4> QED BY <4>2, <4>5, <4>6, <4>7 DEF SettledAt
      <3>2. CASE evicted[r] # 0
        <4>1. frame'[b].id = r /\ evicted'[r] # 0
          BY <2>2, <2>3, <3>2
        <4> QED BY <4>1 DEF SettledAt
      <3> QED BY <3>1, <3>2
    <2>4. ASSUME NEW b \in Attempts, pc[b] # "unsent" => frame[b].id # r
          PROVE  SettledAt(b)'
      <3>1. b # a
        BY <1>1, <2>4
      <3>2. pc[b] # "unsent" => KeepsEntry(frame[b].id)
        BY <2>2, <2>4 DEF IInv, FrameInv, Frame
      <3> QED BY <1>2, <1>3, <3>1, <3>2, SettledKept
    <2> QED BY <2>3, <2>4
  <1> QED BY <1>4, <1>5

\* A step that leaves the cache, the answers and the executions alone.
LEMMA SettledApart ==
  ASSUME IInv, \A b \in Attempts : SettledAt(b), [Next]_vars, UNCHANGED cacheVars,
         \A b \in Attempts :
           /\ task'[b] \in ActiveTask => task[b] \in ActiveTask
           /\ Finished(b)' => Finished(b) /\ outcome'[b] = outcome[b]
           /\ pc'[b] \in {"encoded", "sent"} =>
                pc[b] \in {"encoded", "sent"} /\ reply'[b] = reply[b]
  PROVE  \A b \in Attempts : SettledAt(b)'
PROOF
  <1>1. \A x \in Requests : KeepsEntry(x)
    BY DEF cacheVars, KeepsEntry
  <1>2. \A b \in Attempts : pc[b] # "unsent" => frame[b].id \in Requests
    BY DEF IInv, FrameInv, Frame
  <1> QED BY <1>1, <1>2, SettledKept

\* A step that tells an attempt something that is no answer.
LEMMA SettledNoAnswer ==
  ASSUME IInv, \A b \in Attempts : SettledAt(b), [Next]_vars, UNCHANGED cacheVars,
         NEW a \in Attempts, pc[a] # "unsent", pc'[a] = "encoded",
         reply'[a].kind \notin {"ok", "error"},
         \A b \in Attempts : b # a => pc'[b] = pc[b] /\ reply'[b] = reply[b],
         UNCHANGED <<frame, task, outcome>>
  PROVE  \A b \in Attempts : SettledAt(b)'
PROOF
  <1>1. \A x \in Requests : KeepsEntry(x)
    BY DEF cacheVars, KeepsEntry
  <1>2. \A b \in Attempts : pc[b] # "unsent" => frame[b].id \in Requests
    BY DEF IInv, FrameInv, Frame
  <1>3. \A b \in Attempts : Finished(b)' <=> Finished(b)
    BY DEF Finished
  <1>4. \A b \in Attempts : b # a => SettledAt(b)'
    BY <1>1, <1>2, <1>3, SettledKept
  <1>5. SettledAt(a)'
    <2>1. UNCHANGED <<evicted, recency, cache>>
      BY DEF cacheVars
    <2> QED BY <1>3, <2>1 DEF SettledAt, Cached
  <1> QED BY <1>4, <1>5

LEMMA SettledRespond ==
  ASSUME IInv, \A b \in Attempts : SettledAt(b), [Next]_vars, NEW a \in Attempts, Respond(a)
  PROVE  \A b \in Attempts : SettledAt(b)'
PROOF
  <1> USE DEF connVars, execVars
  <1> DEFINE reused == [by |-> a, kind |-> "reused"]
  <1>1. ASSUME Encode(a, reused), UNCHANGED <<cacheVars, frame, execVars>>
        PROVE  \A b \in Attempts : SettledAt(b)'
    <2>1. pc[a] # "unsent"
      BY DEF Respond, ReplayCached, JoinInflight, LeadExecution, Resume, CloseSocket, SendReply
    <2>2. /\ pc'[a] = "encoded" /\ reply'[a].kind = "reused"
          /\ \A b \in Attempts : b # a => pc'[b] = pc[b] /\ reply'[b] = reply[b]
      BY <1>1 DEF Encode, Repaired, IInv, TypeOK
    <2> QED BY <1>1, <2>1, <2>2, SettledNoAnswer
  <1>2. CASE ReplayCached(a)
    <2>1. CASE ~SameType(cache[frame[a].id].type, a)
      BY <1>1, <1>2, <2>1 DEF ReplayCached
    <2>2. CASE SameType(cache[frame[a].id].type, a)
      <3>1. PICK r \in Requests : r = frame[a].id
        BY <1>2 DEF ReplayCached, IInv, FrameInv, Frame
      <3>2. /\ pc[a] = "created" /\ recency[r] > 0 /\ UNCHANGED <<frame, task, outcome>>
        BY <1>2, <3>1 DEF ReplayCached, Cached
      <3>3. PICK rep : rep = cache[r].reply
        OBVIOUS
      <3>4. Encode(a, rep) /\ Store(r, cache[r].type, Repaired(rep))
        BY <1>2, <2>2, <3>1, <3>3 DEF ReplayCached
      <3>5. cache[r].type \in Types /\ rep \in Reply
        BY <3>2, <3>3 DEF IInv, CacheInv, Entry
      <3>6. Repaired(rep) \in Reply
        BY <3>5 DEF Repaired, Reply, Kinds
      <3>7. /\ \A x \in Requests : x # r => KeepsEntry(x)
            /\ evicted'[r] = evicted[r]
            /\ recency'[r] > 0 /\ cache'[r].reply = Repaired(rep)
        BY <3>4, <3>5, <3>6, StoreKeeps
      <3> QED BY <3>1, <3>2, <3>3, <3>4, <3>7, SettledAnswer DEF LivePc
    <2> QED BY <2>1, <2>2
  <1>3. CASE JoinInflight(a)
    <2>1. CASE Encode(a, reused)
      BY <1>1, <1>3, <2>1 DEF JoinInflight
    <2>2. CASE pc' = [pc EXCEPT ![a] = "waiting"] /\ UNCHANGED reply
      <3>1. \A b \in Attempts : pc'[b] \in {"encoded", "sent"} => pc[b] \in {"encoded", "sent"}
        BY <2>2 DEF IInv, TypeOK
      <3>2. UNCHANGED <<cacheVars, task, outcome>>
        BY <1>3 DEF JoinInflight
      <3> QED BY <2>2, <3>1, <3>2, SettledApart DEF Finished
    <2> QED BY <1>3, <2>1, <2>2 DEF JoinInflight
  <1>4. CASE LeadExecution(a)
    <2>1. /\ pc[a] = "created" /\ recency[frame[a].id] = 0
          /\ UNCHANGED <<cacheVars, frame, reply, outcome>>
      <3>1. frame[a].id \in Requests
        BY <1>4 DEF LeadExecution, IInv, FrameInv, Frame
      <3>2. recency[frame[a].id] \in Nat
        BY <3>1, SizesAssumption DEF IInv, TypeOK
      <3> QED BY <1>4, <3>2 DEF LeadExecution, Cached
    <2>2. /\ task'[a] = "created" /\ pc'[a] = "waiting"
          /\ \A b \in Attempts : b # a => task'[b] = task[b] /\ pc'[b] = pc[b]
      BY <1>4 DEF LeadExecution, IInv, TypeOK
    <2>3. ASSUME NEW b \in Attempts, b # a PROVE SettledAt(b)'
      <3>1. pc[b] # "unsent" => KeepsEntry(frame[b].id)
        BY <2>1 DEF cacheVars, KeepsEntry
      <3>2. Finished(b)' => Finished(b)
        BY <2>2, <2>3 DEF Finished
      <3> QED BY <2>1, <2>2, <2>3, <3>1, <3>2, SettledKept
    <2>4. SettledAt(a)'
      <3>1. ~Finished(a)' /\ UNCHANGED recency
        BY <2>1, <2>2 DEF Finished, cacheVars
      <3> QED BY <2>1, <2>2, <3>1 DEF SettledAt, Cached
    <2> QED BY <2>3, <2>4
  <1>5. CASE Resume(a)
    <2>1. PICK r \in Requests : r = frame[a].id
      BY <1>5 DEF Resume, IInv, FrameInv, Frame
    <2>2. PICK l \in Attempts : l = awaits[a]
      BY <1>5 DEF Resume, IInv, WaitInv
    <2>3. PICK rep : rep = [by |-> l, kind |-> outcome[l]]
      OBVIOUS
    <2>4. /\ pc[a] = "waiting" /\ Finished(l) /\ outcome[l] # "closing"
          /\ Encode(a, rep) /\ Overwrite(a, rep)
          /\ UNCHANGED <<frame, task, outcome>>
      BY <1>5, <2>2, <2>3 DEF Resume
    <2>5. frame[l].id = r /\ pc[l] # "unsent" /\ frame[a].type \in Types
      BY <2>1, <2>2, <2>4 DEF IInv, FrameInv, WaitInv, TaskInv, Frame, Finished
    <2>6. rep \in Reply /\ rep.kind \in {"ok", "bad", "error"}
      BY <2>3, <2>4 DEF IInv, TaskInv, Reply, Kinds
    <2>7. Repaired(rep) \in Reply
      BY <2>6 DEF Repaired, Reply, Kinds
    <2>8. evicted[r] = 0 => recency[r] > 0 /\ cache[r].reply \in {rep, Repaired(rep)}
      BY <2>3, <2>4, <2>5 DEF SettledAt, Repairs, Cached
    <2>9. CASE rep.kind = "bad"
      <3>1. Store(r, frame[a].type, Repaired(rep))
        BY <2>1, <2>4, <2>9 DEF Overwrite
      <3>2. /\ \A x \in Requests : x # r => KeepsEntry(x)
            /\ evicted'[r] = evicted[r]
            /\ recency'[r] > 0 /\ cache'[r].reply = Repaired(rep)
        BY <2>5, <2>7, <3>1, StoreKeeps
      <3> QED BY <2>1, <2>4, <2>8, <3>2, SettledAnswer DEF LivePc
    <2>10. CASE rep.kind # "bad"
      <3>1. UNCHANGED <<cache, recency, evicted>> /\ Repaired(rep) = rep
        BY <2>4, <2>10 DEF Overwrite, cacheVars, Repaired
      <3>2. \A x \in Requests : KeepsEntry(x)
        BY <3>1 DEF KeepsEntry
      <3> QED BY <2>1, <2>4, <2>8, <3>1, <3>2, SettledAnswer DEF LivePc
    <2> QED BY <2>9, <2>10
  <1>6. CASE CloseSocket(a) \/ SendReply(a)
    <2>1. UNCHANGED <<cacheVars, reply, task, outcome>>
      BY <1>6 DEF CloseSocket, SendReply
    <2>2. \A b \in Attempts : pc'[b] \in {"encoded", "sent"} => pc[b] \in {"encoded", "sent"}
      BY <1>6 DEF CloseSocket, SendReply, IInv, TypeOK
    <2> QED BY <2>1, <2>2, SettledApart DEF Finished
  <1> QED BY <1>2, <1>3, <1>4, <1>5, <1>6 DEF Respond

LEMMA SettledExecute ==
  ASSUME IInv, \A b \in Attempts : SettledAt(b), [Next]_vars,
         NEW a \in Attempts, Execute(a) \/ Model(a)
  PROVE  \A b \in Attempts : SettledAt(b)'
PROOF
  <1>1. CASE Dispatch(a) \/ DecodeDone(a) \/ AcquireLock(a) \/ InferObserves(a)
    <2>1. UNCHANGED <<cacheVars, respVars, outcome>>
      BY <1>1 DEF Dispatch, DecodeDone, AcquireLock, InferObserves
    <2>2. /\ task[a] \in ActiveTask /\ task'[a] \in ActiveTask
          /\ \A b \in Attempts : b # a => task'[b] = task[b]
      BY <1>1 DEF Dispatch, FirstStage, DecodeDone, AcquireLock, InferObserves, IInv, TypeOK,
         ActiveTask
    <2>3. \A b \in Attempts : Finished(b)' => Finished(b)
      BY <2>2 DEF Finished, ActiveTask
    <2> QED BY <2>1, <2>2, <2>3, SettledApart DEF respVars
  <1>2. CASE PopInflight(a)
    <2>1. UNCHANGED <<cacheVars, respVars, outcome>>
      BY <1>2 DEF PopInflight
    <2>2. /\ task[a] = "done" /\ task'[a] = "popped"
          /\ \A b \in Attempts : b # a => task'[b] = task[b]
      BY <1>2 DEF PopInflight, IInv, TypeOK
    <2>3. \A b \in Attempts : Finished(b)' => Finished(b)
      BY <2>2 DEF Finished
    <2>4. \A b \in Attempts : task'[b] \in ActiveTask => task[b] \in ActiveTask
      BY <2>2 DEF ActiveTask
    <2> QED BY <2>1, <2>3, <2>4, SettledApart DEF respVars
  <1>3. CASE AnswerDirectly(a) \/ DecodeFails(a) \/ ModelReturns(a) \/ InferFails(a) \/ InferActs(a)
    <2>1. PICK kind \in {"ok", "bad", "error", "closing"} : Finish(a, kind)
      BY <1>3, TypesAssumption DEF AnswerDirectly, DecodeFails, ModelReturns, InferFails,
         InferActs, Direct, AllResults
    <2>2. /\ task[a] \in ActiveTask
          /\ UNCHANGED <<connVars, respVars, inflight, calls>>
      BY <1>3 DEF AnswerDirectly, DecodeFails, ModelReturns, InferFails, InferActs, ActiveTask
    <2> QED BY <2>1, <2>2, SettledFinish
  <1> QED BY <1>1, <1>2, <1>3 DEF Execute, Model

\* All the copies of a request get one answer, and that answer is what the cache
\* will replay, as long as the id was never evicted.
THEOREM OneAnswerHolds == Spec => []OneAnswerPerRequest
PROOF
  <1>1. Init => \A b \in Attempts : SettledAt(b)
    BY DEF Init, SettledAt
  <1>2. ASSUME IInv, \A b \in Attempts : SettledAt(b), [Next]_vars
        PROVE  (\A b \in Attempts : SettledAt(b))'
    <2>1. CASE Peer \/ Lifecycle \/ UNCHANGED vars
      <3>1. UNCHANGED <<cacheVars, reply, task, outcome>>
        BY <2>1 DEF vars, respVars, execVars, Peer, Connect, Drop, Send, Lifecycle, Start,
           CloseServer, HandlersGone, StopDone, StopTimeout
      <3>2. \A b \in Attempts : pc'[b] \in {"encoded", "sent"} => pc[b] \in {"encoded", "sent"}
        BY <1>2, <2>1 DEF vars, respVars, Peer, Connect, Drop, Send, Lifecycle, Start,
           CloseServer, HandlersGone, StopDone, StopTimeout, IInv, TypeOK
      <3> QED BY <1>2, <3>1, <3>2, SettledApart DEF Finished
    <2>2. CASE \E c \in Conns : \/ EndLoop(c) \/ DrainDone(c) \/ DrainTimeout(c)
                                \/ \E a \in Attempts : IgnoreFrame(c, a) \/ AcceptFrame(c, a)
      <3>1. UNCHANGED <<cacheVars, reply, task, outcome>>
        BY <2>2 DEF respVars, execVars, EndLoop, DrainDone, DrainTimeout, IgnoreFrame, AcceptFrame
      <3>2. \A b \in Attempts : pc'[b] \in {"encoded", "sent"} => pc[b] \in {"encoded", "sent"}
        BY <1>2, <2>2 DEF respVars, EndLoop, DrainDone, DrainTimeout, IgnoreFrame, AcceptFrame,
           IInv, TypeOK
      <3> QED BY <1>2, <3>1, <3>2, SettledApart DEF Finished
    <2>3. CASE \E c \in Conns, a \in Attempts : RejectFrame(c, a)
      <3>1. PICK c \in Conns, a \in Attempts : RejectFrame(c, a)
        BY <2>3
      <3>2. /\ UNCHANGED <<cacheVars, frame, task, outcome>>
            /\ pc[a] = "wire" /\ pc'[a] = "encoded" /\ reply'[a].kind = "invalid"
            /\ \A b \in Attempts : b # a => pc'[b] = pc[b] /\ reply'[b] = reply[b]
        BY <1>2, <3>1 DEF RejectFrame, TakeFrame, execVars, IInv, TypeOK
      <3> QED BY <1>2, <3>2, SettledNoAnswer
    <2>4. CASE \E a \in Attempts : Respond(a) \/ Execute(a) \/ Model(a)
      BY <1>2, <2>4, SettledRespond, SettledExecute
    <2> QED BY <1>2, <2>1, <2>2, <2>3, <2>4 DEF Next, Handle
  <1>3. (\A b \in Attempts : SettledAt(b)) => OneAnswerPerRequest
    BY DEF SettledAt, OneAnswerPerRequest
  <1> QED BY <1>1, <1>2, <1>3, Inductive, PTL DEF Spec
=============================================================================
