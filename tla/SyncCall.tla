------------------------------ MODULE SyncCall ------------------------------
(***************************************************************************)
(* How a thread of the client sends a request and waits for its answer:    *)
(* NettyClientService, SyncFuture, HttpClient and HttpClientHandler.  All  *)
(* threads share one channel, on which requests and answers stay in order, *)
(* and a cache of futures whose keys are the times of the calls in         *)
(* milliseconds.  A stamp stands for such a time: one that nothing uses is *)
(* a new millisecond, one that is in use is the same millisecond again.    *)
(*                                                                         *)
(* The specification of the client that calls says when; it also says what *)
(* the server does with the head of `sent'.                                *)
(***************************************************************************)
EXTENDS Integers, Sequences, FiniteSets

CONSTANTS
  Threads,    \* the threads that serve the client's web page
  Nobody,     \* no thread
  MaxStamp,   \* bound: stamps in use at a time
  Faults,     \* the faults that may happen, of FaultKinds
  MaxFaults   \* bound: faults in all

FaultKinds == {"tick",    \* two calls in one millisecond
               "late",    \* a call gives up before its answer comes
               "close",   \* the connection is lost
               "silent",  \* the server cannot answer what it has done
               "local"}   \* an exception in the client's loop over blocks

ASSUME SyncCallAssumption ==
  /\ Nobody \notin Threads
  /\ MaxStamp \in Nat \ {0} /\ MaxFaults \in Nat
  /\ Faults \subseteq FaultKinds

Stamps == 1 .. MaxStamp
Codes == {200, 207, 220, 900}    \* the requests that are waited for
NoStamp == 0      \* a request that nobody waits for, and a loop that has nothing to forget

VARIABLES
  call,     \* call[th]: [pc, stamp, code, arg, ans]
  cache,    \* futureCache: cache[stamp] is the thread that waits on the future, or Nobody
  sent,     \* requests on the channel, [by, stamp, code, arg]
  back,     \* answers on the channel, [by, stamp, code, ans]; code is the request's
  loop,     \* the stamp that the event loop still has to take from the cache, or NoStamp
  up,       \* the channel is open
  faults    \* faults so far

wire == <<sent, back, up>>
callVars == <<call, cache, wire, loop, faults>>

Null == [by |-> Nobody]     \* no answer
NoCall == [pc |-> "none", stamp |-> NoStamp, code |-> 0, arg |-> Nobody, ans |-> Null]

CallInit ==
  /\ call = [th \in Threads |-> NoCall]
  /\ cache = [s \in Stamps |-> Nobody]
  /\ sent = <<>> /\ back = <<>>
  /\ loop = NoStamp
  /\ up = TRUE
  /\ faults = 0

Fault(kind) == /\ kind \in Faults /\ faults < MaxFaults
               /\ faults' = faults + 1

On(queue) == {queue[i] : i \in DOMAIN queue}
Pending == {m \in On(sent) \cup On(back) : m.stamp # NoStamp}

InUse(s) ==
  \/ loop = s
  \/ \E th \in Threads : call[th].stamp = s
  \/ \E m \in Pending : m.stamp = s
Fresh(s) == ~InUse(s) /\ \A r \in 1 .. s - 1 : InUse(r)

\* The times new Date().getTime() may give thread th: a new millisecond, or that of a
\* call, or of an answer being dealt with, of the same moment.
Now(th, s) ==
  \/ Fresh(s) /\ UNCHANGED faults
  \/ /\ s = loop \/ \E u \in Threads \ {th} : call[u].stamp = s
     /\ s # NoStamp /\ Fault("tick")

\* sendSyncMsg puts a new future into the cache, whatever is there.
Place(th, code, arg, s) ==
  /\ call' = [call EXCEPT ![th] = [pc |-> "put", stamp |-> s, code |-> code, arg |-> arg,
                                   ans |-> Null]]
  /\ cache' = [cache EXCEPT ![s] = th]
  /\ UNCHANGED <<wire, loop>>

\* writeAndFlush: on a closed channel its future fails, and nobody looks at it.
Written(m) == sent' = IF up THEN Append(sent, m) ELSE sent

WriteOut(th) ==
  /\ call[th].pc = "put"
  /\ Written([by |-> th, stamp |-> call[th].stamp, code |-> call[th].code,
             arg |-> call[th].arg])
  /\ call' = [call EXCEPT ![th].pc = "sent"]
  /\ UNCHANGED <<cache, back, loop, up, faults>>

\* sendMsg: no future, and an empty dataId.
Post(th, code, arg) ==
  /\ Written([by |-> th, stamp |-> NoStamp, code |-> code, arg |-> arg])
  /\ UNCHANGED <<call, cache, back, loop, up, faults>>

\* The server has taken the head of `sent' and answers it, or does not.
Reply(m, ans) == back' = Append(back, [by |-> m.by, stamp |-> m.stamp, code |-> m.code, ans |-> ans])
Replied(m, ans) ==
  /\ sent # <<>> /\ sent' = Tail(sent)
  /\ \/ Reply(m, ans) /\ UNCHANGED faults
     \/ Fault("silent") /\ UNCHANGED back
  /\ UNCHANGED <<call, cache, loop, up>>
Unanswered ==
  /\ sent # <<>> /\ sent' = Tail(sent)
  /\ UNCHANGED <<call, cache, back, loop, up, faults>>

\* ackSyncMsg, in the event loop: getIfPresent and setResponse.  Nothing that comes
\* between the two could change what they do.
AnyWaiter(s) ==                                          \* mutant: whoever waits
  IF \E th \in Threads : call[th].pc = "sent" /\ call[th].ans = Null
    THEN CHOOSE th \in Threads : call[th].pc = "sent" /\ call[th].ans = Null ELSE Nobody
Waiter(s) == cache[s]

Acknowledge ==
  /\ back # <<>> /\ loop = NoStamp
  /\ LET m == Head(back)
         th == Waiter(m.stamp)
     IN IF th = Nobody THEN UNCHANGED <<call, loop>>
        ELSE /\ call' = [call EXCEPT ![th].ans = m]
             /\ loop' = m.stamp
  /\ back' = Tail(back)
  /\ UNCHANGED <<cache, sent, up, faults>>

\* invalidate: the entry of that key, whoever's it has become.
Invalidate ==
  /\ loop # NoStamp
  /\ cache' = [cache EXCEPT ![loop] = Nobody]
  /\ loop' = NoStamp
  /\ UNCHANGED <<call, wire, faults>>

\* SyncFuture.get is over: with an answer ...
Answered(th) == call[th].pc = "sent" /\ call[th].ans # Null

\* ... or with null after 12000 seconds, when the entry in the cache, put before the wait
\* began, has expired as well.  Giving up on what is still to come is a fault.
Awaited(th) == cache[call[th].stamp] = th /\ \E m \in Pending : m.stamp = call[th].stamp
WaitForever(th) == FALSE                                 \* mutant: get() for get(timeout)
TimedOut(th) == call[th].pc = "sent" /\ call[th].ans = Null /\ ~Awaited(th)
TooLate(th) == call[th].pc = "sent" /\ call[th].ans = Null /\ Awaited(th)

Expire(th) ==
  /\ call' = [call EXCEPT ![th] = NoCall]
  /\ cache' = [cache EXCEPT ![call[th].stamp] = IF @ = th THEN Nobody ELSE @]
  /\ UNCHANGED <<wire, loop>>

\* The caller has its answer in hand and goes on.
Return(th) ==
  /\ call' = [call EXCEPT ![th] = NoCall]
  /\ UNCHANGED <<cache, wire, loop>>

\* The connection ends: the server goes down, or an answer is larger than the 131072 bytes
\* of HttpObjectAggregator.  connect is called once, when the client starts.
Close ==
  /\ up /\ Fault("close")
  /\ up' = FALSE /\ sent' = <<>> /\ back' = <<>>
  /\ UNCHANGED <<call, cache, loop>>

----------------------------------------------------------------------------
(* The abstract specification *)

Waiting(th) == call[th].pc \in {"put", "sent"} /\ call[th].ans = Null

Requests == [by : Threads, stamp : Stamps, code : Codes]
Same(m, r) == m.by = r.by /\ m.stamp = r.stamp /\ m.code = r.code
Count(queue, r) == Cardinality({i \in DOMAIN queue : Same(queue[i], r)})
Unwritten(r) == IF call[r.by].pc = "put" /\ call[r.by].stamp = r.stamp /\ call[r.by].code = r.code
                  THEN 1 ELSE 0

Open == [th \in Threads |-> IF Waiting(th) THEN {call[th].stamp} ELSE {}]
From == [th \in Threads |-> call[th].ans.by]
Flight == [r \in Requests |-> Unwritten(r) + Count(sent, r) + Count(back, r)]

Abstract == INSTANCE Calls WITH open <- Open, from <- From, flight <- Flight
=============================================================================
