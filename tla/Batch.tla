------------------------------- MODULE Batch -------------------------------
(***************************************************************************)
(* The audit of several files at once: doBatchAudit and the polling of the *)
(* client, and doBatchPublishChallen, doBatchProof and doBatchVerify of    *)
(* the SSPs' AuditService with the callables they fork.  A handler submits *)
(* one task for each file to its SSP's pool, waits for them one after the  *)
(* other, publishes what they found and calls the other SSP, which does    *)
(* the same and calls back.  A call waits in a thread of the web server    *)
(* until it is answered.                                                   *)
(*                                                                         *)
(* A batch is the sequence of its files.  The callables set the seed anew  *)
(* in every round, so a file's challenge is one block, drawn z times.      *)
(***************************************************************************)
EXTENDS Integers, Sequences, FiniteSets

CONSTANTS
  Users,        \* the users, one client and one connection each
  Files,        \* file flags t
  Blocks,       \* Blocks[f]: the number of blocks of f
  Home,         \* Home[u]: the SSP, 1 or 2, that u's client talks to
  Batches,      \* Batches[u]: the batches u may ask for
  Refused,      \* Refused[u]: files for which u names an asset of somebody else
  PoolThreads,  \* threads of an SSP's executor, SystemConfig.threadNum
  HttpThreads,  \* threads of an SSP's web server
  Faults,       \* the faults that may happen, of FaultKinds
  Fragile,      \* bound: the files whose blocks may be damaged
  MaxBatches,   \* bound: batches a user asks for
  MaxFaults     \* bound: faults

\* ledger: a transaction fails; damage: of a block on either SSP.
FaultKinds == {"ledger", "damage"}
Ssps == {1, 2}
Keys == UNION {[1 .. n -> Files] : n \in 0 .. Cardinality(Files)}

ASSUME BatchAssumption ==
  /\ IsFiniteSet(Files) /\ Files # {}
  /\ Blocks \in [Files -> Nat \ {0}]
  /\ Home \in [Users -> Ssps]
  /\ Batches \in [Users -> SUBSET (Keys \ {<<>>})]
  /\ Refused \in [Users -> SUBSET Files]
  /\ {PoolThreads, HttpThreads} \subseteq Nat \ {0}
  /\ Faults \subseteq FaultKinds /\ Fragile \subseteq Files
  /\ {MaxBatches, MaxFaults} \subseteq Nat

VARIABLES
  wait,     \* wait[u]: the batches with a file in u's directory waitaudit
  text,     \* text[u][b]: the lines written to that file: the date, then b's files
  sent,     \* sent[u]: batches asked for whose wait file is not there yet
  writer,   \* writer[u]: the thread of doBatchAudit that writes a wait file
  poll,     \* poll[u]: the thread of isAuditFin, one wait file at a time
  logs,     \* logs[u]: entries of u's directory auditlog
  inbox,    \* inbox[u]: requests sent and not yet handled
  job,      \* job[u]: the chain of handlers that serves u's connection
  queue,    \* queue[s]: the tasks that wait for a thread of the pool of SSP s
  running,  \* running[s]: the tasks that have one
  ledger,   \* audit assets on the chain
  list,     \* list[u][ts]: the Redis list SHA(ts)-userFlag
  store,    \* store[s][f][i]: the copy of block i of f on SSP s
  started,  \* started[u]: batches u has asked for
  early,    \* history, early[u]: the batches whose wait file a poll has read too early
  faults    \* faults so far

client == <<wait, text, sent, writer, poll, logs>>
pool   == <<queue, running>>
bounds == <<started, early, faults>>
vars   == <<client, inbox, job, pool, ledger, list, store, bounds>>

Index(f) == 1 .. Blocks[f]
Other(s) == 3 - s
Stages == <<"challenge", "proof", "result">>

NoProof == [file |-> CHOOSE f \in Files : TRUE, block |-> 0, intact |-> FALSE]
Draft == [audit |-> <<CHOOSE u \in Users : TRUE, 0>>, kind |-> "challenge", ts |-> <<>>, blocks |-> <<>>, proofs |-> <<>>,
          result |-> 2]
Free == [pc |-> "free", no |-> 0, stage |-> "challenge", batch |-> <<>>, asset |-> Draft,
         futures |-> {}, outs |-> <<>>, ids |-> <<>>]
Quiet == [pc |-> "idle", batch |-> <<>>, ids |-> <<>>, read |-> 0]
NoWriter == [pc |-> "none", batch |-> <<>>]

Init ==
  /\ wait = [u \in Users |-> {}] /\ text = [u \in Users |-> [k \in Keys |-> 0]]
  /\ sent = [u \in Users |-> {}] /\ writer = [u \in Users |-> NoWriter]
  /\ poll = [u \in Users |-> Quiet] /\ logs = [u \in Users |-> {}]
  /\ inbox = [u \in Users |-> <<>>]
  /\ job = [u \in Users |-> Free]
  /\ queue = [s \in Ssps |-> <<>>] /\ running = [s \in Ssps |-> {}]
  /\ ledger = {}
  /\ list = [u \in Users |-> [k \in Keys |-> <<>>]]
  /\ store = [s \in Ssps |-> [f \in Files |-> [i \in Index(f) |-> "good"]]]
  /\ started = [u \in Users |-> 0] /\ early = [u \in Users |-> {}]
  /\ faults = 0

Fault(kind) == kind \in Faults /\ faults < MaxFaults /\ faults' = faults + 1
At(u, pc) == job[u].pc = pc
In(u, stage) == job[u].stage = stage
Become(u, j) == job' = [job EXCEPT ![u] = j]
Goto(u, pc) == Become(u, [job[u] EXCEPT !.pc = pc])
Stop(u) == Become(u, Free)
\* A batch that is asked for has a number, which its handlers and their tasks bear too.
Send(u, kind, b, n) ==
  inbox' = [inbox EXCEPT ![u] = Append(@, [kind |-> kind, batch |-> b, no |-> n])]
Id(u, kind) == [audit |-> job[u].asset.audit, kind |-> kind]
PushAsked(u, kind) ==                              \* mutant: the key of the request
  list' = [list EXCEPT ![u][job[u].batch] = Append(@, Id(u, kind))]
Push(u, kind) == list' = [list EXCEPT ![u][job[u].asset.ts] = Append(@, Id(u, kind))]

\* The proof of a batch is computed on the other SSP, the rest at home.
Place(u, stage) == IF stage = "proof" THEN Other(Home[u]) ELSE Home[u]
Here(u) == Place(u, job[u].stage)

\* The handlers of a chain that have a thread: a call keeps the caller's.
Holds(u, stage) ==
  CASE stage = "challenge" -> ~At(u, "free")
    [] stage = "proof"     -> In(u, "result") \/ (In(u, "proof") /\ ~At(u, "call"))
    [] stage = "result"    -> In(u, "result") /\ ~At(u, "call")
Held(s) == {h \in Users \X (1 .. 3) : /\ Place(h[1], Stages[h[2]]) = s
                                     /\ Holds(h[1], Stages[h[2]])}
OneLess(s) == Cardinality(Held(s)) + 1 < HttpThreads       \* mutant: a thread kept back
Enough(s) == Cardinality(Held(s)) < HttpThreads

----------------------------------------------------------------------------
(* The client *)

\* doBatchAudit; one click at a time.
Submit(u) ==
  /\ started[u] < MaxBatches /\ sent[u] = {} /\ writer[u].pc = "none"
  /\ started' = [started EXCEPT ![u] = @ + 1]
  /\ \E b \in Batches[u] \ wait[u] :
       sent' = [sent EXCEPT ![u] = {b}] /\ Send(u, "publish", b, started[u] + 1)
  /\ UNCHANGED <<wait, text, writer, poll, logs, job, pool, ledger, list, store, early, faults>>

CreateWait(u) ==
  /\ \E b \in sent[u] : /\ sent' = [sent EXCEPT ![u] = @ \ {b}]
                        /\ wait' = [wait EXCEPT ![u] = @ \cup {b}]
                        /\ writer' = [writer EXCEPT ![u] = [pc |-> "created", batch |-> b]]
  /\ UNCHANGED <<text, poll, logs, inbox, job, pool, ledger, list, store, bounds>>

\* The FileWriter creates the file once more when it is gone.
OpenWait(u) ==
  /\ writer[u].pc = "created"
  /\ writer' = [writer EXCEPT ![u].pc = "open"]
  /\ wait' = [wait EXCEPT ![u] = @ \cup {writer[u].batch}] /\ UNCHANGED text

\* The date and each of the files are written and flushed by themselves.
Whole(b) == Len(b) + 1
WriteLine(u) ==
  LET b == writer[u].batch IN
  /\ writer[u].pc = "open" /\ text[u][b] < Whole(b)
  /\ text' = [text EXCEPT ![u][b] = @ + 1] /\ UNCHANGED <<wait, writer>>

CloseWait(u) ==
  LET b == writer[u].batch IN
  /\ writer[u].pc = "open" /\ text[u][b] = Whole(b)
  /\ writer' = [writer EXCEPT ![u] = NoWriter] /\ UNCHANGED <<wait, text>>

FillWait(u) ==
  /\ OpenWait(u) \/ WriteLine(u) \/ CloseWait(u)
  /\ UNCHANGED <<sent, poll, logs, inbox, job, pool, ledger, list, store, bounds>>

\* isAuditFin, every 30 seconds from the page.
AskFin(u, b) ==
  /\ poll[u].pc = "idle" /\ b \in wait[u]
  /\ poll' = [poll EXCEPT ![u] = [Quiet EXCEPT !.pc = "asked", !.batch = b]]
  /\ Send(u, "isfin", b, 0)
  /\ UNCHANGED <<wait, text, sent, writer, logs, job, pool, ledger, list, store, bounds>>

Written(u) == text[u][poll[u].batch]
WriterOf(u, b) == writer[u].pc # "none" /\ writer[u].batch = b

\* The first line is taken for the date.
ReadDate(u) ==
  LET b == poll[u].batch IN
  /\ poll[u].pc = "finished"
  /\ poll' = [poll EXCEPT ![u].pc = "reading", ![u].read = IF Written(u) = 0 THEN 0 ELSE 1]
  /\ early' = IF WriterOf(u, b) THEN [early EXCEPT ![u] = @ \cup {b}] ELSE early
  /\ UNCHANGED <<wait, text, sent, writer, logs, inbox, job, pool, ledger, list, store, started, faults>>

\* One entry for each further line; the date, read late, is no file's name.
FirstLine(b, n) == IF n = 2 THEN {b[1]} ELSE {}              \* mutant: one line read
Named(b, n) == IF n > 1 THEN {b[n - 1]} ELSE {}

WriteLog(u) ==
  LET n == poll[u].read + 1 IN
  /\ poll[u].pc = "reading" /\ n <= Written(u)
  /\ logs' = [logs EXCEPT ![u] = @ \cup {[file |-> f, ids |-> poll[u].ids] :
                                           f \in Named(poll[u].batch, n)}]
  /\ poll' = [poll EXCEPT ![u].read = n]
  /\ UNCHANGED <<wait, text, sent, writer, inbox, job, pool, ledger, list, store, bounds>>

\* A file that a FileWriter has open is not deleted, and nobody notices.
DeleteWait(u) ==
  LET b == poll[u].batch IN
  /\ poll[u].pc = "reading" /\ poll[u].read = Written(u)
  /\ IF writer[u] = [pc |-> "open", batch |-> b] THEN UNCHANGED <<wait, text>>
     ELSE wait' = [wait EXCEPT ![u] = @ \ {b}] /\ text' = [text EXCEPT ![u][b] = 0]
  /\ poll' = [poll EXCEPT ![u] = Quiet]
  /\ UNCHANGED <<sent, writer, logs, inbox, job, pool, ledger, list, store, bounds>>

----------------------------------------------------------------------------
(* The handlers *)

Receive(u) ==
  /\ At(u, "free") /\ inbox[u] # <<>> /\ Enough(Home[u])
  /\ inbox' = [inbox EXCEPT ![u] = Tail(@)]
  /\ LET req == Head(inbox[u]) IN
       Become(u, [Free EXCEPT !.pc = IF req.kind = "publish" THEN "fork" ELSE "range",
                              !.no = req.no, !.batch = req.batch])
  /\ UNCHANGED <<client, pool, ledger, list, store, bounds>>

\* What the tasks of a stage are for: the files asked for, or those of the asset.
Items(u) == IF In(u, "challenge") THEN job[u].batch ELSE job[u].asset.ts
Task(u, i) ==
  [user |-> u, no |-> job[u].no, stage |-> job[u].stage, i |-> i, file |-> Items(u)[i],
   block |-> IF In(u, "challenge") THEN 0 ELSE job[u].asset.blocks[i],
   proof |-> IF In(u, "result") THEN job[u].asset.proofs[i] ELSE NoProof]

\* executorService.submit, once for each file, in one step: what the tasks of two
\* handlers do is apart.  An asset without files is split into one empty name whose z
\* is no number: an exception.
Fork(u) ==
  /\ At(u, "fork")
  /\ IF Items(u) = <<>> THEN Stop(u) /\ UNCHANGED queue
     ELSE /\ queue' = [queue EXCEPT ![Here(u)] = @ \o [i \in DOMAIN Items(u) |-> Task(u, i)]]
          /\ Goto(u, "collect")
  /\ UNCHANGED <<client, inbox, running, ledger, list, store, bounds>>

\* The futures in order of submission, up to the first whose task threw: there get
\* throws, and the handler is over, whatever the rest does.
Done(u, i) == \E f \in job[u].futures : f.i = i
Threw(u) == \E f \in job[u].futures : f.out = "thrown" /\ \A i \in 1 .. f.i : Done(u, i)

\* The numbers in S in increasing order.
Rank(S, i) == Cardinality({j \in S : j <= i})
InOrder(S) == [n \in 1 .. Cardinality(S) |-> CHOOSE i \in S : Rank(S, i) = n]

\* What they found, sorted by index; a refused file's is null and left out.
Found(u) == {f \in job[u].futures : f.out # "null"}
Outs(u) == LET order == InOrder({f.i : f \in Found(u)}) IN
             [n \in DOMAIN order |-> CHOOSE f \in Found(u) : f.i = order[n]]

Collect(u) ==
  /\ At(u, "collect")
  /\ \/ Threw(u) /\ Stop(u)
     \/ /\ ~Threw(u) /\ \A i \in DOMAIN Items(u) : Done(u, i)
        /\ Become(u, [job[u] EXCEPT !.pc = "post", !.futures = {}, !.outs = Outs(u)])
  /\ UNCHANGED <<client, inbox, pool, ledger, list, store, bounds>>

\* The next asset of the audit: of the files that were not refused, in their order.
ByPosition(u) == [n \in DOMAIN job[u].outs |-> job[u].batch[n]]    \* mutant: ts.get(i)
ByIndex(u) == [n \in DOMAIN job[u].outs |-> job[u].batch[job[u].outs[n].i]]
Values(u) == [n \in DOMAIN job[u].outs |-> job[u].outs[n].value]

FirstOnly(u) == job[u].outs[1].value                       \* mutant: one file verified
AllEqual(u) == \A n \in DOMAIN job[u].outs : job[u].outs[n].value

Asset(u) ==
  LET a == job[u].asset IN
    CASE In(u, "challenge") ->
           LET mine == {b \in ledger : b.audit[1] = u /\ b.kind = "challenge"} IN
             [a EXCEPT !.audit = <<u, Cardinality(mine) + 1>>, !.ts = ByIndex(u), !.blocks = Values(u)]
      [] In(u, "proof")  -> [a EXCEPT !.kind = "proof", !.proofs = Values(u)]
      [] In(u, "result") -> [a EXCEPT !.kind = "result", !.result = IF AllEqual(u) THEN 1 ELSE 0]

\* CreateAuditAsset: the chaincode checks the verdict of a "batch_result", and this
\* is a "batch_verify".
Post(u) ==
  /\ At(u, "post")
  /\ \/ /\ ledger' = ledger \cup {Asset(u)}
        /\ Become(u, [job[u] EXCEPT !.asset = Asset(u), !.outs = <<>>,
             !.pc = IF In(u, "proof") THEN "call" ELSE "push",
             !.stage = IF In(u, "proof") THEN "result" ELSE @])
        /\ UNCHANGED faults
     \/ Fault("ledger") /\ Stop(u) /\ UNCHANGED ledger
  /\ UNCHANGED <<client, inbox, pool, list, store, started, early>>

\* The challenge's id before the call of the other SSP, the others at the end.
PushChallenge(u) ==
  /\ At(u, "push") /\ In(u, "challenge")
  /\ Push(u, "challenge")
  /\ Become(u, [job[u] EXCEPT !.pc = "call", !.stage = "proof"])
  /\ UNCHANGED <<client, inbox, pool, ledger, store, bounds>>

PushProof(u) ==
  /\ At(u, "push") /\ In(u, "result")
  /\ Push(u, "proof")
  /\ Goto(u, "pushResult")
  /\ UNCHANGED <<client, inbox, pool, ledger, store, bounds>>

PushResult(u) ==
  /\ At(u, "pushResult")
  /\ Push(u, "result")
  /\ Stop(u)
  /\ UNCHANGED <<client, inbox, pool, ledger, store, bounds>>

\* The call of HttpClient gets a thread of the other SSP.
Enter(u) ==
  /\ At(u, "call") /\ Enough(Here(u))
  /\ Goto(u, "fork")
  /\ UNCHANGED <<client, inbox, pool, ledger, list, store, bounds>>

----------------------------------------------------------------------------
(* The pools *)

StartTask(s) ==
  /\ queue[s] # <<>> /\ Cardinality(running[s]) < PoolThreads
  /\ running' = [running EXCEPT ![s] = @ \cup {Head(queue[s])}]
  /\ queue' = [queue EXCEPT ![s] = Tail(@)]
  /\ UNCHANGED <<client, inbox, job, ledger, list, store, bounds>>

\* PublichCallable draws a block of a file whose asset is the user's, else it is null.
DrawsFromZero(t) ==                                        \* mutant: no + 1
  {[i |-> t.i, out |-> "value", value |-> b - 1] : b \in Index(t.file)}
Draws(t) ==
  IF t.file \in Refused[t.user] THEN {[i |-> t.i, out |-> "null", value |-> 0]}
  ELSE {[i |-> t.i, out |-> "value", value |-> b] : b \in Index(t.file)}

\* ProofCallable sums up the block it reads; a missing file is an exception.
Proofs(s, t) ==
  LET copy == store[s][t.file][t.block] IN
    {[i |-> t.i, out |-> IF copy = "missing" THEN "thrown" ELSE "value",
      value |-> [file |-> t.file, block |-> t.block, intact |-> copy = "good"]]}

\* VerifyCallable prepares the pairing for what the tags in the database say.
Pairings(t) ==
  {[i |-> t.i, out |-> "value",
    value |-> t.proof = [file |-> t.file, block |-> t.block, intact |-> TRUE]]}

Outcomes(s, t) == CASE t.stage = "challenge" -> Draws(t)
                    [] t.stage = "proof"     -> Proofs(s, t)
                    [] t.stage = "result"    -> Pairings(t)

\* The future of a handler that is gone is nobody's.
Wanted(t) ==
  LET j == job[t.user] IN
    j.pc = "collect" /\ j.no = t.no /\ j.stage = t.stage

EndTask(s, t) ==
  /\ t \in running[s]
  /\ running' = [running EXCEPT ![s] = @ \ {t}]
  /\ \E done \in Outcomes(s, t) :
       \E end \in {done, [done EXCEPT !.out = "thrown"]} :
         /\ IF end = done THEN UNCHANGED faults ELSE t.stage = "challenge" /\ Fault("ledger")
         /\ job' = IF Wanted(t) THEN [job EXCEPT ![t.user].futures = @ \cup {end}] ELSE job
  /\ UNCHANGED <<client, inbox, queue, ledger, list, store, started, early>>

----------------------------------------------------------------------------
(* isAuditFin, and damage *)

AllIds(ids) == Len(ids) = 3

ReadList(u) ==
  /\ At(u, "range")
  /\ LET ids == list[u][job[u].batch] IN
       IF AllIds(ids)
         THEN Become(u, [job[u] EXCEPT !.pc = "clear", !.ids = ids]) /\ UNCHANGED poll
         ELSE Stop(u) /\ poll' = [poll EXCEPT ![u].pc = "idle"]
  /\ UNCHANGED <<wait, text, sent, writer, logs, inbox, pool, ledger, list, store, bounds>>

ClearList(u) ==
  /\ At(u, "clear")
  /\ list' = [list EXCEPT ![u][job[u].batch] = <<>>]
  /\ poll' = [poll EXCEPT ![u].pc = "finished", ![u].ids = job[u].ids]
  /\ Stop(u)
  /\ UNCHANGED <<wait, text, sent, writer, logs, inbox, pool, ledger, store, bounds>>

Damage ==
  /\ Fault("damage")
  /\ \E s \in Ssps, f \in Fragile : \E i \in Index(f) : \E d \in {"damaged", "missing"} :
       /\ store[s][f][i] = "good"
       /\ store' = [store EXCEPT ![s][f][i] = d]
  /\ UNCHANGED <<client, inbox, job, pool, ledger, list, started, early>>

----------------------------------------------------------------------------
Serve(u) ==
  \/ Fork(u) \/ Collect(u) \/ Post(u)
  \/ PushChallenge(u) \/ PushProof(u) \/ PushResult(u)
  \/ ReadList(u) \/ ClearList(u)

DoBatchAudit(u) == CreateWait(u) \/ FillWait(u)
HandleFin(u) == ReadDate(u) \/ WriteLog(u) \/ DeleteWait(u)

Work(s) == StartTask(s) \/ \E t \in running[s] : EndTask(s, t)

Next ==
  \/ \E u \in Users :
       \/ Submit(u) \/ DoBatchAudit(u) \/ HandleFin(u)
       \/ \E b \in wait[u] : AskFin(u, b)
       \/ Receive(u) \/ Enter(u) \/ Serve(u)
  \/ \E s \in Ssps : Work(s)
  \/ Damage

Spec == Init /\ [][Next]_vars

----------------------------------------------------------------------------
(* Properties *)

Assets == [audit : Users \X Nat, kind : {"challenge", "proof", "result"}, ts : Keys,
           blocks : Seq(Nat \ {0}), proofs : Seq([file : Files, block : Nat, intact : BOOLEAN]),
           result : 0 .. 2]

\* The types of the assets, the tasks and the waiting requests, and the bounds of the
\* pools.
TypeOK ==
  /\ ledger \subseteq Assets
  /\ \A u \in Users : job[u].asset \in Assets
  /\ \A s \in Ssps : /\ Cardinality(running[s]) <= PoolThreads
                     /\ Cardinality(Held(s)) <= HttpThreads
                     /\ \A t \in running[s] : t.file \in Files /\ Place(t.user, t.stage) = s
  /\ \A u \in Users : /\ wait[u] \cup sent[u] \subseteq Batches[u]
                      /\ writer[u].pc # "none" => writer[u].batch \in Batches[u]

\* A challenge is of the files of the request that are the user's, in their order,
\* each with a block of its own, whatever the order in which the callables end and
\* whichever of them are refused.
ChallengeAligned ==
  \A a \in ledger :
    /\ \E b \in Batches[a.audit[1]] : \E p \in [DOMAIN a.ts -> DOMAIN b] :
         /\ \A m, n \in DOMAIN p : m < n => p[m] < p[n]
         /\ {p[n] : n \in DOMAIN p} = {i \in DOMAIN b : b[i] \notin Refused[a.audit[1]]}
         /\ \A n \in DOMAIN p : a.ts[n] = b[p[n]]
    /\ DOMAIN a.blocks = DOMAIN a.ts /\ \A n \in DOMAIN a.ts : a.blocks[n] \in Index(a.ts[n])
    /\ a.kind # "challenge" => \A n \in DOMAIN a.ts :
         a.proofs[n].file = a.ts[n] /\ a.proofs[n].block = a.blocks[n]

\* The one verdict on a batch tells the batches with a damaged block among the
\* challenged ones from those without, as it was when the proofs were computed.
VerdictExact ==
  \A r \in ledger : r.kind = "result" =>
    (r.result = 1 <=> \A n \in DOMAIN r.ts : r.proofs[n].intact)

\* The ids in a list are of assets of its user for exactly the files of its key; three
\* of them are the challenge, the proof and the result of one audit, in this order.
ListsWhole ==
  \A u \in Users : \A k \in Keys : LET ids == list[u][k] IN
    /\ \A n \in DOMAIN ids : \E a \in ledger :
         a.audit = ids[n].audit /\ a.kind = ids[n].kind /\ a.audit[1] = u /\ a.ts = k
    /\ AllIds(ids) => \A n \in 1 .. 3 : ids[n].kind = Stages[n] /\ ids[n].audit = ids[1].audit

\* A call from SSP to SSP is not stuck: where no thread is left for it, one is held
\* by a handler that is not itself waiting for such a call.
CallsGoOn ==
  \A u \in Users : At(u, "call") =>
    Enough(Here(u)) \/ \E v \in Users : ~At(v, "call") /\ \E h \in Held(Here(u)) : h[1] = v

\* A wait file goes only when the log has an entry of the audit the poll was answered with
\* for each file of the batch, unless a poll has read it while doBatchAudit was writing it
\* (doBatchAudit line 128: batch audit under way, look at the records later).
LoggedWhole ==
  [][\A u \in Users : \A b \in wait[u] \ wait'[u] :
       \/ b \in early[u]
       \/ \A n \in DOMAIN b : [file |-> b[n], ids |-> poll[u].ids] \in logs[u]]_vars
=============================================================================
