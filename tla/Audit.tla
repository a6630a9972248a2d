------------------------------- MODULE Audit -------------------------------
(***************************************************************************)
(* The audit of one file at a time: the client's AuditService, which asks  *)
(* for an audit and then polls for its end, and the handlers of the two    *)
(* SSPs' AuditService.  The SSP that the client talks to publishes a       *)
(* challenge and calls the other SSP's doProof, which calls back doVerify; *)
(* each call waits for the next, so an audit is one chain of steps, run by *)
(* the handler of the client's connection.  MySQL, Redis and the ledger    *)
(* are the same for both SSPs; the blocks that are read are the copies on  *)
(* the other SSP.                                                          *)
(*                                                                         *)
(* The requests of one connection are handled in order.  A client that     *)
(* restarts opens a new one, and what runs on the old one goes on.         *)
(*                                                                         *)
(* A block index is a number from 1 (ai); a proof is the set of indices    *)
(* summed up and whether their blocks had the right content, and it is     *)
(* accepted when the verifier sums up the same set and all were right.     *)
(***************************************************************************)
EXTENDS Integers, Sequences, FiniteSets

CONSTANTS
  Users,      \* the users, one client each
  Files,      \* file flags t
  Blocks,     \* Blocks[f]: the number of blocks of f
  Audited,    \* Audited[u]: the files u owns and may audit
  Faults,     \* the faults that may happen, of FaultKinds
  MaxAudits,  \* bound: audits a user asks for
  MaxFaults,  \* bound: faults of one kind
  MaxKinds    \* bound: kinds of faults in one behaviour

\* fail: a handler ends at any step (ledger, network, Redis or a crash of an SSP);
\* restart: of a client; damage: of a block; expiry: Redis drops the shared set
\* while an audit of the file is going on, and not only when none is; double: a user
\* clicks on a file without a wait file while a thread of doAudit is at that file.
FaultKinds == {"fail", "restart", "damage", "expiry", "double"}

ASSUME AuditAssumption ==
  /\ Blocks \in [Files -> Nat \ {0}]
  /\ Audited \in [Users -> SUBSET Files]
  /\ Files # {}
  /\ Faults \subseteq FaultKinds
  /\ {MaxAudits, MaxFaults, MaxKinds} \subseteq Nat

VARIABLES
  wait,    \* wait[u]: the files with a file in u's directory waitaudit
  text,    \* text[u][f]: what is in that file, write by write
  click,   \* click[u][f]: threads of doAudit that have checked for the wait file
  sent,    \* sent[u][f]: those that have sent the request and have not created it
  writer,  \* writer[u][f][s]: those at step s of writing it
  poll,    \* poll[u]: the thread of isAuditFin, one wait file at a time
  logs,    \* logs[u]: entries of u's directory auditlog
  inbox,   \* inbox[k]: requests sent on connection k and not yet handled
  conn,    \* conn[u]: the number of u's connection
  job,     \* job[k]: the handler that serves connection k
  ledger,  \* audit assets on the chain
  list,    \* list[u][f]: the Redis list SHA(t)-userFlag
  marked,  \* marked[f]: the Redis set t+audit, the indices checked lately
  ttl,     \* ttl[f]: that set has a time to live
  store,   \* store[f][i]: the other SSP's copy of block i of f
  started, \* started[u]: audits u has asked for
  early,   \* history, early[u]: the files whose wait file a poll has read too early
  faults   \* faults[k]: faults of kind k so far

threads == <<click, sent, writer>>
disk    == <<wait, text, logs>>
client  == <<threads, disk, poll>>
net     == <<inbox, conn>>
redis   == <<list, marked, ttl>>
bounds  == <<started, early, faults>>
vars    == <<client, net, job, ledger, redis, store, bounds>>

Conns == Users \X (0 .. MaxFaults)
Line(u) == <<u, conn[u]>>
Index(f) == 1 .. Blocks[f]
User(k) == k[1]

NoProof == [over |-> {}, intact |-> FALSE]
Blank == [audit |-> <<CHOOSE u \in Users : TRUE, 0>>, kind |-> "challenge",
          file |-> CHOOSE f \in Files : TRUE, chall |-> {}, proof |-> NoProof, result |-> 2]
Free == [pc |-> "free", asset |-> Blank, kept |-> {}, marks |-> {}, ids |-> <<>>]
Quiet == [pc |-> "idle", file |-> CHOOSE f \in Files : TRUE, ids |-> <<>>, read |-> 0]

\* doAudit after createNewFile, after the FileWriter is open, after the date and after
\* the file's name are written.
WriteSteps == {"created", "open", "dated", "named"}

Init ==
  /\ wait = [u \in Users |-> {}] /\ text = [u \in Users |-> [f \in Files |-> <<>>]]
  /\ click = [u \in Users |-> [f \in Files |-> 0]]
  /\ sent = [u \in Users |-> [f \in Files |-> 0]]
  /\ writer = [u \in Users |-> [f \in Files |-> [s \in WriteSteps |-> 0]]]
  /\ poll = [u \in Users |-> Quiet] /\ logs = [u \in Users |-> {}]
  /\ inbox = [k \in Conns |-> <<>>] /\ conn = [u \in Users |-> 0]
  /\ job = [k \in Conns |-> Free]
  /\ ledger = {}
  /\ list = [u \in Users |-> [f \in Files |-> <<>>]]
  /\ marked = [f \in Files |-> {}] /\ ttl = [f \in Files |-> FALSE]
  /\ store = [f \in Files |-> [i \in Index(f) |-> "good"]]
  /\ started = [u \in Users |-> 0] /\ early = [u \in Users |-> {}]
  /\ faults = [k \in FaultKinds |-> 0]

Fault(kind) == /\ kind \in Faults /\ faults[kind] < MaxFaults
               /\ Cardinality({k \in FaultKinds : faults[k] > 0} \cup {kind}) <= MaxKinds
               /\ faults' = [faults EXCEPT ![kind] = @ + 1]
At(k, pc) == job[k].pc = pc
File(k) == job[k].asset.file
Chall(k) == job[k].asset.chall
Become(k, j) == job' = [job EXCEPT ![k] = j]
Goto(k, pc) == Become(k, [job[k] EXCEPT !.pc = pc])
Stop(k) == Become(k, Free)
Send(u, kind, f) == inbox' = [inbox EXCEPT ![Line(u)] = Append(@, [kind |-> kind, file |-> f])]

\* An asset's id: of which audit, and what kind of asset it is.
FileOf(a) == a.file                                      \* mutant: getString("t") for "id"
Id(a) == [audit |-> a.audit, kind |-> a.kind]
Push(k, id) == list' = [list EXCEPT ![User(k)][File(k)] = Append(@, id)]

----------------------------------------------------------------------------
(* The client *)

Writing(u, f) == \E s \in WriteSteps : writer[u][f][s] > 0
Open(u, f) == \E s \in WriteSteps \ {"created"} : writer[u][f][s] > 0

\* doAudit: with a wait file there, it only says that the file is being audited.
Submit(u) ==
  /\ started[u] < MaxAudits
  /\ started' = [started EXCEPT ![u] = @ + 1]
  /\ \E f \in Audited[u] \ wait[u] :
       /\ IF click[u][f] + sent[u][f] = 0 /\ ~Writing(u, f) THEN UNCHANGED faults
          ELSE Fault("double")
       /\ click' = [click EXCEPT ![u][f] = @ + 1]
  /\ UNCHANGED <<sent, writer, disk, poll, net, job, ledger, redis, store, early>>

\* The request goes out first, and the wait file is created after.
Request(u) ==
  /\ \E f \in Files :
       /\ click[u][f] > 0
       /\ click' = [click EXCEPT ![u][f] = @ - 1]
       /\ sent' = [sent EXCEPT ![u][f] = @ + 1]
       /\ Send(u, "publish", f)
  /\ UNCHANGED <<writer, disk, poll, conn, job, ledger, redis, store, bounds>>

CreateWait(u) ==
  /\ \E f \in Files :
       /\ sent[u][f] > 0
       /\ sent' = [sent EXCEPT ![u][f] = @ - 1]
       /\ writer' = [writer EXCEPT ![u][f]["created"] = @ + 1]
       /\ wait' = [wait EXCEPT ![u] = @ \cup {f}]
  /\ UNCHANGED <<click, text, logs, poll, net, job, ledger, redis, store, bounds>>

\* A thread of doAudit goes on with the wait file of f.
WriterMoves(u, f, from, to) ==
  /\ writer[u][f][from] > 0
  /\ writer' = [writer EXCEPT ![u][f][from] = @ - 1, ![u][f][to] = @ + 1]

\* The FileWriter appends, and creates the file once more when it is gone.
OpenWait(u, f) ==
  /\ WriterMoves(u, f, "created", "open")
  /\ wait' = [wait EXCEPT ![u] = @ \cup {f}] /\ UNCHANGED text

\* Each of the two writes is flushed by itself.
WriteDate(u, f) ==
  /\ WriterMoves(u, f, "open", "dated")
  /\ text' = [text EXCEPT ![u][f] = Append(@, "date")] /\ UNCHANGED wait

WriteName(u, f) ==
  /\ WriterMoves(u, f, "dated", "named")
  /\ text' = [text EXCEPT ![u][f] = Append(@, "name")] /\ UNCHANGED wait

CloseWait(u, f) ==
  /\ writer[u][f]["named"] > 0
  /\ writer' = [writer EXCEPT ![u][f]["named"] = @ - 1]
  /\ UNCHANGED <<wait, text>>

FillWait(u) ==
  /\ \E f \in Files : OpenWait(u, f) \/ WriteDate(u, f) \/ WriteName(u, f) \/ CloseWait(u, f)
  /\ UNCHANGED <<click, sent, logs, poll, net, job, ledger, redis, store, bounds>>

\* isAuditFin, every 30 seconds from the page: asks for each wait file in turn.
AskFin(u, f) ==
  /\ poll[u].pc = "idle" /\ f \in wait[u]
  /\ poll' = [poll EXCEPT ![u] = [Quiet EXCEPT !.pc = "asked", !.file = f]]
  /\ Send(u, "isfin", f)
  /\ UNCHANGED <<threads, disk, conn, job, ledger, redis, store, bounds>>

\* What readLine returns of what is not read yet: the date ends its line, the name does
\* not, and nothing is left at the end of what has been written.
Unread(u) == LET t == text[u][poll[u].file] IN SubSeq(t, poll[u].read + 1, Len(t))
FirstLine(t) ==
  LET dates == {i \in DOMAIN t : t[i] = "date"} IN
    IF dates = {} THEN t ELSE SubSeq(t, 1, CHOOSE i \in dates : \A j \in dates : i <= j)

\* The first line is taken for the date.
ReadDate(u) ==
  LET f == poll[u].file IN
  /\ poll[u].pc = "finished"
  /\ poll' = [poll EXCEPT ![u].pc = "reading", ![u].read = Len(FirstLine(Unread(u)))]
  /\ early' = IF Writing(u, f) \/ text[u][f] # <<"date", "name">>
                THEN [early EXCEPT ![u] = @ \cup {f}] ELSE early
  /\ UNCHANGED <<threads, disk, net, job, ledger, redis, store, started, faults>>

\* Each further line is the name of a file to log the audit for; what is no file's name
\* ends up where nobody looks.
WriteLog(u) ==
  LET line == FirstLine(Unread(u)) IN
  /\ poll[u].pc = "reading" /\ Unread(u) # <<>>
  /\ logs' = IF line = <<"name">>
               THEN [logs EXCEPT ![u] = @ \cup {[file |-> poll[u].file, ids |-> poll[u].ids]}]
               ELSE logs
  /\ poll' = [poll EXCEPT ![u].read = @ + Len(line)]
  /\ UNCHANGED <<threads, wait, text, net, job, ledger, redis, store, bounds>>

\* At the end of what there is the file is deleted; while a FileWriter has it open that
\* fails (TempSys.USER_URL and the paths are those of Windows), and nobody notices.
DeleteWait(u) ==
  LET f == poll[u].file IN
  /\ poll[u].pc = "reading" /\ Unread(u) = <<>>
  /\ IF Open(u, f) THEN UNCHANGED <<wait, text>>
     ELSE wait' = [wait EXCEPT ![u] = @ \ {f}] /\ text' = [text EXCEPT ![u][f] = <<>>]
  /\ poll' = [poll EXCEPT ![u] = Quiet]
  /\ UNCHANGED <<threads, logs, net, job, ledger, redis, store, bounds>>

----------------------------------------------------------------------------
(* publishChall, on the SSP the client talks to *)

\* The next request of the connection.
Receive(k) ==
  /\ At(k, "free") /\ inbox[k] # <<>>
  /\ inbox' = [inbox EXCEPT ![k] = Tail(@)]
  /\ LET req == Head(inbox[k]) IN
       Become(k, [Free EXCEPT !.pc = IF req.kind = "publish" THEN "publish" ELSE "range",
                              !.asset = [Blank EXCEPT !.file = req.file]])
  /\ UNCHANGED <<client, conn, ledger, redis, store, bounds>>

\* ReadFileAsset finds the user's own asset; z, r1 and r2 fix the set of indices.
PublishChall(k) ==
  /\ At(k, "publish")
  /\ \E S \in (SUBSET Index(File(k))) \ {{}} :
       LET mine == {a \in ledger : a.audit[1] = User(k) /\ a.kind = "challenge"}
           asset == [job[k].asset EXCEPT !.audit = <<User(k), Cardinality(mine) + 1>>,
                                         !.chall = S]
       IN /\ ledger' = ledger \cup {asset}
          /\ Become(k, [job[k] EXCEPT !.pc = "push", !.asset = asset])
  /\ UNCHANGED <<client, net, redis, store, bounds>>

PushChallenge(k) ==
  /\ At(k, "push")
  /\ Push(k, Id(job[k].asset))
  /\ Goto(k, "exempt")
  /\ UNCHANGED <<client, net, ledger, marked, ttl, store, bounds>>

(* doProof, on the other SSP *)

\* Indices in the shared set are left out.  With none left the sum is null, an
\* exception: no proof, no verdict, and the publisher answers all the same.
ReadExempt(k) ==
  /\ At(k, "exempt")
  /\ LET kept == Chall(k) \ marked[File(k)] IN
       IF kept = {} THEN Stop(k)
       ELSE Become(k, [job[k] EXCEPT !.pc = "read", !.kept = kept])
  /\ UNCHANGED <<client, net, ledger, redis, store, bounds>>

\* A missing block file is an exception too.
ReadBlocks(k) ==
  /\ At(k, "read")
  /\ LET copy == store[File(k)] IN
       IF \E i \in job[k].kept : copy[i] = "missing" THEN Stop(k)
       ELSE Become(k, [job[k] EXCEPT !.pc = "prove", !.kept = {},
              !.asset.kind = "proof",
              !.asset.proof = [over |-> job[k].kept,
                               intact |-> \A i \in job[k].kept : copy[i] = "good"]])
  /\ UNCHANGED <<client, net, ledger, redis, store, bounds>>

PublishProof(k) ==
  /\ At(k, "prove")
  /\ ledger' = ledger \cup {job[k].asset}
  /\ Goto(k, "verify")
  /\ UNCHANGED <<client, net, redis, store, bounds>>

(* doVerify, on the first SSP again *)

\* The shared set is read a second time, for the indices of the challenge not in it.
WholeChallenge(k) == Chall(k)                            \* mutant: the shared set ignored
Unmarked(k) == Chall(k) \ marked[File(k)]

ReadMarks(k) ==
  /\ At(k, "verify")
  /\ Become(k, [job[k] EXCEPT !.pc = "mark", !.marks = marked[File(k)],
                              !.kept = Unmarked(k)])
  /\ UNCHANGED <<client, net, ledger, redis, store, bounds>>

\* The set is new, and gets a time to live, when it was empty as it was read.
NotNew(k) == job[k].marks # {}                           \* mutant: != for ==
New(k) == job[k].marks = {}

WholeFile(k) == Index(File(k))                           \* mutant: all blocks of the file
Checked(k) == job[k].kept

\* SADD of nothing is an error.
AddMarks(k) ==
  /\ At(k, "mark")
  /\ IF job[k].kept = {} THEN Stop(k) /\ UNCHANGED marked
     ELSE /\ marked' = [marked EXCEPT ![File(k)] = @ \cup Checked(k)]
          /\ Goto(k, IF New(k) THEN "expire" ELSE "judge")
  /\ UNCHANGED <<client, net, ledger, list, ttl, store, bounds>>

\* EXPIRE does nothing to a key that is gone.
SetExpire(k) ==
  /\ At(k, "expire")
  /\ ttl' = [ttl EXCEPT ![File(k)] = marked[File(k)] # {}]
  /\ Goto(k, "judge")
  /\ UNCHANGED <<client, net, ledger, list, marked, store, bounds>>

\* The pairings, here and once more in the chaincode.
SameBlocks(k) == job[k].asset.proof.over = job[k].kept   \* mutant: whatever was read
Accepted(k) == job[k].asset.proof = [over |-> job[k].kept, intact |-> TRUE]

PublishResult(k) ==
  /\ At(k, "judge")
  /\ ledger' = ledger \cup {[job[k].asset EXCEPT !.kind = "result",
                                                 !.result = IF Accepted(k) THEN 1 ELSE 0]}
  /\ Goto(k, "pushProof")
  /\ UNCHANGED <<client, net, redis, store, bounds>>

PushProof(k) ==
  /\ At(k, "pushProof")
  /\ Push(k, Id(job[k].asset))
  /\ Goto(k, "pushResult")
  /\ UNCHANGED <<client, net, ledger, marked, ttl, store, bounds>>

PushResult(k) ==
  /\ At(k, "pushResult")
  /\ Push(k, [Id(job[k].asset) EXCEPT !.kind = "result"])
  /\ Stop(k)
  /\ UNCHANGED <<client, net, ledger, marked, ttl, store, bounds>>

----------------------------------------------------------------------------
(* isAuditFin *)

\* The answer goes to the thread that asked, if the connection is still there.
Answer(k, pc, ids) ==
  poll' = IF k = Line(User(k)) /\ poll[User(k)].pc = "asked"
            THEN [poll EXCEPT ![User(k)].pc = pc, ![User(k)].ids = ids]
            ELSE poll

\* Three ids are a finished audit (1024), any other number is not (1023).
TwoIds(ids) == Len(ids) = 2                              \* mutant: off by one
AnyIds(ids) == ids # <<>>                                \* mutant: not empty
AllIds(ids) == Len(ids) = 3

ReadList(k) ==
  /\ At(k, "range")
  /\ LET ids == list[User(k)][File(k)] IN
       IF AllIds(ids)
         THEN Become(k, [job[k] EXCEPT !.pc = "clear", !.ids = ids]) /\ UNCHANGED poll
         ELSE Stop(k) /\ Answer(k, "idle", <<>>)
  /\ UNCHANGED <<threads, disk, net, ledger, redis, store, bounds>>

KeepList(k) ==                                           \* mutant: no delete
  /\ At(k, "clear")
  /\ Answer(k, "finished", job[k].ids)
  /\ Stop(k)
  /\ UNCHANGED <<threads, disk, net, ledger, redis, store, bounds>>

ClearList(k) ==
  /\ At(k, "clear")
  /\ list' = [list EXCEPT ![User(k)][File(k)] = <<>>]
  /\ Answer(k, "finished", job[k].ids)
  /\ Stop(k)
  /\ UNCHANGED <<threads, disk, net, ledger, marked, ttl, store, bounds>>

----------------------------------------------------------------------------
(* Faults and the passing of time *)

\* A request that is not answered keeps its thread waiting, then gives it null.
Fail(k) ==
  /\ ~At(k, "free") /\ Fault("fail")
  /\ Stop(k)
  /\ IF job[k].pc \in {"range", "clear"} THEN Answer(k, "idle", <<>>) ELSE UNCHANGED poll
  /\ UNCHANGED <<threads, disk, net, ledger, redis, store, started, early>>

\* What the server has received of the old connection it still handles.
Restart(u) ==
  /\ Fault("restart")
  /\ click' = [click EXCEPT ![u] = [f \in Files |-> 0]]
  /\ sent' = [sent EXCEPT ![u] = [f \in Files |-> 0]]
  /\ writer' = [writer EXCEPT ![u] = [f \in Files |-> [s \in WriteSteps |-> 0]]]
  /\ poll' = [poll EXCEPT ![u] = Quiet]
  /\ conn' = [conn EXCEPT ![u] = @ + 1]
  /\ \E n \in 0 .. Len(inbox[Line(u)]) :
       inbox' = [inbox EXCEPT ![Line(u)] = SubSeq(@, 1, n)]
  /\ UNCHANGED <<disk, job, ledger, redis, store, started, early>>

Damage ==
  /\ Fault("damage")
  /\ \E f \in Files : \E i \in Index(f) : \E s \in {"damaged", "missing"} :
       /\ store[f][i] = "good"
       /\ store' = [store EXCEPT ![f][i] = s]
  /\ UNCHANGED <<client, net, job, ledger, redis, started, early>>

\* After two hours the shared set is gone.
Expire(f) ==
  /\ ttl[f]
  /\ \/ (\A k \in Conns : At(k, "free") \/ File(k) # f) /\ UNCHANGED faults
     \/ Fault("expiry")
  /\ marked' = [marked EXCEPT ![f] = {}] /\ ttl' = [ttl EXCEPT ![f] = FALSE]
  /\ UNCHANGED <<client, net, job, ledger, list, store, started, early>>

----------------------------------------------------------------------------
DoAudit(u) == Request(u) \/ CreateWait(u) \/ FillWait(u)
HandleFin(u) == ReadDate(u) \/ WriteLog(u) \/ DeleteWait(u)
Client(u) == DoAudit(u) \/ HandleFin(u) \/ \E f \in Files : AskFin(u, f)

Serve(k) ==
  \/ Receive(k) \/ PublishChall(k) \/ PushChallenge(k)
  \/ ReadExempt(k) \/ ReadBlocks(k) \/ PublishProof(k)
  \/ ReadMarks(k) \/ AddMarks(k) \/ SetExpire(k) \/ PublishResult(k)
  \/ PushProof(k) \/ PushResult(k)
  \/ ReadList(k) \/ ClearList(k)

AtRest ==
  /\ \A u \in Users : /\ poll[u].pc = "idle"
                      /\ \A f \in Files : click[u][f] + sent[u][f] = 0 /\ ~Writing(u, f)
  /\ \A k \in Conns : At(k, "free") /\ inbox[k] = <<>>

\* Every audit asked for is done and the users have used up theirs: no deadlock,
\* but the bound.
Finished ==
  /\ AtRest /\ \A u \in Users : wait[u] = {} /\ started[u] = MaxAudits
  /\ UNCHANGED vars

Next ==
  \/ \E u \in Users : Submit(u) \/ Client(u) \/ Restart(u)
  \/ \E k \in Conns : Serve(k) \/ Fail(k)
  \/ Damage
  \/ \E f \in Files : Expire(f)
  \/ Finished

Spec == Init /\ [][Next]_vars

\* The servers go on with what they have and a client with what it has begun; the
\* page polls again and again, and a poll goes through all wait files.  No user has
\* to audit and nothing has to expire.
FairSpec ==
  /\ Spec
  /\ \A u \in Users : /\ WF_vars(DoAudit(u)) /\ WF_vars(HandleFin(u))
                      /\ \A f \in Files : SF_vars(AskFin(u, f))
  /\ \A k \in Conns : WF_vars(Serve(k))

----------------------------------------------------------------------------
(* Properties *)

JobPcs == {"free", "publish", "push", "exempt", "read", "prove", "verify", "mark", "expire",
           "judge", "pushProof", "pushResult", "range", "clear"}
Indices == UNION {Index(f) : f \in Files}
Kinds == {"challenge", "proof", "result"}
Audits == Users \X Nat
Ids == [audit : Audits, kind : Kinds]
Assets == [audit : Audits, kind : Kinds, file : Files, chall : SUBSET Indices,
           proof : [over : SUBSET Indices, intact : BOOLEAN], result : 0 .. 2]
Jobs == [pc : JobPcs, asset : Assets, kept : SUBSET Indices, marks : SUBSET Indices,
         ids : Seq(Ids)]

\* The types of the files, queues, stores and the handlers' locals.
TypeOK ==
  /\ wait \in [Users -> SUBSET Files] /\ text \in [Users -> [Files -> Seq({"date", "name"})]]
  /\ click \in [Users -> [Files -> Nat]] /\ sent \in [Users -> [Files -> Nat]]
  /\ writer \in [Users -> [Files -> [WriteSteps -> Nat]]]
  /\ poll \in [Users -> [pc : {"idle", "asked", "finished", "reading"}, file : Files,
                         ids : Seq(Ids), read : Nat]]
  /\ logs \in [Users -> SUBSET [file : Files, ids : Seq(Ids)]]
  /\ inbox \in [Conns -> Seq([kind : {"publish", "isfin"}, file : Files])]
  /\ conn \in [Users -> Nat] /\ \A u \in Users : conn[u] <= faults["restart"]
  /\ job \in [Conns -> Jobs]
  /\ ledger \subseteq Assets /\ IsFiniteSet(ledger)
  /\ list \in [Users -> [Files -> Seq(Ids)]]
  /\ marked \in [Files -> SUBSET Indices] /\ ttl \in [Files -> BOOLEAN]
  /\ DOMAIN store = Files
  /\ \A f \in Files : store[f] \in [Index(f) -> {"good", "damaged", "missing"}]
  /\ started \in [Users -> Nat] /\ early \in [Users -> SUBSET Files]
  /\ faults \in [FaultKinds -> 0 .. MaxFaults]

Proven(f, i) == \E p \in ledger : p.kind = "proof" /\ p.file = f /\ i \in p.proof.over

\* Sharing exempts a block from audits only when a proof over it is on the chain,
\* whoever's audit that was and whatever became of it (doVerify adds to the shared
\* set the indices it has read the set again for, not those the prover summed up).
MarksProven == \A f \in Files : \A i \in marked[f] : Proven(f, i)

\* A verdict of 1 is over the whole challenge: each of its blocks is in a proof of
\* this or of another audit, and this audit's own proof was computed from the right
\* bytes.
VerdictSound ==
  \A r \in ledger : r.kind = "result" /\ r.result = 1 =>
    r.proof.intact /\ \A i \in r.chall : Proven(r.file, i)

\* Another user's audit of f has proved block i.
ProvenElse(f, u, i) ==
  \E p \in ledger : p.kind = "proof" /\ p.file = f /\ p.audit[1] # u /\ i \in p.proof.over

\* An SSP that has kept all challenged blocks is found to have lost one only where users
\* share the file and one of the blocks this audit proved was proved by another's too:
\* it was marked between the prover's and the verifier's reading of the shared set.
NoFalseAccusation ==
  \A r \in ledger : r.result = 0 =>
    \/ \E i \in r.chall : store[r.file][i] # "good"
    \/ \E i \in r.proof.over : ProvenElse(r.file, r.audit[1], i)

\* A log entry is the challenge, the proof and the verdict of one audit of that
\* user on that file, in this order (getLogs takes the third id for the verdict).
LogTriples ==
  \A u \in Users : \A e \in logs[u] : \E r \in ledger :
    /\ r.kind = "result" /\ r.file = e.file /\ r.audit[1] = u
    /\ e.ids = <<[Id(r) EXCEPT !.kind = "challenge"], [Id(r) EXCEPT !.kind = "proof"], Id(r)>>

\* Sharing lasts a short time: the shared set has a time to live, or the audit that
\* created it is about to set one.
MarksTimed ==
  \A f \in Files : marked[f] # {} => ttl[f] \/ \E k \in Conns : At(k, "expire") /\ File(k) = f

\* While the shared set is there a block in it is not checked again: a file's block is
\* computed and checked only once within a short time (README line 7).
CheckedOnce ==
  [][\A k \in Conns : At(k, "mark") /\ job'[k].pc \in {"expire", "judge"} =>
       job[k].kept \cap marked[File(k)] = {}]_vars

\* A block that is checked again while it is in the shared set was not in it when the
\* prover read the set: another user's audit of the file, at the same time, has proved it
\* and put it there since.
CheckedAgain ==
  [][\A k \in Conns : At(k, "mark") /\ job'[k].pc \in {"expire", "judge"} =>
       \A i \in job[k].kept \cap marked[File(k)] :
         i \in job[k].asset.proof.over /\ ProvenElse(File(k), User(k), i)]_vars

\* With nothing under way the list of an audit is there to be fetched, whole, for
\* exactly the files that wait for one; but for a file whose wait file a poll has read
\* before it was written and closed, and which waits for a list that is gone.
ListsSettled ==
  AtRest => \A u \in Users, f \in Files :
    \/ Len(list[u][f]) = IF f \in wait[u] THEN 3 ELSE 0
    \/ f \in wait[u] \cap early[u] /\ list[u][f] = <<>>

\* The pairing comes out equal for a proof of the right bytes alone.
Pairs(a) == a.proof.intact
Chain == INSTANCE Ledger WITH assets <- ledger, FileAssets <- {}, AuditAssets <- Assets,
                              Id <- Id, Holds <- Pairs

\* The SSPs use the chain as its chaincode has it: whatever audits overlap, stop halfway or
\* are asked for again, each asset gets a key of its own, none is changed or removed, and
\* the verdict an SSP files is one that the chaincode's own check lets through
\* (AssetTransfer.CreateAuditAsset).
OnChain == Chain!Spec

\* Each audit that is asked for ends with an entry of its own in the user's log
\* (AuditService.doAudit line 70: audit under way, look at the records later), unless a
\* poll has read a wait file before doAudit had written and closed it.
AuditLoggedUnlessEarly ==
  \A u \in Users : \A n \in 1 .. MaxAudits :
    started[u] = n ~> Cardinality(logs[u]) >= n \/ early[u] # {}
=============================================================================
