------------------------------- MODULE Client -------------------------------
(***************************************************************************)
(* Uploads and downloads as the client runs them: FileService.upload,      *)
(* write, isExist and download, each by a thread of the client's own web   *)
(* page, all with one object SysParam for the key sk and the flag t of     *)
(* "the" file, one connection and one cache of calls (SyncCall).           *)
(*                                                                         *)
(* Dedup has the server's handlers in detail and a client that is one      *)
(* sequential process; here it is the client that is taken apart, and the  *)
(* server answers in one step.                                             *)
(*                                                                         *)
(* A file stands for its name, for the key hashed from its content and for *)
(* the flag made of that key; <<f, i>> is block i of file f.               *)
(***************************************************************************)
EXTENDS SyncCall

CONSTANTS
  Files,
  Blocks,     \* Blocks[f]: the number of blocks f is cut into
  Stored,     \* the files uploaded before, with the client's records of them
  MaxJobs     \* bound: uploads and downloads in all

ASSUME ClientAssumption ==
  /\ Blocks \in [Files -> Nat \ {0}]
  /\ Stored \subseteq Files
  /\ Nobody \notin Files
  /\ MaxJobs \in Nat

VARIABLES
  sk, t,     \* SysParam: the key and the flag of the file uploaded last, Nobody at first
  job,       \* job[th]: the upload or download th is in, and its locals
  recs,      \* the records under userinfo: [name, flag, key]
  down,      \* down[name]: the blocks in the file of that name under download
  filed,     \* server: the flags in table files
  rows,      \* server: rows[flag], the blocks stored: [idx, of, key]
  owned,     \* server: owned[flag], this user's rows in table owners
  started,   \* uploads and downloads so far
  mixed,     \* for the properties: names of uploads that overlapped another, and of
             \* uploads and downloads with a call in the millisecond of another
  cut,       \* for the properties: names of uploads with an exception in the loop
  torn       \* for the properties: names downloaded twice at once, or with an error

param == <<sk, t>>
server == <<filed, rows, owned>>
ghost == <<mixed, cut, torn>>
vars == <<callVars, param, job, recs, down, server, started, ghost>>

Idle == [pc |-> "idle", name |-> Nobody, flag |-> Nobody, key |-> Nobody, idx |-> 0, todo |-> {}]

Row(f, i, k) == [idx |-> i, of |-> <<f, i>>, key |-> k]

Init ==
  /\ CallInit
  /\ sk = Nobody /\ t = Nobody
  /\ job = [th \in Threads |-> Idle]
  /\ recs = {[name |-> f, flag |-> f, key |-> f] : f \in Stored}
  /\ down = [f \in Files |-> <<>>]
  /\ filed = Stored
  /\ rows = [f \in Files |->
               IF f \in Stored THEN [n \in 1 .. Blocks[f] |-> Row(f, n - 1, f)] ELSE <<>>]
  /\ owned = [f \in Files |-> IF f \in Stored THEN 1 ELSE 0]
  /\ started = 0
  /\ mixed = {} /\ cut = {} /\ torn = {}

At(th, pc) == job[th].pc = pc
Become(th, j) == job' = [job EXCEPT ![th] = j]
Goto(th, pc) == Become(th, [job[th] EXCEPT !.pc = pc])

DownloadPcs == {"fetch", "fetching"}
Downloading(th) == job[th].pc \in DownloadPcs
Uploading(th) == ~At(th, "idle") /\ ~Downloading(th)
NamesIn(S) == {job[th].name : th \in S}

\* A request that is waited for.
Ask(th, code, arg, pc) ==
  /\ \E s \in Stamps : Now(th, s) /\ Place(th, code, arg, s)
  /\ Goto(th, pc)
  /\ mixed' = IF faults' = faults THEN mixed
              ELSE mixed \cup NamesIn({u \in Threads : ~At(u, "idle")})
  /\ UNCHANGED <<param, recs, down, server, started, cut, torn>>

\* responseMsg.code of a null answer, or another exception: the request of the page fails.
Fail(th) ==
  /\ Become(th, Idle)
  /\ torn' = IF Downloading(th) THEN torn \cup {job[th].name} ELSE torn
  /\ UNCHANGED <<param, recs, down, server, started, mixed, cut>>

GiveUp(th) == TimedOut(th) /\ Expire(th) /\ Fail(th) /\ UNCHANGED faults
GiveUpLate(th) == TooLate(th) /\ Expire(th) /\ Fail(th) /\ Fault("late")

Write(th) ==
  /\ WriteOut(th)
  /\ UNCHANGED <<param, job, recs, down, server, started, ghost>>

----------------------------------------------------------------------------
(* upload *)

StartUpload(th) ==
  /\ At(th, "idle") /\ started < MaxJobs
  /\ \E f \in Files :
       LET others == {u \in Threads : Uploading(u)} IN
         /\ Become(th, [Idle EXCEPT !.pc = "setKey", !.name = f])
         /\ mixed' = IF others = {} THEN mixed ELSE mixed \cup NamesIn(others) \cup {f}
  /\ started' = started + 1
  /\ UNCHANGED <<callVars, param, recs, down, server, cut, torn>>

SetKey(th) ==
  /\ At(th, "setKey")
  /\ sk' = job[th].name
  /\ Goto(th, "setFlag")
  /\ UNCHANGED <<callVars, t, recs, down, server, started, ghost>>

\* t is made of the sk that is there now.
SetFlag(th) ==
  /\ At(th, "setFlag")
  /\ t' = sk
  /\ Goto(th, "exist")
  /\ UNCHANGED <<callVars, sk, recs, down, server, started, ghost>>

IsExist(th) == At(th, "exist") /\ Ask(th, 200, [flag |-> t], "asked")

\* With 300 write only lists the tags, as far as it gets; with anything else it sends.
GotExist(th) ==
  /\ At(th, "asked") /\ Answered(th) /\ Return(th)
  /\ LET n == Blocks[job[th].name]
         ans == call[th].ans.ans
     IN IF ans.code # 300
          THEN Become(th, [job[th] EXCEPT !.pc = "block"]) /\ UNCHANGED <<faults, cut>>
          ELSE \E k \in 0 .. n :
                 /\ Become(th, [job[th] EXCEPT !.pc = "prove", !.idx = k, !.todo = ans.todo])
                 /\ IF k = n THEN UNCHANGED <<faults, cut>>
                    ELSE Fault("local") /\ cut' = cut \cup {job[th].name}
  /\ UNCHANGED <<param, recs, down, server, started, mixed, torn>>

\* write: the key of the block is encrypted under the sk of this moment ...
MoreBlocksButOne(th) == job[th].idx < Blocks[job[th].name] - 1    \* mutant: last one forgotten
MoreBlocks(th) == job[th].idx < Blocks[job[th].name]

Encrypt(th) ==
  /\ At(th, "block") /\ MoreBlocks(th)
  /\ Become(th, [job[th] EXCEPT !.pc = "post", !.key = sk])
  /\ UNCHANGED <<callVars, param, recs, down, server, started, ghost>>

\* ... and sent under the t of this one, without waiting for the answer.
PostBlock(th) ==
  /\ At(th, "post")
  /\ Post(th, 205, [flag |-> t, row |-> Row(job[th].name, job[th].idx, job[th].key)])
  /\ Become(th, [job[th] EXCEPT !.pc = "block", !.idx = @ + 1])
  /\ UNCHANGED <<param, recs, down, server, started, ghost>>

\* catch (Exception e): printed, and on to 207.
LoopException(th) ==
  /\ (At(th, "block") /\ MoreBlocks(th)) \/ At(th, "post")
  /\ Fault("local")
  /\ Goto(th, "meta")
  /\ cut' = cut \cup {job[th].name}
  /\ UNCHANGED <<call, cache, wire, loop, param, recs, down, server, started, mixed, torn>>

SendMeta(th) ==
  /\ At(th, "meta") \/ (At(th, "block") /\ ~MoreBlocks(th))
  /\ Ask(th, 207, [flag |-> t], "filing")

\* The proof is a sum over the tags that z, r1 and r2 select.
Verify(th) ==
  /\ At(th, "prove") /\ \A i \in job[th].todo : i < job[th].idx
  /\ Ask(th, 220, [flag |-> t, of |-> job[th].name, todo |-> job[th].todo], "proving")

ListTooShort(th) ==
  /\ At(th, "prove") /\ \E i \in job[th].todo : i >= job[th].idx
  /\ Fail(th) /\ UNCHANGED callVars

\* The record is of the t and sk of this moment.
Record(th) == recs' = recs \cup {[name |-> job[th].name, flag |-> t, key |-> sk]}

GotProof(th) ==
  /\ At(th, "proving") /\ Answered(th)
  /\ LET code == call[th].ans.ans.code IN
       \/ /\ code \in {506, 516, 606}
          /\ Return(th) /\ Become(th, Idle)
          /\ IF code = 516 THEN Record(th) ELSE UNCHANGED recs
       \/ /\ code \notin {506, 516, 606}             \* on to 207, with the same dataId
          /\ Place(th, 207, [flag |-> t], call[th].stamp)
          /\ Goto(th, "filing") /\ UNCHANGED recs
  /\ UNCHANGED <<faults, param, down, server, started, ghost>>

\* Whatever the code of the answer is.
GotMeta(th) ==
  /\ At(th, "filing") /\ Answered(th)
  /\ Return(th) /\ Become(th, Idle) /\ Record(th)
  /\ UNCHANGED <<faults, param, down, server, started, ghost>>

----------------------------------------------------------------------------
(* download *)

StartDownload(th) ==
  /\ At(th, "idle") /\ started < MaxJobs
  /\ \E r \in recs :
       /\ Become(th, [Idle EXCEPT !.pc = "fetch", !.name = r.name, !.flag = r.flag, !.key = r.key])
       /\ torn' = IF \E u \in Threads : Downloading(u) /\ job[u].name = r.name
                    THEN torn \cup {r.name} ELSE torn
  /\ started' = started + 1
  /\ UNCHANGED <<callVars, param, recs, down, server, mixed, cut>>

Fetch(th) ==
  At(th, "fetch") /\ Ask(th, 900, [flag |-> job[th].flag, idx |-> job[th].idx], "fetching")

\* 909 ends the file; what does not decrypt, or is no block, is an exception.  The block
\* goes to the end of what the file of that name already holds.
SameBlock(th) == job[th].idx                             \* mutant: block++ left out
NextBlock(th) == job[th].idx + 1

GotBlock(th) ==
  /\ At(th, "fetching") /\ Answered(th) /\ Return(th)
  /\ LET ans == call[th].ans.ans
         mine == ans.code = 901 /\ ans.key = job[th].key
     IN \/ /\ ans.code = 909 /\ Become(th, Idle)
           /\ UNCHANGED <<down, torn>>
        \/ /\ mine
           /\ down' = [down EXCEPT ![job[th].name] = Append(@, ans.of)]
           /\ Become(th, [job[th] EXCEPT !.pc = "fetch", !.idx = NextBlock(th)])
           /\ UNCHANGED torn
        \/ /\ ans.code # 909 /\ ~mine
           /\ Become(th, Idle)
           /\ torn' = torn \cup {job[th].name}
           /\ UNCHANGED down
  /\ UNCHANGED <<faults, param, recs, server, started, mixed, cut>>

----------------------------------------------------------------------------
(* The server: Dedup's handlers, each in one step and without deletes *)

RowsAt(f, i) == {n \in DOMAIN rows[f] : rows[f][n].idx = i}

Exists(m) ==
  LET f == m.arg.flag IN
    \/ /\ rows[f] # <<>>
       /\ \E S \in (SUBSET (0 .. Len(rows[f]) - 1)) \ {{}} : Replied(m, [code |-> 300, todo |-> S])
       /\ UNCHANGED server
    \/ /\ rows[f] = <<>> /\ f \notin filed
       /\ filed' = filed \cup {f} /\ Replied(m, [code |-> 400])
       /\ UNCHANGED <<rows, owned>>
    \/ /\ rows[f] = <<>> /\ f \in filed /\ Unanswered      \* flags are unique
       /\ UNCHANGED server

\* The empty dataId of the answer is nobody's.
Store(m) ==
  /\ rows' = IF m.arg.flag \in filed
               THEN [rows EXCEPT ![m.arg.flag] = Append(@, m.arg.row)]
               ELSE rows
  /\ Unanswered
  /\ UNCHANGED <<filed, owned>>

Enrol(m) ==
  /\ owned' = IF m.arg.flag \in filed THEN [owned EXCEPT ![m.arg.flag] = @ + 1] ELSE owned
  /\ Replied(m, [code |-> 500])
  /\ UNCHANGED <<filed, rows>>

\* Each row has to be the one of its index, signed under the key of the flag.
ProofHolds(m) ==
  \A i \in m.arg.todo : \A n \in RowsAt(m.arg.flag, i) :
    rows[m.arg.flag][n].of = <<m.arg.of, i>> /\ rows[m.arg.flag][n].key = m.arg.flag

CheckOwner(m) ==
  LET f == m.arg.flag
      odd == \E i \in m.arg.todo : Cardinality(RowsAt(f, i)) # 1
  IN \/ (odd \/ (ProofHolds(m) /\ owned[f] > 1)) /\ Unanswered /\ UNCHANGED server
     \/ /\ ~odd /\ ~ProofHolds(m)
        /\ Replied(m, [code |-> 606]) /\ UNCHANGED server
     \/ /\ ~odd /\ ProofHolds(m) /\ owned[f] = 1
        /\ Replied(m, [code |-> 506]) /\ UNCHANGED server
     \/ /\ ~odd /\ ProofHolds(m) /\ owned[f] = 0
        /\ owned' = [owned EXCEPT ![f] = 1] /\ Replied(m, [code |-> 516])
        /\ UNCHANGED <<filed, rows>>

Give(m) ==
  LET f == m.arg.flag
      at == RowsAt(f, m.arg.idx)
  IN /\ \/ at = {} /\ Replied(m, [code |-> 909])
        \/ Cardinality(at) > 1 /\ Unanswered
        \/ /\ Cardinality(at) = 1
           /\ \E n \in at : Replied(m, [code |-> 901, of |-> rows[f][n].of, key |-> rows[f][n].key])
     /\ UNCHANGED server

Serve ==
  /\ sent # <<>>
  /\ LET m == Head(sent) IN
       \/ m.code = 200 /\ Exists(m)
       \/ m.code = 205 /\ Store(m)
       \/ m.code = 207 /\ Enrol(m)
       \/ m.code = 220 /\ CheckOwner(m)
       \/ m.code = 900 /\ Give(m)
  /\ UNCHANGED <<param, job, recs, down, started, ghost>>

----------------------------------------------------------------------------
EventLoop ==
  /\ Acknowledge \/ Invalidate
  /\ UNCHANGED <<param, job, recs, down, server, started, ghost>>

Lost == Close /\ UNCHANGED <<param, job, recs, down, server, started, ghost>>

Step(th) ==
  \/ Write(th) \/ GiveUp(th)
  \/ SetKey(th) \/ SetFlag(th) \/ IsExist(th) \/ GotExist(th)
  \/ Encrypt(th) \/ PostBlock(th) \/ SendMeta(th)
  \/ Verify(th) \/ ListTooShort(th) \/ GotProof(th) \/ GotMeta(th)
  \/ Fetch(th) \/ GotBlock(th)

Next ==
  \/ \E th \in Threads :
       \/ StartUpload(th) \/ StartDownload(th) \/ Step(th)
       \/ GiveUpLate(th) \/ LoopException(th)
  \/ Serve \/ EventLoop \/ Lost

Spec == Init /\ [][Next]_vars

\* Threads go on, the server serves and the event loop runs; the 12000 seconds pass.
FairSpec ==
  /\ Spec
  /\ \A th \in Threads : WF_vars(Step(th))
  /\ WF_vars(Serve) /\ WF_vars(EventLoop)

----------------------------------------------------------------------------
(* Properties *)

\* A call ends with null, or with the answer to a request that bears the time stamp of
\* the call; each request is answered to one call at most.  NettyClientService.ackSyncMsg
\* and sendSyncMsg implement Calls, whatever is lost, late or stamped alike.
OnCalls == Abstract!Spec

InOrder(f) == \A n \in DOMAIN rows[f] :
                rows[f][n] = Row(f, n - 1, f)

\* The client keeps a record of an upload only when the server has the file as that record
\* says, all its blocks, each once, under their flag and key: 207 follows the blocks on the
\* same connection (FileService.upload line 195).  Uploads that overlap share sk and t and
\* are excepted (line 46); an exception in the loop over the blocks costs the rest of them
\* and no other (line 122).
RecordedWhole ==
  \A r \in recs : r.name \notin mixed =>
    /\ r.flag = r.name /\ r.key = r.name
    /\ InOrder(r.name)
    /\ r.name \notin cut => Len(rows[r.name]) = Blocks[r.name]

\* What is under download consists of whole copies, one for each time the file was
\* downloaded (FileOutputStream appends, FileService.download line 304), and as much of
\* another as a download under way has brought; unless a download failed, two of the same
\* file overlapped, or the upload was not of one piece.
WholeCopies ==
  \A f \in Files \ (mixed \cup cut \cup torn) :
    LET got == {job[th].idx : th \in {u \in Threads : Downloading(u) /\ job[u].name = f}} IN
      /\ \A n \in DOMAIN down[f] : down[f][n] = <<f, (n - 1) % Blocks[f]>>
      /\ IF got = {} THEN Len(down[f]) % Blocks[f] = 0
         ELSE \A k \in got : (Len(down[f]) - k) % Blocks[f] = 0 /\ k <= Blocks[f]

\* Every request of the page ends, if only after 12000 seconds (SyncFuture.get): lost
\* answers, a lost connection and lost entries of the cache block no thread for good.
RequestsEnd == \A th \in Threads : ~At(th, "idle") ~> At(th, "idle")
=============================================================================
