---------------------------- MODULE AuditProofs ----------------------------
(***************************************************************************)
(* Theorems about Audit, for every set of users and files and any number   *)
(* of blocks and audits.  Under every combination of faults: types, what   *)
(* is exempt and what a verdict rests on, and that Audit implements        *)
(* Ledger.  Where some faults are left out, as each theorem says: how long *)
(* sharing lasts, when an honest SSP is accused and a block checked again, *)
(* that a log entry is one audit, and that what a client waits for is      *)
(* there when nothing is under way.                                        *)
(***************************************************************************)
EXTENDS Audit, FiniteSetTheorems, WellFoundedInduction, TLAPS

\* The variables of the client that most steps leave alone.
USE DEF threads, disk

----------------------------------------------------------------------------
(* Helpers: the types of what the actions assign *)

Polls == [pc : {"idle", "asked", "finished", "reading"}, file : Files, ids : Seq(Ids),
          read : Nat]
Requests == [kind : {"publish", "isfin"}, file : Files]

LEMMA SomeFile == (CHOOSE f \in Files : TRUE) \in Files
BY AuditAssumption

LEMMA QuietIsPoll == Quiet \in Polls
BY SomeFile DEF Quiet, Polls

LEMMA FreeIsJob ==
  ASSUME NEW u \in Users
  PROVE  Blank \in Assets /\ Free \in Jobs
<1>1. (CHOOSE v \in Users : TRUE) \in Users
  OBVIOUS
<1>2. NoProof \in [over : SUBSET Indices, intact : BOOLEAN]
  BY DEF NoProof
<1>3. Blank \in Assets
  BY <1>1, <1>2, SomeFile DEF Blank, Assets, Audits, Kinds
<1> QED BY <1>3 DEF Free, Jobs, JobPcs

LEMMA ConnUser == ASSUME NEW k \in Conns PROVE User(k) \in Users
BY DEF Conns, User

LEMMA LineIsConn == ASSUME TypeOK, NEW u \in Users PROVE Line(u) \in Conns
<1>1. conn[u] \in Nat /\ conn[u] <= faults["restart"] /\ faults["restart"] \in 0 .. MaxFaults
  BY DEF TypeOK, FaultKinds
<1>2. conn[u] \in 0 .. MaxFaults
  BY <1>1, AuditAssumption
<1> QED BY <1>2 DEF Line, Conns

LEMMA JobType ==
  ASSUME TypeOK, NEW k \in Conns
  PROVE  /\ job[k] \in Jobs /\ job[k].asset \in Assets
         /\ File(k) \in Files /\ Chall(k) \subseteq Indices
BY DEF TypeOK, Jobs, Assets, File, Chall

LEMMA IndexType == ASSUME NEW f \in Files PROVE Index(f) \subseteq Indices
BY DEF Indices

LEMMA BecomeType ==
  ASSUME TypeOK, NEW k \in Conns, NEW j \in Jobs, Become(k, j)
  PROVE  job' \in [Conns -> Jobs]
BY DEF TypeOK, Become

LEMMA GotoType ==
  ASSUME TypeOK, NEW k \in Conns, NEW pc \in JobPcs, Goto(k, pc)
  PROVE  job' \in [Conns -> Jobs]
<1>1. [job[k] EXCEPT !.pc = pc] \in Jobs
  BY JobType DEF Jobs
<1> QED BY <1>1, BecomeType DEF Goto

LEMMA StopType ==
  ASSUME TypeOK, NEW k \in Conns, Stop(k)
  PROVE  job' \in [Conns -> Jobs]
BY ConnUser, FreeIsJob, BecomeType DEF Stop

LEMMA SendType ==
  ASSUME TypeOK, NEW u \in Users, NEW kind \in {"publish", "isfin"}, NEW f \in Files,
         Send(u, kind, f)
  PROVE  inbox' \in [Conns -> Seq(Requests)]
<1>1. inbox \in [Conns -> Seq(Requests)]
  BY DEF TypeOK, Requests
<1>2. [kind |-> kind, file |-> f] \in Requests
  BY DEF Requests
<1>3. Append(inbox[Line(u)], [kind |-> kind, file |-> f]) \in Seq(Requests)
  BY <1>1, <1>2, LineIsConn
<1> QED BY <1>1, <1>3 DEF Send

LEMMA IdType == ASSUME NEW a \in Assets PROVE Id(a) \in Ids
BY DEF Assets, Id, Ids

LEMMA PushType ==
  ASSUME TypeOK, NEW k \in Conns, NEW id \in Ids, Push(k, id)
  PROVE  list' \in [Users -> [Files -> Seq(Ids)]]
<1>1. User(k) \in Users /\ File(k) \in Files
  BY ConnUser, JobType
<1>2. list \in [Users -> [Files -> Seq(Ids)]]
  BY DEF TypeOK
<1>3. list[User(k)] \in [Files -> Seq(Ids)]
  BY <1>1, <1>2
<1>4. Append(list[User(k)][File(k)], id) \in Seq(Ids)
  BY <1>1, <1>3
<1>5. [list[User(k)] EXCEPT ![File(k)] = Append(@, id)] \in [Files -> Seq(Ids)]
  BY <1>1, <1>3, <1>4
<1> QED BY <1>1, <1>2, <1>5 DEF Push

LEMMA AnswerType ==
  ASSUME TypeOK, NEW k \in Conns, NEW pc \in {"idle", "finished"}, NEW ids \in Seq(Ids),
         Answer(k, pc, ids)
  PROVE  poll' \in [Users -> Polls]
<1>1. poll \in [Users -> Polls]
  BY DEF TypeOK, Polls
<1>2. [[poll[User(k)] EXCEPT !.pc = pc] EXCEPT !.ids = ids] \in Polls
  BY <1>1, ConnUser DEF Polls
<1>3. [poll EXCEPT ![User(k)].pc = pc, ![User(k)].ids = ids] \in [Users -> Polls]
  BY <1>1, <1>2, ConnUser
<1> QED BY <1>1, <1>3 DEF Answer

\* A fault counts itself only.
LEMMA FaultType ==
  ASSUME TypeOK, NEW kind, Fault(kind)
  PROVE  /\ faults' \in [FaultKinds -> 0 .. MaxFaults]
         /\ faults'["restart"] = IF kind = "restart" THEN faults["restart"] + 1
                                                     ELSE faults["restart"]
<1>1. kind \in FaultKinds /\ MaxFaults \in Nat /\ "restart" \in FaultKinds
  BY AuditAssumption DEF Fault, FaultKinds
<1> QED BY <1>1 DEF TypeOK, Fault

\* The client's steps, and its restart, leave the handlers and the stores alone.
LEMMA ClientApart ==
  ASSUME NEW u \in Users, Submit(u) \/ Client(u) \/ Restart(u)
  PROVE  UNCHANGED <<job, ledger, list, marked, ttl, store>>
<1>1. CASE Submit(u) \/ Restart(u)
  BY <1>1 DEF Submit, Restart, redis
<1>2. CASE Request(u) \/ CreateWait(u) \/ FillWait(u)
  BY <1>2 DEF Request, CreateWait, FillWait, redis
<1>3. CASE ReadDate(u) \/ WriteLog(u) \/ DeleteWait(u)
  BY <1>3 DEF ReadDate, WriteLog, DeleteWait, redis
<1>4. ASSUME NEW f \in Files, AskFin(u, f) PROVE UNCHANGED <<job, ledger, list, marked, ttl, store>>
  BY <1>4 DEF AskFin, redis
<1> QED BY <1>1, <1>2, <1>3, <1>4 DEF Client, DoAudit, HandleFin

LEMMA LedgerType ==
  ASSUME TypeOK, NEW a \in Assets, ledger' = ledger \cup {a}
  PROVE  ledger' \subseteq Assets /\ IsFiniteSet(ledger')
BY FS_AddElement DEF TypeOK

----------------------------------------------------------------------------
(* Type correctness *)

LEMMA InitTypeOK == Init => TypeOK
<1> SUFFICES ASSUME Init PROVE TypeOK
  OBVIOUS
<1>1. job \in [Conns -> Jobs]
  BY ConnUser, FreeIsJob DEF Init
<1>2. poll \in [Users -> Polls]
  BY QuietIsPoll DEF Init
<1>3. faults \in [FaultKinds -> 0 .. MaxFaults]
  BY AuditAssumption DEF Init
<1>4. conn \in [Users -> Nat] /\ \A u \in Users : conn[u] <= faults["restart"]
  BY DEF Init, FaultKinds
<1>5. inbox \in [Conns -> Seq([kind : {"publish", "isfin"}, file : Files])]
  BY DEF Init
<1>6. list \in [Users -> [Files -> Seq(Ids)]]
  BY DEF Init
<1>7. /\ wait \in [Users -> SUBSET Files]
      /\ click \in [Users -> [Files -> Nat]] /\ sent \in [Users -> [Files -> Nat]]
      /\ logs \in [Users -> SUBSET [file : Files, ids : Seq(Ids)]]
      /\ marked \in [Files -> SUBSET Indices] /\ ttl \in [Files -> BOOLEAN]
      /\ started \in [Users -> Nat] /\ early \in [Users -> SUBSET Files]
  BY DEF Init
<1>10. /\ text \in [Users -> [Files -> Seq({"date", "name"})]]
       /\ writer \in [Users -> [Files -> [WriteSteps -> Nat]]]
  BY DEF Init
<1>8. /\ DOMAIN store = Files
      /\ \A f \in Files : store[f] \in [Index(f) -> {"good", "damaged", "missing"}]
  BY DEF Init
<1>9. ledger \subseteq Assets /\ IsFiniteSet(ledger)
  BY FS_EmptySet DEF Init
<1> QED BY <1>1, <1>2, <1>3, <1>4, <1>5, <1>6, <1>7, <1>8, <1>9, <1>10 DEF TypeOK, Polls

\* Every set of numbers has a least one.
Below == {ss \in Nat \X Nat : ss[1] < ss[2]}

LEMMA LeastNumber ==
  ASSUME NEW T \in SUBSET Nat, T # {}
  PROVE  \E x \in T : \A y \in T : x <= y
<1>1. IsWellFoundedOn(OpToRel(<, Nat), Nat)
  BY NatLessThanWellFounded
<1>2. IsWellFoundedOn(Below, Nat)
  BY <1>1 DEF OpToRel, Below
<1>3. PICK x \in T : \A y \in T : <<y, x>> \notin Below
  BY <1>2, WFMin
<1>4. ASSUME NEW y \in T PROVE x <= y
  <2>1. x \in Nat /\ y \in Nat
    OBVIOUS
  <2>2. ~(y < x)
    BY <1>3, <2>1 DEF Below
  <2> QED BY <2>1, <2>2
<1> QED BY <1>4

\* What readLine returns is what is not read yet, or a beginning of it.
LEMMA LineType ==
  ASSUME NEW t \in Seq({"date", "name"})
  PROVE  /\ FirstLine(t) \in Seq({"date", "name"}) /\ Len(FirstLine(t)) <= Len(t)
         /\ t # <<>> => Len(FirstLine(t)) > 0
<1> DEFINE dates == {i \in DOMAIN t : t[i] = "date"}
<1>1. CASE dates = {}
  BY <1>1 DEF FirstLine
<1>2. CASE dates # {}
  <2> DEFINE first == CHOOSE i \in dates : \A j \in dates : i <= j
  <2>1. dates \in SUBSET Nat /\ dates # {}
    BY <1>2
  <2>2. first \in dates
    BY <2>1, LeastNumber
  <2>3. FirstLine(t) = SubSeq(t, 1, first)
    BY <1>2 DEF FirstLine
  <2>4. first \in 1 .. Len(t) /\ Len(t) \in Nat
    BY <2>2
  <2> HIDE DEF first
  <2>5. SubSeq(t, 1, first) \in Seq({"date", "name"})
    BY <2>4
  <2>6. Len(SubSeq(t, 1, first)) = first
    BY <2>4
  <2> QED BY <2>3, <2>4, <2>5, <2>6
<1> QED BY <1>1, <1>2

LEMMA WriterType ==
  ASSUME TypeOK, NEW u \in Users, NEW f \in Files, NEW from \in WriteSteps,
         NEW to \in WriteSteps \ {from}, WriterMoves(u, f, from, to)
  PROVE  writer' \in [Users -> [Files -> [WriteSteps -> Nat]]]
<1>1. writer \in [Users -> [Files -> [WriteSteps -> Nat]]] /\ writer[u][f][from] > 0
  BY DEF TypeOK, WriterMoves
<1>2. writer[u][f][from] - 1 \in Nat /\ writer[u][f][to] + 1 \in Nat
  BY <1>1
<1> QED BY <1>1, <1>2 DEF WriterMoves

LEMMA TextType ==
  ASSUME TypeOK, NEW u \in Users, NEW f \in Files, NEW t \in Seq({"date", "name"}),
         text' = [text EXCEPT ![u][f] = t]
  PROVE  text' \in [Users -> [Files -> Seq({"date", "name"})]]
<1>1. text \in [Users -> [Files -> Seq({"date", "name"})]]
  BY DEF TypeOK
<1>2. [text[u] EXCEPT ![f] = t] \in [Files -> Seq({"date", "name"})]
  BY <1>1
<1> QED BY <1>1, <1>2

LEMMA DoAuditTypeOK ==
  ASSUME TypeOK, NEW u \in Users, Submit(u) \/ Request(u) \/ CreateWait(u)
  PROVE  TypeOK'
<1>1. CASE Submit(u)
  <2>1. started' \in [Users -> Nat]
    BY <1>1 DEF Submit, TypeOK
  <2>2. PICK f \in Audited[u] \ wait[u] :
          /\ UNCHANGED faults \/ Fault("double")
          /\ click' = [click EXCEPT ![u][f] = @ + 1]
    BY <1>1 DEF Submit
  <2>3. f \in Files
    BY <2>2, AuditAssumption
  <2>4. click' \in [Users -> [Files -> Nat]]
    BY <2>2, <2>3 DEF TypeOK
  <2>5. faults' \in [FaultKinds -> 0 .. MaxFaults] /\ faults'["restart"] = faults["restart"]
    <3>1. CASE UNCHANGED faults
      BY <3>1 DEF TypeOK
    <3>2. CASE Fault("double")
      BY <3>2, FaultType
    <3> QED BY <2>2, <3>1, <3>2
  <2> QED BY <1>1, <2>1, <2>4, <2>5 DEF Submit, TypeOK, net, redis
<1>2. CASE Request(u)
  <2>1. PICK f \in Files : /\ click[u][f] > 0
                           /\ click' = [click EXCEPT ![u][f] = @ - 1]
                           /\ sent' = [sent EXCEPT ![u][f] = @ + 1]
                           /\ Send(u, "publish", f)
    BY <1>2 DEF Request
  <2>2. click' \in [Users -> [Files -> Nat]] /\ sent' \in [Users -> [Files -> Nat]]
    BY <2>1 DEF TypeOK
  <2>3. inbox' \in [Conns -> Seq(Requests)]
    BY <2>1, SendType
  <2> QED BY <1>2, <2>2, <2>3 DEF Request, TypeOK, Requests, redis, bounds
<1>3. CASE CreateWait(u)
  <2>1. PICK f \in Files : /\ sent[u][f] > 0
                           /\ sent' = [sent EXCEPT ![u][f] = @ - 1]
                           /\ writer' = [writer EXCEPT ![u][f]["created"] = @ + 1]
                           /\ wait' = [wait EXCEPT ![u] = @ \cup {f}]
    BY <1>3 DEF CreateWait
  <2>2. sent' \in [Users -> [Files -> Nat]] /\ wait' \in [Users -> SUBSET Files]
    BY <2>1 DEF TypeOK
  <2>3. writer \in [Users -> [Files -> [WriteSteps -> Nat]]] /\ "created" \in WriteSteps
    BY DEF TypeOK, WriteSteps
  <2>4. [writer[u][f] EXCEPT !["created"] = @ + 1] \in [WriteSteps -> Nat]
    BY <2>3
  <2>5. writer' \in [Users -> [Files -> [WriteSteps -> Nat]]]
    BY <2>1, <2>3, <2>4
  <2> QED BY <1>3, <2>2, <2>5 DEF CreateWait, TypeOK, net, redis, bounds
<1> QED BY <1>1, <1>2, <1>3

LEMMA FillTypeOK ==
  ASSUME TypeOK, NEW u \in Users, FillWait(u)
  PROVE  TypeOK'
<1>1. PICK f \in Files : OpenWait(u, f) \/ WriteDate(u, f) \/ WriteName(u, f) \/ CloseWait(u, f)
  BY DEF FillWait
<1>2. writer \in [Users -> [Files -> [WriteSteps -> Nat]]] /\ wait \in [Users -> SUBSET Files]
  BY DEF TypeOK
<1>3. {"created", "open", "dated", "named"} = WriteSteps
  BY DEF WriteSteps
<1>4. text[u][f] \in Seq({"date", "name"}) /\ text \in [Users -> [Files -> Seq({"date", "name"})]]
  BY DEF TypeOK
<1>5. writer' \in [Users -> [Files -> [WriteSteps -> Nat]]]
  <2>1. CASE OpenWait(u, f)
    BY <1>3, <2>1, WriterType DEF OpenWait
  <2>2. CASE WriteDate(u, f)
    BY <1>3, <2>2, WriterType DEF WriteDate
  <2>3. CASE WriteName(u, f)
    BY <1>3, <2>3, WriterType DEF WriteName
  <2>4. CASE CloseWait(u, f)
    <3>1. "named" \in WriteSteps /\ writer[u][f] \in [WriteSteps -> Nat] /\ writer[u][f]["named"] > 0
      BY <1>2, <1>3, <2>4 DEF CloseWait
    <3>2. [writer[u][f] EXCEPT !["named"] = @ - 1] \in [WriteSteps -> Nat]
      BY <3>1
    <3> QED BY <1>2, <2>4, <3>2 DEF CloseWait
  <2> QED BY <1>1, <2>1, <2>2, <2>3, <2>4
<1>6. text' \in [Users -> [Files -> Seq({"date", "name"})]]
  <2>1. \A w \in {"date", "name"} : Append(text[u][f], w) \in Seq({"date", "name"})
    BY <1>4
  <2>2. CASE WriteDate(u, f)
    <3>1. text' = [text EXCEPT ![u][f] = Append(text[u][f], "date")]
      BY <2>2 DEF WriteDate
    <3> QED BY <2>1, <3>1, TextType
  <2>3. CASE WriteName(u, f)
    <3>1. text' = [text EXCEPT ![u][f] = Append(text[u][f], "name")]
      BY <2>3 DEF WriteName
    <3> QED BY <2>1, <3>1, TextType
  <2>4. CASE text' = text
    BY <1>4, <2>4
  <2> QED BY <1>1, <2>2, <2>3, <2>4 DEF OpenWait, CloseWait
<1>7. wait' \in [Users -> SUBSET Files]
  BY <1>1, <1>2 DEF OpenWait, WriteDate, WriteName, CloseWait
<1> QED BY <1>5, <1>6, <1>7 DEF FillWait, TypeOK, Polls, net, redis, bounds

LEMMA HandleFinTypeOK ==
  ASSUME TypeOK, NEW u \in Users, HandleFin(u)
  PROVE  TypeOK'
<1>0. /\ poll \in [Users -> Polls] /\ poll[u] \in Polls
      /\ poll[u].file \in Files /\ poll[u].ids \in Seq(Ids) /\ poll[u].read \in Nat
      /\ text[u][poll[u].file] \in Seq({"date", "name"})
  BY DEF TypeOK, Polls
<1>a. Unread(u) \in Seq({"date", "name"})
  BY <1>0 DEF Unread
<1>b. Len(FirstLine(Unread(u))) \in Nat
  BY <1>a, LineType
<1>1. CASE ReadDate(u)
  <2>1. poll' \in [Users -> Polls]
    <3>1. [[poll[u] EXCEPT !.pc = "reading"] EXCEPT !.read = Len(FirstLine(Unread(u)))] \in Polls
      BY <1>0, <1>b DEF Polls
    <3> QED BY <1>0, <1>1, <3>1 DEF ReadDate
  <2>2. early' \in [Users -> SUBSET Files]
    <3>1. early \in [Users -> SUBSET Files]
      BY DEF TypeOK
    <3>2. early' = [early EXCEPT ![u] = @ \cup {poll[u].file}] \/ early' = early
      BY <1>1 DEF ReadDate
    <3> QED BY <1>0, <3>1, <3>2
  <2> QED BY <1>1, <2>1, <2>2 DEF ReadDate, TypeOK, Polls, net, redis
<1>2. CASE WriteLog(u)
  <2>1. poll' \in [Users -> Polls]
    <3>0. poll[u].read + Len(FirstLine(Unread(u))) \in Nat
      BY <1>0, <1>b
    <3>1. [poll[u] EXCEPT !.read = @ + Len(FirstLine(Unread(u)))] \in Polls
      BY <1>0, <3>0 DEF Polls
    <3> QED BY <1>0, <1>2, <3>1 DEF WriteLog
  <2>2. logs' \in [Users -> SUBSET [file : Files, ids : Seq(Ids)]]
    <3>1. [file |-> poll[u].file, ids |-> poll[u].ids] \in [file : Files, ids : Seq(Ids)]
      BY <1>0
    <3>2. logs \in [Users -> SUBSET [file : Files, ids : Seq(Ids)]]
      BY DEF TypeOK
    <3>3. \/ logs' = logs
          \/ logs' = [logs EXCEPT ![u] = @ \cup {[file |-> poll[u].file, ids |-> poll[u].ids]}]
      BY <1>2 DEF WriteLog
    <3> QED BY <3>1, <3>2, <3>3
  <2> QED BY <1>2, <2>1, <2>2 DEF WriteLog, TypeOK, Polls, net, redis, bounds
<1>3. CASE DeleteWait(u)
  <2>1. wait' \in [Users -> SUBSET Files]
    <3>1. wait \in [Users -> SUBSET Files]
      BY DEF TypeOK
    <3>2. wait' = wait \/ wait' = [wait EXCEPT ![u] = @ \ {poll[u].file}]
      BY <1>3 DEF DeleteWait
    <3> QED BY <3>1, <3>2
  <2>2. poll' \in [Users -> Polls]
    BY <1>0, <1>3, QuietIsPoll DEF DeleteWait
  <2>3. text' \in [Users -> [Files -> Seq({"date", "name"})]]
    <3>1. <<>> \in Seq({"date", "name"})
      OBVIOUS
    <3>2. text' = text \/ text' = [text EXCEPT ![u][poll[u].file] = <<>>]
      BY <1>3 DEF DeleteWait
    <3>3. CASE text' = text
      BY <3>3 DEF TypeOK
    <3> QED BY <1>0, <3>1, <3>2, <3>3, TextType
  <2> QED BY <1>3, <2>1, <2>2, <2>3 DEF DeleteWait, TypeOK, Polls, net, redis, bounds
<1> QED BY <1>1, <1>2, <1>3 DEF HandleFin

LEMMA ClientTypeOK ==
  ASSUME TypeOK, NEW u \in Users, Submit(u) \/ Client(u)
  PROVE  TypeOK'
<1>1. ASSUME NEW f \in Files, AskFin(u, f) PROVE TypeOK'
  <2>1. [Quiet EXCEPT !.pc = "asked", !.file = f] \in Polls
    BY QuietIsPoll DEF Polls
  <2>2. poll' \in [Users -> Polls]
    BY <1>1, <2>1 DEF AskFin, TypeOK, Polls
  <2>3. inbox' \in [Conns -> Seq(Requests)]
    BY <1>1, SendType DEF AskFin
  <2> QED BY <1>1, <2>2, <2>3 DEF AskFin, TypeOK, Polls, Requests, redis, bounds
<1> QED BY <1>1, DoAuditTypeOK, FillTypeOK, HandleFinTypeOK DEF Client, DoAudit

\* A step of a handler that changes, besides job, at most the ledger.
LEMMA HandlerTypeOK ==
  ASSUME TypeOK, UNCHANGED <<client, net, redis, store, bounds>>,
         job' \in [Conns -> Jobs],
         ledger' \subseteq Assets, IsFiniteSet(ledger')
  PROVE  TypeOK'
BY DEF TypeOK, client, net, redis, bounds

LEMMA PublishTypeOK ==
  ASSUME TypeOK, NEW k \in Conns,
         Receive(k) \/ PublishChall(k) \/ PushChallenge(k)
  PROVE  TypeOK'
<1>1. CASE Receive(k)
  <2>1. inbox \in [Conns -> Seq(Requests)] /\ inbox[k] # <<>>
    BY <1>1 DEF TypeOK, Requests, Receive
  <2>2. Head(inbox[k]) \in Requests /\ Tail(inbox[k]) \in Seq(Requests)
    BY <2>1
  <2>3. inbox' \in [Conns -> Seq(Requests)]
    BY <1>1, <2>1, <2>2 DEF Receive
  <2>4. Free \in Jobs /\ Blank \in Assets
    BY ConnUser, FreeIsJob
  <2>5. \A f \in Files, pc \in {"publish", "range"} :
          [Free EXCEPT !.pc = pc, !.asset = [Blank EXCEPT !.file = f]] \in Jobs
    BY <2>4 DEF Jobs, JobPcs, Assets
  <2>6. job' \in [Conns -> Jobs]
    BY <1>1, <2>2, <2>5, BecomeType DEF Receive, Requests
  <2> QED BY <1>1, <2>3, <2>6 DEF Receive, TypeOK, Requests, client, redis, bounds
<1>2. CASE PublishChall(k)
  <2> DEFINE mine == {a \in ledger : a.audit[1] = User(k) /\ a.kind = "challenge"}
  <2> DEFINE asset(S) == [job[k].asset EXCEPT !.audit = <<User(k), Cardinality(mine) + 1>>,
                                              !.chall = S]
  <2>1. PICK S \in SUBSET Index(File(k)) :
          /\ ledger' = ledger \cup {asset(S)}
          /\ Become(k, [job[k] EXCEPT !.pc = "push", !.asset = asset(S)])
    BY <1>2 DEF PublishChall
  <2>2. S \subseteq Indices
    BY JobType, IndexType
  <2>3. Cardinality(mine) \in Nat
    BY FS_Subset, FS_CardinalityType DEF TypeOK
  <2>4. <<User(k), Cardinality(mine) + 1>> \in Audits
    BY <2>3, ConnUser DEF Audits
  <2>5. asset(S) \in Assets
    BY <2>2, <2>4, JobType DEF Assets
  <2>6. [job[k] EXCEPT !.pc = "push", !.asset = asset(S)] \in Jobs
    BY <2>5, JobType DEF Jobs, JobPcs
  <2>7. job' \in [Conns -> Jobs]
    BY <2>1, <2>6, BecomeType
  <2>8. ledger' \subseteq Assets /\ IsFiniteSet(ledger')
    BY <2>1, <2>5, LedgerType
  <2> QED BY <1>2, <2>7, <2>8, HandlerTypeOK DEF PublishChall
<1>3. CASE PushChallenge(k)
  <2>1. list' \in [Users -> [Files -> Seq(Ids)]]
    BY <1>3, JobType, IdType, PushType DEF PushChallenge
  <2>2. "exempt" \in JobPcs
    BY DEF JobPcs
  <2>3. job' \in [Conns -> Jobs]
    BY <1>3, <2>2, GotoType DEF PushChallenge
  <2> QED BY <1>3, <2>1, <2>3 DEF PushChallenge, TypeOK, client, net, bounds
<1> QED BY <1>1, <1>2, <1>3

LEMMA ProofTypeOK ==
  ASSUME TypeOK, NEW k \in Conns,
         ReadExempt(k) \/ ReadBlocks(k) \/ PublishProof(k)
  PROVE  TypeOK'
<1>0. ledger \subseteq Assets /\ IsFiniteSet(ledger)
  BY DEF TypeOK
<1>1. CASE ReadExempt(k)
  <2> DEFINE kept == Chall(k) \ marked[File(k)]
  <2>1. kept \subseteq Indices
    BY JobType
  <2>2. [job[k] EXCEPT !.pc = "read", !.kept = kept] \in Jobs
    BY <2>1, JobType DEF Jobs, JobPcs
  <2>3. Stop(k) \/ Become(k, [job[k] EXCEPT !.pc = "read", !.kept = kept])
    BY <1>1 DEF ReadExempt
  <2>4. job' \in [Conns -> Jobs]
    BY <2>2, <2>3, StopType, BecomeType
  <2> QED BY <1>0, <1>1, <2>4, HandlerTypeOK DEF ReadExempt
<1>2. CASE ReadBlocks(k)
  <2> DEFINE proof == [over |-> job[k].kept,
                       intact |-> \A i \in job[k].kept : store[File(k)][i] = "good"]
  <2>1. proof \in [over : SUBSET Indices, intact : BOOLEAN]
    BY JobType DEF Jobs
  <2>2. [[job[k].asset EXCEPT !.kind = "proof"] EXCEPT !.proof = proof] \in Assets
    BY <2>1, JobType DEF Assets, Kinds
  <2> DEFINE j == [job[k] EXCEPT !.pc = "prove", !.kept = {}, !.asset.kind = "proof",
                                 !.asset.proof = proof]
  <2>3. j \in Jobs
    BY <2>2, JobType DEF Jobs, JobPcs
  <2>4. Stop(k) \/ Become(k, j)
    BY <1>2 DEF ReadBlocks
  <2>5. job' \in [Conns -> Jobs]
    BY <2>3, <2>4, StopType, BecomeType
  <2> QED BY <1>0, <1>2, <2>5, HandlerTypeOK DEF ReadBlocks
<1>3. CASE PublishProof(k)
  <2>1. "verify" \in JobPcs
    BY DEF JobPcs
  <2>2. job' \in [Conns -> Jobs]
    BY <1>3, <2>1, GotoType DEF PublishProof
  <2>3. ledger' \subseteq Assets /\ IsFiniteSet(ledger')
    BY <1>3, JobType, LedgerType DEF PublishProof
  <2> QED BY <1>3, <2>2, <2>3, HandlerTypeOK DEF PublishProof
<1> QED BY <1>1, <1>2, <1>3

LEMMA VerifyTypeOK ==
  ASSUME TypeOK, NEW k \in Conns,
         ReadMarks(k) \/ AddMarks(k) \/ SetExpire(k) \/ PublishResult(k)
  PROVE  TypeOK'
<1>0. ledger \subseteq Assets /\ IsFiniteSet(ledger)
  BY DEF TypeOK
<1>1. CASE ReadMarks(k)
  <2>1. Unmarked(k) \subseteq Indices /\ marked[File(k)] \subseteq Indices
    BY JobType DEF Unmarked, TypeOK
  <2>2. [job[k] EXCEPT !.pc = "mark", !.marks = marked[File(k)], !.kept = Unmarked(k)] \in Jobs
    BY <2>1, JobType DEF Jobs, JobPcs
  <2>3. job' \in [Conns -> Jobs]
    BY <1>1, <2>2, BecomeType DEF ReadMarks
  <2> QED BY <1>0, <1>1, <2>3, HandlerTypeOK DEF ReadMarks
<1>2. CASE AddMarks(k)
  <2>1. Checked(k) \subseteq Indices
    BY JobType DEF Checked, Jobs
  <2>2. marked' \in [Files -> SUBSET Indices]
    <3>1. marked \in [Files -> SUBSET Indices] /\ File(k) \in Files
      BY JobType DEF TypeOK
    <3>2. \/ marked' = marked
          \/ marked' = [marked EXCEPT ![File(k)] = @ \cup Checked(k)]
      BY <1>2 DEF AddMarks
    <3> QED BY <2>1, <3>1, <3>2
  <2>3. "expire" \in JobPcs /\ "judge" \in JobPcs
    BY DEF JobPcs
  <2>4. Stop(k) \/ Goto(k, "expire") \/ Goto(k, "judge")
    BY <1>2 DEF AddMarks
  <2>5. job' \in [Conns -> Jobs]
    BY <2>3, <2>4, StopType, GotoType
  <2> QED BY <1>2, <2>2, <2>5 DEF AddMarks, TypeOK, client, net, bounds
<1>3. CASE SetExpire(k)
  <2>1. ttl' \in [Files -> BOOLEAN]
    BY <1>3 DEF SetExpire, TypeOK
  <2>2. "judge" \in JobPcs
    BY DEF JobPcs
  <2>3. job' \in [Conns -> Jobs]
    BY <1>3, <2>2, GotoType DEF SetExpire
  <2> QED BY <1>3, <2>1, <2>3 DEF SetExpire, TypeOK, client, net, bounds
<1>4. CASE PublishResult(k)
  <2> DEFINE a == [job[k].asset EXCEPT !.kind = "result", !.result = IF Accepted(k) THEN 1 ELSE 0]
  <2>1. a \in Assets
    <3>1. job[k].asset \in Assets
      BY JobType
    <3>2. "result" \in Kinds /\ (IF Accepted(k) THEN 1 ELSE 0) \in 0 .. 2
      BY DEF Kinds
    <3> QED BY <3>1, <3>2 DEF Assets
  <2>2. ledger' \subseteq Assets /\ IsFiniteSet(ledger')
    BY <1>4, <2>1, LedgerType DEF PublishResult
  <2>3. "pushProof" \in JobPcs
    BY DEF JobPcs
  <2>4. job' \in [Conns -> Jobs]
    BY <1>4, <2>3, GotoType DEF PublishResult
  <2> QED BY <1>4, <2>2, <2>4, HandlerTypeOK DEF PublishResult
<1> QED BY <1>1, <1>2, <1>3, <1>4

LEMMA ListTypeOK ==
  ASSUME TypeOK, NEW k \in Conns,
         PushProof(k) \/ PushResult(k) \/ ReadList(k) \/ ClearList(k)
  PROVE  TypeOK'
<1>1. CASE PushProof(k)
  <2>1. list' \in [Users -> [Files -> Seq(Ids)]]
    BY <1>1, JobType, IdType, PushType DEF PushProof
  <2>2. "pushResult" \in JobPcs
    BY DEF JobPcs
  <2>3. job' \in [Conns -> Jobs]
    BY <1>1, <2>2, GotoType DEF PushProof
  <2> QED BY <1>1, <2>1, <2>3 DEF PushProof, TypeOK, client, net, bounds
<1>2. CASE PushResult(k)
  <2>1. [Id(job[k].asset) EXCEPT !.kind = "result"] \in Ids
    BY JobType, IdType DEF Ids, Kinds
  <2>2. list' \in [Users -> [Files -> Seq(Ids)]]
    BY <1>2, <2>1, PushType DEF PushResult
  <2>3. job' \in [Conns -> Jobs]
    BY <1>2, StopType DEF PushResult
  <2> QED BY <1>2, <2>2, <2>3 DEF PushResult, TypeOK, client, net, bounds
<1>3. CASE ReadList(k)
  <2> DEFINE ids == list[User(k)][File(k)]
  <2>1. list \in [Users -> [Files -> Seq(Ids)]] /\ User(k) \in Users /\ File(k) \in Files
    BY ConnUser, JobType DEF TypeOK
  <2>2. ids \in Seq(Ids)
    BY <2>1
  <2>3. [job[k] EXCEPT !.pc = "clear", !.ids = ids] \in Jobs
    BY <2>2, JobType DEF Jobs, JobPcs
  <2>4. \/ Become(k, [job[k] EXCEPT !.pc = "clear", !.ids = ids]) /\ poll' = poll
        \/ Stop(k) /\ Answer(k, "idle", <<>>)
    BY <1>3 DEF ReadList
  <2>5. job' \in [Conns -> Jobs]
    BY <2>3, <2>4, StopType, BecomeType
  <2>6. poll' \in [Users -> Polls]
    <3>1. poll \in [Users -> Polls]
      BY DEF TypeOK, Polls
    <3>2. Answer(k, "idle", <<>>) => poll' \in [Users -> Polls]
      <4>1. <<>> \in Seq(Ids)
        OBVIOUS
      <4> QED BY <4>1, AnswerType
    <3> QED BY <2>4, <3>1, <3>2
  <2> QED BY <1>3, <2>5, <2>6 DEF ReadList, TypeOK, Polls, net, redis, bounds
<1>4. CASE ClearList(k)
  <2>1. job[k].ids \in Seq(Ids)
    BY JobType DEF Jobs
  <2>2. poll' \in [Users -> Polls]
    BY <1>4, <2>1, AnswerType DEF ClearList
  <2>3. list' \in [Users -> [Files -> Seq(Ids)]]
    <3>1. list \in [Users -> [Files -> Seq(Ids)]] /\ <<>> \in Seq(Ids)
      BY DEF TypeOK
    <3> QED BY <1>4, <3>1 DEF ClearList
  <2>4. job' \in [Conns -> Jobs]
    BY <1>4, StopType DEF ClearList
  <2> QED BY <1>4, <2>2, <2>3, <2>4 DEF ClearList, TypeOK, Polls, net, bounds
<1> QED BY <1>1, <1>2, <1>3, <1>4

LEMMA FaultTypeOK ==
  ASSUME TypeOK, [Next]_vars,
         \/ \E u \in Users : Restart(u)
         \/ \E k \in Conns : Fail(k)
         \/ Damage \/ \E f \in Files : Expire(f)
  PROVE  TypeOK'
<1>1. ASSUME NEW u \in Users, Restart(u) PROVE TypeOK'
  <2>1. /\ faults' \in [FaultKinds -> 0 .. MaxFaults]
        /\ faults'["restart"] = faults["restart"] + 1
    BY <1>1, FaultType DEF Restart
  <2>2. faults["restart"] \in Nat
    BY AuditAssumption DEF TypeOK, FaultKinds
  <2>3. conn' \in [Users -> Nat] /\ \A v \in Users : conn'[v] <= faults'["restart"]
    <3>1. conn \in [Users -> Nat] /\ \A v \in Users : conn[v] <= faults["restart"]
      BY DEF TypeOK
    <3>2. conn' = [conn EXCEPT ![u] = @ + 1]
      BY <1>1 DEF Restart
    <3> QED BY <2>1, <2>2, <3>1, <3>2
  <2>4. /\ click' \in [Users -> [Files -> Nat]] /\ sent' \in [Users -> [Files -> Nat]]
        /\ writer' \in [Users -> [Files -> [WriteSteps -> Nat]]]
    BY <1>1 DEF Restart, TypeOK
  <2>5. poll' \in [Users -> Polls]
    BY <1>1, QuietIsPoll DEF Restart, TypeOK, Polls
  <2>6. inbox' \in [Conns -> Seq(Requests)]
    <3>1. inbox \in [Conns -> Seq(Requests)]
      BY DEF TypeOK, Requests
    <3>2. PICK n \in 0 .. Len(inbox[Line(u)]) :
            inbox' = [inbox EXCEPT ![Line(u)] = SubSeq(@, 1, n)]
      BY <1>1 DEF Restart
    <3>3. SubSeq(inbox[Line(u)], 1, n) \in Seq(Requests)
      BY <3>1, LineIsConn
    <3> QED BY <3>1, <3>2, <3>3
  <2> QED BY <1>1, <2>1, <2>3, <2>4, <2>5, <2>6 DEF Restart, TypeOK, Polls, Requests, redis
<1>2. ASSUME NEW k \in Conns, Fail(k) PROVE TypeOK'
  <2>1. /\ faults' \in [FaultKinds -> 0 .. MaxFaults]
        /\ faults'["restart"] = faults["restart"]
    BY <1>2, FaultType DEF Fail
  <2>2. job' \in [Conns -> Jobs]
    BY <1>2, StopType DEF Fail
  <2>3. poll' \in [Users -> Polls]
    <3>1. Answer(k, "idle", <<>>) \/ poll' = poll
      BY <1>2 DEF Fail
    <3>2. poll \in [Users -> Polls]
      BY DEF TypeOK, Polls
    <3>3. Answer(k, "idle", <<>>) => poll' \in [Users -> Polls]
      <4>1. <<>> \in Seq(Ids)
        OBVIOUS
      <4> QED BY <4>1, AnswerType
    <3> QED BY <3>1, <3>2, <3>3
  <2> QED BY <1>2, <2>1, <2>2, <2>3 DEF Fail, TypeOK, Polls, net, redis
<1>3. CASE Damage
  <2>1. /\ faults' \in [FaultKinds -> 0 .. MaxFaults]
        /\ faults'["restart"] = faults["restart"]
    BY <1>3, FaultType DEF Damage
  <2>2. PICK f \in Files : \E i \in Index(f), s \in {"damaged", "missing"} :
          store' = [store EXCEPT ![f][i] = s]
    BY <1>3 DEF Damage
  <2>3. DOMAIN store' = Files
    BY <2>2 DEF TypeOK
  <2>4. \A g \in Files : store'[g] \in [Index(g) -> {"good", "damaged", "missing"}]
    BY <2>2 DEF TypeOK
  <2> QED BY <1>3, <2>1, <2>3, <2>4 DEF Damage, TypeOK, client, net, redis
<1>4. ASSUME NEW f \in Files, Expire(f) PROVE TypeOK'
  <2>1. /\ faults' \in [FaultKinds -> 0 .. MaxFaults]
        /\ faults'["restart"] = faults["restart"]
    <3>1. CASE UNCHANGED faults
      BY <3>1 DEF TypeOK
    <3>2. CASE Fault("expiry")
      BY <3>2, FaultType
    <3> QED BY <1>4, <3>1, <3>2 DEF Expire
  <2>2. marked' \in [Files -> SUBSET Indices] /\ ttl' \in [Files -> BOOLEAN]
    BY <1>4 DEF Expire, TypeOK
  <2> QED BY <1>4, <2>1, <2>2 DEF Expire, TypeOK, client, net
<1> QED BY <1>1, <1>2, <1>3, <1>4

LEMMA NextTypeOK == TypeOK /\ [Next]_vars => TypeOK'
<1> SUFFICES ASSUME TypeOK, [Next]_vars PROVE TypeOK'
  OBVIOUS
<1>1. CASE UNCHANGED vars \/ Finished
  BY <1>1 DEF Finished, TypeOK, vars, client, net, redis, bounds
<1>2. ASSUME NEW u \in Users, Submit(u) \/ Client(u) PROVE TypeOK'
  BY <1>2, ClientTypeOK
<1>3. ASSUME NEW k \in Conns, Serve(k) PROVE TypeOK'
  BY <1>3, PublishTypeOK, ProofTypeOK, VerifyTypeOK, ListTypeOK DEF Serve
<1> QED BY <1>1, <1>2, <1>3, FaultTypeOK DEF Next

\* The files, queues, stores and the handlers' locals keep their types, for any
\* number of users, files, blocks and audits and under every fault.
THEOREM AuditTypeCorrect == Spec => []TypeOK
BY InitTypeOK, NextTypeOK, PTL DEF Spec

----------------------------------------------------------------------------
(* The proofs on the chain: what is exempt and what a verdict rests on *)

Verifying == {"verify", "mark", "expire", "judge", "pushProof", "pushResult"}

\* What the handler of connection k knows of its challenge: every block in it is in
\* a proof on the chain, or among those that are about to be proved.  The blocks
\* left out because of the shared set are proved by MarksProven, and stay so as
\* nothing is ever removed from the chain.
Covered(k) ==
  /\ At(k, "publish") => job[k].asset.kind = "challenge"
  /\ At(k, "read") => \A i \in Chall(k) : i \in job[k].kept \/ Proven(File(k), i)
  /\ At(k, "prove") => /\ job[k].asset.kind = "proof"
                       /\ \A i \in Chall(k) :
                            i \in job[k].asset.proof.over \/ Proven(File(k), i)
  /\ job[k].pc \in Verifying => \A i \in Chall(k) : Proven(File(k), i)
  /\ At(k, "mark") => job[k].kept \subseteq Chall(k)

\* The inductive invariant: MarksProven alone is not, since AddMarks takes the
\* handler's word for what it adds.
CoverInv == MarksProven /\ VerdictSound /\ \A k \in Conns : Covered(k)

LEMMA CoverInvInit == Init => CoverInv
BY DEF Init, CoverInv, MarksProven, VerdictSound, Covered, At, Free, Verifying

\* A proof on the chain stays there.
LEMMA ProvenStays ==
  ASSUME ledger \subseteq ledger', NEW f, NEW i, Proven(f, i)
  PROVE  Proven(f, i)'
BY DEF Proven

\* A handler that does not move knows what it knew.
LEMMA CoveredStays ==
  ASSUME ledger \subseteq ledger', NEW k \in Conns, job'[k] = job[k], Covered(k)
  PROVE  Covered(k)'
BY ProvenStays DEF Covered, At, File, Chall

\* It is enough to look at the handler that moves, the marks and the new assets.
LEMMA CoverInvStep ==
  ASSUME TypeOK, CoverInv, ledger \subseteq ledger', NEW k \in Conns, NEW j, Become(k, j),
         Covered(k)',
         \A f \in Files : \A i \in marked'[f] : i \in marked[f] \/ Proven(f, i),
         \A r \in ledger' : r \in ledger \/
           (r.kind = "result" /\ r.result = 1 =>
              r.proof.intact /\ \A i \in r.chall : Proven(r.file, i))
  PROVE  CoverInv'
<1>1. \A e \in Conns : e # k => job'[e] = job[e]
  BY DEF Become, TypeOK
<1>2. \A e \in Conns : Covered(e)'
  BY <1>1, CoveredStays DEF CoverInv
<1>3. MarksProven'
  BY ProvenStays DEF CoverInv, MarksProven
<1>4. VerdictSound'
  BY ProvenStays DEF CoverInv, VerdictSound
<1> QED BY <1>2, <1>3, <1>4 DEF CoverInv

\* A handler that stops, or goes on to where it needs to know nothing.
LEMMA CoverInvLeave ==
  ASSUME TypeOK, CoverInv, ledger' = ledger, marked' = marked, NEW k \in Conns,
         NEW j \in Jobs, Become(k, j),
         j.pc \notin Verifying \cup {"publish", "read", "prove", "mark"}
  PROVE  CoverInv'
<1>1. job'[k] = j
  BY DEF Become, TypeOK
<1>2. Covered(k)'
  BY <1>1 DEF Covered, At
<1> QED BY <1>2, CoverInvStep

\* A handler that goes from one step of the verification to another.
LEMMA CoverInvVerify ==
  ASSUME TypeOK, CoverInv, ledger \subseteq ledger', NEW k \in Conns, NEW pc \in Verifying,
         pc # "mark", job[k].pc \in Verifying, Goto(k, pc)
  PROVE  Covered(k)'
<1>1. job[k] \in Jobs
  BY JobType
<1>2. job'[k] = [job[k] EXCEPT !.pc = pc]
  BY DEF Goto, Become, TypeOK
<1>3. job'[k].pc = pc /\ job'[k].asset = job[k].asset
  BY <1>1, <1>2 DEF Jobs
<1>4. \A i \in Chall(k) : Proven(File(k), i)
  BY DEF CoverInv, Covered
<1> QED BY <1>3, <1>4, ProvenStays DEF Covered, At, File, Chall, Verifying

LEMMA CoverInvPublish ==
  ASSUME TypeOK, CoverInv, NEW k \in Conns,
         Receive(k) \/ PublishChall(k) \/ PushChallenge(k)
  PROVE  CoverInv'
<1>1. CASE Receive(k)
  <2> DEFINE f == Head(inbox[k]).file
  <2> DEFINE pc == IF Head(inbox[k]).kind = "publish" THEN "publish" ELSE "range"
  <2>1. Become(k, [Free EXCEPT !.pc = pc, !.asset = [Blank EXCEPT !.file = f]])
    BY <1>1 DEF Receive
  <2>2. job'[k].pc \in {"publish", "range"} /\ job'[k].asset.kind = "challenge"
    BY <2>1 DEF Become, TypeOK, Free, Blank
  <2>3. Covered(k)'
    BY <2>2 DEF Covered, At, Verifying
  <2>4. ledger' = ledger /\ marked' = marked
    BY <1>1 DEF Receive, redis
  <2> QED BY <2>1, <2>3, <2>4, CoverInvStep
<1>2. CASE PublishChall(k)
  <2>1. PICK a, au, S :
          /\ a = [job[k].asset EXCEPT !.audit = au, !.chall = S]
          /\ ledger' = ledger \cup {a}
          /\ Become(k, [job[k] EXCEPT !.pc = "push", !.asset = a])
    BY <1>2 DEF PublishChall
  <2>2. job[k].asset \in Assets /\ job[k] \in Jobs
    BY JobType
  <2>3. a.kind = "challenge"
    BY <1>2, <2>1, <2>2 DEF PublishChall, CoverInv, Covered, Assets
  <2>4. job'[k].pc = "push"
    BY <2>1, <2>2 DEF Become, TypeOK, Jobs
  <2>5. Covered(k)'
    BY <2>4 DEF Covered, At, Verifying
  <2>6. marked' = marked
    BY <1>2 DEF PublishChall, redis
  <2>7. ledger \subseteq ledger' /\ \A r \in ledger' : r \in ledger \/ r.kind # "result"
    BY <2>1, <2>3
  <2> QED BY <2>1, <2>5, <2>6, <2>7, CoverInvStep
<1>3. CASE PushChallenge(k)
  <2>1. [job[k] EXCEPT !.pc = "exempt"] \in Jobs
    BY JobType DEF Jobs, JobPcs
  <2>2. [job[k] EXCEPT !.pc = "exempt"].pc = "exempt"
    BY JobType DEF Jobs
  <2> QED BY <1>3, <2>1, <2>2, CoverInvLeave DEF PushChallenge, Goto, Verifying
<1> QED BY <1>1, <1>2, <1>3

LEMMA StopCover ==
  ASSUME TypeOK, CoverInv, ledger' = ledger, marked' = marked, NEW k \in Conns, Stop(k)
  PROVE  CoverInv'
<1>1. Free \in Jobs /\ Free.pc = "free"
  BY ConnUser, FreeIsJob DEF Free
<1> QED BY <1>1, CoverInvLeave DEF Stop, Verifying

\* The prover: what it leaves out is marked, and what it does not is in its proof.
LEMMA CoverInvProof ==
  ASSUME TypeOK, CoverInv, NEW k \in Conns,
         ReadExempt(k) \/ ReadBlocks(k) \/ PublishProof(k)
  PROVE  CoverInv'
<1>0. job[k] \in Jobs /\ job[k].asset \in Assets /\ File(k) \in Files
  BY JobType
<1>1. CASE ReadExempt(k)
  <2>1. ledger' = ledger /\ marked' = marked
    BY <1>1 DEF ReadExempt, redis
  <2>2. CASE Stop(k)
    BY <2>1, <2>2, StopCover
  <2>3. CASE Become(k, [job[k] EXCEPT !.pc = "read", !.kept = Chall(k) \ marked[File(k)]])
    <3>1. /\ job'[k].pc = "read" /\ job'[k].asset = job[k].asset
          /\ job'[k].kept = Chall(k) \ marked[File(k)]
      BY <1>0, <2>3 DEF Become, TypeOK, Jobs
    <3>2. \A i \in Chall(k) : i \in job'[k].kept \/ Proven(File(k), i)
      BY <1>0, <3>1 DEF CoverInv, MarksProven
    <3>3. Covered(k)'
      BY <2>1, <3>1, <3>2 DEF Covered, At, Verifying, File, Chall, Proven
    <3> QED BY <2>1, <2>3, <3>3, CoverInvStep
  <2> QED BY <1>1, <2>2, <2>3 DEF ReadExempt
<1>2. CASE ReadBlocks(k)
  <2>1. ledger' = ledger /\ marked' = marked
    BY <1>2 DEF ReadBlocks, redis
  <2>2. CASE Stop(k)
    BY <2>1, <2>2, StopCover
  <2>3. ASSUME NEW b,
               Become(k, [job[k] EXCEPT !.pc = "prove", !.kept = {}, !.asset.kind = "proof",
                            !.asset.proof = [over |-> job[k].kept, intact |-> b]])
        PROVE  CoverInv'
    <3>1. /\ job'[k].pc = "prove" /\ job'[k].asset.kind = "proof"
          /\ job'[k].asset.file = File(k) /\ job'[k].asset.chall = Chall(k)
          /\ job'[k].asset.proof.over = job[k].kept
      BY <1>0, <2>3 DEF Become, TypeOK, Jobs, Assets, File, Chall
    <3>2. \A i \in Chall(k) : i \in job[k].kept \/ Proven(File(k), i)
      BY <1>2 DEF ReadBlocks, CoverInv, Covered
    <3>3. Covered(k)'
      BY <2>1, <3>1, <3>2 DEF Covered, At, Verifying, File, Chall, Proven
    <3> QED BY <2>1, <2>3, <3>3, CoverInvStep
  <2> QED BY <1>2, <2>2, <2>3 DEF ReadBlocks
<1>3. CASE PublishProof(k)
  <2>1. /\ ledger' = ledger \cup {job[k].asset} /\ marked' = marked
        /\ Goto(k, "verify") /\ At(k, "prove")
    BY <1>3 DEF PublishProof, redis
  <2>2. /\ job[k].asset.kind = "proof"
        /\ \A i \in Chall(k) : i \in job[k].asset.proof.over \/ Proven(File(k), i)
    BY <2>1 DEF CoverInv, Covered
  <2>3. job'[k].pc = "verify" /\ job'[k].asset = job[k].asset
    BY <1>0, <2>1 DEF Goto, Become, TypeOK, Jobs
  <2>4. \A i \in Chall(k) : Proven(File(k), i)'
    <3> SUFFICES ASSUME NEW i \in Chall(k) PROVE (\E p \in ledger : p.kind = "proof"
                          /\ p.file = job[k].asset.file /\ i \in p.proof.over)'
      BY <2>3 DEF Proven, File
    <3> QED BY <2>1, <2>2, <2>3 DEF Proven, File
  <2>5. Covered(k)'
    BY <2>3, <2>4 DEF Covered, At, Verifying, File, Chall
  <2> QED BY <2>1, <2>2, <2>5, CoverInvStep DEF Goto
<1> QED BY <1>1, <1>2, <1>3

\* The verifier: it exempts blocks of the challenge only, and accepts only a proof
\* computed from the right bytes.
LEMMA CoverInvVerdict ==
  ASSUME TypeOK, CoverInv, NEW k \in Conns,
         ReadMarks(k) \/ AddMarks(k) \/ SetExpire(k) \/ PublishResult(k)
  PROVE  CoverInv'
<1>0. job[k] \in Jobs /\ job[k].asset \in Assets /\ File(k) \in Files
  BY JobType
<1>1. \A i \in Chall(k) : Proven(File(k), i)
  <2>1. job[k].pc \in Verifying
    BY DEF ReadMarks, AddMarks, SetExpire, PublishResult, At, Verifying
  <2> QED BY <2>1 DEF CoverInv, Covered
<1>2. CASE ReadMarks(k)
  <2>1. ledger' = ledger /\ marked' = marked
    BY <1>2 DEF ReadMarks, redis
  <2>2. Become(k, [job[k] EXCEPT !.pc = "mark", !.marks = marked[File(k)], !.kept = Unmarked(k)])
    BY <1>2 DEF ReadMarks
  <2>3. /\ job'[k].pc = "mark" /\ job'[k].asset = job[k].asset
        /\ job'[k].kept \subseteq Chall(k)
    BY <1>0, <2>2 DEF Become, TypeOK, Jobs, Unmarked
  <2>4. Covered(k)'
    BY <1>1, <2>1, <2>3 DEF Covered, At, Verifying, File, Chall, Proven
  <2> QED BY <2>1, <2>2, <2>4, CoverInvStep
<1>3. CASE AddMarks(k)
  <2>1. ledger' = ledger
    BY <1>3 DEF AddMarks
  <2>2. CASE Stop(k) /\ UNCHANGED marked
    BY <2>1, <2>2, StopCover
  <2>3. ASSUME marked' = [marked EXCEPT ![File(k)] = @ \cup Checked(k)],
               NEW pc \in {"expire", "judge"}, Goto(k, pc)
        PROVE  CoverInv'
    <3>1. job[k].kept \subseteq Chall(k) /\ job[k].pc \in Verifying
      BY <1>3 DEF AddMarks, CoverInv, Covered, At, Verifying
    <3>2. \A f \in Files : \A i \in marked'[f] : i \in marked[f] \/ Proven(f, i)
      BY <1>0, <1>1, <2>3, <3>1 DEF Checked, TypeOK
    <3>3. Covered(k)'
      BY <2>1, <2>3, <3>1, CoverInvVerify DEF Verifying
    <3> QED BY <2>1, <2>3, <3>2, <3>3, CoverInvStep DEF Goto
  <2> QED BY <1>3, <2>2, <2>3 DEF AddMarks
<1>4. CASE SetExpire(k)
  <2>1. ledger' = ledger /\ marked' = marked /\ Goto(k, "judge") /\ job[k].pc \in Verifying
    BY <1>4 DEF SetExpire, At, Verifying
  <2>2. Covered(k)'
    BY <2>1, CoverInvVerify DEF Verifying
  <2> QED BY <2>1, <2>2, CoverInvStep DEF Goto
<1>5. CASE PublishResult(k)
  <2> DEFINE r == [job[k].asset EXCEPT !.kind = "result",
                                       !.result = IF Accepted(k) THEN 1 ELSE 0]
  <2>1. /\ ledger' = ledger \cup {r} /\ marked' = marked
        /\ Goto(k, "pushProof") /\ job[k].pc \in Verifying
    BY <1>5 DEF PublishResult, At, Verifying, redis
  <2>2. /\ r.file = File(k) /\ r.chall = Chall(k) /\ r.proof = job[k].asset.proof
        /\ r.result = 1 => Accepted(k)
    BY <1>0 DEF Assets, File, Chall
  <2>3. r.result = 1 => r.proof.intact
    BY <2>2 DEF Accepted
  <2>4. Covered(k)'
    BY <2>1, CoverInvVerify DEF Verifying
  <2>5. ledger \subseteq ledger'
    BY <2>1
  <2>6. \A s \in ledger' : s \in ledger \/
          (s.kind = "result" /\ s.result = 1 =>
             s.proof.intact /\ \A i \in s.chall : Proven(s.file, i))
    <3>1. r.result = 1 => r.proof.intact /\ \A i \in r.chall : Proven(r.file, i)
      BY <1>1, <2>2, <2>3
    <3>2. \A s \in ledger' : s \in ledger \/ s = r
      BY <2>1
    <3> HIDE DEF r
    <3> QED BY <3>1, <3>2
  <2> QED BY <2>1, <2>4, <2>5, <2>6, CoverInvStep DEF Goto
<1> QED BY <1>2, <1>3, <1>4, <1>5

\* The other steps: of the lists, the clients, the faults and of time.
LEMMA CoverInvRest ==
  ASSUME TypeOK, CoverInv,
         \/ \E k \in Conns : \/ PushProof(k) \/ PushResult(k) \/ ReadList(k) \/ ClearList(k)
                            \/ Fail(k)
         \/ \E u \in Users : Submit(u) \/ Client(u) \/ Restart(u)
         \/ Damage \/ Finished \/ UNCHANGED vars
         \/ \E f \in Files : Expire(f)
  PROVE  CoverInv'
<1>1. ASSUME NEW k \in Conns, PushProof(k) PROVE CoverInv'
  <2>1. ledger' = ledger /\ marked' = marked /\ Goto(k, "pushResult") /\ job[k].pc \in Verifying
    BY <1>1 DEF PushProof, At, Verifying
  <2>2. Covered(k)'
    BY <2>1, CoverInvVerify DEF Verifying
  <2> QED BY <2>1, <2>2, CoverInvStep DEF Goto
<1>2. ASSUME NEW k \in Conns, PushResult(k) \/ ClearList(k) \/ Fail(k) PROVE CoverInv'
  <2>1. ledger' = ledger /\ marked' = marked /\ Stop(k)
    BY <1>2 DEF PushResult, ClearList, Fail, redis
  <2> QED BY <2>1, StopCover
<1>3. ASSUME NEW k \in Conns, ReadList(k) PROVE CoverInv'
  <2>1. ledger' = ledger /\ marked' = marked
    BY <1>3 DEF ReadList, redis
  <2>2. CASE Stop(k)
    BY <2>1, <2>2, StopCover
  <2>3. ASSUME NEW ids, Become(k, [job[k] EXCEPT !.pc = "clear", !.ids = ids]) PROVE CoverInv'
    <3>1. job'[k].pc = "clear"
      BY <2>3, JobType DEF Become, TypeOK, Jobs
    <3>2. Covered(k)'
      BY <3>1 DEF Covered, At, Verifying
    <3> QED BY <2>1, <2>3, <3>2, CoverInvStep
  <2> QED BY <1>3, <2>2, <2>3 DEF ReadList
<1>4. ASSUME UNCHANGED <<job, ledger>>,
             \A f \in Files : marked'[f] \subseteq marked[f]
      PROVE  CoverInv'
  <2>1. \A k \in Conns : Covered(k)'
    BY <1>4, CoveredStays DEF CoverInv
  <2>2. MarksProven' /\ VerdictSound'
    BY <1>4 DEF CoverInv, MarksProven, VerdictSound, Proven
  <2> QED BY <2>1, <2>2 DEF CoverInv
<1>5. ASSUME NEW u \in Users, Submit(u) \/ Client(u) \/ Restart(u) PROVE CoverInv'
  <2>1. UNCHANGED <<job, ledger, marked>>
    BY <1>5, ClientApart
  <2> QED BY <1>4, <2>1
<1>6. CASE Damage \/ Finished \/ UNCHANGED vars
  <2>1. UNCHANGED <<job, ledger, marked>>
    BY <1>6 DEF Damage, Finished, vars, redis
  <2> QED BY <1>4, <2>1
<1>7. ASSUME NEW f \in Files, Expire(f) PROVE CoverInv'
  <2>1. UNCHANGED <<job, ledger>> /\ marked' = [marked EXCEPT ![f] = {}]
    BY <1>7 DEF Expire
  <2>2. \A g \in Files : marked'[g] \subseteq marked[g]
    BY <2>1 DEF TypeOK
  <2> QED BY <1>4, <2>1, <2>2
<1> QED BY <1>1, <1>2, <1>3, <1>5, <1>6, <1>7

LEMMA CoverInvNext == TypeOK /\ CoverInv /\ [Next]_vars => CoverInv'
<1> SUFFICES ASSUME TypeOK, CoverInv, [Next]_vars PROVE CoverInv'
  OBVIOUS
<1>1. ASSUME NEW k \in Conns, Serve(k) PROVE CoverInv'
  BY <1>1, CoverInvPublish, CoverInvProof, CoverInvVerdict, CoverInvRest DEF Serve
<1> QED BY <1>1, CoverInvRest DEF Next

\* A block is exempt from audits only if a proof over it is on the chain, however
\* many audits of the file run at once, stop half way or find the shared set gone.
THEOREM MarksAreProven == Spec => []MarksProven
<1>1. CoverInv => MarksProven
  BY DEF CoverInv
<1> QED BY InitTypeOK, NextTypeOK, CoverInvInit, CoverInvNext, <1>1, PTL DEF Spec

\* A verdict of 1 rests on a proof computed from the right bytes, and each block of
\* its challenge is in a proof on the chain.
THEOREM VerdictsAreSound == Spec => []VerdictSound
<1>1. CoverInv => VerdictSound
  BY DEF CoverInv
<1> QED BY InitTypeOK, NextTypeOK, CoverInvInit, CoverInvNext, <1>1, PTL DEF Spec

----------------------------------------------------------------------------
(* Each asset of an audit gets a key of its own *)

Unproved == {"push", "exempt", "read", "prove"}
Unjudged == Unproved \cup {"verify", "mark", "expire", "judge"}
Running == Unjudged \cup {"pushProof", "pushResult"}
Audit(k) == job[k].asset.audit

Challenges(u) == {a \in ledger : a.audit[1] = u /\ a.kind = "challenge"}
Numbers(u) == 1 .. Cardinality(Challenges(u))

\* A running audit is numbered, and no other one has its number; its proof and its verdict
\* are not on the chain before the handler puts them there.
Fresh(k) ==
  /\ job[k].pc \in Running => Audit(k)[1] = User(k) /\ Audit(k)[2] \in Numbers(User(k))
  /\ job[k].pc \in Unproved =>
       \A a \in ledger : a.audit = Audit(k) => a.kind \notin {"proof", "result"}
  /\ job[k].pc \in Unjudged => \A a \in ledger : a.audit = Audit(k) => a.kind # "result"

KeyOnce == \A a, b \in ledger : Id(a) = Id(b) => a = b
Numbered == \A a \in ledger : a.audit[2] \in Numbers(a.audit[1])
Apart == \A k, e \in Conns :
  k # e /\ job[k].pc \in Running /\ job[e].pc \in Running => Audit(k) # Audit(e)

FreshInv == KeyOnce /\ Numbered /\ Apart /\ \A k \in Conns : Fresh(k)

LEMMA FreshInvInit == Init => FreshInv
BY DEF Init, FreshInv, KeyOnce, Numbered, Apart, Fresh, Free, Running, Unjudged, Unproved

\* Where an audit stands after a step of its handler: no earlier than before.
Onward(k) ==
  job'[k].pc \in Running =>
    /\ job[k].pc \in Running /\ Audit(k)' = Audit(k)
    /\ job'[k].pc \in Unproved => job[k].pc \in Unproved
    /\ job'[k].pc \in Unjudged => job[k].pc \in Unjudged

\* Steps that leave the chain alone and start no audit.
LEMMA FreshInvQuiet ==
  ASSUME FreshInv, ledger' = ledger, \A k \in Conns : Onward(k)
  PROVE  FreshInv'
<1>1. KeyOnce' /\ Numbered'
  BY DEF FreshInv, KeyOnce, Numbered, Numbers, Challenges
<1>2. Apart'
  BY DEF FreshInv, Apart, Onward
<1>3. ASSUME NEW k \in Conns PROVE Fresh(k)'
  <2>1. Fresh(k) /\ Onward(k)
    BY DEF FreshInv
  <2>2. \A u : Numbers(u)' = Numbers(u)
    BY DEF Numbers, Challenges
  <2> QED BY <2>1, <2>2 DEF Fresh, Onward, Running, Unjudged, Unproved
<1> QED BY <1>1, <1>2, <1>3 DEF FreshInv

\* A handler that puts the proof or the verdict of its audit on the chain.
LEMMA FreshInvPut ==
  ASSUME TypeOK, FreshInv, NEW k \in Conns, NEW a \in Assets, ledger' = ledger \cup {a},
         job[k].pc \in Running, a.audit = Audit(k), a.kind \in {"proof", "result"},
         \A b \in ledger : Id(b) # Id(a),
         \A e \in Conns : Onward(e), job'[k].pc \notin Unproved,
         a.kind = "result" => job'[k].pc \notin Unjudged
  PROVE  FreshInv'
<1>1. \A u : Challenges(u)' = Challenges(u)
  BY DEF Challenges
<1>2. \A u : Numbers(u)' = Numbers(u)
  BY <1>1 DEF Numbers
<1>3. KeyOnce'
  BY DEF FreshInv, KeyOnce
<1>4. Numbered'
  BY <1>2 DEF FreshInv, Numbered, Fresh
<1>5. Apart'
  BY DEF FreshInv, Apart, Onward
<1>6. ASSUME NEW e \in Conns PROVE Fresh(e)'
  <2>1. Fresh(e) /\ Onward(e)
    BY DEF FreshInv
  <2>2. e # k /\ job'[e].pc \in Running => Audit(e)' # a.audit
    BY DEF FreshInv, Apart, Onward
  <2> QED BY <1>2, <2>1, <2>2 DEF Fresh, Onward, Running, Unjudged, Unproved
<1> QED BY <1>3, <1>4, <1>5, <1>6 DEF FreshInv

LEMMA Moves ==
  ASSUME TypeOK, NEW k \in Conns, NEW j, Become(k, j)
  PROVE  job'[k] = j /\ \A e \in Conns : e # k => Onward(e)
BY DEF Become, TypeOK, Onward, Audit

\* A handler that stops, starts or goes on, its challenge as it was.
LEMMA FreshInvMove ==
  ASSUME TypeOK, FreshInv, NEW k \in Conns, NEW j, Become(k, j), ledger' = ledger,
         j.pc \in Running => /\ job[k].pc \in Running /\ j.asset.audit = Audit(k)
                             /\ j.pc \in Unproved => job[k].pc \in Unproved
                             /\ j.pc \in Unjudged => job[k].pc \in Unjudged
  PROVE  FreshInv'
<1>1. job'[k] = j
  BY Moves
<1>2. Onward(k)
  BY <1>1 DEF Onward, Audit
<1> QED BY <1>2, Moves, FreshInvQuiet

----------------------------------------------------------------------------
(* The three transactions *)

\* A challenge is numbered one more than the user has challenges on the chain.
LEMMA FreshChallenge ==
  ASSUME TypeOK, CoverInv, FreshInv, NEW k \in Conns, PublishChall(k)
  PROVE  /\ FreshInv'
         /\ \E a \in Assets : /\ ledger' = ledger \cup {a} /\ a.kind = "challenge"
                              /\ \A b \in ledger : Id(b) # Id(a)
<1> DEFINE u == User(k)
<1> DEFINE n == Cardinality(Challenges(u))
<1> DEFINE asset(S) == [job[k].asset EXCEPT !.audit = <<u, n + 1>>, !.chall = S]
<1>1. PICK S \in SUBSET Index(File(k)) :
        /\ ledger' = ledger \cup {asset(S)}
        /\ Become(k, [job[k] EXCEPT !.pc = "push", !.asset = asset(S)])
  BY DEF PublishChall, Challenges
<1>2. u \in Users /\ job[k].asset \in Assets /\ job[k] \in Jobs /\ S \subseteq Indices
  BY ConnUser, JobType, IndexType
<1>3. IsFiniteSet(Challenges(u)) /\ n \in Nat
  BY FS_Subset, FS_CardinalityType DEF TypeOK, Challenges
<1>4. job[k].asset.kind = "challenge"
  BY DEF PublishChall, CoverInv, Covered
<1> DEFINE a == asset(S)
<1>5. a \in Assets /\ a.kind = "challenge" /\ a.audit = <<u, n + 1>>
  <2>1. <<u, n + 1>> \in Audits
    BY <1>2, <1>3 DEF Audits
  <2>2. a \in Assets
    BY <1>2, <2>1 DEF Assets
  <2>3. a.kind = job[k].asset.kind /\ a.audit = <<u, n + 1>>
    BY <1>2 DEF Assets
  <2> QED BY <1>4, <2>2, <2>3
<1>6. job'[k].pc = "push" /\ job'[k].asset = a
  <2>1. job'[k] = [job[k] EXCEPT !.pc = "push", !.asset = a]
    BY <1>1, Moves
  <2> HIDE DEF asset
  <2> QED BY <1>2, <2>1 DEF Jobs
<1>7. \A b \in ledger : b.audit # <<u, n + 1>>
  BY <1>3 DEF FreshInv, Numbered, Numbers
<1> HIDE DEF asset
<1>8. Challenges(u)' = Challenges(u) \cup {a} /\ a \notin Challenges(u)
  BY <1>1, <1>5, <1>7 DEF Challenges
<1>9. Cardinality(Challenges(u)') = n + 1
  BY <1>3, <1>8, FS_AddElement
<1>10. \A v : v # u => Challenges(v)' = Challenges(v)
  BY <1>1, <1>5 DEF Challenges
<1>11. \A v : Numbers(v) \subseteq Numbers(v)'
  BY <1>3, <1>9, <1>10 DEF Numbers
<1>12. n + 1 \in Numbers(u)'
  BY <1>3, <1>9 DEF Numbers
<1>13. \A e \in Conns : job'[e].pc \in Running /\ e # k =>
         job[e].pc \in Running /\ Audit(e)' = Audit(e) /\ Audit(e) # <<u, n + 1>>
  <2>1. \A e \in Conns : e # k => Onward(e)
    BY <1>1, Moves
  <2>2. \A e \in Conns : job[e].pc \in Running => Audit(e) # <<u, n + 1>>
    BY <1>3 DEF FreshInv, Fresh, Numbers
  <2> QED BY <2>1, <2>2 DEF Onward
<1>14. KeyOnce'
  <2>1. \A b \in ledger : Id(b) # Id(a)
    BY <1>5, <1>7 DEF Id
  <2> QED BY <1>1, <2>1 DEF FreshInv, KeyOnce
<1>15. Numbered'
  BY <1>1, <1>5, <1>11, <1>12 DEF FreshInv, Numbered
<1>16. Apart'
  BY <1>5, <1>6, <1>13 DEF FreshInv, Apart, Audit
<1>17. ASSUME NEW e \in Conns PROVE Fresh(e)'
  <2>1. CASE e = k
    <3>1. Audit(k)' = <<u, n + 1>> /\ job'[k].pc = "push"
      BY <1>5, <1>6 DEF Audit
    <3>2. \A b \in ledger' : b.audit = <<u, n + 1>> => b.kind = "challenge"
      BY <1>1, <1>5, <1>7
    <3> QED BY <2>1, <3>1, <3>2, <1>12 DEF Fresh
  <2>2. CASE e # k
    <3>1. Fresh(e) /\ Onward(e)
      BY <1>1, <2>2, Moves DEF FreshInv
    <3>2. \A b \in ledger' : b \in ledger \/ b.kind = "challenge"
      BY <1>1, <1>5
    <3> QED BY <1>11, <3>1, <3>2 DEF Fresh, Onward, Running, Unjudged, Unproved
  <2> QED BY <2>1, <2>2
<1> QED BY <1>1, <1>5, <1>7, <1>14, <1>15, <1>16, <1>17 DEF FreshInv, Id

LEMMA FreshProof ==
  ASSUME TypeOK, CoverInv, FreshInv, NEW k \in Conns, PublishProof(k)
  PROVE  /\ FreshInv'
         /\ \E a \in Assets : /\ ledger' = ledger \cup {a} /\ a.kind = "proof"
                              /\ \A b \in ledger : Id(b) # Id(a)
<1> DEFINE a == job[k].asset
<1>1. a \in Assets /\ job[k] \in Jobs
  BY JobType
<1>2. /\ ledger' = ledger \cup {a} /\ job[k].pc = "prove"
      /\ Become(k, [job[k] EXCEPT !.pc = "verify"])
  BY DEF PublishProof, At, Goto
<1>3. a.kind = "proof"
  BY <1>2 DEF CoverInv, Covered, At
<1>4. \A b \in ledger : Id(b) # Id(a)
  BY <1>2, <1>3 DEF FreshInv, Fresh, Id, Audit, Unproved
<1>5. job'[k].pc = "verify" /\ Audit(k)' = Audit(k)
  BY <1>1, <1>2, Moves DEF Jobs, Audit
<1>6. \A e \in Conns : Onward(e)
  BY <1>2, <1>5, Moves DEF Onward, Running, Unjudged, Unproved
<1>7. a.audit = Audit(k) /\ job[k].pc \in Running /\ job'[k].pc \notin Unproved
  BY <1>2, <1>5 DEF Audit, Running, Unjudged, Unproved
<1>8. FreshInv'
  BY <1>1, <1>2, <1>3, <1>4, <1>6, <1>7, FreshInvPut
<1> QED BY <1>1, <1>2, <1>3, <1>4, <1>8

\* The verdict passes the chaincode's own check of the pairing.
LEMMA FreshResult ==
  ASSUME TypeOK, FreshInv, NEW k \in Conns, PublishResult(k)
  PROVE  /\ FreshInv'
         /\ \E a \in Assets : /\ ledger' = ledger \cup {a}
                              /\ a.result = 1 => Pairs(a)
                              /\ \A b \in ledger : Id(b) # Id(a)
<1> DEFINE a == [job[k].asset EXCEPT !.kind = "result", !.result = IF Accepted(k) THEN 1 ELSE 0]
<1>1. job[k].asset \in Assets /\ job[k] \in Jobs
  BY JobType
<1>2. /\ a \in Assets /\ a.kind = "result" /\ a.audit = Audit(k)
      /\ a.proof = job[k].asset.proof /\ a.result = 1 => Accepted(k)
  <2>1. "result" \in Kinds /\ (IF Accepted(k) THEN 1 ELSE 0) \in 0 .. 2
    BY DEF Kinds
  <2>2. a \in Assets
    BY <1>1, <2>1 DEF Assets
  <2>3. /\ a.kind = "result" /\ a.audit = job[k].asset.audit /\ a.proof = job[k].asset.proof
        /\ a.result = IF Accepted(k) THEN 1 ELSE 0
    BY <1>1 DEF Assets
  <2> QED BY <2>2, <2>3 DEF Audit
<1>3. /\ ledger' = ledger \cup {a} /\ job[k].pc = "judge"
      /\ Become(k, [job[k] EXCEPT !.pc = "pushProof"])
  BY DEF PublishResult, At, Goto
<1>4. a.result = 1 => Pairs(a)
  BY <1>2 DEF Accepted, Pairs
<1> HIDE DEF a
<1>5. \A b \in ledger : Id(b) # Id(a)
  BY <1>2, <1>3 DEF FreshInv, Fresh, Id, Unjudged
<1>6. job'[k].pc = "pushProof" /\ Audit(k)' = Audit(k)
  BY <1>1, <1>3, Moves DEF Jobs, Audit
<1>7. \A e \in Conns : Onward(e)
  BY <1>3, <1>6, Moves DEF Onward, Running, Unjudged, Unproved
<1>8. job[k].pc \in Running /\ job'[k].pc \notin Unjudged /\ job'[k].pc \notin Unproved
  BY <1>3, <1>6 DEF Running, Unjudged, Unproved
<1>9. FreshInv'
  BY <1>2, <1>3, <1>5, <1>7, <1>8, FreshInvPut
<1> QED BY <1>2, <1>3, <1>4, <1>5, <1>9

----------------------------------------------------------------------------
(* Every step is one of the chain, or leaves it alone *)

LEMMA FreshInvServe ==
  ASSUME TypeOK, FreshInv, NEW k \in Conns, Serve(k) \/ Fail(k),
         ~PublishChall(k), ~PublishProof(k), ~PublishResult(k)
  PROVE  FreshInv' /\ ledger' = ledger
<1>0. job[k] \in Jobs /\ job[k].asset \in Assets
  BY JobType
<1>1. ASSUME Stop(k), ledger' = ledger PROVE FreshInv'
  <2>1. Free.pc \notin Running
    BY DEF Free, Running, Unjudged, Unproved
  <2> QED BY <1>1, <2>1, FreshInvMove DEF Stop
<1>2. ASSUME NEW pc \in Running, job[k].pc \in Running, Goto(k, pc), ledger' = ledger,
             pc \in Unproved => job[k].pc \in Unproved,
             pc \in Unjudged => job[k].pc \in Unjudged
      PROVE  FreshInv'
  <2> DEFINE j == [job[k] EXCEPT !.pc = pc]
  <2>1. j.pc = pc /\ j.asset.audit = Audit(k)
    BY <1>0 DEF Jobs, Audit
  <2> QED BY <1>2, <2>1, FreshInvMove DEF Goto
<1>3. CASE Receive(k)
  <2> DEFINE req == Head(inbox[k])
             j == [Free EXCEPT !.pc = IF req.kind = "publish" THEN "publish" ELSE "range",
                               !.asset = [Blank EXCEPT !.file = req.file]]
  <2>1. Become(k, j) /\ ledger' = ledger
    BY <1>3 DEF Receive
  <2>2. j.pc \notin Running
    BY DEF Free, Running, Unjudged, Unproved
  <2> HIDE DEF j
  <2> QED BY <2>1, <2>2, FreshInvMove
<1>4. CASE PushChallenge(k)
  <2>1. ledger' = ledger /\ job[k].pc = "push" /\ Goto(k, "exempt")
    BY <1>4 DEF PushChallenge, At
  <2> QED BY <1>2, <2>1 DEF Running, Unjudged, Unproved
<1>5. CASE ReadExempt(k)
  <2>1. ledger' = ledger /\ job[k].pc = "exempt"
    BY <1>5 DEF ReadExempt, At
  <2>2. PICK kept : Stop(k) \/ Become(k, [job[k] EXCEPT !.pc = "read", !.kept = kept])
    BY <1>5 DEF ReadExempt
  <2>3. /\ [job[k] EXCEPT !.pc = "read", !.kept = kept].pc = "read"
        /\ [job[k] EXCEPT !.pc = "read", !.kept = kept].asset = job[k].asset
    BY <1>0 DEF Jobs
  <2> QED BY <1>1, <2>1, <2>2, <2>3, FreshInvMove DEF Running, Unjudged, Unproved, Audit
<1>6. CASE ReadBlocks(k)
  <2>1. ledger' = ledger /\ job[k].pc = "read"
    BY <1>6 DEF ReadBlocks, At
  <2>2. PICK proof : \/ Stop(k)
                     \/ Become(k, [job[k] EXCEPT !.pc = "prove", !.kept = {},
                                     !.asset.kind = "proof", !.asset.proof = proof])
    BY <1>6 DEF ReadBlocks
  <2> DEFINE j == [job[k] EXCEPT !.pc = "prove", !.kept = {}, !.asset.kind = "proof",
                                 !.asset.proof = proof]
  <2>3. j.pc = "prove" /\ j.asset.audit = Audit(k)
    BY <1>0 DEF Jobs, Assets, Audit
  <2> QED BY <1>1, <2>1, <2>2, <2>3, FreshInvMove DEF Running, Unjudged, Unproved
<1>7. CASE ReadMarks(k)
  <2>1. ledger' = ledger /\ job[k].pc = "verify"
    BY <1>7 DEF ReadMarks, At
  <2> DEFINE j == [job[k] EXCEPT !.pc = "mark", !.marks = marked[File(k)], !.kept = Unmarked(k)]
  <2>2. Become(k, j) /\ j.pc = "mark" /\ j.asset = job[k].asset
    BY <1>0, <1>7 DEF ReadMarks, Jobs
  <2> QED BY <2>1, <2>2, FreshInvMove DEF Running, Unjudged, Unproved, Audit
<1>8. CASE AddMarks(k)
  <2>1. ledger' = ledger /\ job[k].pc = "mark"
    BY <1>8 DEF AddMarks, At
  <2>2. Stop(k) \/ Goto(k, "expire") \/ Goto(k, "judge")
    BY <1>8 DEF AddMarks
  <2> QED BY <1>1, <1>2, <2>1, <2>2 DEF Running, Unjudged, Unproved
<1>9. CASE SetExpire(k)
  <2>1. ledger' = ledger /\ job[k].pc = "expire" /\ Goto(k, "judge")
    BY <1>9 DEF SetExpire, At
  <2> QED BY <1>2, <2>1 DEF Running, Unjudged, Unproved
<1>10. CASE PushProof(k)
  <2>1. ledger' = ledger /\ job[k].pc = "pushProof" /\ Goto(k, "pushResult")
    BY <1>10 DEF PushProof, At
  <2> QED BY <1>2, <2>1 DEF Running, Unjudged, Unproved
<1>11. CASE ReadList(k)
  <2>1. ledger' = ledger
    BY <1>11 DEF ReadList
  <2>2. PICK ids : Stop(k) \/ Become(k, [job[k] EXCEPT !.pc = "clear", !.ids = ids])
    BY <1>11 DEF ReadList
  <2>3. [job[k] EXCEPT !.pc = "clear", !.ids = ids].pc \notin Running
    BY <1>0 DEF Jobs, Running, Unjudged, Unproved
  <2> QED BY <1>1, <2>1, <2>2, <2>3, FreshInvMove
<1>12. CASE PushResult(k) \/ ClearList(k) \/ Fail(k)
  <2>1. ledger' = ledger /\ Stop(k)
    BY <1>12 DEF PushResult, ClearList, Fail
  <2> QED BY <1>1, <2>1
<1>13. ledger' = ledger
  BY DEF Serve, Receive, PushChallenge, ReadExempt, ReadBlocks, ReadMarks, AddMarks, SetExpire,
         PushProof, PushResult, ReadList, ClearList, Fail
<1> QED BY <1>3, <1>4, <1>5, <1>6, <1>7, <1>8, <1>9, <1>10, <1>11, <1>12, <1>13 DEF Serve

LEMMA FreshInvRest ==
  ASSUME FreshInv,
         \/ \E u \in Users : Submit(u) \/ Client(u) \/ Restart(u)
         \/ Damage \/ Finished \/ UNCHANGED vars
         \/ \E f \in Files : Expire(f)
  PROVE  FreshInv' /\ ledger' = ledger
<1>1. UNCHANGED <<job, ledger>>
  BY ClientApart DEF Damage, Finished, Expire, vars
<1>2. \A k \in Conns : Onward(k)
  BY <1>1 DEF Onward, Audit
<1> QED BY <1>1, <1>2, FreshInvQuiet

LEMMA ChainStep ==
  ASSUME TypeOK, TypeOK', CoverInv, FreshInv, [Next]_vars
  PROVE  FreshInv' /\ [Chain!Next]_ledger
<1>1. ASSUME NEW a \in Assets, ledger' = ledger \cup {a}, \A b \in ledger : Id(b) # Id(a),
             a.kind = "result" /\ a.result = 1 => Pairs(a)
      PROVE  Chain!Next
  <2>1. Chain!CreateAuditAsset(a)
    BY <1>1 DEF Chain!CreateAuditAsset, Chain!Verified, Chain!AssetExists
  <2>2. a \in ledger'
    BY <1>1
  <2> QED BY <2>1, <2>2 DEF Chain!Next
<1>2. ASSUME NEW k \in Conns, Serve(k) \/ Fail(k) PROVE FreshInv' /\ [Chain!Next]_ledger
  <2>1. CASE PublishChall(k)
    <3>1. PICK a \in Assets : /\ ledger' = ledger \cup {a} /\ a.kind = "challenge"
                              /\ \A b \in ledger : Id(b) # Id(a)
      BY <2>1, FreshChallenge
    <3> QED BY <1>1, <2>1, <3>1, FreshChallenge
  <2>2. CASE PublishProof(k)
    <3>1. PICK a \in Assets : /\ ledger' = ledger \cup {a} /\ a.kind = "proof"
                              /\ \A b \in ledger : Id(b) # Id(a)
      BY <2>2, FreshProof
    <3> QED BY <1>1, <2>2, <3>1, FreshProof
  <2>3. CASE PublishResult(k)
    <3>1. PICK a \in Assets : /\ ledger' = ledger \cup {a} /\ a.result = 1 => Pairs(a)
                              /\ \A b \in ledger : Id(b) # Id(a)
      BY <2>3, FreshResult
    <3> QED BY <1>1, <2>3, <3>1, FreshResult
  <2> QED BY <1>2, <2>1, <2>2, <2>3, FreshInvServe
<1> QED BY <1>2, FreshInvRest DEF Next

\* Audit implements Ledger: however many audits overlap, stop halfway or are asked for
\* again, the SSPs create each asset under a key of its own, change and remove none, and file
\* no verdict that the chaincode would turn into its opposite.
THEOREM AuditImplementsLedger == Spec => OnChain
<1>1. Init => Chain!Init
  BY DEF Init, Chain!Init
<1> QED BY <1>1, InitTypeOK, NextTypeOK, CoverInvInit, CoverInvNext, FreshInvInit, ChainStep, PTL
        DEF Spec, OnChain, Chain!Spec

\* The ids in a user's log and in the lists name one asset each.
THEOREM AuditKeysUnique == Spec => []Chain!KeysUnique
<1>1. FreshInv => Chain!KeysUnique
  BY DEF FreshInv, KeyOnce, Chain!KeysUnique
<1> QED BY <1>1, InitTypeOK, NextTypeOK, CoverInvInit, CoverInvNext, FreshInvInit, ChainStep, PTL
        DEF Spec
----------------------------------------------------------------------------
(* What each step of a handler does *)

OthersStay(k) == \A e \in Conns : e # k => job'[e] = job[e]

LEMMA BecomeEffect ==
  ASSUME TypeOK, NEW k \in Conns, NEW j, Become(k, j)
  PROVE  job'[k] = j /\ OthersStay(k)
BY DEF TypeOK, Become, OthersStay

LEMMA StopEffect ==
  ASSUME TypeOK, NEW k \in Conns, Stop(k)
  PROVE  job'[k].pc = "free" /\ OthersStay(k)
BY BecomeEffect DEF Stop, Free

LEMMA GotoEffect ==
  ASSUME TypeOK, NEW k \in Conns, NEW pc, Goto(k, pc)
  PROVE  /\ job'[k].pc = pc /\ job'[k].asset = job[k].asset /\ job'[k].kept = job[k].kept
         /\ OthersStay(k)
<1>1. job'[k] = [job[k] EXCEPT !.pc = pc] /\ OthersStay(k)
  BY BecomeEffect DEF Goto
<1> QED BY <1>1, JobType DEF Jobs

LEMMA ReceiveEffect ==
  ASSUME TypeOK, NEW k \in Conns, Receive(k)
  PROVE  /\ job[k].pc = "free" /\ inbox[k] # <<>>
         /\ job'[k].pc = IF Head(inbox[k]).kind = "publish" THEN "publish" ELSE "range"
         /\ File(k)' = Head(inbox[k]).file /\ OthersStay(k)
         /\ job'[k].asset.kind = "challenge" /\ job'[k].asset.result = 2
         /\ inbox' = [inbox EXCEPT ![k] = Tail(@)]
         /\ UNCHANGED <<client, conn, ledger, redis, store, bounds>>
<1>1. job'[k] = [Free EXCEPT !.pc = IF Head(inbox[k]).kind = "publish" THEN "publish" ELSE "range",
                             !.asset = [Blank EXCEPT !.file = Head(inbox[k]).file]]
      /\ OthersStay(k)
  BY BecomeEffect DEF Receive
<1>2. \A pc, f : LET j == [Free EXCEPT !.pc = pc, !.asset = [Blank EXCEPT !.file = f]] IN
        j.pc = pc /\ j.asset.file = f /\ j.asset.kind = "challenge" /\ j.asset.result = 2
  BY DEF Free, Blank
<1>3. PICK pc, f : /\ pc = IF Head(inbox[k]).kind = "publish" THEN "publish" ELSE "range"
                   /\ f = Head(inbox[k]).file
  OBVIOUS
<1>4. job'[k].pc = pc /\ job'[k].asset.file = f /\ job'[k].asset.kind = "challenge"
      /\ job'[k].asset.result = 2
  BY <1>1, <1>2, <1>3
<1> QED BY <1>1, <1>3, <1>4 DEF Receive, At, File

LEMMA PublishChallEffect ==
  ASSUME TypeOK, NEW k \in Conns, PublishChall(k)
  PROVE  /\ job[k].pc = "publish" /\ job'[k].pc = "push"
         /\ File(k)' = File(k) /\ OthersStay(k)
         /\ Chall(k)' # {} /\ Chall(k)' \subseteq Index(File(k))
         /\ job'[k].asset.kind = job[k].asset.kind /\ Audit(k)'[1] = User(k)
         /\ ledger' = ledger \cup {job'[k].asset} /\ job'[k].asset.result = job[k].asset.result
         /\ UNCHANGED <<client, net, redis, store, bounds>>
<1> DEFINE mine == {a \in ledger : a.audit[1] = User(k) /\ a.kind = "challenge"}
           asset(S) == [job[k].asset EXCEPT !.audit = <<User(k), Cardinality(mine) + 1>>,
                                            !.chall = S]
<1>1. PICK S \in (SUBSET Index(File(k))) \ {{}} :
        /\ ledger' = ledger \cup {asset(S)}
        /\ Become(k, [job[k] EXCEPT !.pc = "push", !.asset = asset(S)])
  BY DEF PublishChall
<1>2. job'[k] = [job[k] EXCEPT !.pc = "push", !.asset = asset(S)] /\ OthersStay(k)
  BY <1>1, BecomeEffect
<1>3. /\ asset(S).file = File(k) /\ asset(S).chall = S /\ asset(S).kind = job[k].asset.kind
      /\ asset(S).result = job[k].asset.result /\ asset(S).audit[1] = User(k)
  BY JobType DEF Assets, File
<1>4. job'[k].pc = "push" /\ job'[k].asset = asset(S)
  <2> HIDE DEF asset
  <2> QED BY <1>2, JobType DEF Jobs
<1> HIDE DEF asset
<1> QED BY <1>1, <1>2, <1>3, <1>4 DEF PublishChall, At, File, Chall, Audit

LEMMA PushChallengeEffect ==
  ASSUME TypeOK, NEW k \in Conns, PushChallenge(k)
  PROVE  /\ job[k].pc = "push" /\ job'[k].pc = "exempt" /\ job'[k].asset = job[k].asset
         /\ OthersStay(k) /\ Push(k, Id(job[k].asset))
         /\ UNCHANGED <<client, net, ledger, marked, ttl, store, bounds>>
BY GotoEffect DEF PushChallenge, At

LEMMA ReadExemptEffect ==
  ASSUME TypeOK, NEW k \in Conns, ReadExempt(k)
  PROVE  /\ job[k].pc = "exempt" /\ OthersStay(k)
         /\ UNCHANGED <<client, net, ledger, redis, store, bounds>>
         /\ \/ job'[k].pc = "free" /\ Chall(k) \ marked[File(k)] = {}
            \/ /\ job'[k].pc = "read" /\ job'[k].asset = job[k].asset
               /\ job'[k].kept = Chall(k) \ marked[File(k)]
<1>1. CASE Stop(k) /\ Chall(k) \ marked[File(k)] = {}
  BY <1>1, StopEffect DEF ReadExempt, At
<1>2. CASE Become(k, [job[k] EXCEPT !.pc = "read", !.kept = Chall(k) \ marked[File(k)]])
  <2>1. job'[k] = [job[k] EXCEPT !.pc = "read", !.kept = Chall(k) \ marked[File(k)]]
        /\ OthersStay(k)
    BY <1>2, BecomeEffect
  <2> QED BY <2>1, JobType DEF ReadExempt, At, Jobs
<1> QED BY <1>1, <1>2 DEF ReadExempt

LEMMA ReadBlocksEffect ==
  ASSUME TypeOK, NEW k \in Conns, ReadBlocks(k)
  PROVE  /\ job[k].pc = "read" /\ OthersStay(k)
         /\ UNCHANGED <<client, net, ledger, redis, store, bounds>>
         /\ \/ job'[k].pc = "free" /\ \E i \in job[k].kept : store[File(k)][i] = "missing"
            \/ /\ job'[k].pc = "prove" /\ job'[k].asset.kind = "proof"
               /\ File(k)' = File(k) /\ Chall(k)' = Chall(k) /\ Audit(k)' = Audit(k)
               /\ job'[k].asset.result = job[k].asset.result
               /\ job'[k].asset.proof.over = job[k].kept
               /\ job'[k].asset.proof.intact = (\A i \in job[k].kept : store[File(k)][i] = "good")
<1> DEFINE b == \A i \in job[k].kept : store[File(k)][i] = "good"
           j == [job[k] EXCEPT !.pc = "prove", !.kept = {}, !.asset.kind = "proof",
                               !.asset.proof = [over |-> job[k].kept, intact |-> b]]
<1>1. CASE Stop(k) /\ \E i \in job[k].kept : store[File(k)][i] = "missing"
  BY <1>1, StopEffect DEF ReadBlocks, At
<1>2. CASE Become(k, j)
  <2>1. job'[k] = j /\ OthersStay(k)
    BY <1>2, BecomeEffect
  <2>2. /\ j.pc = "prove" /\ j.asset.kind = "proof" /\ j.asset.file = File(k)
        /\ j.asset.chall = Chall(k) /\ j.asset.audit = Audit(k)
        /\ j.asset.result = job[k].asset.result
        /\ j.asset.proof = [over |-> job[k].kept, intact |-> b]
    <3> HIDE DEF b
    <3> QED BY JobType DEF Jobs, Assets, File, Chall, Audit
  <2> HIDE DEF j
  <2>3. job'[k].asset.proof.over = job[k].kept /\ job'[k].asset.proof.intact = b
    <3> HIDE DEF b
    <3> QED BY <2>1, <2>2
  <2> QED BY <1>2, <2>1, <2>2, <2>3 DEF ReadBlocks, At, File, Chall, Audit
<1> QED BY <1>1, <1>2 DEF ReadBlocks

LEMMA PublishProofEffect ==
  ASSUME TypeOK, NEW k \in Conns, PublishProof(k)
  PROVE  /\ job[k].pc = "prove" /\ job'[k].pc = "verify" /\ job'[k].asset = job[k].asset
         /\ OthersStay(k) /\ ledger' = ledger \cup {job[k].asset}
         /\ UNCHANGED <<client, net, redis, store, bounds>>
BY GotoEffect DEF PublishProof, At

LEMMA ReadMarksEffect ==
  ASSUME TypeOK, NEW k \in Conns, ReadMarks(k)
  PROVE  /\ job[k].pc = "verify" /\ job'[k].pc = "mark" /\ job'[k].asset = job[k].asset
         /\ OthersStay(k) /\ job'[k].marks = marked[File(k)]
         /\ job'[k].kept = Chall(k) \ marked[File(k)]
         /\ UNCHANGED <<client, net, ledger, redis, store, bounds>>
<1>1. job'[k] = [job[k] EXCEPT !.pc = "mark", !.marks = marked[File(k)], !.kept = Unmarked(k)]
      /\ OthersStay(k)
  BY BecomeEffect DEF ReadMarks
<1> QED BY <1>1, JobType DEF ReadMarks, At, Jobs, Unmarked

LEMMA AddMarksEffect ==
  ASSUME TypeOK, NEW k \in Conns, AddMarks(k)
  PROVE  /\ job[k].pc = "mark" /\ OthersStay(k)
         /\ UNCHANGED <<client, net, ledger, list, ttl, store, bounds>>
         /\ \/ job'[k].pc = "free" /\ marked' = marked /\ job[k].kept = {}
            \/ /\ job[k].kept # {}
               /\ marked' = [marked EXCEPT ![File(k)] = @ \cup job[k].kept]
               /\ job'[k].pc = IF job[k].marks = {} THEN "expire" ELSE "judge"
               /\ job'[k].asset = job[k].asset /\ job'[k].kept = job[k].kept
<1>1. CASE Stop(k) /\ marked' = marked /\ job[k].kept = {}
  BY <1>1, StopEffect DEF AddMarks, At
<1>2. CASE /\ job[k].kept # {} /\ Goto(k, IF New(k) THEN "expire" ELSE "judge")
           /\ marked' = [marked EXCEPT ![File(k)] = @ \cup Checked(k)]
  BY <1>2, GotoEffect DEF AddMarks, At, New, Checked
<1> QED BY <1>1, <1>2 DEF AddMarks

LEMMA SetExpireEffect ==
  ASSUME TypeOK, NEW k \in Conns, SetExpire(k)
  PROVE  /\ job[k].pc = "expire" /\ job'[k].pc = "judge" /\ job'[k].asset = job[k].asset
         /\ job'[k].kept = job[k].kept /\ OthersStay(k)
         /\ ttl' = [ttl EXCEPT ![File(k)] = marked[File(k)] # {}]
         /\ UNCHANGED <<client, net, ledger, list, marked, store, bounds>>
BY GotoEffect DEF SetExpire, At

LEMMA PublishResultEffect ==
  ASSUME TypeOK, NEW k \in Conns, PublishResult(k)
  PROVE  /\ job[k].pc = "judge" /\ job'[k].pc = "pushProof" /\ job'[k].asset = job[k].asset
         /\ OthersStay(k)
         /\ \E r \in Assets :
              /\ ledger' = ledger \cup {r} /\ r.kind = "result" /\ r.file = File(k)
              /\ r.audit = Audit(k) /\ r.chall = Chall(k)
              /\ r.proof = job[k].asset.proof
              /\ r.result = IF Accepted(k) THEN 1 ELSE 0
         /\ UNCHANGED <<client, net, redis, store, bounds>>
<1> DEFINE n == IF Accepted(k) THEN 1 ELSE 0
           r == [job[k].asset EXCEPT !.kind = "result", !.result = n]
<1>1. n \in 0 .. 2 /\ "result" \in Kinds
  BY DEF Kinds
<1>2. r \in Assets /\ ledger' = ledger \cup {r}
  <2>1. ledger' = ledger \cup {r}
    BY DEF PublishResult
  <2> HIDE DEF n
  <2> QED BY <1>1, <2>1, JobType DEF Assets
<1>3. /\ r.kind = "result" /\ r.file = File(k) /\ r.audit = Audit(k) /\ r.chall = Chall(k)
      /\ r.proof = job[k].asset.proof /\ r.result = n
  <2> HIDE DEF n
  <2> QED BY JobType DEF Assets, File, Audit, Chall
<1> HIDE DEF r
<1> QED BY <1>2, <1>3, GotoEffect DEF PublishResult, At

LEMMA PushProofEffect ==
  ASSUME TypeOK, NEW k \in Conns, PushProof(k)
  PROVE  /\ job[k].pc = "pushProof" /\ job'[k].pc = "pushResult" /\ job'[k].asset = job[k].asset
         /\ OthersStay(k) /\ Push(k, Id(job[k].asset))
         /\ UNCHANGED <<client, net, ledger, marked, ttl, store, bounds>>
BY GotoEffect DEF PushProof, At

LEMMA PushResultEffect ==
  ASSUME TypeOK, NEW k \in Conns, PushResult(k)
  PROVE  /\ job[k].pc = "pushResult" /\ job'[k].pc = "free" /\ OthersStay(k)
         /\ Push(k, [Id(job[k].asset) EXCEPT !.kind = "result"])
         /\ UNCHANGED <<client, net, ledger, marked, ttl, store, bounds>>
BY StopEffect DEF PushResult, At

LEMMA ReadListEffect ==
  ASSUME TypeOK, NEW k \in Conns, ReadList(k)
  PROVE  /\ job[k].pc = "range" /\ OthersStay(k)
         /\ UNCHANGED <<threads, disk, net, ledger, redis, store, bounds>>
         /\ \/ job'[k].pc = "free" /\ Answer(k, "idle", <<>>)
            \/ /\ Len(list[User(k)][File(k)]) = 3 /\ poll' = poll
               /\ job'[k].pc = "clear" /\ job'[k].asset = job[k].asset
               /\ job'[k].ids = list[User(k)][File(k)]
<1>1. CASE Stop(k) /\ Answer(k, "idle", <<>>)
  BY <1>1, StopEffect DEF ReadList, At
<1>2. CASE /\ AllIds(list[User(k)][File(k)]) /\ poll' = poll
           /\ Become(k, [job[k] EXCEPT !.pc = "clear", !.ids = list[User(k)][File(k)]])
  <2>1. job'[k] = [job[k] EXCEPT !.pc = "clear", !.ids = list[User(k)][File(k)]]
        /\ OthersStay(k)
    BY <1>2, BecomeEffect
  <2> QED BY <1>2, <2>1, JobType DEF ReadList, At, Jobs, AllIds
<1> QED BY <1>1, <1>2 DEF ReadList

LEMMA ClearListEffect ==
  ASSUME TypeOK, NEW k \in Conns, ClearList(k)
  PROVE  /\ job[k].pc = "clear" /\ job'[k].pc = "free" /\ OthersStay(k)
         /\ list' = [list EXCEPT ![User(k)][File(k)] = <<>>]
         /\ Answer(k, "finished", job[k].ids)
         /\ UNCHANGED <<threads, disk, net, ledger, marked, ttl, store, bounds>>
BY StopEffect DEF ClearList, At

LEMMA FailEffect ==
  ASSUME TypeOK, NEW k \in Conns, Fail(k)
  PROVE  /\ "fail" \in Faults /\ job[k].pc # "free" /\ job'[k].pc = "free" /\ OthersStay(k)
         /\ IF job[k].pc \in {"range", "clear"} THEN Answer(k, "idle", <<>>) ELSE poll' = poll
         /\ UNCHANGED <<threads, disk, net, ledger, redis, store, started, early>>
BY StopEffect DEF Fail, At, Fault

\* The steps that no handler takes.
Outside == \/ \E u \in Users : Submit(u) \/ Client(u) \/ Restart(u)
           \/ Damage \/ Finished \/ UNCHANGED vars

LEMMA OutsideEffect == Outside => UNCHANGED <<job, ledger, list, marked, ttl>>
BY ClientApart DEF Outside, Damage, Finished, vars, redis

\* What a handler leaves to the clients and to the other handlers.
LEMMA HandlerFrame ==
  ASSUME TypeOK, NEW k \in Conns, Serve(k) \/ Fail(k)
  PROVE  /\ OthersStay(k) /\ UNCHANGED <<threads, disk, conn, store, started, early>>
         /\ \A e \in Conns : e # k => inbox'[e] = inbox[e]
         /\ ~Receive(k) => inbox' = inbox /\ job[k].pc # "free"
<1>1. CASE Receive(k)
  <2>1. OthersStay(k) /\ inbox' = [inbox EXCEPT ![k] = Tail(@)]
        /\ UNCHANGED <<client, conn, store, bounds>>
    BY <1>1, ReceiveEffect DEF Receive
  <2>2. \A e \in Conns : e # k => inbox'[e] = inbox[e]
    BY <2>1 DEF TypeOK
  <2> QED BY <1>1, <2>1, <2>2 DEF client, bounds
<1>2. CASE PublishChall(k) \/ PushChallenge(k) \/ ReadExempt(k) \/ ReadBlocks(k)
  BY <1>2, PublishChallEffect, PushChallengeEffect, ReadExemptEffect, ReadBlocksEffect
     DEF client, net, bounds
<1>3. CASE PublishProof(k) \/ ReadMarks(k) \/ AddMarks(k) \/ SetExpire(k)
  BY <1>3, PublishProofEffect, ReadMarksEffect, AddMarksEffect, SetExpireEffect
     DEF client, net, bounds
<1>4. CASE PublishResult(k) \/ PushProof(k) \/ PushResult(k)
  BY <1>4, PublishResultEffect, PushProofEffect, PushResultEffect DEF client, net, bounds
<1>5. CASE ReadList(k) \/ ClearList(k) \/ Fail(k)
  BY <1>5, ReadListEffect, ClearListEffect, FailEffect DEF net, bounds
<1> QED BY <1>1, <1>2, <1>3, <1>4, <1>5 DEF Serve

----------------------------------------------------------------------------
(* Sharing lasts a short time *)

\* Who has found the set filled, and will not set a time to live, finds it filled still.
TimedInv ==
  /\ MarksTimed
  /\ \A k \in Conns : At(k, "mark") /\ job[k].marks # {} => marked[File(k)] # {}

\* A handler that neither adds to the set nor was about to set its time to live.
LEMMA TimedMove ==
  ASSUME TimedInv, UNCHANGED <<marked, ttl>>, NEW k \in Conns, OthersStay(k),
         job[k].pc # "expire",
         job'[k].pc = "mark" /\ job'[k].marks # {} => marked[File(k)'] # {}
  PROVE  TimedInv'
<1>1. MarksTimed'
  BY DEF TimedInv, MarksTimed, OthersStay, At, File
<1>2. \A e \in Conns : (At(e, "mark") /\ job[e].marks # {} => marked[File(e)] # {})'
  BY DEF TimedInv, OthersStay, At, File
<1> QED BY <1>1, <1>2 DEF TimedInv

LEMMA TimedAdd ==
  ASSUME TypeOK, TimedInv, NEW k \in Conns, AddMarks(k)
  PROVE  TimedInv'
<1>1. CASE job'[k].pc = "free" /\ marked' = marked
  BY <1>1, AddMarksEffect, TimedMove
<1>2. CASE /\ job[k].kept # {}
           /\ marked' = [marked EXCEPT ![File(k)] = @ \cup job[k].kept]
           /\ job'[k].pc = IF job[k].marks = {} THEN "expire" ELSE "judge"
           /\ job'[k].asset = job[k].asset
  <2>1. job[k].pc = "mark" /\ OthersStay(k) /\ ttl' = ttl /\ File(k)' = File(k)
    BY <1>2, AddMarksEffect DEF File
  <2>2. \A f \in Files : marked[f] \subseteq marked'[f] /\ (f # File(k) => marked'[f] = marked[f])
    BY <1>2, JobType DEF TypeOK
  <2>3. ASSUME NEW f \in Files, marked'[f] # {}
        PROVE  ttl'[f] \/ \E e \in Conns : At(e, "expire")' /\ File(e)' = f
    <3>1. CASE f = File(k) /\ job[k].marks = {}
      BY <1>2, <2>1, <3>1 DEF At
    <3>2. CASE marked[f] # {}
      <4>1. ttl[f] \/ \E e \in Conns : At(e, "expire") /\ File(e) = f
        BY <3>2 DEF TimedInv, MarksTimed
      <4>2. ASSUME NEW e \in Conns, At(e, "expire"), File(e) = f
            PROVE  At(e, "expire")' /\ File(e)' = f
        BY <2>1, <4>2 DEF OthersStay, At, File
      <4> QED BY <2>1, <4>1, <4>2
    <3>3. f = File(k) /\ job[k].marks # {} => marked[f] # {}
      BY <2>1 DEF TimedInv, At
    <3> QED BY <2>2, <2>3, <3>1, <3>2, <3>3
  <2>4. \A e \in Conns : (At(e, "mark") /\ job[e].marks # {} => marked[File(e)] # {})'
    <3> SUFFICES ASSUME NEW e \in Conns, At(e, "mark")', job'[e].marks # {}
                 PROVE  marked'[File(e)'] # {}
      OBVIOUS
    <3>1. e # k /\ job'[e] = job[e]
      BY <1>2, <2>1 DEF At, OthersStay
    <3>2. marked[File(e)] # {} /\ File(e)' = File(e)
      BY <3>1 DEF TimedInv, At, File
    <3> QED BY <2>2, <3>2, JobType
  <2> QED BY <2>3, <2>4 DEF TimedInv, MarksTimed
<1> QED BY <1>1, <1>2, AddMarksEffect

LEMMA TimedSet ==
  ASSUME TypeOK, TimedInv, NEW k \in Conns, SetExpire(k)
  PROVE  TimedInv'
<1>1. /\ job[k].pc = "expire" /\ job'[k].pc = "judge" /\ OthersStay(k) /\ marked' = marked
      /\ ttl' = [ttl EXCEPT ![File(k)] = marked[File(k)] # {}]
  BY SetExpireEffect
<1>2. ASSUME NEW f \in Files, marked[f] # {}
      PROVE  ttl'[f] \/ \E e \in Conns : At(e, "expire")' /\ File(e)' = f
  <2>1. CASE f = File(k)
    BY <1>1, <1>2, <2>1 DEF TypeOK
  <2>2. CASE f # File(k)
    <3>1. ttl'[f] = ttl[f]
      BY <1>1, <2>2 DEF TypeOK
    <3>2. ttl[f] \/ \E e \in Conns : At(e, "expire") /\ File(e) = f
      BY <1>2 DEF TimedInv, MarksTimed
    <3>3. \A e \in Conns : e # k /\ At(e, "expire") /\ File(e) = f =>
            At(e, "expire")' /\ File(e)' = f
      BY <1>1 DEF OthersStay, At, File
    <3> QED BY <2>2, <3>1, <3>2, <3>3
  <2> QED BY <2>1, <2>2
<1>3. \A e \in Conns : (At(e, "mark") /\ job[e].marks # {} => marked[File(e)] # {})'
  BY <1>1 DEF TimedInv, At, File, OthersStay
<1> QED BY <1>1, <1>2, <1>3 DEF TimedInv, MarksTimed

LEMMA TimedExpire ==
  ASSUME TypeOK, TimedInv, "expiry" \notin Faults, NEW f \in Files, Expire(f)
  PROVE  TimedInv'
<1>1. /\ \A k \in Conns : At(k, "free") \/ File(k) # f
      /\ marked' = [marked EXCEPT ![f] = {}] /\ ttl' = [ttl EXCEPT ![f] = FALSE]
      /\ job' = job
  BY DEF Expire, Fault
<1>2. marked'[f] = {} /\ \A g \in Files : g # f => marked'[g] = marked[g] /\ ttl'[g] = ttl[g]
  BY <1>1 DEF TypeOK
<1>3. MarksTimed'
  BY <1>1, <1>2 DEF TimedInv, MarksTimed, At, File
<1>4. \A e \in Conns : (At(e, "mark") /\ job[e].marks # {} => marked[File(e)] # {})'
  BY <1>1, <1>2, JobType DEF TimedInv, At, File
<1> QED BY <1>3, <1>4 DEF TimedInv

LEMMA TimedNext ==
  ASSUME Faults \cap {"fail", "expiry"} = {}
  PROVE  TypeOK /\ TimedInv /\ [Next]_vars => TimedInv'
<1> SUFFICES ASSUME TypeOK, TimedInv, [Next]_vars PROVE TimedInv'
  OBVIOUS
<1>1. CASE Outside
  BY <1>1, OutsideEffect DEF TimedInv, MarksTimed, At, File
<1>2. ASSUME NEW k \in Conns, Serve(k) PROVE TimedInv'
  <2>1. CASE Receive(k) \/ PublishChall(k) \/ PushChallenge(k)
    BY <2>1, ReceiveEffect, PublishChallEffect, PushChallengeEffect, TimedMove DEF redis
  <2>2. CASE ReadExempt(k) \/ ReadBlocks(k) \/ PublishProof(k)
    BY <2>2, ReadExemptEffect, ReadBlocksEffect, PublishProofEffect, TimedMove DEF redis
  <2>3. CASE ReadMarks(k)
    BY <2>3, ReadMarksEffect, TimedMove DEF redis, File
  <2>4. CASE PublishResult(k) \/ PushProof(k) \/ PushResult(k)
    BY <2>4, PublishResultEffect, PushProofEffect, PushResultEffect, TimedMove DEF redis
  <2>5. CASE ReadList(k) \/ ClearList(k)
    BY <2>5, ReadListEffect, ClearListEffect, TimedMove DEF redis
  <2> QED BY <1>2, <2>1, <2>2, <2>3, <2>4, <2>5, TimedAdd, TimedSet DEF Serve
<1>3. ASSUME NEW k \in Conns PROVE ~Fail(k)
  BY FailEffect
<1>4. ASSUME NEW f \in Files, Expire(f) PROVE TimedInv'
  BY <1>4, TimedExpire
<1> QED BY <1>1, <1>2, <1>3, <1>4 DEF Next, Outside

\* Sharing lasts a short time: as long as no handler ends halfway and the set does not
\* expire during an audit, the shared set of a file has a time to live, or the audit that
\* created it is about to set one, however many audits of the file overlap.
THEOREM AuditMarksTimed ==
  ASSUME Faults \cap {"fail", "expiry"} = {}
  PROVE  Spec => []MarksTimed
<1>1. Init => TimedInv
  BY DEF Init, TimedInv, MarksTimed, At, Free
<1>2. TimedInv => MarksTimed
  BY DEF TimedInv
<1>3. TypeOK /\ TimedInv /\ [Next]_vars => TimedInv'
  BY TimedNext
<1> QED BY InitTypeOK, NextTypeOK, <1>1, <1>2, <1>3, PTL DEF Spec

----------------------------------------------------------------------------
(* One connection for each user, and the requests on it *)

LEMMA AppendAt ==
  ASSUME NEW S, NEW q \in Seq(S), NEW m \in S
  PROVE  /\ DOMAIN Append(q, m) = DOMAIN q \cup {Len(q) + 1} /\ Len(q) + 1 \notin DOMAIN q
         /\ Append(q, m)[Len(q) + 1] = m /\ \A i \in DOMAIN q : Append(q, m)[i] = q[i]
OBVIOUS

LEMMA TailAt ==
  ASSUME NEW S, NEW q \in Seq(S), q # <<>>
  PROVE  /\ 1 \in DOMAIN q /\ Head(q) = q[1]
         /\ \A i \in DOMAIN Tail(q) : i \in Nat \ {0} /\ i + 1 \in DOMAIN q /\ Tail(q)[i] = q[i + 1]
OBVIOUS

Req(kind, f) == [kind |-> kind, file |-> f]

\* A request is put behind the others of its connection.
LEMMA SendEffect ==
  ASSUME TypeOK, NEW u \in Users, NEW kind \in {"publish", "isfin"}, NEW f \in Files,
         Send(u, kind, f)
  PROVE  LET q == inbox[Line(u)] IN
         /\ DOMAIN inbox'[Line(u)] = DOMAIN q \cup {Len(q) + 1} /\ Len(q) + 1 \notin DOMAIN q
         /\ inbox'[Line(u)][Len(q) + 1] = Req(kind, f)
         /\ \A i \in DOMAIN q : inbox'[Line(u)][i] = q[i]
         /\ \A e \in Conns : e # Line(u) => inbox'[e] = inbox[e]
<1>1. inbox \in [Conns -> Seq(Requests)] /\ Line(u) \in Conns
  BY LineIsConn DEF TypeOK, Requests
<1>2. Req(kind, f) \in Requests
  BY DEF Requests, Req
<1>3. inbox'[Line(u)] = Append(inbox[Line(u)], Req(kind, f))
      /\ \A e \in Conns : e # Line(u) => inbox'[e] = inbox[e]
  BY <1>1 DEF Send, Req
<1> QED BY <1>1, <1>2, <1>3, AppendAt

\* The first request of a connection is taken, the others move up.
LEMMA TakeEffect ==
  ASSUME TypeOK, NEW k \in Conns, Receive(k)
  PROVE  /\ 1 \in DOMAIN inbox[k] /\ Head(inbox[k]) = inbox[k][1]
         /\ \A i \in DOMAIN inbox'[k] : /\ i \in Nat \ {0} /\ i + 1 \in DOMAIN inbox[k]
                                        /\ inbox'[k][i] = inbox[k][i + 1]
<1>1. inbox \in [Conns -> Seq(Requests)] /\ inbox[k] # <<>>
  BY ReceiveEffect DEF TypeOK, Requests
<1>2. inbox'[k] = Tail(inbox[k])
  BY <1>1, ReceiveEffect
<1> QED BY <1>1, <1>2, TailAt

\* A client that does not restart has one connection.
OneLine ==
  /\ \A u \in Users : conn[u] = 0
  /\ \A k \in Conns : k[2] # 0 => job[k].pc = "free" /\ inbox[k] = <<>>

LEMMA OneLineInit == Init => OneLine
BY DEF Init, OneLine, Free

LEMMA OneLineNext ==
  ASSUME "restart" \notin Faults
  PROVE  TypeOK /\ OneLine /\ [Next]_vars => OneLine'
<1> SUFFICES ASSUME TypeOK, OneLine, [Next]_vars PROVE OneLine'
  OBVIOUS
<1>1. ASSUME NEW u \in Users PROVE ~Restart(u)
  BY DEF Restart, Fault
<1>2. ASSUME NEW u \in Users, NEW kind \in {"publish", "isfin"}, NEW f \in Files,
             Send(u, kind, f), UNCHANGED <<conn, job>>
      PROVE  OneLine'
  <2>1. \A e \in Conns : e # Line(u) => inbox'[e] = inbox[e]
    BY <1>2, SendEffect
  <2>2. Line(u)[2] = 0
    BY DEF OneLine, Line
  <2> QED BY <1>2, <2>1, <2>2 DEF OneLine
<1>3. ASSUME NEW u \in Users, Submit(u) \/ Client(u) PROVE OneLine'
  <2>1. CASE Request(u)
    BY <1>2, <2>1 DEF Request
  <2>2. ASSUME NEW f \in Files, AskFin(u, f) PROVE OneLine'
    BY <1>2, <2>2 DEF AskFin
  <2>3. CASE Submit(u) \/ CreateWait(u) \/ FillWait(u)
    BY <2>3 DEF Submit, CreateWait, FillWait, OneLine, net
  <2>4. CASE ReadDate(u) \/ WriteLog(u) \/ DeleteWait(u)
    BY <2>4 DEF ReadDate, WriteLog, DeleteWait, OneLine, net
  <2> QED BY <1>3, <2>1, <2>2, <2>3, <2>4 DEF Client, DoAudit, HandleFin
<1>4. ASSUME NEW k \in Conns, Serve(k) \/ Fail(k) PROVE OneLine'
  <2>1. job[k].pc = "free" => inbox[k] # <<>>
    BY <1>4, HandlerFrame, ReceiveEffect
  <2>2. k[2] = 0
    BY <2>1, <1>4, HandlerFrame, ReceiveEffect DEF OneLine
  <2> QED BY <1>4, <2>2, HandlerFrame DEF OneLine, OthersStay
<1>5. ASSUME Damage \/ Finished \/ UNCHANGED vars \/ \E f \in Files : Expire(f)
      PROVE  OneLine'
  BY <1>5 DEF Damage, Finished, Expire, vars, net, OneLine
<1> QED BY <1>1, <1>3, <1>4, <1>5 DEF Next

\* Writing the wait file of f.
LEMMA WriterEffect ==
  ASSUME TypeOK, NEW u \in Users, NEW f \in Files, NEW from \in WriteSteps,
         NEW to \in WriteSteps \ {from}, WriterMoves(u, f, from, to)
  PROVE  /\ Writing(u, f)
         /\ \A v \in Users, g \in Files : Writing(v, g)' => Writing(v, g)
         /\ \A v \in Users : v # u => writer'[v] = writer[v]
<1>1. writer \in [Users -> [Files -> [WriteSteps -> Nat]]] /\ writer[u][f][from] > 0
  BY DEF TypeOK, WriterMoves
<1>2. Writing(u, f)
  BY <1>1 DEF Writing
<1>3. \A v \in Users, g \in Files : v # u \/ g # f => writer'[v][g] = writer[v][g]
  BY <1>1 DEF WriterMoves
<1>4. \A v \in Users : v # u => writer'[v] = writer[v]
  BY <1>1 DEF WriterMoves
<1> QED BY <1>2, <1>3, <1>4 DEF Writing

LEMMA FillEffect ==
  ASSUME TypeOK, NEW u \in Users, FillWait(u)
  PROVE  /\ \A v \in Users, g \in Files : Writing(v, g)' => Writing(v, g)
         /\ \A v \in Users : wait[v] \subseteq wait'[v]
         /\ \A g \in Files : g \in wait'[u] => g \in wait[u] \/ Writing(u, g)
         /\ \A v \in Users : v # u => writer'[v] = writer[v] /\ wait'[v] = wait[v]
         /\ UNCHANGED <<click, sent, logs, poll, inbox, conn, job, ledger, redis, store, bounds>>
<1>1. PICK f \in Files : OpenWait(u, f) \/ WriteDate(u, f) \/ WriteName(u, f) \/ CloseWait(u, f)
  BY DEF FillWait
<1>2. {"created", "open", "dated", "named"} = WriteSteps
  BY DEF WriteSteps
<1>3. /\ writer \in [Users -> [Files -> [WriteSteps -> Nat]]] /\ wait \in [Users -> SUBSET Files]
  BY DEF TypeOK
<1>4. UNCHANGED <<click, sent, logs, poll, inbox, conn, job, ledger, redis, store, bounds>>
  BY DEF FillWait, net
<1>5. CASE OpenWait(u, f)
  <2>1. /\ Writing(u, f)
        /\ \A v \in Users, g \in Files : Writing(v, g)' => Writing(v, g)
        /\ \A v \in Users : v # u => writer'[v] = writer[v]
    BY <1>2, <1>5, WriterEffect DEF OpenWait
  <2>2. wait' = [wait EXCEPT ![u] = @ \cup {f}]
    BY <1>5 DEF OpenWait
  <2> QED BY <1>3, <1>4, <2>1, <2>2
<1>6. CASE WriteDate(u, f) \/ WriteName(u, f)
  <2>1. /\ \A v \in Users, g \in Files : Writing(v, g)' => Writing(v, g)
        /\ \A v \in Users : v # u => writer'[v] = writer[v]
    BY <1>2, <1>6, WriterEffect DEF WriteDate, WriteName
  <2> QED BY <1>4, <1>6, <2>1 DEF WriteDate, WriteName
<1>7. CASE CloseWait(u, f)
  <2>1. /\ writer' = [writer EXCEPT ![u][f]["named"] = @ - 1] /\ writer[u][f]["named"] > 0
        /\ wait' = wait
    BY <1>7 DEF CloseWait
  <2>2. \A v \in Users, g \in Files, s \in WriteSteps :
          writer'[v][g][s] > 0 => writer[v][g][s] > 0
    BY <1>2, <1>3, <2>1
  <2>3. \A v \in Users, g \in Files : Writing(v, g)' => Writing(v, g)
    BY <2>2 DEF Writing
  <2>4. \A v \in Users : v # u => writer'[v] = writer[v]
    BY <1>3, <2>1
  <2> QED BY <1>4, <2>1, <2>3, <2>4
<1> QED BY <1>1, <1>5, <1>6, <1>7

\* The wait file is created, with nothing in it.
LEMMA WaitEffect ==
  ASSUME TypeOK, NEW u \in Users, CreateWait(u)
  PROVE  \E f \in Files :
           /\ sent[u][f] > 0 /\ sent' = [sent EXCEPT ![u][f] = @ - 1]
           /\ wait' = [wait EXCEPT ![u] = @ \cup {f}]
           /\ \A v \in Users, g \in Files : Writing(v, g)' => Writing(v, g) \/ (v = u /\ g = f)
           /\ Writing(u, f)'
           /\ \A v \in Users : v # u => writer'[v] = writer[v]
<1>1. PICK f \in Files : /\ sent[u][f] > 0
                         /\ sent' = [sent EXCEPT ![u][f] = @ - 1]
                         /\ writer' = [writer EXCEPT ![u][f]["created"] = @ + 1]
                         /\ wait' = [wait EXCEPT ![u] = @ \cup {f}]
  BY DEF CreateWait
<1>2. writer \in [Users -> [Files -> [WriteSteps -> Nat]]] /\ "created" \in WriteSteps
  BY DEF TypeOK, WriteSteps
<1>3. /\ \A v \in Users : v # u => writer'[v] = writer[v]
      /\ \A v \in Users, g \in Files : v # u \/ g # f => writer'[v][g] = writer[v][g]
      /\ writer'[u][f]["created"] > 0
  BY <1>1, <1>2
<1>4. \A v \in Users, g \in Files : Writing(v, g)' => Writing(v, g) \/ (v = u /\ g = f)
  BY <1>3 DEF Writing
<1>5. Writing(u, f)'
  BY <1>2, <1>3 DEF Writing
<1> QED BY <1>1, <1>3, <1>4, <1>5

\* A client asks for its own files only.
OwnFiles ==
  /\ \A u \in Users : wait[u] \subseteq Audited[u]
  /\ \A u \in Users, f \in Files :
       click[u][f] > 0 \/ sent[u][f] > 0 \/ Writing(u, f) => f \in Audited[u]
  /\ \A k \in Conns : \A i \in DOMAIN inbox[k] : inbox[k][i].file \in Audited[User(k)]
  /\ \A k \in Conns : job[k].pc # "free" => File(k) \in Audited[User(k)]

LEMMA OwnFilesInit == Init => OwnFiles
BY DEF Init, OwnFiles, Free, Writing

LEMMA OwnFilesClient ==
  ASSUME TypeOK, OwnFiles, NEW u \in Users, Submit(u) \/ Client(u)
  PROVE  OwnFiles'
<1>0. /\ click \in [Users -> [Files -> Nat]] /\ sent \in [Users -> [Files -> Nat]]
      /\ wait \in [Users -> SUBSET Files] /\ Line(u) \in Conns /\ User(Line(u)) = u
  BY LineIsConn DEF TypeOK, User, Line
<1>1. UNCHANGED job
  BY ClientApart
<1>2. \A k \in Conns : (job[k].pc # "free" => File(k) \in Audited[User(k)])'
  BY <1>1 DEF OwnFiles, File
<1>3. ASSUME NEW kind \in {"publish", "isfin"}, NEW f \in Audited[u], Send(u, kind, f)
      PROVE  \A k \in Conns : \A i \in DOMAIN inbox'[k] : inbox'[k][i].file \in Audited[User(k)]
  <2>1. f \in Files
    BY AuditAssumption
  <2> DEFINE q == inbox[Line(u)]
  <2>2. /\ \A i \in DOMAIN inbox'[Line(u)] :
             \/ i \in DOMAIN q /\ inbox'[Line(u)][i] = q[i]
             \/ inbox'[Line(u)][i] = Req(kind, f)
        /\ \A e \in Conns : e # Line(u) => inbox'[e] = inbox[e]
    BY <1>3, <2>1, SendEffect
  <2>3. Req(kind, f).file = f
    BY DEF Req
  <2> QED BY <1>0, <2>2, <2>3 DEF OwnFiles
<1>4. CASE Submit(u)
  <2>1. PICK f \in Audited[u] : click' = [click EXCEPT ![u][f] = @ + 1]
    BY <1>4 DEF Submit
  <2>2. UNCHANGED <<wait, sent, writer, inbox>> /\ f \in Files
    BY <1>4, AuditAssumption DEF Submit, net
  <2>3. \A v \in Users, g \in Files :
          click'[v][g] > 0 \/ sent'[v][g] > 0 \/ Writing(v, g)' => g \in Audited[v]
    BY <1>0, <2>1, <2>2 DEF OwnFiles, Writing
  <2> QED BY <1>2, <2>2, <2>3 DEF OwnFiles
<1>5. CASE Request(u)
  <2>1. PICK f \in Files : /\ click[u][f] > 0
                           /\ click' = [click EXCEPT ![u][f] = @ - 1]
                           /\ sent' = [sent EXCEPT ![u][f] = @ + 1]
                           /\ Send(u, "publish", f)
    BY <1>5 DEF Request
  <2>2. f \in Audited[u] /\ wait' = wait /\ writer' = writer
    BY <1>5, <2>1 DEF OwnFiles, Request
  <2>3. \A v \in Users, g \in Files :
          click'[v][g] > 0 \/ sent'[v][g] > 0 \/ Writing(v, g)' => g \in Audited[v]
    <3> SUFFICES ASSUME NEW v \in Users, NEW g \in Files,
                        click'[v][g] > 0 \/ sent'[v][g] > 0 \/ Writing(v, g)'
                 PROVE  g \in Audited[v]
      OBVIOUS
    <3>1. CASE v = u /\ g = f
      BY <2>2, <3>1
    <3>2. CASE ~(v = u /\ g = f)
      <4>1. click'[v][g] = click[v][g] /\ sent'[v][g] = sent[v][g]
        BY <1>0, <2>1, <3>2
      <4> QED BY <2>2, <4>1 DEF OwnFiles, Writing
    <3> QED BY <3>1, <3>2
  <2> QED BY <1>2, <1>3, <2>1, <2>2, <2>3 DEF OwnFiles
<1>6. CASE CreateWait(u)
  <2>1. PICK f \in Files :
          /\ sent[u][f] > 0 /\ sent' = [sent EXCEPT ![u][f] = @ - 1]
          /\ wait' = [wait EXCEPT ![u] = @ \cup {f}]
          /\ \A v \in Users, g \in Files : Writing(v, g)' => Writing(v, g) \/ (v = u /\ g = f)
    BY <1>6, WaitEffect
  <2>2. f \in Audited[u] /\ UNCHANGED <<click, inbox>>
    BY <1>6, <2>1 DEF OwnFiles, CreateWait, net
  <2>3. \A v \in Users : wait'[v] \subseteq Audited[v]
    BY <1>0, <2>1, <2>2 DEF OwnFiles
  <2>4. \A v \in Users, g \in Files : sent'[v][g] > 0 => sent[v][g] > 0
    BY <1>0, <2>1
  <2>5. \A v \in Users, g \in Files : Writing(v, g)' => g \in Audited[v]
    BY <2>1, <2>2 DEF OwnFiles
  <2> QED BY <1>2, <2>2, <2>3, <2>4, <2>5 DEF OwnFiles
<1>7. ASSUME NEW f \in Files, AskFin(u, f) PROVE OwnFiles'
  <2>1. f \in Audited[u] /\ UNCHANGED <<wait, click, sent, writer>> /\ Send(u, "isfin", f)
    BY <1>7 DEF OwnFiles, AskFin
  <2> QED BY <1>2, <1>3, <2>1 DEF OwnFiles, Writing
<1>8. CASE HandleFin(u)
  <2>1. UNCHANGED <<click, sent, writer, inbox>> /\ \A v \in Users : wait'[v] \subseteq wait[v]
    BY <1>0, <1>8 DEF HandleFin, ReadDate, WriteLog, DeleteWait, net
  <2> QED BY <1>2, <2>1 DEF OwnFiles, Writing
<1>9. CASE FillWait(u)
  <2>1. \A v \in Users, g \in Files : Writing(v, g)' => g \in Audited[v]
    BY <1>9, FillEffect DEF OwnFiles
  <2>2. \A v \in Users : wait'[v] \subseteq Audited[v]
    <3>1. \A g \in Files : g \in wait'[u] => g \in Audited[u]
      BY <1>9, FillEffect DEF OwnFiles
    <3>2. wait'[u] \subseteq Files
      BY <1>9, FillTypeOK DEF TypeOK
    <3> QED BY <1>9, <3>1, <3>2, FillEffect DEF OwnFiles
  <2>3. UNCHANGED <<click, sent, inbox>>
    BY <1>9, FillEffect
  <2> QED BY <1>2, <2>1, <2>2, <2>3 DEF OwnFiles
<1> QED BY <1>4, <1>5, <1>6, <1>7, <1>8, <1>9 DEF Client, DoAudit

LEMMA FileStays ==
  ASSUME TypeOK, NEW k \in Conns, Serve(k) \/ Fail(k), ~Receive(k), job'[k].pc # "free"
  PROVE  File(k)' = File(k) /\ job[k].pc # "free"
<1>1. CASE PublishChall(k) \/ PushChallenge(k) \/ ReadExempt(k) \/ ReadBlocks(k)
  BY <1>1, PublishChallEffect, PushChallengeEffect, ReadExemptEffect, ReadBlocksEffect DEF File
<1>2. CASE PublishProof(k) \/ ReadMarks(k) \/ AddMarks(k) \/ SetExpire(k)
  BY <1>2, PublishProofEffect, ReadMarksEffect, AddMarksEffect, SetExpireEffect DEF File
<1>3. CASE PublishResult(k) \/ PushProof(k) \/ PushResult(k)
  BY <1>3, PublishResultEffect, PushProofEffect, PushResultEffect DEF File
<1>4. CASE ReadList(k) \/ ClearList(k) \/ Fail(k)
  BY <1>4, ReadListEffect, ClearListEffect, FailEffect DEF File
<1> QED BY <1>1, <1>2, <1>3, <1>4 DEF Serve

LEMMA OwnFilesNext ==
  ASSUME "restart" \notin Faults
  PROVE  TypeOK /\ OwnFiles /\ [Next]_vars => OwnFiles'
<1> SUFFICES ASSUME TypeOK, OwnFiles, [Next]_vars PROVE OwnFiles'
  OBVIOUS
<1>1. ASSUME NEW u \in Users PROVE ~Restart(u)
  BY DEF Restart, Fault
<1>2. ASSUME NEW k \in Conns, Serve(k) \/ Fail(k) PROVE OwnFiles'
  <2>1. CASE Receive(k)
    <3>1. \A i \in DOMAIN inbox'[k] : inbox'[k][i].file \in Audited[User(k)]
      BY <2>1, TakeEffect DEF OwnFiles
    <3>2. File(k)' \in Audited[User(k)]
      BY <2>1, TakeEffect, ReceiveEffect DEF OwnFiles
    <3>3. UNCHANGED <<wait, click, sent, writer>> /\ OthersStay(k)
          /\ \A e \in Conns : e # k => inbox'[e] = inbox[e]
      BY <1>2, HandlerFrame
    <3> QED BY <3>1, <3>2, <3>3 DEF OwnFiles, OthersStay, File, Writing
  <2>2. CASE ~Receive(k)
    <3>1. UNCHANGED <<wait, click, sent, writer, inbox>> /\ OthersStay(k)
      BY <1>2, <2>2, HandlerFrame
    <3>2. job'[k].pc # "free" => File(k)' \in Audited[User(k)]
      BY <1>2, <2>2, FileStays DEF OwnFiles
    <3> QED BY <3>1, <3>2 DEF OwnFiles, OthersStay, File, Writing
  <2> QED BY <2>1, <2>2
<1>3. ASSUME Damage \/ Finished \/ UNCHANGED vars \/ \E f \in Files : Expire(f)
      PROVE  OwnFiles'
  BY <1>3 DEF Damage, Finished, Expire, vars, net, client, OwnFiles, File, Writing
<1> QED BY <1>1, <1>2, <1>3, OwnFilesClient DEF Next

----------------------------------------------------------------------------
(* Verdicts about an honest SSP, and blocks checked again *)

Lost(f, S) == \E i \in S : store[f][i] # "good"
Over(k) == job[k].asset.proof.over

\* Blocks of S are proved by audits of other users.
Else(k, S) == \A i \in S : ProvenElse(File(k), User(k), i)
\* S is what the shared set has left of the challenge when the prover read it; what has been
\* put there since, others have proved.
Drawn(k, S) ==
  /\ S \subseteq Chall(k) /\ Chall(k) \ marked[File(k)] \subseteq S
  /\ Else(k, S \cap marked[File(k)])
OwnProof(k) == \E p \in ledger : /\ p.kind = "proof" /\ p.file = File(k)
                                 /\ p.audit[1] = User(k) /\ p.proof.over = Over(k)

\* The verifier's set is a part of what the proof is over, and others have proved the rest.
\* A proof of the wrong bytes shows that a block of the challenge is lost.
Honest(k) ==
  /\ job[k].pc \in Running => Chall(k) \subseteq Index(File(k)) /\ Audit(k)[1] = User(k)
  /\ job[k].pc \in Running \cup {"publish"} => job[k].asset.result # 0
  /\ At(k, "read") => Drawn(k, job[k].kept)
  /\ job[k].pc \in {"prove", "verify"} => Drawn(k, Over(k))
  /\ At(k, "mark") => Else(k, job[k].kept \cap marked[File(k)])
  /\ job[k].pc \in {"mark", "expire", "judge"} =>
       job[k].kept \subseteq Over(k) /\ Else(k, Over(k) \ job[k].kept)
  /\ job[k].pc \in {"verify", "mark"} => OwnProof(k)
  /\ job[k].pc \in {"prove", "verify", "mark", "expire", "judge"} =>
       /\ job[k].asset.kind = "proof"
       /\ job[k].asset.proof.intact \/ Lost(File(k), Chall(k))

\* The verdict 0 is due to a lost block, or to one that another user has proved too.
Excused(r) == \/ Lost(r.file, r.chall)
              \/ \E i \in r.proof.over : ProvenElse(r.file, r.audit[1], i)

HonestInv ==
  /\ \A r \in ledger : r.chall \subseteq Index(r.file) /\ (r.result = 0 => Excused(r))
  /\ \A k \in Conns : Honest(k)

LEMMA HonestInvInit == Init => HonestInv
BY DEF Init, HonestInv, Honest, Free, At, Running, Unjudged, Unproved

\* A block that is lost stays lost.
Worse == \A f \in Files : \A i \in Index(f) : store[f][i] # "good" => store'[f][i] # "good"

LEMMA LostStays ==
  ASSUME Worse, NEW f \in Files, NEW S \in SUBSET Index(f), Lost(f, S)
  PROVE  Lost(f, S)'
BY DEF Worse, Lost

LEMMA ElseStays ==
  ASSUME ledger \subseteq ledger', NEW f, NEW u, NEW i, ProvenElse(f, u, i)
  PROVE  ProvenElse(f, u, i)'
BY DEF ProvenElse

LEMMA ExcusedStays ==
  ASSUME Worse, ledger \subseteq ledger', NEW r \in Assets, r.chall \subseteq Index(r.file), Excused(r)
  PROVE  Excused(r)'
<1>1. r.file \in Files
  BY DEF Assets
<1>2. CASE Lost(r.file, r.chall)
  BY <1>1, <1>2, LostStays DEF Excused
<1>3. CASE \E i \in r.proof.over : ProvenElse(r.file, r.audit[1], i)
  BY <1>3, ElseStays DEF Excused
<1> QED BY <1>2, <1>3 DEF Excused

\* What is put into the shared set of k's file meanwhile, if anything, others have proved.
MarksElse(k) ==
  \A f \in Files : f = File(k) =>
    /\ marked[f] \subseteq marked'[f]
    /\ \A i \in marked'[f] \ marked[f] : ProvenElse(f, User(k), i)'

LEMMA HonestStays ==
  ASSUME TypeOK, Worse, ledger \subseteq ledger', NEW k \in Conns, Honest(k), job'[k] = job[k],
         job[k].pc # "free" => MarksElse(k)
  PROVE  Honest(k)'
<1> SUFFICES ASSUME job[k].pc # "free" PROVE Honest(k)'
  BY DEF Honest, At, Running, Unjudged, Unproved
<1>1. /\ File(k)' = File(k) /\ Chall(k)' = Chall(k) /\ Over(k)' = Over(k) /\ Audit(k)' = Audit(k)
      /\ File(k) \in Files
  BY JobType DEF File, Chall, Over, Audit
<1>2. \A i : ProvenElse(File(k), User(k), i) => ProvenElse(File(k), User(k), i)'
  BY <1>1 DEF ProvenElse
<1>3. PICK f \in Files : f = File(k)
  BY <1>1
<1>4. /\ marked[f] \subseteq marked'[f]
      /\ \A i \in marked'[f] \ marked[f] : ProvenElse(f, User(k), i)'
  BY <1>3 DEF MarksElse
<1>5. \A S : Else(k, S) => Else(k, S)'
  BY <1>1, <1>2, <1>3 DEF Else
<1>6. ASSUME NEW S, Else(k, S \cap marked[f])
      PROVE  Else(k, S \cap marked[f])'
  <2>1. \A i \in S \cap marked'[f] : ProvenElse(f, User(k), i)'
    BY <1>2, <1>3, <1>4, <1>1, <1>6 DEF Else, ProvenElse
  <2> QED BY <1>1, <1>3, <2>1 DEF Else, ProvenElse
<1>7. ASSUME NEW S, Drawn(k, S) PROVE Drawn(k, S)'
  <2>1. S \subseteq Chall(k)' /\ Chall(k)' \ marked'[f] \subseteq S
    BY <1>1, <1>3, <1>4, <1>7 DEF Drawn
  <2>2. Else(k, S \cap marked[f])
    BY <1>3, <1>7 DEF Drawn
  <2>3. Else(k, S \cap marked[f])' /\ File(k)' = f
    BY <1>1, <1>3, <1>6, <2>2
  <2> QED BY <2>1, <2>3 DEF Drawn
<1>8. OwnProof(k) => OwnProof(k)'
  BY <1>1 DEF OwnProof
<1>9. Lost(File(k), Chall(k)) /\ Chall(k) \subseteq Index(File(k)) => Lost(File(k), Chall(k))'
  <2> SUFFICES ASSUME Lost(File(k), Chall(k)), Chall(k) \subseteq Index(File(k))
               PROVE  Lost(File(k), Chall(k))'
    OBVIOUS
  <2>1. PICK i \in Chall(k) : store[File(k)][i] # "good"
    BY DEF Lost
  <2>2. store'[File(k)][i] # "good"
    BY <1>1, <2>1 DEF Worse
  <2> QED BY <1>1, <2>1, <2>2 DEF Lost
<1>10. PICK S, T : S = job[k].kept /\ T = Over(k)
  OBVIOUS
<1>11. /\ At(k, "read") => Drawn(k, S)'
       /\ job[k].pc \in {"prove", "verify"} => Drawn(k, T)'
       /\ At(k, "mark") => Else(k, S \cap marked[f])'
       /\ job[k].pc \in {"mark", "expire", "judge"} => Else(k, T \ S)'
  BY <1>3, <1>5, <1>6, <1>7, <1>10 DEF Honest
<1>12. /\ At(k, "read") => Drawn(k, job[k].kept)'
       /\ job[k].pc \in {"prove", "verify"} => Drawn(k, Over(k))'
       /\ At(k, "mark") => Else(k, job[k].kept \cap marked[File(k)])'
       /\ job[k].pc \in {"mark", "expire", "judge"} => Else(k, Over(k) \ job[k].kept)'
  <2>1. job'[k].kept = S /\ Over(k)' = T /\ File(k)' = f
    BY <1>1, <1>3, <1>10
  <2> QED BY <1>11, <2>1
<1> QED BY <1>1, <1>8, <1>9, <1>12 DEF Honest, At, Running, Unjudged, Unproved

LEMMA HonestStep ==
  ASSUME TypeOK, HonestInv, Worse, ledger \subseteq ledger', NEW k \in Conns, OthersStay(k),
         Honest(k)',
         \A e \in Conns : e # k /\ job[e].pc # "free" => MarksElse(e),
         \A r \in ledger' : r \in ledger \/ (r.chall \subseteq Index(r.file) /\ (r.result = 0 => Excused(r)'))
  PROVE  HonestInv'
<1>1. \A e \in Conns : Honest(e)'
  BY HonestStays DEF HonestInv, OthersStay
<1>2. ASSUME NEW r \in ledger' PROVE r.chall \subseteq Index(r.file) /\ (r.result = 0 => Excused(r)')
  BY ExcusedStays DEF HonestInv, TypeOK
<1> QED BY <1>1, <1>2 DEF HonestInv, Index

\* A handler that leaves the shared set alone.
LEMMA HonestQuiet ==
  ASSUME TypeOK, HonestInv, NEW k \in Conns, OthersStay(k), Honest(k)', UNCHANGED <<marked, store>>,
         \/ ledger' = ledger
         \/ \E r : /\ ledger' = ledger \cup {r} /\ r.chall \subseteq Index(r.file)
                   /\ r.result = 0 => Excused(r)
  PROVE  HonestInv'
<1>1. Worse /\ \A e \in Conns : MarksElse(e)
  BY DEF Worse, MarksElse
<1>2. CASE ledger' = ledger
  BY <1>1, <1>2, HonestStep
<1>3. ASSUME NEW r, ledger' = ledger \cup {r}, r.chall \subseteq Index(r.file), r.result = 0 => Excused(r)
      PROVE  HonestInv'
  <2>1. Excused(r) => Excused(r)'
    BY <1>3 DEF Excused, Lost, ProvenElse
  <2> QED BY <1>1, <1>3, <2>1, HonestStep
<1> QED BY <1>2, <1>3

\* Between the challenge and the proof.
LEMMA HonestProver ==
  ASSUME TypeOK, HonestInv, NEW k \in Conns,
         \/ Receive(k) \/ PublishChall(k) \/ PushChallenge(k)
         \/ ReadExempt(k) \/ ReadBlocks(k) \/ PublishProof(k)
  PROVE  HonestInv'
<1> USE DEF Running, Unjudged, Unproved, At
<1>h. Honest(k) /\ File(k) \in Files
  BY JobType DEF HonestInv
<1>s. UNCHANGED <<marked, store>> /\ OthersStay(k)
  BY ReceiveEffect, PublishChallEffect, PushChallengeEffect, ReadExemptEffect, ReadBlocksEffect,
     PublishProofEffect DEF redis
<1>1. CASE Receive(k)
  <2>1. Honest(k)' /\ ledger' = ledger
    BY <1>1, ReceiveEffect DEF Honest
  <2> QED BY <1>s, <2>1, HonestQuiet
<1>2. CASE PublishChall(k)
  <2>1. /\ job'[k].pc = "push" /\ File(k)' = File(k) /\ Chall(k)' \subseteq Index(File(k))
        /\ job'[k].asset.result # 0 /\ ledger' = ledger \cup {job'[k].asset}
        /\ Audit(k)'[1] = User(k)
    BY <1>h, <1>2, PublishChallEffect DEF Honest
  <2>2. Honest(k)'
    BY <2>1 DEF Honest
  <2>3. PICK r : r = job'[k].asset
    OBVIOUS
  <2>4. ledger' = ledger \cup {r} /\ r.chall \subseteq Index(r.file) /\ r.result # 0
    BY <2>1, <2>3 DEF File, Chall
  <2> QED BY <1>s, <2>2, <2>4, HonestQuiet
<1>3. CASE PushChallenge(k)
  <2>1. /\ job[k].pc = "push" /\ job'[k].pc = "exempt" /\ job'[k].asset = job[k].asset
        /\ ledger' = ledger
    BY <1>3, PushChallengeEffect
  <2>2. Honest(k)'
    BY <1>h, <2>1 DEF Honest, File, Chall, Audit
  <2> QED BY <1>s, <2>1, <2>2, HonestQuiet
<1>4. CASE ReadExempt(k)
  <2>1. job[k].pc = "exempt" /\ ledger' = ledger
    BY <1>4, ReadExemptEffect
  <2>2. CASE job'[k].pc = "free"
    <3>1. Honest(k)'
      BY <2>2 DEF Honest
    <3> QED BY <1>s, <2>1, <3>1, HonestQuiet
  <2>3. CASE /\ job'[k].pc = "read" /\ job'[k].asset = job[k].asset
             /\ job'[k].kept = Chall(k) \ marked[File(k)]
    <3>1. Drawn(k, job[k].kept)'
      BY <1>s, <2>3 DEF Drawn, Else, File, Chall
    <3>2. Honest(k)'
      BY <1>h, <2>1, <2>3, <3>1 DEF Honest, File, Chall, Audit
    <3> QED BY <1>s, <2>1, <3>2, HonestQuiet
  <2> QED BY <1>4, <2>2, <2>3, ReadExemptEffect
<1>5. CASE ReadBlocks(k)
  <2>1. job[k].pc = "read" /\ ledger' = ledger /\ Drawn(k, job[k].kept)
    BY <1>5, <1>h, ReadBlocksEffect DEF Honest
  <2>2. CASE job'[k].pc = "free"
    <3>1. Honest(k)'
      BY <2>2 DEF Honest
    <3> QED BY <1>s, <2>1, <3>1, HonestQuiet
  <2>3. CASE /\ job'[k].pc = "prove" /\ job'[k].asset.kind = "proof"
             /\ File(k)' = File(k) /\ Chall(k)' = Chall(k) /\ Audit(k)' = Audit(k)
             /\ job'[k].asset.proof.over = job[k].kept
             /\ job'[k].asset.result = job[k].asset.result
             /\ job'[k].asset.proof.intact = (\A i \in job[k].kept : store[File(k)][i] = "good")
    <3>1. job'[k].asset.proof.intact \/ Lost(File(k), Chall(k))
      BY <2>1, <2>3 DEF Lost, Drawn
    <3>2. Lost(File(k), Chall(k)) => Lost(File(k), Chall(k))'
      BY <1>s, <2>3 DEF Lost
    <3>3. PICK S : S = job[k].kept
      OBVIOUS
    <3>4. Drawn(k, S)' /\ Over(k)' = S
      BY <1>s, <2>1, <2>3, <3>3 DEF Drawn, Else, ProvenElse, Over
    <3>5. Drawn(k, Over(k))'
      BY <3>4
    <3>6. Honest(k)'
      BY <1>h, <2>1, <2>3, <3>1, <3>2, <3>5 DEF Honest
    <3> QED BY <1>s, <2>1, <3>6, HonestQuiet
  <2> QED BY <1>5, <2>2, <2>3, ReadBlocksEffect
<1>6. CASE PublishProof(k)
  <2>1. /\ job[k].pc = "prove" /\ job'[k].pc = "verify" /\ job'[k].asset = job[k].asset
        /\ ledger' = ledger \cup {job[k].asset}
    BY <1>6, PublishProofEffect
  <2>2. /\ File(k)' = File(k) /\ Chall(k)' = Chall(k) /\ Over(k)' = Over(k)
        /\ Audit(k)' = Audit(k)
    BY <2>1 DEF File, Chall, Over, Audit
  <2>3. OwnProof(k)'
    <3>1. /\ job[k].asset \in ledger' /\ job[k].asset.kind = "proof"
          /\ job[k].asset.audit[1] = User(k)
      BY <1>h, <2>1 DEF Honest, Audit
    <3> QED BY <2>2, <3>1 DEF OwnProof, File, Over
  <2>4. PICK S : S = Over(k)
    OBVIOUS
  <2>5. Drawn(k, S)'
    <3>1. Drawn(k, S)
      BY <1>h, <2>1, <2>4 DEF Honest
    <3>2. \A i : ProvenElse(File(k), User(k), i) => ProvenElse(File(k), User(k), i)'
      BY <2>1, <2>2 DEF ProvenElse
    <3> QED BY <1>s, <2>2, <3>1, <3>2 DEF Drawn, Else
  <2>6. Drawn(k, Over(k))'
    BY <2>2, <2>4, <2>5
  <2>7. Lost(File(k), Chall(k)) => Lost(File(k), Chall(k))'
    BY <1>s, <2>2 DEF Lost
  <2>8. Honest(k)'
    BY <1>h, <2>1, <2>2, <2>3, <2>6, <2>7 DEF Honest
  <2>9. job[k].asset.chall \subseteq Index(job[k].asset.file) /\ job[k].asset.result # 0
    BY <1>h, <2>1 DEF Honest, File, Chall
  <2> QED BY <1>s, <2>1, <2>8, <2>9, HonestQuiet
<1> QED BY <1>1, <1>2, <1>3, <1>4, <1>5, <1>6

\* The verifier, who reads the set again.
LEMMA HonestVerifier ==
  ASSUME TypeOK, OneLine, HonestInv, NEW k \in Conns,
         ReadMarks(k) \/ AddMarks(k) \/ SetExpire(k) \/ PublishResult(k)
  PROVE  HonestInv'
<1> USE DEF Running, Unjudged, Unproved, At
<1>h. Honest(k) /\ File(k) \in Files
  BY JobType DEF HonestInv
<1>s. store' = store /\ OthersStay(k)
  BY ReadMarksEffect, AddMarksEffect, SetExpireEffect, PublishResultEffect
<1>a. job'[k].asset = job[k].asset =>
        /\ File(k)' = File(k) /\ Chall(k)' = Chall(k) /\ Over(k)' = Over(k) /\ Audit(k)' = Audit(k)
        /\ Lost(File(k), Chall(k)) => Lost(File(k), Chall(k))'
  BY <1>s DEF File, Chall, Over, Audit, Lost
<1>1. CASE ReadMarks(k)
  <2>1. /\ job[k].pc = "verify" /\ job'[k].pc = "mark" /\ job'[k].asset = job[k].asset
        /\ job'[k].kept = Chall(k) \ marked[File(k)] /\ UNCHANGED <<ledger, marked>>
    BY <1>1, ReadMarksEffect DEF redis
  <2>2. Else(k, Over(k) \cap marked[File(k)]) /\ OwnProof(k)
        /\ Over(k) \subseteq Chall(k) /\ Chall(k) \ marked[File(k)] \subseteq Over(k)
    BY <1>h, <2>1 DEF Honest, Drawn
  <2>3. /\ Else(k, job[k].kept \cap marked[File(k)])'
        /\ Else(k, Over(k) \ job[k].kept)' /\ OwnProof(k)'
    BY <1>a, <2>1, <2>2 DEF Else, OwnProof, ProvenElse
  <2>4. Honest(k)'
    BY <1>h, <1>a, <2>1, <2>2, <2>3 DEF Honest
  <2> QED BY <1>s, <2>1, <2>4, HonestQuiet
<1>2. CASE AddMarks(k)
  <2>1. job[k].pc = "mark" /\ ledger' = ledger
    BY <1>2, AddMarksEffect
  <2>2. CASE job'[k].pc = "free" /\ marked' = marked
    <3>1. Honest(k)'
      BY <2>2 DEF Honest
    <3> QED BY <1>s, <2>1, <2>2, <3>1, HonestQuiet
  <2>3. CASE /\ marked' = [marked EXCEPT ![File(k)] = @ \cup job[k].kept]
             /\ job'[k].pc = IF job[k].marks = {} THEN "expire" ELSE "judge"
             /\ job'[k].asset = job[k].asset /\ job'[k].kept = job[k].kept
    <3>1. Else(k, Over(k) \ job[k].kept)'
      <4>1. Else(k, Over(k) \ job[k].kept)
        BY <1>h, <2>1 DEF Honest
      <4> QED BY <1>a, <2>1, <2>3, <4>1 DEF Else, ProvenElse
    <3>2. Honest(k)'
      BY <1>h, <1>a, <2>1, <2>3, <3>1 DEF Honest
    <3>3. PICK p \in ledger : /\ p.kind = "proof" /\ p.file = File(k) /\ p.audit[1] = User(k)
                              /\ job[k].kept \subseteq p.proof.over
      BY <1>h, <2>1 DEF Honest, OwnProof
    <3>4. ASSUME NEW e \in Conns, e # k, job[e].pc # "free" PROVE MarksElse(e)
      <4>1. User(e) # User(k)
        BY <2>1, <3>4 DEF OneLine, Conns, User
      <4>2. PICK f \in Files : f = File(e)
        BY JobType
      <4>3. f # File(k) => marked'[f] = marked[f]
        BY <2>3
      <4>4. f = File(k) => marked'[f] = marked[f] \cup job[k].kept
        BY <2>3, <4>2 DEF TypeOK
      <4>5. f = File(k) => \A i \in job[k].kept : ProvenElse(f, User(e), i)'
        BY <2>1, <3>3, <4>1 DEF ProvenElse
      <4> QED BY <4>2, <4>3, <4>4, <4>5 DEF MarksElse
    <3>5. Worse
      BY <1>s DEF Worse
    <3> QED BY <1>s, <2>1, <3>2, <3>4, <3>5, HonestStep
  <2> QED BY <1>2, <2>2, <2>3, AddMarksEffect
<1>3. CASE SetExpire(k)
  <2>1. /\ job[k].pc = "expire" /\ job'[k].pc = "judge" /\ job'[k].asset = job[k].asset
        /\ job'[k].kept = job[k].kept /\ UNCHANGED <<ledger, marked>>
    BY <1>3, SetExpireEffect
  <2>2. Else(k, Over(k) \ job[k].kept)
    BY <1>h, <2>1 DEF Honest
  <2>3. Else(k, Over(k) \ job[k].kept)'
    BY <1>a, <2>1, <2>2 DEF Else, ProvenElse
  <2>4. Honest(k)'
    BY <1>h, <1>a, <2>1, <2>3 DEF Honest
  <2> QED BY <1>s, <2>1, <2>4, HonestQuiet
<1>4. CASE PublishResult(k)
  <2>1. /\ job[k].pc = "judge" /\ job'[k].pc = "pushProof" /\ job'[k].asset = job[k].asset
        /\ marked' = marked
    BY <1>4, PublishResultEffect DEF redis
  <2>2. PICK r \in Assets :
          /\ ledger' = ledger \cup {r} /\ r.file = File(k) /\ r.chall = Chall(k)
          /\ r.audit = Audit(k) /\ r.proof = job[k].asset.proof
          /\ r.result = IF Accepted(k) THEN 1 ELSE 0
    BY <1>4, PublishResultEffect
  <2>3. Honest(k)'
    BY <1>h, <1>a, <2>1 DEF Honest
  <2>4. /\ Chall(k) \subseteq Index(File(k)) /\ Audit(k)[1] = User(k)
        /\ job[k].kept \subseteq Over(k) /\ Else(k, Over(k) \ job[k].kept)
        /\ job[k].asset.proof.intact \/ Lost(File(k), Chall(k))
    BY <1>h, <2>1 DEF Honest
  <2>5. r.result = 0 => Excused(r)
    <3>1. job[k].asset.proof \in [over : SUBSET Indices, intact : BOOLEAN]
      BY JobType DEF Assets
    <3>2. job[k].asset.proof.intact /\ job[k].kept = Over(k) => Accepted(k)
      BY <3>1 DEF Accepted, Over
    <3>3. CASE Lost(File(k), Chall(k))
      BY <2>2, <3>3 DEF Excused
    <3>4. CASE job[k].kept # Over(k)
      <4>1. PICK i \in Over(k) \ job[k].kept : TRUE
        BY <2>4, <3>4
      <4>2. ProvenElse(r.file, r.audit[1], i) /\ i \in r.proof.over
        BY <2>2, <2>4, <4>1 DEF Else, Over
      <4> QED BY <4>2 DEF Excused
    <3> QED BY <2>2, <2>4, <3>2, <3>3, <3>4
  <2> QED BY <1>s, <2>1, <2>2, <2>3, <2>4, <2>5, HonestQuiet
<1> QED BY <1>1, <1>2, <1>3, <1>4

LEMMA HonestRest ==
  ASSUME TypeOK, HonestInv, "expiry" \notin Faults,
         \/ \E k \in Conns : PushProof(k) \/ PushResult(k) \/ ReadList(k) \/ ClearList(k) \/ Fail(k)
         \/ Outside \/ \E f \in Files : Expire(f)
  PROVE  HonestInv'
<1> USE DEF Running, Unjudged, Unproved, At
<1>1. ASSUME NEW k \in Conns, PushProof(k) \/ PushResult(k) \/ ReadList(k) \/ ClearList(k) \/ Fail(k)
      PROVE  HonestInv'
  <2>1. UNCHANGED <<ledger, marked, store>> /\ OthersStay(k)
    BY <1>1, PushProofEffect, PushResultEffect, ReadListEffect, ClearListEffect, FailEffect DEF redis
  <2>2. \/ job'[k].pc \in {"free", "clear"}
        \/ job[k].pc = "pushProof" /\ job'[k].pc = "pushResult" /\ job'[k].asset = job[k].asset
    BY <1>1, PushProofEffect, PushResultEffect, ReadListEffect, ClearListEffect, FailEffect
  <2>3. Honest(k)'
    BY <2>2 DEF HonestInv, Honest, File, Chall, Audit
  <2> QED BY <2>1, <2>3, HonestQuiet
<1>2. CASE Outside
  <2>1. UNCHANGED <<job, ledger, marked>>
    BY <1>2, OutsideEffect
  <2>2. Worse
    <3>1. CASE Damage
      <4>1. PICK f \in Files : \E i \in Index(f), s \in {"damaged", "missing"} :
              store' = [store EXCEPT ![f][i] = s]
        BY <3>1 DEF Damage
      <4> QED BY <4>1 DEF Worse, TypeOK
    <3>2. CASE store' = store
      BY <3>2 DEF Worse
    <3>3. ~Damage => store' = store
      BY <1>2, ClientApart DEF Outside, Finished, vars
    <3> QED BY <3>1, <3>2, <3>3
  <2>3. \A k \in Conns : MarksElse(k)
    BY <2>1 DEF MarksElse
  <2>4. \A k \in Conns : Honest(k)'
    BY <2>1, <2>2, <2>3, HonestStays DEF HonestInv
  <2>5. ASSUME NEW r \in ledger PROVE r.chall \subseteq Index(r.file) /\ (r.result = 0 => Excused(r)')
    BY <2>1, <2>2, ExcusedStays DEF HonestInv, TypeOK
  <2> QED BY <2>1, <2>4, <2>5 DEF HonestInv, Index
<1>3. ASSUME NEW f \in Files, Expire(f) PROVE HonestInv'
  <2>1. /\ \A k \in Conns : job[k].pc = "free" \/ File(k) # f
        /\ marked' = [marked EXCEPT ![f] = {}] /\ UNCHANGED <<job, ledger, store>>
    BY <1>3 DEF Expire, Fault
  <2>2. \A k \in Conns : job[k].pc # "free" => MarksElse(k)
    BY <2>1, JobType DEF TypeOK, MarksElse
  <2>3. Worse
    BY <2>1 DEF Worse
  <2>4. \A k \in Conns : Honest(k)'
    BY <2>1, <2>2, <2>3, HonestStays DEF HonestInv
  <2>5. ASSUME NEW r \in ledger PROVE r.chall \subseteq Index(r.file) /\ (r.result = 0 => Excused(r)')
    BY <2>1, <2>3, ExcusedStays DEF HonestInv, TypeOK
  <2> QED BY <2>1, <2>4, <2>5 DEF HonestInv, Index
<1> QED BY <1>1, <1>2, <1>3

LEMMA HonestInvNext ==
  ASSUME "expiry" \notin Faults
  PROVE  TypeOK /\ OneLine /\ HonestInv /\ [Next]_vars => HonestInv'
<1> SUFFICES ASSUME TypeOK, OneLine, HonestInv, [Next]_vars PROVE HonestInv'
  OBVIOUS
<1>1. ASSUME NEW k \in Conns, Serve(k) PROVE HonestInv'
  BY <1>1, HonestProver, HonestVerifier, HonestRest DEF Serve
<1> QED BY <1>1, HonestRest DEF Next, Outside

\* An SSP that has kept all challenged blocks is accused only where two owners of a file audit
\* it at once and have proved the same block: as long as no user restarts and the set does not
\* expire during an audit.  Any number of users may own a file, their audits may overlap in any
\* way, and handlers may fail anywhere.
THEOREM AuditNoFalseAccusation ==
  ASSUME Faults \cap {"restart", "expiry"} = {}
  PROVE  Spec => []NoFalseAccusation
<1>1. TypeOK /\ OneLine /\ [Next]_vars => OneLine'
  BY OneLineNext
<1>2. TypeOK /\ OneLine /\ HonestInv /\ [Next]_vars => HonestInv'
  BY HonestInvNext
<1>3. HonestInv => NoFalseAccusation
  BY DEF HonestInv, NoFalseAccusation, Excused, Lost
<1> QED BY InitTypeOK, NextTypeOK, OneLineInit, HonestInvInit, <1>1, <1>2, <1>3, PTL DEF Spec

\* ... and a block that is in the shared set is checked again only when another owner's audit
\* has proved it and put it there since the prover read the set.
THEOREM AuditCheckedAgain ==
  ASSUME Faults \cap {"restart", "expiry"} = {}
  PROVE  Spec => CheckedAgain
<1> DEFINE Again == \A k \in Conns : At(k, "mark") /\ job'[k].pc \in {"expire", "judge"} =>
                      \A i \in job[k].kept \cap marked[File(k)] :
                        i \in job[k].asset.proof.over /\ ProvenElse(File(k), User(k), i)
<1>1. TypeOK /\ OneLine /\ [Next]_vars => OneLine'
  BY OneLineNext
<1>2. TypeOK /\ OneLine /\ HonestInv /\ [Next]_vars => HonestInv'
  BY HonestInvNext
<1>3. HonestInv => Again
  BY DEF HonestInv, Honest, At, Else, Over
<1>4. HonestInv /\ [Next]_vars => [Again]_vars
  BY <1>3
<1> QED BY InitTypeOK, NextTypeOK, OneLineInit, HonestInvInit, <1>1, <1>2, <1>4,
           PTL DEF Spec, CheckedAgain

----------------------------------------------------------------------------
(* What is logged is one audit *)

Chained == Running \cup {"publish"}
Polling == {"range", "clear"}
Home(u) == <<u, 0>>

Triple(a) == <<[audit |-> a, kind |-> "challenge"], [audit |-> a, kind |-> "proof"],
               [audit |-> a, kind |-> "result"]>>
Judged(a, f) == \E r \in ledger : r.kind = "result" /\ r.file = f /\ r.audit = a
Entry(ids, u, f) == \E r \in ledger : /\ r.kind = "result" /\ r.file = f /\ r.audit[1] = u
                                      /\ ids = Triple(r.audit)

\* How far u's audit of f has come: f is taken from the request until the wait file is
\* deleted, and ended when its list has been fetched.
Asks(u, kind, f) == \E i \in DOMAIN inbox[Home(u)] : inbox[Home(u)][i] = Req(kind, f)
Chains(u, f) == job[Home(u)].pc \in Chained /\ File(Home(u)) = f
Taken(u, f) == click[u][f] = 0 /\ (sent[u][f] = 1 \/ f \in wait[u])
Asked(u, f) == poll[u].pc = "asked" /\ poll[u].file = f
Ended(u, f) == poll[u].pc \in {"finished", "reading"} /\ poll[u].file = f

\* No file is clicked on while it waits for the end of an audit or a thread is still at its
\* wait file.
ClicksOK(u) ==
  \A f \in Files :
    /\ click[u][f] + sent[u][f] <= 1
    /\ click[u][f] + sent[u][f] = 1 => f \notin wait[u] /\ ~Writing(u, f)

\* No request is twice under way, and one question for the end at most.
Once(q) == \A i, j \in DOMAIN q :
  q[i] = q[j] \/ (q[i].kind = "isfin" /\ q[j].kind = "isfin") => i = j

\* Who is asking has a wait file, and an answer is about the file that was asked for.
PollOK(u) ==
  /\ poll[u].pc # "idle" => poll[u].file \in wait[u]
  /\ \A f \in Files : Asks(u, "isfin", f) => Asked(u, f) /\ job[Home(u)].pc \notin Polling
  /\ job[Home(u)].pc \in Polling => Asked(u, File(Home(u)))

\* The list as each step of the handler finds it.
StageOK(u) ==
  LET k == Home(u)
      ids == list[u][File(k)]
      t == Triple(Audit(k))
  IN /\ job[k].pc \in Running => Audit(k)[1] = u
     /\ job[k].pc \in {"publish", "push"} => ids = <<>>
     /\ job[k].pc \in {"publish", "push"} => job[k].asset.kind = "challenge"
     /\ job[k].pc \in (Unjudged \ {"push"}) \cup {"pushProof"} => ids = <<t[1]>>
     /\ job[k].pc \in Running \ {"push", "exempt", "read"} => job[k].asset.kind = "proof"
     /\ job[k].pc = "pushResult" => ids = <<t[1], t[2]>>
     /\ job[k].pc \in {"pushProof", "pushResult"} => Judged(Audit(k), File(k))
     /\ job[k].pc = "clear" => job[k].ids = ids /\ Len(ids) = 3

\* One audit of a file at a time, so the ids in its list are those of one audit.
TurnOK(u, f) ==
  /\ Asks(u, "publish", f) => list[u][f] = <<>> /\ ~Chains(u, f)
  /\ Asks(u, "publish", f) \/ Chains(u, f) \/ list[u][f] # <<>> => Taken(u, f) /\ ~Ended(u, f)
  /\ Len(list[u][f]) = 3 => Entry(list[u][f], u, f)
  /\ Ended(u, f) => Entry(poll[u].ids, u, f)

LogOK(u) == \A e \in logs[u] : Entry(e.ids, u, e.file)

UserOK(u) ==
  /\ ClicksOK(u) /\ Once(inbox[Home(u)]) /\ PollOK(u) /\ StageOK(u)
  /\ \A f \in Files : TurnOK(u, f)
  /\ LogOK(u)
LogInv == \A u \in Users : UserOK(u)

LEMMA LogInvInit == Init => LogInv
<1> SUFFICES ASSUME Init, NEW u \in Users PROVE UserOK(u)
  BY DEF LogInv
<1>1. Home(u) \in Conns
  BY AuditAssumption DEF Home, Conns
<1>2. /\ job[Home(u)].pc = "free" /\ inbox[Home(u)] = <<>> /\ poll[u].pc = "idle"
      /\ wait[u] = {} /\ logs[u] = {}
      /\ \A f \in Files : click[u][f] = 0 /\ sent[u][f] = 0 /\ list[u][f] = <<>>
  BY <1>1 DEF Init, Free, Quiet
<1>3. StageOK(u)
  BY <1>2 DEF StageOK, Running, Unjudged, Unproved
<1>4. \A f \in Files : TurnOK(u, f)
  BY <1>2 DEF TurnOK, Asks, Chains, Chained, Running, Unjudged, Unproved, Ended
<1> QED BY <1>2, <1>3, <1>4 DEF UserOK, ClicksOK, Once, PollOK, Asks, Polling, LogOK

LEMMA EntryStays ==
  ASSUME ledger \subseteq ledger'
  PROVE  /\ \A ids, u, f : Entry(ids, u, f) => Entry(ids, u, f)'
         /\ \A a, f : Judged(a, f) => Judged(a, f)'
BY DEF Entry, Judged

\* A step that leaves alone what is u's.
Untouched(u) == UNCHANGED <<click[u], sent[u], writer[u], wait[u], poll[u], logs[u], list[u],
                        inbox[Home(u)], job[Home(u)]>>

LEMMA UserStays ==
  ASSUME NEW u \in Users, UserOK(u), ledger \subseteq ledger', Untouched(u)
  PROVE  UserOK(u)'
<1>1. \A kind, f : (Asks(u, kind, f)' <=> Asks(u, kind, f)) /\ (Chains(u, f)' <=> Chains(u, f))
  BY DEF Untouched, Asks, Chains, File
<1>2. ClicksOK(u)' /\ Once(inbox[Home(u)])' /\ PollOK(u)'
  BY <1>1 DEF UserOK, Untouched, ClicksOK, Writing, Once, PollOK, Asked, File
<1>3. StageOK(u)'
  BY EntryStays DEF UserOK, Untouched, StageOK, File, Audit
<1>4. ASSUME NEW f \in Files PROVE TurnOK(u, f)'
  BY <1>1, EntryStays DEF UserOK, Untouched, TurnOK, Taken, Ended
<1>5. LogOK(u)'
  BY EntryStays DEF UserOK, Untouched, LogOK
<1> QED BY <1>2, <1>3, <1>4, <1>5 DEF UserOK

----------------------------------------------------------------------------
(* The client's steps *)

LEMMA OneHome ==
  ASSUME OneLine
  PROVE  /\ \A u \in Users : Line(u) = Home(u)
         /\ \A k \in Conns : k[2] = 0 => k = Home(User(k))
         /\ \A u, v : u # v => Home(u) # Home(v)
BY DEF OneLine, Line, Home, Conns, User

LEMMA QueueSend ==
  ASSUME TypeOK, OneLine, NEW u \in Users, NEW kind \in {"publish", "isfin"}, NEW f \in Files,
         Send(u, kind, f), Once(inbox[Home(u)]), ~Asks(u, kind, f),
         kind = "isfin" => \A g \in Files : ~Asks(u, "isfin", g)
  PROVE  /\ Once(inbox[Home(u)])'
         /\ \A kd, g : Asks(u, kd, g)' <=> Asks(u, kd, g) \/ (kd = kind /\ g = f)
         /\ \A v \in Users : v # u => inbox'[Home(v)] = inbox[Home(v)]
<1> DEFINE q == inbox[Home(u)]
           r == inbox'[Home(u)]
<1>1. /\ DOMAIN r = DOMAIN q \cup {Len(q) + 1} /\ Len(q) + 1 \notin DOMAIN q
      /\ r[Len(q) + 1] = Req(kind, f) /\ \A i \in DOMAIN q : r[i] = q[i]
      /\ \A e \in Conns : e # Home(u) => inbox'[e] = inbox[e]
  BY SendEffect, OneHome
<1>2. \A i \in DOMAIN q : q[i] \in Requests
  <2>1. Home(u) \in Conns /\ inbox \in [Conns -> Seq(Requests)]
    BY LineIsConn, OneHome DEF TypeOK, Requests
  <2>2. q \in Seq(Requests)
    BY <2>1
  <2> QED BY <2>2
<1>3. \A i \in DOMAIN q : q[i] # Req(kind, f)
  BY DEF Asks
<1>4. kind = "isfin" => \A i \in DOMAIN q : q[i].kind # "isfin"
  <2> SUFFICES ASSUME kind = "isfin", NEW i \in DOMAIN q, q[i].kind = "isfin" PROVE FALSE
    OBVIOUS
  <2>1. q[i] = Req("isfin", q[i].file) /\ q[i].file \in Files
    BY <1>2 DEF Requests, Req
  <2> QED BY <2>1 DEF Asks
<1>5. Req(kind, f).kind = kind
  BY DEF Req
<1>6. Once(inbox[Home(u)])'
  <2> SUFFICES ASSUME NEW i \in DOMAIN r, NEW j \in DOMAIN r,
                      r[i] = r[j] \/ (r[i].kind = "isfin" /\ r[j].kind = "isfin")
               PROVE  i = j
    BY DEF Once
  <2>1. CASE i \in DOMAIN q /\ j \in DOMAIN q
    BY <1>1, <2>1 DEF Once
  <2>2. CASE i \notin DOMAIN q /\ j \notin DOMAIN q
    BY <1>1, <2>2
  <2>3. CASE i \in DOMAIN q /\ j \notin DOMAIN q
    BY <1>1, <1>3, <1>4, <1>5, <2>3
  <2>4. CASE i \notin DOMAIN q /\ j \in DOMAIN q
    BY <1>1, <1>3, <1>4, <1>5, <2>4
  <2> QED BY <2>1, <2>2, <2>3, <2>4
<1>7. ASSUME NEW kd, NEW g PROVE Asks(u, kd, g)' <=> Asks(u, kd, g) \/ (kd = kind /\ g = f)
  <2>1. Req(kd, g) = Req(kind, f) <=> kd = kind /\ g = f
    BY DEF Req
  <2> QED BY <1>1, <2>1 DEF Asks
<1>8. \A v \in Users : v # u => inbox'[Home(v)] = inbox[Home(v)]
  <2>1. \A v \in Users : Home(v) \in Conns
    BY LineIsConn, OneHome
  <2> QED BY <1>1, <2>1, OneHome
<1> QED BY <1>6, <1>7, <1>8

\* What a client does is about itself.
LEMMA ClientFrame ==
  ASSUME TypeOK, OneLine, NEW u \in Users, Submit(u) \/ Client(u)
  PROVE  /\ UNCHANGED <<job, list, ledger>>
         /\ \A v \in Users : v # u => UNCHANGED <<click[v], sent[v], writer[v], wait[v], poll[v],
                                                  logs[v], inbox[Home(v)]>>
<1> DEFINE Alone == \A v \in Users : v # u => UNCHANGED <<click[v], sent[v], writer[v], wait[v],
                                                        poll[v], logs[v], inbox[Home(v)]>>
<1>0. /\ click \in [Users -> [Files -> Nat]] /\ sent \in [Users -> [Files -> Nat]]
      /\ wait \in [Users -> SUBSET Files] /\ DOMAIN poll = Users /\ DOMAIN logs = Users
  BY DEF TypeOK
<1>1. UNCHANGED <<job, list, ledger>>
  BY ClientApart
<1>2. ASSUME NEW kind \in {"publish", "isfin"}, NEW f \in Files, Send(u, kind, f)
      PROVE  \A v \in Users : v # u => inbox'[Home(v)] = inbox[Home(v)]
  <2>1. \A v \in Users : Home(v) \in Conns
    BY LineIsConn, OneHome
  <2> QED BY <1>2, <2>1, SendEffect, OneHome
<1>3. CASE Submit(u)
  BY <1>0, <1>1, <1>3 DEF Submit, net
<1>4. CASE Request(u)
  <2>1. PICK f \in Files : /\ click' = [click EXCEPT ![u][f] = @ - 1]
                           /\ sent' = [sent EXCEPT ![u][f] = @ + 1]
                           /\ Send(u, "publish", f) /\ UNCHANGED <<writer, disk, poll>>
    BY <1>4 DEF Request
  <2> QED BY <1>0, <1>1, <1>2, <2>1
<1>5. CASE CreateWait(u)
  <2>1. UNCHANGED <<click, poll, logs, inbox>>
    BY <1>5 DEF CreateWait, net
  <2> QED BY <1>0, <1>1, <1>5, <2>1, WaitEffect
<1>6. CASE FillWait(u)
  BY <1>1, <1>6, FillEffect
<1>7. CASE ReadDate(u) \/ WriteLog(u) \/ DeleteWait(u)
  <2>1. UNCHANGED <<threads, inbox>>
    BY <1>7 DEF ReadDate, WriteLog, DeleteWait, net
  <2>2. \A v \in Users : v # u => UNCHANGED <<wait[v], poll[v], logs[v]>>
    BY <1>0, <1>7 DEF ReadDate, WriteLog, DeleteWait
  <2> QED BY <1>1, <2>1, <2>2
<1>8. ASSUME NEW f \in Files, AskFin(u, f) PROVE Alone
  BY <1>0, <1>2, <1>8 DEF AskFin
<1> QED BY <1>1, <1>3, <1>4, <1>5, <1>6, <1>7, <1>8 DEF Client, DoAudit, HandleFin

\* A file that is not taken has nothing in its list and no request or handler.
LEMMA Untaken ==
  ASSUME NEW u \in Users, NEW f \in Files, UserOK(u), f \notin wait[u], ~Taken(u, f)
  PROVE  /\ ~Asks(u, "publish", f) /\ ~Chains(u, f) /\ list[u][f] = <<>>
         /\ ~Ended(u, f) /\ ~Asks(u, "isfin", f)
BY DEF UserOK, TurnOK, PollOK, Ended, Asked

LEMMA LogInvSubmit ==
  ASSUME TypeOK, OneLine, "double" \notin Faults, NEW u \in Users, UserOK(u), Submit(u)
  PROVE  UserOK(u)'
<1>1. PICK f \in Audited[u] \ wait[u] : /\ click[u][f] + sent[u][f] = 0 /\ ~Writing(u, f)
                                       /\ click' = [click EXCEPT ![u][f] = @ + 1]
  BY DEF Submit, Fault
<1>2. UNCHANGED <<wait, sent, writer, poll, logs, inbox, job, ledger, list>>
  BY DEF Submit, net, redis
<1>3. f \in Files /\ click[u][f] = 0 /\ sent[u][f] = 0
  <2>1. f \in Files
    BY AuditAssumption
  <2>2. click[u][f] \in Nat /\ sent[u][f] \in Nat
    BY <2>1 DEF TypeOK
  <2> QED BY <1>1, <2>1, <2>2
<1>4. click'[u][f] = 1 /\ \A g \in Files : g # f => click'[u][g] = click[u][g]
  BY <1>1, <1>3 DEF TypeOK
<1>5. ClicksOK(u)'
  BY <1>1, <1>2, <1>3, <1>4 DEF UserOK, ClicksOK, Writing
<1>6. \A kind, g : (Asks(u, kind, g)' <=> Asks(u, kind, g)) /\ (Chains(u, g)' <=> Chains(u, g))
  BY <1>2 DEF Asks, Chains, File
<1>7. ASSUME NEW g \in Files PROVE TurnOK(u, g)'
  <2>1. g = f => ~Taken(u, g)
    BY <1>1, <1>3 DEF Taken
  <2>2. g # f => (Taken(u, g)' <=> Taken(u, g))
    BY <1>2, <1>4 DEF Taken
  <2>3. (Ended(u, g)' <=> Ended(u, g)) /\ \A ids : Entry(ids, u, g)' <=> Entry(ids, u, g)
    BY <1>2 DEF Ended, Entry
  <2> QED BY <1>2, <1>6, <2>1, <2>2, <2>3 DEF UserOK, TurnOK
<1>8. Once(inbox[Home(u)])' /\ PollOK(u)' /\ StageOK(u)' /\ LogOK(u)'
  BY <1>2, <1>6 DEF UserOK, Once, PollOK, Asked, StageOK, File, Audit, Judged, LogOK, Entry
<1> QED BY <1>5, <1>7, <1>8 DEF UserOK

LEMMA LogInvRequest ==
  ASSUME TypeOK, OneLine, NEW u \in Users, UserOK(u), Request(u)
  PROVE  UserOK(u)'
<1>1. PICK f \in Files : /\ click[u][f] > 0
                         /\ click' = [click EXCEPT ![u][f] = @ - 1]
                         /\ sent' = [sent EXCEPT ![u][f] = @ + 1]
                         /\ Send(u, "publish", f)
  BY DEF Request
<1>2. UNCHANGED <<wait, writer, poll, logs, job, ledger, list>>
  BY DEF Request, redis
<1>3. click[u][f] = 1 /\ sent[u][f] = 0 /\ f \notin wait[u]
  <2>1. click[u][f] \in Nat /\ sent[u][f] \in Nat
    BY DEF TypeOK
  <2> QED BY <1>1, <2>1 DEF UserOK, ClicksOK
<1>4. /\ click'[u][f] = 0 /\ sent'[u][f] = 1
      /\ \A g \in Files : g # f => click'[u][g] = click[u][g] /\ sent'[u][g] = sent[u][g]
  BY <1>1, <1>3 DEF TypeOK
<1>5. ~Taken(u, f)
  BY <1>3 DEF Taken
<1>6. /\ Once(inbox[Home(u)])'
      /\ \A kd, g : Asks(u, kd, g)' <=> Asks(u, kd, g) \/ (kd = "publish" /\ g = f)
  BY <1>1, <1>3, <1>5, Untaken, QueueSend DEF UserOK
<1>7. ClicksOK(u)'
  BY <1>2, <1>3, <1>4 DEF UserOK, ClicksOK, Writing
<1>8. PollOK(u)' /\ StageOK(u)' /\ LogOK(u)'
  BY <1>2, <1>6 DEF UserOK, PollOK, Asked, StageOK, File, Audit, Judged, LogOK, Entry
<1>9. ASSUME NEW g \in Files PROVE TurnOK(u, g)'
  <2>1. /\ (Ended(u, g)' <=> Ended(u, g)) /\ (Chains(u, g)' <=> Chains(u, g))
        /\ \A ids : Entry(ids, u, g)' <=> Entry(ids, u, g)
    BY <1>2 DEF Ended, Entry, Chains, File
  <2>2. CASE g = f
    <3>1. Taken(u, f)'
      BY <1>4 DEF Taken
    <3>2. ~Chains(u, f) /\ list[u][f] = <<>> /\ ~Ended(u, f)
      BY <1>3, <1>5, Untaken
    <3> QED BY <1>2, <2>1, <2>2, <3>1, <3>2 DEF TurnOK
  <2>3. CASE g # f
    <3>1. Taken(u, g)' <=> Taken(u, g)
      BY <1>2, <1>4, <2>3 DEF Taken
    <3> QED BY <1>2, <1>6, <2>1, <2>3, <3>1 DEF UserOK, TurnOK
  <2> QED BY <2>2, <2>3
<1> QED BY <1>6, <1>7, <1>8, <1>9 DEF UserOK

LEMMA LogInvWait ==
  ASSUME TypeOK, OneLine, NEW u \in Users, UserOK(u), CreateWait(u)
  PROVE  UserOK(u)'
<1>1. PICK f \in Files : /\ sent[u][f] > 0
                         /\ sent' = [sent EXCEPT ![u][f] = @ - 1]
                         /\ wait' = [wait EXCEPT ![u] = @ \cup {f}]
                         /\ \A g \in Files : g # f /\ Writing(u, g)' => Writing(u, g)
  BY WaitEffect
<1>2. UNCHANGED <<click, poll, logs, inbox, job, ledger, list>>
  BY DEF CreateWait, net, redis
<1>3. click[u][f] = 0 /\ sent[u][f] = 1
  <2>1. click[u][f] \in Nat /\ sent[u][f] \in Nat
    BY DEF TypeOK
  <2> QED BY <1>1, <2>1 DEF UserOK, ClicksOK
<1>4. /\ sent'[u][f] = 0 /\ wait'[u] = wait[u] \cup {f}
      /\ \A g \in Files : g # f => sent'[u][g] = sent[u][g]
  BY <1>1, <1>3 DEF TypeOK
<1>5. \A kind, g : (Asks(u, kind, g)' <=> Asks(u, kind, g)) /\ (Chains(u, g)' <=> Chains(u, g))
  BY <1>2 DEF Asks, Chains, File
<1>6. ClicksOK(u)'
  BY <1>1, <1>2, <1>3, <1>4 DEF UserOK, ClicksOK
<1>7. Once(inbox[Home(u)])' /\ PollOK(u)' /\ StageOK(u)' /\ LogOK(u)'
  BY <1>2, <1>4, <1>5 DEF UserOK, Once, PollOK, Asked, StageOK, File, Audit, Judged, LogOK, Entry
<1>8. ASSUME NEW g \in Files PROVE TurnOK(u, g)'
  <2>1. Taken(u, g) => Taken(u, g)'
    BY <1>2, <1>3, <1>4 DEF Taken
  <2>2. (Ended(u, g)' <=> Ended(u, g)) /\ \A ids : Entry(ids, u, g)' <=> Entry(ids, u, g)
    BY <1>2 DEF Ended, Entry
  <2> QED BY <1>2, <1>5, <2>1, <2>2 DEF UserOK, TurnOK
<1> QED BY <1>6, <1>7, <1>8 DEF UserOK

LEMMA LogInvFill ==
  ASSUME TypeOK, OneLine, NEW u \in Users, UserOK(u), FillWait(u)
  PROVE  UserOK(u)'
<1>1. /\ UNCHANGED <<click, sent, poll, logs, inbox, job, ledger, list>> /\ wait[u] \subseteq wait'[u]
      /\ \A g \in Files : Writing(u, g)' => Writing(u, g)
      /\ \A g \in Files : g \in wait'[u] => g \in wait[u] \/ Writing(u, g)
  BY FillEffect DEF redis
<1>2. \A kind, g : (Asks(u, kind, g)' <=> Asks(u, kind, g)) /\ (Chains(u, g)' <=> Chains(u, g))
  BY <1>1 DEF Asks, Chains, File
<1>3. ClicksOK(u)'
  BY <1>1 DEF UserOK, ClicksOK
<1>4. Once(inbox[Home(u)])' /\ PollOK(u)' /\ StageOK(u)' /\ LogOK(u)'
  BY <1>1, <1>2 DEF UserOK, Once, PollOK, Asked, StageOK, File, Audit, Judged, LogOK, Entry
<1>5. ASSUME NEW g \in Files PROVE TurnOK(u, g)'
  <2>1. Taken(u, g) => Taken(u, g)'
    BY <1>1 DEF Taken
  <2>2. (Ended(u, g)' <=> Ended(u, g)) /\ \A ids : Entry(ids, u, g)' <=> Entry(ids, u, g)
    BY <1>1 DEF Ended, Entry
  <2> QED BY <1>1, <1>2, <2>1, <2>2 DEF UserOK, TurnOK
<1> QED BY <1>3, <1>4, <1>5 DEF UserOK

LEMMA LogInvAsk ==
  ASSUME TypeOK, OneLine, NEW u \in Users, UserOK(u), NEW f \in Files, AskFin(u, f)
  PROVE  UserOK(u)'
<1>1. /\ poll[u].pc = "idle" /\ f \in wait[u] /\ Send(u, "isfin", f)
      /\ poll'[u].pc = "asked" /\ poll'[u].file = f
      /\ UNCHANGED <<threads, disk, job, ledger, list>>
  BY DEF AskFin, Quiet, redis, TypeOK
<1>2. job[Home(u)].pc \notin Polling /\ \A g \in Files : ~Asks(u, "isfin", g) /\ ~Ended(u, g)
  BY <1>1 DEF UserOK, PollOK, Asked, Ended
<1>3. /\ Once(inbox[Home(u)])'
      /\ \A kd, g : Asks(u, kd, g)' <=> Asks(u, kd, g) \/ (kd = "isfin" /\ g = f)
  BY <1>1, <1>2, QueueSend DEF UserOK
<1>4. Asked(u, f)' /\ \A g : ~Ended(u, g)'
  BY <1>1 DEF Asked, Ended
<1>5. PollOK(u)'
  BY <1>1, <1>2, <1>3, <1>4 DEF PollOK, Asked
<1>6. ClicksOK(u)' /\ StageOK(u)' /\ LogOK(u)'
  BY <1>1 DEF UserOK, ClicksOK, Writing, StageOK, File, Audit, Judged, LogOK, Entry
<1>7. ASSUME NEW g \in Files PROVE TurnOK(u, g)'
  <2>1. /\ (Taken(u, g)' <=> Taken(u, g)) /\ (Chains(u, g)' <=> Chains(u, g))
        /\ \A ids : Entry(ids, u, g)' <=> Entry(ids, u, g)
    BY <1>1 DEF Taken, Entry, Chains, File
  <2> QED BY <1>1, <1>2, <1>3, <1>4, <2>1 DEF UserOK, TurnOK
<1> QED BY <1>3, <1>5, <1>6, <1>7 DEF UserOK

\* Reading the wait file, line by line.
LEMMA ReadEffect ==
  ASSUME TypeOK, NEW u \in Users, ReadDate(u) \/ WriteLog(u)
  PROVE  /\ poll[u].pc \in {"finished", "reading"} /\ poll'[u].pc = "reading"
         /\ poll'[u].file = poll[u].file /\ poll'[u].ids = poll[u].ids
         /\ logs'[u] \subseteq logs[u] \cup {[file |-> poll[u].file, ids |-> poll[u].ids]}
         /\ UNCHANGED <<threads, wait, text, inbox, job, ledger, list>>
<1>1. DOMAIN poll = Users /\ poll[u] \in Polls /\ DOMAIN logs = Users
  BY DEF TypeOK, Polls
<1>2. CASE ReadDate(u)
  <2>1. PICK n : n = Len(FirstLine(Unread(u)))
    OBVIOUS
  <2>2. poll' = [poll EXCEPT ![u].pc = "reading", ![u].read = n]
    BY <1>2, <2>1 DEF ReadDate
  <2>3. poll'[u].pc = "reading" /\ poll'[u].file = poll[u].file /\ poll'[u].ids = poll[u].ids
    BY <1>1, <2>2 DEF Polls
  <2> QED BY <1>2, <2>3 DEF ReadDate, net, redis
<1>3. CASE WriteLog(u)
  <2>1. PICK n : n = Len(FirstLine(Unread(u)))
    OBVIOUS
  <2>2. poll' = [poll EXCEPT ![u].read = @ + n]
    BY <1>3, <2>1 DEF WriteLog
  <2>3. /\ poll'[u].pc = poll[u].pc /\ poll'[u].file = poll[u].file
        /\ poll'[u].ids = poll[u].ids
    BY <1>1, <2>2 DEF Polls
  <2>4. logs'[u] \subseteq logs[u] \cup {[file |-> poll[u].file, ids |-> poll[u].ids]}
    BY <1>1, <1>3 DEF WriteLog
  <2> QED BY <1>3, <2>3, <2>4 DEF WriteLog, net, redis
<1> QED BY <1>2, <1>3

LEMMA LogInvRead ==
  ASSUME TypeOK, OneLine, NEW u \in Users, UserOK(u), ReadDate(u) \/ WriteLog(u)
  PROVE  UserOK(u)'
<1>1. /\ poll[u].pc \in {"finished", "reading"} /\ poll'[u].pc = "reading"
      /\ poll'[u].file = poll[u].file /\ poll'[u].ids = poll[u].ids
      /\ logs'[u] \subseteq logs[u] \cup {[file |-> poll[u].file, ids |-> poll[u].ids]}
      /\ UNCHANGED <<threads, wait, inbox, job, ledger, list>>
  BY ReadEffect
<1>2. \A kind, g : (Asks(u, kind, g)' <=> Asks(u, kind, g)) /\ (Chains(u, g)' <=> Chains(u, g))
  BY <1>1 DEF Asks, Chains, File
<1>3. \A ids, g : Entry(ids, u, g)' <=> Entry(ids, u, g)
  BY <1>1 DEF Entry
<1>4. LogOK(u)'
  <2>1. Ended(u, poll[u].file) /\ poll[u].file \in Files
    BY <1>1 DEF Ended, TypeOK
  <2>2. Entry(poll[u].ids, u, poll[u].file)
    BY <2>1 DEF UserOK, TurnOK
  <2>3. ASSUME NEW e \in logs'[u] PROVE Entry(e.ids, u, e.file)
    <3>1. CASE e \in logs[u]
      BY <3>1 DEF UserOK, LogOK
    <3>2. CASE e = [file |-> poll[u].file, ids |-> poll[u].ids]
      BY <2>2, <3>2
    <3> QED BY <1>1, <2>3, <3>1, <3>2
  <2> QED BY <1>3, <2>3 DEF LogOK
<1>5. ASSUME NEW g \in Files PROVE TurnOK(u, g)'
  <2>1. (Taken(u, g)' <=> Taken(u, g)) /\ (Ended(u, g)' <=> Ended(u, g))
    BY <1>1 DEF Taken, Ended
  <2> QED BY <1>1, <1>2, <1>3, <2>1 DEF UserOK, TurnOK
<1>6. ClicksOK(u)' /\ Once(inbox[Home(u)])' /\ StageOK(u)'
  BY <1>1 DEF UserOK, ClicksOK, Writing, Once, StageOK, File, Audit, Judged
<1>7. PollOK(u)'
  BY <1>1, <1>2 DEF UserOK, PollOK, Asked, File
<1> QED BY <1>4, <1>5, <1>6, <1>7 DEF UserOK

LEMMA LogInvDelete ==
  ASSUME TypeOK, OneLine, NEW u \in Users, UserOK(u), DeleteWait(u)
  PROVE  UserOK(u)'
<1>1. /\ poll[u].pc = "reading" /\ poll'[u].pc = "idle" /\ poll[u].file \in Files
      /\ wait'[u] \in {wait[u], wait[u] \ {poll[u].file}}
      /\ UNCHANGED <<threads, logs, inbox, job, ledger, list>>
  BY DEF DeleteWait, net, redis, TypeOK, Quiet
<1>2. \A kind, g : (Asks(u, kind, g)' <=> Asks(u, kind, g)) /\ (Chains(u, g)' <=> Chains(u, g))
  BY <1>1 DEF Asks, Chains, File
<1>3. ASSUME NEW g \in Files PROVE TurnOK(u, g)'
  <2>1. ~Ended(u, g)' /\ \A ids : Entry(ids, u, g)' <=> Entry(ids, u, g)
    BY <1>1 DEF Ended, Entry
  <2>2. CASE g = poll[u].file
    <3>1. Ended(u, g)
      BY <1>1, <2>2 DEF Ended
    <3>2. ~Asks(u, "publish", g) /\ ~Chains(u, g) /\ list[u][g] = <<>>
      BY <3>1 DEF UserOK, TurnOK
    <3> QED BY <1>1, <1>2, <2>1, <3>2 DEF TurnOK
  <2>3. CASE g # poll[u].file
    <3>1. Taken(u, g)' <=> Taken(u, g)
      BY <1>1, <2>3 DEF Taken
    <3> QED BY <1>1, <1>2, <2>1, <3>1 DEF UserOK, TurnOK
  <2> QED BY <2>2, <2>3
<1>4. /\ ClicksOK(u)' /\ Once(inbox[Home(u)])' /\ StageOK(u)' /\ LogOK(u)'
  BY <1>1 DEF UserOK, ClicksOK, Writing, Once, StageOK, File, Audit, Judged, LogOK, Entry
<1>5. PollOK(u)'
  <2>1. job[Home(u)].pc \notin Polling /\ \A g \in Files : ~Asks(u, "isfin", g)
    BY <1>1 DEF UserOK, PollOK, Asked
  <2> QED BY <1>1, <1>2, <2>1 DEF PollOK
<1> QED BY <1>3, <1>4, <1>5 DEF UserOK

LEMMA LogInvClient ==
  ASSUME TypeOK, OneLine, "double" \notin Faults, LogInv, NEW u \in Users, Submit(u) \/ Client(u)
  PROVE  LogInv'
<1>1. UserOK(u)'
  BY LogInvSubmit, LogInvRequest, LogInvWait, LogInvFill, LogInvAsk, LogInvRead, LogInvDelete
     DEF LogInv, Client, DoAudit, HandleFin
<1>2. ASSUME NEW v \in Users, v # u PROVE UserOK(v)'
  BY <1>2, ClientFrame, UserStays DEF LogInv, Untouched
<1> QED BY <1>1, <1>2 DEF LogInv

----------------------------------------------------------------------------
(* The handler's steps *)

\* What a handler does is about its own user, and the ledger grows.
LEMMA ServeFrame ==
  ASSUME TypeOK, OneLine, NEW u \in Users, Serve(Home(u)) \/ Fail(Home(u)), Home(u) \in Conns
  PROVE  /\ ledger \subseteq ledger'
         /\ \A v \in Users : v # u => Untouched(v)
<1> DEFINE k == Home(u)
<1>0. /\ User(k) = u /\ \A v \in Users : Home(v) \in Conns /\ (v # u => Home(v) # k)
      /\ DOMAIN poll = Users /\ DOMAIN list = Users
  BY LineIsConn, OneHome DEF User, Home, TypeOK
<1>1. /\ OthersStay(k) /\ UNCHANGED <<threads, disk>>
      /\ \A e \in Conns : e # k => inbox'[e] = inbox[e]
  BY HandlerFrame
<1>2. /\ \A id : Push(k, id) => \A v \in Users : v # u => list'[v] = list[v]
      /\ \A pc, ids : Answer(k, pc, ids) => \A v \in Users : v # u => poll'[v] = poll[v]
  BY <1>0 DEF Push, Answer
<1>3. /\ ledger \subseteq ledger'
      /\ \A v \in Users : v # u => list'[v] = list[v] /\ poll'[v] = poll[v]
  <2>1. CASE Receive(k) \/ PublishChall(k) \/ ReadExempt(k) \/ ReadBlocks(k) \/ PublishProof(k)
    BY <2>1, ReceiveEffect, PublishChallEffect, ReadExemptEffect, ReadBlocksEffect,
       PublishProofEffect DEF client, redis
  <2>2. CASE ReadMarks(k) \/ AddMarks(k) \/ SetExpire(k) \/ PublishResult(k)
    BY <2>2, ReadMarksEffect, AddMarksEffect, SetExpireEffect, PublishResultEffect
       DEF client, redis
  <2>3. CASE PushChallenge(k) \/ PushProof(k) \/ PushResult(k)
    BY <1>2, <2>3, PushChallengeEffect, PushProofEffect, PushResultEffect DEF client
  <2>4. CASE ReadList(k) \/ Fail(k)
    BY <1>2, <2>4, ReadListEffect, FailEffect DEF redis
  <2>5. CASE ClearList(k)
    BY <1>0, <1>2, <2>5, ClearListEffect
  <2> QED BY <2>1, <2>2, <2>3, <2>4, <2>5 DEF Serve
<1> QED BY <1>0, <1>1, <1>3 DEF Untouched, OthersStay

LEMMA QueueTake ==
  ASSUME TypeOK, NEW u \in Users, Home(u) \in Conns, Receive(Home(u)), Once(inbox[Home(u)])
  PROVE  LET h == Head(inbox[Home(u)]) IN
         /\ h.kind \in {"publish", "isfin"} /\ h.file \in Files
         /\ Once(inbox[Home(u)])'
         /\ \A kd, g : kd = h.kind /\ g = h.file => Asks(u, kd, g) /\ ~Asks(u, kd, g)'
         /\ \A kd, g : Asks(u, kd, g)' => Asks(u, kd, g)
         /\ h.kind = "isfin" => \A g \in Files : ~Asks(u, "isfin", g)'
<1> DEFINE q == inbox[Home(u)]
           r == inbox'[Home(u)]
           h == Head(q)
<1>1. /\ 1 \in DOMAIN q /\ h = q[1]
      /\ \A i \in DOMAIN r : i \in Nat \ {0} /\ i + 1 \in DOMAIN q /\ r[i] = q[i + 1]
  BY TakeEffect
<1>2. h \in Requests
  <2>1. q \in Seq(Requests)
    BY DEF TypeOK, Requests
  <2> QED BY <1>1, <2>1
<1>3. h.kind \in {"publish", "isfin"} /\ h.file \in Files /\ h = Req(h.kind, h.file)
  BY <1>2 DEF Requests, Req
<1>4. \A i \in DOMAIN r : r[i] # h /\ ~(h.kind = "isfin" /\ r[i].kind = "isfin")
  <2> SUFFICES ASSUME NEW i \in DOMAIN r, r[i] = h \/ (h.kind = "isfin" /\ r[i].kind = "isfin")
               PROVE  FALSE
    OBVIOUS
  <2>1. i + 1 = 1
    BY <1>1 DEF Once
  <2> QED BY <1>1, <2>1
<1>5. Once(inbox[Home(u)])'
  <2> SUFFICES ASSUME NEW i \in DOMAIN r, NEW j \in DOMAIN r,
                      r[i] = r[j] \/ (r[i].kind = "isfin" /\ r[j].kind = "isfin")
               PROVE  i = j
    BY DEF Once
  <2>1. i + 1 = j + 1
    BY <1>1 DEF Once
  <2> QED BY <1>1, <2>1
<1>6. ASSUME NEW kd, NEW g, kd = h.kind, g = h.file PROVE Asks(u, kd, g) /\ ~Asks(u, kd, g)'
  <2>1. h = Req(kd, g)
    BY <1>3, <1>6
  <2> QED BY <1>1, <1>4, <2>1 DEF Asks
<1>7. \A kd, g : Asks(u, kd, g)' => Asks(u, kd, g)
  BY <1>1 DEF Asks
<1>8. h.kind = "isfin" => \A g \in Files : ~Asks(u, "isfin", g)'
  BY <1>4 DEF Asks, Req
<1> QED BY <1>3, <1>5, <1>6, <1>7, <1>8

LEMMA LogInvReceive ==
  ASSUME TypeOK, OneLine, NEW u \in Users, UserOK(u), Home(u) \in Conns, Receive(Home(u))
  PROVE  UserOK(u)'
<1> DEFINE k == Home(u)
           h == Head(inbox[k])
<1>1. /\ job[k].pc = "free" /\ File(k)' = h.file /\ job'[k].asset.kind = "challenge"
      /\ job'[k].pc = IF h.kind = "publish" THEN "publish" ELSE "range"
      /\ UNCHANGED <<threads, disk, poll, list, ledger>>
  BY ReceiveEffect DEF client, redis
<1>2. /\ h.kind \in {"publish", "isfin"} /\ h.file \in Files
      /\ Once(inbox[Home(u)])'
      /\ \A kd, g : kd = h.kind /\ g = h.file => Asks(u, kd, g) /\ ~Asks(u, kd, g)'
      /\ \A kd, g : Asks(u, kd, g)' => Asks(u, kd, g)
      /\ h.kind = "isfin" => \A g \in Files : ~Asks(u, "isfin", g)'
  BY QueueTake DEF UserOK
<1> HIDE DEF h
<1>3. /\ \A g : ~Chains(u, g)
      /\ \A g : Chains(u, g)' <=> h.kind = "publish" /\ g = h.file
  BY <1>1, <1>2 DEF Chains, Chained, Running, Unjudged, Unproved, File
<1>4. ClicksOK(u)' /\ LogOK(u)'
  BY <1>1 DEF UserOK, ClicksOK, Writing, LogOK, Entry
<1>5. PollOK(u)'
  <2>1. job'[k].pc \in Polling <=> h.kind = "isfin"
    BY <1>1, <1>2 DEF Polling
  <2>2. \A g : Asked(u, g)' <=> Asked(u, g)
    BY <1>1 DEF Asked
  <2>3. Asked(u, h.file) \/ h.kind = "publish"
    BY <1>2 DEF UserOK, PollOK
  <2>4. \A g \in Files : Asks(u, "isfin", g)' => Asked(u, g)' /\ ~(job'[k].pc \in Polling)
    BY <1>2, <2>1, <2>2 DEF UserOK, PollOK
  <2>5. job'[k].pc \in Polling => Asked(u, File(k))'
    BY <1>1, <1>2, <2>1, <2>2, <2>3 DEF Asked
  <2> QED BY <1>1, <2>4, <2>5 DEF UserOK, PollOK
<1>6. StageOK(u)'
  <2>1. h.kind = "publish" => list'[u][File(k)'] = <<>>
    BY <1>1, <1>2 DEF UserOK, TurnOK
  <2> QED BY <1>1, <2>1 DEF StageOK, Running, Unjudged, Unproved
<1>7. ASSUME NEW g \in Files PROVE TurnOK(u, g)'
  <2>1. /\ (Taken(u, g)' <=> Taken(u, g)) /\ (Ended(u, g)' <=> Ended(u, g))
        /\ \A ids : Entry(ids, u, g)' <=> Entry(ids, u, g)
    BY <1>1 DEF Taken, Ended, Entry
  <2>2. Chains(u, g)' => Asks(u, "publish", g) /\ ~Asks(u, "publish", g)'
    BY <1>2, <1>3
  <2> QED BY <1>1, <1>2, <1>3, <2>1, <2>2 DEF UserOK, TurnOK
<1> QED BY <1>2, <1>4, <1>5, <1>6, <1>7 DEF UserOK

\* A step of the chain of an audit: the handler goes on or ends, and it may have put an id
\* in the list of its file.
LEMMA LogInvChain ==
  ASSUME TypeOK, NEW u \in Users, UserOK(u), ledger \subseteq ledger', StageOK(u)',
         UNCHANGED <<threads, disk, poll, inbox>>,
         job[Home(u)].pc \in Chained, File(Home(u)) \in Files,
         \/ job'[Home(u)].pc = "free"
         \/ job'[Home(u)].pc \in Chained /\ File(Home(u))' = File(Home(u)),
         \A g \in Files : g # File(Home(u)) => list'[u][g] = list[u][g],
         \A f \in Files : f = File(Home(u)) =>
           list'[u][f] = list[u][f] \/ (Len(list'[u][f]) = 3 => Entry(list[u][f], u, f)')
  PROVE  UserOK(u)'
<1> DEFINE k == Home(u)
<1>1. /\ \A kind, g : Asks(u, kind, g)' <=> Asks(u, kind, g)
      /\ \A g : Chains(u, g)' => Chains(u, g)
      /\ job[k].pc \notin Polling /\ job'[k].pc \notin Polling
  BY DEF Asks, Chains, File, Polling, Chained, Running, Unjudged, Unproved
<1>2. ClicksOK(u)' /\ Once(inbox[Home(u)])' /\ LogOK(u)' /\ PollOK(u)'
  BY <1>1, EntryStays DEF UserOK, ClicksOK, Writing, Once, LogOK, PollOK, Asked
<1>3. ASSUME NEW g \in Files PROVE TurnOK(u, g)'
  <2>1. (Taken(u, g)' <=> Taken(u, g)) /\ (Ended(u, g)' <=> Ended(u, g))
    BY DEF Taken, Ended
  <2>2. Ended(u, g)' => Entry(poll[u].ids, u, g)'
    BY <2>1, EntryStays DEF UserOK, TurnOK
  <2>3. CASE g # File(k)
    BY <1>1, <2>1, <2>2, <2>3, EntryStays DEF UserOK, TurnOK
  <2>4. CASE g = File(k)
    <3>1. Chains(u, g)
      BY <2>4 DEF Chains
    <3>2. Taken(u, g) /\ ~Ended(u, g) /\ ~Asks(u, "publish", g)
      BY <3>1 DEF UserOK, TurnOK
    <3>3. Len(list'[u][g]) = 3 => Entry(list[u][g], u, g)'
      BY <2>4, EntryStays DEF UserOK, TurnOK
    <3> QED BY <1>1, <2>1, <3>2, <3>3 DEF TurnOK
  <2> QED BY <2>3, <2>4
<1> QED BY <1>2, <1>3 DEF UserOK

\* The steps that leave the list alone.
LEMMA LogInvMove ==
  ASSUME TypeOK, NEW u \in Users, UserOK(u), Home(u) \in Conns,
         LET k == Home(u) IN
         \/ PublishChall(k) \/ ReadExempt(k) \/ ReadBlocks(k) \/ PublishProof(k)
         \/ ReadMarks(k) \/ AddMarks(k) \/ SetExpire(k) \/ PublishResult(k)
  PROVE  UserOK(u)'
<1> DEFINE k == Home(u)
<1> USE DEF Chained, Running, Unjudged, Unproved
<1>1. File(k) \in Files /\ User(k) = u
  BY JobType DEF User, Home
<1>2. CASE PublishChall(k)
  <2>1. /\ job[k].pc = "publish" /\ job'[k].pc = "push" /\ File(k)' = File(k)
        /\ job'[k].asset.kind = job[k].asset.kind /\ Audit(k)'[1] = u
        /\ ledger \subseteq ledger' /\ UNCHANGED <<threads, disk, poll, inbox, list>>
    BY <1>1, <1>2, PublishChallEffect DEF client, net, redis
  <2>2. StageOK(u)'
    BY <2>1 DEF UserOK, StageOK
  <2> QED BY <1>1, <2>1, <2>2, LogInvChain
<1>3. CASE ReadExempt(k) \/ PublishProof(k) \/ ReadMarks(k) \/ AddMarks(k) \/ SetExpire(k)
  <2>1. /\ job[k].pc \in {"exempt", "prove", "verify", "mark", "expire"}
        /\ ledger \subseteq ledger' /\ UNCHANGED <<threads, disk, poll, inbox, list>>
        /\ \/ job'[k].pc = "free"
           \/ /\ job'[k].asset = job[k].asset
              /\ job[k].pc = "exempt" => job'[k].pc = "read"
              /\ job[k].pc # "exempt" => job'[k].pc \in {"verify", "mark", "expire", "judge"}
    BY <1>3, ReadExemptEffect, PublishProofEffect, ReadMarksEffect, AddMarksEffect,
       SetExpireEffect DEF client, net, redis
  <2>2. StageOK(u)'
    BY <2>1 DEF UserOK, StageOK, File, Audit
  <2> QED BY <1>1, <2>1, <2>2, LogInvChain DEF File
<1>4. CASE ReadBlocks(k)
  <2>1. /\ job[k].pc = "read" /\ UNCHANGED <<threads, disk, poll, inbox, list, ledger>>
        /\ \/ job'[k].pc = "free"
           \/ /\ job'[k].pc = "prove" /\ job'[k].asset.kind = "proof"
              /\ File(k)' = File(k) /\ Audit(k)' = Audit(k)
    BY <1>4, ReadBlocksEffect DEF client, net, redis
  <2>2. StageOK(u)'
    BY <2>1 DEF UserOK, StageOK
  <2> QED BY <1>1, <2>1, <2>2, LogInvChain
<1>5. CASE PublishResult(k)
  <2>1. /\ job[k].pc = "judge" /\ job'[k].pc = "pushProof" /\ job'[k].asset = job[k].asset
        /\ ledger \subseteq ledger' /\ UNCHANGED <<threads, disk, poll, inbox, list>>
        /\ \E r \in ledger' : r.kind = "result" /\ r.file = File(k) /\ r.audit = Audit(k)
    BY <1>5, PublishResultEffect DEF client, net, redis
  <2>2. Judged(Audit(k), File(k))'
    BY <2>1 DEF Judged, File, Audit
  <2>3. StageOK(u)'
    BY <2>1, <2>2 DEF UserOK, StageOK, File, Audit
  <2> QED BY <1>1, <2>1, <2>3, LogInvChain DEF File
<1> QED BY <1>2, <1>3, <1>4, <1>5

LEMMA SameIds ==
  ASSUME NEW S, NEW q \in Seq(S), NEW r \in Seq(S), Len(q) = Len(r),
         \A i \in 1 .. Len(q) : q[i] = r[i]
  PROVE  q = r
OBVIOUS

LEMMA AppendIds ==
  ASSUME NEW S, NEW x \in S, NEW y \in S, NEW z \in S
  PROVE  /\ Append(<<>>, x) = <<x>> /\ Append(<<x>>, y) = <<x, y>>
         /\ Append(<<x, y>>, z) = <<x, y, z>>
<1> DEFINE q == Append(<<x>>, y)
           r == Append(<<x, y>>, z)
<1>1. <<x, y>> \in Seq(S) /\ <<x, y, z>> \in Seq(S)
  OBVIOUS
<1>2. q \in Seq(S) /\ Len(q) = 2 /\ q[1] = x /\ q[2] = y
  OBVIOUS
<1>3. r \in Seq(S) /\ Len(r) = 3 /\ r[1] = x /\ r[2] = y /\ r[3] = z
  OBVIOUS
<1>4. \A i \in 1 .. Len(q) : q[i] = <<x, y>>[i]
  BY <1>2
<1>5. \A i \in 1 .. Len(r) : r[i] = <<x, y, z>>[i]
  BY <1>3
<1>6. q = <<x, y>> /\ r = <<x, y, z>>
  <2> HIDE DEF q, r
  <2> QED BY <1>1, <1>2, <1>3, <1>4, <1>5, SameIds
<1> QED BY <1>6

\* The steps that put an id in the list.
LEMMA LogInvPush ==
  ASSUME TypeOK, NEW u \in Users, UserOK(u), Home(u) \in Conns,
         PushChallenge(Home(u)) \/ PushProof(Home(u)) \/ PushResult(Home(u))
  PROVE  UserOK(u)'
<1> DEFINE k == Home(u)
           t == Triple(Audit(k))
<1> USE DEF Chained, Running, Unjudged, Unproved
<1>1. File(k) \in Files /\ User(k) = u
  BY JobType DEF User, Home
<1>2. /\ t[1] = [audit |-> Audit(k), kind |-> "challenge"]
      /\ t[2] = [audit |-> Audit(k), kind |-> "proof"]
      /\ t[3] = [audit |-> Audit(k), kind |-> "result"]
      /\ t = <<t[1], t[2], t[3]>>
      /\ {t[1], t[2], t[3]} \subseteq Ids
  BY JobType DEF Triple, Audit, Assets, Ids, Kinds
<1>3. ASSUME NEW id, Push(k, id)
      PROVE  /\ list'[u][File(k)] = Append(list[u][File(k)], id)
             /\ \A g \in Files : g # File(k) => list'[u][g] = list[u][g]
  BY <1>1, <1>3 DEF Push, TypeOK
<1>4. CASE PushChallenge(k)
  <2>1. /\ job[k].pc = "push" /\ job'[k].pc = "exempt" /\ job'[k].asset = job[k].asset
        /\ Push(k, Id(job[k].asset)) /\ UNCHANGED <<threads, disk, poll, inbox, ledger>>
    BY <1>4, PushChallengeEffect DEF client, net
  <2>2. Id(job[k].asset) = t[1] /\ list[u][File(k)] = <<>> /\ Audit(k)[1] = u
    BY <1>2, <2>1 DEF UserOK, StageOK, Id, Audit
  <2>3. list'[u][File(k)] = <<t[1]>>
    BY <1>2, <1>3, <2>1, <2>2, AppendIds
  <2>4. Len(list'[u][File(k)]) # 3
    BY <2>3
  <2>5. StageOK(u)'
    BY <2>1, <2>2, <2>3 DEF StageOK, File, Audit
  <2> QED BY <1>1, <1>3, <2>1, <2>4, <2>5, LogInvChain DEF File
<1>5. CASE PushProof(k)
  <2>1. /\ job[k].pc = "pushProof" /\ job'[k].pc = "pushResult" /\ job'[k].asset = job[k].asset
        /\ Push(k, Id(job[k].asset)) /\ UNCHANGED <<threads, disk, poll, inbox, ledger>>
    BY <1>5, PushProofEffect DEF client, net
  <2>2. /\ Id(job[k].asset) = t[2] /\ list[u][File(k)] = <<t[1]>> /\ Audit(k)[1] = u
        /\ Judged(Audit(k), File(k)) /\ job[k].asset.kind = "proof"
    BY <1>2, <2>1 DEF UserOK, StageOK, Id, Audit
  <2>3. list'[u][File(k)] = <<t[1], t[2]>>
    BY <1>2, <1>3, <2>1, <2>2, AppendIds
  <2>4. Len(list'[u][File(k)]) # 3
    BY <2>3
  <2>5. StageOK(u)'
    BY <2>1, <2>2, <2>3 DEF StageOK, File, Audit, Judged
  <2> QED BY <1>1, <1>3, <2>1, <2>4, <2>5, LogInvChain DEF File
<1>6. CASE PushResult(k)
  <2>1. /\ job[k].pc = "pushResult" /\ job'[k].pc = "free"
        /\ Push(k, [Id(job[k].asset) EXCEPT !.kind = "result"])
        /\ UNCHANGED <<threads, disk, poll, inbox, ledger>>
    BY <1>6, PushResultEffect DEF client, net
  <2>2. [Id(job[k].asset) EXCEPT !.kind = "result"] = t[3]
    BY <1>2 DEF Id, Audit
  <2>3. list[u][File(k)] = <<t[1], t[2]>> /\ Judged(Audit(k), File(k)) /\ Audit(k)[1] = u
    BY <2>1 DEF UserOK, StageOK
  <2>4. list'[u][File(k)] = t
    <3>1. list'[u][File(k)] = Append(<<t[1], t[2]>>, t[3])
      BY <1>3, <2>1, <2>2, <2>3
    <3> QED BY <1>2, <3>1, AppendIds
  <2>5. ASSUME NEW f \in Files, f = File(k) PROVE Entry(list[u][f], u, f)'
    <3>1. PICK r \in ledger : r.kind = "result" /\ r.file = File(k) /\ r.audit = Audit(k)
      BY <2>3 DEF Judged
    <3>2. list'[u][f] = Triple(r.audit) /\ r \in ledger' /\ r.audit[1] = u
      BY <2>1, <2>3, <2>4, <2>5, <3>1
    <3> QED BY <2>5, <3>1, <3>2 DEF Entry
  <2>6. StageOK(u)'
    BY <2>1 DEF StageOK
  <2> QED BY <1>1, <1>3, <2>1, <2>5, <2>6, LogInvChain
<1> QED BY <1>4, <1>5, <1>6

\* The answer to a question for the end.
LEMMA AnswerEffect ==
  ASSUME TypeOK, OneLine, NEW u \in Users, poll[u].pc = "asked",
         NEW pc, NEW ids, Answer(Home(u), pc, ids)
  PROVE  poll'[u].pc = pc /\ poll'[u].ids = ids /\ poll'[u].file = poll[u].file
<1>1. User(Home(u)) = u /\ Line(u) = Home(u)
  BY OneHome DEF User, Home
<1>2. poll' = [poll EXCEPT ![u].pc = pc, ![u].ids = ids]
  BY <1>1 DEF Answer
<1>3. DOMAIN poll = Users /\ poll[u] \in Polls
  BY DEF TypeOK, Polls
<1> QED BY <1>2, <1>3 DEF Polls

\* A handler of isAuditFin that ends with its answer, or reads the list and goes on.
LEMMA LogInvAnswer ==
  ASSUME TypeOK, OneLine, NEW u \in Users, UserOK(u), Home(u) \in Conns,
         job[Home(u)].pc \in Polling,
         UNCHANGED <<threads, disk, inbox, ledger>>,
         \/ /\ job'[Home(u)].pc = "free" /\ list' = list
            /\ Answer(Home(u), "idle", <<>>)
         \/ /\ job'[Home(u)].pc = "clear" /\ File(Home(u))' = File(Home(u))
            /\ job'[Home(u)].ids = list[u][File(Home(u))] /\ UNCHANGED <<list, poll>>
            /\ Len(list[u][File(Home(u))]) = 3
  PROVE  UserOK(u)'
<1> DEFINE k == Home(u)
<1> USE DEF Polling, Chained, Running, Unjudged, Unproved
<1>1. /\ Asked(u, File(k)) /\ \A g \in Files : ~Asks(u, "isfin", g)
      /\ poll[u].file \in wait[u]
  BY DEF UserOK, PollOK, Asked
<1>2. poll'[u] = poll[u] \/ (poll'[u].pc = "idle" /\ job'[k].pc = "free")
  BY <1>1, AnswerEffect DEF Asked
<1>3. /\ \A kind, g : Asks(u, kind, g)' <=> Asks(u, kind, g)
      /\ \A g : ~Chains(u, g) /\ ~Chains(u, g)' /\ ~Ended(u, g) /\ ~Ended(u, g)'
      /\ \A ids, g : Entry(ids, u, g)' <=> Entry(ids, u, g)
  BY <1>1, <1>2 DEF Asks, Chains, Ended, Asked, Entry
<1>4. ClicksOK(u)' /\ Once(inbox[Home(u)])' /\ LogOK(u)'
  BY <1>3 DEF UserOK, ClicksOK, Writing, Once, LogOK
<1>5. PollOK(u)'
  BY <1>1, <1>2, <1>3 DEF PollOK, Asked
<1>6. StageOK(u)'
  BY DEF StageOK
<1>7. ASSUME NEW g \in Files PROVE TurnOK(u, g)'
  <2>1. Taken(u, g)' <=> Taken(u, g)
    BY DEF Taken
  <2> QED BY <1>3, <2>1 DEF UserOK, TurnOK
<1> QED BY <1>4, <1>5, <1>6, <1>7 DEF UserOK

LEMMA Filled == ASSUME NEW q, Len(q) = 3 PROVE q # <<>>
OBVIOUS

LEMMA LogInvClear ==
  ASSUME TypeOK, OneLine, NEW u \in Users, UserOK(u), Home(u) \in Conns, ClearList(Home(u))
  PROVE  UserOK(u)'
<1> DEFINE k == Home(u)
<1> USE DEF Polling, Chained, Running, Unjudged, Unproved
<1>1. File(k) \in Files /\ User(k) = u
  BY JobType DEF User, Home
<1>2. /\ job[k].pc = "clear" /\ job'[k].pc = "free" /\ Answer(k, "finished", job[k].ids)
      /\ UNCHANGED <<threads, disk, inbox, ledger>>
      /\ list' = [list EXCEPT ![u][File(k)] = <<>>]
  BY <1>1, ClearListEffect DEF net
<1>3. list'[u][File(k)] = <<>> /\ \A g \in Files : g # File(k) => list'[u][g] = list[u][g]
  BY <1>1, <1>2 DEF TypeOK
<1>4. /\ Asked(u, File(k)) /\ \A g \in Files : ~Asks(u, "isfin", g)
      /\ poll[u].file \in wait[u]
  BY <1>2 DEF UserOK, PollOK, Asked
<1>5. poll'[u].pc = "finished" /\ poll'[u].ids = job[k].ids /\ poll'[u].file = File(k)
  BY <1>2, <1>4, AnswerEffect DEF Asked
<1>6. job[k].ids = list[u][File(k)] /\ Len(list[u][File(k)]) = 3
  BY <1>2 DEF UserOK, StageOK
<1>7. /\ \A kind, g : Asks(u, kind, g)' <=> Asks(u, kind, g)
      /\ \A g : ~Chains(u, g) /\ ~Chains(u, g)' /\ ~Ended(u, g)
      /\ \A g : Ended(u, g)' <=> g = File(k)
      /\ \A ids, g : Entry(ids, u, g)' <=> Entry(ids, u, g)
  BY <1>2, <1>4, <1>5 DEF Asks, Chains, Ended, Asked, Entry
<1>8. ClicksOK(u)' /\ Once(inbox[Home(u)])' /\ LogOK(u)'
  BY <1>2, <1>7 DEF UserOK, ClicksOK, Writing, Once, LogOK
<1>9. PollOK(u)' /\ StageOK(u)'
  BY <1>1, <1>2, <1>4, <1>5, <1>7 DEF PollOK, Asked, StageOK
<1>10. ASSUME NEW g \in Files PROVE TurnOK(u, g)'
  <2>1. Taken(u, g)' <=> Taken(u, g)
    BY <1>2 DEF Taken
  <2>2. CASE g = File(k)
    <3>1. list[u][g] # <<>> /\ Entry(poll'[u].ids, u, g)
      <4>1. poll'[u].ids = list[u][g] /\ Len(list[u][g]) = 3
        BY <1>5, <1>6, <2>2
      <4>2. Entry(list[u][g], u, g)
        BY <4>1 DEF UserOK, TurnOK
      <4>3. list[u][g] # <<>>
        BY <4>1, Filled
      <4> QED BY <4>1, <4>2, <4>3
    <3>2. ~Asks(u, "publish", g)
      BY <3>1 DEF UserOK, TurnOK
    <3>3. Entry(poll[u].ids, u, g)'
      BY <1>2, <3>1 DEF Entry
    <3>4. list'[u][g] = <<>> /\ Len(list'[u][g]) # 3
      BY <1>3, <2>2
    <3> QED BY <1>7, <3>2, <3>3, <3>4 DEF TurnOK
  <2>3. CASE g # File(k)
    BY <1>3, <1>7, <2>1, <2>3 DEF UserOK, TurnOK
  <2> QED BY <2>2, <2>3
<1> QED BY <1>8, <1>9, <1>10 DEF UserOK

LEMMA LogInvServe ==
  ASSUME TypeOK, OneLine, LogInv, NEW k \in Conns, Serve(k) \/ Fail(k)
  PROVE  LogInv'
<1>1. PICK u \in Users : k = Home(u) /\ u = User(k)
  <2>1. job[k].pc = "free" => inbox[k] # <<>>
    BY HandlerFrame, ReceiveEffect
  <2>2. k[2] = 0
    BY <2>1, HandlerFrame, ReceiveEffect DEF OneLine
  <2> QED BY <2>2, OneHome, ConnUser
<1>2. UserOK(u) /\ Home(u) \in Conns /\ File(k) \in Files
  BY <1>1, JobType DEF LogInv
<1>3. ASSUME NEW v \in Users, v # u PROVE UserOK(v)'
  BY <1>1, <1>2, <1>3, ServeFrame, UserStays DEF LogInv
<1> SUFFICES UserOK(u)'
  BY <1>3 DEF LogInv
<1>4. CASE Receive(k) \/ ClearList(k)
  BY <1>1, <1>2, <1>4, LogInvReceive, LogInvClear
<1>5. CASE \/ PublishChall(k) \/ ReadExempt(k) \/ ReadBlocks(k) \/ PublishProof(k)
           \/ ReadMarks(k) \/ AddMarks(k) \/ SetExpire(k) \/ PublishResult(k)
  BY <1>1, <1>2, <1>5, LogInvMove
<1>6. CASE PushChallenge(k) \/ PushProof(k) \/ PushResult(k)
  BY <1>1, <1>2, <1>6, LogInvPush
<1>7. CASE ReadList(k)
  <2>1. job[k].pc = "range" /\ UNCHANGED <<threads, disk, inbox, ledger, list>>
    BY <1>7, ReadListEffect DEF net, redis
  <2>2. \/ job'[k].pc = "free" /\ Answer(k, "idle", <<>>)
        \/ /\ Len(list[u][File(k)]) = 3 /\ poll' = poll
           /\ job'[k].pc = "clear" /\ File(k)' = File(k) /\ job'[k].ids = list[u][File(k)]
    BY <1>7, <1>1, ReadListEffect DEF File
  <2> QED BY <1>1, <1>2, <2>1, <2>2, LogInvAnswer DEF Polling
<1>8. CASE Fail(k)
  <2>1. /\ job[k].pc # "free" /\ job'[k].pc = "free"
        /\ UNCHANGED <<threads, disk, inbox, ledger, list>>
        /\ IF job[k].pc \in {"range", "clear"} THEN Answer(k, "idle", <<>>) ELSE poll' = poll
    BY <1>8, FailEffect DEF net, redis
  <2>2. CASE job[k].pc \in Polling
    BY <1>1, <1>2, <2>1, <2>2, LogInvAnswer DEF Polling
  <2>3. CASE job[k].pc \notin Polling
    <3>1. job[k].pc \in Chained
      BY <2>1, <2>3, JobType DEF Jobs, JobPcs, Polling, Chained, Running, Unjudged, Unproved
    <3>2. StageOK(u)' /\ poll' = poll
      BY <1>1, <2>1, <2>3 DEF StageOK, Polling, Running, Unjudged, Unproved
    <3> QED BY <1>1, <1>2, <2>1, <3>1, <3>2, LogInvChain
  <2> QED BY <2>2, <2>3
<1> QED BY <1>4, <1>5, <1>6, <1>7, <1>8 DEF Serve

LEMMA LogInvNext ==
  ASSUME Faults \cap {"restart", "double"} = {}
  PROVE  TypeOK /\ OneLine /\ LogInv /\ [Next]_vars => LogInv'
<1> SUFFICES ASSUME TypeOK, OneLine, LogInv, [Next]_vars PROVE LogInv'
  OBVIOUS
<1>1. ASSUME NEW u \in Users PROVE ~Restart(u)
  BY DEF Restart, Fault
<1>2. ASSUME Damage \/ Finished \/ UNCHANGED vars \/ \E f \in Files : Expire(f)
      PROVE  LogInv'
  <2>1. UNCHANGED <<client, inbox, job, ledger, list>>
    BY <1>2 DEF Damage, Finished, Expire, vars, net, redis
  <2> QED BY <2>1, UserStays DEF LogInv, Untouched, client
<1> QED BY <1>1, <1>2, LogInvClient, LogInvServe DEF Next

\* What the log shows of an audit is its challenge, its proof and its verdict, in this order:
\* for any number of users, who may own the same files, with handlers that fail anywhere,
\* damaged blocks and shared sets that expire at any time, as long as no client restarts
\* and no user clicks again before the first click's wait file is there.
THEOREM AuditLogTriples ==
  ASSUME Faults \cap {"restart", "double"} = {}
  PROVE  Spec => []LogTriples
<1>1. TypeOK /\ OneLine /\ [Next]_vars => OneLine'
  BY OneLineNext
<1>2. TypeOK /\ OneLine /\ LogInv /\ [Next]_vars => LogInv'
  BY LogInvNext
<1>3. TypeOK /\ LogInv => LogTriples
  <2> SUFFICES ASSUME TypeOK, LogInv, NEW u \in Users, NEW e \in logs[u]
               PROVE  \E r \in ledger :
                        /\ r.kind = "result" /\ r.file = e.file /\ r.audit[1] = u
                        /\ e.ids = <<[Id(r) EXCEPT !.kind = "challenge"],
                                     [Id(r) EXCEPT !.kind = "proof"], Id(r)>>
    BY DEF LogTriples
  <2>1. PICK r \in ledger : /\ r.kind = "result" /\ r.file = e.file /\ r.audit[1] = u
                            /\ e.ids = Triple(r.audit)
    BY DEF LogInv, UserOK, LogOK, Entry
  <2>2. /\ Id(r) = [audit |-> r.audit, kind |-> "result"]
        /\ [Id(r) EXCEPT !.kind = "challenge"] = [audit |-> r.audit, kind |-> "challenge"]
        /\ [Id(r) EXCEPT !.kind = "proof"] = [audit |-> r.audit, kind |-> "proof"]
    BY <2>1 DEF Id
  <2> QED BY <2>1, <2>2 DEF Triple
<1> QED BY InitTypeOK, NextTypeOK, OneLineInit, LogInvInit, <1>1, <1>2, <1>3, PTL DEF Spec

----------------------------------------------------------------------------
(* With nothing under way, who waits has a whole list *)

Left(k) == Chall(k) \ marked[File(k)]

\* No handler has come upon one of the three exceptions of its own: all of the challenge exempt,
\* when the prover reads the shared set or when the verifier has, or a block file that is missing.
Unhindered ==
  \A k \in Conns :
    /\ At(k, "exempt") => Left(k) # {}
    /\ At(k, "read") => \A i \in job[k].kept : store[File(k)][i] # "missing"
    /\ At(k, "mark") => job[k].kept # {}

\* A file that waits, or that a thread is still at the wait file of, is on its way through the
\* queue and the handler, has its list, or has had it fetched, and then its wait file goes with
\* the poll but where the poll was early.
Due(u, f) == sent[u][f] > 0 \/ f \in wait[u] \/ Writing(u, f)
ReadEarly(u, f) == f \in early[u] /\ list[u][f] = <<>>
Settled(u, f) ==
  Due(u, f) => \/ Asks(u, "publish", f) \/ Chains(u, f) \/ Len(list[u][f]) = 3
               \/ Ended(u, f) \/ ReadEarly(u, f)
EarlyOK(u) ==
  \A f \in Files : poll[u].pc = "reading" /\ poll[u].file = f /\ Writing(u, f) => f \in early[u]
SettledInv == \A u \in Users : EarlyOK(u) /\ \A f \in Files : Settled(u, f)

LEMMA SettledInit == Init => SettledInv
<1> SUFFICES ASSUME Init, NEW u \in Users, NEW f \in Files PROVE ~Due(u, f) /\ ~Writing(u, f)
  BY DEF SettledInv, Settled, EarlyOK
<1> QED BY DEF Init, Due, Writing, WriteSteps

\* What is u's and does not change settles nothing anew.
LEMMA SettledStays ==
  ASSUME SettledInv, NEW u \in Users, early[u] \subseteq early'[u],
         UNCHANGED <<sent[u], writer[u], wait[u], poll[u], list[u], inbox[Home(u)], job[Home(u)]>>
  PROVE  EarlyOK(u)' /\ \A f \in Files : Settled(u, f)'
<1>1. \A f : Writing(u, f)' <=> Writing(u, f)
  BY DEF Writing
<1>2. EarlyOK(u)'
  BY <1>1 DEF SettledInv, EarlyOK
<1>3. ASSUME NEW f \in Files PROVE Settled(u, f)'
  BY <1>1 DEF SettledInv, Settled, Due, Asks, Chains, Ended, ReadEarly, File
<1> QED BY <1>2, <1>3

LEMMA AsksMore ==
  ASSUME TypeOK, OneLine, NEW u \in Users, NEW kind \in {"publish", "isfin"}, NEW f \in Files,
         Send(u, kind, f)
  PROVE  \A kd, g : Asks(u, kd, g)' <=> Asks(u, kd, g) \/ (kd = kind /\ g = f)
<1>1. LET q == inbox[Home(u)] IN
      /\ DOMAIN inbox'[Home(u)] = DOMAIN q \cup {Len(q) + 1}
      /\ inbox'[Home(u)][Len(q) + 1] = Req(kind, f)
      /\ \A i \in DOMAIN q : inbox'[Home(u)][i] = q[i]
  BY SendEffect, OneHome
<1>2. ASSUME NEW kd, NEW g PROVE Req(kd, g) = Req(kind, f) <=> kd = kind /\ g = f
  BY DEF Req
<1> QED BY <1>1, <1>2 DEF Asks

LEMMA EarlyGrows ==
  ASSUME TypeOK, NEW u \in Users, Submit(u) \/ Client(u)
  PROVE  \A v \in Users : early[v] \subseteq early'[v]
<1>1. CASE ReadDate(u)
  BY <1>1 DEF ReadDate, TypeOK
<1>2. CASE ~ReadDate(u)
  <2>1. early' = early
    BY <1>2, FillEffect DEF Submit, Client, DoAudit, HandleFin, Request, CreateWait, AskFin, WriteLog,
       DeleteWait, bounds
  <2> QED BY <2>1
<1> QED BY <1>1, <1>2

LEMMA SettledClient ==
  ASSUME TypeOK, OneLine, LogInv, SettledInv, NEW u \in Users, Submit(u) \/ Client(u)
  PROVE  SettledInv'
<1>0. /\ UserOK(u) /\ click \in [Users -> [Files -> Nat]] /\ sent \in [Users -> [Files -> Nat]]
      /\ wait \in [Users -> SUBSET Files] /\ poll \in [Users -> Polls]
  BY DEF LogInv, TypeOK, Polls
<1>e. early[u] \subseteq early'[u]
  BY EarlyGrows
<1>1. ASSUME NEW v \in Users, v # u PROVE EarlyOK(v)' /\ \A f \in Files : Settled(v, f)'
  BY <1>1, ClientFrame, EarlyGrows, SettledStays
<1> SUFFICES EarlyOK(u)' /\ \A f \in Files : Settled(u, f)'
  BY <1>1 DEF SettledInv
<1>2. /\ EarlyOK(u) /\ UNCHANGED <<job, list>>
      /\ \A f \in Files : /\ Settled(u, f) /\ (Chains(u, f)' <=> Chains(u, f))
                          /\ ReadEarly(u, f) => ReadEarly(u, f)'
  BY <1>e, ClientFrame DEF SettledInv, Chains, File, ReadEarly
<1>3. CASE Submit(u)
  <2>1. UNCHANGED <<sent, writer, wait, poll, inbox>>
    BY <1>3 DEF Submit, net
  <2> QED BY <1>e, <1>2, <2>1, SettledStays
<1>4. CASE Request(u)
  <2>1. PICK g \in Files : Send(u, "publish", g) /\ sent' = [sent EXCEPT ![u][g] = @ + 1]
    BY <1>4 DEF Request
  <2>2. UNCHANGED <<writer, wait, poll>>
    BY <1>4 DEF Request
  <2>3. \A f : Asks(u, "publish", g)' /\ (Asks(u, "publish", f) => Asks(u, "publish", f)')
    BY <2>1, AsksMore
  <2>4. \A f \in Files : f # g => sent'[u][f] = sent[u][f]
    BY <1>0, <2>1
  <2>5. \A f : Writing(u, f)' <=> Writing(u, f)
    BY <2>2 DEF Writing
  <2>6. EarlyOK(u)'
    BY <1>2, <1>e, <2>2, <2>5 DEF EarlyOK
  <2>7. ASSUME NEW f \in Files PROVE Settled(u, f)'
    BY <1>2, <2>2, <2>3, <2>4, <2>5 DEF Settled, Due, Ended
  <2> QED BY <2>6, <2>7
<1>5. CASE CreateWait(u)
  <2>1. PICK g \in Files :
          /\ sent[u][g] > 0 /\ sent' = [sent EXCEPT ![u][g] = @ - 1]
          /\ wait' = [wait EXCEPT ![u] = @ \cup {g}]
          /\ \A f \in Files : Writing(u, f)' => Writing(u, f) \/ f = g
    BY <1>5, WaitEffect
  <2>2. UNCHANGED <<poll, inbox>>
    BY <1>5 DEF CreateWait, net
  <2>3. poll[u].pc = "reading" => poll[u].file # g
    <3>1. click[u][g] \in Nat /\ sent[u][g] \in Nat
      BY <1>0
    <3>2. click[u][g] + sent[u][g] <= 1
      BY <1>0 DEF UserOK, ClicksOK
    <3>3. click[u][g] + sent[u][g] = 1
      BY <2>1, <3>1, <3>2
    <3>4. g \notin wait[u]
      BY <1>0, <3>3 DEF UserOK, ClicksOK
    <3> QED BY <1>0, <3>4 DEF UserOK, PollOK
  <2>4. EarlyOK(u)'
    BY <1>2, <1>e, <2>1, <2>2, <2>3 DEF EarlyOK
  <2>5. ASSUME NEW f \in Files PROVE Settled(u, f)'
    <3>1. Due(u, f)' => Due(u, f)
      BY <1>0, <2>1 DEF Due
    <3> QED BY <1>2, <2>2, <3>1 DEF Settled, Ended, Asks
  <2> QED BY <2>4, <2>5
<1>6. CASE FillWait(u)
  <2>1. /\ UNCHANGED <<sent, poll, inbox>>
        /\ \A f \in Files : Writing(u, f)' => Writing(u, f)
        /\ \A f \in Files : f \in wait'[u] => f \in wait[u] \/ Writing(u, f)
    BY <1>6, FillEffect
  <2>2. EarlyOK(u)'
    BY <1>2, <1>e, <2>1 DEF EarlyOK
  <2>3. ASSUME NEW f \in Files PROVE Settled(u, f)'
    <3>1. Due(u, f)' => Due(u, f)
      BY <2>1 DEF Due
    <3> QED BY <1>2, <2>1, <3>1 DEF Settled, Ended, Asks
  <2> QED BY <2>2, <2>3
<1>7. ASSUME NEW g \in Files, AskFin(u, g) PROVE EarlyOK(u)' /\ \A f \in Files : Settled(u, f)'
  <2>1. /\ poll[u].pc = "idle" /\ poll'[u].pc = "asked" /\ Send(u, "isfin", g)
        /\ UNCHANGED <<wait, sent, writer>>
    BY <1>0, <1>7 DEF AskFin, Quiet
  <2>2. EarlyOK(u)' /\ \A f \in Files : ~Ended(u, f)
    BY <2>1 DEF Ended, EarlyOK
  <2>3. \A f \in Files : Asks(u, "publish", f) => Asks(u, "publish", f)'
    BY <2>1, AsksMore
  <2>4. ASSUME NEW f \in Files PROVE Settled(u, f)'
    BY <1>2, <2>1, <2>2, <2>3 DEF Settled, Due, Writing
  <2> QED BY <2>2, <2>4
<1>8. CASE ReadDate(u) \/ WriteLog(u)
  <2>1. /\ poll[u].pc \in {"finished", "reading"} /\ poll'[u].pc = "reading"
        /\ poll'[u].file = poll[u].file /\ UNCHANGED <<threads, wait, inbox>>
    BY <1>8, ReadEffect
  <2>2. \A f : Writing(u, f)' <=> Writing(u, f)
    BY <2>1 DEF Writing
  <2>3. ASSUME NEW f \in Files, poll[u].file = f, Writing(u, f) PROVE f \in early'[u]
    <3>1. CASE ReadDate(u)
      BY <2>3, <3>1 DEF ReadDate, TypeOK
    <3>2. CASE WriteLog(u)
      BY <1>2, <1>e, <2>3, <3>2 DEF WriteLog, EarlyOK
    <3> QED BY <1>8, <3>1, <3>2
  <2>4. EarlyOK(u)'
    BY <2>1, <2>2, <2>3 DEF EarlyOK
  <2>5. ASSUME NEW f \in Files PROVE Settled(u, f)'
    BY <1>2, <2>1, <2>2 DEF Settled, Due, Ended, Asks
  <2> QED BY <2>4, <2>5
<1>9. CASE DeleteWait(u)
  <2>1. /\ UNCHANGED <<threads, inbox>> /\ poll[u].pc = "reading" /\ poll'[u].pc = "idle"
        /\ poll[u].file \in Files
        /\ wait'[u] = wait[u] \/ wait'[u] = wait[u] \ {poll[u].file}
        /\ ~Open(u, poll[u].file) => wait'[u] = wait[u] \ {poll[u].file}
    BY <1>0, <1>9 DEF DeleteWait, net, Polls, Quiet
  <2>2. \A f : Writing(u, f)' <=> Writing(u, f)
    BY <2>1 DEF Writing
  <2>3. PICK g \in Files : g = poll[u].file
    BY <2>1
  <2>4. sent[u][g] = 0
    <3>1. g \in wait[u]
      BY <1>0, <2>1, <2>3 DEF UserOK, PollOK
    <3>2. click[u][g] \in Nat /\ sent[u][g] \in Nat
      BY <1>0
    <3>3. click[u][g] + sent[u][g] <= 1 /\ click[u][g] + sent[u][g] # 1
      BY <1>0, <3>1 DEF UserOK, ClicksOK
    <3> QED BY <3>2, <3>3
  <2>5. Writing(u, g) => ReadEarly(u, g)
    <3>1. Ended(u, g)
      BY <2>1, <2>3 DEF Ended
    <3>2. list[u][g] = <<>>
      BY <1>0, <3>1 DEF UserOK, TurnOK
    <3> QED BY <1>2, <2>1, <2>3, <3>2 DEF EarlyOK, ReadEarly
  <2>6. ~Writing(u, g) => ~Due(u, g)'
    <3>1. ~Writing(u, g) => ~Open(u, g)
      BY DEF Writing, Open
    <3> QED BY <2>1, <2>2, <2>3, <2>4, <3>1 DEF Due
  <2>7. ASSUME NEW f \in Files PROVE Settled(u, f)'
    <3>1. CASE f = g
      BY <1>2, <2>5, <2>6, <3>1 DEF Settled
    <3>2. CASE f # g
      <4>1. ~Ended(u, f) /\ (Due(u, f)' => Due(u, f))
        BY <2>1, <2>2, <2>3, <3>2 DEF Due, Ended
      <4> QED BY <1>2, <2>1, <4>1 DEF Settled, Asks
    <3> QED BY <3>1, <3>2
  <2> QED BY <2>1, <2>7 DEF EarlyOK
<1> QED BY <1>3, <1>4, <1>5, <1>6, <1>7, <1>8, <1>9 DEF Client, DoAudit, HandleFin

\* Of the requests under way, the handler takes one.
LEMMA QueueKeeps ==
  ASSUME TypeOK, NEW u \in Users, Home(u) \in Conns, Receive(Home(u)), NEW f \in Files,
         Asks(u, "publish", f)
  PROVE  \/ Asks(u, "publish", f)'
         \/ Head(inbox[Home(u)]).kind = "publish" /\ Head(inbox[Home(u)]).file = f
<1> DEFINE q == inbox[Home(u)]
<1>0. inbox \in [Conns -> Seq(Requests)] /\ inbox[Home(u)] # <<>>
  BY ReceiveEffect DEF TypeOK, Requests
<1>1. q \in Seq(Requests) /\ q # <<>> /\ inbox'[Home(u)] = Tail(q)
  BY <1>0, ReceiveEffect
<1>2. PICK i \in DOMAIN q : q[i] = Req("publish", f)
  BY DEF Asks
<1>3. CASE i = 1
  BY <1>1, <1>2, <1>3 DEF Req
<1>4. CASE i # 1
  <2>1. i - 1 \in DOMAIN Tail(q) /\ Tail(q)[i - 1] = q[i]
    <3> HIDE DEF q
    <3> QED BY <1>1, <1>2, <1>4
  <2> QED BY <1>1, <1>2, <2>1 DEF Asks
<1> QED BY <1>3, <1>4

\* The steps of a chain that leave the lists alone.
LEMMA SettledMove ==
  ASSUME TypeOK, SettledInv, NEW u \in Users, Home(u) \in Conns,
         UNCHANGED <<wait, sent, writer, poll, inbox, list, early>>, job'[Home(u)].pc \in Chained,
         File(Home(u))' = File(Home(u)), NEW f \in Files
  PROVE  Settled(u, f)'
BY DEF SettledInv, Settled, Due, Writing, Asks, Chains, Ended, ReadEarly

LEMMA SettledPush ==
  ASSUME TypeOK, LogInv, SettledInv, NEW u \in Users, Home(u) \in Conns, NEW f \in Files,
         PushChallenge(Home(u)) \/ PushProof(Home(u)) \/ PushResult(Home(u))
  PROVE  Settled(u, f)'
<1> DEFINE k == Home(u)
<1> USE DEF Chained, Running, Unjudged, Unproved
<1>1. File(k) \in Files /\ User(k) = u /\ UserOK(u) /\ Settled(u, f)
  BY JobType DEF User, Home, LogInv, SettledInv
<1>2. ASSUME NEW id, Push(k, id)
      PROVE  /\ list'[u][File(k)] = Append(list[u][File(k)], id)
             /\ \A g \in Files : g # File(k) => list'[u][g] = list[u][g]
  BY <1>1, <1>2 DEF Push, TypeOK
<1>3. /\ UNCHANGED <<wait, sent, writer, poll, inbox, early>> /\ \E id : Push(k, id)
      /\ \/ job'[k].pc \in Chained /\ File(k)' = File(k)
         \/ job[k].pc = "pushResult" /\ job'[k].pc = "free"
  BY PushChallengeEffect, PushProofEffect, PushResultEffect DEF client, net, bounds, File
<1>4. /\ Due(u, f)' <=> Due(u, f)
      /\ Asks(u, "publish", f)' <=> Asks(u, "publish", f)
      /\ Ended(u, f)' <=> Ended(u, f)
  BY <1>3 DEF Due, Writing, Asks, Ended
<1>5. CASE f # File(k)
  BY <1>1, <1>2, <1>3, <1>4, <1>5 DEF Settled, Chains, ReadEarly
<1>6. CASE f = File(k) /\ job'[k].pc \in Chained /\ File(k)' = File(k)
  BY <1>6 DEF Settled, Chains
<1>7. CASE f = File(k) /\ job[k].pc = "pushResult"
  <2>1. list[u][f] = <<Triple(Audit(k))[1], Triple(Audit(k))[2]>>
    BY <1>1, <1>7 DEF UserOK, StageOK
  <2>2. list[u][f] \in Seq(Ids)
    BY DEF TypeOK
  <2>3. Len(list[u][f]) = 2
    BY <2>1
  <2>4. PICK id : list'[u][f] = Append(list[u][f], id)
    BY <1>2, <1>3, <1>7
  <2>5. Len(list'[u][f]) = 3
    BY <2>2, <2>3, <2>4
  <2> QED BY <2>5 DEF Settled
<1> QED BY <1>3, <1>5, <1>6, <1>7

LEMMA SettledFetch ==
  ASSUME TypeOK, OneLine, LogInv, SettledInv, NEW u \in Users, Home(u) \in Conns, NEW f \in Files,
         ReadList(Home(u)) \/ ClearList(Home(u))
  PROVE  Settled(u, f)'
<1> DEFINE k == Home(u)
<1>1. /\ File(k) \in Files /\ User(k) = u /\ UserOK(u) /\ Settled(u, f)
      /\ job[k].pc \in {"range", "clear"}
  BY JobType, ReadListEffect, ClearListEffect DEF User, Home, LogInv, SettledInv
<1>2. UNCHANGED <<wait, sent, writer, inbox, early>>
  BY ReadListEffect, ClearListEffect DEF net, bounds
<1>3. Asked(u, File(k)) /\ ~Ended(u, f) /\ ~Chains(u, f)
  BY <1>1 DEF UserOK, PollOK, Polling, Asked, Ended, Chains, Chained, Running, Unjudged, Unproved
<1>4. (Due(u, f)' <=> Due(u, f)) /\ (Asks(u, "publish", f)' <=> Asks(u, "publish", f))
  BY <1>2 DEF Due, Writing, Asks
<1>5. CASE ReadList(k)
  <2>1. list' = list
    BY <1>5, ReadListEffect DEF redis
  <2> QED BY <1>1, <1>2, <1>3, <1>4, <2>1 DEF Settled, ReadEarly
<1>6. CASE ClearList(k)
  <2>1. list' = [list EXCEPT ![u][File(k)] = <<>>] /\ Answer(k, "finished", job[k].ids)
    BY <1>1, <1>6, ClearListEffect
  <2>2. f = File(k) => Ended(u, f)'
    BY <1>3, <2>1, AnswerEffect DEF Asked, Ended
  <2>3. f # File(k) => list'[u][f] = list[u][f]
    BY <1>1, <2>1 DEF TypeOK
  <2> QED BY <1>1, <1>2, <1>3, <1>4, <2>2, <2>3 DEF Settled, ReadEarly
<1> QED BY <1>5, <1>6

LEMMA SettledServe ==
  ASSUME TypeOK, OneLine, LogInv, SettledInv, Unhindered, NEW k \in Conns, Serve(k)
  PROVE  SettledInv'
<1>1. PICK u \in Users : k = Home(u) /\ u = User(k)
  <2>1. job[k].pc = "free" => inbox[k] # <<>>
    BY HandlerFrame, ReceiveEffect
  <2>2. k[2] = 0
    BY <2>1, HandlerFrame, ReceiveEffect DEF OneLine
  <2> QED BY <2>2, OneHome, ConnUser
<1>0. UNCHANGED <<threads, disk, early>>
  BY HandlerFrame
<1>2. ASSUME NEW v \in Users, v # u PROVE EarlyOK(v)' /\ \A f \in Files : Settled(v, f)'
  BY <1>0, <1>1, <1>2, ServeFrame, SettledStays DEF Untouched
<1>e. EarlyOK(u)'
  <2>1. CASE UNCHANGED poll
    BY <1>0, <2>1 DEF SettledInv, EarlyOK, Writing
  <2>2. CASE \E pc \in {"idle", "finished"} : \E ids : Answer(k, pc, ids)
    <3>1. poll'[u] = poll[u] \/ poll'[u].pc \in {"idle", "finished"}
      BY <1>1, <2>2 DEF Answer, TypeOK
    <3> QED BY <1>0, <3>1 DEF SettledInv, EarlyOK, Writing
  <2>3. UNCHANGED poll \/ \E pc \in {"idle", "finished"} : \E ids : Answer(k, pc, ids)
    BY DEF Serve, Receive, PublishChall, PushChallenge, ReadExempt, ReadBlocks, PublishProof, ReadMarks,
       AddMarks, SetExpire, PublishResult, PushProof, PushResult, ReadList, ClearList, client
  <2> QED BY <2>1, <2>2, <2>3
<1> SUFFICES ASSUME NEW f \in Files PROVE Settled(u, f)'
  BY <1>2, <1>e DEF SettledInv
<1>3. CASE Receive(k)
  <2> DEFINE h == Head(inbox[k])
  <2>1. /\ job[k].pc = "free" /\ job'[k].pc = IF h.kind = "publish" THEN "publish" ELSE "range"
        /\ File(k)' = h.file /\ UNCHANGED <<wait, sent, writer, poll, list, early>>
    BY <1>3, ReceiveEffect DEF client, redis, bounds
  <2>2. Asks(u, "publish", f) => Asks(u, "publish", f)' \/ (h.kind = "publish" /\ h.file = f)
    BY <1>1, <1>3, QueueKeeps
  <2>3. ~Chains(u, f) /\ (h.kind = "publish" /\ h.file = f => Chains(u, f)')
    BY <1>1, <2>1 DEF Chains, Chained, Running, Unjudged, Unproved
  <2> QED BY <2>1, <2>2, <2>3 DEF SettledInv, Settled, Due, Writing, Ended, ReadEarly
<1>4. CASE PublishChall(k) \/ ReadExempt(k) \/ ReadBlocks(k) \/ PublishProof(k)
  <2>1. UNCHANGED <<wait, sent, writer, poll, inbox, list, early>>
    BY <1>4, PublishChallEffect, ReadExemptEffect, ReadBlocksEffect, PublishProofEffect
       DEF client, net, redis, bounds
  <2>2. job'[k].pc \in Chained /\ File(k)' = File(k)
    BY <1>4, PublishChallEffect, ReadExemptEffect, ReadBlocksEffect, PublishProofEffect
       DEF Unhindered, At, Left, File, Chained, Running, Unjudged, Unproved
  <2> QED BY <1>1, <2>1, <2>2, SettledMove
<1>5. CASE ReadMarks(k) \/ AddMarks(k) \/ SetExpire(k) \/ PublishResult(k)
  <2>1. UNCHANGED <<wait, sent, writer, poll, inbox, list, early>>
    BY <1>5, ReadMarksEffect, AddMarksEffect, SetExpireEffect, PublishResultEffect
       DEF client, net, redis, bounds
  <2>2. job'[k].pc \in Chained /\ File(k)' = File(k)
    BY <1>5, ReadMarksEffect, AddMarksEffect, SetExpireEffect, PublishResultEffect
       DEF Unhindered, At, File, Chained, Running, Unjudged, Unproved
  <2> QED BY <1>1, <2>1, <2>2, SettledMove
<1>6. CASE PushChallenge(k) \/ PushProof(k) \/ PushResult(k)
  BY <1>1, <1>6, SettledPush
<1>7. CASE ReadList(k) \/ ClearList(k)
  BY <1>1, <1>7, SettledFetch
<1> QED BY <1>3, <1>4, <1>5, <1>6, <1>7 DEF Serve

LEMMA SettledNext ==
  ASSUME Faults \cap {"fail", "restart", "double"} = {}
  PROVE  TypeOK /\ OneLine /\ LogInv /\ SettledInv /\ Unhindered /\ [Next]_vars => SettledInv'
<1> SUFFICES ASSUME TypeOK, OneLine, LogInv, SettledInv, Unhindered, [Next]_vars PROVE SettledInv'
  OBVIOUS
<1>1. /\ \A u \in Users : ~Restart(u)
      /\ \A k \in Conns : ~Fail(k)
  BY DEF Restart, Fail, Fault
<1>2. ASSUME Damage \/ Finished \/ UNCHANGED vars \/ \E f \in Files : Expire(f)
      PROVE  SettledInv'
  <2>1. UNCHANGED <<client, inbox, job, list, early>>
    BY <1>2 DEF Damage, Finished, Expire, vars, net, redis, bounds
  <2> QED BY <2>1, SettledStays DEF SettledInv, client
<1> QED BY <1>1, <1>2, SettledClient, SettledServe DEF Next

LEMMA SettledMeans == TypeOK /\ OneLine /\ LogInv /\ SettledInv => ListsSettled
<1> SUFFICES ASSUME TypeOK, OneLine, LogInv, SettledInv, AtRest, NEW u \in Users, NEW f \in Files
             PROVE  \/ Len(list[u][f]) = IF f \in wait[u] THEN 3 ELSE 0
                    \/ f \in wait[u] \cap early[u] /\ list[u][f] = <<>>
  BY DEF ListsSettled
<1>1. Home(u) \in Conns
  BY LineIsConn, OneHome
<1>2. /\ job[Home(u)].pc = "free" /\ inbox[Home(u)] = <<>> /\ poll[u].pc = "idle"
      /\ click[u][f] + sent[u][f] = 0
  BY <1>1 DEF AtRest, At
<1>3. ~Asks(u, "publish", f) /\ ~Chains(u, f) /\ ~Ended(u, f)
  BY <1>2 DEF Asks, Chains, Ended, Chained, Running, Unjudged, Unproved
<1>4. CASE f \in wait[u]
  BY <1>3, <1>4 DEF SettledInv, Settled, Due, ReadEarly
<1>5. CASE f \notin wait[u]
  <2>1. click[u][f] \in Nat /\ sent[u][f] \in Nat
    BY DEF TypeOK
  <2>2. ~Taken(u, f)
    BY <1>2, <1>5, <2>1 DEF Taken
  <2>3. list[u][f] = <<>>
    BY <1>5, <2>2, Untaken DEF LogInv
  <2> QED BY <1>5, <2>3
<1> QED BY <1>4, <1>5

\* A wait file does not stay for nothing: for any number of users, who may own the same files,
\* of audits, of blocks damaged and of sets that expire, with nothing under way the list of an
\* audit is there to be fetched, whole, for exactly the files that wait, but for a file whose wait
\* file a poll has read before it was written and closed; as long as no handler fails of itself,
\* and none comes upon a challenge that is exempt or a block file that is missing.
THEOREM AuditListsSettled ==
  ASSUME Faults \cap {"fail", "restart", "double"} = {}
  PROVE  Spec /\ []Unhindered => []ListsSettled
<1>1. TypeOK /\ OneLine /\ [Next]_vars => OneLine'
  BY OneLineNext
<1>2. TypeOK /\ OneLine /\ LogInv /\ [Next]_vars => LogInv'
  BY LogInvNext
<1>3. TypeOK /\ OneLine /\ LogInv /\ SettledInv /\ Unhindered /\ [Next]_vars => SettledInv'
  BY SettledNext
<1> QED BY InitTypeOK, NextTypeOK, OneLineInit, LogInvInit, SettledInit, SettledMeans,
           <1>1, <1>2, <1>3, PTL DEF Spec

Disjoint == \A u, v \in Users : u # v => Audited[u] \cap Audited[v] = {}

\* What is early in an audit of f, before the blocks of its challenge are marked.
BeforeMarks == {"publish", "push", "exempt", "read", "prove", "verify", "mark"}
Begun(u, f) == \/ click[u][f] > 0 \/ Asks(u, "publish", f)
               \/ job[Home(u)].pc \in BeforeMarks /\ File(Home(u)) = f

\* A user who audits once is the first to have blocks of the file marked.
FirstOK(u) ==
  /\ started[u] = 0 => \A f \in Files : ~Begun(u, f)
  /\ \A f \in Audited[u] : started[u] = 0 \/ Begun(u, f) => marked[f] = {}
DrawnOK(k) ==
  /\ job[k].pc \in Running => Chall(k) # {} /\ Chall(k) \subseteq Index(File(k))
  /\ At(k, "read") => job[k].kept \subseteq Chall(k)
  /\ At(k, "mark") => job[k].kept # {}
FirstInv == (\A u \in Users : FirstOK(u)) /\ \A k \in Conns : DrawnOK(k)
Stored == \A f \in Files : \A i \in Index(f) : store[f][i] = "good"

LEMMA FirstInit == Init => FirstInv /\ Stored
<1> SUFFICES ASSUME Init PROVE FirstInv /\ Stored
  OBVIOUS
<1>1. ASSUME NEW u \in Users PROVE FirstOK(u)
  <2>1. Home(u) \in Conns
    BY AuditAssumption DEF Home, Conns
  <2>2. \A f \in Files : ~Begun(u, f) /\ marked[f] = {}
    BY <2>1 DEF Init, Begun, Asks, Free, BeforeMarks
  <2> QED BY <2>2, AuditAssumption DEF FirstOK
<1>2. \A k \in Conns : DrawnOK(k)
  BY DEF Init, DrawnOK, Free, At, Running, Unjudged, Unproved
<1> QED BY <1>1, <1>2 DEF FirstInv, Init, Stored

LEMMA FirstStays ==
  ASSUME NEW u \in Users, FirstOK(u), started'[u] = started[u],
         \A f \in Files : Begun(u, f)' => Begun(u, f),
         \A f \in Audited[u] : marked'[f] \in {{}, marked[f]}
  PROVE  FirstOK(u)'
BY AuditAssumption DEF FirstOK

LEMMA EarlyStays ==
  ASSUME NEW u \in Users, UNCHANGED <<click[u], inbox[Home(u)], job[Home(u)]>>
  PROVE  \A f \in Files : Begun(u, f)' => Begun(u, f)
BY DEF Begun, Asks, File

LEMMA FirstClient ==
  ASSUME MaxAudits <= 1, TypeOK, OneLine, FirstInv, NEW u \in Users, Submit(u) \/ Client(u)
  PROVE  FirstInv'
<1>0. /\ click \in [Users -> [Files -> Nat]] /\ started \in [Users -> Nat]
      /\ MaxAudits \in Nat /\ FirstOK(u)
  BY AuditAssumption DEF TypeOK, FirstInv
<1>1. UNCHANGED <<job, marked>> /\ \A v \in Users : v # u => started'[v] = started[v]
  <2>1. UNCHANGED <<job, marked>>
    BY ClientApart
  <2>2. CASE Submit(u)
    BY <1>0, <2>1, <2>2 DEF Submit
  <2>3. CASE Client(u)
    BY <2>1, <2>3, FillEffect DEF Client, DoAudit, HandleFin, Request, CreateWait, AskFin, ReadDate, WriteLog,
       DeleteWait, bounds
  <2> QED BY <2>1, <2>2, <2>3
<1>2. ASSUME NEW v \in Users, v # u PROVE FirstOK(v)'
  <2>1. UNCHANGED <<click[v], inbox[Home(v)], job[Home(v)], started[v]>>
    BY <1>1, <1>2, ClientFrame
  <2> QED BY <1>1, <2>1, EarlyStays, FirstStays DEF FirstInv
<1>3. \A k \in Conns : DrawnOK(k)'
  BY <1>1 DEF FirstInv, DrawnOK, At, Chall, File
<1> SUFFICES FirstOK(u)'
  BY <1>2, <1>3 DEF FirstInv
<1>4. CASE Submit(u)
  <2>1. started[u] < MaxAudits /\ started' = [started EXCEPT ![u] = @ + 1]
    BY <1>4 DEF Submit
  <2>2. started[u] = 0 /\ started'[u] = 1
    <3>1. started[u] \in Nat /\ started[u] < 1
      BY <1>0, <2>1
    <3> QED BY <1>0, <2>1, <3>1
  <2> QED BY <1>0, <1>1, <2>2 DEF FirstOK
<1>5. CASE Request(u)
  <2>1. PICK g \in Files : /\ click[u][g] > 0 /\ click' = [click EXCEPT ![u][g] = @ - 1]
                           /\ Send(u, "publish", g)
    BY <1>5 DEF Request
  <2>2. \A f : Asks(u, "publish", f)' => Asks(u, "publish", f) \/ f = g
    BY <2>1, AsksMore
  <2>3. \A f \in Files : click'[u][f] > 0 => click[u][f] > 0
    BY <1>0, <2>1
  <2>4. \A f \in Files : Begun(u, f)' => Begun(u, f)
    BY <1>1, <2>1, <2>2, <2>3 DEF Begun, File
  <2>5. started' = started
    BY <1>5 DEF Request, bounds
  <2> QED BY <1>0, <1>1, <2>4, <2>5, FirstStays
<1>6. ASSUME NEW g \in Files, AskFin(u, g) PROVE FirstOK(u)'
  <2>1. Send(u, "isfin", g) /\ UNCHANGED <<click, started>>
    BY <1>6 DEF AskFin, bounds
  <2>2. \A f : Asks(u, "publish", f)' => Asks(u, "publish", f)
    BY <2>1, AsksMore
  <2>3. \A f \in Files : Begun(u, f)' => Begun(u, f)
    BY <1>1, <2>1, <2>2 DEF Begun, File
  <2> QED BY <1>0, <1>1, <2>1, <2>3, FirstStays
<1>7. CASE CreateWait(u) \/ FillWait(u) \/ HandleFin(u)
  <2>1. UNCHANGED <<click, inbox, started>>
    BY <1>7, FillEffect DEF CreateWait, HandleFin, ReadDate, WriteLog, DeleteWait, net, bounds
  <2> QED BY <1>0, <1>1, <2>1, EarlyStays, FirstStays
<1> QED BY <1>4, <1>5, <1>6, <1>7 DEF Client, DoAudit

\* What the handler's step does to its own part.
LEMMA DrawnServe ==
  ASSUME TypeOK, NEW k \in Conns, DrawnOK(k), Serve(k),
         job[k].pc = "verify" => marked[File(k)] = {}
  PROVE  DrawnOK(k)'
<1> USE DEF Running, Unjudged, Unproved
<1>1. CASE Receive(k) \/ PublishChall(k) \/ PushChallenge(k)
  BY <1>1, ReceiveEffect, PublishChallEffect, PushChallengeEffect DEF DrawnOK, At, Chall, File
<1>2. CASE ReadExempt(k) \/ ReadBlocks(k) \/ PublishProof(k)
  BY <1>2, ReadExemptEffect, ReadBlocksEffect, PublishProofEffect DEF DrawnOK, At, Chall, File
<1>3. CASE ReadMarks(k)
  BY <1>3, ReadMarksEffect DEF DrawnOK, At, Chall, File
<1>4. CASE AddMarks(k) \/ SetExpire(k) \/ PublishResult(k)
  BY <1>4, AddMarksEffect, SetExpireEffect, PublishResultEffect DEF DrawnOK, At, Chall, File
<1>5. CASE PushProof(k) \/ PushResult(k) \/ ReadList(k) \/ ClearList(k)
  BY <1>5, PushProofEffect, PushResultEffect, ReadListEffect, ClearListEffect
     DEF DrawnOK, At, Chall, File
<1> QED BY <1>1, <1>2, <1>3, <1>4, <1>5 DEF Serve

LEMMA FirstServe ==
  ASSUME Disjoint, TypeOK, OneLine, OwnFiles, LogInv, FirstInv, NEW k \in Conns, Serve(k)
  PROVE  FirstInv'
<1>1. PICK u \in Users : k = Home(u) /\ u = User(k)
  <2>1. job[k].pc = "free" => inbox[k] # <<>>
    BY HandlerFrame, ReceiveEffect
  <2>2. k[2] = 0
    BY <2>1, HandlerFrame, ReceiveEffect DEF OneLine
  <2> QED BY <2>2, OneHome, ConnUser
<1>2. /\ OthersStay(k) /\ UNCHANGED <<click, started>> /\ FirstOK(u) /\ UserOK(u)
      /\ \A v \in Users : v # u => UNCHANGED <<inbox[Home(v)], job[Home(v)]>>
      /\ job[k].pc # "free" => File(k) \in Audited[u] /\ File(k) \in Files
  BY <1>1, HandlerFrame, ServeFrame, JobType DEF FirstInv, LogInv, Untouched, OwnFiles
<1>3. \A f \in Files : marked'[f] = marked[f] \/ (AddMarks(k) /\ f = File(k))
  <2>1. CASE Receive(k) \/ PublishChall(k) \/ PushChallenge(k) \/ ReadExempt(k) \/ ReadBlocks(k)
    BY <2>1, ReceiveEffect, PublishChallEffect, PushChallengeEffect, ReadExemptEffect,
       ReadBlocksEffect DEF redis
  <2>2. CASE PublishProof(k) \/ ReadMarks(k) \/ SetExpire(k) \/ PublishResult(k)
    BY <2>2, PublishProofEffect, ReadMarksEffect, SetExpireEffect, PublishResultEffect DEF redis
  <2>3. CASE PushProof(k) \/ PushResult(k) \/ ReadList(k) \/ ClearList(k)
    BY <2>3, PushProofEffect, PushResultEffect, ReadListEffect, ClearListEffect DEF redis
  <2>4. CASE AddMarks(k)
    BY <2>4, AddMarksEffect DEF TypeOK
  <2> QED BY <2>1, <2>2, <2>3, <2>4 DEF Serve
<1>4. AddMarks(k) => job[k].pc = "mark"
  BY AddMarksEffect
<1>5. ASSUME NEW v \in Users, v # u PROVE FirstOK(v)'
  <2>1. \A f \in Audited[v] : f \in Files /\ marked'[f] = marked[f]
    BY <1>2, <1>3, <1>4, <1>5, AuditAssumption DEF Disjoint
  <2>2. \A f \in Files : Begun(v, f)' => Begun(v, f)
    BY <1>2, <1>5, EarlyStays
  <2> QED BY <1>2, <2>1, <2>2, FirstStays DEF FirstInv
<1>6. DrawnOK(k)'
  <2>1. job[k].pc = "verify" => Begun(u, File(k))
    BY <1>1 DEF Begun, BeforeMarks
  <2> QED BY <1>2, <2>1, DrawnServe DEF FirstOK, FirstInv
<1>7. \A e \in Conns : DrawnOK(e)'
  BY <1>2, <1>6 DEF FirstInv, OthersStay, DrawnOK, At, Chall, File
<1> SUFFICES FirstOK(u)'
  BY <1>5, <1>7 DEF FirstInv
<1>8. \A f \in Files : Begun(u, f)' => Begun(u, f)
  <2>1. CASE Receive(k)
    <3>1. /\ job'[k].pc = IF Head(inbox[k]).kind = "publish" THEN "publish" ELSE "range"
          /\ File(k)' = Head(inbox[k]).file
      BY <2>1, ReceiveEffect
    <3>2. /\ Asks(u, Head(inbox[k]).kind, Head(inbox[k]).file)
          /\ \A f : Asks(u, "publish", f)' => Asks(u, "publish", f)
      BY <1>1, <1>2, <2>1, QueueTake DEF UserOK
    <3> QED BY <1>1, <1>2, <3>1, <3>2 DEF Begun, BeforeMarks
  <2>2. CASE ~Receive(k)
    <3>1. inbox' = inbox
      BY <2>2, HandlerFrame
    <3>2. job'[k].pc \in BeforeMarks => job[k].pc \in BeforeMarks /\ File(k)' = File(k)
      <4>1. CASE PublishChall(k) \/ PushChallenge(k) \/ ReadExempt(k) \/ ReadBlocks(k)
                 \/ PublishProof(k) \/ ReadMarks(k)
        BY <4>1, PublishChallEffect, PushChallengeEffect, ReadExemptEffect, ReadBlocksEffect,
           PublishProofEffect, ReadMarksEffect DEF BeforeMarks, File
      <4>2. CASE AddMarks(k) \/ SetExpire(k) \/ PublishResult(k) \/ PushProof(k) \/ PushResult(k)
        BY <4>2, AddMarksEffect, SetExpireEffect, PublishResultEffect, PushProofEffect,
           PushResultEffect DEF BeforeMarks
      <4>3. CASE ReadList(k) \/ ClearList(k)
        BY <4>3, ReadListEffect, ClearListEffect DEF BeforeMarks
      <4> QED BY <2>2, <4>1, <4>2, <4>3 DEF Serve
    <3> QED BY <1>1, <1>2, <3>1, <3>2 DEF Begun, Asks
  <2> QED BY <2>1, <2>2
<1>9. CASE ~AddMarks(k)
  <2>1. \A f \in Audited[u] : marked'[f] = marked[f]
    BY <1>3, <1>9, AuditAssumption
  <2> QED BY <1>2, <1>8, <2>1, FirstStays
<1>10. CASE AddMarks(k)
  <2>1. Begun(u, File(k)) /\ Chains(u, File(k)) /\ File(k) \in Files
    BY <1>1, <1>2, <1>4, <1>10
       DEF Begun, Chains, BeforeMarks, Chained, Running, Unjudged, Unproved
  <2>2. started'[u] # 0
    BY <1>2, <2>1 DEF FirstOK
  <2>3. click[u][File(k)] = 0 /\ ~Asks(u, "publish", File(k))
    BY <1>2, <2>1 DEF UserOK, TurnOK, Taken
  <2>4. job'[k].pc \notin BeforeMarks /\ inbox' = inbox
    BY <1>10, AddMarksEffect DEF BeforeMarks, net
  <2>5. ASSUME NEW f \in Audited[u], Begun(u, f)' PROVE marked'[f] = {}
    <3>1. f \in Files
      BY AuditAssumption
    <3>2. f # File(k)
      BY <1>1, <1>2, <2>3, <2>4, <2>5 DEF Begun, Asks
    <3> QED BY <1>2, <1>3, <1>8, <2>5, <3>1, <3>2 DEF FirstOK
  <2> QED BY <2>2, <2>5 DEF FirstOK
<1> QED BY <1>9, <1>10

LEMMA FirstNext ==
  ASSUME Disjoint, MaxAudits <= 1, Faults \subseteq {"expiry"}
  PROVE  /\ TypeOK /\ OneLine /\ OwnFiles /\ LogInv /\ FirstInv /\ [Next]_vars => FirstInv'
         /\ Stored /\ [Next]_vars => Stored'
<1>1. /\ \A u \in Users : ~Restart(u)
      /\ \A k \in Conns : ~Fail(k)
      /\ ~Damage
  BY DEF Restart, Fail, Damage, Fault
<1>2. ASSUME TypeOK, OneLine, OwnFiles, LogInv, FirstInv, [Next]_vars PROVE FirstInv'
  <2>1. ASSUME Finished \/ UNCHANGED vars \/ \E f \in Files : Expire(f) PROVE FirstInv'
    <3>1. UNCHANGED <<click, inbox, job, started>>
      BY <2>1 DEF Finished, Expire, vars, client, net, bounds
    <3>2. \A f \in Files : marked'[f] \in {{}, marked[f]}
      <4>1. ASSUME NEW g \in Files, Expire(g) PROVE \A f \in Files : marked'[f] \in {{}, marked[f]}
        BY <1>2, <4>1 DEF Expire, TypeOK
      <4>2. CASE Finished \/ UNCHANGED vars
        BY <4>2 DEF Finished, vars, redis
      <4> QED BY <2>1, <4>1, <4>2
    <3>3. ASSUME NEW u \in Users PROVE FirstOK(u)'
      <4>1. FirstOK(u) /\ \A f \in Files : Begun(u, f)' => Begun(u, f)
        BY <1>2, <3>1, EarlyStays DEF FirstInv
      <4>2. \A f \in Audited[u] : marked'[f] \in {{}, marked[f]}
        BY <3>2, AuditAssumption
      <4> QED BY <3>1, <4>1, <4>2, FirstStays
    <3>4. \A k \in Conns : DrawnOK(k)'
      BY <1>2, <3>1 DEF FirstInv, DrawnOK, At, Chall, File
    <3> QED BY <3>3, <3>4 DEF FirstInv
  <2> QED BY <1>1, <1>2, <2>1, FirstClient, FirstServe DEF Next
<1>3. ASSUME Stored, [Next]_vars PROVE Stored'
  <2>1. store' = store
    BY <1>1, <1>3, ClientApart DEF Next, Serve, Receive, PublishChall, PushChallenge, ReadExempt, ReadBlocks, PublishProof, ReadMarks,
       AddMarks, SetExpire, PublishResult, PushProof, PushResult, ReadList, ClearList,
       Expire, Finished, vars
  <2> QED BY <1>3, <2>1 DEF Stored
<1> QED BY <1>2, <1>3

LEMMA FirstUnhindered ==
  TypeOK /\ OneLine /\ OwnFiles /\ FirstInv /\ Stored => Unhindered
<1> SUFFICES ASSUME TypeOK, OneLine, OwnFiles, FirstInv, Stored, NEW k \in Conns
             PROVE  /\ At(k, "exempt") => Left(k) # {}
                    /\ At(k, "read") => \A i \in job[k].kept : store[File(k)][i] # "missing"
                    /\ At(k, "mark") => job[k].kept # {}
  BY DEF Unhindered
<1>1. DrawnOK(k) /\ File(k) \in Files
  BY JobType DEF FirstInv
<1>2. ASSUME At(k, "exempt") PROVE Left(k) # {}
  <2>1. k[2] = 0
    BY <1>2 DEF OneLine, At
  <2>2. k = Home(User(k)) /\ User(k) \in Users /\ File(k) \in Audited[User(k)]
    BY <1>2, <2>1, OneHome, ConnUser DEF OwnFiles, At
  <2>3. marked[File(k)] = {}
    BY <1>2, <2>2 DEF FirstInv, FirstOK, Begun, BeforeMarks, At
  <2>4. Chall(k) # {}
    BY <1>1, <1>2 DEF DrawnOK, At, Running, Unjudged, Unproved
  <2> QED BY <2>3, <2>4 DEF Left
<1>3. At(k, "read") => \A i \in job[k].kept : store[File(k)][i] # "missing"
  BY <1>1 DEF DrawnOK, Stored, At, Running, Unjudged, Unproved
<1> QED BY <1>1, <1>2, <1>3 DEF DrawnOK

\* ... and none does where each file is one user's, who audits it once, and no block is lost: for
\* any number of users and files, though a set may expire at any time, the lists settle.  It is the
\* second audit of a file within two hours that may find its whole challenge exempt.
THEOREM AuditOnceSettles ==
  ASSUME Disjoint, MaxAudits <= 1, Faults \subseteq {"expiry"}
  PROVE  Spec => []ListsSettled
<1>1. Faults \cap {"fail", "restart", "double"} = {}
  OBVIOUS
<1>2. Spec /\ []Unhindered => []ListsSettled
  BY <1>1, AuditListsSettled
<1>3. TypeOK /\ OneLine /\ [Next]_vars => OneLine'
  BY <1>1, OneLineNext
<1>4. TypeOK /\ OwnFiles /\ [Next]_vars => OwnFiles'
  BY <1>1, OwnFilesNext
<1>5. TypeOK /\ OneLine /\ LogInv /\ [Next]_vars => LogInv'
  BY <1>1, LogInvNext
<1>6. /\ TypeOK /\ OneLine /\ OwnFiles /\ LogInv /\ FirstInv /\ [Next]_vars => FirstInv'
      /\ Stored /\ [Next]_vars => Stored'
  BY FirstNext
<1>7. Spec => []Unhindered
  BY InitTypeOK, NextTypeOK, OneLineInit, OwnFilesInit, LogInvInit, FirstInit, FirstUnhindered,
     <1>3, <1>4, <1>5, <1>6, PTL DEF Spec
<1> QED BY <1>2, <1>7, PTL
=============================================================================
