---------------------------- MODULE DedupProofs ----------------------------
(***************************************************************************)
(* Theorems about Dedup, for every set of clients, files and tags.  The    *)
(* first ones hold in every schema, whatever the faults and however the    *)
(* clients interleave, among them that Dedup implements Ledger; the last   *)
(* ones, about clients that take turns, where deleting a files row deletes *)
(* its other rows and only rsync may fail.                                 *)
(***************************************************************************)
EXTENDS Dedup, FiniteSetTheorems, TLAPS

----------------------------------------------------------------------------
(* Helpers: the types of what the actions assign to job and read from files *)

LEMMA IdleIsJob == Idle \in Job
<1>1. (CHOOSE f \in Files : TRUE) \in Files
  BY DedupAssumption
<1>2. (CHOOSE T \in Tags : TRUE) \in Tags
  BY DedupAssumption
<1> QED BY <1>1, <1>2 DEF Idle, Job, Pcs, NULL

LEMMA PcType ==
  ASSUME NEW j \in Job, NEW pc \in Pcs
  PROVE  [j EXCEPT !.pc = pc] \in Job
BY DEF Job

LEMMA BecomeType ==
  ASSUME TypeOK, NEW c \in Clients, NEW j \in Job, Become(c, j)
  PROVE  job' \in [Clients -> Job]
BY DEF TypeOK, Become

LEMMA JobType == ASSUME TypeOK, NEW c \in Clients PROVE job[c] \in Job
BY DEF TypeOK

LEMMA GotoType ==
  ASSUME TypeOK, NEW c \in Clients, NEW pc \in Pcs, Goto(c, pc)
  PROVE  job' \in [Clients -> Job]
BY PcType, JobType, BecomeType DEF Goto

LEMMA HangType ==
  ASSUME TypeOK, NEW c \in Clients, Hang(c)
  PROVE  job' \in [Clients -> Job]
<1>1. "hung" \in Pcs
  BY DEF Pcs
<1>2. [Idle EXCEPT !.pc = "hung"] \in Job
  BY <1>1, PcType, IdleIsJob
<1> QED BY <1>2, BecomeType DEF Hang

\* An action that changes no store but moves a client keeps the types.
LEMMA KeepTypeOK ==
  ASSUME TypeOK, UNCHANGED <<db, disk, counter, ledger, local>>,
         job' \in [Clients -> Job], started' \in [Clients -> Nat],
         faults' \in [FaultKinds -> Nat]
  PROVE  TypeOK'
BY DEF TypeOK, db, disk

LEMMA FaultType ==
  ASSUME TypeOK, NEW kind, Fault(kind)
  PROVE  faults' \in [FaultKinds -> Nat]
BY DedupAssumption DEF TypeOK, Fault

\* The subquery for a file's id yields NULL or an id.
LEMMA FileIdType ==
  ASSUME TypeOK, NEW f \in Files
  PROVE  FileId(f) \in Nat
<1>1. CASE FileRows(f) = {}
  BY <1>1 DEF FileId, NULL
<1>2. CASE FileRows(f) # {}
  <2>1. (CHOOSE r \in FileRows(f) : TRUE) \in FileRows(f)
    BY <1>2
  <2> QED BY <1>2, <2>1 DEF FileId, FileRows, TypeOK, Ids
<1> QED BY <1>1, <1>2

----------------------------------------------------------------------------
(* Type correctness *)

LEMMA InitTypeOK == Init => TypeOK
BY IdleIsJob, FS_EmptySet DEF Init, TypeOK, Ids, NULL

LEMMA StartTypeOK ==
  ASSUME TypeOK, NEW c \in Clients, NEW j \in Job, Start(c, j)
  PROVE  TypeOK'
<1>1. job' \in [Clients -> Job]
  BY BecomeType DEF Start
<1>2. started' \in [Clients -> Nat]
  BY DEF Start, TypeOK
<1>3. faults' \in [FaultKinds -> Nat]
  BY DEF Start, TypeOK
<1> QED BY <1>1, <1>2, <1>3, KeepTypeOK DEF Start

LEMMA BeginTypeOK ==
  ASSUME TypeOK, NEW c \in Clients, Begin(c)
  PROVE  TypeOK'
<1>1. CASE StartUpload(c)
  <2>1. PICK f \in Wanted[c] : Start(c, [Idle EXCEPT !.pc = "count", !.file = f])
    BY <1>1 DEF StartUpload
  <2>2. f \in Files
    BY DedupAssumption
  <2>3. [Idle EXCEPT !.pc = "count", !.file = f] \in Job
    BY <2>2, IdleIsJob DEF Job, Pcs
  <2> QED BY <2>1, <2>3, StartTypeOK
<1>2. CASE StartDelete(c)
  <2>1. PICK r \in local[c] :
          Start(c, [Idle EXCEPT !.pc = "read", !.file = r.flag, !.upid = r.upid])
    BY <1>2 DEF StartDelete
  <2>2. r.flag \in Files /\ r.upid \in Nat
    BY DEF TypeOK
  <2>3. [Idle EXCEPT !.pc = "read", !.file = r.flag, !.upid = r.upid] \in Job
    BY <2>2, IdleIsJob DEF Job, Pcs
  <2> QED BY <2>1, <2>3, StartTypeOK
<1>3. CASE StartDownload(c)
  <2>1. PICK r \in local[c] : Start(c, [Idle EXCEPT !.pc = "lookup", !.file = r.flag])
    BY <1>3 DEF StartDownload
  <2>2. r.flag \in Files
    BY DEF TypeOK
  <2>3. [Idle EXCEPT !.pc = "lookup", !.file = r.flag] \in Job
    BY <2>2, IdleIsJob DEF Job, Pcs
  <2> QED BY <2>1, <2>3, StartTypeOK
<1> QED BY <1>1, <1>2, <1>3 DEF Begin

LEMMA CountBlocksTypeOK ==
  ASSUME TypeOK, NEW c \in Clients, CountBlocks(c)
  PROVE  TypeOK'
<1> DEFINE n == Cardinality(RowsOf(Flag(c)))
<1>1. n \in Nat
  BY FS_Subset, FS_CardinalityType DEF TypeOK, RowsOf
<1>2. CASE Hang(c)
  BY <1>2, HangType DEF CountBlocks, TypeOK, db, disk, bounds
<1>3. CASE Goto(c, "insert")
  <2>1. "insert" \in Pcs
    BY DEF Pcs
  <2>2. job' \in [Clients -> Job]
    BY <1>3, <2>1, GotoType
  <2> QED BY <2>2 DEF CountBlocks, TypeOK, db, disk, bounds
<1>4. CASE \E S \in (SUBSET (0 .. n - 1)) \ {{}} :
             Become(c, [job[c] EXCEPT !.pc = "prove", !.todo = S])
  <2>1. PICK S \in SUBSET (0 .. n - 1) :
          Become(c, [job[c] EXCEPT !.pc = "prove", !.todo = S])
    BY <1>4
  <2>2. S \subseteq Nat
    BY <1>1, <2>1
  <2>3. \A j \in Job : [j EXCEPT !.pc = "prove", !.todo = S] \in Job
    BY <2>2 DEF Job, Pcs
  <2>4. job' \in [Clients -> Job]
    BY <2>1, <2>3, JobType, BecomeType
  <2> QED BY <2>4 DEF CountBlocks, TypeOK, db, disk, bounds
<1> QED BY <1>2, <1>3, <1>4 DEF CountBlocks

LEMMA NextBlockType ==
  ASSUME TypeOK, NEW c \in Clients
  PROVE  NextBlock(c) \in Job
<1>1. ASSUME NEW j \in Job PROVE [j EXCEPT !.pc = "send", !.idx = @ + 1] \in Job
  <2>1. j.idx + 1 \in Nat /\ "send" \in Pcs
    BY DEF Job, Pcs
  <2> QED BY <2>1 DEF Job
<1> QED BY <1>1, JobType DEF NextBlock

LEMMA BlockTypeOK ==
  ASSUME TypeOK, NEW c \in Clients,
         \/ InsertFile(c) \/ TestTag(c) \/ OpenBlock(c) \/ WriteBlock(c)
         \/ StoreDetail(c) \/ GetCounter(c) \/ SetCounter(c)
  PROVE  TypeOK'
<1> DEFINE f == Flag(c)
<1>f. f \in Files /\ job[c] \in Job
  BY JobType DEF Flag, Job
<1>1. CASE InsertFile(c)
  <2>1. job' \in [Clients -> Job]
    BY <1>1, GotoType, HangType DEF InsertFile, Pcs
  <2>2. /\ files' \subseteq [id : Ids, flag : Files]
        /\ nextId' \in [files : Ids, details : Ids, owners : Ids, upid : Ids]
    BY <1>1, <1>f DEF InsertFile, TypeOK, Ids, NULL
  <2> QED BY <1>1, <2>1, <2>2 DEF InsertFile, TypeOK, disk, bounds
<1>2. CASE TestTag(c)
  <2> DEFINE T == Content[f][job[c].idx + 1]
  <2>1. T \in Tags
    BY <1>2, <1>f, DedupAssumption DEF TestTag, Job
  <2>2. \A j \in Job, pc \in Pcs : [j EXCEPT !.tag = T, !.pc = pc] \in Job
    BY <2>1 DEF Job
  <2>3. job' \in [Clients -> Job]
    BY <1>2, <1>f, <2>2, BecomeType DEF TestTag, Pcs
  <2> QED BY <1>2, <2>3, KeepTypeOK DEF TestTag, TypeOK, bounds
<1>3. CASE OpenBlock(c)
  <2>1. job' \in [Clients -> Job]
    BY <1>3, GotoType DEF OpenBlock, Pcs
  <2>2. block' \in [Tags -> {"absent", "truncated", "whole"}]
    BY <1>3, <1>f DEF OpenBlock, TypeOK
  <2> QED BY <1>3, <2>1, <2>2 DEF OpenBlock, TypeOK, db, bounds
<1>4. CASE WriteBlock(c)
  <2>1. job' \in [Clients -> Job]
    BY <1>4, GotoType DEF WriteBlock, Pcs
  <2>2. block' \in [Tags -> {"absent", "truncated", "whole"}]
    BY <1>4, <1>f DEF WriteBlock, TypeOK
  <2> QED BY <1>4, <2>1, <2>2 DEF WriteBlock, TypeOK, db, bounds
<1>5. CASE StoreDetail(c)
  <2>1. job' \in [Clients -> Job]
    BY <1>5, GotoType, BecomeType, NextBlockType DEF StoreDetail, Pcs
  <2>2. NewRow(c) \in [id : Ids, fileid : Nat, index : Nat, tag : Tags]
    BY <1>f, FileIdType DEF NewRow, TypeOK, Job
  <2>3. /\ details' \subseteq [id : Ids, fileid : Nat, index : Nat, tag : Tags]
        /\ nextId' \in [files : Ids, details : Ids, owners : Ids, upid : Ids]
    BY <1>5, <2>2 DEF StoreDetail, TypeOK, Ids, NULL
  <2>4. IsFiniteSet(details')
    BY <1>5, FS_AddElement DEF StoreDetail, TypeOK
  <2> QED BY <1>5, <2>1, <2>3, <2>4 DEF StoreDetail, TypeOK, disk, bounds
<1>6. CASE GetCounter(c)
  <2>1. \A j \in Job : [j EXCEPT !.pc = "setCounter", !.num = counter[f]] \in Job
    BY <1>f DEF Job, Pcs, TypeOK
  <2>2. job' \in [Clients -> Job]
    BY <1>6, <1>f, <2>1, BecomeType DEF GetCounter
  <2> QED BY <1>6, <2>2, KeepTypeOK DEF GetCounter, TypeOK, bounds
<1>7. CASE SetCounter(c)
  <2>1. \A j \in Job : [j EXCEPT !.num = 0] \in Job
    BY DEF Job
  <2>2. job' \in [Clients -> Job]
    BY <1>7, <2>1, NextBlockType, BecomeType DEF SetCounter
  <2>3. counter' \in [Files -> Nat]
    BY <1>7, <1>f DEF SetCounter, TypeOK, Job
  <2> QED BY <1>7, <2>2, <2>3 DEF SetCounter, TypeOK, db, disk, bounds
<1> QED BY <1>1, <1>2, <1>3, <1>4, <1>5, <1>6, <1>7

LEMMA RsyncTypeOK ==
  ASSUME TypeOK, NEW c \in Clients, NEW from, NEW to \in Pcs, Rsync(c, from, to)
  PROVE  TypeOK'
<1>1. job' \in [Clients -> Job]
  BY GotoType DEF Rsync
<1>2. faults' \in [FaultKinds -> Nat]
  BY FaultType DEF Rsync, TypeOK
<1>3. backup' \subseteq Tags
  BY DEF Rsync, TypeOK
<1> QED BY <1>1, <1>2, <1>3 DEF Rsync, TypeOK, db

LEMMA FinishTypeOK ==
  ASSUME TypeOK, NEW c \in Clients,
         \/ AddOwner(c) \/ RsyncUpload(c) \/ FetchCounter(c) \/ ClearCounter(c)
         \/ CreateFileAsset(c) \/ RecordUpload(c) \/ VerifyProof(c) \/ IsOwner(c)
  PROVE  TypeOK'
<1> DEFINE f == Flag(c)
<1>f. f \in Files /\ job[c] \in Job
  BY JobType DEF Flag, Job
<1>1. CASE AddOwner(c)
  <2>1. job' \in [Clients -> Job]
    BY <1>1, GotoType, HangType DEF AddOwner, Pcs
  <2>2. /\ owners' \subseteq [id : Ids, fileid : Nat, user : Clients]
        /\ nextId' \in [files : Ids, details : Ids, owners : Ids, upid : Ids]
    BY <1>1, <1>f, FileIdType DEF AddOwner, TypeOK, Ids, NULL
  <2> QED BY <1>1, <2>1, <2>2 DEF AddOwner, TypeOK, disk, bounds
<1>2. CASE RsyncUpload(c)
  <2>1. "fetch" \in Pcs
    BY DEF Pcs
  <2> QED BY <1>2, <2>1, RsyncTypeOK DEF RsyncUpload
<1>3. CASE FetchCounter(c)
  <2>1. \A j \in Job, pc \in Pcs : [j EXCEPT !.num = counter[f], !.pc = pc] \in Job
    BY <1>f DEF Job, TypeOK
  <2>2. job' \in [Clients -> Job]
    BY <1>3, <1>f, <2>1, BecomeType DEF FetchCounter, Pcs
  <2> QED BY <1>3, <2>2, KeepTypeOK DEF FetchCounter, TypeOK, bounds
<1>4. CASE ClearCounter(c)
  <2>1. job' \in [Clients -> Job]
    BY <1>4, GotoType DEF ClearCounter, Pcs
  <2>2. counter' \in [Files -> Nat]
    BY <1>4, <1>f DEF ClearCounter, TypeOK
  <2> QED BY <1>4, <2>1, <2>2 DEF ClearCounter, TypeOK, db, disk, bounds
<1>5. CASE CreateFileAsset(c)
  <2>1. \A j \in Job : [j EXCEPT !.pc = "record", !.upid = nextId.upid] \in Job
    BY DEF Job, Pcs, TypeOK, Ids
  <2>2. job' \in [Clients -> Job]
    BY <1>5, <1>f, <2>1, BecomeType, GotoType, HangType DEF CreateFileAsset, Pcs
  <2>3. /\ ledger' \subseteq [upid : Ids, flag : Files, user : Clients]
        /\ nextId' \in [files : Ids, details : Ids, owners : Ids, upid : Ids]
    BY <1>5, <1>f DEF CreateFileAsset, TypeOK, Ids, NULL
  <2>4. faults' \in [FaultKinds -> Nat]
    BY <1>5, FaultType DEF CreateFileAsset, TypeOK
  <2> QED BY <1>5, <2>2, <2>3, <2>4 DEF CreateFileAsset, TypeOK, disk
<1>6. CASE RecordUpload(c)
  <2>1. job' \in [Clients -> Job]
    BY <1>6, IdleIsJob, BecomeType DEF RecordUpload
  <2>2. local' \in [Clients -> SUBSET [flag : Files, upid : Nat]]
    BY <1>6, <1>f DEF RecordUpload, Record, TypeOK, Job
  <2> QED BY <1>6, <2>1, <2>2 DEF RecordUpload, TypeOK, db, disk, bounds
<1>7. CASE VerifyProof(c)
  <2>1. \A j \in Job : [j EXCEPT !.pc = "isOwner", !.todo = {}] \in Job
    BY DEF Job, Pcs
  <2>2. job' \in [Clients -> Job]
    BY <1>7, <1>f, <2>1, IdleIsJob, BecomeType, HangType DEF VerifyProof
  <2> QED BY <1>7, <2>2, KeepTypeOK DEF VerifyProof, TypeOK, bounds
<1>8. CASE IsOwner(c)
  <2>1. job' \in [Clients -> Job]
    BY <1>8, IdleIsJob, BecomeType, GotoType, HangType DEF IsOwner, Pcs
  <2> QED BY <1>8, <2>1, KeepTypeOK DEF IsOwner, TypeOK, bounds
<1> QED BY <1>1, <1>2, <1>3, <1>4, <1>5, <1>6, <1>7, <1>8

LEMMA NoUseTagType == ASSUME TypeOK, NEW fid PROVE NoUseTag(fid) \subseteq Nat
BY DEF NoUseTag, TypeOK, Ids

LEMMA DeleteTypeOK ==
  ASSUME TypeOK, NEW c \in Clients, Delete(c)
  PROVE  TypeOK'
<1> DEFINE f == Flag(c)
<1>f. f \in Files /\ job[c] \in Job
  BY JobType DEF Flag, Job
<1>1. CASE ReadFileAsset(c)
  <2>1. job' \in [Clients -> Job]
    BY <1>1, IdleIsJob, BecomeType, GotoType, HangType DEF ReadFileAsset, Pcs
  <2>2. faults' \in [FaultKinds -> Nat]
    BY <1>1, FaultType DEF ReadFileAsset, TypeOK
  <2> QED BY <1>1, <2>1, <2>2, KeepTypeOK DEF ReadFileAsset, TypeOK
<1>2. CASE DeleteOwner(c)
  <2>1. job' \in [Clients -> Job]
    BY <1>2, GotoType, HangType DEF DeleteOwner, Pcs
  <2> QED BY <1>2, <2>1 DEF DeleteOwner, TypeOK, disk, bounds
<1>3. CASE HasOwner(c)
  <2>1. job' \in [Clients -> Job]
    BY <1>3, GotoType, HangType DEF HasOwner, Pcs
  <2> QED BY <1>3, <2>1, KeepTypeOK DEF HasOwner, TypeOK, bounds
<1>4. CASE GetFileId(c)
  <2>1. \A j \in Job : [j EXCEPT !.pc = "noUseTag", !.num = FileId(f)] \in Job
    BY <1>f, FileIdType DEF Job, Pcs
  <2>2. job' \in [Clients -> Job]
    BY <1>4, <1>f, <2>1, BecomeType, HangType DEF GetFileId
  <2> QED BY <1>4, <2>2, KeepTypeOK DEF GetFileId, TypeOK, bounds
<1>5. CASE GetNoUseTag(c)
  <2> DEFINE S == NoUseTag(job[c].num)
  <2>1. S \subseteq Nat
    BY NoUseTagType
  <2>2. \A j \in Job : [j EXCEPT !.pc = "unlink", !.num = 0, !.todo = S] \in Job
    BY <2>1 DEF Job, Pcs
  <2>3. job' \in [Clients -> Job]
    BY <1>5, <1>f, <2>2, BecomeType DEF GetNoUseTag
  <2> QED BY <1>5, <2>3, KeepTypeOK DEF GetNoUseTag, TypeOK, bounds
<1>6. CASE UnlinkBlock(c)
  <2>1. PICK id \in job[c].todo :
          IF \E d \in details : d.id = id
            THEN /\ \E d \in details :
                      d.id = id /\ block' = [block EXCEPT ![d.tag] = "absent"]
                 /\ Become(c, [job[c] EXCEPT !.todo = @ \ {id}])
            ELSE Hang(c) /\ UNCHANGED block
    BY <1>6 DEF UnlinkBlock
  <2>2. \A j \in Job : [j EXCEPT !.todo = @ \ {id}] \in Job
    BY DEF Job
  <2>3. job' \in [Clients -> Job]
    BY <2>1, <1>f, <2>2, BecomeType, HangType
  <2>4. block' \in [Tags -> {"absent", "truncated", "whole"}]
    BY <2>1 DEF TypeOK
  <2> QED BY <1>6, <2>3, <2>4 DEF UnlinkBlock, TypeOK, db, bounds
<1>7. CASE DeleteFile(c)
  <2>1. job' \in [Clients -> Job]
    BY <1>7, GotoType DEF DeleteFile, Pcs
  <2>2. files' \subseteq files /\ details' \subseteq details /\ owners' \subseteq owners
    BY <1>7 DEF DeleteFile
  <2>3. IsFiniteSet(details')
    BY <2>2, FS_Subset DEF TypeOK
  <2> QED BY <1>7, <2>1, <2>2, <2>3 DEF DeleteFile, TypeOK, disk, bounds
<1>8. CASE RsyncDelete(c)
  <2>1. "deleteAsset" \in Pcs
    BY DEF Pcs
  <2> QED BY <1>8, <2>1, RsyncTypeOK DEF RsyncDelete
<1>9. CASE DeleteAsset(c)
  <2>1. job' \in [Clients -> Job]
    BY <1>9, GotoType, HangType DEF DeleteAsset, Pcs
  <2>2. faults' \in [FaultKinds -> Nat]
    BY <1>9, FaultType DEF DeleteAsset, TypeOK
  <2>3. ledger' \subseteq ledger
    BY <1>9 DEF DeleteAsset
  <2> QED BY <1>9, <2>1, <2>2, <2>3 DEF DeleteAsset, TypeOK, db, disk
<1>10. CASE ForgetUpload(c)
  <2>1. job' \in [Clients -> Job]
    BY <1>10, IdleIsJob, BecomeType DEF ForgetUpload
  <2>2. local' \in [Clients -> SUBSET [flag : Files, upid : Nat]]
    BY <1>10 DEF ForgetUpload, TypeOK
  <2> QED BY <1>10, <2>1, <2>2 DEF ForgetUpload, TypeOK, db, disk, bounds
<1> QED BY <1>1, <1>2, <1>3, <1>4, <1>5, <1>6, <1>7, <1>8, <1>9, <1>10 DEF Delete

LEMMA DownloadTypeOK ==
  ASSUME TypeOK, NEW c \in Clients, Download(c)
  PROVE  TypeOK'
<1>f. job[c] \in Job
  BY JobType
<1>1. CASE LookupBlock(c)
  <2>1. \A j \in Job, d \in details : [j EXCEPT !.pc = "fetchBlock", !.tag = d.tag] \in Job
    BY DEF Job, Pcs, TypeOK
  <2>2. RowsAt(Flag(c), job[c].idx) \subseteq details
    BY DEF RowsAt
  <2>3. job' \in [Clients -> Job]
    BY <1>1, <1>f, <2>1, <2>2, BecomeType, GotoType, HangType DEF LookupBlock, Pcs
  <2> QED BY <1>1, <2>3, KeepTypeOK DEF LookupBlock, TypeOK, bounds
<1>2. CASE FetchBlock(c)
  <2>1. ASSUME NEW j \in Job PROVE [j EXCEPT !.pc = "lookup", !.idx = @ + 1] \in Job
    <3>1. j.idx + 1 \in Nat /\ "lookup" \in Pcs
      BY DEF Job, Pcs
    <3> QED BY <3>1 DEF Job
  <2>2. job' \in [Clients -> Job]
    BY <1>2, <1>f, <2>1, IdleIsJob, BecomeType, HangType DEF FetchBlock
  <2> QED BY <1>2, <2>2, KeepTypeOK DEF FetchBlock, TypeOK, bounds
<1>3. CASE FinishDownload(c)
  <2>1. job' \in [Clients -> Job]
    BY <1>3, IdleIsJob, BecomeType DEF FinishDownload
  <2> QED BY <1>3, <2>1, KeepTypeOK DEF FinishDownload, TypeOK, bounds
<1> QED BY <1>1, <1>2, <1>3 DEF Download

LEMMA FaultTypeOK ==
  ASSUME TypeOK, Crash \/ \E c \in Clients : GiveUp(c) \/ Abort(c)
  PROVE  TypeOK'
<1>1. CASE Crash
  <2>1. [Idle EXCEPT !.pc = "hung"] \in Job
    BY PcType, IdleIsJob DEF Pcs
  <2>2. job' \in [Clients -> Job]
    BY <1>1, <2>1 DEF Crash, TypeOK
  <2>3. faults' \in [FaultKinds -> Nat]
    BY <1>1, FaultType DEF Crash
  <2> QED BY <1>1, <2>2, <2>3, KeepTypeOK DEF Crash, TypeOK
<1>2. ASSUME NEW c \in Clients, GiveUp(c) PROVE TypeOK'
  <2>1. job' \in [Clients -> Job]
    BY <1>2, IdleIsJob, BecomeType DEF GiveUp
  <2> QED BY <1>2, <2>1, KeepTypeOK DEF GiveUp, TypeOK, bounds
<1>3. ASSUME NEW c \in Clients, Abort(c) PROVE TypeOK'
  <2>1. job' \in [Clients -> Job]
    BY <1>3, IdleIsJob, BecomeType DEF Abort
  <2>2. faults' \in [FaultKinds -> Nat]
    BY <1>3, FaultType DEF Abort
  <2> QED BY <1>3, <2>1, <2>2, KeepTypeOK DEF Abort, TypeOK
<1> QED BY <1>1, <1>2, <1>3

LEMMA NextTypeOK == TypeOK /\ [Next]_vars => TypeOK'
<1> SUFFICES ASSUME TypeOK, [Next]_vars PROVE TypeOK'
  OBVIOUS
<1>1. CASE UNCHANGED vars
  BY <1>1 DEF TypeOK, vars, db, disk, bounds
<1>2. CASE Crash \/ \E c \in Clients : GiveUp(c) \/ Abort(c)
  BY <1>2, FaultTypeOK
<1>3. CASE \E c \in Clients : Begin(c)
  BY <1>3, BeginTypeOK
<1>4. CASE \E c \in Clients : Upload(c)
  BY <1>4, CountBlocksTypeOK, BlockTypeOK, FinishTypeOK DEF Upload
<1>5. CASE \E c \in Clients : Delete(c)
  BY <1>5, DeleteTypeOK
<1>6. CASE \E c \in Clients : Download(c)
  BY <1>6, DownloadTypeOK
<1> QED BY <1>1, <1>2, <1>3, <1>4, <1>5, <1>6 DEF Next, Finished, Step

\* The tables, the stores and the handlers' locals always have their types.
THEOREM TypeCorrect == Spec => []TypeOK
BY InitTypeOK, NextTypeOK, PTL DEF Spec

----------------------------------------------------------------------------
(* What a step does to the clients' jobs *)

OnlyMoves(c) == \A e \in Clients : e # c => job'[e] = job[e]

LEMMA BecomeEffect ==
  ASSUME TypeOK, NEW c \in Clients, NEW j, Become(c, j)
  PROVE  OnlyMoves(c) /\ job'[c] = j
BY DEF TypeOK, Become, OnlyMoves

LEMMA GotoEffect ==
  ASSUME TypeOK, NEW c \in Clients, NEW pc, Goto(c, pc)
  PROVE  OnlyMoves(c) /\ job'[c].pc = pc
<1>1. OnlyMoves(c) /\ job'[c] = [job[c] EXCEPT !.pc = pc]
  BY BecomeEffect DEF Goto
<1>2. \A j \in Job : [j EXCEPT !.pc = pc].pc = pc
  BY DEF Job
<1> QED BY <1>1, <1>2, JobType

LEMMA HangEffect ==
  ASSUME TypeOK, NEW c \in Clients, Hang(c)
  PROVE  OnlyMoves(c) /\ job'[c].pc = "hung"
<1>1. OnlyMoves(c) /\ job'[c] = [Idle EXCEPT !.pc = "hung"]
  BY BecomeEffect DEF Hang
<1> QED BY <1>1, IdleIsJob DEF Job

\* The states in which a handler has chosen the tag of the block it is to file.
RowPcs == {"open", "write", "detail", "link"}

\* A step of c, and only of c, that leaves c with no block in hand; c enters a
\* delete only when it may.
Quiet(c) ==
  /\ OnlyMoves(c)
  /\ job[c].pc # "write" /\ job'[c].pc \notin RowPcs
  /\ job'[c].pc \in DeletePcs => c \in Deleters \/ job[c].pc \in DeletePcs
  /\ faults'["crash"] = faults["crash"]

LEMMA OtherFault ==
  ASSUME TypeOK, NEW kind, Fault(kind), kind # "crash"
  PROVE  faults'["crash"] = faults["crash"]
BY DEF TypeOK, Fault, FaultKinds

LEMMA QuietStart ==
  ASSUME TypeOK, NEW c \in Clients, Begin(c)
  PROVE  Quiet(c)
<1>1. \A f : [Idle EXCEPT !.pc = "count", !.file = f].pc = "count"
  BY IdleIsJob DEF Job
<1>2. \A f, u : [Idle EXCEPT !.pc = "read", !.file = f, !.upid = u].pc = "read"
  BY IdleIsJob DEF Job
<1>3. \A f : [Idle EXCEPT !.pc = "lookup", !.file = f].pc = "lookup"
  BY IdleIsJob DEF Job
<1>4. CASE StartUpload(c)
  BY <1>4, <1>1, BecomeEffect DEF StartUpload, Start, At, Quiet, RowPcs, DeletePcs
<1>5. CASE StartDelete(c)
  <2>1. PICK r \in local[c] :
          Start(c, [Idle EXCEPT !.pc = "read", !.file = r.flag, !.upid = r.upid])
    BY <1>5 DEF StartDelete
  <2>2. /\ At(c, "idle") /\ faults' = faults
        /\ Become(c, [Idle EXCEPT !.pc = "read", !.file = r.flag, !.upid = r.upid])
    BY <2>1 DEF Start
  <2>3. OnlyMoves(c) /\ job'[c] = [Idle EXCEPT !.pc = "read", !.file = r.flag, !.upid = r.upid]
    BY <2>2, BecomeEffect
  <2>4. job'[c].pc = "read"
    BY <2>3, <1>2
  <2> QED BY <1>5, <2>2, <2>3, <2>4 DEF StartDelete, At, Quiet, RowPcs
<1>6. CASE StartDownload(c)
  BY <1>6, <1>3, BecomeEffect DEF StartDownload, Start, At, Quiet, RowPcs, DeletePcs
<1> QED BY <1>4, <1>5, <1>6 DEF Begin

LEMMA QuietUpload ==
  ASSUME TypeOK, NEW c \in Clients,
         Upload(c), ~TestTag(c), ~OpenBlock(c), ~WriteBlock(c)
  PROVE  Quiet(c)
<1>j. job[c] \in Job
  BY JobType
<1>i. Idle.pc = "idle"
  BY DEF Idle
<1>n. NextBlock(c).pc = "send" /\ [NextBlock(c) EXCEPT !.num = 0].pc = "send"
  <2>1. \A j \in Job : \A n : [j EXCEPT !.pc = "send", !.idx = n].pc = "send"
    BY DEF Job
  <2>2. \A j \in Job : [j EXCEPT !.num = 0].pc = j.pc
    BY DEF Job
  <2> QED BY <1>j, <2>1, <2>2, NextBlockType DEF NextBlock
<1>1. CASE CountBlocks(c)
  <2>1. \A S : [job[c] EXCEPT !.pc = "prove", !.todo = S].pc = "prove"
    BY <1>j DEF Job
  <2>f. job[c].pc = "count" /\ faults' = faults
    BY <1>1 DEF CountBlocks, At, bounds
  <2>2. CASE Hang(c) \/ Goto(c, "insert")
    BY <2>f, <2>2, GotoEffect, HangEffect DEF Quiet, RowPcs, DeletePcs
  <2>3. CASE \E S \in (SUBSET (0 .. Cardinality(RowsOf(Flag(c))) - 1)) \ {{}} :
               Become(c, [job[c] EXCEPT !.pc = "prove", !.todo = S])
    <3>1. PICK S : Become(c, [job[c] EXCEPT !.pc = "prove", !.todo = S])
      BY <2>3
    <3>2. OnlyMoves(c) /\ job'[c] = [job[c] EXCEPT !.pc = "prove", !.todo = S]
      BY <3>1, BecomeEffect
    <3>3. job'[c].pc = "prove"
      BY <2>1, <3>2
    <3> QED BY <2>f, <3>2, <3>3 DEF Quiet, RowPcs, DeletePcs
  <2> QED BY <1>1, <2>2, <2>3 DEF CountBlocks
<1>2. CASE InsertFile(c)
  <2>1. OnlyMoves(c) /\ job'[c].pc \in {"hung", "send"}
    BY <1>2, GotoEffect, HangEffect DEF InsertFile
  <2> QED BY <1>2, <2>1 DEF InsertFile, At, Quiet, RowPcs, DeletePcs, bounds
<1>3. CASE StoreDetail(c)
  <2>1. OnlyMoves(c) /\ job'[c].pc \in {"getCounter", "send"}
    BY <1>3, <1>n, GotoEffect, BecomeEffect DEF StoreDetail
  <2> QED BY <1>3, <2>1 DEF StoreDetail, ReadyForRow, Quiet, RowPcs, DeletePcs, bounds
<1>4. CASE GetCounter(c)
  <2>1. \A n : [job[c] EXCEPT !.pc = "setCounter", !.num = n].pc = "setCounter"
    BY <1>j DEF Job
  <2>2. /\ OnlyMoves(c)
        /\ job'[c] = [job[c] EXCEPT !.pc = "setCounter", !.num = counter[Flag(c)]]
    BY <1>4, BecomeEffect DEF GetCounter
  <2>3. job'[c].pc = "setCounter"
    BY <2>1, <2>2
  <2> QED BY <1>4, <2>2, <2>3 DEF GetCounter, At, Quiet, RowPcs, DeletePcs, bounds
<1>5. CASE SetCounter(c)
  <2>1. OnlyMoves(c) /\ job'[c].pc = "send"
    BY <1>5, <1>n, BecomeEffect DEF SetCounter
  <2> QED BY <1>5, <2>1 DEF SetCounter, At, Quiet, RowPcs, DeletePcs, bounds
<1>6. CASE AddOwner(c)
  <2>1. OnlyMoves(c) /\ job'[c].pc \in {"rsync", "createProven", "record", "hung"}
    BY <1>6, GotoEffect, HangEffect DEF AddOwner
  <2> QED BY <1>6, <2>1 DEF AddOwner, At, Quiet, RowPcs, DeletePcs, bounds
<1>7. CASE RsyncUpload(c)
  <2>1. OnlyMoves(c) /\ job'[c].pc = "fetch"
    BY <1>7, GotoEffect DEF RsyncUpload, Rsync
  <2> QED BY <1>7, <2>1, OtherFault DEF RsyncUpload, Rsync, At, Quiet, RowPcs, DeletePcs
<1>8. CASE FetchCounter(c)
  <2> DEFINE pc == IF counter[Flag(c)] = 0 THEN "create" ELSE "clear"
  <2>1. \A n, p : [job[c] EXCEPT !.num = n, !.pc = p].pc = p
    BY <1>j DEF Job
  <2>2. OnlyMoves(c) /\ job'[c] = [job[c] EXCEPT !.num = counter[Flag(c)], !.pc = pc]
    BY <1>8, BecomeEffect DEF FetchCounter
  <2>3. job'[c].pc \in {"create", "clear"}
    BY <2>1, <2>2
  <2> QED BY <1>8, <2>2, <2>3 DEF FetchCounter, At, Quiet, RowPcs, DeletePcs, bounds
<1>9. CASE ClearCounter(c)
  <2>1. OnlyMoves(c) /\ job'[c].pc = "create"
    BY <1>9, GotoEffect DEF ClearCounter
  <2> QED BY <1>9, <2>1 DEF ClearCounter, At, Quiet, RowPcs, DeletePcs, bounds
<1>10. CASE CreateFileAsset(c)
  <2>1. \A u : [job[c] EXCEPT !.pc = "record", !.upid = u].pc = "record"
    BY <1>j DEF Job
  <2>f. faults'["crash"] = faults["crash"] /\ job[c].pc \in {"create", "createProven"}
    BY <1>10, OtherFault DEF CreateFileAsset
  <2>2. CASE Goto(c, "record") \/ Hang(c)
    BY <2>f, <2>2, GotoEffect, HangEffect DEF Quiet, RowPcs, DeletePcs
  <2>3. CASE Become(c, [job[c] EXCEPT !.pc = "record", !.upid = nextId.upid])
    <3>1. OnlyMoves(c) /\ job'[c] = [job[c] EXCEPT !.pc = "record", !.upid = nextId.upid]
      BY <2>3, BecomeEffect
    <3>2. job'[c].pc = "record"
      BY <2>1, <3>1
    <3> QED BY <2>f, <3>1, <3>2 DEF Quiet, RowPcs, DeletePcs
  <2> QED BY <1>10, <2>2, <2>3 DEF CreateFileAsset
<1>11. CASE RecordUpload(c)
  <2>1. OnlyMoves(c) /\ job'[c].pc = "idle"
    BY <1>11, <1>i, BecomeEffect DEF RecordUpload
  <2> QED BY <1>11, <2>1 DEF RecordUpload, At, Quiet, RowPcs, DeletePcs, bounds
<1>12. CASE VerifyProof(c)
  <2>1. [job[c] EXCEPT !.pc = "isOwner", !.todo = {}].pc = "isOwner"
    BY <1>j DEF Job
  <2>2. CASE Become(c, Idle) \/ Hang(c)
    BY <1>12, <2>2, <1>i, BecomeEffect, HangEffect
       DEF VerifyProof, At, Quiet, RowPcs, DeletePcs, bounds
  <2>3. CASE Become(c, [job[c] EXCEPT !.pc = "isOwner", !.todo = {}])
    <3>1. OnlyMoves(c) /\ job'[c] = [job[c] EXCEPT !.pc = "isOwner", !.todo = {}]
      BY <2>3, BecomeEffect
    <3>2. job'[c].pc = "isOwner"
      BY <2>1, <3>1
    <3> QED BY <1>12, <3>1, <3>2 DEF VerifyProof, At, Quiet, RowPcs, DeletePcs, bounds
  <2> QED BY <1>12, <2>2, <2>3 DEF VerifyProof
<1>13. CASE IsOwner(c)
  <2>1. OnlyMoves(c) /\ job'[c].pc \in {"idle", "hung", "enrol"}
    BY <1>13, <1>i, BecomeEffect, GotoEffect, HangEffect DEF IsOwner
  <2> QED BY <1>13, <2>1 DEF IsOwner, At, Quiet, RowPcs, DeletePcs, bounds
<1> QED BY <1>1, <1>2, <1>3, <1>4, <1>5, <1>6, <1>7, <1>8, <1>9, <1>10, <1>11, <1>12, <1>13
        DEF Upload

LEMMA QuietDelete ==
  ASSUME TypeOK, NEW c \in Clients, Delete(c)
  PROVE  Quiet(c) /\ job[c].pc \in DeletePcs
<1>j. job[c] \in Job
  BY JobType
<1>i. Idle.pc = "idle"
  BY DEF Idle
<1> SUFFICES /\ OnlyMoves(c) /\ job'[c].pc \notin RowPcs
             /\ job[c].pc \in DeletePcs
             /\ faults'["crash"] = faults["crash"]
  BY DEF Quiet, DeletePcs
<1>1. CASE ReadFileAsset(c)
  <2>1. OnlyMoves(c) /\ job'[c].pc \in {"hung", "disown", "idle"}
    BY <1>1, <1>i, BecomeEffect, GotoEffect, HangEffect DEF ReadFileAsset
  <2>2. job[c].pc = "read" /\ faults'["crash"] = faults["crash"]
    BY <1>1, OtherFault DEF ReadFileAsset, At
  <2> QED BY <2>1, <2>2 DEF RowPcs, DeletePcs
<1>2. CASE DeleteOwner(c)
  <2>1. OnlyMoves(c) /\ job'[c].pc \in {"hung", "hasOwner"}
    BY <1>2, GotoEffect, HangEffect DEF DeleteOwner
  <2> QED BY <1>2, <2>1 DEF DeleteOwner, At, RowPcs, DeletePcs, bounds
<1>3. CASE HasOwner(c)
  <2>1. OnlyMoves(c) /\ job'[c].pc \in {"hung", "fileId", "rsyncDelete"}
    BY <1>3, GotoEffect, HangEffect DEF HasOwner
  <2> QED BY <1>3, <2>1 DEF HasOwner, At, RowPcs, DeletePcs, bounds
<1>4. CASE GetFileId(c)
  <2>1. \A n : [job[c] EXCEPT !.pc = "noUseTag", !.num = n].pc = "noUseTag"
    BY <1>j DEF Job
  <2>2. job[c].pc = "fileId" /\ faults' = faults
    BY <1>4 DEF GetFileId, At, bounds
  <2>3. CASE Hang(c)
    BY <2>2, <2>3, HangEffect DEF RowPcs, DeletePcs
  <2>4. CASE Become(c, [job[c] EXCEPT !.pc = "noUseTag", !.num = FileId(Flag(c))])
    <3>1. OnlyMoves(c) /\ job'[c] = [job[c] EXCEPT !.pc = "noUseTag", !.num = FileId(Flag(c))]
      BY <2>4, BecomeEffect
    <3>2. job'[c].pc = "noUseTag"
      BY <2>1, <3>1
    <3> QED BY <2>2, <3>1, <3>2 DEF RowPcs, DeletePcs
  <2> QED BY <1>4, <2>3, <2>4 DEF GetFileId
<1>5. CASE GetNoUseTag(c)
  <2> DEFINE S == NoUseTag(job[c].num)
  <2>1. [job[c] EXCEPT !.pc = "unlink", !.num = 0, !.todo = S].pc = "unlink"
    BY <1>j DEF Job
  <2>2. job[c].pc = "noUseTag" /\ faults' = faults
    BY <1>5 DEF GetNoUseTag, At, bounds
  <2>3. OnlyMoves(c) /\ job'[c] = [job[c] EXCEPT !.pc = "unlink", !.num = 0, !.todo = S]
    BY <1>5, BecomeEffect DEF GetNoUseTag
  <2>4. job'[c].pc = "unlink"
    BY <2>1, <2>3
  <2> QED BY <2>2, <2>3, <2>4 DEF RowPcs, DeletePcs
<1>6. CASE UnlinkBlock(c)
  <2>1. job[c].pc = "unlink" /\ faults' = faults
    BY <1>6 DEF UnlinkBlock, At, bounds
  <2>2. \A S : [job[c] EXCEPT !.todo = S].pc = job[c].pc
    BY <1>j DEF Job
  <2>3. PICK id \in job[c].todo :
          Hang(c) \/ Become(c, [job[c] EXCEPT !.todo = @ \ {id}])
    BY <1>6 DEF UnlinkBlock
  <2>4. OnlyMoves(c) /\ job'[c].pc \in {"hung", "unlink"}
    BY <2>1, <2>2, <2>3, BecomeEffect, HangEffect
  <2> QED BY <2>1, <2>4 DEF RowPcs, DeletePcs
<1>7. CASE DeleteFile(c)
  <2>1. OnlyMoves(c) /\ job'[c].pc = "rsyncDelete"
    BY <1>7, GotoEffect DEF DeleteFile
  <2> QED BY <1>7, <2>1 DEF DeleteFile, At, RowPcs, DeletePcs, bounds
<1>8. CASE RsyncDelete(c)
  <2>1. OnlyMoves(c) /\ job'[c].pc = "deleteAsset"
    BY <1>8, GotoEffect DEF RsyncDelete, Rsync
  <2>2. job[c].pc = "rsyncDelete" /\ faults'["crash"] = faults["crash"]
    BY <1>8, OtherFault DEF RsyncDelete, Rsync, At
  <2> QED BY <2>1, <2>2 DEF RowPcs, DeletePcs
<1>9. CASE DeleteAsset(c)
  <2>1. OnlyMoves(c) /\ job'[c].pc \in {"hung", "forget"}
    BY <1>9, GotoEffect, HangEffect DEF DeleteAsset
  <2>2. job[c].pc = "deleteAsset" /\ faults'["crash"] = faults["crash"]
    BY <1>9, OtherFault DEF DeleteAsset, At
  <2> QED BY <2>1, <2>2 DEF RowPcs, DeletePcs
<1>10. CASE ForgetUpload(c)
  BY <1>10, <1>i, BecomeEffect DEF ForgetUpload, At, RowPcs, DeletePcs, bounds
<1> QED BY <1>1, <1>2, <1>3, <1>4, <1>5, <1>6, <1>7, <1>8, <1>9, <1>10 DEF Delete

LEMMA QuietRest ==
  ASSUME TypeOK, NEW c \in Clients, Download(c) \/ GiveUp(c) \/ Abort(c)
  PROVE  Quiet(c)
<1>j. job[c] \in Job
  BY JobType
<1>i. Idle.pc = "idle"
  BY DEF Idle
<1>1. CASE LookupBlock(c)
  <2>1. \A T : [job[c] EXCEPT !.pc = "fetchBlock", !.tag = T].pc = "fetchBlock"
    BY <1>j DEF Job
  <2>2. job[c].pc = "lookup" /\ faults' = faults
    BY <1>1 DEF LookupBlock, At, bounds
  <2>3. CASE Hang(c) \/ Goto(c, "downloaded")
    BY <2>2, <2>3, GotoEffect, HangEffect DEF Quiet, RowPcs, DeletePcs
  <2>4. CASE \E d \in RowsAt(Flag(c), job[c].idx) :
               Become(c, [job[c] EXCEPT !.pc = "fetchBlock", !.tag = d.tag])
    <3>1. PICK d : Become(c, [job[c] EXCEPT !.pc = "fetchBlock", !.tag = d.tag])
      BY <2>4
    <3>2. OnlyMoves(c) /\ job'[c] = [job[c] EXCEPT !.pc = "fetchBlock", !.tag = d.tag]
      BY <3>1, BecomeEffect
    <3>3. job'[c].pc = "fetchBlock"
      BY <2>1, <3>2
    <3> QED BY <2>2, <3>2, <3>3 DEF Quiet, RowPcs, DeletePcs
  <2> QED BY <1>1, <2>3, <2>4 DEF LookupBlock
<1>2. CASE FetchBlock(c)
  <2>1. \A n : [job[c] EXCEPT !.pc = "lookup", !.idx = n].pc = "lookup"
    BY <1>j DEF Job
  <2>2. job[c].pc = "fetchBlock" /\ faults' = faults
    BY <1>2 DEF FetchBlock, At, bounds
  <2>3. CASE Hang(c) \/ Become(c, Idle)
    BY <2>2, <2>3, <1>i, BecomeEffect, HangEffect DEF Quiet, RowPcs, DeletePcs
  <2>4. CASE Become(c, [job[c] EXCEPT !.pc = "lookup", !.idx = @ + 1])
    <3>1. OnlyMoves(c) /\ job'[c] = [job[c] EXCEPT !.pc = "lookup", !.idx = @ + 1]
      BY <2>4, BecomeEffect
    <3>2. job'[c].pc = "lookup"
      BY <2>1, <3>1
    <3> QED BY <2>2, <3>1, <3>2 DEF Quiet, RowPcs, DeletePcs
  <2> QED BY <1>2, <2>3, <2>4 DEF FetchBlock
<1>3. CASE FinishDownload(c)
  BY <1>3, <1>i, BecomeEffect DEF FinishDownload, At, Quiet, RowPcs, DeletePcs, bounds
<1>4. CASE GiveUp(c)
  BY <1>4, <1>i, BecomeEffect DEF GiveUp, At, Quiet, RowPcs, DeletePcs, bounds
<1>5. CASE Abort(c)
  BY <1>5, <1>i, BecomeEffect, OtherFault DEF Abort, Quiet, RowPcs, DeletePcs
<1> QED BY <1>1, <1>2, <1>3, <1>4, <1>5 DEF Download

\* The actions of one client that touch neither a file's rows nor a block on the way in.
Elsewhere(c) ==
  \/ Begin(c) \/ CountBlocks(c) \/ GetCounter(c) \/ SetCounter(c) \/ AddOwner(c)
  \/ RsyncUpload(c) \/ FetchCounter(c) \/ ClearCounter(c) \/ CreateFileAsset(c)
  \/ RecordUpload(c) \/ VerifyProof(c) \/ IsOwner(c)
  \/ Delete(c) \/ Download(c) \/ GiveUp(c) \/ Abort(c)

LEMMA ElsewhereQuiet ==
  ASSUME TypeOK, NEW c \in Clients, Elsewhere(c)
  PROVE  Quiet(c)
<1>1. CASE Begin(c) \/ Delete(c) \/ Download(c) \/ GiveUp(c) \/ Abort(c)
  BY <1>1, QuietStart, QuietDelete, QuietRest
<1>2. CASE ~(Begin(c) \/ Delete(c) \/ Download(c) \/ GiveUp(c) \/ Abort(c))
  <2>1. Upload(c) /\ job[c].pc \notin {"open", "write"}
                  /\ (job[c].pc = "send" => AllSent(c))
    BY <1>2 DEF Elsewhere, Upload, CountBlocks, GetCounter, SetCounter, AddOwner, RsyncUpload,
                Rsync, FetchCounter, ClearCounter, CreateFileAsset, RecordUpload, VerifyProof,
                IsOwner, At
  <2>2. ~TestTag(c) /\ ~OpenBlock(c) /\ ~WriteBlock(c)
    <3>1. Len(Content[Flag(c)]) \in Nat
      BY JobType, DedupAssumption DEF Flag, Job
    <3> QED BY <2>1, <3>1 DEF TestTag, OpenBlock, WriteBlock, At, AllSent
  <2> QED BY <2>1, <2>2, QuietUpload
<1> QED BY <1>1, <1>2

LEMMA ElsewhereKeeps ==
  ASSUME TypeOK, NEW c \in Clients, Elsewhere(c)
  PROVE  /\ files' \subseteq files /\ details' \subseteq details
         /\ nextId'.files = nextId.files
         /\ block' = block \/ Delete(c)
<1>n. \A n : /\ [nextId EXCEPT !.owners = n].files = nextId.files
             /\ [nextId EXCEPT !.upid = n].files = nextId.files
  BY DEF TypeOK
<1>1. CASE Begin(c)
  BY <1>1 DEF Begin, StartUpload, StartDelete, StartDownload, Start, db, disk
<1>2. CASE CountBlocks(c) \/ GetCounter(c) \/ FetchCounter(c) \/ VerifyProof(c) \/ IsOwner(c)
  BY <1>2 DEF CountBlocks, GetCounter, FetchCounter, VerifyProof, IsOwner, db, disk
<1>3. CASE SetCounter(c) \/ ClearCounter(c) \/ RecordUpload(c) \/ RsyncUpload(c)
  BY <1>3 DEF SetCounter, ClearCounter, RecordUpload, RsyncUpload, Rsync, db, disk
<1>4. CASE AddOwner(c)
  BY <1>4, <1>n DEF AddOwner, disk
<1>5. CASE CreateFileAsset(c)
  BY <1>5, <1>n DEF CreateFileAsset, disk
<1>6. CASE DeleteFile(c)
  BY <1>6 DEF DeleteFile, disk
<1>7. CASE Delete(c) /\ ~DeleteFile(c)
  BY <1>7 DEF Delete, ReadFileAsset, DeleteOwner, HasOwner, GetFileId, GetNoUseTag, UnlinkBlock,
              RsyncDelete, Rsync, DeleteAsset, ForgetUpload, db
<1>8. CASE Download(c) \/ GiveUp(c) \/ Abort(c)
  BY <1>8 DEF Download, LookupBlock, FetchBlock, FinishDownload, GiveUp, Abort, db, disk
<1> QED BY <1>1, <1>2, <1>3, <1>4, <1>5, <1>6, <1>7, <1>8 DEF Elsewhere

LEMMA StepKinds ==
  ASSUME Next
  PROVE  \/ Crash \/ UNCHANGED vars
         \/ \E c \in Clients : \/ InsertFile(c) \/ TestTag(c) \/ OpenBlock(c) \/ WriteBlock(c)
                               \/ StoreDetail(c) \/ Elsewhere(c)
BY DEF Next, Finished, Step, Upload, Elsewhere

LEMMA CrashEffect ==
  ASSUME TypeOK, Crash
  PROVE  /\ UNCHANGED <<files, details, nextId, block>>
         /\ \A c \in Clients : job'[c].pc \in {"idle", "hung"}
         /\ faults'["crash"] # 0
<1>1. [Idle EXCEPT !.pc = "hung"].pc = "hung"
  BY IdleIsJob DEF Job
<1>2. faults'["crash"] # 0
  BY DEF Crash, Fault, TypeOK, FaultKinds
<1> QED BY <1>1, <1>2 DEF Crash, db, disk

----------------------------------------------------------------------------
(* The server and the chain *)

\* A key that has been given out is below the next one.
KeysBelow == \A a \in ledger : a.upid < nextId.upid

LEMMA UpidKept ==
  ASSUME TypeOK, NEW c \in Clients, Elsewhere(c) \/ InsertFile(c) \/ TestTag(c) \/ OpenBlock(c)
                                      \/ WriteBlock(c) \/ StoreDetail(c),
         ~CreateFileAsset(c)
  PROVE  nextId'.upid = nextId.upid /\ (ledger' = ledger \/ DeleteAsset(c))
<1>n. \A n : /\ [nextId EXCEPT !.owners = n].upid = nextId.upid
             /\ [nextId EXCEPT !.files = n].upid = nextId.upid
             /\ [nextId EXCEPT !.details = n].upid = nextId.upid
  BY DEF TypeOK
<1>1. CASE Begin(c)
  BY <1>1 DEF Begin, StartUpload, StartDelete, StartDownload, Start, db
<1>2. CASE CountBlocks(c) \/ GetCounter(c) \/ FetchCounter(c) \/ VerifyProof(c) \/ IsOwner(c)
  BY <1>2 DEF CountBlocks, GetCounter, FetchCounter, VerifyProof, IsOwner, db
<1>3. CASE SetCounter(c) \/ ClearCounter(c) \/ RecordUpload(c) \/ RsyncUpload(c)
  BY <1>3 DEF SetCounter, ClearCounter, RecordUpload, RsyncUpload, Rsync, db
<1>4. CASE InsertFile(c) \/ TestTag(c) \/ OpenBlock(c) \/ WriteBlock(c)
  BY <1>4, <1>n DEF InsertFile, TestTag, OpenBlock, WriteBlock, db
<1>5. CASE StoreDetail(c) \/ AddOwner(c)
  BY <1>5, <1>n DEF StoreDetail, AddOwner
<1>6. CASE Delete(c)
  BY <1>6 DEF Delete, ReadFileAsset, DeleteOwner, HasOwner, GetFileId, GetNoUseTag, UnlinkBlock,
              DeleteFile, RsyncDelete, Rsync, DeleteAsset, ForgetUpload, db
<1>7. CASE Download(c) \/ GiveUp(c) \/ Abort(c)
  BY <1>7 DEF Download, LookupBlock, FetchBlock, FinishDownload, GiveUp, Abort, db
<1> QED BY <1>1, <1>2, <1>3, <1>4, <1>5, <1>6, <1>7 DEF Elsewhere

LEMMA ChainStep ==
  ASSUME TypeOK, TypeOK', KeysBelow, [Next]_vars
  PROVE  KeysBelow' /\ [Chain!Next]_ledger
<1>0. /\ nextId.upid \in Nat /\ \A a \in ledger : a.upid \in Nat
      /\ ledger \subseteq [upid : Ids, flag : Files, user : Clients]
      /\ ledger' \subseteq [upid : Ids, flag : Files, user : Clients]
  BY DEF TypeOK, Ids
<1>1. CASE UNCHANGED <<ledger, nextId>>
  BY <1>1 DEF KeysBelow
<1>2. ASSUME NEW c \in Clients, CreateFileAsset(c) PROVE KeysBelow' /\ [Chain!Next]_ledger
  <2>1. CASE UNCHANGED <<ledger, nextId>>
    BY <1>1, <2>1
  <2>2. CASE ~UNCHANGED <<ledger, nextId>>
    <3> DEFINE new == [upid |-> nextId.upid, flag |-> Flag(c), user |-> c]
    <3>1. ledger' = ledger \cup {new} /\ nextId' = [nextId EXCEPT !.upid = @ + 1]
      BY <1>2, <2>2 DEF CreateFileAsset
    <3>2. nextId'.upid = nextId.upid + 1
      BY <3>1 DEF TypeOK
    <3>3. KeysBelow'
      BY <1>0, <3>1, <3>2 DEF KeysBelow
    <3>4. new \in ledger' /\ new \in [upid : Ids, flag : Files, user : Clients]
      BY <1>0, <3>1
    <3>5. \A a \in ledger : a.upid # new.upid
      BY <1>0 DEF KeysBelow
    <3> HIDE DEF new
    <3>6. Chain!CreateFileAsset(new)
      BY <3>1, <3>4, <3>5 DEF Chain!CreateFileAsset, Chain!AssetExists, UpId
    <3> QED BY <3>3, <3>4, <3>6 DEF Chain!Next
  <2> QED BY <2>1, <2>2
<1>3. ASSUME NEW c \in Clients, DeleteAsset(c) PROVE KeysBelow' /\ [Chain!Next]_ledger
  <2>1. nextId' = nextId /\ (ledger' = ledger \ AssetNamed(c) \/ ledger' = ledger)
    BY <1>3 DEF DeleteAsset, db
  <2>2. KeysBelow'
    BY <2>1 DEF KeysBelow
  <2>3. CASE ledger' # ledger
    <3>1. PICK a \in ledger : a \in AssetNamed(c)
      BY <2>1, <2>3
    <3>2. ledger' = {b \in ledger : b.upid # a.upid}
      BY <2>1, <2>3, <3>1 DEF AssetNamed
    <3>3. Chain!DeleteAsset(a)
      BY <1>0, <3>1, <3>2 DEF Chain!DeleteAsset, UpId
    <3> QED BY <2>2, <3>1, <3>3 DEF Chain!Next
  <2> QED BY <2>2, <2>3
<1>4. CASE Crash \/ UNCHANGED vars
  BY <1>1, <1>4 DEF Crash, vars, db
<1>5. ASSUME NEW c \in Clients, ~CreateFileAsset(c), ~DeleteAsset(c),
             Elsewhere(c) \/ InsertFile(c) \/ TestTag(c) \/ OpenBlock(c) \/ WriteBlock(c)
               \/ StoreDetail(c)
      PROVE  KeysBelow' /\ [Chain!Next]_ledger
  BY <1>5, UpidKept DEF KeysBelow
<1> QED BY <1>2, <1>3, <1>4, <1>5, StepKinds

\* Dedup implements Ledger, under every fault and interleaving: the server creates each file
\* asset under a key of its own and deletes the one it means.
THEOREM DedupImplementsLedger == Spec => OnChain
<1>1. Init => Chain!Init /\ KeysBelow
  BY DEF Init, Chain!Init, KeysBelow
<1> QED BY <1>1, InitTypeOK, NextTypeOK, ChainStep, PTL DEF Spec, OnChain, Chain!Spec

\* Through the refinement: the upid in a client's record names one custody of one file.
THEOREM DedupKeysUnique == Spec => []Chain!KeysUnique
BY DedupImplementsLedger, Chain!LedgerKeysUnique, PTL DEF OnChain

----------------------------------------------------------------------------
(* Rows are filed in their place *)

RowInHand(c) ==
  job[c].pc \in RowPcs =>
    /\ job[c].idx < Len(Content[Flag(c)])
    /\ job[c].tag = Content[Flag(c)][job[c].idx + 1]

\* Ids of files rows are never used twice, and a handler keeps the tag it took from
\* its own file: so a row it stores under the id it finds for the file is in place.
RowsInv ==
  /\ \A r, s \in files : r.id = s.id => r = s
  /\ \A r \in files : r.id < nextId.files
  /\ \A d \in details : d.fileid < nextId.files
  /\ RowsInPlace
  /\ \A c \in Clients : RowInHand(c)

LEMMA RowsInvInit == Init => RowsInv
BY IdleIsJob DEF Init, RowsInv, RowsInPlace, RowInHand, RowPcs, Idle

\* Fewer rows, and no new block in anybody's hand.
LEMMA RowsInvQuiet ==
  ASSUME TypeOK, RowsInv, NEW c \in Clients, Quiet(c),
         files' \subseteq files, details' \subseteq details, nextId'.files = nextId.files
  PROVE  RowsInv'
<1>1. \A e \in Clients : RowInHand(e)'
  BY DEF RowsInv, RowInHand, Quiet, OnlyMoves, Flag
<1>2. RowsInPlace'
  BY DEF RowsInv, RowsInPlace
<1> QED BY <1>1, <1>2 DEF RowsInv

\* What the handler's own step on its block does: the block in hand stays the same.
LEMMA InHandStep ==
  ASSUME TypeOK, NEW c \in Clients, OpenBlock(c) \/ WriteBlock(c)
  PROVE  /\ OnlyMoves(c) /\ job'[c].file = job[c].file
         /\ job'[c].idx = job[c].idx /\ job'[c].tag = job[c].tag
         /\ UNCHANGED <<files, details, nextId, faults>>
<1>1. \A pc : /\ [job[c] EXCEPT !.pc = pc].file = job[c].file
              /\ [job[c] EXCEPT !.pc = pc].idx = job[c].idx
              /\ [job[c] EXCEPT !.pc = pc].tag = job[c].tag
  BY JobType DEF Job
<1>2. \E pc : Goto(c, pc)
  BY DEF OpenBlock, WriteBlock
<1>3. OnlyMoves(c) /\ \E pc : job'[c] = [job[c] EXCEPT !.pc = pc]
  BY <1>2, BecomeEffect DEF Goto
<1> QED BY <1>1, <1>3 DEF OpenBlock, WriteBlock, db, bounds

LEMMA TestTagEffect ==
  ASSUME TypeOK, NEW c \in Clients, TestTag(c)
  PROVE  /\ OnlyMoves(c) /\ job'[c].file = job[c].file /\ job'[c].idx = job[c].idx
         /\ job'[c].tag = Content[Flag(c)][job[c].idx + 1]
         /\ job'[c].pc = IF \E d \in details : d.tag = Content[Flag(c)][job[c].idx + 1]
                           THEN "link" ELSE "open"
         /\ job[c].pc = "send" /\ job[c].idx < Len(Content[Flag(c)])
         /\ UNCHANGED <<files, details, nextId, block, faults>>
<1> DEFINE T == Content[Flag(c)][job[c].idx + 1]
           pc == IF \E d \in details : d.tag = T THEN "link" ELSE "open"
<1>1. \A t, p : LET j == [job[c] EXCEPT !.tag = t, !.pc = p] IN
        j.file = job[c].file /\ j.idx = job[c].idx /\ j.tag = t /\ j.pc = p
  BY JobType DEF Job
<1>2. OnlyMoves(c) /\ job'[c] = [job[c] EXCEPT !.tag = T, !.pc = pc]
  BY BecomeEffect DEF TestTag
<1>3. /\ job'[c].file = job[c].file /\ job'[c].idx = job[c].idx
      /\ job'[c].tag = T /\ job'[c].pc = pc
  BY <1>1, <1>2
<1> QED BY <1>2, <1>3 DEF TestTag, At, db, disk, bounds

LEMMA RowsInvNext == TypeOK /\ RowsInv /\ [Next]_vars => RowsInv'
<1> SUFFICES ASSUME TypeOK, RowsInv, [Next]_vars PROVE RowsInv'
  OBVIOUS
<1>1. CASE UNCHANGED vars
  BY <1>1 DEF RowsInv, RowsInPlace, RowInHand, Flag, vars, db
<1>2. CASE Crash
  BY <1>2, CrashEffect DEF RowsInv, RowsInPlace, RowInHand, RowPcs
<1>3. ASSUME NEW c \in Clients, Elsewhere(c) PROVE RowsInv'
  BY <1>3, ElsewhereQuiet, ElsewhereKeeps, RowsInvQuiet
<1>4. ASSUME NEW c \in Clients, TestTag(c) PROVE RowsInv'
  <2>1. \A e \in Clients : RowInHand(e)'
    BY <1>4, TestTagEffect DEF RowsInv, RowInHand, OnlyMoves, Flag
  <2> QED BY <1>4, <2>1, TestTagEffect DEF RowsInv, RowsInPlace
<1>5. ASSUME NEW c \in Clients, OpenBlock(c) \/ WriteBlock(c) PROVE RowsInv'
  <2>1. job[c].pc \in RowPcs
    BY <1>5 DEF OpenBlock, WriteBlock, At, RowPcs
  <2>2. \A e \in Clients : RowInHand(e)'
    BY <1>5, <2>1, InHandStep DEF RowsInv, RowInHand, OnlyMoves, Flag
  <2> QED BY <1>5, <2>2, InHandStep DEF RowsInv, RowsInPlace
<1>6. ASSUME NEW c \in Clients, InsertFile(c) PROVE RowsInv'
  <2> DEFINE new == [id |-> nextId.files, flag |-> Flag(c)]
  <2>1. Quiet(c)
    <3>1. Upload(c) /\ ~TestTag(c) /\ ~OpenBlock(c) /\ ~WriteBlock(c)
      BY <1>6 DEF Upload, InsertFile, TestTag, OpenBlock, WriteBlock, At
    <3> QED BY <3>1, QuietUpload
  <2>2. CASE UNCHANGED <<files, nextId>>
    BY <1>6, <2>1, <2>2, RowsInvQuiet DEF InsertFile
  <2>3. CASE /\ files' = files \cup {new}
             /\ nextId' = [nextId EXCEPT !.files = @ + 1]
    <3>1. nextId.files \in Nat /\ nextId'.files = nextId.files + 1
      BY <2>3 DEF TypeOK, Ids
    <3>2. details' = details
      BY <1>6 DEF InsertFile
    <3>3. \A r \in files : r.id \in Nat
      BY DEF TypeOK, Ids
    <3>4. \A d \in details : d.fileid \in Nat
      BY DEF TypeOK
    <3>5. \A r, s \in files' : r.id = s.id => r = s
      BY <2>3, <3>1, <3>3 DEF RowsInv
    <3>6. (\A r \in files' : r.id < nextId'.files) /\ \A d \in details' : d.fileid < nextId'.files
      BY <2>3, <3>1, <3>2, <3>3, <3>4 DEF RowsInv
    <3>7. RowsInPlace'
      BY <2>3, <3>1, <3>2, <3>4 DEF RowsInv, RowsInPlace
    <3>8. \A e \in Clients : RowInHand(e)'
      BY <2>1 DEF RowsInv, RowInHand, Quiet, OnlyMoves, Flag
    <3> QED BY <3>5, <3>6, <3>7, <3>8 DEF RowsInv
  <2> QED BY <1>6, <2>2, <2>3 DEF InsertFile
<1>7. ASSUME NEW c \in Clients, StoreDetail(c) PROVE RowsInv'
  <2>1. Quiet(c)
    <3>1. Upload(c) /\ ~TestTag(c) /\ ~OpenBlock(c) /\ ~WriteBlock(c)
      BY <1>7 DEF Upload, StoreDetail, ReadyForRow, TestTag, OpenBlock, WriteBlock, At
    <3> QED BY <3>1, QuietUpload
  <2>2. files' = files /\ nextId'.files = nextId.files
    <3>1. \A n : [nextId EXCEPT !.details = n].files = nextId.files
      BY DEF TypeOK
    <3> QED BY <1>7, <3>1 DEF StoreDetail
  <2>3. CASE details' = details
    BY <2>1, <2>2, <2>3, RowsInvQuiet
  <2>4. CASE details' = details \cup {NewRow(c)}
    <3>1. /\ NewRow(c).fileid = FileId(Flag(c)) /\ NewRow(c).index = job[c].idx
          /\ NewRow(c).tag = job[c].tag
      BY DEF NewRow
    <3>2. RowInHand(c) /\ job[c].pc \in RowPcs
      BY <1>7 DEF RowsInv, StoreDetail, ReadyForRow, RowPcs
    <3>3. FileId(Flag(c)) # NULL => \E r \in FileRows(Flag(c)) : FileId(Flag(c)) = r.id
      BY DEF FileId
    <3>4. FileId(Flag(c)) < nextId.files
      BY <3>3 DEF RowsInv, FileRows, NULL, TypeOK, Ids
    <3>5. ASSUME NEW r \in files, FileId(Flag(c)) = r.id PROVE r.flag = Flag(c)
      BY <3>3, <3>5 DEF RowsInv, FileRows, NULL, TypeOK, Ids
    <3>6. RowsInPlace'
      BY <2>2, <2>4, <3>1, <3>2, <3>5 DEF RowsInv, RowsInPlace, RowInHand
    <3>7. \A d \in details' : d.fileid < nextId'.files
      BY <2>2, <2>4, <3>1, <3>4 DEF RowsInv
    <3>8. \A e \in Clients : RowInHand(e)'
      BY <2>1 DEF RowsInv, RowInHand, Quiet, OnlyMoves, Flag
    <3> QED BY <2>2, <3>6, <3>7, <3>8 DEF RowsInv
  <2> QED BY <1>7, <2>3, <2>4 DEF StoreDetail
<1> QED BY <1>1, <1>2, <1>3, <1>4, <1>5, <1>6, <1>7, StepKinds

\* A row that is filed under a file is one of its blocks, at its place: in every
\* schema, with deletes, and whatever faults and interleavings it went through.
THEOREM RowsAlwaysInPlace == Spec => []RowsInPlace
<1>1. RowsInv => RowsInPlace
  BY DEF RowsInv
<1> QED BY InitTypeOK, NextTypeOK, RowsInvInit, RowsInvNext, <1>1, PTL DEF Spec

----------------------------------------------------------------------------
(* Without deletes, a row points at a block that is there *)

Holding == {"write", "detail", "link"}

\* Who has opened or written the block, or has seen a row for it, holds a tag whose
\* block file exists, and with no restart one that is whole or about to be.
BlocksInv ==
  /\ \A c \in Clients : job[c].pc \notin DeletePcs
  /\ DetailsPresent
  /\ \A c \in Clients : job[c].pc \in Holding => block[job[c].tag] # "absent"
  /\ DetailsReadable
  /\ faults["crash"] = 0 =>
       \A c \in Clients : job[c].pc \in {"detail", "link"} => Readable(job[c].tag)

LEMMA BlocksInvInit == Init => BlocksInv
BY DEF Init, BlocksInv, DetailsPresent, DetailsReadable, DeletePcs, Holding, Idle

\* Whoever is rewriting a block goes on doing so while others move.
LEMMA StillWritten ==
  ASSUME NEW c \in Clients, OnlyMoves(c), job[c].pc # "write", NEW T, BeingWritten(T)
  PROVE  BeingWritten(T)'
BY DEF OnlyMoves, BeingWritten, At

LEMMA BlocksInvQuiet ==
  ASSUME BlocksInv, NEW c \in Clients, Quiet(c), c \notin Deleters,
         block' = block, \A d \in details' : d \in details \/ block[d.tag] # "absent",
         faults["crash"] = 0 => \A d \in details' : d \in details \/ Readable(d.tag)
  PROVE  BlocksInv'
<1>1. \A e \in Clients : job'[e].pc \notin DeletePcs
  BY DEF BlocksInv, Quiet, OnlyMoves
<1>2. DetailsPresent'
  BY DEF BlocksInv, DetailsPresent
<1>3. \A e \in Clients : job'[e].pc \in Holding => e # c /\ job'[e] = job[e]
  BY DEF Quiet, OnlyMoves, RowPcs, Holding
<1>4. \A e \in Clients : job'[e].pc \in Holding => block'[job'[e].tag] # "absent"
  BY <1>3 DEF BlocksInv
<1>5. \A T : Readable(T) => Readable(T)'
  BY StillWritten DEF Quiet, Readable
<1>6. DetailsReadable'
  BY <1>5 DEF BlocksInv, DetailsReadable, Quiet
<1>7. (faults["crash"] = 0 =>
         \A e \in Clients : job[e].pc \in {"detail", "link"} => Readable(job[e].tag))'
  <2> SUFFICES ASSUME faults'["crash"] = 0, NEW e \in Clients, job'[e].pc \in {"detail", "link"}
               PROVE  Readable(job[e].tag)'
    OBVIOUS
  <2>1. job'[e].tag = job[e].tag /\ Readable(job[e].tag)
    BY <1>3 DEF BlocksInv, Quiet, Holding
  <2> QED BY <2>1, StillWritten DEF Quiet, Readable, BeingWritten
<1> QED BY <1>1, <1>2, <1>4, <1>6, <1>7 DEF BlocksInv

\* A block action of c on the tag in its hand never removes the file, and leaves
\* every readable block readable.
LEMMA BlockStep ==
  ASSUME TypeOK, NEW c \in Clients, OpenBlock(c) \/ WriteBlock(c)
  PROVE  /\ \A T \in Tags : block[T] # "absent" => block'[T] # "absent"
         /\ block'[job[c].tag] # "absent"
         /\ \A T \in Tags : Readable(T) => Readable(T)'
         /\ job'[c].pc \in {"write", "detail"}
         /\ job'[c].pc = "detail" => block'[job[c].tag] = "whole"
<1>1. job[c].tag \in Tags
  BY JobType DEF Job
<1>2. CASE OpenBlock(c)
  <2>1. block' = [block EXCEPT ![job[c].tag] = "truncated"] /\ job[c].pc = "open"
    BY <1>2 DEF OpenBlock, At
  <2>2. job'[c].pc = "write" /\ OnlyMoves(c) /\ job'[c].tag = job[c].tag
    BY <1>2, GotoEffect, InHandStep DEF OpenBlock
  <2>3. ASSUME NEW T \in Tags, Readable(T) PROVE Readable(T)'
    <3>1. CASE T = job[c].tag
      BY <3>1, <2>2 DEF Readable, BeingWritten, At
    <3>2. CASE T # job[c].tag /\ block[T] = "whole"
      BY <3>2, <2>1 DEF Readable, TypeOK
    <3>3. CASE BeingWritten(T)
      BY <3>3, <2>1, <2>2, StillWritten DEF Readable
    <3> QED BY <2>3, <3>1, <3>2, <3>3 DEF Readable
  <2> QED BY <2>1, <2>2, <2>3, <1>1 DEF TypeOK
<1>3. CASE WriteBlock(c)
  <2>1. block' = [block EXCEPT ![job[c].tag] = "whole"] /\ job[c].pc = "write"
    BY <1>3 DEF WriteBlock, At
  <2>2. job'[c].pc = "detail" /\ OnlyMoves(c)
    BY <1>3, GotoEffect, InHandStep DEF WriteBlock
  <2>3. block'[job[c].tag] = "whole"
    BY <2>1, <1>1 DEF TypeOK
  <2>4. ASSUME NEW T \in Tags, Readable(T), T # job[c].tag PROVE Readable(T)'
    <3>1. block'[T] = block[T]
      BY <2>1, <2>4 DEF TypeOK
    <3>2. BeingWritten(T) => BeingWritten(T)'
      BY <2>2, <2>4 DEF BeingWritten, OnlyMoves, At
    <3> QED BY <2>4, <3>1, <3>2 DEF Readable
  <2>5. ASSUME NEW T \in Tags, Readable(T) PROVE Readable(T)'
    BY <2>3, <2>4, <2>5 DEF Readable
  <2> QED BY <2>1, <2>2, <2>3, <2>5, <1>1 DEF TypeOK
<1> QED BY <1>2, <1>3

LEMMA BlocksInvNext ==
  ASSUME Deleters = {}, TypeOK, BlocksInv, [Next]_vars
  PROVE  BlocksInv'
<1>1. CASE UNCHANGED vars
  BY <1>1 DEF BlocksInv, DetailsPresent, DetailsReadable, Readable, BeingWritten, At,
              vars, db, disk, bounds
<1>2. CASE Crash
  BY <1>2, CrashEffect DEF BlocksInv, DetailsPresent, DetailsReadable, DeletePcs, Holding
<1>3. ASSUME NEW c \in Clients, Elsewhere(c) PROVE BlocksInv'
  <2>1. ~Delete(c)
    BY QuietDelete DEF BlocksInv
  <2> QED BY <1>3, <2>1, ElsewhereQuiet, ElsewhereKeeps, BlocksInvQuiet
<1>4. ASSUME NEW c \in Clients, InsertFile(c) \/ StoreDetail(c) PROVE BlocksInv'
  <2>1. Quiet(c)
    <3>1. Upload(c) /\ ~TestTag(c) /\ ~OpenBlock(c) /\ ~WriteBlock(c)
      BY <1>4 DEF Upload, InsertFile, StoreDetail, ReadyForRow, TestTag, OpenBlock, WriteBlock, At
    <3> QED BY <3>1, QuietUpload
  <2>2. block' = block
    BY <1>4 DEF InsertFile, StoreDetail, disk
  <2>3. \A d \in details' :
          d \in details \/ (d.tag = job[c].tag /\ job[c].pc \in {"detail", "link"})
    BY <1>4 DEF InsertFile, StoreDetail, ReadyForRow, NewRow
  <2>4. \A d \in details' : d \in details \/ block[d.tag] # "absent"
    BY <2>3 DEF BlocksInv, Holding
  <2>5. faults["crash"] = 0 => \A d \in details' : d \in details \/ Readable(d.tag)
    BY <2>3 DEF BlocksInv
  <2> QED BY <2>1, <2>2, <2>4, <2>5, BlocksInvQuiet
<1>5. ASSUME NEW c \in Clients, TestTag(c) PROVE BlocksInv'
  <2> DEFINE T == Content[Flag(c)][job[c].idx + 1]
  <2>1. /\ OnlyMoves(c) /\ job[c].pc = "send" /\ job'[c].tag = T
        /\ \/ job'[c].pc = "open"
           \/ job'[c].pc = "link" /\ \E d \in details : d.tag = T
        /\ UNCHANGED <<details, block, faults>>
    BY <1>5, TestTagEffect
  <2>2. \A U : Readable(U) => Readable(U)'
    BY <2>1, StillWritten DEF Readable
  <2>3. \A e \in Clients : e # c => job'[e] = job[e]
    BY <2>1 DEF OnlyMoves
  <2>4. \A e \in Clients : job'[e].pc \notin DeletePcs
    BY <2>1, <2>3 DEF BlocksInv, DeletePcs
  <2>5. \A e \in Clients : job'[e].pc \in Holding => block'[job'[e].tag] # "absent"
    BY <2>1, <2>3 DEF BlocksInv, DetailsPresent, Holding
  <2>6. (faults["crash"] = 0 =>
           \A e \in Clients : job[e].pc \in {"detail", "link"} => Readable(job[e].tag))'
    <3> SUFFICES ASSUME faults'["crash"] = 0, NEW e \in Clients, job'[e].pc \in {"detail", "link"}
                 PROVE  Readable(job[e].tag)'
      OBVIOUS
    <3>1. Readable(job'[e].tag)
      BY <2>1, <2>3 DEF BlocksInv, DetailsReadable
    <3> QED BY <2>1, <3>1, StillWritten DEF Readable, BeingWritten
  <2>7. DetailsPresent' /\ DetailsReadable'
    BY <2>1, <2>2 DEF BlocksInv, DetailsPresent, DetailsReadable
  <2> QED BY <2>4, <2>5, <2>6, <2>7 DEF BlocksInv
<1>6. ASSUME NEW c \in Clients, OpenBlock(c) \/ WriteBlock(c) PROVE BlocksInv'
  <2>1. \A e \in Clients : job[e].tag \in Tags
    BY JobType DEF Job
  <2>2. \A d \in details : d.tag \in Tags
    BY DEF TypeOK
  <2>3. OnlyMoves(c) /\ job'[c].tag = job[c].tag /\ details' = details /\ faults' = faults
    BY <1>6, InHandStep
  <2>4. \A e \in Clients : e # c => job'[e] = job[e]
    BY <2>3 DEF OnlyMoves
  <2>5. \A e \in Clients : job'[e].pc \notin DeletePcs
    BY <1>6, <2>4, BlockStep DEF BlocksInv, DeletePcs
  <2>6. \A e \in Clients : job'[e].pc \in Holding => block'[job'[e].tag] # "absent"
    BY <1>6, <2>1, <2>3, <2>4, BlockStep DEF BlocksInv
  <2>7. (faults["crash"] = 0 =>
           \A e \in Clients : job[e].pc \in {"detail", "link"} => Readable(job[e].tag))'
    <3> SUFFICES ASSUME faults'["crash"] = 0, NEW e \in Clients, job'[e].pc \in {"detail", "link"}
                 PROVE  Readable(job[e].tag)'
      OBVIOUS
    <3>1. CASE e = c
      BY <1>6, <2>3, <3>1, BlockStep DEF Readable
    <3>2. CASE e # c
      <4> DEFINE T == job[e].tag
      <4>1. Readable(T) /\ T \in Tags /\ job'[e].tag = T
        BY <2>1, <2>3, <2>4, <3>2 DEF BlocksInv
      <4>2. \A U \in Tags : Readable(U) => Readable(U)'
        BY <1>6, BlockStep
      <4>3. \A U \in Tags : Readable(U) =>
              block'[U] = "whole" \/ \E b \in Clients : job'[b].pc = "write" /\ job'[b].tag = U
        BY <4>2 DEF Readable, BeingWritten, At
      <4> QED BY <4>1, <4>3 DEF Readable, BeingWritten, At
    <3> QED BY <3>1, <3>2
  <2>8. DetailsPresent' /\ DetailsReadable'
    BY <1>6, <2>2, <2>3, BlockStep DEF BlocksInv, DetailsPresent, DetailsReadable
  <2> QED BY <2>5, <2>6, <2>7, <2>8 DEF BlocksInv
<1> QED BY <1>1, <1>2, <1>3, <1>4, <1>5, <1>6, StepKinds

\* Where nothing is deleted, any number of clients may upload the same blocks at
\* once, be interrupted and fail, and the server restart at any step: the block
\* file of every row exists.
THEOREM RowsHaveBlocks ==
  ASSUME Deleters = {}
  PROVE  Spec => []DetailsPresent
<1>1. TypeOK /\ BlocksInv /\ [Next]_vars => BlocksInv'
  BY BlocksInvNext
<1>2. BlocksInv => DetailsPresent
  BY DEF BlocksInv
<1> QED BY InitTypeOK, NextTypeOK, BlocksInvInit, <1>1, <1>2, PTL DEF Spec

\* ... and until a restart it is whole or being written again with the same bytes.
THEOREM RowsHaveReadableBlocks ==
  ASSUME Deleters = {}
  PROVE  Spec => []DetailsReadable
<1>1. TypeOK /\ BlocksInv /\ [Next]_vars => BlocksInv'
  BY BlocksInvNext
<1>2. BlocksInv => DetailsReadable
  BY DEF BlocksInv
<1> QED BY InitTypeOK, NextTypeOK, BlocksInvInit, <1>1, <1>2, PTL DEF Spec

----------------------------------------------------------------------------
(* Steps of clients that take turns *)

Stores == <<files, details, owners, nextId, block, backup, counter, ledger, local>>

\* What a step leaves as it was: of c's locals but pc, of the other clients' locals.
Keeps(c) ==
  /\ job'[c].file = job[c].file /\ job'[c].idx = job[c].idx /\ job'[c].num = job[c].num
  /\ job'[c].todo = job[c].todo /\ job'[c].upid = job[c].upid /\ job'[c].tag = job[c].tag

LEMMA Moved ==
  ASSUME TypeOK, NEW c \in Clients, NEW pc, Goto(c, pc)
  PROVE  OnlyMoves(c) /\ Keeps(c) /\ job'[c].pc = pc
<1>1. OnlyMoves(c) /\ job'[c] = [job[c] EXCEPT !.pc = pc]
  BY BecomeEffect DEF Goto
<1>2. \A j \in Job : LET k == [j EXCEPT !.pc = pc] IN
        /\ k.pc = pc /\ k.file = j.file /\ k.idx = j.idx /\ k.num = j.num
        /\ k.todo = j.todo /\ k.upid = j.upid /\ k.tag = j.tag
  BY DEF Job
<1> QED BY <1>1, <1>2, JobType DEF Keeps

\* The steps when only rsync may fail.
Steps(c) == Begin(c) \/ Step(c)

LEMMA TurnSteps ==
  ASSUME Faults \subseteq {"rsync"}, [Next]_vars
  PROVE  UNCHANGED vars \/ \E c \in Clients : Steps(c)
BY DEF Next, Finished, Crash, Abort, Fault, Steps

LEMMA IdlePc == Idle.pc = "idle"
BY DEF Idle

LEMMA Ended ==
  ASSUME TypeOK, NEW c \in Clients, Become(c, Idle)
  PROVE  OnlyMoves(c) /\ job'[c].pc = "idle"
BY BecomeEffect, IdlePc

LEMMA StartUploadEffect ==
  ASSUME TypeOK, NEW c \in Clients, StartUpload(c)
  PROVE  /\ OnlyMoves(c) /\ job[c].pc = "idle" /\ job'[c].pc = "count" /\ UNCHANGED Stores
         /\ job'[c].idx = 0
<1>1. \A f : LET k == [Idle EXCEPT !.pc = "count", !.file = f] IN k.pc = "count" /\ k.idx = 0
  BY IdleIsJob DEF Job, Idle
<1> QED BY <1>1, BecomeEffect DEF StartUpload, Start, At, Stores, db, disk

LEMMA StartDeleteEffect ==
  ASSUME TypeOK, NEW c \in Clients, StartDelete(c)
  PROVE  /\ OnlyMoves(c) /\ job[c].pc = "idle" /\ job'[c].pc = "read" /\ UNCHANGED Stores
         /\ c \in Deleters
         /\ \E r \in local[c] : job'[c].file = r.flag /\ job'[c].upid = r.upid
<1>1. \A f, u : LET k == [Idle EXCEPT !.pc = "read", !.file = f, !.upid = u] IN
        k.pc = "read" /\ k.file = f /\ k.upid = u
  BY IdleIsJob DEF Job
<1>2. PICK r \in local[c] :
        Start(c, [Idle EXCEPT !.pc = "read", !.file = r.flag, !.upid = r.upid])
  BY DEF StartDelete
<1>3. OnlyMoves(c) /\ job'[c] = [Idle EXCEPT !.pc = "read", !.file = r.flag, !.upid = r.upid]
  BY <1>2, BecomeEffect DEF Start
<1>4. job'[c].pc = "read" /\ job'[c].file = r.flag /\ job'[c].upid = r.upid
  BY <1>1, <1>3
<1>5. job[c].pc = "idle" /\ UNCHANGED Stores
  BY <1>2 DEF Start, At, Stores, db, disk
<1> QED BY <1>3, <1>4, <1>5 DEF StartDelete

LEMMA StartDownloadEffect ==
  ASSUME TypeOK, NEW c \in Clients, StartDownload(c)
  PROVE  /\ OnlyMoves(c) /\ job[c].pc = "idle" /\ job'[c].pc = "lookup" /\ UNCHANGED Stores
         /\ job'[c].idx = 0
         /\ \E r \in local[c] : job'[c].file = r.flag
<1>1. \A f : LET k == [Idle EXCEPT !.pc = "lookup", !.file = f] IN
        k.pc = "lookup" /\ k.file = f /\ k.idx = 0
  BY IdleIsJob DEF Job, Idle
<1>2. PICK r \in local[c] : Start(c, [Idle EXCEPT !.pc = "lookup", !.file = r.flag])
  BY DEF StartDownload
<1>3. OnlyMoves(c) /\ job'[c] = [Idle EXCEPT !.pc = "lookup", !.file = r.flag]
  BY <1>2, BecomeEffect DEF Start
<1>4. job'[c].pc = "lookup" /\ job'[c].file = r.flag /\ job'[c].idx = 0
  BY <1>1, <1>3
<1>5. job[c].pc = "idle" /\ UNCHANGED Stores
  BY <1>2 DEF Start, At, Stores, db, disk
<1> QED BY <1>3, <1>4, <1>5

LEMMA CountEffect ==
  ASSUME TypeOK, NEW c \in Clients, CountBlocks(c)
  PROVE  /\ OnlyMoves(c) /\ job[c].pc = "count" /\ UNCHANGED Stores
         /\ \/ job'[c].pc = "hung" /\ Ambiguous(job[c].file)
            \/ job'[c].pc = "insert" /\ Keeps(c) /\ RowsOf(job[c].file) = {}
            \/ job'[c].pc = "prove" /\ job'[c].file = job[c].file /\ RowsOf(job[c].file) # {}
<1>1. job[c].pc = "count" /\ UNCHANGED Stores
  BY DEF CountBlocks, At, Stores, db, disk
<1>2. CASE Ambiguous(Flag(c)) /\ Hang(c)
  BY <1>1, <1>2, HangEffect DEF Flag
<1>3. CASE RowsOf(Flag(c)) = {} /\ Goto(c, "insert")
  BY <1>1, <1>3, Moved DEF Flag, Keeps
<1>4. CASE RowsOf(Flag(c)) # {} /\ \E S : Become(c, [job[c] EXCEPT !.pc = "prove", !.todo = S])
  <2>1. \A S : LET k == [job[c] EXCEPT !.pc = "prove", !.todo = S] IN
          k.pc = "prove" /\ k.file = job[c].file
    BY JobType DEF Job
  <2>2. PICK S : Become(c, [job[c] EXCEPT !.pc = "prove", !.todo = S])
    BY <1>4
  <2>3. OnlyMoves(c) /\ job'[c] = [job[c] EXCEPT !.pc = "prove", !.todo = S]
    BY <2>2, BecomeEffect
  <2>4. job'[c].pc = "prove" /\ job'[c].file = job[c].file
    BY <2>1, <2>3
  <2> QED BY <1>1, <1>4, <2>3, <2>4 DEF Flag
<1> QED BY <1>2, <1>3, <1>4 DEF CountBlocks

LEMMA InsertEffect ==
  ASSUME TypeOK, NEW c \in Clients, InsertFile(c)
  PROVE  /\ OnlyMoves(c) /\ job[c].pc = "insert"
         /\ UNCHANGED <<details, owners, block, backup, counter, ledger, local>>
         /\ \/ /\ FileRows(job[c].file) # {} /\ job'[c].pc = "hung"
               /\ UNCHANGED <<files, nextId>>
            \/ /\ files' = files \cup {[id |-> nextId.files, flag |-> job[c].file]}
               /\ nextId'.files = nextId.files + 1 /\ nextId'.details = nextId.details
               /\ nextId'.owners = nextId.owners /\ nextId'.upid = nextId.upid
               /\ job'[c].pc = "send" /\ Keeps(c)
<1>1. /\ job[c].pc = "insert"
      /\ UNCHANGED <<details, owners, block, backup, counter, ledger, local>>
  BY DEF InsertFile, At, disk
<1>2. CASE FileRows(Flag(c)) # {} /\ Hang(c) /\ UNCHANGED <<files, nextId>>
  BY <1>1, <1>2, HangEffect DEF Flag
<1>3. CASE /\ files' = files \cup {[id |-> nextId.files, flag |-> Flag(c)]}
           /\ nextId' = [nextId EXCEPT !.files = @ + 1] /\ Goto(c, "send")
  <2>1. /\ nextId'.files = nextId.files + 1 /\ nextId'.details = nextId.details
        /\ nextId'.owners = nextId.owners /\ nextId'.upid = nextId.upid
    BY <1>3 DEF TypeOK
  <2> QED BY <1>1, <1>3, <2>1, Moved DEF Flag
<1> QED BY <1>2, <1>3 DEF InsertFile

\* TestTagEffect says what TestTag does to c; it does nothing else.
LEMMA TestEffect ==
  ASSUME TypeOK, NEW c \in Clients, TestTag(c)
  PROVE  UNCHANGED Stores
BY DEF TestTag, Stores, db, disk

LEMMA OpenEffect ==
  ASSUME TypeOK, NEW c \in Clients, OpenBlock(c)
  PROVE  /\ OnlyMoves(c) /\ Keeps(c) /\ job[c].pc = "open" /\ job'[c].pc = "write"
         /\ UNCHANGED <<files, details, owners, nextId, backup, counter, ledger, local>>
         /\ block' = [block EXCEPT ![job[c].tag] = "truncated"]
BY Moved DEF OpenBlock, At, db

LEMMA WriteEffect ==
  ASSUME TypeOK, NEW c \in Clients, WriteBlock(c)
  PROVE  /\ OnlyMoves(c) /\ Keeps(c) /\ job[c].pc = "write" /\ job'[c].pc = "detail"
         /\ UNCHANGED <<files, details, owners, nextId, backup, counter, ledger, local>>
         /\ block' = [block EXCEPT ![job[c].tag] = "whole"]
BY Moved DEF WriteBlock, At, db

LEMMA NextBlockEffect ==
  ASSUME TypeOK, NEW c \in Clients, Become(c, NextBlock(c))
  PROVE  /\ OnlyMoves(c) /\ job'[c].pc = "send" /\ job'[c].file = job[c].file
         /\ job'[c].idx = job[c].idx + 1
<1>1. \A j \in Job : LET k == [j EXCEPT !.pc = "send", !.idx = @ + 1] IN
        k.pc = "send" /\ k.file = j.file /\ k.idx = j.idx + 1
  BY DEF Job
<1>2. OnlyMoves(c) /\ job'[c] = [job[c] EXCEPT !.pc = "send", !.idx = @ + 1]
  BY BecomeEffect DEF NextBlock
<1> QED BY <1>1, <1>2, JobType

LEMMA StoreEffect ==
  ASSUME TypeOK, NEW c \in Clients, StoreDetail(c), Insertable(job[c].file)
  PROVE  /\ OnlyMoves(c) /\ job'[c].file = job[c].file
         /\ UNCHANGED <<files, owners, block, backup, counter, ledger, local>>
         /\ details' = details \cup {NewRow(c)}
         /\ nextId'.details = nextId.details + 1 /\ nextId'.files = nextId.files
         /\ nextId'.owners = nextId.owners /\ nextId'.upid = nextId.upid
         /\ \/ /\ job[c].pc = "detail" /\ job'[c].pc = "getCounter"
               /\ job'[c].idx = job[c].idx
            \/ /\ job[c].pc = "link" /\ job'[c].pc = "send"
               /\ job'[c].idx = job[c].idx + 1
<1>1. /\ job[c].pc \in {"detail", "link"} /\ details' = details \cup {NewRow(c)}
      /\ nextId' = [nextId EXCEPT !.details = @ + 1]
      /\ IF job[c].pc = "detail" THEN Goto(c, "getCounter") ELSE Become(c, NextBlock(c))
      /\ UNCHANGED <<files, owners, block, backup, counter, ledger, local>>
  BY DEF StoreDetail, ReadyForRow, Flag, At, disk
<1>2. /\ nextId'.details = nextId.details + 1 /\ nextId'.files = nextId.files
      /\ nextId'.owners = nextId.owners /\ nextId'.upid = nextId.upid
  BY <1>1 DEF TypeOK
<1>3. CASE job[c].pc = "detail"
  BY <1>1, <1>2, <1>3, Moved DEF Keeps
<1>4. CASE job[c].pc = "link"
  BY <1>1, <1>2, <1>4, NextBlockEffect
<1> QED BY <1>1, <1>3, <1>4

LEMMA GetCounterEffect ==
  ASSUME TypeOK, NEW c \in Clients, GetCounter(c)
  PROVE  /\ OnlyMoves(c) /\ UNCHANGED Stores
         /\ job[c].pc = "getCounter" /\ job'[c].pc = "setCounter"
         /\ job'[c].file = job[c].file /\ job'[c].idx = job[c].idx
<1>1. \A n : \A j \in Job : LET k == [j EXCEPT !.pc = "setCounter", !.num = n] IN
        k.pc = "setCounter" /\ k.file = j.file /\ k.idx = j.idx
  BY DEF Job
<1>2. OnlyMoves(c) /\ job'[c] = [job[c] EXCEPT !.pc = "setCounter", !.num = counter[Flag(c)]]
  BY BecomeEffect DEF GetCounter
<1> QED BY <1>1, <1>2, JobType DEF GetCounter, At, Stores, db, disk

LEMMA SetCounterEffect ==
  ASSUME TypeOK, NEW c \in Clients, SetCounter(c)
  PROVE  /\ OnlyMoves(c) /\ job[c].pc = "setCounter" /\ job'[c].pc = "send"
         /\ job'[c].file = job[c].file /\ job'[c].idx = job[c].idx + 1
         /\ UNCHANGED <<files, details, owners, nextId, block, backup, ledger, local>>
         /\ \A f \in Files : f # job[c].file => counter'[f] = counter[f]
<1>1. \A j \in Job : LET k == [[j EXCEPT !.pc = "send", !.idx = @ + 1] EXCEPT !.num = 0] IN
        k.pc = "send" /\ k.file = j.file /\ k.idx = j.idx + 1
  BY DEF Job
<1>2. OnlyMoves(c) /\ job'[c] = [[job[c] EXCEPT !.pc = "send", !.idx = @ + 1] EXCEPT !.num = 0]
  BY BecomeEffect DEF SetCounter, NextBlock
<1>3. \A f \in Files : f # job[c].file => counter'[f] = counter[f]
  BY DEF SetCounter, Flag, TypeOK
<1> QED BY <1>1, <1>2, <1>3, JobType DEF SetCounter, At, db, disk

LEMMA AddOwnerEffect ==
  ASSUME TypeOK, NEW c \in Clients, AddOwner(c), Insertable(job[c].file)
  PROVE  /\ OnlyMoves(c) /\ Keeps(c)
         /\ UNCHANGED <<files, details, block, backup, counter, ledger, local>>
         /\ owners' = owners \cup {[id |-> nextId.owners, fileid |-> FileId(job[c].file), user |-> c]}
         /\ nextId'.details = nextId.details /\ nextId'.files = nextId.files
         /\ nextId'.owners = nextId.owners + 1 /\ nextId'.upid = nextId.upid
         /\ \/ /\ job[c].pc = "send" /\ job[c].idx = Len(Content[job[c].file])
               /\ job'[c].pc = "rsync"
            \/ job[c].pc = "enrol" /\ job'[c].pc = "createProven"
<1>1. /\ \/ job[c].pc = "send" /\ job[c].idx = Len(Content[job[c].file])
         \/ job[c].pc = "enrol"
      /\ owners' = owners \cup {[id |-> nextId.owners, fileid |-> FileId(job[c].file), user |-> c]}
      /\ nextId' = [nextId EXCEPT !.owners = @ + 1]
      /\ Goto(c, IF job[c].pc = "send" THEN "rsync" ELSE "createProven")
      /\ UNCHANGED <<files, details, block, backup, counter, ledger, local>>
  BY DEF AddOwner, Flag, At, AllSent, disk
<1>2. /\ nextId'.details = nextId.details /\ nextId'.files = nextId.files
      /\ nextId'.owners = nextId.owners + 1 /\ nextId'.upid = nextId.upid
  BY <1>1 DEF TypeOK
<1> QED BY <1>1, <1>2, Moved

LEMMA RsyncEffect ==
  ASSUME TypeOK, NEW c \in Clients, NEW from, NEW to, Rsync(c, from, to)
  PROVE  /\ OnlyMoves(c) /\ Keeps(c) /\ job[c].pc = from /\ job'[c].pc = to
         /\ UNCHANGED <<files, details, owners, nextId, block, counter, ledger, local>>
         /\ "rsync" \notin Faults => backup' = {T \in Tags : block[T] = "whole"}
BY Moved DEF Rsync, Fault, At, db

LEMMA FetchCounterEffect ==
  ASSUME TypeOK, NEW c \in Clients, FetchCounter(c)
  PROVE  /\ OnlyMoves(c) /\ UNCHANGED Stores /\ job[c].pc = "fetch"
         /\ job'[c].file = job[c].file
         /\ IF counter[job[c].file] = 0 THEN job'[c].pc = "create" ELSE job'[c].pc = "clear"
<1> DEFINE p == IF counter[Flag(c)] = 0 THEN "create" ELSE "clear"
<1>1. \A n, q : \A j \in Job : LET k == [j EXCEPT !.num = n, !.pc = q] IN
        k.pc = q /\ k.file = j.file
  BY DEF Job
<1>2. OnlyMoves(c) /\ job'[c] = [job[c] EXCEPT !.num = counter[Flag(c)], !.pc = p]
  BY BecomeEffect DEF FetchCounter
<1>3. job'[c].pc = p /\ job'[c].file = job[c].file
  BY <1>1, <1>2, JobType
<1> QED BY <1>2, <1>3 DEF FetchCounter, At, Stores, db, disk, Flag

LEMMA ClearEffect ==
  ASSUME TypeOK, NEW c \in Clients, ClearCounter(c)
  PROVE  /\ OnlyMoves(c) /\ Keeps(c) /\ job[c].pc = "clear" /\ job'[c].pc = "create"
         /\ UNCHANGED <<files, details, owners, nextId, block, backup, ledger, local>>
         /\ counter' = [counter EXCEPT ![job[c].file] = 0]
BY Moved DEF ClearCounter, At, Flag, db, disk

LEMMA CreateEffect ==
  ASSUME TypeOK, Faults \subseteq {"rsync"}, NEW c \in Clients, CreateFileAsset(c)
  PROVE  /\ OnlyMoves(c) /\ job[c].pc \in {"create", "createProven"} /\ job'[c].pc = "record"
         /\ job'[c].file = job[c].file /\ job'[c].upid = nextId.upid
         /\ UNCHANGED <<files, details, owners, block, backup, counter, local>>
         /\ ledger' = ledger \cup {[upid |-> nextId.upid, flag |-> job[c].file, user |-> c]}
         /\ nextId'.details = nextId.details /\ nextId'.files = nextId.files
         /\ nextId'.owners = nextId.owners /\ nextId'.upid = nextId.upid + 1
<1>1. /\ job[c].pc \in {"create", "createProven"}
      /\ Become(c, [job[c] EXCEPT !.pc = "record", !.upid = nextId.upid])
      /\ UNCHANGED <<files, details, owners, block, backup, counter, local>>
      /\ ledger' = ledger \cup {[upid |-> nextId.upid, flag |-> job[c].file, user |-> c]}
      /\ nextId' = [nextId EXCEPT !.upid = @ + 1]
  BY DEF CreateFileAsset, Fault, Flag, disk
<1>2. \A u : \A j \in Job : LET k == [j EXCEPT !.pc = "record", !.upid = u] IN
        k.pc = "record" /\ k.file = j.file /\ k.upid = u
  BY DEF Job
<1>3. OnlyMoves(c) /\ job'[c] = [job[c] EXCEPT !.pc = "record", !.upid = nextId.upid]
  BY <1>1, BecomeEffect
<1>4. /\ nextId'.details = nextId.details /\ nextId'.files = nextId.files
      /\ nextId'.owners = nextId.owners /\ nextId'.upid = nextId.upid + 1
  BY <1>1 DEF TypeOK
<1> QED BY <1>1, <1>2, <1>3, <1>4, JobType

LEMMA RecordEffect ==
  ASSUME TypeOK, NEW c \in Clients, RecordUpload(c)
  PROVE  /\ OnlyMoves(c) /\ job[c].pc = "record" /\ job'[c].pc = "idle"
         /\ UNCHANGED <<files, details, owners, nextId, block, backup, counter, ledger>>
         /\ local'[c] = local[c] \cup {[flag |-> job[c].file, upid |-> job[c].upid]}
         /\ \A e \in Clients : e # c => local'[e] = local[e]
BY Ended DEF RecordUpload, Record, Flag, At, TypeOK, db, disk

LEMMA VerifyEffect ==
  ASSUME TypeOK, NEW c \in Clients, VerifyProof(c)
  PROVE  /\ OnlyMoves(c) /\ UNCHANGED Stores /\ job[c].pc = "prove"
         /\ \/ job'[c].pc = "hung"
               /\ \E i \in Nat : i < Len(Content[job[c].file])
                                 /\ Cardinality(RowsAt(job[c].file, i)) # 1
            \/ job'[c].pc = "isOwner" /\ job'[c].file = job[c].file
            \/ job'[c].pc = "idle"
<1>1. job[c].pc = "prove" /\ UNCHANGED Stores
  BY DEF VerifyProof, At, Stores, db, disk
<1>2. job[c].todo \subseteq Nat /\ Len(Content[job[c].file]) \in Nat
  BY JobType, DedupAssumption DEF Job
<1>3. \A j \in Job : LET k == [j EXCEPT !.pc = "isOwner", !.todo = {}] IN
        k.pc = "isOwner" /\ k.file = j.file
  BY DEF Job
<1>4. CASE Become(c, Idle)
  BY <1>1, <1>4, Ended
<1>5. CASE Become(c, [job[c] EXCEPT !.pc = "isOwner", !.todo = {}])
  <2>1. OnlyMoves(c) /\ job'[c] = [job[c] EXCEPT !.pc = "isOwner", !.todo = {}]
    BY <1>5, BecomeEffect
  <2> QED BY <1>1, <1>3, <2>1, JobType
<1>6. CASE /\ ~\E i \in job[c].todo : i >= Len(Content[Flag(c)])
           /\ \E i \in job[c].todo : Cardinality(RowsAt(Flag(c), i)) # 1
           /\ Hang(c)
  <2>1. PICK i \in job[c].todo : Cardinality(RowsAt(job[c].file, i)) # 1
    BY <1>6 DEF Flag
  <2>2. i \in Nat /\ i < Len(Content[job[c].file])
    BY <1>2, <1>6, <2>1 DEF Flag
  <2> QED BY <1>1, <1>6, <2>1, <2>2, HangEffect
<1> QED BY <1>4, <1>5, <1>6 DEF VerifyProof

LEMMA IsOwnerEffect ==
  ASSUME TypeOK, NEW c \in Clients, IsOwner(c)
  PROVE  /\ OnlyMoves(c) /\ UNCHANGED Stores /\ job[c].pc = "isOwner"
         /\ \/ /\ job'[c].pc = "hung"
               /\ Ambiguous(job[c].file) \/ Cardinality(OwnerRows(job[c].file, c)) > 1
            \/ /\ job'[c].pc = "enrol" /\ job'[c].file = job[c].file
               /\ OwnerRows(job[c].file, c) = {}
            \/ job'[c].pc = "idle"
BY HangEffect, Ended, Moved DEF IsOwner, At, Flag, Keeps, Stores, db, disk

LEMMA ReadEffect ==
  ASSUME TypeOK, Faults \subseteq {"rsync"}, NEW c \in Clients, ReadFileAsset(c)
  PROVE  /\ OnlyMoves(c) /\ UNCHANGED Stores /\ job[c].pc = "read"
         /\ \/ job'[c].pc = "hung" /\ {a \in ledger : a.upid = job[c].upid} = {}
            \/ job'[c].pc = "disown" /\ Keeps(c)
            \/ job'[c].pc = "idle"
<1>1. /\ job[c].pc = "read" /\ UNCHANGED Stores
      /\ \/ Hang(c) /\ {a \in ledger : a.upid = job[c].upid} = {}
         \/ Goto(c, "disown") \/ Become(c, Idle)
  BY DEF ReadFileAsset, Fault, At, Stores, db, disk
<1> QED BY <1>1, HangEffect, Moved, Ended

LEMMA DisownEffect ==
  ASSUME TypeOK, NEW c \in Clients, DeleteOwner(c)
  PROVE  /\ OnlyMoves(c) /\ job[c].pc = "disown"
         /\ UNCHANGED <<files, details, nextId, block, backup, counter, ledger, local>>
         /\ \/ job'[c].pc = "hung" /\ Ambiguous(job[c].file) /\ UNCHANGED owners
            \/ job'[c].pc = "hasOwner" /\ Keeps(c) /\ owners' = owners \ OwnerRows(job[c].file, c)
BY HangEffect, Moved DEF DeleteOwner, At, Flag, disk

LEMMA HasOwnerEffect ==
  ASSUME TypeOK, NEW c \in Clients, HasOwner(c)
  PROVE  /\ OnlyMoves(c) /\ UNCHANGED Stores /\ job[c].pc = "hasOwner"
         /\ \/ job'[c].pc = "hung" /\ Ambiguous(job[c].file)
            \/ job'[c].pc = "fileId" /\ Keeps(c) /\ OwnersOf(job[c].file) = {}
            \/ job'[c].pc = "rsyncDelete" /\ Keeps(c)
BY HangEffect, Moved DEF HasOwner, At, Flag, Stores, db, disk

LEMMA FileIdEffect ==
  ASSUME TypeOK, NEW c \in Clients, GetFileId(c)
  PROVE  /\ OnlyMoves(c) /\ UNCHANGED Stores /\ job[c].pc = "fileId"
         /\ \/ job'[c].pc = "hung" /\ Ambiguous(job[c].file)
            \/ /\ job'[c].pc = "noUseTag" /\ job'[c].file = job[c].file
               /\ job'[c].upid = job[c].upid /\ job'[c].num = FileId(job[c].file)
<1>1. job[c].pc = "fileId" /\ UNCHANGED Stores
  BY DEF GetFileId, At, Stores, db, disk
<1>2. CASE Ambiguous(Flag(c)) /\ Hang(c)
  BY <1>1, <1>2, HangEffect DEF Flag
<1>3. CASE Become(c, [job[c] EXCEPT !.pc = "noUseTag", !.num = FileId(Flag(c))])
  <2>1. \A n : \A j \in Job : LET k == [j EXCEPT !.pc = "noUseTag", !.num = n] IN
          k.pc = "noUseTag" /\ k.file = j.file /\ k.upid = j.upid /\ k.num = n
    BY DEF Job
  <2>2. OnlyMoves(c) /\ job'[c] = [job[c] EXCEPT !.pc = "noUseTag", !.num = FileId(Flag(c))]
    BY <1>3, BecomeEffect
  <2> QED BY <1>1, <2>1, <2>2, JobType DEF Flag
<1> QED BY <1>2, <1>3 DEF GetFileId

LEMMA NoUseTagEffect ==
  ASSUME TypeOK, NEW c \in Clients, GetNoUseTag(c)
  PROVE  /\ OnlyMoves(c) /\ UNCHANGED Stores /\ job[c].pc = "noUseTag"
         /\ job'[c].pc = "unlink" /\ job'[c].file = job[c].file
         /\ job'[c].upid = job[c].upid /\ job'[c].todo = NoUseTag(job[c].num)
<1>1. \A n, S : \A j \in Job : LET k == [j EXCEPT !.pc = "unlink", !.num = n, !.todo = S] IN
        k.pc = "unlink" /\ k.file = j.file /\ k.upid = j.upid /\ k.todo = S
  BY DEF Job
<1>2. OnlyMoves(c) /\ job'[c] = [job[c] EXCEPT !.pc = "unlink", !.num = 0,
                                               !.todo = NoUseTag(job[c].num)]
  BY BecomeEffect DEF GetNoUseTag
<1> QED BY <1>1, <1>2, JobType DEF GetNoUseTag, At, Stores, db, disk

LEMMA UnlinkEffect ==
  ASSUME TypeOK, NEW c \in Clients, UnlinkBlock(c)
  PROVE  /\ OnlyMoves(c) /\ job[c].pc = "unlink"
         /\ UNCHANGED <<files, details, owners, nextId, backup, counter, ledger, local>>
         /\ \E id \in job[c].todo :
              \/ /\ job'[c].pc = "hung" /\ UNCHANGED block
                 /\ ~\E d \in details : d.id = id
              \/ /\ job'[c].pc = "unlink" /\ job'[c].file = job[c].file
                 /\ job'[c].upid = job[c].upid /\ job'[c].todo = job[c].todo \ {id}
                 /\ \E d \in details : d.id = id /\ block' = [block EXCEPT ![d.tag] = "absent"]
<1>1. /\ job[c].pc = "unlink"
      /\ UNCHANGED <<files, details, owners, nextId, backup, counter, ledger, local>>
  BY DEF UnlinkBlock, At, db
<1>2. PICK id \in job[c].todo :
        IF \E d \in details : d.id = id
          THEN /\ \E d \in details : d.id = id /\ block' = [block EXCEPT ![d.tag] = "absent"]
               /\ Become(c, [job[c] EXCEPT !.todo = @ \ {id}])
          ELSE Hang(c) /\ UNCHANGED block
  BY DEF UnlinkBlock
<1>3. CASE ~\E d \in details : d.id = id
  BY <1>1, <1>2, <1>3, HangEffect
<1>4. CASE /\ \E d \in details : d.id = id /\ block' = [block EXCEPT ![d.tag] = "absent"]
           /\ Become(c, [job[c] EXCEPT !.todo = @ \ {id}])
  <2>1. \A j \in Job : LET k == [j EXCEPT !.todo = @ \ {id}] IN
          k.pc = j.pc /\ k.file = j.file /\ k.upid = j.upid /\ k.todo = j.todo \ {id}
    BY DEF Job
  <2>2. OnlyMoves(c) /\ job'[c] = [job[c] EXCEPT !.todo = @ \ {id}]
    BY <1>4, BecomeEffect
  <2> QED BY <1>1, <1>4, <2>1, <2>2, JobType
<1> QED BY <1>2, <1>3, <1>4

LEMMA DeleteFileEffect ==
  ASSUME TypeOK, CascadeDetails, NEW c \in Clients, DeleteFile(c)
  PROVE  /\ OnlyMoves(c) /\ Keeps(c) /\ job[c].pc = "unlink" /\ job'[c].pc = "rsyncDelete"
         /\ job[c].todo = {}
         /\ UNCHANGED <<nextId, block, backup, counter, ledger, local>>
         /\ files' = files \ FileRows(job[c].file)
         /\ details' = {d \in details : d.fileid \notin {r.id : r \in FileRows(job[c].file)}}
         /\ owners' = {o \in owners : o.fileid \notin {r.id : r \in FileRows(job[c].file)}}
BY Moved DEF DeleteFile, At, Flag, disk

LEMMA DeleteAssetEffect ==
  ASSUME TypeOK, Faults \subseteq {"rsync"}, NEW c \in Clients, DeleteAsset(c)
  PROVE  /\ OnlyMoves(c) /\ job[c].pc = "deleteAsset"
         /\ UNCHANGED <<files, details, owners, nextId, block, backup, counter, local>>
         /\ ledger' = {a \in ledger : a.upid # job[c].upid}
         /\ \/ job'[c].pc = "hung" /\ {a \in ledger : a.upid = job[c].upid} = {}
            \/ job'[c].pc = "forget" /\ Keeps(c)
<1>1. /\ job[c].pc = "deleteAsset"
      /\ UNCHANGED <<files, details, owners, nextId, block, backup, counter, local>>
      /\ ledger' = ledger \ {a \in ledger : a.upid = job[c].upid}
      /\ IF {a \in ledger : a.upid = job[c].upid} = {} THEN Hang(c) ELSE Goto(c, "forget")
  BY DEF DeleteAsset, AssetNamed, Fault, At, db, disk
<1> QED BY <1>1, HangEffect, Moved

LEMMA ForgetEffect ==
  ASSUME TypeOK, NEW c \in Clients, ForgetUpload(c)
  PROVE  /\ OnlyMoves(c) /\ job[c].pc = "forget" /\ job'[c].pc = "idle"
         /\ UNCHANGED <<files, details, owners, nextId, block, backup, counter, ledger>>
         /\ local'[c] = local[c] \ {[flag |-> job[c].file, upid |-> job[c].upid]}
         /\ \A e \in Clients : e # c => local'[e] = local[e]
BY Ended DEF ForgetUpload, Record, Flag, At, TypeOK, db, disk

LEMMA LookupEffect ==
  ASSUME TypeOK, NEW c \in Clients, LookupBlock(c)
  PROVE  /\ OnlyMoves(c) /\ UNCHANGED Stores /\ job[c].pc = "lookup"
         /\ \/ /\ job'[c].pc = "hung"
               /\ Cardinality(RowsAt(job[c].file, job[c].idx)) > 1
            \/ /\ job'[c].pc = "downloaded" /\ Keeps(c)
               /\ RowsAt(job[c].file, job[c].idx) = {}
            \/ /\ job'[c].pc = "fetchBlock"
               /\ job'[c].file = job[c].file /\ job'[c].idx = job[c].idx
               /\ \E d \in RowsAt(job[c].file, job[c].idx) : job'[c].tag = d.tag
<1> DEFINE rows == RowsAt(job[c].file, job[c].idx)
<1>1. job[c].pc = "lookup" /\ UNCHANGED Stores
  BY DEF LookupBlock, At, Stores, db, disk
<1>2. CASE rows = {} /\ Goto(c, "downloaded")
  BY <1>1, <1>2, Moved
<1>3. CASE Cardinality(rows) > 1 /\ Hang(c)
  BY <1>1, <1>3, HangEffect
<1>4. CASE \E d \in rows : Become(c, [job[c] EXCEPT !.pc = "fetchBlock", !.tag = d.tag])
  <2>1. \A T : \A j \in Job : LET k == [j EXCEPT !.pc = "fetchBlock", !.tag = T] IN
          k.pc = "fetchBlock" /\ k.file = j.file /\ k.idx = j.idx /\ k.tag = T
    BY DEF Job
  <2>2. PICK d \in rows : Become(c, [job[c] EXCEPT !.pc = "fetchBlock", !.tag = d.tag])
    BY <1>4
  <2>3. OnlyMoves(c) /\ job'[c] = [job[c] EXCEPT !.pc = "fetchBlock", !.tag = d.tag]
    BY <2>2, BecomeEffect
  <2>4. /\ job'[c].pc = "fetchBlock" /\ job'[c].file = job[c].file
        /\ job'[c].idx = job[c].idx /\ job'[c].tag = d.tag
    BY <2>1, <2>3, JobType
  <2> QED BY <1>1, <2>2, <2>3, <2>4
<1> QED BY <1>2, <1>3, <1>4 DEF LookupBlock, Flag

LEMMA FetchBlockEffect ==
  ASSUME TypeOK, NEW c \in Clients, FetchBlock(c)
  PROVE  /\ OnlyMoves(c) /\ UNCHANGED Stores /\ job[c].pc = "fetchBlock"
         /\ \/ job'[c].pc = "hung" /\ block[job[c].tag] = "absent"
            \/ job'[c].pc = "idle"
            \/ /\ job'[c].pc = "lookup" /\ job'[c].file = job[c].file
               /\ job'[c].idx = job[c].idx + 1
<1>1. job[c].pc = "fetchBlock" /\ UNCHANGED Stores
  BY DEF FetchBlock, At, Stores, db, disk
<1>2. \/ block[job[c].tag] = "absent" /\ Hang(c)
      \/ Become(c, Idle)
      \/ Become(c, [job[c] EXCEPT !.pc = "lookup", !.idx = @ + 1])
  BY DEF FetchBlock
<1>3. CASE Become(c, [job[c] EXCEPT !.pc = "lookup", !.idx = @ + 1])
  <2>1. \A j \in Job : LET k == [j EXCEPT !.pc = "lookup", !.idx = @ + 1] IN
          k.pc = "lookup" /\ k.file = j.file /\ k.idx = j.idx + 1
    BY DEF Job
  <2>2. OnlyMoves(c) /\ job'[c] = [job[c] EXCEPT !.pc = "lookup", !.idx = @ + 1]
    BY <1>3, BecomeEffect
  <2> QED BY <1>1, <2>1, <2>2, JobType
<1> QED BY <1>1, <1>2, <1>3, HangEffect, Ended

LEMMA FinishEffect ==
  ASSUME TypeOK, NEW c \in Clients, FinishDownload(c)
  PROVE  /\ OnlyMoves(c) /\ UNCHANGED Stores /\ job[c].pc = "downloaded" /\ job'[c].pc = "idle"
BY Ended DEF FinishDownload, At, Stores, db, disk

----------------------------------------------------------------------------
(* Clients that take turns store whole files *)

Storing == Filing \ {"count", "insert"}
Known == Uploading \ Filing

\* How many blocks of its file have a row, when c is storing it.
Sent(c) == IF job[c].pc \in {"getCounter", "setCounter"} THEN job[c].idx + 1 ELSE job[c].idx

\* The file has one row for each of its first n blocks, and no other.
Filed(f, n) ==
  /\ \A i \in 0 .. n - 1 : \E d \in details : RowsAt(f, i) = {d}
  /\ \A d \in details, r \in FileRows(f) : d.fileid = r.id => d.index < n
Whole(f) == Filed(f, Len(Content[f]))

BeingStored(c) ==
  /\ FileRows(job[c].file) # {} /\ OwnersOf(job[c].file) = {}
  /\ Filed(job[c].file, Sent(c))
  /\ IF job[c].pc = "send" THEN job[c].idx <= Len(Content[job[c].file])
     ELSE job[c].idx < Len(Content[job[c].file])

\* Every flag has one files row, and every other row belongs to one.
TablesInv ==
  /\ \A r, s \in files : r.flag = s.flag => r = s
  /\ \A d \in details : \E r \in files : r.id = d.fileid
  /\ \A o \in owners : \E r \in files : r.id = o.fileid
  /\ \A d \in details : d.id < nextId.details
  /\ \A d, e \in details : d.id = e.id => d = e

\* A file is whole but while one client, and no other, is storing it.
FilingInv ==
  /\ \A c \in Clients : job[c].pc \in {"count", "insert"} => job[c].idx = 0
  /\ \A c \in Clients : job[c].pc = "insert" => FileRows(job[c].file) = {}
  /\ \A c \in Clients : job[c].pc \in Storing => BeingStored(c)
  /\ \A r \in files : \/ Whole(r.flag)
                      \/ \E c \in Clients : job[c].pc \in Storing /\ job[c].file = r.flag
  /\ \A c \in Clients : job[c].pc \in Known => FileRows(job[c].file) # {}
  /\ \A c, e \in Clients :
       c # e /\ job[c].pc \in Storing \cup {"insert"} /\ job[e].pc \in Uploading =>
         job[c].file # job[e].file

LEMMA PcKinds ==
  /\ Storing = {"send", "open", "write", "detail", "link", "getCounter", "setCounter"}
  /\ Known = {"rsync", "fetch", "clear", "create", "record", "prove", "isOwner", "enrol",
              "createProven"}
  /\ Filing = Storing \cup {"count", "insert"} /\ Uploading = Filing \cup Known
BY DEF Storing, Known, Filing, Uploading

\* With one row to a flag the subqueries mean what they say.
LEMMA OneRow ==
  ASSUME TypeOK, TablesInv, NEW r \in files
  PROVE  /\ FileRows(r.flag) = {r} /\ FileId(r.flag) = r.id /\ r.id \in Nat /\ r.id # NULL
         /\ ~Ambiguous(r.flag) /\ Insertable(r.flag)
         /\ RowsOf(r.flag) = {d \in details : d.fileid = r.id}
         /\ OwnersOf(r.flag) = {o \in owners : o.fileid = r.id}
         /\ \A i : RowsAt(r.flag, i) = {d \in details : d.index = i /\ d.fileid = r.id}
<1>1. FileRows(r.flag) = {r}
  BY DEF TablesInv, FileRows
<1>2. r.id \in Nat /\ r.id # NULL
  BY DEF TypeOK, Ids
<1>3. FileId(r.flag) = r.id /\ ~Ambiguous(r.flag) /\ Insertable(r.flag)
  BY <1>1 DEF FileId, Ambiguous, Insertable
<1> QED BY <1>1, <1>2, <1>3 DEF RowsOf, OwnersOf, RowsAt

LEMMA NoRow ==
  ASSUME NEW f, FileRows(f) = {}
  PROVE  /\ FileId(f) = NULL /\ ~Ambiguous(f)
         /\ RowsOf(f) = {} /\ OwnersOf(f) = {} /\ \A i : RowsAt(f, i) = {}
BY DEF FileId, Ambiguous, RowsOf, OwnersOf, RowsAt

LEMMA RowsFlag == ASSUME NEW f, FileRows(f) # {} PROVE \E r \in files : r.flag = f
BY DEF FileRows

LEMMA ContentLen ==
  ASSUME NEW f \in Files PROVE Len(Content[f]) \in Nat /\ Len(Content[f]) > 0
<1>1. Content[f] \in Seq(Tags) /\ Content[f] # <<>>
  BY DedupAssumption
<1> QED BY <1>1

LEMMA FileOfJob == ASSUME TypeOK, NEW c \in Clients PROVE job[c].file \in Files /\ job[c].idx \in Nat
BY JobType DEF Job

\* No row of the file, no row of a block; a whole file has a row.
LEMMA WholeHasRows ==
  ASSUME TypeOK, TablesInv, NEW r \in files, Whole(r.flag)
  PROVE  RowsOf(r.flag) # {}
<1>1. r.flag \in Files
  BY DEF TypeOK
<1>2. PICK d \in details : RowsAt(r.flag, 0) = {d}
  BY <1>1, ContentLen DEF Whole, Filed
<1> QED BY <1>2, OneRow

LEMMA FilingInit == Init => TablesInv /\ FilingInv /\ TakeTurns
BY PcKinds, IdlePc DEF Init, TablesInv, FilingInv, TakeTurns, Removing

\* The tables stay as they are and c's part is in order.
LEMMA FilingKept ==
  ASSUME FilingInv, NEW c \in Clients, OnlyMoves(c), UNCHANGED <<files, details, owners>>,
         job'[c].pc \in {"count", "insert"} => job'[c].idx = 0,
         job'[c].pc = "insert" => FileRows(job'[c].file) = {},
         job'[c].pc \in Storing => BeingStored(c)',
         job[c].pc \in Storing => job'[c].pc \in Storing /\ job'[c].file = job[c].file,
         job'[c].pc \in Known => FileRows(job'[c].file) # {},
         \A e \in Clients : e # c =>
           /\ job'[c].pc \in Storing \cup {"insert"} /\ job[e].pc \in Uploading =>
                job'[c].file # job[e].file
           /\ job[e].pc \in Storing \cup {"insert"} /\ job'[c].pc \in Uploading =>
                job'[c].file # job[e].file
  PROVE  FilingInv'
<1>1. \A e \in Clients : e # c => job'[e] = job[e]
  BY DEF OnlyMoves
<1>2. /\ \A f : FileRows(f)' = FileRows(f) /\ OwnersOf(f)' = OwnersOf(f)
      /\ \A f, n : Filed(f, n)' = Filed(f, n)
  BY DEF FileRows, OwnersOf, FileId, Filed, RowsAt
<1>3. ASSUME NEW e \in Clients, job'[e].pc \in Storing PROVE BeingStored(e)'
  BY <1>1, <1>2, <1>3 DEF FilingInv, BeingStored, Sent
<1>4. ASSUME NEW r \in files
      PROVE  \/ Whole(r.flag)'
             \/ \E e \in Clients : job'[e].pc \in Storing /\ job'[e].file = r.flag
  <2>1. CASE Whole(r.flag)
    BY <2>1, <1>2 DEF Whole
  <2>2. CASE \E e \in Clients : job[e].pc \in Storing /\ job[e].file = r.flag
    BY <2>2, <1>1
  <2> QED BY <2>1, <2>2 DEF FilingInv
<1>5. ASSUME NEW b \in Clients, NEW e \in Clients, b # e,
             job'[b].pc \in Storing \cup {"insert"}, job'[e].pc \in Uploading
      PROVE  job'[b].file # job'[e].file
  <2>1. CASE b = c
    BY <2>1, <1>1, <1>5
  <2>2. CASE e = c
    BY <2>2, <1>1, <1>5
  <2>3. CASE b # c /\ e # c
    BY <2>3, <1>1, <1>5 DEF FilingInv
  <2> QED BY <2>1, <2>2, <2>3
<1>6. \A e \in Clients : /\ job'[e].pc \in {"count", "insert"} => job'[e].idx = 0
                         /\ job'[e].pc = "insert" => FileRows(job'[e].file) = {}
                         /\ job'[e].pc \in Known => FileRows(job'[e].file) # {}
  BY <1>1 DEF FilingInv
<1> QED BY <1>2, <1>3, <1>4, <1>5, <1>6 DEF FilingInv

LEMMA FilingAside ==
  ASSUME FilingInv, NEW c \in Clients, OnlyMoves(c), UNCHANGED <<files, details, owners>>,
         job[c].pc \notin Storing,
         \/ job'[c].pc \notin Uploading
         \/ job[c].pc \in Known /\ job'[c].pc \in Known /\ job'[c].file = job[c].file
  PROVE  FilingInv'
<1>1. CASE job'[c].pc \notin Uploading
  BY <1>1, PcKinds, FilingKept
<1>2. CASE job[c].pc \in Known /\ job'[c].pc \in Known /\ job'[c].file = job[c].file
  <2>1. /\ job'[c].pc \notin Storing \cup {"count", "insert"}
        /\ job[c].pc \in Uploading /\ FileRows(job[c].file) # {}
    BY <1>2, PcKinds DEF FilingInv
  <2>2. \A e \in Clients : e # c /\ job[e].pc \in Storing \cup {"insert"} =>
          job'[c].file # job[e].file
    BY <1>2, <2>1 DEF FilingInv
  <2> QED BY <1>2, <2>1, <2>2, FilingKept
<1> QED BY <1>1, <1>2

LEMMA FilingStoring ==
  ASSUME FilingInv, NEW c \in Clients, OnlyMoves(c), UNCHANGED <<files, details, owners>>,
         job[c].pc \in Storing, job'[c].pc \in Storing, job'[c].file = job[c].file,
         Sent(c)' = Sent(c),
         IF job'[c].pc = "send" THEN job'[c].idx <= Len(Content[job[c].file])
         ELSE job'[c].idx < Len(Content[job[c].file])
  PROVE  FilingInv'
<1>1. /\ \A f : FileRows(f)' = FileRows(f) /\ OwnersOf(f)' = OwnersOf(f)
      /\ \A f, n : Filed(f, n)' = Filed(f, n)
  BY DEF FileRows, OwnersOf, FileId, Filed, RowsAt
<1>2. BeingStored(c)'
  BY <1>1 DEF FilingInv, BeingStored, Sent
<1>3. /\ job'[c].pc \notin {"count", "insert"} \cup Known
      /\ job[c].pc \in Uploading /\ job'[c].pc \in Uploading
  BY PcKinds
<1> QED BY <1>2, <1>3, FilingKept DEF FilingInv

LEMMA CountFiling ==
  ASSUME TypeOK, TablesInv, TakeTurns, FilingInv, NEW c \in Clients, CountBlocks(c)
  PROVE  FilingInv'
<1> DEFINE f == job[c].file
<1>1. OnlyMoves(c) /\ job[c].pc = "count" /\ UNCHANGED <<files, details, owners>>
  BY CountEffect DEF Stores
<1>2. job[c].pc \notin Storing /\ job[c].pc \in Filing /\ job[c].pc \in Uploading
  BY <1>1, PcKinds
<1>3. CASE job'[c].pc = "hung"
  BY <1>1, <1>2, <1>3, FilingAside, PcKinds
<1>t. \A e \in Clients : e # c /\ job[e].pc \in Filing => job[e].file # f
  BY <1>2 DEF TakeTurns, Flag
<1>4. CASE job'[c].pc = "insert" /\ Keeps(c) /\ RowsOf(f) = {}
  <2>1. FileRows(f) = {}
    <3>1. SUFFICES ASSUME FileRows(f) # {} PROVE FALSE
      OBVIOUS
    <3>2. PICK r \in files : r.flag = f
      BY <3>1, RowsFlag
    <3>3. ~\E e \in Clients : job[e].pc \in Storing /\ job[e].file = f
      BY <1>2, <1>t, PcKinds
    <3>4. Whole(f)
      BY <3>2, <3>3 DEF FilingInv
    <3> QED BY <1>4, <3>2, <3>4, WholeHasRows
  <2>2. \A e \in Clients : e # c /\ job[e].pc \in Uploading => job[e].file # f
    <3>1. \A e \in Clients : job[e].pc \in Known => job[e].file # f
      BY <2>1 DEF FilingInv
    <3> QED BY <3>1, <1>t, PcKinds
  <2>3. \A e \in Clients : e # c /\ job[e].pc \in Storing \cup {"insert"} => job[e].file # f
    BY <1>t, PcKinds
  <2>4. job'[c].pc \notin Storing \cup Known /\ job'[c].idx = 0 /\ job'[c].file = f
    BY <1>1, <1>4, PcKinds DEF FilingInv, Keeps
  <2>5. FileRows(job'[c].file) = {}
    BY <2>1, <2>4
  <2> QED BY <1>1, <1>2, <2>2, <2>3, <2>4, <2>5, FilingKept
<1>5. CASE job'[c].pc = "prove" /\ job'[c].file = f /\ RowsOf(f) # {}
  <2>1. FileRows(f) # {}
    BY <1>5, NoRow
  <2>2. job'[c].pc \notin Storing \cup {"count", "insert"}
    BY <1>5, PcKinds
  <2>3. \A e \in Clients : e # c /\ job[e].pc \in Storing \cup {"insert"} => job[e].file # f
    BY <1>t, PcKinds
  <2> QED BY <1>1, <1>2, <1>5, <2>1, <2>2, <2>3, FilingKept
<1> QED BY <1>3, <1>4, <1>5, CountEffect

\* The steps of an upload that only move the client that stores the file on.
LEMMA StoringFiling ==
  ASSUME TypeOK, FilingInv, NEW c \in Clients,
         TestTag(c) \/ OpenBlock(c) \/ WriteBlock(c) \/ GetCounter(c) \/ SetCounter(c)
  PROVE  FilingInv'
<1> DEFINE f == job[c].file
<1>n. job[c].idx \in Nat /\ Len(Content[f]) \in Nat
  BY FileOfJob, ContentLen
<1>s. job[c].pc \in Storing => BeingStored(c)
  BY DEF FilingInv
<1>1. CASE TestTag(c)
  <2>1. /\ OnlyMoves(c) /\ job'[c].file = f /\ job'[c].idx = job[c].idx
        /\ job[c].pc = "send" /\ job'[c].pc \in {"open", "link"} /\ job[c].idx < Len(Content[f])
        /\ UNCHANGED <<files, details, owners>>
    BY <1>1, TestTagEffect, TestEffect DEF Flag, Stores
  <2> QED BY <2>1, FilingStoring, PcKinds DEF Sent
<1>2. CASE OpenBlock(c)
  <2>1. /\ OnlyMoves(c) /\ job'[c].file = f /\ job'[c].idx = job[c].idx
        /\ job[c].pc = "open" /\ job'[c].pc = "write" /\ UNCHANGED <<files, details, owners>>
    BY <1>2, OpenEffect DEF Keeps
  <2> QED BY <2>1, <1>s, FilingStoring, PcKinds DEF Sent, BeingStored
<1>3. CASE WriteBlock(c)
  <2>1. /\ OnlyMoves(c) /\ job'[c].file = f /\ job'[c].idx = job[c].idx
        /\ job[c].pc = "write" /\ job'[c].pc = "detail" /\ UNCHANGED <<files, details, owners>>
    BY <1>3, WriteEffect DEF Keeps
  <2> QED BY <2>1, <1>s, FilingStoring, PcKinds DEF Sent, BeingStored
<1>4. CASE GetCounter(c)
  <2>1. /\ OnlyMoves(c) /\ job'[c].file = f /\ job'[c].idx = job[c].idx
        /\ job[c].pc = "getCounter" /\ job'[c].pc = "setCounter"
        /\ UNCHANGED <<files, details, owners>>
    BY <1>4, GetCounterEffect DEF Stores
  <2> QED BY <2>1, <1>s, FilingStoring, PcKinds DEF Sent, BeingStored
<1>5. CASE SetCounter(c)
  <2>1. /\ OnlyMoves(c) /\ job'[c].file = f /\ job'[c].idx = job[c].idx + 1
        /\ job[c].pc = "setCounter" /\ job'[c].pc = "send" /\ UNCHANGED <<files, details, owners>>
    BY <1>5, SetCounterEffect
  <2>2. job[c].idx < Len(Content[f])
    BY <2>1, <1>s, PcKinds DEF BeingStored
  <2>3. Sent(c)' = Sent(c) /\ job'[c].idx <= Len(Content[f])
    BY <2>1, <2>2, <1>n DEF Sent
  <2> QED BY <2>1, <2>3, FilingStoring, PcKinds
<1> QED BY <1>1, <1>2, <1>3, <1>4, <1>5

LEMMA InsertFiling ==
  ASSUME TypeOK, RowsInv, TablesInv, TakeTurns, FilingInv, NEW c \in Clients, InsertFile(c)
  PROVE  TablesInv' /\ FilingInv'
<1>f. PICK f : f = job[c].file
  OBVIOUS
<1>m. PICK n : n = nextId.files
  OBVIOUS
<1>0. job[c].pc = "insert" /\ FileRows(f) = {} /\ job[c].idx = 0
  BY <1>f, InsertEffect DEF FilingInv
<1>1. /\ OnlyMoves(c) /\ Keeps(c) /\ job'[c].pc = "send"
      /\ UNCHANGED <<details, owners>>
      /\ nextId'.details = nextId.details
      /\ files' = files \cup {[id |-> n, flag |-> f]}
  BY <1>f, <1>m, <1>0, InsertEffect
<1>2. job'[c].file = f /\ job'[c].idx = 0 /\ \A e \in Clients : e # c => job'[e] = job[e]
  BY <1>f, <1>0, <1>1 DEF Keeps, OnlyMoves
<1>3. PICK new : new = [id |-> n, flag |-> f]
  OBVIOUS
<1>4. new.id = n /\ new.flag = f /\ files' = files \cup {new}
  BY <1>1, <1>3
<1>5. n \in Nat /\ n # NULL /\ \A r \in files : r.id < n /\ r.id \in Nat
  BY <1>m DEF TypeOK, Ids, RowsInv
<1>6. \A r \in files : r.flag # f
  BY <1>0 DEF FileRows
<1>7. /\ \A d \in details : d.fileid < n /\ d.fileid \in Nat
      /\ \A o \in owners : o.fileid < n /\ o.fileid \in Nat
  BY <1>5 DEF TablesInv, TypeOK
<1>8. TablesInv'
  BY <1>1, <1>4, <1>6 DEF TablesInv
<1>9. \A g : g # f => FileRows(g)' = FileRows(g)
  BY <1>4 DEF FileRows
<1>10. ASSUME NEW g, g # f
       PROVE  OwnersOf(g)' = OwnersOf(g) /\ \A m : Filed(g, m)' = Filed(g, m)
  <2>1. FileRows(g)' = FileRows(g) /\ details' = details /\ owners' = owners
    BY <1>1, <1>9, <1>10
  <2>2. \A i : RowsAt(g, i)' = RowsAt(g, i)
    BY <2>1 DEF RowsAt
  <2>3. FileId(g)' = FileId(g)
    BY <2>1 DEF FileId
  <2> QED BY <2>1, <2>2, <2>3 DEF OwnersOf, Filed
<1>11. FileRows(f)' = {new}
  BY <1>4, <1>6 DEF FileRows
<1>12. OwnersOf(f)' = {}
  BY <1>1, <1>4, <1>7, <1>11 DEF OwnersOf, FileId
<1>13. Filed(f, 0)'
  BY <1>1, <1>4, <1>7, <1>11 DEF Filed
<1>14. BeingStored(c)'
  <2>1. Sent(c)' = 0 /\ 0 <= Len(Content[f])
    BY <1>f, <1>1, <1>2, FileOfJob, ContentLen DEF Sent
  <2> QED BY <1>1, <1>2, <1>11, <1>12, <1>13, <2>1 DEF BeingStored
<1>15. \A e \in Clients : e # c /\ job[e].pc \in Uploading => job[e].file # f
  BY <1>f, <1>0 DEF FilingInv
<1>16. ASSUME NEW e \in Clients, job'[e].pc \in Storing PROVE BeingStored(e)'
  <2>1. CASE e = c
    BY <2>1, <1>14
  <2>2. CASE e # c
    <3>1. job'[e] = job[e] /\ BeingStored(e) /\ job[e].file # f
      BY <2>2, <1>2, <1>15, <1>16, PcKinds DEF FilingInv
    <3>2. PICK g : g = job[e].file
      OBVIOUS
    <3>3. PICK m : m = Sent(e)
      OBVIOUS
    <3>4. g = job'[e].file /\ m = Sent(e)'
      BY <3>1, <3>2, <3>3 DEF Sent
    <3>5. FileRows(g)' # {} /\ OwnersOf(g)' = {} /\ Filed(g, m)'
      BY <3>1, <3>2, <3>3, <1>9, <1>10 DEF BeingStored
    <3> QED BY <3>1, <3>2, <3>4, <3>5 DEF BeingStored
  <2> QED BY <2>1, <2>2
<1>17. ASSUME NEW r \in files'
       PROVE  \/ Whole(r.flag)'
              \/ \E e \in Clients : job'[e].pc \in Storing /\ job'[e].file = r.flag
  <2>1. CASE r = new
    BY <2>1, <1>1, <1>2, <1>4, PcKinds
  <2>2. CASE r \in files
    <3>1. r.flag # f
      BY <1>6, <2>2
    <3>2. CASE Whole(r.flag)
      BY <3>1, <3>2, <1>10 DEF Whole
    <3>3. CASE \E e \in Clients : job[e].pc \in Storing /\ job[e].file = r.flag
      BY <3>1, <3>3, <1>0, <1>2, PcKinds
    <3> QED BY <2>2, <3>2, <3>3 DEF FilingInv
  <2> QED BY <1>4, <2>1, <2>2
<1>18. \A e \in Clients : /\ job'[e].pc \in {"count", "insert"} => job'[e].idx = 0
                          /\ job'[e].pc = "insert" => FileRows(job[e].file)' = {}
                          /\ job'[e].pc \in Known => FileRows(job[e].file)' # {}
  <2>1. job'[c].pc \notin {"count", "insert"} \cup Known
    BY <1>1, PcKinds
  <2>2. \A e \in Clients : e # c /\ job[e].pc \in {"insert"} \cup Known => job[e].file # f
    BY <1>15, PcKinds
  <2>3. ASSUME NEW e \in Clients, e # c
        PROVE  /\ job'[e].pc \in {"count", "insert"} => job'[e].idx = 0
               /\ job'[e].pc = "insert" => FileRows(job[e].file)' = {}
               /\ job'[e].pc \in Known => FileRows(job[e].file)' # {}
    <3>1. PICK g : g = job[e].file
      OBVIOUS
    <3>2. job'[e] = job[e] /\ g = job'[e].file
      BY <1>2, <2>3, <3>1
    <3> QED BY <3>1, <3>2, <2>2, <2>3, <1>9 DEF FilingInv
  <2> QED BY <2>1, <2>3
<1>19. ASSUME NEW b \in Clients, NEW e \in Clients, b # e,
              job'[b].pc \in Storing \cup {"insert"}, job'[e].pc \in Uploading
       PROVE  job'[b].file # job'[e].file
  <2>1. CASE b = c
    BY <2>1, <1>2, <1>15, <1>19
  <2>2. CASE e = c
    BY <2>2, <1>2, <1>15, <1>19, PcKinds
  <2>3. CASE b # c /\ e # c
    BY <2>3, <1>2, <1>19 DEF FilingInv
  <2> QED BY <2>1, <2>2, <2>3
<1> QED BY <1>8, <1>16, <1>17, <1>18, <1>19 DEF FilingInv

LEMMA StillStored ==
  ASSUME NEW e \in Clients, BeingStored(e), job'[e] = job[e], NEW g, g = job[e].file,
         FileRows(g)' # {}, OwnersOf(g)' = {}, \A m : Filed(g, m) => Filed(g, m)'
  PROVE  BeingStored(e)'
<1>1. PICK m : m = Sent(e)
  OBVIOUS
<1>2. g = job'[e].file /\ m = Sent(e)'
  BY <1>1 DEF Sent
<1>3. Filed(g, m)'
  BY <1>1 DEF BeingStored
<1> QED BY <1>2, <1>3 DEF BeingStored

LEMMA StoreFiling ==
  ASSUME TypeOK, RowsInv, TablesInv, FilingInv, NEW c \in Clients, StoreDetail(c)
  PROVE  TablesInv' /\ FilingInv'
<1>f. PICK f : f = job[c].file
  OBVIOUS
<1>i. PICK i : i = job[c].idx
  OBVIOUS
<1>0. job[c].pc \in {"detail", "link"} /\ BeingStored(c) /\ job[c].pc \in Storing
  BY PcKinds DEF StoreDetail, ReadyForRow, FilingInv
<1>1. PICK r \in files : r.flag = f
  BY <1>0, <1>f, RowsFlag DEF BeingStored
<1>2. /\ FileRows(f) = {r} /\ FileId(f) = r.id /\ Insertable(f)
      /\ \A k : RowsAt(f, k) = {d \in details : d.index = k /\ d.fileid = r.id}
  BY <1>1, OneRow
<1>3. PICK new : new = NewRow(c)
  OBVIOUS
<1>4. new.id = nextId.details /\ new.fileid = r.id /\ new.index = i
  BY <1>2, <1>3, <1>f, <1>i DEF NewRow, Flag
<1>5. /\ OnlyMoves(c) /\ job'[c].file = f /\ UNCHANGED <<files, owners>>
      /\ details' = details \cup {new} /\ nextId'.details = nextId.details + 1
      /\ \/ job'[c].pc = "getCounter" /\ job'[c].idx = i
         \/ job'[c].pc = "send" /\ job'[c].idx = i + 1
  BY <1>2, <1>3, <1>f, <1>i, StoreEffect
<1>6. i \in Nat /\ i < Len(Content[f]) /\ Len(Content[f]) \in Nat
  BY <1>0, <1>f, <1>i, FileOfJob, ContentLen DEF BeingStored
<1>7. Sent(c) = i /\ Filed(f, i) /\ OwnersOf(f) = {}
  BY <1>0, <1>f, <1>i DEF BeingStored, Sent
<1>8. \A e \in Clients : e # c => job'[e] = job[e]
  BY <1>5 DEF OnlyMoves
<1>9. TablesInv'
  <2>1. nextId.details \in Nat /\ \A d \in details : d.id \in Nat
    BY DEF TypeOK, Ids
  <2> QED BY <1>1, <1>4, <1>5, <2>1 DEF TablesInv
<1>10. /\ \A g : FileRows(g)' = FileRows(g) /\ OwnersOf(g)' = OwnersOf(g)
       /\ \A k : RowsAt(f, k)' = {d \in details' : d.index = k /\ d.fileid = r.id}
  <2>1. \A g : FileRows(g)' = FileRows(g) /\ OwnersOf(g)' = OwnersOf(g)
    BY <1>5 DEF FileRows, OwnersOf, FileId
  <2>2. FileRows(f)' = {r}
    BY <1>2, <2>1
  <2> QED BY <2>1, <2>2 DEF RowsAt
<1>11. Filed(f, i + 1)'
  <2>1. ASSUME NEW k \in 0 .. (i + 1) - 1 PROVE \E d \in details' : RowsAt(f, k)' = {d}
    <3>1. CASE k = i
      <4>1. \A d \in details : d.fileid = r.id => d.index < i
        BY <1>2, <1>7 DEF Filed
      <4>2. \A d \in details : ~(d.index = i /\ d.fileid = r.id)
        BY <4>1, <1>6 DEF TypeOK
      <4>3. RowsAt(f, k)' = {new}
        BY <3>1, <4>2, <1>4, <1>5, <1>10
      <4> QED BY <4>3, <1>5
    <3>2. CASE k # i
      <4>1. k \in 0 .. i - 1
        BY <2>1, <3>2, <1>6
      <4>2. PICK d \in details : RowsAt(f, k) = {d}
        BY <4>1, <1>7 DEF Filed
      <4>3. RowsAt(f, k)' = {d}
        BY <3>2, <4>2, <1>2, <1>4, <1>5, <1>10
      <4> QED BY <4>3, <1>5
    <3> QED BY <3>1, <3>2
  <2>2. ASSUME NEW d \in details', NEW s \in FileRows(f)', d.fileid = s.id
        PROVE  d.index < i + 1
    <3>1. s = r
      BY <1>2, <1>10
    <3>2. CASE d = new
      BY <3>2, <1>4, <1>6
    <3>3. CASE d \in details
      <4>1. d.index < i /\ d.index \in Nat
        BY <3>1, <3>3, <2>2, <1>2, <1>7 DEF Filed, TypeOK
      <4> QED BY <4>1, <1>6
    <3> QED BY <1>5, <3>2, <3>3
  <2> QED BY <2>1, <2>2 DEF Filed
<1>12. ASSUME NEW g, g # f PROVE \A m : Filed(g, m) => Filed(g, m)'
  <2>1. \A s \in FileRows(g) : s.id # r.id
    BY <1>1, <1>12 DEF FileRows, RowsInv
  <2>2. ~\E s \in FileRows(g)' : s.id = new.fileid
    BY <2>1, <1>4, <1>10
  <2>3. ASSUME NEW k PROVE RowsAt(g, k)' = RowsAt(g, k)
    BY <2>2, <1>5, <1>10 DEF RowsAt
  <2>4. ASSUME NEW m, Filed(g, m) PROVE Filed(g, m)'
    <3>1. \A k \in 0 .. m - 1 : \E d \in details' : RowsAt(g, k)' = {d}
      BY <2>3, <2>4, <1>5 DEF Filed
    <3>2. \A d \in details', s \in FileRows(g)' : d.fileid = s.id => d.index < m
      BY <2>2, <2>4, <1>5, <1>10 DEF Filed
    <3> QED BY <3>1, <3>2 DEF Filed
  <2> QED BY <2>4
<1>13. BeingStored(c)'
  <2>1. Sent(c)' = i + 1
    BY <1>5 DEF Sent
  <2>2. i + 1 <= Len(Content[f])
    BY <1>6
  <2> QED BY <2>1, <2>2, <1>2, <1>5, <1>6, <1>7, <1>10, <1>11 DEF BeingStored
<1>s. job'[c].pc \in Storing /\ job'[c].pc \in Uploading /\ job[c].pc \in Uploading
  BY <1>0, <1>5, PcKinds
<1>14. \A e \in Clients : e # c /\ job[e].pc \in Uploading => job[e].file # f
  BY <1>0, <1>f DEF FilingInv
<1>15. ASSUME NEW e \in Clients, job'[e].pc \in Storing PROVE BeingStored(e)'
  <2>1. CASE e = c
    BY <2>1, <1>13
  <2>2. CASE e # c
    <3>1. PICK g : g = job[e].file
      OBVIOUS
    <3>2. job'[e] = job[e] /\ BeingStored(e) /\ g # f
      BY <3>1, <2>2, <1>8, <1>14, <1>15, PcKinds DEF FilingInv
    <3> QED BY <3>1, <3>2, <1>10, <1>12, StillStored DEF BeingStored
  <2> QED BY <2>1, <2>2
<1>16. ASSUME NEW s \in files
       PROVE  \/ Whole(s.flag)'
              \/ \E e \in Clients : job'[e].pc \in Storing /\ job'[e].file = s.flag
  <2>1. CASE s.flag = f
    BY <2>1, <1>5, <1>s
  <2>2. CASE s.flag # f
    <3>1. CASE Whole(s.flag)
      BY <2>2, <3>1, <1>12 DEF Whole
    <3>2. CASE \E e \in Clients : job[e].pc \in Storing /\ job[e].file = s.flag
      BY <2>2, <3>2, <1>8, <1>f
    <3> QED BY <3>1, <3>2 DEF FilingInv
  <2> QED BY <2>1, <2>2
<1>17. ASSUME NEW b \in Clients, NEW e \in Clients, b # e,
              job'[b].pc \in Storing \cup {"insert"}, job'[e].pc \in Uploading
       PROVE  job'[b].file # job'[e].file
  <2>1. job'[b].file = job[b].file /\ job'[e].file = job[e].file
    BY <1>5, <1>8, <1>f
  <2>2. job[b].pc \in Storing \cup {"insert"} /\ job[e].pc \in Uploading
    BY <1>0, <1>8, <1>17, <1>s
  <2> QED BY <2>1, <2>2, <1>17 DEF FilingInv
<1>18. ASSUME NEW e \in Clients
       PROVE  /\ job'[e].pc \in {"count", "insert"} => job'[e].idx = 0
              /\ job'[e].pc = "insert" => (FileRows(job[e].file) = {})'
              /\ job'[e].pc \in Known => (FileRows(job[e].file) # {})'
  <2>1. CASE e = c
    BY <2>1, <1>s, PcKinds
  <2>2. CASE e # c
    <3>1. PICK g : g = job[e].file
      OBVIOUS
    <3>2. job'[e] = job[e] /\ g = job'[e].file
      BY <1>8, <2>2, <3>1
    <3> QED BY <3>1, <3>2, <1>10 DEF FilingInv
  <2> QED BY <2>1, <2>2
<1> QED BY <1>5, <1>9, <1>15, <1>16, <1>17, <1>18 DEF FilingInv

\* The owners change, but not those of a file that is being stored.
LEMMA FilingOwners ==
  ASSUME FilingInv, NEW c \in Clients, OnlyMoves(c), UNCHANGED <<files, details>>,
         job'[c].pc \notin Filing, job[c].pc \in Storing => Whole(job[c].file),
         job'[c].pc \in Known =>
           job[c].pc \in Uploading /\ FileRows(job[c].file) # {} /\ job'[c].file = job[c].file,
         \A e \in Clients : e # c /\ job[e].pc \in Storing => (OwnersOf(job[e].file) = {})'
  PROVE  FilingInv'
<1>1. \A e \in Clients : e # c => job'[e] = job[e]
  BY DEF OnlyMoves
<1>2. /\ \A f : FileRows(f)' = FileRows(f)
      /\ \A f, n : Filed(f, n)' = Filed(f, n)
  BY DEF FileRows, Filed, RowsAt
<1>3. job'[c].pc \notin Storing \cup {"count", "insert"}
  BY PcKinds
<1>4. ASSUME NEW e \in Clients, job'[e].pc \in Storing PROVE BeingStored(e)'
  <2>1. PICK g : g = job[e].file
    OBVIOUS
  <2>2. e # c /\ job'[e] = job[e] /\ BeingStored(e)
    BY <1>1, <1>3, <1>4 DEF FilingInv
  <2>3. OwnersOf(g)' = {}
    <3>1. g = job'[e].file /\ (OwnersOf(job[e].file) = {})'
      BY <2>1, <2>2, <1>4
    <3> QED BY <3>1
  <2> QED BY <2>1, <2>2, <2>3, <1>2, StillStored DEF BeingStored
<1>5. ASSUME NEW r \in files
      PROVE  \/ Whole(r.flag)'
             \/ \E e \in Clients : job'[e].pc \in Storing /\ job'[e].file = r.flag
  <2>1. CASE Whole(r.flag)
    BY <2>1, <1>2 DEF Whole
  <2>2. CASE \E e \in Clients : e # c /\ job[e].pc \in Storing /\ job[e].file = r.flag
    BY <2>2, <1>1
  <2> QED BY <2>1, <2>2 DEF FilingInv
<1>6. ASSUME NEW b \in Clients, NEW e \in Clients, b # e,
             job'[b].pc \in Storing \cup {"insert"}, job'[e].pc \in Uploading
      PROVE  job'[b].file # job'[e].file
  <2>1. b # c /\ job'[b] = job[b]
    BY <1>1, <1>3, <1>6
  <2>2. job[e].pc \in Uploading /\ job'[e].file = job[e].file
    BY <1>1, <1>6, PcKinds
  <2> QED BY <2>1, <2>2, <1>6 DEF FilingInv
<1>7. ASSUME NEW e \in Clients
      PROVE  /\ job'[e].pc \in {"count", "insert"} => job'[e].idx = 0
             /\ job'[e].pc = "insert" => FileRows(job'[e].file) = {}
             /\ job'[e].pc \in Known => FileRows(job'[e].file) # {}
  BY <1>1, <1>3 DEF FilingInv
<1> QED BY <1>2, <1>4, <1>5, <1>6, <1>7 DEF FilingInv

LEMMA AddOwnerFiling ==
  ASSUME TypeOK, RowsInv, TablesInv, FilingInv, NEW c \in Clients, AddOwner(c)
  PROVE  TablesInv' /\ FilingInv'
<1>f. PICK f : f = job[c].file
  OBVIOUS
<1>0. /\ job[c].pc \in {"send", "enrol"} /\ FileRows(f) # {}
      /\ job[c].pc \in Storing => job[c].pc = "send" /\ BeingStored(c)
  BY <1>f, PcKinds DEF AddOwner, At, FilingInv, BeingStored
<1>1. PICK r \in files : r.flag = f
  BY <1>0, RowsFlag
<1>2. FileRows(f) = {r} /\ FileId(f) = r.id /\ Insertable(f) /\ r.id # NULL
  BY <1>1, OneRow
<1>3. PICK new : new = [id |-> nextId.owners, fileid |-> FileId(job[c].file), user |-> c]
  OBVIOUS
<1>4. new.fileid = r.id
  BY <1>2, <1>3, <1>f
<1>5. /\ OnlyMoves(c) /\ job'[c].file = f /\ UNCHANGED <<files, details>>
      /\ owners' = owners \cup {new} /\ nextId'.details = nextId.details
      /\ \/ /\ job[c].pc = "send" /\ job[c].idx = Len(Content[f]) /\ job'[c].pc = "rsync"
         \/ job[c].pc = "enrol" /\ job'[c].pc = "createProven"
  BY <1>2, <1>3, <1>f, AddOwnerEffect DEF Keeps
<1>6. TablesInv'
  BY <1>1, <1>4, <1>5 DEF TablesInv
<1>7. job[c].pc \in Storing => Whole(f)
  BY <1>0, <1>5, <1>f DEF BeingStored, Sent, Whole
<1>8. job[c].pc \in Uploading /\ job'[c].pc \notin Filing
  BY <1>5, PcKinds
<1>9. ASSUME NEW e \in Clients, e # c, job[e].pc \in Storing
      PROVE  (OwnersOf(job[e].file) = {})'
  <2>1. PICK g : g = job[e].file
    OBVIOUS
  <2>2. g # f /\ g = job'[e].file /\ OwnersOf(g) = {} /\ FileRows(g) # {}
    BY <2>1, <1>5, <1>8, <1>9, <1>f DEF FilingInv, BeingStored, OnlyMoves
  <2>3. PICK s \in files : s.flag = g
    BY <2>2, RowsFlag
  <2>4. FileId(g) = s.id /\ s.id # r.id
    BY <2>2, <2>3, <1>1, OneRow DEF RowsInv
  <2>5. FileId(g)' = FileId(g)
    BY <1>5 DEF FileId, FileRows
  <2>6. OwnersOf(g)' = {}
    BY <2>2, <2>4, <2>5, <1>4, <1>5 DEF OwnersOf
  <2> QED BY <2>2, <2>6
<1> QED BY <1>0, <1>5, <1>6, <1>7, <1>8, <1>9, <1>f, FilingOwners

LEMMA DisownFiling ==
  ASSUME TypeOK, TablesInv, FilingInv, NEW c \in Clients, DeleteOwner(c)
  PROVE  TablesInv' /\ FilingInv'
<1>1. /\ OnlyMoves(c) /\ job[c].pc = "disown" /\ job'[c].pc \in {"hung", "hasOwner"}
      /\ UNCHANGED <<files, details, nextId>> /\ owners' \subseteq owners
  BY DisownEffect
<1>2. TablesInv'
  BY <1>1 DEF TablesInv
<1>3. ASSUME NEW e \in Clients, e # c, job[e].pc \in Storing
      PROVE  (OwnersOf(job[e].file) = {})'
  <2>1. PICK g : g = job[e].file
    OBVIOUS
  <2>2. g = job'[e].file /\ OwnersOf(g) = {}
    BY <2>1, <1>1, <1>3 DEF FilingInv, BeingStored, OnlyMoves
  <2>3. OwnersOf(g)' \subseteq OwnersOf(g)
    BY <1>1 DEF OwnersOf, FileId, FileRows
  <2> QED BY <2>2, <2>3
<1> QED BY <1>1, <1>2, <1>3, FilingOwners, PcKinds

\* The rows of the other files survive the deletion of one.
LEMMA DeleteFileRows ==
  ASSUME TypeOK, RowsInv, TablesInv, CascadeDetails, NEW c \in Clients, DeleteFile(c)
  PROVE  /\ \A g : g = job[c].file =>
              FileRows(g)' = {} /\ FileId(g)' = NULL /\ OwnersOf(g)' = {}
         /\ \A g : g # job[c].file =>
              /\ FileRows(g)' = FileRows(g) /\ FileId(g)' = FileId(g)
              /\ OwnersOf(g)' = OwnersOf(g) /\ RowsOf(g)' = RowsOf(g)
              /\ \A i : RowsAt(g, i)' = RowsAt(g, i)
              /\ \A m : Filed(g, m)' = Filed(g, m)
<1>f. PICK f : f = job[c].file
  OBVIOUS
<1> DEFINE gone == {r.id : r \in FileRows(f)}
<1>1. /\ files' = files \ FileRows(f)
      /\ details' = {d \in details : d.fileid \notin gone}
      /\ owners' = {o \in owners : o.fileid \notin gone}
  BY <1>f, DeleteFileEffect
<1>2. FileRows(f)' = {} /\ FileId(f)' = NULL /\ OwnersOf(f)' = {}
  <2>1. FileRows(f)' = {}
    BY <1>1 DEF FileRows
  <2>2. FileId(f)' = NULL
    BY <2>1 DEF FileId
  <2> QED BY <2>1, <2>2 DEF OwnersOf
<1>3. ASSUME NEW g, g # f
      PROVE  /\ FileRows(g)' = FileRows(g) /\ FileId(g)' = FileId(g)
             /\ OwnersOf(g)' = OwnersOf(g) /\ RowsOf(g)' = RowsOf(g)
             /\ \A i : RowsAt(g, i)' = RowsAt(g, i)
             /\ \A m : Filed(g, m)' = Filed(g, m)
  <2>1. FileRows(g)' = FileRows(g)
    BY <1>1, <1>3 DEF FileRows
  <2>2. FileId(g)' = FileId(g)
    BY <2>1 DEF FileId
  <2>3. \A s \in FileRows(g) : s.id \notin gone
    BY <1>3 DEF FileRows, RowsInv
  <2>4. FileRows(g) # {} => FileId(g) \notin gone
    BY <2>3 DEF FileId
  <2>5. FileRows(g) = {} => FileId(g) = NULL
    BY DEF FileId
  <2>6. OwnersOf(g)' = OwnersOf(g) /\ RowsOf(g)' = RowsOf(g)
    BY <1>1, <2>2, <2>4, <2>5 DEF OwnersOf, RowsOf
  <2>7. ASSUME NEW i PROVE RowsAt(g, i)' = RowsAt(g, i)
    <3>1. RowsAt(g, i)' = {d \in details' : d.index = i /\ \E s \in FileRows(g) : s.id = d.fileid}
      BY <2>1 DEF RowsAt
    <3>2. \A d \in details : (\E s \in FileRows(g) : s.id = d.fileid) => d \in details'
      BY <1>1, <2>3
    <3> QED BY <1>1, <3>1, <3>2 DEF RowsAt
  <2>8. ASSUME NEW m PROVE Filed(g, m)' = Filed(g, m)
    <3>1. \A d \in details, s \in FileRows(g) : d.fileid = s.id => d \in details'
      BY <1>1, <2>3
    <3>2. details' \subseteq details
      BY <1>1
    <3>3. \A i, d : RowsAt(g, i) = {d} => d \in details'
      BY <2>7, <1>1 DEF RowsAt
    <3>4. Filed(g, m) => Filed(g, m)'
      BY <2>1, <2>7, <3>2, <3>3 DEF Filed
    <3>5. Filed(g, m)' => Filed(g, m)
      BY <2>1, <2>7, <3>1, <3>2 DEF Filed
    <3> QED BY <3>4, <3>5 DEF Filed
  <2> QED BY <2>1, <2>2, <2>6, <2>7, <2>8
<1> QED BY <1>2, <1>3, <1>f

LEMMA DeleteFiling ==
  ASSUME TypeOK, RowsInv, TablesInv, TakeTurns, FilingInv, CascadeDetails,
         NEW c \in Clients, DeleteFile(c)
  PROVE  TablesInv' /\ FilingInv'
<1>f. PICK f : f = job[c].file
  OBVIOUS
<1>1. /\ OnlyMoves(c) /\ job'[c].file = f /\ job[c].pc = "unlink" /\ job'[c].pc = "rsyncDelete"
      /\ UNCHANGED nextId
      /\ files' = files \ FileRows(f)
      /\ details' = {d \in details : d.fileid \notin {r.id : r \in FileRows(f)}}
      /\ owners' = {o \in owners : o.fileid \notin {r.id : r \in FileRows(f)}}
  BY <1>f, DeleteFileEffect DEF Keeps
<1>2. \A e \in Clients : job'[e].pc \notin Uploading
  <2>1. job[c].pc \in Removing /\ job'[c].pc \notin Uploading
    BY <1>1, PcKinds DEF Removing
  <2> QED BY <2>1, <1>1 DEF TakeTurns, OnlyMoves
<1>3. TablesInv'
  <2>1. \A d \in details' : \E r \in files' : r.id = d.fileid
    BY <1>1 DEF TablesInv
  <2>2. \A o \in owners' : \E r \in files' : r.id = o.fileid
    BY <1>1 DEF TablesInv
  <2> QED BY <2>1, <2>2, <1>1 DEF TablesInv
<1>4. ASSUME NEW r \in files' PROVE Whole(r.flag)'
  <2>1. r \in files /\ r.flag # f
    BY <1>1 DEF FileRows
  <2>2. \A e \in Clients : job[e].pc \notin Storing
    BY <1>1, <1>2, PcKinds DEF OnlyMoves
  <2>3. Whole(r.flag)
    BY <2>1, <2>2 DEF FilingInv
  <2> QED BY <2>1, <2>3, <1>f, DeleteFileRows DEF Whole
<1> QED BY <1>2, <1>3, <1>4, PcKinds DEF FilingInv

LEMMA FilingStep ==
  ASSUME Faults \subseteq {"rsync"}, CascadeDetails, TypeOK, RowsInv, TablesInv, TakeTurns,
         TakeTurns', FilingInv, NEW c \in Clients, Steps(c)
  PROVE  TablesInv' /\ FilingInv'
<1>k. ASSUME UNCHANGED <<files, details, owners>>, nextId'.details = nextId.details
      PROVE  TablesInv'
  BY <1>k DEF TablesInv
<1>1. CASE StartUpload(c)
  <2>1. /\ OnlyMoves(c) /\ job[c].pc = "idle" /\ job'[c].pc = "count" /\ job'[c].idx = 0
        /\ UNCHANGED <<files, details, owners, nextId>>
    BY <1>1, StartUploadEffect DEF Stores
  <2>2. job[c].pc \notin Storing /\ job'[c].pc \notin Storing \cup Known /\ job'[c].pc \in Filing
    BY <2>1, PcKinds
  <2>3. \A e \in Clients : e # c /\ job[e].pc \in Filing => job'[c].file # job[e].file
    BY <2>1, <2>2 DEF TakeTurns, OnlyMoves, Flag
  <2>4. \A e \in Clients : e # c /\ job[e].pc \in Storing \cup {"insert"} =>
          job'[c].file # job[e].file
    BY <2>3, PcKinds
  <2>5. FilingInv'
    BY <2>1, <2>2, <2>4, FilingKept
  <2> QED BY <1>k, <2>1, <2>5
<1>2. CASE StartDelete(c) \/ StartDownload(c)
  <2>1. /\ OnlyMoves(c) /\ job[c].pc = "idle" /\ job'[c].pc \in {"read", "lookup"}
        /\ UNCHANGED <<files, details, owners, nextId>>
    BY <1>2, StartDeleteEffect, StartDownloadEffect DEF Stores
  <2> QED BY <1>k, <2>1, FilingAside, PcKinds
<1>3. CASE CountBlocks(c)
  <2>1. UNCHANGED <<files, details, owners, nextId>>
    BY <1>3, CountEffect DEF Stores
  <2> QED BY <1>k, <1>3, <2>1, CountFiling
<1>4. CASE InsertFile(c)
  BY <1>4, InsertFiling
<1>5. CASE TestTag(c) \/ OpenBlock(c) \/ WriteBlock(c) \/ GetCounter(c) \/ SetCounter(c)
  <2>1. UNCHANGED <<files, details, owners, nextId>>
    BY <1>5, TestEffect, OpenEffect, WriteEffect, GetCounterEffect, SetCounterEffect DEF Stores
  <2> QED BY <1>k, <1>5, <2>1, StoringFiling
<1>6. CASE StoreDetail(c)
  BY <1>6, StoreFiling
<1>7. CASE AddOwner(c)
  BY <1>7, AddOwnerFiling
<1>8. CASE RsyncUpload(c) \/ RsyncDelete(c)
  <2>1. /\ OnlyMoves(c) /\ job'[c].file = job[c].file
        /\ \/ job[c].pc = "rsync" /\ job'[c].pc = "fetch"
           \/ job[c].pc = "rsyncDelete" /\ job'[c].pc = "deleteAsset"
        /\ UNCHANGED <<files, details, owners, nextId>>
    BY <1>8, RsyncEffect DEF RsyncUpload, RsyncDelete, Keeps
  <2> QED BY <1>k, <2>1, FilingAside, PcKinds
<1>9. CASE FetchCounter(c) \/ ClearCounter(c)
  <2>1. /\ OnlyMoves(c) /\ job'[c].file = job[c].file
        /\ job[c].pc \in {"fetch", "clear"} /\ job'[c].pc \in {"clear", "create"}
        /\ UNCHANGED <<files, details, owners, nextId>>
    BY <1>9, FetchCounterEffect, ClearEffect DEF Keeps, Stores
  <2> QED BY <1>k, <2>1, FilingAside, PcKinds
<1>10. CASE CreateFileAsset(c)
  <2>1. /\ OnlyMoves(c) /\ job'[c].file = job[c].file
        /\ job[c].pc \in {"create", "createProven"} /\ job'[c].pc = "record"
        /\ UNCHANGED <<files, details, owners>> /\ nextId'.details = nextId.details
    BY <1>10, CreateEffect
  <2> QED BY <1>k, <2>1, FilingAside, PcKinds
<1>11. CASE RecordUpload(c)
  <2>1. /\ OnlyMoves(c) /\ job[c].pc = "record" /\ job'[c].pc = "idle"
        /\ UNCHANGED <<files, details, owners, nextId>>
    BY <1>11, RecordEffect
  <2> QED BY <1>k, <2>1, FilingAside, PcKinds
<1>12. CASE VerifyProof(c)
  <2>1. /\ OnlyMoves(c) /\ job[c].pc = "prove"
        /\ \/ job'[c].pc \in {"hung", "idle"}
           \/ job'[c].pc = "isOwner" /\ job'[c].file = job[c].file
    BY <1>12, VerifyEffect
  <2>2. UNCHANGED <<files, details, owners, nextId>>
    BY <1>12, VerifyEffect DEF Stores
  <2> QED BY <1>k, <2>1, <2>2, FilingAside, PcKinds
<1>13. CASE IsOwner(c)
  <2>1. /\ OnlyMoves(c) /\ job[c].pc = "isOwner"
        /\ \/ job'[c].pc \in {"hung", "idle"}
           \/ job'[c].pc = "enrol" /\ job'[c].file = job[c].file
    BY <1>13, IsOwnerEffect
  <2>2. UNCHANGED <<files, details, owners, nextId>>
    BY <1>13, IsOwnerEffect DEF Stores
  <2> QED BY <1>k, <2>1, <2>2, FilingAside, PcKinds
<1>14. CASE DeleteOwner(c)
  BY <1>14, DisownFiling
<1>15. CASE DeleteFile(c)
  BY <1>15, DeleteFiling
<1>16. CASE ReadFileAsset(c) \/ HasOwner(c) \/ GetFileId(c) \/ GetNoUseTag(c) \/ UnlinkBlock(c)
  <2>1. /\ OnlyMoves(c) /\ job[c].pc \in {"read", "hasOwner", "fileId", "noUseTag", "unlink"}
        /\ job'[c].pc \in {"hung", "idle", "disown", "fileId", "rsyncDelete", "noUseTag", "unlink"}
        /\ UNCHANGED <<files, details, owners, nextId>>
    BY <1>16, ReadEffect, HasOwnerEffect, FileIdEffect, NoUseTagEffect, UnlinkEffect DEF Stores
  <2> QED BY <1>k, <2>1, FilingAside, PcKinds
<1>17. CASE DeleteAsset(c) \/ ForgetUpload(c)
  <2>1. /\ OnlyMoves(c) /\ job[c].pc \in {"deleteAsset", "forget"}
        /\ job'[c].pc \in {"hung", "idle", "forget"}
        /\ UNCHANGED <<files, details, owners, nextId>>
    BY <1>17, DeleteAssetEffect, ForgetEffect
  <2> QED BY <1>k, <2>1, FilingAside, PcKinds
<1>18. CASE Download(c)
  <2>1. /\ OnlyMoves(c) /\ job[c].pc \in {"lookup", "fetchBlock", "downloaded"}
        /\ job'[c].pc \in {"hung", "idle", "downloaded", "fetchBlock", "lookup"}
        /\ UNCHANGED <<files, details, owners, nextId>>
    BY <1>18, LookupEffect, FetchBlockEffect, FinishEffect DEF Download, Stores
  <2> QED BY <1>k, <2>1, FilingAside, PcKinds
<1>19. CASE GiveUp(c)
  <2>1. /\ OnlyMoves(c) /\ job[c].pc = "hung" /\ job'[c].pc = "idle"
        /\ UNCHANGED <<files, details, owners, nextId>>
    BY <1>19, Ended DEF GiveUp, At, db
  <2> QED BY <1>k, <2>1, FilingAside, PcKinds
<1> QED
  BY <1>1, <1>2, <1>3, <1>4, <1>5, <1>6, <1>7, <1>8, <1>9, <1>10, <1>11, <1>12, <1>13,
     <1>14, <1>15, <1>16, <1>17, <1>18, <1>19 DEF Steps, Begin, Step, Upload, Delete

----------------------------------------------------------------------------
(* The owners, the chain and the clients' records move together *)

AssetIds(f, c) == {a.upid : a \in {b \in ledger : b.flag = f /\ b.user = c}}
RecordIds(f, c) == {r.upid : r \in {s \in local[c] : s.flag = f}}
OwnsOnce(f, c) == \E o \in OwnersOf(f) : OwnerRows(f, c) = {o}

\* What the three have on f and c: an owner or none, these upids and these.
Custody(f, c, own, U, V) ==
  /\ IF own THEN OwnsOnce(f, c) ELSE OwnerRows(f, c) = {}
  /\ AssetIds(f, c) = U /\ RecordIds(f, c) = V

Settled(f, c) == Custody(f, c, FALSE, {}, {}) \/ \E u \in Nat : Custody(f, c, TRUE, {u}, {u})

Unowned == Storing \cup {"insert", "enrol"}
Enrolled == {"rsync", "fetch", "clear", "create", "createProven"}
Disowned == {"hasOwner", "fileId", "noUseTag", "unlink", "rsyncDelete", "deleteAsset"}
Between == Unowned \cup Enrolled \cup Disowned \cup {"record", "read", "disown", "forget"}
Emptied == {"fileId", "noUseTag", "unlink"}
Reading == {"lookup", "fetchBlock", "downloaded"}

\* How far the upload or delete c is in has got with it.
CustodyOf(c) ==
  LET f == job[c].file  u == job[c].upid  pc == job[c].pc IN
    /\ pc \in Unowned            => Custody(f, c, FALSE, {}, {})
    /\ pc \in Enrolled           => Custody(f, c, TRUE, {}, {})
    /\ pc = "record"             => Custody(f, c, TRUE, {u}, {})
    /\ pc \in {"read", "disown"} => Custody(f, c, TRUE, {u}, {u})
    /\ pc \in Disowned           => Custody(f, c, FALSE, {u}, {u})
    /\ pc = "forget"             => Custody(f, c, FALSE, {}, {u})
    /\ pc \notin Between         => Settled(f, c)

LedgerInv ==
  /\ \A a, b \in ledger : a.upid = b.upid => a = b
  /\ \A a \in ledger : a.upid < nextId.upid

CustodyInv ==
  /\ LedgerInv
  /\ \A c \in Clients : CustodyOf(c)
  /\ \A c \in Clients, f \in Files : f # job[c].file => Settled(f, c)
  /\ \A c \in Clients : job[c].pc \in Emptied => OwnersOf(job[c].file) = {}
  /\ \A c \in Clients : job[c].pc \in Reading => RecordIds(job[c].file, c) # {}

LEMMA CustodyPcs ==
  /\ Unowned = {"send", "open", "write", "detail", "link", "getCounter", "setCounter",
                "insert", "enrol"}
  /\ Emptied \subseteq Disowned /\ Emptied \subseteq Removing
BY PcKinds DEF Unowned, Emptied, Disowned, Removing

Same(f, c) ==
  /\ OwnerRows(f, c)' = OwnerRows(f, c)
  /\ AssetIds(f, c)' = AssetIds(f, c) /\ RecordIds(f, c)' = RecordIds(f, c)

LEMMA SameCustody ==
  ASSUME NEW f, NEW c, Same(f, c)
  PROVE  /\ \A own, U, V : Custody(f, c, own, U, V) => Custody(f, c, own, U, V)'
         /\ Settled(f, c) => Settled(f, c)'
<1>1. OwnsOnce(f, c) => OwnsOnce(f, c)'
  BY DEF OwnsOnce, OwnerRows, Same
<1>2. \A own, U, V : Custody(f, c, own, U, V) => Custody(f, c, own, U, V)'
  BY <1>1 DEF Custody, Same
<1> QED BY <1>2 DEF Settled

LEMMA CustodyInit == Init => CustodyInv
<1> SUFFICES ASSUME Init PROVE CustodyInv
  OBVIOUS
<1>1. ASSUME NEW c \in Clients, NEW f PROVE Settled(f, c)
  <2>1. OwnerRows(f, c) = {} /\ AssetIds(f, c) = {} /\ RecordIds(f, c) = {}
    BY DEF Init, OwnerRows, OwnersOf, AssetIds, RecordIds
  <2> QED BY <2>1 DEF Settled, Custody
<1>2. \A c \in Clients : job[c].pc = "idle"
  BY IdlePc DEF Init
<1>3. "idle" \notin Between \cup Emptied \cup Reading
  BY CustodyPcs DEF Between, Enrolled, Disowned, Emptied, Reading
<1>4. \A c \in Clients : CustodyOf(c)
  BY <1>1, <1>2, <1>3 DEF CustodyOf, Between
<1>5. LedgerInv
  BY DEF Init, LedgerInv
<1> QED BY <1>1, <1>2, <1>3, <1>4, <1>5 DEF CustodyInv

\* A step of c leaves the custody of the others alone.
LEMMA CustodyKept ==
  ASSUME CustodyInv, NEW c \in Clients, OnlyMoves(c), LedgerInv',
         \A e \in Clients, g \in Files : e # c => Same(g, e), CustodyOf(c)',
         \A e \in Clients : job[e].file \in Files,
         \A g \in Files : g # job'[c].file => Settled(g, c)',
         job'[c].pc \in Emptied => (OwnersOf(job[c].file) = {})',
         job'[c].pc \in Reading => (RecordIds(job[c].file, c) # {})',
         \A e \in Clients : e # c /\ job[e].pc \in Emptied => (OwnersOf(job[e].file) = {})'
  PROVE  CustodyInv'
<1>1. \A e \in Clients : e # c => job'[e] = job[e]
  BY DEF OnlyMoves
<1>2. ASSUME NEW e \in Clients PROVE CustodyOf(e)'
  <2>1. CASE e = c
    BY <2>1
  <2>2. CASE e # c
    <3>1. PICK f, u : f \in Files /\ f = job[e].file /\ u = job[e].upid
      OBVIOUS
    <3>2. job'[e] = job[e] /\ f = job'[e].file /\ u = job'[e].upid
      BY <1>1, <2>2, <3>1
    <3>3. Same(f, e)
      BY <2>2, <3>1
    <3>4. /\ \A own, U, V : Custody(f, e, own, U, V) => Custody(f, e, own, U, V)'
          /\ Settled(f, e) => Settled(f, e)'
      BY <3>3, SameCustody
    <3>5. CustodyOf(e)
      BY DEF CustodyInv
    <3> QED BY <3>1, <3>2, <3>4, <3>5 DEF CustodyOf
  <2> QED BY <2>1, <2>2
<1>3. ASSUME NEW e \in Clients, NEW g \in Files, g # job'[e].file PROVE Settled(g, e)'
  <2>1. CASE e = c
    BY <2>1, <1>3
  <2>2. CASE e # c
    BY <2>2, <1>1, <1>3, SameCustody DEF CustodyInv
  <2> QED BY <2>1, <2>2
<1>4. ASSUME NEW e \in Clients, job'[e].pc \in Emptied PROVE (OwnersOf(job[e].file) = {})'
  BY <1>1, <1>4
<1>5. ASSUME NEW e \in Clients, job'[e].pc \in Reading PROVE (RecordIds(job[e].file, e) # {})'
  <2>1. CASE e = c
    BY <2>1, <1>5
  <2>2. CASE e # c
    <3>1. PICK f \in Files : f = job[e].file
      OBVIOUS
    <3>2. f = job'[e].file /\ RecordIds(f, e) # {} /\ Same(f, e)
      BY <1>1, <1>5, <2>2, <3>1 DEF CustodyInv
    <3>3. RecordIds(f, e)' # {}
      BY <3>2 DEF Same
    <3> QED BY <3>2, <3>3
  <2> QED BY <2>1, <2>2
<1> QED BY <1>2, <1>3, <1>4, <1>5 DEF CustodyInv

LEMMA FreeSettled ==
  ASSUME CustodyInv, NEW c \in Clients, job[c].pc \notin Between
  PROVE  \A f \in Files : Settled(f, c)
BY DEF CustodyInv, CustodyOf, Between

LEMMA BetweenPcs ==
  /\ Between = {"send", "open", "write", "detail", "link", "getCounter", "setCounter", "insert",
                "enrol", "rsync", "fetch", "clear", "create", "createProven", "hasOwner", "fileId",
                "noUseTag", "unlink", "rsyncDelete", "deleteAsset", "record", "read", "disown",
                "forget"}
  /\ Emptied \cap Reading = {} /\ Reading \cap Between = {}
BY CustodyPcs DEF Between, Enrolled, Disowned, Emptied, Reading

\* Who is in none of the phases has everything settled.
LEMMA CustodyIdle ==
  ASSUME NEW c \in Clients, job'[c].pc \notin Between, \A g \in Files : Settled(g, c)',
         job'[c].file \in Files
  PROVE  CustodyOf(c)'
<1>1. PICK f \in Files : f = job'[c].file
  OBVIOUS
<1>2. Settled(f, c)'
  OBVIOUS
<1> QED BY <1>1, <1>2 DEF CustodyOf, Between

LEMMA StoresSame ==
  ASSUME UNCHANGED <<files, owners, ledger, local>>
  PROVE  /\ \A f, c : Same(f, c) /\ OwnersOf(f)' = OwnersOf(f)
         /\ LedgerInv /\ nextId'.upid = nextId.upid => LedgerInv'
<1>1. \A f : OwnersOf(f)' = OwnersOf(f)
  BY DEF OwnersOf, FileId, FileRows
<1>2. \A f, c : Same(f, c)
  BY <1>1 DEF Same, OwnerRows, AssetIds, RecordIds
<1> QED BY <1>1, <1>2 DEF LedgerInv

LEMMA FilesOfJobs ==
  ASSUME TypeOK, TypeOK'
  PROVE  \A e \in Clients : job[e].file \in Files /\ job'[e].file \in Files
<1>1. \A e \in Clients : job[e] \in Job /\ job'[e] \in Job
  BY DEF TypeOK
<1> QED BY <1>1 DEF Job

\* The stores stay and c does not enter a phase.
LEMMA CustodyAside ==
  ASSUME TypeOK, TypeOK', CustodyInv, NEW c \in Clients, OnlyMoves(c),
         UNCHANGED <<files, owners, ledger, local>>, nextId'.upid = nextId.upid,
         job[c].pc \notin Between \/ Settled(job[c].file, c),
         job'[c].pc \notin Between,
         job'[c].pc \in Reading => RecordIds(job'[c].file, c) # {}
  PROVE  CustodyInv'
<1>1. \A g \in Files : Settled(g, c)
  BY FreeSettled DEF CustodyInv
<1>2. \A g \in Files : Settled(g, c)'
  BY <1>1, StoresSame, SameCustody
<1>3. CustodyOf(c)'
  BY <1>2, CustodyIdle, FilesOfJobs
<1>4. job'[c].pc \in Reading => (RecordIds(job[c].file, c) # {})'
  <2>1. PICK f : f = job'[c].file
    OBVIOUS
  <2>2. RecordIds(f, c)' = RecordIds(f, c)
    BY StoresSame DEF Same
  <2> QED BY <2>1, <2>2
<1>5. job'[c].pc \notin Emptied
  BY CustodyPcs DEF Between
<1>6. ASSUME NEW e \in Clients, e # c, job[e].pc \in Emptied
      PROVE  (OwnersOf(job[e].file) = {})'
  <2>1. PICK f : f = job[e].file
    OBVIOUS
  <2>2. f = job'[e].file /\ OwnersOf(f) = {} /\ OwnersOf(f)' = OwnersOf(f)
    BY <2>1, <1>6, StoresSame DEF OnlyMoves, CustodyInv
  <2> QED BY <2>2
<1>7. LedgerInv'
  BY StoresSame DEF CustodyInv
<1> QED BY <1>2, <1>3, <1>4, <1>5, <1>6, <1>7, StoresSame, FilesOfJobs, CustodyKept

\* The stores stay and c goes on in the same phase.
LEMMA CustodyGoesOn ==
  ASSUME TypeOK, TypeOK', CustodyInv, NEW c \in Clients, OnlyMoves(c),
         \A g \in Files, e \in Clients : Same(g, e),
         \A g \in Files : OwnersOf(g) = {} => OwnersOf(g)' = {},
         LedgerInv', job'[c].file = job[c].file,
         \/ job[c].pc \in Unowned /\ job'[c].pc \in Unowned
         \/ job[c].pc \in Enrolled /\ job'[c].pc \in Enrolled
         \/ /\ job'[c].upid = job[c].upid
            /\ \/ job[c].pc \in {"read", "disown"} /\ job'[c].pc \in {"read", "disown"}
               \/ job[c].pc \in Disowned /\ job'[c].pc \in Disowned,
         job'[c].pc \in Emptied => (OwnersOf(job[c].file) = {})'
  PROVE  CustodyInv'
<1>1. PICK f, u : f \in Files /\ f = job[c].file /\ u = job[c].upid
  BY FilesOfJobs
<1>2. Same(f, c)
  BY <1>1
<1>3. \A own, U, V : Custody(f, c, own, U, V) => Custody(f, c, own, U, V)'
  BY <1>2, SameCustody
<1>4. CustodyOf(c)
  BY DEF CustodyInv
<1>p. /\ "record" \notin Unowned \cup Enrolled \cup Disowned
      /\ "forget" \notin Unowned \cup Enrolled \cup Disowned
      /\ Unowned \cap Enrolled = {} /\ Unowned \cap Disowned = {} /\ Enrolled \cap Disowned = {}
      /\ {"read", "disown"} \cap (Unowned \cup Enrolled \cup Disowned) = {}
  BY CustodyPcs DEF Enrolled, Disowned
<1>5. CustodyOf(c)'
  <2>1. CASE job[c].pc \in Unowned /\ job'[c].pc \in Unowned
    <3>1. Custody(f, c, FALSE, {}, {})'
      BY <2>1, <1>1, <1>3, <1>4 DEF CustodyOf
    <3>2. f = job'[c].file
      BY <1>1
    <3> QED BY <2>1, <3>1, <3>2, <1>p DEF CustodyOf, Between
  <2>2. CASE job[c].pc \in Enrolled /\ job'[c].pc \in Enrolled
    <3>1. Custody(f, c, TRUE, {}, {})'
      BY <2>2, <1>1, <1>3, <1>4 DEF CustodyOf
    <3>2. f = job'[c].file
      BY <1>1
    <3> QED BY <2>2, <3>1, <3>2, <1>p DEF CustodyOf, Between
  <2>3. CASE /\ job'[c].upid = job[c].upid
             /\ job[c].pc \in {"read", "disown"} /\ job'[c].pc \in {"read", "disown"}
    <3>1. Custody(f, c, TRUE, {u}, {u})'
      BY <2>3, <1>1, <1>3, <1>4 DEF CustodyOf
    <3>2. f = job'[c].file /\ u = job'[c].upid
      BY <1>1, <2>3
    <3> QED BY <2>3, <3>1, <3>2, <1>p DEF CustodyOf, Between
  <2>4. CASE /\ job'[c].upid = job[c].upid
             /\ job[c].pc \in Disowned /\ job'[c].pc \in Disowned
    <3>1. Custody(f, c, FALSE, {u}, {u})'
      BY <2>4, <1>1, <1>3, <1>4 DEF CustodyOf
    <3>2. f = job'[c].file /\ u = job'[c].upid
      BY <1>1, <2>4
    <3> QED BY <2>4, <3>1, <3>2, <1>p DEF CustodyOf, Between
  <2> QED BY <2>1, <2>2, <2>3, <2>4
<1>6. \A g \in Files : g # job'[c].file => Settled(g, c)'
  BY SameCustody DEF CustodyInv
<1>7. job'[c].pc \notin Reading
  BY CustodyPcs DEF Enrolled, Disowned, Reading
<1>8. ASSUME NEW e \in Clients, e # c, job[e].pc \in Emptied
      PROVE  (OwnersOf(job[e].file) = {})'
  <2>1. PICK g \in Files : g = job[e].file
    BY FilesOfJobs
  <2>2. g = job'[e].file /\ OwnersOf(g) = {}
    BY <2>1, <1>8 DEF OnlyMoves, CustodyInv
  <2> QED BY <2>2
<1> QED BY <1>5, <1>6, <1>7, <1>8, FilesOfJobs, CustodyKept

\* The stores stay and c, who had everything settled, enters a phase.
LEMMA CustodyEnters ==
  ASSUME TypeOK, TypeOK', CustodyInv, NEW c \in Clients, OnlyMoves(c),
         UNCHANGED <<files, owners, ledger, local>>, nextId'.upid = nextId.upid,
         job[c].pc \notin Between,
         NEW f \in Files, f = job'[c].file,
         \/ job'[c].pc \in Unowned /\ OwnerRows(f, c) = {}
         \/ job'[c].pc = "read" /\ job'[c].upid \in RecordIds(f, c)
  PROVE  CustodyInv'
<1>1. \A g \in Files : Settled(g, c)
  BY FreeSettled
<1>2. /\ \A g \in Files : Settled(g, c)'
      /\ \A own, U, V : Custody(f, c, own, U, V) => Custody(f, c, own, U, V)'
  BY <1>1, StoresSame, SameCustody
<1>p. /\ "read" \notin Unowned \cup Enrolled \cup Disowned
      /\ Unowned \cap (Enrolled \cup Disowned \cup {"record", "read", "disown", "forget"}) = {}
      /\ (Unowned \cup {"read"}) \cap (Emptied \cup Reading) = {}
  BY CustodyPcs DEF Enrolled, Disowned, Emptied, Reading
<1>3. CustodyOf(c)'
  <2>1. CASE job'[c].pc \in Unowned /\ OwnerRows(f, c) = {}
    <3>1. ~OwnsOnce(f, c)
      BY <2>1 DEF OwnsOnce
    <3>2. Custody(f, c, FALSE, {}, {})
      BY <1>1, <3>1 DEF Settled, Custody
    <3>3. Custody(f, c, FALSE, {}, {})'
      BY <3>2, <1>2
    <3> QED BY <2>1, <3>3, <1>p DEF CustodyOf, Between
  <2>2. CASE job'[c].pc = "read" /\ job'[c].upid \in RecordIds(f, c)
    <3>1. PICK u : u = job'[c].upid
      OBVIOUS
    <3>2. PICK v \in Nat : Custody(f, c, TRUE, {v}, {v})
      BY <2>2, <1>1 DEF Settled, Custody
    <3>3. v = u
      BY <3>1, <3>2, <2>2 DEF Custody
    <3>4. Custody(f, c, TRUE, {u}, {u})'
      BY <3>2, <3>3, <1>2
    <3> QED BY <2>2, <3>1, <3>4, <1>p DEF CustodyOf, Between
  <2> QED BY <2>1, <2>2
<1>4. job'[c].pc \notin Emptied \cup Reading
  BY <1>p
<1>6. ASSUME NEW e \in Clients, e # c, job[e].pc \in Emptied
      PROVE  (OwnersOf(job[e].file) = {})'
  <2>1. PICK g : g = job[e].file
    OBVIOUS
  <2>2. g = job'[e].file /\ OwnersOf(g) = {} /\ OwnersOf(g)' = OwnersOf(g)
    BY <2>1, <1>6, StoresSame DEF OnlyMoves, CustodyInv
  <2> QED BY <2>2
<1>7. LedgerInv'
  BY StoresSame DEF CustodyInv
<1> QED BY <1>2, <1>3, <1>4, <1>6, <1>7, StoresSame, FilesOfJobs, CustodyKept

LEMMA InsertCustody ==
  ASSUME TypeOK, TypeOK', RowsInv, TablesInv, FilingInv, CustodyInv,
         NEW c \in Clients, InsertFile(c)
  PROVE  CustodyInv'
<1>f. PICK f : f = job[c].file
  OBVIOUS
<1>0. job[c].pc = "insert" /\ FileRows(f) = {}
  BY <1>f, InsertEffect DEF FilingInv
<1>1. /\ OnlyMoves(c) /\ job'[c].file = f /\ job'[c].pc = "send"
      /\ UNCHANGED <<owners, ledger, local>> /\ nextId'.upid = nextId.upid
      /\ files' = files \cup {[id |-> nextId.files, flag |-> f]}
  BY <1>f, <1>0, InsertEffect DEF Keeps
<1>2. PICK new : new = [id |-> nextId.files, flag |-> f]
  OBVIOUS
<1>3. new.id = nextId.files /\ new.flag = f /\ files' = files \cup {new}
  BY <1>1, <1>2
<1>4. \A o \in owners : o.fileid # new.id
  BY <1>3 DEF TablesInv, RowsInv, TypeOK, Ids
<1>5. ASSUME NEW g PROVE OwnersOf(g)' = OwnersOf(g)
  <2>1. CASE g = f
    <3>1. FileRows(f)' = {new}
      BY <1>0, <1>3 DEF FileRows
    <3>2. FileId(f)' = new.id
      BY <3>1 DEF FileId
    <3>3. OwnersOf(f)' = {}
      BY <3>2, <1>1, <1>4 DEF OwnersOf
    <3> QED BY <2>1, <3>3, <1>0, NoRow
  <2>2. CASE g # f
    <3>1. FileRows(g)' = FileRows(g)
      BY <2>2, <1>3 DEF FileRows
    <3>2. FileId(g)' = FileId(g)
      BY <3>1 DEF FileId
    <3> QED BY <3>2, <1>1 DEF OwnersOf
  <2> QED BY <2>1, <2>2
<1>6. \A g, e : Same(g, e)
  BY <1>1, <1>5 DEF Same, OwnerRows, AssetIds, RecordIds
<1>7. LedgerInv'
  BY <1>1 DEF CustodyInv, LedgerInv
<1>8. "insert" \in Unowned /\ "send" \in Unowned /\ "send" \notin Emptied
  BY CustodyPcs DEF Emptied
<1> QED BY <1>f, <1>0, <1>1, <1>5, <1>6, <1>7, <1>8, CustodyGoesOn

LEMMA AddOwnerCustody ==
  ASSUME TypeOK, TypeOK', RowsInv, TablesInv, TakeTurns, FilingInv, CustodyInv,
         NEW c \in Clients, AddOwner(c)
  PROVE  CustodyInv'
<1>f. PICK f \in Files : f = job[c].file
  BY FilesOfJobs
<1>0. job[c].pc \in {"send", "enrol"} /\ FileRows(f) # {} /\ job[c].pc \in Uploading
  BY <1>f, PcKinds DEF AddOwner, At, FilingInv, BeingStored
<1>1. PICK r \in files : r.flag = f
  BY <1>0, RowsFlag
<1>2. FileId(f) = r.id /\ Insertable(f) /\ r.id # NULL
  BY <1>1, OneRow
<1>3. PICK new : new = [id |-> nextId.owners, fileid |-> r.id, user |-> c]
  OBVIOUS
<1>4. new.fileid = r.id /\ new.user = c
  BY <1>3
<1>5. /\ OnlyMoves(c) /\ job'[c].file = f /\ job'[c].pc \in {"rsync", "createProven"}
      /\ UNCHANGED <<files, ledger, local>> /\ nextId'.upid = nextId.upid
      /\ owners' = owners \cup {new}
  BY <1>2, <1>3, <1>f, AddOwnerEffect DEF Keeps
<1>6. \A g : FileId(g)' = FileId(g)
  BY <1>5 DEF FileId, FileRows
<1>7. /\ OwnersOf(f)' = OwnersOf(f) \cup {new}
      /\ \A g \in Files : g # f => OwnersOf(g)' = OwnersOf(g)
  <2>1. OwnersOf(f)' = OwnersOf(f) \cup {new}
    BY <1>2, <1>4, <1>5, <1>6 DEF OwnersOf
  <2>2. ASSUME NEW g \in Files, g # f PROVE FileId(g) # r.id \/ FileId(g) = NULL
    <3>1. CASE FileRows(g) = {}
      BY <3>1, NoRow
    <3>2. CASE FileRows(g) # {}
      <4>1. PICK s \in files : s.flag = g
        BY <3>2, RowsFlag
      <4> QED BY <4>1, <2>2, <1>1, OneRow DEF RowsInv
    <3> QED BY <3>1, <3>2
  <2> QED BY <2>1, <2>2, <1>4, <1>5, <1>6 DEF OwnersOf
<1>8. \A e, g : AssetIds(g, e)' = AssetIds(g, e) /\ RecordIds(g, e)' = RecordIds(g, e)
  BY <1>5 DEF AssetIds, RecordIds
<1>9. \A e \in Clients, g \in Files : e # c \/ g # f => Same(g, e)
  <2>1. \A e \in Clients : e # c => OwnerRows(f, e)' = OwnerRows(f, e)
    BY <1>4, <1>7 DEF OwnerRows
  <2>2. \A e \in Clients, g \in Files : g # f => OwnerRows(g, e)' = OwnerRows(g, e)
    BY <1>7 DEF OwnerRows
  <2> QED BY <2>1, <2>2, <1>8 DEF Same
<1>10. Custody(f, c, FALSE, {}, {})
  <2>1. job[c].pc \in Unowned /\ CustodyOf(c)
    BY <1>0, CustodyPcs DEF CustodyInv
  <2> QED BY <2>1, <1>f DEF CustodyOf
<1>11. Custody(f, c, TRUE, {}, {})'
  <2>1. OwnerRows(f, c)' = {new}
    BY <1>4, <1>7, <1>10 DEF OwnerRows, Custody
  <2>2. OwnsOnce(f, c)'
    BY <2>1, <1>7 DEF OwnsOnce
  <2> QED BY <2>2, <1>8, <1>10 DEF Custody
<1>p. /\ job'[c].pc \in Enrolled
      /\ Enrolled \cap (Unowned \cup Disowned \cup {"record", "read", "disown", "forget"}) = {}
      /\ Enrolled \cap (Emptied \cup Reading) = {}
  BY <1>5, CustodyPcs DEF Enrolled, Disowned, Emptied, Reading
<1>12. CustodyOf(c)'
  BY <1>5, <1>11, <1>p DEF CustodyOf, Between
<1>13. \A g \in Files : g # job'[c].file => Settled(g, c)'
  BY <1>f, <1>5, <1>9, SameCustody DEF CustodyInv
<1>14. \A e \in Clients : e # c => job[e].pc \notin Emptied
  BY <1>0, CustodyPcs DEF TakeTurns
<1>15. LedgerInv'
  BY <1>5 DEF CustodyInv, LedgerInv
<1>16. job'[c].pc \notin Emptied \cup Reading
  BY <1>p
<1> QED BY <1>5, <1>9, <1>12, <1>13, <1>14, <1>15, <1>16, FilesOfJobs, CustodyKept

LEMMA DisownCustody ==
  ASSUME TypeOK, TypeOK', RowsInv, TablesInv, TakeTurns, CustodyInv, NEW c \in Clients,
         DeleteOwner(c), job'[c].pc # "hung"
  PROVE  CustodyInv'
<1>f. PICK f, u : f \in Files /\ f = job[c].file /\ u = job[c].upid
  BY FilesOfJobs
<1>1. /\ OnlyMoves(c) /\ job'[c].file = f /\ job'[c].upid = u
      /\ job[c].pc = "disown" /\ job'[c].pc = "hasOwner"
      /\ UNCHANGED <<files, ledger, local, nextId>>
      /\ owners' = owners \ OwnerRows(f, c)
  BY <1>f, DisownEffect DEF Keeps
<1>2. \A g : FileId(g)' = FileId(g)
  BY <1>1 DEF FileId, FileRows
<1>3. \A g : OwnersOf(g)' = OwnersOf(g) \ OwnerRows(f, c)
  BY <1>1, <1>2 DEF OwnersOf
<1>4. \A o \in OwnerRows(f, c) : o.user = c /\ o \in OwnersOf(f)
  BY DEF OwnerRows
<1>5. \A e \in Clients, g \in Files : e # c => OwnerRows(g, e)' = OwnerRows(g, e)
  BY <1>3, <1>4 DEF OwnerRows
<1>6. Custody(f, c, TRUE, {u}, {u})
  <2>1. CustodyOf(c)
    BY DEF CustodyInv
  <2> QED BY <2>1, <1>1, <1>f DEF CustodyOf
<1>7. OwnerRows(f, c)' = {}
  BY <1>3 DEF OwnerRows
<1>8. ASSUME NEW g \in Files, g # f PROVE OwnerRows(g, c)' = OwnerRows(g, c)
  <2>1. \A o \in OwnersOf(g) : o \notin OwnersOf(f)
    <3>1. CASE FileRows(g) = {} \/ FileRows(f) = {}
      BY <3>1, NoRow
    <3>2. CASE FileRows(g) # {} /\ FileRows(f) # {}
      <4>1. PICK r \in files, s \in files : r.flag = f /\ s.flag = g
        BY <3>2, RowsFlag
      <4>2. r.id # s.id
        BY <4>1, <1>8 DEF RowsInv
      <4> QED BY <4>1, <4>2, OneRow
    <3> QED BY <3>1, <3>2
  <2> QED BY <2>1, <1>3, <1>4 DEF OwnerRows
<1>9. \A e, g : AssetIds(g, e)' = AssetIds(g, e) /\ RecordIds(g, e)' = RecordIds(g, e)
  BY <1>1 DEF AssetIds, RecordIds
<1>10. \A e \in Clients, g \in Files : e # c \/ g # f => Same(g, e)
  BY <1>5, <1>8, <1>9 DEF Same
<1>11. Custody(f, c, FALSE, {u}, {u})'
  BY <1>6, <1>7, <1>9 DEF Custody
<1>p. /\ "hasOwner" \in Disowned /\ "hasOwner" \notin Emptied \cup Reading
      /\ "hasOwner" \notin Unowned \cup Enrolled /\ "disown" \in Removing
  BY CustodyPcs DEF Enrolled, Disowned, Emptied, Reading, Removing
<1>12. CustodyOf(c)'
  BY <1>1, <1>11, <1>p DEF CustodyOf, Between
<1>13. \A g \in Files : g # job'[c].file => Settled(g, c)'
  BY <1>f, <1>1, <1>10, SameCustody DEF CustodyInv
<1>14. \A e \in Clients : e # c => job[e].pc \notin Emptied
  BY <1>1, <1>p, CustodyPcs DEF TakeTurns
<1>15. LedgerInv'
  BY <1>1 DEF CustodyInv, LedgerInv
<1> QED BY <1>1, <1>10, <1>12, <1>13, <1>14, <1>15, <1>p, FilesOfJobs, CustodyKept

LEMMA CreateCustody ==
  ASSUME Faults \subseteq {"rsync"}, TypeOK, TypeOK', CustodyInv, NEW c \in Clients,
         CreateFileAsset(c)
  PROVE  CustodyInv'
<1>f. PICK f, n : f \in Files /\ f = job[c].file /\ n = nextId.upid
  BY FilesOfJobs
<1>0. PICK new : new = [upid |-> n, flag |-> f, user |-> c]
  OBVIOUS
<1>1. /\ OnlyMoves(c) /\ job'[c].file = f /\ job'[c].upid = n
      /\ job[c].pc \in {"create", "createProven"} /\ job'[c].pc = "record"
      /\ UNCHANGED <<files, owners, local>> /\ nextId'.upid = n + 1
      /\ ledger' = ledger \cup {new}
  BY <1>f, <1>0, CreateEffect
<1>2. new.upid = n /\ new.flag = f /\ new.user = c
  BY <1>0
<1>3. n \in Nat /\ \A a \in ledger : a.upid < n /\ a.upid \in Nat
  BY <1>f DEF TypeOK, Ids, CustodyInv, LedgerInv
<1>4. LedgerInv'
  BY <1>1, <1>2, <1>3 DEF CustodyInv, LedgerInv
<1>5. \A g, e : OwnerRows(g, e)' = OwnerRows(g, e) /\ OwnersOf(g)' = OwnersOf(g)
                /\ RecordIds(g, e)' = RecordIds(g, e)
  BY <1>1 DEF OwnerRows, OwnersOf, FileId, FileRows, RecordIds
<1>6. /\ AssetIds(f, c)' = AssetIds(f, c) \cup {n}
      /\ \A g, e : e # c \/ g # f => AssetIds(g, e)' = AssetIds(g, e)
  BY <1>1, <1>2 DEF AssetIds
<1>7. \A g, e : e # c \/ g # f => Same(g, e)
  BY <1>5, <1>6 DEF Same
<1>p. /\ job[c].pc \in Enrolled
      /\ "record" \notin Unowned \cup Enrolled \cup Disowned \cup Emptied \cup Reading
  BY <1>1, CustodyPcs DEF Enrolled, Disowned, Emptied, Reading
<1>8. Custody(f, c, TRUE, {}, {})
  <2>1. CustodyOf(c)
    BY DEF CustodyInv
  <2> QED BY <2>1, <1>f, <1>p DEF CustodyOf
<1>9. OwnsOnce(f, c)'
  BY <1>5, <1>8 DEF Custody, OwnsOnce
<1>10. Custody(f, c, TRUE, {n}, {})'
  BY <1>5, <1>6, <1>8, <1>9 DEF Custody
<1>11. CustodyOf(c)'
  BY <1>1, <1>10, <1>p DEF CustodyOf, Between
<1>12. \A g \in Files : g # job'[c].file => Settled(g, c)'
  BY <1>f, <1>1, <1>7, SameCustody DEF CustodyInv
<1>13. ASSUME NEW e \in Clients, e # c, job[e].pc \in Emptied
       PROVE  (OwnersOf(job[e].file) = {})'
  <2>1. PICK g : g = job[e].file
    OBVIOUS
  <2>2. g = job'[e].file /\ OwnersOf(g) = {}
    BY <2>1, <1>1, <1>13 DEF OnlyMoves, CustodyInv
  <2> QED BY <2>2, <1>5
<1> QED BY <1>1, <1>4, <1>7, <1>11, <1>12, <1>13, <1>p, FilesOfJobs, CustodyKept

\* What a step that ends a job with a change of c's records or of the chain leaves alone.
LEMMA CustodyEnds ==
  ASSUME TypeOK, TypeOK', CustodyInv, NEW c \in Clients, OnlyMoves(c), LedgerInv',
         UNCHANGED <<files, owners>>,
         \A g \in Files, e \in Clients : e # c \/ g # job[c].file => Same(g, e),
         job'[c].pc \notin Emptied \cup Reading,
         \/ job'[c].pc \notin Between /\ (\A f : f = job[c].file => Settled(f, c)')
         \/ CustodyOf(c)' /\ job'[c].file = job[c].file
  PROVE  CustodyInv'
<1>1. \A g \in Files : g # job[c].file => Settled(g, c)'
  BY SameCustody DEF CustodyInv
<1>2. CustodyOf(c)' /\ \A g \in Files : g # job'[c].file => Settled(g, c)'
  <2>1. CASE job'[c].pc \notin Between /\ (\A f : f = job[c].file => Settled(f, c)')
    <3>1. \A g \in Files : Settled(g, c)'
      BY <2>1, <1>1
    <3> QED BY <2>1, <3>1, CustodyIdle, FilesOfJobs
  <2>2. CASE CustodyOf(c)' /\ job'[c].file = job[c].file
    BY <2>2, <1>1
  <2> QED BY <2>1, <2>2
<1>3. ASSUME NEW e \in Clients, e # c, job[e].pc \in Emptied
      PROVE  (OwnersOf(job[e].file) = {})'
  <2>1. PICK g : g = job[e].file
    OBVIOUS
  <2>2. g = job'[e].file /\ OwnersOf(g) = {}
    BY <2>1, <1>3 DEF OnlyMoves, CustodyInv
  <2>3. OwnersOf(g)' = OwnersOf(g)
    BY DEF OwnersOf, FileId, FileRows
  <2> QED BY <2>2, <2>3
<1> QED BY <1>2, <1>3, FilesOfJobs, CustodyKept

LEMMA RecordCustody ==
  ASSUME TypeOK, TypeOK', CustodyInv, NEW c \in Clients, RecordUpload(c)
  PROVE  CustodyInv'
<1>f. PICK f \in Files, u \in Nat : f = job[c].file /\ u = job[c].upid
  BY FilesOfJobs, JobType DEF Job
<1>0. PICK new : new = [flag |-> f, upid |-> u]
  OBVIOUS
<1>1. /\ OnlyMoves(c) /\ job[c].pc = "record" /\ job'[c].pc = "idle"
      /\ UNCHANGED <<files, owners, ledger, nextId>>
      /\ local'[c] = local[c] \cup {new}
      /\ \A e \in Clients : e # c => local'[e] = local[e]
  BY <1>f, <1>0, RecordEffect
<1>2. new.flag = f /\ new.upid = u
  BY <1>0
<1>3. \A g, e : OwnerRows(g, e)' = OwnerRows(g, e) /\ OwnersOf(g)' = OwnersOf(g)
                /\ AssetIds(g, e)' = AssetIds(g, e)
  BY <1>1 DEF OwnerRows, OwnersOf, FileId, FileRows, AssetIds
<1>4. /\ RecordIds(f, c)' = RecordIds(f, c) \cup {u}
      /\ \A g : g # f => RecordIds(g, c)' = RecordIds(g, c)
      /\ \A e \in Clients : e # c => \A g : RecordIds(g, e)' = RecordIds(g, e)
  BY <1>1, <1>2 DEF RecordIds
<1>5. \A g \in Files, e \in Clients : e # c \/ g # f => Same(g, e)
  BY <1>3, <1>4 DEF Same
<1>p. "idle" \notin Between \cup Emptied \cup Reading
  BY BetweenPcs DEF Emptied, Reading
<1>6. Custody(f, c, TRUE, {u}, {})
  <2>1. CustodyOf(c)
    BY DEF CustodyInv
  <2> QED BY <2>1, <1>1, <1>f DEF CustodyOf
<1>7. OwnsOnce(f, c)'
  BY <1>3, <1>6 DEF Custody, OwnsOnce
<1>8. Custody(f, c, TRUE, {u}, {u})'
  BY <1>3, <1>4, <1>6, <1>7 DEF Custody
<1>9. Settled(f, c)'
  BY <1>8 DEF Settled
<1>10. LedgerInv'
  BY <1>1 DEF CustodyInv, LedgerInv
<1> QED BY <1>f, <1>1, <1>5, <1>9, <1>10, <1>p, CustodyEnds

LEMMA ForgetCustody ==
  ASSUME TypeOK, TypeOK', CustodyInv, NEW c \in Clients, ForgetUpload(c)
  PROVE  CustodyInv'
<1>f. PICK f \in Files, u \in Nat : f = job[c].file /\ u = job[c].upid
  BY FilesOfJobs, JobType DEF Job
<1>0. PICK old : old = [flag |-> f, upid |-> u]
  OBVIOUS
<1>1. /\ OnlyMoves(c) /\ job[c].pc = "forget" /\ job'[c].pc = "idle"
      /\ UNCHANGED <<files, owners, ledger, nextId>>
      /\ local'[c] = local[c] \ {old}
      /\ \A e \in Clients : e # c => local'[e] = local[e]
  BY <1>f, <1>0, ForgetEffect
<1>2. old.flag = f /\ old.upid = u
  BY <1>0
<1>3. \A g, e : OwnerRows(g, e)' = OwnerRows(g, e) /\ OwnersOf(g)' = OwnersOf(g)
                /\ AssetIds(g, e)' = AssetIds(g, e)
  BY <1>1 DEF OwnerRows, OwnersOf, FileId, FileRows, AssetIds
<1>t. \A r \in local[c] : r = [flag |-> r.flag, upid |-> r.upid]
  BY DEF TypeOK
<1>4. /\ RecordIds(f, c)' = RecordIds(f, c) \ {u}
      /\ \A g : g # f => RecordIds(g, c)' = RecordIds(g, c)
      /\ \A e \in Clients : e # c => \A g : RecordIds(g, e)' = RecordIds(g, e)
  <2>1. \A r \in local[c] : r.flag = f => (r = old <=> r.upid = u)
    BY <1>0, <1>2, <1>t
  <2> QED BY <1>1, <1>2, <2>1 DEF RecordIds
<1>5. \A g \in Files, e \in Clients : e # c \/ g # f => Same(g, e)
  BY <1>3, <1>4 DEF Same
<1>p. "idle" \notin Between \cup Emptied \cup Reading
  BY BetweenPcs DEF Emptied, Reading
<1>6. Custody(f, c, FALSE, {}, {u})
  <2>1. CustodyOf(c)
    BY DEF CustodyInv
  <2> QED BY <2>1, <1>1, <1>f DEF CustodyOf
<1>8. Custody(f, c, FALSE, {}, {})'
  BY <1>3, <1>4, <1>6 DEF Custody
<1>9. Settled(f, c)'
  BY <1>8 DEF Settled
<1>10. LedgerInv'
  BY <1>1 DEF CustodyInv, LedgerInv
<1> QED BY <1>f, <1>1, <1>5, <1>9, <1>10, <1>p, CustodyEnds

LEMMA DeleteAssetCustody ==
  ASSUME Faults \subseteq {"rsync"}, TypeOK, TypeOK', CustodyInv, NEW c \in Clients,
         DeleteAsset(c), job'[c].pc # "hung"
  PROVE  CustodyInv'
<1>f. PICK f \in Files, u \in Nat : f = job[c].file /\ u = job[c].upid
  BY FilesOfJobs, JobType DEF Job
<1>1. /\ OnlyMoves(c) /\ job[c].pc = "deleteAsset" /\ job'[c].pc = "forget"
      /\ job'[c].file = f /\ job'[c].upid = u
      /\ UNCHANGED <<files, owners, local, nextId>>
      /\ ledger' = {a \in ledger : a.upid # u}
  BY <1>f, DeleteAssetEffect DEF Keeps
<1>3. \A g, e : OwnerRows(g, e)' = OwnerRows(g, e) /\ OwnersOf(g)' = OwnersOf(g)
                /\ RecordIds(g, e)' = RecordIds(g, e)
  BY <1>1 DEF OwnerRows, OwnersOf, FileId, FileRows, RecordIds
<1>p. "deleteAsset" \in Disowned
      /\ "forget" \notin Unowned \cup Enrolled \cup Disowned \cup Emptied \cup Reading
  BY CustodyPcs DEF Enrolled, Disowned, Emptied, Reading
<1>6. Custody(f, c, FALSE, {u}, {u})
  <2>1. CustodyOf(c)
    BY DEF CustodyInv
  <2> QED BY <2>1, <1>1, <1>f, <1>p DEF CustodyOf
<1>7. \A a \in ledger : a.upid = u => a.flag = f /\ a.user = c
  <2>1. u \in AssetIds(f, c)
    BY <1>6 DEF Custody
  <2>2. PICK a \in ledger : a.upid = u /\ a.flag = f /\ a.user = c
    BY <2>1 DEF AssetIds
  <2> QED BY <2>2 DEF CustodyInv, LedgerInv
<1>4. /\ AssetIds(f, c)' = {}
      /\ \A g, e : e # c \/ g # f => AssetIds(g, e)' = AssetIds(g, e)
  <2>1. AssetIds(f, c)' \subseteq AssetIds(f, c) \ {u}
    BY <1>1 DEF AssetIds
  <2> QED BY <1>1, <1>6, <1>7, <2>1 DEF AssetIds, Custody
<1>5. \A g \in Files, e \in Clients : e # c \/ g # f => Same(g, e)
  BY <1>3, <1>4 DEF Same
<1>8. Custody(f, c, FALSE, {}, {u})'
  BY <1>3, <1>4, <1>6 DEF Custody
<1>9. CustodyOf(c)'
  BY <1>1, <1>8, <1>p DEF CustodyOf, Between
<1>10. LedgerInv'
  BY <1>1 DEF CustodyInv, LedgerInv
<1> QED BY <1>f, <1>1, <1>5, <1>9, <1>10, <1>p, CustodyEnds

LEMMA DeleteFileCustody ==
  ASSUME CascadeDetails, TypeOK, TypeOK', RowsInv, TablesInv, CustodyInv, NEW c \in Clients,
         DeleteFile(c)
  PROVE  CustodyInv'
<1>f. PICK f \in Files : f = job[c].file
  BY FilesOfJobs
<1>1. /\ OnlyMoves(c) /\ job[c].pc = "unlink" /\ job'[c].pc = "rsyncDelete"
      /\ job'[c].file = f /\ job'[c].upid = job[c].upid
      /\ UNCHANGED <<ledger, local, nextId>>
  BY <1>f, DeleteFileEffect DEF Keeps
<1>p. "unlink" \in Emptied /\ "unlink" \in Disowned /\ "rsyncDelete" \in Disowned
      /\ "rsyncDelete" \notin Emptied
  BY DEF Emptied, Disowned
<1>2. OwnersOf(f) = {}
  BY <1>f, <1>1, <1>p DEF CustodyInv
<1>3. \A g : OwnersOf(g)' = OwnersOf(g)
  BY <1>f, <1>2, DeleteFileRows
<1>4. \A g, e : Same(g, e)
  BY <1>1, <1>3 DEF Same, OwnerRows, AssetIds, RecordIds
<1>5. LedgerInv'
  BY <1>1 DEF CustodyInv, LedgerInv
<1> QED BY <1>f, <1>1, <1>3, <1>4, <1>5, <1>p, CustodyGoesOn

\* A step that stays within a phase and changes none of the four stores.
LEMMA CustodyMoves ==
  ASSUME TypeOK, TypeOK', CustodyInv, NEW c \in Clients, OnlyMoves(c),
         UNCHANGED <<files, owners, ledger, local>>, nextId'.upid = nextId.upid,
         job'[c].file = job[c].file,
         \/ job[c].pc \in Unowned /\ job'[c].pc \in Unowned
         \/ job[c].pc \in Enrolled /\ job'[c].pc \in Enrolled
         \/ /\ job'[c].upid = job[c].upid
            /\ \/ job[c].pc \in {"read", "disown"} /\ job'[c].pc \in {"read", "disown"}
               \/ job[c].pc \in Disowned /\ job'[c].pc \in Disowned,
         job'[c].pc \in Emptied => OwnersOf(job[c].file) = {}
  PROVE  CustodyInv'
<1>1. \A g, e : Same(g, e) /\ OwnersOf(g)' = OwnersOf(g)
  BY StoresSame
<1>2. LedgerInv'
  BY StoresSame DEF CustodyInv
<1>3. job'[c].pc \in Emptied => (OwnersOf(job[c].file) = {})'
  <2>1. PICK f : f = job[c].file
    OBVIOUS
  <2>2. f = job'[c].file /\ OwnersOf(f)' = OwnersOf(f)
    BY <2>1, <1>1
  <2> QED BY <2>1, <2>2
<1> QED BY <1>1, <1>2, <1>3, CustodyGoesOn

LEMMA CustodyStep ==
  ASSUME Faults \subseteq {"rsync"}, CascadeDetails, TypeOK, TypeOK', RowsInv, TablesInv,
         TakeTurns, FilingInv, FilingInv', CustodyInv, NEW c \in Clients, Steps(c),
         job'[c].pc # "hung"
  PROVE  CustodyInv'
<1>p. /\ {"idle", "count", "prove", "isOwner", "hung", "lookup", "fetchBlock", "downloaded"}
           \cap Between = {}
      /\ {"idle", "count", "prove", "isOwner", "hung"} \cap Reading = {}
      /\ Reading = {"lookup", "fetchBlock", "downloaded"}
      /\ Enrolled = {"rsync", "fetch", "clear", "create", "createProven"}
      /\ Disowned = {"hasOwner", "fileId", "noUseTag", "unlink", "rsyncDelete", "deleteAsset"}
      /\ Emptied = {"fileId", "noUseTag", "unlink"}
  BY BetweenPcs DEF Reading, Enrolled, Disowned, Emptied
<1>q. /\ Unowned = {"send", "open", "write", "detail", "link", "getCounter", "setCounter",
                    "insert", "enrol"}
      /\ Unowned \cap Emptied = {} /\ Enrolled \cap Emptied = {}
  BY CustodyPcs, <1>p
<1>1. CASE StartUpload(c)
  <2>1. /\ OnlyMoves(c) /\ job[c].pc = "idle" /\ job'[c].pc = "count"
        /\ UNCHANGED <<files, owners, ledger, local, nextId>>
    BY <1>1, StartUploadEffect DEF Stores
  <2> QED BY <2>1, <1>p, CustodyAside
<1>2. CASE StartDelete(c)
  <2>1. PICK r \in local[c] : job'[c].file = r.flag /\ job'[c].upid = r.upid
    BY <1>2, StartDeleteEffect
  <2>2. /\ OnlyMoves(c) /\ job[c].pc = "idle" /\ job'[c].pc = "read"
        /\ UNCHANGED <<files, owners, ledger, local, nextId>>
    BY <1>2, StartDeleteEffect DEF Stores
  <2>3. PICK f \in Files : f = r.flag
    BY DEF TypeOK
  <2>4. job'[c].upid \in RecordIds(f, c)
    BY <2>1, <2>3 DEF RecordIds
  <2> QED BY <2>1, <2>2, <2>3, <2>4, <1>p, CustodyEnters
<1>3. CASE StartDownload(c)
  <2>1. PICK r \in local[c] : job'[c].file = r.flag
    BY <1>3, StartDownloadEffect
  <2>2. /\ OnlyMoves(c) /\ job[c].pc = "idle" /\ job'[c].pc = "lookup"
        /\ UNCHANGED <<files, owners, ledger, local, nextId>>
    BY <1>3, StartDownloadEffect DEF Stores
  <2>3. r.upid \in RecordIds(r.flag, c)
    BY DEF RecordIds
  <2>4. RecordIds(job'[c].file, c) # {}
    BY <2>1, <2>3
  <2> QED BY <2>2, <2>4, <1>p, CustodyAside
<1>4. CASE CountBlocks(c)
  <2>1. /\ OnlyMoves(c) /\ job[c].pc = "count" /\ job'[c].pc \in {"insert", "prove"}
        /\ job'[c].file = job[c].file
        /\ UNCHANGED <<files, owners, ledger, local, nextId>>
    BY <1>4, CountEffect DEF Stores, Keeps
  <2>2. CASE job'[c].pc = "prove"
    BY <2>1, <2>2, <1>p, CustodyAside
  <2>3. CASE job'[c].pc = "insert"
    <3>1. PICK f \in Files : f = job'[c].file
      BY FilesOfJobs
    <3>2. (FileRows(f) = {})'
      BY <2>3, <3>1 DEF FilingInv
    <3>3. FileRows(f) = {}
      BY <2>1, <3>2 DEF FileRows
    <3>4. OwnerRows(f, c) = {}
      BY <3>3, NoRow DEF OwnerRows
    <3> QED BY <2>1, <2>3, <3>1, <3>4, <1>p, <1>q, CustodyEnters
  <2> QED BY <2>1, <2>2, <2>3
<1>5. CASE InsertFile(c)
  BY <1>5, InsertCustody
<1>6. CASE TestTag(c) \/ OpenBlock(c) \/ WriteBlock(c) \/ GetCounter(c) \/ SetCounter(c)
  <2>1. UNCHANGED <<files, owners, ledger, local, nextId>>
    BY <1>6, TestEffect, OpenEffect, WriteEffect, GetCounterEffect, SetCounterEffect DEF Stores
  <2>2. /\ OnlyMoves(c) /\ job'[c].file = job[c].file
        /\ job[c].pc \in {"send", "open", "write", "getCounter", "setCounter"}
        /\ job'[c].pc \in {"open", "link", "write", "detail", "setCounter", "send"}
    BY <1>6, TestTagEffect, OpenEffect, WriteEffect, GetCounterEffect, SetCounterEffect DEF Keeps
  <2> QED BY <2>1, <2>2, <1>q, CustodyMoves
<1>7. CASE StoreDetail(c)
  <2>1. job[c].pc \in Storing
    BY <1>7, PcKinds DEF StoreDetail, ReadyForRow
  <2>2. Insertable(job[c].file)
    <3>1. FileRows(job[c].file) # {}
      BY <2>1 DEF FilingInv, BeingStored
    <3>2. PICK r \in files : r.flag = job[c].file
      BY <3>1, RowsFlag
    <3> QED BY <3>2, OneRow
  <2>3. UNCHANGED <<files, owners, ledger, local>> /\ nextId'.upid = nextId.upid
    BY <1>7, <2>2, StoreEffect
  <2>4. /\ OnlyMoves(c) /\ job'[c].file = job[c].file
        /\ job[c].pc \in {"detail", "link"} /\ job'[c].pc \in {"getCounter", "send"}
    BY <1>7, <2>2, StoreEffect
  <2> QED BY <2>3, <2>4, <1>q, CustodyMoves
<1>8. CASE AddOwner(c)
  BY <1>8, AddOwnerCustody
<1>9. CASE RsyncUpload(c) \/ RsyncDelete(c)
  <2>1. /\ OnlyMoves(c) /\ job'[c].file = job[c].file /\ job'[c].upid = job[c].upid
        /\ \/ job[c].pc = "rsync" /\ job'[c].pc = "fetch"
           \/ job[c].pc = "rsyncDelete" /\ job'[c].pc = "deleteAsset"
        /\ UNCHANGED <<files, owners, ledger, local, nextId>>
    BY <1>9, RsyncEffect DEF RsyncUpload, RsyncDelete, Keeps
  <2> QED BY <2>1, <1>p, CustodyMoves
<1>10. CASE FetchCounter(c) \/ ClearCounter(c)
  <2>1. UNCHANGED <<files, owners, ledger, local, nextId>>
    BY <1>10, FetchCounterEffect, ClearEffect DEF Stores
  <2>2. /\ OnlyMoves(c) /\ job'[c].file = job[c].file
        /\ job[c].pc \in {"fetch", "clear"} /\ job'[c].pc \in {"clear", "create"}
    BY <1>10, FetchCounterEffect, ClearEffect DEF Keeps
  <2> QED BY <2>1, <2>2, <1>p, CustodyMoves
<1>11. CASE CreateFileAsset(c)
  BY <1>11, CreateCustody
<1>12. CASE RecordUpload(c)
  BY <1>12, RecordCustody
<1>13. CASE VerifyProof(c)
  <2>1. UNCHANGED <<files, owners, ledger, local, nextId>>
    BY <1>13, VerifyEffect DEF Stores
  <2>2. OnlyMoves(c) /\ job[c].pc = "prove" /\ job'[c].pc \in {"isOwner", "idle"}
    BY <1>13, VerifyEffect
  <2> QED BY <2>1, <2>2, <1>p, CustodyAside
<1>14. CASE IsOwner(c)
  <2>1. UNCHANGED <<files, owners, ledger, local, nextId>>
    BY <1>14, IsOwnerEffect DEF Stores
  <2>2. /\ OnlyMoves(c) /\ job[c].pc = "isOwner"
        /\ \/ /\ job'[c].pc = "enrol" /\ job'[c].file = job[c].file
              /\ OwnerRows(job[c].file, c) = {}
           \/ job'[c].pc = "idle"
    BY <1>14, IsOwnerEffect
  <2>3. CASE job'[c].pc = "idle"
    BY <2>1, <2>2, <2>3, <1>p, CustodyAside
  <2>4. CASE job'[c].pc = "enrol"
    <3>1. PICK f \in Files : f = job'[c].file
      BY FilesOfJobs
    <3> QED BY <2>1, <2>2, <2>4, <3>1, <1>p, <1>q, CustodyEnters
  <2> QED BY <2>2, <2>3, <2>4
<1>15. CASE ReadFileAsset(c)
  <2>1. UNCHANGED <<files, owners, ledger, local, nextId>>
    BY <1>15, ReadEffect DEF Stores
  <2>2. /\ OnlyMoves(c) /\ job[c].pc = "read"
        /\ \/ /\ job'[c].pc = "disown" /\ job'[c].file = job[c].file
              /\ job'[c].upid = job[c].upid
           \/ job'[c].pc = "idle"
    BY <1>15, ReadEffect DEF Keeps
  <2>3. CASE job'[c].pc = "disown"
    BY <2>1, <2>2, <2>3, <1>p, CustodyMoves
  <2>4. CASE job'[c].pc = "idle"
    <3>1. PICK f, u : f = job[c].file /\ u = job[c].upid
      OBVIOUS
    <3>2. Custody(f, c, TRUE, {u}, {u})
      BY <2>2, <3>1 DEF CustodyInv, CustodyOf
    <3>3. u \in Nat
      BY <3>1, JobType DEF Job
    <3>4. Settled(f, c)
      BY <3>2, <3>3 DEF Settled
    <3> QED BY <2>1, <2>2, <2>4, <3>1, <3>4, <1>p, CustodyAside
  <2> QED BY <2>2, <2>3, <2>4
<1>16. CASE DeleteOwner(c)
  BY <1>16, DisownCustody
<1>17. CASE HasOwner(c) \/ GetFileId(c) \/ GetNoUseTag(c) \/ UnlinkBlock(c)
  <2>1. UNCHANGED <<files, owners, ledger, local, nextId>>
    BY <1>17, HasOwnerEffect, FileIdEffect, NoUseTagEffect, UnlinkEffect DEF Stores
  <2>2. /\ OnlyMoves(c) /\ job[c].pc \in {"hasOwner", "fileId", "noUseTag", "unlink"}
        /\ job'[c].pc \in {"fileId", "rsyncDelete", "noUseTag", "unlink"}
        /\ job'[c].file = job[c].file /\ job'[c].upid = job[c].upid
        /\ job[c].pc = "hasOwner" /\ job'[c].pc # "rsyncDelete" => OwnersOf(job[c].file) = {}
    <3>1. CASE HasOwner(c)
      BY <3>1, HasOwnerEffect DEF Keeps
    <3>2. CASE GetFileId(c)
      BY <3>2, FileIdEffect
    <3>3. CASE GetNoUseTag(c)
      BY <3>3, NoUseTagEffect
    <3>4. CASE UnlinkBlock(c)
      BY <3>4, UnlinkEffect
    <3> QED BY <1>17, <3>1, <3>2, <3>3, <3>4
  <2>3. job'[c].pc \in Emptied => OwnersOf(job[c].file) = {}
    BY <2>2, <1>p DEF CustodyInv
  <2> QED BY <2>1, <2>2, <2>3, <1>p, CustodyMoves
<1>18. CASE DeleteFile(c)
  BY <1>18, DeleteFileCustody
<1>19. CASE DeleteAsset(c)
  BY <1>19, DeleteAssetCustody
<1>20. CASE ForgetUpload(c)
  BY <1>20, ForgetCustody
<1>21. CASE Download(c)
  <2>1. UNCHANGED <<files, owners, ledger, local, nextId>>
    BY <1>21, LookupEffect, FetchBlockEffect, FinishEffect DEF Download, Stores
  <2>2. /\ OnlyMoves(c) /\ job[c].pc \in Reading
        /\ job'[c].pc \in Reading \cup {"idle"}
        /\ job'[c].pc \in Reading => job'[c].file = job[c].file
    BY <1>21, <1>p, LookupEffect, FetchBlockEffect, FinishEffect DEF Download, Keeps
  <2>3. job'[c].pc \in Reading => RecordIds(job'[c].file, c) # {}
    BY <2>2 DEF CustodyInv
  <2> QED BY <2>1, <2>2, <2>3, <1>p, CustodyAside
<1>22. CASE GiveUp(c)
  <2>1. /\ OnlyMoves(c) /\ job[c].pc = "hung" /\ job'[c].pc = "idle"
        /\ UNCHANGED <<files, owners, ledger, local, nextId>>
    BY <1>22, Ended DEF GiveUp, At, db
  <2> QED BY <2>1, <1>p, CustodyAside
<1> QED
  BY <1>1, <1>2, <1>3, <1>4, <1>5, <1>6, <1>7, <1>8, <1>9, <1>10, <1>11, <1>12, <1>13,
     <1>14, <1>15, <1>16, <1>17, <1>18, <1>19, <1>20, <1>21, <1>22
     DEF Steps, Begin, Step, Upload, Delete

----------------------------------------------------------------------------
(* The block files, the counters and the other SSP agree with the tables *)

Unused(f) == NoUseTag(FileId(f))
Counting == Storing \cup {"rsync", "fetch", "clear"}
Syncing == Storing \cup {"rsync", "unlink", "rsyncDelete"}
Rewriting == {"write", "detail"}

\* What is left to unlink is unused, and what is unused is unlinked or left to be.
Unlinking(c) ==
  /\ job[c].todo \subseteq Unused(job[c].file)
  /\ \A d \in details :
       d.id \in Unused(job[c].file) => d.id \in job[c].todo \/ block[d.tag] = "absent"

BlockFilesInv ==
  /\ \A d \in details : block[d.tag] = "absent" =>
       \E c \in Clients : job[c].pc = "unlink" /\ d.id \in Unused(job[c].file)
  /\ \A c \in Clients : job[c].pc = "noUseTag" => job[c].num = FileId(job[c].file)
  /\ \A c \in Clients : job[c].pc = "unlink" => Unlinking(c)
  /\ \A T \in Tags : block[T] # "absent" =>
       \/ \E d \in details : d.tag = T
       \/ \E c \in Clients : job[c].pc \in Rewriting /\ job[c].tag = T
  /\ \A T \in Tags : block[T] = "truncated" => BeingWritten(T)
  /\ \A c \in Clients : job[c].pc \in Rewriting => block[job[c].tag] # "absent"
  /\ \A c \in Clients : job[c].pc = "link" => \E d \in details : d.tag = job[c].tag

CountsInv ==
  \A f \in Files : counter[f] # 0 => \E c \in Clients : job[c].pc \in Counting /\ job[c].file = f

BackupInv ==
  "rsync" \notin Faults /\ (\A c \in Clients : job[c].pc \notin Syncing) =>
    backup = {T \in Tags : block[T] = "whole"}

LEMMA StoresInit == Init => BlockFilesInv /\ CountsInv /\ BackupInv
BY IdlePc DEF Init, BlockFilesInv, CountsInv, BackupInv, Rewriting, BeingWritten

LEMMA CountingPcs ==
  /\ Counting = {"send", "open", "write", "detail", "link", "getCounter", "setCounter",
                 "rsync", "fetch", "clear"}
  /\ Syncing = {"send", "open", "write", "detail", "link", "getCounter", "setCounter",
                "rsync", "unlink", "rsyncDelete"}
BY PcKinds DEF Counting, Syncing

\* The steps that touch neither the blocks and their rows nor the counters.
Plain(c) ==
  \/ Begin(c) \/ CountBlocks(c) \/ CreateFileAsset(c) \/ RecordUpload(c) \/ VerifyProof(c)
  \/ IsOwner(c) \/ ReadFileAsset(c) \/ DeleteOwner(c) \/ HasOwner(c) \/ GetFileId(c)
  \/ DeleteAsset(c) \/ ForgetUpload(c) \/ Download(c) \/ GiveUp(c)

LEMMA PlainEffect ==
  ASSUME Faults \subseteq {"rsync"}, TypeOK, NEW c \in Clients, Plain(c)
  PROVE  /\ OnlyMoves(c) /\ UNCHANGED <<files, details, block, backup, counter>>
         /\ job[c].pc \in {"idle", "count", "create", "createProven", "record", "prove",
                           "isOwner", "read", "disown", "hasOwner", "fileId", "deleteAsset",
                           "forget", "lookup", "fetchBlock", "downloaded", "hung"}
         /\ job'[c].pc \in {"count", "read", "lookup", "insert", "prove", "record", "idle",
                            "isOwner", "enrol", "disown", "hasOwner", "fileId", "rsyncDelete",
                            "noUseTag", "forget", "fetchBlock", "downloaded", "hung"}
         /\ job'[c].pc = "noUseTag" =>
              job'[c].file = job[c].file /\ job'[c].num = FileId(job[c].file)
<1>1. CASE Begin(c)
  BY <1>1, StartUploadEffect, StartDeleteEffect, StartDownloadEffect DEF Begin, Stores
<1>2. CASE CountBlocks(c)
  BY <1>2, CountEffect DEF Stores
<1>3. CASE CreateFileAsset(c) \/ RecordUpload(c)
  BY <1>3, CreateEffect, RecordEffect
<1>4. CASE VerifyProof(c)
  BY <1>4, VerifyEffect DEF Stores
<1>5. CASE IsOwner(c)
  BY <1>5, IsOwnerEffect DEF Stores
<1>6. CASE ReadFileAsset(c)
  BY <1>6, ReadEffect DEF Stores
<1>7. CASE DeleteOwner(c)
  BY <1>7, DisownEffect
<1>8. CASE HasOwner(c)
  BY <1>8, HasOwnerEffect DEF Stores
<1>9. CASE GetFileId(c)
  BY <1>9, FileIdEffect DEF Stores
<1>10. CASE DeleteAsset(c) \/ ForgetUpload(c)
  BY <1>10, DeleteAssetEffect, ForgetEffect
<1>11. CASE Download(c)
  BY <1>11, LookupEffect, FetchBlockEffect, FinishEffect DEF Download, Stores
<1>12. CASE GiveUp(c)
  <2>1. OnlyMoves(c) /\ job[c].pc = "hung" /\ job'[c].pc = "idle"
    BY <1>12, Ended DEF GiveUp, At
  <2>2. UNCHANGED <<files, details, block, backup, counter>>
    BY <1>12 DEF GiveUp, db, disk
  <2> QED BY <2>1, <2>2
<1> QED BY <1>1, <1>2, <1>3, <1>4, <1>5, <1>6, <1>7, <1>8, <1>9, <1>10, <1>11, <1>12 DEF Plain

\* Every step is a plain one or one of these.
LEMMA StoreSteps ==
  ASSUME NEW c \in Clients, Steps(c)
  PROVE  \/ Plain(c) \/ InsertFile(c) \/ TestTag(c) \/ OpenBlock(c) \/ WriteBlock(c)
         \/ StoreDetail(c) \/ GetCounter(c) \/ SetCounter(c) \/ AddOwner(c) \/ RsyncUpload(c)
         \/ FetchCounter(c) \/ ClearCounter(c) \/ GetNoUseTag(c) \/ UnlinkBlock(c)
         \/ DeleteFile(c) \/ RsyncDelete(c)
BY DEF Steps, Step, Upload, Delete, Plain

\* Under FilingInv the inserts of storing, enrolling and adding an owner go through.
LEMMA StoringInsertable ==
  ASSUME TypeOK, TablesInv, FilingInv, NEW c \in Clients,
         job[c].pc \in Storing \cup {"enrol"}
  PROVE  Insertable(job[c].file)
<1>1. FileRows(job[c].file) # {}
  BY PcKinds DEF FilingInv, BeingStored
<1>2. PICK r \in files : r.flag = job[c].file
  BY <1>1, RowsFlag
<1> QED BY <1>2, OneRow

LEMMA CountsKept ==
  ASSUME TypeOK, CountsInv, NEW c \in Clients, OnlyMoves(c),
         \A f \in Files : f # job[c].file => counter'[f] = counter[f],
         \/ counter'[job[c].file] = 0
         \/ job'[c].pc \in Counting /\ job'[c].file = job[c].file
         \/ job[c].pc \notin Counting /\ counter'[job[c].file] = counter[job[c].file]
  PROVE  CountsInv'
<1> SUFFICES ASSUME NEW f \in Files, counter'[f] # 0
             PROVE  \E e \in Clients : job'[e].pc \in Counting /\ job'[e].file = f
  BY DEF CountsInv
<1>1. CASE f = job[c].file /\ job'[c].pc \in Counting /\ job'[c].file = job[c].file
  BY <1>1
<1>2. CASE ~(f = job[c].file /\ job'[c].pc \in Counting /\ job'[c].file = job[c].file)
  <2>1. counter[f] # 0
    BY <1>2
  <2>2. PICK e \in Clients : job[e].pc \in Counting /\ job[e].file = f
    BY <2>1 DEF CountsInv
  <2>3. e # c
    BY <1>2, <2>2
  <2> QED BY <2>2, <2>3 DEF OnlyMoves
<1> QED BY <1>1, <1>2

LEMMA CountsStep ==
  ASSUME Faults \subseteq {"rsync"}, CascadeDetails, TypeOK, TablesInv, FilingInv, CountsInv,
         NEW c \in Clients, Steps(c)
  PROVE  CountsInv'
<1>1. CASE Plain(c)
  <2>1. job[c].pc \notin Counting
    BY <1>1, PlainEffect, CountingPcs
  <2> QED BY <1>1, <2>1, PlainEffect, CountsKept
<1>2. CASE InsertFile(c) \/ GetNoUseTag(c) \/ UnlinkBlock(c) \/ DeleteFile(c) \/ RsyncDelete(c)
  <2>1. OnlyMoves(c) /\ job[c].pc \in {"insert", "noUseTag", "unlink", "rsyncDelete"}
    BY <1>2, InsertEffect, NoUseTagEffect, UnlinkEffect, DeleteFileEffect, RsyncEffect
       DEF RsyncDelete
  <2>2. UNCHANGED counter
    BY <1>2 DEF InsertFile, GetNoUseTag, UnlinkBlock, DeleteFile, RsyncDelete, Rsync
  <2> QED BY <2>1, <2>2, CountingPcs, CountsKept
<1>3. CASE TestTag(c) \/ OpenBlock(c) \/ WriteBlock(c) \/ GetCounter(c) \/ RsyncUpload(c)
  <2>1. /\ OnlyMoves(c) /\ job'[c].file = job[c].file
        /\ job'[c].pc \in {"open", "link", "write", "detail", "setCounter", "fetch"}
    BY <1>3, TestTagEffect, OpenEffect, WriteEffect, GetCounterEffect, RsyncEffect
       DEF Keeps, RsyncUpload
  <2>2. UNCHANGED counter
    BY <1>3 DEF TestTag, OpenBlock, WriteBlock, GetCounter, RsyncUpload, Rsync
  <2> QED BY <2>1, <2>2, CountingPcs, CountsKept
<1>4. CASE StoreDetail(c)
  <2>1. job[c].pc \in Storing
    BY <1>4, PcKinds DEF StoreDetail, ReadyForRow
  <2>2. /\ OnlyMoves(c) /\ job'[c].file = job[c].file /\ job'[c].pc \in {"getCounter", "send"}
        /\ UNCHANGED counter
    BY <1>4, <2>1, StoringInsertable, StoreEffect
  <2> QED BY <2>2, CountingPcs, CountsKept
<1>5. CASE SetCounter(c)
  BY <1>5, SetCounterEffect, CountingPcs, CountsKept
<1>6. CASE AddOwner(c)
  <2>1. job[c].pc \in Storing \cup {"enrol"}
    BY <1>6, PcKinds DEF AddOwner, At
  <2>2. /\ OnlyMoves(c) /\ job'[c].file = job[c].file /\ UNCHANGED counter
        /\ \/ job'[c].pc = "rsync"
           \/ job[c].pc = "enrol"
    BY <1>6, <2>1, StoringInsertable, AddOwnerEffect DEF Keeps
  <2> QED BY <2>2, CountingPcs, CountsKept
<1>7. CASE FetchCounter(c)
  <2>1. UNCHANGED counter
    BY <1>7, FetchCounterEffect DEF Stores
  <2>2. /\ OnlyMoves(c) /\ job'[c].file = job[c].file
        /\ job'[c].pc = "clear" \/ counter[job[c].file] = 0
    BY <1>7, FetchCounterEffect
  <2> QED BY <2>1, <2>2, CountingPcs, CountsKept
<1>8. CASE ClearCounter(c)
  <2>1. OnlyMoves(c) /\ counter' = [counter EXCEPT ![job[c].file] = 0]
    BY <1>8, ClearEffect
  <2>2. counter'[job[c].file] = 0 /\ \A f \in Files : f # job[c].file => counter'[f] = counter[f]
    BY <2>1, FileOfJob DEF TypeOK
  <2> QED BY <2>1, <2>2, CountsKept
<1> QED BY <1>1, <1>2, <1>3, <1>4, <1>5, <1>6, <1>7, <1>8, StoreSteps

LEMMA BackupKept ==
  ASSUME BackupInv, NEW c \in Clients, OnlyMoves(c),
         \/ job'[c].pc \in Syncing
         \/ job[c].pc \notin Syncing /\ UNCHANGED <<block, backup>>
         \/ UNCHANGED block /\ ("rsync" \notin Faults => backup' = {T \in Tags : block[T] = "whole"})
  PROVE  BackupInv'
<1> SUFFICES ASSUME "rsync" \notin Faults, \A e \in Clients : job'[e].pc \notin Syncing
             PROVE  backup' = {T \in Tags : block'[T] = "whole"}
  BY DEF BackupInv
<1>1. CASE job[c].pc \notin Syncing /\ UNCHANGED <<block, backup>>
  <2>1. \A e \in Clients : job[e].pc \notin Syncing
    BY <1>1 DEF OnlyMoves
  <2> QED BY <1>1, <2>1 DEF BackupInv
<1> QED BY <1>1

LEMMA BackupStep ==
  ASSUME Faults \subseteq {"rsync"}, CascadeDetails, TypeOK, TablesInv, FilingInv, BackupInv,
         NEW c \in Clients, Steps(c), job'[c].pc # "hung"
  PROVE  BackupInv'
<1>1. CASE Plain(c)
  <2>1. job[c].pc \notin Syncing
    BY <1>1, PlainEffect, CountingPcs
  <2> QED BY <1>1, <2>1, PlainEffect, BackupKept
<1>2. CASE InsertFile(c)
  BY <1>2, InsertEffect, CountingPcs, BackupKept
<1>3. CASE \/ TestTag(c) \/ OpenBlock(c) \/ WriteBlock(c) \/ GetCounter(c) \/ SetCounter(c)
           \/ GetNoUseTag(c) \/ UnlinkBlock(c) \/ DeleteFile(c)
  <2>1. /\ OnlyMoves(c)
        /\ job'[c].pc \in {"open", "link", "write", "detail", "setCounter", "send", "unlink",
                           "rsyncDelete"}
    BY <1>3, TestTagEffect, OpenEffect, WriteEffect, GetCounterEffect, SetCounterEffect,
       NoUseTagEffect, UnlinkEffect, DeleteFileEffect
  <2> QED BY <2>1, CountingPcs, BackupKept
<1>4. CASE StoreDetail(c)
  <2>1. job[c].pc \in Storing
    BY <1>4, PcKinds DEF StoreDetail, ReadyForRow
  <2>2. OnlyMoves(c) /\ job'[c].pc \in {"getCounter", "send"}
    BY <1>4, <2>1, StoringInsertable, StoreEffect
  <2> QED BY <2>2, CountingPcs, BackupKept
<1>5. CASE AddOwner(c)
  <2>1. job[c].pc \in Storing \cup {"enrol"}
    BY <1>5, PcKinds DEF AddOwner, At
  <2>2. /\ OnlyMoves(c) /\ UNCHANGED <<block, backup>>
        /\ \/ job'[c].pc = "rsync"
           \/ job[c].pc = "enrol"
    BY <1>5, <2>1, StoringInsertable, AddOwnerEffect
  <2> QED BY <2>2, CountingPcs, BackupKept
<1>6. CASE FetchCounter(c) \/ ClearCounter(c)
  <2>1. UNCHANGED <<block, backup>>
    BY <1>6, FetchCounterEffect, ClearEffect DEF Stores
  <2>2. OnlyMoves(c) /\ job[c].pc \in {"fetch", "clear"}
    BY <1>6, FetchCounterEffect, ClearEffect
  <2> QED BY <2>1, <2>2, CountingPcs, BackupKept
<1>7. CASE RsyncUpload(c) \/ RsyncDelete(c)
  BY <1>7, RsyncEffect, BackupKept DEF RsyncUpload, RsyncDelete
<1> QED BY <1>1, <1>2, <1>3, <1>4, <1>5, <1>6, <1>7, StoreSteps

\* Nobody is about to unlink while another client uploads or deletes.
LEMMA NoUnlinker ==
  ASSUME TakeTurns, NEW c \in Clients, job[c].pc \in Uploading \cup Removing
  PROVE  \A e \in Clients : e # c => job[e].pc \notin {"noUseTag", "unlink"}
<1>1. {"noUseTag", "unlink"} \subseteq Removing
  BY DEF Removing
<1> QED BY <1>1 DEF TakeTurns

\* The blocks and their rows stay, and c has none in hand.
LEMMA BlocksKept ==
  ASSUME BlockFilesInv, NEW c \in Clients, OnlyMoves(c), UNCHANGED <<details, block>>,
         \/ UNCHANGED files
         \/ \A e \in Clients : e # c => job[e].pc \notin {"noUseTag", "unlink"},
         job[c].pc \notin {"write", "detail", "unlink"},
         job'[c].pc \notin {"write", "detail", "unlink"},
         job'[c].pc = "noUseTag" => (job[c].num = FileId(job[c].file))',
         job'[c].pc = "link" => \E d \in details : d.tag = job'[c].tag
  PROVE  BlockFilesInv'
<1>o. \A e \in Clients : e # c => job'[e] = job[e]
  BY DEF OnlyMoves
<1>u. ASSUME NEW e \in Clients, e # c, job[e].pc \in {"noUseTag", "unlink"}
      PROVE  /\ (FileId(job[e].file))' = FileId(job[e].file)
             /\ (Unused(job[e].file))' = Unused(job[e].file)
  <2>1. PICK f : f = job[e].file
    OBVIOUS
  <2>2. f = job'[e].file
    BY <1>o, <1>u, <2>1
  <2>0. files' = files
    BY <1>u
  <2>3. FileId(f)' = FileId(f)
    BY <2>0 DEF FileId, FileRows
  <2>4. Unused(f)' = Unused(f)
    BY <2>3 DEF Unused, NoUseTag
  <2> QED BY <2>1, <2>2, <2>3, <2>4
<1>1. ASSUME NEW d \in details, block[d.tag] = "absent"
      PROVE  \E e \in Clients : job'[e].pc = "unlink" /\ d.id \in (Unused(job[e].file))'
  <2>1. PICK e \in Clients : job[e].pc = "unlink" /\ d.id \in Unused(job[e].file)
    BY <1>1 DEF BlockFilesInv
  <2>2. e # c
    BY <2>1
  <2> QED BY <1>o, <1>u, <2>1, <2>2
<1>2. ASSUME NEW e \in Clients, job'[e].pc = "noUseTag"
      PROVE  (job[e].num = FileId(job[e].file))'
  <2>1. CASE e = c
    BY <2>1, <1>2
  <2>2. CASE e # c
    BY <2>2, <1>2, <1>o, <1>u DEF BlockFilesInv
  <2> QED BY <2>1, <2>2
<1>3. ASSUME NEW e \in Clients, job'[e].pc = "unlink"
      PROVE  Unlinking(e)'
  <2>1. e # c /\ job[e].pc = "unlink" /\ job'[e] = job[e]
    BY <1>o, <1>3
  <2>2. (Unused(job[e].file))' = Unused(job[e].file) /\ Unlinking(e)
    BY <1>u, <2>1 DEF BlockFilesInv
  <2> QED BY <2>1, <2>2 DEF Unlinking
<1>4. ASSUME NEW e \in Clients, job[e].pc \in Rewriting
      PROVE  e # c /\ job'[e] = job[e]
  BY <1>4, <1>o DEF Rewriting
<1>5. ASSUME NEW T \in Tags, block[T] # "absent"
      PROVE  \/ \E d \in details : d.tag = T
             \/ \E e \in Clients : job'[e].pc \in Rewriting /\ job'[e].tag = T
  BY <1>5, <1>4 DEF BlockFilesInv
<1>6. ASSUME NEW T \in Tags, block[T] = "truncated" PROVE BeingWritten(T)'
  <2>1. PICK e \in Clients : job[e].pc = "write" /\ job[e].tag = T
    BY <1>6 DEF BlockFilesInv, BeingWritten, At
  <2> QED BY <1>o, <2>1 DEF BeingWritten, At
<1>7. ASSUME NEW e \in Clients, job'[e].pc \in Rewriting PROVE block[job'[e].tag] # "absent"
  <2>1. e # c
    BY <1>7 DEF Rewriting
  <2> QED BY <1>o, <1>7, <2>1 DEF BlockFilesInv
<1>8. ASSUME NEW e \in Clients, job'[e].pc = "link"
      PROVE  \E d \in details : d.tag = job'[e].tag
  <2>1. CASE e = c
    BY <2>1, <1>8
  <2>2. CASE e # c
    BY <2>2, <1>o, <1>8 DEF BlockFilesInv
  <2> QED BY <2>1, <2>2
<1> QED BY <1>1, <1>2, <1>3, <1>5, <1>6, <1>7, <1>8 DEF BlockFilesInv

\* While c uploads, or has just begun to, every row has its block.
LEMMA BlocksThere ==
  ASSUME BlockFilesInv, TakeTurns, NEW c \in Clients, job[c].pc \in Uploading
  PROVE  \A d \in details : block[d.tag] # "absent"
<1>1. job[c].pc \notin {"noUseTag", "unlink"}
  BY PcKinds
<1> QED BY <1>1, NoUnlinker DEF BlockFilesInv

\* While c uploads nobody unlinks, so what is left to show of the blocks is this.
LEMMA BlocksUploaded ==
  ASSUME TakeTurns, NEW c \in Clients, OnlyMoves(c), job[c].pc \in Uploading,
         job'[c].pc \notin {"noUseTag", "unlink"},
         \A d \in details' : block'[d.tag] # "absent",
         \A T \in Tags : block'[T] # "absent" =>
           \/ \E d \in details' : d.tag = T
           \/ \E e \in Clients : job'[e].pc \in Rewriting /\ job'[e].tag = T,
         \A T \in Tags : block'[T] = "truncated" => BeingWritten(T)',
         \A e \in Clients : job'[e].pc \in Rewriting => block'[job'[e].tag] # "absent",
         \A e \in Clients : job'[e].pc = "link" => \E d \in details' : d.tag = job'[e].tag
  PROVE  BlockFilesInv'
<1>1. \A e \in Clients : job'[e].pc \notin {"noUseTag", "unlink"}
  BY NoUnlinker DEF OnlyMoves
<1> QED BY <1>1 DEF BlockFilesInv

LEMMA OpenBlocks ==
  ASSUME TypeOK, TakeTurns, BlockFilesInv, NEW c \in Clients, OpenBlock(c)
  PROVE  BlockFilesInv'
<1>1. PICK T \in Tags : T = job[c].tag
  BY JobType DEF Job
<1>2. /\ OnlyMoves(c) /\ job[c].pc = "open" /\ job'[c].pc = "write" /\ job'[c].tag = T
      /\ details' = details /\ block' = [block EXCEPT ![T] = "truncated"]
  BY <1>1, OpenEffect DEF Keeps
<1>3. block'[T] = "truncated" /\ \A S \in Tags : S # T => block'[S] = block[S]
  BY <1>2 DEF TypeOK
<1>4. job[c].pc \in Uploading
  BY <1>2, PcKinds
<1>d. \A d \in details : d.tag \in Tags
  BY DEF TypeOK
<1>5. \A d \in details' : block'[d.tag] # "absent"
  BY <1>2, <1>3, <1>4, <1>d, BlocksThere
<1>6. ASSUME NEW S \in Tags, block'[S] # "absent"
      PROVE  \/ \E d \in details' : d.tag = S
             \/ \E e \in Clients : job'[e].pc \in Rewriting /\ job'[e].tag = S
  <2>1. CASE S = T
    BY <2>1, <1>2 DEF Rewriting
  <2>2. CASE S # T
    <3>1. \/ \E d \in details : d.tag = S
          \/ \E e \in Clients : job[e].pc \in Rewriting /\ job[e].tag = S
      BY <2>2, <1>3, <1>6 DEF BlockFilesInv
    <3>2. job[c].pc \notin Rewriting
      BY <1>2 DEF Rewriting
    <3> QED BY <3>1, <3>2, <1>2 DEF OnlyMoves
  <2> QED BY <2>1, <2>2
<1>7. ASSUME NEW S \in Tags, block'[S] = "truncated" PROVE BeingWritten(S)'
  <2>1. CASE S = T
    BY <2>1, <1>2 DEF BeingWritten, At
  <2>2. CASE S # T
    <3>1. PICK e \in Clients : job[e].pc = "write" /\ job[e].tag = S
      BY <2>2, <1>3, <1>7 DEF BlockFilesInv, BeingWritten, At
    <3>2. job'[e] = job[e]
      BY <3>1, <1>2 DEF OnlyMoves
    <3> QED BY <3>1, <3>2 DEF BeingWritten, At
  <2> QED BY <2>1, <2>2
<1>8. ASSUME NEW e \in Clients, job'[e].pc \in Rewriting PROVE block'[job'[e].tag] # "absent"
  <2>1. CASE e = c
    BY <2>1, <1>2, <1>3
  <2>2. CASE e # c
    <3>1. job'[e] = job[e] /\ job[e].tag \in Tags
      BY <2>2, <1>2, JobType DEF OnlyMoves, Job
    <3> QED BY <3>1, <1>3, <1>8 DEF BlockFilesInv
  <2> QED BY <2>1, <2>2
<1>9. \A e \in Clients : job'[e].pc = "link" => \E d \in details' : d.tag = job'[e].tag
  BY <1>2 DEF BlockFilesInv, OnlyMoves
<1> QED BY <1>2, <1>4, <1>5, <1>6, <1>7, <1>8, <1>9, BlocksUploaded

LEMMA WriteBlocks ==
  ASSUME TypeOK, TakeTurns, BlockFilesInv, NEW c \in Clients, WriteBlock(c)
  PROVE  BlockFilesInv'
<1>1. PICK T \in Tags : T = job[c].tag
  BY JobType DEF Job
<1>2. /\ OnlyMoves(c) /\ job[c].pc = "write" /\ job'[c].pc = "detail" /\ job'[c].tag = T
      /\ details' = details /\ block' = [block EXCEPT ![T] = "whole"]
  BY <1>1, WriteEffect DEF Keeps
<1>3. block'[T] = "whole" /\ \A S \in Tags : S # T => block'[S] = block[S]
  BY <1>2 DEF TypeOK
<1>4. job[c].pc \in Uploading
  BY <1>2, PcKinds
<1>d. \A d \in details : d.tag \in Tags
  BY DEF TypeOK
<1>5. \A d \in details' : block'[d.tag] # "absent"
  BY <1>2, <1>3, <1>4, <1>d, BlocksThere
<1>6. ASSUME NEW S \in Tags, block'[S] # "absent"
      PROVE  \/ \E d \in details' : d.tag = S
             \/ \E e \in Clients : job'[e].pc \in Rewriting /\ job'[e].tag = S
  <2>1. CASE S = T
    BY <2>1, <1>2 DEF Rewriting
  <2>2. CASE S # T
    <3>1. \/ \E d \in details : d.tag = S
          \/ \E e \in Clients : job[e].pc \in Rewriting /\ job[e].tag = S
      BY <2>2, <1>3, <1>6 DEF BlockFilesInv
    <3>2. job[c].tag # S
      BY <2>2, <1>1
    <3> QED BY <3>1, <3>2, <1>2 DEF OnlyMoves
  <2> QED BY <2>1, <2>2
<1>7. ASSUME NEW S \in Tags, block'[S] = "truncated" PROVE BeingWritten(S)'
  <2>1. S # T /\ block[S] = "truncated"
    BY <1>3, <1>7
  <2>2. PICK e \in Clients : job[e].pc = "write" /\ job[e].tag = S
    BY <2>1 DEF BlockFilesInv, BeingWritten, At
  <2>3. job'[e] = job[e]
    BY <2>1, <2>2, <1>1, <1>2 DEF OnlyMoves
  <2> QED BY <2>2, <2>3 DEF BeingWritten, At
<1>8. ASSUME NEW e \in Clients, job'[e].pc \in Rewriting PROVE block'[job'[e].tag] # "absent"
  <2>1. CASE e = c
    BY <2>1, <1>2, <1>3
  <2>2. CASE e # c
    <3>1. job'[e] = job[e] /\ job[e].tag \in Tags
      BY <2>2, <1>2, JobType DEF OnlyMoves, Job
    <3> QED BY <3>1, <1>3, <1>8 DEF BlockFilesInv
  <2> QED BY <2>1, <2>2
<1>9. \A e \in Clients : job'[e].pc = "link" => \E d \in details' : d.tag = job'[e].tag
  BY <1>2 DEF BlockFilesInv, OnlyMoves
<1> QED BY <1>2, <1>4, <1>5, <1>6, <1>7, <1>8, <1>9, BlocksUploaded

LEMMA StoreBlocks ==
  ASSUME TypeOK, TablesInv, TakeTurns, FilingInv, BlockFilesInv, NEW c \in Clients,
         StoreDetail(c)
  PROVE  BlockFilesInv'
<1>0. job[c].pc \in {"detail", "link"} /\ job[c].pc \in Storing /\ job[c].pc \in Uploading
  BY PcKinds DEF StoreDetail, ReadyForRow
<1>1. PICK new : new = NewRow(c)
  OBVIOUS
<1>2. new.tag = job[c].tag
  BY <1>1 DEF NewRow
<1>3. /\ OnlyMoves(c) /\ job'[c].pc \in {"getCounter", "send"}
      /\ UNCHANGED block /\ details' = details \cup {new}
  BY <1>0, <1>1, StoringInsertable, StoreEffect
<1>4. block[new.tag] # "absent"
  <2>1. CASE job[c].pc = "detail"
    BY <2>1, <1>2 DEF BlockFilesInv, Rewriting
  <2>2. CASE job[c].pc = "link"
    BY <2>2, <1>0, <1>2, BlocksThere DEF BlockFilesInv
  <2> QED BY <1>0, <2>1, <2>2
<1>5. \A d \in details' : block'[d.tag] # "absent"
  BY <1>0, <1>3, <1>4, BlocksThere
<1>6. ASSUME NEW S \in Tags, block'[S] # "absent"
      PROVE  \/ \E d \in details' : d.tag = S
             \/ \E e \in Clients : job'[e].pc \in Rewriting /\ job'[e].tag = S
  <2>1. \/ \E d \in details : d.tag = S
        \/ \E e \in Clients : job[e].pc \in Rewriting /\ job[e].tag = S
    BY <1>3, <1>6 DEF BlockFilesInv
  <2>2. CASE \E d \in details : d.tag = S
    BY <2>2, <1>3
  <2>3. CASE \E e \in Clients : job[e].pc \in Rewriting /\ job[e].tag = S
    <3>1. PICK e \in Clients : job[e].pc \in Rewriting /\ job[e].tag = S
      BY <2>3
    <3>2. CASE e = c
      BY <3>1, <3>2, <1>2, <1>3
    <3>3. CASE e # c
      BY <3>1, <3>3, <1>3 DEF OnlyMoves
    <3> QED BY <3>2, <3>3
  <2> QED BY <2>1, <2>2, <2>3
<1>7. ASSUME NEW S \in Tags, block'[S] = "truncated" PROVE BeingWritten(S)'
  <2>1. PICK e \in Clients : job[e].pc = "write" /\ job[e].tag = S
    BY <1>3, <1>7 DEF BlockFilesInv, BeingWritten, At
  <2>2. job'[e] = job[e]
    BY <2>1, <1>0, <1>3 DEF OnlyMoves
  <2> QED BY <2>1, <2>2 DEF BeingWritten, At
<1>8. ASSUME NEW e \in Clients, job'[e].pc \in Rewriting PROVE block'[job'[e].tag] # "absent"
  <2>1. e # c
    BY <1>3, <1>8 DEF Rewriting
  <2> QED BY <2>1, <1>3, <1>8 DEF BlockFilesInv, OnlyMoves
<1>9. \A e \in Clients : job'[e].pc = "link" => \E d \in details' : d.tag = job'[e].tag
  BY <1>3 DEF BlockFilesInv, OnlyMoves
<1>p. job'[c].pc \notin {"noUseTag", "unlink"}
  BY <1>3
<1> QED BY <1>3, <1>0, <1>p, <1>5, <1>6, <1>7, <1>8, <1>9, BlocksUploaded

LEMMA NoUseTagBlocks ==
  ASSUME TypeOK, BlockFilesInv, NEW c \in Clients, GetNoUseTag(c)
  PROVE  BlockFilesInv'
<1>f. PICK f : f = job[c].file
  OBVIOUS
<1>1. /\ OnlyMoves(c) /\ job[c].pc = "noUseTag" /\ job'[c].pc = "unlink" /\ job'[c].file = f
      /\ job'[c].todo = Unused(f)
  <2>1. job[c].num = FileId(f)
    BY <1>f, NoUseTagEffect DEF BlockFilesInv
  <2> QED BY <1>f, <2>1, NoUseTagEffect DEF Unused
<1>2. UNCHANGED <<files, details, block>>
  BY NoUseTagEffect DEF Stores
<1>3. \A g : FileId(g)' = FileId(g) /\ Unused(g)' = Unused(g)
  <2>1. \A g : FileId(g)' = FileId(g)
    BY <1>2 DEF FileId, FileRows
  <2> QED BY <2>1, <1>2 DEF Unused, NoUseTag
<1>o. \A e \in Clients : e # c => job'[e] = job[e]
  BY <1>1 DEF OnlyMoves
<1>u. ASSUME NEW e \in Clients, e # c
      PROVE  /\ (FileId(job[e].file))' = FileId(job[e].file)
             /\ (Unused(job[e].file))' = Unused(job[e].file)
  <2>1. PICK g : g = job[e].file
    OBVIOUS
  <2>2. g = job'[e].file
    BY <1>o, <1>u, <2>1
  <2> QED BY <2>1, <2>2, <1>3
<1>v. (Unused(job[c].file))' = Unused(f)
  <2>1. f = job'[c].file
    BY <1>1
  <2> QED BY <2>1, <1>3
<1>4. ASSUME NEW d \in details, block[d.tag] = "absent"
      PROVE  \E e \in Clients : job'[e].pc = "unlink" /\ d.id \in (Unused(job[e].file))'
  <2>1. PICK e \in Clients : job[e].pc = "unlink" /\ d.id \in Unused(job[e].file)
    BY <1>4 DEF BlockFilesInv
  <2>2. e # c
    BY <2>1, <1>1
  <2> QED BY <1>o, <1>u, <2>1, <2>2
<1>5. ASSUME NEW e \in Clients, job'[e].pc = "noUseTag"
      PROVE  (job[e].num = FileId(job[e].file))'
  <2>1. e # c
    BY <1>1, <1>5
  <2> QED BY <2>1, <1>5, <1>o, <1>u DEF BlockFilesInv
<1>6. ASSUME NEW e \in Clients, job'[e].pc = "unlink" PROVE Unlinking(e)'
  <2>1. CASE e = c
    BY <2>1, <1>1, <1>v DEF Unlinking
  <2>2. CASE e # c
    <3>1. Unlinking(e) /\ job'[e] = job[e]
      BY <2>2, <1>6, <1>o DEF BlockFilesInv
    <3> QED BY <3>1, <2>2, <1>2, <1>u DEF Unlinking
  <2> QED BY <2>1, <2>2
<1>7. \A e \in Clients : /\ job[e].pc \in Rewriting \cup {"link"} => e # c
                         /\ job'[e].pc \in Rewriting \cup {"link"} => e # c
  BY <1>1 DEF Rewriting
<1>8. \A T \in Tags : BeingWritten(T) => BeingWritten(T)'
  BY <1>1, <1>o DEF BeingWritten, At
<1> QED BY <1>2, <1>4, <1>5, <1>6, <1>7, <1>8, <1>o DEF BlockFilesInv

\* A file's rows are used by another file's, or no other row has their tag.
LEMMA UnusedRows ==
  ASSUME TypeOK, TablesInv, NEW f, FileId(f) # NULL
  PROVE  /\ \A d, e \in details : d.id \in Unused(f) /\ e.tag = d.tag => e.id \in Unused(f)
         /\ \A d \in details : d.id \in Unused(f) => d.fileid = FileId(f)
         /\ \A d \in details : d.fileid = FileId(f) /\ d.id \notin Unused(f) =>
              \E e \in details : e.tag = d.tag /\ e.fileid # FileId(f)
<1>1. \A d \in details : d.fileid # NULL
  BY OneRow DEF TablesInv
<1> DEFINE ofFile == {d \in details : d.fileid = FileId(f) /\ d.fileid # NULL}
           others == {d \in details : d.fileid # FileId(f) /\ d.fileid # NULL}
           unused == {x \in ofFile : \A y \in others : y.tag # x.tag}
<1>2. Unused(f) = {d.id : d \in unused}
  BY DEF Unused, NoUseTag
<1>3. \A d \in details : d.id \in Unused(f) <=> d \in unused
  BY <1>2 DEF TablesInv
<1>4. ofFile = {d \in details : d.fileid = FileId(f)}
      /\ others = {d \in details : d.fileid # FileId(f)}
  BY <1>1
<1> HIDE DEF ofFile, others
<1>5. \A d \in details : d \in unused <=> d \in ofFile /\ \A y \in others : y.tag # d.tag
  BY <1>4
<1> HIDE DEF unused
<1> QED BY <1>3, <1>4, <1>5

LEMMA UnlinkBlocks ==
  ASSUME TypeOK, TablesInv, TakeTurns, BlockFilesInv, NEW c \in Clients, UnlinkBlock(c),
         job'[c].pc # "hung"
  PROVE  BlockFilesInv'
<1>f. PICK f : f = job[c].file
  OBVIOUS
<1>1. PICK id \in job[c].todo, d \in details :
        /\ job'[c].pc = "unlink" /\ job'[c].file = f /\ job'[c].todo = job[c].todo \ {id}
        /\ d.id = id /\ block' = [block EXCEPT ![d.tag] = "absent"]
  BY <1>f, UnlinkEffect
<1>2. /\ OnlyMoves(c) /\ job[c].pc = "unlink" /\ UNCHANGED <<files, details>>
  BY UnlinkEffect
<1>3. PICK T \in Tags : T = d.tag
  BY DEF TypeOK
<1>4. block'[T] = "absent" /\ \A S \in Tags : S # T => block'[S] = block[S]
  BY <1>1, <1>3 DEF TypeOK
<1>5. job[c].todo \subseteq Unused(f) /\ d.id \in Unused(f)
      /\ \A e \in details : e.id \in Unused(f) => e.id \in job[c].todo \/ block[e.tag] = "absent"
  BY <1>1, <1>2, <1>f DEF BlockFilesInv, Unlinking
<1>6. FileId(f) # NULL
  BY <1>5 DEF Unused, NoUseTag
<1>7. \A g : FileId(g)' = FileId(g) /\ Unused(g)' = Unused(g)
  <2>1. \A g : FileId(g)' = FileId(g)
    BY <1>2 DEF FileId, FileRows
  <2> QED BY <2>1, <1>2 DEF Unused, NoUseTag
<1>8. (Unused(job[c].file))' = Unused(f)
  <2>1. f = job'[c].file
    BY <1>1
  <2> QED BY <2>1, <1>7
<1>9. \A e \in Clients : e # c => /\ job'[e] = job[e] /\ job[e].pc \notin Uploading
                                  /\ job[e].pc \notin {"noUseTag", "unlink"}
  <2>1. job[c].pc \in Removing
    BY <1>2 DEF Removing
  <2> QED BY <2>1, <1>2, NoUnlinker DEF OnlyMoves, TakeTurns
<1>10. Rewriting \cup {"link"} \subseteq Uploading
  BY PcKinds DEF Rewriting
<1>11. \A e \in Clients : job'[e].pc \notin Rewriting \cup {"link", "noUseTag"}
                          /\ job[e].pc \notin Rewriting
  <2>1. job[c].pc \notin Rewriting /\ job'[c].pc \notin Rewriting \cup {"link", "noUseTag"}
    BY <1>1, <1>2 DEF Rewriting
  <2> QED BY <2>1, <1>9, <1>10
<1>12. ASSUME NEW e \in details, block'[e.tag] = "absent"
       PROVE  e.id \in Unused(f)
  <2>t. e.tag \in Tags
    BY DEF TypeOK
  <2>1. CASE e.tag = T
    BY <2>1, <1>3, <1>5, <1>6, UnusedRows
  <2>2. CASE e.tag # T
    <3>1. block[e.tag] = "absent"
      BY <2>2, <2>t, <1>4, <1>12
    <3>2. PICK k \in Clients : job[k].pc = "unlink" /\ e.id \in Unused(job[k].file)
      BY <3>1 DEF BlockFilesInv
    <3> QED BY <3>2, <1>9, <1>f
  <2> QED BY <2>1, <2>2
<1>13. Unlinking(c)'
  <2>1. job'[c].todo \subseteq Unused(f)
    BY <1>1, <1>5
  <2>2. ASSUME NEW e \in details, e.id \in Unused(f)
        PROVE  e.id \in job'[c].todo \/ block'[e.tag] = "absent"
    <3>t. e.tag \in Tags
      BY DEF TypeOK
    <3>1. CASE e.id = id
      <4>1. e = d
        BY <3>1, <1>1 DEF TablesInv
      <4> QED BY <4>1, <1>3, <1>4
    <3>2. CASE e.id # id
      BY <3>2, <3>t, <2>2, <1>1, <1>4, <1>5
    <3> QED BY <3>1, <3>2
  <2> QED BY <2>1, <2>2, <1>2, <1>8 DEF Unlinking
<1>14. \A e \in Clients : job'[e].pc = "unlink" => e = c
  BY <1>9
<1>15. \A S \in Tags : block'[S] # "absent" => S # T /\ block'[S] = block[S]
  BY <1>4
<1>16. \A S \in Tags : block[S] # "truncated"
  BY <1>11 DEF BlockFilesInv, BeingWritten, At, Rewriting
<1>17. \A S \in Tags : block'[S] # "absent" => \E e \in details : e.tag = S
  BY <1>11, <1>15 DEF BlockFilesInv
<1>18. \A S \in Tags : block'[S] # "truncated"
  BY <1>4, <1>16
<1> QED BY <1>1, <1>2, <1>8, <1>11, <1>12, <1>13, <1>14, <1>17, <1>18 DEF BlockFilesInv

LEMMA DeleteFileBlocks ==
  ASSUME CascadeDetails, TypeOK, RowsInv, TablesInv, TakeTurns, BlockFilesInv,
         NEW c \in Clients, DeleteFile(c)
  PROVE  BlockFilesInv'
<1>f. PICK f : f = job[c].file
  OBVIOUS
<1>1. /\ OnlyMoves(c) /\ job[c].pc = "unlink" /\ job'[c].pc = "rsyncDelete"
      /\ job[c].todo = {} /\ UNCHANGED block
      /\ details' = {d \in details : d.fileid \notin {r.id : r \in FileRows(f)}}
  BY <1>f, DeleteFileEffect
<1>2. \A d \in details : d \in details' <=> d.fileid # FileId(f)
  <2>1. CASE FileRows(f) = {}
    <3>1. FileId(f) = NULL /\ details' = details
      BY <2>1, <1>1, NoRow
    <3> QED BY <3>1, OneRow DEF TablesInv
  <2>2. CASE FileRows(f) # {}
    <3>1. PICK r \in files : r.flag = f
      BY <2>2, RowsFlag
    <3>2. FileRows(f) = {r} /\ FileId(f) = r.id
      BY <3>1, OneRow
    <3> QED BY <3>2, <1>1
  <2> QED BY <2>1, <2>2
<1>3. \A e \in details : e.id \in Unused(f) => block[e.tag] = "absent"
  BY <1>1, <1>f DEF BlockFilesInv, Unlinking
<1>9. \A e \in Clients : e # c => /\ job'[e] = job[e] /\ job[e].pc \notin Uploading
                                  /\ job[e].pc \notin {"noUseTag", "unlink"}
  <2>1. job[c].pc \in Removing
    BY <1>1 DEF Removing
  <2> QED BY <2>1, <1>1, NoUnlinker DEF OnlyMoves, TakeTurns
<1>10. Rewriting \cup {"link"} \subseteq Uploading
  BY PcKinds DEF Rewriting
<1>11. \A e \in Clients : /\ job'[e].pc \notin Rewriting \cup {"link", "noUseTag", "unlink"}
                          /\ job[e].pc \notin Rewriting
  <2>1. /\ job[c].pc \notin Rewriting
        /\ job'[c].pc \notin Rewriting \cup {"link", "noUseTag", "unlink"}
    BY <1>1 DEF Rewriting
  <2> QED BY <2>1, <1>9, <1>10
<1>12. ASSUME NEW e \in details' PROVE block[e.tag] # "absent"
  <2>0. e \in details /\ e.fileid # FileId(f)
    BY <1>1, <1>2
  <2>1. SUFFICES ASSUME block[e.tag] = "absent" PROVE FALSE
    OBVIOUS
  <2>2. PICK k \in Clients : job[k].pc = "unlink" /\ e.id \in Unused(job[k].file)
    BY <2>0, <2>1 DEF BlockFilesInv
  <2>3. e.id \in Unused(f)
    BY <2>2, <1>9, <1>f
  <2>4. FileId(f) # NULL
    BY <2>3 DEF Unused, NoUseTag
  <2> QED BY <2>0, <2>3, <2>4, UnusedRows
<1>13. ASSUME NEW S \in Tags, block[S] # "absent" PROVE \E e \in details' : e.tag = S
  <2>1. PICK d \in details : d.tag = S
    BY <1>11, <1>13 DEF BlockFilesInv
  <2>2. CASE d.fileid # FileId(f)
    BY <2>1, <2>2, <1>2
  <2>3. CASE d.fileid = FileId(f)
    <3>1. d.id \notin Unused(f)
      BY <2>1, <1>3, <1>13
    <3>2. FileId(f) # NULL
      BY <2>3, OneRow DEF TablesInv
    <3>3. PICK e \in details : e.tag = d.tag /\ e.fileid # FileId(f)
      BY <2>3, <3>1, <3>2, UnusedRows
    <3> QED BY <3>3, <2>1, <1>2
  <2> QED BY <2>2, <2>3
<1>14. \A S \in Tags : block[S] # "truncated"
  BY <1>11 DEF BlockFilesInv, BeingWritten, At, Rewriting
<1> QED BY <1>1, <1>11, <1>12, <1>13, <1>14 DEF BlockFilesInv

LEMMA BlocksStep ==
  ASSUME Faults \subseteq {"rsync"}, CascadeDetails, TypeOK, RowsInv, TablesInv, TakeTurns,
         FilingInv, BlockFilesInv, NEW c \in Clients, Steps(c), job'[c].pc # "hung"
  PROVE  BlockFilesInv'
<1>1. CASE Plain(c)
  <2>1. /\ OnlyMoves(c) /\ UNCHANGED <<files, details, block>>
        /\ job[c].pc \notin {"write", "detail", "unlink"}
        /\ job'[c].pc \notin {"write", "detail", "unlink", "link"}
    BY <1>1, PlainEffect
  <2>2. job'[c].pc = "noUseTag" => (job[c].num = FileId(job[c].file))'
    <3>1. SUFFICES ASSUME job'[c].pc = "noUseTag" PROVE (job[c].num = FileId(job[c].file))'
      OBVIOUS
    <3>2. PICK f : f = job[c].file
      OBVIOUS
    <3>3. f = job'[c].file /\ job'[c].num = FileId(f)
      BY <1>1, <3>1, <3>2, PlainEffect
    <3>4. FileId(f)' = FileId(f)
      BY <2>1 DEF FileId, FileRows
    <3> QED BY <3>3, <3>4
  <2> QED BY <2>1, <2>2, BlocksKept
<1>2. CASE InsertFile(c)
  <2>1. /\ OnlyMoves(c) /\ job[c].pc = "insert" /\ job'[c].pc = "send"
        /\ UNCHANGED <<details, block>>
    BY <1>2, InsertEffect
  <2>2. \A e \in Clients : e # c => job[e].pc \notin {"noUseTag", "unlink"}
    BY <2>1, PcKinds, NoUnlinker
  <2> QED BY <2>1, <2>2, BlocksKept
<1>3. CASE TestTag(c)
  <2>1. UNCHANGED <<files, details, block>>
    BY <1>3, TestEffect DEF Stores
  <2>2. /\ OnlyMoves(c) /\ job[c].pc = "send" /\ job'[c].pc \in {"open", "link"}
        /\ job'[c].pc = "link" => \E d \in details : d.tag = job'[c].tag
    BY <1>3, TestTagEffect
  <2> QED BY <2>1, <2>2, BlocksKept
<1>4. CASE OpenBlock(c)
  BY <1>4, OpenBlocks
<1>5. CASE WriteBlock(c)
  BY <1>5, WriteBlocks
<1>6. CASE StoreDetail(c)
  BY <1>6, StoreBlocks
<1>7. CASE GetCounter(c) \/ SetCounter(c) \/ FetchCounter(c) \/ ClearCounter(c)
  <2>1. UNCHANGED <<files, details, block>>
    BY <1>7, GetCounterEffect, SetCounterEffect, FetchCounterEffect, ClearEffect DEF Stores
  <2>2. /\ OnlyMoves(c) /\ job[c].pc \in {"getCounter", "setCounter", "fetch", "clear"}
        /\ job'[c].pc \in {"setCounter", "send", "clear", "create"}
    BY <1>7, GetCounterEffect, SetCounterEffect, FetchCounterEffect, ClearEffect
  <2> QED BY <2>1, <2>2, BlocksKept
<1>8. CASE AddOwner(c)
  <2>1. job[c].pc \in {"send", "enrol"}
    BY <1>8 DEF AddOwner, At
  <2>2. Insertable(job[c].file)
    BY <2>1, PcKinds, StoringInsertable
  <2>3. /\ OnlyMoves(c) /\ job'[c].pc \in {"rsync", "createProven"}
        /\ UNCHANGED <<files, details, block>>
    BY <1>8, <2>2, AddOwnerEffect
  <2> QED BY <2>1, <2>3, BlocksKept
<1>9. CASE RsyncUpload(c) \/ RsyncDelete(c)
  <2>1. /\ OnlyMoves(c) /\ job[c].pc \in {"rsync", "rsyncDelete"}
        /\ job'[c].pc \in {"fetch", "deleteAsset"}
        /\ UNCHANGED <<files, details, block>>
    BY <1>9, RsyncEffect DEF RsyncUpload, RsyncDelete
  <2> QED BY <2>1, BlocksKept
<1>10. CASE GetNoUseTag(c)
  BY <1>10, NoUseTagBlocks
<1>11. CASE UnlinkBlock(c)
  BY <1>11, UnlinkBlocks
<1>12. CASE DeleteFile(c)
  BY <1>12, DeleteFileBlocks
<1> QED BY <1>1, <1>2, <1>3, <1>4, <1>5, <1>6, <1>7, <1>8, <1>9, <1>10, <1>11, <1>12, StoreSteps

----------------------------------------------------------------------------
(* Every request is answered, and a download ends where the file does *)

\* How far a download has come in its file.
ReadsInv ==
  /\ \A c \in Clients : job[c].pc = "lookup" => job[c].idx <= Len(Content[job[c].file])
  /\ \A c \in Clients : job[c].pc = "fetchBlock" =>
       /\ job[c].idx < Len(Content[job[c].file])
       /\ job[c].tag = Content[job[c].file][job[c].idx + 1]
  /\ DownloadWhole

TurnsInv ==
  /\ TypeOK /\ RowsInv /\ TakeTurns /\ TablesInv /\ FilingInv /\ CustodyInv
  /\ BlockFilesInv /\ CountsInv /\ BackupInv /\ ReadsInv /\ Answered

\* Who is or will be asked for a file has been told that it is there; it is whole.
LEMMA OwnedWhole ==
  ASSUME TypeOK, TablesInv, FilingInv, NEW f \in Files, NEW r \in files, r.flag = f,
         OwnersOf(f) # {}
  PROVE  Whole(f)
BY DEF FilingInv, BeingStored

LEMMA KnownWhole ==
  ASSUME TypeOK, TablesInv, FilingInv, NEW c \in Clients, job[c].pc \in Known
  PROVE  Whole(job[c].file)
<1>1. PICK r \in files : r.flag = job[c].file
  BY RowsFlag DEF FilingInv
<1>2. job[c].pc \notin Storing /\ job[c].pc \in Uploading
  BY PcKinds
<1> QED BY <1>1, <1>2 DEF FilingInv

LEMMA WholeRows ==
  ASSUME TypeOK, TablesInv, RowsInv, NEW f \in Files, Whole(f), NEW i \in Nat
  PROVE  /\ i < Len(Content[f]) => \E d \in details : /\ RowsAt(f, i) = {d}
                                                      /\ d.tag = Content[f][i + 1]
         /\ i >= Len(Content[f]) => RowsAt(f, i) = {}
<1>1. ASSUME i < Len(Content[f])
      PROVE  \E d \in details : RowsAt(f, i) = {d} /\ d.tag = Content[f][i + 1]
  <2>1. i \in 0 .. Len(Content[f]) - 1
    BY <1>1, ContentLen
  <2>2. PICK d \in details : RowsAt(f, i) = {d}
    BY <2>1 DEF Whole, Filed
  <2>3. d.index = i /\ \E r \in files : r.flag = f /\ r.id = d.fileid
    BY <2>2 DEF RowsAt, FileRows
  <2> QED BY <2>2, <2>3 DEF RowsInv, RowsInPlace
<1>2. ASSUME i >= Len(Content[f]) PROVE RowsAt(f, i) = {}
  <2>1. SUFFICES ASSUME NEW d \in RowsAt(f, i) PROVE FALSE
    OBVIOUS
  <2>2. d \in details /\ d.index = i /\ \E r \in FileRows(f) : r.id = d.fileid
    BY DEF RowsAt
  <2>3. d.index < Len(Content[f])
    BY <2>2 DEF Whole, Filed
  <2> QED BY <2>2, <2>3, <1>2, ContentLen
<1> QED BY <1>1, <1>2

\* Whoever has a record of a file and is not deleting it is its owner, and it is whole.
LEMMA ReadersOwn ==
  ASSUME TypeOK, TablesInv, FilingInv, CustodyInv, NEW c \in Clients, job[c].pc \in Reading
  PROVE  Whole(job[c].file) /\ OwnersOf(job[c].file) # {}
<1>1. PICK f \in Files : f = job[c].file
  BY FileOfJob
<1>2. Settled(f, c) /\ RecordIds(f, c) # {}
  BY <1>1, BetweenPcs DEF CustodyInv, CustodyOf
<1>3. OwnersOf(f) # {}
  BY <1>2 DEF Settled, Custody, OwnsOnce
<1>4. PICK r \in files : r.flag = f
  BY <1>3, NoRow, RowsFlag
<1> QED BY <1>1, <1>3, <1>4, OwnedWhole

\* Such a file's blocks are all there: what is unlinked belongs to files nobody owns.
LEMMA OwnedBlocks ==
  ASSUME TypeOK, TablesInv, RowsInv, CustodyInv, BlockFilesInv, NEW f \in Files,
         OwnersOf(f) # {}, NEW i \in Nat, NEW d \in RowsAt(f, i)
  PROVE  block[d.tag] # "absent"
<1> SUFFICES ASSUME block[d.tag] = "absent" PROVE FALSE
  OBVIOUS
<1>1. d \in details /\ \E r \in FileRows(f) : r.id = d.fileid
  BY DEF RowsAt
<1>2. PICK e \in Clients : job[e].pc = "unlink" /\ d.id \in Unused(job[e].file)
  BY <1>1 DEF BlockFilesInv
<1>3. PICK g \in Files : g = job[e].file
  BY FileOfJob
<1>4. OwnersOf(g) = {}
  BY <1>2, <1>3 DEF CustodyInv, Emptied
<1>5. d.fileid = FileId(g) /\ FileId(g) # NULL
  <2>1. FileId(g) # NULL
    BY <1>2, <1>3 DEF Unused, NoUseTag
  <2> QED BY <2>1, <1>1, <1>2, <1>3, UnusedRows
<1>6. PICK r \in files : r.flag = f /\ r.id = d.fileid
  BY <1>1 DEF FileRows
<1>7. FileRows(g) # {}
  BY <1>5, NoRow
<1>8. PICK s \in files : s.flag = g
  BY <1>7, RowsFlag
<1>9. s.id = r.id
  BY <1>5, <1>6, <1>8, OneRow
<1>10. f = g
  BY <1>6, <1>8, <1>9 DEF RowsInv
<1> QED BY <1>4, <1>10

\* With one row to a flag no subquery fails.
LEMMA NeverAmbiguous ==
  ASSUME TypeOK, TablesInv, NEW f PROVE ~Ambiguous(f)
<1>1. CASE FileRows(f) = {}
  BY <1>1, NoRow
<1>2. CASE FileRows(f) # {}
  BY <1>2, RowsFlag, OneRow
<1> QED BY <1>1, <1>2

LEMMA FoundAsset ==
  ASSUME CustodyInv, NEW c \in Clients, job[c].pc \in {"read", "deleteAsset"}
  PROVE  {a \in ledger : a.upid = job[c].upid} # {}
<1>1. PICK f, u : f = job[c].file /\ u = job[c].upid
  OBVIOUS
<1>2. CustodyOf(c)
  BY DEF CustodyInv
<1>3. AssetIds(f, c) = {u}
  BY <1>1, <1>2 DEF CustodyOf, Custody, Disowned
<1>4. PICK a \in ledger : a.upid = u
  BY <1>3 DEF AssetIds
<1> QED BY <1>1, <1>4

LEMMA OwnsAtMostOnce ==
  ASSUME CustodyInv, NEW c \in Clients, NEW f \in Files, job[c].pc = "isOwner"
  PROVE  ~(Cardinality(OwnerRows(f, c)) > 1)
<1>1. Settled(f, c)
  BY FreeSettled, BetweenPcs
<1>2. OwnerRows(f, c) = {} \/ \E o : OwnerRows(f, c) = {o}
  BY <1>1 DEF Settled, Custody, OwnsOnce
<1>3. Cardinality(OwnerRows(f, c)) = 0 \/ Cardinality(OwnerRows(f, c)) = 1
  BY <1>2, FS_EmptySet, FS_Singleton
<1> QED BY <1>3

LEMMA RowsOfBlock ==
  ASSUME TypeOK, TablesInv, RowsInv, NEW f \in Files, Whole(f), NEW i \in Nat
  PROVE  /\ i < Len(Content[f]) => Cardinality(RowsAt(f, i)) = 1
         /\ ~(Cardinality(RowsAt(f, i)) > 1)
<1>1. CASE i < Len(Content[f])
  <2>0. PICK d : RowsAt(f, i) = {d}
    BY <1>1, WholeRows
  <2>1. Cardinality(RowsAt(f, i)) = 1
    BY <2>0, FS_Singleton
  <2> QED BY <2>1
<1>2. CASE ~(i < Len(Content[f]))
  <2>1. i >= Len(Content[f])
    BY <1>2, ContentLen
  <2>2. Cardinality(RowsAt(f, i)) = 0
    BY <2>1, WholeRows, FS_EmptySet
  <2> QED BY <1>2, <2>2
<1> QED BY <1>1, <1>2

LEMMA NoHang ==
  ASSUME Faults \subseteq {"rsync"}, CascadeDetails, TurnsInv, NEW c \in Clients, Steps(c)
  PROVE  job'[c].pc # "hung"
<1> USE DEF TurnsInv
<1>f. PICK f \in Files, i \in Nat : f = job[c].file /\ i = job[c].idx
  BY FileOfJob
<1>a. ~Ambiguous(job[c].file)
  BY NeverAmbiguous
<1>1. CASE Begin(c)
  BY <1>1, StartUploadEffect, StartDeleteEffect, StartDownloadEffect DEF Begin
<1>2. CASE CountBlocks(c)
  BY <1>2, <1>a, CountEffect
<1>3. CASE InsertFile(c)
  BY <1>3, InsertEffect DEF FilingInv
<1>4. CASE TestTag(c) \/ OpenBlock(c) \/ WriteBlock(c) \/ GetCounter(c) \/ SetCounter(c)
  BY <1>4, TestTagEffect, OpenEffect, WriteEffect, GetCounterEffect, SetCounterEffect
<1>5. CASE StoreDetail(c)
  <2>1. job[c].pc \in Storing
    BY <1>5, PcKinds DEF StoreDetail, ReadyForRow
  <2> QED BY <1>5, <2>1, StoringInsertable, StoreEffect
<1>6. CASE AddOwner(c)
  <2>1. job[c].pc \in Storing \cup {"enrol"}
    BY <1>6, PcKinds DEF AddOwner, At
  <2> QED BY <1>6, <2>1, StoringInsertable, AddOwnerEffect
<1>7. CASE RsyncUpload(c) \/ RsyncDelete(c)
  BY <1>7, RsyncEffect DEF RsyncUpload, RsyncDelete
<1>8. CASE FetchCounter(c) \/ ClearCounter(c) \/ CreateFileAsset(c) \/ RecordUpload(c)
  BY <1>8, FetchCounterEffect, ClearEffect, CreateEffect, RecordEffect
<1>9. CASE VerifyProof(c)
  <2>1. job[c].pc \in Known
    BY <1>9, PcKinds, VerifyEffect
  <2>2. Whole(f)
    BY <2>1, <1>f, KnownWhole
  <2>3. \A k \in Nat : k < Len(Content[f]) => Cardinality(RowsAt(f, k)) = 1
    BY <2>2, RowsOfBlock
  <2> QED BY <1>9, <1>f, <2>3, VerifyEffect
<1>10. CASE IsOwner(c)
  BY <1>10, <1>a, <1>f, OwnsAtMostOnce, IsOwnerEffect
<1>11. CASE ReadFileAsset(c)
  BY <1>11, FoundAsset, ReadEffect
<1>12. CASE DeleteOwner(c) \/ HasOwner(c) \/ GetFileId(c)
  BY <1>12, <1>a, DisownEffect, HasOwnerEffect, FileIdEffect
<1>13. CASE GetNoUseTag(c) \/ DeleteFile(c)
  BY <1>13, NoUseTagEffect, DeleteFileEffect
<1>14. CASE UnlinkBlock(c)
  <2>1. job[c].todo \subseteq Unused(job[c].file)
    BY <1>14, UnlinkEffect DEF BlockFilesInv, Unlinking
  <2>2. \A n \in job[c].todo : \E d \in details : d.id = n
    BY <2>1 DEF Unused, NoUseTag
  <2> QED BY <1>14, <2>2, UnlinkEffect
<1>15. CASE DeleteAsset(c)
  BY <1>15, FoundAsset, DeleteAssetEffect
<1>16. CASE ForgetUpload(c) \/ FinishDownload(c)
  BY <1>16, ForgetEffect, FinishEffect
<1>17. CASE LookupBlock(c)
  <2>1. Whole(f)
    BY <1>17, <1>f, LookupEffect, ReadersOwn DEF Reading
  <2> QED BY <1>17, <1>f, <2>1, RowsOfBlock, LookupEffect
<1>18. CASE FetchBlock(c)
  <2>1. job[c].pc = "fetchBlock" /\ Whole(f) /\ OwnersOf(f) # {}
    BY <1>18, <1>f, FetchBlockEffect, ReadersOwn DEF Reading
  <2>2. i < Len(Content[f]) /\ job[c].tag = Content[f][i + 1]
    BY <2>1, <1>f DEF ReadsInv
  <2>3. PICK d \in details : RowsAt(f, i) = {d} /\ d.tag = Content[f][i + 1]
    BY <2>1, <2>2, WholeRows
  <2>4. block[job[c].tag] # "absent"
    BY <2>1, <2>2, <2>3, OwnedBlocks
  <2> QED BY <1>18, <2>4, FetchBlockEffect
<1>19. CASE GiveUp(c)
  BY <1>19, Ended DEF GiveUp
<1> QED
  BY <1>1, <1>2, <1>3, <1>4, <1>5, <1>6, <1>7, <1>8, <1>9, <1>10, <1>11, <1>12, <1>13,
     <1>14, <1>15, <1>16, <1>17, <1>18, <1>19 DEF Steps, Step, Upload, Delete, Download

LEMMA ReadsKept ==
  ASSUME ReadsInv, NEW c \in Clients, OnlyMoves(c),
         job'[c].pc = "lookup" => job'[c].idx <= Len(Content[job'[c].file]),
         job'[c].pc = "fetchBlock" => /\ job'[c].idx < Len(Content[job'[c].file])
                                      /\ job'[c].tag = Content[job'[c].file][job'[c].idx + 1],
         job'[c].pc = "downloaded" => job'[c].idx = Len(Content[job'[c].file])
  PROVE  ReadsInv'
BY DEF ReadsInv, DownloadWhole, At, Flag, OnlyMoves

LEMMA ReadsStep ==
  ASSUME Faults \subseteq {"rsync"}, CascadeDetails, TurnsInv, NEW c \in Clients, Steps(c)
  PROVE  ReadsInv'
<1> USE DEF TurnsInv
<1>f. PICK f \in Files, i \in Nat : f = job[c].file /\ i = job[c].idx
  BY FileOfJob
<1>l. Len(Content[f]) \in Nat
  BY ContentLen
<1>1. CASE OnlyMoves(c) /\ job'[c].pc \notin {"lookup", "fetchBlock", "downloaded"}
  BY <1>1, ReadsKept
<1>2. CASE StartDownload(c)
  <2>1. PICK r \in local[c] : job'[c].file = r.flag
    BY <1>2, StartDownloadEffect
  <2>2. PICK g \in Files : g = r.flag
    BY DEF TypeOK
  <2>3. OnlyMoves(c) /\ job'[c].pc = "lookup" /\ job'[c].idx = 0 /\ job'[c].file = g
    BY <1>2, <2>1, <2>2, StartDownloadEffect
  <2>4. 0 <= Len(Content[g])
    BY ContentLen
  <2> QED BY <2>3, <2>4, ReadsKept
<1>3. CASE LookupBlock(c)
  <2>1. job[c].pc = "lookup" /\ OnlyMoves(c)
    BY <1>3, LookupEffect
  <2>2. Whole(f) /\ i <= Len(Content[f])
    BY <2>1, <1>f, ReadersOwn DEF ReadsInv, Reading
  <2>3. job'[c].pc # "hung"
    BY NoHang
  <2>4. CASE job'[c].pc = "downloaded" /\ Keeps(c) /\ RowsAt(job[c].file, job[c].idx) = {}
    <3>1. ~(i < Len(Content[f]))
      BY <2>2, <2>4, <1>f, WholeRows
    <3>2. job'[c].file = f /\ job'[c].idx = Len(Content[f])
      BY <3>1, <2>2, <2>4, <1>f, <1>l DEF Keeps
    <3> QED BY <3>2, <2>1, <2>4, ReadsKept
  <2>5. CASE /\ job'[c].pc = "fetchBlock"
             /\ job'[c].file = job[c].file /\ job'[c].idx = job[c].idx
             /\ \E d \in RowsAt(job[c].file, job[c].idx) : job'[c].tag = d.tag
    <3>1. PICK d \in RowsAt(f, i) : job'[c].tag = d.tag
      BY <2>5, <1>f
    <3>2. i < Len(Content[f])
      BY <3>1, <2>2, <1>l, WholeRows
    <3>3. d.tag = Content[f][i + 1]
      BY <3>1, <3>2, <2>2, WholeRows
    <3> QED BY <3>1, <3>2, <3>3, <2>1, <2>5, <1>f, ReadsKept
  <2> QED BY <1>3, <2>3, <2>4, <2>5, LookupEffect
<1>4. CASE FetchBlock(c)
  <2>1. job[c].pc = "fetchBlock" /\ OnlyMoves(c)
    BY <1>4, FetchBlockEffect
  <2>2. i < Len(Content[f])
    BY <2>1, <1>f DEF ReadsInv
  <2>3. i + 1 <= Len(Content[f])
    BY <2>2, <1>l
  <2> QED BY <1>4, <1>f, <2>1, <2>3, FetchBlockEffect, ReadsKept
<1>5. CASE StartUpload(c) \/ StartDelete(c) \/ FinishDownload(c)
  BY <1>1, <1>5, StartUploadEffect, StartDeleteEffect, FinishEffect
<1>6. CASE \/ CountBlocks(c) \/ CreateFileAsset(c) \/ RecordUpload(c) \/ VerifyProof(c)
           \/ IsOwner(c)
  BY <1>1, <1>6, CountEffect, CreateEffect, RecordEffect, VerifyEffect, IsOwnerEffect
<1>7. CASE ReadFileAsset(c) \/ DeleteOwner(c) \/ HasOwner(c) \/ GetFileId(c)
  BY <1>1, <1>7, ReadEffect, DisownEffect, HasOwnerEffect, FileIdEffect
<1>8. CASE DeleteAsset(c) \/ ForgetUpload(c) \/ RsyncUpload(c) \/ RsyncDelete(c)
  BY <1>1, <1>8, DeleteAssetEffect, ForgetEffect, RsyncEffect DEF RsyncUpload, RsyncDelete
<1>9. CASE InsertFile(c) \/ TestTag(c) \/ OpenBlock(c) \/ WriteBlock(c)
  BY <1>1, <1>9, InsertEffect, TestTagEffect, OpenEffect, WriteEffect
<1>10. CASE GetCounter(c) \/ SetCounter(c) \/ FetchCounter(c) \/ ClearCounter(c)
  BY <1>1, <1>10, GetCounterEffect, SetCounterEffect, FetchCounterEffect, ClearEffect
<1>11. CASE GetNoUseTag(c) \/ UnlinkBlock(c) \/ DeleteFile(c)
  BY <1>1, <1>11, NoUseTagEffect, UnlinkEffect, DeleteFileEffect
<1>12. CASE StoreDetail(c)
  <2>1. job[c].pc \in Storing
    BY <1>12, PcKinds DEF StoreDetail, ReadyForRow
  <2> QED BY <1>1, <1>12, <2>1, StoringInsertable, StoreEffect
<1>13. CASE AddOwner(c)
  <2>1. job[c].pc \in Storing \cup {"enrol"}
    BY <1>13, PcKinds DEF AddOwner, At
  <2> QED BY <1>1, <1>13, <2>1, StoringInsertable, AddOwnerEffect
<1>14. CASE GiveUp(c)
  BY <1>1, <1>14, Ended DEF GiveUp
<1> QED
  BY <1>2, <1>3, <1>4, <1>5, <1>6, <1>7, <1>8, <1>9, <1>10, <1>11, <1>12, <1>13, <1>14
     DEF Steps, Begin, Step, Upload, Delete, Download

----------------------------------------------------------------------------
(* Theorems about clients that take turns *)

LEMMA TurnsInvInit == Init => TurnsInv
<1>1. Init => ReadsInv /\ Answered
  BY IdlePc DEF Init, ReadsInv, DownloadWhole, Answered, At
<1> QED BY <1>1, InitTypeOK, RowsInvInit, FilingInit, CustodyInit, StoresInit DEF TurnsInv

LEMMA TurnsInvStep ==
  ASSUME Faults \subseteq {"rsync"}, CascadeDetails, TurnsInv, Next, TakeTurns',
         NEW c \in Clients, Steps(c)
  PROVE  TurnsInv'
<1>1. TypeOK /\ RowsInv /\ TakeTurns /\ TablesInv /\ FilingInv /\ CustodyInv
      /\ BlockFilesInv /\ CountsInv /\ BackupInv /\ ReadsInv /\ Answered
  BY DEF TurnsInv
<1>2. TypeOK'
  BY <1>1, NextTypeOK
<1>3. RowsInv'
  BY <1>1, RowsInvNext
<1>4. TablesInv' /\ FilingInv'
  BY <1>1, FilingStep
<1>5. job'[c].pc # "hung"
  BY NoHang
<1>6. CustodyInv'
  BY <1>1, <1>2, <1>4, <1>5, CustodyStep
<1>7. BlockFilesInv' /\ CountsInv' /\ BackupInv'
  BY <1>1, <1>5, BlocksStep, CountsStep, BackupStep
<1>8. ReadsInv'
  BY ReadsStep
<1>9. OnlyMoves(c)
  <2>1. CASE Plain(c)
    BY <1>1, <2>1, PlainEffect
  <2>2. CASE InsertFile(c) \/ TestTag(c) \/ OpenBlock(c) \/ WriteBlock(c) \/ GetCounter(c)
    BY <1>1, <2>2, InsertEffect, TestTagEffect, OpenEffect, WriteEffect, GetCounterEffect
  <2>3. CASE SetCounter(c) \/ RsyncUpload(c) \/ RsyncDelete(c) \/ FetchCounter(c) \/ ClearCounter(c)
    BY <1>1, <2>3, SetCounterEffect, RsyncEffect, FetchCounterEffect, ClearEffect
       DEF RsyncUpload, RsyncDelete
  <2>4. CASE GetNoUseTag(c) \/ UnlinkBlock(c) \/ DeleteFile(c)
    BY <1>1, <2>4, NoUseTagEffect, UnlinkEffect, DeleteFileEffect
  <2>5. CASE StoreDetail(c)
    <3>1. job[c].pc \in Storing
      BY <2>5, PcKinds DEF StoreDetail, ReadyForRow
    <3> QED BY <1>1, <2>5, <3>1, StoringInsertable, StoreEffect
  <2>6. CASE AddOwner(c)
    <3>1. job[c].pc \in Storing \cup {"enrol"}
      BY <2>6, PcKinds DEF AddOwner, At
    <3> QED BY <1>1, <2>6, <3>1, StoringInsertable, AddOwnerEffect
  <2> QED BY <2>1, <2>2, <2>3, <2>4, <2>5, <2>6, StoreSteps
<1>10. Answered'
  BY <1>1, <1>5, <1>9 DEF Answered, At, OnlyMoves
<1> QED BY <1>2, <1>3, <1>4, <1>6, <1>7, <1>8, <1>10 DEF TurnsInv

LEMMA TurnsInvIdle == TurnsInv /\ UNCHANGED vars => TurnsInv'
<1> SUFFICES ASSUME TurnsInv, UNCHANGED vars PROVE TurnsInv'
  OBVIOUS
<1>1. /\ UNCHANGED <<files, details, owners, nextId, block, backup, counter, ledger, local>>
      /\ UNCHANGED <<job, started, faults>>
  BY DEF vars, db, disk, bounds
<1>2. TypeOK' /\ RowsInv'
  BY NextTypeOK, RowsInvNext DEF TurnsInv
<1>3. TakeTurns' /\ Answered'
  BY <1>1 DEF TurnsInv, TakeTurns, Answered, At, Flag
<1>4. TablesInv' /\ FilingInv'
  BY <1>1 DEF TurnsInv, TablesInv, FilingInv, BeingStored, Whole, Filed, Sent, RowsAt,
              FileRows, OwnersOf, FileId
<1>s. \A g, e : Same(g, e) /\ OwnersOf(g)' = OwnersOf(g)
  BY <1>1, StoresSame
<1>j. job' = job
  BY <1>1
<1>5. CustodyInv'
  <2>2. ASSUME NEW e \in Clients PROVE CustodyOf(e)'
    <3>1. PICK f, u : f = job[e].file /\ u = job[e].upid
      OBVIOUS
    <3>2. f = job'[e].file /\ u = job'[e].upid
      BY <1>j, <3>1
    <3>3. CustodyOf(e) /\ job'[e] = job[e]
      BY <1>j DEF TurnsInv, CustodyInv
    <3>4. /\ \A own, U, V : Custody(f, e, own, U, V) => Custody(f, e, own, U, V)'
          /\ Settled(f, e) => Settled(f, e)'
      BY <1>s, SameCustody
    <3> QED BY <3>1, <3>2, <3>3, <3>4 DEF CustodyOf
  <2>3. ASSUME NEW e \in Clients, job'[e].pc \in Emptied PROVE (OwnersOf(job[e].file) = {})'
    <3>1. PICK f : f = job[e].file
      OBVIOUS
    <3>2. f = job'[e].file /\ OwnersOf(f) = {}
      BY <1>j, <2>3, <3>1 DEF TurnsInv, CustodyInv
    <3> QED BY <1>s, <3>2
  <2>4. ASSUME NEW e \in Clients, job'[e].pc \in Reading PROVE (RecordIds(job[e].file, e) # {})'
    <3>1. PICK f : f = job[e].file
      OBVIOUS
    <3>2. f = job'[e].file /\ RecordIds(f, e) # {}
      BY <1>j, <2>4, <3>1 DEF TurnsInv, CustodyInv
    <3>3. RecordIds(f, e)' # {}
      BY <1>s, <3>2 DEF Same
    <3> QED BY <3>2, <3>3
  <2>5. ASSUME NEW e \in Clients, NEW g \in Files, g # job'[e].file PROVE Settled(g, e)'
    <3>1. Settled(g, e)
      BY <1>j, <2>5 DEF TurnsInv, CustodyInv
    <3> QED BY <1>s, <3>1, SameCustody
  <2>6. LedgerInv'
    BY <1>1 DEF TurnsInv, CustodyInv, LedgerInv
  <2> QED BY <2>2, <2>3, <2>4, <2>5, <2>6 DEF CustodyInv
<1>u. ASSUME NEW e PROVE /\ (FileId(job[e].file))' = FileId(job[e].file)
                        /\ (Unused(job[e].file))' = Unused(job[e].file)
  <2>1. PICK f : f = job[e].file
    OBVIOUS
  <2>2. f = job'[e].file
    BY <1>j, <2>1
  <2>3. FileId(f)' = FileId(f)
    BY <1>1 DEF FileId, FileRows
  <2>4. Unused(f)' = Unused(f)
    BY <1>1, <2>3 DEF Unused, NoUseTag
  <2> QED BY <2>1, <2>2, <2>3, <2>4
<1>6. BlockFilesInv' /\ CountsInv' /\ BackupInv'
  <2>1. \A e \in Clients : Unlinking(e) => Unlinking(e)'
    BY <1>1, <1>u DEF Unlinking
  <2>2. \A T \in Tags : BeingWritten(T) => BeingWritten(T)'
    BY <1>j DEF BeingWritten, At
  <2>3. BlockFilesInv'
    BY <1>1, <1>u, <2>1, <2>2 DEF TurnsInv, BlockFilesInv
  <2> QED BY <1>1, <2>3 DEF TurnsInv, CountsInv, BackupInv
<1>7. ReadsInv'
  BY <1>1 DEF TurnsInv, ReadsInv, DownloadWhole, At, Flag
<1> QED BY <1>2, <1>3, <1>4, <1>5, <1>6, <1>7 DEF TurnsInv

LEMMA TurnsInvNext ==
  ASSUME Faults \subseteq {"rsync"}, CascadeDetails
  PROVE  TurnsInv /\ [Next /\ TakeTurns']_vars => TurnsInv'
<1> SUFFICES ASSUME TurnsInv, [Next /\ TakeTurns']_vars PROVE TurnsInv'
  OBVIOUS
<1>1. CASE UNCHANGED vars
  BY <1>1, TurnsInvIdle
<1>2. CASE Next /\ TakeTurns'
  BY <1>1, <1>2, TurnSteps, TurnsInvStep
<1> QED BY <1>1, <1>2

\* An owned file that is whole has a readable block for every row.
LEMMA OwnedFileComplete ==
  ASSUME TurnsInv, NEW f \in Files, OwnersOf(f) # {}
  PROVE  Complete(f)
<1> USE DEF TurnsInv
<1>1. PICK r \in files : r.flag = f
  BY NoRow, RowsFlag
<1>2. Whole(f)
  BY <1>1, OwnedWhole
<1>3. ASSUME NEW i \in 0 .. Len(Content[f]) - 1
      PROVE  \E d \in RowsAt(f, i) : /\ RowsAt(f, i) = {d} /\ d.tag = Content[f][i + 1]
                                     /\ Readable(d.tag)
  <2>1. i \in Nat /\ i < Len(Content[f])
    BY ContentLen
  <2>2. PICK d \in details : RowsAt(f, i) = {d} /\ d.tag = Content[f][i + 1]
    BY <1>2, <2>1, WholeRows
  <2>3. block[d.tag] # "absent"
    BY <2>1, <2>2, OwnedBlocks
  <2>4. d.tag \in Tags /\ block[d.tag] \in {"absent", "truncated", "whole"}
    BY DEF TypeOK
  <2>5. Readable(d.tag)
    BY <2>3, <2>4 DEF Readable, BlockFilesInv
  <2> QED BY <2>2, <2>5
<1> QED BY <1>3 DEF Complete

\* A record that its client is not deleting makes the client an owner.
LEMMA RecordedOwned ==
  ASSUME TurnsInv, NEW c \in Clients, NEW f \in Files, RecordIds(f, c) # {},
         ~(job[c].pc \in DeletePcs /\ job[c].file = f)
  PROVE  OwnersOf(f) # {}
<1> USE DEF TurnsInv
<1>1. CASE Settled(f, c)
  BY <1>1 DEF Settled, Custody, OwnsOnce
<1>2. CASE ~Settled(f, c)
  <2>1. f = job[c].file /\ CustodyOf(c) /\ job[c].pc \notin DeletePcs
    BY <1>2 DEF CustodyInv
  <2>2. job[c].pc \notin Disowned \cup {"read", "disown", "forget"}
    BY <2>1 DEF DeletePcs, Disowned
  <2>3. job[c].pc \in Between
    BY <1>2, <2>1 DEF CustodyOf
  <2>4. job[c].pc \in Unowned \cup Enrolled \cup {"record"}
    BY <2>2, <2>3 DEF Between
  <2>5. RecordIds(f, c) = {}
    BY <2>1, <2>4 DEF CustodyOf, Custody
  <2> QED BY <2>5
<1> QED BY <1>1, <1>2

\* When clients take turns, and no fault but a failing rsync happens, every record
\* of an upload that its client is not deleting names a file whose blocks are all
\* there, one row each, whatever uploads, proofs of ownership, deletes and
\* downloads of it and of files that share blocks with it have gone before.
THEOREM TurnsOwnedComplete ==
  ASSUME Faults \subseteq {"rsync"}, CascadeDetails
  PROVE  TurnsSpec => []OwnedComplete
<1>1. TurnsInv => OwnedComplete
  <2> SUFFICES ASSUME TurnsInv, NEW c \in Clients, NEW r \in local[c],
                      ~(job[c].pc \in DeletePcs /\ job[c].file = r.flag)
               PROVE  Complete(r.flag)
    BY DEF OwnedComplete, Flag
  <2>1. r.flag \in Files /\ r.upid \in RecordIds(r.flag, c)
    BY DEF TurnsInv, TypeOK, RecordIds
  <2> QED BY <2>1, RecordedOwned, OwnedFileComplete
<1>2. TurnsInv /\ [Next /\ TakeTurns']_vars => TurnsInv'
  BY TurnsInvNext
<1> QED BY TurnsInvInit, <1>1, <1>2, PTL DEF TurnsSpec

\* ... a download that the server ends with 909 has brought the whole file.
THEOREM TurnsDownloadWhole ==
  ASSUME Faults \subseteq {"rsync"}, CascadeDetails
  PROVE  TurnsSpec => []DownloadWhole
<1>1. TurnsInv => DownloadWhole
  BY DEF TurnsInv, ReadsInv
<1>2. TurnsInv /\ [Next /\ TakeTurns']_vars => TurnsInv'
  BY TurnsInvNext
<1> QED BY TurnsInvInit, <1>1, <1>2, PTL DEF TurnsSpec

\* ... no statement of a handler fails: every request is answered, the download of
\* a block never finds its file missing, and no delete fails halfway.
THEOREM TurnsAnswered ==
  ASSUME Faults \subseteq {"rsync"}, CascadeDetails
  PROVE  TurnsSpec => []Answered
<1>1. TurnsInv => Answered
  BY DEF TurnsInv
<1>2. TurnsInv /\ [Next /\ TakeTurns']_vars => TurnsInv'
  BY TurnsInvNext
<1> QED BY TurnsInvInit, <1>1, <1>2, PTL DEF TurnsSpec

\* ... and with no fault at all, whenever nothing is under way the block files are
\* those of the rows, every row belongs to a file, no block count is left in Redis
\* and the other SSP has the same blocks.
THEOREM TurnsRestConsistent ==
  ASSUME Faults = {}, CascadeDetails
  PROVE  TurnsSpec => []RestConsistent
<1>1. TurnsInv => RestConsistent
  <2> SUFFICES ASSUME TurnsInv, AtRest
               PROVE  /\ {T \in Tags : block[T] # "absent"} = {d.tag : d \in details}
                      /\ \A d \in details : \E r \in files : r.id = d.fileid
                      /\ \A f \in Files : counter[f] = 0
                      /\ backup = {T \in Tags : block[T] = "whole"}
    BY DEF RestConsistent
  <2> USE DEF TurnsInv
  <2>1. \A c \in Clients : job[c].pc = "idle"
    BY DEF AtRest, At
  <2>2. {T \in Tags : block[T] # "absent"} = {d.tag : d \in details}
    <3>1. \A d \in details : d.tag \in Tags /\ block[d.tag] # "absent"
      BY <2>1 DEF BlockFilesInv, TypeOK
    <3>2. \A T \in Tags : block[T] # "absent" => \E d \in details : d.tag = T
      BY <2>1 DEF BlockFilesInv, Rewriting
    <3> QED BY <3>1, <3>2
  <2>3. \A f \in Files : counter[f] = 0
    BY <2>1, CountingPcs DEF CountsInv
  <2>4. backup = {T \in Tags : block[T] = "whole"}
    BY <2>1, CountingPcs DEF BackupInv
  <2> QED BY <2>2, <2>3, <2>4 DEF TablesInv
<1>2. TurnsInv /\ [Next /\ TakeTurns']_vars => TurnsInv'
  BY TurnsInvNext
<1> QED BY TurnsInvInit, <1>1, <1>2, PTL DEF TurnsSpec

\* ... the owners table, the file assets on the chain and the clients' own records
\* say the same of who owns what, once each, whenever nothing is under way.
THEOREM TurnsCustodyAgrees ==
  ASSUME Faults \subseteq {"rsync"}, CascadeDetails
  PROVE  TurnsSpec => []CustodyAgrees
<1>1. TurnsInv => CustodyAgrees
  <2> SUFFICES ASSUME TurnsInv, AtRest, NEW c \in Clients, NEW f \in Files
               PROVE  LET mine == {r \in local[c] : r.flag = f} IN
                      /\ {r.upid : r \in mine} =
                           {a.upid : a \in {b \in ledger : b.flag = f /\ b.user = c}}
                      /\ Cardinality(mine) = Cardinality({o \in OwnersOf(f) : o.user = c})
                      /\ Cardinality(mine) <= 1
    BY DEF CustodyAgrees
  <2> USE DEF TurnsInv
  <2> DEFINE mine == {r \in local[c] : r.flag = f}
  <2>1. job[c].pc \notin Between
    BY BetweenPcs DEF AtRest, At
  <2>2. Settled(f, c)
    BY <2>1, FreeSettled
  <2>3. RecordIds(f, c) = AssetIds(f, c)
    BY <2>2 DEF Settled, Custody
  <2>4. {r.upid : r \in mine} = {a.upid : a \in {b \in ledger : b.flag = f /\ b.user = c}}
    BY <2>3 DEF RecordIds, AssetIds
  <2>5. CASE Custody(f, c, FALSE, {}, {})
    <3>1. mine = {} /\ OwnerRows(f, c) = {}
      BY <2>5 DEF Custody, RecordIds
    <3>2. Cardinality(mine) = 0 /\ Cardinality(OwnerRows(f, c)) = 0
      BY <3>1, FS_EmptySet
    <3> QED BY <2>4, <3>2 DEF OwnerRows
  <2>6. CASE \E u \in Nat : Custody(f, c, TRUE, {u}, {u})
    <3>1. PICK u \in Nat : Custody(f, c, TRUE, {u}, {u})
      BY <2>6
    <3>2. PICK o : OwnerRows(f, c) = {o}
      BY <3>1 DEF Custody, OwnsOnce
    <3>3. RecordIds(f, c) = {u}
      BY <3>1 DEF Custody
    <3>4. PICK r \in mine : r.upid = u
      BY <3>3 DEF RecordIds
    <3>5. \A s \in mine : s = r
      <4>1. \A s \in mine : s.upid = u /\ s.flag = f
        BY <3>3 DEF RecordIds
      <4>2. \A s \in local[c] : s = [flag |-> s.flag, upid |-> s.upid]
        BY DEF TypeOK
      <4> QED BY <4>1, <4>2, <3>4
    <3>6. mine = {r}
      BY <3>5
    <3>7. Cardinality(mine) = 1 /\ Cardinality(OwnerRows(f, c)) = 1
      BY <3>2, <3>6, FS_Singleton
    <3> QED BY <2>4, <3>7 DEF OwnerRows
  <2> QED BY <2>2, <2>5, <2>6 DEF Settled
<1>2. TurnsInv /\ [Next /\ TakeTurns']_vars => TurnsInv'
  BY TurnsInvNext
<1> QED BY TurnsInvInit, <1>1, <1>2, PTL DEF TurnsSpec

\* Only the unlinking of a delete removes a block file.
LEMMA OnlyUnlinks ==
  ASSUME Faults \subseteq {"rsync"}, TypeOK, NEW c \in Clients, Steps(c), NEW T \in Tags,
         block[T] # "absent", block'[T] = "absent"
  PROVE  UnlinkBlock(c)
<1>1. block' # block
  OBVIOUS
<1>2. ~Plain(c)
  BY <1>1, PlainEffect
<1>3. ~OpenBlock(c) /\ ~WriteBlock(c)
  BY OpenEffect, WriteEffect DEF TypeOK
<1>4. ~(InsertFile(c) \/ TestTag(c) \/ StoreDetail(c) \/ GetCounter(c) \/ SetCounter(c)
        \/ AddOwner(c) \/ FetchCounter(c) \/ ClearCounter(c) \/ GetNoUseTag(c) \/ DeleteFile(c))
  BY <1>1 DEF InsertFile, TestTag, StoreDetail, GetCounter, SetCounter, AddOwner,
              FetchCounter, ClearCounter, GetNoUseTag, DeleteFile, disk
<1>5. ~(RsyncUpload(c) \/ RsyncDelete(c))
  BY <1>1 DEF RsyncUpload, RsyncDelete, Rsync
<1> QED BY <1>2, <1>3, <1>4, <1>5, StoreSteps

\* ... and no delete removes a block that a file somebody owns has a row for.
THEOREM TurnsUnlinkOnlyUnowned ==
  ASSUME Faults \subseteq {"rsync"}, CascadeDetails
  PROVE  TurnsSpec => UnlinkOnlyUnowned
<1> DEFINE Spared == \A T \in Tags : block[T] # "absent" /\ block'[T] = "absent" =>
                       \A o \in owners, d \in details : d.tag = T => d.fileid # o.fileid
<1>1. TurnsInv /\ [Next /\ TakeTurns']_vars => [Spared]_vars
  <2> SUFFICES ASSUME TurnsInv, Next, NEW T \in Tags, block[T] # "absent",
                      block'[T] = "absent", NEW o \in owners, NEW d \in details, d.tag = T
               PROVE  d.fileid # o.fileid
    BY DEF vars, disk
  <2> USE DEF TurnsInv
  <2>1. ~UNCHANGED vars
    BY DEF vars, disk
  <2>2. PICK c \in Clients : Steps(c)
    BY <2>1, TurnSteps
  <2>3. UnlinkBlock(c)
    BY <2>2, OnlyUnlinks
  <2>4. PICK f : f = job[c].file
    OBVIOUS
  <2>5. PICK e \in details : /\ e.id \in job[c].todo
                             /\ block' = [block EXCEPT ![e.tag] = "absent"]
    BY <2>3, UnlinkEffect
  <2>6. job[c].pc = "unlink" /\ job[c].todo \subseteq Unused(f) /\ OwnersOf(f) = {}
    BY <2>3, <2>4, UnlinkEffect DEF BlockFilesInv, Unlinking, CustodyInv, Emptied
  <2>7. e.tag = T
    BY <2>5 DEF TypeOK
  <2>8. FileId(f) # NULL
    BY <2>5, <2>6 DEF Unused, NoUseTag
  <2>9. d.fileid = FileId(f)
    BY <2>5, <2>6, <2>7, <2>8, UnusedRows
  <2> QED BY <2>6, <2>8, <2>9 DEF OwnersOf
<1>2. TurnsInv /\ [Next /\ TakeTurns']_vars => TurnsInv'
  BY TurnsInvNext
<1> QED BY TurnsInvInit, <1>1, <1>2, PTL DEF TurnsSpec, UnlinkOnlyUnowned
----------------------------------------------------------------------------
(* Clients that take turns whatever they do *)

\* One client alone takes turns: what is proved of TurnsSpec holds of every run of Spec
\* in which a single client uses the service.
THEOREM OneClientTakesTurns ==
  ASSUME \A c, e \in Clients : c = e
  PROVE  Spec => TurnsSpec
<1>1. TakeTurns'
  BY DEF TakeTurns
<1>2. [Next]_vars => [Next /\ TakeTurns']_vars
  BY <1>1
<1> QED BY <1>2, PTL DEF Spec, TurnsSpec

\* A client stores what is on its disk, and without deletes nobody removes anything.
OwnDisk(c) ==
  /\ job[c].pc \in Filing => job[c].file \in Wanted[c]
  /\ job[c].pc \notin Removing

StoresOwn == \A c \in Clients : OwnDisk(c)

LEMMA OwnDiskStart ==
  ASSUME TypeOK, Deleters = {}, NEW c \in Clients, Begin(c)
  PROVE  OwnDisk(c)'
<1>1. PICK j : /\ Start(c, j) /\ j.pc \in {"count", "lookup"}
               /\ j.pc = "count" => j.file \in Wanted[c]
  <2>1. CASE StartUpload(c)
    <3>1. PICK f \in Wanted[c] : Start(c, [Idle EXCEPT !.pc = "count", !.file = f])
      BY <2>1 DEF StartUpload
    <3> DEFINE j == [Idle EXCEPT !.pc = "count", !.file = f]
    <3>2. j.pc = "count" /\ j.file = f
      BY DEF Idle
    <3> QED BY <3>1, <3>2
  <2>2. CASE StartDownload(c)
    <3>1. PICK r \in local[c] : Start(c, [Idle EXCEPT !.pc = "lookup", !.file = r.flag])
      BY <2>2 DEF StartDownload
    <3> DEFINE j == [Idle EXCEPT !.pc = "lookup", !.file = r.flag]
    <3>2. j.pc = "lookup"
      BY DEF Idle
    <3> QED BY <3>1, <3>2
  <2> QED BY <2>1, <2>2 DEF Begin, StartDelete
<1>2. job'[c] = j
  BY <1>1 DEF TypeOK, Start, Become
<1> QED BY <1>1, <1>2 DEF OwnDisk, Filing, Removing

\* Where a step may go from where it is, in the part of an upload that stores.
LEMMA OwnDiskUpload ==
  ASSUME TypeOK, NEW c \in Clients, OwnDisk(c), Upload(c)
  PROVE  OwnDisk(c)'
<1> USE DEF OwnDisk, At, Flag, Filing, Removing
<1>i. Idle.pc = "idle"
  BY DEF Idle
<1>j. job[c] \in Job
  BY DEF TypeOK
<1>b. \A j : Become(c, j) => job'[c] = j
  BY DEF Become, TypeOK
<1>h. Hang(c) => job'[c].pc = "hung"
  BY <1>b DEF Hang, Idle
<1>g. \A pc : Goto(c, pc) => job'[c].pc = pc /\ job'[c].file = job[c].file
  BY <1>b, <1>j DEF Goto, Job
<1>n. NextBlock(c).pc = "send" /\ NextBlock(c).file = job[c].file
  BY <1>j DEF NextBlock, Job
<1>1. CASE CountBlocks(c)
  <2>1. CASE \E S : Become(c, [job[c] EXCEPT !.pc = "prove", !.todo = S])
    <3>1. PICK S : Become(c, [job[c] EXCEPT !.pc = "prove", !.todo = S])
      BY <2>1
    <3> QED BY <3>1, <1>b, <1>j DEF Job
  <2>2. CASE Hang(c) \/ Goto(c, "insert")
    <3>1. job[c].pc = "count" /\ job[c].file \in Wanted[c]
      BY <1>1 DEF CountBlocks
    <3>2. CASE Hang(c)
      BY <1>h, <3>2
    <3>3. CASE Goto(c, "insert")
      BY <1>g, <3>1, <3>3
    <3> QED BY <2>2, <3>2, <3>3
  <2> QED BY <1>1, <2>1, <2>2, Zenon DEF CountBlocks
<1>2. CASE InsertFile(c)
  BY <1>2, <1>h, <1>g DEF InsertFile
<1>3. CASE TestTag(c)
  BY <1>3, <1>b, <1>j DEF TestTag, Job
<1>4. CASE OpenBlock(c) \/ WriteBlock(c) \/ RsyncUpload(c) \/ ClearCounter(c)
  BY <1>4, <1>g DEF OpenBlock, WriteBlock, RsyncUpload, Rsync, ClearCounter
<1>5. CASE StoreDetail(c)
  BY <1>5, <1>b, <1>g, <1>n DEF StoreDetail, ReadyForRow
<1>6. CASE GetCounter(c)
  BY <1>6, <1>b, <1>j DEF GetCounter, Job
<1>7. CASE SetCounter(c)
  BY <1>7, <1>b, <1>j DEF SetCounter, NextBlock, Job
<1>8. CASE AddOwner(c)
  BY <1>8, <1>g, <1>h DEF AddOwner
<1>9. CASE FetchCounter(c)
  BY <1>9, <1>b, <1>j DEF FetchCounter, Job
<1>10. CASE CreateFileAsset(c)
  <2>1. CASE Become(c, [job[c] EXCEPT !.pc = "record", !.upid = nextId.upid])
    BY <2>1, <1>b, <1>j DEF Job
  <2>2. CASE Hang(c) \/ Goto(c, "record")
    BY <2>2, <1>h, <1>g
  <2> QED BY <1>10, <2>1, <2>2, Zenon DEF CreateFileAsset
<1>11. CASE RecordUpload(c)
  BY <1>11, <1>b, <1>i DEF RecordUpload
<1>12. CASE VerifyProof(c)
  <2>1. [job[c] EXCEPT !.pc = "isOwner", !.todo = {}].pc = "isOwner"
    BY <1>j DEF Job
  <2> QED BY <1>12, <1>b, <1>h, <1>i, <2>1 DEF VerifyProof
<1>13. CASE IsOwner(c)
  BY <1>13, <1>b, <1>g, <1>h, <1>i DEF IsOwner
<1> QED BY <1>1, <1>2, <1>3, <1>4, <1>5, <1>6, <1>7, <1>8, <1>9, <1>10, <1>11, <1>12, <1>13
        DEF Upload

LEMMA OwnDiskOther ==
  ASSUME TypeOK, NEW c \in Clients, OwnDisk(c),
         Delete(c) \/ Download(c) \/ GiveUp(c) \/ Abort(c)
  PROVE  OwnDisk(c)'
<1> USE DEF OwnDisk, At, Flag, Filing, Removing
<1>i. Idle.pc = "idle"
  BY DEF Idle
<1>j. job[c] \in Job
  BY DEF TypeOK
<1>b. \A j : Become(c, j) => job'[c] = j
  BY DEF Become, TypeOK
<1>h. Hang(c) => job'[c].pc = "hung"
  BY <1>b DEF Hang, Idle
<1>g. \A pc : Goto(c, pc) => job'[c].pc = pc /\ job'[c].file = job[c].file
  BY <1>b, <1>j DEF Goto, Job
<1>1. CASE Delete(c)
  <2>1. RsyncDelete(c) \/ DeleteAsset(c) \/ ForgetUpload(c)
    BY <1>1 DEF Delete, ReadFileAsset, DeleteOwner, HasOwner, GetFileId, GetNoUseTag,
                UnlinkBlock, DeleteFile
  <2> QED BY <2>1, <1>b, <1>g, <1>h, <1>i DEF RsyncDelete, Rsync, DeleteAsset, ForgetUpload
<1>2. CASE LookupBlock(c)
  <2>1. CASE \E d : Become(c, [job[c] EXCEPT !.pc = "fetchBlock", !.tag = d.tag])
    <3>1. PICK d : Become(c, [job[c] EXCEPT !.pc = "fetchBlock", !.tag = d.tag])
      BY <2>1
    <3> QED BY <3>1, <1>b, <1>j DEF Job
  <2>2. CASE Hang(c) \/ Goto(c, "downloaded")
    BY <2>2, <1>h, <1>g
  <2> QED BY <1>2, <2>1, <2>2, Zenon DEF LookupBlock
<1>3. CASE FetchBlock(c)
  <2>1. Become(c, [job[c] EXCEPT !.pc = "lookup", !.idx = @ + 1]) => job'[c].pc = "lookup"
    BY <1>b, <1>j DEF Job
  <2> QED BY <1>3, <1>b, <1>h, <1>i, <2>1 DEF FetchBlock
<1>4. CASE FinishDownload(c) \/ GiveUp(c) \/ Abort(c)
  BY <1>4, <1>b, <1>i DEF FinishDownload, GiveUp, Abort
<1> QED BY <1>1, <1>2, <1>3, <1>4 DEF Download

LEMMA StoresOwnNext ==
  ASSUME Deleters = {}
  PROVE  TypeOK /\ StoresOwn /\ [Next]_vars => StoresOwn'
<1> SUFFICES ASSUME TypeOK, StoresOwn, [Next]_vars PROVE StoresOwn'
  OBVIOUS
<1>1. CASE UNCHANGED vars
  BY <1>1 DEF vars, StoresOwn, OwnDisk
<1>2. CASE Crash
  BY <1>2 DEF Crash, TypeOK, StoresOwn, OwnDisk, Idle, Filing, Removing
<1>3. ASSUME NEW c \in Clients, Begin(c) \/ Step(c) \/ Abort(c)
      PROVE  StoresOwn'
  <2>1. OwnDisk(c)'
    BY <1>3, OwnDiskStart, OwnDiskUpload, OwnDiskOther DEF StoresOwn, Step
  <2>2. PICK j : Become(c, j)
    BY <1>3 DEF Begin, StartUpload, StartDelete, StartDownload, Start, Step, Upload, Delete,
       Download, CountBlocks, InsertFile, TestTag, OpenBlock, WriteBlock, StoreDetail, GetCounter,
       SetCounter, AddOwner, RsyncUpload, RsyncDelete, Rsync, FetchCounter, ClearCounter,
       CreateFileAsset, RecordUpload, VerifyProof, IsOwner, ReadFileAsset, DeleteOwner, HasOwner,
       GetFileId, GetNoUseTag, UnlinkBlock, DeleteFile, DeleteAsset, ForgetUpload, LookupBlock,
       FetchBlock, FinishDownload, GiveUp, Abort, Goto, Hang
  <2>3. \A e \in Clients \ {c} : job'[e] = job[e]
    BY <2>2 DEF Become, TypeOK
  <2> QED BY <2>1, <2>3 DEF StoresOwn, OwnDisk
<1> QED BY <1>1, <1>2, <1>3 DEF Next, Finished

\* Clients with different files who delete nothing take turns, however their uploads and
\* downloads interleave and whatever fails: the six properties are theirs in every run.
THEOREM SeparateFilesTakeTurns ==
  ASSUME Deleters = {}, \A c, e \in Clients : c # e => Wanted[c] \cap Wanted[e] = {}
  PROVE  Spec => TurnsSpec
<1>1. StoresOwn => TakeTurns
  BY DEF StoresOwn, OwnDisk, TakeTurns, Flag
<1>2. Init => StoresOwn
  BY IdlePc DEF Init, StoresOwn, OwnDisk, Filing, Removing
<1>3. StoresOwn' /\ [Next]_vars => [Next /\ TakeTurns']_vars
  BY <1>1, PTL
<1>4. TypeOK /\ StoresOwn /\ [Next]_vars => StoresOwn'
  BY StoresOwnNext
<1> QED BY InitTypeOK, NextTypeOK, <1>2, <1>3, <1>4, PTL DEF Spec, TurnsSpec
=============================================================================
