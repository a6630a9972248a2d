------------------------------- MODULE Dedup -------------------------------
(***************************************************************************)
(* Deduplicated upload, proof of ownership, download and delete: the       *)
(* handlers of csdaa-server's DepService together with the client loop of  *)
(* csdaa-client's FileService that calls them.                             *)
(*                                                                         *)
(* One action is one access to shared state: an SQL statement of           *)
(* TestMapper.xml (every statement commits by itself: the code opens no    *)
(* transaction), a file operation under /usr/data, a Redis command, an     *)
(* rsync or a ledger transaction.  A client has one connection to the      *)
(* server and its requests are handled on it one after the other, so the   *)
(* job of a client is one sequential process, and 205 messages, whose      *)
(* answers the client never looks at, need no queue: the server's handling *)
(* of block i of a client always precedes its handling of block i+1.       *)
(* Clients interleave freely.                                              *)
(*                                                                         *)
(* A file is named by its flag t, which convergent encryption derives from *)
(* the content, and Content[f] is the sequence of its blocks' tags T.      *)
(***************************************************************************)
EXTENDS Integers, Sequences, FiniteSets

CONSTANTS
  Clients,        \* the clients; each is logged in as one user of its own
  Files,          \* file flags t
  Tags,           \* block tags T
  Content,        \* Content[f]: the tags of the blocks of f, in order
  Wanted,         \* Wanted[c]: the files on c's disk
  Deleters,       \* the clients that may ask for a delete
  UniqueFlag,     \* the schema (not in the repository) makes files.flag unique
  NullFileid,     \* the schema lets file_details.fileid and owners.fileid be NULL
  CascadeDetails, \* deleting a files row deletes its file_details and owners
  Faults,         \* the faults that may happen, of FaultKinds
  MaxJobs,        \* bound: jobs a client starts
  MaxFaults       \* bound: faults of one kind

FaultKinds == {"rsync", "ledger", "crash", "abort"}

ASSUME DedupAssumption ==
  /\ Content \in [Files -> Seq(Tags)]
  /\ \A f \in Files : Content[f] # <<>>
  /\ Files # {} /\ Tags # {}
  /\ Wanted \in [Clients -> SUBSET Files]
  /\ Deleters \subseteq Clients
  /\ Faults \subseteq FaultKinds
  /\ {UniqueFlag, NullFileid, CascadeDetails} \subseteq BOOLEAN
  /\ {MaxJobs, MaxFaults} \subseteq Nat

NULL == 0         \* SQL NULL and the null upid; ids start at 1

VARIABLES
  files,    \* table files: rows [id, flag]
  details,  \* table file_details: rows [id, fileid, index, tag]
  owners,   \* table owners: rows [id, fileid, user]
  nextId,   \* the auto-increment counters, and the next fresh upid
  block,    \* block[T]: the file SHA(T).txt under /usr/data
  backup,   \* the tags whose whole block rsync has put on the other SSP
  counter,  \* Redis key t: blocks written for t so far, 0 when absent
  ledger,   \* file assets on the chain: [upid, flag, user]
  local,    \* local[c]: c's records of its uploads: [flag, upid]
  job,      \* job[c]: the request c is in and the handler's locals
  started,  \* started[c]: jobs c has started
  faults    \* faults[k]: faults of kind k so far

db     == <<files, details, owners, nextId>>
disk   == <<block, backup>>
bounds == <<started, faults>>
vars   == <<db, disk, counter, ledger, local, job, bounds>>

Idle == [pc |-> "idle", file |-> CHOOSE f \in Files : TRUE, idx |-> 0, num |-> 0,
         todo |-> {}, upid |-> NULL, tag |-> CHOOSE T \in Tags : TRUE]

Init ==
  /\ files = {} /\ details = {} /\ owners = {}
  /\ nextId = [files |-> 1, details |-> 1, owners |-> 1, upid |-> 1]
  /\ block = [T \in Tags |-> "absent"] /\ backup = {}
  /\ counter = [f \in Files |-> 0]
  /\ ledger = {}
  /\ local = [c \in Clients |-> {}]
  /\ job = [c \in Clients |-> Idle]
  /\ started = [c \in Clients |-> 0]
  /\ faults = [k \in FaultKinds |-> 0]

----------------------------------------------------------------------------
\* The SQL subquery (select id from files where flag=#{t}): an error when two
\* rows answer it, NULL when none does.
FileRows(f) == {r \in files : r.flag = f}
Ambiguous(f) == \E r, s \in FileRows(f) : r # s
FileId(f) == IF FileRows(f) = {} THEN NULL ELSE (CHOOSE r \in FileRows(f) : TRUE).id
Insertable(f) == ~Ambiguous(f) /\ (FileRows(f) # {} \/ NullFileid)

\* fileid = (subquery): a comparison with NULL selects nothing.
RowsOf(f) == {d \in details : d.fileid = FileId(f) /\ d.fileid # NULL}
OwnersOf(f) == {o \in owners : o.fileid = FileId(f) /\ o.fileid # NULL}

\* The rows isOwner and deleteOwner select.
NoOwnerRows(f, c) == {}                                  \* mutant: isOwner finds nobody
OwnerRows(f, c) == {o \in OwnersOf(f) : o.user = c}

\* getNoUseTag: the ids of a file's rows whose tag no row of another file has; a row
\* with a NULL fileid is neither.
AllItsTags(fid) == {d.id : d \in {x \in details : x.fileid = fid}}   \* mutant: no "not in"
NoUseTag(fid) ==
  LET ofFile == {d \in details : d.fileid = fid /\ d.fileid # NULL}
      others == {d \in details : d.fileid # fid /\ d.fileid # NULL}
  IN {d.id : d \in {x \in ofFile : \A y \in others : y.tag # x.tag}}

\* The join of file_details and files that getTag, getKesi and getTagCk use.
RowsOneAfter(f, i) ==                                    \* mutant: ai for ai - 1
  {d \in details : d.index = i + 1 /\ \E r \in FileRows(f) : r.id = d.fileid}
RowsAt(f, i) == {d \in details : d.index = i /\ \E r \in FileRows(f) : r.id = d.fileid}

Flag(c) == job[c].file
At(c, pc) == job[c].pc = pc
Become(c, j) == job' = [job EXCEPT ![c] = j]
Goto(c, pc) == Become(c, [job[c] EXCEPT !.pc = pc])
BlockBefore(c) == [job[c] EXCEPT !.pc = "send", !.idx = @ - 1]   \* mutant: wrong way
NextBlock(c) == [job[c] EXCEPT !.pc = "send", !.idx = @ + 1]

\* No answer the client can read: it waits for its 12000 second timeout.
Hang(c) == Become(c, [Idle EXCEPT !.pc = "hung"])

Fault(kind) == /\ kind \in Faults /\ faults[kind] < MaxFaults
               /\ faults' = [faults EXCEPT ![kind] = @ + 1]
Start(c, j) == /\ At(c, "idle") /\ started[c] < MaxJobs
               /\ started' = [started EXCEPT ![c] = @ + 1]
               /\ Become(c, j)
               /\ UNCHANGED <<db, disk, counter, ledger, local, faults>>

----------------------------------------------------------------------------
(* checkTexist, code 200 *)

StartUpload(c) == \E f \in Wanted[c] : Start(c, [Idle EXCEPT !.pc = "count", !.file = f])

\* isFileExist.  With blocks on record (answer 300) z, r1 and r2 fix the set of
\* block indices both sides go over in the proof of ownership.
CountBlocks(c) ==
  /\ At(c, "count")
  /\ LET n == Cardinality(RowsOf(Flag(c))) IN
       IF Ambiguous(Flag(c)) THEN Hang(c)
       ELSE IF RowsOf(Flag(c)) = {} THEN Goto(c, "insert")
       ELSE \E S \in (SUBSET (0 .. n - 1)) \ {{}} :
              Become(c, [job[c] EXCEPT !.pc = "prove", !.todo = S])
  /\ UNCHANGED <<db, disk, counter, ledger, local, bounds>>

\* insertFile, without looking again; answer 400.
InsertFile(c) ==
  /\ At(c, "insert")
  /\ IF UniqueFlag /\ FileRows(Flag(c)) # {}
       THEN Hang(c) /\ UNCHANGED <<files, nextId>>
       ELSE /\ files' = files \cup {[id |-> nextId.files, flag |-> Flag(c)]}
            /\ nextId' = [nextId EXCEPT !.files = @ + 1]
            /\ Goto(c, "send")
  /\ UNCHANGED <<details, owners, disk, counter, ledger, local, bounds>>

(* uploadData, code 205: one block *)

\* isTExist.
TestTag(c) ==
  /\ At(c, "send") /\ job[c].idx < Len(Content[Flag(c)])
  /\ LET T == Content[Flag(c)][job[c].idx + 1] IN
       Become(c, [job[c] EXCEPT !.tag = T,
                    !.pc = IF \E d \in details : d.tag = T THEN "link" ELSE "open"])
  /\ UNCHANGED <<db, disk, counter, ledger, local, bounds>>

\* new FileOutputStream truncates what is there.
OpenBlock(c) ==
  /\ At(c, "open")
  /\ block' = [block EXCEPT ![job[c].tag] = "truncated"]
  /\ Goto(c, "write")
  /\ UNCHANGED <<db, backup, counter, ledger, local, bounds>>

WriteBlock(c) ==
  /\ At(c, "write")
  /\ block' = [block EXCEPT ![job[c].tag] = "whole"]
  /\ Goto(c, "detail")
  /\ UNCHANGED <<db, backup, counter, ledger, local, bounds>>

\* stroeFileDetail, after writing the block ("detail") or without ("link").  An
\* SQL error is answered with code 0, which nobody reads.
RowFirst(c) == job[c].pc \in {"open", "link"}            \* mutant: row before the file
RowBeforeFlush(c) == job[c].pc \in {"write", "link"}     \* mutant: row before the write
ReadyForRow(c) == job[c].pc \in {"detail", "link"}

NewRowOneBased(c) == [id |-> nextId.details, fileid |-> FileId(Flag(c)),
                      index |-> job[c].idx + 1, tag |-> job[c].tag]    \* mutant: index + 1
NewRow(c) == [id |-> nextId.details, fileid |-> FileId(Flag(c)),
              index |-> job[c].idx, tag |-> job[c].tag]

StoreDetail(c) ==
  /\ ReadyForRow(c)
  /\ IF Insertable(Flag(c))
       THEN /\ details' = details \cup {NewRow(c)}
            /\ nextId' = [nextId EXCEPT !.details = @ + 1]
            /\ IF At(c, "detail") THEN Goto(c, "getCounter") ELSE Become(c, NextBlock(c))
       ELSE Become(c, NextBlock(c)) /\ UNCHANGED <<details, nextId>>
  /\ UNCHANGED <<files, owners, disk, counter, ledger, local, bounds>>

GetCounter(c) ==
  /\ At(c, "getCounter")
  /\ Become(c, [job[c] EXCEPT !.pc = "setCounter", !.num = counter[Flag(c)]])
  /\ UNCHANGED <<db, disk, counter, ledger, local, bounds>>

SetCounter(c) ==
  /\ At(c, "setCounter")
  /\ counter' = [counter EXCEPT ![Flag(c)] = job[c].num + 1]
  /\ Become(c, [NextBlock(c) EXCEPT !.num = 0])
  /\ UNCHANGED <<db, disk, ledger, local, bounds>>

----------------------------------------------------------------------------
(* uploadData, code 207: all blocks sent *)

LastUnsent(c) == job[c].idx + 1 >= Len(Content[Flag(c)])   \* mutant: one block early
AllSent(c) == job[c].idx = Len(Content[Flag(c)])

\* addOwner; on an error the answer carries no upid, and the client does not look.
AddOwner(c) ==
  /\ \/ At(c, "send") /\ AllSent(c)
     \/ At(c, "enrol")
  /\ IF Insertable(Flag(c))
       THEN /\ owners' = owners \cup {[id |-> nextId.owners, fileid |-> FileId(Flag(c)),
                                       user |-> c]}
            /\ nextId' = [nextId EXCEPT !.owners = @ + 1]
            /\ Goto(c, IF At(c, "send") THEN "rsync" ELSE "createProven")
       ELSE /\ IF At(c, "send") THEN Goto(c, "record") ELSE Hang(c)
            /\ UNCHANGED <<owners, nextId>>
  /\ UNCHANGED <<files, details, disk, counter, ledger, local, bounds>>

\* rsync --delete makes the other SSP's directory equal to this one; its exit
\* code is dropped, so a failed one goes unnoticed.
Rsync(c, from, to) ==
  /\ At(c, from)
  /\ \/ backup' = {T \in Tags : block[T] = "whole"} /\ UNCHANGED faults
     \/ Fault("rsync") /\ UNCHANGED backup
  /\ Goto(c, to)
  /\ UNCHANGED <<db, block, counter, ledger, local, started>>

RsyncUpload(c) == Rsync(c, "rsync", "fetch")

FetchCounter(c) ==
  /\ At(c, "fetch")
  /\ Become(c, [job[c] EXCEPT !.num = counter[Flag(c)],
                  !.pc = IF counter[Flag(c)] = 0 THEN "create" ELSE "clear"])
  /\ UNCHANGED <<db, disk, counter, ledger, local, bounds>>

KeepCounter(c) ==                                        \* mutant: get for getAndDelete
  /\ At(c, "clear")
  /\ Goto(c, "create")
  /\ UNCHANGED <<db, disk, counter, ledger, local, bounds>>

ClearCounter(c) ==
  /\ At(c, "clear")
  /\ counter' = [counter EXCEPT ![Flag(c)] = 0]
  /\ Goto(c, "create")
  /\ UNCHANGED <<db, disk, ledger, local, bounds>>

\* CreateFileAsset, under a fresh upid.  When it fails 207 answers code 0 without
\* upid, and the proof of ownership does not answer.
CreateFileAsset(c) ==
  /\ job[c].pc \in {"create", "createProven"}
  /\ \/ /\ ledger' = ledger \cup {[upid |-> nextId.upid, flag |-> Flag(c), user |-> c]}
        /\ nextId' = [nextId EXCEPT !.upid = @ + 1]
        /\ Become(c, [job[c] EXCEPT !.pc = "record", !.upid = nextId.upid])
        /\ UNCHANGED faults
     \/ /\ Fault("ledger")
        /\ IF At(c, "create") THEN Goto(c, "record") ELSE Hang(c)
        /\ UNCHANGED <<ledger, nextId>>
  /\ UNCHANGED <<files, details, owners, disk, counter, local, started>>

\* The client's record of the upload, written whatever the answer to 207 was.
Record(c) == [flag |-> Flag(c), upid |-> job[c].upid]

RecordUpload(c) ==
  /\ At(c, "record")
  /\ local' = [local EXCEPT ![c] = @ \cup {Record(c)}]
  /\ Become(c, Idle)
  /\ UNCHANGED <<db, disk, counter, ledger, bounds>>

(* verify, code 220: proof of ownership *)

\* The client adds up the tags of its own blocks, the server those of the rows; a
\* missing or double row is an exception, and the client's list may be too short.
VerifyProof(c) ==
  /\ At(c, "prove")
  /\ LET f == Flag(c) IN
       IF \E i \in job[c].todo : i >= Len(Content[f]) THEN Become(c, Idle)
       ELSE IF \E i \in job[c].todo : Cardinality(RowsAt(f, i)) # 1 THEN Hang(c)
       ELSE IF \A i \in job[c].todo : \A d \in RowsAt(f, i) : d.tag = Content[f][i + 1]
         THEN Become(c, [job[c] EXCEPT !.pc = "isOwner", !.todo = {}])
         ELSE Become(c, Idle)                                            \* 606
  /\ UNCHANGED <<db, disk, counter, ledger, local, bounds>>

\* isOwner: 506 for an owner; who is not becomes one.
IsOwner(c) ==
  /\ At(c, "isOwner")
  /\ LET mine == OwnerRows(Flag(c), c) IN
       IF Ambiguous(Flag(c)) \/ Cardinality(mine) > 1 THEN Hang(c)
       ELSE IF mine = {} THEN Goto(c, "enrol") ELSE Become(c, Idle)
  /\ UNCHANGED <<db, disk, counter, ledger, local, bounds>>

----------------------------------------------------------------------------
(* delete, code 800 *)

StartDelete(c) ==
  /\ c \in Deleters
  /\ \E r \in local[c] : Start(c, [Idle EXCEPT !.pc = "read", !.file = r.flag, !.upid = r.upid])

\* ReadFileAsset, an exception when the asset is missing; 366 for another's asset.
ReadFileAsset(c) ==
  /\ At(c, "read")
  /\ LET found == {a \in ledger : a.upid = job[c].upid} IN
       \/ /\ IF found = {} THEN Hang(c)
             ELSE IF \A a \in found : a.flag = Flag(c) /\ a.user = c THEN Goto(c, "disown")
             ELSE Become(c, Idle)
          /\ UNCHANGED faults
       \/ Fault("ledger") /\ Hang(c)
  /\ UNCHANGED <<db, disk, counter, ledger, local, started>>

DeleteOwner(c) ==
  /\ At(c, "disown")
  /\ IF Ambiguous(Flag(c)) THEN Hang(c) /\ UNCHANGED owners
     ELSE /\ owners' = owners \ OwnerRows(Flag(c), c)
          /\ Goto(c, "hasOwner")
  /\ UNCHANGED <<files, details, nextId, disk, counter, ledger, local, bounds>>

HasOwner(c) ==
  /\ At(c, "hasOwner")
  /\ IF Ambiguous(Flag(c)) THEN Hang(c)
     ELSE Goto(c, IF OwnersOf(Flag(c)) = {} THEN "fileId" ELSE "rsyncDelete")
  /\ UNCHANGED <<db, disk, counter, ledger, local, bounds>>

GetFileId(c) ==
  /\ At(c, "fileId")
  /\ IF Ambiguous(Flag(c)) THEN Hang(c)
     ELSE Become(c, [job[c] EXCEPT !.pc = "noUseTag", !.num = FileId(Flag(c))])
  /\ UNCHANGED <<db, disk, counter, ledger, local, bounds>>

GetNoUseTag(c) ==
  /\ At(c, "noUseTag")
  /\ Become(c, [job[c] EXCEPT !.pc = "unlink", !.num = 0, !.todo = NoUseTag(job[c].num)])
  /\ UNCHANGED <<db, disk, counter, ledger, local, bounds>>

\* getTagById and File.delete; the tag of a row never changes, so nothing can come
\* between the two that matters.  A row gone meanwhile is a null tag, an exception.
UnlinkBlock(c) ==
  /\ At(c, "unlink")
  /\ \E id \in job[c].todo :
       IF \E d \in details : d.id = id
         THEN /\ \E d \in details : d.id = id /\ block' = [block EXCEPT ![d.tag] = "absent"]
              /\ Become(c, [job[c] EXCEPT !.todo = @ \ {id}])
         ELSE Hang(c) /\ UNCHANGED block
  /\ UNCHANGED <<db, backup, counter, ledger, local, bounds>>

\* deleteFile; deleteFileDetail exists and is never called.
DeleteFile(c) ==
  /\ At(c, "unlink") /\ job[c].todo = {}
  /\ files' = files \ FileRows(Flag(c))
  /\ LET gone == {r.id : r \in FileRows(Flag(c))} IN
       IF CascadeDetails
         THEN /\ details' = {d \in details : d.fileid \notin gone}
              /\ owners' = {o \in owners : o.fileid \notin gone}
         ELSE UNCHANGED <<details, owners>>
  /\ Goto(c, "rsyncDelete")
  /\ UNCHANGED <<nextId, disk, counter, ledger, local, bounds>>

RsyncDelete(c) == Rsync(c, "rsyncDelete", "deleteAsset")

AssetsOfFile(c) == {a \in ledger : a.flag = Flag(c)}     \* mutant: t for upid
AssetNamed(c) == {a \in ledger : a.upid = job[c].upid}

DeleteAsset(c) ==
  /\ At(c, "deleteAsset")
  /\ LET found == AssetNamed(c) IN
       \/ /\ IF found = {} THEN Hang(c) ELSE Goto(c, "forget")
          /\ ledger' = ledger \ found
          /\ UNCHANGED faults
       \/ Fault("ledger") /\ Hang(c) /\ UNCHANGED ledger
  /\ UNCHANGED <<db, disk, counter, local, started>>

\* 801: the client deletes its record.
ForgetUpload(c) ==
  /\ At(c, "forget")
  /\ local' = [local EXCEPT ![c] = @ \ {Record(c)}]
  /\ Become(c, Idle)
  /\ UNCHANGED <<db, disk, counter, ledger, bounds>>

----------------------------------------------------------------------------
(* download, code 900: block after block until 909 *)

StartDownload(c) ==
  \E r \in local[c] : Start(c, [Idle EXCEPT !.pc = "lookup", !.file = r.flag])

\* getTagCk: no row means 909, the end of the file; two rows are an exception.
LookupBlock(c) ==
  /\ At(c, "lookup")
  /\ LET rows == RowsAt(Flag(c), job[c].idx) IN
       \/ rows = {} /\ Goto(c, "downloaded")
       \/ Cardinality(rows) > 1 /\ Hang(c)
       \/ /\ Cardinality(rows) = 1
          /\ \E d \in rows : Become(c, [job[c] EXCEPT !.pc = "fetchBlock", !.tag = d.tag])
  /\ UNCHANGED <<db, disk, counter, ledger, local, bounds>>

\* A missing file is not answered; a truncated one does not decrypt and ends the
\* client's loop with an exception.
FetchBlock(c) ==
  /\ At(c, "fetchBlock")
  /\ CASE block[job[c].tag] = "absent"    -> Hang(c)
       [] block[job[c].tag] = "truncated" -> Become(c, Idle)
       [] OTHER -> Become(c, [job[c] EXCEPT !.pc = "lookup", !.idx = @ + 1])
  /\ UNCHANGED <<db, disk, counter, ledger, local, bounds>>

FinishDownload(c) ==
  /\ At(c, "downloaded")
  /\ Become(c, Idle)
  /\ UNCHANGED <<db, disk, counter, ledger, local, bounds>>

----------------------------------------------------------------------------
(* Faults *)

\* SyncFuture.get gives up; the job ends with a NullPointerException.
GiveUp(c) ==
  /\ At(c, "hung")
  /\ Become(c, Idle)
  /\ UNCHANGED <<db, disk, counter, ledger, local, bounds>>

\* The client process dies while it, and not the server, has the next step.
Abort(c) ==
  /\ job[c].pc \in {"send", "prove", "record", "forget"} /\ Fault("abort")
  /\ Become(c, Idle)
  /\ UNCHANGED <<db, disk, counter, ledger, local, started>>

\* The server restarts: handlers are gone, MySQL, Redis, /usr/data and the chain stay.
Crash ==
  /\ Fault("crash")
  /\ job' = [c \in Clients |-> IF job[c].pc = "idle" THEN job[c] ELSE [Idle EXCEPT !.pc = "hung"]]
  /\ UNCHANGED <<db, disk, counter, ledger, local, started>>

----------------------------------------------------------------------------
Begin(c) == StartUpload(c) \/ StartDelete(c) \/ StartDownload(c)

Upload(c) ==
  \/ CountBlocks(c) \/ InsertFile(c)
  \/ TestTag(c) \/ OpenBlock(c) \/ WriteBlock(c) \/ StoreDetail(c)
  \/ GetCounter(c) \/ SetCounter(c)
  \/ AddOwner(c) \/ RsyncUpload(c) \/ FetchCounter(c) \/ ClearCounter(c)
  \/ CreateFileAsset(c) \/ RecordUpload(c)
  \/ VerifyProof(c) \/ IsOwner(c)

Delete(c) ==
  \/ ReadFileAsset(c) \/ DeleteOwner(c) \/ HasOwner(c) \/ GetFileId(c) \/ GetNoUseTag(c)
  \/ UnlinkBlock(c) \/ DeleteFile(c) \/ RsyncDelete(c) \/ DeleteAsset(c) \/ ForgetUpload(c)

Download(c) == LookupBlock(c) \/ FetchBlock(c) \/ FinishDownload(c)

Step(c) == Upload(c) \/ Delete(c) \/ Download(c) \/ GiveUp(c)

\* Every client is done and has used up its jobs: no deadlock, but the bound.
Finished ==
  /\ \A c \in Clients : At(c, "idle") /\ started[c] = MaxJobs
  /\ UNCHANGED vars

Next == Crash \/ Finished \/ \E c \in Clients : Begin(c) \/ Step(c) \/ Abort(c)

Spec == Init /\ [][Next]_vars

\* Clients that take turns: no two are at once storing the same file, from the question
\* whether it exists to its last block, and while one deletes nobody uploads or deletes.
\* Everything else, downloads and uploads of files that share blocks among it, goes on at
\* once.  The code does not see to it; the hazards of what it lets happen are other runs'.
Filing == {"count", "insert", "send", "open", "write", "detail", "link", "getCounter", "setCounter"}
Uploading == Filing \cup {"rsync", "fetch", "clear", "create", "record", "prove", "isOwner",
                          "enrol", "createProven"}
Removing == {"read", "disown", "hasOwner", "fileId", "noUseTag", "unlink"}

TakeTurns ==
  \A c, e \in Clients : c # e =>
    /\ job[c].pc \in Filing /\ job[e].pc \in Filing => Flag(c) # Flag(e)
    /\ job[c].pc \in Removing => job[e].pc \notin Uploading \cup Removing

TurnsSpec == Init /\ [][Next /\ TakeTurns']_vars

----------------------------------------------------------------------------
(* Properties *)

Pcs == {"idle", "hung", "count", "insert", "send", "open", "write", "detail", "link",
        "getCounter", "setCounter", "rsync", "fetch", "clear", "create", "record", "prove",
        "isOwner", "enrol", "createProven", "read", "disown", "hasOwner", "fileId",
        "noUseTag", "unlink", "rsyncDelete", "deleteAsset", "forget", "lookup", "fetchBlock",
        "downloaded"}
DeletePcs == {"read", "disown", "hasOwner", "fileId", "noUseTag", "unlink", "rsyncDelete",
              "deleteAsset", "forget"}
Ids == Nat \ {NULL}
Job == [pc : Pcs, file : Files, idx : Nat, num : Nat, todo : SUBSET Nat, upid : Nat, tag : Tags]

\* The types of the tables, the stores and the handlers' locals.
TypeOK ==
  /\ files \subseteq [id : Ids, flag : Files]
  /\ details \subseteq [id : Ids, fileid : Nat, index : Nat, tag : Tags] /\ IsFiniteSet(details)
  /\ owners \subseteq [id : Ids, fileid : Nat, user : Clients]
  /\ nextId \in [files : Ids, details : Ids, owners : Ids, upid : Ids]
  /\ block \in [Tags -> {"absent", "truncated", "whole"}]
  /\ backup \subseteq Tags
  /\ counter \in [Files -> Nat]
  /\ ledger \subseteq [upid : Ids, flag : Files, user : Clients]
  /\ local \in [Clients -> SUBSET [flag : Files, upid : Nat]]
  /\ job \in [Clients -> Job]
  /\ started \in [Clients -> Nat]
  /\ faults \in [FaultKinds -> Nat]

BeingWritten(T) == \E c \in Clients : At(c, "write") /\ job[c].tag = T
Readable(T) == block[T] = "whole" \/ BeingWritten(T)

\* Any number of clients upload the same blocks at once, give up halfway or run
\* into failures: a file_details row never points at a block file that is not
\* there (DepService.uploadData writes the file before it stores the row, and
\* skips the file only when it has seen a row).  Without deletes.
DetailsPresent == \A d \in details : block[d.tag] # "absent"

\* ... and until the server restarts the block is whole, or somebody has just
\* truncated it and is about to write the same bytes again.
DetailsReadable == faults["crash"] = 0 => \A d \in details : Readable(d.tag)

\* A row filed under a file is one of its blocks, at its place: what download
\* (getTagCk) and the proofs (getTag, getKesi) rely on, whoever's interrupted or
\* concurrent uploads the rows come from.
RowsInPlace ==
  \A r \in files, d \in details : d.fileid = r.id =>
    d.index < Len(Content[r.flag]) /\ d.tag = Content[r.flag][d.index + 1]

Complete(f) ==
  \A i \in 0 .. Len(Content[f]) - 1 : \E d \in RowsAt(f, i) :
    /\ RowsAt(f, i) = {d}
    /\ d.tag = Content[f][i + 1]
    /\ Readable(d.tag)

\* Who has been told that an upload succeeded, or that a file exists and its
\* ownership is proved (FileService.upload), can have every block of it back:
\* exactly one row for each, with a readable block.
OwnedComplete ==
  \A c \in Clients : \A r \in local[c] :
    Complete(r.flag) \/ (job[c].pc \in DeletePcs /\ Flag(c) = r.flag)

\* A download that the server ends with 909 has brought the whole file
\* (FileService.download takes 909 for the end of the file, wherever it comes).
DownloadWhole ==
  \A c \in Clients : At(c, "downloaded") => job[c].idx = Len(Content[Flag(c)])

AtRest == \A c \in Clients : At(c, "idle")

\* With nothing under way the five stores agree: the block files are those of the
\* rows, every row belongs to a file, no block count is left in Redis, and the
\* other SSP has the same blocks.
RestConsistent ==
  AtRest =>
    /\ {T \in Tags : block[T] # "absent"} = {d.tag : d \in details}
    /\ \A d \in details : \E r \in files : r.id = d.fileid
    /\ \A f \in Files : counter[f] = 0
    /\ backup = {T \in Tags : block[T] = "whole"}

\* With nothing under way the owners table, the file assets on the chain and the
\* clients' own records say the same of who owns what, once each: an owner can
\* always delete and audit, and nobody else can.
CustodyAgrees ==
  AtRest =>
    \A c \in Clients, f \in Files :
      LET mine == {r \in local[c] : r.flag = f} IN
        /\ {r.upid : r \in mine} = {a.upid : a \in {b \in ledger : b.flag = f /\ b.user = c}}
        /\ Cardinality(mine) = Cardinality({o \in OwnersOf(f) : o.user = c})
        /\ Cardinality(mine) <= 1

UpId(a) == a.upid
Chain == INSTANCE Ledger WITH assets <- ledger, AuditAssets <- {}, Id <- UpId,
                              FileAssets <- [upid : Ids, flag : Files, user : Clients],
                              Holds <- LAMBDA a : TRUE

\* The server uses the chain as its chaincode has it, whatever uploads, proofs and deletes
\* overlap, are repeated or stop halfway: each custody of a file is created under a key of its
\* own, and a delete takes one and leaves those that others have of the same file.
OnChain == Chain!Spec

\* Every request is answered: no statement of a handler fails.
Answered == \A c \in Clients : ~At(c, "hung")

\* The block files a delete removes belong to no file that somebody owns at that
\* moment (DepService.delete line 227: nobody owns this file any more, it can be
\* deleted; getNoUseTag is there to spare the blocks of other files).
UnlinkOnlyUnowned ==
  [][\A T \in Tags : block[T] # "absent" /\ block'[T] = "absent" =>
       \A o \in owners, d \in details : d.tag = T => d.fileid # o.fileid]_vars
=============================================================================
