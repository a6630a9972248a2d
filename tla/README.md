# csdaa in TLA+: deduplicated storage and shared audits

csdaa is a cloud store with client-side encryption. Two storage providers (SSPs) keep the
encrypted blocks of users' files, each block once; they audit each other on a user's request and
put challenge, proof and verdict on a Hyperledger Fabric chain. This directory holds TLA+ modules
of the parts with state, the configurations that model-check them, and proofs for TLAPS.

    tlc -config dedup_turns.cfg MCDedup         model-check a run
    tlapm DedupProofs.tla                       check the proofs of a module

## 1. The system

| component | code | state | operations |
|---|---|---|---|
| Storage service of an SSP | `csdaa-server` `DepService`, `DepController`, `TestMapper.xml`, `service/*Sh` | MySQL tables `files`, `file_details`, `owners`; block files under `/usr/data`; a Redis counter of blocks for each file | 200 does the file exist, 220 proof of ownership, 205 one block, 207 all blocks sent, 800 delete, 900 download one block |
| Audit service of an SSP | `csdaa-server` `AuditService`, `AuditController`, `HttpClient` | Redis: the list `SHA(t)-user` of the ids of an audit, the set `t+audit` of blocks checked lately | `publishChall`, `doProof`, `doVerify`, `isAuditFin` |
| Batch audit | the same service, `callable/*`, `SystemConfig` | the same lists; the queue of a pool of 16 threads | `doBatchPublishChallen`, `doBatchProof`, `doBatchVerify`, three callables |
| Client file service | `csdaa-client` `FileService` | `SysParam` with the key `sk` and flag `t` of the last upload, shared by all threads; a record `t, sk, name, upid` for each upload; the directory `download` | upload, download, delete as loops of requests |
| Client audit service | `csdaa-client` `AuditService` | directories `waitaudit` and `auditlog` | `doAudit`, `doBatchAudit`, the polling `isAuditFin`, `getLogs` |
| Client messaging | `NettyClientService`, `handler/*`, `SyncFuture` | one channel, opened once; a cache of futures keyed by a time in milliseconds | send, send and wait, take an answer |
| Chaincode | `chaincode-java` `AssetTransfer` | assets in the ledger's key-value store | create, read, delete of file, audit and parameter assets |
| Accounts | `UserService`, `TokenUtil`, `TokenInterceptor`, the client's `WebService` | table `user`; tokens, valid for 10 hours; each client's `login_token.txt` | register, log in, check a token |
| Chunking | `FileService.upload`, `SecretCodeUtil` | the window and where the block began | cut a file into blocks |
| Encryption | `EncryptUtil`, `SHAutil`, `ElementUtil` | none | derive keys, tags and signatures |

**How they interact.** A client has one Netty connection to one SSP and sends an HTTP request for
every step; a request that is *sent* is not waited for (block data, an audit), one that is *sent
and waited for* blocks a thread of the client until its answer or for 12000 seconds. A handler
talks to MySQL, Redis, the file system, `rsync` and the chain one call at a time, without a lock
and without a transaction: every SQL statement commits by itself. The publishing handler of an
audit calls the other SSP's `doProof` and waits; `doProof` calls the first SSP's `doVerify` and
waits. `rsync` copies the block directory to the other SSP at the end of an upload or delete; MySQL
is replicated between the SSPs and Redis is shared, which is how the verifier finds tags and the
prover finds the set of blocks that need no proof.

**What is hard.** (1) Uploads, deletes and audits of different clients interleave between any two
of those calls. (2) What is read is used after others have written: the rows that make a block
"already stored", the tags "nobody else uses", the set of blocks "checked lately" (read twice, by
two machines). (3) Five stores (MySQL, disk, Redis, the other disk, the chain) and the client's own
records change one after the other, and any of the calls may fail. (4) An interrupted upload leaves
rows that the next one takes for the file. (5) The end of an audit is a list of exactly three ids
that is polled for, fetched and deleted. (6) Handlers wait for handlers across two thread pools.
(7) All threads of a client's page share one `SysParam`, one connection and one cache whose keys are
times in milliseconds. (8) A user's token is read from a file that other threads rewrite, and checked
twice on its way.

What makes each component correct:
* *Storage*: a row points at a block file that exists and holds one of the file's blocks at its
  place; what a client was told is stored comes back whole; a delete removes only blocks nobody's
  file needs; at rest the stores agree; every request is answered.
* *Audit*: a verdict rests on a right proof of the challenged blocks; an honest SSP is not accused;
  sharing exempts a block only when it was proved, and for a limited time; each audit asked for ends
  in the user's log, as one challenge, proof and verdict of that audit.
* *Client*: what is recorded as uploaded is stored as recorded; a download is whole copies; an answer
  ends the call it belongs to; every request of the page ends.
* *Chain*: a key names one asset; challenges, proofs and verdicts are never changed or removed.
* *Accounts*: a name is one account's; nobody acts under a flag without having typed in its password.
* *Chunking*: the blocks are the file; where a file is cut depends on its content alone.
* *Batch audit*: challenges, proofs and verdicts stay with their files whatever the order of the
  callables; the nested calls do not starve each other.

## 2. The modules

| module | what it is |
|---|---|
| `Dedup` | upload, proof of ownership, download and delete: `DepService` with the loop of `FileService` |
| `Audit` | audits of one file at a time: `AuditService` of client and SSPs |
| `Batch` | audits of several files: the batch handlers, callables, pools and the client's `doBatchAudit` |
| `Ledger` | abstract: what the chain promises; `Audit` and `Dedup` implement it |
| `Calls` | abstract: what a thread may rely on when it sends a request and waits; `SyncCall` implements it |
| `SyncCall` | `NettyClientService`, `SyncFuture`, `HttpClient`, `HttpClientHandler` of the client |
| `Client` | uploads and downloads by several threads of one client, on top of `SyncCall` |
| `Chunks`, `ChunkVersions` | the loop that divides a file, and one call of it after another, over files that end alike |
| `Accounts` | registration, login, tokens |
| `MC...` | the small instances the configurations use |
| `DedupProofs`, `AuditProofs`, `BatchProofs`, `ChunksProofs`, `ClientProofs`, `AccountsProofs` | theorems; `Ledger` and `Calls` hold theirs themselves |

`Client` EXTENDS `SyncCall`: how threads share the connection and what they say over it are one state
machine. `Audit` and `Dedup` hold an INSTANCE of `Ledger` each, `SyncCall` one of `Calls`;
`ChunkVersions` EXTENDS `Chunks`. Otherwise the specifications meet in what they assume of each other: `Audit` and `Batch`
start when the files are stored, so `DetailsPresent` and `RowsInPlace` of `Dedup` are what makes their
`Index(f)` and `store` right; `CustodyAgrees` is what makes an audit of an own file pass the check of
its asset; `Dedup` starts from a file given as the tags of its blocks, which are the file by `Tiles`;
`Client` has each handler of the server in one step, as `Dedup` has in detail; all of them
take the user's flag as given, which is `ActsAsSelf`. A delete during an audit is not modelled.

### Dedup

One action is one access to shared state, and its name is the mapper's or the command's:
`CountBlocks` is `isFileExist`, `TestTag` is `isTExist`, `OpenBlock` and `WriteBlock` are the two
moments of a `FileOutputStream`, `StoreDetail` is `stroeFileDetail`, `GetCounter` and `SetCounter` are
Redis's `get` and `set`, and so on. `job[c]` is the request client `c` is in, the point its handler
has reached and the handler's locals. Requests of a connection are handled in order, so a client is one
sequential process; clients interleave freely. The SQL is modelled by its meaning: `FileId` is the
subquery `(select id from files where flag=..)`, NULL when nothing answers and an error when two
rows do; a comparison with NULL selects nothing. An exception that leaves a handler without an answer
is `Hang`, the end of the client's wait `GiveUp`.

`TurnsSpec` is `Spec` with an assumption about the users, `TakeTurns`, that the code does not enforce: no two
clients at once store the same file (from 200 to the last block's counter), and between the first read and
the last `unlink` of a delete nobody uploads or deletes. Everything else interleaves call by call:
downloads with anything, uploads of files that share blocks, the proof of ownership and the chain part of several
uploads of one file, the end of a delete (`rsync`, chain, record) with whatever comes next. The strong
properties of the storage service (`OwnedComplete`, `DownloadWhole`, `RestConsistent`, `CustodyAgrees`,
`Answered`, `UnlinkOnlyUnowned`) are stated of `TurnsSpec`; section 6 says what happens outside it. The run takes `Spec` under the action constraint `InTurns`, which
is `TakeTurns'`: the same behaviours, each step under its own name in TLC's coverage.

The schema is not in the repository. What the code's behaviour depends on is a constant:
`UniqueFlag` (is `files.flag` unique), `NullFileid` (may `fileid` be NULL), `CascadeDetails` (does
deleting a `files` row delete what belongs to it; a schema that refuses such a delete is not
covered). The runs fix one schema; the theorems hold for every one of these.

Abstracted: a tag stands for the block's ciphertext, from which it is computed; the file flag for the
file; the proof of ownership compares the tags of the challenged indices; `upid`s are fresh; `rsync` is
one step that copies whole blocks or fails; the rows a verification reads are read in one step.
The answer 606 (a proof that fails) cannot reach a client that has the file. After a restart of the
server, a client's requests are served again on a new connection.

### Audit

An audit is one chain of steps, because each handler waits for the one it calls: `PublishChall`,
`PushChallenge` (publisher), `ReadExempt`, `ReadBlocks`, `PublishProof` (prover), `ReadMarks`,
`AddMarks`, `SetExpire`, `PublishResult`, `PushProof`, `PushResult` (verifier). `job[k]` is the chain
that serves connection `k`; a client that restarts opens another connection and the old chain goes on.
`marked[f]` is the shared set and `ttl[f]` whether it has a time to live. A proof is the set of indices it is over and
whether their blocks were the right ones; the verifier accepts when its own set is the same. `AddMarks`
with nothing to add and a sum over nothing are exceptions, as in the code.

A wait file is a member of `wait[u]`, what is in it `text[u][f]`. `doAudit` looks for it (`Submit`), sends the request (`Request`),
creates the file (`CreateWait`) and fills it (`FillWait`): it opens a `FileWriter`, which creates the file once more when it is
gone (`OpenWait`), writes and flushes the date, then the name (`WriteDate`, `WriteName`), and closes it (`CloseWait`). `writer[u][f]` counts the
threads at each of these points; two clicks on one file overlap only as the fault `double`. The poll, `poll[u]`, goes between any two of
them: it asks for each file that is there (`AskFin`), and when the answer is that the audit is over, whose list is then gone,
it takes the first line for the date (`ReadDate`), logs the audit for each further one that is a name (`WriteLog`) and deletes
the file at the end of what it has found (`DeleteWait`). A file that a `FileWriter` has open is not deleted: the paths in `TempSys` are
those of Windows. `early[u]` remembers the files whose wait file a poll has read before it was written and closed.

Challenged indices are a set, though the code may draw an index twice; each index then counts once
in the sum of both sides alike. Ids are an audit's number and the kind of the asset; a collision of
two ids made in one millisecond is a failing ledger call, the fault `fail`.

### Batch

A handler of a batch forks a task for each file (`Fork`), the pool of its SSP runs them
(`StartTask`, `EndTask`), and the handler collects the futures (`Collect`), publishes (`Post`) and
calls the other SSP (`Enter`). A call needs a thread there, and the caller keeps its own:
`Held(s)` are the handlers that hold a thread of SSP `s`. The callables set the seed anew in each
round, so a file's challenge is one block; requests, handlers and tasks carry the number of their batch
(`no`), so that a future belongs to the handler that submitted it and to no later one (`Wanted`); a batch does not look at the shared set. A file whose asset
is somebody else's makes its callable return `null`: it is dropped, and the list in Redis is filed
under the files that remain, while the client polls for all it asked for. That wait file stays for
good. The wait file of a batch has a line for each of its files, each written and flushed by itself (`WriteLine`); `text[u][b]` is how
many there are, with the date, and the poll reads them as in `Audit`. The submits of a handler are one
step, and what it collects is one step: both only touch what is the handler's own, and the first
task in order that threw ends the handler whatever the later ones do. After the last push the nested
handlers return one after the other; they give back their threads together.

### Ledger

`assets` is the world state, an asset what `CreateFileAsset` or `CreateAuditAsset` puts, `Id(a)` its
key. Each transaction is atomic. `Verified` is the chaincode's own check of a verdict (`Holds` is the
pairing): a verdict of 1 whose pairing does not come out equal is stored as a 0. `Audit!Chain` is the
instance: `ledger` for `assets`, `Pairs` for `Holds`. That `Audit` implements it says that the ids it
makes never collide and that the verdict an SSP computes is the one that is stored. `InitLedger` is
a `CreateAuditAsset` like any other, and a batch verdict is a plain put, as its kind is not the one
that is checked. `Dedup!Chain` is the other instance: file assets, their upid the key.

### Calls, SyncCall and Client

In `Calls` a thread has at most one open call, known by the stamp of its request; a request under way
is answered to some call with its stamp, or to none. Requests get lost, answers come late, nothing is
ordered. `SyncCall` is the code: `Place` puts a future under the time of the moment, over whatever is
there; `WriteOut` writes to the channel; the event loop takes an answer to the future under its stamp
(`Acknowledge`) and then removes that key, whoever's it has become (`Invalidate`); a call ends with its
answer, or with `null` after 12000 seconds (`TimedOut`; giving up on something that is still to come,
`TooLate`, is a fault). `loop` is the moment between the two steps of the event loop. A stamp is a
time: `Fresh` is a new millisecond, the fault `tick` one that is in use. Stamps are reused once nothing
has them, which keeps the instance finite. The refinement maps `open` to who waits, `from` to
whose answer it has, `flight` to the requests not yet written, on the channel, or answered and not yet
taken.

`Client` runs `FileService` on that. `SetKey` and `SetFlag` write `SysParam`'s `sk` and `t`, `Encrypt`
reads `sk` and `PostBlock` reads `t` for each block, so that two uploads mix. A file stands for its
name, its key and its flag. `LoopException` is the `catch` around the loop over blocks, after which 207
is sent all the same. Blocks are sent without waiting, 207 follows them on the same connection. The
variables `mixed`, `cut` and `torn` only remember which names the properties except.

### Chunks

`now` is where the window is, `start` where the block began; `Read` is `RandomAccessFile.read` into the
old buffer, which leaves stale bytes in it past the end of the file. `Digest` is the set of windows
whose MD5 is 3 modulo 127, any set. `Divide` is what precedes the loop: `fileLength % partSize` divides
by 0 for an empty file, outside the `try` and after the server has inserted the file's row.
`ChunkVersions` divides one file after another, each with an end in common with the one before, as a user does who edits
the front of a file and uploads it again: `Again` is the next call of `upload`, whose variables are all new, and `before`
keeps the divisions that are over, which the code does not, for `Resync` to compare. `Earlier` bounds them.

### Accounts

One action per SQL statement, check of a token, or moment of the `FileWriter` (`OpenFile` empties the
file, `WriteToken` writes). `tokens[n]` is the flag in the n-th token; `file[c]` is `login_token.txt` of
client `c`, which all its threads read and write: with two writers it may end up garbled, and then no
token. `Request` stands for any upload, download, delete or audit: it reads the token, `PreHandle` is the
interceptor, `Handle` the second check in `TokenUtil.getUflag`, which gives the empty flag when the
token has expired in between. A flag is made with the client's own key, so that no two clients have the
same one.

## 3. The runs

| run | instance | distinct states | what it asks |
|---|---|---|---|
| `dedup_turns` | 2 clients that take turns, one with both of 2 files that share a block, 4 jobs each, deletes | 3 033 225 | where no race is let happen, is the program right: deduplication within and across files and owners, deletes that spare shared blocks, downloads, repeated uploads, every request answered, the chain used as it is meant to be, all stores in agreement at rest |
| `dedup_shared` | 2 clients, the same file, 2 jobs each, one fault of each kind, flag not unique | 91 589 | do rows stay backed by blocks and in their place under concurrent, failing and abandoned uploads |
| `audit_shared` | 2 users who audit the same file, once each, one block damaged | 4 961 682 | what becomes of verdicts, the shared set and the log when the set moves between prover and verifier |
| `audit_faults` | 1 user, 2 audits that may overlap, two of the five kinds of faults, once each | 2 885 461 | are exemptions and verdicts backed by proofs, and is the chain used as it is meant to be, whatever fails |
| `audit_apart` | 2 users, a file each | 186 912 | does every audit reach the log, and are the lists right at rest, while the page polls (liveness) |
| `batch` | 2 users at different SSPs, 3 files, one not the asker's, 2 pool threads, 3 server threads, one fault | 2 374 988 | alignment, verdicts, lists, starvation, log entries |
| `client` | 2 threads, 2 files, one of them stored before, 2 jobs, one fault of five kinds | 502 172 | are records and downloads right, calls matched and requests ended when threads share connection and keys |
| `chunks` | all pairs of bit strings of up to 9 behind heads of up to 3; window 2, sizes 3 to 7 | 197 668 | do the blocks tile the file, and do cuts depend on content alone |
| `accounts` | 2 clients, 3 threads, one name, 2 passwords, 4 jobs, a schema in which names need not be unique | 660 080 | names, flags and logins when registrations, logins, requests and expiries interleave |
| `dedup_retry`, `audit_stuck`, `audit_twice` | | | disagreements of section 6, each a counterexample |

**Bounds.** `MaxJobs`, `MaxAudits`, `MaxBatches` bound what users ask for, `MaxFaults` the faults
(of each kind in `Dedup` and `Audit`, in all in `Batch`), `MaxKinds` the kinds of faults in one behaviour of `Audit`, `Fragile` the files whose blocks `Batch` may damage.
Two files of two blocks with one in common have every relation between blocks the code tells apart:
own, shared and at a different index in each. Four jobs of each of the two clients of
`dedup_turns` are an upload, a proof of ownership, a download and a delete, in any order and with repetitions,
in which a file is owned by none, one or both of them. Two clients are enough to
put a foreign step between any two steps; none of the conditions in the code counts clients. Two
blocks in a file are the fewest where a proper part of a file can be challenged or exempt, two owners of a file the
fewest where the shared set moves under an audit, two audits of a user the fewest where a set is filled, expires and is
filled anew, or one audit runs into what another has left. Two kinds of faults at once are every pair of them: a restart, for instance, that lets two audits of a user overlap,
and a set that expires under both. Two pool threads let the callables of a batch end in any order. Three server threads are one
more than the users of `batch`, the fewest that suffice; two of them deadlock. One of the two
batches has a file of somebody else's, so its client polls for ever and a state without a step would be a real deadlock. `dedup_turns`
has no faults, since what it states (agreement at rest, completeness) is what the
code gives up when a call fails; how it gives it up is in the hazards. In `client` one fault of any kind
happens, to one of two jobs that overlap in every way; with four stamps a new millisecond is to be had
whenever a thread asks for one. Files of up to 12 bytes have up to four blocks and every position of the
window relative to the end. The three threads of `accounts` are two of one client, which share the token
file, and one of another; four jobs are two registrations in a race with a login and a request.
`chunks`, `client` and `accounts` set `CHECK_DEADLOCK FALSE`: a file that is divided is done, and users who
have had their jobs stop.

**Fairness.** In `audit_apart` the servers take every step they can of a request they have (`WF` of `Serve`): a handler
thread is never suspended for good. A client goes on with what it has begun (`WF` of `DoAudit` and `HandleFin`).
The page polls for audits every 30 seconds (`setInterval` in `index.html`) and a
poll goes over all wait files, so that each is asked for again and again while others are too: `SF` of
`AskFin` for each file. In `client` a thread of the page, the server and the event
loop go on (`WF` of each), and 12000 seconds pass; in `accounts` a handler goes on, and the page that has its
answer. No user has to start anything, no fault has to happen
and nothing has to expire. The other runs need none.

**Properties worth a comment.**
* `DetailsPresent`, `DetailsReadable`: `isTExist` skips writing a block when a row with its tag is seen,
  so the row must come after the file, across clients.
* `OwnedComplete`: relates the client's record of success to rows and block files, over uploads of several
  clients and later deletes.
* `RestConsistent`, `CustodyAgrees`: agreement of stores that no transaction ties together.
* `MarksProven`: the verifier adds to the shared set what *it* computed over, after a second read,
  and not what the prover proved.
* `NoFalseAccusation`: both sides have to leave out the same indices though they read the shared set
  at different times. Two owners who audit a file at once do get a verdict of 0 about an honest SSP, when the other's audit
  has marked a block in between that this one has proved (`ProvenElse`). The property says that there is no other way, and
  so none at all for a file of one owner.
* `CheckedAgain`: the same of the work that sharing saves. A block in the set is checked once more only if it came there after the
  prover had read the set. The repository promises more, `CheckedOnce`, which does not hold (section 6).
* `ListsSettled`, `AuditLoggedUnlessEarly`, `LoggedWhole`: what `doAudit` and `doBatchAudit` tell the user to expect, with one exception, a
  poll that has read the wait file before it was written and closed. It is not left out of the model, but named: `early` is exactly
  the files where it has happened. A late poll finds the list, reads all the lines and logs each file.
* `OnChain`: across audits that overlap, are repeated after a restart or stop half way, ids stay unique and
  an SSP's verdict is the chaincode's. In `Dedup`: two owners' assets of one file stay apart. An upid is made of the
  user and the millisecond, so it is fresh as long as a user's uploads are handled one after the other, as they are.
* `OnCalls`: a lost, late or shared answer ends one call at most, and one with its stamp, in every history.
* `RecordedWhole`: relates the client's record to the server's rows over a whole upload. It can be wrong only
  for uploads that overlapped (`FileService` line 46), had an exception in the loop (line 122: the blocks
  before it are there) or shared a millisecond.
* `WholeCopies`: a download appends, so the file holds copies; none is torn unless a download failed or
  two overlapped.
* `RequestsEnd`: nothing but the time-out saves a thread whose entry in the cache was overwritten.
* `Resync`: what deduplication rests on: after a change at the front of a file, the blocks behind the first
  common cut are all found again.
* `ContentDefined`: near the end of a file the window holds stale bytes; they must not depend on what
  precedes the block.
* `ActsAsSelf`: over registration races, garbled token files and tokens that expire between two checks.
* `CallsGoOn`: where no server thread is left for a call, one of the holders is not itself waiting for one.

## 4. The proofs

`DedupProofs`, from `DedupAssumption` alone (the types of the constants, non-empty files):

* `TypeCorrect`: `Spec => []TypeOK`.
* `RowsAlwaysInPlace`: `Spec => []RowsInPlace`, with deletes, all faults and every schema. Not
  inductive as it stands: a row is stored in three steps (the tag is chosen, the block written, the row
  inserted under the id the subquery finds *then*), and the file may have been deleted and made anew in
  between. `RowsInv` adds that ids of `files` rows are unique, never reused and above all ids that
  `file_details` mentions, and that a handler between those steps holds the tag of its own file at
  its own index (`RowInHand`).
* `RowsHaveBlocks` and `RowsHaveReadableBlocks`: `DetailsPresent` and `DetailsReadable` where
  `Deleters = {}`. `BlocksInv` adds that who has opened a block, or has seen a row for it (`Holding`), holds a
  tag whose file is there, and readable as long as the server has not restarted. With deletes
  nothing of the kind is claimed: a block may be removed that a row of an owned file points at (section 6).

And for clients that take turns, with `CascadeDetails` and no fault but a failing `rsync`, for any clients, files,
tags, deletes and jobs: `TurnsOwnedComplete`, `TurnsDownloadWhole`, `TurnsAnswered`, `TurnsCustodyAgrees`,
`TurnsUnlinkOnlyUnowned`, and without any fault `TurnsRestConsistent`, each `TurnsSpec => ...`. None of the six is
inductive, and no one without most of what the others need, so one invariant, `TurnsInv`, carries all; TLC checked
it on the instance of `dedup_turns` before it was proved. Its parts, each proved to be kept from the ones before:
* `TablesInv`, `FilingInv`: every flag has one `files` row, every other row belongs to one; a file's rows are the first
  blocks of the file, in order, as far as the one client that is storing it has come, and else all of them. This is
  what an interrupted upload breaks (`dedup_retry`).
* `CustodyInv`: how many `owners` rows, chain assets and records of a client a file has (`Custody`), at each point of
  an upload and of a delete: what is in one store and not yet, or no longer, in another is told by the point the handler
  has reached. A file whose last row is taken away is `Emptied` until it is deleted.
* `BlockFilesInv`: a row without a block file is one that a delete in progress has found unused (`Unused`), and
  `Unlinking` says that what it found is still so; a block file without a row is being written. It rests on nobody storing
  while a delete goes on: without it, another client links to a block after it was found unused.
* `CountsInv`, `BackupInv`: a Redis counter is not 0, and the replica behind, only on somebody's way.
* `ReadsInv`: the next block of a download is the one the client lacks, and after the last there is none.
* `Answered`: no subquery finds two rows, and nothing is looked up in vain (`NoHang`), so no handler leaves by an exception.

`OneClientTakesTurns` and `SeparateFilesTakeTurns`: one client alone, and clients whose files differ and who do not delete,
take turns whatever they do, so that for them the six hold of `Spec`.

`AuditProofs`, from `AuditAssumption`:

* `AuditTypeCorrect`: `Spec => []TypeOK`.
* `MarksAreProven` and `VerdictsAreSound`: a block is exempt only if a proof over it is on the chain; a verdict
  of 1 rests on a right proof and on proofs of all its challenged blocks. For any users, files, audits and
  every fault. `CoverInv` follows the challenge through its chain (`Covered`): after the prover has read the shared set,
  each challenged block is kept or already proved; after the proof is published, each is proved.
  What was left out because of the set is proved by `MarksProven` itself, so both are proved together, and nothing
  ever leaves the chain.

The others hold only where some faults are left out, and name them; each of these is one the code has no answer to: a set that expires
under an audit (section 6), a handler that ends halfway, a client that comes back, or a second click, that asks again for an audit
which may still run. Two ways in which an audit goes wrong without any fault are exceptions in the properties themselves (`ProvenElse`, `early`).
* `AuditMarksTimed`: without `fail` and `expiry`, with any number of audits of a file at once. `TimedInv` adds that who
  found the set filled, and will set no time to live, finds it filled still.
* `AuditNoFalseAccusation` and `AuditCheckedAgain`: for users who share files as they like and audit them at once, with failing handlers, damage and
  double clicks, without `restart` and `expiry`. Without these the requests of a user are handled one after the other (`OneLine`) and a set only grows. So a block that was
  not in the set at the prover's reading and is at the verifier's has been put there by an audit under way on another connection,
  another user's, whose proof is on the chain by then. `HonestInv` follows this through the chain of an audit: what the proof is
  over is what the set left of the challenge then, and what the verifier keeps differs from it by such blocks alone. For a file of
  one owner the exception is empty.
* `AuditLogTriples`: with failing handlers, damage and expiry, users who share files included, without `restart` and `double`. A list is only ever
  filled by one audit because a failed audit keeps its wait file and the file cannot be clicked on again: `TurnOK` says of each
  user and file that a request under way, a running handler or a list that is not empty means that it is taken, and not ended;
  `StageOK` what each step of the handler finds in the list; `PollOK` that an answer is about the file that was asked for. An early poll
  takes the wait file away, and the list with it, so what comes after begins anew.
  TLC checked the invariants under these faults before they were proved.
* `AuditListsSettled`: with damage and expiry, for users who share files, without `fail`, `restart` and `double`, and as long as no
  handler comes upon one of the three exceptions it has of its own (`Unhindered`: a challenge that is exempt as a whole, a missing
  block file, nothing left to mark). Then a file that is due, sent or waiting, is asked for, or its handler is still under way, or
  its list is whole, or has been fetched, or was fetched early and its wait file made again (`ReadEarly`): `SettledInv`, on top of
  `OneLine` and `LogInv`. With nothing under way only a whole list is left, or none. `EarlyOK` is where the steps of `doAudit` and of the
  poll meet: a poll that reads a file which is still being written is in `early` from its first read on. The condition is the hazard of `audit_stuck`, and nothing less.
* `AuditOnceSettles` discharges it: where each file is one user's, who audits it once, and no block is lost. A first audit finds the set
  empty (`FirstInv`), so it has its whole challenge to prove and to mark, whenever sets expire. This is the instance of `audit_apart`,
  and early polls are in it as in the run: nothing is assumed of when the page polls.

Also in `AuditProofs`, and in `Ledger`: `AuditImplementsLedger` is `Spec => OnChain`, for any users, files and faults.
The step that needs an argument is a put: no asset has its key yet. `FreshInv` says that an audit is in
the hands of one connection at a time (`Apart`), that all assets are of audits already started (`Numbered`)
and that a handler that has yet to publish its proof or verdict finds none of that kind (`Fresh`).
`Accepted` implies a right proof, which is the chaincode's check. Through the refinement `LedgerKeysUnique`
of the abstract chain becomes `AuditKeysUnique`, and in `DedupProofs`, after `DedupImplementsLedger`, `DedupKeysUnique`.
There it is a create or a delete of a file asset, under every fault and interleaving: keys that have been given out are
below the next one (`KeysBelow`), and all that a delete removes is the asset that has the key. `LedgerAuditsKept` assumes that file assets and audit
assets differ, since `DeleteAsset` removes whatever has the key.

`ChunksProofs`, for any bytes, sizes with `Win <= MinSize <= MaxSize`, and digest: `ChunksTypeCorrect`,
`ChunksTile`, `ChunksContentDefined`. `TileInv` adds that what is written so far reaches exactly to `start`
and that the window is between `MinSize` and `MaxSize` behind it; `WindowInv` that the buffer is empty until the
first read. The content of the stale bytes follows step by step: a slide past the end repeats the
last byte, a jump past the end keeps the window of the cut.

`ChunksResync`, for any files and any number of uploads, is about two runs. `CutInv` says of each that a block ends at the
first place where it may (`Ends`, a function of the file and of where the block begins, by `ContentDefined`), if there is
one; of an upload that is over that is all that is needed (`Over`), and `before` keeps it. The rest is about two such divisions:
`SameEnds`, that blocks which begin equally far from the end of files that are the same from there may end at the same places (both
behind a first cut, since the first block alone has zeros as stale bytes); `NextCut`, one step; and `LaterCuts`, all
of them, by the first block that begins where the other file has no cut. That there is a first one is `Least`, from the
well-foundedness of the numbers: the library states it for a relation, without an operator as a parameter, so the prover can use it.

`Calls`: `StampsSuffice`. If no request takes a stamp in use, every answer goes to the thread that asked.
`Matched` says that a stamp under way is of one request and one call, of the same thread. It is the
condition the code relies on, and the one that two requests in a millisecond break.

`ClientProofs`: `ClientImplementsCalls` is `Spec => OnCalls` for `Client`, whatever the number of threads, files, stamps and
faults. `CallInv` says what the two keys of a call have to do with each other: who is in the cache waits with that
stamp, unless the event loop is about to remove the stamp (`CacheOK`), so that an answer is never set on a call that is
over. `JobInv` says that a thread has a call at the places where it waits and at no other, so that no
call replaces another of the same thread. A request is counted from the moment its future is placed until its answer is
taken (`Flight`), and each step of the channel keeps the count or lowers it, by one for the call that is
answered. With `StampsSuffice`, `ClientOwnAnswer` follows for the client itself.

`ClientRecordedWhole` and `ClientWholeCopies`, for any threads, files and stamps and every fault, need four more
layers. `MixInv`: unless a name is in `mixed`, its upload is the only one, so `sk` and `t` are its own from the moment
it has set them. `MatchInv`: the request and the answer under the stamp of a call are of that call, unless its name
is mixed. `WholeInv`: how many blocks of a file have been sent (`Posted`) and how far they are on their way, as rows
of the server followed by 205 requests on the channel, in order (`Reach`), so that when 207 behind them is answered all are
rows. `CopyInv`: what has been appended to a download is block after block of whole copies, and the last copy reaches exactly as
far as the one thread that fetches has come.

`AccountsProofs`: `AlwaysActsAsSelf`, for any clients, threads, names and either schema. `ActsInv` follows a flag
from its row through the token to the file and the next request: each token at a client is of an account
whose name and password were typed in there (`InHand`, `OwnToken`), and rows, tokens and what was typed only
grow (`Grown`). `NamesMetOnce`: a registration between its two statements has its name to itself, or has met another
(`FreeInv`).

`BatchProofs`: `CallsAlwaysGoOn`, from `Cardinality(Users) < HttpThreads`. A chain that waits for a call has one thread at
an SSP at most (`OneThreadEach`), so threads that are all held by waiting chains are no more than the users. It is why
the run has three threads for two users, and a size for the web server's pool.

`BatchTypeCorrect`, `BatchChallengeAligned` and `BatchVerdictExact`, for any users, batches, pools and faults, rest on `BatchInv`.
Callables end in any order there, as many at a time as a pool has threads.
A handler can be given up while its tasks still wait or run (the first `get` that throws ends it), so the user's next
batch meets tasks of the last one: `NumbersOK` says that numbers tell them apart, `TasksOK` and `FutureOK` that a task's
outcome fits the position it was submitted for, whether that is a block, a proof or a pairing. `OutsOK` says that what a handler
collects is the outcomes of the files that are the user's (`Kept`) in the order of their positions; it needs
`InOrderLists`, that `InOrder(S)` lists a finite set of numbers increasingly, each once. `LedgerOK` carries the three
statements on to the assets, and `QueueOK` and `HeldOK` bound the threads.

`BatchListsWhole` assumes `Apart`: no two batches of a user are for the same files of its own. A key in Redis is made of
the files that remain, so a first batch that fails half-way and a second one that comes down to the same
files share a list, in which the ids of the two are then mixed (all batches of foreign files only share that of the
empty name). The instance of `batch` has such batches apart. `ListInv` follows a batch from
the client's directories through its request to its handlers: while it is under way its list is as long as the
handlers have come (`CountOK`), when its wait file is gone the list is empty (`RequestsOK`), and the client has at most one
question about a list open (`PollOK`), so a list is cleared only when it is complete.

`BatchLoggedWhole`, for any users, batches and faults, is about a wait file alone, and has an invariant of its own, `FilesInv`, over the client's
part of `BatchInv` (`ClientOK`). A batch that is asked for has no wait file yet (`SentOK`); who polls has one, and the answer is to the
question that was asked (`AskedOK`); and `LinesOK`: a wait file that no thread writes and no poll has read too early has a line for each file, and
the poll has logged as many files as it has read lines.

The pattern is the same throughout: lemmas on what a step does to one job (`QuietUpload`,
`ElsewhereKeeps`, `ThreadStep`, ...), one case for each action that writes what the invariant reads, and a
last temporal step.

**Only model-checked:** the liveness properties (`AuditLoggedUnlessEarly`, `RequestsEnd`,
`LoginWorks`, `Divided`): liveness is out of the provers' reach. Every invariant and action property, and the three refinements,
are theorems as well, under the assumptions named above.

## 5. What is not modelled

* The cryptography: pairings, hashes and encryption hold or fail as they should. The tag hash that leaves out
  the index (the line marked `bug` in `doVerify`) changes nothing an honest SSP does.
* The verdict check in the chaincode: an SSP files the verdict it has computed. A batch verdict is filed
  as `batch_verify`, while the chaincode checks `batch_result` only.
* Replication lag of MySQL, partial `rsync`, partial writes within a block.
* What a failure to write its own records does to a client; two requests of one client handled by the server
  at once (it has one connection, and requests on it are handled in order).
* A delete while another thread of the same client uploads or downloads: `Client` has no deletes, `Dedup`
  one thread per client.
* Registration by clients with the same key file, which would give them the same flags.
* `islogin`, `isLogin`, `getAllFiles`, `query`, `getLogs`, which only read; `SetSystemParamter`, called once when the
  system is set up; web pages and configuration.

## 6. Disagreements between code and text

Three are runs that end in a counterexample:

* **`dedup_retry`** (`OwnedComplete`): an upload interrupted after its first block and repeated is answered with a
  proof of ownership over the blocks there are; the client passes it and is told that the file exists and is
  its own. The rest is never sent.
* **`audit_stuck`** (`AuditLoggedUnlessEarly`): a second audit within two hours whose challenged blocks are all in the shared
  set makes the proof's sum null: no proof, no verdict, no log entry, and the file counts as being audited for good
  ("请稍后在记录中查看", look at the records later, `AuditService.java:70` of the client). No poll is early in it.
* **`audit_twice`** (`CheckedOnce`): two owners who audit a file at once both read the shared set before either adds to it, and its
  blocks are computed and checked twice ("保证短期内一个文件块仅被计算检查一次", line 7 of the repository's README). What does hold is `CheckedAgain`.

Three more show when the property of a passing run is checked under other constants, or without its exception:

* `UnlinkOnlyUnowned` with the instance of `dedup_turns` under `Spec`: between the moment a
  delete computes the tags that no other file has and the moment it removes their block files, another client
  can find a block stored, link to it and become the owner of its file; the block is then removed
  ("没有人再拥有这份文件，可以删除", `DepService.java:227`).
* `AuditLoggedUnlessEarly` of `audit_apart` and `LoggedWhole` of `batch` without `early`: the client makes the wait file and writes into it
  afterwards (`AuditService.java` of the client, lines 51 to 57 and 105 to 113). Should the poll of the page meet it in between, it finds no
  line, or a part of them, logs no audit or a part of them, and deletes the file, or leaves it waiting for a list that has been
  cleared. This needs a whole audit to pass between two statements, or a wait file of before, so it is rare.
* `MarksTimed` with the instance of `audit_faults` and `Faults = {"expiry"}`: the set expires between the read that finds it
  filled and the addition to it; the new set never gets a time to live and its blocks are exempt for good.

And some the models have as the code has them:

* `SyncFuture.java:9` says that requests and answers are one to one. Two requests in one millisecond share a
  key: the first future is overwritten and its thread waits for its time-out, or gets the other's answer.
  `StampsSuffice` has the condition the comment needs.
* `NettyClientService.java:23` says an entry expires after 8 seconds; it is 12000.
* After an exception in the loop over blocks (`FileService.java:122`) the page is told "文件上传成功" (uploaded) all the same.
* `HttpObjectAggregator(131072)` on the client is less than a block of `MAX_SIZE` in base64 (about 137 000 bytes): the
  download of a file with such a block fails, and the connection is lost for good (`Close`).

## 7. Plan

Done, in this order: `Dedup` and `Audit`, each with its proofs, `Batch`; `Ledger` with the refinements by `Audit` and `Dedup`, `Chunks`,
`Calls`, `SyncCall` and `Client`, `Accounts`, with theirs.

Done since: `ClientProofs` and `BatchProofs`; `TurnsSpec` and the proofs about it; `RecordedWhole` and `WholeCopies`.
Then the invariants of `Dedup`, `Audit` and `Batch`, and `Resync`, with `ChunkVersions` in place of a second instance
of `Chunks`. Last, the steps in which `doAudit` and `doBatchAudit` write a wait file, with the poll between them, audits of
one file by two owners at once, and the theorems about both.

Next: deletes in `Client`.
