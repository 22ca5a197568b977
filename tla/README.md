# fma, modelled and checked

fma is a mail server in one Go program (`src/main.go`) whose only state is an
S3 bucket. Any number of nodes serve the same bucket over SMTP, POP3, IMAP and
JMAP; nothing but conditional PUTs (`If-Match`, `If-None-Match`) coordinates
them. This directory holds TLA+ models of the parts whose correctness rests on
the order of requests, the model-checking runs over them, and machine-checked
proofs of what matters most. `PROJECT.json` relates every definition to the
lines it models and every property to the hazard it is aimed at.

## 1. The system

| Component | State it keeps | Operations | Hard behaviour | Correct when |
|---|---|---|---|---|
| **Scanner lease** (`lockBucket`, `bucketLease`, `serveDomainQueue`) | object `<domain>/.lock`; per node the lease record, `lost`, a keepAlive goroutine and its renewal | acquire, renew, watchdog, release, scan loop | takeover races, a renewal in flight at expiry or release, clocks, PUTs applied after the client gave up | one scanner; no successor is disturbed; a lost lease is let go |
| **Outbound task** (`preclaimTask`, `claimedTask`) | object `<domain>/.outbox/<id>.json`: recipients, claim, archived / notified / complete | claim, archive, send, record, notify, complete, delete | claims that expire half way, stale workers, crashes between effect and record, lost replies | one executor; no outcome undone; nobody lost; completed tasks vanish |
| **JMAP account store** (`jmapOwnerState`, `jmapBackend`, `flushJMAPOwners`) | per account the account file `state.json`, prepare objects, record objects; in memory data, head, ETag, `loaded`, `finalized` | refresh, reads, WriteBatch, persist, flush, upgrade | optimistic commit over several objects, ambiguous replies, reads during a flush, a writer that dies half way | batches are atomic, serial and never lost; reads show one transaction |
| **Queue scheduler** (`serveQueue`, `serveDomainQueue`, `scanTasks`) | the map of active domains, one loop per domain, the `slots` channel they share | discover, start and stop loops, claim up to capacity, yield, drain | capacity tested before it is taken; domains that come back; cancellation while a claim waits for a slot | nothing outlives it; every stopped loop ends; the limit of active tasks |
| **Account opening** (`openJMAPAccount`, `jmapBootstrapStore`) | account cache, one call in flight per owner; the staged image | open, import of legacy folders, publish, load | single flight, shared errors, two nodes bootstrapping, a PUT applied late | one image on every node, complete unless a repeated PUT misled its opener; every call returns |
| **Mailboxes** (`jmapAccount.uid`, `messages`, `jmapUpdateCatalog`, `importStoredMail`, `jmapRemoveMessage`) | in the account: an email's folders and its UID in each, a folder's key, validity and `fmaNext` | import, assign UIDs, file elsewhere, destroy, create and delete folders | a message and its UID are two transactions, as are a folder and its metadata | UIDs are unique and grow; no message is destroyed for another |
| **IMAP and POP3 sessions** (`imapStreamSession`, `popMailbox`) | a snapshot of one folder, IDLE's signal, DELE marks | select, poll, IDLE, STORE, EXPUNGE, QUIT | snapshots and message numbers against concurrent change | a command acts on the message the client named; IDLE loses no change that its process signals |
| **SMTP session** (`smtpSession`, `streamData`) | login, recipients, remote recipients, proxies | AUTH, MAIL, RCPT, DATA, reset | local copies, the sender's copy and the task are separate writes; a client retries | what is accepted is complete; nothing leaves before |
| **Directory** (`resolveIdentity`, `resolveDelivery`, `proxyStreamPrefix`) | `.kind`, `.alias`, `.proxy` objects | login, sender, recipient lookup, forwarding | loops inside and through other servers; changes at any time | routing means what the directory says; forwarding ends |
| **JMAP submission** (`jmapSubmitter`, `scanJMAPTasks`) | submission records of the JMAP library | submit, record, repeat | several recipients in one claim, partial and lost results | who is recorded as accepted was served |
| **Ingestion pool** (`streamTaskPool`, `storeMailStream`) | the channel of jobs, `closed` under an RWMutex, workers | submit, admit, receive, await, close | cancellation before and after admission; shutdown with work queued | every call is answered; no send on the closed channel; as many messages in memory as workers |
| **Block pipeline** (`mimeStreamBlocks`) | three rotating 1 MiB blocks with reference counts, a channel per consumer | read, dispatch, release, fail | consumers that fail while a block is handed out | a block is reused after its last consumer; a commit means a whole message |
| **Bounded pools** (`WaitPool`) | a count, a condition variable | Get with a context, Put | a signal taken by a waiter that gives up | the limit holds; nobody sleeps beside a free value |
| **Streaming upload** (`s3StreamUpload`, `jmapBlobWriter`, `putObjectReference`) | probe and compressor, slots and part buffers, multipart state, reserved names, index objects | write, upload parts, commit, publish the index, abort | buffers at their limit, lost and late replies, equal names, failed aborts | an index names whole content for good; nothing stays borrowed |
| **Guarded store** (`guardedStore`) | `closed`, an RWMutex that streams keep locked | every store call, close | close waits for the calls in progress | close ends; no call is made after it |
| **Object store** (`s3Bucket`) | S3 itself, external | Get, Put, Create, Swap, Delete, List | five-second deadlines, requests repeated by the SDK | (assumed) |
| Configuration, TLS, logging, DKIM, MIME parsing, key encoding | none across requests | - | sequential | pure functions |

Nodes interact only through objects. Inside a node, goroutines share the lease
(a mutex), the slots, the account cache (one mutex per account), the pools and
the guard.
The scanner lease decides who *looks for* tasks, the claim inside a task who
*executes* it; the account store knows neither and relies on its own
transactions. Mailboxes, sessions and submissions are transactions on accounts;
mail comes in through the ingestion pool, whose writers are streaming uploads,
and leaves as tasks. A server always keeps its mail in JMAP accounts
(`useJMAP`, main.go:327): the older paths of `appendMessage`, `deliver` and the
object catalog run in tests only, and what they left in a bucket is what an
account is bootstrapped from.

**Shutdown** (`run`). A signal cancels the context of `serveQueue` and of the
flush loop, `shutdown` closes listeners and servers, `wg.Wait` waits for the two
loops and for the accept loops, a last flush has ten seconds, and the deferred
calls then run in the order `shutdown` (again), `streamTasks.Close`,
`guard.close`. Protocol handlers may still be running: what they meet is the
closed ingestion pool (`StreamPool`) and the closing guard (`GuardedStore`, and
`StreamUpload` for the uploads under it).
`serveQueue` has by then left nothing behind (`QueueScheduler`,
`NothingLeftRunning`).

## 2. Modules

| Module | Models | Kind |
|---|---|---|
| `ScannerLease` | one domain's lease, every node's domain goroutine and keepAlive | detailed |
| `OutboundDelivery` | what the sender of one message may rely on | abstract |
| `OutboundTask`, `OutboundTask_proofs` | one task object and its workers; implements `OutboundDelivery` | detailed, proofs |
| `AccountStore` | a serial account with per-node views | abstract |
| `OwnerStore`, `OwnerStore_proofs` | one account's objects and the caches of its nodes; implements `AccountStore` | detailed, proofs |
| `QueueScheduler` | one node's scheduler, its domain loops and slots | detailed |
| `Scanner_proofs` | theorems about `ScannerLease` and `QueueScheduler`, the two halves of `serveDomainQueue` | proofs |
| `StreamPool` | the ingestion pool and the calls that use it | detailed |
| `BlockPipeline`, `BlockPipeline_proofs` | the blocks of one message and their consumers | detailed, proofs |
| `WaitPool` | a bounded pool with cancellable waits | detailed |
| `GuardedStore` | the guard in front of the bucket, and its closing | detailed |
| `StreamUpload`, `StreamUpload_proofs` | uploads of blobs and what they publish; composes `WaitPool` and `GuardedStore`; theorems about all three | detailed, composition, proofs |
| `AccountOpen`, `AccountOpen_proofs` | opening an account on several nodes, and its bootstrap | detailed, proofs |
| `Mailbox` | an account's folders, their UIDs and the sessions that show them | detailed |
| `Messages_proofs` | theorems about `StreamPool` and `Mailbox`, how a message comes in and how it is shown | proofs |
| `Reception`, `Reception_proofs` | directory, SMTP sessions and JMAP submission | detailed, proofs |
| `MC...` | instances of each for TLC | - |

`StreamUpload` EXTENDS the pool and the guard: each of its actions is a step of
either or leaves its variables alone, which is proved (`Composition`). The other
compositions are by contract, where a product of the modules would say no more:

| User | Relies on | Established by |
|---|---|---|
| `QueueScheduler`: two loops never hold one domain's valid lease | leases do not overlap | `ScannerLease`, `LeasesDisjoint` (proved) |
| `QueueScheduler`: a worker ends with its claim | `execute`'s context ends with the claim | the deadline of `execute` (main.go:2558), `Live` in `OutboundTask` |
| `StreamPool`: reception and ingestion end, the parser sees the end of the message only after `receive` succeeded | `PipelineEnds`, `CommitWhole` (proved) | `BlockPipeline` |
| `BlockPipeline`: one message has its own blocks | admission | `StreamPool`, `HelpersHeld` (proved) |
| `BlockPipeline`: writes end, a failed writer leaves nothing behind | `ShutdownEnds`, `NothingKept` (proved) | `StreamUpload` |
| `AccountOpen`: the account file, once there, changes by transactions only | serial accounts | `OwnerStore`, `ImplementsAccount` (proved) |
| `Mailbox`: one call is one commit, a read sees the last one | serial accounts | `OwnerStore`, `ImplementsAccount` (proved) |
| `Mailbox`: the folders it starts from have counters above their UIDs | a complete image, or an empty one, which has no UIDs | `AccountOpen`, `CompleteImage` (proved) |
| `Reception`: a local copy is one step and its UID a second | `Import` and `UidCall` | `Mailbox` |
| `Reception`: a task, once stored, is executed or reported | the sender's ledger | `OutboundTask`, `ImplementsDelivery` (proved) |
| `OwnerStore`, every module: a request ends | five-second contexts | (assumed of the S3 client) |

Conventions they share:

- **One action per S3 request.** Local code between two requests is folded into
  the request it follows or precedes. A test made before a request and relied on
  after it (`lease.valid`, `claim.save`'s expiry test, the ETag) is therefore
  stale in the model exactly when it may be stale in the program.
- **Contents stand for ETags.** An S3 ETag is a hash of the bytes, and every
  object written under a condition carries a nonce (owner id, claim, transaction
  id), so "the ETag is unchanged" is "the content is unchanged".
- **What a PUT can do.** It is applied and confirmed; it is applied and its
  reply is lost; it is refused; it never arrives; or it is applied *later*, after
  the client's five-second context ended, if its condition still holds then
  (`late`, `lateHeads`, `lateRecords`). The SDK's second attempt
  (main.go:515) turns "applied, reply lost" into a refusal.
- **Crashes.** At any step everything in memory is lost; objects remain.
- **Type invariants.** Every module but the two abstract ones states one, `TypeOK`
  (`PoolTypeOK`, `GuardTypeOK`, `QueueTypeOK`, `MailboxTypeOK` where two modules
  meet in a third). All of them are proved, and the runs spend their time on the
  other properties.
- **Mutants.** Each property has one operator `Mutant_...` next to the
  definition it perverts, a plausible slip of the code (a dropped condition, an
  off-by-one, a step left out) under which TLC finds the property violated.

### ScannerLease

| Code | Model |
|---|---|
| `<domain>/.lock` | `lock` (`NoRecord`: no object) |
| `lease` of `serveDomainQueue`, `bucketLease.record`, `.lost` | `held`, `lost` |
| the goroutine of `serveDomainQueue` | `pc`: `wait` (its select), `lockRead`/`lockSwap` (lockBucket), `scan` (scanTasks), `stopping` (`stop(); <-done`), `relRead`/`relSwap` (release), `stopped` |
| `keepAlive`, its `pending` | `keeper`, `renewal` with `rnow`, `rseen` |
| `time.Now()` on node n | `Time(n) = clock + Skew[n]` |

`ScanEnd` lets a scan end in any way, so the model covers every queue content
and every capacity. A release at the top of an iteration goes through `wait`,
from which the acquisition that follows it is at once possible.

### OutboundTask

A worker is one `scanTasks` iteration together with the goroutine it starts:
`Preclaim` reads the task and builds the claim, `SaveSwap` and `SaveRead` are the
two requests of `claimedTask.save`, and `saving` names the step of `process` that
goes on after the save (`After`). `RemoteAccept` is the remote server taking the
message, separate from `SendResult`, in which the worker learns of it or not.
`Archive` and `Notify` are writes to mailboxes, which do not look at the claim and
may take effect and still be reported as failed. `accepted`, `reported` and
`archived` record what the outside world has seen: the abstract ledger has all
three, and a message may leave it only when each recipient is settled, each
failure reported and the sender's copy filed. Every worker has a clock of its
own (`clock`), started at one of the settings `Clocks` and advancing with the
others. The lease is left out on
purpose: any worker may claim at any time, so what is shown does not depend on
there being one scanner.

### OwnerStore

| Code | Model |
|---|---|
| account file `jmapOwnerFile` (User, Transaction, Pending) | `head` (`user`, `tx`, `pending`; `pending[k]` is the record `Previous` names) |
| `<record>.fma.json` | `record[k]`; `tx = 0` is no object, `val = 0` is `deleted` |
| `<record>.prepare.<tx>` | `prepared[k][tx]` |
| `s.loaded`, `s.data`, `s.head`, `s.etag`, `s.finalized` | `loaded`, `data`, `hd`, `etag`, `final` |
| `refresh` | `Unchanged`, `LoadLegacy`, `GetHead`, `List`, `GetRecord`, `Rebuilt` |
| `flush` | `StartFlush`, `FlushSkip`, `FlushMove`, `FlushConflict`, `FlushLate`, `FlushEnd` |
| `WriteBatch`, `persist` | `StartBatch`, `Draw`, `Prepare`, `Publish...`, `Readback` |
| upgrade of an old `state.json` | `LoadLegacy`, then `persist`'s own steps with `Upgrading` |

Three requests are merged with a neighbour: the GET of a prepare object with the
step that uses it (these objects are created once under a fresh name and never
change), the GET of a record with the PUT that follows it in `flush` (the PUT is
conditional on that GET, and the GET's content must be the pending list's), and
the GET of the previous version with the creation of the prepare object. The last
one is the model's only ordering assumption: the record may change between these
two requests only by a move of the transaction just flushed, which has moved it
already, or in an account whose file has changed, where the publication fails.
`s.mu` makes each node a single process, which is what `pc` says. Record
locations (`recordPath`) and transient index keys are left out: a record has one
place, and indexes are derived from the data in memory. A batch adds, deletes or
keeps each key; a batch that sets a value it read before, under an assertion, is
an `add`, since the assertion holds only if the value is still there, and a batch
whose assertion fails is an `Abort`.

`hist` is a history variable: the state each published transaction produced. The
refinement maps `AccountStore`'s per-node view to the transaction and the data of
the node's cache; the upgrade, which splits one object into many, is `Upgrade`,
a commit that changes nothing.

### QueueScheduler

| Code | Model |
|---|---|
| `serveQueue`, its map `active`, its context | `main`, `active`, `live` |
| the l-th goroutine of `serveDomainQueue`, of domain `name[l]` | loop `l`: `at`, `ctx` |
| `lease`, `lease.valid` | `lease`, `valid` (ended at any time by `LeaseEnds`) |
| `slots` | `slots`, the length of the channel |
| `keys` still to be tried, `claimed`, the domain's `workers` | `left`, `claimed`, `workers` |
| `serveDomainQueue`'s loop | `top` (the ticker or the context ends a wait; validity), `lock` (lockBucket), then scanTasks: `list`, `test` (2576-2584), `claim` (preclaimTask), `slot` (the select on slots), `sweep` (scanJMAPTasks) |
| its deferred function | `defer` (release), `drain` (`workers.Wait`), `end` |

Loops are numbered in the order of their start, since a domain that vanishes from
the listing and comes back gets a second loop while the first may still drain.
A keyed listing is counted, because which key comes next matters to
`OutboundTask` and not to the slots. `Discover` takes any set of domains.

### StreamPool

A call of `storeMailStream` goes `rlock` (Submit's `RLock`), `submit` (its
select), `admit` (the select on `started`), `receive`, `await` (`<-done`), `end`;
a worker goes `check` (the test of the context), `ingest`, `hold` (the deferred
`<-received`), `send` (`job.done <- err`). `closer` is `Close`: `cancel`, the
write lock, `close(p.jobs)`, `wg.Wait`. A waiting writer admits no new reader, as
in Go's RWMutex. `Dead` is the context the worker derives; the call's own context
ends with the pool's by an AfterFunc (`PoolCancels`), a step of its own.

### BlockPipeline

| Code | Model |
|---|---|
| `free`, `b.refs`, the buffers | `free`, `refs`, `content` (the n-th read fills a buffer with n; 0 while it is being filled) |
| the channel of each writer, and `ready` | `queue[1..W]`, `queue[Parser]` |
| `receive` | `take`, `read`, `offer` (the `Add(1)`), `send` (the select), `drop` (the producer's release), `close` and `collect` (its deferred function), `done` |
| a writer goroutine; `mimeStreamBlocks.Read` and the parser | `hold`, `seen`, `failure`, `posted`; `parsed` |
| the contexts | `inner` (receive's), `ctx` (the call's and the parser's) |
| the end of `storeMailStream` | `Decide` |

`ReadData` returns data together with any error, as a Reader may. A parser that
fails in the middle of a block keeps it, as the code does: such a message fails,
its blocks are the garbage collector's.

### WaitPool

Each critical section of `p.mu` is a step. `waiting` is the condition variable's
list. A context that is cancelled shows its error at once (`live`) and starts its
AfterFunc later: `ending` are the contexts in between, `cast` the AfterFuncs that have
started and will broadcast. That order is that of Go 1.25 (go.mod:3, Dockerfile:2),
where `Err` is an atomic load of a value stored before the children are cancelled. So a
waiter that `Put` has signalled may see its context over, leave, and with its
`stop()` (main.go:7216-7225) forget an AfterFunc that had not started: the signal is
lost, and another waiter sleeps beside a free value. The model has that step, and
`lost` counts the values it leaves unused, each until it is borrowed or until the next
broadcast; `NoLostWakeup` says that no other order leaves any. A request's context is
shared by the goroutines that work for it, so `Cancel` ends those of any set of
borrowers. Values come from a `sync.Pool` and are exclusive by construction, so the
count is all the state.

### GuardedStore

`readers` is the RWMutex's count, `closer` is `close`. A handler makes one request
at a time: `rlock` (`g.mu.RLock` and the test of `closed`), `base` (the bucket's
call); `OpenStream` and `NewUpload` leave a handle that keeps the lock until
`Close`, `Commit` or `Abort`, each guarded by a `sync.Once`. `Nested` is a constant:
whether a handler may make requests while a handle of its own is open. The write
lock is granted when there is no reader, and its waiting blocks new readers.

### StreamUpload

| Code | Model |
|---|---|
| `jmapBlobWriter`: probe, gzip, `upload` | `up[u].probe`, `.gzip`; the steps `idle`, `begin`, `gzip`, `open` (Write, or Commit, may start the upload) |
| `w.slots`, `w.buffer` | the goroutine `<<u, k>>` of `WaitPool` borrows for slot k; `up[u].buf` is the slot being filled |
| `flush`, the goroutine of a part, `partErr`, `workers` | `Flush`, `UploadPart` and `PartDone`, `.job`, `.err`, `WorkersDone` |
| `CreateMultipartUpload`, `UploadPart`, `CompleteMultipartUpload`, `AbortMultipartUpload`, `PutObject` | `open`, `.sent`, `object`; requests without an answer are in `late` |
| `physicalComplete`, `putObjectReference` | `.whole`, `PublishIndex`, `index` |
| `guardedStore.NewUpload`, `guardedUpload` | `StartUpload`, `StartLocked`, `NewUpload`; `CloseHandle` in `CommitDone` and `AbortDone` |

Names are reserved by a conditional create (`NewUpload`), then overwritten without a
condition, so a name that two uploads got at once would mix their content: the
model has one name for two uploads. `UploadPart` succeeds only while S3 keeps the
multipart upload open. An upload that was begun gives back the lock last on every
path, after all its buffers: the pool and the guard meet here, which is what
`ShutdownEnds` is about. What `index` records is whether the index object *exists*,
with or without an answer to its PUT.

### Mailbox

| Code | Model |
|---|---|
| an email's `mailboxIds`, `fmaUid`s, keywords | `mail[e].in`, `.uid`, `.del` |
| a folder's key, validity, `fmaNext` | `folder[b]` (`bare` until its metadata is written), `next[b]` |
| `jmapUpdateCatalog` | `Create` (Mailbox/set), `CreateMetadata` (a second transaction), `DeleteMailbox` |
| `importStoredMail`, `jmapAccount.uid` | `Import`, `UidCall`: two transactions |
| `messages` | `ListRead`, then one `ListAssign` per email without a UID |
| `imapStreamSession.Select`, `Poll`, `Idle`, `Store`, `Expunge`; `popMailbox` login, DELE, RSET, QUIT | `Select`, `Poll` / `PollDone`, `Idle`, `Flag` / `FlagSet`, `Expunge`, `Mark`, `Quit` |
| `jmapRemoveMessage` | `RemoveFind` (the read of its folders), `RemoveSet` (Email/set) |
| `persist` returning nil or an error, `notifyIMAP` | `Heard` and `Own`, `Signal` |
| the ticker of `serveDomainQueue` | `Tick` |
| a request of a command that fails | `Fail` |

`Session` s runs in the process `At[s]`. A commit signals the sessions in IDLE of one
process, the one it is confirmed to, or of none: when its reply was lost, or when the
repeated PUT found its own object, `WriteBatch` returns an error and nothing is
signalled (main.go:3798-3805, 8034-8049). What other processes commit is heard by the
ticker alone (2713). `woken` are the sessions whose signal is closed; `owed`, a history
variable, those whose process has signalled since they last went round. That a node
reads an account file at most once in a second is left out: for that node, commits of
others come so much later.

A session is used by one client after the other. `top` is a history variable. A
folder that is deleted stays so: one made again under its name has another id and
another validity, and is another folder. JMAP clients file and destroy emails at
any time (`JmapSet`).

### AccountOpen

| Code | Model |
|---|---|
| the entry in `jmapAccounts`, its `done` channel | `ready[n]`; the opener among `Opening(n)` and those that wait on it |
| `openJMAPAccount` | `OpenFirst`, `OpenWait`, `OpenReady`, `Finish`, `Return`, `GiveUp` |
| `openJMAPAccountUncached` | `Get`, `Import`, `Stage`, `Publish` (`Create` of records and file), `Load` (`newJMAPAccount`), `CreateEmpty` (`refresh`) |
| legacy folders, their messages and their counter objects | `legacy`, fixed at the start |
| the staged image of `jmapBootstrapStore` | `call[c].built`, told apart by its builder |

The many requests of the bootstrap read old objects nobody writes any more, and are one
`Import` per folder that may fail. `Forget` lets a call be made again. A PUT may be
applied and its reply lost (`PutLost`), and the SDK's second attempt then finds the
object: for the account file that leads to the right image, but for a prepared record
`openJMAPAccountUncached` goes on (5217) to load an account file that nobody has
written, and `refresh` (3341-3387) publishes an empty one. `misled` remembers that an
opener went that way.

### Reception

`dir` is the directory, which the administrator may replace by any other of `Dirs`
between any two steps (`Rewire`). A lookup is one S3 read after the other: `Ask` begins
it, `ReadKind` reads the `.kind` of the name it has come to, `ReadTarget` the `.alias` or
`.proxy`; `look` holds the lookup of the SMTP session and that of the submission.
`Rewire` may fall between any two of the reads, and the lookup may then end at a name
that neither directory means, as the program's may; `still` remembers whether it was
disturbed. README.md:751 promises that routing is read on each RCPT and stored with
accepted tasks: `asked` are the ends the lookups found, and what follows is
measured by them. `Meant` is an independent definition of where a name leads (the ends
that every set closed under the directory's entries contains), `Trail` the names on the
way.

| Code | Model |
|---|---|
| `resolveIdentity`, for a login and for a sender | `Auth`, `MailFrom`, the reads, `AuthEnds`, `MailEnds` |
| `Mail` without a login | `Mail` |
| `Rcpt`, `resolveDelivery` | `RcptOutside`; `Rcpt`, the reads, `RcptEnds` |
| an error of any of them | `CommandFails` |
| `streamData` | `Data`, `Store` (the stream, and the hop header of `proxyStreamPrefix`), one `Deliver` per local copy, `LocalEnds`, `Archive` (the sender's copy), `Enqueue` |
| `Submit` | `Submit`, `SubmitAsk`, the reads, `SubmitOne`, `SubmitRejects`, `SubmitEnds` |

Each step of `streamData` may fail, before or after its effect; the connection or the
node may die (`Drop`). `out` holds the forwarded messages that are outside and may come
back; they carry the header's count and the true number of forwardings. One that no
proxy has forwarded is like a new one. That a worker of the submission records results,
repeats the recipients without a final one and may lose its claim is the JMAP library's
part (`SubmitLost`).

## 3. Runs

| Run | Instance | Properties | What it shows |
|---|---|---|---|
| `lease` | 2 nodes, equal clocks, term 2, 3 instants, one acquisition per node, 1 late PUT | `NoSplitScan`, `LeasesDisjoint`, `SuccessorUntouched`, `LostLeaseReleased` | one scanner; leases on disjoint intervals; an unexpired record is taken or shortened by nobody but its owner's release; a lost lease is let go |
| `task` | 2 workers, clocks equal or 2 apart, 2 recipients, claim of 1, 3 instants, 1 late PUT | `OneExecutor`, `OnlyPendingSent`, `ProgressKept`, `ImplementsDelivery`, `CompletedRemoved` | with equal clocks one executor; with clocks apart two workers really do execute at once, and even then no outcome is undone, nobody is lost and the sender's ledger holds; a completed task is deleted although its worker died |
| `owner` | 2 nodes, 2 owned records and the account file, an old image, 3 batches, 2 transactions, 1 late PUT | `Recoverable`, `CachedIsCommitted`, `RecordsForward`, `ImplementsAccount` | at every instant the objects yield the last published account; caches hold one transaction; stale flushes do nothing; the whole is a serial account |
| `queue` | 2 domains, 2 loops (one of each, or two of one), 2 slots, 2 keys | `NothingLeftRunning`, `Overshoot`, `LoopsEnd` | after serveQueue nothing runs and no lease is kept; the limit is exceeded by at most one claim per other loop; a loop that is stopped ends, also when its successor already runs |
| `pool` | 3 calls, 1 worker | `NoSendOnClosed`, `CallsReturn`, `CloseEnds` | shutdown never makes Submit panic; calls and Close return in every order of admission, cancellation and shutdown |
| `blocks` | 2 writers and the parser, 2 buffers, messages of up to 3 blocks | `BlocksIntact`, `RefsExact`, `CommitWhole`, `PipelineEnds` | no block is refilled under a consumer; no reference is lost; a commit means a whole message; whoever fails, everybody stops |
| `upload` | 2 uploads, 1 slot each, 1 other borrower, one pool buffer, one name, at most one full part and a last one | `IndexWhole`, `NothingKept`, `CountExact`, `NoLostWakeup`, `ShutdownEnds` | an index names whole content, whatever is lost, late or refused; nothing stays borrowed; the pool's and the guard's properties in use, the signal lost to a cancelled waiter included; shutdown ends beside a borrower that never returns its buffer |
| `mailbox` | 2 emails, 1 session, 1 process (confirmed commits are its own, others anybody's), 2 folders, no use of a folder before it is set up, filing elsewhere while the next UID is at most 1 (Inbox) or 2 (Work), of both together 3 | `RemovesMeant`, `UidsAscend`, `IdleFollows` | EXPUNGE and QUIT destroy what the client saw; no UID comes twice once a folder is set up; IDLE follows what its process signals |
| `mailbox_uid` (violation) | 2 emails, 1 session, folders usable at once | `UidsAscend` | a folder used between the two transactions of its creation gives a UID twice |
| `open` | 2 nodes, 3 calls (two on one node), 3 folders: a new standard one, a counter behind, one ahead; 1 late PUT | `NodesAgree`, `CompleteImage`, `OneOpening`, `OpenReturns` | every node hands out the one published image, which lacks nothing unless a repeated PUT misled its opener; no node opens twice at a time; every call returns |
| `reception` | 3 names, 1 outside address, 3 directories (a proxy to the outside, a chain of one name too many, a loop) that replace each other between reads, 2 lookups, 1 hop, at most 3 messages outside | `RouteRight`, `AcceptedWhole`, `TaskLast`, `ForwardingEnds`, `AcceptedServed` | an undisturbed lookup finds what the directory means; "250" is said of complete messages; nothing leaves before the local copies exist; a loop through other servers ends; deadlock is checked |
| `guard_nested` (violation) | 2 handlers, 2 handles each, nested | `CloseEnds` | close and a nested request wait for each other |

There is one passing run per component: its safety and liveness properties are
questions about the same instance, explored once, under the specification with
fairness where a liveness property needs it. `WaitPool` and `GuardedStore` are
checked where they are used, in `upload`, and proved.

**The two violations.** `mailbox_uid`: `jmapUpdateCatalog` makes a folder by
Mailbox/set (main.go:4984) and writes its key, its validity and `Next: 1` in a second
transaction (4990). In between the folder is in the catalog of every node and of
JMAP, under a key and validity made of its id; a message filed there gets UID 1, the
second transaction sets the counter back, and the next message gets UID 1 too.
README.md:140-141 promises that UID allocation and catalog updates do not
overwrite each other, and scripts/verify.py (159, 366) fails when a UID is reused. The
run `mailbox`, where nobody uses a folder before its creator is done with it
(`EarlyUse` FALSE), finds no other way; what it shows of `UidsAscend` and `RemovesMeant`
holds under that condition only, as a UID given twice would break both.
`guard_nested`: comparing a stored part with a wanted blob, `findPart` opens the
part (main.go:6029) while `materializePart` keeps its own stream open (5721). Both
hold the guard's read lock, which Go's RWMutex does not allow to nest: when
`guard.close` asks for the write lock in between, the inner `RLock` waits for it
and it for the outer stream. The handler is an HTTP request, which `web.Close`
does not wait for, so shutdown hangs. The comment at main.go:450-451 names exactly
such a handler as what the guard drains. `upload`, whose handlers do not nest, and
the theorems about the guard alone, which allow nesting, show that only the end of
close depends on it.

**Remarks on the code**, met while modelling and without a run of their own:

- README.md:118-119 says that a node holds at most 1024 active tasks. `scanTasks`
  tests `len(slots)` (main.go:2582), claims the task and only then takes a slot
  (2594); the slots are shared by the loops of all domains, so each loop may pass
  the test with one slot left and claim. `Overshoot` bounds the excess: one claim for
  every loop but one.
- `openJMAPAccountUncached` (5217) takes every "exists" error of the publication for
  another node's account file. The SDK's second attempt (515) also produces it for a
  *prepared* record (3583) whose first PUT was applied and its reply lost; the refresh
  that follows (3341-3387) then publishes an empty account, which hides all legacy mail.
  The comment at main.go:4998-4999 says that concurrent nodes agree on one complete
  image. They do agree (`NodesAgree`), but the image is not complete then: `CompleteImage`
  shows that this is the only way to publish less.
- A signal of `WaitPool` is lost when a signalled waiter's `stop()` overtakes its own
  AfterFunc (7216-7225). One value then lies unused beside waiters until
  somebody borrows it or a context ends; after `NoLostWakeup` this costs no more than one
  value for each such waiter.
- IDLE hears of commits of other processes, and of own ones whose reply was lost, by
  the ticker alone (2713, 3803); that of any domain's goroutine wakes all of the process.
- A lookup that the administrator's rewriting disturbs may end at a name that neither
  the old nor the new directory means. Nothing of the repository promises otherwise;
  `RouteRight` is about lookups that are not disturbed.
- `Submit` turns every error of `resolveDelivery`, a failed read included, into a
  final 550 (5453-5455), although README.md:582 says that temporary failures retry;
  `AcceptedServed` says nothing of that, nor of a second service. It forwards through a
  proxy without the hop header, hence the `+ 1` of `ForwardingEnds`, against
  README.md:748-749, and does not join recipients with one destination.
- A client that repeats a transaction which failed half way makes second local copies;
  a recipient may be served twice, also by a repeated submission. `AcceptedWhole` and
  `AcceptedServed` say "at least once".
- A batch that was applied may be reported as refused (3799), and a caller that repeats
  it applies it twice. `Recoverable` and `CachedIsCommitted` hold for either batch and do
  not exclude that; the assertions of the JMAP library do.
- `Poll` announces EXISTS only if the number of messages has changed (7514), so that one
  arrival and one removal together reach the snapshot and not the client.
- EXPUNGE removes what is marked in the *snapshot* (7555), also if the mark has been
  taken off since; `jmapRemoveMessage` reads an email's folders and then destroys it
  (5385-5397), also if it was filed elsewhere in between. `RemovesMeant` is about the
  identity of the message, not about its flags or other folders.

**Why the bounds are enough to be interesting.** Every hazard the properties aim at
needs two parties: an owner and a successor, a stale and a current worker, a writer and
a reader. Two nodes, each with one full life (plus any number of crashes), meet in every
order; a third adds no new kind of pair. The late PUT gives each of them one request
that outlives its sender. The lease's term is two units so that a renewal in the middle
really extends it; the clock reaches the expiry of the first lease, with a renewal of it
under way or in flight. Longer runs, a second acquisition and clocks that differ are
left to the proofs, which cover them all (the clocks of `lease` are equal; skew is
`LeasesNeverOverlap`'s). Tasks have two recipients so that one may be settled while the
other is pending, and enough instants for the first claim to expire and the second to
run; clocks two units apart make the second worker see the claim of the first as expired
from the start. For the account, two transactions suffice for each state of a flush to
meet a successor's commit; the upgrade of an old image is the first of them, and two
racing batches beside it are left to the proofs. In `queue` two loops and two slots are
the least for which a loop can wait for a slot another took, and the two loops may
belong to one domain that vanished and came back. `pool` has one worker and three calls:
one in work, one queued, one that waits to submit, so that all of Submit's select is
met; more of either is left to the proofs. Two buffers suffice for `blocks`: with three
blocks to send, one is reused while the other is held, and `Cap` 2 never blocks before
the buffers do, as in the code (capacity 3, three buffers); the first empty read is
already one too many (`EmptyLimit` 1, in the code 100), as counting them disturbs
nothing else. In `upload` three borrowers of one buffer give a holder and two waiters,
enough for a signal, an overtaking newcomer and a cancelled waiter at once; one full
part and a last piece make a multipart upload of two parts, and less is a single PUT.
More slots per upload add goroutines of the same kind; the pool's and the guard's
properties are proved for any number. Two emails suffice for `mailbox`: a message number
that shifts by one names the other; one session, in one process, as sessions share
nothing but the account and its commits, which JMAP clients and deliveries make too; a
folder whose UIDs reach 2 can show one twice. In `open` two calls share a node and one
races it from another; of the two old folders one has its counter behind and the other
ahead, and the standard one is new. In `reception` two lookups are the limit, so that a
chain may just fit, another has a name too many, and a loop exceeds it; one hop and a
message that comes back twice exceed the other. The mutants confirm it: each property is
violated under its own run's bounds when the code is changed. Deadlock is not checked
where the bounds (clock, attempts, transaction ids) or a finished shutdown make every
instance stop; in `reception` nothing does.

**Fairness.** Safety properties need none, and the proofs assume none.
`LostLeaseReleased` assumes weak fairness of each node's goroutine and of its keeper: Go
schedules runnable goroutines and every request ends within its five-second context,
successfully or not. Neither a crash nor a shutdown is forced, and success of a request
is never assumed. `CompletedRemoved` assumes that each worker goes on scanning and
executing (weak fairness), and strong fairness of the DELETE alone: scans repeat it for
ever, and it is assumed that S3 does not refuse it every time. README.md of the program
promises that retry ("a later scan retries deletion without sending again"). `LoopsEnd`
assumes that loops and workers run (claims expire, requests have timeouts) and that
serveQueue notices the end of its context; a vanished domain need not come back, a task
need not be due. In `pool`, calls, workers and Close run and the AfterFunc of a closed
pool is run; that a client goes away or a parser fails is never assumed. `PipelineEnds`
assumes the same of the goroutines of one message: reads end by the connection's
deadline and writes by the request's. `ShutdownEnds` assumes that woken waiters,
AfterFuncs, the goroutines of parts and the server's side of an upload run, that a
handler which met an error or whose context is over aborts, that a shutdown under way
ends the contexts of requests, and that the RWMutex serves its waiting writer. Nobody is
obliged to write more or to commit, and the other borrower need never return its buffer.
`IdleFollows` assumes that the server runs the commands it has begun and that IDLE goes
round when its signal is closed; nothing of clients, and not the ticker: one signal of
the process, whoever gave it, must do. `OpenReturns` assumes that a call which is under
way goes on, for its requests end by their timeouts; nobody is cancelled or crashes by
assumption. `guard_nested` assumes even that a handler which is again and again free to
close a handle closes one (strongly: between two requests of its own it is not always
free to), so that its counterexample is none of a handler that keeps its stream.

## 4. Proofs

Every safety invariant, action property and refinement that a passing run checks is
also a theorem, for every value of the constants and whatever the bounds: any
number of nodes, workers, recipients, keys, buffers, sessions, late PUTs and
transactions. Where TLC's instance is small because its state space is not, the proof
is what covers the code; the one hypothesis, `~EarlyUse`, has a violation run that shows
why it is needed.

Each proof has one shape. The property is not inductive as it stands; `IInv` (in a
module of several, `QueueInv`, `MailboxInv`, `PoolIInv`, `GuardIInv`) is the
conjunction of named parts that is; a lemma per action, or per part, shows that each
step keeps it; the property follows. What follows lists the theorems, the parts of
the invariant and why they are needed. The assumptions are the `ASSUME`s of the
modules, which TLC evaluates on every run: numbers are numbers, sets that the program
counts are finite, and the values for "none" are not among the others. What goes
beyond that is named with each theorem.

### The lease and the scheduler (`Scanner_proofs`)

| Theorem | States |
|---|---|
| `TypeCorrect` | `[]TypeOK` |
| `LeasesNeverOverlap` | `[]LeasesDisjoint` |
| `OneScanner` | `[]NoSplitScan` |
| `RunningLeaseUntouched` | `SuccessorUntouched` |
| `QueueTypes` | `[]QueueTypeOK`, with a slot for every worker |
| `NothingLeft` | `[]NothingLeftRunning` |
| `BoundedOvershoot` | `[]Overshoot` |

*ScannerLease*, for every term (a positive natural) and every skew of the clocks.
`LeasesDisjoint` is not inductive: nothing in it says that the node about to
take over has seen the *present* holder's expiry. The inductive invariant adds:

- `Control`: the goroutine and its keepAlive agree on whether there is a lease;
  in particular no renewal is running when release is.
- `OwnersUsed`: an owner id, once drawn, is never drawn again, so a record with
  my id is mine.
- `Clocks`: instants a node remembers are past on its own clock.
- `Pending`: what the calls in progress have read (an acquisition has read an
  expired record, a renewal its own lease).
- `LatePuts`: a PUT in flight either replaces an expired record by a later one or
  keeps owner and start; if its owner still holds the lease, it is that holding's
  last renewal.
- `LockCovers`: the stored record is either the holder's own copy, possibly
  extended by a renewal that seemed to fail, or starts no earlier than every
  lease held ends.

`LockCovers` is the heart: whoever swaps the stored record starts after it
expired, hence after every lease still held ends. `OneScanner` follows as two
valid leases on equal clocks would overlap now; `RunningLeaseUntouched` follows
from a lemma on what any step may do to the stored record (`LockChange`).

*QueueScheduler*. `Overshoot` bounds the claims that run by slots plus the loops that
may pass a test at once, and the step it fears is a loop that claims although its test
is old. The strengthening is `Room`: take the loops that have passed the slot test and
not yet started their worker (`Asking`); *their* workers alone leave a slot free. For
the last of them to pass its test saw one, and none has started a worker since. With
each such loop holding at most one claim beyond its workers, the bound is a count over
the union of the loops' workers. `QueueControl` is the rest: a loop that has ended has
no worker and no lease.

### The outbound task (`OutboundTask_proofs`)

| Theorem | States |
|---|---|
| `TypeCorrectness` | `[]TypeOK` |
| `ExecutorUnique` | `[]OneExecutor` |
| `SentPending` | `OnlyPendingSent` |
| `ProgressIsKept` | `ProgressKept` |
| `DeliveryImplemented` | `ImplementsDelivery`: the task implements `OutboundDelivery` |

- `Shape`: types, and what a worker holds at each step (`Control`); within a save,
  the new content is a `Successor` of the stored one: it settles at most one recipient
  and takes nothing back.
- `Recorded`: whatever says "delivered", "notified" or "archived", in the object, in a
  worker's memory or in a late PUT, has happened outside.
- `Kept`: the object never goes back behind what a busy worker knows, and is only
  removed when it was complete. `ProgressKept` speaks of one step; this is the part
  that links a worker's memory to the object across other workers' steps.
- `Claims`: who swaps does so over its own claim, or over one that was over when it
  looked; also if the PUT is applied late.
- `Owner`: with synchronised clocks, what an executing worker knows *is* the object.
  A second executor would have claimed over a claim that had not ended.

`ExecutorUnique` and `SentPending` have the synchronised clocks in the property, as
the run does; the other three hold for any clocks. The refinement is shown step by
step: a swap that is applied, at once or late, settles one recipient, removes the
message or changes nothing of the ledger; RemoteAccept, Archive and Notify are steps
of the ledger; everything else stutters.

### The account store (`OwnerStore_proofs`)

| Theorem | States |
|---|---|
| `TypeCorrectness` | `[]TypeOK` |
| `RecoveredWhole` | `[]Recoverable` |
| `CacheWhole` | `[]CachedIsCommitted` |
| `RecordsOnlyForward` | `RecordsForward` |
| `AccountImplemented` | `ImplementsAccount`: the objects and caches implement `AccountStore` |

- `Decided`: the account file decides. Each record it has pending is where it was
  before that transaction or where the transaction puts it, its prepare object is
  there; every other record has its committed value. This is `Recoverable` with the
  reason, and holds in the middle of every flush.
- `Known`: of every account file a node remembers, if it is not the present one its
  records have been moved. Without it, a node with an old view could still have
  something to say about records.
- `Offer`: a publication under way, also a late one, if its condition still holds, is
  built on the newest decision with all records settled. A PUT whose `If-Match` no
  longer matches need satisfy nothing.
- per node `Cached`, `Upgraded`, `Reading`, `Flushing`, `Publishing`: what its cache,
  the buffer of a refresh, the rest of a flush and the batch in hand have to do with
  the file they were read under;
- `LateHeadInv`, `LateRecordInv` for the PUTs in flight; `Distinct`: no transaction id
  is used twice.

The lemmas on `Onward` (committed history grows, records move forward) carry each part
over the steps of the other nodes, so that every action has one lemma about its own
node. In the refinement, a publication that is applied, answered or not, at once or
late, is `Commit` or `Upgrade`; a cache that is filled, by a refresh or on reading back
what was published, is `Adopt`; a crash is `Restart`; moves, prepare objects and reads
stutter.

### Opening an account (`AccountOpen_proofs`)

| Theorem | States |
|---|---|
| `TypeCorrectness` | `[]TypeOK` |
| `OneImage` | `[]NodesAgree` |
| `ImageComplete` | `[]CompleteImage` |
| `OpenedOnce` | `[]OneOpening` |

`StoreOK`: the file, and every late PUT of it, is whole, or empty after somebody was
misled. `CallOK`: an image under construction is right as far as it goes; a call that
loads finds a file, unless somebody was misled, and only then is one in `CreateEmpty`; a
call that waits, waits for an opening of its node. `NodeOK`: what a node has is the
file, and then it opens no more. The file is created, never replaced, so what was loaded
stays equal to it. That `nextUid` is beyond every UID imported needs the maximum of a
finite set; `MaxExists` gets it from a least finite set without one.

### The pools, the guard and the uploads (`StreamUpload_proofs`)

`Proc`, `Handler` and `Handle` are finite, the limit of a pool is positive, slots are
positive numbers and the borrowers are the slots of the uploads and the others.

| Theorem | States |
|---|---|
| `LimitHolds` | `PoolSpec => []CountExact` |
| `NobodySleepsBeside` | `PoolSpec => []NoLostWakeup` |
| `GuardTypeCorrect` | `GuardSpec => []GuardTypeOK` |
| `EveryLockReleased` | `GuardSpec => []LocksBalanced`, nested requests included |
| `NothingAfterClose` | `GuardSpec => []Drained` |
| `Composition` | `Spec => PoolSpec /\ GuardSpec`: uploads are behaviours of the pool and of the guard |
| `BuffersBounded`, `BuffersReachWaiters` | `[]CountExact`, `[]NoLostWakeup` of the uploads |
| `UploadsRelease`, `NoUploadAfterClose` | `[]LocksBalanced`, `[]Drained` of the uploads |
| `UploadTypes` | `[]TypeOK` |
| `PublishedWhole` | `[]IndexWhole` |
| `AllGivenBack` | `[]NothingKept` |

*WaitPool.* That somebody is awake when a value is free is not inductive: a
newcomer may take the value, or two values may be free with one waiter awake. The
strengthening `Enough` counts: unless a broadcast has started, the free values are at
most as many as the waiters that are awake and the signals `lost`. Awake is also who was
signalled and whose context is `ending`: it will broadcast, or leave and lose its
signal. `Told`: a context that is over while its call still waits will broadcast.
No theorem assumes anything of the order in which a context ends and its AfterFuncs
start.

*GuardedStore.* `LocksBalanced` is inductive with `Wanted` (a request does not
open a handle over an open one) and gives the rest: when close holds the write
lock there is no reader, so no request and no handle, and later requests are
refused.

*StreamUpload.* Every action of an upload is shown to be a step of the pool or to leave
it alone, and likewise of the guard, one case per action that touches either. The
theorems about them alone then hold of uploads that share both. What an upload
publishes and keeps has an invariant per upload:

- `Phase`: from NewUpload to the end of Commit or Abort it has its handle.
- `Buffers`: a part in work has a buffer of its own slot, other than the one being
  filled; after the goroutines are waited for there is none.
- `Parts`: as long as no part failed, each is with S3 or with a goroutine. So when
  the goroutines are done, all are with S3, and completing the upload makes the object
  whole. "No error recorded" alone says nothing of parts that were never sent.
- `Lent`: probe and compressor are given back before anything is published, and by
  Abort.
- `Owner`: the name is the upload's, from its conditional create until it is deleted;
  what an index names is whole, and no request of the upload can change it any more.
- `LateOf`: a request that S3 may still apply is about the name of its own upload.

`Owner` and `LateOf` together exclude the late PUT of an upload that gave up and was
replaced under its name.

### Reception of a message (`Messages_proofs`, `BlockPipeline_proofs`)

| Theorem | States |
|---|---|
| `PoolTypeCorrect` | `[]TypeOK` of `StreamPool`, with "a task is answered at most once" |
| `NeverSendsOnClosed` | `[]NoSendOnClosed` |
| `ReceptionsAdmitted` | `[]HelpersHeld` |
| `TypeCorrectness` | `[]TypeOK` of `BlockPipeline` |
| `CountsExact` | `[]RefsExact` |
| `BlocksStay` | `[]BlocksIntact` |
| `CommittedWhole` | `[]CommitWhole` |
| `ReleaseNeverBlocks` | `[]FreeFits`: `release` sends to `b.free` without a select, and the channel has room |

*StreamPool.* `OneHand`: a task is in the channel once, or with one worker, until
it is answered; `answers <= 1` is not inductive without it. `Locked`: who is at its
send holds the read lock, and the channel is closed with no reader left. `Stands`:
a started task stays with its worker until its reception is over, because the
deferred `<-received` holds it (`hold`).

*BlockPipeline*, for any number of writers and any finite set of buffers (block 0 is
the one being filled, hence `0 \notin Buffers`). `Placed`: a buffer is in the free
channel once, or with `receive`, or carries a block that is referred to; with
`RefsExact` this makes a refill under a reader impossible. `Flow`: for each consumer,
the blocks seen, the one in hand and those queued follow each other (`Line`) up to
the last one it was sent (`Sent`), with none left out unless it failed (`Exact`). A
dispatch that was cancelled has left some consumers without the last block, which is
why `Sent` has a case for it. `Control`: writers end when their channels are closed,
and the outcome is decided after all have. At a commit, every consumer's line is then
the whole message. Counting holders is by sets: one consumer more or less in `Holding`.

### Mailboxes (`Messages_proofs`)

| Theorem | States |
|---|---|
| `MailTypes` | `~EarlyUse => (MailboxSpec => []MailboxTypeOK)` |
| `RemovedAsShown` | `~EarlyUse => (MailboxSpec => []RemovesMeant)` |
| `NoUidTwice` | `~EarlyUse => (MailboxSpec => UidsAscend)` |

For any number of emails, folders and sessions at once. The hypothesis is what
`mailbox` and `mailbox_uid` differ in: a folder is used only after its creator has
written its metadata. Without it `UidsAscend` is false, as `mailbox_uid` shows.

`MailInv`: in a folder a UID names one email, and the next one is above all it ever
gave (`top`). That does not give `RemovesMeant`, since a session acts on a snapshot:
`Sound` says of everything a session has read, in its snapshot or half way through
reading, that a UID in it names one message *for ever*, so that whichever email has
it when EXPUNGE or QUIT comes is the one shown, or none has. It is stable because
UIDs ascend and because an email that leaves a folder does not come back under its
old UID. `Shape` ties the number under way to the message the removal found.
`ListingShows` and its neighbours are about the sorted listing (`Rank`: a UID's
place is the number of those up to it).

### Directory, sessions and submission (`Reception_proofs`)

| Theorem | States |
|---|---|
| `TypeCorrectness` | `[]TypeOK` |
| `RoutesMeant` | `[]RouteRight` |
| `AcceptedComplete` | `[]AcceptedWhole` |
| `TaskAfterCopies` | `[]TaskLast` |
| `ForwardingBounded` | `[]ForwardingEnds` |
| `SubmissionServes` | `[]AcceptedServed` |

`RoutesMeant` is about two definitions of the same thing: the code's lookup, read by
read, and the least set closed under the directory's entries, for any finite set of local
names, however many, any directory over them, cycles included, and any limit. It is
about recipients, logins and senders alike. Of a lookup that has not been disturbed by
`Rewire`, `Followed` says that what it has read is on the `Trail` of the name asked
for, and that each name it has read leads to the next. Once it ends, what it has read is
therefore a closed set, and the trail lies within it (`EndsHere`). So a lookup that
found an end found the only one (`FoundMeant`), and one that is refused at a loop, a
missing target or a name without an account has a trail without an end. One that is
refused at the limit has more names on its trail than may be looked up. `Steady` is what
holds of any lookup, also a disturbed one: it ends at a local name or, of a
recipient, at an outside address with a proxy to tell, which is what the transaction
needs of it. `AliasAssumption`, that an alias names a local name or nothing, is what
`aliasTarget` enforces (main.go:955-965).
`AcceptedComplete` is about the ends that the lookups found, disturbed or not.
Besides these the theorems need `Waiting` (a session takes no other command while it
looks a name up), `Transaction` (what each step of `streamData` has behind it),
`TaskWritten` (the task is the last of them), `Counted` (the header counts every
proxy but the one of a submission, for messages outside as well) and `ServedBefore`.

### What stays with TLC

Liveness and the fairness it assumes are outside the proof system's reach:
`LostLeaseReleased`, `CompletedRemoved`, `LoopsEnd`, `CallsReturn`, `CloseEnds`,
`PipelineEnds`, `ShutdownEnds`, `IdleFollows` and `OpenReturns` are model-checked
only, and so is deadlock. The two refinements are proved for the specifications
without fairness, since the abstract ones assume none. Library theorems that take an
operator as a parameter (induction over numbers, over finite sets) cannot be used
here; where an argument is by induction, a least counterexample in a well-founded
order is excluded instead (`Least`, `Upwards`, `MaxExists`, `Sortable`).

## 5. Not modelled, and the plan

Not modelled yet, in the order planned:

1. **`OwnerStore` liveness**: a published record is moved eventually if requests
   eventually succeed (the flush loop drops an account whose cache a failed write
   invalidated, main.go:5097).
2. **Scans of a full node**: a scan that always fills the node releases the lease,
   and the same keys, first in the listing, may be claimed again and again
   (main.go:2705).
3. **Repeated requests in the uploads**: the SDK's second attempt on a reply that was
   lost.
4. **Reading blobs**: `materializePart`, `findPart`, `openPart` and the readers of
   references work on immutable objects; of them only the nesting of locks is
   modelled (`guard_nested`). `CopyStream`.
5. **`scanJMAPTasks`**, which starts the submission worker of the JMAP library.
6. **Pure algorithms** over bounded inputs: Base64 compaction, key encoding and
   ordering.
7. **Renaming of folders and subscription**, which change no UID.

Theorems: of what is modelled, every invariant, action property and refinement that a
passing run checks has one. What could still be gained there is the hypothesis
`~EarlyUse` of the mailbox theorems, weakened to the one folder and the one instant
it is needed for; and theorems for each of the parts above, when they are modelled.

Left out for good: configuration, logging, TLS and command-line handling (no
state after start); the paths that a server with `useJMAP` (main.go:327) never takes,
except for what they left behind (`AccountOpen`); the JMAP HTTP handler, which
routes requests to the library; DKIM, MIME and address syntax (data transformation
without shared state); the JMAP, IMAP and SMTP libraries, which are not part of the
repository and enter only as the calls they make.
