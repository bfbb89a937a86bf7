# supex in TLA+

A verification development for the repository `vgfree/supex`: TLA+ modules that
model the message queue library **libmixmq**, the **exchange of openChat**, the
master/slave **replication of TSDB** and **damR**, the dam between producers and back
ends; TLC configurations that check them on small instances; and TLAPS proofs of what
holds for every instance. `PROJECT.json` lists components, runs, mutants, findings, hazards and
theorems and maps every definition to the lines it models.

## 1. Inventory of the system

supex is a collection of C libraries (`src/lib`), network programs built on them
(`src/programs`) and Lua request scripts (`src/open`). Most of the tree is vendored.
The repository's own logic with state and concurrency:

| Component | State | Operations | What is hard | What makes it correct |
|---|---|---|---|---|
| **libmixmq, message path** `lib/libmixmq/src/xmq.c` | per queue: capacity, waiters, lock and condition variable; per consumer: fetch and mark position; all of it in a key-value store too | `queue_push_tail`, `queue_fetch_nth/next`, `queue_mark_nth/next` | capacity read and written without a lock; store and memory updated one after the other; a crash between; timed waits | the log is never overwritten; positions stay inside it; no message twice, none skipped; a stored message wakes its waiter; a timed call returns |
| **libmixmq, tree** same file | lists of active and dead queues, producers and consumers under `node_tree_lock`, and comma-separated lists in the store | `xmq_context_init/term`, `xmq_queue_open/close`, `xmq_register_as_*`, `xmq_unregister_*` | lookup and change are two critical sections; early returns; failing puts half-way; free while looked up | the lock excludes and is released; identities unique; memory equals store; nothing freed is used |
| **libmixmq, codec** `xmq_csv.c` | none | split, append | separators inside names | round trip |
| **openChat exchange** `programs/IMX/openChat/exchange` | slots per descriptor, four maps in a key-value service, gateway descriptors | connection callbacks (one thread), message dispatch (another) | no lock between the threads; descriptors are reused; every map update is a command of its own | offline clients leave no key; maps mirror each other; messages reach and name the right client |
| **openChat gateways** `programs/IMX/openChat/gateway` | fixed arrays of sockets under a read-write lock | add, remove, pick | limit of the array, removal by copying | set semantics, bounded |
| **IMX app servers and client** `programs/IMX/{appSrv,appCli,usrApi}` | – | use the exchange | – | – |
| **libxmq** `lib/libxmq` | as libmixmq, earlier | as libmixmq | as libmixmq | as libmixmq |
| **TSDB replication** `programs/TSDB/src/{binlog,slave,tsdb_ldb}.c` | LevelDB with the data and one numbered binlog record per written key, the two numbers of the walk, a write batch, a connection | SET, MSET, SADD, DEL; the slave thread that reads a record, sends SYNCSET or SYNCDEL, waits and deletes it; start of the process | data, record and number are made visible one after the other; requests are sent again; numbers are read back after a crash; no lock | a key that differs has a pending record; its replay ends with the master's value; every value arrives |
| **libmfptp** `lib/libmfptp` | parser state | incremental parse, pack | frames split anywhere | pack then parse is the identity |
| **mcache** `lib/mcache` | hash, expiry tree, LRU queue | get, set, delete, expire | three structures in step | every entry in all three |
| **damR** `programs/damR/src`, `programs/zmq_wrap.c` | a bounded queue in a file, a connection pool, coroutines of a sender thread, a frame state | receive and push; request of a back end; pull, write, give back; signals, end and restart | two threads on both ends of a bounded queue; messages given back; cleanups on every path; a thread that ends and takes the other with it | a message is in one place; order but for what was given back; the pool names who is served; the queue drains; a stopped frame ends |
| **greatWall, app_queue** `programs/` | request queues | push, pull | workers and limits | nothing lost in the queue |
| libnetmod, libtopo, libtopoi, libucmq, libel, mapdata; socket-server, liblrucache (forks); libmemhook, pvtrace; BRM, PMR, MMR, RTAP, roadRank2 and other request handlers; Lua layer; vendored code | – | – | I/O, data, or stateless handlers | – |

Interactions. A program calls libmixmq from several threads; libmixmq calls back into
the store given to `xmq_context_init` (`put_KVs_cb`, `get_KVs_cb`). The exchange is
called by libcomm (a submodule that is not in the repository): callbacks on one
thread, received messages taken by a worker thread; it sends to clients and to the
stream, manage and status gateways, whose applications send back `uidmap`, `gidmap`,
`cid`, `uid`, `gid` and `closed` messages. The maps live behind libkv, one command at
a time. TSDB's slave thread shares the store and two numbers with the worker that
executes write commands, and talks over a socket to the write port of another TSDB.
damR's threads share the queue and `frame->stat`; producers and back ends reach them
through ZeroMQ.

## 2. Modules and how they correspond to the code

| Module | Models | Step |
|---|---|---|
| `XmqQueue` | the message path | what a thread does between two points where another can interfere: an unlocked access to `msg_capacity`, a store call, or a section of `wait_lock` |
| `XmqDeadline` | the loop around `pthread_cond_timedwait` and the arithmetic of its deadline, against a ticking clock | an iteration of the loop, or a tick |
| `XmqLog` | what `xmq.h` promises: an append-only log with durable positions | a call |
| `XmqRefinement` | `XmqLog` instantiated with the contents of the store | |
| `XmqRegistry` | the tree of one queue and its users | a lookup (locked by itself), entering a section, the section, or a single store call inside a section where a crash matters |
| `Exchange` | the exchange: callbacks ("comm") and worker ("work") | an access to a slot, a libkv command, or a send |
| `TsdbSync` | binlog, write commands, slave thread and the slave host | what a thread does up to its next access of the store, the socket, or memory another thread uses |
| `Replica` | what replication promises: a copy that differs only on keys known to be out of date | |
| `Dam` | receiver thread, sender thread with its coroutines, queue, pool, signals | what a thread does between two switches of a coroutine or two accesses of the queue |
| `XmqQueue_proofs`, `XmqDeadline_proofs`, `XmqRegistry_proofs`, `Exchange_proofs`, `TsdbSync_proofs`, `Dam_proofs` | theorems | |
| `MCXmqQueue`, `MCXmqDeadline`, `MCXmqRegistry`, `MCExchange`, `MCTsdbSync`, `MCDam` | constant values and symmetry for TLC | |

**XmqQueue.** `kvMsg`, `kvCap`, `kvFetch`, `kvMark` are the keys in the store; message
keys are the bare index, as in the code, so queues of one context share them. `open`,
`cap`, `waiters` are fields of `xmq_queue_t`, `lastFetch` and `lastMark` of
`xmq_consumer_t`. `ppc` and `cpc` are the program counters of one producer and one
consumer thread each, `ptmp`, `pidx`, `cidx`, `cmsg` their locals. `queue_push_tail` is
`PushBegin`, `PushAdopt`, `PushIndex`, `PushPut` or `PushPutFails`, `PushBump`;
`queue_fetch_nth` is `Fetch`, the wait (`WakeUnsignalled`, `WaitTimesOut`, `Recheck`,
`SpinEnds`), `MsgFetch`, `SavePos` or `SavePosFails`, `FetchReturn`. Calls that fail
before they change anything are not steps. Two ends of the process that are the
code's own doing are actions: `NullDereference` (length of a message that is not
there) and `FreeErrorResult` (`xmq_msg_destroy((xmq_msg_t *)-1)`). `sent`, `got`,
`marked` are history.

**XmqRegistry.** Nodes are numbered as allocated; `active`, `dead` are the lists per
role, `freed` the nodes that were freed. A call is a lookup or a sequence of them
(`FindActive`, `FindAgain`, `FindDead`, `FindQueue`), then `Acquire`, then one section
(`Activate`, `Create`, `Deactivate`, `OpenQueue`, `CloseQueue` and their failures).
`StrayUnlock` is the unlock of a mutex the thread does not hold. `CrashInCreate` is a
crash between two store calls of a section. `UseAfterFree` stands for the undefined
behaviour after `NodeNotFreed` or `NoDanglingQueue` fails: the process ends.

**Exchange.** `conn` is the connection a descriptor carries, by uuid (a number; 0 for
none or the empty string); `slot` is `fd_info`. STEP_INIT/STEP_STOP are `Accept`,
`Announce`, `Stop`, `SlotDel`, the steps of `erase_client` (`GetUid`, `DelUid`,
`DelCid`, `GetGids`, `RemGid`, `RemCid`) and `ReportStop`. The worker receives
(`RecvClient`, `RecvGateway`), decides from the slot what the sender is, and runs a
handler one command at a time. `out` is the message just sent with whom it should name
or reach and whom it does; `known`, `bound`, `joined` are history. Logins and groups are
noted there when the worker hands the message to its handler (`Route`): a message whose
gateway is gone by then is taken for a client's and binds nobody.

**TsdbSync.** `db` and `log` are the master's LevelDB (data, and binlog records by
number), `sdb` that of the slave host; `last_seq`, `cur_seq` are fields of the binlog,
`wlog` and `wdata` what the write batch would write. SET is `PutBegin`, `Write` or
`WriteFails`, `Clear`, `Publish` (the number is published after the write); MSET and DEL
are `BatchPut` and `BatchDelete`, which publish first, then `Write`. The slave thread
is `Connect`, `Ping`, `RecvPong`, then per number `GetBinlog` (or `GetExpired`, when
`get_binlog` answers 0), `SendRequest`, `RecvOk` or `RecvError`, `DelBinlog`;
`LoseConnection` may come at any of them and leaves the request with the slave host
(`late`). `Restart` reads the numbers back as `binlog_open` does. The record holds no
value: it is read when the request is made.

**Dam.** Messages are numbered as the receiver reads them. `queue` is the queue in the
file, `zframe` what the receiver has read and not pushed, `coro[k]` the connection,
place and message of a coroutine that runs `send_data`, `pool` the names in the
connection pool, `acceptor` and `conn` the coroutine that takes requests. `sent` and
`lost` are auxiliary: `lost` is what was freed or dropped, by a failed write, by
`priopush` to a full queue, by a thread that ends, or by a crash. The pull and the
first write are one step, because no other coroutine runs in between and the receiver
cannot see where the message is. SIGQUIT is SIGINT here: `kill_proc` sets the state
before it tests it and never cancels.

**Abstractions.** Payloads, identities and groups are model values. XmqQueue: the flag
of a queue is constant across opens; a queue is not reopened while a consumer spins;
marks and registrations are one step each (their single store write is what others
can see). XmqRegistry: one queue, opened and closed by one thread. Exchange: one
exchange; well-formed messages; the end of a gateway connection is one step;
descriptors are given out lowest first, and a stop is delivered before the descriptor
is reused (libcomm, external). libcomm, libkv and the store do what `src/` relies on:
one command is atomic, a put of several pairs is all or nothing. TsdbSync: one slave;
a lookup that fails (`get_binlog` returning -1) is tried again and changes nothing; a
reply is one step. The slave host has one worker on its write port
(`swift_worker_counts` 1), so what an old connection left is read before the PING of a
new one is answered. Dam: the queue of libmini is a bounded sequence whose operations
are atomic and which the file keeps; ZeroMQ takes a message, refuses it for now, or
fails; coroutines change at their switches only, and their cleanups run however they
end (`evcoro_scheduler.h`). `ReceiverEnds` may come after any read, where `recv_idle` runs only
when `recv_data` switches: the model ends in more states than the code, and as the input
dries up or the queue fills, the code does end. `Coros` has more members than `Names`, so that a second
coroutine for a name would show.

## 3. What the runs check

Every property of a passing run has a mutant in `PROJECT.json`, a plausible bug of a
mapped definition under which TLC finds it violated.

| Run | Instance | Shows |
|---|---|---|
| `store_errors` | 1 producer, 1 timed consumer, 3 messages of 2 payloads, indexes 0–2, failing puts and gets, crashes, reopening | nothing stored is overwritten or forgotten (`LogIntact`), `CapacityIsLastIndex`, `FetchFindsMessage`, and `ImplementsLog`: every step is one of `XmqLog` or a stutter |
| `liveness` | 1 producer, 2 consumers (one timed), fair | `StoredIsFetched` (no lost wake-up), `TimedWaitEnds`, `NextLeavesNoGap` |
| `two_producers` | racing producers, crashes, a consumer whose deadlines are refused | `NextNeverRepeats` even so |
| `deadline` | a second of 7 ticks, waits of 1–17 ticks, 4 seconds of clock | `NeverCutShort` (no wait of at most a second ends early), `SpinsUnderASecond`, `LateByUnderASecond` (for arguments of less than two seconds) |
| `reg_threads` | 2 threads, 1 producer, 2 consumers, crashes, no two threads on one identity, fair | `LockReleased`, `IdentityUnique`, `MemoryMatchesStore`, `SlotSurvivesReload` (a consumer's slot is the one it gets when the queue is loaded again) |
| `reg_errors` | 1 thread, 2+2 identities, store errors, crashes, repeated calls | `SlotsDistinct`, `UsersDurable` (nobody is in memory who is not stored) |
| `exc_orderly` | 2 descriptors, 2 users, 2 groups, 3 connections, manage and status gateway lost | `OfflineCleared`, `GroupsMirror`, `UidReachable`, `DownstreamReachesAddressee` while no connection begins or ends under the worker and none is closed by force |
| `exc_races` | 2 descriptors, 2 connections on one or both of them, every order of the threads, repeated logins, forced closes, stream and manage gateway lost, fair | `StrayOnlyForward` (what goes astray goes to a later connection on the same descriptor, never to an earlier one or to another descriptor), `SlotIsCurrent`, `StopCompletes` |
| `tsdb_sync` | 2 keys, 2 values, 3 numbers, SET, MSET and DEL, failing writes on both sides, lost connections, late requests, restarts | `DiffIsPending` (nothing is forgotten), `NewestRecordCurrent` (the replay ends right), `NothingBehind`, `ImplementsReplica` |
| `tsdb_converges` | 1 key, 2 values, 2 numbers, the same failures, records of SETs whose deletion fails, fair | `Converges`: every value the master keeps reaches the slave |
| `dam` | 2 back ends, 3 coroutines, capacity 3, 5 messages, failing writes and coroutines, malformed requests, signals, crashes, restarts, fair | `OnePlaceEach`, `LossBounded` (no step loses more than one message per back end and the receiver's), `DisorderInFront`, `PoolIsServed`, `Drains`, `FrameStops` (neither thread goes on without the other) |
| `race` (violated) | 2 producers | `LogIntact` fails: both take one index |

**Bounds.** `MaxMsgs` is 2 or 3: overwriting, skipping and a wake-up for another's message
need two messages. Two payloads tell an overwritten message from its successor. Two
threads or users of a kind are enough for each race, which is between two. `MaxNodes`
and `MaxLoads` allow closing and loading again after registrations; `MaxSessions` 3
allows a descriptor to be reused while another client is connected. `MaxSeq` 3 allows a
batch of two records and a later one for either key. In Dam more messages than the
queue holds, so that the receiver stands before a full queue while a back end holds
one. The bounds are in
the guards of what begins a call, so calls that have begun finish. Symmetry is
declared for `reg_errors` (identities of a role) and `exc_orderly` (users, groups), which
the models treat alike
and which no liveness property is about.

**Deadlock** is checked where the system has a next step in every state. It is not
checked where the bounds, or an end the code brings about itself (lock kept, node
freed, failed assertion, spinning), may stop the instance.

**Fairness.** XmqQueue: weak fairness of a call that has begun (a running thread is
scheduled); strong fairness of the time-out of timed consumers (the kernel ends a
wait whose deadline passed, and wake-ups do not preempt it for ever; a wake-up starts
a new deadline, so weak fairness would not do). Applications need not call anything
and untimed waits need not end. XmqRegistry: weak fairness of the sections. Exchange:
weak fairness of the two threads' loops and of the stop of a connection that is being
closed. TsdbSync: strong fairness of the steps that are tried again and again
(connecting, PING, sending, writing, deleting a record), since connections break and
the process restarts infinitely often: some attempt goes through; weak fairness of the
rest. Dam: weak fairness of both threads' steps; strong fairness of a coroutine's
`Pull`, because coroutines run in turn and a queue that other coroutines empty and
refill is not continuously non-empty. That a held message is written or given back
assumes that ZeroMQ does not for ever say writable and then refuse.

**Time.** XmqQueue has none. That a timed wait there sleeps unless the consumer is
`Overlong` rests on XmqDeadline: arguments of two seconds or more are refused for every
clock reading (lemma `OverlongInvalid`); shorter ones are refused for less than a
second (`SpinsUnderASecond`), which is a
longer stay in the critical section and nothing another thread can tell apart. The
clock of XmqDeadline does not tick while the thread can move, that is, bounds are up
to scheduling delays.

## 4. Departures from the comments

A conditional run above is conditional because the code departs from a comment, a
document or an assertion outside its condition. Each departure has a configuration
that checks the statement and that TLC refutes; the counterexample is the shortest
interleaving. `race` is kept among the runs; the other configurations are run by hand.

| Configuration (module) | Property, and the statement it is | What the code does |
|---|---|---|
| `XmqRace` (MCXmqQueue) | `LogIntact`; `queue_push_tail` appends, xmq.h:226 | the index is read without a lock (xmq.c:1263), two producers share it |
| `XmqNonBlocking` | `CapacityIsLastIndex`; xmq.h:152 | without `F_QUEUE_BLOCK` the capacity is not counted (xmq.c:1276), the next push overwrites |
| `XmqSharedKeys` | `FetchReturnsPushed`; xmq.h:233 | keys are bare indexes (xmq.c:1267), queues of a context overwrite each other |
| `XmqMarkPos` | `MarkPosIsLastMark`; xmq.h:269 | `last_mark_index` is never assigned (xmq.c:1446) |
| `XmqSkipOnError` | `FetchPosWasFetched`; xmq.h:33 | `(xmq_msg_t *)-1` passes `if (msg)` (xmq.c:1376), the position moves |
| `XmqReopen` | `StoredIsFetched`; xmq.h:156 | the condition variable is initialised under its sleepers (xmq.c:819) |
| `XmqSpin` | `TimedWaitEnds`; `millis`, xmq.h:236 | 2000 or more is refused with `wait_lock` held, and the loop looks for ETIMEDOUT only (xmq.c:1355) |
| `XmqWaitsMillis` (MCXmqDeadline) | `WaitsMillis`; the same | the carry adds `1000000 - 1000*millis` (xmq.c:1346): early or late |
| `RegSameIdentity` (MCXmqRegistry) | `IdentityUnique`; xmq.h:69 | lookup and creation are two sections (xmq.c:1011) |
| `RegStrayUnlock` | `TreeLockExcludes`; xmq.h:139 | unlock without lock (xmq.c:814, 1212) |
| `RegLockLeak` | `LockReleased` | return with the lock held when the list cannot be stored (xmq.c:1040) |
| `RegCloseInUse` | `NodeNotFreed`; "never deleted", xmq.h:81 | close frees dead users another thread has looked up (xmq.c:848) |
| `RegDangling` | `NoDanglingQueue`; xmq.h:135 | a new queue is freed while linked (xmq.c:762) |
| `RegRetry` | `StoredOnce`; xmq.h:76 | the identity is stored before the positions (xmq.c:1161), a retry stores it again |
| `ExcRelogin` (MCExchange) | `UidReachable`; IMX/key.md:5 | the end of the old connection deletes the new binding (exc_status.c:27) |
| `ExcLateBind` | `OfflineCleared`; IMX/key.md:13 | a binding for a client that is gone stays (exc_message_dispatch.c:290) |
| `ExcReusedFd` | `DownstreamReachesAddressee`; "TODO check uuid" | the uuid is not compared (exc_message_dispatch.c:83) |
| `ExcUpstream` | `UpstreamNamesSender`; frames at exc_message_dispatch.c:52 | the cid is made from a slot that may have changed (line 50) |
| `ExcStatus` | `StatusNamesClient`; frames at exc_status.c:44 | the slot is cleared before the cid is made (exc_event_notify.c:55) |
| `ExcErase` | `NoAssertFails`; `assert(des->status == 1)`, exc_sockfd_manager.c:138 | a forced close clears the slot (exc_message_dispatch.c:245), its STEP_STOP again |
| `TsdbOpenBatch` (MCTsdbSync) | `DiffIsPending`; "record expired, not need sync.", slave.c:170 | MSET and DEL count `last_seq` before the batch is written (binlog.c:211, 227); the slave thread looks too early, and deletes the record unsent once it is there |
| `TsdbTwoWriters` | `DiffIsPending`; "notify slave thread to sync.", binlog.c:166 | the read workers register the write commands too (main.c:15) and share batch and numbers without a lock (binlog.c:147) |
| `TsdbDeleteErrors` | `DiffIsPending` | a SYNCDEL whose record could not be deleted (slave.c:200) is sent again by the next start, after a newer SET |
| `TsdbEmptyValue` | `DiffIsPending` | a value of length 0 is taken for a deleted key (binlog.c:354) |
| `TsdbNineByte` | `NumbersFromRecords`; "get last_seq", binlog.c:114 | with no record left, a user key of 9 bytes is decoded as a number (binlog.c:52) |
| `DamGiveBack` (MCDam) | `NothingLost`; "返还数据到队列，并结束本次发送" (give the data back to the queue and end this sending), send_data4zmq.c:294 | the receiver may have filled the queue since the pull; `priopush` fails and its result is not looked at |

One condition is not a departure but a configuration of the program that must stay as
it is: with several workers on the slave host a request of a closed connection could be
read after newer ones. `TsdbSync.cfg` with `Overtaking = TRUE` violates `DiffIsPending`;
one worker (`swift_worker_counts` 1) is what keeps this from happening.

## 5. What is proved

TLAPS checks these for every value of the constants.

`XmqQueue_proofs`, from the assumption `QueueConstants`:

- `TypeCorrect`: `Spec => []TypeOK`.
- `NeverRepeats`: `Spec => []NextNeverRepeats`, with any number of racing producers,
  store errors and crashes. The property alone is not inductive: `NextInv` adds that
  no index handed out lies past the stored position, that memory and store agree on
  the position of a registered consumer, and that the index of a call in progress is
  the next one.
- `SoleProducerSafe`: with a single blocking queue and at most one producer
  (`SoleProducer`), crashes and store errors included, `LogIntact`,
  `CapacityIsLastIndex`, `FetchFindsMessage`, `FetchReturnsPushed` and
  `PositionsInLog` are invariants. The inductive invariant `LogInv` is
  `LogIntact /\ CapacityIsLastIndex /\ ProducerInv /\ ConsumerInv`: `ProducerInv` says
  what the locals of a push are worth at each point (the adopted value is the stored
  capacity, the index is the one past the end of the log, after the put the memory is
  one behind), `ConsumerInv` that a consumer's index is inside the log once it is let
  through, that a message in hand is the one pushed there, and that stored positions
  are inside the log.
- `CapacityRight`, `FetchFinds`: two of these by themselves.
- `NoGap`: under `SoleProducer`, `Spec => []NextLeavesNoGap`. `GapInv` adds to `LogInv` and
  `NextInv` that a consumer has everything up to its stored position outside the
  return of a call, and that a call which stores a position has its message.
- `LogImplemented`: under the same condition, store errors and crashes included,
  `Spec => ImplementsLog`. A failed get moves the position to an index whose message is
  not handed out (see `XmqSkipOnError`): the log has the step `Skip` for it. The
  condition on producers is needed because of `race`.

`XmqDeadline_proofs`, from `DeadlineConstants`:

- `DeadlineBounds`: for any number of ticks per second, `SpinsUnderASecond`,
  `NeverCutShort` and `LateByUnderASecond`. `SpinInv` says where in the second the clock
  is while deadlines are refused, `SleepInv` that an accepted deadline lies in this
  second or the next and how far. Arguments of two seconds or more never get there
  (lemma `OverlongInvalid`); the bounds say nothing of them, and `XmqSpin` of section 4
  shows what they do.
- `SpinsBriefly`, `NoneCutShort`, `LateByLittle`: the three bounds by themselves.

`TsdbSync_proofs`, from `SyncConstants`, `DeleteErrorsAssumption` and `Orderly` (one writer,
no look into an open batch, no overtaking, no failing deletion, no empty values, no
user key of 9 bytes: section 4 has a counterexample for each):

- `Typed`, `NothingForgotten`, `ReplayEndsRight`, `NoneBehind`: `TypeOK`, `DiffIsPending`,
  `NewestRecordCurrent` and `NothingBehind` are invariants for any keys, values and
  numbers. The inductive invariant `IInv` adds where the records are relative to the
  two numbers (`Window`), what the batch would write at each point of a command
  (`Batch`), that the request in the buffer is for the record at `cur_seq` and, once
  confirmed, that the slave has what its record says unless a newer record exists
  (`Sending`), that a request left behind is for a key with a pending record
  (`Leftover`), and that keys without a record agree (`DiffIsRecorded`).
- `Refinement`: `Spec => ImplementsReplica`, from the same invariant.

`Dam_proofs`, from `DamConstants`:

- `TypeCorrect`, `PoolCorrect`: `TypeOK` and `PoolIsServed`, for any number of back ends.
  Together with `ConnInv` (a connection waits exactly while the acceptor tries again)
  they are inductive. A free coroutine exists whenever one is started, because names
  are served once and there are fewer names than coroutines (pigeonhole, `OneIsFree`).
- `OnePlace`: `Spec => []OnePlaceEach`. The counts of the property are not inductive by
  themselves; `PlaceInv` says that the five places partition what was read, that no
  message is in the queue or in coroutines' hands twice, and that a thread that has
  ended holds nothing. The counts follow from it (`PlacesCounted`).

- `DisorderBounded`: `Spec => []DisorderInFront`. The property says nothing of what the
  coroutines hold and will give back; `OrderInv` does: there is a place `c` behind which
  the queue is in order, every message in a coroutine's hands was read before all that
  lies behind it, and `c` plus the number of holders is at most the number of back ends.
  A pull moves `c` one place to the front, a message given back moves it one place on
  and has one holder less, a push is of the youngest message (from `Partition`). That
  the holders are no more than the back ends is `PoolIsServed` once more.
- `LossIsBounded`: `Spec => LossBounded`, an action property. A step loses what is in the
  coroutines' hands and one message more (`LostFrom`); by `OrderInv` and the counts of
  `PlaceInv` the hands hold no more messages than there are back ends.

`XmqRegistry_proofs`, from `RegistryConstants`. Section 4 shows what goes wrong without
the conditions; each theorem names only those it needs, and crashes are allowed in all
of them. `OneOpener` (queues are opened and closed by one thread) is what the module
models; the runs have it too.

| Theorem | Property | Conditions |
|---|---|---|
| `RegistryTypes` | `TypeOK` | none |
| `UsersAreDurable` | `UsersDurable` | none |
| `SlotsStayDistinct` | `SlotsDistinct` | `~ClosesInUse`, `OneOpener` |
| `IdentityStaysUnique` | `IdentityUnique` | `~Repeats`, `~StoreFails`, `~ClosesInUse`, `OneOpener` |
| `StoreIsMatched` | `MemoryMatchesStore` | the same |
| `StoredOnceOnly` | `StoredOnce` | the same |
| `SlotsSurvive` | `SlotSurvivesReload` | the same |

The argument is a chain of invariants, each proved inductive with the ones before it.
`TypeInv` adds to the types what a thread's locals are worth at each point of a call
(`CallOK`: a node that was looked up has the identity that was asked for) and that freed
nodes are on no list (`TreeOK`). `HeldInv`: nobody holds a freed node, because a close
and a call on users never overlap. `LockInv`: a thread in a section owns the lock, no
two threads work on one identity, and who registers a user finds none active; hence the
unlock without lock is not reached. `OpenInv` and `ListInv`: only an open queue has
users, no node is on two lists or on one twice, and what was looked up is still linked
when the section begins, which is what the second critical section of every call relies
on. `SlotInv` adds that slots are below `consumer_amount`. `StoreInv` says that stored
identities and nodes are in bijection and counted, and `AbsentInv` that an identity
which the lookups did not find is not stored either when it is created. `PlaceInv` says
that a node's slot is its place in the stored list, and that the counter slots are
taken from is the length of that list whenever it is read: with a failing store, or an
identity stored twice, it would not be. `DurableInv` is `UsersDurable` with the same of
the user whose node a thread has looked up, and needs no condition, because
the identity is stored before the node is linked and no stored list ever shrinks. The
sections of a call are single steps in the module also after a stray unlock let another
thread in; so where repeated calls are allowed, `SlotsStayDistinct` and `UsersAreDurable`
speak about the code as long as one thread uses the context. The list
lemmas (`Without`, which is `__list_del`, `Append`, the nodes that loading allocates) are
proved once and cited by all of them.

`Exchange_proofs`, from `ExchangeConstants`:

| Theorem | Property | Conditions |
|---|---|---|
| `ExchangeTypes` | `TypeOK` | none |
| `SlotNeverStale` | `SlotIsCurrent` | none |
| `StraysGoForward` | `StrayOnlyForward` | none |
| `GroupMapsMirror` | `GroupsMirror` | `Orderly` |
| `OfflineLeavesNothing` | `OfflineCleared` | `Orderly`, `~Rebinds` |
| `AddresseeReached` | `DownstreamReachesAddressee` | `Orderly`, `~Rebinds` |
| `UserStaysReachable` | `UidReachable` | `Orderly`, `~Rebinds`, no `closed` message |

The theorems need less than the run `exc_orderly` assumes: the maps mirror each other
with forced closes, lost gateways and repeated logins too. `LocalInv` (what message and
locals are worth at each point of a handler) holds unconditionally and carries the
rest. `StraysGoForward` is about all interleavings: `NewestInv` says that the connection
and the slot of a descriptor are never behind the last connection accepted on it,
`UserHomeInv` and `GroupHomeInv` that a map has a user or a group only under descriptors
on which it logged in last or joined, at every step of the handlers that write and read
the maps. `NamedInv` says that under `Orderly` the client a message names stays connected
while the worker is at it.
`MirrorInv` is `GroupsMirror` in the middle of a handler: the two maps agree but for the
pair a thread has in hand. `UserInv` relates the two user maps in the same way, and
`GoneInv` says for every step of `erase_client` which of a gone client's keys are still
there; both are needed before a descriptor is reused. `UserAddressInv` and
`GroupAddressInv` compare what the maps hold with the histories `bound` and `joined`, and
`ReachInv` that a login is in the map once its handler has written it.

**Only model-checked**: the temporal properties `StoredIsFetched`, `TimedWaitEnds`,
`LockReleased`, `StopCompletes`, `Converges`, `Drains` and `FrameStops`, because TLAPS does
not prove liveness under fairness. Every invariant a passing run checks has a theorem,
and so has the action property `LossBounded`.

## 6. Plan

Order of the modules, most important behaviour first:

1. done: `XmqQueue`, `XmqLog`/`XmqRefinement`, `XmqDeadline`, `XmqRegistry`, `Exchange`,
   `TsdbSync`/`Replica`, `Dam`.
2. `ManageSkts`, the socket sets of the gateways, and with it the capacity check of
   `fdman_slot_set`: arrays checked against sets.
3. `Mfptp`: incremental parser against a reference definition on all splits of
   bounded inputs. `XmqCsv`: codec of identity lists, round trip over small alphabets.
4. libxmq as a variant of `XmqQueue`; `mcache`.

Proofs: the invariants of the runs are done. Left are the conditions: which of them a
weaker one could replace, and several openers in XmqRegistry.

## 7. Not modelled

Vendored libraries and forks; I/O plumbing (libnetmod, libel, libtopo and the like);
tracing tools; request handlers, whose shared state is in asynchronous libraries that are not in the
repository, and the Lua layer. Of the modelled
parts: names longer than their buffers or containing separators, out-of-memory paths,
malformed messages, several exchanges, and gateways that come back (the exchange does
not connect to them again). TSDB: the registration in zookeeper (`zk.c`), the read
commands, replies that come in pieces or do not fit what was asked, the switch to
read-only, keys and values longer than their buffers, `binlog_delete` (nothing calls
it). damR: the handshake of the threads at the start, the queue types that do not
survive the process, messages that are refused, exceptions raised inside a coroutine.
libmini, libcomm and libkv are submodules whose source is not in the repository, and
of libevcoro and libevcs there are only headers and archives: they are modelled from
how the programs use them. The map covers the programs named above and a small part of
the tree, nearly all of which is vendored code and data tables.

## 8. Running

    tlc -config XmqStoreErrors.cfg MCXmqQueue    # and so on, see PROJECT.json
    tlapm XmqQueue_proofs.tla
    tlapm XmqDeadline_proofs.tla
    tlapm XmqRegistry_proofs.tla
    tlapm Exchange_proofs.tla
    tlapm TsdbSync_proofs.tla
    tlapm Dam_proofs.tla
