------------------------------ MODULE TsdbSync ------------------------------
(***************************************************************************)
(* Master/slave replication of TSDB (src/programs/TSDB/src/binlog.c,       *)
(* slave.c and the write commands of tsdb_ldb.c).                          *)
(*                                                                         *)
(* A write command puts, in one LevelDB batch, the data and one numbered   *)
(* binlog record per key.  The record holds the command and the key, not   *)
(* the value.  The slave thread walks the numbers from cur_seq to          *)
(* last_seq, turns each record into a SYNCSET with the value the key has   *)
(* now, or a SYNCDEL, sends it, waits for the reply and deletes the        *)
(* record.  The store survives a crash; the numbers are read back from it. *)
(*                                                                         *)
(* A step is what a thread does up to its next access of the store, of     *)
(* the socket, or of memory another thread uses (binlog->last_seq and      *)
(* ldbs->wbatch: no lock guards them).                                     *)
(***************************************************************************)
EXTENDS Integers

CONSTANTS
  Keys,            \* user keys; the order of LevelDB is that of the integers
  Written,         \* the values SET, MSET and SADD write
  Empty,           \* the value of length 0
  NoVal,           \* no entry for a key
  NoRec,           \* no binlog record for a number
  NoMsg,           \* no request in a buffer
  Keep,            \* a key the write batch does not mention
  Writers,         \* the threads that execute write commands
  MaxSeq,          \* bound: no write starts that would need a greater number
  NineByte,        \* the user keys of the length of a binlog key, 9 bytes
  Decoded,         \* the number decode_seq_key makes of such a key
  Deletes,         \* whether clients use DEL
  WriteErrors,     \* whether leveldb_write and the slave's writes may fail
  DeleteErrors,    \* the commands on whose records del_binlog may fail
  ReadsOpenBatch,  \* whether the slave thread may look up a number between
                   \* its increment and the commit of its batch
  Overtaking       \* whether the slave host may answer a new connection
                   \* before it has read what an old one left behind

ASSUME SyncConstants ==
  /\ Keys \subseteq Int /\ NineByte \subseteq Keys
  /\ MaxSeq \in Nat /\ Decoded \in 1..MaxSeq
  /\ NoVal \notin Written \cup {Empty, Keep}
  /\ Keep \notin Written
  /\ NoRec \notin [cmd : {"set", "del"}, key : Keys]
  /\ NoMsg \notin [key : Keys, val : Written \cup {Empty, NoVal}]
  /\ Deletes \in BOOLEAN
  /\ WriteErrors \in BOOLEAN
  /\ ReadsOpenBatch \in BOOLEAN /\ Overtaking \in BOOLEAN

ASSUME DeleteErrorsAssumption == DeleteErrors \subseteq {"set", "del"}

Seqs     == 1..MaxSeq
Stored   == Written \cup {NoVal}
Record   == [cmd : {"set", "del"}, key : Keys]
\* SYNCSET key val, or SYNCDEL key when val is NoVal.
Request  == [key : Keys, val : Stored]

VARIABLES
  \* The master's LevelDB: user data, and binlog records by number.
  db, log,
  \* binlog->last_seq and binlog->cur_seq
  last_seq, cur_seq,
  \* ldbs->wbatch: the records and the data it would write.  Entries are
  \* applied in order, so that the last one for a key is the one that counts.
  wlog, wdata,
  wpc,        \* where each writer is
  spc,        \* where the slave thread is; "connect": slave->sock is -1
  send_buf,   \* the request in send_buf
  wire,       \* what is on the connection; "SYNC" is the request in send_buf
  late,       \* a request that a closed connection left with the slave host
  sdb         \* the slave's LevelDB

batchVars  == <<wlog, wdata>>
masterVars == <<db, log, last_seq, cur_seq, batchVars, wpc>>
vars == <<masterVars, spc, send_buf, wire, late, sdb>>

NoLog   == [s \in Seqs |-> NoRec]
NoData  == [k \in Keys |-> Keep]

\* The numbers under which l holds a record, and those of key k.
Recorded(l)     == {s \in Seqs : l[s] # NoRec}
RecordsOf(l, k) == {s \in Recorded(l) : l[s].key = k}

\* get_binlog and binlog_syncdel take a value of length 0 for no value.
Missing(v) == v \in {NoVal, Empty}

-----------------------------------------------------------------------------
(* Start of the process *)

\* The first record at or after number 0, or 1.
MinSeq ==
  IF Recorded(log) = {} THEN 1
  ELSE CHOOSE s \in Recorded(log) : \A t \in Recorded(log) : s <= t

\* The number in the last key of the store.  Binlog keys come after all user
\* keys, but when there is none the last user key is decoded, and
\* decode_seq_key only looks at the length.
LastKeyIs(k) == db[k] # NoVal /\ \A j \in Keys : db[j] # NoVal => j <= k
LastSeq ==
  IF Recorded(log) # {}
  THEN CHOOSE s \in Recorded(log) : \A t \in Recorded(log) : t <= s
  ELSE IF \E k \in NineByte : LastKeyIs(k) THEN Decoded ELSE 0

Init ==
  /\ db = [k \in Keys |-> NoVal] /\ sdb = db
  /\ log = NoLog
  /\ last_seq = 0 /\ cur_seq = 1
  /\ wlog = NoLog /\ wdata = NoData
  /\ wpc = [w \in Writers |-> "idle"]
  /\ spc = "connect"
  /\ send_buf = NoMsg /\ wire = "none" /\ late = NoMsg

\* What the slave host may still find in the buffer of a connection that ends.
LeftBehind == IF wire = "SYNC" THEN send_buf ELSE late

\* The process is killed, or closed by slave_close and binlog_close, and
\* started again: binlog_open, slave_open, the start of slave_thread.
Restart ==
  /\ last_seq' = LastSeq
  /\ cur_seq' = MinSeq
  /\ wlog' = NoLog /\ wdata' = NoData
  /\ wpc' = [w \in Writers |-> "idle"]
  /\ spc' = "connect"
  /\ send_buf' = NoMsg /\ wire' = "none"
  /\ late' = LeftBehind
  /\ UNCHANGED <<db, log, sdb>>

-----------------------------------------------------------------------------
(* The write commands *)

\* One entry of the batch: record s and the new value of its key.
Append(s, rec, v) ==
  /\ s \in Seqs
  /\ wlog' = [wlog EXCEPT ![s] = rec]
  /\ wdata' = [wdata EXCEPT ![rec.key] = v]

\* Mutant of PutBegin: last_seq is incremented before the write.
PutBeginPublishes(w, k, v) ==
  /\ wpc[w] = "idle"
  /\ Append(last_seq + 1, [cmd |-> "set", key |-> k], v)
  /\ last_seq' = last_seq + 1
  /\ wpc' = [wpc EXCEPT ![w] = "put"]
  /\ UNCHANGED <<db, log, cur_seq, spc, send_buf, wire, late, sdb>>

\* SET, and each value SADD adds: binlog_put up to leveldb_write.
PutBegin(w, k, v) ==
  /\ wpc[w] = "idle"
  /\ Append(last_seq + 1, [cmd |-> "set", key |-> k], v)
  /\ wpc' = [wpc EXCEPT ![w] = "put"]
  /\ UNCHANGED <<db, log, last_seq, cur_seq, spc, send_buf, wire, late, sdb>>

\* MSET: binlog_batch_put for one pair of its arguments.
BatchPut(w, k, v) ==
  /\ wpc[w] \in {"idle", "mset"}
  /\ Append(last_seq + 1, [cmd |-> "set", key |-> k], v)
  /\ last_seq' = last_seq + 1
  /\ wpc' = [wpc EXCEPT ![w] = "mset"]
  /\ UNCHANGED <<db, log, cur_seq, spc, send_buf, wire, late, sdb>>

\* Mutant of BatchDelete: the record is that of a SET.
BatchDeleteAsSet(w, k) ==
  /\ Deletes /\ wpc[w] \in {"idle", "del"}
  /\ Append(last_seq + 1, [cmd |-> "set", key |-> k], NoVal)
  /\ last_seq' = last_seq + 1
  /\ wpc' = [wpc EXCEPT ![w] = "del"]
  /\ UNCHANGED <<db, log, cur_seq, spc, send_buf, wire, late, sdb>>

\* DEL: binlog_batch_delete for one of its arguments.
BatchDelete(w, k) ==
  /\ Deletes /\ wpc[w] \in {"idle", "del"}
  /\ Append(last_seq + 1, [cmd |-> "del", key |-> k], NoVal)
  /\ last_seq' = last_seq + 1
  /\ wpc' = [wpc EXCEPT ![w] = "del"]
  /\ UNCHANGED <<db, log, cur_seq, spc, send_buf, wire, late, sdb>>

\* leveldb_write of whatever the batch holds, all or nothing.
Write(w) ==
  /\ wpc[w] \in {"put", "mset", "del"}
  /\ db' = [k \in Keys |-> IF wdata[k] = Keep THEN db[k] ELSE wdata[k]]
  /\ log' = [s \in Seqs |-> IF wlog[s] = NoRec THEN log[s] ELSE wlog[s]]
  /\ wpc' = [wpc EXCEPT ![w] = IF @ = "put" THEN "putok" ELSE "done"]
  /\ UNCHANGED <<last_seq, cur_seq, batchVars, spc, send_buf, wire, late, sdb>>

\* The same, failing.  A batch has used its numbers up: last_seq stays.
WriteFails(w) ==
  /\ WriteErrors
  /\ wpc[w] \in {"put", "mset", "del"}
  /\ wpc' = [wpc EXCEPT ![w] = "done"]
  /\ UNCHANGED <<db, log, last_seq, cur_seq, batchVars, spc, send_buf, wire,
                 late, sdb>>

\* leveldb_writebatch_clear; the command is over unless last_seq is still to
\* be incremented.
Clear(w) ==
  /\ wpc[w] \in {"putok", "done"}
  /\ wlog' = NoLog /\ wdata' = NoData
  /\ wpc' = [wpc EXCEPT ![w] = IF @ = "putok" THEN "publish" ELSE "idle"]
  /\ UNCHANGED <<db, log, last_seq, cur_seq, spc, send_buf, wire, late, sdb>>

\* binlog_put: "notify slave thread to sync".
Publish(w) ==
  /\ wpc[w] = "publish"
  /\ last_seq' = last_seq + 1
  /\ wpc' = [wpc EXCEPT ![w] = "idle"]
  /\ UNCHANGED <<db, log, cur_seq, batchVars, spc, send_buf, wire, late, sdb>>

-----------------------------------------------------------------------------
(* The slave thread *)

SlaveOnly == UNCHANGED <<masterVars, late, sdb>>

\* sock_connect succeeds (when it fails, the thread sleeps and tries again).
Connect ==
  /\ spc = "connect"
  /\ spc' = "beat"
  /\ UNCHANGED <<send_buf, wire>> /\ SlaveOnly

\* The heartbeat.  The slave host answers PING with nothing but PONG.
Ping ==
  /\ spc = "beat"
  /\ spc' = "pong" /\ wire' = "PING"
  /\ UNCHANGED send_buf /\ SlaveOnly

RecvPong ==
  /\ spc = "pong" /\ wire = "PONG"
  /\ spc' = "loop" /\ wire' = "none"
  /\ UNCHANGED send_buf /\ SlaveOnly

\* send or recv fails, in the heartbeat or in the sync loop.
\* Mutant of LoseConnection: the record that was being sent counts as sent.
LoseConnectionAndSkip ==
  /\ spc \in {"beat", "pong", "send", "reply"}
  /\ spc' = IF spc = "reply" THEN "delete" ELSE "connect"
  /\ wire' = "none" /\ late' = LeftBehind
  /\ UNCHANGED <<masterVars, send_buf, sdb>>

LoseConnection ==
  /\ spc \in {"beat", "pong", "send", "reply"}
  /\ spc' = "connect" /\ wire' = "none"
  /\ late' = LeftBehind
  /\ UNCHANGED <<masterVars, send_buf, sdb>>

\* The slave thread looks into a batch that is still open only if the instance
\* lets it.
MayRead == ReadsOpenBatch \/ \A w \in Writers : wpc[w] \notin {"mset", "del"}

\* Mutant of InLoop: cur_seq < last_seq.
InLoopStrict == spc = "loop" /\ cur_seq < last_seq

\* while (binlog->cur_seq <= binlog->last_seq)
InLoop == spc = "loop" /\ cur_seq <= last_seq

\* The loop ends; there is nothing to send before the next heartbeat.
LoopEnds ==
  /\ spc = "loop" /\ ~InLoop
  /\ spc' = "beat"
  /\ UNCHANGED <<send_buf, wire>> /\ SlaveOnly

\* get_binlog returns 0 for a number without a record, and for a SET whose key
\* has no value now.
Expired ==
  log[cur_seq] # NoRec
    => log[cur_seq].cmd = "set" /\ Missing(db[log[cur_seq].key])

GetExpired ==
  /\ InLoop /\ MayRead /\ Expired
  /\ spc' = "delete"
  /\ UNCHANGED <<send_buf, wire>> /\ SlaveOnly

\* Mutant of GetBinlog: a SET whose key has no value is sent with length 0.
GetBinlogUnchecked ==
  /\ InLoop /\ MayRead /\ log[cur_seq] # NoRec
  /\ LET rec == log[cur_seq] IN
     send_buf' = [key |-> rec.key,
                  val |-> IF rec.cmd = "del" THEN NoVal
                          ELSE IF Missing(db[rec.key]) THEN Empty
                          ELSE db[rec.key]]
  /\ spc' = "send"
  /\ UNCHANGED wire /\ SlaveOnly

\* get_binlog returns 1: the request is in send_buf.
GetBinlog ==
  /\ InLoop /\ MayRead /\ ~Expired
  /\ LET rec == log[cur_seq] IN
     send_buf' = [key |-> rec.key,
                  val |-> IF rec.cmd = "set" THEN db[rec.key] ELSE NoVal]
  /\ spc' = "send"
  /\ UNCHANGED wire /\ SlaveOnly

SendRequest ==
  /\ spc = "send"
  /\ spc' = "reply" /\ wire' = "SYNC"
  /\ UNCHANGED send_buf /\ SlaveOnly

RecvOk ==
  /\ spc = "reply" /\ wire = "OK"
  /\ spc' = "delete" /\ wire' = "none"
  /\ UNCHANGED send_buf /\ SlaveOnly

\* Not "OK": the same buffer is sent again.
RecvError ==
  /\ spc = "reply" /\ wire = "ERROR"
  /\ spc' = "send" /\ wire' = "none"
  /\ UNCHANGED send_buf /\ SlaveOnly

NextSeq ==
  /\ spc = "delete"
  /\ cur_seq' = cur_seq + 1
  /\ spc' = "loop"
  /\ UNCHANGED <<db, last_seq, batchVars, wpc, send_buf, wire, late, sdb>>

\* Mutant of DelBinlog: the record of a SET stays.
DelBinlogKeepsSet ==
  /\ NextSeq
  /\ log' = IF log[cur_seq] # NoRec /\ log[cur_seq].cmd = "set" THEN log
            ELSE [log EXCEPT ![cur_seq] = NoRec]

DelBinlog ==
  /\ NextSeq
  /\ log' = [log EXCEPT ![cur_seq] = NoRec]

\* del_binlog returns -1, which is only logged.
DelBinlogFails ==
  /\ NextSeq
  /\ log[cur_seq] # NoRec /\ log[cur_seq].cmd \in DeleteErrors
  /\ UNCHANGED log

-----------------------------------------------------------------------------
(* The slave host: tsdb_ldb_ping, tsdb_ldb_syncset and tsdb_ldb_syncdel in    *)
(* the one worker thread behind its write port.                              *)

ServePing ==
  /\ wire = "PING"
  /\ late = NoMsg \/ Overtaking
  /\ wire' = "PONG"
  /\ UNCHANGED <<masterVars, spc, send_buf, late, sdb>>

\* binlog_syncset and binlog_syncdel
Applied(req) ==
  IF req.val = NoVal /\ Missing(sdb[req.key]) THEN sdb
  ELSE [sdb EXCEPT ![req.key] = req.val]

ServeSync ==
  /\ wire = "SYNC"
  /\ sdb' = Applied(send_buf)
  /\ wire' = "OK"
  /\ UNCHANGED <<masterVars, spc, send_buf, late>>

ServeSyncFails ==
  /\ WriteErrors
  /\ wire = "SYNC"
  /\ wire' = "ERROR"
  /\ UNCHANGED <<masterVars, spc, send_buf, late, sdb>>

\* A request of a connection that was closed meanwhile is read, or was lost.
ServeLate ==
  /\ late # NoMsg
  /\ sdb' \in {sdb, Applied(late)}
  /\ late' = NoMsg
  /\ UNCHANGED <<masterVars, spc, send_buf, wire>>

-----------------------------------------------------------------------------
Writer(w) ==
  \/ \E k \in Keys, v \in Written : PutBegin(w, k, v) \/ BatchPut(w, k, v)
  \/ \E k \in Keys : BatchDelete(w, k)
  \/ Write(w) \/ WriteFails(w) \/ Clear(w) \/ Publish(w)

SlaveThread ==
  \/ Connect \/ Ping \/ RecvPong \/ LoseConnection
  \/ LoopEnds \/ GetExpired \/ GetBinlog
  \/ SendRequest \/ RecvOk \/ RecvError
  \/ DelBinlog \/ DelBinlogFails

SlaveHost == ServePing \/ ServeSync \/ ServeSyncFails \/ ServeLate

Next == Restart \/ (\E w \in Writers : Writer(w)) \/ SlaveThread \/ SlaveHost

Spec == Init /\ [][Next]_vars

\* A writer finishes its command, the slave thread and the slave host go on,
\* and what is tried again and again (connecting, sending, a write of the
\* store) succeeds some time: connections may still be lost, and the process
\* be restarted, infinitely often.
Fairness ==
  /\ \A w \in Writers : SF_vars(Write(w)) /\ WF_vars(Clear(w))
                        /\ WF_vars(Publish(w))
  /\ SF_vars(Connect) /\ SF_vars(Ping) /\ SF_vars(ServePing) /\ SF_vars(RecvPong)
  /\ SF_vars(GetBinlog) /\ SF_vars(GetExpired) /\ SF_vars(SendRequest)
  /\ SF_vars(ServeSync) /\ SF_vars(RecvOk) /\ SF_vars(DelBinlog)
  /\ WF_vars(RecvError) /\ WF_vars(LoopEnds) /\ WF_vars(ServeLate)

FairSpec == Spec /\ Fairness

-----------------------------------------------------------------------------
(* Properties *)

WriterPC == {"idle", "put", "mset", "del", "putok", "done", "publish"}
SlavePC  == {"connect", "beat", "pong", "loop", "send", "reply", "delete"}

\* The type invariant: the stores, the batch, the numbers and the buffers hold
\* what their types say; a request never carries the value of an absent key.
TypeOK ==
  /\ db \in [Keys -> Stored] /\ sdb \in [Keys -> Stored]
  /\ log \in [Seqs -> Record \cup {NoRec}]
  /\ last_seq \in 0..MaxSeq /\ cur_seq \in 1..(MaxSeq + 1)
  /\ wlog \in [Seqs -> Record \cup {NoRec}]
  /\ wdata \in [Keys -> Stored \cup {Keep}]
  /\ wpc \in [Writers -> WriterPC] /\ spc \in SlavePC
  /\ send_buf \in Request \cup {NoMsg}
  /\ wire \in {"none", "PING", "PONG", "SYNC", "OK", "ERROR"}
  /\ late \in Request \cup {NoMsg}

\* Nothing is forgotten: a key whose value at the slave is not the master's
\* has a record that the slave thread has yet to pass (slave.c, the loop from
\* get_binlog to ++cur_seq), across lost connections, errors and restarts.
DiffIsPending ==
  \A k \in Keys :
    sdb[k] # db[k] => \E s \in RecordsOf(log, k) : cur_seq <= s

\* The replay ends right: the newest record of a key is a DEL exactly when the
\* master no longer has the key, so that the last request for it leaves the
\* slave with what the master has (binlog.c, the record and the data of a
\* command go into one batch; get_binlog reads the value when it sends).
NewestRecordCurrent ==
  \A k \in Keys : \A s \in RecordsOf(log, k) :
    (\A t \in RecordsOf(log, k) : t <= s)
      => (log[s].cmd = "del" <=> db[k] = NoVal)

\* No record stays behind the slave thread, where it would be found by the
\* next start of the process and sent once more after newer ones
\* (slave.c:198-208; binlog_open takes min_seq from the first record).
NothingBehind == \A s \in Recorded(log) : cur_seq <= s

\* Seen from outside, the binlog, the slave thread and its retries are a copy
\* that is only ever written on keys known to be out of date, and a key stops
\* being out of date only when both stores agree on it.
Dirty == {k \in Keys : \E s \in RecordsOf(log, k) : cur_seq <= s}
Copy  == INSTANCE Replica WITH Values <- Stored, master <- db, slave <- sdb,
                               dirty <- Dirty
ImplementsReplica == Copy!Spec

\* Every write reaches the slave: when the master has the value v for a key,
\* the slave comes to have it, unless the master's value changes first.
Converges ==
  \A k \in Keys, v \in Stored : db[k] = v ~> (sdb[k] = v \/ db[k] # v)

\* binlog_open numbers on from the records: after a start last_seq is the
\* number of a record, or 0 (binlog.c:114, "get last_seq").
NumbersFromRecords ==
  [][Restart => last_seq' \in {0} \cup Recorded(log)]_vars

=============================================================================
