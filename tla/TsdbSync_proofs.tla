-------------------------- MODULE TsdbSync_proofs --------------------------
(***************************************************************************)
(* Replication of TSDB, for any keys, values and bound: with one writer    *)
(* and the conditions named in Orderly, the slave's store only differs     *)
(* from the master's on keys with a pending record, whatever connections,  *)
(* writes and processes fail.                                              *)
(***************************************************************************)
EXTENDS TsdbSync, TLAPS, WellFoundedInduction

\* The instances the theorems are about: one writer, no value of length 0, no
\* user key as long as a binlog key, records deleted when asked to, batches
\* not looked into, and a slave host that reads connections in turn.
Orderly ==
  /\ \A v, w \in Writers : v = w
  /\ Empty \notin Written
  /\ NineByte = {}
  /\ DeleteErrors = {} /\ ~ReadsOpenBatch /\ ~Overtaking

Writing == \E w \in Writers : wpc[w] \in {"put", "mset", "del"}

\* s is the newest record of its key in l.
Newest(l, s) == \A t \in RecordsOf(l, l[s].key) : t <= s

\* Where records are: between cur_seq and last_seq, or one further while a
\* SET has written its record and not yet incremented last_seq.
Window ==
  /\ cur_seq <= last_seq + 1
  /\ spc \in {"send", "reply", "delete"} => cur_seq <= last_seq
  /\ \A s \in Recorded(log) :
       /\ cur_seq <= s
       /\ s <= last_seq \/ (s = last_seq + 1
                            /\ \E w \in Writers : wpc[w] \in {"putok", "publish"})

\* What the open batch holds: records newer than all others, not yet passed by
\* the slave thread, which tell what becomes of the keys it writes.
Batch ==
  /\ \A w \in Writers : wpc[w] \in {"idle", "publish"} => wlog = NoLog /\ wdata = NoData
  /\ \A w \in Writers : wpc[w] \in {"put", "putok", "publish"} => last_seq < MaxSeq
  /\ \A w \in Writers : wpc[w] = "put" => \A s \in Recorded(wlog) : s = last_seq + 1
  /\ \A w \in Writers : wpc[w] \in {"mset", "del"} => \A s \in Recorded(wlog) : s <= last_seq
  /\ Writing =>
       /\ \A s \in Recorded(wlog) :
            /\ cur_seq <= s
            /\ spc \in {"send", "reply", "delete"} => cur_seq < s
            /\ \A t \in Recorded(log) : t < s
            /\ wdata[wlog[s].key] # Keep
            /\ Newest(wlog, s) => (wlog[s].cmd = "del" <=> wdata[wlog[s].key] = NoVal)
       /\ \A k \in Keys : wdata[k] # Keep => RecordsOf(wlog, k) # {}

\* What the slave thread is about to send, has sent, or has had confirmed.
Sending ==
  /\ spc \in {"send", "reply"} =>
       /\ send_buf \in Request
       /\ log[cur_seq] # NoRec
       /\ send_buf.key = log[cur_seq].key
       /\ Newest(log, cur_seq) => send_buf.val = db[send_buf.key]
  /\ wire \in {"SYNC", "OK", "ERROR"} => spc = "reply"
  /\ wire \in {"PING", "PONG"} => spc = "pong"
  /\ wire = "OK" => sdb[send_buf.key] = send_buf.val
  /\ spc = "delete" /\ log[cur_seq] # NoRec /\ Newest(log, cur_seq)
       => sdb[log[cur_seq].key] = db[log[cur_seq].key]

\* A request left behind is for a key with a pending record.
Leftover ==
  late # NoMsg =>
    /\ spc \in {"connect", "beat", "pong"} /\ wire # "PONG"
    /\ RecordsOf(log, late.key) # {}

\* The slave differs only where records are.
DiffIsRecorded == \A k \in Keys : RecordsOf(log, k) = {} => sdb[k] = db[k]

IInv ==
  TypeOK /\ Window /\ Batch /\ NewestRecordCurrent /\ Sending /\ Leftover
  /\ DiffIsRecorded
-----------------------------------------------------------------------------
(* Least and greatest elements, for MinSeq and LastSeq *)

\* A set of naturals that is not empty has a least element: the first record
\* binlog_open looks for exists when there is a record.
LEMMA LeastExists ==
  ASSUME NEW S \in SUBSET Nat, S # {}
  PROVE  \E s \in S : \A t \in S : s <= t
<1>1. PICK x \in S : \A y \in S : ~(<<y, x>> \in OpToRel(<, Nat))
  BY WFMin, NatLessThanWellFounded
<1>2. \A y \in S : y < x => <<y, x>> \in OpToRel(<, Nat)
  <2> TAKE y \in S
  <2> HAVE y < x
  <2>1. <<y, x>> \in Nat \X Nat
    OBVIOUS
  <2>2. <<y, x>>[1] < <<y, x>>[2]
    OBVIOUS
  <2> QED BY <2>1, <2>2 DEF OpToRel
<1>3. \A y \in S : ~(y < x)
  BY <1>1, <1>2
<1> QED BY <1>3

\* The same for the greatest element of a bounded set: the last record.
LEMMA GreatestExists ==
  ASSUME NEW n \in Nat, NEW S \in SUBSET (1..n), S # {}
  PROVE  \E s \in S : \A t \in S : t <= s
<1> DEFINE D == {n - s : s \in S}
<1>1. D \in SUBSET Nat
  OBVIOUS
<1>2. D # {}
  <2> PICK s \in S : TRUE
    OBVIOUS
  <2>1. n - s \in D
    OBVIOUS
  <2> QED BY <2>1
<1>3. PICK d \in D : \A e \in D : d <= e
  <2> HIDE DEF D
  <2> QED BY <1>1, <1>2, LeastExists
<1>4. PICK s \in S : d = n - s
  OBVIOUS
<1>5. \A t \in S : n - s <= n - t
  BY <1>3, <1>4
<1> QED BY <1>5

\* What binlog_open reads back, for a store with and without records.
LEMMA SeqsRead ==
  ASSUME Orderly, TypeOK
  PROVE  /\ Recorded(log) = {} => MinSeq = 1 /\ LastSeq = 0
         /\ Recorded(log) # {} =>
              /\ MinSeq \in Recorded(log) /\ LastSeq \in Recorded(log)
              /\ \A t \in Recorded(log) : MinSeq <= t /\ t <= LastSeq
<1>1. CASE Recorded(log) = {}
  BY <1>1 DEF MinSeq, LastSeq, Orderly
<1>2. CASE Recorded(log) # {}
  <2>1. Recorded(log) \in SUBSET Nat /\ Recorded(log) \in SUBSET (1..MaxSeq)
    BY DEF Recorded, Seqs
  <2>2. \E s \in Recorded(log) : \A t \in Recorded(log) : s <= t
    BY <1>2, <2>1, LeastExists
  <2>3. \E s \in Recorded(log) : \A t \in Recorded(log) : t <= s
    BY <1>2, <2>1, SyncConstants, GreatestExists
  <2> QED BY <1>2, <2>2, <2>3 DEF MinSeq, LastSeq
<1> QED BY <1>1, <1>2

-----------------------------------------------------------------------------
(* The invariant is inductive *)

\* The invariant holds before the first command.
LEMMA InitInv == Init => IInv
  BY SyncConstants
     DEF Init, IInv, TypeOK, Window, Batch, Writing, NewestRecordCurrent, Sending,
         Leftover, DiffIsRecorded, Recorded, RecordsOf, Newest, WriterPC, SlavePC,
         Stored, Request, Record, Seqs, NoLog, NoData

\* What a connection that ends leaves with the slave host is nothing, or a
\* request for a key with a pending record.
LEMMA LeavesPending ==
  ASSUME IInv
  PROVE  /\ LeftBehind \in Request \cup {NoMsg}
         /\ LeftBehind # NoMsg => RecordsOf(log, LeftBehind.key) # {}
<1>1. CASE wire = "SYNC"
  <2>1. /\ send_buf \in Request /\ cur_seq \in Seqs
        /\ log[cur_seq] # NoRec /\ send_buf.key = log[cur_seq].key
    BY <1>1, SyncConstants DEF IInv, Sending, Window, TypeOK, Seqs
  <2>2. cur_seq \in RecordsOf(log, send_buf.key)
    BY <2>1 DEF RecordsOf, Recorded
  <2> QED BY <1>1, <2>1, <2>2 DEF LeftBehind
<1>2. CASE wire # "SYNC"
  BY <1>2 DEF IInv, Leftover, TypeOK, LeftBehind
<1> QED BY <1>1, <1>2

\* A restart loses the batch and the place of the slave thread, and finds both
\* ends of the records again.
LEMMA RestartStep ==
  ASSUME Orderly, IInv, Restart
  PROVE  IInv'
<1> USE SyncConstants DEF IInv
<1>1. /\ Recorded(log) = {} => cur_seq' = 1 /\ last_seq' = 0
      /\ Recorded(log) # {} =>
           /\ cur_seq' \in Recorded(log) /\ last_seq' \in Recorded(log)
           /\ \A t \in Recorded(log) : cur_seq' <= t /\ t <= last_seq'
  BY SeqsRead DEF Restart
<1>2. cur_seq' \in 1..(MaxSeq + 1) /\ last_seq' \in 0..MaxSeq
  BY <1>1 DEF Recorded, Seqs
<1>3. /\ late' \in Request \cup {NoMsg}
      /\ late' # NoMsg => RecordsOf(log, late'.key) # {}
  BY LeavesPending DEF Restart
<1>4. TypeOK'
  BY <1>2, <1>3 DEF Restart, TypeOK, WriterPC, SlavePC, NoLog, NoData
<1>5. Window'
  <2>1. cur_seq' <= last_seq' + 1
    <3>1. CASE Recorded(log) = {}
      BY <1>1, <3>1
    <3>2. CASE Recorded(log) # {}
      <4>1. cur_seq' <= last_seq'
        BY <1>1, <3>2
      <4>2. cur_seq' \in Int /\ last_seq' \in Int
        BY <1>1, <3>2 DEF Recorded, Seqs
      <4>3. \A i, j \in Int : i <= j => i <= j + 1
        OBVIOUS
      <4> QED BY <4>1, <4>2, <4>3
    <3> QED BY <3>1, <3>2
  <2> QED BY <1>1, <2>1 DEF Restart, Window, Recorded
<1>6. Batch' /\ NewestRecordCurrent' /\ Sending' /\ DiffIsRecorded'
  BY DEF Restart, Batch, Writing, NewestRecordCurrent, Sending, DiffIsRecorded,
         Recorded, RecordsOf, Newest, Orderly, TypeOK
<1>7. Leftover'
  BY <1>3 DEF Restart, Leftover, Recorded, RecordsOf
<1> QED BY <1>4, <1>5, <1>6, <1>7

\* An entry appended to the batch is the newest record of its key, and newer
\* than every record of the store.
LEMMA Appended ==
  ASSUME Orderly, IInv, NEW w \in Writers, wpc[w] \in {"idle", "mset", "del"},
         NEW rec \in Record, NEW v \in Stored, rec.cmd = "del" <=> v = NoVal,
         Append(last_seq + 1, rec, v), UNCHANGED <<log, spc, cur_seq>>
  PROVE  /\ wpc[w] = "idle" => \A s \in Recorded(wlog') : s = last_seq + 1
         /\ \A s \in Recorded(wlog') :
              /\ s <= last_seq + 1
              /\ cur_seq <= s
              /\ spc \in {"send", "reply", "delete"} => cur_seq < s
              /\ \A t \in Recorded(log) : t < s
              /\ wdata'[wlog'[s].key] # Keep
              /\ Newest(wlog', s)
                   => (wlog'[s].cmd = "del" <=> wdata'[wlog'[s].key] = NoVal)
         /\ \A k \in Keys : wdata'[k] # Keep => RecordsOf(wlog', k) # {}
<1> USE SyncConstants DEF IInv
<1> DEFINE n == last_seq + 1
<1>1. /\ n \in Seqs /\ rec # NoRec /\ v # Keep
      /\ rec.key \in Keys
      /\ wlog' = [wlog EXCEPT ![n] = rec]
      /\ wdata' = [wdata EXCEPT ![rec.key] = v]
  BY DEF Append, Stored, Record
<1>2. /\ cur_seq <= n
      /\ spc \in {"send", "reply", "delete"} => cur_seq < n
      /\ \A t \in Recorded(log) : t < n
      /\ \A s \in Recorded(wlog) : s < n
      /\ wpc[w] = "idle" => Recorded(wlog) = {} /\ wdata = NoData
  BY DEF TypeOK, Window, Batch, Orderly, Recorded, NoLog, Seqs
<1>3. /\ Recorded(wlog') = Recorded(wlog) \cup {n}
      /\ n \notin Recorded(wlog)
      /\ wlog'[n] = rec
      /\ \A s \in Recorded(wlog) : wlog'[s] = wlog[s]
      /\ wdata'[rec.key] = v
      /\ \A k \in Keys : k # rec.key => wdata'[k] = wdata[k]
  <2> HIDE DEF n
  <2> QED BY <1>1, <1>2 DEF TypeOK, Recorded, Seqs
<1>4. \A k \in Keys : RecordsOf(wlog', k)
                        = IF k = rec.key THEN RecordsOf(wlog, k) \cup {n}
                          ELSE RecordsOf(wlog, k)
  <2> HIDE DEF n
  <2> QED BY <1>3 DEF RecordsOf
<1>5. ASSUME NEW s \in Recorded(wlog)
      PROVE  /\ wpc[w] # "idle"
             /\ s <= last_seq /\ cur_seq <= s
             /\ spc \in {"send", "reply", "delete"} => cur_seq < s
             /\ \A t \in Recorded(log) : t < s
             /\ wlog[s].key \in Keys
             /\ wdata[wlog[s].key] # Keep
             /\ Newest(wlog, s) => (wlog[s].cmd = "del" <=> wdata[wlog[s].key] = NoVal)
  BY <1>2, <1>5 DEF TypeOK, Batch, Writing, Recorded, Record
<1>6. ASSUME NEW s \in Recorded(wlog'), Newest(wlog', s)
      PROVE  wlog'[s].cmd = "del" <=> wdata'[wlog'[s].key] = NoVal
  <2>1. CASE s = n
    BY <2>1, <1>3
  <2>2. CASE s # n
    <3> HIDE DEF n
    <3>1. s \in Recorded(wlog) /\ wlog'[s] = wlog[s] /\ wlog[s].key \in Keys /\ s < n
      BY <2>2, <1>2, <1>3, <1>5
    <3>2. wlog[s].key # rec.key
      <4>1. SUFFICES ASSUME wlog[s].key = rec.key PROVE FALSE
        OBVIOUS
      <4>2. n \in RecordsOf(wlog', wlog'[s].key)
        BY <4>1, <3>1, <1>1, <1>4
      <4>3. n <= s
        BY <4>2, <1>6 DEF Newest
      <4>4. s \in Int /\ n \in Int
        BY <1>1, <3>1 DEF Recorded, Seqs
      <4> QED BY <4>3, <4>4, <3>1
    <3>3. Newest(wlog, s)
      BY <3>1, <3>2, <1>4, <1>6 DEF Newest
    <3>4. wdata'[wlog[s].key] = wdata[wlog[s].key]
      BY <3>1, <3>2, <1>3
    <3>5. wlog[s].cmd = "del" <=> wdata[wlog[s].key] = NoVal
      BY <3>1, <3>3, <1>5
    <3> QED BY <3>1, <3>4, <3>5
  <2> QED BY <2>1, <2>2
<1>7. ASSUME NEW k \in Keys, wdata'[k] # Keep
      PROVE  RecordsOf(wlog', k) # {}
  <2>1. CASE k = rec.key
    BY <2>1, <1>4
  <2>2. CASE k # rec.key
    <3>1. wdata[k] # Keep
      BY <2>2, <1>3, <1>7
    <3>2. wpc[w] \in {"mset", "del"}
      BY <3>1, <1>2 DEF NoData
    <3>3. RecordsOf(wlog, k) # {}
      BY <3>1, <3>2 DEF Batch, Writing
    <3> QED BY <2>2, <3>3, <1>4
  <2> QED BY <2>1, <2>2
<1>8. \A s \in Recorded(wlog') : wdata'[wlog'[s].key] # Keep
  <2> HIDE DEF n
  <2> QED BY <1>1, <1>3, <1>5
<1>9. \A s \in Recorded(wlog') : s = n \/ s \in Recorded(wlog)
  BY <1>3
<1>10. last_seq \in Nat /\ cur_seq \in Nat
  BY DEF TypeOK
<1>11. wpc[w] = "idle" => \A s \in Recorded(wlog') : s = last_seq + 1
  BY <1>2, <1>9
<1>12. ASSUME NEW s \in Recorded(wlog')
       PROVE  /\ s <= last_seq + 1 /\ cur_seq <= s
              /\ spc \in {"send", "reply", "delete"} => cur_seq < s
              /\ \A t \in Recorded(log) : t < s
  <2>1. CASE s = n
    BY <2>1, <1>2, <1>10
  <2>2. CASE s \in Recorded(wlog)
    <3>1. s \in Int
      BY <2>2 DEF Recorded, Seqs
    <3> QED BY <2>2, <3>1, <1>5, <1>10
  <2> QED BY <2>1, <2>2, <1>9
<1> HIDE DEF n
<1> QED BY <1>6, <1>7, <1>8, <1>11, <1>12

\* binlog_put fills the batch with one record and one value.
LEMMA PutBeginStep ==
  ASSUME Orderly, IInv, NEW w \in Writers, NEW k \in Keys, NEW v \in Written,
         PutBegin(w, k, v)
  PROVE  IInv'
<1> USE SyncConstants DEF IInv
<1> DEFINE rec == [cmd |-> "set", key |-> k]
<1>1. rec \in Record /\ v \in Stored /\ (rec.cmd = "del" <=> v = NoVal) /\ v # Keep
  BY DEF Record, Stored
<1>2. /\ \A s \in Recorded(wlog') :
           /\ s = last_seq + 1
           /\ cur_seq <= s
           /\ spc \in {"send", "reply", "delete"} => cur_seq < s
           /\ \A t \in Recorded(log) : t < s
           /\ wdata'[wlog'[s].key] # Keep
           /\ Newest(wlog', s)
                => (wlog'[s].cmd = "del" <=> wdata'[wlog'[s].key] = NoVal)
      /\ \A j \in Keys : wdata'[j] # Keep => RecordsOf(wlog', j) # {}
  <2> HIDE DEF rec
  <2>1. wpc[w] = "idle" /\ Append(last_seq + 1, rec, v) /\ UNCHANGED <<log, spc, cur_seq>>
    BY DEF PutBegin, rec
  <2> QED BY <1>1, <2>1, Appended
<1>3. /\ UNCHANGED <<db, log, last_seq, cur_seq, spc, send_buf, wire, late, sdb>>
      /\ wpc' = [wpc EXCEPT ![w] = "put"] /\ wpc[w] = "idle"
      /\ last_seq < MaxSeq
      /\ wlog' \in [Seqs -> Record \cup {NoRec}]
      /\ wdata' \in [Keys -> Stored \cup {Keep}]
  BY <1>1 DEF PutBegin, Append, Seqs, TypeOK
<1>4. Batch'
  <2>1. \A u \in Writers : u = w /\ wpc'[u] = "put"
    BY <1>3 DEF Orderly, TypeOK
  <2> QED BY <1>2, <1>3, <2>1 DEF Batch, Writing, Recorded, RecordsOf, Newest
<1> HIDE DEF rec
<1> QED
  BY <1>3, <1>4 DEF Orderly, TypeOK, Window, NewestRecordCurrent, Sending, Leftover,
     DiffIsRecorded, Recorded, RecordsOf, Newest, WriterPC

\* BatchPut and BatchDelete: one more entry, and its number is used up.
LEMMA BatchStep ==
  ASSUME Orderly, IInv, NEW w \in Writers, NEW rec \in Record, NEW v \in Stored,
         rec.cmd = "del" <=> v = NoVal, NEW cmd \in {"mset", "del"},
         wpc[w] \in {"idle", cmd},
         Append(last_seq + 1, rec, v),
         last_seq' = last_seq + 1, wpc' = [wpc EXCEPT ![w] = cmd],
         UNCHANGED <<db, log, cur_seq, spc, send_buf, wire, late, sdb>>
  PROVE  IInv'
<1> USE SyncConstants DEF IInv
<1>1. /\ \A s \in Recorded(wlog') :
           /\ s <= last_seq + 1
           /\ cur_seq <= s
           /\ spc \in {"send", "reply", "delete"} => cur_seq < s
           /\ \A t \in Recorded(log) : t < s
           /\ wdata'[wlog'[s].key] # Keep
           /\ Newest(wlog', s)
                => (wlog'[s].cmd = "del" <=> wdata'[wlog'[s].key] = NoVal)
      /\ \A j \in Keys : wdata'[j] # Keep => RecordsOf(wlog', j) # {}
  BY Appended
<1>2. /\ last_seq < MaxSeq
      /\ wlog' \in [Seqs -> Record \cup {NoRec}]
      /\ wdata' \in [Keys -> Stored \cup {Keep}]
  BY DEF Append, Seqs, TypeOK, Record
<1>3. Batch'
  <2>1. \A u \in Writers : u = w /\ wpc'[u] = cmd
    BY DEF Orderly, TypeOK
  <2> QED BY <1>1, <1>2, <2>1 DEF Batch, Writing, Recorded, RecordsOf, Newest
<1>4. wpc' \in [Writers -> WriterPC]
  BY DEF TypeOK, WriterPC
<1>5. TypeOK'
  BY <1>2, <1>4 DEF TypeOK
<1>6. Window'
  <2>1. \A s \in Recorded(log) : s <= last_seq
    BY DEF Orderly, Window
  <2> QED BY <1>2, <2>1 DEF TypeOK, Window, Recorded, Seqs
<1> QED
  BY <1>3, <1>5, <1>6 DEF NewestRecordCurrent, Sending, Leftover,
     DiffIsRecorded, Recorded, RecordsOf, Newest

\* The batch is written: its records are the newest of the keys it writes, and
\* the slave thread is not at one of them.
LEMMA WriteStep ==
  ASSUME Orderly, IInv, NEW w \in Writers, Write(w)
  PROVE  IInv'
<1> USE SyncConstants DEF IInv
<1>1. /\ \A s \in Recorded(wlog) : log'[s] = wlog[s] /\ log'[s] # NoRec
      /\ \A s \in Seqs \ Recorded(wlog) : log'[s] = log[s]
      /\ \A k \in Keys : db'[k] = IF wdata[k] = Keep THEN db[k] ELSE wdata[k]
      /\ Recorded(log) \cap Recorded(wlog) = {}
      /\ Recorded(log') = Recorded(log) \cup Recorded(wlog)
  BY DEF Write, Batch, Writing, TypeOK, Recorded, Seqs
<1>2. \A k \in Keys : RecordsOf(log', k) = RecordsOf(log, k) \cup RecordsOf(wlog, k)
  BY <1>1 DEF RecordsOf, Recorded
<1>3. \A k \in Keys : RecordsOf(wlog, k) = {} => db'[k] = db[k]
  BY <1>1 DEF Write, Batch, Writing
<1>4. TypeOK'
  BY DEF Write, TypeOK, WriterPC, Stored, batchVars
<1>5. Window' /\ Batch'
  <2>1. \A u \in Writers : u = w
    BY DEF Orderly
  <2>2. \A s \in Recorded(log') :
          /\ cur_seq <= s
          /\ s <= last_seq \/ (s = last_seq + 1 /\ wpc[w] = "put")
    BY <1>1, <2>1 DEF Write, Window, Batch, Writing
  <2>3. Window'
    BY <2>2 DEF Write, Window, TypeOK
  <2>4. Batch'
    BY <2>1 DEF Write, Batch, Writing, TypeOK, batchVars
  <2> QED BY <2>3, <2>4
<1>9. NewestRecordCurrent'
  BY DEF Write, Orderly, TypeOK, Window, Batch, Writing, NewestRecordCurrent,
         Recorded, RecordsOf, Newest, Seqs, Record, Stored
<1>10. DiffIsRecorded'
  BY <1>2, <1>3 DEF Write, DiffIsRecorded
<1>6. Leftover'
  BY <1>2 DEF Write, Leftover, TypeOK, Request
<1>7. ASSUME spc \in {"send", "reply", "delete"}
      PROVE  /\ log'[cur_seq] = log[cur_seq]
             /\ log[cur_seq] # NoRec /\ (Newest(log, cur_seq))'
                  => Newest(log, cur_seq) /\ db'[log[cur_seq].key] = db[log[cur_seq].key]
  <2>1. cur_seq \in Seqs
    BY <1>7 DEF TypeOK, Window, Seqs
  <2>2. cur_seq \notin Recorded(wlog)
    BY <1>7, <2>1 DEF Write, Batch, Writing, Seqs
  <2>3. log'[cur_seq] = log[cur_seq]
    BY <2>1, <2>2, <1>1
  <2>4. ASSUME log[cur_seq] # NoRec, (Newest(log, cur_seq))'
        PROVE  Newest(log, cur_seq) /\ db'[log[cur_seq].key] = db[log[cur_seq].key]
    <3> DEFINE k == log[cur_seq].key
    <3>1. k \in Keys
      BY <2>1, <2>4 DEF TypeOK, Record
    <3>2. \A t \in RecordsOf(log', k) : t <= cur_seq
      BY <2>3, <2>4 DEF Newest, Write
    <3>3. RecordsOf(wlog, k) = {}
      <4>1. \A t \in RecordsOf(wlog, k) : cur_seq < t /\ t \in Int
        BY <1>7 DEF Write, Batch, Writing, RecordsOf, Recorded, Seqs
      <4>2. cur_seq \in Int
        BY DEF TypeOK
      <4> HIDE DEF k
      <4> QED BY <3>1, <3>2, <4>1, <4>2, <1>2
    <3>4. Newest(log, cur_seq)
      BY <3>1, <3>2, <1>2 DEF Newest
    <3> QED BY <3>1, <3>3, <3>4, <1>3
  <2> QED BY <2>3, <2>4
<1>8. Sending'
  <2>1. UNCHANGED <<spc, cur_seq, send_buf, wire, sdb>>
    BY DEF Write
  <2> QED BY <1>7, <2>1 DEF Sending
<1> QED BY <1>4, <1>5, <1>6, <1>8, <1>9, <1>10

\* What is skipped as expired is not the newest record of its key.
LEMMA GetExpiredStep ==
  ASSUME Orderly, IInv, GetExpired
  PROVE  IInv'
<1> USE SyncConstants DEF IInv
<1>1. /\ cur_seq \in Seqs /\ cur_seq <= last_seq
      /\ \A s \in Recorded(wlog) : Writing => cur_seq < s
  BY DEF GetExpired, InLoop, MayRead, Orderly, TypeOK, Batch, Writing, Seqs
<1>2. ASSUME log[cur_seq] # NoRec
      PROVE  ~Newest(log, cur_seq)
  <2>1. /\ log[cur_seq] \in Record /\ log[cur_seq].key \in Keys
        /\ log[cur_seq].cmd = "set"
        /\ Missing(db[log[cur_seq].key])
    BY <1>1, <1>2 DEF GetExpired, Expired, TypeOK, Record
  <2>2. db[log[cur_seq].key] = NoVal
    <3>1. db[log[cur_seq].key] \in Stored
      BY <2>1 DEF TypeOK
    <3> QED BY <2>1, <3>1 DEF Missing, Stored, Orderly
  <2>3. cur_seq \in RecordsOf(log, log[cur_seq].key)
    BY <1>1, <1>2 DEF RecordsOf, Recorded
  <2> QED BY <2>1, <2>2, <2>3 DEF NewestRecordCurrent, Newest
<1>3. Batch'
  BY <1>1 DEF GetExpired, InLoop, SlaveOnly, masterVars, batchVars, Batch, Writing,
              Recorded, RecordsOf, Newest
<1>4. TypeOK' /\ Window' /\ NewestRecordCurrent' /\ Leftover' /\ DiffIsRecorded'
  BY <1>1 DEF GetExpired, InLoop, SlaveOnly, masterVars, batchVars, TypeOK, SlavePC,
     Window, NewestRecordCurrent, Leftover, DiffIsRecorded, Recorded, RecordsOf
<1>5. Sending'
  BY <1>2 DEF GetExpired, InLoop, SlaveOnly, masterVars, Sending, RecordsOf, Recorded,
     Newest
<1> QED BY <1>3, <1>4, <1>5

\* The request of the newest record of a key carries what the master has.
LEMMA GetBinlogStep ==
  ASSUME Orderly, IInv, GetBinlog
  PROVE  IInv'
<1> USE SyncConstants DEF IInv
<1> DEFINE rec == log[cur_seq]
<1>1. /\ cur_seq \in Seqs /\ cur_seq <= last_seq
      /\ \A s \in Recorded(wlog) : Writing => cur_seq < s
      /\ rec # NoRec /\ rec \in Record /\ rec.key \in Keys
  BY DEF GetBinlog, InLoop, MayRead, Expired, Orderly, TypeOK, Batch, Writing, Seqs, Record
<1>2. db[rec.key] \in Stored
  BY <1>1 DEF TypeOK
<1>3. /\ send_buf' = [key |-> rec.key,
                      val |-> IF rec.cmd = "set" THEN db[rec.key] ELSE NoVal]
      /\ spc' = "send" /\ wire' = wire /\ spc = "loop"
      /\ UNCHANGED <<db, log, last_seq, cur_seq, wlog, wdata, wpc, late, sdb>>
  BY DEF GetBinlog, InLoop, SlaveOnly, masterVars, batchVars
<1>4. send_buf' \in Request /\ send_buf'.key = rec.key
  BY <1>1, <1>2, <1>3 DEF Request, Stored
<1>5. Newest(log, cur_seq) => send_buf'.val = db[rec.key]
  <2>1. rec.cmd \in {"set", "del"}
    BY <1>1 DEF Record
  <2>2. cur_seq \in RecordsOf(log, rec.key)
    BY <1>1 DEF RecordsOf, Recorded
  <2>3. Newest(log, cur_seq) => (rec.cmd = "del" <=> db[rec.key] = NoVal)
    BY <1>1, <2>2 DEF NewestRecordCurrent, Newest
  <2> HIDE DEF rec
  <2> QED BY <1>3, <2>1, <2>3
<1>6. Batch'
  BY <1>1, <1>3 DEF Batch, Writing, Recorded, RecordsOf, Newest
<1>7. TypeOK'
  BY <1>1, <1>3, <1>4 DEF TypeOK, SlavePC
<1>8. Window' /\ NewestRecordCurrent' /\ Leftover' /\ DiffIsRecorded'
  BY <1>1, <1>3 DEF Window, NewestRecordCurrent, Leftover, DiffIsRecorded, Recorded,
     RecordsOf
<1>10. Sending'
  BY <1>1, <1>3, <1>4, <1>5 DEF Sending, RecordsOf, Recorded, Newest
<1> QED BY <1>6, <1>7, <1>8, <1>10

\* A record is deleted when its request was confirmed or was not needed.
LEMMA DelBinlogStep ==
  ASSUME Orderly, IInv, DelBinlog
  PROVE  IInv'
<1> USE SyncConstants DEF IInv
<1>5. /\ spc = "delete" /\ cur_seq \in Seqs /\ log \in [Seqs -> Record \cup {NoRec}]
      /\ log' = [log EXCEPT ![cur_seq] = NoRec]
      /\ UNCHANGED <<db, sdb>>
      /\ \A s \in Recorded(log) : cur_seq <= s
  BY DEF DelBinlog, NextSeq, TypeOK, Window, Seqs
<1>6. /\ Recorded(log') = Recorded(log) \ {cur_seq}
      /\ \A s \in Recorded(log') : log'[s] = log[s]
      /\ \A k \in Keys : RecordsOf(log', k) = RecordsOf(log, k) \ {cur_seq}
  BY <1>5 DEF Recorded, RecordsOf
<1>1. DiffIsRecorded'
  <2> SUFFICES ASSUME NEW k \in Keys, RecordsOf(log, k) \subseteq {cur_seq}
               PROVE  sdb[k] = db[k]
    BY <1>5, <1>6 DEF DiffIsRecorded
  <2>1. CASE RecordsOf(log, k) = {}
    BY <2>1 DEF DiffIsRecorded
  <2>2. CASE RecordsOf(log, k) = {cur_seq}
    <3>1. log[cur_seq] # NoRec /\ log[cur_seq].key = k
      BY <2>2 DEF RecordsOf, Recorded
    <3>2. Newest(log, cur_seq)
      BY <1>5, <2>2, <3>1 DEF Newest, Seqs
    <3> QED BY <1>5, <3>1, <3>2 DEF Sending
  <2> QED BY <2>1, <2>2
<1>2. TypeOK'
  BY <1>5 DEF DelBinlog, NextSeq, batchVars, TypeOK, SlavePC, Window, Seqs
<1>7. Window'
  <2>1. \A s \in Recorded(log') : cur_seq + 1 <= s
    BY <1>5, <1>6 DEF Recorded, Seqs
  <2>2. /\ UNCHANGED <<last_seq, wpc>> /\ cur_seq' = cur_seq + 1 /\ spc' = "loop"
        /\ cur_seq <= last_seq /\ cur_seq \in Int /\ last_seq \in Int
    BY DEF DelBinlog, NextSeq, Window, TypeOK
  <2>3. cur_seq' <= last_seq' + 1
    BY <2>2
  <2>4. \A s \in Recorded(log') : s \in Recorded(log)
    BY <1>6
  <2> QED BY <2>1, <2>2, <2>3, <2>4 DEF Window
<1>8. Batch'
  <2>1. UNCHANGED <<last_seq, wlog, wdata, wpc>> /\ cur_seq' = cur_seq + 1 /\ spc' = "loop"
    BY DEF DelBinlog, NextSeq, batchVars
  <2>2. Writing => \A s \in Recorded(wlog) : cur_seq + 1 <= s
    BY <1>5 DEF Batch, Recorded, Seqs
  <2>3. \A t \in Recorded(log') : t \in Recorded(log)
    BY <1>6
  <2> QED BY <2>1, <2>2, <2>3 DEF Batch, Writing, Recorded, RecordsOf, Newest
<1>3. NewestRecordCurrent'
  <2> SUFFICES ASSUME NEW k \in Keys, NEW s \in RecordsOf(log', k),
                      \A t \in RecordsOf(log', k) : t <= s
               PROVE  log'[s].cmd = "del" <=> db'[k] = NoVal
    BY DEF NewestRecordCurrent
  <2>1. s \in RecordsOf(log, k) /\ s \in Recorded(log') /\ s \in Recorded(log)
    BY <1>6 DEF RecordsOf
  <2>2. \A t \in RecordsOf(log, k) : t <= s
    BY <1>5, <1>6, <2>1
  <2> QED BY <1>5, <1>6, <2>1, <2>2 DEF NewestRecordCurrent
<1>4. Sending' /\ Leftover'
  BY DEF DelBinlog, NextSeq, TypeOK, Sending, Leftover
<1> QED BY <1>1, <1>2, <1>3, <1>4, <1>7, <1>8

\* The slave host writes a key with a pending record.
LEMMA ServeStep ==
  ASSUME Orderly, IInv, ServeSync \/ ServeLate
  PROVE  IInv'
<1> USE SyncConstants DEF IInv
<1>1. ASSUME NEW req \in Request
      PROVE  /\ Applied(req) \in [Keys -> Stored]
             /\ Applied(req)[req.key] = req.val
             /\ \A k \in Keys : k # req.key => Applied(req)[k] = sdb[k]
  <2>1. req.key \in Keys /\ req.val \in Stored
    BY DEF Request
  <2>2. Missing(sdb[req.key]) => sdb[req.key] = NoVal
    <3>1. sdb[req.key] \in Stored
      BY <2>1 DEF TypeOK
    <3> QED BY <3>1 DEF Missing, Stored, Orderly
  <2> QED BY <2>1, <2>2 DEF Applied, TypeOK
<1>2. CASE ServeSync
  <2>1. /\ spc = "reply" /\ send_buf \in Request /\ cur_seq \in Seqs
        /\ log[cur_seq] # NoRec /\ send_buf.key = log[cur_seq].key
    BY <1>2 DEF ServeSync, Sending, Window, TypeOK, Seqs
  <2>2. cur_seq \in RecordsOf(log, send_buf.key)
    BY <2>1 DEF RecordsOf, Recorded
  <2>3. /\ sdb' = Applied(send_buf) /\ wire' = "OK"
        /\ UNCHANGED <<db, log, last_seq, cur_seq, wlog, wdata, wpc, spc, send_buf, late>>
    BY <1>2 DEF ServeSync, masterVars, batchVars
  <2>4. TypeOK' /\ Window' /\ Batch' /\ NewestRecordCurrent'
    BY <1>1, <2>1, <2>3 DEF TypeOK, Window, Batch, Writing, NewestRecordCurrent,
       Recorded, RecordsOf, Newest
  <2>5. DiffIsRecorded'
    BY <1>1, <2>1, <2>2, <2>3 DEF DiffIsRecorded, Recorded, RecordsOf
  <2>6. Sending' /\ Leftover'
    BY <1>1, <2>1, <2>3 DEF Sending, Leftover, Recorded, RecordsOf, Newest
  <2> QED BY <2>4, <2>5, <2>6
<1>3. CASE ServeLate
  <2>1. /\ late \in Request /\ RecordsOf(log, late.key) # {}
        /\ spc \in {"connect", "beat", "pong"} /\ wire # "OK"
    BY <1>3 DEF ServeLate, Leftover, TypeOK, Sending
  <2>2. /\ sdb' = sdb \/ sdb' = Applied(late)
        /\ late' = NoMsg
        /\ UNCHANGED <<db, log, last_seq, cur_seq, wlog, wdata, wpc, spc, send_buf, wire>>
    BY <1>3 DEF ServeLate, masterVars, batchVars
  <2>3. TypeOK' /\ Window' /\ Batch' /\ NewestRecordCurrent'
    BY <1>1, <2>1, <2>2 DEF TypeOK, Window, Batch, Writing, NewestRecordCurrent,
       Recorded, RecordsOf, Newest
  <2>4. DiffIsRecorded'
    <3>1. \A k \in Keys : k # late.key => sdb'[k] = sdb[k]
      BY <1>1, <2>1, <2>2
    <3>2. \A k \in Keys : RecordsOf(log, k)' = RecordsOf(log, k)
      BY <2>2 DEF RecordsOf, Recorded
    <3> QED BY <2>1, <2>2, <3>1, <3>2 DEF DiffIsRecorded
  <2>5. Sending' /\ Leftover'
    BY <2>1, <2>2 DEF Sending, Leftover, Recorded, RecordsOf, Newest
  <2> QED BY <2>3, <2>4, <2>5
<1> QED BY <1>2, <1>3

\* The steps that leave the stores alone, or only end a command.
LEMMA QuietStep ==
  ASSUME Orderly, IInv,
         \/ \E w \in Writers : WriteFails(w) \/ Clear(w) \/ Publish(w)
         \/ Connect \/ Ping \/ RecvPong \/ LoseConnection \/ LoopEnds
         \/ SendRequest \/ RecvOk \/ RecvError
         \/ ServePing \/ ServeSyncFails
  PROVE  IInv'
<1> USE SyncConstants
    DEF Orderly, IInv, TypeOK, Window, Batch, Writing, NewestRecordCurrent, Sending,
        Leftover, DiffIsRecorded, Recorded, RecordsOf, Newest, WriterPC, SlavePC,
        Stored, Request, Record, Seqs, NoLog, NoData, SlaveOnly, masterVars, batchVars
<1>1. ASSUME NEW w \in Writers, WriteFails(w) PROVE IInv'
  BY <1>1 DEF WriteFails
<1>2. ASSUME NEW w \in Writers, Clear(w) PROVE IInv'
  BY <1>2 DEF Clear
<1>3. ASSUME NEW w \in Writers, Publish(w) PROVE IInv'
  BY <1>3 DEF Publish
<1>4. CASE Connect
  BY <1>4 DEF Connect
<1>5. CASE Ping
  BY <1>5 DEF Ping
<1>6. CASE RecvPong
  BY <1>6 DEF RecvPong
<1>7. CASE LoseConnection
  <2>1. LoseConnection
    BY <1>7
  <2>2. /\ LeftBehind \in Request \cup {NoMsg}
        /\ LeftBehind # NoMsg => RecordsOf(log, LeftBehind.key) # {}
    <3> HIDE DEF IInv, RecordsOf, Request
    <3> QED BY LeavesPending
  <2> QED BY <2>1, <2>2 DEF LoseConnection
<1>8. CASE LoopEnds
  BY <1>8 DEF LoopEnds, InLoop
<1>9. CASE SendRequest
  BY <1>9 DEF SendRequest
<1>10. CASE RecvOk
  BY <1>10 DEF RecvOk
<1>11. CASE RecvError
  BY <1>11 DEF RecvError
<1>12. CASE ServePing
  BY <1>12 DEF ServePing
<1>13. CASE ServeSyncFails
  BY <1>13 DEF ServeSyncFails
<1> HIDE DEF IInv
<1> QED BY <1>1, <1>2, <1>3, <1>4, <1>5, <1>6, <1>7, <1>8, <1>9, <1>10, <1>11,
           <1>12, <1>13

\* Every step of Next keeps the invariant: one case per action.
LEMMA NextInv ==
  ASSUME Orderly, IInv, [Next]_vars
  PROVE  IInv'
<1>1. CASE Restart
  BY <1>1, RestartStep
<1>2. ASSUME NEW w \in Writers, NEW k \in Keys, NEW v \in Written,
             PutBegin(w, k, v) \/ BatchPut(w, k, v)
      PROVE  IInv'
  <2>1. CASE PutBegin(w, k, v)
    BY <2>1, PutBeginStep
  <2>2. CASE BatchPut(w, k, v)
    <3> DEFINE rec == [cmd |-> "set", key |-> k]
    <3>1. rec \in Record /\ v \in Stored /\ (rec.cmd = "del" <=> v = NoVal)
      BY SyncConstants DEF Record, Stored
    <3> HIDE DEF rec
    <3>2. /\ wpc[w] \in {"idle", "mset"} /\ Append(last_seq + 1, rec, v)
          /\ last_seq' = last_seq + 1 /\ wpc' = [wpc EXCEPT ![w] = "mset"]
          /\ UNCHANGED <<db, log, cur_seq, spc, send_buf, wire, late, sdb>>
      BY <2>2 DEF BatchPut, rec
    <3> QED BY <3>1, <3>2, BatchStep
  <2> QED BY <1>2, <2>1, <2>2
<1>3. ASSUME NEW w \in Writers, NEW k \in Keys, BatchDelete(w, k)
      PROVE  IInv'
  <2> DEFINE rec == [cmd |-> "del", key |-> k]
  <2>1. rec \in Record /\ NoVal \in Stored /\ rec.cmd = "del"
    BY DEF Record, Stored
  <2> HIDE DEF rec
  <2>2. /\ wpc[w] \in {"idle", "del"} /\ Append(last_seq + 1, rec, NoVal)
        /\ last_seq' = last_seq + 1 /\ wpc' = [wpc EXCEPT ![w] = "del"]
        /\ UNCHANGED <<db, log, cur_seq, spc, send_buf, wire, late, sdb>>
    BY <1>3 DEF BatchDelete, rec
  <2> QED BY <2>1, <2>2, BatchStep
<1>4. ASSUME NEW w \in Writers, Write(w)
      PROVE  IInv'
  BY <1>4, WriteStep
<1>5. CASE GetExpired
  BY <1>5, GetExpiredStep
<1>6. CASE GetBinlog
  BY <1>6, GetBinlogStep
<1>7. CASE DelBinlog
  BY <1>7, DelBinlogStep
<1>8. CASE ServeSync \/ ServeLate
  BY <1>8, ServeStep
<1>9. CASE \/ \E w \in Writers : WriteFails(w) \/ Clear(w) \/ Publish(w)
           \/ Connect \/ Ping \/ RecvPong \/ LoseConnection \/ LoopEnds
           \/ SendRequest \/ RecvOk \/ RecvError
           \/ ServePing \/ ServeSyncFails
  BY <1>9, QuietStep
<1>10. ~DelBinlogFails
  BY DEF DelBinlogFails, Orderly
<1>11. CASE UNCHANGED vars
  BY <1>11 DEF vars, masterVars, batchVars, IInv, TypeOK, Window, Batch, Writing,
     NewestRecordCurrent, Sending, Leftover, DiffIsRecorded, Recorded, RecordsOf, Newest
<1> QED
  BY <1>1, <1>2, <1>3, <1>4, <1>5, <1>6, <1>7, <1>8, <1>9, <1>10, <1>11
     DEF Next, Writer, SlaveThread, SlaveHost

\* The inductive invariant holds in every reachable state.
THEOREM Invariant ==
  ASSUME Orderly
  PROVE  Spec => []IInv
<1>1. Init => IInv
  BY InitInv
<1>2. IInv /\ [Next]_vars => IInv'
  BY NextInv
<1> QED BY <1>1, <1>2, PTL DEF Spec

\* Each property follows from the invariant: all records are at or after
\* cur_seq, so that a key with a record has a pending one.
LEMMA InvImplies ==
  ASSUME IInv
  PROVE  /\ TypeOK /\ NewestRecordCurrent /\ NothingBehind /\ DiffIsPending
         /\ Dirty = {k \in Keys : RecordsOf(log, k) # {}}
<1>1. NothingBehind
  BY DEF IInv, Window, NothingBehind
<1>2. \A k \in Keys : \A s \in RecordsOf(log, k) : cur_seq <= s
  BY <1>1 DEF NothingBehind, RecordsOf
<1>3. Dirty = {k \in Keys : RecordsOf(log, k) # {}}
  BY <1>2 DEF Dirty
<1>4. DiffIsPending
  BY <1>2 DEF IInv, DiffIsRecorded, DiffIsPending
<1> QED BY <1>1, <1>3, <1>4 DEF IInv

\* Type correctness of the stores, the batch, the numbers and the buffers.
THEOREM Typed ==
  ASSUME Orderly
  PROVE  Spec => []TypeOK
  BY Invariant, InvImplies, PTL

\* For any keys and values, and whatever fails, every key on which the slave
\* differs from the master has a record the slave thread has yet to pass.
THEOREM NothingForgotten ==
  ASSUME Orderly
  PROVE  Spec => []DiffIsPending
  BY Invariant, InvImplies, PTL

\* The newest record of a key always tells whether the master still has it.
THEOREM ReplayEndsRight ==
  ASSUME Orderly
  PROVE  Spec => []NewestRecordCurrent
  BY Invariant, InvImplies, PTL

\* A start of the process never finds a record that was already confirmed.
THEOREM NoneBehind ==
  ASSUME Orderly
  PROVE  Spec => []NothingBehind
  BY Invariant, InvImplies, PTL

\* The binlog, the slave thread and the slave host implement Replica.
THEOREM Refinement ==
  ASSUME Orderly
  PROVE  Spec => ImplementsReplica
<1> USE SyncConstants
<1>1. Init => Copy!Init
  BY DEF Init, Copy!Init, Dirty, RecordsOf, Recorded, NoLog, Stored
<1>2. ASSUME IInv, IInv', [Next]_vars
      PROVE  [Copy!Next]_(Copy!vars)
  <2>1. /\ Dirty = {k \in Keys : RecordsOf(log, k) # {}}
        /\ Dirty' = {k \in Keys : RecordsOf(log', k) # {}}
    <3>1. Dirty = {k \in Keys : RecordsOf(log, k) # {}}
      BY <1>2, InvImplies
    <3>2. IInv => Dirty = {k \in Keys : RecordsOf(log, k) # {}}
      BY InvImplies
    <3>3. (IInv => Dirty = {k \in Keys : RecordsOf(log, k) # {}})'
      BY <1>2 DEF IInv, Window, Dirty, RecordsOf, Recorded
    <3> QED BY <3>1, <3>3, <1>2
  <2>2. CASE UNCHANGED <<db, log, sdb>>
    BY <2>1, <2>2 DEF Copy!vars
  <2>3. ASSUME NEW w \in Writers, Write(w)
        PROVE  Copy!Update
    <3> DEFINE K == {k \in Keys : RecordsOf(wlog, k) # {}}
    <3>1. Dirty' = Dirty \cup K
      <4>1. log' = [s \in Seqs |-> IF wlog[s] = NoRec THEN log[s] ELSE wlog[s]]
        BY <2>3 DEF Write
      <4>2. \A s \in Recorded(wlog), t \in Recorded(log) : t < s
        BY <1>2, <2>3 DEF IInv, Write, Batch, Writing
      <4>3. \A s \in Seqs : log[s] = NoRec \/ wlog[s] = NoRec
        BY <4>2, SyncConstants DEF Recorded, Seqs
      <4>4. \A k \in Keys : RecordsOf(log, k)' = RecordsOf(log, k) \cup RecordsOf(wlog, k)
        BY <4>1, <4>3 DEF RecordsOf, Recorded
      <4> QED BY <2>1, <4>4
    <3>2. \A k \in Keys \ K : db'[k] = db[k]
      BY <1>2, <2>3 DEF IInv, Write, Batch, Writing
    <3>3. db' \in [Keys -> Stored] /\ sdb' = sdb
      BY <1>2, <2>3 DEF IInv, TypeOK, Write
    <3> HIDE DEF K
    <3>4. K \in SUBSET Keys
      BY DEF K
    <3> QED BY <3>1, <3>2, <3>3, <3>4 DEF Copy!Update
  <2>4. ASSUME DelBinlog
        PROVE  [\E k \in Keys : Copy!Settle(k)]_(Copy!vars)
    <3>1. /\ cur_seq \in Seqs /\ log' = [log EXCEPT ![cur_seq] = NoRec]
          /\ UNCHANGED <<db, sdb>> /\ log \in [Seqs -> Record \cup {NoRec}]
          /\ \A s \in Recorded(log) : cur_seq <= s
      BY <1>2, <2>4 DEF IInv, TypeOK, Window, DelBinlog, NextSeq, Seqs
    <3>2. CASE log[cur_seq] = NoRec
      <4>1. log' = log
        BY <3>1, <3>2
      <4> QED BY <4>1, <3>1, <2>1 DEF Copy!vars
    <3>3. CASE log[cur_seq] # NoRec
      <4> DEFINE k == log[cur_seq].key
      <4>1. k \in Keys /\ cur_seq \in RecordsOf(log, k)
        BY <3>1, <3>3 DEF Record, RecordsOf, Recorded
      <4>2. \A j \in Keys : RecordsOf(log', j) = RecordsOf(log, j) \ {cur_seq}
        BY <3>1 DEF RecordsOf, Recorded
      <4>3. \A j \in Keys : j # k => cur_seq \notin RecordsOf(log, j)
        BY DEF RecordsOf
      <4>4. CASE RecordsOf(log, k) = {cur_seq}
        <5>1. Newest(log, cur_seq)
          BY <3>1, <4>4 DEF Newest, Seqs
        <5>2. sdb[k] = db[k]
          BY <1>2, <2>4, <3>3, <5>1 DEF IInv, Sending, DelBinlog, NextSeq
        <5>3. Dirty' = Dirty \ {k}
          BY <2>1, <4>2, <4>3, <4>4
        <5>4. k \in Dirty
          BY <2>1, <4>1
        <5> QED BY <3>1, <4>1, <5>2, <5>3, <5>4 DEF Copy!Settle
      <4>5. CASE RecordsOf(log, k) # {cur_seq}
        <5>1. Dirty' = Dirty
          <6>1. \A j \in Keys : RecordsOf(log', j) = {} <=> RecordsOf(log, j) = {}
            <7> HIDE DEF k
            <7> QED BY <4>1, <4>2, <4>3, <4>5
          <6> QED BY <6>1, <2>1
        <5> QED BY <3>1, <5>1 DEF Copy!vars
      <4> QED BY <4>4, <4>5
    <3> QED BY <3>2, <3>3
  <2>5. ASSUME NEW req \in Request, req.key \in Dirty, sdb' = Applied(req),
               UNCHANGED <<db, log>>
        PROVE  [\E k \in Keys : Copy!Deliver(k)]_(Copy!vars)
    <3>1. Dirty' = Dirty
      BY <2>1, <2>5
    <3>2. CASE sdb' = sdb
      BY <2>5, <3>1, <3>2 DEF Copy!vars
    <3>3. CASE sdb' = [sdb EXCEPT ![req.key] = req.val]
      BY <2>5, <3>1, <3>3 DEF Copy!Deliver, Request
    <3> QED BY <2>5, <3>2, <3>3 DEF Applied
  <2>6. CASE ServeSync
    <3>1. send_buf \in Request /\ cur_seq \in RecordsOf(log, send_buf.key)
      BY <1>2, <2>6 DEF IInv, ServeSync, Sending, Window, TypeOK, RecordsOf, Recorded, Seqs
    <3>2. send_buf.key \in Dirty
      BY <3>1, <2>1 DEF Request
    <3> QED BY <2>5, <2>6, <3>1, <3>2 DEF ServeSync, masterVars, Copy!Next
  <2>7. CASE ServeLate
    <3>1. late \in Request /\ late.key \in Dirty
      BY <1>2, <2>1, <2>7 DEF IInv, ServeLate, Leftover, TypeOK, Request
    <3>2. CASE sdb' = sdb
      BY <2>2, <2>7, <3>2 DEF ServeLate, masterVars
    <3>3. CASE sdb' = Applied(late)
      BY <2>5, <2>7, <3>1, <3>3 DEF ServeLate, masterVars, Copy!Next
    <3> QED BY <2>7, <3>2, <3>3 DEF ServeLate
  <2>8. \/ UNCHANGED <<db, log, sdb>> \/ DelBinlog \/ ServeSync \/ ServeLate
        \/ \E w \in Writers : Write(w)
    BY <1>2 DEF Next, Writer, SlaveThread, SlaveHost, Restart, PutBegin, BatchPut,
       BatchDelete, WriteFails, Clear, Publish, Connect, Ping, RecvPong,
       LoseConnection, LoopEnds, GetExpired, GetBinlog, SendRequest, RecvOk,
       RecvError, DelBinlogFails, NextSeq, Orderly, ServePing, ServeSyncFails,
       SlaveOnly, vars, masterVars
  <2> QED BY <2>2, <2>3, <2>4, <2>6, <2>7, <2>8 DEF Copy!Next
<1>3. Spec => []IInv
  BY Invariant
<1> QED BY <1>1, <1>2, <1>3, PTL DEF ImplementsReplica, Copy!Spec, Spec
=============================================================================
