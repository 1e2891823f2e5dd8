--------------------------- MODULE SyncStepTypes ----------------------------
(***************************************************************************)
(* The steps of the producer and of the batch handlers of SyncPipeline keep *)
(* the types of what they change.                                          *)
(***************************************************************************)
EXTENDS SyncPipeline, SequenceTheorems, FiniteSetTheorems, TLAPS

----------------------------------------------------------------------------
(* Types of the producer's step.                                           *)

\* What the two iterators yield are files, and a file's key is a key.
LEMMA ListingTypes ==
  /\ \A L \in Sources \cup Targets : L \in Seq(Files)
  /\ \A f \in Files : f.key \in Keys
<1>1. ASSUME NEW L \in Sources \cup Targets
      PROVE L \in Seq(Files)
  <2>1. L \in Seq(FilesOf(L))
    BY ListingsAssumption
  <2>2. FilesOf(L) \subseteq Files
    BY DEF Files
  <2> QED
    BY <2>1, <2>2, SeqMonotonic
<1>2. ASSUME NEW f \in Files
      PROVE f.key \in Keys
  BY ListingsAssumption DEF Files
<1> QED
  BY <1>1, <1>2

\* source_file and target_file, when there is one, are files.
LEMMA CurrentFiles ==
  ASSUME TypeOK
  PROVE  (HasSource => SourceFile \in Files) /\ (HasTarget => TargetFile \in Files)
<1>1. source \in Seq(Files) /\ target \in Seq(Files)
  BY ListingTypes DEF TypeOK, ProducerTypeOK
<1> QED
  BY <1>1 DEF TypeOK, ProducerTypeOK, HasSource, HasTarget, SourceFile, TargetFile

\* _flush_batch puts a batch, and only a non-empty one.
LEMMA FlushedType ==
  ASSUME NEW b, b.op \in {"ADD", "SYMLINK", "DELETE"} \/ b.items = <<>>, b.items \in Seq(Files)
  PROVE  Flushed(b) \in Seq(Batches) /\ \A i \in DOMAIN Flushed(b) : Flushed(b)[i].op # "STOP"
<1>1. CASE b.items = <<>>
  BY <1>1 DEF Flushed
<1>2. CASE b.items # <<>>
  <2>1. [op |-> b.op, items |-> b.items] \in Batches
    BY <1>2 DEF Batches
  <2>2. b.op # "STOP"
    BY <1>2, SMTT(30)
  <2> QED
    BY <1>2, <2>1, <2>2 DEF Flushed
<1> QED
  BY <1>1, <1>2

\* _enqueue_operation leaves a well-formed batch and puts no STOP.
LEMMA EnqueueType ==
  ASSUME batch \in Buffers, NEW operation \in {"ADD", "DELETE"}, NEW file \in Files,
         EnqueueOperation(operation, file)
  PROVE  /\ batch' \in Buffers
         /\ outbox' \in Seq(Batches)
         /\ \A i \in DOMAIN outbox' : outbox'[i].op # "STOP"
<1> DEFINE link   == operation = "ADD" /\ file.link # NoLink
           op     == IF link THEN "SYMLINK" ELSE operation
           bucket == IF link THEN "SMALL" ELSE SizeBucket(file.size)
           change == batch.op # op \/ batch.bucket # bucket
           items  == IF change THEN <<file>> ELSE Append(batch.items, file)
           grown  == [op |-> op, bucket |-> bucket, items |-> items]
           full   == Len(grown.items) >= BatchSize
           first  == IF change THEN Flushed(batch) ELSE <<>>
           second == IF full THEN Flushed(grown) ELSE <<>>
<1>1. batch' = (IF full THEN NoBatch ELSE grown) /\ outbox' = first \o second
  BY DEF EnqueueOperation
<1>2. op \in {"ADD", "SYMLINK", "DELETE"}
  OBVIOUS
<1>3. bucket \in {"SMALL", "MEDIUM", "LARGE", "VERY_LARGE"}
  BY DEF SizeBucket
<1>4. items \in Seq(Files)
  BY DEF Buffers
<1>5. grown \in Buffers /\ NoBatch \in Buffers
  <2> HIDE DEF op, bucket, items
  <2> QED
    BY <1>2, <1>3, <1>4 DEF Buffers, NoBatch
<1>6. first \in Seq(Batches) /\ \A i \in DOMAIN first : first[i].op # "STOP"
  BY FlushedType DEF Buffers
<1>7. second \in Seq(Batches) /\ \A i \in DOMAIN second : second[i].op # "STOP"
  <2>1. Flushed(grown) \in Seq(Batches) /\ \A i \in DOMAIN Flushed(grown) : Flushed(grown)[i].op # "STOP"
    <3> HIDE DEF op, items
    <3> QED
      BY <1>2, <1>4, FlushedType
  <2> HIDE DEF grown, full
  <2> QED
    BY <2>1
<1>8. /\ first \o second \in Seq(Batches)
      /\ \A i \in DOMAIN (first \o second) : (first \o second)[i].op # "STOP"
  <2> HIDE DEF first, second
  <2> QED
    BY <1>6, <1>7
<1> QED
  BY <1>1, <1>5, <1>8, ZenonT(30)

\* Every step of the producer preserves its type, and the queue's.
LEMMA ProducerType ==
  ASSUME TypeOK, NEW fails \in BOOLEAN, ProducerStep(fails)
  PROVE  ProducerTypeOK' /\ fileQueue' \in Seq(Batches) /\ shutdown' \in BOOLEAN
<1> USE DEF TypeOK, ProducerTypeOK
<1>1. CASE OpenListings(fails)
  BY <1>1 DEF OpenListings
<1>2. CASE LoopHead
  BY <1>2 DEF LoopHead
<1>3. CASE SkipHiddenSource(fails) \/ SkipHiddenTarget(fails)
  BY <1>3 DEF SkipHiddenSource, SkipHiddenTarget, Advance
<1>4. CASE SourceOnly(fails)
  BY <1>4, CurrentFiles, EnqueueType DEF SourceOnly, Advance
<1>5. CASE TargetOnly(fails)
  BY <1>5, CurrentFiles, EnqueueType DEF TargetOnly, Advance
<1>6. CASE Both(fails)
  BY <1>6, CurrentFiles, EnqueueType DEF Both, Advance
<1>7. CASE Finally
  <2> DEFINE stops == [w \in 1..NumWorkers |-> Stop]
  <2>1. Flushed(batch) \in Seq(Batches)
    BY FlushedType DEF Buffers
  <2>2. stops \in Seq(Batches)
    BY NumWorkersAssumption DEF Stop, Batches
  <2>3. Flushed(batch) \o stops \in Seq(Batches)
    BY <2>1, <2>2, ConcatProperties
  <2>4. NoBatch \in Buffers
    BY DEF NoBatch, Buffers
  <2> QED
    BY <1>7, <2>3, <2>4 DEF Finally
<1>8. CASE Put
  BY <1>8 DEF Put
<1>9. CASE ProducerReturn
  BY <1>9 DEF ProducerReturn
<1> QED
  BY <1>1, <1>2, <1>3, <1>4, <1>5, <1>6, <1>7, <1>8, <1>9 DEF ProducerStep

----------------------------------------------------------------------------
(* Types of a worker's step.                                               *)

\* The calls a handler leaves behind are calls, and never a STOP.
LEMMA CallTypes ==
  ASSUME NEW k \in Keys
  PROVE  /\ Register(k) \in Calls /\ Error(k) \in Calls
         /\ Result("DELETE", DeletePath[k]) \in Calls
         /\ [call |-> "remove_file", op |-> "DELETE", key |-> k] \in Calls
         /\ Result("ADD", k) \in Calls
BY PathAssumption DEF Register, Error, Result, Calls

\* What a thread pool completes is a sequence of the items given to it.
LEMMA OrdersType ==
  ASSUME NEW S, NEW s \in Orders(S)
  PROVE  s \in Seq(S)
<1>1. PICK n \in 0..BatchSize : s \in [1..n -> S]
  BY DEF Orders
<1> QED
  BY <1>1, BatchSizeAssumption

\* A handler that only leaves calls and items of the right types preserves the type
\* invariant.
LEMMA HandledType ==
  ASSUME TypeOK, NEW w \in Workers, NEW calls \in Seq(Calls),
         NEW op \in {"ADD", "SYMLINK", "DELETE", "TRANSFER"}, NEW items \in Seq(Files),
         Handled(w, calls, op, items), storage' \in [Keys -> {"absent", "old", "new"}]
  PROVE  TypeOK'
<1>1. WorkerTypeOK'
  BY DEF TypeOK, WorkerTypeOK, Handled, GoOn, Batch
<1>2. ProducerTypeOK' /\ MonitorTypeOK' /\ fileQueue' \in Seq(Batches) /\ shutdown' \in BOOLEAN
  BY DEF TypeOK, ProducerTypeOK, MonitorTypeOK, Handled, prodVars, monVars, errVars, mgrVars
<1> QED
  BY <1>1, <1>2 DEF TypeOK

\* The items of a batch in hand, and their keys.
LEMMA BatchTypes ==
  ASSUME TypeOK, NEW w \in Workers
  PROVE  /\ Batch(w) \in Seq(Files) /\ FilesOf(Batch(w)) \subseteq Files
         /\ \A i \in DOMAIN Batch(w) : Batch(w)[i].key \in Keys
         /\ wpc[w] = "run" => Batch(w) # <<>> /\ First(w) \in Keys /\ Tail(Batch(w)) \in Seq(Files)
<1>1. Batch(w) \in Seq(Files) /\ (wpc[w] = "run" => Batch(w) # <<>>)
  BY DEF TypeOK, WorkerTypeOK, Batch
<1> QED
  BY <1>1, ListingTypes DEF First, FilesOf

\* The check of a batch against the provider preserves the type invariant.
LEMMA FilterType ==
  ASSUME TypeOK, NEW w \in Workers, FilterBatch(w)
  PROVE  TypeOK'
<1>1. PICK verdict \in [FilesOf(Batch(w)) -> {"skip", "error", "transfer"}] :
        LET transfer == {f \in FilesOf(Batch(w)) : verdict[f] = "transfer"}
        IN \E settled \in Orders(FilesOf(Batch(w)) \ transfer), items \in Orders(transfer) :
             Handled(w, [i \in DOMAIN settled |-> IF verdict[settled[i]] = "skip"
                                                  THEN Register(settled[i].key)
                                                  ELSE Error(settled[i].key)],
                     "TRANSFER", items)
  BY Zenon DEF FilterBatch
<1> DEFINE transfer == {f \in FilesOf(Batch(w)) : verdict[f] = "transfer"}
<1>2. PICK settled \in Orders(FilesOf(Batch(w)) \ transfer), items \in Orders(transfer) :
        Handled(w, [i \in DOMAIN settled |-> IF verdict[settled[i]] = "skip"
                                             THEN Register(settled[i].key)
                                             ELSE Error(settled[i].key)],
                "TRANSFER", items)
  BY <1>1, Zenon
<1>3. settled \in Seq(Files) /\ items \in Seq(Files)
  <2>1. settled \in Seq(FilesOf(Batch(w)) \ transfer) /\ items \in Seq(transfer)
    BY OrdersType
  <2>2. FilesOf(Batch(w)) \ transfer \subseteq Files /\ transfer \subseteq Files
    BY BatchTypes
  <2> QED
    BY <2>1, <2>2, SeqMonotonic
<1> DEFINE calls == [i \in DOMAIN settled |-> IF verdict[settled[i]] = "skip"
                                              THEN Register(settled[i].key)
                                              ELSE Error(settled[i].key)]
<1>4. calls \in Seq(Calls)
  <2>1. \A i \in DOMAIN settled : settled[i].key \in Keys
    BY <1>3, ListingTypes
  <2>2. \A i \in DOMAIN settled : calls[i] \in Calls
    BY <2>1, CallTypes, Zenon
  <2> QED
    BY <1>3, <2>2
<1>5. storage' \in [Keys -> {"absent", "old", "new"}]
  BY DEF FilterBatch, TypeOK, WorkerTypeOK
<1> QED
  BY <1>2, <1>3, <1>4, <1>5, HandledType, SMTT(30)

\* What a failed transfer registered is a sequence of files.
LEMMA FailedTransfersType ==
  ASSUME NEW items \in Seq(Files), NEW t \in FailedTransfers(items)
  PROVE  t.registered \in Seq(Files)
<1> DEFINE n == Len(items)
           upTo(i) == SubSeq(items, 1, i)
           some == {[moved |-> S, registered |-> <<>>] : S \in SUBSET FilesOf(items)}
           all(R) == {[moved |-> FilesOf(items), registered |-> r] : r \in R}
<1>1. \A j \in 0..n : upTo(j) \in Seq(Files)
  OBVIOUS
<1>2. <<>> \in Seq(Files)
  OBVIOUS
<1>3. CASE t \in some
  <2>1. PICK S \in SUBSET FilesOf(items) : t = [moved |-> S, registered |-> <<>>]
    BY <1>3
  <2> QED
    BY <1>2, <2>1
<1>4. CASE Handler = "PosixToPosix"
  <2>1. t \in UNION {{[moved |-> FilesOf(upTo(i)), registered |-> upTo(j)] :
                         j \in {i - 1, i} \cap 0..(n - 1)} : i \in 0..n}
    BY <1>4 DEF FailedTransfers
  <2>2. PICK i \in 0..n : \E j \in {i - 1, i} \cap 0..(n - 1) :
               t = [moved |-> FilesOf(upTo(i)), registered |-> upTo(j)]
    BY <2>1
  <2>3. PICK j \in 0..(n - 1) : t = [moved |-> FilesOf(upTo(i)), registered |-> upTo(j)]
    BY <2>2
  <2>4. j \in 0..n
    OBVIOUS
  <2> HIDE DEF upTo
  <2> QED
    BY <1>1, <2>3, <2>4
<1>5. CASE Handler = "RemoteToPosix"
  <2>1. t \in some \cup all({upTo(j) : j \in 0..(n - 1)})
    BY <1>5 DEF FailedTransfers
  <2>2. \A j \in 0..(n - 1) : upTo(j) \in Seq(Files)
    BY <1>1
  <2>3. CASE t \in all({upTo(j) : j \in 0..(n - 1)})
    <3>1. PICK j \in 0..(n - 1) : t = [moved |-> FilesOf(items), registered |-> upTo(j)]
      BY <2>3
    <3> HIDE DEF upTo
    <3> QED
      BY <2>2, <3>1
  <2> QED
    BY <1>3, <2>1, <2>3
<1>6. CASE Handler \notin {"PosixToPosix", "RemoteToPosix"}
  <2> DEFINE pool == UNION {Orders(S) : S \in (SUBSET FilesOf(items)) \ {FilesOf(items)}}
  <2>1. t \in some \cup all(pool)
    BY <1>6 DEF FailedTransfers
  <2>2. \A r \in pool : r \in Seq(Files)
    <3> TAKE r \in pool
    <3>1. PICK S \in SUBSET FilesOf(items) : r \in Orders(S)
      OBVIOUS
    <3>2. S \subseteq Files
      BY DEF FilesOf
    <3> QED
      BY <3>1, <3>2, OrdersType, SeqMonotonic
  <2> HIDE DEF pool
  <2>3. CASE t \in all(pool)
    <3>1. PICK r \in pool : t = [moved |-> FilesOf(items), registered |-> r]
      BY <2>3
    <3> QED
      BY <2>2, <3>1
  <2> QED
    BY <1>3, <2>1, <2>3
<1> QED
  BY <1>4, <1>5, <1>6

\* The transfer of a batch preserves the type invariant.
LEMMA TransferType ==
  ASSUME TypeOK, NEW w \in Workers, TransferBatch(w)
  PROVE  TypeOK'
<1> DEFINE moved(S) == [k \in Keys |-> IF \E f \in S : f.key = k THEN "new" ELSE storage[k]]
           done(items) == [i \in DOMAIN items |-> Register(items[i].key)]
<1>1. \A S : moved(S) \in [Keys -> {"absent", "old", "new"}]
  BY DEF TypeOK, WorkerTypeOK
<1>2. \A items \in Seq(Files) : done(items) \in Seq(Calls)
  <2> TAKE items \in Seq(Files)
  <2>1. \A i \in DOMAIN items : items[i].key \in Keys
    BY ListingTypes
  <2>2. \A i \in DOMAIN items : Register(items[i].key) \in Calls
    BY <2>1, CallTypes, Zenon
  <2> QED
    BY <2>2
<1>3. Batch(w) \in Seq(Files) /\ <<>> \in Seq(Files) /\ <<>> \in Seq(Calls)
  BY BatchTypes
<1>4. CASE storage' = moved(FilesOf(Batch(w))) /\ Handled(w, done(Batch(w)), "ADD", <<>>)
  <2>1. storage' \in [Keys -> {"absent", "old", "new"}]
    BY <1>1, <1>4, Zenon
  <2>2. done(Batch(w)) \in Seq(Calls)
    BY <1>2, <1>3
  <2> HIDE DEF done
  <2> QED
    BY <1>3, <1>4, <2>1, <2>2, HandledType, Zenon
<1>5. ASSUME NEW t \in FailedTransfers(Batch(w)), storage' = moved(t.moved),
             Handled(w, (IF HasProvider THEN done(t.registered) ELSE <<>>) \o <<Error(First(w))>>, "ADD", <<>>)
      PROVE  TypeOK'
  <2> DEFINE regs == IF HasProvider THEN done(t.registered) ELSE <<>>
  <2>1. regs \in Seq(Calls)
    <3>1. t.registered \in Seq(Files)
      BY <1>3, FailedTransfersType
    <3> HIDE DEF done
    <3> QED
      BY <3>1, <1>2, <1>3
  <2>2. Error(First(w)) \in Calls
    BY BatchTypes, CallTypes, Zenon DEF TransferBatch
  <2>3. storage' \in [Keys -> {"absent", "old", "new"}]
    BY <1>1, <1>5, ZenonT(30)
  <2>4. regs \o <<Error(First(w))>> \in Seq(Calls)
    <3> HIDE DEF regs
    <3> QED
      BY <2>1, <2>2
  <2>5. Handled(w, regs \o <<Error(First(w))>>, "ADD", <<>>)
    BY <1>5
  <2> HIDE DEF regs
  <2> QED
    BY <1>3, <2>3, <2>4, <2>5, HandledType, ZenonT(30)
<1> QED
  BY <1>4, <1>5, Zenon DEF TransferBatch

\* The re-creation of a link preserves the type invariant.
LEMMA SymlinkType ==
  ASSUME TypeOK, NEW w \in Workers, SymlinkItem(w)
  PROVE  TypeOK'
<1>1. /\ <<Register(First(w))>> \in Seq(Calls) /\ <<Error(First(w))>> \in Seq(Calls)
      /\ Tail(Batch(w)) \in Seq(Files)
  <2>1. First(w) \in Keys /\ Tail(Batch(w)) \in Seq(Files)
    BY BatchTypes DEF SymlinkItem
  <2>2. Register(First(w)) \in Calls /\ Error(First(w)) \in Calls
    BY <2>1, CallTypes, Zenon
  <2> QED
    BY <2>1, <2>2
<1>2. storage' \in [Keys -> {"absent", "old", "new"}]
  BY Zenon DEF SymlinkItem, TypeOK, WorkerTypeOK
<1> QED
  BY <1>1, <1>2, HandledType, ZenonT(30) DEF SymlinkItem
=============================================================================
