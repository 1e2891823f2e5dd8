------------------------- MODULE SyncPipelineTypes --------------------------
(***************************************************************************)
(* The type invariant of SyncPipeline, for any number of workers, any      *)
(* listings, any batch size, any queue capacity, any provider and any set  *)
(* of failures.                                                            *)
(***************************************************************************)
EXTENDS SyncStepTypes

\* The deletion of a batch preserves the type invariant.
LEMMA DeleteType ==
  ASSUME TypeOK, NEW w \in Workers, DeleteBatch(w) \/ DeleteRaises(w)
  PROVE  TypeOK'
<1>1. CASE DeleteBatch(w)
  <2> DEFINE items == Batch(w)
             removals == IF Provider # "shared" THEN <<>>
                         ELSE [i \in DOMAIN items |-> [call |-> "remove_file", op |-> "DELETE", key |-> items[i].key]]
             results == [i \in DOMAIN items |-> Result("DELETE", DeletePath[items[i].key])]
  <2>1. items \in Seq(Files) /\ \A i \in DOMAIN items : items[i].key \in Keys
    BY BatchTypes
  <2>2. \A i \in DOMAIN items :
          /\ [call |-> "remove_file", op |-> "DELETE", key |-> items[i].key] \in Calls
          /\ Result("DELETE", DeletePath[items[i].key]) \in Calls
    BY <2>1, CallTypes
  <2>3. removals \in Seq(Calls) /\ results \in Seq(Calls)
    <3> HIDE DEF items
    <3> QED
      BY <2>1, <2>2
  <2>4. removals \o results \in Seq(Calls)
    BY <2>3, ConcatProperties
  <2>5. storage' \in [Keys -> {"absent", "old", "new"}]
    BY <1>1 DEF DeleteBatch, TypeOK, WorkerTypeOK
  <2>6. Handled(w, removals \o results, "DELETE", <<>>)
    BY <1>1 DEF DeleteBatch
  <2>7. <<>> \in Seq(Files)
    OBVIOUS
  <2> HIDE DEF removals, results
  <2> QED
    BY <2>4, <2>5, <2>6, <2>7, HandledType, ZenonT(30)
<1>2. CASE DeleteRaises(w)
  <2>1. WorkerTypeOK'
    BY <1>2 DEF DeleteRaises, TypeOK, WorkerTypeOK, Batch
  <2>2. ProducerTypeOK' /\ MonitorTypeOK' /\ fileQueue' \in Seq(Batches) /\ shutdown' \in BOOLEAN
    BY <1>2 DEF DeleteRaises, TypeOK, ProducerTypeOK, MonitorTypeOK, prodVars, monVars, errVars, mgrVars
  <2> QED
    BY <2>1, <2>2 DEF TypeOK
<1> QED
  BY <1>1, <1>2

\* The operations on the provider's fields keep their types.
LEMMA ManifestTypes ==
  ASSUME MonitorTypeOK
  PROVE  LET M == [files : [Keys -> Entries], adds : [Keys -> Entries], removes : SUBSET Keys]
         IN /\ \A k \in Keys : AddFile(manifest, k, "new") \in M
            /\ \A k : ~RemoveRaises(manifest, k) => RemoveFile(manifest, k) \in M
            /\ CommitUpdates(manifest) \in M
BY DEF MonitorTypeOK, AddFile, RemoveRaises, RemoveFile, CommitUpdates, Entries

\* The next call of a worker, and the rest.
LEMMA HeadTypes ==
  ASSUME TypeOK, NEW w \in Workers, wpc[w] = "act"
  PROVE  /\ todo[w] \in Seq(Calls) /\ todo[w] # <<>>
         /\ Head(todo[w]) \in Calls /\ Tail(todo[w]) \in Seq(Calls)
BY DEF TypeOK, WorkerTypeOK

\* A call of a worker preserves the type invariant.
LEMMA CallType ==
  ASSUME TypeOK, NEW w \in Workers, WorkerCall(w)
  PROVE  TypeOK'
<1> DEFINE c == Head(todo[w])
           rest == Tail(todo[w])
<1>1. wpc[w] = "act" /\ c \in Calls /\ rest \in Seq(Calls)
  BY HeadTypes DEF WorkerCall
<1>2. ProducerTypeOK' /\ fileQueue' \in Seq(Batches) /\ shutdown' \in BOOLEAN
  BY DEF WorkerCall, TypeOK, ProducerTypeOK, prodVars
<1>3. CASE c.call = "add_file"
  <2>1. c.key \in Keys
    BY <1>1, <1>3 DEF Calls
  <2>2. <<Result("ADD", c.key)>> \o rest \in Seq(Calls) /\ <<Result("ADD", c.key)>> \o rest # <<>>
    <3>1. Result("ADD", c.key) \in Calls
      BY <2>1, CallTypes, ZenonT(30)
    <3> HIDE DEF c, rest
    <3> QED
      BY <1>1, <3>1
  <2>3. /\ manifest' = AddFile(manifest, c.key, "new")
        /\ todo' = [todo EXCEPT ![w] = <<Result("ADD", c.key)>> \o rest]
        /\ UNCHANGED <<wpc, resultQueue, errorQueue, reported, raised, storage, wbatch, late, monVars, errVars, mgrVars>>
    BY <1>3 DEF WorkerCall
  <2> HIDE DEF c, rest
  <2>4. WorkerTypeOK'
    BY <2>2, <2>3 DEF TypeOK, WorkerTypeOK, Batch
  <2>5. MonitorTypeOK'
    BY <2>1, <2>3, ManifestTypes, SMTT(30) DEF TypeOK, MonitorTypeOK, monVars, errVars, mgrVars
  <2> QED
    BY <1>2, <2>4, <2>5 DEF TypeOK
<1>4. CASE c.call = "remove_file"
  <2>1. /\ manifest' = (IF RemoveRaises(manifest, c.key) THEN manifest ELSE RemoveFile(manifest, c.key))
        /\ todo' = [todo EXCEPT ![w] = rest]
        /\ wpc' = [wpc EXCEPT ![w] = GoOn(rest, Batch(w))]
        /\ UNCHANGED <<resultQueue, errorQueue, reported, raised, storage, wbatch, late, monVars, errVars, mgrVars>>
    BY <1>4 DEF WorkerCall
  <2> HIDE DEF c, rest
  <2>2. WorkerTypeOK'
    BY <1>1, <2>1 DEF TypeOK, WorkerTypeOK, Batch, GoOn
  <2>3. MonitorTypeOK'
    BY <2>1, ManifestTypes, SMTT(30) DEF TypeOK, MonitorTypeOK, monVars, errVars, mgrVars
  <2> QED
    BY <1>2, <2>2, <2>3 DEF TypeOK
<1>5. CASE c.call = "result"
  <2>1. /\ resultQueue' = Append(resultQueue, [op |-> c.op, key |-> c.key])
        /\ reported' = reported + 1
        /\ todo' = [todo EXCEPT ![w] = rest]
        /\ wpc' = [wpc EXCEPT ![w] = GoOn(rest, Batch(w))]
        /\ UNCHANGED <<manifest, errorQueue, raised, storage, wbatch, late, monVars, errVars, mgrVars>>
    BY <1>5 DEF WorkerCall
  <2>2. [op |-> c.op, key |-> c.key] \in Messages
    BY <1>1, <1>5 DEF Calls, Messages
  <2> HIDE DEF c, rest
  <2>3. WorkerTypeOK'
    BY <1>1, <2>1, SMTT(30) DEF TypeOK, WorkerTypeOK, Batch, GoOn
  <2>4. MonitorTypeOK'
    BY <2>1, <2>2 DEF TypeOK, MonitorTypeOK, monVars, errVars, mgrVars
  <2> QED
    BY <1>2, <2>3, <2>4 DEF TypeOK
<1>6. CASE c.call = "error"
  <2>1. /\ errorQueue' = Append(errorQueue, c.key)
        /\ raised' = raised + 1
        /\ todo' = [todo EXCEPT ![w] = rest]
        /\ wpc' = [wpc EXCEPT ![w] = GoOn(rest, Batch(w))]
        /\ UNCHANGED <<manifest, resultQueue, reported, storage, wbatch, late, monVars, errVars, mgrVars>>
    BY <1>6 DEF WorkerCall
  <2>2. c.key \in Keys
    BY <1>1, <1>6 DEF Calls
  <2> HIDE DEF c, rest
  <2>3. WorkerTypeOK'
    BY <1>1, <2>1, SMTT(30) DEF TypeOK, WorkerTypeOK, Batch, GoOn
  <2>4. MonitorTypeOK'
    BY <2>1, <2>2 DEF TypeOK, MonitorTypeOK, monVars, errVars, mgrVars
  <2> QED
    BY <1>2, <2>3, <2>4 DEF TypeOK
<1> QED
  BY <1>3, <1>4, <1>5, <1>6 DEF WorkerCall

----------------------------------------------------------------------------
(* The type invariant.                                                     *)

\* The monitors, the auto-commit and the calling thread preserve it.
LEMMA MonitorsType ==
  ASSUME TypeOK, ResultMonitor \/ ErrorMonitor \/ AutoCommit \/ JoinWorkers
                   \/ JoinProducer \/ JoinResultMonitor \/ Finish
  PROVE  TypeOK'
<1> USE DEF TypeOK
<1>1. CASE ResultMonitor
  <2> DEFINE m == Head(resultQueue)
  <2>1. m \in Messages /\ Tail(resultQueue) \in Seq(Messages)
    BY <1>1, SMTT(30) DEF ResultMonitor, MonitorTypeOK
  <2>2. ProducerTypeOK' /\ WorkerTypeOK' /\ fileQueue' \in Seq(Batches) /\ shutdown' \in BOOLEAN
    BY <1>1 DEF ResultMonitor, ProducerTypeOK, WorkerTypeOK, prodVars, workVars, Batch
  <2>3. manifest' \in [files : [Keys -> Entries], adds : [Keys -> Entries], removes : SUBSET Keys]
    <3>1. \/ manifest' = manifest
          \/ m.op = "ADD" /\ manifest' = AddFile(manifest, m.key, "new")
          \/ ~RemoveRaises(manifest, m.key) /\ manifest' = RemoveFile(manifest, m.key)
      BY <1>1 DEF ResultMonitor
    <3>2. m.op = "ADD" => m.key \in Keys
      BY <2>1 DEF Messages, StopResult
    <3>3. manifest \in [files : [Keys -> Entries], adds : [Keys -> Entries], removes : SUBSET Keys]
      BY SMTT(30) DEF MonitorTypeOK
    <3> QED
      BY <3>1, <3>2, <3>3, ManifestTypes, SMTT(30)
  <2>4. monPc' \in {"run", "stopped", "failed"}
    BY <1>1 DEF ResultMonitor, MonitorTypeOK
  <2>5. added' \in Nat /\ deleted' \in Nat
    <3>1. (added' = added \/ added' = added + 1) /\ (deleted' = deleted \/ deleted' = deleted + 1)
      BY <1>1 DEF ResultMonitor
    <3> QED
      BY <3>1 DEF MonitorTypeOK
  <2>6. resultQueue' \in Seq(Messages) /\ UNCHANGED <<errorQueue, errPc, errors, mgr, outcome>>
    BY <1>1, <2>1 DEF ResultMonitor, errVars, mgrVars
  <2>7. MonitorTypeOK'
    BY <2>3, <2>4, <2>5, <2>6, SMTT(30) DEF MonitorTypeOK
  <2> QED
    BY <2>2, <2>7
<1>2. CASE ErrorMonitor
  <2>1. ProducerTypeOK' /\ WorkerTypeOK' /\ fileQueue' \in Seq(Batches) /\ shutdown' \in BOOLEAN
    BY <1>2, Zenon DEF ErrorMonitor, ProducerTypeOK, WorkerTypeOK, prodVars, workVars, Batch
  <2>2. MonitorTypeOK'
    BY <1>2 DEF ErrorMonitor, MonitorTypeOK, monVars, mgrVars
  <2> QED
    BY <2>1, <2>2
<1>3. CASE AutoCommit \/ Finish
  <2>1. ProducerTypeOK' /\ WorkerTypeOK' /\ fileQueue' \in Seq(Batches) /\ shutdown' \in BOOLEAN
    BY <1>3, SMTT(30) DEF AutoCommit, Finish, ProducerTypeOK, WorkerTypeOK, prodVars, workVars, Batch
  <2>2. MonitorTypeOK'
    BY <1>3, ManifestTypes, SMTT(30) DEF AutoCommit, Finish, MonitorTypeOK, monVars, errVars, mgrVars
  <2> QED
    BY <2>1, <2>2
<1>4. CASE JoinWorkers \/ JoinProducer \/ JoinResultMonitor
  <2>1. ProducerTypeOK' /\ WorkerTypeOK' /\ fileQueue' \in Seq(Batches) /\ shutdown' \in BOOLEAN
    BY <1>4, ZenonT(30) DEF JoinWorkers, JoinProducer, JoinResultMonitor, ProducerTypeOK, WorkerTypeOK,
                prodVars, workVars, Batch
  <2>2. StopResult \in Messages
    BY DEF Messages
  <2>3. MonitorTypeOK'
    <3>1. CASE JoinWorkers
      BY <3>1 DEF JoinWorkers, MonitorTypeOK, monVars, errVars
    <3>2. CASE JoinProducer
      BY <2>2, <3>2 DEF JoinProducer, MonitorTypeOK, monVars, errVars
    <3>3. CASE JoinResultMonitor
      BY <3>3 DEF JoinResultMonitor, MonitorTypeOK, monVars, errVars
    <3> QED
      BY <1>4, <3>1, <3>2, <3>3
  <2> QED
    BY <2>1, <2>3
<1> QED
  BY <1>1, <1>2, <1>3, <1>4

\* _worker_loop itself preserves it.
LEMMA LoopType ==
  ASSUME TypeOK, NEW w \in Workers, WorkerCheck(w) \/ WorkerGet(w) \/ WorkerRequeue(w)
  PROVE  TypeOK'
<1> USE DEF TypeOK
<1>1. ProducerTypeOK' /\ MonitorTypeOK' /\ shutdown' \in BOOLEAN
  <2>1. UNCHANGED <<prodVars, shutdown, manifest, resultQueue, errorQueue, monVars, errVars, mgrVars>>
    BY DEF WorkerCheck, WorkerGet, WorkerRequeue
  <2> QED
    BY <2>1 DEF ProducerTypeOK, MonitorTypeOK, prodVars, monVars, errVars, mgrVars
<1>2. Stop \in Batches
  BY DEF Stop, Batches
<1>3. CASE WorkerCheck(w)
  <2>1. PICK pc \in {"exited", "get"} : wpc' = [wpc EXCEPT ![w] = pc]
    BY <1>3, SMTT(30) DEF WorkerCheck
  <2>2. WorkerTypeOK'
    BY <1>3, <2>1, ZenonT(30) DEF WorkerCheck, WorkerTypeOK, Batch
  <2> QED
    BY <1>1, <1>3, <2>2 DEF WorkerCheck
<1>4. CASE WorkerRequeue(w)
  <2>1. fileQueue' \in Seq(Batches)
    BY <1>2, <1>4 DEF WorkerRequeue
  <2>2. /\ wpc' = [wpc EXCEPT ![w] = "exited"]
        /\ UNCHANGED <<storage, wbatch, todo, reported, raised, late>>
    BY <1>4 DEF WorkerRequeue
  <2>3. WorkerTypeOK'
    BY <2>2 DEF WorkerTypeOK, Batch
  <2> QED
    BY <1>1, <2>1, <2>3
<1>5. CASE WorkerGet(w)
  <2>1. Head(fileQueue) \in Batches /\ fileQueue' \in Seq(Batches)
    BY <1>5, SMTT(30) DEF WorkerGet
  <2>2. CASE Head(fileQueue).op = "STOP"
    BY <1>1, <1>5, <2>1, <2>2, ZenonT(30) DEF WorkerGet, WorkerTypeOK, Batch
  <2>3. CASE Head(fileQueue).op # "STOP"
    <3>1. /\ wpc' = [wpc EXCEPT ![w] = "run"]
          /\ wbatch' = [wbatch EXCEPT ![w] = Head(fileQueue)]
          /\ late' = [late EXCEPT ![w] = IF shutdown THEN @ + 1 ELSE @]
          /\ UNCHANGED <<storage, todo, reported, raised>>
      BY <1>5, <2>3 DEF WorkerGet
    <3>2. /\ Head(fileQueue) \in [op : {"ADD", "SYMLINK", "DELETE", "STOP", "TRANSFER"}, items : Seq(Files)]
          /\ Head(fileQueue).items # <<>>
      BY <2>1, <2>3 DEF Batches
    <3>3. late' \in [Workers -> Nat]
      BY <3>1 DEF WorkerTypeOK
    <3>4. WorkerTypeOK'
      BY <3>1, <3>2, <3>3, Zenon DEF WorkerTypeOK, Batch
    <3> QED
      BY <1>1, <2>1, <3>4
  <2> QED
    BY <2>2, <2>3
<1> QED
  BY <1>3, <1>4, <1>5

\* Every step, and every stuttering step, preserves the type invariant.
LEMMA TypeStep ==
  ASSUME TypeOK, [Next]_vars
  PROVE  TypeOK'
<1>1. CASE Producer
  <2>1. PICK fails \in BOOLEAN : ProducerStep(fails)
    BY <1>1, Zenon DEF Producer
  <2>2. ProducerTypeOK' /\ fileQueue' \in Seq(Batches) /\ shutdown' \in BOOLEAN
    BY <2>1, ProducerType
  <2>3. WorkerTypeOK' /\ MonitorTypeOK'
    BY <1>1 DEF Producer, TypeOK, WorkerTypeOK, MonitorTypeOK, workVars, monVars, errVars, mgrVars, Batch
  <2> QED
    BY <2>2, <2>3 DEF TypeOK
<1>2. ASSUME NEW w \in Workers, Worker(w)
      PROVE  TypeOK'
  BY <1>2, LoopType, FilterType, TransferType, SymlinkType, DeleteType, CallType DEF Worker
<1>3. CASE Terminated \/ UNCHANGED vars
  <2>1. ProducerTypeOK' /\ fileQueue' \in Seq(Batches) /\ shutdown' \in BOOLEAN
    BY <1>3, SMTT(30) DEF Terminated, vars, TypeOK, ProducerTypeOK, prodVars
  <2>2. WorkerTypeOK'
    BY <1>3 DEF Terminated, vars, TypeOK, WorkerTypeOK, workVars, Batch
  <2>3. MonitorTypeOK'
    BY <1>3 DEF Terminated, vars, TypeOK, MonitorTypeOK, monVars, errVars, mgrVars
  <2> QED
    BY <2>1, <2>2, <2>3 DEF TypeOK
<1> QED
  BY <1>1, <1>2, <1>3, MonitorsType DEF Next

\* A sync starts in a well-formed state.
LEMMA TypeInit ==
  ASSUME Init
  PROVE  TypeOK
<1>1. ProducerTypeOK /\ fileQueue \in Seq(Batches) /\ shutdown \in BOOLEAN
  <2>1. NoBatch \in Buffers
    BY DEF NoBatch, Buffers
  <2>2. prodError \in BOOLEAN /\ shutdown \in BOOLEAN
    BY ZenonT(30) DEF Init, ProducerInit
  <2>3. fileQueue \in Seq(Batches) /\ outbox \in Seq(Batches)
    BY DEF Init, ProducerInit
  <2> QED
    BY <2>1, <2>2, <2>3 DEF Init, ProducerInit, ProducerTypeOK
<1>2. WorkerTypeOK
  BY DEF Init, WorkerTypeOK, Stop
<1>3. MonitorTypeOK
  BY DEF Init, MonitorTypeOK, EmptyManifest, Entries
<1> QED
  BY <1>1, <1>2, <1>3 DEF TypeOK

\* Type correctness of a sync: the queues hold batches, messages and errors only, a
\* worker that is to make a call has one, and one that is to handle a batch has an item.
THEOREM TypeCorrect == Spec => []TypeOK
BY TypeInit, TypeStep, PTL DEF Spec
=============================================================================
