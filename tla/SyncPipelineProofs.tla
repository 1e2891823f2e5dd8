------------------------- MODULE SyncPipelineProofs -------------------------
(***************************************************************************)
(* Safety of SyncPipeline, under the assumptions of its type invariant.    *)
(***************************************************************************)
EXTENDS SyncPipelineTypes

----------------------------------------------------------------------------
(* No result is lost.  sync_objects puts the STOP on the result queue once *)
(* the workers are over, so it is the last message; until the monitor has  *)
(* read it, the results counted and those in the queue are those put.      *)

Closed == mgr \in {"results", "errors"} \/ outcome \in {"ok", "SyncError"}

ResultInv ==
  /\ mgr # "workers" => \A w \in Workers : wpc[w] \in Ended
  /\ outcome # "none" => mgr = "done"
  /\ ~Closed => /\ monPc # "stopped"
                /\ monPc = "run" => added + deleted + Len(resultQueue) = reported
                /\ \A i \in DOMAIN resultQueue : resultQueue[i].op # "STOP"
  /\ Closed /\ monPc = "run" =>
       /\ resultQueue # <<>>
       /\ \A i \in DOMAIN resultQueue : resultQueue[i].op = "STOP" <=> i = Len(resultQueue)
       /\ added + deleted + Len(resultQueue) = reported + 1
  /\ NoResultLost

\* A worker that takes a step was not over, so sync_objects still waits for it.
LEMMA WorkerActive ==
  ASSUME ResultInv, NEW w \in Workers, Worker(w)
  PROVE  mgr = "workers" /\ outcome = "none" /\ ~Closed
<1>1. wpc[w] \notin Ended
  BY ZenonT(60) DEF Worker, WorkerCheck, WorkerGet, WorkerRequeue, FilterBatch, TransferBatch, SymlinkItem,
         DeleteBatch, DeleteRaises, WorkerCall, Ended
<1> QED
  BY <1>1, SMTT(30) DEF ResultInv, Closed

\* A step of a worker that is not a call puts nothing on any queue but the file queue.
LEMMA WorkerQuiet ==
  ASSUME NEW w \in Workers, Worker(w), ~WorkerCall(w)
  PROVE  UNCHANGED <<mgr, outcome, monPc, added, deleted, resultQueue, reported, errPc, errors,
                     errorQueue, raised, prodVars, shutdown>>
BY ZenonT(60) DEF Worker, WorkerCheck, WorkerGet, WorkerRequeue, FilterBatch, TransferBatch, SymlinkItem,
       DeleteBatch, DeleteRaises, Handled, monVars, errVars, mgrVars

\* Every step preserves what NoResultIsLost needs.
LEMMA ResultStep ==
  ASSUME TypeOK, ResultInv, [Next]_vars
  PROVE  ResultInv'
<1> USE DEF ResultInv, Closed, NoResultLost
<1>1. CASE Producer \/ ErrorMonitor \/ AutoCommit \/ Terminated \/ UNCHANGED vars
  <2>1. UNCHANGED <<wpc, mgr, outcome, monPc, added, deleted, resultQueue, reported>>
    BY <1>1, ZenonT(30) DEF Producer, ErrorMonitor, AutoCommit, Terminated, vars, workVars, monVars, mgrVars
  <2> QED
    BY <2>1
<1>2. ASSUME NEW w \in Workers, Worker(w), ~WorkerCall(w)
      PROVE  ResultInv'
  <2>1. UNCHANGED <<mgr, outcome, monPc, added, deleted, resultQueue, reported>>
    BY <1>2, WorkerQuiet
  <2>2. mgr = "workers"
    BY <1>2, WorkerActive
  <2> QED
    BY <2>1, <2>2
<1>3. ASSUME NEW w \in Workers, WorkerCall(w)
      PROVE  ResultInv'
  <2>1. mgr = "workers" /\ outcome = "none" /\ ~Closed
    BY <1>3, WorkerActive DEF Worker
  <2>2. UNCHANGED <<mgr, outcome, monPc, added, deleted>>
    BY <1>3 DEF WorkerCall, monVars, mgrVars
  <2>3. CASE UNCHANGED <<resultQueue, reported>>
    BY <2>1, <2>2, <2>3
  <2>4. CASE Head(todo[w]).call = "result" /\ ~UNCHANGED <<resultQueue, reported>>
    <3> DEFINE m == [op |-> Head(todo[w]).op, key |-> Head(todo[w]).key]
    <3>1. resultQueue' = Append(resultQueue, m) /\ reported' = reported + 1
      BY <1>3, <2>4 DEF WorkerCall
    <3>2. m.op # "STOP"
      <4>1. Head(todo[w]) \in Calls
        BY <1>3, HeadTypes DEF WorkerCall
      <4> QED
        BY <4>1 DEF Calls
    <3>3. resultQueue \in Seq(Messages) /\ added \in Nat /\ deleted \in Nat /\ reported \in Nat
      BY DEF TypeOK, MonitorTypeOK, WorkerTypeOK
    <3> HIDE DEF m
    <3>4. Len(resultQueue') = Len(resultQueue) + 1
      BY <3>1, <3>3
    <3>5. \A i \in DOMAIN resultQueue' : resultQueue'[i].op # "STOP"
      BY <2>1, <3>1, <3>2, <3>3
    <3> QED
      BY <2>1, <2>2, <3>1, <3>3, <3>4, <3>5, SMTT(30)
  <2> QED
    BY <1>3, <2>3, <2>4 DEF WorkerCall
<1>4. CASE ResultMonitor
  <2> DEFINE m == Head(resultQueue)
  <2>1. /\ resultQueue \in Seq(Messages) /\ resultQueue # <<>> /\ m \in Messages
        /\ added \in Nat /\ deleted \in Nat /\ reported \in Nat
    BY <1>4 DEF ResultMonitor, TypeOK, MonitorTypeOK, WorkerTypeOK
  <2>2. /\ UNCHANGED <<wpc, mgr, outcome, reported>> /\ monPc = "run"
        /\ resultQueue' = Tail(resultQueue)
    BY <1>4 DEF ResultMonitor, workVars, mgrVars
  <2>3. /\ Len(resultQueue') = Len(resultQueue) - 1
        /\ \A i \in DOMAIN resultQueue' : i + 1 \in DOMAIN resultQueue /\ resultQueue'[i] = resultQueue[i + 1]
        /\ m = resultQueue[1]
    BY <2>1, <2>2
  <2>4. CASE m.op = "STOP"
    <3>1. monPc' = "stopped" /\ UNCHANGED <<added, deleted>>
      BY <1>4, <2>4 DEF ResultMonitor
    <3>2. Closed /\ Len(resultQueue) = 1
      BY <2>1, <2>2, <2>3, <2>4
    <3>3. resultQueue' = <<>>
      BY <2>1, <2>2, <3>2
    <3> QED
      BY <2>1, <2>2, <3>1, <3>2, <3>3
  <2>5. CASE m.op # "STOP"
    <3>1. /\ monPc' \in {"run", "failed"}
          /\ \/ monPc' = "failed"
             \/ added' = added + 1 /\ deleted' = deleted
             \/ added' = added /\ deleted' = deleted + 1
      BY <1>4, <2>5 DEF ResultMonitor
    <3>2. ~Closed => \A i \in DOMAIN resultQueue' : resultQueue'[i].op # "STOP"
      BY <2>1, <2>2, <2>3
    <3>3. Closed => /\ resultQueue' # <<>>
                    /\ \A i \in DOMAIN resultQueue' : resultQueue'[i].op = "STOP" <=> i = Len(resultQueue')
      BY <2>1, <2>2, <2>3, <2>5
    <3>4. Len(resultQueue) \in Nat /\ Len(resultQueue') = Len(resultQueue) - 1
      BY <2>1, <2>3
    <3>5. monPc' = "run" => added' + deleted' + Len(resultQueue') = added + deleted + Len(resultQueue)
      BY <2>1, <3>1, <3>4
    <3>6. UNCHANGED <<wpc, mgr, outcome, reported>> /\ monPc = "run" /\ monPc' # "stopped"
      BY <2>2, <3>1
    <3> HIDE DEF m
    <3> QED
      BY <3>1, <3>2, <3>3, <3>5, <3>6
  <2> QED
    BY <2>4, <2>5
<1>5. CASE JoinWorkers
  BY <1>5 DEF JoinWorkers, workVars, monVars
<1>6. CASE JoinProducer
  <2>1. /\ resultQueue' = Append(resultQueue, StopResult) /\ mgr = "producer" /\ mgr' = "results"
        /\ UNCHANGED <<wpc, outcome, monPc, added, deleted, reported>>
    BY <1>6 DEF JoinProducer, workVars, monVars
  <2>2. /\ resultQueue \in Seq(Messages) /\ StopResult.op = "STOP"
        /\ added \in Nat /\ deleted \in Nat /\ reported \in Nat
    BY DEF TypeOK, MonitorTypeOK, WorkerTypeOK, StopResult
  <2>3. /\ Len(resultQueue') = Len(resultQueue) + 1 /\ resultQueue' # <<>>
        /\ ~Closed
        /\ \A i \in DOMAIN resultQueue' : resultQueue'[i].op = "STOP" <=> i = Len(resultQueue')
    BY <2>1, <2>2
  <2> QED
    BY <2>1, <2>2, <2>3, SMTT(30)
<1>7. CASE JoinResultMonitor \/ Finish
  BY <1>7 DEF JoinResultMonitor, Finish, workVars, monVars
<1> QED
  BY <1>1, <1>2, <1>3, <1>4, <1>5, <1>6, <1>7 DEF Next

\* The result monitor's totals are exact: when it stops it has counted every result that
\* any worker put, and none is left in the queue.
THEOREM NoResultIsLost == Spec => []NoResultLost
<1>1. Init => ResultInv
  BY DEF Init, ResultInv, Closed, NoResultLost
<1>2. TypeOK /\ ResultInv /\ [Next]_vars => ResultInv'
  BY ResultStep
<1>3. ResultInv => NoResultLost
  BY DEF ResultInv
<1> QED
  BY <1>1, <1>2, <1>3, TypeCorrect, PTL DEF Spec
=============================================================================
