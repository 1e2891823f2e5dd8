---------------------------- MODULE SyncPipeline ----------------------------
(***************************************************************************)
(* One call of SyncManager.sync_objects (sync/manager.py): the producer    *)
(* thread, the worker threads of every worker process (sync/worker.py),    *)
(* the result and error monitors (sync/monitors.py), the metadata provider *)
(* of the target with its proxy (sync/metadata_proxy.py) and the calling   *)
(* thread that joins them all.                                             *)
(*                                                                         *)
(* The target storage holds, for each key, no object, the object it held   *)
(* before ("old") or the source's object ("new").                          *)
(***************************************************************************)
EXTENDS SyncProducer, ManifestOps

CONSTANTS
  Workers,        \* the worker threads, num_worker_processes * num_worker_threads of them
  Provider,       \* metadata provider of the target: "none"; "shared" by the workers
                  \* (threads); "copy", pickled into each worker (processes, Ray)
  Handler,        \* which BatchSyncHandler create_sync_handler returns
  Inline,         \* one process with one thread: the worker runs in the calling thread
  CachedEvent,    \* shutdown_event is a Ray SharedEvent, which caches "not set"
  PipeCapacity,   \* results a worker process leaves in the pipe of the result queue
                  \* and can still exit; 0 is no limit (threads, Ray)
  Autocommit,     \* the target client has an auto-commit thread
  LookupMin,      \* METADATA_LOOKUP_MIN_CONTENT_LENGTH
  DeletePath,     \* key -> the path build_target_file_path gives a DELETE result
  Failures,       \* what may fail: "LIST", "ADD", "DELETE", "SYMLINK"
  NoKey           \* no path, and the None that ends the error queue

ASSUME WorkersAssumption == IsFiniteSet(Workers) /\ Cardinality(Workers) = NumWorkers
ASSUME PipeAssumption == PipeCapacity \in Nat
ASSUME PathAssumption == NoKey \notin Keys /\ DeletePath \in [Keys -> Keys \cup {NoKey}]

VARIABLES
  storage,        \* the target's objects
  manifest,       \* the target client's metadata provider
  wpc,            \* where each worker's _worker_loop is
  wbatch,         \* the batch in hand, without the items already dealt with
  todo,           \* the calls the worker still makes for that batch, in order
  resultQueue, errorQueue,
  monPc, added, deleted,   \* ResultMonitorThread, total_files_added, total_files_deleted
  errPc, errors,           \* ErrorMonitorThread, len(errors)
  mgr, outcome,   \* what sync_objects waits for, and how it ended
  reported,       \* history: results put on the result queue
  raised,         \* history: errors put on the error queue
  late            \* history: batches each worker took while the shutdown event was set

workVars == <<storage, wpc, wbatch, todo, reported, raised, late>>
monVars  == <<monPc, added, deleted>>
errVars  == <<errPc, errors>>
mgrVars  == <<mgr, outcome>>
vars == <<prodVars, fileQueue, shutdown, workVars, manifest, resultQueue, errorQueue, monVars, errVars, mgrVars>>

HasProvider == Provider # "none"
StopResult == [op |-> "STOP", key |-> NoKey]

\* With a provider, an object an earlier sync uploaded and never committed may be there.
Init ==
  /\ ProducerInit
  /\ storage \in {s \in [Keys -> {"absent", "old", "new"}] : \A k \in Keys :
       IF k \in KeysOf(target) THEN s[k] = "old"
       ELSE s[k] = "absent" \/ (HasProvider /\ k \in KeysOf(source) /\ s[k] = "new")}
  /\ manifest = [EmptyManifest(Keys) EXCEPT
       !.files = [k \in Keys |-> IF HasProvider /\ k \in KeysOf(target) THEN "old" ELSE "none"]]
  /\ wpc = [w \in Workers |-> "check"]
  /\ wbatch = [w \in Workers |-> Stop]
  /\ todo = [w \in Workers |-> <<>>]
  /\ resultQueue = <<>> /\ errorQueue = <<>>
  /\ monPc = "run" /\ added = 0 /\ deleted = 0
  /\ errPc = "run" /\ errors = 0
  /\ mgr = "workers" /\ outcome = "none"
  /\ reported = 0 /\ raised = 0
  /\ late = [w \in Workers |-> 0]

----------------------------------------------------------------------------
(* The producer thread, with a listing that may fail.                      *)

Producer ==
  /\ \E fails \in IF "LIST" \in Failures THEN BOOLEAN ELSE {FALSE} : ProducerStep(fails)
  /\ UNCHANGED <<workVars, manifest, resultQueue, errorQueue, monVars, errVars, mgrVars>>

----------------------------------------------------------------------------
(* _worker_loop.                                                           *)

\* Mutant: the loop does not look at the shutdown event.
WorkerCheckNever(w) ==
  /\ wpc[w] = "check"
  /\ wpc' = [wpc EXCEPT ![w] = "get"]
  /\ UNCHANGED <<prodVars, fileQueue, shutdown, storage, wbatch, todo, reported, raised, late,
                 manifest, resultQueue, errorQueue, monVars, errVars, mgrVars>>

WorkerCheck(w) ==
  /\ wpc[w] = "check"
  /\ \/ shutdown /\ wpc' = [wpc EXCEPT ![w] = "exited"]
     \/ (~shutdown \/ CachedEvent) /\ wpc' = [wpc EXCEPT ![w] = "get"]
  /\ UNCHANGED <<prodVars, fileQueue, shutdown, storage, wbatch, todo, reported, raised, late,
                 manifest, resultQueue, errorQueue, monVars, errVars, mgrVars>>

\* file_queue.get() of a batch or of a STOP.
WorkerGet(w) ==
  /\ wpc[w] = "get"
  /\ fileQueue # <<>>
  /\ fileQueue' = Tail(fileQueue)
  /\ IF Head(fileQueue).op = "STOP"
     THEN wpc' = [wpc EXCEPT ![w] = "requeue"] /\ UNCHANGED <<wbatch, late>>
     ELSE /\ wpc' = [wpc EXCEPT ![w] = "run"]
          /\ wbatch' = [wbatch EXCEPT ![w] = Head(fileQueue)]
          /\ late' = [late EXCEPT ![w] = IF shutdown THEN @ + 1 ELSE @]
  /\ UNCHANGED <<prodVars, shutdown, storage, todo, reported, raised,
                 manifest, resultQueue, errorQueue, monVars, errVars, mgrVars>>

\* The STOP goes back for the sibling threads.
WorkerRequeue(w) ==
  /\ wpc[w] = "requeue"
  /\ HasRoom
  /\ fileQueue' = Append(fileQueue, Stop)
  /\ wpc' = [wpc EXCEPT ![w] = "exited"]
  /\ UNCHANGED <<prodVars, shutdown, storage, wbatch, todo, reported, raised, late,
                 manifest, resultQueue, errorQueue, monVars, errVars, mgrVars>>

----------------------------------------------------------------------------
(* The handlers.  Each one changes the storage and leaves in todo the      *)
(* metadata calls and the puts that follow, in the code's order.           *)

\* Mutant: a handler does not stop at the end of its batch.
GoOnPastTheEnd(calls, items) == IF calls # <<>> THEN "act" ELSE "run"

\* A worker goes on with its calls, then with its items, then with the next batch.
GoOn(calls, items) == IF calls # <<>> THEN "act" ELSE IF items # <<>> THEN "run" ELSE "check"

Handled(w, calls, op, items) ==
  /\ todo' = [todo EXCEPT ![w] = calls]
  /\ wbatch' = [wbatch EXCEPT ![w] = [op |-> op, items |-> items]]
  /\ wpc' = [wpc EXCEPT ![w] = GoOn(calls, items)]
  /\ UNCHANGED <<prodVars, fileQueue, shutdown, reported, raised, late,
                 manifest, resultQueue, errorQueue, monVars, errVars, mgrVars>>

Result(op, key) == [call |-> "result", op |-> op, key |-> key]
Error(key) == [call |-> "error", op |-> "ERROR", key |-> key]

\* QueueBackedMetadataProvider.add_file: the delegate, which is the real provider only
\* for threads, then the queue.
Register(key) ==
  [call |-> IF Provider = "shared" THEN "add_file" ELSE "result", op |-> "ADD", key |-> key]

Batch(w) == wbatch[w].items
First(w) == Batch(w)[1].key

\* Mutant: the overwrite policy is not consulted for an outdated object.
VerdictsOverwrite(file) ==
  LET k == file.key
      verdict == CASE file.size <= LookupMin /\ AllowOverwrites -> "transfer"
                   [] storage[k] = "absent" -> "transfer"
                   [] storage[k] = "new" -> IF AddRaises(manifest, k) THEN "error" ELSE "skip"
                   [] OTHER -> "transfer"
  IN {verdict} \cup (IF "ADD" \in Failures THEN {"error"} ELSE {})

\* check_skip_and_track_with_metadata_provider: skip what is already there, and refuse
\* to overwrite.
Verdicts(file) ==
  LET k == file.key
      verdict == CASE file.size <= LookupMin /\ AllowOverwrites -> "transfer"
                   [] storage[k] = "absent" -> "transfer"
                   [] storage[k] = "new" -> IF AddRaises(manifest, k) THEN "error" ELSE "skip"
                   [] OTHER -> IF AllowOverwrites THEN "transfer" ELSE "error"
  IN {verdict} \cup (IF "ADD" \in Failures THEN {"error"} ELSE {})

\* The orders in which a thread pool may complete the items of S.
Orders(S) ==
  UNION {{s \in [1..n -> S] : S = {s[i] : i \in 1..n} /\ \A i, j \in 1..n : s[i] = s[j] => i = j} :
           n \in 0..BatchSize}

\* _filter_with_metadata_provider: every item is checked in a pool; what is skipped is
\* registered, the errors are reported and what remains is transferred.
FilterBatch(w) ==
  /\ wpc[w] = "run" /\ wbatch[w].op = "ADD" /\ HasProvider
  /\ \E verdict \in [FilesOf(Batch(w)) -> {"skip", "error", "transfer"}] :
       LET transfer == {f \in FilesOf(Batch(w)) : verdict[f] = "transfer"}
       IN /\ \A f \in FilesOf(Batch(w)) : verdict[f] \in Verdicts(f)
          /\ \E settled \in Orders(FilesOf(Batch(w)) \ transfer), items \in Orders(transfer) :
               Handled(w, [i \in DOMAIN settled |-> IF verdict[settled[i]] = "skip"
                                                    THEN Register(settled[i].key)
                                                    ELSE Error(settled[i].key)],
                       "TRANSFER", items)
  /\ UNCHANGED storage

\* How far a failed _execute_batch_transfer of items may have come: the files moved, and
\* the sequence of those registered.
FailedTransfers(items) ==
  LET n == Len(items)
      upTo(i) == SubSeq(items, 1, i)
      some == {[moved |-> S, registered |-> <<>>] : S \in SUBSET FilesOf(items)}
      all(R) == {[moved |-> FilesOf(items), registered |-> r] : r \in R}
  IN CASE Handler = "PosixToPosix" ->
            \* per item: copy, then update_posix_metadata
            UNION {{[moved |-> FilesOf(upTo(i)), registered |-> upTo(j)] :
                      j \in {i - 1, i} \cap 0..(n - 1)} : i \in 0..n}
       [] Handler = "RemoteToPosix" ->
            \* download_files, then update_posix_metadata per item
            some \cup all({upTo(j) : j \in 0..(n - 1)})
       [] OTHER ->
            \* upload_files: the objects, then _register_written_files in a pool
            some \cup all(UNION {Orders(S) : S \in (SUBSET FilesOf(items)) \ {FilesOf(items)}})

\* The rest of process_add_batch: the transfer, then a result per item, or one error
\* that names the first item.
TransferBatch(w) ==
  /\ wpc[w] = "run" /\ wbatch[w].op = IF HasProvider THEN "TRANSFER" ELSE "ADD"
  /\ LET moved(S) == [k \in Keys |-> IF \E f \in S : f.key = k THEN "new" ELSE storage[k]]
         done(items) == [i \in DOMAIN items |-> Register(items[i].key)]
     IN \/ /\ storage' = moved(FilesOf(Batch(w)))
           /\ Handled(w, done(Batch(w)), "ADD", <<>>)
        \/ /\ "ADD" \in Failures
           /\ \E t \in FailedTransfers(Batch(w)) :
                /\ storage' = moved(t.moved)
                /\ Handled(w, (IF HasProvider THEN done(t.registered) ELSE <<>>) \o <<Error(First(w))>>,
                           "ADD", <<>>)

\* process_symlink_batch, for one item: make_symlink, then its result.  With a provider
\* the link is an entry of the provider only.
SymlinkItem(w) ==
  /\ wpc[w] = "run" /\ wbatch[w].op = "SYMLINK"
  /\ \/ /\ ~(HasProvider /\ AddRaises(manifest, First(w)))
        /\ storage' = IF HasProvider THEN storage ELSE [storage EXCEPT ![First(w)] = "new"]
        /\ Handled(w, <<Register(First(w))>>, "SYMLINK", Tail(Batch(w)))
     \/ /\ "SYMLINK" \in Failures \/ (HasProvider /\ AddRaises(manifest, First(w)))
        /\ UNCHANGED storage
        /\ Handled(w, <<Error(First(w))>>, "SYMLINK", Tail(Batch(w)))

\* process_delete_batch, with delete_many: the objects, the metadata, the results.
DeleteBatch(w) ==
  /\ wpc[w] = "run" /\ wbatch[w].op = "DELETE"
  /\ LET items == Batch(w)
         exists(k) == ~HasProvider \/ manifest.files[k] # "none"
         removals == IF Provider # "shared" THEN <<>>
                     ELSE [i \in DOMAIN items |-> [call |-> "remove_file", op |-> "DELETE", key |-> items[i].key]]
     IN /\ storage' = [k \in Keys |-> IF exists(k) /\ \E f \in FilesOf(items) : f.key = k
                                      THEN "absent" ELSE storage[k]]
        /\ Handled(w, removals \o [i \in DOMAIN items |-> Result("DELETE", DeletePath[items[i].key])],
                   "DELETE", <<>>)

\* Nothing catches what delete_many raises: the worker's thread ends there.
DeleteRaises(w) ==
  /\ wpc[w] = "run" /\ wbatch[w].op = "DELETE" /\ "DELETE" \in Failures
  /\ \E S \in SUBSET KeysOf(Batch(w)) :
       storage' = [k \in Keys |-> IF k \in S THEN "absent" ELSE storage[k]]
  /\ wpc' = [wpc EXCEPT ![w] = "died"]
  /\ UNCHANGED <<prodVars, fileQueue, shutdown, wbatch, todo, reported, raised, late,
                 manifest, resultQueue, errorQueue, monVars, errVars, mgrVars>>

\* The next call of a worker: on the shared provider, or a put on one of the queues.
WorkerCall(w) ==
  /\ wpc[w] = "act"
  /\ LET c == Head(todo[w])
         rest == Tail(todo[w])
     IN \/ /\ c.call = "add_file"
           /\ manifest' = AddFile(manifest, c.key, "new")
           /\ todo' = [todo EXCEPT ![w] = <<Result("ADD", c.key)>> \o rest]
           /\ UNCHANGED <<wpc, resultQueue, errorQueue, reported, raised>>
        \/ /\ c.call = "remove_file"
           /\ manifest' = IF RemoveRaises(manifest, c.key) THEN manifest  \* it was skipped
                          ELSE RemoveFile(manifest, c.key)
           /\ todo' = [todo EXCEPT ![w] = rest]
           /\ wpc' = [wpc EXCEPT ![w] = GoOn(rest, Batch(w))]
           /\ UNCHANGED <<resultQueue, errorQueue, reported, raised>>
        \/ /\ c.call = "result"
           /\ resultQueue' = Append(resultQueue, [op |-> c.op, key |-> c.key])
           /\ reported' = reported + 1
           /\ todo' = [todo EXCEPT ![w] = rest]
           /\ wpc' = [wpc EXCEPT ![w] = GoOn(rest, Batch(w))]
           /\ UNCHANGED <<manifest, errorQueue, raised>>
        \/ /\ c.call = "error"
           /\ errorQueue' = Append(errorQueue, c.key)
           /\ raised' = raised + 1
           /\ todo' = [todo EXCEPT ![w] = rest]
           /\ wpc' = [wpc EXCEPT ![w] = GoOn(rest, Batch(w))]
           /\ UNCHANGED <<manifest, resultQueue, reported>>
  /\ UNCHANGED <<prodVars, fileQueue, shutdown, storage, wbatch, late, monVars, errVars, mgrVars>>

Worker(w) ==
  \/ WorkerCheck(w) \/ WorkerGet(w) \/ WorkerRequeue(w)
  \/ FilterBatch(w) \/ TransferBatch(w) \/ SymlinkItem(w)
  \/ DeleteBatch(w) \/ DeleteRaises(w) \/ WorkerCall(w)

----------------------------------------------------------------------------
(* The monitors.                                                           *)

\* Mutant: deletions are counted and not replayed.
ResultMonitorNoRemove ==
  /\ monPc = "run" /\ resultQueue # <<>>
  /\ resultQueue' = Tail(resultQueue)
  /\ LET m == Head(resultQueue)
     IN \/ m.op = "STOP" /\ monPc' = "stopped" /\ UNCHANGED <<manifest, added, deleted>>
        \/ /\ m.op = "ADD" /\ added' = added + 1
           /\ manifest' = IF HasProvider THEN AddFile(manifest, m.key, "new") ELSE manifest
           /\ UNCHANGED <<monPc, deleted>>
        \/ m.op = "DELETE" /\ deleted' = deleted + 1 /\ UNCHANGED <<monPc, manifest, added>>
  /\ UNCHANGED <<prodVars, fileQueue, shutdown, workVars, errorQueue, errVars, mgrVars>>

\* ResultMonitorThread.run: replay on the real provider, count; an exception ends it.
ResultMonitor ==
  /\ monPc = "run" /\ resultQueue # <<>>
  /\ resultQueue' = Tail(resultQueue)
  /\ LET m == Head(resultQueue)
     IN \/ /\ m.op = "STOP"
           /\ monPc' = "stopped"
           /\ UNCHANGED <<manifest, added, deleted>>
        \/ /\ m.op = "ADD"
           /\ IF HasProvider /\ AddRaises(manifest, m.key)
              THEN monPc' = "failed" /\ UNCHANGED <<manifest, added>>
              ELSE /\ manifest' = IF HasProvider THEN AddFile(manifest, m.key, "new") ELSE manifest
                   /\ added' = added + 1
                   /\ UNCHANGED monPc
           /\ UNCHANGED deleted
        \/ /\ m.op = "DELETE"
           /\ IF HasProvider /\ RemoveRaises(manifest, m.key)
              THEN monPc' = "failed" /\ UNCHANGED <<manifest, deleted>>
              ELSE /\ manifest' = IF HasProvider THEN RemoveFile(manifest, m.key) ELSE manifest
                   /\ deleted' = deleted + 1
                   /\ UNCHANGED monPc
           /\ UNCHANGED added
  /\ UNCHANGED <<prodVars, fileQueue, shutdown, workVars, errorQueue, errVars, mgrVars>>

\* Mutant: only the first error is kept.
ErrorMonitorFirstOnly ==
  /\ errPc = "run" /\ errorQueue # <<>>
  /\ errorQueue' = Tail(errorQueue)
  /\ IF Head(errorQueue) = NoKey
     THEN errPc' = "stopped" /\ UNCHANGED <<errors, shutdown>>
     ELSE errors' = 1 /\ shutdown' = TRUE /\ UNCHANGED errPc
  /\ UNCHANGED <<prodVars, fileQueue, workVars, manifest, resultQueue, monVars, mgrVars>>

\* ErrorMonitorThread.run: collect, and signal the shutdown on the first error.
ErrorMonitor ==
  /\ errPc = "run" /\ errorQueue # <<>>
  /\ errorQueue' = Tail(errorQueue)
  /\ IF Head(errorQueue) = NoKey
     THEN errPc' = "stopped" /\ UNCHANGED <<errors, shutdown>>
     ELSE errors' = errors + 1 /\ shutdown' = TRUE /\ UNCHANGED errPc
  /\ UNCHANGED <<prodVars, fileQueue, workVars, manifest, resultQueue, monVars, mgrVars>>

\* _committer_thread, at any time.
AutoCommit ==
  /\ Autocommit /\ HasProvider
  /\ manifest' = CommitUpdates(manifest)
  /\ manifest' # manifest
  /\ UNCHANGED <<prodVars, fileQueue, shutdown, workVars, resultQueue, errorQueue, monVars, errVars, mgrVars>>

----------------------------------------------------------------------------
(* The calling thread, from the start of the workers on.                   *)

Ended == {"exited", "died"}

\* Mutant: the join returns with the first worker.
JoinWorkersFirst ==
  /\ mgr = "workers"
  /\ \E w \in Workers : wpc[w] \in Ended
  /\ mgr' = "producer"
  /\ UNCHANGED <<prodVars, fileQueue, shutdown, workVars, manifest, resultQueue, errorQueue, monVars, errVars, outcome>>

\* Mutant: what a worker run inline raises is swallowed.
JoinWorkersSwallow ==
  /\ mgr = "workers"
  /\ \A w \in Workers : wpc[w] \in Ended
  /\ mgr' = "producer"
  /\ UNCHANGED <<prodVars, fileQueue, shutdown, workVars, manifest, resultQueue, errorQueue, monVars, errVars, outcome>>

\* The workers are over.  One run inline lets its exception through; a process is only
\* over once what it put on the result queue is in the pipe.
JoinWorkers ==
  /\ mgr = "workers"
  /\ \A w \in Workers : wpc[w] \in Ended
  /\ IF Inline /\ \E w \in Workers : wpc[w] = "died"
     THEN mgr' = "done" /\ outcome' = "raised"
     ELSE /\ PipeCapacity = 0 \/ Len(resultQueue) <= PipeCapacity
          /\ mgr' = "producer" /\ UNCHANGED outcome
  /\ UNCHANGED <<prodVars, fileQueue, shutdown, workVars, manifest, resultQueue, errorQueue, monVars, errVars>>

JoinProducer ==
  /\ mgr = "producer" /\ prodPc = "done"
  /\ resultQueue' = Append(resultQueue, StopResult)
  /\ mgr' = "results"
  /\ UNCHANGED <<prodVars, fileQueue, shutdown, workVars, manifest, errorQueue, monVars, errVars, outcome>>

JoinResultMonitor ==
  /\ mgr = "results" /\ monPc # "run"
  /\ errorQueue' = Append(errorQueue, NoKey)
  /\ mgr' = "errors"
  /\ UNCHANGED <<prodVars, fileQueue, shutdown, workVars, manifest, resultQueue, monVars, errVars, outcome>>

\* commit_metadata and the verdict, once the error monitor is joined.
Finish ==
  /\ mgr = "errors" /\ errPc = "stopped"
  /\ manifest' = IF HasProvider THEN CommitUpdates(manifest) ELSE manifest
  /\ mgr' = "done"
  /\ outcome' = IF prodError \/ monPc = "failed" \/ errors > 0 THEN "SyncError" ELSE "ok"
  /\ UNCHANGED <<prodVars, fileQueue, shutdown, workVars, resultQueue, errorQueue, monVars, errVars>>

Terminated == mgr = "done" /\ UNCHANGED vars

Next ==
  \/ Producer
  \/ \E w \in Workers : Worker(w)
  \/ ResultMonitor \/ ErrorMonitor \/ AutoCommit
  \/ JoinWorkers \/ JoinProducer \/ JoinResultMonitor \/ Finish
  \/ Terminated

Spec == Init /\ [][Next]_vars

\* Every thread is scheduled, and a blocked put or get returns once it can.
Fairness ==
  /\ WF_vars(Producer)
  /\ \A w \in Workers : WF_vars(Worker(w))
  /\ WF_vars(ResultMonitor) /\ WF_vars(ErrorMonitor)
  /\ WF_vars(JoinWorkers \/ JoinProducer \/ JoinResultMonitor \/ Finish)

FairSpec == Spec /\ Fairness

----------------------------------------------------------------------------
(* Properties.                                                             *)

NoneDied == \A w \in Workers : wpc[w] # "died"

\* A symbolic link synced into a provider is an entry without an object.
EntryOnly(k) == HasProvider /\ k \in KeysOf(source) /\ FileAt(source, k).link # NoLink

Entries == {"none", "old", "new"}
Batches ==
  {b \in [op : {"ADD", "SYMLINK", "DELETE", "STOP"}, items : Seq(Files)] : b.items = <<>> <=> b.op = "STOP"}
Buffers ==
  {b \in [op : {"NONE", "ADD", "SYMLINK", "DELETE"},
          bucket : {"NONE", "SMALL", "MEDIUM", "LARGE", "VERY_LARGE"},
          items : Seq(Files)] : b.op = "NONE" => b.items = <<>>}
Calls ==
  [call : {"add_file"}, op : {"ADD"}, key : Keys] \cup
  [call : {"remove_file"}, op : {"DELETE"}, key : Keys] \cup
  [call : {"result"}, op : {"ADD"}, key : Keys] \cup
  [call : {"result"}, op : {"DELETE"}, key : Keys \cup {NoKey}] \cup
  [call : {"error"}, op : {"ERROR"}, key : Keys]
Messages ==
  [op : {"ADD"}, key : Keys] \cup [op : {"DELETE"}, key : Keys \cup {NoKey}] \cup {StopResult}

ProducerTypeOK ==
  /\ source \in Sources /\ target \in Targets
  /\ si \in Nat \ {0} /\ ti \in Nat \ {0}
  /\ batch \in Buffers
  /\ outbox \in Seq(Batches)
  /\ prodPc \in {"start", "loop", "merge", "finally", "drain", "done"}
  /\ prodError \in BOOLEAN /\ totalWorkUnits \in Nat

WorkerTypeOK ==
  /\ storage \in [Keys -> {"absent", "old", "new"}]
  /\ wpc \in [Workers -> {"check", "get", "requeue", "run", "act", "exited", "died"}]
  /\ wbatch \in [Workers -> [op : {"ADD", "SYMLINK", "DELETE", "STOP", "TRANSFER"}, items : Seq(Files)]]
  /\ todo \in [Workers -> Seq(Calls)]
  /\ \A w \in Workers : (wpc[w] = "act" => todo[w] # <<>>) /\ (wpc[w] = "run" => Batch(w) # <<>>)
  /\ reported \in Nat /\ raised \in Nat /\ late \in [Workers -> Nat]

MonitorTypeOK ==
  /\ manifest \in [files : [Keys -> Entries], adds : [Keys -> Entries], removes : SUBSET Keys]
  /\ resultQueue \in Seq(Messages) /\ errorQueue \in Seq(Keys \cup {NoKey})
  /\ monPc \in {"run", "stopped", "failed"} /\ added \in Nat /\ deleted \in Nat
  /\ errPc \in {"run", "stopped"} /\ errors \in Nat
  /\ mgr \in {"workers", "producer", "results", "errors", "done"}
  /\ outcome \in {"none", "ok", "SyncError", "raised"}

(* The state of a sync is well formed: in particular a worker between two  *)
(* calls of a batch has a call to make, one about to handle a batch has an *)
(* item to handle, and no batch on its way to a worker is empty.           *)
TypeOK ==
  /\ ProducerTypeOK /\ WorkerTypeOK /\ MonitorTypeOK
  /\ fileQueue \in Seq(Batches) /\ shutdown \in BOOLEAN

(* The STOP that sync_objects puts after joining the workers is the last   *)
(* message of the result queue: a result monitor that stopped on it has    *)
(* counted every result any worker ever put.                               *)
NoResultLost == monPc = "stopped" => added + deleted = reported /\ resultQueue = <<>>

(* "report all errors collected": when sync_objects ends by itself, every  *)
(* error a worker put on the error queue was collected, and one is enough  *)
(* to end in SyncError.                                                    *)
ErrorsSurface ==
  outcome \in {"ok", "SyncError"} => errors = raised /\ (raised > 0 => outcome = "SyncError")

(* A sync that returns normally, none of whose threads died, took every    *)
(* batch off the file queue and finished it: nothing is left in the        *)
(* producer, in the queue or in a worker's hands.                          *)
CleanFinish ==
  outcome = "ok" /\ NoneDied =>
    /\ prodPc = "done" /\ outbox = <<>>
    /\ \A i \in DOMAIN fileQueue : fileQueue[i].op = "STOP"
    /\ \A w \in Workers : wpc[w] = "exited"

(* ... and so made the target what the two listings call for, and reports  *)
(* exactly the number of files it added and deleted.                       *)
SuccessMeansSynced ==
  outcome = "ok" /\ NoneDied =>
    /\ \A k \in ToAdd : EntryOnly(k) \/ storage[k] = "new"
    /\ \A k \in ToDelete : storage[k] = "absent"
    /\ added = Cardinality(ToAdd) /\ deleted = Cardinality(ToDelete)

(* At no moment, failed or cut short or not, has a sync replaced or        *)
(* deleted an object of the target that the two listings do not call for.  *)
OnlyPlannedTouched ==
  \A k \in KeysOf(target) :
    /\ storage[k] = "new" => k \in ToAdd
    /\ storage[k] = "absent" => k \in ToDelete

(* "stop on the first error (fail-fast)": once the shutdown event is set a *)
(* worker takes at most one more batch, the one its pending get returns.   *)
FailFast == \A w \in Workers : late[w] <= 1

(* After a successful sync the committed manifest describes the target:    *)
(* the added files as they are now, no deleted file, the others as before. *)
ManifestFollowsStorage ==
  outcome = "ok" /\ NoneDied /\ HasProvider =>
    \A k \in Keys :
      manifest.files[k] = IF k \in ToAdd THEN "new"
                          ELSE IF k \in KeysOf(target) \ ToDelete THEN "old" ELSE "none"


(* With overwrites disallowed no tracked object is ever replaced, not even *)
(* by a sync that then fails (check_skip_and_track_with_metadata_provider).*)
NoOverwrite ==
  HasProvider /\ ~AllowOverwrites => \A k \in KeysOf(target) : storage[k] # "new"

(* ":raises SyncError: If errors occur during sync operations": a sync     *)
(* does not return normally after one of its workers died of an exception. *)
FailureRaises == outcome = "ok" => NoneDied

(* "the queued message is a harmless, idempotent replay": replaying on the *)
(* real provider what a worker did never ends the result monitor.          *)
ReplayHarmless == monPc # "failed"

(* "DELETE propagation is handled by the sync worker": with no failure of  *)
(* the storage the deletions reach the provider the sync commits.          *)
DeletePropagates ==
  outcome \in {"ok", "SyncError"} /\ Failures = {} /\ HasProvider =>
    \A k \in ToDelete : manifest.files[k] = "none"

(* sync_objects always ends: with errors, a shutdown, dead workers or a    *)
(* failed listing, every join returns.                                     *)
Termination == <>(mgr = "done")
=============================================================================
