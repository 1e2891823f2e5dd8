---------------------------- MODULE SyncProducer ----------------------------
(***************************************************************************)
(* The ProducerThread of a sync (sync/producer.py): it merges the source   *)
(* listing with the target listing, groups the resulting operations into   *)
(* batches and puts the batches, then one STOP per worker, on the file     *)
(* queue.                                                                  *)
(*                                                                         *)
(* A file is a record of what the thread looks at: its key relative to the *)
(* synced prefix (keys are numbers, ordered as the strings are), its       *)
(* content length, its modification time in seconds, its attributes and    *)
(* the target of the symbolic link it is, if it is one.                    *)
(***************************************************************************)
EXTENDS Integers, Sequences, FiniteSets

CONSTANTS
  Keys,              \* relative keys
  BatchSize,         \* batch_size
  NumWorkers,        \* num_workers: worker processes times threads
  Capacity,          \* maxsize of the file queue; 0 is unbounded
  DeleteUnmatched,   \* delete_unmatched_files
  CompareAttributes, \* preserve_source_attributes with a metadata provider
  Hidden,            \* keys _is_hidden rejects ({} when ignore_hidden is off)
  Excluded,          \* keys pattern_matcher.should_include_file rejects
  SmallMax, MediumMax, LargeMax, \* the SIZE_*_THRESHOLDs
  NoLink,            \* symlink_target is None
  Sources, Targets   \* the listings the two iterators may yield, as sequences of files

\* The files of a listing, and of all of them.
FilesOf(listing) == {listing[i] : i \in DOMAIN listing}
Files == UNION {FilesOf(L) : L \in Sources \cup Targets}

ASSUME ListingsAssumption ==
  \A L \in Sources \cup Targets : L \in Seq(FilesOf(L)) /\ \A f \in FilesOf(L) : f.key \in Keys
ASSUME BatchSizeAssumption == BatchSize \in Nat \ {0}
ASSUME NumWorkersAssumption == NumWorkers \in Nat \ {0}
ASSUME CapacityAssumption == Capacity \in Nat

VARIABLES
  source,          \* what the source iterator yields, in its order
  target,          \* what the target iterator yields
  si, ti,          \* positions of source_file and target_file
  batch,           \* _current_batch, _current_batch_type and its size bucket
  outbox,          \* batches handed to file_queue.put and not yet in the queue
  fileQueue,       \* file_queue
  shutdown,        \* shutdown_event
  prodPc,          \* where run() is
  prodError,       \* self.error is not None
  totalWorkUnits   \* total_work_units

prodVars == <<source, target, si, ti, batch, outbox, prodPc, prodError, totalWorkUnits>>

Stop == [op |-> "STOP", items |-> <<>>]
NoBatch == [op |-> "NONE", bucket |-> "NONE", items |-> <<>>]

ProducerInit ==
  /\ source \in Sources
  /\ target \in Targets
  /\ si = 1 /\ ti = 1
  /\ batch = NoBatch
  /\ outbox = <<>>
  /\ fileQueue = <<>>
  /\ shutdown = FALSE
  /\ prodPc = "start"
  /\ prodError = FALSE
  /\ totalWorkUnits = 0

----------------------------------------------------------------------------
(* Batching.                                                               *)

SizeBucket(size) ==
  CASE size <= SmallMax -> "SMALL"
    [] size > SmallMax /\ size <= MediumMax -> "MEDIUM"
    [] size > MediumMax /\ size <= LargeMax -> "LARGE"
    [] OTHER -> "VERY_LARGE"

\* What _flush_batch puts for the batch b.
Flushed(b) == IF b.items = <<>> THEN <<>> ELSE <<[op |-> b.op, items |-> b.items]>>

\* Mutant: a change of size bucket alone does not flush.
EnqueueAcrossBuckets(operation, file) ==
  LET link   == operation = "ADD" /\ file.link # NoLink
      op     == IF link THEN "SYMLINK" ELSE operation
      change == batch.op # op
      grown  == [op |-> op, bucket |-> SizeBucket(file.size),
                 items |-> IF change THEN <<file>> ELSE Append(batch.items, file)]
      full   == Len(grown.items) >= BatchSize
  IN /\ batch' = IF full THEN NoBatch ELSE grown
     /\ outbox' = (IF change THEN Flushed(batch) ELSE <<>>) \o (IF full THEN Flushed(grown) ELSE <<>>)

\* _enqueue_operation: flush on a change of operation or bucket, append, flush when full.
EnqueueOperation(operation, file) ==
  LET link   == operation = "ADD" /\ file.link # NoLink
      op     == IF link THEN "SYMLINK" ELSE operation
      bucket == IF link THEN "SMALL" ELSE SizeBucket(file.size)
      change == batch.op # op \/ batch.bucket # bucket
      grown  == [op |-> op, bucket |-> bucket,
                 items |-> IF change THEN <<file>> ELSE Append(batch.items, file)]
      full   == Len(grown.items) >= BatchSize
  IN /\ batch' = IF full THEN NoBatch ELSE grown
     /\ outbox' = (IF change THEN Flushed(batch) ELSE <<>>) \o (IF full THEN Flushed(grown) ELSE <<>>)

MatchFileMetadata(s, t) ==
  IF s.link # NoLink \/ t.link # NoLink
  THEN s.link = t.link
  ELSE /\ s.size = t.size
       /\ s.mtime <= t.mtime
       /\ CompareAttributes => s.attrs = t.attrs

----------------------------------------------------------------------------
(* run().  A call of next() on an iterator may raise (a listing failed):   *)
(* "fails" is that outcome of the step's last calls.                       *)

HasSource == si <= Len(source)
HasTarget == ti <= Len(target)
SourceFile == source[si]
TargetFile == target[ti]

\* The two first calls of next, before the loop.
OpenListings(fails) ==
  /\ prodPc = "start"
  /\ prodPc' = IF fails THEN "finally" ELSE "loop"
  /\ prodError' = fails
  /\ UNCHANGED <<source, target, si, ti, batch, outbox, fileQueue, shutdown, totalWorkUnits>>

\* The loop condition and the shutdown check.
LoopHead ==
  /\ prodPc = "loop" /\ outbox = <<>>
  /\ prodPc' = IF (HasSource \/ HasTarget) /\ ~shutdown THEN "merge" ELSE "finally"
  /\ UNCHANGED <<source, target, si, ti, batch, outbox, fileQueue, shutdown, prodError, totalWorkUnits>>

\* Mutant: the source iterator is advanced twice.
AdvanceTwice(dsource, dtarget, fails) ==
  /\ si' = si + 2 * dsource
  /\ ti' = ti + dtarget
  /\ prodPc' = IF fails THEN "finally" ELSE "loop"
  /\ prodError' = fails
  /\ UNCHANGED <<source, target, fileQueue, shutdown>>

Advance(dsource, dtarget, fails) ==
  /\ si' = si + dsource
  /\ ti' = ti + dtarget
  /\ prodPc' = IF fails THEN "finally" ELSE "loop"
  /\ prodError' = fails
  /\ UNCHANGED <<source, target, fileQueue, shutdown>>

SkipHiddenSource(fails) ==
  /\ prodPc = "merge"
  /\ HasSource /\ SourceFile.key \in Hidden
  /\ Advance(1, 0, fails)
  /\ UNCHANGED <<batch, outbox, totalWorkUnits>>

SkipHiddenTarget(fails) ==
  /\ prodPc = "merge"
  /\ HasSource => SourceFile.key \notin Hidden
  /\ HasTarget /\ TargetFile.key \in Hidden
  /\ Advance(0, 1, fails)
  /\ UNCHANGED <<batch, outbox, totalWorkUnits>>

BothVisible ==
  /\ HasSource => SourceFile.key \notin Hidden
  /\ HasTarget => TargetFile.key \notin Hidden

\* Only at the source: ADD it, unless a pattern excludes it.
SourceOnly(fails) ==
  /\ prodPc = "merge" /\ BothVisible
  /\ HasSource /\ (HasTarget => SourceFile.key < TargetFile.key)
  /\ IF SourceFile.key \in Excluded
     THEN UNCHANGED <<batch, outbox, totalWorkUnits>>
     ELSE EnqueueOperation("ADD", SourceFile) /\ totalWorkUnits' = totalWorkUnits + 1
  /\ Advance(1, 0, fails)

\* Mutant: a deletion is not counted.
TargetOnlyUncounted(fails) ==
  /\ prodPc = "merge" /\ BothVisible
  /\ HasTarget /\ (HasSource => SourceFile.key > TargetFile.key)
  /\ IF DeleteUnmatched THEN EnqueueOperation("DELETE", TargetFile) ELSE UNCHANGED <<batch, outbox>>
  /\ Advance(0, 1, fails)
  /\ UNCHANGED totalWorkUnits

\* Mutant: a key that is on both sides may be taken for unmatched.
TargetOnlyOrEqual(fails) ==
  /\ prodPc = "merge" /\ BothVisible
  /\ HasTarget /\ (HasSource => SourceFile.key >= TargetFile.key)
  /\ IF DeleteUnmatched
     THEN EnqueueOperation("DELETE", TargetFile) /\ totalWorkUnits' = totalWorkUnits + 1
     ELSE UNCHANGED <<batch, outbox, totalWorkUnits>>
  /\ Advance(0, 1, fails)

\* Only at the target: DELETE it, when asked to.
TargetOnly(fails) ==
  /\ prodPc = "merge" /\ BothVisible
  /\ HasTarget /\ (HasSource => SourceFile.key > TargetFile.key)
  /\ IF DeleteUnmatched
     THEN EnqueueOperation("DELETE", TargetFile) /\ totalWorkUnits' = totalWorkUnits + 1
     ELSE UNCHANGED <<batch, outbox, totalWorkUnits>>
  /\ Advance(0, 1, fails)

\* Mutant: the target iterator stays behind after a comparison.
BothKeepsTarget(fails) ==
  /\ prodPc = "merge" /\ BothVisible
  /\ HasSource /\ HasTarget /\ SourceFile.key = TargetFile.key
  /\ IF MatchFileMetadata(SourceFile, TargetFile) \/ SourceFile.key \in Excluded
     THEN UNCHANGED <<batch, outbox>>
     ELSE EnqueueOperation("ADD", SourceFile)
  /\ totalWorkUnits' = IF fails THEN totalWorkUnits ELSE totalWorkUnits + 1
  /\ Advance(1, 0, fails)

\* On both sides: ADD it when it differs.  The unit is counted after the calls of next.
Both(fails) ==
  /\ prodPc = "merge" /\ BothVisible
  /\ HasSource /\ HasTarget /\ SourceFile.key = TargetFile.key
  /\ IF MatchFileMetadata(SourceFile, TargetFile) \/ SourceFile.key \in Excluded
     THEN UNCHANGED <<batch, outbox>>
     ELSE EnqueueOperation("ADD", SourceFile)
  /\ totalWorkUnits' = IF fails THEN totalWorkUnits ELSE totalWorkUnits + 1
  /\ Advance(1, 1, fails)

\* Mutant: one STOP for all the workers.
FinallyOneStop ==
  /\ prodPc = "finally" /\ outbox = <<>>
  /\ outbox' = Flushed(batch) \o <<Stop>>
  /\ batch' = NoBatch
  /\ prodPc' = "drain"
  /\ UNCHANGED <<source, target, si, ti, fileQueue, shutdown, prodError, totalWorkUnits>>

\* Mutant: the STOPs go before the last batch.
FinallyStopsFirst ==
  /\ prodPc = "finally" /\ outbox = <<>>
  /\ outbox' = [w \in 1..NumWorkers |-> Stop] \o Flushed(batch)
  /\ batch' = NoBatch
  /\ prodPc' = "drain"
  /\ UNCHANGED <<source, target, si, ti, fileQueue, shutdown, prodError, totalWorkUnits>>

\* Mutant: the last, incomplete batch is dropped.
FinallyNoFlush ==
  /\ prodPc = "finally" /\ outbox = <<>>
  /\ outbox' = [w \in 1..NumWorkers |-> Stop]
  /\ batch' = NoBatch
  /\ prodPc' = "drain"
  /\ UNCHANGED <<source, target, si, ti, fileQueue, shutdown, prodError, totalWorkUnits>>

\* Mutant: no STOP after a failed listing.
FinallyOnlyIfFine ==
  /\ prodPc = "finally" /\ outbox = <<>>
  /\ outbox' = Flushed(batch) \o (IF prodError THEN <<>> ELSE [w \in 1..NumWorkers |-> Stop])
  /\ batch' = NoBatch
  /\ prodPc' = "drain"
  /\ UNCHANGED <<source, target, si, ti, fileQueue, shutdown, prodError, totalWorkUnits>>

\* The finally clause: flush what is left and put one STOP per worker.
Finally ==
  /\ prodPc = "finally" /\ outbox = <<>>
  /\ outbox' = Flushed(batch) \o [w \in 1..NumWorkers |-> Stop]
  /\ batch' = NoBatch
  /\ prodPc' = "drain"
  /\ UNCHANGED <<source, target, si, ti, fileQueue, shutdown, prodError, totalWorkUnits>>

\* file_queue.put of the next batch, which blocks while the queue is full.
HasRoom == Capacity = 0 \/ Len(fileQueue) < Capacity

Put ==
  /\ outbox # <<>>
  /\ HasRoom
  /\ fileQueue' = Append(fileQueue, Head(outbox))
  /\ outbox' = Tail(outbox)
  /\ UNCHANGED <<source, target, si, ti, batch, shutdown, prodPc, prodError, totalWorkUnits>>

ProducerReturn ==
  /\ prodPc = "drain" /\ outbox = <<>>
  /\ prodPc' = "done"
  /\ UNCHANGED <<source, target, si, ti, batch, outbox, fileQueue, shutdown, prodError, totalWorkUnits>>

ProducerStep(fails) ==
  \/ OpenListings(fails) \/ LoopHead
  \/ SkipHiddenSource(fails) \/ SkipHiddenTarget(fails)
  \/ SourceOnly(fails) \/ TargetOnly(fails) \/ Both(fails)
  \/ Finally \/ Put \/ ProducerReturn

\* The error monitor's only effect on this thread.
SetShutdown ==
  /\ ~shutdown
  /\ shutdown' = TRUE
  /\ UNCHANGED <<prodVars, fileQueue>>

ProducerNext == SetShutdown \/ \E fails \in BOOLEAN : ProducerStep(fails)

ProducerSpec == ProducerInit /\ [][ProducerNext]_<<prodVars, fileQueue, shutdown>>

----------------------------------------------------------------------------
(* Reference: what a sync of two listings has to do.                       *)

KeysOf(listing) == {listing[i].key : i \in DOMAIN listing}
FileAt(listing, k) == CHOOSE f \in FilesOf(listing) : f.key = k

ToAdd ==
  {k \in KeysOf(source) \ (Hidden \cup Excluded) :
     k \in KeysOf(target) => ~MatchFileMetadata(FileAt(source, k), FileAt(target, k))}

ToDelete == IF DeleteUnmatched THEN KeysOf(target) \ (KeysOf(source) \cup Hidden) ELSE {}

Sorted(listing) == \A i, j \in DOMAIN listing : i < j => listing[i].key < listing[j].key

\* Keys both iterators have gone past.
Passed(k) == (HasSource => k < SourceFile.key) /\ (HasTarget => k < TargetFile.key)
=============================================================================
