--------------------------- MODULE MCSyncProducer ---------------------------
(***************************************************************************)
(* The producer alone, its queue never consumed, over every pair of small  *)
(* listings, with a listing failure or a shutdown at any point.            *)
(***************************************************************************)
EXTENDS SyncProducer, SequencesExt

MCKeys == 1..4
File(k, size, mtime, attrs, link) ==
  [key |-> k, size |-> size, mtime |-> mtime, attrs |-> attrs, link |-> link]

\* The sorted listings that hold at most one of the files of each at[k].
Listings(at) ==
  {SetToSortSeq(L, LAMBDA f, g : f.key < g.key) :
     L \in {L \in SUBSET UNION {at[k] : k \in MCKeys} : \A f, g \in L : f.key = g.key => f = g}}

\* Key 1 may be a link, key 2 is hidden, key 3 is excluded by a pattern.
SourceFiles ==
  << {File(1, 1, 1, "a", NoLink), File(1, 2, 2, "a", "x")},
     {File(2, 1, 1, "a", NoLink)},
     {File(3, 1, 1, "a", NoLink), File(3, 2, 1, "a", NoLink)},
     {File(4, 1, 1, "a", NoLink), File(4, 2, 1, "a", NoLink)} >>
TargetFiles ==
  << {File(1, 2, 1, "a", "x"), File(1, 1, 0, "a", NoLink)},
     {File(2, 1, 1, "a", NoLink)},
     {File(3, 1, 2, "a", NoLink)},
     {File(4, 1, 1, "b", NoLink), File(4, 1, 1, "a", NoLink)} >>
MCSources == Listings(SourceFiles)
MCTargets == Listings(TargetFiles)

----------------------------------------------------------------------------
(* Properties.                                                             *)

\* Every batch produced so far, with the one being filled.
Batches == SelectSeq(fileQueue \o outbox, LAMBDA b : b.op # "STOP") \o Flushed(batch)

\* The operations of the batches, in order.
Emitted ==
  FlattenSeq([i \in DOMAIN Batches |->
    [j \in DOMAIN Batches[i].items |-> [op |-> Batches[i].op, key |-> Batches[i].items[j].key]]])

EmittedKeys(ops) == {Emitted[i].key : i \in {i \in DOMAIN Emitted : Emitted[i].op \in ops}}

ProducerTypeOK ==
  /\ si \in 1..(Len(source) + 1) /\ ti \in 1..(Len(target) + 1)
  /\ batch.op \in {"NONE", "ADD", "SYMLINK", "DELETE"}
  /\ prodPc \in {"start", "loop", "merge", "finally", "drain", "done"}
  /\ shutdown \in BOOLEAN /\ prodError \in BOOLEAN
  /\ totalWorkUnits \in Nat

(* The merge of run() emits, at every moment and so also when it is cut    *)
(* short by a shutdown or a failed listing, exactly the operations the two *)
(* listings call for on the keys it has gone past: each ADD and DELETE     *)
(* once, in key order, and no other.                                       *)
MergeExact ==
  /\ EmittedKeys({"ADD", "SYMLINK"}) = {k \in ToAdd : Passed(k)}
  /\ EmittedKeys({"DELETE"}) = {k \in ToDelete : Passed(k)}
  /\ \A i, j \in DOMAIN Emitted : i < j => Emitted[i].key < Emitted[j].key

(* _enqueue_operation never mixes two operations or two size buckets in a  *)
(* batch, never exceeds batch_size, never puts an empty batch, and never   *)
(* splits a run of like operations that fits in one batch.                 *)
BatchesMaximal ==
  LET Like(a, b) == /\ a.op = b.op
                    /\ \/ a.op = "SYMLINK"
                       \/ SizeBucket(a.items[1].size) = SizeBucket(b.items[1].size)
  IN /\ \A i \in DOMAIN Batches :
          /\ Len(Batches[i].items) \in 1..BatchSize
          /\ \A j \in DOMAIN Batches[i].items :
               Like(Batches[i], [op |-> Batches[i].op, items |-> <<Batches[i].items[j]>>])
     /\ \A i \in 1..(Len(Batches) - 1) :
          Like(Batches[i], Batches[i + 1]) => Len(Batches[i].items) = BatchSize

(* When run() returns it has put exactly one STOP per worker, after every  *)
(* batch, whatever ended the loop; and if nothing cut the loop short, all  *)
(* of both listings was gone through.                                      *)
StopsComeLast ==
  prodPc = "done" =>
    /\ fileQueue = Batches \o [w \in 1..NumWorkers |-> Stop]
    /\ (~prodError /\ ~shutdown) => ~HasSource /\ ~HasTarget

(* total_work_units, which the progress bar and SyncResult report, counts  *)
(* every operation emitted and every pair compared, and can only be one    *)
(* short, when a listing fails between the two.                            *)
WorkUnitsCounted ==
  LET compared == {k \in KeysOf(source) \cap KeysOf(target) : k \notin Hidden /\ Passed(k)}
      units    == Cardinality(compared \cup EmittedKeys({"ADD", "SYMLINK", "DELETE"}))
  IN totalWorkUnits \in (IF prodError THEN {units, units - 1} ELSE {units})

=============================================================================
