---------------------------- MODULE CacheManager ----------------------------
(***************************************************************************)
(* Reads of one object through the cache: SingleStorageClient.read         *)
(* (client/single.py) and CacheManager (cache.py), by threads or processes *)
(* that share a cache directory, while the object is overwritten and files *)
(* are evicted.                                                            *)
(*                                                                         *)
(* The object has versions 1, 2, ...; version v has Sizes[v] bytes, and    *)
(* its byte i is <<v, i>>.  A file of the cache holds the first len bytes  *)
(* of its chunk, or of the whole object, of one version, and the extended  *)
(* attributes user.etag (label, 0 if absent) and user.size (-1 if absent). *)
(* Each system call is a step.                                             *)
(***************************************************************************)
EXTENDS Integers, Sequences

CONSTANTS
  Readers,
  Line,        \* cache_line_size
  Sizes,       \* version -> size of the object
  Requests,    \* the reads made: kind ("full" or "range"), off, len and their
               \* check_source_version: "INHERIT", "ENABLE" or "DISABLE"
  CheckConfig, \* check_source_version of the cache configuration
  CalmFills,   \* the object is not overwritten during a read that stores the whole file,
               \* and none of these starts during a read that an overwrite has overtaken
  Null         \* no reader

ASSUME LineAssumption == Line \in Nat \ {0}
ASSUME SizesAssumption == Sizes \in Seq(Nat \ {0}) /\ Sizes # <<>>
ASSUME RequestsAssumption == \A q \in Requests :
  /\ q.kind \in {"full", "range"} /\ q.off \in Nat /\ q.len \in Nat \ {0}
  /\ q.mode \in {"INHERIT", "ENABLE", "DISABLE"}

VARIABLES
  source,      \* the version in the storage
  full,        \* the file of the whole object
  chunk,       \* the chunk files
  lock,        \* who holds the lock file of each chunk
  rd           \* the reads under way

vars == <<source, full, chunk, lock, rd>>

MaxOf(a, b) == IF a < b THEN b ELSE a
MinOf(a, b) == IF a < b THEN a ELSE b

NoFile == [data |-> 0, len |-> 0, label |-> 0, size |-> -1]
Exists(f) == f # NoFile

Extent == LET top == CHOOSE n \in {q.off + q.len : q \in Requests} :
                       \A q \in Requests : q.off + q.len <= n
          IN (top - 1) \div Line
Chunks == 0..Extent

\* A read that raises FileNotFoundError, or the storage's error for a range past the end.
Raised == <<<<0, 0>>>>

\* The n bytes of f from position a on, f being a file that starts at byte base.
Bytes(f, base, a, n) == [i \in 1..n |-> <<f.data, base + a + i - 1>>]
\* What a read of f from position a on, of at most n bytes, returns.
ReadFile(f, base, a, n) == Bytes(f, base, a, MaxOf(0, MinOf(n, f.len - a)))

Object == [data |-> source, len |-> Sizes[source], label |-> 0, size |-> -1]

\* get_object of a range.
GetRange(off, len) == IF off < Sizes[source] THEN ReadFile(Object, 0, off, len) ELSE Raised

Idle == [pc |-> "idle", kind |-> "full", off |-> 0, len |-> 1, version |-> 0, size |-> -1,
         missing |-> <<>>, next |-> 0, want |-> 0, path |-> 0, buf |-> NoFile, out |-> <<>>,
         began |-> 0, clean |-> FALSE]

Init ==
  /\ source = 1
  /\ full = NoFile
  /\ chunk = [c \in Chunks |-> NoFile]
  /\ lock = [c \in Chunks |-> Null]
  /\ rd = [r \in Readers |-> Idle]

First(r) == rd[r].off \div Line
Last(r) == (rd[r].off + rd[r].len - 1) \div Line

Active(r) == rd[r].pc # "idle"
\* A range read of the whole object, when its size is known, stores the whole file.
Whole(q) == q.kind = "range" /\ q.version # 0 /\ q.off = 0 /\ q.len >= q.size
Fills(q) == q.kind = "full" \/ Whole(q)

Update(r, new) == rd' = [rd EXCEPT ![r] = new]
Done(r, out) == Update(r, [Idle EXCEPT !.pc = "done", !.kind = rd[r].kind, !.off = rd[r].off, !.len = rd[r].len,
  !.version = rd[r].version, !.size = rd[r].size, !.out = out, !.clean = rd[r].clean])

----------------------------------------------------------------------------
(* read: the source version, when it is checked, and where to look.        *)

Start(r) ==
  /\ ~Active(r)
  /\ \E q \in Requests :
       LET check == q.mode = "ENABLE" \/ (q.mode = "INHERIT" /\ CheckConfig)
           new == [Idle EXCEPT !.kind = q.kind, !.off = q.off, !.len = q.len,
                     !.version = IF check THEN source ELSE 0,
                     !.size = IF check THEN Sizes[source] ELSE -1,
                     !.began = source, !.clean = \A s \in Readers : ~Active(s)]
       IN /\ CalmFills /\ Fills(new) => \A s \in Readers : Active(s) => rd[s].began = source
          /\ rd' = [s \in Readers |->
                      IF s = r THEN [new EXCEPT !.pc = IF Whole(new) THEN "fetch" ELSE "check"]
                      ELSE [rd[s] EXCEPT !.clean = FALSE]]
  /\ UNCHANGED <<source, full, chunk, lock>>

\* The cached file cannot be used: fetch the object, or look at the chunks.
Miss(r) == Update(r, [rd[r] EXCEPT !.pc = IF rd[r].kind = "full" THEN "fetch" ELSE "identify",
                                   !.next = First(r), !.out = <<>>])

\* contains, which looks at the configuration only.
Contains(version) == Exists(full) /\ (CheckConfig => full.label # 0 /\ full.label = version)

\* _read_range_from_full_cached_file: without etag the file is no use.
ServesRange(version) == Exists(full) /\ full.label # 0 /\ version \in {0, full.label}

CheckFull(r) ==
  /\ rd[r].pc = "check"
  /\ IF IF rd[r].kind = "full" THEN Contains(rd[r].version) ELSE ServesRange(rd[r].version)
     THEN Update(r, [rd[r] EXCEPT !.pc = "open"])
     ELSE Miss(r)
  /\ UNCHANGED <<source, full, chunk, lock>>

OpenFull(r) ==
  /\ rd[r].pc = "open"
  /\ IF Exists(full)
     THEN Update(r, [rd[r] EXCEPT !.pc = "touch", !.out =
            IF rd[r].kind = "full" THEN ReadFile(full, 0, 0, full.len)
            ELSE ReadFile(full, 0, rd[r].off, rd[r].len)])
     ELSE Miss(r)
  /\ UNCHANGED <<source, full, chunk, lock>>

\* _update_access_time, whose last chmod raises when the file is gone.
TouchFull(r) ==
  /\ rd[r].pc = "touch"
  /\ IF Exists(full) THEN Done(r, rd[r].out) ELSE Miss(r)
  /\ UNCHANGED <<source, full, chunk, lock>>

----------------------------------------------------------------------------
(* The whole object is fetched and stored by set.                          *)

Fetch(r) ==
  /\ rd[r].pc = "fetch"
  /\ Update(r, [rd[r] EXCEPT !.pc = "rename", !.buf = Object, !.out =
       ReadFile(Object, 0, 0, IF rd[r].kind = "full" THEN Object.len ELSE rd[r].size)])
  /\ UNCHANGED <<source, full, chunk, lock>>

SetRename(r) ==
  /\ rd[r].pc = "rename"
  /\ full' = rd[r].buf
  /\ Update(r, [rd[r] EXCEPT !.pc = "label", !.buf = NoFile])
  /\ UNCHANGED <<source, chunk, lock>>

\* setxattr on whatever file is there; an error is logged.
SetXattr(r) ==
  /\ rd[r].pc = "label"
  /\ full' = IF rd[r].version # 0 /\ Exists(full) THEN [full EXCEPT !.label = rd[r].version] ELSE full
  /\ Update(r, [rd[r] EXCEPT !.pc = "chmod"])
  /\ UNCHANGED <<source, chunk, lock>>

\* _make_readonly and _update_access_time, which raise when the file is gone.
SetChmod(r) ==
  /\ rd[r].pc = "chmod"
  /\ IF Exists(full) THEN Done(r, rd[r].out)
     ELSE IF rd[r].kind = "full" THEN Done(r, Raised)
     ELSE Update(r, [rd[r] EXCEPT !.pc = "direct", !.out = <<>>])
  /\ UNCHANGED <<source, full, chunk, lock>>

----------------------------------------------------------------------------
(* _identify_missing_chunks.                                               *)


\* _is_chunk_valid of a chunk that exists.
Valid(f, version) == version = 0 \/ f.label = version

Identified(r, absent) ==
  LET c == rd[r].next
      q == [rd[r] EXCEPT !.missing = IF absent THEN Append(@, c) ELSE @]
  IN IF c = Last(r) THEN [q EXCEPT !.pc = "download", !.next = First(r)]
     ELSE [q EXCEPT !.pc = "identify", !.next = c + 1]

Identify(r) ==
  /\ rd[r].pc = "identify"
  /\ LET f == chunk[rd[r].next]
     IN Update(r, IF ~Exists(f) THEN Identified(r, TRUE)
                  ELSE IF Valid(f, rd[r].version) THEN Identified(r, FALSE)
                  ELSE [rd[r] EXCEPT !.pc = "drop"])
  /\ UNCHANGED <<source, full, chunk, lock>>

\* _remove_invalid_chunk.
Drop(r) ==
  /\ rd[r].pc = "drop"
  /\ chunk' = [chunk EXCEPT ![rd[r].next] = NoFile]
  /\ Update(r, Identified(r, TRUE))
  /\ UNCHANGED <<source, full, lock>>

----------------------------------------------------------------------------
(* _download_single_chunk for each missing chunk, under its lock.          *)

\* The chunk at hand.
Target(r) == Head(rd[r].missing)
Unlock(r) == [c \in Chunks |-> IF lock[c] = r THEN Null ELSE lock[c]]
NextMissing(r) == [rd[r] EXCEPT !.pc = "download", !.missing = Tail(@), !.buf = NoFile]

\* Mutant: the exception leaves the lock held.
FallbackLocked(r) ==
  /\ Update(r, [rd[r] EXCEPT !.pc = "direct", !.missing = <<>>, !.next = 0, !.want = 0, !.path = 0,
                             !.buf = NoFile, !.out = <<>>])
  /\ UNCHANGED lock

\* An exception in a range read: get_object of the range itself.
Fallback(r) ==
  /\ Update(r, [rd[r] EXCEPT !.pc = "direct", !.missing = <<>>, !.next = 0, !.want = 0, !.path = 0,
                             !.buf = NoFile, !.out = <<>>])
  /\ lock' = Unlock(r)

Acquire(r) ==
  /\ rd[r].pc = "download"
  /\ IF rd[r].missing = <<>>
     THEN Update(r, [rd[r] EXCEPT !.pc = "size"]) /\ UNCHANGED lock
     ELSE /\ lock[Target(r)] = Null
          /\ lock' = [lock EXCEPT ![Target(r)] = r]
          /\ Update(r, [rd[r] EXCEPT !.pc = "again"])
  /\ UNCHANGED <<source, full, chunk>>

\* "Double-check if chunk was created by another thread".
DoubleCheck(r) ==
  /\ rd[r].pc = "again"
  /\ IF Exists(chunk[Target(r)])
     THEN Update(r, NextMissing(r)) /\ lock' = Unlock(r)
     ELSE Update(r, [rd[r] EXCEPT !.pc = "get"]) /\ UNCHANGED lock
  /\ UNCHANGED <<source, full, chunk>>

\* The chunk as _write_chunk_to_cache will write it, with its attributes.
ChunkFile(c, version, size) ==
  LET len == MinOf(Line, Sizes[source] - c * Line)
  IN [data |-> source, len |-> len, label |-> version,
      size |-> IF size = -1 /\ len < Line THEN c * Line + len ELSE size]

GetChunk(r) ==
  /\ rd[r].pc = "get"
  /\ IF Target(r) * Line < Sizes[source]
     THEN /\ Update(r, [rd[r] EXCEPT !.pc = "replace", !.buf = ChunkFile(Target(r), rd[r].version, rd[r].size)])
          /\ UNCHANGED lock
     ELSE Fallback(r)
  /\ UNCHANGED <<source, full, chunk>>


\* os.replace of a labelled temporary file.
ReplaceChunk(r) ==
  /\ rd[r].pc = "replace"
  /\ chunk' = [chunk EXCEPT ![Target(r)] = rd[r].buf]
  /\ Update(r, [rd[r] EXCEPT !.pc = "small", !.buf = NoFile])
  /\ UNCHANGED <<source, full, lock>>

\* _handle_chunk0_renaming: the check ...
CheckSmall(r) ==
  /\ rd[r].pc = "small"
  /\ Update(r, [rd[r] EXCEPT !.pc =
       IF Target(r) = 0 /\ ~Exists(full) /\ Exists(chunk[0]) /\ chunk[0].len < Line
       THEN "move" ELSE "chunktouch"])
  /\ UNCHANGED <<source, full, chunk, lock>>

\* ... and the rename.
MoveSmall(r) ==
  /\ rd[r].pc = "move"
  /\ IF Exists(chunk[0])
     THEN full' = chunk[0] /\ chunk' = [chunk EXCEPT ![0] = NoFile]
     ELSE UNCHANGED <<full, chunk>>
  /\ Update(r, [rd[r] EXCEPT !.pc = "chunktouch"])
  /\ UNCHANGED <<source, lock>>

\* Chunk 0 of a small object is the file of the whole object.
Moved(c) == c = 0 /\ Exists(full) /\ ~Exists(chunk[0])

\* _update_chunk_access_time, then the lock file is removed and the lock released.
TouchChunk(r) ==
  /\ rd[r].pc = "chunktouch"
  /\ IF Moved(Target(r)) \/ Exists(chunk[Target(r)])
     THEN Update(r, NextMissing(r)) /\ lock' = Unlock(r)
     ELSE Fallback(r)
  /\ UNCHANGED <<source, full, chunk>>

\* The lock times out, get_object or the disk fails.
ChunkRaises(r) ==
  /\ \/ rd[r].pc = "download" /\ rd[r].missing # <<>> /\ lock[Target(r)] # Null
     \/ rd[r].pc \in {"get", "replace"}
  /\ Fallback(r)
  /\ UNCHANGED <<source, full, chunk>>

----------------------------------------------------------------------------
(* _assemble_result_from_chunks.                                           *)

\* The part of the range, from Lower up to but not including Upper, that a chunk holds.
Lower(r) == MaxOf(rd[r].off, rd[r].next * Line)
\* Mutant: one byte too few.
UpperShort(r) == MinOf(rd[r].off + rd[r].len, (rd[r].next + 1) * Line - 1)

Upper(r) == MinOf(rd[r].off + rd[r].len, (rd[r].next + 1) * Line)

\* The bytes of a chunk are in; the read is over after the last one.
Assembled(r, bytes) ==
  LET q == [rd[r] EXCEPT !.pc = "size", !.want = 0, !.path = 0, !.out = @ \o bytes]
  IN IF rd[r].next = Last(r) THEN Done(r, q.out) ELSE Update(r, [q EXCEPT !.next = @ + 1])

\* The path of the chunk, the size of that file and the bytes to expect of it.
SizeChunk(r) ==
  /\ rd[r].pc = "size"
  /\ LET c    == rd[r].next
         f    == IF Moved(c) THEN full ELSE chunk[c]
         pos  == Lower(r) - c * Line
         len  == Upper(r) - Lower(r)
         want == MaxOf(0, MinOf(len, f.size - Lower(r)))
         Want(n) == Update(r, [rd[r] EXCEPT !.pc = "copy", !.want = n, !.path = IF Moved(c) THEN 1 ELSE 0])
     IN \/ ~Exists(f) /\ Fallback(r) /\ UNCHANGED <<full, chunk>>
        \/ Exists(f) /\ f.len >= pos + len /\ Want(len) /\ UNCHANGED <<full, chunk, lock>>
        \/ /\ Exists(f) /\ f.len < pos + len
           /\ IF f.size = -1 \/ f.len < MinOf(Line, MaxOf(f.size - c * Line, 0))
              THEN /\ full' = IF Moved(c) THEN NoFile ELSE full
                   /\ chunk' = IF Moved(c) THEN chunk ELSE [chunk EXCEPT ![c] = NoFile]
                   /\ Fallback(r)
              ELSE /\ IF want = 0 THEN Assembled(r, <<>>) ELSE Want(want)
                   /\ UNCHANGED <<full, chunk, lock>>
  /\ UNCHANGED source

\* The bytes, by the path chosen before.
CopyChunk(r) ==
  /\ rd[r].pc = "copy"
  /\ LET c     == rd[r].next
         f     == IF rd[r].path = 1 THEN full ELSE chunk[c]
         bytes == ReadFile(f, c * Line, Lower(r) - c * Line, rd[r].want)
     IN \/ ~Exists(f) /\ Fallback(r) /\ UNCHANGED <<full, chunk>>
        \/ Exists(f) /\ Len(bytes) = rd[r].want /\ Assembled(r, bytes) /\ UNCHANGED <<full, chunk, lock>>
        \/ /\ Exists(f) /\ Len(bytes) # rd[r].want
           /\ full' = IF rd[r].path = 1 THEN NoFile ELSE full
           /\ chunk' = IF rd[r].path = 1 THEN chunk ELSE [chunk EXCEPT ![c] = NoFile]
           /\ Fallback(r)
  /\ UNCHANGED source

\* The range itself, cut by _read_range to the size known at the start.
Direct(r) ==
  /\ rd[r].pc = "direct"
  /\ LET rest == rd[r].size - rd[r].off
     IN Done(r, IF rd[r].size = -1 \/ Whole(rd[r]) THEN GetRange(rd[r].off, rd[r].len)
                ELSE IF rest <= 0 THEN <<>>
                ELSE GetRange(rd[r].off, MinOf(rd[r].len, rest)))
  /\ UNCHANGED <<source, full, chunk, lock>>

Return(r) ==
  /\ rd[r].pc = "done"
  /\ Update(r, Idle)
  /\ UNCHANGED <<source, full, chunk, lock>>

----------------------------------------------------------------------------
Disturbed == [r \in Readers |-> [rd[r] EXCEPT !.clean = FALSE]]

\* The object is overwritten, by anyone.
Overwrite ==
  /\ source < Len(Sizes)
  /\ CalmFills => \A r \in Readers : Active(r) => ~Fills(rd[r])
  /\ source' = source + 1
  /\ rd' = Disturbed
  /\ UNCHANGED <<full, chunk, lock>>

\* evict_files of some process takes the file, or client.delete does.
EvictFull ==
  /\ Exists(full)
  /\ full' = NoFile
  /\ rd' = Disturbed
  /\ UNCHANGED <<source, chunk, lock>>

EvictChunk ==
  /\ \E c \in Chunks : Exists(chunk[c]) /\ chunk' = [chunk EXCEPT ![c] = NoFile]
  /\ rd' = Disturbed
  /\ UNCHANGED <<source, full, lock>>

ReadFull(r) == CheckFull(r) \/ OpenFull(r) \/ TouchFull(r)
Set(r) == Fetch(r) \/ SetRename(r) \/ SetXattr(r) \/ SetChmod(r)
DownloadChunks(r) ==
  \/ Identify(r) \/ Drop(r) \/ Acquire(r) \/ DoubleCheck(r) \/ GetChunk(r) \/ ReplaceChunk(r)
  \/ CheckSmall(r) \/ MoveSmall(r) \/ TouchChunk(r) \/ ChunkRaises(r)
Assemble(r) == SizeChunk(r) \/ CopyChunk(r) \/ Direct(r)

\* A read that is over touches nothing shared: it returns before anything else happens.
Next ==
  \/ \E r \in Readers : Return(r)
  \/ /\ \A r \in Readers : rd[r].pc # "done"
     /\ \/ \E r \in Readers : Start(r) \/ ReadFull(r) \/ Set(r) \/ DownloadChunks(r) \/ Assemble(r)
        \/ Overwrite \/ EvictFull \/ EvictChunk

Spec == Init /\ [][Next]_vars

----------------------------------------------------------------------------
(* Properties.                                                             *)

Versions == 1..Len(Sizes)

(* A file of the cache is never longer than what it is a copy of, and the  *)
(* lock of a chunk is held only by a reader at work on that chunk.         *)
TypeOK ==
  /\ source \in Versions
  /\ \A f \in {full} \cup {chunk[c] : c \in Chunks} :
       f = NoFile \/ /\ f.data \in Versions /\ f.label \in Versions \cup {0}
                     /\ f.len \in 1..Sizes[f.data] /\ f.size \in Nat \cup {-1}
  /\ \A c \in Chunks : chunk[c].len <= Line
  /\ \A c \in Chunks : lock[c] # Null =>
       /\ lock[c] \in Readers
       /\ rd[lock[c]].pc \in {"again", "get", "replace", "small", "move", "chunktouch"}
       /\ Target(lock[c]) = c

\* What a read of the present object returns.
Expected(r) ==
  IF rd[r].kind = "full" THEN {ReadFile(Object, 0, 0, Object.len)}
  ELSE IF rd[r].off < Sizes[source] THEN {ReadFile(Object, 0, rd[r].off, rd[r].len)}
  ELSE {<<>>, Raised}


(* Until the object is overwritten every read returns exactly its bytes,   *)
(* whatever is evicted under it and whoever else fills the same chunks; a  *)
(* whole read may instead raise, when the file it stored is evicted before *)
(* its permissions are set.                                                *)
FirstVersionExact ==
  \A r \in Readers : rd[r].pc = "done" /\ source = 1 =>
    rd[r].out \in Expected(r) \/ (rd[r].kind = "full" /\ rd[r].out = Raised)


(* "ENABLE: Always check source version": a read that was given the        *)
(* version of the object returns no byte of an older version.              *)
CheckedReadIsCurrent ==
  \A r \in Readers : rd[r].pc = "done" /\ rd[r].version # 0 /\ rd[r].out # Raised =>
    \A i \in DOMAIN rd[r].out : rd[r].out[i][1] >= rd[r].version
=============================================================================
