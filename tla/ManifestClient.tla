--------------------------- MODULE ManifestClient ---------------------------
(***************************************************************************)
(* A SingleStorageClient (client/single.py) with a writable                *)
(* ManifestMetadataProvider (providers/manifest_metadata.py): its threads, *)
(* one of which may be the auto-commit thread, write, delete and commit,   *)
(* and the process may stop at any point and start again.  The client has  *)
(* the _metadata_provider_lock that auto-commit gives it.                  *)
(*                                                                         *)
(* An object, and the entry that describes it, is a version; "none" is the *)
(* absence of either.  A commit writes a folder named by the current       *)
(* second: a part with the entries, then an index.  A start loads the      *)
(* newest folder that has an index.                                        *)
(***************************************************************************)
EXTENDS ManifestOps

CONSTANTS
  Paths, Versions,
  Callers,           \* the threads that use the client
  Committer,         \* the auto-commit thread
  Null,              \* no thread, no path
  MaxSecond,         \* bound on the clock
  Starts             \* the manifests the first start may find

Threads == Callers \cup {Committer}

ASSUME VersionsAssumption == "none" \notin Versions
ASSUME SecondAssumption == MaxSecond \in Nat \ {0}
ASSUME NullAssumption == Null \notin Threads \cup Paths
ASSUME StartsAssumption == Starts \subseteq [Paths -> Versions \cup {"none"}]

VARIABLES
  storage,    \* path -> object
  md,         \* the provider: files, adds, removes
  folders,    \* second -> part and whether the index is there
  clock,      \* the current second
  lock,       \* holder of _metadata_provider_lock
  pc, op,     \* what each thread is doing, and with which path and version
  second,     \* the second that names the folder of the commit under way
  outcome,    \* history: how the commits since the files last changed ended
  doubtful    \* history: paths two calls were on at once, or on which one was cut short

hist == <<outcome, doubtful>>
vars == <<storage, md, folders, clock, lock, pc, op, second, hist>>

Entries == Versions \cup {"none"}
NoFiles == [p \in Paths |-> "none"]
NoOp == [path |-> Null, entry |-> "none"]

\* _load_manifest: the newest folder with an index.
Indexed == {t \in 1..MaxSecond : folders[t].index}
Newest == CHOOSE t \in Indexed : \A u \in Indexed : u <= t
Loaded == IF Indexed = {} THEN NoFiles ELSE folders[Newest].part

Provider(loaded) == [EmptyManifest(Paths) EXCEPT !.files = loaded]

Init ==
  /\ \E loaded \in Starts :
       /\ storage = loaded
       /\ md = Provider(loaded)
       /\ folders = [t \in 1..MaxSecond |->
            [part |-> IF t = 1 THEN loaded ELSE NoFiles, index |-> t = 1 /\ loaded # NoFiles]]
  /\ clock = 1
  /\ lock = Null
  /\ pc = [t \in Threads |-> "idle"]
  /\ op = [t \in Threads |-> NoOp]
  /\ second = 1
  /\ outcome = "saved" /\ doubtful = {}

----------------------------------------------------------------------------
(* write, upload_file and copy.                                            *)

Free(p) == \A t \in Threads : op[t].path # p

Begin(t, p, e, step) ==
  /\ pc[t] = "idle"
  /\ pc' = [pc EXCEPT ![t] = step]
  /\ op' = [op EXCEPT ![t] = [path |-> p, entry |-> e]]
  /\ doubtful' = IF Free(p) THEN doubtful ELSE doubtful \cup {p}
  /\ UNCHANGED <<storage, md, folders, clock, lock, second, outcome>>

\* _resolve_write_path, which raises on a committed file that may not be overwritten.
ResolveWritePath(t) ==
  \E p \in Paths, v \in Versions : ~AddRaises(md, p) /\ Begin(t, p, v, "put")

PutObject(t) ==
  /\ pc[t] = "put"
  /\ storage' = [storage EXCEPT ![op[t].path] = op[t].entry]
  /\ pc' = [pc EXCEPT ![t] = "head"]
  /\ UNCHANGED <<md, folders, clock, lock, op, second, hist>>

\* _register_written_file: the object's metadata, then add_file under the lock.
GetObjectMetadata(t) ==
  /\ pc[t] = "head" /\ storage[op[t].path] # "none"
  /\ op' = [op EXCEPT ![t].entry = storage[op[t].path]]
  /\ pc' = [pc EXCEPT ![t] = "add"]
  /\ UNCHANGED <<storage, md, folders, clock, lock, second, hist>>


\* A thread is done with its path.
End(t) == pc' = [pc EXCEPT ![t] = "idle"] /\ op' = [op EXCEPT ![t] = NoOp]

RegisterWrittenFile(t) ==
  /\ pc[t] = "add" /\ lock = Null
  /\ LET p == op[t].path
     IN /\ md' = IF AddRaises(md, p) THEN md ELSE AddFile(md, p, op[t].entry)
        /\ doubtful' = IF AddRaises(md, p) \/ p \in md.removes THEN doubtful \cup {p} ELSE doubtful
  /\ End(t)
  /\ UNCHANGED <<storage, folders, clock, lock, second, outcome>>

\* A call on the storage raises, with or without having had its effect.
CallRaises(t) ==
  /\ pc[t] \in {"put", "head", "unlink"}
  /\ \/ UNCHANGED storage
     \/ pc[t] # "head" /\ storage' = [storage EXCEPT ![op[t].path] = op[t].entry]
  /\ doubtful' = doubtful \cup {op[t].path}
  /\ End(t)
  /\ UNCHANGED <<md, folders, clock, lock, second, outcome>>

----------------------------------------------------------------------------
(* delete of a file.                                                       *)

\* info and realpath find the file among the committed ones.
DeleteResolve(t) == \E p \in Paths : md.files[p] # "none" /\ Begin(t, p, "none", "unlink")

DeleteObject(t) ==
  /\ pc[t] = "unlink"
  /\ storage' = [storage EXCEPT ![op[t].path] = "none"]
  /\ pc' = [pc EXCEPT ![t] = "remove"]
  /\ UNCHANGED <<md, folders, clock, lock, op, second, hist>>


DeleteRemove(t) ==
  /\ pc[t] = "remove" /\ lock = Null
  /\ md' = IF RemoveRaises(md, op[t].path) THEN md ELSE RemoveFile(md, op[t].path)
  /\ End(t)
  /\ UNCHANGED <<storage, folders, clock, lock, second, hist>>

----------------------------------------------------------------------------
(* commit_metadata and commit_updates.                                     *)

Pending == md.removes # {} \/ \E p \in Paths : md.adds[p] # "none"

\* add_file of the objects found at S.
AddObjects(S) == [md EXCEPT !.adds = [p \in Paths |-> IF p \in S THEN storage[p] ELSE @[p]]]

\* commit_metadata takes the lock and, given a prefix, adds what is in storage under it.
CommitLock(t) ==
  /\ pc[t] = "idle" /\ lock = Null
  /\ \/ UNCHANGED md
     \/ /\ \A p \in Paths : storage[p] # "none" => ~AddRaises(md, p)
        /\ md' = AddObjects({p \in Paths : storage[p] # "none"})
  /\ lock' = t
  /\ pc' = [pc EXCEPT ![t] = "update"]
  /\ UNCHANGED <<storage, folders, clock, op, second, hist>>

\* The scan meets a file that may not be overwritten, after it has added others.
CommitScanRaises(t) ==
  /\ pc[t] = "idle" /\ lock = Null
  /\ \E p \in Paths : storage[p] # "none" /\ AddRaises(md, p)
  /\ \E S \in SUBSET {p \in Paths : storage[p] # "none" /\ ~AddRaises(md, p)} : md' = AddObjects(S)
  /\ UNCHANGED <<storage, folders, clock, lock, pc, op, second, hist>>

\* The lock is released.
Release(t, how) ==
  /\ pc' = [pc EXCEPT ![t] = "idle"]
  /\ lock' = Null /\ second' = 1
  /\ outcome' = how
  /\ UNCHANGED <<storage, clock, op, doubtful>>

\* commit_updates has nothing to do.
CommitNothing(t) ==
  /\ pc[t] = "update" /\ ~Pending
  /\ Release(t, IF outcome = "raised" THEN "nothing" ELSE outcome)
  /\ UNCHANGED <<md, folders>>

\* It applies the pending changes; no file is left, so nothing is written ...
CommitEmpty(t) ==
  /\ pc[t] = "update" /\ Pending
  /\ md' = CommitUpdates(md)
  /\ md'.files = NoFiles
  /\ Release(t, "nothing")
  /\ UNCHANGED folders

\* ... or _write_manifest_files writes them, to the folder of this second.
CommitApply(t) ==
  /\ pc[t] = "update" /\ Pending
  /\ md' = CommitUpdates(md)
  /\ md'.files # NoFiles
  /\ second' = clock
  /\ pc' = [pc EXCEPT ![t] = "part"]
  /\ UNCHANGED <<storage, folders, clock, lock, op, hist>>

\* Mutant: the index comes first.
WritePartIndexFirst(t) ==
  /\ pc[t] = "part"
  /\ folders' = [folders EXCEPT ![second].index = TRUE]
  /\ pc' = [pc EXCEPT ![t] = "index"]
  /\ UNCHANGED <<storage, md, clock, lock, op, second, hist>>

\* Mutant: the clock is read again for each file of the folder.
WritePartLater(t) ==
  /\ pc[t] = "part"
  /\ folders' = [folders EXCEPT ![clock].part = md.files]
  /\ pc' = [pc EXCEPT ![t] = "index"]
  /\ UNCHANGED <<storage, md, clock, lock, op, second, hist>>

WritePart(t) ==
  /\ pc[t] = "part"
  /\ folders' = [folders EXCEPT ![second].part = md.files]
  /\ pc' = [pc EXCEPT ![t] = "index"]
  /\ UNCHANGED <<storage, md, clock, lock, op, second, hist>>

WriteIndex(t) ==
  /\ pc[t] = "index"
  /\ folders' = [folders EXCEPT ![second].index = TRUE]
  /\ Release(t, "saved")
  /\ UNCHANGED md

\* A put_object of the commit raises, with or without having had its effect.
CommitRaises(t) ==
  /\ \/ pc[t] \in {"part", "index"} /\ UNCHANGED folders
     \/ pc[t] = "part" /\ folders' = [folders EXCEPT ![second].part = md.files]
     \/ pc[t] = "index" /\ folders' = [folders EXCEPT ![second].index = TRUE]
  /\ Release(t, "raised")
  /\ UNCHANGED md

----------------------------------------------------------------------------
Tick ==
  /\ clock < MaxSecond
  /\ clock' = clock + 1
  /\ UNCHANGED <<storage, md, folders, lock, pc, op, second, hist>>

\* Paths with a change that is not committed, or not even registered.
Unsettled(p) == ~Free(p) \/ p \in md.removes \/ md.adds[p] # "none"

\* The process stops, anywhere, and a new one loads the manifest.
Restart ==
  /\ md' = Provider(Loaded)
  /\ pc' = [t \in Threads |-> "idle"]
  /\ op' = [t \in Threads |-> NoOp]
  /\ lock' = Null /\ second' = 1
  /\ outcome' = "saved"
  /\ doubtful' = doubtful \cup {p \in Paths : Unsettled(p) \/ md.files[p] # Loaded[p]}
  /\ UNCHANGED <<storage, folders, clock>>

Write(t) == ResolveWritePath(t) \/ PutObject(t) \/ GetObjectMetadata(t) \/ RegisterWrittenFile(t)
Delete(t) == DeleteResolve(t) \/ DeleteObject(t) \/ DeleteRemove(t)
CommitMetadata(t) ==
  \/ CommitLock(t) \/ CommitScanRaises(t)
  \/ CommitNothing(t) \/ CommitEmpty(t) \/ CommitApply(t)
  \/ WritePart(t) \/ WriteIndex(t) \/ CommitRaises(t)

Next ==
  \/ \E t \in Callers : Write(t) \/ Delete(t) \/ CallRaises(t)
  \/ \E t \in Threads : CommitMetadata(t)
  \/ Tick \/ Restart

Spec == Init /\ [][Next]_vars

----------------------------------------------------------------------------
(* Properties.                                                             *)

TypeOK ==
  /\ storage \in [Paths -> Entries]
  /\ md \in [files : [Paths -> Entries], adds : [Paths -> Entries], removes : SUBSET Paths]
  /\ folders \in [1..MaxSecond -> [part : [Paths -> Entries], index : BOOLEAN]]
  /\ clock \in 1..MaxSecond /\ second \in 1..clock
  /\ lock \in Threads \cup {Null}
  /\ pc \in [Threads -> {"idle", "put", "head", "add", "unlink", "remove", "update", "part", "index"}]
  /\ op \in [Threads -> [path : Paths \cup {Null}, entry : Entries]]
  /\ \A t \in Threads : op[t].path = Null <=> pc[t] \in {"idle", "update", "part", "index"}
  /\ outcome \in {"saved", "raised", "nothing"} /\ doubtful \subseteq Paths

(* Whenever the process stops, what the next one loads is the whole of     *)
(* what some commit made of the files, never a mixture of two commits and  *)
(* never a part without its index: the folders written in two steps by     *)
(* _write_manifest_files implement a manifest that changes in one.         *)
Keep == "keep"
Staged == [p \in Paths |->
  IF p \in md.removes THEN "none" ELSE IF md.adds[p] # "none" THEN md.adds[p] ELSE Keep]
Atomic == INSTANCE AtomicManifest WITH files <- md.files, staged <- Staged, durable <- Loaded
CommitsAreAtomic == Atomic!Spec

(* Once a commit has written the manifest, a restart would load exactly    *)
(* the files the provider holds as committed, whatever is pending and      *)
(* whatever ran into the same second.                                      *)
CommittedIsDurable == lock = Null /\ outcome = "saved" => Loaded = md.files


(* Every pending removal is of a committed file, so the pop of             *)
(* commit_updates finds its key, also when two threads deleted one file on *)
(* the two sides of a commit.                                              *)
RemovalsAreOfFiles == \A p \in md.removes : md.files[p] # "none"

(* "MetadataProvider will persistently record any metadata changes": when  *)
(* commit_updates returned and did not raise, a restart loads the files it *)
(* committed.                                                              *)
CommitPersists == lock = Null /\ outcome # "raised" => Loaded = md.files
=============================================================================
