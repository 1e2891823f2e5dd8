----------------------------- MODULE ManifestOps -----------------------------
(***************************************************************************)
(* The in-memory operations of ManifestMetadataProvider                    *)
(* (providers/manifest_metadata.py) as functions of its three fields:      *)
(* _files, the committed entries, _pending_adds and _pending_removes.      *)
(* "none" is the absence of an entry.  The provider is writable.           *)
(***************************************************************************)
EXTENDS Integers

CONSTANT AllowOverwrites   \* allow_overwrites of the provider

\* __init__: nothing committed, nothing pending.
EmptyManifest(paths) ==
  [files |-> [p \in paths |-> "none"], adds |-> [p \in paths |-> "none"], removes |-> {}]


\* add_file raises FileExistsError.
AddRaises(md, path) == ~AllowOverwrites /\ md.files[path] # "none"

AddFile(md, path, entry) == [md EXCEPT !.adds[path] = entry]

\* Mutant: remove_file takes any path.
RemoveNeverRaises(md, path) == FALSE

\* remove_file raises FileNotFoundError.
RemoveRaises(md, path) == path \notin DOMAIN md.files \/ md.files[path] = "none"

RemoveFile(md, path) == [md EXCEPT !.removes = @ \cup {path}]

\* Mutant: the pending removals are dropped without being applied.
CommitOnlyAdds(md) ==
  [files   |-> [p \in DOMAIN md.files |-> IF md.adds[p] # "none" THEN md.adds[p] ELSE md.files[p]],
   adds    |-> [p \in DOMAIN md.files |-> "none"],
   removes |-> {}]

\* commit_updates: the pending adds, then the pending removals.
CommitUpdates(md) ==
  [files   |-> [p \in DOMAIN md.files |->
                  IF p \in md.removes THEN "none"
                  ELSE IF md.adds[p] # "none" THEN md.adds[p] ELSE md.files[p]],
   adds    |-> [p \in DOMAIN md.files |-> "none"],
   removes |-> {}]
=============================================================================
