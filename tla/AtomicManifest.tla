--------------------------- MODULE AtomicManifest ---------------------------
(***************************************************************************)
(* What a writable manifest promises.  Changes are staged, commit_updates  *)
(* makes them the provider's committed files, and the manifest a restart   *)
(* would load only ever changes, in one step, to the whole of those files. *)
(***************************************************************************)
CONSTANTS Paths, Entries, Keep   \* Keep: no change is staged

VARIABLES
  files,     \* path -> committed entry
  staged,    \* path -> the entry it is to have, or Keep
  durable    \* path -> entry, in the manifest a restart loads

Nothing == [p \in Paths |-> Keep]

Init ==
  /\ durable \in [Paths -> Entries]
  /\ files = durable
  /\ staged = Nothing

Stage ==
  /\ staged' \in [Paths -> Entries \cup {Keep}]
  /\ \A p \in Paths : staged'[p] = Keep => staged[p] = Keep
  /\ UNCHANGED <<files, durable>>

Commit ==
  /\ files' = [p \in Paths |-> IF staged[p] = Keep THEN files[p] ELSE staged[p]]
  /\ staged' = Nothing
  /\ UNCHANGED durable

Persist == durable' = files /\ UNCHANGED <<files, staged>>

Restart == files' = durable /\ staged' = Nothing /\ UNCHANGED durable

Next == Stage \/ Commit \/ Persist \/ Restart

Spec == Init /\ [][Next]_<<files, staged, durable>>
=============================================================================
