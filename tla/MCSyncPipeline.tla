--------------------------- MODULE MCSyncPipeline ---------------------------
(***************************************************************************)
(* Instances of SyncPipeline: four keys, of which the first is only at the *)
(* source, the second differs, the third is only at the target and the     *)
(* fourth is a link only at the source; and sub-listings of these.         *)
(***************************************************************************)
EXTENDS SyncPipeline

MCKeys == 1..4
File(k, size, mtime, link) ==
  [key |-> k, size |-> size, mtime |-> mtime, attrs |-> "a", link |-> link]

New1 == File(1, 1, 1, NoLink)
New2 == File(2, 1, 1, NoLink)
Old2 == File(2, 1, 0, NoLink)
Old3 == File(3, 1, 0, NoLink)
Link4 == File(4, 0, 1, "x")

SmallSources == {<<New1, New2>>, <<New2, Link4>>}
SmallTargets == {<<Old2, Old3>>}
MixedTargets == {<<Old2, Old3>>, <<Old3>>}
TinySources == {<<New1>>, <<New1, Link4>>}
TinyTargets == {<<Old3>>, <<>>}
SamePath == [k \in MCKeys |-> k]
\* source_path and target_path of different lengths: the sliced path is no tracked file.
OtherPath == [k \in MCKeys |-> NoKey]
=============================================================================
