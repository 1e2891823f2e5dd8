--------------------------- MODULE MCCacheManager ---------------------------
(***************************************************************************)
(* Lines of two bytes.  The object has a line and a short one, then        *)
(* shrinks to less than a line, so that its chunk becomes the cached file, *)
(* and grows again.                                                        *)
(***************************************************************************)
EXTENDS CacheManager, TLC

MCSizes == <<3, 1, 3>>
Full(mode) == [kind |-> "full", off |-> 0, len |-> 1, mode |-> mode]
Range(off, len, mode) == [kind |-> "range", off |-> off, len |-> len, mode |-> mode]
MCRequests ==
  {Full("INHERIT"), Range(0, 2, "INHERIT"), Range(1, 3, "INHERIT"), Range(1, 3, "DISABLE")}
EnableRequests == {Full("INHERIT"), Full("ENABLE")}
MCSymmetry == Permutations(Readers)
=============================================================================
