--------------------------- MODULE MC_ComposerQueue ---------------------------
(* ComposerQueue with small constants for TLC. *)
EXTENDS ComposerQueue

CONSTANTS i1, i2, d1

TwoItems  == {i1, i2}
OneDevice == {d1}

\* Messages are interchangeable until they are queued.
Symmetry == Permutations(TwoItems)

\* One thing goes wrong at most: a fault in a Host that is not restarted, or a
\* failed write, an edit cut in two or an index that cannot be read in one that may be.
OneFailure ==
  /\ spent.faults + spent.saves + spent.cuts + spent.unread <= 1
  /\ spent.faults + spent.crashes <= 1
=============================================================================
