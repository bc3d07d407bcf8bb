------------------------ MODULE MCWorkStealingQueue ------------------------
(***************************************************************************)
(* Small instances of WorkStealingQueue for TLC.                           *)
(***************************************************************************)
EXTENDS WorkStealingQueue, TLC

\* Thieves and tasks are interchangeable.
Symmetry == Permutations(Thieves) \cup Permutations(Tasks)

\* A thief that reads a deleted array may get anything: these states are checked
\* but not continued.  The properties are stated for before, except for the two
\* on the indices, which WorkStealingQueueProofs proves for every instance.
UntilFreedRead == ~freedRead
=============================================================================
