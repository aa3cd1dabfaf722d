--------------------------- MODULE MCApprovalQueue ---------------------------
\* Small instances of ApprovalQueue.
EXTENDS ApprovalQueue, TLC

\* Requests are interchangeable; used by the run without a liveness property.
Symmetry == Permutations(Requests) \cup Permutations(Threads)
==============================================================================
