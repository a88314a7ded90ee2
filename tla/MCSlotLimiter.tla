--------------------------- MODULE MCSlotLimiter ---------------------------
(* Model values for SlotLimiter: workers and tokens are interchangeable. *)
EXTENDS SlotLimiter, TLC

WorkerTokenSymmetry == Permutations(Worker) \cup Permutations(Token)
=============================================================================
