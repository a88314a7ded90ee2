---------------------------- MODULE MCEmailSync ----------------------------
(***************************************************************************)
(* EmailSync for TLC: an old account, linked from the start, and a new one. *)
(* Either both have a mailbox and the old one was never indexed, or the old *)
(* one was indexed in part and the new one has no mailbox.                  *)
(***************************************************************************)
EXTENDS EmailSync

CONSTANTS old, new, inbox

None == [a \in Account |-> {}]

MCWorlds ==
    {[boxes |-> [a \in Account |-> {inbox}], chunks |-> None, sparse |-> {}],
     [boxes |-> [None EXCEPT ![old] = {inbox}], chunks |-> None, sparse |-> {old}]}
=============================================================================
