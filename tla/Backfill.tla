------------------------------ MODULE Backfill ------------------------------
(***************************************************************************)
(* What the backfill of one email account promises, without saying how:    *)
(* messages are stored in any order and by anybody, a mailbox is declared  *)
(* done only once everything it held at the beginning is stored, it stays  *)
(* done, and only disconnecting the account takes either back.             *)
(***************************************************************************)
CONSTANTS
    Mailbox,
    Message,
    Due         \* [Mailbox -> SUBSET Message], what each mailbox held at first

VARIABLES
    stored,     \* messages with at least one row
    done        \* mailboxes declared done

backfillVars == <<stored, done>>

Init == stored = {} /\ done = {}

Store(S) ==
    /\ stored' = stored \cup S
    /\ UNCHANGED done

Finish(m) ==
    /\ Due[m] \subseteq stored
    /\ done' = done \cup {m}
    /\ UNCHANGED stored

Disconnect == stored' = {} /\ done' = {}

Next ==
    \/ \E S \in SUBSET Message : Store(S)
    \/ \E m \in Mailbox : Finish(m)
    \/ Disconnect

Spec == Init /\ [][Next]_backfillVars
=============================================================================
