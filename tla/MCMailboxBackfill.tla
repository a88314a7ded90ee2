------------------------- MODULE MCMailboxBackfill -------------------------
(* Model values and mailbox contents for MailboxBackfill. *)
EXTENDS MailboxBackfill

CONSTANTS inbox, archive, a, b, c, fresh

\* Three messages in two pages, and one of them in a second mailbox.
SharedMail == (inbox :> <<a, b, c>>) @@ (archive :> <<c>>)
TwoBoxes == (inbox :> <<a, b>>) @@ (archive :> <<c>>)

RunSymmetry == Permutations(Run)
=============================================================================
