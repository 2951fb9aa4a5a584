---------------------------- MODULE OwnerMailbox ----------------------------
(***************************************************************************)
(* What the owner-event ingress of util/delivery.rs promises for the       *)
(* events it accepts without coalescing: one unbounded-looking FIFO        *)
(* mailbox.  An accepted event is appended once; the owner takes events    *)
(* from the front in acceptance order; nothing overtakes, duplicates or    *)
(* disappears while the receiver is alive.  Dropping the receiver is the   *)
(* only way an accepted event is lost.                                     *)
(* OwnerIngress implements this specification (Mailbox in that module).    *)
(***************************************************************************)
EXTENDS Sequences

CONSTANT Items          \* the events, and the wake token

VARIABLES
  mailbox,              \* accepted events the owner has not taken yet
  alive                 \* the owner still holds the receiver

mailboxVars == <<mailbox, alive>>

Init ==
  /\ mailbox = <<>>
  /\ alive = TRUE

Accept(x) ==
  /\ alive
  /\ mailbox' = Append(mailbox, x)
  /\ UNCHANGED alive

Take ==
  /\ alive
  /\ mailbox # <<>>
  /\ mailbox' = Tail(mailbox)
  /\ UNCHANGED alive

\* The owner drops the receiver: what was not taken is gone.
Abandon ==
  /\ alive
  /\ alive' = FALSE
  /\ mailbox' = <<>>

Next == Take \/ Abandon \/ \E x \in Items : Accept(x)

Spec == Init /\ [][Next]_mailboxVars
=============================================================================
