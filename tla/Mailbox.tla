------------------------------ MODULE Mailbox ------------------------------
(***************************************************************************)
(* What the server promises about the messages people send, whoever works  *)
(* on them: each is handled until somebody was asked to take it, the peer  *)
(* or the database.  A message that is stored stays stored until it has    *)
(* been sent at least once; it is stored once, and it never comes back.    *)
(***************************************************************************)
CONSTANT Message

VARIABLES
    place,  \* each message: not written, in hand, stored, or away
    tried   \* the messages that were sent, or whose storing was refused

mailboxVars == <<place, tried>>

MailboxInit ==
    /\ place = [m \in Message |-> "unwritten"]
    /\ tried = {}

Move(m, here, there) == place[m] = here /\ place' = [place EXCEPT ![m] = there]

Post(m) == Move(m, "unwritten", "hand") /\ UNCHANGED tried

Store(m) == Move(m, "hand", "stored") /\ UNCHANGED tried

(* It is sent to a session, or the database did not take it.               *)
Dispose(m) == Move(m, "hand", "away") /\ tried' = tried \cup {m}

Try(m) == place[m] = "stored" /\ tried' = tried \cup {m} /\ UNCHANGED place

Remove(m) == m \in tried /\ Move(m, "stored", "away") /\ UNCHANGED tried

MailboxNext ==
    \E m \in Message : Post(m) \/ Store(m) \/ Dispose(m) \/ Try(m) \/ Remove(m)

MailboxSpec == MailboxInit /\ [][MailboxNext]_mailboxVars

=============================================================================
