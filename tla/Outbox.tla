------------------------------- MODULE Outbox -------------------------------
(***************************************************************************)
(* What the deliveries table promises (docs/03-architecture, fan-out       *)
(* recovery): a delivery of a message to a chat is reserved before the     *)
(* first send, a reserved one may be sent any number of times, and it is   *)
(* recorded as sent only after the chat received a copy.  Rows go only     *)
(* together with their user.                                               *)
(***************************************************************************)
EXTENDS Naturals

CONSTANTS Messages, Chats

VARIABLES
  status,     \* of each (message, chat), "absent" without a row
  reserved,   \* the pairs that were ever reserved
  copies      \* how many copies each chat received

vars == <<status, reserved, copies>>

Deliveries == Messages \X Chats

Init ==
  /\ status = [p \in Deliveries |-> "absent"]
  /\ reserved = {}
  /\ copies = [p \in Deliveries |-> 0]

Reserve(p) ==
  /\ status[p] = "absent"
  /\ status' = [status EXCEPT ![p] = "pending"]
  /\ reserved' = reserved \cup {p}
  /\ UNCHANGED copies

Transmit(p) ==
  /\ p \in reserved
  /\ copies' = [copies EXCEPT ![p] = @ + 1]
  /\ UNCHANGED <<status, reserved>>

Record(p, s) ==
  /\ status[p] # "absent"
  /\ s = "sent" => copies[p] > 0
  /\ status' = [status EXCEPT ![p] = s]
  /\ UNCHANGED <<reserved, copies>>

Discard(P) ==
  /\ status' = [p \in Deliveries |-> IF p \in P THEN "absent" ELSE status[p]]
  /\ UNCHANGED <<reserved, copies>>

Next ==
  \/ \E p \in Deliveries :
       Reserve(p) \/ Transmit(p) \/ \E s \in {"failed", "sent", "dead"} : Record(p, s)
  \/ \E P \in SUBSET Deliveries : Discard(P)

Spec == Init /\ [][Next]_vars
=============================================================================
