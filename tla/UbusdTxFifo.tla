---------------------------- MODULE UbusdTxFifo ----------------------------
(***************************************************************************)
(* What the transmit ring of ubusd.c promises: a bounded queue of messages *)
(* for each client.  UbusdTx implements it (ImplementsFifo).               *)
(***************************************************************************)
EXTENDS Naturals, Sequences

CONSTANTS Clients, Capacity

VARIABLES
  fifo,   \* the messages waiting for each client, oldest first
  count   \* number of the next message

Init ==
  /\ fifo = [c \in Clients |-> <<>>]
  /\ count = 1

\* A message for c waits behind the others.  Alone, it may be written at
\* once; with no place left it is dropped.
Send(c) ==
  /\ count' = count + 1
  /\ \/ /\ Len(fifo[c]) < Capacity
        /\ fifo' = [fifo EXCEPT ![c] = Append(@, count)]
     \/ /\ fifo[c] = <<>> \/ Len(fifo[c]) = Capacity
        /\ UNCHANGED fifo

\* The oldest message has been written.
Deliver(c) ==
  /\ fifo[c] # <<>>
  /\ fifo' = [fifo EXCEPT ![c] = Tail(@)]
  /\ UNCHANGED count

\* The client is gone, and what waited for it.
Close(c) ==
  /\ fifo' = [fifo EXCEPT ![c] = <<>>]
  /\ UNCHANGED count

Next == \E c \in Clients : Send(c) \/ Deliver(c) \/ Close(c)

Spec == Init /\ [][Next]_<<fifo, count>>
=============================================================================
