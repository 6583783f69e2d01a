------------------------------ MODULE Replica ------------------------------
(***************************************************************************)
(* What replication promises to a reader of main and to a restart: entry   *)
(* after entry of the source's oplog, each database an entry affects moves *)
(* in one commit from the contents before it to the contents after it, and *)
(* the durable position follows when all of them have.  Entry 1 is what    *)
(* the initial sync has brought.                                           *)
(***************************************************************************)
EXTENDS Naturals

CONSTANTS Databases, Last, Affected, Noop

VARIABLES
  position,  \* the last entry a restart takes for applied
  main       \* main[d]: the entries that the HEAD of main of d reflects

Entries == 1..Last

Through(d, n) == {e \in Entries : e <= n /\ e \notin Noop /\ d \in Affected[e]}

Init ==
  /\ position = 1
  /\ main = [d \in Databases |-> Through(d, 1)]

Publish(d) ==
  /\ position + 1 \in Entries \ Noop
  /\ d \in Affected[position + 1]
  /\ main[d] = Through(d, position)
  /\ main' = [main EXCEPT ![d] = Through(d, position + 1)]
  /\ UNCHANGED position

Advance ==
  /\ position + 1 \in Entries
  /\ \A d \in Databases : main[d] = Through(d, position + 1)
  /\ position' = position + 1
  /\ UNCHANGED main

Next == (\E d \in Databases : Publish(d)) \/ Advance

Spec == Init /\ [][Next]_<<position, main>>
=============================================================================
