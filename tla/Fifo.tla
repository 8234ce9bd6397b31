-------------------------------- MODULE Fifo --------------------------------
(***************************************************************************)
(* The queues of bgpd and of its scheduler, as sequences: elements are     *)
(* added at the end (Append), taken from the front, and deleted wherever   *)
(* they are, the others keeping their order.                               *)
(***************************************************************************)
EXTENDS Integers, Sequences, SequencesExt

\* The elements of the queue that are in T.
Filter(fifo, T) ==
    LET at[n \in 0..Len(fifo)] ==
            IF n = 0 THEN <<>>
            ELSE IF fifo[n] \in T THEN Append(at[n - 1], fifo[n]) ELSE at[n - 1]
    IN  at[Len(fifo)]

\* FIFO_DEL of the elements that are in T.
Without(fifo, T) == Filter(fifo, ToSet(fifo) \ T)

\* As many elements as there are, at most n.
First(fifo, n) == SubSeq(fifo, 1, IF n < Len(fifo) THEN n ELSE Len(fifo))
=============================================================================
