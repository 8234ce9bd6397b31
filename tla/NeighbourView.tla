--------------------------- MODULE NeighbourView ---------------------------
(***************************************************************************)
(* What the advertisement code promises one neighbour, without its queues, *)
(* timers and packets: the neighbour hears, in order, messages that were   *)
(* each true when they were said, and time and again knows the latest.  It *)
(* may be told to forget what it never knew.                               *)
(***************************************************************************)
EXTENDS Sequences

CONSTANTS
    Prefix,  \* the prefixes
    Attr,    \* the attributes announced with them
    None     \* a prefix that is not announced

VARIABLES
    want,    \* [Prefix -> Attr or None]: what the neighbour is to know
    open,    \* is there a session?
    said,    \* messages on their way, each a function of the prefixes it names
    known    \* [Prefix -> Attr or None]: what the neighbour knows

vars == <<want, open, said, known>>

Value == Attr \cup {None}
Nothing == [p \in Prefix |-> None]

\* What the neighbour will know when it has heard message m.
Heard(view, m) == [p \in Prefix |-> IF p \in DOMAIN m THEN m[p] ELSE view[p]]

Init == want \in [Prefix -> Value] /\ open = FALSE /\ said = <<>> /\ known = Nothing

Change(p, a) == want' = [want EXCEPT ![p] = a] /\ UNCHANGED <<open, said, known>>

\* A message says what is wanted now.
Say(names) ==
    /\ open
    /\ said' = Append(said, [p \in names |-> want[p]])
    /\ UNCHANGED <<want, open, known>>

Hear ==
    /\ said # <<>>
    /\ known' = Heard(known, Head(said)) /\ said' = Tail(said)
    /\ UNCHANGED <<want, open>>

Close == open /\ open' = FALSE /\ said' = <<>> /\ known' = Nothing /\ UNCHANGED want

Open == ~open /\ open' = TRUE /\ UNCHANGED <<want, said, known>>

Next ==
    \/ \E p \in Prefix, a \in Value : Change(p, a)
    \/ \E names \in SUBSET Prefix : Say(names)
    \/ Hear \/ Close \/ Open

Safe == Init /\ [][Next]_vars

\* No prefix stays for ever without the neighbour knowing what is wanted.
Live == \A p \in Prefix : []<>(known[p] = want[p])
=============================================================================
