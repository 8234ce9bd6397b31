------------------------ MODULE BgpAdvertise_proofs ------------------------
(***************************************************************************)
(* The advertisement queues for any finite set of prefixes, any attributes *)
(* and any packet size: nothing is forgotten, the writer is armed, and the *)
(* queues implement the safety part of NeighbourView.                      *)
(***************************************************************************)
EXTENDS BgpAdvertise, Fifo_proofs

-----------------------------------------------------------------------------
(***************************************************************************)
(* The inductive invariant.                                                *)
(***************************************************************************)
\* What the neighbour will know of p once the packet made is written.
Told(p) == IF obuf # <<>> /\ p \in DOMAIN Head(obuf) THEN Head(obuf)[p] ELSE known[p]

\* bgp_write_packet makes no packet while one waits.
OnePacket ==
    obuf = <<>> \/ \E names \in SUBSET Prefix, value \in Attr \cup {None} :
                      obuf = <<Packet(names, value)>>

\* Each adjacency, what is scheduled for it and what was sent, against the route.
\* Nothing sent means that the neighbour was told nothing; the converse fails, for
\* a withdrawal that was left from an earlier session keeps what was sent then.
AdjOK(p) ==
    /\ adj[p].adv \in Attr => route[p] = adj[p].adv
    /\ adj[p].adv = Withdrawal => route[p] = None /\ adj[p].attr # None
    /\ adj[p].adv = None => route[p] = adj[p].attr /\ Told(p) = route[p]
    /\ adj[p].attr = None => Told(p) = None

\* Between sessions only a withdrawal may be left.
Closed(p) ==
    /\ adj[p].adv \notin Attr /\ known[p] = None
    /\ adj[p].adv = None <=> adj[p].attr = None

Types ==
    /\ TypeOK /\ OnePacket
    /\ known \in [Prefix -> Attr \cup {None}]
    /\ status \in BOOLEAN /\ tWrite \in BOOLEAN

AdvertiseOK ==
    /\ Types /\ QueuedIsScheduled
    /\ status => \A p \in Prefix : AdjOK(p)
    /\ ~status => obuf = <<>> /\ loop = 0 /\ \A p \in Prefix : Closed(p)

-----------------------------------------------------------------------------
(***************************************************************************)
(* The packets.                                                            *)
(***************************************************************************)
\* Prefixes that share a packet have the attributes of its head.
LEMMA PackedSet ==
    ASSUME AdvertiseAssumption, TypeOK, update # <<>>
    PROVE  /\ ToSet(Packed) \subseteq ToSet(update)
           /\ \A p \in ToSet(Packed) : adj[p].adv = adj[Head(update)].adv
<1> DEFINE head == Head(update)
           same == {p \in Prefix : adj[p].adv = adj[head].adv}
           others == Filter(Tail(update), same)
<1>1. update \in Seq(Prefix) /\ PacketMax - 1 \in Nat
  BY DEF AdvertiseAssumption, TypeOK
<1>2. head \in Prefix /\ head \in ToSet(update)
  BY <1>1, ElementsOf
<1>3. Tail(update) \in Seq(Prefix) /\ ToSet(Tail(update)) \subseteq ToSet(update)
  BY <1>1, TailSet
<1>4. others \in Seq(Prefix) /\ ToSet(others) = ToSet(Tail(update)) \cap same
  BY <1>3, FilterSet
<1>5. Packed = <<head>> \o First(Reverse(others), PacketMax - 1)
  BY DEF Packed
<1> HIDE DEF others
<1>6. Reverse(others) \in Seq(Prefix) /\ ToSet(Reverse(others)) = ToSet(others)
  BY <1>4, ReverseSet
<1> DEFINE some == First(Reverse(others), PacketMax - 1)
<1>7. some \in Seq(Prefix) /\ ToSet(some) \subseteq ToSet(others)
  BY <1>1, <1>6, FirstSet
<1> HIDE DEF some
<1> DEFINE one == <<head>>
<1>8. one \in Seq(Prefix) /\ ToSet(one) = {head}
  BY <1>2 DEF ToSet
<1> HIDE DEF one
<1>9. ToSet(one \o some) = ToSet(one) \cup ToSet(some)
  BY <1>7, <1>8, ConcatSet
<1>10. ToSet(Packed) = {head} \cup ToSet(some)
  BY <1>5, <1>8, <1>9 DEF one, some
<1> QED
  BY <1>2, <1>3, <1>4, <1>7, <1>10

\* A packet is made only when none waits, says what is selected now, and takes what
\* it says off the queues.
LEMMA WritePacket ==
    ASSUME AdvertiseAssumption, AdvertiseOK, status, HasPacket,
           NEW armed \in BOOLEAN, bgp_write_packet(armed), UNCHANGED <<route, known>>
    PROVE  /\ \/ obuf' = obuf
              \/ obuf = <<>> /\ \E names \in SUBSET Prefix :
                                   obuf' = <<[p \in names |-> route[p]]>>
           /\ adj' \in [Prefix -> [attr : Attr \cup {None}, adv : Attr \cup {None, Withdrawal}]]
           /\ update' \in Seq(Prefix) /\ withdraw' \in Seq(Prefix) /\ tWrite' \in BOOLEAN
           /\ \A i \in DOMAIN obuf' : DOMAIN obuf'[i] \subseteq Prefix
           /\ OnePacket' /\ QueuedIsScheduled' /\ \A p \in Prefix : AdjOK(p)'
<1> USE DEF AdvertiseOK, Types, TypeOK, QueuedIsScheduled
<1>1. CASE obuf # <<>>
  <2>1. tWrite' = armed /\ UNCHANGED <<queues, obuf, eorSend>>
    BY <1>1 DEF bgp_write_packet
  <2> QED
    BY <2>1 DEF queues, OnePacket, AdjOK, Told
<1>2. CASE obuf = <<>> /\ withdraw # <<>>
  <2> DEFINE sent == ToSet(First(withdraw, PacketMax))
  <2>1. /\ obuf' = <<Packet(sent, None)>>
        /\ adj' = [p \in Prefix |-> IF p \in sent THEN NoAdj ELSE adj[p]]
        /\ withdraw' = Without(withdraw, sent)
        /\ tWrite' = armed /\ update' = update
    BY <1>2 DEF bgp_write_packet, bgp_withdraw_packet
  <2>2. sent \subseteq ToSet(withdraw) /\ sent \subseteq Prefix
    BY FirstSet, ElementsOf DEF AdvertiseAssumption
  <2> HIDE DEF sent
  <2>3. withdraw' \in Seq(Prefix) /\ ToSet(withdraw') = ToSet(withdraw) \ sent
    BY <2>1, WithoutSet
  <2>4. \A p \in sent : adj[p].adv = Withdrawal /\ route[p] = None
    BY <2>2 DEF AdjOK
  <2>5. Packet(sent, None) = [p \in sent |-> route[p]]
    BY <2>4 DEF Packet
  <2>6. \A p \in Prefix : Told(p)' = IF p \in sent THEN None ELSE Told(p)
    BY <1>2, <2>1 DEF Told, Packet
  <2>7. QueuedIsScheduled'
    BY <2>1, <2>2, <2>3, <2>4 DEF NoAdj, AdvertiseAssumption
  <2>8. ASSUME NEW p \in Prefix PROVE AdjOK(p)'
    BY <2>1, <2>4, <2>6 DEF AdjOK, NoAdj, AdvertiseAssumption
  <2>9. OnePacket' /\ DOMAIN Packet(sent, None) \subseteq Prefix
    BY <2>1, <2>2 DEF OnePacket, Packet
  <2>10. adj' \in [Prefix -> [attr : Attr \cup {None}, adv : Attr \cup {None, Withdrawal}]]
    BY <2>1 DEF NoAdj
  <2>11. \E names \in SUBSET Prefix : obuf' = <<[p \in names |-> route[p]]>>
    BY <2>1, <2>2, <2>5
  <2>12. \A i \in DOMAIN obuf' : DOMAIN obuf'[i] \subseteq Prefix
    BY <2>1, <2>9
  <2> QED
    BY <1>2, <2>1, <2>3, <2>7, <2>8, <2>9, <2>10, <2>11, <2>12
<1>3. CASE obuf = <<>> /\ withdraw = <<>> /\ Sendable
  <2> DEFINE sent == ToSet(Packed)
             value == adj[Head(update)].adv
  <2>1. /\ obuf' = <<Packet(sent, value)>>
        /\ adj' = [p \in Prefix |->
                      IF p \in sent THEN [attr |-> adj[p].adv, adv |-> None] ELSE adj[p]]
        /\ update' = Without(update, sent)
        /\ tWrite' = TRUE /\ withdraw' = withdraw
    BY <1>3 DEF bgp_write_packet, bgp_update_packet
  <2>2. update # <<>>
    BY <1>3 DEF Sendable, OldHead
  <2>3. sent \subseteq ToSet(update) /\ \A p \in sent : adj[p].adv = value
    BY <2>2, PackedSet
  <2>4. sent \subseteq Prefix
    BY <2>3, ElementsOf
  <2> HIDE DEF sent
  <2>5. update' \in Seq(Prefix) /\ ToSet(update') = ToSet(update) \ sent
    BY <2>1, WithoutSet
  <2>6. value \in Attr
    BY <2>2, ElementsOf
  <2> HIDE DEF value
  <2>7. \A p \in sent : adj[p].adv = value /\ route[p] = value
    BY <2>3, <2>4, <2>6 DEF AdjOK
  <2>8. Packet(sent, value) = [p \in sent |-> route[p]]
    BY <2>7 DEF Packet
  <2>9. \A p \in Prefix : Told(p)' = IF p \in sent THEN value ELSE Told(p)
    BY <1>3, <2>1 DEF Told, Packet
  <2>10. QueuedIsScheduled'
    BY <2>1, <2>4, <2>5, <2>6, <2>7 DEF AdvertiseAssumption
  <2>11. ASSUME NEW p \in Prefix PROVE AdjOK(p)'
    <3>1. CASE p \in sent
      <4>1. adj'[p] = [attr |-> value, adv |-> None] /\ Told(p)' = value /\ route[p] = value
        BY <2>1, <2>7, <2>9, <3>1
      <4> QED
        BY <2>6, <4>1 DEF AdjOK, AdvertiseAssumption
    <3>2. CASE p \notin sent
      <4>1. adj'[p] = adj[p] /\ Told(p)' = Told(p)
        BY <2>1, <2>9, <3>2
      <4> QED
        BY <4>1 DEF AdjOK
    <3> QED
      BY <3>1, <3>2
  <2>12. OnePacket' /\ DOMAIN Packet(sent, value) \subseteq Prefix
    <3>1. \E names \in SUBSET Prefix, v \in Attr \cup {None} : obuf' = <<Packet(names, v)>>
      BY <2>1, <2>4, <2>6
    <3> QED
      BY <2>4, <3>1 DEF OnePacket, Packet
  <2>13. adj' \in [Prefix -> [attr : Attr \cup {None}, adv : Attr \cup {None, Withdrawal}]]
    BY <2>1, <2>6, <2>7
  <2>14. \E names \in SUBSET Prefix : obuf' = <<[p \in names |-> route[p]]>>
    BY <2>1, <2>4, <2>8
  <2>15. \A i \in DOMAIN obuf' : DOMAIN obuf'[i] \subseteq Prefix
    BY <2>1, <2>12
  <2> QED
    BY <1>3, <2>1, <2>5, <2>10, <2>11, <2>12, <2>13, <2>14, <2>15
<1>4. CASE obuf = <<>> /\ withdraw = <<>> /\ ~Sendable
  <2>1. obuf' = <<Packet({}, None)>> /\ tWrite' = armed /\ UNCHANGED queues
    BY <1>4 DEF bgp_write_packet, bgp_update_packet_eor
  <2>2. Packet({}, None) = [p \in {} |-> route[p]] /\ DOMAIN Packet({}, None) = {}
    BY DEF Packet
  <2>3. \A p \in Prefix : Told(p)' = Told(p)
    BY <1>4, <2>1, <2>2 DEF Told
  <2>4. OnePacket'
    BY <2>1 DEF OnePacket
  <2>5. \E names \in SUBSET Prefix : obuf' = <<[p \in names |-> route[p]]>>
    BY <2>1, <2>2
  <2>6. \A i \in DOMAIN obuf' : DOMAIN obuf'[i] \subseteq Prefix
    BY <2>1, <2>2
  <2>7. ASSUME NEW p \in Prefix PROVE AdjOK(p)'
    BY <2>1, <2>3 DEF queues, AdjOK
  <2> QED
    BY <1>4, <2>1, <2>4, <2>5, <2>6, <2>7 DEF queues
<1> QED
  BY <1>1, <1>2, <1>3, <1>4

-----------------------------------------------------------------------------
(***************************************************************************)
(* The steps.                                                              *)
(***************************************************************************)
\* The invariant depends on these variables only.
LEMMA Untouched ==
    ASSUME AdvertiseOK, UNCHANGED <<route, adj, update, withdraw, status, obuf, known>>,
           loop' \in 0..WriteMax, ~status => loop' = 0, changes' \in 0..MaxChanges,
           tWrite' \in BOOLEAN, failed' \in BOOLEAN, age' \in [Prefix -> Age]
    PROVE  AdvertiseOK'
BY DEF AdvertiseOK, Types, TypeOK, QueuedIsScheduled, OnePacket, AdjOK, Told, Closed

\* bgp_write and WriteNext make a packet.
LEMMA MakePacket ==
    ASSUME AdvertiseAssumption, AdvertiseOK, status, HasPacket,
           NEW armed \in BOOLEAN, bgp_write_packet(armed),
           UNCHANGED <<route, age, status, failed, known, changes>>, loop' \in 0..WriteMax
    PROVE  AdvertiseOK'
<1>1. /\ adj' \in [Prefix -> [attr : Attr \cup {None}, adv : Attr \cup {None, Withdrawal}]]
      /\ update' \in Seq(Prefix) /\ withdraw' \in Seq(Prefix) /\ tWrite' \in BOOLEAN
      /\ \A i \in DOMAIN obuf' : DOMAIN obuf'[i] \subseteq Prefix
      /\ OnePacket' /\ QueuedIsScheduled' /\ \A p \in Prefix : AdjOK(p)'
  BY WritePacket
<1>2. Types'
  BY <1>1 DEF AdvertiseOK, Types, TypeOK
<1> QED
  BY <1>1, <1>2 DEF AdvertiseOK

\* The end of bgp_write keeps the queues in order.
LEMMA WriteDoneStep ==
    ASSUME AdvertiseAssumption, AdvertiseOK, WriteDone
    PROVE  AdvertiseOK'
<1> USE DEF AdvertiseOK, Types
<1>1. PICK names \in SUBSET Prefix, value \in Attr \cup {None} :
          obuf = <<Packet(names, value)>>
  BY DEF WriteDone, OnePacket
<1>2. status /\ obuf' = <<>>
  BY <1>1 DEF WriteDone
<1>3. known' = [p \in Prefix |-> IF p \in names THEN value ELSE known[p]]
  BY <1>1 DEF WriteDone, Packet
<1>4. \A p \in Prefix : Told(p)' = Told(p)
  BY <1>1, <1>2, <1>3 DEF Told, Packet
<1>5. UNCHANGED <<route, adj, update, withdraw, status>>
  BY DEF WriteDone, queues
<1>6. \A p \in Prefix : AdjOK(p)'
  BY <1>2, <1>4, <1>5 DEF AdjOK
<1>7. Types'
  <2>1. known' \in [Prefix -> Attr \cup {None}]
    BY <1>3
  <2>2. TypeOK'
    BY <1>2 DEF TypeOK, WriteDone, queues
  <2> QED
    BY <1>2, <2>1, <2>2 DEF WriteDone, OnePacket
<1>8. QueuedIsScheduled'
  BY <1>5 DEF QueuedIsScheduled
<1> QED
  BY <1>2, <1>5, <1>6, <1>7, <1>8

\* The process queue, which queues an update or a withdrawal, keeps the queues
\* in order.
LEMMA ProcessStep ==
    ASSUME AdvertiseAssumption, AdvertiseOK,
           NEW p \in Prefix, NEW attr \in Attr \cup {None}, NEW years \in Age,
           NEW gate \in BOOLEAN, bgp_process(p, attr, years, gate)
    PROVE  AdvertiseOK'
<1> USE DEF AdvertiseOK, Types, TypeOK, AdvertiseAssumption
<1>1. /\ route' = [route EXCEPT ![p] = attr] /\ age' = [age EXCEPT ![p] = years]
      /\ UNCHANGED <<status, obuf, loop, failed, known>> /\ changes' \in 0..MaxChanges
  BY DEF bgp_process, Change
<1>2. \A q \in Prefix : Told(q)' = Told(q)
  BY <1>1 DEF Told
<1>3. CASE status /\ attr # None
  <2>1. /\ adj' = [adj EXCEPT ![p].adv = attr]
        /\ update' = Append(Without(update, {p}), p)
        /\ withdraw' = Without(withdraw, {p}) /\ tWrite' = tWrite
    BY <1>3 DEF bgp_process, bgp_adj_out_set
  <2> DEFINE rest == Without(update, {p})
  <2>2. rest \in Seq(Prefix) /\ ToSet(rest) = ToSet(update) \ {p} /\ update' = Append(rest, p)
    BY <2>1, WithoutSet
  <2> HIDE DEF rest
  <2>3. update' \in Seq(Prefix) /\ ToSet(update') = (ToSet(update) \ {p}) \cup {p}
    BY <2>2, AppendSet
  <2>4. withdraw' \in Seq(Prefix) /\ ToSet(withdraw') = ToSet(withdraw) \ {p}
    BY <2>1, WithoutSet
  <2>5. QueuedIsScheduled'
    <3>1. \A q \in Prefix : adj'[q].adv = IF q = p THEN attr ELSE adj[q].adv
      BY <2>1
    <3>2. attr \in Attr /\ attr # Withdrawal
      BY <1>3
    <3> QED
      BY <2>3, <2>4, <3>1, <3>2 DEF QueuedIsScheduled
  <2>6. ASSUME NEW q \in Prefix PROVE AdjOK(q)'
    BY <1>1, <1>2, <1>3, <2>1 DEF AdjOK
  <2>7. Types'
    <3>1. adj' \in [Prefix -> [attr : Attr \cup {None}, adv : Attr \cup {None, Withdrawal}]]
      BY <2>1
    <3> QED
      BY <1>1, <2>1, <2>3, <2>4, <3>1 DEF OnePacket
  <2> QED
    BY <1>1, <1>3, <2>5, <2>6, <2>7
<1>4. CASE status /\ attr = None
  <2>1. bgp_adj_out_unset(p)
    BY <1>4 DEF bgp_process
  <2>2. update' = Without(update, {p})
    BY <2>1 DEF bgp_adj_out_unset
  <2>3. update' \in Seq(Prefix) /\ ToSet(update') = ToSet(update) \ {p}
    BY <2>2, WithoutSet
  <2>4. CASE adj[p].attr # None
    <3>1. /\ adj' = [adj EXCEPT ![p].adv = Withdrawal]
          /\ withdraw' = Append(Without(withdraw, {p}), p) /\ tWrite' = TRUE
      BY <2>1, <2>4 DEF bgp_adj_out_unset
    <3> DEFINE rest == Without(withdraw, {p})
    <3>2. /\ rest \in Seq(Prefix) /\ ToSet(rest) = ToSet(withdraw) \ {p}
          /\ withdraw' = Append(rest, p)
      BY <3>1, WithoutSet
    <3> HIDE DEF rest
    <3>3. withdraw' \in Seq(Prefix) /\ ToSet(withdraw') = (ToSet(withdraw) \ {p}) \cup {p}
      BY <3>2, AppendSet
    <3>4. QueuedIsScheduled'
      <4>1. \A q \in Prefix : adj'[q].adv = IF q = p THEN Withdrawal ELSE adj[q].adv
        BY <3>1
      <4> QED
        BY <2>3, <3>3, <4>1 DEF QueuedIsScheduled
    <3>5. ASSUME NEW q \in Prefix PROVE AdjOK(q)'
      BY <1>1, <1>2, <1>4, <2>4, <3>1 DEF AdjOK
    <3>6. Types'
      <4>1. adj' \in [Prefix -> [attr : Attr \cup {None}, adv : Attr \cup {None, Withdrawal}]]
        BY <3>1
      <4> QED
        BY <1>1, <2>3, <3>1, <3>3, <4>1 DEF OnePacket
    <3> QED
      BY <1>1, <1>4, <3>4, <3>5, <3>6
  <2>5. CASE adj[p].attr = None
    <3>1. adj' = [adj EXCEPT ![p] = NoAdj] /\ UNCHANGED <<withdraw, tWrite>>
      BY <2>1, <2>5 DEF bgp_adj_out_unset
    <3>2. adj[p].adv # Withdrawal
      BY <1>4, <2>5 DEF AdjOK
    <3>4. QueuedIsScheduled'
      BY <2>3, <3>1, <3>2 DEF QueuedIsScheduled, NoAdj
    <3>5. ASSUME NEW q \in Prefix PROVE AdjOK(q)'
      BY <1>1, <1>2, <1>4, <2>5, <3>1 DEF AdjOK, NoAdj
    <3>6. Types'
      BY <1>1, <2>3, <3>1 DEF OnePacket, NoAdj
    <3> QED
      BY <1>1, <1>4, <3>4, <3>5, <3>6
  <2> QED
    BY <2>4, <2>5
<1>5. CASE ~status
  <2>1. UNCHANGED <<queues, tWrite>>
    BY <1>5 DEF bgp_process
  <2> QED
    BY <1>1, <1>5, <2>1 DEF queues, QueuedIsScheduled, OnePacket, Closed
<1> QED
  BY <1>3, <1>4, <1>5

\* The end of a session empties the queues.
LEMMA StopStep ==
    ASSUME AdvertiseAssumption, AdvertiseOK, NEW kept \in SUBSET Prefix, bgp_stop(kept)
    PROVE  AdvertiseOK'
<1> USE DEF AdvertiseOK, Types, TypeOK, AdvertiseAssumption
<1>1. /\ status /\ \A p \in kept : adj[p].adv = Withdrawal
      /\ status' = FALSE /\ obuf' = <<>> /\ tWrite' = FALSE /\ failed' = FALSE
      /\ loop = 0 /\ loop' = 0
      /\ adj' = [p \in Prefix |-> IF p \in kept THEN adj[p] ELSE NoAdj]
      /\ update' = <<>> /\ withdraw' = Filter(withdraw, kept)
      /\ age' = [p \in Prefix |-> IF age[p] = "old" THEN "young" ELSE age[p]]
      /\ known' = [p \in Prefix |-> None] /\ route' = route /\ changes' \in 0..MaxChanges
  BY DEF bgp_stop, Change
<1>2. withdraw' \in Seq(Prefix) /\ ToSet(withdraw') = ToSet(withdraw) \cap kept
  BY <1>1, FilterSet
<1>3. update' \in Seq(Prefix) /\ ToSet(update') = {}
  BY <1>1, NoElements
<1>4. \A p \in Prefix : adj'[p] = IF p \in kept THEN adj[p] ELSE NoAdj
  BY <1>1
<1>5. QueuedIsScheduled'
  BY <1>1, <1>2, <1>3, <1>4 DEF QueuedIsScheduled, NoAdj
<1>6. ASSUME NEW p \in Prefix PROVE Closed(p)'
  BY <1>1, <1>4 DEF Closed, AdjOK, NoAdj
<1>7. adj' \in [Prefix -> [attr : Attr \cup {None}, adv : Attr \cup {None, Withdrawal}]]
  BY <1>1 DEF NoAdj
<1>8. age' \in [Prefix -> Age]
  BY <1>1 DEF Age
<1>9. known' \in [Prefix -> Attr \cup {None}] /\ OnePacket' /\ route' \in [Prefix -> Attr \cup {None}]
  BY <1>1 DEF OnePacket
<1>10. TypeOK'
  <2>1. failed' \in BOOLEAN
    BY <1>1
  <2>2. loop' \in 0..WriteMax /\ changes' \in 0..MaxChanges
    BY <1>1
  <2>3. \A i \in DOMAIN obuf' : DOMAIN obuf'[i] \subseteq Prefix
    BY <1>1
  <2> QED
    BY <1>2, <1>3, <1>7, <1>8, <1>9, <2>1, <2>2, <2>3
<1> QED
  BY <1>1, <1>5, <1>6, <1>9, <1>10

\* A new session starts with the selected routes queued.
LEMMA EstablishStep ==
    ASSUME AdvertiseAssumption, AdvertiseOK, bgp_establish
    PROVE  AdvertiseOK'
<1> USE DEF AdvertiseOK, Types, TypeOK, AdvertiseAssumption
<1> DEFINE table == {p \in Prefix : route[p] # None}
<1>1. /\ ~status /\ status' = TRUE /\ tWrite' = TRUE
      /\ adj' = [p \in Prefix |-> IF p \in table THEN [adj[p] EXCEPT !.adv = route[p]]
                                  ELSE adj[p]]
      /\ update' = SetToSeq(table) /\ withdraw' = Without(withdraw, table)
      /\ UNCHANGED <<route, age, obuf, loop, failed, known, changes>>
  BY DEF bgp_establish
<1>2. IsFiniteSet(table) /\ table \subseteq Prefix
  BY FS_Subset
<1>3. \A p \in Prefix : adj'[p] = IF p \in table THEN [adj[p] EXCEPT !.adv = route[p]] ELSE adj[p]
  BY <1>1
<1>4. \A p \in table : route[p] \in Attr /\ route[p] # Withdrawal
  OBVIOUS
<1>5. \A p \in Prefix : p \notin table => route[p] = None
  OBVIOUS
<1> HIDE DEF table
<1>6. SetToSeq(table) \in Seq(table) /\ ToSet(SetToSeq(table)) = table
  BY <1>2, SetToSeqSet
<1>7. update' \in Seq(Prefix) /\ ToSet(update') = table
  BY <1>1, <1>2, <1>6
<1>8. withdraw' \in Seq(Prefix) /\ ToSet(withdraw') = ToSet(withdraw) \ table
  BY <1>1, WithoutSet
<1>9. \A p \in Prefix : /\ adj'[p].attr = adj[p].attr
                       /\ adj'[p].adv = IF p \in table THEN route[p] ELSE adj[p].adv
  BY <1>3
<1>10. QueuedIsScheduled'
  BY <1>1, <1>4, <1>7, <1>8, <1>9 DEF QueuedIsScheduled, Closed
<1>11. ASSUME NEW p \in Prefix PROVE AdjOK(p)'
  <2>1. Told(p)' = None /\ Closed(p) /\ route' = route
    BY <1>1 DEF Told, Closed
  <2> QED
    BY <1>4, <1>5, <1>9, <2>1 DEF AdjOK, Closed
<1>12. adj' \in [Prefix -> [attr : Attr \cup {None}, adv : Attr \cup {None, Withdrawal}]]
  BY <1>1, <1>2, <1>4
<1>13. Types'
  BY <1>1, <1>7, <1>8, <1>12 DEF OnePacket
<1> QED
  BY <1>1, <1>10, <1>11, <1>13

\* The queues are in order before the first session.
LEMMA AdvertiseInit ==
    ASSUME AdvertiseAssumption, Init
    PROVE  AdvertiseOK
<1> USE DEF Init, NoAdj, AdvertiseAssumption
<1>1. /\ update \in Seq(Prefix) /\ ToSet(update) = {}
      /\ withdraw \in Seq(Prefix) /\ ToSet(withdraw) = {}
  BY NoElements
<1>2. QueuedIsScheduled
  BY <1>1 DEF QueuedIsScheduled
<1>3. Types
  <2>1. adj \in [Prefix -> [attr : Attr \cup {None}, adv : Attr \cup {None, Withdrawal}]]
    OBVIOUS
  <2>2. age \in [Prefix -> Age] /\ known \in [Prefix -> Attr \cup {None}]
    BY DEF Age
  <2>3. loop \in 0..WriteMax /\ changes \in 0..MaxChanges /\ OnePacket
    BY DEF OnePacket
  <2>6. failed \in BOOLEAN
    OBVIOUS
  <2>4. \A i \in DOMAIN obuf : DOMAIN obuf[i] \subseteq Prefix
    OBVIOUS
  <2>5. route \in [Prefix -> Attr \cup {None}] /\ status \in BOOLEAN /\ tWrite \in BOOLEAN
    OBVIOUS
  <2> QED
    BY <1>1, <2>1, <2>2, <2>3, <2>4, <2>5, <2>6 DEF Types, TypeOK
<1> QED
  BY <1>2, <1>3 DEF AdvertiseOK, Closed

\* AdvertiseOK is inductive.
LEMMA AdvertiseStep ==
    ASSUME AdvertiseAssumption, AdvertiseOK, [Next]_vars
    PROVE  AdvertiseOK'
<1> USE DEF AdvertiseAssumption
<1>0. Types /\ TypeOK /\ (~status => loop = 0)
  BY DEF AdvertiseOK, Types
<1>1. CASE bgp_write
  <2>1. CASE HasPacket /\ bgp_write_packet(FALSE) /\ loop' = 1
    <3>1. status /\ UNCHANGED <<route, age, status, failed, known, changes>> /\ loop' \in 0..WriteMax
      BY <1>1, <2>1 DEF bgp_write
    <3> QED
      BY <2>1, <3>1, MakePacket
  <2>2. CASE ~HasPacket /\ tWrite' = FALSE /\ UNCHANGED <<queues, obuf, eorSend, loop>>
    BY <1>0, <1>1, <2>2, Untouched DEF bgp_write, queues, Types, TypeOK
  <2> QED
    BY <1>1, <2>1, <2>2 DEF bgp_write
<1>2. CASE WriteDone
  BY <1>2, WriteDoneStep
<1>3. CASE WriteBlocked
  BY <1>0, <1>3, Untouched DEF WriteBlocked, queues, Types, TypeOK
<1>14. CASE WriteFailed
  BY <1>0, <1>14, Untouched DEF WriteFailed, Change, queues, Types, TypeOK
<1>4. CASE WriteNext
  <2>0. status
    BY <1>0, <1>4 DEF WriteNext, Types, TypeOK
  <2>1. CASE loop < WriteMax /\ HasPacket /\ bgp_write_packet(tWrite) /\ loop' = loop + 1
    <3>1. UNCHANGED <<route, age, status, failed, known, changes>> /\ loop' \in 0..WriteMax
      BY <1>0, <1>4, <2>1 DEF WriteNext, TypeOK
    <3>2. tWrite \in BOOLEAN
      BY <1>0 DEF Types
    <3> QED
      BY <2>0, <2>1, <3>1, <3>2, MakePacket
  <2>2. CASE /\ loop' = 0 /\ tWrite' = (tWrite \/ bgp_write_proceed)
             /\ UNCHANGED <<queues, obuf, eorSend>>
    BY <1>0, <1>4, <2>2, Untouched DEF WriteNext, queues, Types, TypeOK
  <2> QED
    BY <1>4, <2>1, <2>2 DEF WriteNext
<1>5. CASE \E p \in Prefix, attr \in Attr \cup {None}, years \in Age, gate \in BOOLEAN :
              bgp_process(p, attr, years, gate)
  BY <1>5, ProcessStep
<1>6. ASSUME NEW p \in Prefix, Duplicate(p) PROVE AdvertiseOK'
  BY <1>0, <1>6, Untouched DEF Duplicate, Change, queues, Types, TypeOK, Age
<1>7. CASE EorReceived
  BY <1>0, <1>7, Untouched DEF EorReceived, queues, Types, TypeOK
<1>8. CASE Tick
  <2>1. age' \in [Prefix -> Age]
    BY <1>0, <1>8 DEF Tick, TypeOK, Age
  <2> QED
    BY <1>0, <1>8, <2>1, Untouched DEF Tick, queues, Types, TypeOK
<1>9. CASE bgp_routeadv_timer
  <2>1. age' \in [Prefix -> Age]
    BY <1>0, <1>9 DEF bgp_routeadv_timer, TypeOK, Age
  <2> QED
    BY <1>0, <1>9, <2>1, Untouched DEF bgp_routeadv_timer, queues, Types, TypeOK
<1>10. CASE bgp_keepalive_send
  BY <1>0, <1>10, Untouched DEF bgp_keepalive_send, Change, queues, Types, TypeOK
<1>11. CASE \E kept \in SUBSET Prefix : bgp_stop(kept)
  BY <1>11, StopStep
<1>12. CASE bgp_establish
  BY <1>12, EstablishStep
<1>13. CASE UNCHANGED vars
  BY <1>0, <1>13, Untouched DEF vars, Types, TypeOK
<1> QED
  BY <1>1, <1>2, <1>3, <1>4, <1>5, <1>6, <1>7, <1>8, <1>9, <1>10, <1>11, <1>12, <1>13, <1>14 DEF Next

-----------------------------------------------------------------------------
(***************************************************************************)
(* The theorems.                                                           *)
(***************************************************************************)
\* The inductive invariant of the queues holds in every reachable state.
LEMMA AdvertiseAlways == Spec => []AdvertiseOK
<1>1. Init => AdvertiseOK
  BY AdvertiseAssumption, AdvertiseInit
<1>2. AdvertiseOK /\ [Next]_vars => AdvertiseOK'
  BY AdvertiseAssumption, AdvertiseStep
<1> QED
  BY <1>1, <1>2, PTL DEF Spec

\* Every reachable state of the advertisement queues is well typed, for any finite
\* set of prefixes, any attributes and any bounds.
THEOREM AdvertiseTypeCorrect == Spec => []TypeOK
<1>1. AdvertiseOK => TypeOK
  BY DEF AdvertiseOK, Types
<1> QED
  BY <1>1, AdvertiseAlways, PTL

\* The FIFOs of peer->sync and the adjacencies always agree (bgp_adj_out_set,
\* bgp_adj_out_unset, bgp_advertise_clean, bgp_withdraw_packet, bgp_update_packet).
THEOREM QueuesCorrect == Spec => []QueuedIsScheduled
<1>1. AdvertiseOK => QueuedIsScheduled
  BY DEF AdvertiseOK
<1> QED
  BY <1>1, AdvertiseAlways, PTL

\* Nothing is forgotten: a prefix for which no advertisement is scheduled is known
\* to the neighbour as it is selected.
THEOREM NothingForgottenCorrect == Spec => []NothingForgotten
<1>1. AdvertiseOK => NothingForgotten
  BY DEF AdvertiseOK, AdjOK, Told, NothingForgotten
<1> QED
  BY <1>1, AdvertiseAlways, PTL

\* The writer is armed: no withdrawal and no rest of a packet waits for a timer.
THEOREM WriterArmedCorrect == Spec => []WriterArmed
<1> USE DEF WriterArmed, AdvertiseOK, Types, TypeOK
<1>1. Init => WriterArmed
  BY DEF Init
<1>2. AdvertiseOK /\ WriterArmed /\ [Next]_vars => WriterArmed'
  <2> SUFFICES ASSUME AdvertiseOK, WriterArmed, [Next]_vars PROVE WriterArmed'
    OBVIOUS
  <2>1. CASE bgp_write
    BY <2>1, AdvertiseAssumption DEF bgp_write, HasPacket, queues
  <2>2. CASE WriteDone
    BY <2>2 DEF WriteDone
  <2>3. CASE WriteBlocked \/ WriteFailed
    BY <2>3 DEF WriteBlocked, WriteFailed
  <2>4. CASE WriteNext
    <3>1. CASE loop' = loop + 1
      BY <2>4, <3>1 DEF WriteNext
    <3>2. CASE tWrite' = (tWrite \/ bgp_write_proceed) /\ UNCHANGED <<queues, obuf>>
      <4>1. ~tWrite' => ~bgp_write_proceed
        BY <3>2
      <4> QED
        BY <3>2, <4>1 DEF bgp_write_proceed, queues
    <3> QED
      BY <2>4, <3>1, <3>2 DEF WriteNext
  <2>5. ASSUME NEW p \in Prefix, NEW attr \in Attr \cup {None}, NEW years \in Age,
               NEW gate \in BOOLEAN, bgp_process(p, attr, years, gate)
        PROVE  WriterArmed'
    <3>1. /\ Without(withdraw, {p}) \in Seq(Prefix)
          /\ ToSet(Without(withdraw, {p})) = ToSet(withdraw) \ {p}
      BY WithoutSet
    <3>2. withdraw = <<>> => Without(withdraw, {p}) = <<>>
      BY <3>1, EmptySet
    <3> QED
      BY <2>5, <3>2 DEF bgp_process, bgp_adj_out_set, bgp_adj_out_unset, queues
  <2>6. CASE \/ \E p \in Prefix : Duplicate(p)
             \/ EorReceived \/ Tick
    BY <2>6 DEF Duplicate, EorReceived, Tick, queues
  <2>7. CASE bgp_routeadv_timer \/ bgp_keepalive_send \/ bgp_establish
    BY <2>7 DEF bgp_routeadv_timer, bgp_keepalive_send, bgp_establish
  <2>8. CASE \E kept \in SUBSET Prefix : bgp_stop(kept)
    BY <2>8 DEF bgp_stop
  <2>9. CASE UNCHANGED vars
    BY <2>9 DEF vars
  <2> QED
    BY <2>1, <2>2, <2>3, <2>4, <2>5, <2>6, <2>7, <2>8, <2>9 DEF Next
<1> QED
  BY <1>1, <1>2, AdvertiseAlways, PTL DEF Spec

-----------------------------------------------------------------------------
(***************************************************************************)
(* The refinement.                                                         *)
(***************************************************************************)
\* Making a packet is saying what is selected now.
LEMMA MakeIsSay ==
    ASSUME AdvertiseAssumption, AdvertiseOK, status, HasPacket,
           NEW armed \in BOOLEAN, bgp_write_packet(armed), UNCHANGED <<route, known, status>>
    PROVE  [View!Next]_(View!vars)
<1>1. CASE obuf' = obuf
  BY <1>1 DEF View!vars
<1>2. ASSUME obuf = <<>>, NEW names \in SUBSET Prefix, obuf' = <<[p \in names |-> route[p]]>>
      PROVE  View!Next
  <2>1. View!Say(names)
    BY <1>2 DEF View!Say
  <2> QED
    BY <2>1 DEF View!Next
<1> QED
  BY <1>1, <1>2, WritePacket

\* Every step of the queues is a step of NeighbourView or leaves it as it is.
LEMMA ViewStep ==
    ASSUME AdvertiseAssumption, AdvertiseOK, [Next]_vars
    PROVE  [View!Next]_(View!vars)
<1>1. CASE bgp_write \/ WriteNext
  <2>1. UNCHANGED <<route, known, status>>
    BY <1>1 DEF bgp_write, WriteNext
  <2>2. status
    <3>1. CASE bgp_write
      BY <3>1 DEF bgp_write
    <3>2. CASE WriteNext
      BY <3>2 DEF WriteNext, AdvertiseOK
    <3> QED
      BY <1>1, <3>1, <3>2
  <2>3. ASSUME NEW armed \in BOOLEAN, HasPacket, bgp_write_packet(armed)
        PROVE  [View!Next]_(View!vars)
    BY <2>1, <2>2, <2>3, MakeIsSay
  <2>4. CASE UNCHANGED obuf
    BY <2>1, <2>4 DEF View!vars
  <2> QED
    <3>1. tWrite \in BOOLEAN
      BY DEF AdvertiseOK, Types
    <3> QED
      BY <1>1, <2>3, <2>4, <3>1 DEF bgp_write, WriteNext
<1>2. CASE WriteDone
  <2>1. View!Hear
    BY <1>2 DEF WriteDone, View!Hear, View!Heard
  <2> QED
    BY <2>1 DEF View!Next
<1>3. ASSUME NEW p \in Prefix, NEW attr \in Attr \cup {None}, NEW years \in Age,
             NEW gate \in BOOLEAN, bgp_process(p, attr, years, gate)
      PROVE  View!Next
  <2>1. View!Change(p, attr) /\ attr \in View!Value
    BY <1>3 DEF bgp_process, View!Change, View!Value
  <2> QED
    BY <2>1 DEF View!Next
<1>4. CASE WriteBlocked \/ WriteFailed \/ EorReceived \/ Tick \/ bgp_routeadv_timer \/ bgp_keepalive_send
           \/ \E p \in Prefix : Duplicate(p)
  BY <1>4 DEF WriteBlocked, WriteFailed, EorReceived, Tick, bgp_routeadv_timer, bgp_keepalive_send,
              Duplicate, View!vars
<1>5. ASSUME NEW kept \in SUBSET Prefix, bgp_stop(kept) PROVE View!Next
  <2>1. View!Close
    BY <1>5 DEF bgp_stop, View!Close, View!Nothing
  <2> QED
    BY <2>1 DEF View!Next
<1>6. CASE bgp_establish
  <2>1. View!Open
    BY <1>6 DEF bgp_establish, View!Open
  <2> QED
    BY <2>1 DEF View!Next
<1>7. CASE UNCHANGED vars
  BY <1>7 DEF vars, View!vars
<1> QED
  BY <1>1, <1>2, <1>3, <1>4, <1>5, <1>6, <1>7 DEF Next

\* The queues, timers and packets implement the view of the neighbour: each packet
\* says what is selected when it is made, and packets are heard in order.
THEOREM ViewImplemented == Spec => ViewRefined
<1>1. Init => View!Init
  BY DEF Init, View!Init, View!Value, View!Nothing
<1>2. AdvertiseOK /\ [Next]_vars => [View!Next]_(View!vars)
  BY AdvertiseAssumption, ViewStep
<1> QED
  BY <1>1, <1>2, AdvertiseAlways, PTL DEF Spec, ViewRefined, View!Safe
=============================================================================
