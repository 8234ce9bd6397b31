--------------------------- MODULE BgpDamp_proofs ---------------------------
(***************************************************************************)
(* Route flap damping, for any number of routes, any parameters and any    *)
(* tables that fit together (TablesAssumption).                            *)
(***************************************************************************)
EXTENDS BgpDamp, BgpInfo_proofs, Fifo_proofs

(***************************************************************************)
(* Doubly linked lists.                                                    *)
(***************************************************************************)
Bdi == [Route -> DampInfo \cup {None}]

\* The n members of s are linked in this order.
Chain(b, head, n, s) ==
    /\ head = IF n = 0 THEN None ELSE s[1]
    /\ \A i, j \in 1..n : s[i] = s[j] => i = j
    /\ \A i \in 1..n :
          /\ b[s[i]] # None
          /\ b[s[i]].prev = IF i = 1 THEN None ELSE s[i - 1]
          /\ b[s[i]].next = IF i = n THEN None ELSE s[i + 1]

\* head is the first of a list of the routes of T.
Strung(b, head, T) ==
    \E n \in Nat : \E s \in [1..n -> Route] :
        Chain(b, head, n, s) /\ T = {s[i] : i \in 1..n}

\* The same but for the links.
SameData(d, e) ==
    /\ d = None <=> e = None
    /\ d # None => /\ e.penalty = d.penalty /\ e.age = d.age /\ e.since = d.since
                   /\ e.index = d.index /\ e.last = d.last

LEMMA LinkPrev ==
    ASSUME NEW b \in Bdi, NEW p \in Pointer, NEW q \in Pointer
    PROVE  LET c == Link(b, p, "prev", q)
           IN  /\ c \in Bdi
               /\ \A r \in Route : SameData(b[r], c[r])
               /\ \A r \in Route : r # p => c[r] = b[r]
               /\ p # None => (b[p] # None => c[p].prev = q /\ c[p].next = b[p].next)
<1> DEFINE c == Link(b, p, "prev", q)
<1>1. CASE p = None \/ b[p] = None
  BY <1>1 DEF Link, SameData
<1>2. CASE p # None /\ b[p] # None
  <2>1. p \in Route /\ b[p] \in DampInfo
    BY <1>2 DEF Pointer, Bdi
  <2> DEFINE d == [b[p] EXCEPT !.prev = q]
  <2>2. /\ d \in DampInfo /\ d.penalty = b[p].penalty /\ d.age = b[p].age /\ d.since = b[p].since
        /\ d.index = b[p].index /\ d.last = b[p].last /\ d.next = b[p].next /\ d.prev = q
    BY <2>1 DEF DampInfo
  <2>3. d # None
    BY <2>2, NoneAssumption
  <2>4. c = [b EXCEPT ![p] = d]
    BY <1>2 DEF Link
  <2> HIDE DEF d, c
  <2>5. c \in Bdi
    BY <2>1, <2>2, <2>4 DEF Bdi
  <2>6. c[p] = d /\ \A r \in Route : r # p => c[r] = b[r]
    BY <2>1, <2>4 DEF Bdi
  <2>7. \A r \in Route : SameData(b[r], c[r])
    BY <2>2, <2>3, <2>6, <1>2 DEF SameData
  <2> QED
    BY <2>2, <2>5, <2>6, <2>7 DEF c
<1> QED
  BY <1>1, <1>2

LEMMA LinkNext ==
    ASSUME NEW b \in Bdi, NEW p \in Pointer, NEW q \in Pointer
    PROVE  LET c == Link(b, p, "next", q)
           IN  /\ c \in Bdi
               /\ \A r \in Route : SameData(b[r], c[r])
               /\ \A r \in Route : r # p => c[r] = b[r]
               /\ p # None => (b[p] # None => c[p].next = q /\ c[p].prev = b[p].prev)
<1> DEFINE c == Link(b, p, "next", q)
<1>1. CASE p = None \/ b[p] = None
  BY <1>1 DEF Link, SameData
<1>2. CASE p # None /\ b[p] # None
  <2>1. p \in Route /\ b[p] \in DampInfo
    BY <1>2 DEF Pointer, Bdi
  <2> DEFINE d == [b[p] EXCEPT !.next = q]
  <2>2. /\ d \in DampInfo /\ d.penalty = b[p].penalty /\ d.age = b[p].age /\ d.since = b[p].since
        /\ d.index = b[p].index /\ d.last = b[p].last /\ d.prev = b[p].prev /\ d.next = q
    BY <2>1 DEF DampInfo
  <2>3. d # None
    BY <2>2, NoneAssumption
  <2>4. c = [b EXCEPT ![p] = d]
    BY <1>2 DEF Link
  <2> HIDE DEF d, c
  <2>5. c \in Bdi
    BY <2>1, <2>2, <2>4 DEF Bdi
  <2>6. c[p] = d /\ \A r \in Route : r # p => c[r] = b[r]
    BY <2>1, <2>4 DEF Bdi
  <2>7. \A r \in Route : SameData(b[r], c[r])
    BY <2>2, <2>3, <2>6, <1>2 DEF SameData
  <2> QED
    BY <2>2, <2>5, <2>6, <2>7 DEF c
<1> QED
  BY <1>1, <1>2

\* A list does not change if the links of its members do not.
LEMMA StrungFrame ==
    ASSUME NEW b, NEW c, NEW head, NEW T, Strung(b, head, T),
           \A r \in T : c[r] # None /\ c[r].next = b[r].next /\ c[r].prev = b[r].prev
    PROVE  Strung(c, head, T)
<1>0. PICK n \in Nat : \E s \in [1..n -> Route] :
          Chain(b, head, n, s) /\ T = {s[i] : i \in 1..n}
  BY DEF Strung
<1>1. PICK s \in [1..n -> Route] : Chain(b, head, n, s) /\ T = {s[i] : i \in 1..n}
  BY <1>0
<1>2. \A i \in 1..n : s[i] \in T
  BY <1>1
<1>3. Chain(c, head, n, s)
  BY <1>1, <1>2 DEF Chain
<1> QED
  BY <1>1, <1>3 DEF Strung

\* What Strung says, with the members of the list named.
LEMMA Unstrung ==
    ASSUME NEW b, NEW head, NEW T, Strung(b, head, T)
    PROVE  /\ T \subseteq Route /\ head \in T \cup {None}
           /\ \A r \in T : b[r] # None
<1>0. PICK n \in Nat : \E s \in [1..n -> Route] :
          Chain(b, head, n, s) /\ T = {s[i] : i \in 1..n}
  BY DEF Strung
<1>1. PICK s \in [1..n -> Route] : Chain(b, head, n, s) /\ T = {s[i] : i \in 1..n}
  BY <1>0
<1>2. head \in T \cup {None}
  BY <1>1 DEF Chain
<1> QED
  BY <1>1, <1>2 DEF Chain

\* A route is put in front of a list.
LEMMA StrungPushed ==
    ASSUME NEW b \in Bdi, NEW head, NEW T, Strung(b, head, T),
           NEW r \in Route, r \notin T, b[r] # None
    PROVE  LET c == Pushed(b, r, head)
           IN  /\ c \in Bdi
               /\ \A q \in Route : SameData(b[q], c[q])
               /\ \A q \in Route : q \notin T \cup {r} => c[q] = b[q]
               /\ Strung(c, r, T \cup {r})
<1>0. PICK n \in Nat : \E s \in [1..n -> Route] :
          Chain(b, head, n, s) /\ T = {s[i] : i \in 1..n}
  BY DEF Strung
<1>1. PICK s \in [1..n -> Route] : Chain(b, head, n, s) /\ T = {s[i] : i \in 1..n}
  BY <1>0
<1>2. T \subseteq Route /\ head \in T \cup {None} /\ None \notin Route
  BY Unstrung, DampAssumption
<1>3. head \in Pointer /\ r \in Pointer /\ None \in Pointer /\ r # head /\ r # None
  BY <1>2 DEF Pointer
<1> DEFINE b1 == Link(b, r, "prev", None)
           b2 == Link(b1, r, "next", head)
           c == Link(b2, head, "prev", r)
<1>4. /\ b1 \in Bdi /\ (\A q \in Route : SameData(b[q], b1[q]))
      /\ (\A q \in Route : q # r => b1[q] = b[q]) /\ b1[r].prev = None
  BY <1>3, LinkPrev, ZenonT(40)
<1> HIDE DEF b1
<1>5. b1[r] # None
  BY <1>4 DEF SameData
<1>6. /\ b2 \in Bdi /\ (\A q \in Route : SameData(b1[q], b2[q]))
      /\ (\A q \in Route : q # r => b2[q] = b1[q]) /\ b2[r].prev = None /\ b2[r].next = head
  <2>1. b1 \in Bdi
    BY <1>4
  <2>2. /\ b2 \in Bdi /\ (\A q \in Route : SameData(b1[q], b2[q]))
        /\ (\A q \in Route : q # r => b2[q] = b1[q])
        /\ r # None => (b1[r] # None => b2[r].next = head /\ b2[r].prev = b1[r].prev)
    BY <1>3, <2>1, LinkNext, ZenonT(40)
  <2> QED
    BY <1>3, <1>4, <1>5, <2>2
<1> HIDE DEF b2
<1>7. /\ c \in Bdi /\ (\A q \in Route : SameData(b2[q], c[q]))
      /\ (\A q \in Route : q # head => c[q] = b2[q])
      /\ (head # None => (b2[head] # None => c[head].prev = r /\ c[head].next = b2[head].next))
  <2>1. b2 \in Bdi
    BY <1>6
  <2> QED
    BY <1>3, <2>1, LinkPrev, ZenonT(40)
<1> HIDE DEF c
<1>8. \A q \in Route : SameData(b[q], c[q])
  BY <1>4, <1>6, <1>7 DEF SameData
<1>9. \A q \in Route : q # r /\ q # head => c[q] = b[q]
  BY <1>4, <1>6, <1>7
<1>10. c[r] # None /\ c[r].prev = None /\ c[r].next = head
  BY <1>3, <1>6, <1>7, <1>8 DEF SameData
<1>11. ASSUME head # None
       PROVE  c[head] # None /\ c[head].prev = r /\ c[head].next = b[head].next
  <2>1. head \in T /\ b[head] # None /\ b2[head] = b[head]
    BY <1>2, <1>3, <1>4, <1>6, <1>11, Unstrung
  <2> QED
    BY <2>1, <1>2, <1>7, <1>8, <1>11 DEF SameData
<1> DEFINE t == [i \in 1..(n + 1) |-> IF i = 1 THEN r ELSE s[i - 1]]
<1>12. /\ t \in [1..(n + 1) -> Route] /\ t[1] = r
       /\ \A i \in 2..(n + 1) : t[i] = s[i - 1] /\ i - 1 \in 1..n
  OBVIOUS
<1> HIDE DEF t
<1>13. \A i \in 1..n : s[i] \in T /\ s[i] # r
  BY <1>1
<1>14. Chain(c, r, n + 1, t)
  <2>1. ASSUME NEW i \in 1..(n + 1), NEW j \in 1..(n + 1), t[i] = t[j] PROVE i = j
    <3>1. CASE i = 1 \/ j = 1
      BY <2>1, <3>1, <1>12, <1>13
    <3>2. CASE i \in 2..(n + 1) /\ j \in 2..(n + 1)
      <4>1. i - 1 = j - 1
        BY <2>1, <3>2, <1>12, <1>1 DEF Chain
      <4> QED
        BY <4>1
    <3> QED
      BY <3>1, <3>2
  <2>2. ASSUME NEW i \in 1..(n + 1)
        PROVE  /\ c[t[i]] # None
               /\ c[t[i]].prev = IF i = 1 THEN None ELSE t[i - 1]
               /\ c[t[i]].next = IF i = n + 1 THEN None ELSE t[i + 1]
    <3>1. CASE i = 1
      <4>1. n # 0 => t[2] = s[1]
        BY <1>12
      <4> QED
        BY <3>1, <1>1, <1>10, <1>12, <4>1 DEF Chain
    <3>2. CASE i = 2
      <4>1. n # 0 /\ head = s[1] /\ t[2] = s[1] /\ t[1] = r
        BY <3>2, <1>1, <1>12 DEF Chain
      <4>2. head # None
        BY <4>1, <1>2, <1>13
      <4>3. b[head].next = IF 1 = n THEN None ELSE s[2]
        BY <4>1, <1>1 DEF Chain
      <4>4. n # 1 => t[3] = s[2]
        BY <1>12, <4>1
      <4> QED
        BY <3>2, <4>1, <4>2, <4>3, <4>4, <1>11
    <3>3. CASE i \in 3..(n + 1)
      <4>1. t[i] = s[i - 1] /\ t[i - 1] = s[i - 2] /\ i - 1 \in 2..n /\ n # 0
        BY <3>3, <1>12
      <4>2. s[i - 1] # head /\ s[i - 1] # r /\ s[i - 1] \in Route
        BY <4>1, <1>1, <1>13 DEF Chain
      <4>3. c[t[i]] = b[s[i - 1]]
        BY <4>1, <4>2, <1>9
      <4>4. /\ b[s[i - 1]] # None
            /\ b[s[i - 1]].prev = s[i - 2]
            /\ b[s[i - 1]].next = IF i - 1 = n THEN None ELSE s[i]
        BY <4>1, <1>1 DEF Chain
      <4>5. i # n + 1 => t[i + 1] = s[i]
        BY <3>3, <1>12
      <4> QED
        BY <3>3, <4>1, <4>3, <4>4, <4>5
    <3> QED
      BY <3>1, <3>2, <3>3
  <2> QED
    BY <2>1, <2>2, <1>12 DEF Chain
<1>15. T \cup {r} = {t[i] : i \in 1..(n + 1)}
  <2>1. \A i \in 1..n : s[i] = t[i + 1] /\ i + 1 \in 1..(n + 1)
    BY <1>12
  <2>2. \A q \in T \cup {r} : \E i \in 1..(n + 1) : q = t[i]
    BY <2>1, <1>1, <1>12
  <2>3. \A i \in 1..(n + 1) : t[i] \in T \cup {r}
    BY <1>12, <1>1
  <2> QED
    BY <2>2, <2>3
<1>16. Strung(c, r, T \cup {r})
  <2> DEFINE m == n + 1
  <2>1. m \in Nat /\ t \in [1..m -> Route] /\ Chain(c, r, m, t)
        /\ T \cup {r} = {t[i] : i \in 1..m}
    BY <1>12, <1>14, <1>15
  <2> HIDE DEF m
  <2> QED
    BY <2>1 DEF Strung
<1>17. \A q \in Route : q \notin T \cup {r} => c[q] = b[q]
  BY <1>2, <1>9, DampAssumption
<1> QED
  BY <1>7, <1>8, <1>16, <1>17 DEF Pushed, c, b2, b1

\* A route is taken out of its list.
LEMMA StrungUnlinked ==
    ASSUME NEW b \in Bdi, NEW head, NEW T, Strung(b, head, T), NEW r \in T,
           NEW first, first = IF b[r].prev = None THEN b[r].next ELSE head
    PROVE  LET c == Unlinked(b, r)
           IN  /\ c \in Bdi
               /\ \A q \in Route : SameData(b[q], c[q])
               /\ \A q \in Route : q \notin T => c[q] = b[q]
               /\ Strung(c, first, T \ {r})
<1>0. PICK n \in Nat : \E s \in [1..n -> Route] :
          Chain(b, head, n, s) /\ T = {s[i] : i \in 1..n}
  BY DEF Strung
<1>1. PICK s \in [1..n -> Route] : Chain(b, head, n, s) /\ T = {s[i] : i \in 1..n}
  BY <1>0
<1>2. PICK k \in 1..n : r = s[k]
  BY <1>1
<1>3. None \notin Route /\ \A i \in 1..n : s[i] \in T /\ s[i] \in Route /\ s[i] # None
  BY <1>1, DampAssumption
<1> DEFINE nx == b[r].next
           pv == b[r].prev
           b1 == Link(b, nx, "prev", pv)
           c == Link(b1, pv, "next", nx)
<1>4. /\ pv = IF k = 1 THEN None ELSE s[k - 1]
      /\ nx = IF k = n THEN None ELSE s[k + 1]
      /\ b[r] # None
  BY <1>1, <1>2 DEF Chain
<1>5. nx \in Pointer /\ pv \in Pointer
  BY <1>3, <1>4 DEF Pointer
<1> HIDE DEF nx, pv
<1>6. /\ b1 \in Bdi /\ (\A q \in Route : SameData(b[q], b1[q]))
      /\ (\A q \in Route : q # nx => b1[q] = b[q])
      /\ nx # None => (b[nx] # None => b1[nx].prev = pv /\ b1[nx].next = b[nx].next)
  BY <1>5, LinkPrev
<1> HIDE DEF b1
<1>7. /\ c \in Bdi /\ (\A q \in Route : SameData(b1[q], c[q]))
      /\ (\A q \in Route : q # pv => c[q] = b1[q])
      /\ pv # None => (b1[pv] # None => c[pv].next = nx /\ c[pv].prev = b1[pv].prev)
  <2>1. b1 \in Bdi
    BY <1>6
  <2> QED
    BY <1>5, <2>1, LinkNext
<1> HIDE DEF c
<1>8. \A q \in Route : SameData(b[q], c[q])
  BY <1>6, <1>7 DEF SameData
<1>9. \A q \in Route : q \notin T => c[q] = b[q]
  BY <1>3, <1>4, <1>6, <1>7
\* The member at i keeps its links, but for those to r.
<1>10. ASSUME NEW i \in 1..n, i # k
       PROVE  /\ c[s[i]] # None
              /\ c[s[i]].prev = IF i = k + 1 THEN pv ELSE b[s[i]].prev
              /\ c[s[i]].next = IF i = k - 1 THEN nx ELSE b[s[i]].next
  <2>1. b[s[i]] # None /\ s[i] \in Route /\ s[i] # None
    BY <1>1, <1>3 DEF Chain
  <2>2. (s[i] = pv <=> i = k - 1) /\ (s[i] = nx <=> i = k + 1)
    BY <1>1, <1>3, <1>4 DEF Chain
  <2>3. c[s[i]] # None /\ b1[s[i]] # None
    BY <2>1, <1>6, <1>8 DEF SameData
  <2>4. CASE i = k - 1
    <3>1. s[i] = pv /\ s[i] # nx /\ b1[s[i]] = b[s[i]]
      BY <2>1, <2>2, <2>4, <1>6
    <3> QED
      BY <2>1, <2>3, <2>4, <3>1, <1>7
  <2>5. CASE i = k + 1
    <3>1. s[i] = nx /\ s[i] # pv /\ c[s[i]] = b1[s[i]]
      BY <2>1, <2>2, <2>5, <1>7
    <3> QED
      BY <2>1, <2>3, <2>5, <3>1, <1>6
  <2>6. CASE i # k - 1 /\ i # k + 1
    <3>1. c[s[i]] = b[s[i]]
      BY <2>1, <2>2, <2>6, <1>6, <1>7
    <3> QED
      BY <2>1, <2>6, <3>1
  <2> QED
    BY <2>4, <2>5, <2>6
<1> DEFINE m == n - 1
           t == [i \in 1..m |-> IF i < k THEN s[i] ELSE s[i + 1]]
<1>11. /\ m \in Nat /\ t \in [1..m -> Route] /\ n = m + 1
       /\ \A i \in 1..m : t[i] = IF i < k THEN s[i] ELSE s[i + 1]
  <2>1. m \in Nat /\ n = m + 1
    BY <1>2
  <2>2. \A i \in 1..m : (IF i < k THEN s[i] ELSE s[i + 1]) \in Route
    BY <1>2, <1>3
  <2> QED
    BY <2>1, <2>2
<1> HIDE DEF t, m
<1>12. first = IF m = 0 THEN None ELSE t[1]
  <2>0. first = IF pv = None THEN nx ELSE head
    BY DEF pv, nx
  <2>1. CASE k = 1
    BY <2>0, <2>1, <1>4, <1>11
  <2>2. CASE k # 1
    <3>1. pv # None /\ head = s[1] /\ m # 0 /\ 1 \in 1..m /\ 1 < k
      BY <2>2, <1>1, <1>3, <1>4, <1>11 DEF Chain
    <3> QED
      BY <2>0, <3>1, <1>11
  <2> QED
    BY <2>1, <2>2
<1>13. ASSUME NEW i \in 1..m, NEW j \in 1..m, t[i] = t[j] PROVE i = j
  <2> DEFINE u == IF i < k THEN i ELSE i + 1
             v == IF j < k THEN j ELSE j + 1
  <2>1. u \in 1..n /\ v \in 1..n /\ t[i] = s[u] /\ t[j] = s[v]
    BY <1>11
  <2>2. u = v
    <3> HIDE DEF u, v
    <3>1. s[u] = s[v]
      BY <2>1, <1>13
    <3> QED
      BY <2>1, <3>1, <1>1 DEF Chain
  <2> QED
    BY <2>2
<1>14. ASSUME NEW i \in 1..m
       PROVE  /\ c[t[i]] # None
              /\ c[t[i]].prev = IF i = 1 THEN None ELSE t[i - 1]
              /\ c[t[i]].next = IF i = m THEN None ELSE t[i + 1]
  <2>1. CASE i < k
    <3>0. i \in 1..n /\ i # k /\ t[i] = s[i] /\ i # k + 1 /\ (i # 1 => t[i - 1] = s[i - 1])
      BY <2>1, <1>11
    <3>a. ASSUME i = k - 1 PROVE (IF i = m THEN None ELSE t[i + 1]) = nx
      <4>1. i = m <=> k = n
        BY <3>a, <1>11
      <4>2. i # m => t[i + 1] = s[k + 1]
        BY <3>a, <1>11
      <4> QED
        BY <4>1, <4>2, <1>4
    <3>b. ASSUME i # k - 1 PROVE i # m /\ t[i + 1] = s[i + 1] /\ i # n
      BY <3>b, <2>1, <1>11
    <3>1. /\ i \in 1..n /\ i # k /\ t[i] = s[i] /\ i # k + 1
          /\ i # 1 => t[i - 1] = s[i - 1]
          /\ i = k - 1 => (IF i = m THEN None ELSE t[i + 1]) = nx
          /\ i # k - 1 => i # m /\ t[i + 1] = s[i + 1] /\ i # n
      BY <3>0, <3>a, <3>b
    <3>2. /\ b[s[i]].prev = IF i = 1 THEN None ELSE s[i - 1]
          /\ b[s[i]].next = IF i = n THEN None ELSE s[i + 1]
      BY <3>1, <1>1 DEF Chain
    <3> QED
      BY <3>1, <3>2, <1>10
  <2>2. CASE ~(i < k)
    <3> DEFINE u == i + 1
    <3>0. /\ u \in 1..n /\ u # k /\ t[i] = s[u] /\ u # k - 1
          /\ i = m <=> u = n
          /\ i # m => t[i + 1] = s[u + 1]
      BY <2>2, <1>11
    <3>a. ASSUME u = k + 1 PROVE (IF i = 1 THEN None ELSE t[i - 1]) = pv
      <4>1. i = k /\ (i # 1 => t[i - 1] = s[k - 1])
        BY <3>a, <1>11
      <4> QED
        BY <4>1, <1>4
    <3>b. ASSUME u # k + 1 PROVE i # 1 /\ t[i - 1] = s[u - 1] /\ u # 1
      BY <3>b, <2>2, <1>11
    <3>1. /\ u \in 1..n /\ u # k /\ t[i] = s[u] /\ u # k - 1
          /\ i = m <=> u = n
          /\ i # m => t[i + 1] = s[u + 1]
          /\ u = k + 1 => (IF i = 1 THEN None ELSE t[i - 1]) = pv
          /\ u # k + 1 => i # 1 /\ t[i - 1] = s[u - 1] /\ u # 1
      BY <3>0, <3>a, <3>b
    <3>2. /\ b[s[u]].prev = IF u = 1 THEN None ELSE s[u - 1]
          /\ b[s[u]].next = IF u = n THEN None ELSE s[u + 1]
      BY <3>1, <1>1 DEF Chain
    <3> HIDE DEF u
    <3> QED
      BY <3>1, <3>2, <1>10
  <2> QED
    BY <2>1, <2>2
<1>15. Chain(c, first, m, t)
  BY <1>12, <1>13, <1>14 DEF Chain
<1>16. T \ {r} = {t[i] : i \in 1..m}
  <2>1. ASSUME NEW q \in T \ {r} PROVE \E i \in 1..m : q = t[i]
    <3>1. PICK u \in 1..n : q = s[u]
      BY <1>1
    <3>2. u # k
      BY <3>1, <1>2
    <3>3. CASE u < k
      BY <3>1, <3>3, <1>11
    <3>4. CASE u > k
      <4>1. u - 1 \in 1..m /\ t[u - 1] = s[u]
        BY <3>4, <1>11
      <4> QED
        BY <3>1, <4>1
    <3> QED
      BY <3>2, <3>3, <3>4
  <2>2. ASSUME NEW i \in 1..m PROVE t[i] \in T \ {r}
    <3> DEFINE u == IF i < k THEN i ELSE i + 1
    <3>1. u \in 1..n /\ u # k /\ t[i] = s[u]
      BY <1>11
    <3>2. s[u] # s[k]
      BY <3>1, <1>1 DEF Chain
    <3> QED
      BY <3>1, <3>2, <1>2, <1>3
  <2> QED
    BY <2>1, <2>2
<1>17. Strung(c, first, T \ {r})
  BY <1>11, <1>15, <1>16 DEF Strung
<1> QED
  BY <1>7, <1>8, <1>9, <1>17 DEF Unlinked, c, b1, nx, pv

\* The walk along a list, as a recursive function.
WalkStep(b, head, at, n) ==
    IF n = 0 THEN head
    ELSE IF at[n - 1] = None \/ b[at[n - 1]] = None THEN None ELSE b[at[n - 1]].next

\* Members lists the members in the order in which they are linked.
LEMMA MembersOf ==
    ASSUME NEW x, NEW head, NEW n \in Nat, NEW s \in [1..n -> Route],
           Chain(x.bdi, head, n, s)
    PROVE  Members(x, head) = s
<1> DEFINE N == Cardinality(Route)
           At == CHOOSE at : at = [i \in 0..N |-> WalkStep(x.bdi, head, at, i)]
           g == [i \in 0..N |-> IF i < n THEN s[i + 1] ELSE None]
<1>1. IsFiniteSet(Route) /\ N \in Nat /\ None \notin Route
  BY DampAssumption, FS_CardinalityType
<1>2. n <= N
  <2>1. s \in Injection(1..n, Route)
    BY DEF Chain, Injection, IsInjective
  <2>2. IsFiniteSet(1..n) /\ Cardinality(1..n) = n
    BY FS_Interval
  <2> QED
    BY <1>1, <2>1, <2>2, FS_Injection
<1>3. \A i \in 0..N : g[i] = IF i < n THEN s[i + 1] ELSE None
  OBVIOUS
<1>4. ASSUME NEW i \in 0..N PROVE g[i] = WalkStep(x.bdi, head, g, i)
  <2> HIDE DEF g, N
  <2>1. CASE i = 0
    BY <2>1, <1>1, <1>3 DEF WalkStep, Chain
  <2>2. CASE i # 0 /\ i - 1 < n
    <3>1. /\ i - 1 \in 0..N /\ i \in 1..n /\ g[i - 1] = s[i] /\ s[i] # None
          /\ i < n => g[i] = s[i + 1]
          /\ i = n => g[i] = None
      BY <2>2, <1>1, <1>2, <1>3
    <3>2. x.bdi[s[i]] # None /\ x.bdi[s[i]].next = IF i = n THEN None ELSE s[i + 1]
      BY <3>1 DEF Chain
    <3> QED
      BY <2>2, <3>1, <3>2 DEF WalkStep
  <2>3. CASE i # 0 /\ ~(i - 1 < n)
    <3>1. i - 1 \in 0..N /\ g[i - 1] = None /\ g[i] = None
      BY <2>3, <1>1, <1>2, <1>3
    <3> QED
      BY <2>3, <3>1 DEF WalkStep
  <2> QED
    BY <2>1, <2>2, <2>3
<1>5. g = [i \in 0..N |-> WalkStep(x.bdi, head, g, i)]
  BY <1>4
<1>6. At = [i \in 0..N |-> WalkStep(x.bdi, head, At, i)]
  <2> HIDE DEF g
  <2> QED
    BY <1>5
<1> HIDE DEF At, g, N
<1>7. \A i \in 0..N : At[i] = WalkStep(x.bdi, head, At, i)
  <2> DEFINE G == [i \in 0..N |-> WalkStep(x.bdi, head, At, i)]
  <2>1. \A i \in 0..N : G[i] = WalkStep(x.bdi, head, At, i)
    OBVIOUS
  <2>2. At = G
    BY <1>6
  <2> HIDE DEF G
  <2> QED
    BY <2>1, <2>2
<1>8. \A i \in 0..N : At[i] = g[i]
  <2> DEFINE I == {i \in Nat : i <= N => At[i] = g[i]}
  <2>1. 0 \in I
    BY <1>1, <1>4, <1>7 DEF WalkStep
  <2>2. ASSUME NEW i \in Nat, i \in I PROVE i + 1 \in I
    <3>1. CASE i + 1 <= N
      <4> DEFINE j == i + 1
      <4>1. At[i] = g[i] /\ j \in 0..N /\ j # 0 /\ j - 1 = i
        BY <1>1, <2>2, <3>1
      <4>2. At[j] = WalkStep(x.bdi, head, At, j) /\ g[j] = WalkStep(x.bdi, head, g, j)
        BY <4>1, <1>4, <1>7
      <4> HIDE DEF j
      <4>3. At[j] = g[j]
        BY <4>1, <4>2 DEF WalkStep
      <4> QED
        BY <4>3 DEF j
    <3>2. CASE ~(i + 1 <= N)
      BY <3>2
    <3> QED
      BY <3>1, <3>2
  <2> HIDE DEF I
  <2>3. \A i \in Nat : i \in I
    BY <2>1, <2>2, SetInduction
  <2> QED
    BY <2>3, <1>1 DEF I
<1>9. {i \in 0..N : At[i] # None} = 0..(n - 1)
  BY <1>1, <1>2, <1>3, <1>8, SMTT(20) DEF g
<1>10. Cardinality(0..(n - 1)) = n
  BY FS_Interval
<1> DEFINE t == [i \in 1..Cardinality({j \in 0..N : At[j] # None}) |-> At[i - 1]]
<1>11. Members(x, head) = t
  BY DEF Members, WalkStep, At, N
<1>12. t = [i \in 1..n |-> At[i - 1]]
  BY <1>9, <1>10
<1>13. \A i \in 1..n : At[i - 1] = s[i]
  BY <1>1, <1>2, <1>3, <1>8
<1> HIDE DEF t
<1>14. t = s
  BY <1>12, <1>13
<1> QED
  BY <1>11, <1>14

-----------------------------------------------------------------------------
(***************************************************************************)
(* The flags and the prefix count.                                         *)
(***************************************************************************)
State == [info : [Route -> Info], pc : Nat, bdi : Bdi, reuse : [List -> Pointer],
          noReuse : Pointer, offset : List]

CountedIn(x) == {q \in Route : Has(x.info[q], "COUNTED")}

\* COUNTED agrees with the use of the route.
Agree(x, q) == Has(x.info[q], "COUNTED") <=> ~HOLDDOWN(x.info[q])

\* The books are kept; r is the route that is worked on.
Tallied(x, r) ==
    /\ x.pc = Cardinality(CountedIn(x))
    /\ \A q \in Route : /\ Has(x.info[q], "VALID") => Present(x.info[q])
                        /\ q # r => Agree(x, q)

\* y is x but for the flags of r and the count.
Reflagged(x, y, r) ==
    /\ y \in State
    /\ y.bdi = x.bdi /\ y.reuse = x.reuse /\ y.noReuse = x.noReuse /\ y.offset = x.offset
    /\ \A q \in Route : q # r => y.info[q] = x.info[q]
    /\ y.info[r].attr = x.info[r].attr

LEMMA CountedInFinite ==
    ASSUME NEW x
    PROVE  IsFiniteSet(CountedIn(x)) /\ Cardinality(CountedIn(x)) \in Nat
BY DampAssumption, FS_Subset, FS_CardinalityType DEF CountedIn

\* A route can be given to the flag operators: the count covers it.
LEMMA PairCovered ==
    ASSUME NEW x \in State, NEW r \in Route, Tallied(x, r)
    PROVE  /\ Pair(x, r) \in Routes /\ Covered(Pair(x, r))
           /\ Pair(x, r).ri = x.info[r] /\ Pair(x, r).pc = x.pc
<1>1. /\ Pair(x, r) \in Routes /\ Pair(x, r).ri = x.info[r] /\ Pair(x, r).pc = x.pc
      /\ x.pc \in Nat
  BY DEF State, Pair, Routes
<1>2. CASE Has(x.info[r], "COUNTED")
  <2>1. r \in CountedIn(x)
    BY <1>2 DEF CountedIn
  <2>2. Cardinality(CountedIn(x)) # 0
    BY <2>1, CountedInFinite, FS_EmptySet
  <2> QED
    BY <1>1, <2>2, CountedInFinite DEF Tallied, Covered, Counts
<1>3. CASE ~Has(x.info[r], "COUNTED")
  BY <1>1, <1>3 DEF Covered, Counts
<1> QED
  BY <1>2, <1>3

\* Writing back a route whose count moved with its COUNTED flag.
LEMMA WrittenBack ==
    ASSUME NEW x \in State, NEW r \in Route, Tallied(x, r), NEW z, Tracks(Pair(x, r), z),
           Has(z.ri, "VALID") => Present(z.ri)
    PROVE  LET y == Flagged(x, r, z)
           IN  Reflagged(x, y, r) /\ y.info[r] = z.ri /\ Tallied(y, r)
<1> DEFINE y == Flagged(x, r, z)
<1>1. /\ z \in Routes /\ z.ri \in Info /\ z.pc \in Nat /\ z.ri.attr = x.info[r].attr
      /\ z.pc - Counts(z.ri) = x.pc - Counts(x.info[r]) /\ x.pc \in Nat
  BY PairCovered DEF Tracks, Routes, State
<1> DEFINE i == [x.info EXCEPT ![r] = z.ri]
<1>3. i \in [Route -> Info] /\ i[r] = z.ri /\ \A q \in Route : q # r => i[q] = x.info[q]
  BY <1>1 DEF State
<1>4. /\ y \in State /\ y.info = i /\ y.pc = z.pc
      /\ y.bdi = x.bdi /\ y.reuse = x.reuse /\ y.noReuse = x.noReuse /\ y.offset = x.offset
  BY <1>1, <1>3 DEF Flagged, State
<1> HIDE DEF y, i
<1>5. y.pc = Cardinality(CountedIn(y))
  <2>1. CountedIn(y) = IF Has(z.ri, "COUNTED") THEN CountedIn(x) \cup {r}
                                               ELSE CountedIn(x) \ {r}
    BY <1>3, <1>4 DEF CountedIn
  <2>2. r \in CountedIn(x) <=> Has(x.info[r], "COUNTED")
    BY DEF CountedIn
  <2>3. x.pc = Cardinality(CountedIn(x))
    BY DEF Tallied
  <2>4. CASE Has(z.ri, "COUNTED")
    <3>1. Cardinality(CountedIn(y)) = IF Has(x.info[r], "COUNTED")
              THEN Cardinality(CountedIn(x)) ELSE Cardinality(CountedIn(x)) + 1
      BY <2>1, <2>2, <2>4, CountedInFinite, FS_AddElement
    <3> QED
      BY <1>1, <1>4, <2>3, <2>4, <3>1 DEF Counts
  <2>5. CASE ~Has(z.ri, "COUNTED")
    <3>1. Cardinality(CountedIn(y)) = IF Has(x.info[r], "COUNTED")
              THEN Cardinality(CountedIn(x)) - 1 ELSE Cardinality(CountedIn(x))
      BY <2>1, <2>2, <2>5, CountedInFinite, FS_RemoveElement
    <3> QED
      BY <1>1, <1>4, <2>3, <2>5, <3>1 DEF Counts
  <2> QED
    BY <2>4, <2>5
<1>6. Tallied(y, r)
  BY <1>3, <1>4, <1>5 DEF Tallied, Agree
<1>7. Reflagged(x, y, r)
  BY <1>1, <1>3, <1>4 DEF Reflagged
<1> QED
  BY <1>3, <1>4, <1>6, <1>7 DEF y

\* The flags of r other than f and COUNTED.
OtherFlags(x, y, r, f) ==
    \A g \in Flag \ {"COUNTED", f} : Has(y.info[r], g) <=> Has(x.info[r], g)

LEMMA SetFlagTallied ==
    ASSUME NEW x \in State, NEW r \in Route, Tallied(x, r), NEW f \in Flag \ {"COUNTED"},
           f = "VALID" => Present(x.info[r])
    PROVE  LET y == SetFlag(x, r, f)
           IN  /\ Reflagged(x, y, r) /\ Tallied(y, r) /\ Has(y.info[r], f)
               /\ OtherFlags(x, y, r, f)
               /\ f \in Deciding \/ Agree(x, r) => Agree(y, r)
<1> DEFINE p == Pair(x, r)
           z == bgp_info_set_flag(p, f)
           y == Flagged(x, r, z)
<1>1. p \in Routes /\ Covered(p) /\ p.ri = x.info[r]
  BY PairCovered
<1>2. /\ Tracks(p, z) /\ Has(z.ri, f)
      /\ \A g \in Flag \ {"COUNTED", f} : Has(z.ri, g) <=> Has(p.ri, g)
      /\ f \in Deciding => (Has(z.ri, "COUNTED") <=> ~HOLDDOWN(z.ri))
      /\ f \notin Deciding => (Has(z.ri, "COUNTED") <=> Has(p.ri, "COUNTED"))
  BY <1>1, FlagSet
<1> HIDE DEF z
<1>3. Has(z.ri, "VALID") => Present(z.ri)
  <2>1. z.ri.attr = x.info[r].attr
    BY <1>1, <1>2 DEF Tracks
  <2>2. Has(x.info[r], "VALID") => Present(x.info[r])
    BY DEF Tallied
  <2>3. f # "VALID" => (Has(z.ri, "VALID") <=> Has(x.info[r], "VALID"))
    BY <1>1, <1>2 DEF Flag
  <2> QED
    BY <2>1, <2>2, <2>3 DEF Present
<1>4. Reflagged(x, y, r) /\ y.info[r] = z.ri /\ Tallied(y, r)
  BY <1>2, <1>3, WrittenBack
<1> HIDE DEF y
<1>5. OtherFlags(x, y, r, f)
  BY <1>1, <1>2, <1>4 DEF OtherFlags
<1>6. f \in Deciding \/ Agree(x, r) => Agree(y, r)
  <2>1. CASE f \in Deciding
    BY <2>1, <1>2, <1>4 DEF Agree
  <2>2. CASE f \notin Deciding
    <3>1. \A g \in Deciding : Has(z.ri, g) <=> Has(x.info[r], g)
      BY <2>2, <1>1, <1>2 DEF Deciding, UNUSEABLE, Flag
    <3>2. HOLDDOWN(z.ri) <=> HOLDDOWN(x.info[r])
      BY <3>1 DEF Deciding, UNUSEABLE, HOLDDOWN, Has
    <3> QED
      BY <2>2, <3>2, <1>1, <1>2, <1>4 DEF Agree
  <2> QED
    BY <2>1, <2>2
<1> QED
  BY <1>2, <1>4, <1>5, <1>6 DEF SetFlag, y, z

LEMMA UnsetFlagTallied ==
    ASSUME NEW x \in State, NEW r \in Route, Tallied(x, r), NEW f \in Flag \ {"COUNTED"}
    PROVE  LET y == UnsetFlag(x, r, f)
           IN  /\ Reflagged(x, y, r) /\ Tallied(y, r) /\ ~Has(y.info[r], f)
               /\ OtherFlags(x, y, r, f)
               /\ f \in Deciding \/ Agree(x, r) => Agree(y, r)
<1> DEFINE p == Pair(x, r)
           z == bgp_info_unset_flag(p, f)
           y == Flagged(x, r, z)
<1>1. p \in Routes /\ Covered(p) /\ p.ri = x.info[r]
  BY PairCovered
<1>2. /\ Tracks(p, z) /\ ~Has(z.ri, f)
      /\ \A g \in Flag \ {"COUNTED", f} : Has(z.ri, g) <=> Has(p.ri, g)
      /\ f \in Deciding => (Has(z.ri, "COUNTED") <=> ~HOLDDOWN(z.ri))
      /\ f \notin Deciding => (Has(z.ri, "COUNTED") <=> Has(p.ri, "COUNTED"))
  BY <1>1, FlagUnset
<1> HIDE DEF z
<1>3. Has(z.ri, "VALID") => Present(z.ri)
  <2>1. z.ri.attr = x.info[r].attr
    BY <1>1, <1>2 DEF Tracks
  <2>2. Has(x.info[r], "VALID") => Present(x.info[r])
    BY DEF Tallied
  <2>3. Has(z.ri, "VALID") => Has(x.info[r], "VALID")
    BY <1>1, <1>2 DEF Flag
  <2> QED
    BY <2>1, <2>2, <2>3 DEF Present
<1>4. Reflagged(x, y, r) /\ y.info[r] = z.ri /\ Tallied(y, r)
  BY <1>2, <1>3, WrittenBack
<1> HIDE DEF y
<1>5. OtherFlags(x, y, r, f)
  BY <1>1, <1>2, <1>4 DEF OtherFlags
<1>6. f \in Deciding \/ Agree(x, r) => Agree(y, r)
  <2>1. CASE f \in Deciding
    BY <2>1, <1>2, <1>4 DEF Agree
  <2>2. CASE f \notin Deciding
    <3>1. \A g \in Deciding : Has(z.ri, g) <=> Has(x.info[r], g)
      BY <2>2, <1>1, <1>2 DEF Deciding, UNUSEABLE, Flag
    <3>2. HOLDDOWN(z.ri) <=> HOLDDOWN(x.info[r])
      BY <3>1 DEF Deciding, UNUSEABLE, HOLDDOWN, Has
    <3> QED
      BY <2>2, <3>2, <1>1, <1>2, <1>4 DEF Agree
  <2> QED
    BY <2>1, <2>2
<1> QED
  BY <1>2, <1>4, <1>5, <1>6 DEF UnsetFlag, y, z

\* bgp_info_delete: HISTORY and DAMPED stay as they are.
LEMMA DeleteTallied ==
    ASSUME NEW x \in State, NEW r \in Route, Tallied(x, r)
    PROVE  LET y == Flagged(x, r, bgp_info_delete(Pair(x, r)))
           IN  /\ Reflagged(x, y, r) /\ Tallied(y, r) /\ Agree(y, r)
               /\ \A g \in {"HISTORY", "DAMPED"} : Has(y.info[r], g) <=> Has(x.info[r], g)
<1> DEFINE p == Pair(x, r)
           z == bgp_info_delete(p)
           y == Flagged(x, r, z)
<1>1. p \in Routes /\ Covered(p) /\ p.ri = x.info[r]
  BY PairCovered
<1>2. /\ Tracks(p, z) /\ Has(z.ri, "REMOVED") /\ ~Has(z.ri, "VALID") /\ ~Has(z.ri, "COUNTED")
      /\ \A g \in Flag \ {"COUNTED", "REMOVED", "VALID"} : Has(z.ri, g) <=> Has(p.ri, g)
  BY <1>1, Deleted
<1> HIDE DEF z
<1>3. Reflagged(x, y, r) /\ y.info[r] = z.ri /\ Tallied(y, r)
  BY <1>2, WrittenBack
<1> HIDE DEF y
<1>4. Agree(y, r)
  BY <1>2, <1>3 DEF Agree, HOLDDOWN
<1>5. \A g \in {"HISTORY", "DAMPED"} : Has(y.info[r], g) <=> Has(x.info[r], g)
  BY <1>1, <1>2, <1>3 DEF Flag
<1> QED
  BY <1>3, <1>4, <1>5 DEF y, z

\* bgp_info_restore leaves COUNTED to the flag operation that follows.
LEMMA RestoreTallied ==
    ASSUME NEW x \in State, NEW r \in Route, Tallied(x, r), Present(x.info[r])
    PROVE  LET y == Flagged(x, r, bgp_info_restore(Pair(x, r)))
           IN  /\ Reflagged(x, y, r) /\ Tallied(y, r)
               /\ \A g \in {"HISTORY", "DAMPED"} : Has(y.info[r], g) <=> Has(x.info[r], g)
<1> DEFINE p == Pair(x, r)
           z == bgp_info_restore(p)
           y == Flagged(x, r, z)
<1>1. p \in Routes /\ Covered(p) /\ p.ri = x.info[r]
  BY PairCovered
<1>2. /\ Tracks(p, z)
      /\ \A g \in Flag \ {"COUNTED", "REMOVED", "VALID"} : Has(z.ri, g) <=> Has(p.ri, g)
  BY <1>1, Restored
<1> HIDE DEF z
<1>3. Present(z.ri)
  BY <1>1, <1>2 DEF Tracks, Present
<1>4. Reflagged(x, y, r) /\ y.info[r] = z.ri /\ Tallied(y, r)
  BY <1>2, <1>3, WrittenBack
<1> HIDE DEF y
<1>5. \A g \in {"HISTORY", "DAMPED"} : Has(y.info[r], g) <=> Has(x.info[r], g)
  BY <1>1, <1>2, <1>4 DEF Flag
<1> QED
  BY <1>4, <1>5 DEF y, z

-----------------------------------------------------------------------------
(***************************************************************************)
(* The lists of a state.  While a route r is worked on it is on the list k *)
(* (Nowhere: on none), whatever its flags and its index say; the routes of *)
(* P wait to be worked on and are on none.                                 *)
(***************************************************************************)
NoReuse == -1
Nowhere == -2
AnyList == List \cup {NoReuse}

HeadOf(x, j) == IF j = NoReuse THEN x.noReuse ELSE x.reuse[j]

\* The list that a bgp_damp_info belongs on.
Where(x, q) == IF Damped(x, q) THEN x.bdi[q].index ELSE NoReuse

On(x, j) == {q \in Route : x.bdi[q] # None /\ Where(x, q) = j}

Part(x, r, k, P, j) == (On(x, j) \ (P \cup {r})) \cup {q \in {r} : j = k}

Lists(x, r, k, P) ==
    \A j \in AnyList : Strung(x.bdi, HeadOf(x, j), Part(x, r, k, P, j))

\* No route is being worked on.
ListsOf(x, P) == \A j \in AnyList : Strung(x.bdi, HeadOf(x, j), On(x, j) \ P)

\* The other routes belong on the same lists.
SamePlaces(x, y, r) ==
    \A q \in Route : q # r => /\ Has(y.info[q], "DAMPED") <=> Has(x.info[q], "DAMPED")
                              /\ SameData(x.bdi[q], y.bdi[q])

LEMMA SamePart ==
    ASSUME NEW x, NEW y, NEW r, NEW k, NEW P, NEW j, SamePlaces(x, y, r)
    PROVE  Part(y, r, k, P, j) = Part(x, r, k, P, j)
<1>1. ASSUME NEW q \in Route, q # r PROVE q \in On(y, j) <=> q \in On(x, j)
  BY <1>1 DEF SamePlaces, SameData, On, Where, Damped
<1> QED
  BY <1>1 DEF Part, On

\* Two lists have no member in common.
LEMMA PartsDisjoint ==
    ASSUME NEW x, NEW r, NEW k, NEW P, NEW i, NEW j, i # j, NEW q \in Part(x, r, k, P, i)
    PROVE  q \notin Part(x, r, k, P, j)
BY DEF Part, On

\* Work on a route begins and ends.
LEMMA WorkBegins ==
    ASSUME NEW x, NEW P, ListsOf(x, P), NEW r \in Route, r \notin P
    PROVE  /\ x.bdi[r] # None => Lists(x, r, Where(x, r), P)
           /\ x.bdi[r] = None => Lists(x, r, Nowhere, P)
<1>1. ASSUME NEW j \in AnyList, x.bdi[r] # None
      PROVE  Part(x, r, Where(x, r), P, j) = On(x, j) \ P
  BY <1>1 DEF Part, On
<1>2. ASSUME NEW j \in AnyList, x.bdi[r] = None
      PROVE  Part(x, r, Nowhere, P, j) = On(x, j) \ P
  <2>1. j # Nowhere
    BY DampAssumption DEF AnyList, List, NoReuse, Nowhere
  <2> QED
    BY <1>2, <2>1 DEF Part, On
<1> QED
  BY <1>1, <1>2 DEF Lists, ListsOf

LEMMA NextWaiting ==
    ASSUME NEW x, NEW P, ListsOf(x, P), NEW r \in P
    PROVE  Lists(x, r, Nowhere, P \ {r})
<1>1. ASSUME NEW j \in AnyList PROVE Part(x, r, Nowhere, P \ {r}, j) = On(x, j) \ P
  <2>1. j # Nowhere
    BY DampAssumption DEF AnyList, List, NoReuse, Nowhere
  <2> QED
    BY <2>1 DEF Part
<1> QED
  BY <1>1 DEF Lists, ListsOf

LEMMA WorkEnds ==
    ASSUME NEW x, NEW P, NEW r \in Route, r \notin P, NEW k, Lists(x, r, k, P),
           IF x.bdi[r] = None THEN k = Nowhere ELSE k = Where(x, r)
    PROVE  ListsOf(x, P)
<1>1. ASSUME NEW j \in AnyList PROVE Part(x, r, k, P, j) = On(x, j) \ P
  <2>1. j # Nowhere
    BY DampAssumption DEF AnyList, List, NoReuse, Nowhere
  <2>2. CASE x.bdi[r] = None
    BY <2>1, <2>2 DEF Part, On
  <2>3. CASE x.bdi[r] # None
    BY <2>3 DEF Part, On
  <2> QED
    BY <2>2, <2>3
<1> QED
  BY <1>1 DEF Lists, ListsOf

\* A change of r that leaves its links alone, or that of a route on no list.
LEMMA ListsKept ==
    ASSUME NEW x, NEW y, NEW r, NEW k, NEW P, Lists(x, r, k, P),
           y.reuse = x.reuse, y.noReuse = x.noReuse,
           \A q \in Route : q # r => y.bdi[q] = x.bdi[q] /\ y.info[q] = x.info[q],
           k # Nowhere => /\ y.bdi[r] # None /\ y.bdi[r].next = x.bdi[r].next
                          /\ y.bdi[r].prev = x.bdi[r].prev
    PROVE  Lists(y, r, k, P)
<1>1. SamePlaces(x, y, r)
  BY DEF SamePlaces, SameData
<1>2. ASSUME NEW j \in AnyList PROVE Strung(y.bdi, HeadOf(y, j), Part(y, r, k, P, j))
  <2> DEFINE T == Part(x, r, k, P, j)
             b == x.bdi
             c == y.bdi
             h == HeadOf(x, j)
  <2>1. Part(y, r, k, P, j) = T /\ HeadOf(y, j) = h
    BY <1>1, SamePart DEF HeadOf
  <2>2. Strung(b, h, T)
    BY DEF Lists
  <2>3. j # Nowhere
    BY DampAssumption DEF AnyList, List, NoReuse, Nowhere
  <2>4. r \in T => k # Nowhere
    BY <2>3 DEF Part
  <2>5. T \subseteq Route /\ \A q \in T : b[q] # None
    BY <2>2, Unstrung
  <2>6. \A q \in T : c[q] # None /\ c[q].next = b[q].next /\ c[q].prev = b[q].prev
    BY <2>4, <2>5
  <2> HIDE DEF T, b, c, h
  <2>7. Strung(c, h, T)
    BY <2>2, <2>6, StrungFrame
  <2> QED
    BY <2>1, <2>7 DEF c
<1> QED
  BY <1>2 DEF Lists

\* y is x with other links.
Relinked(x, y) ==
    /\ y \in State
    /\ y.info = x.info /\ y.pc = x.pc /\ y.offset = x.offset
    /\ \A q \in Route : SameData(x.bdi[q], y.bdi[q])

\* A route that is on no list is put in front of the list k.
LEMMA ListsPushed ==
    ASSUME NEW x, NEW y, NEW r \in Route, NEW k \in AnyList, NEW P,
           x.bdi \in Bdi, Lists(x, r, Nowhere, P), x.bdi[r] # None,
           y.bdi = Pushed(x.bdi, r, HeadOf(x, k)), y.info = x.info,
           \A j \in AnyList : HeadOf(y, j) = IF j = k THEN r ELSE HeadOf(x, j)
    PROVE  /\ y.bdi \in Bdi
           /\ \A q \in Route : SameData(x.bdi[q], y.bdi[q])
           /\ Lists(y, r, k, P)
<1> DEFINE T == Part(x, r, Nowhere, P, k)
           b == x.bdi
           h == HeadOf(x, k)
           c == Pushed(b, r, h)
<1>1. Strung(b, h, T)
  BY DEF Lists
<1>2. r \notin T /\ \A j \in AnyList : j # Nowhere
  BY DampAssumption DEF Part, AnyList, List, NoReuse, Nowhere
<1>3. b \in Bdi /\ b[r] # None
  OBVIOUS
<1>4. y.bdi = c
  OBVIOUS
<1> HIDE DEF T, b, h
<1>5. /\ c \in Bdi /\ (\A q \in Route : SameData(b[q], c[q]))
      /\ (\A q \in Route : q \notin T \cup {r} => c[q] = b[q])
      /\ Strung(c, r, T \cup {r})
  BY <1>1, <1>2, <1>3, StrungPushed, SMTT(30)
<1> HIDE DEF c
<1>6. SamePlaces(x, y, r)
  BY <1>4, <1>5 DEF SamePlaces, b
<1>7. ASSUME NEW j \in AnyList PROVE Strung(c, HeadOf(y, j), Part(y, r, k, P, j))
  <2> DEFINE U == Part(x, r, Nowhere, P, j)
             g == HeadOf(x, j)
  <2>1. Part(y, r, k, P, j) = Part(x, r, k, P, j)
    BY <1>6, SamePart
  <2>2. CASE j = k
    <3>1. Part(x, r, k, P, j) = T \cup {r}
      BY <2>2, <1>2 DEF Part, T
    <3> QED
      BY <2>1, <2>2, <3>1, <1>5
  <2>3. CASE j # k
    <3>1. Part(x, r, k, P, j) = U
      BY <2>3, <1>2 DEF Part
    <3>2. Strung(b, g, U)
      BY DEF Lists, b
    <3>3. ASSUME NEW q \in U PROVE c[q] = b[q] /\ b[q] # None
      <4>1. q \in Route /\ b[q] # None
        BY <3>2, Unstrung
      <4>2. q \notin T
        BY <2>3, PartsDisjoint DEF T
      <4>3. q # r
        BY <1>2 DEF Part
      <4> QED
        BY <4>1, <4>2, <4>3, <1>5
    <3> HIDE DEF U, g
    <3>4. Strung(c, g, U)
      BY <3>2, <3>3, StrungFrame
    <3> QED
      BY <2>1, <2>3, <3>1, <3>4 DEF g
  <2> QED
    BY <2>2, <2>3
<1>8. Lists(y, r, k, P)
  BY <1>4, <1>7 DEF Lists
<1> QED
  BY <1>4, <1>5, <1>8 DEF b

\* A route is taken out of the list k.
LEMMA ListsUnlinked ==
    ASSUME NEW x, NEW y, NEW r \in Route, NEW k \in AnyList, NEW P,
           x.bdi \in Bdi, Lists(x, r, k, P),
           y.bdi = Unlinked(x.bdi, r), y.info = x.info,
           \A j \in AnyList :
               HeadOf(y, j) = IF j = k /\ x.bdi[r].prev = None THEN x.bdi[r].next
                              ELSE HeadOf(x, j)
    PROVE  /\ y.bdi \in Bdi
           /\ \A q \in Route : SameData(x.bdi[q], y.bdi[q])
           /\ Lists(y, r, Nowhere, P)
<1> DEFINE T == Part(x, r, k, P, k)
           b == x.bdi
           h == HeadOf(x, k)
           c == Unlinked(b, r)
           f == IF b[r].prev = None THEN b[r].next ELSE h
<1>1. Strung(b, h, T)
  BY DEF Lists
<1>2. r \in T /\ \A j \in AnyList : j # Nowhere
  BY DampAssumption DEF Part, AnyList, List, NoReuse, Nowhere
<1>3. b \in Bdi
  OBVIOUS
<1>4. y.bdi = c /\ HeadOf(y, k) = f /\ \A j \in AnyList : j # k => HeadOf(y, j) = HeadOf(x, j)
  OBVIOUS
<1>41. f = IF b[r].prev = None THEN b[r].next ELSE h
  OBVIOUS
<1> HIDE DEF T, b, h, f
<1>5. /\ c \in Bdi /\ (\A q \in Route : SameData(b[q], c[q]))
      /\ (\A q \in Route : q \notin T => c[q] = b[q])
      /\ Strung(c, f, T \ {r})
  BY <1>1, <1>2, <1>3, <1>41, StrungUnlinked
<1> HIDE DEF c
<1>6. SamePlaces(x, y, r)
  BY <1>4, <1>5 DEF SamePlaces, b
<1>7. ASSUME NEW j \in AnyList PROVE Strung(c, HeadOf(y, j), Part(y, r, Nowhere, P, j))
  <2> DEFINE U == Part(x, r, k, P, j)
             g == HeadOf(x, j)
  <2>1. Part(y, r, Nowhere, P, j) = Part(x, r, Nowhere, P, j)
    BY <1>6, SamePart
  <2>2. CASE j = k
    <3>1. Part(x, r, Nowhere, P, j) = T \ {r}
      BY <2>2, <1>2 DEF Part, T
    <3> QED
      BY <2>1, <2>2, <3>1, <1>4, <1>5
  <2>3. CASE j # k
    <3>1. Part(x, r, Nowhere, P, j) = U
      BY <2>3, <1>2 DEF Part
    <3>2. Strung(b, g, U)
      BY DEF Lists, b
    <3>3. ASSUME NEW q \in U PROVE c[q] = b[q] /\ b[q] # None
      <4>1. q \in Route /\ b[q] # None
        BY <3>2, Unstrung
      <4>2. q \notin T
        BY <2>3, PartsDisjoint DEF T
      <4> QED
        BY <4>1, <4>2, <1>5
    <3> HIDE DEF U, g
    <3>4. Strung(c, g, U)
      BY <3>2, <3>3, StrungFrame
    <3> QED
      BY <2>1, <2>3, <3>1, <3>4, <1>4 DEF g
  <2> QED
    BY <2>2, <2>3
<1>8. Lists(y, r, Nowhere, P)
  BY <1>4, <1>7 DEF Lists
<1> QED
  BY <1>4, <1>5, <1>8 DEF b

-----------------------------------------------------------------------------
(***************************************************************************)
(* The steps of which the functions of bgp_damp.c are made, on a route r   *)
(* that is on the list k.                                                  *)
(***************************************************************************)
Mid(x, r, k, P) ==
    x \in State /\ Tallied(x, r) /\ Lists(x, r, k, P) /\ (k # Nowhere => x.bdi[r] # None)

\* The other routes keep their flags and, but for the links, their bgp_damp_info.
Others(x, y, r) ==
    /\ y.offset = x.offset
    /\ \A q \in Route : q # r => y.info[q] = x.info[q] /\ SameData(x.bdi[q], y.bdi[q])

SameHeads(x, y) == y.reuse = x.reuse /\ y.noReuse = x.noReuse

LEMMA OthersTrans ==
    ASSUME NEW x, NEW y, NEW z, NEW r, Others(x, y, r), Others(y, z, r)
    PROVE  Others(x, z, r)
BY DEF Others, SameData

\* One more flag of r, or one less.
LEMMA MidFlagged ==
    ASSUME NEW x, NEW y, NEW r, NEW k, NEW P, Mid(x, r, k, P), Reflagged(x, y, r), Tallied(y, r)
    PROVE  Mid(y, r, k, P) /\ Others(x, y, r) /\ SameHeads(x, y) /\ y.bdi = x.bdi
<1>1. Lists(y, r, k, P)
  BY ListsKept DEF Mid, Reflagged
<1> QED
  BY <1>1 DEF Mid, Reflagged, Others, SameHeads, SameData

LEMMA MidSet ==
    ASSUME NEW x, NEW r \in Route, NEW k, NEW P, Mid(x, r, k, P),
           NEW f \in Flag \ {"COUNTED"}, f = "VALID" => Present(x.info[r])
    PROVE  LET y == SetFlag(x, r, f)
           IN  /\ Mid(y, r, k, P) /\ Others(x, y, r) /\ SameHeads(x, y) /\ y.bdi = x.bdi
               /\ Has(y.info[r], f) /\ OtherFlags(x, y, r, f)
               /\ y.info[r].attr = x.info[r].attr
               /\ f \in Deciding \/ Agree(x, r) => Agree(y, r)
<1> DEFINE y == SetFlag(x, r, f)
<1>1. /\ Reflagged(x, y, r) /\ Tallied(y, r) /\ Has(y.info[r], f) /\ OtherFlags(x, y, r, f)
      /\ f \in Deciding \/ Agree(x, r) => Agree(y, r)
  BY SetFlagTallied DEF Mid
<1> HIDE DEF y
<1>2. Mid(y, r, k, P) /\ Others(x, y, r) /\ SameHeads(x, y) /\ y.bdi = x.bdi
  BY <1>1, MidFlagged
<1> QED
  BY <1>1, <1>2 DEF y, Reflagged

LEMMA MidUnset ==
    ASSUME NEW x, NEW r \in Route, NEW k, NEW P, Mid(x, r, k, P),
           NEW f \in Flag \ {"COUNTED"}
    PROVE  LET y == UnsetFlag(x, r, f)
           IN  /\ Mid(y, r, k, P) /\ Others(x, y, r) /\ SameHeads(x, y) /\ y.bdi = x.bdi
               /\ ~Has(y.info[r], f) /\ OtherFlags(x, y, r, f)
               /\ y.info[r].attr = x.info[r].attr
               /\ f \in Deciding \/ Agree(x, r) => Agree(y, r)
<1> DEFINE y == UnsetFlag(x, r, f)
<1>1. /\ Reflagged(x, y, r) /\ Tallied(y, r) /\ ~Has(y.info[r], f) /\ OtherFlags(x, y, r, f)
      /\ f \in Deciding \/ Agree(x, r) => Agree(y, r)
  BY UnsetFlagTallied DEF Mid
<1> HIDE DEF y
<1>2. Mid(y, r, k, P) /\ Others(x, y, r) /\ SameHeads(x, y) /\ y.bdi = x.bdi
  BY <1>1, MidFlagged
<1> QED
  BY <1>1, <1>2 DEF y, Reflagged

\* The bgp_damp_info of r gets other values, not other links; it may appear
\* and disappear while it is on no list.
LEMMA MidData ==
    ASSUME NEW x, NEW r \in Route, NEW k, NEW P, Mid(x, r, k, P),
           NEW d \in DampInfo \cup {None},
           k # Nowhere => d # None /\ d.next = x.bdi[r].next /\ d.prev = x.bdi[r].prev
    PROVE  LET y == [x EXCEPT !.bdi[r] = d]
           IN  /\ Mid(y, r, k, P) /\ Others(x, y, r) /\ SameHeads(x, y)
               /\ y.info = x.info /\ y.bdi[r] = d
<1> DEFINE c == [x.bdi EXCEPT ![r] = d]
           y == [x EXCEPT !.bdi[r] = d]
<1>1. x \in State /\ x.bdi \in Bdi
  BY DEF Mid, State
<1>2. c \in Bdi /\ c[r] = d /\ \A q \in Route : q # r => c[q] = x.bdi[q]
  BY <1>1 DEF Bdi
<1>3. /\ y \in State /\ y.info = x.info /\ y.pc = x.pc /\ y.bdi = c
      /\ y.reuse = x.reuse /\ y.noReuse = x.noReuse /\ y.offset = x.offset
  BY <1>1, <1>2 DEF State
<1> HIDE DEF y, c
<1>4. Lists(x, r, k, P) /\ \A q \in Route : q # r => y.bdi[q] = x.bdi[q] /\ y.info[q] = x.info[q]
  BY <1>2, <1>3 DEF Mid
<1>5. k # Nowhere => /\ y.bdi[r] # None /\ y.bdi[r].next = x.bdi[r].next
                     /\ y.bdi[r].prev = x.bdi[r].prev
  BY <1>2, <1>3
<1>6. Lists(y, r, k, P)
  BY <1>3, <1>4, <1>5, ListsKept
<1>7. Tallied(y, r)
  BY <1>3 DEF Mid, Tallied, CountedIn, Agree
<1> QED
  BY <1>2, <1>3, <1>4, <1>5, <1>6, <1>7 DEF Mid, Others, SameHeads, SameData, y

LEMMA MidRelinked ==
    ASSUME NEW x, NEW y, NEW r \in Route, NEW k, NEW j, NEW P, Mid(x, r, k, P), Relinked(x, y),
           Lists(y, r, j, P), x.bdi[r] # None
    PROVE  Mid(y, r, j, P) /\ Others(x, y, r)
<1>1. Tallied(y, r)
  BY DEF Mid, Relinked, Tallied, CountedIn, Agree
<1> QED
  BY <1>1 DEF Mid, Relinked, Others, SameData

LEMMA MidAdd ==
    ASSUME NEW x, NEW r \in Route, NEW P, Mid(x, r, Nowhere, P), x.bdi[r] # None
    PROVE  LET y == BGP_DAMP_LIST_ADD(x, r)
           IN  /\ Mid(y, r, NoReuse, P) /\ Others(x, y, r) /\ y.reuse = x.reuse
               /\ y.info = x.info /\ SameData(x.bdi[r], y.bdi[r])
<1> DEFINE y == BGP_DAMP_LIST_ADD(x, r)
           c == Pushed(x.bdi, r, x.noReuse)
           k == NoReuse
<1>1. x \in State /\ x.bdi \in Bdi /\ Lists(x, r, Nowhere, P) /\ k \in AnyList
      /\ HeadOf(x, k) = x.noReuse
  BY DEF Mid, State, AnyList, HeadOf
<1>2. /\ y.info = x.info /\ y.bdi = c /\ y.reuse = x.reuse /\ y.noReuse = r
      /\ y.pc = x.pc /\ y.offset = x.offset
  BY <1>1 DEF BGP_DAMP_LIST_ADD, State
<1>3. \A j \in AnyList : HeadOf(y, j) = IF j = k THEN r ELSE HeadOf(x, j)
  BY <1>2 DEF HeadOf
<1>4. y.bdi = Pushed(x.bdi, r, HeadOf(x, k))
  BY <1>1, <1>2
<1>5. y.bdi \in Bdi => y \in State
  BY <1>1, <1>2 DEF BGP_DAMP_LIST_ADD, State, Pointer
<1> HIDE DEF y, c, k
<1>6. /\ y.bdi \in Bdi /\ (\A q \in Route : SameData(x.bdi[q], y.bdi[q]))
      /\ Lists(y, r, k, P)
  BY <1>1, <1>2, <1>3, <1>4, ListsPushed
<1>7. Relinked(x, y)
  BY <1>2, <1>5, <1>6 DEF Relinked
<1>8. Mid(y, r, k, P) /\ Others(x, y, r)
  BY <1>6, <1>7, MidRelinked
<1> QED
  BY <1>2, <1>6, <1>8 DEF y, k

LEMMA MidDel ==
    ASSUME NEW x, NEW r \in Route, NEW P, Mid(x, r, NoReuse, P)
    PROVE  LET y == BGP_DAMP_LIST_DEL(x, r)
           IN  /\ Mid(y, r, Nowhere, P) /\ Others(x, y, r) /\ y.reuse = x.reuse
               /\ y.info = x.info /\ SameData(x.bdi[r], y.bdi[r])
<1> DEFINE y == BGP_DAMP_LIST_DEL(x, r)
           c == Unlinked(x.bdi, r)
           k == NoReuse
           h == IF x.bdi[r].prev = None THEN x.bdi[r].next ELSE x.noReuse
<1>1. /\ x \in State /\ x.bdi \in Bdi /\ Lists(x, r, k, P) /\ k \in AnyList
      /\ HeadOf(x, k) = x.noReuse /\ x.bdi[r] # None
  BY DEF Mid, State, AnyList, HeadOf, NoReuse, Nowhere
<1>2. /\ y.info = x.info /\ y.bdi = c /\ y.reuse = x.reuse /\ y.noReuse = h
      /\ y.pc = x.pc /\ y.offset = x.offset
  BY <1>1 DEF BGP_DAMP_LIST_DEL, State
<1>3. \A j \in AnyList : HeadOf(y, j) = IF j = k /\ x.bdi[r].prev = None THEN x.bdi[r].next
                                        ELSE HeadOf(x, j)
  BY <1>2 DEF HeadOf
<1>4. h \in Pointer
  BY <1>1 DEF State, Bdi, DampInfo
<1>5. y.bdi \in Bdi => y \in State
  BY <1>1, <1>2, <1>4 DEF BGP_DAMP_LIST_DEL, State
<1> HIDE DEF y, k, h
<1>6. /\ y.bdi \in Bdi /\ (\A q \in Route : SameData(x.bdi[q], y.bdi[q]))
      /\ Lists(y, r, Nowhere, P)
  BY <1>1, <1>2, <1>3, ListsUnlinked
<1>7. Relinked(x, y)
  BY <1>2, <1>5, <1>6 DEF Relinked
<1>8. Mid(y, r, Nowhere, P) /\ Others(x, y, r)
  BY <1>1, <1>6, <1>7, MidRelinked
<1> QED
  BY <1>2, <1>6, <1>8 DEF y

LEMMA MidReuseDel ==
    ASSUME NEW x, NEW r \in Route, NEW P, NEW k \in List, Mid(x, r, k, P), x.bdi[r].index = k
    PROVE  LET y == bgp_reuse_list_delete(x, r)
           IN  /\ Mid(y, r, Nowhere, P) /\ Others(x, y, r)
               /\ y.noReuse = x.noReuse /\ (\A j \in List : j # k => y.reuse[j] = x.reuse[j])
               /\ y.info = x.info /\ SameData(x.bdi[r], y.bdi[r])
<1> DEFINE y == bgp_reuse_list_delete(x, r)
           c == Unlinked(x.bdi, r)
           u == IF x.bdi[r].prev = None THEN [x.reuse EXCEPT ![k] = x.bdi[r].next] ELSE x.reuse
<1>1. /\ x \in State /\ x.bdi \in Bdi /\ Lists(x, r, k, P) /\ k \in AnyList
      /\ k # NoReuse /\ k # Nowhere /\ x.bdi[r] # None /\ x.reuse \in [List -> Pointer]
  BY DampAssumption DEF Mid, State, AnyList, List, NoReuse, Nowhere
<1>2. /\ y.info = x.info /\ y.bdi = c /\ y.reuse = u /\ y.noReuse = x.noReuse
      /\ y.pc = x.pc /\ y.offset = x.offset
  BY <1>1 DEF bgp_reuse_list_delete, State
<1>3. x.bdi[r].next \in Pointer
  BY <1>1 DEF Bdi, DampInfo
<1>4. /\ u \in [List -> Pointer]
      /\ \A j \in List : u[j] = IF j = k /\ x.bdi[r].prev = None THEN x.bdi[r].next ELSE x.reuse[j]
  BY <1>1, <1>3
<1>5. y.bdi \in Bdi => y \in State
  BY <1>1, <1>2, <1>4 DEF bgp_reuse_list_delete, State
<1> HIDE DEF y, u
<1>6. \A j \in AnyList : HeadOf(y, j) = IF j = k /\ x.bdi[r].prev = None THEN x.bdi[r].next
                                        ELSE HeadOf(x, j)
  BY <1>1, <1>2, <1>4 DEF HeadOf, AnyList
<1>7. /\ y.bdi \in Bdi /\ (\A q \in Route : SameData(x.bdi[q], y.bdi[q]))
      /\ Lists(y, r, Nowhere, P)
  BY <1>1, <1>2, <1>6, ListsUnlinked
<1>8. Relinked(x, y)
  BY <1>2, <1>5, <1>7 DEF Relinked
<1>9. Mid(y, r, Nowhere, P) /\ Others(x, y, r)
  BY <1>1, <1>7, <1>8, MidRelinked
<1> QED
  BY <1>2, <1>4, <1>7, <1>9 DEF y

LEMMA IndexIsList ==
    ASSUME NEW x \in State, NEW p
    PROVE  Distance(p) \in List /\ bgp_reuse_index(x, p) \in List
<1> DEFINE S == {k \in DOMAIN Slots : Slots[k] <= p}
<1>1. Slots \in Seq(Nat) /\ ListSize \in Nat /\ ListSize > 0
  BY DampAssumption
<1>2. IsFiniteSet(DOMAIN Slots)
  <2>1. DOMAIN Slots = 1..Len(Slots) /\ Len(Slots) \in Nat
    BY <1>1
  <2> QED
    BY <2>1, FS_Interval
<1>3. Cardinality(S) \in Nat
  BY <1>2, FS_Subset, FS_CardinalityType
<1> HIDE DEF S
<1>4. \A n \in Nat : n % ListSize \in 0..(ListSize - 1)
  BY <1>1
<1>5. Distance(p) \in List
  <2>1. Len(Slots) \in Nat
    BY <1>1
  <2> QED
    BY <1>3, <1>4, <2>1 DEF Distance, List, S
<1>6. x.offset + Distance(p) \in Nat
  BY <1>1, <1>5 DEF State, List
<1>7. (x.offset + Distance(p)) % ListSize \in 0..(ListSize - 1)
  BY <1>1, <1>6
<1> QED
  BY <1>5, <1>7 DEF bgp_reuse_index, List

LEMMA MidReuseAdd ==
    ASSUME NEW x, NEW r \in Route, NEW P, Mid(x, r, Nowhere, P), x.bdi[r] # None,
           NEW k, k = bgp_reuse_index(x, x.bdi[r].penalty)
    PROVE  LET y == bgp_reuse_list_add(x, r)
           IN  /\ k \in List /\ Mid(y, r, k, P) /\ Others(x, y, r) /\ y.noReuse = x.noReuse
               /\ y.info = x.info /\ y.bdi[r].index = k
               /\ y.bdi[r].penalty = x.bdi[r].penalty /\ y.bdi[r].age = x.bdi[r].age
               /\ y.bdi[r].last = x.bdi[r].last
<1> DEFINE y == bgp_reuse_list_add(x, r)
           d == [x.bdi[r] EXCEPT !.index = k]
           w == [x EXCEPT !.bdi[r] = d]
           c == Pushed(w.bdi, r, x.reuse[k])
           u == [x.reuse EXCEPT ![k] = r]
<1>1. /\ x \in State /\ x.bdi \in Bdi /\ x.bdi[r] \in DampInfo
      /\ x.reuse \in [List -> Pointer] /\ Tallied(x, r)
  BY DEF Mid, State, Bdi
<1>2. k \in List /\ k \in AnyList /\ k # NoReuse /\ k # Nowhere
  BY <1>1, IndexIsList, DampAssumption DEF AnyList, List, NoReuse, Nowhere
<1>3. /\ d \in DampInfo /\ d.penalty = x.bdi[r].penalty /\ d.age = x.bdi[r].age
      /\ d.last = x.bdi[r].last /\ d.index = k
  BY <1>1, <1>2 DEF DampInfo
<1>4. d # None
  BY <1>3, NoneAssumption
<1>5. /\ y.info = x.info /\ y.bdi = c /\ y.reuse = u /\ y.noReuse = x.noReuse
      /\ y.pc = x.pc /\ y.offset = x.offset /\ (y.bdi \in Bdi => y \in State)
  <2>1. /\ y.info = x.info /\ y.reuse = u /\ y.noReuse = x.noReuse
        /\ y.pc = x.pc /\ y.offset = x.offset
    BY <1>1 DEF bgp_reuse_list_add, State
  <2>2. w.bdi = [x.bdi EXCEPT ![r] = d]
    BY <1>1 DEF State
  <2>3. y.bdi = Pushed([x.bdi EXCEPT ![r].index = k], r, x.reuse[k])
    BY <1>1 DEF bgp_reuse_list_add, State
  <2>4. [x.bdi EXCEPT ![r].index = k] = [x.bdi EXCEPT ![r] = d]
    BY <1>1 DEF Bdi
  <2>5. y.bdi = c
    BY <2>2, <2>3, <2>4
  <2>6. u \in [List -> Pointer]
    BY <1>1, <1>2 DEF Pointer
  <2>7. y.bdi \in Bdi => y \in State
    BY <1>1, <2>1, <2>6 DEF bgp_reuse_list_add, State
  <2> QED
    BY <2>1, <2>5, <2>7
<1> HIDE DEF d, y
<1>6. /\ Mid(w, r, Nowhere, P) /\ Others(x, w, r) /\ SameHeads(x, w) /\ w.info = x.info
      /\ w.bdi[r] = d
  <2>1. d \in DampInfo \cup {None}
    BY <1>3
  <2> QED
    BY <2>1, MidData
<1> HIDE DEF w
<1>7. w.bdi \in Bdi /\ Lists(w, r, Nowhere, P) /\ w.bdi[r] # None
  BY <1>4, <1>6 DEF Mid, State
<1>8. HeadOf(w, k) = x.reuse[k]
  BY <1>2, <1>6 DEF HeadOf, SameHeads
<1>9. \A j \in AnyList : HeadOf(y, j) = IF j = k THEN r ELSE HeadOf(w, j)
  BY <1>1, <1>2, <1>5, <1>6 DEF HeadOf, SameHeads, AnyList
<1>10. y.bdi = Pushed(w.bdi, r, HeadOf(w, k)) /\ y.info = w.info
  BY <1>5, <1>6, <1>8
<1> HIDE DEF c, u
<1>11. /\ y.bdi \in Bdi /\ (\A q \in Route : SameData(w.bdi[q], y.bdi[q]))
       /\ Lists(y, r, k, P)
  BY <1>2, <1>7, <1>9, <1>10, ListsPushed
<1>12. Tallied(y, r)
  BY <1>1, <1>5 DEF Tallied, CountedIn, Agree
<1>13. y.bdi[r] # None /\ SameData(d, y.bdi[r])
  BY <1>6, <1>7, <1>11 DEF SameData
<1>14. Mid(y, r, k, P)
  BY <1>5, <1>11, <1>12, <1>13 DEF Mid
<1>15. Others(x, y, r)
  BY <1>5, <1>6, <1>11 DEF Others, SameData
<1> QED
  BY <1>2, <1>3, <1>4, <1>5, <1>13, <1>14, <1>15 DEF y, SameData

-----------------------------------------------------------------------------
(***************************************************************************)
(* The functions of bgp_damp.c.                                            *)
(***************************************************************************)

\* A damped route and one with a history have a bgp_damp_info; the index of a
\* damped one names a list.
Sound(x, q) ==
    /\ Damped(x, q) \/ Has(x.info[q], "HISTORY") => x.bdi[q] # None
    /\ Damped(x, q) => x.bdi[q].index \in List

\* bgp_damp_info_free takes the bgp_damp_info off its list.
LEMMA FreeMid ==
    ASSUME NEW x, NEW r \in Route, NEW P, NEW withdraw \in BOOLEAN,
           Mid(x, r, Where(x, r), P), x.bdi[r] # None, Sound(x, r)
    PROVE  LET y == bgp_damp_info_free(x, r, withdraw)
           IN  /\ Mid(y, r, Nowhere, P) /\ Others(x, y, r) /\ y.bdi[r] = None /\ Agree(y, r)
               /\ ~Has(y.info[r], "HISTORY") /\ ~Has(y.info[r], "DAMPED")
               /\ y.info[r].attr = x.info[r].attr
               /\ ~withdraw => (Has(y.info[r], "REMOVED") <=> Has(x.info[r], "REMOVED"))
               /\ \A j \in List : j # Where(x, r) => y.reuse[j] = x.reuse[j]
               /\ Where(x, r) # NoReuse => y.noReuse = x.noReuse
<1> DEFINE k == Where(x, r)
           y1 == IF Damped(x, r) THEN bgp_reuse_list_delete(x, r) ELSE BGP_DAMP_LIST_DEL(x, r)
           y2 == [y1 EXCEPT !.bdi[r] = None]
           y3 == UnsetFlag(y2, r, "HISTORY")
           z == UnsetFlag(y3, r, "DAMPED")
           d == Flagged(z, r, bgp_info_delete(Pair(z, r)))
           y == IF withdraw /\ x.bdi[r].last = "WITHDRAW" THEN d ELSE z
<1>1. /\ Mid(y1, r, Nowhere, P) /\ Others(x, y1, r) /\ y1.info = x.info
      /\ (\A j \in List : j # k => y1.reuse[j] = x.reuse[j])
      /\ (k # NoReuse => y1.noReuse = x.noReuse)
  <2>1. CASE Damped(x, r)
    <3>1. k \in List /\ x.bdi[r].index = k /\ y1 = bgp_reuse_list_delete(x, r)
      BY <2>1 DEF Where, Sound
    <3> HIDE DEF k, y1
    <3> QED
      BY <3>1, MidReuseDel DEF k
  <2>2. CASE ~Damped(x, r)
    <3>1. Mid(x, r, NoReuse, P) /\ y1 = BGP_DAMP_LIST_DEL(x, r) /\ k = NoReuse
      BY <2>2 DEF Where
    <3> HIDE DEF k, y1
    <3>2. Mid(y1, r, Nowhere, P) /\ Others(x, y1, r) /\ y1.info = x.info /\ y1.reuse = x.reuse
      BY <3>1, MidDel
    <3> QED
      BY <3>1, <3>2
  <2> QED
    BY <2>1, <2>2
<1> HIDE DEF y1, k
<1>2. /\ Mid(y2, r, Nowhere, P) /\ Others(y1, y2, r) /\ y2.info = y1.info /\ y2.bdi[r] = None
      /\ SameHeads(y1, y2)
  BY <1>1, MidData
<1> HIDE DEF y2
<1>3. /\ Mid(y3, r, Nowhere, P) /\ Others(y2, y3, r) /\ y3.bdi = y2.bdi /\ SameHeads(y2, y3)
      /\ ~Has(y3.info[r], "HISTORY") /\ OtherFlags(y2, y3, r, "HISTORY")
      /\ y3.info[r].attr = y2.info[r].attr
  <2>1. "HISTORY" \in Flag \ {"COUNTED"}
    BY DEF Flag
  <2> QED
    BY <1>2, <2>1, MidUnset
<1> HIDE DEF y3
<1>4. /\ Mid(z, r, Nowhere, P) /\ Others(y3, z, r) /\ z.bdi = y3.bdi /\ SameHeads(y3, z)
      /\ ~Has(z.info[r], "DAMPED") /\ OtherFlags(y3, z, r, "DAMPED")
      /\ z.info[r].attr = y3.info[r].attr /\ Agree(z, r)
  <2>1. "DAMPED" \in Flag \ {"COUNTED"} /\ "DAMPED" \in Deciding
    BY DEF Flag, Deciding, UNUSEABLE
  <2> QED
    BY <1>3, <2>1, MidUnset
<1> HIDE DEF z
<1>5. ~Has(z.info[r], "HISTORY") /\ (Has(z.info[r], "REMOVED") <=> Has(x.info[r], "REMOVED"))
  BY <1>1, <1>2, <1>3, <1>4 DEF OtherFlags, Flag
<1>6. Others(x, z, r)
  BY <1>1, <1>2, <1>3, <1>4, OthersTrans
<1>7. CASE ~(withdraw /\ x.bdi[r].last = "WITHDRAW")
  BY <1>1, <1>2, <1>3, <1>4, <1>5, <1>6, <1>7, ZenonT(40)
     DEF bgp_damp_info_free, k, y1, y2, y3, z, SameHeads
<1>8. CASE withdraw /\ x.bdi[r].last = "WITHDRAW"
  <2>1. /\ Reflagged(z, d, r) /\ Tallied(d, r) /\ Agree(d, r)
        /\ \A g \in {"HISTORY", "DAMPED"} : Has(d.info[r], g) <=> Has(z.info[r], g)
    BY <1>4, DeleteTallied DEF Mid
  <2> HIDE DEF d
  <2>2. Mid(d, r, Nowhere, P) /\ Others(z, d, r) /\ SameHeads(z, d) /\ d.bdi = z.bdi
    BY <2>1, <1>4, MidFlagged
  <2>3. Others(x, d, r)
    BY <2>2, <1>6, OthersTrans
  <2>4. bgp_damp_info_free(x, r, withdraw) = d
    BY <1>8 DEF bgp_damp_info_free, d, y1, y2, y3, z
  <2> QED
    BY <1>1, <1>2, <1>3, <1>4, <1>5, <1>8, <2>1, <2>2, <2>3, <2>4,
       ZenonT(60) DEF Reflagged, SameHeads, k
<1> QED
  BY <1>7, <1>8

\* All is in order: the books are kept, but perhaps for r, every
\* bgp_damp_info is on its list, but for those of P.
Sane(x, r, P) ==
    x \in State /\ Tallied(x, r) /\ ListsOf(x, P) /\ \A q \in Route : Sound(x, q)

LEMMA Begins ==
    ASSUME NEW x, NEW r \in Route, NEW P, r \notin P, Sane(x, r, P)
    PROVE  /\ x.bdi[r] # None => Mid(x, r, Where(x, r), P)
           /\ x.bdi[r] = None => Mid(x, r, Nowhere, P) /\ Where(x, r) = NoReuse
<1>1. /\ x.bdi[r] # None => Lists(x, r, Where(x, r), P)
      /\ x.bdi[r] = None => Lists(x, r, Nowhere, P)
  BY WorkBegins DEF Sane
<1>2. Sound(x, r)
  BY DEF Sane
<1> QED
  BY <1>1, <1>2 DEF Sane, Mid, Sound, Where

LEMMA Ends ==
    ASSUME NEW x, NEW y, NEW r \in Route, NEW P, r \notin P, NEW k,
           \A q \in Route : q # r => Sound(x, q), Mid(y, r, k, P), Others(x, y, r), Sound(y, r),
           IF y.bdi[r] = None THEN k = Nowhere ELSE k = Where(y, r)
    PROVE  Sane(y, r, P)
<1>1. ListsOf(y, P)
  BY WorkEnds DEF Mid
<1>2. ASSUME NEW q \in Route PROVE Sound(y, q)
  <2>1. CASE q = r
    BY <2>1
  <2>2. CASE q # r
    BY <2>2 DEF Others, SameData, Sound, Damped
  <2> QED
    BY <2>1, <2>2
<1> QED
  BY <1>1, <1>2 DEF Sane, Mid

\* The bounds of a bgp_damp_info.
LEMMA Limits ==
    /\ Len(DecayArray) \in Nat /\ MaxSuppress \in Nat /\ Highest \in Nat /\ Reuse \in 0..Highest
    /\ 0 \in 0..Len(DecayArray) /\ 0 \in 0..MaxSuppress
    /\ \A d \in DampInfo : d.age \in Nat /\ d.penalty \in 0..Highest
<1>1. MaxSuppress \in Nat /\ Highest \in Nat /\ Reuse \in 0..Highest
  BY DampAssumption DEF Highest
<1>2. DecayArray \in Seq(0..100)
  BY DampAssumption
<1>3. Len(DecayArray) \in Nat
  BY <1>2
<1> QED
  BY <1>1, <1>3 DEF DampInfo

LEMMA SeqElement ==
    ASSUME NEW S, NEW s \in Seq(S), NEW i \in 1..Len(s)
    PROVE  s[i] \in S
OBVIOUS

\* The decay never adds to a penalty.
LEMMA DecayBound ==
    ASSUME NEW age \in Nat, NEW p \in 0..Highest
    PROVE  bgp_damp_decay(age, p) \in 0..p /\ bgp_damp_decay(age, p) \in 0..Highest
<1>1. DecayArray \in Seq(0..100) /\ Highest \in Nat
  BY DampAssumption, Limits
<1>2. CASE age = 0 \/ age >= Len(DecayArray)
  BY <1>1, <1>2 DEF bgp_damp_decay
<1>3. CASE age # 0 /\ ~(age >= Len(DecayArray))
  <2> DEFINE e == DecayArray[age + 1]
             m == p * e
  <2>1. e \in 0..100
    <3>1. Len(DecayArray) \in Nat /\ age + 1 \in 1..Len(DecayArray)
      BY <1>1, <1>3
    <3> QED
      BY <1>1, <3>1, SeqElement
  <2>2. p \in Nat
    BY <1>1
  <2> HIDE DEF e
  <2>3. m \in Nat /\ m <= p * 100
    BY <2>1, <2>2
  <2> HIDE DEF m
  <2>4. (m \div 100) \in 0..p
    BY <2>2, <2>3
  <2>5. bgp_damp_decay(age, p) = m \div 100
    BY <1>3 DEF bgp_damp_decay, m, e
  <2> QED
    BY <1>1, <2>4, <2>5
<1> QED
  BY <1>2, <1>3

LEMMA CappedBound ==
    ASSUME NEW s \in Nat
    PROVE  Capped(s) \in 0..Highest
BY DampAssumption DEF Capped, Highest

\* bgp_damp_withdraw.
LEMMA Withdrawn ==
    ASSUME NEW x, NEW r \in Route, NEW P, r \notin P, Sane(x, r, P),
           NEW more \in {Penalty, Penalty \div 2}
    PROVE  LET y == bgp_damp_withdraw(x, r, more)
               d == y.bdi[r]
               e == x.bdi[r]
           IN  /\ Sane(y, r, P) /\ Others(x, y, r) /\ Agree(y, r) /\ d # None
               /\ Has(y.info[r], "HISTORY") /\ y.info[r].attr = x.info[r].attr
               /\ Damped(y, r) =>
                     /\ d.age = 0
                     /\ \/ Damped(x, r) /\ d.penalty = e.penalty /\ d.index = e.index
                        \/ /\ d.index = bgp_reuse_index(y, d.penalty)
                           /\ \/ d.penalty >= Suppress
                              \/ Damped(x, r) /\ d.penalty = Capped(bgp_damp_decay(e.age, e.penalty) + more)
<1> DEFINE e == x.bdi[r]
           sum == bgp_damp_decay(e.age, e.penalty) + more
           new == [e EXCEPT !.penalty = Capped(sum), !.last = "WITHDRAW", !.age = 0]
           k == Where(x, r)
           fresh == [x EXCEPT !.bdi[r] = NewDampInfo(more)]
           start == IF e = None THEN BGP_DAMP_LIST_ADD(fresh, r) ELSE [x EXCEPT !.bdi[r] = new]
           y == SetFlag(start, r, "HISTORY")
           result == bgp_damp_withdraw(x, r, more)
<1>1. x \in State /\ x.bdi \in Bdi /\ Sound(x, r) /\ \A q \in Route : Sound(x, q)
  BY DEF Sane, State
<1>2. more \in Nat /\ more \in 0..Highest
  BY DampAssumption DEF Highest
<1>3. /\ Mid(start, r, k, P) /\ Others(x, start, r) /\ start.info = x.info
      /\ start.bdi[r] # None /\ start.bdi[r].age = 0
      /\ e # None => start.bdi[r].penalty = Capped(sum) /\ start.bdi[r].index = e.index
  <2>1. CASE e = None
    <3>1. Mid(x, r, Nowhere, P) /\ k = NoReuse
      BY <2>1, Begins
    <3> DEFINE d == NewDampInfo(more)
    <3>2. d \in DampInfo /\ d.age = 0
      BY <1>2, Limits DEF NewDampInfo, DampInfo, Pointer
    <3>3. d # None /\ d \in DampInfo \cup {None}
      BY <3>2, NoneAssumption
    <3> HIDE DEF d
    <3>4. /\ Mid(fresh, r, Nowhere, P) /\ Others(x, fresh, r) /\ fresh.info = x.info
          /\ fresh.bdi[r] = d
      BY <3>1, <3>3, MidData DEF d
    <3> HIDE DEF fresh
    <3>5. start = BGP_DAMP_LIST_ADD(fresh, r)
      BY <2>1
    <3> HIDE DEF start, k
    <3>6. /\ Mid(start, r, NoReuse, P) /\ Others(fresh, start, r) /\ start.info = fresh.info
          /\ SameData(fresh.bdi[r], start.bdi[r])
      BY <3>3, <3>4, <3>5, MidAdd
    <3>7. Others(x, start, r)
      BY <3>4, <3>6, OthersTrans
    <3> QED
      BY <2>1, <3>1, <3>2, <3>3, <3>4, <3>6, <3>7 DEF SameData
  <2>2. CASE e # None
    <3>1. Mid(x, r, k, P) /\ e \in DampInfo
      BY <2>2, <1>1, Begins DEF Bdi
    <3>2. sum \in Nat
      <4>1. e.age \in Nat /\ e.penalty \in 0..Highest
        BY <3>1, Limits
      <4>2. bgp_damp_decay(e.age, e.penalty) \in 0..Highest
        BY <4>1, DecayBound
      <4> QED
        BY <4>2, <1>2, Limits
    <3>3. Capped(sum) \in 0..Highest
      BY <3>2, CappedBound
    <3> HIDE DEF sum
    <3>4. /\ new \in DampInfo /\ new.penalty = Capped(sum) /\ new.age = 0 /\ new.index = e.index
          /\ new.next = e.next /\ new.prev = e.prev
      BY <3>1, <3>3, Limits DEF DampInfo
    <3>5. new # None /\ new \in DampInfo \cup {None}
      BY <3>4, NoneAssumption
    <3>6. start = [x EXCEPT !.bdi[r] = new]
      BY <2>2
    <3> HIDE DEF new, start, k, e
    <3>7. /\ Mid(start, r, k, P) /\ Others(x, start, r) /\ start.info = x.info
          /\ start.bdi[r] = new
      BY <3>1, <3>4, <3>5, <3>6, MidData DEF e
    <3> QED
      BY <3>4, <3>5, <3>7
  <2> QED
    BY <2>1, <2>2
<1> HIDE DEF start
<1>4. /\ Mid(y, r, k, P) /\ Others(start, y, r) /\ y.bdi = start.bdi
      /\ Has(y.info[r], "HISTORY") /\ Agree(y, r) /\ y.info[r].attr = x.info[r].attr
      /\ Damped(y, r) <=> Damped(x, r)
  <2>1. "HISTORY" \in Flag \ {"COUNTED"} /\ "HISTORY" \in Deciding /\ "HISTORY" # "VALID"
    BY DEF Flag, Deciding, UNUSEABLE
  <2> HIDE DEF k
  <2>2. /\ Mid(y, r, k, P) /\ Others(start, y, r) /\ y.bdi = start.bdi
        /\ Has(y.info[r], "HISTORY") /\ OtherFlags(start, y, r, "HISTORY") /\ Agree(y, r)
        /\ y.info[r].attr = start.info[r].attr
    BY <1>3, <2>1, MidSet
  <2> QED
    BY <1>3, <2>2 DEF OtherFlags, Damped, Flag
<1> HIDE DEF y
<1>5. Others(x, y, r)
  BY <1>3, <1>4, OthersTrans
<1>6. y.bdi[r] # None /\ y.bdi[r].age = 0
  BY <1>3, <1>4
<1>7. CASE Damped(x, r)
  <2>1. k \in List /\ e # None /\ y.bdi[r].index = k /\ e.index = k
    BY <1>1, <1>3, <1>4, <1>7 DEF Sound, Where
  <2>2. y.bdi[r].penalty = Capped(sum)
    BY <1>3, <1>4, <2>1
  <2> HIDE DEF k, sum
  <2>3. CASE y.bdi[r].penalty # e.penalty
    <3> DEFINE off == bgp_reuse_list_delete(y, r)
               on == bgp_reuse_list_add(off, r)
               i == bgp_reuse_index(off, off.bdi[r].penalty)
    <3>1. result = on
      BY <1>7, <2>3 DEF bgp_damp_withdraw, y, start, e, sum, new, fresh
    <3>2. /\ Mid(off, r, Nowhere, P) /\ Others(y, off, r) /\ off.info = y.info
          /\ SameData(y.bdi[r], off.bdi[r])
      BY <1>4, <2>1, MidReuseDel
    <3> HIDE DEF off
    <3>3. off.bdi[r] # None
      BY <1>6, <3>2 DEF SameData
    <3>4. i = bgp_reuse_index(off, off.bdi[r].penalty)
      OBVIOUS
    <3> HIDE DEF i
    <3>5. /\ i \in List /\ Mid(on, r, i, P) /\ Others(off, on, r) /\ on.info = off.info
          /\ on.bdi[r].index = i /\ on.bdi[r].penalty = off.bdi[r].penalty
          /\ on.bdi[r].age = off.bdi[r].age
      BY <3>2, <3>3, <3>4, MidReuseAdd
    <3> HIDE DEF on
    <3>6. Others(x, on, r)
      BY <1>5, <3>2, <3>5, OthersTrans
    <3>7. /\ on.bdi[r].penalty = y.bdi[r].penalty /\ on.bdi[r].age = 0
          /\ i = bgp_reuse_index(on, on.bdi[r].penalty)
      BY <1>6, <3>2, <3>4, <3>5 DEF SameData, Others, bgp_reuse_index
    <3>8. /\ Damped(on, r) /\ Has(on.info[r], "HISTORY") /\ Agree(on, r)
          /\ on.info[r].attr = x.info[r].attr
      BY <1>4, <1>7, <3>2, <3>5 DEF Damped, Agree
    <3>9. on.bdi[r] # None
      BY <3>5, DampAssumption DEF Mid, Nowhere, List
    <3>10. Sound(on, r) /\ i = Where(on, r)
      BY <3>5, <3>8, <3>9 DEF Sound, Where
    <3>11. Sane(on, r, P)
      BY <1>1, <3>5, <3>6, <3>9, <3>10, Ends
    <3> QED
      BY <1>7, <2>2, <3>1, <3>5, <3>6, <3>7, <3>8, <3>9, <3>11 DEF sum, e
  <2>4. CASE y.bdi[r].penalty = e.penalty
    <3>1. result = y
      BY <1>7, <2>4 DEF bgp_damp_withdraw, y, start, e, sum, new, fresh
    <3>2. Sound(y, r) /\ k = Where(y, r)
      BY <1>4, <1>6, <1>7, <2>1 DEF Sound, Where
    <3>3. Sane(y, r, P)
      BY <1>1, <1>4, <1>5, <1>6, <3>2, Ends
    <3> QED
      BY <1>4, <1>5, <1>6, <1>7, <2>1, <2>4, <3>1, <3>3 DEF e
  <2> QED
    BY <2>3, <2>4
<1>8. CASE ~Damped(x, r)
  <2>1. k = NoReuse /\ ~Damped(y, r)
    BY <1>4, <1>8 DEF Where
  <2> HIDE DEF k, sum
  <2>2. CASE y.bdi[r].penalty >= Suppress
    <3> DEFINE d == [y.bdi[r] EXCEPT !.since = 0]
               y1 == [y EXCEPT !.bdi[r] = d]
               y2 == SetFlag(y1, r, "DAMPED")
               off == BGP_DAMP_LIST_DEL(y2, r)
               on == bgp_reuse_list_add(off, r)
               i == bgp_reuse_index(off, off.bdi[r].penalty)
    <3>1. y \in State /\ y.bdi[r] \in DampInfo /\ Mid(y, r, NoReuse, P)
      BY <1>4, <1>6, <2>1 DEF Mid, State, Bdi
    <3>2. result = bgp_reuse_list_add(BGP_DAMP_LIST_DEL(
                       SetFlag([y EXCEPT !.bdi[r].since = 0], r, "DAMPED"), r), r)
      BY <1>8, <2>2 DEF bgp_damp_withdraw, y, start, e, sum, new, fresh
    <3>3. [y EXCEPT !.bdi[r].since = 0] = y1
      BY <3>1 DEF State, Bdi
    <3>4. result = on
      BY <3>2, <3>3
    <3>5. /\ d \in DampInfo /\ d.penalty = y.bdi[r].penalty /\ d.age = y.bdi[r].age
          /\ d.next = y.bdi[r].next /\ d.prev = y.bdi[r].prev
      BY <3>1, Limits DEF DampInfo
    <3>6. d # None /\ d \in DampInfo \cup {None}
      BY <3>5, NoneAssumption
    <3> HIDE DEF d
    <3>7. Mid(y1, r, NoReuse, P) /\ Others(y, y1, r) /\ y1.info = y.info /\ y1.bdi[r] = d
      BY <3>1, <3>5, <3>6, MidData
    <3> HIDE DEF y1
    <3>8. "DAMPED" \in Flag \ {"COUNTED"} /\ "DAMPED" \in Deciding /\ "DAMPED" # "VALID"
      BY DEF Flag, Deciding, UNUSEABLE
    <3>9. /\ Mid(y2, r, NoReuse, P) /\ Others(y1, y2, r) /\ y2.bdi = y1.bdi
          /\ Has(y2.info[r], "DAMPED") /\ OtherFlags(y1, y2, r, "DAMPED") /\ Agree(y2, r)
          /\ y2.info[r].attr = y1.info[r].attr
      BY <3>7, <3>8, MidSet, SMTT(30)
    <3> HIDE DEF y2
    <3>10. /\ Mid(off, r, Nowhere, P) /\ Others(y2, off, r) /\ off.info = y2.info
           /\ SameData(y2.bdi[r], off.bdi[r])
      BY <3>9, MidDel
    <3> HIDE DEF off
    <3>11. off.bdi[r] # None /\ off.bdi[r].penalty = y.bdi[r].penalty /\ off.bdi[r].age = 0
      BY <1>6, <3>5, <3>6, <3>7, <3>9, <3>10 DEF SameData
    <3>12. i = bgp_reuse_index(off, off.bdi[r].penalty)
      OBVIOUS
    <3> HIDE DEF i
    <3>13. /\ i \in List /\ Mid(on, r, i, P) /\ Others(off, on, r) /\ on.info = off.info
           /\ on.bdi[r].index = i /\ on.bdi[r].penalty = off.bdi[r].penalty
           /\ on.bdi[r].age = off.bdi[r].age
      BY <3>10, <3>11, <3>12, MidReuseAdd
    <3> HIDE DEF on
    <3>14. Others(x, on, r)
      BY <1>5, <3>7, <3>9, <3>10, <3>13, OthersTrans
    <3>15. i = bgp_reuse_index(on, on.bdi[r].penalty)
      BY <3>12, <3>13 DEF Others, bgp_reuse_index
    <3>16. Damped(on, r) /\ Agree(on, r) /\ Has(on.info[r], "HISTORY")
           /\ on.info[r].attr = x.info[r].attr
      BY <1>4, <3>7, <3>9, <3>10, <3>13 DEF Damped, Agree, OtherFlags, Flag
    <3>17. on.bdi[r] # None
      BY <3>13, DampAssumption DEF Mid, Nowhere, List
    <3>18. Sound(on, r) /\ i = Where(on, r)
      BY <3>13, <3>16, <3>17 DEF Sound, Where
    <3>19. Sane(on, r, P)
      BY <1>1, <3>13, <3>14, <3>17, <3>18, Ends
    <3>20. on.bdi[r].penalty >= Suppress /\ on.bdi[r].age = 0
      BY <2>2, <3>11, <3>13
    <3> QED
      BY <3>4, <3>13, <3>14, <3>15, <3>16, <3>17, <3>19, <3>20
  <2>3. CASE ~(y.bdi[r].penalty >= Suppress)
    <3>1. result = y
      BY <1>8, <2>3 DEF bgp_damp_withdraw, y, start, e, sum, new, fresh
    <3>2. Sound(y, r) /\ k = Where(y, r)
      BY <1>6, <2>1 DEF Sound, Where
    <3>3. Sane(y, r, P)
      BY <1>1, <1>4, <1>5, <1>6, <3>2, Ends
    <3> QED
      BY <1>4, <1>5, <1>6, <2>1, <3>1, <3>3
  <2> QED
    BY <2>2, <2>3
<1> QED
  BY <1>7, <1>8

\* The route was suppressed or used again just now.
LEMMA MidSince ==
    ASSUME NEW x, NEW r \in Route, NEW k, NEW P, Mid(x, r, k, P), x.bdi[r] # None
    PROVE  LET y == [x EXCEPT !.bdi[r].since = 0]
               d == y.bdi[r]
               e == x.bdi[r]
           IN  /\ Mid(y, r, k, P) /\ Others(x, y, r) /\ SameHeads(x, y) /\ y.info = x.info
               /\ d # None /\ d.penalty = e.penalty /\ d.age = e.age /\ d.index = e.index
               /\ d.last = e.last
<1> DEFINE d == [x.bdi[r] EXCEPT !.since = 0]
           y == [x EXCEPT !.bdi[r] = d]
<1>1. x \in State /\ x.bdi[r] \in DampInfo
  BY DEF Mid, State, Bdi
<1>2. [x EXCEPT !.bdi[r].since = 0] = y
  BY <1>1 DEF State, Bdi
<1>3. /\ d \in DampInfo /\ d.penalty = x.bdi[r].penalty /\ d.age = x.bdi[r].age
      /\ d.index = x.bdi[r].index /\ d.last = x.bdi[r].last
      /\ d.next = x.bdi[r].next /\ d.prev = x.bdi[r].prev
  BY <1>1, Limits DEF DampInfo
<1>4. d # None /\ d \in DampInfo \cup {None}
  BY <1>3, NoneAssumption
<1> HIDE DEF d
<1>5. Mid(y, r, k, P) /\ Others(x, y, r) /\ SameHeads(x, y) /\ y.info = x.info /\ y.bdi[r] = d
  BY <1>3, <1>4, MidData
<1> QED
  BY <1>2, <1>3, <1>4, <1>5

\* The penalty is what the decay has left of it.
Decayed(x, r) == bgp_damp_decay(x.bdi[r].age, x.bdi[r].penalty)

LEMMA DecayedBound ==
    ASSUME NEW x \in State, NEW r \in Route, x.bdi[r] # None
    PROVE  Decayed(x, r) \in 0..Highest
<1>1. x.bdi[r] \in DampInfo
  BY DEF State, Bdi
<1> QED
  BY <1>1, Limits, DecayBound DEF Decayed

Aged(x, r, l) ==
    [x EXCEPT !.bdi[r] = [x.bdi[r] EXCEPT !.penalty = Decayed(x, r), !.last = l, !.age = 0]]

LEMMA MidDecayed ==
    ASSUME NEW x, NEW r \in Route, NEW k, NEW P, Mid(x, r, k, P), x.bdi[r] # None,
           NEW l \in {"UPDATE", "WITHDRAW"}, NEW p, p = Decayed(x, r),
           NEW y, y = Aged(x, r, l)
    PROVE  /\ Mid(y, r, k, P) /\ Others(x, y, r) /\ SameHeads(x, y) /\ y.info = x.info
           /\ y.bdi[r] # None /\ y.bdi[r].penalty = p /\ y.bdi[r].age = 0
           /\ y.bdi[r].index = x.bdi[r].index /\ y.bdi[r].last = l
<1> DEFINE d == [x.bdi[r] EXCEPT !.penalty = p, !.last = l, !.age = 0]
           w == [x EXCEPT !.bdi[r] = d]
<1>1. x \in State /\ x.bdi[r] \in DampInfo /\ p \in 0..Highest
  BY DecayedBound DEF Mid, State, Bdi
<1>2. y = w
  BY DEF Aged
<1>3. /\ d \in DampInfo /\ d.penalty = p /\ d.age = 0
      /\ d.index = x.bdi[r].index /\ d.last = l
      /\ d.next = x.bdi[r].next /\ d.prev = x.bdi[r].prev
  BY <1>1, Limits DEF DampInfo
<1>4. d # None /\ d \in DampInfo \cup {None}
  BY <1>3, NoneAssumption
<1> HIDE DEF d
<1>5. Mid(w, r, k, P) /\ Others(x, w, r) /\ SameHeads(x, w) /\ w.info = x.info /\ w.bdi[r] = d
  BY <1>3, <1>4, MidData
<1> QED
  BY <1>2, <1>3, <1>4, <1>5

\* The same, if the message is not recorded.
LEMMA LastKept ==
    ASSUME NEW x \in State, NEW r \in Route, x.bdi[r] # None
    PROVE  /\ x.bdi[r].last \in {"UPDATE", "WITHDRAW"}
           /\ [x EXCEPT !.bdi[r] = [x.bdi[r] EXCEPT !.penalty = Decayed(x, r), !.age = 0]]
                 = Aged(x, r, x.bdi[r].last)
<1>1. x.bdi[r] \in DampInfo
  BY DEF State, Bdi
<1>2. [x.bdi[r] EXCEPT !.penalty = Decayed(x, r), !.age = 0]
          = [x.bdi[r] EXCEPT !.penalty = Decayed(x, r), !.last = x.bdi[r].last, !.age = 0]
  BY <1>1 DEF DampInfo
<1> QED
  BY <1>1, <1>2 DEF DampInfo, Aged

\* bgp_damp_info_free.
LEMMA Freed ==
    ASSUME NEW x, NEW r \in Route, NEW P, r \notin P, Sane(x, r, P), x.bdi[r] # None,
           NEW withdraw \in BOOLEAN
    PROVE  LET y == bgp_damp_info_free(x, r, withdraw)
           IN  /\ Sane(y, r, P) /\ Others(x, y, r) /\ y.bdi[r] = None /\ Agree(y, r)
               /\ ~Has(y.info[r], "HISTORY") /\ ~Damped(y, r)
               /\ y.info[r].attr = x.info[r].attr
               /\ ~withdraw => (Has(y.info[r], "REMOVED") <=> Has(x.info[r], "REMOVED"))
               /\ \A j \in List : j # Where(x, r) => y.reuse[j] = x.reuse[j]
               /\ Where(x, r) # NoReuse => y.noReuse = x.noReuse
<1> DEFINE y == bgp_damp_info_free(x, r, withdraw)
<1>1. Mid(x, r, Where(x, r), P) /\ Sound(x, r) /\ \A q \in Route : Sound(x, q)
  BY Begins DEF Sane
<1>2. /\ Mid(y, r, Nowhere, P) /\ Others(x, y, r) /\ y.bdi[r] = None /\ Agree(y, r)
      /\ ~Has(y.info[r], "HISTORY") /\ ~Has(y.info[r], "DAMPED")
      /\ y.info[r].attr = x.info[r].attr
      /\ ~withdraw => (Has(y.info[r], "REMOVED") <=> Has(x.info[r], "REMOVED"))
      /\ \A j \in List : j # Where(x, r) => y.reuse[j] = x.reuse[j]
      /\ Where(x, r) # NoReuse => y.noReuse = x.noReuse
  BY <1>1, FreeMid
<1> HIDE DEF y
<1>3. Sound(y, r)
  BY <1>2 DEF Sound, Damped
<1>4. Sane(y, r, P)
  BY <1>1, <1>2, <1>3, Ends
<1> QED
  BY <1>2, <1>4 DEF y, Damped

LEMMA FlagKinds ==
    /\ \A f \in {"HISTORY", "DAMPED"} : f \in Flag \ {"COUNTED"} /\ f \in Deciding /\ f # "VALID"
    /\ \A f \in {"SELECTED", "ATTR_CHANGED"} : f \in Flag \ {"COUNTED"} /\ f # "VALID"
    /\ "VALID" \in Flag \ {"COUNTED"} /\ "VALID" \in Deciding
BY DEF Flag, Deciding, UNUSEABLE

\* A suppressed route is used again: from its reuse list to no_reuse_list.
LEMMA UsedAgain ==
    ASSUME NEW x, NEW r \in Route, NEW P, NEW k \in List, Mid(x, r, k, P),
           x.bdi[r] # None, x.bdi[r].index = k
    PROVE  LET y == BGP_DAMP_LIST_ADD(bgp_reuse_list_delete(UnsetFlag(x, r, "DAMPED"), r), r)
           IN  /\ Mid(y, r, NoReuse, P) /\ Others(x, y, r) /\ SameData(x.bdi[r], y.bdi[r])
               /\ ~Damped(y, r) /\ (Has(y.info[r], "HISTORY") <=> Has(x.info[r], "HISTORY"))
               /\ Agree(y, r) /\ y.info[r].attr = x.info[r].attr
<1> DEFINE f == "DAMPED"
           u == UnsetFlag(x, r, f)
           v == bgp_reuse_list_delete(u, r)
           y == BGP_DAMP_LIST_ADD(v, r)
<1>0. f \in Flag \ {"COUNTED"} /\ f \in Deciding
  BY FlagKinds
<1> HIDE DEF f
<1>1. /\ Mid(u, r, k, P) /\ Others(x, u, r) /\ u.bdi = x.bdi
      /\ ~Has(u.info[r], f) /\ OtherFlags(x, u, r, f) /\ Agree(u, r)
      /\ u.info[r].attr = x.info[r].attr
  BY <1>0, MidUnset
<1> HIDE DEF u
<1>2. u.bdi[r].index = k
  BY <1>1
<1>3. /\ Mid(v, r, Nowhere, P) /\ Others(u, v, r) /\ v.info = u.info
      /\ SameData(u.bdi[r], v.bdi[r])
  BY <1>1, <1>2, MidReuseDel
<1> HIDE DEF v
<1>4. v.bdi[r] # None
  BY <1>1, <1>3 DEF SameData
<1>5. /\ Mid(y, r, NoReuse, P) /\ Others(v, y, r) /\ y.info = v.info
      /\ SameData(v.bdi[r], y.bdi[r])
  BY <1>3, <1>4, MidAdd
<1> HIDE DEF y
<1>6. Others(x, y, r)
  BY <1>1, <1>3, <1>5, OthersTrans
<1>7. SameData(x.bdi[r], y.bdi[r])
  BY <1>1, <1>3, <1>5 DEF SameData
<1>8. /\ ~Damped(y, r) /\ (Has(y.info[r], "HISTORY") <=> Has(x.info[r], "HISTORY"))
      /\ Agree(y, r) /\ y.info[r].attr = x.info[r].attr
  BY <1>1, <1>3, <1>5 DEF Damped, Agree, OtherFlags, Flag, f
<1> QED
  BY <1>5, <1>6, <1>7, <1>8 DEF y, v, u, f

\* bgp_damp_update.
LEMMA Updated ==
    ASSUME NEW x, NEW r \in Route, NEW P, r \notin P, Sane(x, r, P)
    PROVE  LET y == bgp_damp_update(x, r)
               d == y.bdi[r]
           IN  /\ Sane(y, r, P) /\ Others(x, y, r) /\ y.info[r].attr = x.info[r].attr
               /\ x.bdi[r] = None => y = x
               /\ x.bdi[r] # None => Agree(y, r) /\ ~Has(y.info[r], "HISTORY")
               /\ Damped(y, r) => /\ Damped(x, r) /\ d.age = 0 /\ d.index = x.bdi[r].index
                                  /\ d.penalty = Decayed(x, r) /\ d.penalty >= Reuse
<1> DEFINE e == x.bdi[r]
           p == Decayed(x, r)
           k == Where(x, r)
           l == "UPDATE"
           f == "HISTORY"
           y1 == Aged(x, r, l)
           y == UnsetFlag(y1, r, f)
           y2 == [y EXCEPT !.bdi[r].since = 0]
           z2 == BGP_DAMP_LIST_ADD(bgp_reuse_list_delete(UnsetFlag(y2, r, "DAMPED"), r), r)
           z == IF Damped(x, r) /\ p < Reuse THEN z2 ELSE y
           result == bgp_damp_update(x, r)
<1>1. x \in State /\ Sound(x, r) /\ \A q \in Route : Sound(x, q)
  BY DEF Sane
<1>2. CASE e = None
  <2>1. result = x /\ ~Damped(x, r)
    BY <1>1, <1>2 DEF bgp_damp_update, Sound
  <2> QED
    BY <1>2, <2>1 DEF Others, SameData
<1>3. CASE e # None
  <2>0. result = IF Retained(p) THEN z ELSE bgp_damp_info_free(z, r, FALSE)
    BY <1>3 DEF bgp_damp_update, Decayed, Aged
  <2>1. /\ Mid(x, r, k, P) /\ x.bdi[r] # None /\ l \in {"UPDATE", "WITHDRAW"}
        /\ f \in Flag \ {"COUNTED"} /\ f \in Deciding
    BY <1>3, Begins, FlagKinds
  <2> HIDE DEF l, f, k, result
  <2>2. /\ Mid(y1, r, k, P) /\ Others(x, y1, r) /\ y1.info = x.info
        /\ y1.bdi[r] # None /\ y1.bdi[r].penalty = p /\ y1.bdi[r].age = 0
        /\ y1.bdi[r].index = e.index
    <3>1. p = Decayed(x, r) /\ y1 = Aged(x, r, l)
      OBVIOUS
    <3> HIDE DEF p, y1
    <3> QED
      BY <2>1, <3>1, MidDecayed
  <2> HIDE DEF y1, p, e
  <2>3. /\ Mid(y, r, k, P) /\ Others(y1, y, r) /\ y.bdi = y1.bdi
        /\ ~Has(y.info[r], f) /\ OtherFlags(y1, y, r, f) /\ Agree(y, r)
        /\ y.info[r].attr = y1.info[r].attr
    BY <2>1, <2>2, MidUnset
  <2> HIDE DEF y
  <2>4. /\ y.bdi[r] # None /\ y.bdi[r].penalty = p /\ y.bdi[r].age = 0
        /\ y.bdi[r].index = e.index /\ Others(x, y, r) /\ y.info[r].attr = x.info[r].attr
    BY <2>2, <2>3, OthersTrans
  <2>5. (Damped(y, r) <=> Damped(x, r)) /\ ~Has(y.info[r], "HISTORY")
    BY <2>2, <2>3 DEF OtherFlags, Flag, Damped, f
  <2>6. /\ Mid(z, r, Where(z, r), P) /\ Others(x, z, r) /\ z.bdi[r] # None /\ Sound(z, r)
        /\ Agree(z, r) /\ ~Has(z.info[r], "HISTORY") /\ z.info[r].attr = x.info[r].attr
        /\ Damped(z, r) => /\ Damped(x, r) /\ z.bdi[r].age = 0 /\ z.bdi[r].index = e.index
                           /\ z.bdi[r].penalty = p /\ ~(p < Reuse)
    <3>1. CASE Damped(x, r) /\ p < Reuse
      <4>1. k \in List /\ e.index = k
        BY <1>1, <3>1 DEF Sound, Where, k, e
      <4>2. /\ Mid(y2, r, k, P) /\ Others(y, y2, r) /\ y2.info = y.info
            /\ y2.bdi[r] # None /\ y2.bdi[r].index = k
        <5>1. /\ Mid(y2, r, k, P) /\ Others(y, y2, r) /\ y2.info = y.info
              /\ y2.bdi[r] # None /\ y2.bdi[r].index = y.bdi[r].index
          BY <2>3, <2>4, MidSince
        <5> QED
          BY <5>1, <2>4, <4>1
      <4> HIDE DEF y2
      <4>3. /\ Mid(z2, r, NoReuse, P) /\ Others(y2, z2, r) /\ SameData(y2.bdi[r], z2.bdi[r])
            /\ ~Damped(z2, r) /\ (Has(z2.info[r], "HISTORY") <=> Has(y2.info[r], "HISTORY"))
            /\ Agree(z2, r) /\ z2.info[r].attr = y2.info[r].attr
        BY <4>1, <4>2, UsedAgain
      <4>4. z = z2
        BY <3>1
      <4> HIDE DEF z, z2
      <4>5. Others(x, z, r)
        BY <2>4, <4>2, <4>3, <4>4, OthersTrans
      <4>6. z.bdi[r] # None
        BY <4>2, <4>3, <4>4 DEF SameData
      <4>7. ~Has(z.info[r], "HISTORY") /\ z.info[r].attr = x.info[r].attr
        BY <2>4, <2>5, <4>2, <4>3, <4>4
      <4>8. Sound(z, r) /\ Where(z, r) = NoReuse
        BY <4>3, <4>4, <4>6 DEF Sound, Where
      <4> QED
        BY <4>3, <4>4, <4>5, <4>6, <4>7, <4>8
    <3>2. CASE ~(Damped(x, r) /\ p < Reuse)
      <4>1. z = y
        BY <3>2
      <4> HIDE DEF z
      <4>2. Sound(y, r) /\ Where(y, r) = k
        BY <1>1, <2>4, <2>5 DEF Sound, Where, k, e
      <4> QED
        BY <2>3, <2>4, <2>5, <3>2, <4>1, <4>2
    <3> QED
      BY <3>1, <3>2
  <2> HIDE DEF z
  <2>7. Sane(z, r, P)
    <3> DEFINE j == Where(z, r)
    <3>1. Mid(z, r, j, P) /\ (IF z.bdi[r] = None THEN j = Nowhere ELSE j = Where(z, r))
      BY <2>6
    <3> HIDE DEF j
    <3> QED
      BY <1>1, <2>6, <3>1, Ends
  <2>8. CASE Retained(p)
    <3>1. p \in 0..Highest
      BY <1>1, <2>1, DecayedBound DEF p
    <3>2. ~(p < Reuse) => p >= Reuse
      BY <3>1, Limits
    <3> QED
      BY <1>3, <2>0, <2>6, <2>7, <2>8, <3>2 DEF result, p, e
  <2>9. CASE ~Retained(p)
    <3> DEFINE w == FALSE
               g == bgp_damp_info_free(z, r, w)
    <3>1. w \in BOOLEAN
      OBVIOUS
    <3> HIDE DEF w
    <3>2. /\ Sane(g, r, P) /\ Others(z, g, r) /\ Agree(g, r)
          /\ ~Has(g.info[r], "HISTORY") /\ ~Damped(g, r) /\ g.info[r].attr = z.info[r].attr
      BY <2>6, <2>7, <3>1, Freed
    <3>3. result = g
      BY <2>0, <2>9 DEF w
    <3> HIDE DEF g
    <3>4. Others(x, g, r)
      BY <2>6, <3>2, OthersTrans
    <3> QED
      BY <1>3, <2>6, <3>2, <3>3, <3>4 DEF result, e
  <2> QED
    BY <2>8, <2>9
<1> QED
  BY <1>2, <1>3

\* ReuseOne, for a route that is looked at in time.
LEMMA LookedAt ==
    ASSUME NEW x, NEW r \in Route, NEW P, r \notin P, Mid(x, r, Nowhere, P), Agree(x, r),
           x.bdi[r] # None, Damped(x, r), Retained(Decayed(x, r)), \A q \in Route : Sound(x, q)
    PROVE  LET y == ReuseOne(x, r)
               d == y.bdi[r]
           IN  /\ Sane(y, r, P) /\ Others(x, y, r) /\ Agree(y, r)
               /\ y.info[r].attr = x.info[r].attr
               /\ Damped(y, r) => /\ d.age = 0 /\ d.penalty = Decayed(x, r) /\ d.penalty >= Reuse
                                  /\ d.index = bgp_reuse_index(y, d.penalty)
<1> DEFINE l == x.bdi[r].last
           p == Decayed(x, r)
           y == Aged(x, r, l)
           y2 == [y EXCEPT !.bdi[r].since = 0]
           f == "DAMPED"
           used == UnsetFlag(y2, r, f)
           g == "HISTORY"
           z == IF l = "UPDATE" THEN UnsetFlag(used, r, g) ELSE used
           result == ReuseOne(x, r)
<1>1. x \in State
  BY DEF Mid
<1>2. /\ l \in {"UPDATE", "WITHDRAW"}
      /\ [x EXCEPT !.bdi[r] = [x.bdi[r] EXCEPT !.penalty = Decayed(x, r), !.age = 0]] = y
  BY <1>1, LastKept
<1>3. p \in 0..Highest /\ Retained(p)
  BY <1>1, DecayedBound
<1>4. result = IF ~(p < Reuse) THEN bgp_reuse_list_add(y, r) ELSE BGP_DAMP_LIST_ADD(z, r)
  <2> DEFINE v == [x EXCEPT !.bdi[r] = [x.bdi[r] EXCEPT !.penalty = Decayed(x, r), !.age = 0]]
             v2 == UnsetFlag([v EXCEPT !.bdi[r].since = 0], r, "DAMPED")
             v3 == IF l = "UPDATE" THEN UnsetFlag(v2, r, "HISTORY") ELSE v2
  <2>1. result = IF ~(p < Reuse) THEN bgp_reuse_list_add(v, r)
                 ELSE IF Retained(p) THEN BGP_DAMP_LIST_ADD(v3, r)
                      ELSE bgp_damp_info_free(v3, r, TRUE)
    BY Zenon DEF ReuseOne, Reusable, Decayed
  <2>2. v = y
    BY <1>2
  <2> HIDE DEF v, y
  <2> QED
    BY <1>3, <2>1, <2>2
<1> HIDE DEF result, l, p, y
<1>5. /\ Mid(y, r, Nowhere, P) /\ Others(x, y, r) /\ y.info = x.info
      /\ y.bdi[r] # None /\ y.bdi[r].penalty = p /\ y.bdi[r].age = 0
  <2>1. p = Decayed(x, r) /\ y = Aged(x, r, l)
    BY DEF p, y
  <2> QED
    BY <1>2, <2>1, MidDecayed
<1>6. CASE ~(p < Reuse)
  <2> DEFINE i == bgp_reuse_index(y, y.bdi[r].penalty)
             on == bgp_reuse_list_add(y, r)
  <2>1. i = bgp_reuse_index(y, y.bdi[r].penalty)
    OBVIOUS
  <2> HIDE DEF i
  <2>2. /\ i \in List /\ Mid(on, r, i, P) /\ Others(y, on, r) /\ on.info = y.info
        /\ on.bdi[r].index = i /\ on.bdi[r].penalty = y.bdi[r].penalty
        /\ on.bdi[r].age = y.bdi[r].age
    BY <1>5, <2>1, MidReuseAdd
  <2>3. result = on
    BY <1>4, <1>6
  <2> HIDE DEF on
  <2>4. Others(x, on, r)
    BY <1>5, <2>2, OthersTrans
  <2>5. on.bdi[r] # None
    BY <2>2, DampAssumption DEF Mid, Nowhere, List
  <2>6. Damped(on, r) /\ Agree(on, r) /\ on.info[r].attr = x.info[r].attr
    BY <1>5, <2>2 DEF Damped, Agree
  <2>7. Sound(on, r) /\ i = Where(on, r)
    BY <2>2, <2>5, <2>6 DEF Sound, Where
  <2>8. Sane(on, r, P)
    BY <2>2, <2>4, <2>5, <2>7, Ends
  <2>9. i = bgp_reuse_index(on, on.bdi[r].penalty)
    BY <2>1, <2>2 DEF Others, bgp_reuse_index
  <2>10. on.bdi[r].penalty = p /\ p >= Reuse /\ on.bdi[r].age = 0
    BY <1>3, <1>5, <1>6, <2>2, Limits
  <2> QED
    BY <2>2, <2>3, <2>4, <2>6, <2>8, <2>9, <2>10 DEF result, p
<1>7. CASE p < Reuse
  <2>1. /\ Mid(y2, r, Nowhere, P) /\ Others(y, y2, r) /\ y2.info = y.info /\ y2.bdi[r] # None
    BY <1>5, MidSince
  <2> HIDE DEF y2
  <2>2. f \in Flag \ {"COUNTED"} /\ f \in Deciding /\ g \in Flag \ {"COUNTED"} /\ g \in Deciding
    BY FlagKinds
  <2>3. ~(f = "VALID") /\ f # g
    OBVIOUS
  <2> HIDE DEF f, g
  <2>4. /\ Mid(used, r, Nowhere, P) /\ Others(y2, used, r) /\ used.bdi = y2.bdi
        /\ ~Has(used.info[r], f) /\ Agree(used, r) /\ used.info[r].attr = y2.info[r].attr
    BY <2>1, <2>2, MidUnset
  <2> HIDE DEF used
  <2>5. /\ Mid(z, r, Nowhere, P) /\ Others(used, z, r) /\ z.bdi = used.bdi
        /\ ~Has(z.info[r], f) /\ Agree(z, r) /\ z.info[r].attr = used.info[r].attr
    <3>1. CASE l = "UPDATE"
      <4> DEFINE u == UnsetFlag(used, r, g)
      <4>1. /\ Mid(u, r, Nowhere, P) /\ Others(used, u, r) /\ u.bdi = used.bdi
            /\ OtherFlags(used, u, r, g) /\ Agree(u, r) /\ u.info[r].attr = used.info[r].attr
        BY <2>2, <2>4, MidUnset
      <4>2. z = u
        BY <3>1
      <4> HIDE DEF u, z
      <4>3. ~Has(u.info[r], f)
        BY <2>2, <2>3, <2>4, <4>1 DEF OtherFlags
      <4> QED
        BY <4>1, <4>2, <4>3
    <3>2. CASE l # "UPDATE"
      <4>1. z = used
        BY <3>2
      <4> HIDE DEF z
      <4> QED
        BY <2>4, <4>1 DEF Others, SameData
    <3> QED
      BY <3>1, <3>2
  <2> HIDE DEF z
  <2> DEFINE on == BGP_DAMP_LIST_ADD(z, r)
  <2>6. z.bdi[r] # None
    BY <2>1, <2>4, <2>5
  <2>7. /\ Mid(on, r, NoReuse, P) /\ Others(z, on, r) /\ on.info = z.info
        /\ SameData(z.bdi[r], on.bdi[r])
    BY <2>5, <2>6, MidAdd
  <2>8. result = on
    BY <1>4, <1>7
  <2> HIDE DEF on
  <2>9. Others(x, on, r)
    BY <1>5, <2>1, <2>4, <2>5, <2>7, OthersTrans
  <2>10. on.bdi[r] # None /\ ~Damped(on, r) /\ Agree(on, r) /\ on.info[r].attr = x.info[r].attr
    BY <1>5, <2>1, <2>4, <2>5, <2>6, <2>7 DEF SameData, Damped, Agree, f
  <2>11. Sound(on, r) /\ NoReuse = Where(on, r)
    BY <2>10 DEF Sound, Where
  <2> DEFINE k == NoReuse
  <2>12. Mid(on, r, k, P) /\ k = Where(on, r)
    BY <2>7, <2>11
  <2> HIDE DEF k
  <2>13. Sane(on, r, P)
    BY <2>9, <2>10, <2>11, <2>12, Ends
  <2> QED
    BY <2>8, <2>9, <2>10, <2>13 DEF result
<1> QED
  BY <1>6, <1>7

\* bgp_damp_scan.
LEMMA ScannedOne ==
    ASSUME NEW x, NEW r \in Route, NEW P, r \notin P, Sane(x, r, P), Agree(x, r)
    PROVE  LET y == bgp_damp_scan(x, r)
           IN  /\ Sane(y, r, P) /\ Others(x, y, r) /\ Agree(y, r)
               /\ y.info[r].attr = x.info[r].attr
               /\ Damped(y, r) => y = x
<1> DEFINE p == Decayed(x, r)
           k == Where(x, r)
           f == "DAMPED"
           used == BGP_DAMP_LIST_ADD(bgp_reuse_list_delete(UnsetFlag(x, r, "DAMPED"), r), r)
           result == bgp_damp_scan(x, r)
<1>1. x \in State /\ Sound(x, r) /\ \A q \in Route : Sound(x, q)
  BY DEF Sane
<1>2. CASE x.bdi[r] = None \/ (Damped(x, r) /\ x.bdi[r].since < MaxSuppress)
  <2>1. result = x
    BY <1>2 DEF bgp_damp_scan
  <2> HIDE DEF result
  <2> QED
    BY <2>1 DEF Others, SameData, result
<1>3. CASE x.bdi[r] # None /\ Damped(x, r) /\ ~(x.bdi[r].since < MaxSuppress)
  <2> DEFINE d == [used.bdi[r] EXCEPT !.penalty = Reuse, !.age = 0, !.since = 0]
             y == [used EXCEPT !.bdi[r] = d]
  <2>1. result = y
    BY <1>3 DEF bgp_damp_scan
  <2>2. k \in List /\ Mid(x, r, k, P) /\ x.bdi[r] # None /\ x.bdi[r].index = k
    BY <1>1, <1>3, Begins DEF Sound, Where
  <2> HIDE DEF k, result
  <2>3. /\ Mid(used, r, NoReuse, P) /\ Others(x, used, r) /\ SameData(x.bdi[r], used.bdi[r])
        /\ ~Damped(used, r) /\ Agree(used, r) /\ used.info[r].attr = x.info[r].attr
    BY <2>2, UsedAgain
  <2> HIDE DEF used
  <2>4. used.bdi[r] # None /\ used.bdi[r] \in DampInfo
    BY <1>3, <2>3 DEF SameData, Mid, State, Bdi
  <2>5. d \in DampInfo /\ d.next = used.bdi[r].next /\ d.prev = used.bdi[r].prev
    BY <2>4, Limits DEF DampInfo
  <2>6. d # None /\ d \in DampInfo \cup {None}
    BY <2>5, NoneAssumption
  <2> HIDE DEF d
  <2>7. Mid(y, r, NoReuse, P) /\ Others(used, y, r) /\ y.info = used.info /\ y.bdi[r] = d
    BY <2>3, <2>5, <2>6, MidData
  <2> HIDE DEF y
  <2>8. ~Damped(y, r) /\ Agree(y, r) /\ y.info[r].attr = x.info[r].attr /\ y.bdi[r] # None
    BY <2>3, <2>6, <2>7 DEF Damped, Agree
  <2>9. Others(x, y, r)
    BY <2>3, <2>7, OthersTrans
  <2> DEFINE j == NoReuse
  <2>10. Sound(y, r) /\ Mid(y, r, j, P) /\ j = Where(y, r)
    BY <2>7, <2>8 DEF Sound, Where
  <2> HIDE DEF j
  <2>11. Sane(y, r, P)
    BY <1>1, <2>8, <2>9, <2>10, Ends
  <2> QED
    BY <2>1, <2>8, <2>9, <2>11 DEF result
<1>4. CASE x.bdi[r] # None /\ ~Damped(x, r) /\ Retained(p)
  <2> DEFINE l == x.bdi[r].last
             y == Aged(x, r, l)
  <2>1. /\ l \in {"UPDATE", "WITHDRAW"}
        /\ [x EXCEPT !.bdi[r] = [x.bdi[r] EXCEPT !.penalty = Decayed(x, r), !.age = 0]] = y
    BY <1>1, <1>4, LastKept
  <2>2. result = y
    BY <1>4, <2>1 DEF bgp_damp_scan, Decayed
  <2>3. Mid(x, r, k, P) /\ k = NoReuse /\ p = Decayed(x, r) /\ y = Aged(x, r, l)
    BY <1>4, Begins DEF Where
  <2> HIDE DEF k, p, y, l, result
  <2>4. Mid(y, r, k, P) /\ Others(x, y, r) /\ y.info = x.info /\ y.bdi[r] # None
    BY <1>4, <2>1, <2>3, MidDecayed
  <2>5. ~Damped(y, r) /\ Agree(y, r) /\ y.info[r].attr = x.info[r].attr
    BY <1>4, <2>4 DEF Damped, Agree
  <2>6. Sound(y, r) /\ k = Where(y, r)
    BY <2>3, <2>4, <2>5 DEF Sound, Where
  <2>7. Sane(y, r, P)
    BY <1>1, <2>4, <2>6, Ends
  <2> QED
    BY <2>2, <2>4, <2>5, <2>7 DEF result
<1>5. CASE x.bdi[r] # None /\ ~Damped(x, r) /\ ~Retained(p)
  <2> DEFINE w == TRUE
             y == bgp_damp_info_free(x, r, w)
  <2>1. w \in BOOLEAN
    OBVIOUS
  <2>2. result = y
    BY <1>5 DEF bgp_damp_scan, Decayed
  <2> HIDE DEF w, result
  <2>3. /\ Sane(y, r, P) /\ Others(x, y, r) /\ Agree(y, r) /\ ~Damped(y, r)
        /\ y.info[r].attr = x.info[r].attr
    BY <1>5, <2>1, Freed
  <2> HIDE DEF y
  <2> QED
    BY <2>2, <2>3 DEF result
<1> QED
  BY <1>2, <1>3, <1>4, <1>5

-----------------------------------------------------------------------------
(***************************************************************************)
(* What TablesAssumption is about.                                         *)
(***************************************************************************)
LEMMA Along ==
    ASSUME NEW N \in Nat, NEW T, NEW g, g[0] \in T[0],
           \A n \in 1..N : g[n - 1] \in T[n - 1] => g[n] \in T[n]
    PROVE  \A n \in 0..N : g[n] \in T[n]
<1> DEFINE I == {n \in Nat : n <= N => g[n] \in T[n]}
<1>1. 0 \in I
  OBVIOUS
<1>2. ASSUME NEW n \in Nat, n \in I PROVE n + 1 \in I
  <2> DEFINE m == n + 1
  <2>1. m \in Nat /\ m - 1 = n /\ (m <= N => m \in 1..N /\ n <= N)
    OBVIOUS
  <2>2. n <= N => g[n] \in T[n]
    BY <1>2
  <2> HIDE DEF m
  <2>3. m <= N => g[m] \in T[m]
    BY <2>1, <2>2
  <2>4. m \in I
    BY <2>1, <2>3
  <2> QED
    BY <2>4 DEF m
<1> HIDE DEF I
<1>3. \A n \in Nat : n \in I
  BY <1>1, <1>2, SetInduction
<1> QED
  BY <1>3 DEF I

\* One more than there were: the last one is new.
LastingStep(f, n) == Append(IF n = 0 THEN <<>> ELSE f[n - 1],
                            LastFor(n, IF n = 0 THEN <<>> ELSE f[n - 1]))

Family == Seq(SUBSET (0..Highest))

LEMMA AppendIn ==
    ASSUME NEW S, NEW e \in S
    PROVE  Append(<<>>, e) \in Seq(S) /\ \A s \in Seq(S) : Append(s, e) \in Seq(S)
OBVIOUS

LEMMA LastingDefined ==
    \A n \in 0..(2 * ListSize) :
        LastingUpTo[n] \in Family /\ LastingUpTo[n] = LastingStep(LastingUpTo, n)
<1> DEFINE N == 2 * ListSize
           first == Append(<<>>, LastFor(0, <<>>))
           step == [q \in (1..N) \X Family |-> Append(q[2], LastFor(q[1], q[2]))]
<1>1. N \in Nat
  BY DampAssumption
<1>2. \A n, b : LastFor(n, b) \in SUBSET (0..Highest)
  BY DEF LastFor
<1>3. first \in Family
  <2> DEFINE e == LastFor(0, <<>>)
  <2>1. e \in SUBSET (0..Highest)
    BY <1>2
  <2> HIDE DEF e
  <2>2. Append(<<>>, e) \in Family
    BY <2>1, AppendIn DEF Family
  <2> QED
    BY <2>2 DEF e
<1>4. \A n \in 1..N, b \in Family : step[<<n, b>>] = Append(b, LastFor(n, b))
  OBVIOUS
<1>5. step \in Steps(N, Family)
  <2>1. ASSUME NEW n \in 1..N, NEW b \in Family PROVE Append(b, LastFor(n, b)) \in Family
    <3> DEFINE e == LastFor(n, b)
    <3>1. e \in SUBSET (0..Highest)
      BY <1>2
    <3> HIDE DEF e
    <3>2. Append(b, e) \in Family
      BY <3>1, AppendIn DEF Family
    <3> QED
      BY <3>2 DEF e
  <2> QED
    BY <2>1 DEF Steps
<1> HIDE DEF step, first, N
<1>6. PICK g : Follows(g, N, Family, first, step)
  BY <1>1, <1>3, <1>5, Recursion
<1>7. ASSUME NEW n \in 0..N PROVE g[n] = LastingStep(g, n)
  <2>1. CASE n = 0
    BY <1>6, <2>1 DEF Follows, LastingStep, first
  <2>2. CASE n # 0
    <3>1. n \in 1..N /\ n - 1 \in 0..N
      BY <1>1, <2>2
    <3>2. g[n] = step[<<n, g[n - 1]>>] /\ g[n - 1] \in Family
      BY <1>6, <3>1 DEF Follows
    <3> QED
      BY <1>4, <2>2, <3>1, <3>2 DEF LastingStep
  <2> QED
    BY <2>1, <2>2
<1>8. g = [n \in 0..N |-> LastingStep(g, n)]
  BY <1>6, <1>7 DEF Follows
<1> DEFINE L == CHOOSE f : f = [n \in 0..N |-> LastingStep(f, n)]
<1>9. L = [n \in 0..N |-> LastingStep(L, n)]
  BY <1>8
<1>10. LastingUpTo = L
  BY DEF LastingUpTo, LastingStep, N
<1> HIDE DEF L
<1>11. \A n \in 0..N : L[n] = LastingStep(L, n)
  <2> DEFINE G == [n \in 0..N |-> LastingStep(L, n)]
  <2>1. \A n \in 0..N : G[n] = LastingStep(L, n)
    OBVIOUS
  <2>2. L = G
    BY <1>9
  <2> HIDE DEF G
  <2> QED
    BY <2>1, <2>2
<1>12. \A n \in 0..N : L[n] \in Family
  <2> DEFINE T == [n \in 0..N |-> Family]
  <2>1. L[0] \in T[0]
    BY <1>1, <1>3, <1>11 DEF LastingStep, first
  <2>2. ASSUME NEW n \in 1..N, L[n - 1] \in T[n - 1] PROVE L[n] \in T[n]
    <3>1. n \in 0..N /\ n # 0 /\ L[n - 1] \in Family
      BY <1>1, <2>2
    <3>2. L[n] = step[<<n, L[n - 1]>>]
      BY <1>4, <1>11, <3>1 DEF LastingStep
    <3>3. L[n] \in Family
      BY <1>5, <3>1, <3>2 DEF Steps
    <3> QED
      BY <3>1, <3>3
  <2> HIDE DEF T
  <2>3. \A n \in 0..N : L[n] \in T[n]
    BY <1>1, <2>1, <2>2, Along
  <2> QED
    BY <2>3 DEF T
<1> QED
  BY <1>10, <1>11, <1>12 DEF N

\* The later ones do not change the earlier ones.
LEMMA LastingPrefix ==
    ASSUME NEW m \in 0..(2 * ListSize), NEW n \in 0..(2 * ListSize), m <= n
    PROVE  Len(LastingUpTo[n]) = n + 1 /\ LastingUpTo[n][m + 1] = LastingUpTo[m][m + 1]
<1> DEFINE N == 2 * ListSize
           f == LastingUpTo
           I == {k \in Nat : k <= N => /\ Len(f[k]) = k + 1
                                       /\ \A j \in 0..k : f[k][j + 1] = f[j][j + 1]}
<1>0. N \in Nat
  BY DampAssumption
<1>1. \A k \in 0..N : f[k] \in Family /\ f[k] = LastingStep(f, k)
  BY LastingDefined
<1> HIDE DEF N, f
<1>2. 0 \in I
  <2> DEFINE e == LastFor(0, <<>>)
  <2>1. f[0] = Append(<<>>, e)
    BY <1>0, <1>1 DEF LastingStep
  <2> HIDE DEF e
  <2>2. Len(f[0]) = 1
    BY <2>1
  <2> QED
    BY <2>2
<1>3. ASSUME NEW k \in Nat, k \in I PROVE k + 1 \in I
  <2> SUFFICES ASSUME k + 1 <= N
               PROVE  /\ Len(f[k + 1]) = k + 2
                      /\ \A j \in 0..(k + 1) : f[k + 1][j + 1] = f[j][j + 1]
    OBVIOUS
  <2> DEFINE b == f[k]
             h == k + 1
             e == LastFor(h, b)
  <2>1. /\ Len(b) = k + 1 /\ (\A j \in 0..k : b[j + 1] = f[j][j + 1]) /\ b \in Family
        /\ h \in 0..N /\ h # 0 /\ h - 1 = k
    BY <1>0, <1>1, <1>3
  <2>2. f[h] = Append(b, e)
    <3>1. f[h] = LastingStep(f, h)
      BY <1>1, <2>1
    <3> HIDE DEF h
    <3> QED
      BY <2>1, <3>1 DEF LastingStep
  <2> HIDE DEF b, e, h
  <2>3. Len(f[h]) = k + 2 /\ \A i \in 1..(k + 1) : f[h][i] = b[i]
    BY <2>1, <2>2 DEF Family
  <2>4. ASSUME NEW j \in 0..(k + 1) PROVE f[h][j + 1] = f[j][j + 1]
    <3>1. CASE j = k + 1
      BY <3>1 DEF h
    <3>2. CASE j \in 0..k
      <4>1. j + 1 \in 1..(k + 1)
        BY <3>2
      <4> QED
        BY <2>1, <2>3, <3>2, <4>1
    <3> QED
      BY <3>1, <3>2
  <2> QED
    BY <2>3, <2>4 DEF h
<1> HIDE DEF I
<1>4. \A k \in Nat : k \in I
  BY <1>2, <1>3, SetInduction
<1>5. n \in Nat /\ n <= N /\ m \in 0..n
  BY <1>0 DEF N
<1> QED
  BY <1>4, <1>5 DEF I, f

\* A penalty that lasts is retained, and so is what is left of it.
LEMMA LastingIs ==
    ASSUME NEW n \in 0..(2 * ListSize), NEW p
    PROVE  p \in Lasting[n] <=>
              /\ p \in 0..Highest
              /\ \A i \in 0..n : LET left == bgp_damp_decay(i, p)
                                 IN  Retained(left) /\ (i > 0 /\ left >= Reuse => left \in Lasting[n - i])
<1> DEFINE N == 2 * ListSize
           f == LastingUpTo
           b == IF n = 0 THEN <<>> ELSE f[n - 1]
<1>0. N \in Nat /\ n \in Nat
  BY DampAssumption
<1>1. \A k \in 0..N : Lasting[k] = f[k][k + 1]
  <2>1. \A k \in 0..N : Lasting[k] = f[N][k + 1]
    BY DEF Lasting
  <2>2. \A k \in 0..N : f[N][k + 1] = f[k][k + 1]
    BY <1>0, LastingPrefix
  <2> QED
    BY <2>1, <2>2
<1>2. Lasting[n] = LastFor(n, b)
  <2> DEFINE e == LastFor(n, b)
  <2>1. f[n] = Append(b, e)
    BY LastingDefined DEF LastingStep
  <2>2. b \in Family /\ Len(b) = n
    <3>1. CASE n = 0
      BY <3>1 DEF Family
    <3>2. CASE n # 0
      <4> DEFINE m == n - 1
      <4>1. m \in 0..(2 * ListSize) /\ m <= m /\ n = m + 1
        BY <1>0, <3>2
      <4> HIDE DEF m
      <4>2. Len(f[m]) = m + 1 /\ f[m] \in Family
        BY <4>1, LastingPrefix, LastingDefined
      <4> QED
        BY <3>2, <4>1, <4>2 DEF m
    <3> QED
      BY <3>1, <3>2
  <2> HIDE DEF e, b
  <2>3. f[n][n + 1] = e
    BY <1>0, <2>1, <2>2 DEF Family
  <2> QED
    BY <1>1, <2>3 DEF e
<1>3. ASSUME NEW i \in 1..n PROVE b[n - i + 1] = Lasting[n - i]
  <2> DEFINE m == n - 1
             k == n - i
  <2>1. m \in 0..N /\ k \in 0..N /\ k <= m /\ n # 0
    BY <1>0
  <2> HIDE DEF m, k, N
  <2>2. f[m][k + 1] = f[k][k + 1] /\ Lasting[k] = f[k][k + 1]
    BY <1>1, <2>1, LastingPrefix DEF N
  <2>3. b = f[m]
    BY <2>1 DEF m
  <2> QED
    BY <2>2, <2>3 DEF k
<1> HIDE DEF b, N, f
<1>4. \A i \in 0..n : i > 0 => b[n - i + 1] = Lasting[n - i]
  BY <1>0, <1>3
<1> QED
  BY <1>2, <1>4 DEF LastFor

\* What lasts longer lasts.
LEMMA LastingShrinks ==
    ASSUME NEW n \in 1..(2 * ListSize), NEW p \in Lasting[n]
    PROVE  p \in Lasting[n - 1]
<1> DEFINE N == 2 * ListSize
           I == {k \in Nat : \A j \in 1..k : j <= N => Lasting[j] \subseteq Lasting[j - 1]}
<1>0. N \in Nat
  BY DampAssumption
<1>1. 0 \in I
  OBVIOUS
<1>2. ASSUME NEW k \in Nat, k \in I PROVE k + 1 \in I
  <2>1. ASSUME k + 1 <= N, NEW q \in Lasting[k + 1] PROVE q \in Lasting[k]
    <3> DEFINE m == k + 1
    <3>1. m \in 0..(2 * ListSize) /\ k \in 0..(2 * ListSize) /\ q \in Lasting[m]
      BY <1>0, <2>1
    <3>2. /\ q \in 0..Highest
          /\ \A i \in 0..m : LET left == bgp_damp_decay(i, q)
                             IN  Retained(left) /\ (i > 0 /\ left >= Reuse => left \in Lasting[m - i])
      <4> HIDE DEF m
      <4> QED
        BY <3>1, LastingIs
    <3>3. ASSUME NEW i \in 0..k
          PROVE  LET left == bgp_damp_decay(i, q)
                 IN  Retained(left) /\ (i > 0 /\ left >= Reuse => left \in Lasting[k - i])
      <4> DEFINE left == bgp_damp_decay(i, q)
      <4>1. Retained(left) /\ (i > 0 /\ left >= Reuse => left \in Lasting[m - i])
        BY <3>2
      <4> HIDE DEF left
      <4>2. ASSUME i > 0 PROVE Lasting[m - i] \subseteq Lasting[k - i]
        <5> DEFINE j == m - i
        <5>1. j \in 1..k /\ j <= N /\ j - 1 = k - i
          BY <1>0, <2>1, <4>2
        <5> HIDE DEF j
        <5> QED
          BY <1>2, <5>1 DEF j
      <4> QED
        BY <4>1, <4>2 DEF left
    <3> QED
      BY <3>1, <3>2, <3>3, LastingIs
  <2>2. ASSUME NEW j \in 1..(k + 1), j <= N PROVE Lasting[j] \subseteq Lasting[j - 1]
    <3>1. CASE j = k + 1
      <4>1. k + 1 <= N /\ j - 1 = k
        BY <2>2, <3>1
      <4> QED
        BY <2>1, <3>1, <4>1
    <3>2. CASE j \in 1..k
      BY <1>2, <2>2, <3>2
    <3> QED
      BY <3>1, <3>2
  <2> QED
    BY <2>2
<1> HIDE DEF I
<1>3. \A k \in Nat : k \in I
  BY <1>1, <1>2, SetInduction
<1>4. n \in Nat /\ n \in 1..n /\ n <= N
  BY <1>0
<1> QED
  BY <1>3, <1>4 DEF I

-----------------------------------------------------------------------------
(***************************************************************************)
(* The time that is left until the reuse timer looks at a suppressed       *)
(* route, in units of DELTA_T, and what its penalty has to be like then.   *)
(* h: half of DELTA_REUSE has passed since the timer ran.                  *)
(***************************************************************************)
Turns(x, q) == (x.bdi[q].index + ListSize - x.offset) % ListSize

Remaining(x, h, q) == 2 * (Turns(x, q) + 1) - (IF h THEN 1 ELSE 0)

Lasts(p, age, n) ==
    /\ p \in Lasting[n]
    /\ \A i \in 0..n : LET left == bgp_damp_decay(age + i, p)
                       IN  Retained(left) /\ (left >= Reuse => left \in Lasting[n - i])

Timely(x, h, q) == Damped(x, q) => Lasts(x.bdi[q].penalty, x.bdi[q].age, Remaining(x, h, q))

LEMMA TurnsIn ==
    ASSUME NEW i \in List, NEW o \in List
    PROVE  /\ (i + ListSize - o) % ListSize \in List
           /\ (i + ListSize - o) % ListSize = IF i >= o THEN i - o ELSE i + ListSize - o
<1>1. ListSize \in Nat /\ ListSize > 0 /\ i \in 0..(ListSize - 1) /\ o \in 0..(ListSize - 1)
  BY DampAssumption DEF List
<1>2. CASE i >= o
  <2>1. i - o \in 0..(ListSize - 1) /\ i + ListSize - o = (i - o) + ListSize
    BY <1>1, <1>2
  <2>2. ((i - o) + ListSize) % ListSize = i - o
    BY <1>1, <2>1, SMTT(30)
  <2> QED
    BY <1>1, <1>2, <2>1, <2>2 DEF List
<1>3. CASE ~(i >= o)
  <2>1. i + ListSize - o \in 0..(ListSize - 1)
    BY <1>1, <1>3
  <2>2. (i + ListSize - o) % ListSize = i + ListSize - o
    BY <1>1, <2>1, SMTT(30)
  <2> QED
    BY <1>1, <1>3, <2>1, <2>2 DEF List
<1> QED
  BY <1>2, <1>3

LEMMA RemainingIn ==
    ASSUME NEW x \in State, NEW q, x.bdi[q].index \in List, NEW h \in BOOLEAN
    PROVE  Turns(x, q) \in List /\ Remaining(x, h, q) \in 1..(2 * ListSize)
<1>1. x.offset \in List
  BY DEF State
<1>2. Turns(x, q) \in List
  BY <1>1, TurnsIn DEF Turns
<1>3. ListSize \in Nat
  BY DampAssumption
<1> QED
  BY <1>2, <1>3 DEF Remaining, List

\* A route that was put on its list just now.
LEMMA TurnsFresh ==
    ASSUME NEW x \in State, NEW q, NEW p, x.bdi[q].index = bgp_reuse_index(x, p)
    PROVE  Turns(x, q) = Distance(p)
<1> DEFINE o == x.offset
           d == Distance(p)
           i == x.bdi[q].index
<1>1. /\ ListSize \in Nat /\ ListSize > 0 /\ o \in List /\ d \in List /\ i \in List
      /\ i = (o + d) % ListSize
  <2>1. ListSize \in Nat /\ ListSize > 0
    BY DampAssumption
  <2>2. o \in List
    BY DEF State
  <2>3. Distance(p) \in List /\ bgp_reuse_index(x, p) \in List
    BY IndexIsList
  <2>4. bgp_reuse_index(x, p) = (o + d) % ListSize
    BY DEF bgp_reuse_index
  <2> QED
    BY <2>1, <2>2, <2>3, <2>4
<1>2. Turns(x, q) = IF i >= o THEN i - o ELSE i + ListSize - o
  BY <1>1, TurnsIn DEF Turns
<1> HIDE DEF o, d, i
<1>3. o \in 0..(ListSize - 1) /\ d \in 0..(ListSize - 1)
  BY <1>1 DEF List
<1>4. CASE o + d < ListSize
  <2>1. i = o + d
    BY <1>1, <1>3, <1>4, SMTT(30)
  <2> QED
    BY <1>2, <1>3, <2>1 DEF d
<1>5. CASE ~(o + d < ListSize)
  <2> DEFINE j == o + d - ListSize
  <2>1. j \in 0..(ListSize - 1) /\ o + d = j + ListSize /\ j < o
    BY <1>1, <1>3, <1>5
  <2> HIDE DEF j
  <2>2. (j + ListSize) % ListSize = j
    BY <1>1, <2>1, SMTT(30)
  <2>3. i = j
    BY <1>1, <2>1, <2>2
  <2> QED
    BY <1>1, <1>2, <1>3, <2>1, <2>3 DEF d
<1> QED
  BY <1>4, <1>5

LEMMA FreshLasts ==
    ASSUME NEW n \in 0..(2 * ListSize), NEW p \in Lasting[n]
    PROVE  Lasts(p, 0, n)
<1>1. ASSUME NEW i \in 0..n
      PROVE  LET left == bgp_damp_decay(0 + i, p)
             IN  Retained(left) /\ (left >= Reuse => left \in Lasting[n - i])
  <2>1. n \in Nat /\ 0 + i = i
    BY DampAssumption
  <2> DEFINE left == bgp_damp_decay(i, p)
  <2>2. Retained(left) /\ (i > 0 /\ left >= Reuse => left \in Lasting[n - i])
    BY LastingIs
  <2>3. i = 0 => left = p /\ n - i = n
    BY <2>1 DEF bgp_damp_decay
  <2> HIDE DEF left
  <2>4. left >= Reuse => left \in Lasting[n - i]
    BY <2>1, <2>2, <2>3
  <2> QED
    BY <2>1, <2>2, <2>4 DEF left
<1> QED
  BY <1>1 DEF Lasts

\* DELTA_T later.
LEMMA OlderLasts ==
    ASSUME NEW n \in 1..(2 * ListSize), NEW age \in Nat, NEW p, Lasts(p, age, n),
           NEW later, later = IF age < Len(DecayArray) THEN age + 1 ELSE age
    PROVE  Lasts(p, later, n - 1)
<1>1. n \in Nat /\ n - 1 \in 0..(2 * ListSize) /\ Len(DecayArray) \in Nat /\ Reuse \in Nat \ {0}
  BY DampAssumption, Limits
<1>2. p \in Lasting[n - 1]
  BY LastingShrinks DEF Lasts
<1>3. CASE later = age + 1
  <2>1. ASSUME NEW i \in 0..(n - 1)
        PROVE  LET left == bgp_damp_decay(later + i, p)
               IN  Retained(left) /\ (left >= Reuse => left \in Lasting[(n - 1) - i])
    <3> DEFINE j == i + 1
    <3>1. j \in 0..n /\ age + j = later + i /\ n - j = (n - 1) - i
      BY <1>1, <1>3
    <3> HIDE DEF j
    <3>2. LET left == bgp_damp_decay(age + j, p)
          IN  Retained(left) /\ (left >= Reuse => left \in Lasting[n - j])
      BY <3>1 DEF Lasts
    <3> QED
      BY <3>1, <3>2
  <2> QED
    BY <1>2, <2>1 DEF Lasts
<1>4. CASE later # age + 1
  <2>1. later = age /\ age >= Len(DecayArray)
    BY <1>1, <1>4
  <2>2. 0 \in 0..n /\ age + 0 = age
    BY <1>1
  <2>3. Retained(bgp_damp_decay(age, p))
    BY <2>2 DEF Lasts
  <2>4. age = 0
    <3>1. SUFFICES ASSUME age # 0 PROVE FALSE
      OBVIOUS
    <3>2. bgp_damp_decay(age, p) = 0
      BY <2>1, <3>1 DEF bgp_damp_decay
    <3> QED
      BY <1>1, <2>3, <3>2 DEF Retained
  <2>5. Lasts(p, 0, n - 1)
    BY <1>1, <1>2, FreshLasts
  <2> QED
    BY <2>1, <2>4, <2>5
<1> QED
  BY <1>3, <1>4

\* What the reuse timer, an announcement or a withdrawal find.
LEMMA TimelyFinds ==
    ASSUME NEW x \in State, NEW h \in BOOLEAN, NEW q \in Route, Sound(x, q), Damped(x, q),
           Timely(x, h, q)
    PROVE  /\ Remaining(x, h, q) \in 1..(2 * ListSize)
           /\ Retained(Decayed(x, q)) /\ x.bdi[q].penalty \in Lasting[Remaining(x, h, q)]
           /\ Decayed(x, q) >= Reuse => Decayed(x, q) \in Lasting[Remaining(x, h, q)]
<1> DEFINE n == Remaining(x, h, q)
           p == x.bdi[q].penalty
           age == x.bdi[q].age
<1>1. n \in 1..(2 * ListSize) /\ x.bdi[q] \in DampInfo
  BY RemainingIn DEF Sound, State, Bdi
<1>2. Lasts(p, age, n)
  BY DEF Timely
<1>3. n \in Nat /\ age \in Nat
  BY <1>1, Limits, DampAssumption
<1> HIDE DEF n, p, age
<1>4. 0 \in 0..n /\ age + 0 = age /\ n - 0 = n
  BY <1>3
<1>5. LET left == bgp_damp_decay(age + 0, p)
      IN  Retained(left) /\ (left >= Reuse => left \in Lasting[n - 0])
  BY <1>2, <1>4 DEF Lasts
<1>6. Decayed(x, q) = bgp_damp_decay(age, p)
  BY DEF Decayed, age, p
<1>7. Retained(Decayed(x, q)) /\ (Decayed(x, q) >= Reuse => Decayed(x, q) \in Lasting[n])
  BY <1>4, <1>5, <1>6
<1> QED
  BY <1>1, <1>2, <1>7 DEF Lasts, n, p

\* A penalty that was counted just now, and lasts.
LEMMA TimelyFresh ==
    ASSUME NEW x \in State, NEW h \in BOOLEAN, NEW q \in Route, x.bdi[q].index \in List,
           x.bdi[q].age = 0, x.bdi[q].penalty \in Lasting[Remaining(x, h, q)]
    PROVE  Timely(x, h, q)
<1> DEFINE n == Remaining(x, h, q)
<1>1. n \in 1..(2 * ListSize) /\ ListSize \in Nat
  BY RemainingIn, DampAssumption
<1>2. n \in 0..(2 * ListSize)
  BY <1>1
<1> HIDE DEF n
<1>3. x.bdi[q].penalty \in Lasting[n]
  BY DEF n
<1>4. Lasts(x.bdi[q].penalty, 0, n)
  BY <1>2, <1>3, FreshLasts
<1> QED
  BY <1>4 DEF Timely, n

\* A route that was put on its list just now, with a penalty of Listed.
LEMMA TimelyListed ==
    ASSUME NEW x \in State, NEW h \in BOOLEAN, NEW q \in Route, x.bdi[q].age = 0,
           NEW p, p = x.bdi[q].penalty, p \in Listed, x.bdi[q].index = bgp_reuse_index(x, p)
    PROVE  Timely(x, h, q)
<1> DEFINE d == Distance(p)
           n == 2 * (d + 1)
           m == Remaining(x, h, q)
<1>1. x.bdi[q].index \in List /\ d \in List /\ ListSize \in Nat
  BY IndexIsList, DampAssumption
<1>2. p \in Lasting[n]
  BY TablesAssumption DEF TablesFit
<1>3. m = IF h THEN n - 1 ELSE n
  <2>1. Turns(x, q) = d
    BY TurnsFresh
  <2>2. m = n - (IF h THEN 1 ELSE 0)
    BY <2>1 DEF Remaining
  <2>3. n \in Nat
    BY <1>1 DEF List
  <2> HIDE DEF m, n
  <2> QED
    BY <2>2, <2>3
<1>4. n \in 1..(2 * ListSize)
  BY <1>1 DEF List
<1> HIDE DEF n, m
<1>5. p \in Lasting[n - 1]
  BY <1>2, <1>4, LastingShrinks
<1>6. p \in Lasting[m]
  BY <1>2, <1>3, <1>5
<1> QED
  BY <1>1, <1>6, TimelyFresh DEF m

LEMMA TimelyOthers ==
    ASSUME NEW x, NEW y, NEW r, NEW q \in Route, q # r, Others(x, y, r), Sound(x, q),
           NEW h, Timely(x, h, q)
    PROVE  Timely(y, h, q)
<1>1. y.offset = x.offset /\ y.info[q] = x.info[q] /\ SameData(x.bdi[q], y.bdi[q])
  BY DEF Others
<1>2. CASE Damped(x, q)
  <2>1. x.bdi[q] # None
    BY <1>2 DEF Sound
  <2> QED
    BY <1>1, <2>1 DEF Timely, Damped, SameData, Remaining, Turns
<1>3. CASE ~Damped(x, q)
  BY <1>1, <1>3 DEF Timely, Damped
<1> QED
  BY <1>2, <1>3

-----------------------------------------------------------------------------
(***************************************************************************)
(* All is in order, and every suppressed route that is on a list will be   *)
(* looked at in time.                                                      *)
(***************************************************************************)
Ok(x, h, r, P) == Sane(x, r, P) /\ \A q \in Route : q \notin P => Timely(x, h, q)

LEMMA OkStep ==
    ASSUME NEW x, NEW y, NEW h, NEW r, NEW P, Ok(x, h, r, P), Sane(y, r, P), Others(x, y, r),
           Timely(y, h, r)
    PROVE  Ok(y, h, r, P)
<1>1. ASSUME NEW q \in Route, q \notin P PROVE Timely(y, h, q)
  <2>1. CASE q = r
    BY <2>1
  <2>2. CASE q # r
    <3>1. Sound(x, q) /\ Timely(x, h, q)
      BY <1>1 DEF Ok, Sane
    <3> QED
      BY <2>2, <3>1, TimelyOthers
  <2> QED
    BY <2>1, <2>2
<1> QED
  BY <1>1 DEF Ok

\* Work on one route, and on none.
LEMMA OkOpen ==
    ASSUME NEW x, NEW h, NEW r \in Route, NEW P, Ok(x, h, None, P)
    PROVE  Ok(x, h, r, P) /\ Agree(x, r)
BY DampAssumption DEF Ok, Sane, Tallied

LEMMA OkClose ==
    ASSUME NEW x, NEW h, NEW r, NEW P, Ok(x, h, r, P), Agree(x, r)
    PROVE  Ok(x, h, None, P)
BY DampAssumption DEF Ok, Sane, Tallied

\* Flags and attributes of r change, but not HISTORY and DAMPED.
Retagged(x, y, r) ==
    /\ y \in State
    /\ y.bdi = x.bdi /\ y.reuse = x.reuse /\ y.noReuse = x.noReuse /\ y.offset = x.offset
    /\ \A q \in Route : q # r => y.info[q] = x.info[q]
    /\ \A g \in {"HISTORY", "DAMPED"} : Has(y.info[r], g) <=> Has(x.info[r], g)

LEMMA OkRetagged ==
    ASSUME NEW x, NEW y, NEW h, NEW r \in Route, NEW P, Ok(x, h, r, P), Retagged(x, y, r), Tallied(y, r)
    PROVE  Ok(y, h, r, P) /\ Others(x, y, r)
<1>1. \A q \in Route : (Damped(y, q) <=> Damped(x, q))
                       /\ (Has(y.info[q], "HISTORY") <=> Has(x.info[q], "HISTORY"))
  BY DEF Retagged, Damped
<1>2. \A j : On(y, j) = On(x, j)
  BY <1>1 DEF On, Where, Retagged
<1>3. ListsOf(y, P)
  <2>1. \A j \in AnyList : HeadOf(y, j) = HeadOf(x, j) /\ On(y, j) = On(x, j)
    BY <1>2 DEF HeadOf, Retagged
  <2> QED
    BY <2>1 DEF ListsOf, Ok, Sane, Retagged
<1>4. \A q \in Route : Sound(y, q)
  BY <1>1 DEF Sound, Ok, Sane, Retagged
<1>5. \A q \in Route : Timely(x, h, q) => Timely(y, h, q)
  BY <1>1 DEF Timely, Remaining, Turns, Retagged
<1>6. Sane(y, r, P)
  BY <1>3, <1>4 DEF Sane, Retagged
<1> QED
  BY <1>5, <1>6 DEF Ok, Others, SameData, Retagged

LEMMA OkSet ==
    ASSUME NEW x, NEW h, NEW r \in Route, NEW P, Ok(x, h, r, P),
           NEW f \in {"SELECTED", "ATTR_CHANGED", "VALID"}, f = "VALID" => Present(x.info[r])
    PROVE  LET y == SetFlag(x, r, f)
           IN  /\ Ok(y, h, r, P) /\ Others(x, y, r) /\ Reflagged(x, y, r)
               /\ OtherFlags(x, y, r, f)
               /\ f = "VALID" \/ Agree(x, r) => Agree(y, r)
<1> DEFINE y == SetFlag(x, r, f)
<1>1. f \in Flag \ {"COUNTED"} /\ (f = "VALID" => f \in Deciding) /\ f \notin {"HISTORY", "DAMPED"}
  BY FlagKinds
<1>2. x \in State /\ Tallied(x, r)
  BY DEF Ok, Sane
<1>3. /\ Reflagged(x, y, r) /\ Tallied(y, r) /\ OtherFlags(x, y, r, f)
      /\ f \in Deciding \/ Agree(x, r) => Agree(y, r)
  BY <1>1, <1>2, SetFlagTallied
<1> HIDE DEF y
<1>4. Retagged(x, y, r)
  BY <1>1, <1>3 DEF Reflagged, Retagged, OtherFlags, Flag
<1>5. Ok(y, h, r, P) /\ Others(x, y, r)
  BY <1>3, <1>4, OkRetagged
<1> QED
  BY <1>1, <1>3, <1>5 DEF y

LEMMA OkUnset ==
    ASSUME NEW x, NEW h, NEW r \in Route, NEW P, Ok(x, h, r, P), NEW f \in {"SELECTED", "ATTR_CHANGED"}
    PROVE  LET y == UnsetFlag(x, r, f)
           IN  /\ Ok(y, h, r, P) /\ Others(x, y, r) /\ Reflagged(x, y, r)
               /\ OtherFlags(x, y, r, f)
               /\ Agree(x, r) => Agree(y, r)
<1> DEFINE y == UnsetFlag(x, r, f)
<1>1. f \in Flag \ {"COUNTED"} /\ f \notin {"HISTORY", "DAMPED"}
  BY FlagKinds
<1>2. x \in State /\ Tallied(x, r)
  BY DEF Ok, Sane
<1>3. /\ Reflagged(x, y, r) /\ Tallied(y, r) /\ OtherFlags(x, y, r, f)
      /\ Agree(x, r) => Agree(y, r)
  BY <1>1, <1>2, UnsetFlagTallied
<1> HIDE DEF y
<1>4. Retagged(x, y, r)
  BY <1>1, <1>3 DEF Reflagged, Retagged, OtherFlags, Flag
<1>5. Ok(y, h, r, P) /\ Others(x, y, r)
  BY <1>3, <1>4, OkRetagged
<1> QED
  BY <1>3, <1>5 DEF y

LEMMA OkDelete ==
    ASSUME NEW x, NEW h, NEW r \in Route, NEW P, Ok(x, h, r, P)
    PROVE  LET y == Flagged(x, r, bgp_info_delete(Pair(x, r)))
           IN  Ok(y, h, r, P) /\ Others(x, y, r) /\ Agree(y, r) /\ y.bdi = x.bdi
<1> DEFINE y == Flagged(x, r, bgp_info_delete(Pair(x, r)))
<1>1. x \in State /\ Tallied(x, r)
  BY DEF Ok, Sane
<1>2. /\ Reflagged(x, y, r) /\ Tallied(y, r) /\ Agree(y, r)
      /\ \A g \in {"HISTORY", "DAMPED"} : Has(y.info[r], g) <=> Has(x.info[r], g)
  BY <1>1, DeleteTallied
<1> HIDE DEF y
<1>3. Retagged(x, y, r)
  BY <1>2 DEF Reflagged, Retagged
<1>4. Ok(y, h, r, P) /\ Others(x, y, r)
  BY <1>2, <1>3, OkRetagged
<1> QED
  BY <1>2, <1>4 DEF y, Reflagged

LEMMA OkRestore ==
    ASSUME NEW x, NEW h, NEW r \in Route, NEW P, Ok(x, h, r, P), Present(x.info[r])
    PROVE  LET y == Flagged(x, r, bgp_info_restore(Pair(x, r)))
           IN  Ok(y, h, r, P) /\ Others(x, y, r) /\ Reflagged(x, y, r)
               /\ \A g \in {"HISTORY", "DAMPED"} : Has(y.info[r], g) <=> Has(x.info[r], g)
<1> DEFINE y == Flagged(x, r, bgp_info_restore(Pair(x, r)))
<1>1. x \in State /\ Tallied(x, r)
  BY DEF Ok, Sane
<1>2. /\ Reflagged(x, y, r) /\ Tallied(y, r)
      /\ \A g \in {"HISTORY", "DAMPED"} : Has(y.info[r], g) <=> Has(x.info[r], g)
  BY <1>1, RestoreTallied
<1> HIDE DEF y
<1>3. Retagged(x, y, r)
  BY <1>2 DEF Reflagged, Retagged
<1>4. Ok(y, h, r, P) /\ Others(x, y, r)
  BY <1>2, <1>3, OkRetagged
<1> QED
  BY <1>2, <1>4 DEF y

\* Other attributes.
LEMMA OkAttr ==
    ASSUME NEW x, NEW h, NEW r \in Route, NEW P, Ok(x, h, r, P), NEW a \in Attr
    PROVE  LET y == [x EXCEPT !.info[r].attr = a]
           IN  /\ Ok(y, h, r, P) /\ Others(x, y, r) /\ y.bdi = x.bdi
               /\ Present(y.info[r]) /\ (Agree(x, r) => Agree(y, r))
               /\ y.info[r].flags = x.info[r].flags
<1> DEFINE y == [x EXCEPT !.info[r].attr = a]
           i == [x.info[r] EXCEPT !.attr = a]
           t == [x.info EXCEPT ![r] = i]
<1>1. x \in State /\ Tallied(x, r) /\ x.info \in [Route -> Info]
  BY DEF Ok, Sane, State
<1>2. i \in Info /\ i.attr = a /\ i.flags = x.info[r].flags
  BY <1>1 DEF Info
<1>3. Present(i)
  BY <1>2, NoAttrAssumption DEF Present
<1>4. t \in [Route -> Info] /\ t[r] = i /\ \A q \in Route : q # r => t[q] = x.info[q]
  BY <1>1, <1>2
<1>5. /\ y \in State /\ y.info = t /\ y.bdi = x.bdi /\ y.reuse = x.reuse /\ y.noReuse = x.noReuse
      /\ y.offset = x.offset /\ y.pc = x.pc
  BY <1>1, <1>4 DEF State
<1> HIDE DEF y, t, i
<1>6. \A q \in Route : \A g : Has(y.info[q], g) <=> Has(x.info[q], g)
  BY <1>2, <1>4, <1>5 DEF Has
<1>7. CountedIn(y) = CountedIn(x)
  BY <1>6 DEF CountedIn
<1>8. Tallied(y, r)
  BY <1>1, <1>3, <1>4, <1>5, <1>6, <1>7 DEF Tallied, Agree
<1>9. Retagged(x, y, r)
  BY <1>4, <1>5, <1>6 DEF Retagged
<1>10. Ok(y, h, r, P) /\ Others(x, y, r)
  BY <1>8, <1>9, OkRetagged
<1>11. Agree(x, r) => Agree(y, r)
  BY <1>2, <1>4, <1>5 DEF Agree, HOLDDOWN, Has
<1> QED
  BY <1>2, <1>3, <1>4, <1>5, <1>10, <1>11 DEF y

LEMMA OkWithdrawn ==
    ASSUME NEW x, NEW h \in BOOLEAN, NEW r \in Route, NEW P, r \notin P, Ok(x, h, r, P),
           NEW more \in {Penalty, Penalty \div 2}
    PROVE  LET y == bgp_damp_withdraw(x, r, more)
           IN  /\ Ok(y, h, r, P) /\ Others(x, y, r) /\ Agree(y, r)
               /\ Has(y.info[r], "HISTORY") /\ y.info[r].attr = x.info[r].attr
<1> DEFINE y == bgp_damp_withdraw(x, r, more)
           e == x.bdi[r]
           left == Decayed(x, r)
<1>1. Sane(x, r, P) /\ x \in State /\ Sound(x, r) /\ Timely(x, h, r)
  BY DEF Ok, Sane
<1>2. /\ Sane(y, r, P) /\ Others(x, y, r) /\ Agree(y, r) /\ y.bdi[r] # None
      /\ Has(y.info[r], "HISTORY") /\ y.info[r].attr = x.info[r].attr
      /\ Damped(y, r) =>
            /\ y.bdi[r].age = 0
            /\ \/ Damped(x, r) /\ y.bdi[r].penalty = e.penalty /\ y.bdi[r].index = e.index
               \/ /\ y.bdi[r].index = bgp_reuse_index(y, y.bdi[r].penalty)
                  /\ \/ y.bdi[r].penalty >= Suppress
                     \/ Damped(x, r) /\ y.bdi[r].penalty = Capped(left + more)
  BY <1>1, Withdrawn DEF Decayed
<1> HIDE DEF y, left
<1>3. y \in State /\ Sound(y, r)
  BY <1>2 DEF Sane
<1>4. y.bdi[r].penalty \in 0..Highest /\ Reuse \in Nat /\ Suppress \in Nat
  BY <1>2, <1>3, Limits, DampAssumption DEF State, Bdi
<1>5. ASSUME Damped(y, r) PROVE Timely(y, h, r)
  <2>1. CASE Damped(x, r) /\ y.bdi[r].penalty = e.penalty /\ y.bdi[r].index = e.index
    <3>1. Remaining(y, h, r) = Remaining(x, h, r)
      BY <1>2, <2>1 DEF Remaining, Turns, Others
    <3>2. e.penalty \in Lasting[Remaining(x, h, r)]
      BY <1>1, <2>1, TimelyFinds
    <3>3. y.bdi[r].index \in List
      BY <1>3, <1>5 DEF Sound
    <3> QED
      BY <1>2, <1>3, <1>5, <2>1, <3>1, <3>2, <3>3, TimelyFresh
  <2> DEFINE p == y.bdi[r].penalty
  <2>2. ASSUME p \in Listed, y.bdi[r].index = bgp_reuse_index(y, p) PROVE Timely(y, h, r)
    BY <1>2, <1>3, <1>5, <2>2, TimelyListed
  <2>3. CASE y.bdi[r].index = bgp_reuse_index(y, p) /\ p >= Suppress
    <3>1. p \in Listed
      BY <1>4, <2>3, DampAssumption DEF Listed
    <3> QED
      BY <2>2, <2>3, <3>1
  <2>4. CASE y.bdi[r].index = bgp_reuse_index(y, p) /\ Damped(x, r) /\ p = Capped(left + more)
    <3>1. Retained(left) /\ left \in 0..Highest
      <4>1. Retained(Decayed(x, r))
        BY <1>1, <2>4, TimelyFinds
      <4>2. x.bdi[r] # None
        BY <1>1, <2>4 DEF Sound
      <4> QED
        BY <1>1, <4>1, <4>2, DecayedBound DEF left
    <3>2. p \in Listed
      BY <1>4, <2>4, <3>1 DEF Listed
    <3> QED
      BY <2>2, <2>4, <3>2
  <2> QED
    BY <1>2, <1>5, <2>1, <2>3, <2>4
<1>6. Timely(y, h, r)
  BY <1>5 DEF Timely
<1>7. Ok(y, h, r, P)
  BY <1>2, <1>6, OkStep
<1> QED
  BY <1>2, <1>7 DEF y

LEMMA OkUpdated ==
    ASSUME NEW x, NEW h \in BOOLEAN, NEW r \in Route, NEW P, r \notin P, Ok(x, h, r, P)
    PROVE  LET y == bgp_damp_update(x, r)
           IN  /\ Ok(y, h, r, P) /\ Others(x, y, r) /\ y.info[r].attr = x.info[r].attr
               /\ x.bdi[r] = None => y = x
               /\ x.bdi[r] # None => Agree(y, r) /\ ~Has(y.info[r], "HISTORY")
<1> DEFINE y == bgp_damp_update(x, r)
<1>1. Sane(x, r, P) /\ x \in State /\ Sound(x, r) /\ Timely(x, h, r)
  BY DEF Ok, Sane
<1>2. /\ Sane(y, r, P) /\ Others(x, y, r) /\ y.info[r].attr = x.info[r].attr
      /\ x.bdi[r] = None => y = x
      /\ x.bdi[r] # None => Agree(y, r) /\ ~Has(y.info[r], "HISTORY")
      /\ Damped(y, r) => /\ Damped(x, r) /\ y.bdi[r].age = 0 /\ y.bdi[r].index = x.bdi[r].index
                         /\ y.bdi[r].penalty = Decayed(x, r) /\ y.bdi[r].penalty >= Reuse
  BY <1>1, Updated
<1> HIDE DEF y
<1>3. y \in State /\ Sound(y, r)
  BY <1>2 DEF Sane
<1>4. ASSUME Damped(y, r) PROVE Timely(y, h, r)
  <2>1. Remaining(y, h, r) = Remaining(x, h, r) /\ Damped(x, r)
    BY <1>2, <1>4 DEF Remaining, Turns, Others
  <2>2. y.bdi[r].penalty \in Lasting[Remaining(x, h, r)]
    BY <1>1, <1>2, <1>4, <2>1, TimelyFinds
  <2>3. y.bdi[r].index \in List
    BY <1>3, <1>4 DEF Sound
  <2> QED
    BY <1>2, <1>3, <1>4, <2>1, <2>2, <2>3, TimelyFresh
<1>5. Timely(y, h, r)
  BY <1>4 DEF Timely
<1>6. Ok(y, h, r, P)
  BY <1>2, <1>5, OkStep
<1> QED
  BY <1>2, <1>6 DEF y

LEMMA OkFreed ==
    ASSUME NEW x, NEW h, NEW r \in Route, NEW P, r \notin P, Ok(x, h, r, P), x.bdi[r] # None,
           NEW withdraw \in BOOLEAN
    PROVE  LET y == bgp_damp_info_free(x, r, withdraw)
           IN  /\ Ok(y, h, r, P) /\ Others(x, y, r) /\ y.bdi[r] = None /\ Agree(y, r)
               /\ ~Has(y.info[r], "HISTORY") /\ ~Damped(y, r)
               /\ \A j \in List : j # Where(x, r) => y.reuse[j] = x.reuse[j]
               /\ Where(x, r) # NoReuse => y.noReuse = x.noReuse
               /\ ~withdraw => (Has(y.info[r], "REMOVED") <=> Has(x.info[r], "REMOVED"))
<1> DEFINE y == bgp_damp_info_free(x, r, withdraw)
<1>1. Sane(x, r, P)
  BY DEF Ok
<1>2. /\ Sane(y, r, P) /\ Others(x, y, r) /\ y.bdi[r] = None /\ Agree(y, r)
      /\ ~Has(y.info[r], "HISTORY") /\ ~Damped(y, r)
      /\ \A j \in List : j # Where(x, r) => y.reuse[j] = x.reuse[j]
      /\ Where(x, r) # NoReuse => y.noReuse = x.noReuse
      /\ ~withdraw => (Has(y.info[r], "REMOVED") <=> Has(x.info[r], "REMOVED"))
  BY <1>1, Freed
<1> HIDE DEF y
<1>3. Timely(y, h, r)
  BY <1>2 DEF Timely
<1>4. Ok(y, h, r, P)
  BY <1>2, <1>3, OkStep
<1> QED
  BY <1>2, <1>4 DEF y

LEMMA OkScannedOne ==
    ASSUME NEW x, NEW h, NEW r \in Route, NEW P, r \notin P, Ok(x, h, None, P)
    PROVE  Ok(bgp_damp_scan(x, r), h, None, P)
<1> DEFINE y == bgp_damp_scan(x, r)
<1>1. Ok(x, h, r, P) /\ Agree(x, r)
  BY OkOpen
<1>2. Sane(x, r, P) /\ Timely(x, h, r)
  BY <1>1 DEF Ok
<1>3. Sane(y, r, P) /\ Others(x, y, r) /\ Agree(y, r) /\ (Damped(y, r) => y = x)
  BY <1>1, <1>2, ScannedOne
<1> HIDE DEF y
<1>4. Timely(y, h, r)
  BY <1>2, <1>3 DEF Timely
<1>5. Ok(y, h, r, P)
  BY <1>1, <1>3, <1>4, OkStep
<1> QED
  BY <1>3, <1>5, OkClose DEF y

\* A route of P is looked at by the reuse timer, which has just run.
LEMMA OkLookedAt ==
    ASSUME NEW x, NEW P, NEW r \in P, P \subseteq Route, Ok(x, FALSE, None, P),
           Damped(x, r), Retained(Decayed(x, r))
    PROVE  LET y == ReuseOne(x, r)
           IN  Ok(y, FALSE, None, P \ {r}) /\ Others(x, y, r)
<1> DEFINE y == ReuseOne(x, r)
           Q == P \ {r}
           h == FALSE
<1>1. /\ r \in Route /\ r \notin Q /\ h \in BOOLEAN /\ Agree(x, r)
      /\ x \in State /\ Tallied(x, r) /\ Lists(x, r, Nowhere, Q) /\ \A q \in Route : Sound(x, q)
  BY OkOpen, NextWaiting DEF Ok, Sane
<1>2. x.bdi[r] # None
  BY <1>1 DEF Sound
<1>3. Mid(x, r, Nowhere, Q)
  BY <1>1 DEF Mid
<1>4. /\ Sane(y, r, Q) /\ Others(x, y, r) /\ Agree(y, r)
      /\ Damped(y, r) => /\ y.bdi[r].age = 0 /\ y.bdi[r].penalty >= Reuse
                         /\ y.bdi[r].index = bgp_reuse_index(y, y.bdi[r].penalty)
  <2> HIDE DEF Q
  <2> QED
    BY <1>1, <1>2, <1>3, LookedAt
<1> HIDE DEF y, Q, h
<1>5. y \in State /\ Sound(y, r)
  BY <1>1, <1>4 DEF Sane
<1>6. Timely(y, h, r)
  <2>1. ASSUME Damped(y, r) PROVE Timely(y, h, r)
    <3> DEFINE p == y.bdi[r].penalty
    <3>1. y.bdi[r] \in DampInfo
      BY <1>1, <1>5, <2>1 DEF Sound, State, Bdi
    <3>2. p \in 0..Highest
      BY <3>1, Limits
    <3>3. p \in Listed
      BY <1>4, <2>1, <3>2 DEF Listed
    <3> QED
      BY <1>1, <1>4, <1>5, <2>1, <3>3, TimelyListed
  <2> QED
    BY <2>1 DEF Timely
<1>7. ASSUME NEW q \in Route, q \notin Q PROVE Timely(y, h, q)
  <2>1. CASE q = r
    BY <1>6, <2>1
  <2>2. CASE q # r
    <3>1. q \notin P /\ Sound(x, q) /\ Timely(x, h, q)
      BY <1>1, <1>7, <2>2 DEF Ok, Q, h
    <3> QED
      BY <1>4, <2>2, <3>1, TimelyOthers
  <2> QED
    BY <2>1, <2>2
<1>8. Ok(y, h, r, Q)
  BY <1>4, <1>7 DEF Ok
<1>9. Ok(y, h, None, Q)
  BY <1>4, <1>8, OkClose
<1> QED
  BY <1>4, <1>9 DEF y, Q, h

-----------------------------------------------------------------------------
(***************************************************************************)
(* The walks along the lists and the table.                                *)
(***************************************************************************)
Advances(N, T, step) == \A n \in 1..N : \A x \in T[n - 1] : step[<<n, x>>] \in T[n]

Unfolds(f, S, N, T, first, step) ==
    /\ f \in [0..N -> S] /\ f[0] = first
    /\ \A n \in 1..N : f[n - 1] \in T[n - 1] /\ f[n] = step[<<n, f[n - 1]>>]

\* There is a function for a recursion whose values stay where the step is good.
LEMMA FoldDefined ==
    ASSUME NEW S, NEW N \in Nat, NEW T \in [0..N -> SUBSET S], NEW first \in T[0], NEW step,
           Advances(N, T, step)
    PROVE  \E f : Unfolds(f, S, N, T, first, step)
<1> DEFINE total == [q \in (1..N) \X S |-> IF step[q] \in S THEN step[q] ELSE first]
<1>1. first \in S /\ \A n \in 0..N : T[n] \subseteq S
  OBVIOUS
<1>2. total \in Steps(N, S)
  BY <1>1 DEF Steps
<1>3. \A n \in 1..N, x \in S : step[<<n, x>>] \in S => total[<<n, x>>] = step[<<n, x>>]
  OBVIOUS
<1> HIDE DEF total
<1>4. PICK f : Follows(f, N, S, first, total)
  BY <1>1, <1>2, Recursion
<1>5. ASSUME NEW n \in 1..N, f[n - 1] \in T[n - 1]
      PROVE  f[n] \in T[n] /\ f[n] = step[<<n, f[n - 1]>>]
  <2>1. n - 1 \in 0..N /\ n \in 0..N
    OBVIOUS
  <2>2. f[n - 1] \in S /\ step[<<n, f[n - 1]>>] \in T[n] /\ f[n] = total[<<n, f[n - 1]>>]
    BY <1>1, <1>4, <1>5, <2>1 DEF Follows, Advances
  <2>3. step[<<n, f[n - 1]>>] \in S
    BY <1>1, <2>1, <2>2
  <2> QED
    BY <1>3, <2>2, <2>3
<1>6. f[0] \in T[0]
  BY <1>4 DEF Follows
<1>7. \A n \in 0..N : f[n] \in T[n]
  BY <1>5, <1>6, Along
<1>8. \A n \in 1..N : f[n - 1] \in T[n - 1]
  BY <1>7
<1> QED
  BY <1>4, <1>5, <1>8 DEF Follows, Unfolds

LEMMA StrungNone ==
    ASSUME NEW b
    PROVE  Strung(b, None, {})
<1> DEFINE n == 0
           s == [i \in 1..n |-> None]
<1>1. n \in Nat /\ 1..n = {} /\ s \in [1..n -> Route] /\ {} = {s[i] : i \in 1..n}
  OBVIOUS
<1>2. Chain(b, None, n, s)
  BY <1>1 DEF Chain
<1> HIDE DEF n, s
<1> QED
  BY <1>1, <1>2 DEF Strung

\* The members of a list, one by one.
Enumerates(b, head, m, N, T) ==
    /\ N \in Nat /\ m \in [1..N -> Route] /\ Chain(b, head, N, m)
    /\ T = {m[i] : i \in 1..N}

LEMMA StrungMembers ==
    ASSUME NEW x, NEW head, NEW T, Strung(x.bdi, head, T),
           NEW m, m = Members(x, head), NEW N, N = Len(m)
    PROVE  Enumerates(x.bdi, head, m, N, T)
<1>1. PICK n \in Nat : \E s \in [1..n -> Route] :
          Chain(x.bdi, head, n, s) /\ T = {s[i] : i \in 1..n}
  BY DEF Strung
<1>2. PICK s \in [1..n -> Route] : Chain(x.bdi, head, n, s) /\ T = {s[i] : i \in 1..n}
  BY <1>1
<1>3. m = s
  BY <1>2, MembersOf
<1>4. Len(s) = n
  OBVIOUS
<1>5. N = n
  BY <1>3, <1>4
<1> QED
  BY <1>2, <1>3, <1>5 DEF Enumerates

LEMMA SaneOpen ==
    ASSUME NEW x, NEW r \in Route, NEW P, Sane(x, None, P)
    PROVE  Sane(x, r, P) /\ Agree(x, r)
BY DampAssumption DEF Sane, Tallied

LEMMA SaneClose ==
    ASSUME NEW x, NEW r, NEW P, Sane(x, r, P), Agree(x, r)
    PROVE  Sane(x, None, P)
BY DampAssumption DEF Sane, Tallied

\* Emptied, as a walk.
FreeStep(x, m, f, n) == IF n = 0 THEN x ELSE bgp_damp_info_free(f[n - 1], m[n], TRUE)

\* w comes from z by frees of routes on the list j; those of Q are still to be freed.
Freeing(z, w, j, Q) ==
    /\ Sane(w, None, {})
    /\ \A q \in Route : w.bdi[q] # None => z.bdi[q] # None /\ Where(w, q) = Where(z, q)
    /\ \A q \in Q : w.bdi[q] # None /\ Where(w, q) = j
    /\ \A i \in List : i # j => w.reuse[i] = z.reuse[i]
    /\ w.offset = z.offset

\* The bgp_damp_info of r is gone; none appears.
Gone(w, v, r) == v.bdi[r] = None /\ \A q \in Route : w.bdi[q] = None => v.bdi[q] = None

LEMMA FreeingStep ==
    ASSUME NEW z, NEW w, NEW j \in AnyList, NEW Q, Q \subseteq Route, Freeing(z, w, j, Q), NEW r \in Q,
           NEW v, v = bgp_damp_info_free(w, r, TRUE)
    PROVE  Freeing(z, v, j, Q \ {r}) /\ Gone(w, v, r)
<1> DEFINE t == TRUE
           P == {}
           u == bgp_damp_info_free(w, r, t)
<1>0. v = u
  OBVIOUS
<1>1. r \in Route /\ Sane(w, r, P) /\ r \notin P /\ w.bdi[r] # None /\ Where(w, r) = j /\ t \in BOOLEAN
  BY SaneOpen DEF Freeing
<1> HIDE DEF t, P
<1>2a. /\ Sane(u, r, P) /\ Others(w, u, r) /\ u.bdi[r] = None /\ Agree(u, r)
       /\ \A i \in List : i # Where(w, r) => u.reuse[i] = w.reuse[i]
  BY <1>1, Freed
<1> HIDE DEF u
<1>2. /\ Sane(v, r, P) /\ Others(w, v, r) /\ v.bdi[r] = None /\ Agree(v, r)
      /\ \A i \in List : i # Where(w, r) => v.reuse[i] = w.reuse[i]
  BY <1>0, <1>2a
<1>3. Sane(v, None, P)
  BY <1>2, SaneClose
<1>4. \A q \in Route : q # r => (v.bdi[q] # None <=> w.bdi[q] # None)
                                /\ (w.bdi[q] # None => Where(v, q) = Where(w, q))
  BY <1>2 DEF Others, SameData, Where, Damped
<1>5. v.offset = w.offset
  BY <1>2 DEF Others
<1>6. Freeing(z, v, j, Q \ {r})
  BY <1>1, <1>2, <1>3, <1>4, <1>5 DEF Freeing, P
<1> QED
  BY <1>2, <1>4, <1>6 DEF Gone

\* All members of the list j are freed.
LEMMA EmptiedList ==
    ASSUME NEW z, Sane(z, None, {}), NEW j \in AnyList, NEW head, head = HeadOf(z, j)
    PROVE  LET w == Emptied(z, head)
           IN  Freeing(z, w, j, {}) /\ On(w, j) = {}
<1> DEFINE m == Members(z, head)
           N == Len(m)
           Rest(n) == {m[i] : i \in (n + 1)..N}
           Done(w, n) == \A i \in 1..n : w.bdi[m[i]] = None
           T == [n \in 0..N |-> {w \in State : Freeing(z, w, j, Rest(n)) /\ Done(w, n)}]
           step == [q \in (1..N) \X State |-> bgp_damp_info_free(q[2], m[q[1]], TRUE)]
<1>1. Strung(z.bdi, head, On(z, j))
  BY DEF Sane, ListsOf
<1>1a. m = Members(z, head) /\ N = Len(m)
  OBVIOUS
<1> HIDE DEF m, N
<1>2. /\ N \in Nat /\ m \in [1..N -> Route] /\ Chain(z.bdi, head, N, m)
      /\ On(z, j) = {m[i] : i \in 1..N}
  <2>1. Enumerates(z.bdi, head, m, N, On(z, j))
    BY <1>1, <1>1a, StrungMembers
  <2> QED
    BY <2>1 DEF Enumerates
<1>3. \A n \in 1..N, w \in State : step[<<n, w>>] = bgp_damp_info_free(w, m[n], TRUE)
  OBVIOUS
<1> HIDE DEF step
<1>4. T \in [0..N -> SUBSET State]
  OBVIOUS
<1>5. \A n \in 0..N : \A w : w \in T[n] <=> w \in State /\ Freeing(z, w, j, Rest(n)) /\ Done(w, n)
  OBVIOUS
<1>6. z \in T[0]
  <2>1. Rest(0) = On(z, j) /\ 0 \in 0..N
    BY <1>2
  <2>2. \A q \in On(z, j) : z.bdi[q] # None /\ Where(z, q) = j
    BY DEF On
  <2>3. z \in State /\ Freeing(z, z, j, On(z, j))
    BY <2>2 DEF Freeing, Sane
  <2>4. Done(z, 0)
    OBVIOUS
  <2> HIDE DEF T, Rest, Done
  <2> QED
    BY <1>5, <2>1, <2>3, <2>4
<1>7. ASSUME NEW n \in 1..N, NEW w \in T[n - 1]
      PROVE  w \in State /\ bgp_damp_info_free(w, m[n], TRUE) \in T[n]
  <2> DEFINE r == m[n]
             v == bgp_damp_info_free(w, r, TRUE)
             k == n - 1
             Q == Rest(k)
  <2>1. k \in 0..N /\ n \in 0..N /\ n = k + 1
    BY <1>2
  <2>2. w \in State /\ Freeing(z, w, j, Q) /\ Done(w, k)
    <3> HIDE DEF T, Rest, Done
    <3> QED
      BY <1>5, <1>7, <2>1
  <2>3. r \in Q /\ Q \subseteq Route /\ r \in Route
    BY <1>2, <2>1
  <2>4. Q \ {r} = Rest(n)
    <3>1. \A i \in (n + 1)..N : m[i] # m[n] /\ i \in (k + 1)..N
      BY <1>2, <2>1 DEF Chain
    <3>2. \A i \in (k + 1)..N : m[i] # m[n] => i \in (n + 1)..N
      BY <1>2, <2>1
    <3> QED
      BY <3>1, <3>2
  <2> HIDE DEF Q, r
  <2>4a. v = bgp_damp_info_free(w, r, TRUE)
    OBVIOUS
  <2> HIDE DEF v
  <2>5. Freeing(z, v, j, Q \ {r}) /\ v.bdi[r] = None
        /\ \A q \in Route : w.bdi[q] = None => v.bdi[q] = None
    <3>1. Freeing(z, w, j, Q) /\ Q \subseteq Route /\ r \in Q /\ v = bgp_damp_info_free(w, r, TRUE)
      BY <2>2, <2>3, <2>4a
    <3> HIDE DEF T, Rest, Done
    <3>2. Freeing(z, v, j, Q \ {r}) /\ Gone(w, v, r)
      BY <3>1, FreeingStep
    <3> QED
      BY <3>2 DEF Gone
  <2>6. Done(v, n)
    <3>1. ASSUME NEW i \in 1..n PROVE v.bdi[m[i]] = None
      <4>1. CASE i = n
        BY <2>5, <4>1 DEF r
      <4>2. CASE i \in 1..k
        <5>1. w.bdi[m[i]] = None /\ m[i] \in Route
          BY <1>2, <2>1, <2>2, <4>2
        <5> QED
          BY <2>5, <5>1
      <4> QED
        BY <2>1, <4>1, <4>2
    <3> QED
      BY <3>1
  <2>7. v \in State
    BY <2>5 DEF Freeing, Sane
  <2>8. v \in T[n]
    <3> HIDE DEF T, Rest, Done
    <3> QED
      BY <1>5, <2>1, <2>4, <2>5, <2>6, <2>7
  <2> QED
    BY <2>2, <2>8 DEF v, r
<1>8. Advances(N, T, step)
  <2> HIDE DEF T
  <2> QED
    BY <1>3, <1>7 DEF Advances
<1> HIDE DEF T
<1>9. PICK g : Unfolds(g, State, N, T, z, step)
  BY <1>2, <1>4, <1>6, <1>8, FoldDefined
<1>10. ASSUME NEW n \in 0..N PROVE g[n] = FreeStep(z, m, g, n)
  <2>1. CASE n = 0
    BY <1>9, <2>1 DEF FreeStep, Unfolds
  <2>2. CASE n # 0
    <3>1. n \in 1..N
      BY <1>2, <2>2
    <3>2. g[n - 1] \in State /\ g[n] = step[<<n, g[n - 1]>>]
      BY <1>7, <1>9, <3>1 DEF Unfolds
    <3> QED
      BY <1>3, <2>2, <3>1, <3>2 DEF FreeStep
  <2> QED
    BY <2>1, <2>2
<1>11. g = [n \in 0..N |-> FreeStep(z, m, g, n)]
  BY <1>9, <1>10 DEF Unfolds
<1> DEFINE A == CHOOSE f : f = [n \in 0..N |-> FreeStep(z, m, f, n)]
<1>12. A = [n \in 0..N |-> FreeStep(z, m, A, n)]
  BY <1>11
<1>13. Emptied(z, head) = A[N]
  BY DEF Emptied, FreeStep, m, N
<1> HIDE DEF A
<1>14. \A n \in 0..N : A[n] = FreeStep(z, m, A, n)
  <2> DEFINE G == [n \in 0..N |-> FreeStep(z, m, A, n)]
  <2>1. \A n \in 0..N : G[n] = FreeStep(z, m, A, n)
    OBVIOUS
  <2>2. A = G
    BY <1>12
  <2> HIDE DEF G
  <2> QED
    BY <2>1, <2>2
<1>15. A[0] \in T[0]
  <2>1. 0 \in 0..N
    BY <1>2
  <2>2. A[0] = z
    BY <1>14, <2>1 DEF FreeStep
  <2> QED
    BY <1>6, <2>2
<1>16. ASSUME NEW n \in 1..N, A[n - 1] \in T[n - 1] PROVE A[n] \in T[n]
  <2>1. n \in 0..N /\ n # 0
    BY <1>2
  <2>2. A[n] = bgp_damp_info_free(A[n - 1], m[n], TRUE)
    BY <1>14, <2>1 DEF FreeStep
  <2> QED
    BY <1>7, <1>16, <2>2
<1>17. A[N] \in T[N]
  <2>1. \A n \in 0..N : A[n] \in T[n]
    BY <1>2, <1>15, <1>16, Along
  <2> QED
    BY <1>2, <2>1
<1> DEFINE w == A[N]
<1>18. Freeing(z, w, j, Rest(N)) /\ Done(w, N)
  <2> HIDE DEF Rest, Done
  <2> QED
    BY <1>2, <1>5, <1>17
<1>19. Rest(N) = {}
  BY <1>2
<1> HIDE DEF w
<1>20. On(w, j) = {}
  <2>1. SUFFICES ASSUME NEW q \in On(w, j) PROVE FALSE
    OBVIOUS
  <2>2. q \in Route /\ w.bdi[q] # None /\ Where(w, q) = j
    BY <2>1 DEF On
  <2>3. q \in On(z, j)
    BY <1>18, <2>2 DEF Freeing, On
  <2>4. PICK i \in 1..N : q = m[i]
    BY <1>2, <2>3
  <2>5. w.bdi[m[i]] = None
    BY <1>18
  <2> QED
    BY <2>2, <2>4, <2>5
<1>21. Freeing(z, w, j, {})
  BY <1>18, <1>19
<1> QED
  BY <1>13, <1>20, <1>21 DEF w

\* bgp_damp_info_clean, as a walk along the ring.
CleanStep(x, f, k) == IF k = 0 THEN [x EXCEPT !.offset = 0] ELSE Emptied(f[k - 1], x.reuse[k - 1])

\* The lists below k are empty, the others as they were.
Cleaning(x, w, k) ==
    /\ Sane(w, None, {})
    /\ \A i \in List : IF i < k THEN On(w, i) = {} ELSE w.reuse[i] = x.reuse[i]

LEMMA CleaningStep ==
    ASSUME NEW x, NEW w, NEW k \in List, Cleaning(x, w, k), NEW m, m = k + 1
    PROVE  Cleaning(x, Emptied(w, x.reuse[k]), m)
<1> DEFINE head == x.reuse[k]
           v == Emptied(w, head)
<1>1. k \in Nat /\ k \in AnyList /\ k # NoReuse /\ Sane(w, None, {})
  BY DampAssumption DEF List, AnyList, NoReuse, Cleaning
<1>2. head = HeadOf(w, k)
  BY <1>1 DEF HeadOf, Cleaning
<1> HIDE DEF head
<1>3. Freeing(w, v, k, {}) /\ On(v, k) = {}
  BY <1>1, <1>2, EmptiedList
<1> HIDE DEF v
<1>4. \A i : On(v, i) \subseteq On(w, i)
  BY <1>3 DEF Freeing, On
<1>5. ASSUME NEW i \in List
      PROVE  IF i < m THEN On(v, i) = {} ELSE v.reuse[i] = x.reuse[i]
  <2>0. i \in Nat
    BY DampAssumption DEF List
  <2>1. CASE i = k
    BY <1>1, <1>3, <2>1
  <2>2. CASE i < k
    <3>1. On(w, i) = {} /\ i < m
      BY <1>1, <2>0, <2>2 DEF Cleaning
    <3> QED
      BY <1>4, <3>1
  <2>3. CASE i > k
    <3>1. w.reuse[i] = x.reuse[i] /\ ~(i < m) /\ i # k
      BY <1>1, <2>0, <2>3 DEF Cleaning
    <3> QED
      BY <1>3, <3>1 DEF Freeing
  <2> QED
    BY <1>1, <2>0, <2>1, <2>2, <2>3
<1>6. Sane(v, None, {})
  BY <1>3 DEF Freeing
<1> QED
  BY <1>5, <1>6 DEF Cleaning, v, head

\* Nothing is left of damping.
Undamped(y) == \A q \in Route : y.bdi[q] = None

LEMMA Cleaned ==
    ASSUME NEW x, Sane(x, None, {}), NEW h
    PROVE  LET y == bgp_damp_info_clean(x)
           IN  Ok(y, h, None, {}) /\ Undamped(y)
<1> DEFINE N == ListSize
           first == [x EXCEPT !.offset = 0]
           T == [k \in 0..N |-> {w \in State : Cleaning(x, w, k)}]
           step == [q \in (1..N) \X State |-> Emptied(q[2], x.reuse[q[1] - 1])]
<1>1. N \in Nat /\ N > 0 /\ List = 0..(N - 1) /\ x \in State
  BY DampAssumption DEF List, Sane
<1> HIDE DEF N
<1>2. \A k \in 1..N, w \in State : step[<<k, w>>] = Emptied(w, x.reuse[k - 1])
  OBVIOUS
<1>3. T \in [0..N -> SUBSET State] /\ \A k \in 0..N : \A w : w \in T[k] <=> w \in State /\ Cleaning(x, w, k)
  OBVIOUS
<1>4. first \in T[0]
  <2>1. /\ first \in State /\ first.bdi = x.bdi /\ first.info = x.info /\ first.pc = x.pc
        /\ first.reuse = x.reuse /\ first.noReuse = x.noReuse
    BY <1>1 DEF State
  <2> HIDE DEF first, T
  <2>2. /\ Tallied(first, None) /\ (\A q \in Route : Sound(first, q))
        /\ \A j : On(first, j) = On(x, j) /\ HeadOf(first, j) = HeadOf(x, j)
    BY <2>1 DEF Sane, Tallied, CountedIn, Agree, Sound, Damped, On, Where, HeadOf
  <2>3. ListsOf(first, {})
    BY <2>1, <2>2 DEF Sane, ListsOf
  <2>4. Cleaning(x, first, 0)
    BY <1>1, <2>1, <2>2, <2>3 DEF Cleaning, Sane
  <2>5. 0 \in 0..N
    BY <1>1
  <2> QED
    BY <1>3, <2>1, <2>4, <2>5
<1>5. ASSUME NEW k \in 1..N, NEW w \in T[k - 1]
      PROVE  w \in State /\ Emptied(w, x.reuse[k - 1]) \in T[k]
  <2> DEFINE j == k - 1
             v == Emptied(w, x.reuse[j])
  <2>1. j \in List /\ k = j + 1 /\ j \in 0..N /\ k \in 0..N
    BY <1>1
  <2> HIDE DEF T, j
  <2>2. w \in State /\ Cleaning(x, w, j)
    BY <1>3, <1>5, <2>1 DEF j
  <2>3. Cleaning(x, v, k)
    BY <2>1, <2>2, CleaningStep
  <2> HIDE DEF v
  <2>4. v \in T[k]
    BY <1>3, <2>1, <2>3 DEF Cleaning, Sane
  <2> QED
    BY <2>2, <2>4 DEF v, j
<1> HIDE DEF T, step
<1>6. Advances(N, T, step)
  BY <1>2, <1>5 DEF Advances
<1>7. PICK g : Unfolds(g, State, N, T, first, step)
  <2> HIDE DEF first
  <2> QED
    BY <1>1, <1>3, <1>4, <1>6, FoldDefined
<1>8. ASSUME NEW k \in 0..N PROVE g[k] = CleanStep(x, g, k)
  <2>1. CASE k = 0
    BY <1>7, <2>1 DEF CleanStep, Unfolds
  <2>2. CASE k # 0
    <3>1. k \in 1..N
      BY <1>1, <2>2
    <3>2. g[k - 1] \in State /\ g[k] = step[<<k, g[k - 1]>>]
      BY <1>5, <1>7, <3>1 DEF Unfolds
    <3> QED
      BY <1>2, <2>2, <3>1, <3>2 DEF CleanStep
  <2> QED
    BY <2>1, <2>2
<1>9. g = [k \in 0..N |-> CleanStep(x, g, k)]
  BY <1>7, <1>8 DEF Unfolds
<1> DEFINE A == CHOOSE f : f = [k \in 0..N |-> CleanStep(x, f, k)]
           z == A[N]
           w == Emptied(z, z.noReuse)
           y == [w EXCEPT !.reuse = [k \in List |-> None], !.noReuse = None]
<1>10. A = [k \in 0..N |-> CleanStep(x, A, k)]
  BY <1>9
<1>11. bgp_damp_info_clean(x) = y
  BY DEF bgp_damp_info_clean, CleanStep, N
<1> HIDE DEF A
<1>12. \A k \in 0..N : A[k] = CleanStep(x, A, k)
  <2> DEFINE G == [k \in 0..N |-> CleanStep(x, A, k)]
  <2>1. \A k \in 0..N : G[k] = CleanStep(x, A, k)
    OBVIOUS
  <2>2. A = G
    BY <1>10
  <2> HIDE DEF G
  <2> QED
    BY <2>1, <2>2
<1>13. A[0] \in T[0]
  <2>1. 0 \in 0..N
    BY <1>1
  <2>2. A[0] = first
    BY <1>12, <2>1 DEF CleanStep
  <2> HIDE DEF first
  <2> QED
    BY <1>4, <2>2
<1>14. ASSUME NEW k \in 1..N, A[k - 1] \in T[k - 1] PROVE A[k] \in T[k]
  <2>1. k \in 0..N /\ k # 0
    BY <1>1
  <2>2. A[k] = Emptied(A[k - 1], x.reuse[k - 1])
    BY <1>12, <2>1 DEF CleanStep
  <2> QED
    BY <1>5, <1>14, <2>2
<1>15. z \in T[N]
  <2>1. \A k \in 0..N : A[k] \in T[k]
    BY <1>1, <1>13, <1>14, Along
  <2> QED
    BY <1>1, <2>1
<1> HIDE DEF z
<1>16. Sane(z, None, {}) /\ \A i \in List : On(z, i) = {}
  <2>1. Cleaning(x, z, N)
    BY <1>1, <1>3, <1>15
  <2>2. \A i \in List : i < N
    BY <1>1
  <2> QED
    BY <2>1, <2>2 DEF Cleaning
<1>17. Freeing(z, w, NoReuse, {}) /\ On(w, NoReuse) = {}
  <2> DEFINE j == NoReuse
             head == z.noReuse
             u == Emptied(z, head)
  <2>1. j \in AnyList /\ head = HeadOf(z, j)
    BY DEF AnyList, HeadOf
  <2> HIDE DEF j, head
  <2>2. Freeing(z, u, j, {}) /\ On(u, j) = {}
    BY <1>16, <2>1, EmptiedList
  <2> QED
    BY <2>2 DEF u, j, head
<1> HIDE DEF w
<1>18. Sane(w, None, {}) /\ w \in State
  BY <1>17 DEF Freeing, Sane
<1>19. ASSUME NEW q \in Route PROVE w.bdi[q] = None
  <2>1. SUFFICES ASSUME w.bdi[q] # None PROVE FALSE
    OBVIOUS
  <2>2. q \in On(z, Where(w, q)) /\ q \in On(w, Where(w, q))
    BY <1>17, <2>1 DEF Freeing, On
  <2>3. Where(w, q) \in AnyList
    BY <1>18 DEF Sane, Sound, Where, AnyList
  <2> QED
    BY <1>16, <1>17, <2>2, <2>3 DEF AnyList
<1>20. /\ y \in State /\ y.info = w.info /\ y.pc = w.pc /\ y.bdi = w.bdi
       /\ y.noReuse = None /\ \A k \in List : y.reuse[k] = None
  <2> DEFINE u == [k \in List |-> None]
  <2>1. u \in [List -> Pointer] /\ None \in Pointer /\ \A k \in List : u[k] = None
    BY DEF Pointer
  <2> HIDE DEF u
  <2>2. [w EXCEPT !.reuse = u, !.noReuse = None].reuse = u
    BY <1>18 DEF State
  <2> QED
    BY <1>18, <2>1, <2>2 DEF State, u
<1> HIDE DEF y
<1>21. Undamped(y)
  BY <1>19, <1>20 DEF Undamped
<1>22. ASSUME NEW q \in Route PROVE ~Damped(y, q) /\ ~Has(y.info[q], "HISTORY")
  BY <1>18, <1>19, <1>20 DEF Sane, Sound, Damped
<1>23. ListsOf(y, {})
  <2>1. ASSUME NEW j \in AnyList PROVE HeadOf(y, j) = None /\ On(y, j) = {}
    BY <1>20, <1>21 DEF HeadOf, On, Undamped, AnyList
  <2> QED
    BY <2>1, StrungNone DEF ListsOf
<1>24. Tallied(y, None)
  BY <1>18, <1>20 DEF Sane, Tallied, CountedIn, Agree
<1>25. Ok(y, h, None, {})
  BY <1>20, <1>22, <1>23, <1>24 DEF Ok, Sane, Sound, Timely
<1> QED
  BY <1>11, <1>21, <1>25

\* The scan of the table, as a walk.
ScanStep(x, m, f, n) == IF n = 0 THEN x ELSE bgp_damp_scan(f[n - 1], m[n])

LEMMA OkScanned ==
    ASSUME NEW x, NEW h, Ok(x, h, None, {})
    PROVE  Ok(Scanned(x), h, None, {})
<1> DEFINE m == SetToSeq(Route)
           N == Len(m)
           T == [n \in 0..N |-> {w \in State : Ok(w, h, None, {})}]
           step == [q \in (1..N) \X State |-> bgp_damp_scan(q[2], m[q[1]])]
<1>1. N \in Nat /\ \A n \in 1..N : m[n] \in Route
  <2>1. m \in Seq(Route)
    BY DampAssumption, SetToSeqSet
  <2> HIDE DEF m
  <2> QED
    BY <2>1
<1> HIDE DEF m, N
<1>2. \A n \in 1..N, w \in State : step[<<n, w>>] = bgp_damp_scan(w, m[n])
  OBVIOUS
<1>3. T \in [0..N -> SUBSET State] /\ \A n \in 0..N : \A w : w \in T[n] <=> w \in State /\ Ok(w, h, None, {})
  OBVIOUS
<1>4. x \in T[0]
  <2>1. 0 \in 0..N /\ x \in State
    BY <1>1 DEF Ok, Sane
  <2> HIDE DEF T
  <2> QED
    BY <1>3, <2>1
<1>5. ASSUME NEW n \in 1..N, NEW w \in T[n - 1]
      PROVE  w \in State /\ bgp_damp_scan(w, m[n]) \in T[n]
  <2> DEFINE r == m[n]
             P == {}
             v == bgp_damp_scan(w, r)
  <2>1. r \in Route /\ n - 1 \in 0..N /\ n \in 0..N /\ r \notin P
    BY <1>1
  <2> HIDE DEF T, r, P
  <2>2. w \in State /\ Ok(w, h, None, P)
    BY <1>3, <1>5, <2>1 DEF P
  <2>3. Ok(v, h, None, P)
    BY <2>1, <2>2, OkScannedOne
  <2> HIDE DEF v
  <2>4. v \in T[n]
    BY <1>3, <2>1, <2>3 DEF Ok, Sane, P
  <2> QED
    BY <2>2, <2>4 DEF v, r
<1> HIDE DEF T, step
<1>6. Advances(N, T, step)
  BY <1>2, <1>5 DEF Advances
<1>7. PICK g : Unfolds(g, State, N, T, x, step)
  BY <1>1, <1>3, <1>4, <1>6, FoldDefined
<1>8. ASSUME NEW n \in 0..N PROVE g[n] = ScanStep(x, m, g, n)
  <2>1. CASE n = 0
    BY <1>7, <2>1 DEF ScanStep, Unfolds
  <2>2. CASE n # 0
    <3>1. n \in 1..N
      BY <1>1, <2>2
    <3>2. g[n - 1] \in State /\ g[n] = step[<<n, g[n - 1]>>]
      BY <1>5, <1>7, <3>1 DEF Unfolds
    <3> QED
      BY <1>2, <2>2, <3>1, <3>2 DEF ScanStep
  <2> QED
    BY <2>1, <2>2
<1>9. g = [n \in 0..N |-> ScanStep(x, m, g, n)]
  BY <1>7, <1>8 DEF Unfolds
<1> DEFINE A == CHOOSE f : f = [n \in 0..N |-> ScanStep(x, m, f, n)]
<1>10. A = [n \in 0..N |-> ScanStep(x, m, A, n)]
  BY <1>9
<1>11. Scanned(x) = A[N]
  BY DEF Scanned, ScanStep, m, N
<1> HIDE DEF A
<1>12. \A n \in 0..N : A[n] = ScanStep(x, m, A, n)
  <2> DEFINE G == [n \in 0..N |-> ScanStep(x, m, A, n)]
  <2>1. \A n \in 0..N : G[n] = ScanStep(x, m, A, n)
    OBVIOUS
  <2>2. A = G
    BY <1>10
  <2> HIDE DEF G
  <2> QED
    BY <2>1, <2>2
<1>13. A[0] \in T[0]
  <2>1. 0 \in 0..N
    BY <1>1
  <2>2. A[0] = x
    BY <1>12, <2>1 DEF ScanStep
  <2> QED
    BY <1>4, <2>2
<1>14. ASSUME NEW n \in 1..N, A[n - 1] \in T[n - 1] PROVE A[n] \in T[n]
  <2>1. n \in 0..N /\ n # 0
    BY <1>1
  <2>2. A[n] = bgp_damp_scan(A[n - 1], m[n])
    BY <1>12, <2>1 DEF ScanStep
  <2> QED
    BY <1>5, <1>14, <2>2
<1>15. A[N] \in T[N]
  <2>1. \A n \in 0..N : A[n] \in T[n]
    BY <1>1, <1>13, <1>14, Along
  <2> QED
    BY <1>1, <2>1
<1> QED
  BY <1>1, <1>3, <1>11, <1>15

-----------------------------------------------------------------------------
(***************************************************************************)
(* DELTA_T passes.                                                         *)
(***************************************************************************)
Aging(v, x) ==
    /\ x \in State
    /\ x.info = v.info /\ x.pc = v.pc /\ x.reuse = v.reuse /\ x.noReuse = v.noReuse
    /\ x.offset = v.offset
    /\ \A q \in Route :
          /\ x.bdi[q] = None <=> v.bdi[q] = None
          /\ v.bdi[q] # None =>
                /\ x.bdi[q].penalty = v.bdi[q].penalty /\ x.bdi[q].index = v.bdi[q].index
                /\ x.bdi[q].next = v.bdi[q].next /\ x.bdi[q].prev = v.bdi[q].prev
                /\ x.bdi[q].age = IF v.bdi[q].age < Len(DecayArray) THEN v.bdi[q].age + 1
                                                                   ELSE v.bdi[q].age

LEMMA HereOlder ==
    ASSUME Here \in State
    PROVE  LET x == [Here EXCEPT !.bdi = Older(bdi)]
           IN  Aging(Here, x)
<1> DEFINE b == Older(bdi)
           x == [Here EXCEPT !.bdi = b]
<1>1. Here.bdi = bdi /\ bdi \in Bdi
  BY DEF Here, State
<1>2. ASSUME NEW q \in Route
      PROVE  /\ b[q] \in DampInfo \cup {None}
             /\ b[q] = None <=> bdi[q] = None
             /\ bdi[q] # None =>
                   /\ b[q].penalty = bdi[q].penalty /\ b[q].index = bdi[q].index
                   /\ b[q].next = bdi[q].next /\ b[q].prev = bdi[q].prev
                   /\ b[q].age = IF bdi[q].age < Len(DecayArray) THEN bdi[q].age + 1
                                                                 ELSE bdi[q].age
  <2>1. CASE bdi[q] = None
    BY <2>1 DEF Older
  <2>2. CASE bdi[q] # None
    <3> DEFINE e == bdi[q]
               later == IF e.age < Len(DecayArray) THEN e.age + 1 ELSE e.age
               since == IF Has(info[q], "DAMPED") /\ e.since < MaxSuppress THEN e.since + 1
                                                                        ELSE e.since
               d == [e EXCEPT !.age = later, !.since = since]
    <3>1. b[q] = d
      BY <2>2 DEF Older
    <3>2. e \in DampInfo
      BY <1>1, <2>2 DEF Bdi
    <3>3. e.age \in 0..Len(DecayArray) /\ e.since \in 0..MaxSuppress
      BY <3>2 DEF DampInfo
    <3>4. later \in 0..Len(DecayArray) /\ since \in 0..MaxSuppress
      BY <3>3, Limits, SMTT(30)
    <3> HIDE DEF e, later, since, b
    <3>5. /\ d \in DampInfo /\ d.penalty = e.penalty /\ d.index = e.index /\ d.next = e.next
          /\ d.prev = e.prev /\ d.age = later
      BY <3>2, <3>4 DEF DampInfo
    <3>6. d # None
      BY <3>5, NoneAssumption
    <3> HIDE DEF d
    <3> QED
      BY <2>2, <3>1, <3>5, <3>6 DEF e, later
  <2> QED
    BY <2>1, <2>2
<1>3. b \in Bdi
  <2>1. b = [q \in Route |-> b[q]]
    BY DEF Older
  <2> HIDE DEF b
  <2> QED
    BY <1>2, <2>1 DEF Bdi
<1> HIDE DEF b
<1>4. /\ x \in State /\ x.bdi = b /\ x.info = Here.info /\ x.pc = Here.pc /\ x.reuse = Here.reuse
      /\ x.noReuse = Here.noReuse /\ x.offset = Here.offset
  BY <1>3 DEF State
<1> HIDE DEF x
<1>5. Aging(Here, x)
  BY <1>1, <1>2, <1>4 DEF Aging
<1> QED
  BY <1>5 DEF x, b

LEMMA SaneAging ==
    ASSUME NEW v, NEW x, Sane(v, None, {}), Aging(v, x)
    PROVE  Sane(x, None, {}) /\ \A j : On(x, j) = On(v, j)
<1>1. \A q \in Route : Damped(x, q) <=> Damped(v, q)
  BY DEF Aging, Damped
<1>2. ASSUME NEW j PROVE On(x, j) = On(v, j)
  BY <1>1 DEF On, Where, Aging
<1>3. ASSUME NEW j \in AnyList PROVE Strung(x.bdi, HeadOf(x, j), On(x, j) \ {})
  <2> DEFINE h == HeadOf(v, j)
             S == On(v, j)
             b == v.bdi
             c == x.bdi
  <2>1. HeadOf(x, j) = h /\ On(x, j) = S
    BY <1>2 DEF HeadOf, Aging
  <2>2. Strung(b, h, S)
    BY DEF Sane, ListsOf
  <2>3. \A q \in S : c[q] # None /\ c[q].next = b[q].next /\ c[q].prev = b[q].prev
    BY DEF On, Aging
  <2> HIDE DEF h, S, b, c
  <2>4. Strung(c, h, S)
    BY <2>2, <2>3, StrungFrame
  <2> QED
    BY <2>1, <2>4 DEF c
<1>4. \A q \in Route : Sound(x, q)
  BY <1>1 DEF Sane, Sound, Aging
<1>5. Tallied(x, None)
  BY DEF Sane, Tallied, CountedIn, Agree, Aging
<1> QED
  BY <1>2, <1>3, <1>4, <1>5 DEF Sane, ListsOf, Aging

\* The penalty of a suppressed route lasts for DELTA_T less.
LEMMA LaterLasts ==
    ASSUME NEW v, NEW x, Sane(v, None, {}), Aging(v, x), NEW h \in BOOLEAN, NEW q \in Route,
           Damped(v, q), Timely(v, h, q), NEW n, n = Remaining(v, h, q)
    PROVE  /\ n \in 1..(2 * ListSize) /\ x.bdi[q].index \in List
           /\ Lasts(x.bdi[q].penalty, x.bdi[q].age, n - 1)
<1> DEFINE p == v.bdi[q].penalty
           age == v.bdi[q].age
           later == IF age < Len(DecayArray) THEN age + 1 ELSE age
<1>1. v \in State /\ Sound(v, q) /\ v.bdi[q] # None
  BY DEF Sane, Sound
<1>2. n \in 1..(2 * ListSize) /\ Lasts(p, age, n) /\ age \in Nat
  BY <1>1, RemainingIn, Limits DEF Sound, Timely, State, Bdi
<1>3. x.bdi[q].penalty = p /\ x.bdi[q].age = later /\ x.bdi[q].index \in List
  BY <1>1 DEF Aging, Sound
<1>4. later = IF age < Len(DecayArray) THEN age + 1 ELSE age
  OBVIOUS
<1> HIDE DEF p, age, later
<1>5. Lasts(p, later, n - 1)
  BY <1>2, <1>4, OlderLasts
<1> QED
  BY <1>2, <1>3, <1>5

\* The reuse timer does not run.
LEMMA OkAging ==
    ASSUME NEW v, NEW x, Ok(v, FALSE, None, {}), Aging(v, x)
    PROVE  Ok(x, TRUE, None, {})
<1>1. Sane(v, None, {}) /\ \A q \in Route : Timely(v, FALSE, q)
  BY DEF Ok
<1>2. Sane(x, None, {})
  BY <1>1, SaneAging
<1>3. ASSUME NEW q \in Route, Damped(x, q) PROVE Timely(x, TRUE, q)
  <2> DEFINE h == FALSE
             n == Remaining(v, h, q)
  <2>1. Damped(v, q) /\ Timely(v, h, q) /\ h \in BOOLEAN /\ v.bdi[q] # None
    BY <1>1, <1>3 DEF Aging, Damped, Sane, Sound
  <2>2. n = 2 * (Turns(v, q) + 1)
    <3>1. Turns(v, q) \in List
      BY <1>1, <2>1, RemainingIn DEF Sane, Sound
    <3>2. Turns(v, q) \in Nat
      BY <3>1, DampAssumption DEF List
    <3> QED
      BY <3>2 DEF Remaining
  <2>3. n = Remaining(v, h, q)
    OBVIOUS
  <2> HIDE DEF h, n
  <2>4. Lasts(x.bdi[q].penalty, x.bdi[q].age, n - 1)
    BY <1>1, <2>1, <2>3, LaterLasts
  <2>5. Remaining(x, TRUE, q) = n - 1
    BY <2>1, <2>2 DEF Remaining, Turns, Aging
  <2> QED
    BY <2>4, <2>5 DEF Timely
<1> QED
  BY <1>2, <1>3 DEF Ok, Timely

\* The ring has turned, the routes of Q are to be looked at.
Pending(w, Q) ==
    Ok(w, FALSE, None, Q) /\ \A q \in Q : Damped(w, q) /\ Retained(Decayed(w, q))

LEMMA PendingStep ==
    ASSUME NEW w, NEW Q, Q \subseteq Route, Pending(w, Q), NEW r \in Q, NEW v, v = ReuseOne(w, r)
    PROVE  Pending(v, Q \ {r})
<1>1. Ok(v, FALSE, None, Q \ {r}) /\ Others(w, v, r)
  BY OkLookedAt DEF Pending
<1>2. ASSUME NEW q \in Q \ {r} PROVE Damped(v, q) /\ Retained(Decayed(v, q))
  <2>1. q \in Route /\ Damped(w, q) /\ Retained(Decayed(w, q)) /\ Sound(w, q)
    BY DEF Pending, Ok, Sane
  <2>2. w.bdi[q] # None /\ v.info[q] = w.info[q] /\ SameData(w.bdi[q], v.bdi[q])
    BY <1>1, <2>1 DEF Others, Sound
  <2> QED
    BY <2>1, <2>2 DEF SameData, Damped, Decayed
<1> QED
  BY <1>1, <1>2 DEF Pending

\* The list of the ring that was current, and what bgp_reuse_timer does first.
Turned(x) == [x EXCEPT !.reuse[x.offset] = None, !.offset = (@ + 1) % ListSize]

LEMMA OffsetTurned ==
    ASSUME NEW o \in List, NEW i \in List
    PROVE  /\ (o + 1) % ListSize \in List
           /\ i # o => /\ (i + ListSize - o) % ListSize \in Nat \ {0}
                       /\ (i + ListSize - ((o + 1) % ListSize)) % ListSize
                            = ((i + ListSize - o) % ListSize) - 1
<1>1. ListSize \in Nat /\ ListSize > 0 /\ i \in 0..(ListSize - 1) /\ o \in 0..(ListSize - 1)
  BY DampAssumption DEF List
<1> DEFINE n == (o + 1) % ListSize
<1>2. n = IF o + 1 < ListSize THEN o + 1 ELSE 0
  <2>1. CASE o + 1 < ListSize
    BY <1>1, <2>1, SMTT(30)
  <2>2. CASE ~(o + 1 < ListSize)
    <3>1. o + 1 = ListSize
      BY <1>1, <2>2
    <3>2. ListSize % ListSize = 0
      BY <1>1, SMTT(30)
    <3> QED
      BY <2>2, <3>1, <3>2
  <2> QED
    BY <2>1, <2>2
<1>3. n \in List
  BY <1>1, <1>2 DEF List
<1> HIDE DEF n
<1>4. /\ (i + ListSize - o) % ListSize = IF i >= o THEN i - o ELSE i + ListSize - o
      /\ (i + ListSize - n) % ListSize = IF i >= n THEN i - n ELSE i + ListSize - n
  BY <1>3, TurnsIn
<1>5. i # o => /\ (i + ListSize - o) % ListSize \in Nat \ {0}
               /\ (i + ListSize - n) % ListSize = ((i + ListSize - o) % ListSize) - 1
  BY <1>1, <1>2, <1>4
<1> QED
  BY <1>3, <1>5 DEF n

LEMMA PendingTurned ==
    ASSUME NEW v, NEW x, Ok(v, TRUE, None, {}), Aging(v, x)
    PROVE  Pending(Turned(x), On(x, x.offset)) /\ x.offset \in List
<1> DEFINE o == x.offset
           n == (o + 1) % ListSize
           u == [x.reuse EXCEPT ![o] = None]
           y == Turned(x)
           P == On(x, o)
<1>1. Sane(v, None, {}) /\ \A q \in Route : Timely(v, TRUE, q)
  BY DEF Ok
<1>2. Sane(x, None, {}) /\ x \in State /\ o \in List /\ n \in List /\ o = v.offset
  BY <1>1, SaneAging, OffsetTurned DEF Sane, State, Aging
<1>3. u \in [List -> Pointer] /\ u[o] = None /\ \A j \in List : j # o => u[j] = x.reuse[j]
  BY <1>2 DEF State, Pointer
<1>4. /\ y \in State /\ y.info = x.info /\ y.pc = x.pc /\ y.bdi = x.bdi /\ y.noReuse = x.noReuse
      /\ y.reuse = u /\ y.offset = n
  BY <1>2, <1>3 DEF Turned, State
<1> HIDE DEF y, n, u, o, P
<1>5. \A q \in Route : (Damped(y, q) <=> Damped(x, q)) /\ Sound(y, q)
  BY <1>2, <1>4 DEF Damped, Sane, Sound
<1>6. \A j : On(y, j) = On(x, j)
  BY <1>4, <1>5 DEF On, Where
<1>7. ASSUME NEW j \in AnyList PROVE Strung(y.bdi, HeadOf(y, j), On(y, j) \ P)
  <2>1. o # NoReuse
    BY <1>2, DampAssumption DEF List, NoReuse
  <2>2. CASE j = o
    <3>1. HeadOf(y, j) = None /\ On(y, j) \ P = {}
      BY <1>3, <1>4, <1>6, <2>1, <2>2 DEF HeadOf, P
    <3> QED
      BY <3>1, StrungNone
  <2>3. CASE j # o
    <3>1. HeadOf(y, j) = HeadOf(x, j)
      BY <1>3, <1>4, <2>3 DEF HeadOf, AnyList
    <3>2. On(y, j) \ P = On(x, j) \ {}
      BY <1>6, <2>3 DEF P, On
    <3>3. Strung(x.bdi, HeadOf(x, j), On(x, j) \ {})
      BY <1>2 DEF Sane, ListsOf
    <3> QED
      BY <1>4, <3>1, <3>2, <3>3
  <2> QED
    BY <2>2, <2>3
<1>8. Tallied(y, None)
  BY <1>2, <1>4 DEF Sane, Tallied, CountedIn, Agree
<1>9. Sane(y, None, P)
  BY <1>4, <1>5, <1>7, <1>8 DEF Sane, ListsOf
<1>10. ASSUME NEW q \in Route, Damped(y, q)
       PROVE  IF q \in P THEN Retained(Decayed(y, q)) ELSE Timely(y, FALSE, q)
  <2> DEFINE h == TRUE
             i == x.bdi[q].index
             m == Remaining(v, h, q)
             t == Turns(v, q)
  <2>1. /\ Damped(v, q) /\ Timely(v, h, q) /\ h \in BOOLEAN /\ v.bdi[q] # None
        /\ Damped(x, q) /\ x.bdi[q] # None
    BY <1>1, <1>5, <1>10 DEF Aging, Damped, Sane, Sound
  <2>2. m = Remaining(v, h, q) /\ m = 2 * (t + 1) - 1 /\ t \in Nat /\ i \in List
        /\ t = (i + ListSize - o) % ListSize
    <3>1. Turns(v, q) \in List
      BY <1>1, <2>1, RemainingIn DEF Sane, Sound
    <3>2. Turns(v, q) \in Nat
      BY <3>1, DampAssumption DEF List
    <3>3. i = v.bdi[q].index /\ i \in List
      BY <1>1, <2>1 DEF Aging, Sane, Sound
    <3> QED
      BY <1>2, <3>2, <3>3 DEF Remaining, Turns
  <2> HIDE DEF h, m, t
  <2>3. Lasts(x.bdi[q].penalty, x.bdi[q].age, m - 1)
    BY <1>1, <2>1, <2>2, LaterLasts
  <2>4. q \in P <=> i = o
    BY <2>1 DEF P, On, Where
  <2> HIDE DEF i
  <2>5. CASE i = o
    <3>1. t = 0
      <4>1. t = IF i >= o THEN i - o ELSE i + ListSize - o
        BY <1>2, <2>2, TurnsIn
      <4> QED
        BY <1>2, <2>5, <4>1, DampAssumption DEF List
    <3> DEFINE p == x.bdi[q].penalty
               a == x.bdi[q].age
    <3>2. Lasts(p, a, 0) /\ a \in Nat
      BY <1>2, <2>1, <2>2, <2>3, <3>1, Limits DEF State, Bdi
    <3> HIDE DEF p, a
    <3>3. 0 \in 0..0 /\ a + 0 = a
      BY <3>2
    <3>4. Retained(bgp_damp_decay(a, p))
      BY <3>2, <3>3 DEF Lasts
    <3> QED
      BY <1>4, <2>4, <2>5, <3>4 DEF Decayed, a, p
  <2>6. CASE i # o
    <3>1. t # 0 /\ (i + ListSize - n) % ListSize = t - 1
      BY <1>2, <2>2, <2>6, OffsetTurned DEF n
    <3>2. Turns(y, q) = t - 1
      BY <1>4, <3>1 DEF Turns, i
    <3>3. Remaining(y, FALSE, q) = m - 1
      BY <2>2, <3>1, <3>2 DEF Remaining
    <3> QED
      BY <1>4, <2>3, <2>4, <2>6, <3>3 DEF Timely
  <2> QED
    BY <2>5, <2>6
<1>11. \A q \in P : q \in Route /\ Damped(y, q)
  <2>1. o # NoReuse
    BY <1>2, DampAssumption DEF List, NoReuse
  <2> QED
    BY <1>5, <2>1 DEF P, On, Where
<1>12. Ok(y, FALSE, None, P)
  BY <1>9, <1>10 DEF Ok, Timely
<1> QED
  BY <1>2, <1>10, <1>11, <1>12 DEF Pending, y, P, o

\* The reuse timer runs, as a walk along the list that was current.
TimerStep(y, m, f, n) == IF n = 0 THEN y ELSE ReuseOne(f[n - 1], m[n])

LEMMA OkTimer ==
    ASSUME NEW v, NEW x, Ok(v, TRUE, None, {}), Aging(v, x)
    PROVE  Ok(bgp_reuse_timer(x), FALSE, None, {})
<1> DEFINE head == x.reuse[x.offset]
           m == Members(x, head)
           N == Len(m)
           y == Turned(x)
           S == On(x, x.offset)
           Rest(n) == {m[i] : i \in (n + 1)..N}
           T == [n \in 0..N |-> {w \in State : Pending(w, Rest(n))}]
           step == [q \in (1..N) \X State |-> ReuseOne(q[2], m[q[1]])]
<1>1. Pending(y, S) /\ x.offset \in List
  BY PendingTurned
<1>2. Strung(x.bdi, head, S)
  <2>1. Sane(x, None, {})
    BY SaneAging DEF Ok
  <2>2. x.offset \in AnyList /\ HeadOf(x, x.offset) = head
    BY <1>1, DampAssumption DEF AnyList, HeadOf, List, NoReuse
  <2>3. Strung(x.bdi, HeadOf(x, x.offset), On(x, x.offset) \ {})
    BY <2>1, <2>2 DEF Sane, ListsOf
  <2> QED
    BY <2>2, <2>3
<1>3. m = Members(x, head) /\ N = Len(m)
  OBVIOUS
<1> HIDE DEF m, N, S, y, head
<1>4. /\ N \in Nat /\ m \in [1..N -> Route] /\ Chain(x.bdi, head, N, m)
      /\ S = {m[i] : i \in 1..N}
  <2>1. Enumerates(x.bdi, head, m, N, S)
    BY <1>2, <1>3, StrungMembers
  <2> QED
    BY <2>1 DEF Enumerates
<1>5. \A n \in 1..N, w \in State : step[<<n, w>>] = ReuseOne(w, m[n])
  OBVIOUS
<1> HIDE DEF step
<1>6. T \in [0..N -> SUBSET State]
  OBVIOUS
<1>7. \A n \in 0..N : \A w : w \in T[n] <=> w \in State /\ Pending(w, Rest(n))
  OBVIOUS
<1>8. y \in T[0]
  <2>1. Rest(0) = S /\ 0 \in 0..N
    BY <1>4
  <2>2. y \in State
    BY <1>1 DEF Pending, Ok, Sane
  <2> HIDE DEF T, Rest
  <2> QED
    BY <1>1, <1>7, <2>1, <2>2
<1>9. ASSUME NEW n \in 1..N, NEW w \in T[n - 1]
      PROVE  w \in State /\ ReuseOne(w, m[n]) \in T[n]
  <2> DEFINE r == m[n]
             v1 == ReuseOne(w, r)
             k == n - 1
             Q == Rest(k)
  <2>1. k \in 0..N /\ n \in 0..N /\ n = k + 1
    BY <1>4
  <2>2. w \in State /\ Pending(w, Q)
    <3> HIDE DEF T, Rest
    <3> QED
      BY <1>7, <1>9, <2>1
  <2>3. r \in Q /\ Q \subseteq Route
    BY <1>4, <2>1
  <2>4. Q \ {r} = Rest(n)
    <3>1. \A i \in (n + 1)..N : m[i] # m[n] /\ i \in (k + 1)..N
      BY <1>4, <2>1 DEF Chain
    <3>2. \A i \in (k + 1)..N : m[i] # m[n] => i \in (n + 1)..N
      BY <1>4, <2>1
    <3> QED
      BY <3>1, <3>2
  <2> HIDE DEF Q, r
  <2>5. v1 = ReuseOne(w, r)
    OBVIOUS
  <2> HIDE DEF v1, T, Rest
  <2>6. Pending(v1, Q \ {r})
    BY <2>2, <2>3, <2>5, PendingStep
  <2>7. v1 \in State
    BY <2>6 DEF Pending, Ok, Sane
  <2>8. v1 \in T[n]
    BY <1>7, <2>1, <2>4, <2>6, <2>7
  <2> QED
    BY <2>2, <2>8 DEF v1, r
<1>10. Advances(N, T, step)
  <2> HIDE DEF T
  <2> QED
    BY <1>5, <1>9 DEF Advances
<1> HIDE DEF T
<1>11. PICK g : Unfolds(g, State, N, T, y, step)
  BY <1>4, <1>6, <1>8, <1>10, FoldDefined
<1>12. ASSUME NEW n \in 0..N PROVE g[n] = TimerStep(y, m, g, n)
  <2>1. CASE n = 0
    BY <1>11, <2>1 DEF TimerStep, Unfolds
  <2>2. CASE n # 0
    <3>1. n \in 1..N
      BY <1>4, <2>2
    <3>2. g[n - 1] \in State /\ g[n] = step[<<n, g[n - 1]>>]
      BY <1>9, <1>11, <3>1 DEF Unfolds
    <3> QED
      BY <1>5, <2>2, <3>1, <3>2 DEF TimerStep
  <2> QED
    BY <2>1, <2>2
<1>13. g = [n \in 0..N |-> TimerStep(y, m, g, n)]
  BY <1>11, <1>12 DEF Unfolds
<1> DEFINE A == CHOOSE f : f = [n \in 0..N |-> TimerStep(y, m, f, n)]
<1>14. A = [n \in 0..N |-> TimerStep(y, m, A, n)]
  BY <1>13
<1>15. bgp_reuse_timer(x) = A[N]
  BY DEF bgp_reuse_timer, TimerStep, m, N, y, Turned, head
<1> HIDE DEF A
<1>16. \A n \in 0..N : A[n] = TimerStep(y, m, A, n)
  <2> DEFINE G == [n \in 0..N |-> TimerStep(y, m, A, n)]
  <2>1. \A n \in 0..N : G[n] = TimerStep(y, m, A, n)
    OBVIOUS
  <2>2. A = G
    BY <1>14
  <2> HIDE DEF G
  <2> QED
    BY <2>1, <2>2
<1>17. A[0] \in T[0]
  <2>1. 0 \in 0..N
    BY <1>4
  <2>2. A[0] = y
    BY <1>16, <2>1 DEF TimerStep
  <2> QED
    BY <1>8, <2>2
<1>18. ASSUME NEW n \in 1..N, A[n - 1] \in T[n - 1] PROVE A[n] \in T[n]
  <2>1. n \in 0..N /\ n # 0
    BY <1>4
  <2>2. A[n] = ReuseOne(A[n - 1], m[n])
    BY <1>16, <2>1 DEF TimerStep
  <2> QED
    BY <1>9, <1>18, <2>2
<1>19. A[N] \in T[N] /\ N \in 0..N
  <2>1. \A n \in 0..N : A[n] \in T[n]
    BY <1>4, <1>17, <1>18, Along
  <2> QED
    BY <1>4, <2>1
<1>20. Rest(N) = {}
  BY <1>4
<1> HIDE DEF Rest
<1>21. Pending(A[N], {})
  BY <1>7, <1>19, <1>20
<1> QED
  BY <1>15, <1>21 DEF Pending

-----------------------------------------------------------------------------
(***************************************************************************)
(* The operations on one route.                                            *)
(***************************************************************************)
\* Damping does not begin.
Still(x, y) == Undamped(x) => Undamped(y)

LEMMA OkRemoved ==
    ASSUME NEW x, NEW h, NEW r \in Route, Ok(x, h, None, {})
    PROVE  Ok(bgp_rib_remove(x, r), h, None, {}) /\ Still(x, bgp_rib_remove(x, r))
<1> DEFINE y == Flagged(x, r, bgp_info_delete(Pair(x, r)))
           P == {}
<1>1. Ok(x, h, r, P)
  BY OkOpen
<1> HIDE DEF P
<1>2. Ok(y, h, r, P) /\ Agree(y, r) /\ y.bdi = x.bdi
  BY <1>1, OkDelete
<1> HIDE DEF y
<1>3. Ok(y, h, None, P)
  BY <1>2, OkClose
<1> QED
  BY <1>2, <1>3 DEF bgp_rib_remove, Still, Undamped, y, P

\* bgp_info_free, at the end of bgp_process_main.
LEMMA OkReaped ==
    ASSUME NEW x, NEW h, NEW r \in Route, Ok(x, h, r, {}), Agree(x, r), Has(x.info[r], "REMOVED")
    PROVE  Ok(Reaped(x, r), h, None, {}) /\ Still(x, Reaped(x, r))
<1> DEFINE P == {}
           w == FALSE
           y == IF x.bdi[r] = None THEN x ELSE bgp_damp_info_free(x, r, w)
           z == [y EXCEPT !.info[r] = NoInfo]
           t == [y.info EXCEPT ![r] = NoInfo]
<1>0. r \notin P /\ w \in BOOLEAN /\ ~w /\ Ok(x, h, r, P)
  OBVIOUS
<1> HIDE DEF P, w
<1>1. /\ Ok(y, h, r, P) /\ Agree(y, r) /\ y.bdi[r] = None /\ Has(y.info[r], "REMOVED")
      /\ ~Has(y.info[r], "HISTORY") /\ ~Damped(y, r)
      /\ \A q \in Route : x.bdi[q] = None => y.bdi[q] = None
  <2>1. CASE x.bdi[r] = None
    BY <1>0, <2>1 DEF Ok, Sane, Sound
  <2>2. CASE x.bdi[r] # None
    <3> DEFINE u == bgp_damp_info_free(x, r, w)
    <3>1. /\ Ok(u, h, r, P) /\ Others(x, u, r) /\ u.bdi[r] = None /\ Agree(u, r)
          /\ ~Has(u.info[r], "HISTORY") /\ ~Damped(u, r)
          /\ ~w => (Has(u.info[r], "REMOVED") <=> Has(x.info[r], "REMOVED"))
      BY <1>0, <2>2, OkFreed
    <3>2. y = u
      BY <2>2
    <3> HIDE DEF u, y
    <3> QED
      BY <1>0, <3>1, <3>2 DEF Others, SameData
  <2> QED
    BY <2>1, <2>2
<1>2. NoInfo \in Info /\ NoInfo.flags = {} /\ \A g : ~Has(NoInfo, g)
  BY DEF NoInfo, Info, Has
<1>3. y \in State /\ Tallied(y, r) /\ y.info \in [Route -> Info]
  BY <1>1 DEF Ok, Sane, State
<1> HIDE DEF y
<1>4. t \in [Route -> Info] /\ t[r] = NoInfo /\ \A q \in Route : q # r => t[q] = y.info[q]
  BY <1>2, <1>3
<1>5. /\ z \in State /\ z.info = t /\ z.bdi = y.bdi /\ z.reuse = y.reuse /\ z.noReuse = y.noReuse
      /\ z.offset = y.offset /\ z.pc = y.pc
  BY <1>3, <1>4 DEF State
<1>6. Reaped(x, r) = z
  BY DEF Reaped, y, w
<1> HIDE DEF z, t
<1>7. ~Has(y.info[r], "COUNTED")
  BY <1>1 DEF Agree, HOLDDOWN, UNUSEABLE, Has
<1>8. CountedIn(z) = CountedIn(y)
  BY <1>2, <1>4, <1>5, <1>7 DEF CountedIn
<1>9. Agree(z, r)
  BY <1>2, <1>4, <1>5 DEF Agree, HOLDDOWN
<1>10. Tallied(z, r)
  BY <1>2, <1>3, <1>4, <1>5, <1>8 DEF Tallied, Agree
<1>11. Retagged(y, z, r)
  BY <1>1, <1>2, <1>4, <1>5 DEF Retagged, Damped
<1>12. Ok(z, h, r, P)
  BY <1>1, <1>10, <1>11, OkRetagged
<1>13. Ok(z, h, None, P)
  BY <1>9, <1>12, OkClose
<1> QED
  BY <1>1, <1>5, <1>6, <1>13 DEF P, Still, Undamped

\* A route that is new.
LEMMA OkNew ==
    ASSUME NEW x, NEW h, NEW r \in Route, NEW a \in Attr, Ok(x, h, None, {}),
           NEW z, z = SetFlag([x EXCEPT !.info[r].attr = a], r, "VALID")
    PROVE  Ok(z, h, None, {}) /\ Still(x, z)
<1> DEFINE P == {}
           f == "VALID"
           y == [x EXCEPT !.info[r].attr = a]
<1>1. Ok(x, h, r, P) /\ f \in {"SELECTED", "ATTR_CHANGED", "VALID"}
  BY OkOpen
<1> HIDE DEF P
<1>2. Ok(y, h, r, P) /\ y.bdi = x.bdi /\ Present(y.info[r])
  BY <1>1, OkAttr
<1>3. z = SetFlag(y, r, f)
  OBVIOUS
<1>4. f = "VALID"
  OBVIOUS
<1> HIDE DEF y, f
<1>5. Ok(z, h, r, P) /\ Reflagged(y, z, r) /\ Agree(z, r)
  BY <1>1, <1>2, <1>3, <1>4, OkSet
<1>6. Ok(z, h, None, P)
  BY <1>5, OkClose
<1> QED
  BY <1>2, <1>5, <1>6 DEF P, Reflagged, Still, Undamped

\* The same attributes again.
LEMMA OkRepeated ==
    ASSUME NEW x, NEW h \in BOOLEAN, NEW r \in Route, Ok(x, h, None, {}),
           NEW y, y = UnsetFlag(x, r, "ATTR_CHANGED"), NEW z, z = bgp_damp_update(y, r)
    PROVE  Ok(y, h, None, {}) /\ Still(x, y) /\ Ok(z, h, None, {})
<1> DEFINE P == {}
           f == "ATTR_CHANGED"
<1>1. Ok(x, h, r, P) /\ Agree(x, r) /\ r \notin P
  BY OkOpen
<1>2. f \in {"SELECTED", "ATTR_CHANGED"} /\ y = UnsetFlag(x, r, f)
  OBVIOUS
<1> HIDE DEF P, f
<1>3. Ok(y, h, r, P) /\ Reflagged(x, y, r) /\ Agree(y, r)
  BY <1>1, <1>2, OkUnset
<1>4. /\ Ok(z, h, r, P)
      /\ y.bdi[r] = None => z = y
      /\ y.bdi[r] # None => Agree(z, r)
  BY <1>1, <1>3, OkUpdated
<1>5. Ok(y, h, None, P)
  BY <1>3, OkClose
<1>6. Agree(z, r)
  BY <1>3, <1>4
<1>7. Ok(z, h, None, P)
  BY <1>4, <1>6, OkClose
<1> QED
  BY <1>3, <1>5, <1>7 DEF P, Reflagged, Still, Undamped

\* Other attributes: a withdrawal and an announcement in one.
Revived(x, r) ==
    IF Has(x.info[r], "REMOVED") THEN Flagged(x, r, bgp_info_restore(Pair(x, r))) ELSE x

LEMMA OkChanging ==
    ASSUME NEW x, NEW h, NEW r \in Route, NEW P, Ok(x, h, r, P), Present(x.info[r]),
           NEW y, y = SetFlag(Revived(x, r), r, "ATTR_CHANGED")
    PROVE  /\ Ok(y, h, r, P) /\ y.bdi = x.bdi
           /\ Has(y.info[r], "HISTORY") <=> Has(x.info[r], "HISTORY")
<1> DEFINE v == Revived(x, r)
           u == Flagged(x, r, bgp_info_restore(Pair(x, r)))
           f == "ATTR_CHANGED"
<1>1. Ok(v, h, r, P) /\ v.bdi = x.bdi /\ (Has(v.info[r], "HISTORY") <=> Has(x.info[r], "HISTORY"))
  <2>1. CASE Has(x.info[r], "REMOVED")
    <3>1. Ok(u, h, r, P) /\ Reflagged(x, u, r)
          /\ \A g \in {"HISTORY", "DAMPED"} : Has(u.info[r], g) <=> Has(x.info[r], g)
      BY OkRestore
    <3>2. v = u
      BY <2>1 DEF Revived
    <3> HIDE DEF u, v
    <3> QED
      BY <3>1, <3>2 DEF Reflagged
  <2>2. CASE ~Has(x.info[r], "REMOVED")
    BY <2>2 DEF Revived
  <2> QED
    BY <2>1, <2>2
<1>2. /\ f \in {"SELECTED", "ATTR_CHANGED", "VALID"} /\ f # "VALID" /\ y = SetFlag(v, r, f)
      /\ f # "HISTORY"
  OBVIOUS
<1> HIDE DEF v, f
<1>3. Ok(y, h, r, P) /\ Reflagged(v, y, r) /\ OtherFlags(v, y, r, f)
  BY <1>1, <1>2, OkSet
<1>4. Has(y.info[r], "HISTORY") <=> Has(v.info[r], "HISTORY")
  BY <1>2, <1>3 DEF OtherFlags, Flag
<1> QED
  BY <1>1, <1>3, <1>4 DEF Reflagged

ChangedTo(x, on, r, a) ==
    LET y == SetFlag(Revived(x, r), r, "ATTR_CHANGED")
        v == IF on /\ ~Has(x.info[r], "HISTORY") THEN bgp_damp_withdraw(y, r, Penalty \div 2) ELSE y
        z == [v EXCEPT !.info[r].attr = a]
        suppressed == on /\ Suppressed(z, r)
        w == IF on THEN bgp_damp_update(z, r) ELSE z
    IN  IF suppressed THEN w ELSE SetFlag(w, r, "VALID")

LEMMA OkChanged ==
    ASSUME NEW x, NEW h \in BOOLEAN, NEW r \in Route, NEW a \in Attr, NEW on \in BOOLEAN,
           Ok(x, h, None, {}), Present(x.info[r]), NEW u, u = ChangedTo(x, on, r, a)
    PROVE  Ok(u, h, None, {}) /\ (~on => Still(x, u))
<1> DEFINE P == {}
           more == Penalty \div 2
           y == SetFlag(Revived(x, r), r, "ATTR_CHANGED")
           n == bgp_damp_withdraw(y, r, more)
           v == IF on /\ ~Has(x.info[r], "HISTORY") THEN n ELSE y
           z == [v EXCEPT !.info[r].attr = a]
           k == bgp_damp_update(z, r)
           w == IF on THEN k ELSE z
           f == "VALID"
           s == SetFlag(w, r, f)
<1>1. Ok(x, h, r, P) /\ r \notin P /\ more \in {Penalty, Penalty \div 2}
  BY OkOpen
<1>2. u = IF on /\ Suppressed(z, r) THEN w ELSE s
  BY Zenon DEF ChangedTo
<1> HIDE DEF P, more, f
<1>3. Ok(y, h, r, P) /\ y.bdi = x.bdi
      /\ (Has(y.info[r], "HISTORY") <=> Has(x.info[r], "HISTORY"))
  BY <1>1, OkChanging
<1> HIDE DEF y
<1>4. Ok(n, h, r, P)
  BY <1>1, <1>3, OkWithdrawn
<1> HIDE DEF n
<1>5. Ok(v, h, r, P) /\ (~on => v.bdi = x.bdi)
  BY <1>3, <1>4
<1> HIDE DEF v
<1>6. Ok(z, h, r, P) /\ Present(z.info[r]) /\ z.bdi = v.bdi
  BY <1>5, OkAttr
<1> HIDE DEF z
<1>7. /\ Ok(k, h, r, P) /\ k.info[r].attr = z.info[r].attr
      /\ z.bdi[r] # None => Agree(k, r)
  BY <1>1, <1>6, OkUpdated
<1> HIDE DEF k
<1>8. /\ Ok(w, h, r, P) /\ Present(w.info[r]) /\ (~on => w.bdi = x.bdi)
      /\ on /\ Suppressed(z, r) => Agree(w, r)
  BY <1>5, <1>6, <1>7 DEF Present, Suppressed
<1> HIDE DEF w
<1>9. f \in {"SELECTED", "ATTR_CHANGED", "VALID"} /\ f = "VALID"
  BY DEF f
<1>10. Ok(s, h, r, P) /\ Reflagged(w, s, r) /\ Agree(s, r)
  BY <1>8, <1>9, OkSet
<1> HIDE DEF s
<1>11. Ok(u, h, r, P) /\ Agree(u, r) /\ (~on => u.bdi = x.bdi)
  <2>1. CASE on /\ Suppressed(z, r)
    BY <1>2, <1>8, <2>1
  <2>2. CASE ~(on /\ Suppressed(z, r))
    BY <1>2, <1>8, <1>10, <2>2 DEF Reflagged
  <2> QED
    BY <2>1, <2>2
<1>12. Ok(u, h, None, P)
  BY <1>11, OkClose
<1> QED
  BY <1>11, <1>12 DEF P, Still, Undamped

\* A withdrawal.
LEMMA OkWithdrawal ==
    ASSUME NEW x, NEW h \in BOOLEAN, NEW r \in Route, Ok(x, h, None, {}),
           NEW y, y = bgp_damp_withdraw(x, r, Penalty)
    PROVE  Ok(y, h, None, {})
<1> DEFINE P == {}
           more == Penalty
<1>1. Ok(x, h, r, P) /\ r \notin P /\ more \in {Penalty, Penalty \div 2}
      /\ y = bgp_damp_withdraw(x, r, more)
  BY OkOpen
<1> HIDE DEF P, more
<1>2. Ok(y, h, r, P) /\ Agree(y, r)
  BY <1>1, OkWithdrawn
<1>3. Ok(y, h, None, P)
  BY <1>2, OkClose
<1> QED
  BY <1>3 DEF P

\* The decision process.
LEMMA OkChosen ==
    ASSUME NEW x, NEW h, NEW r \in Route, Ok(x, h, None, {}),
           NEW y, y = SetFlag(x, r, "SELECTED"), NEW z, z = UnsetFlag(y, r, "ATTR_CHANGED")
    PROVE  Ok(z, h, None, {}) /\ Still(x, z)
<1> DEFINE P == {}
           f == "SELECTED"
           g == "ATTR_CHANGED"
<1>1. Ok(x, h, r, P) /\ Agree(x, r)
  BY OkOpen
<1>2. /\ f \in {"SELECTED", "ATTR_CHANGED", "VALID"} /\ f # "VALID" /\ y = SetFlag(x, r, f)
      /\ g \in {"SELECTED", "ATTR_CHANGED"} /\ z = UnsetFlag(y, r, g)
  OBVIOUS
<1> HIDE DEF P, f, g
<1>3. Ok(y, h, r, P) /\ Reflagged(x, y, r) /\ Agree(y, r)
  BY <1>1, <1>2, OkSet
<1>4. Ok(z, h, r, P) /\ Reflagged(y, z, r) /\ Agree(z, r)
  BY <1>2, <1>3, OkUnset
<1>5. Ok(z, h, None, P)
  BY <1>4, OkClose
<1> QED
  BY <1>3, <1>4, <1>5 DEF P, Reflagged, Still, Undamped

LEMMA OkDropped ==
    ASSUME NEW x, NEW h, NEW r \in Route, Ok(x, h, None, {}),
           NEW y, y = UnsetFlag(x, r, "SELECTED"),
           NEW z, z = IF Has(x.info[r], "REMOVED") THEN Reaped(y, r) ELSE y
    PROVE  Ok(z, h, None, {}) /\ Still(x, z)
<1> DEFINE P == {}
           f == "SELECTED"
<1>1. Ok(x, h, r, P) /\ Agree(x, r)
  BY OkOpen
<1>2. f \in {"SELECTED", "ATTR_CHANGED"} /\ f # "REMOVED" /\ y = UnsetFlag(x, r, f)
  OBVIOUS
<1>2a. P = {}
  OBVIOUS
<1> HIDE DEF P, f
<1>3. Ok(y, h, r, P) /\ Reflagged(x, y, r) /\ OtherFlags(x, y, r, f) /\ Agree(y, r)
  BY <1>1, <1>2, OkUnset
<1>4. (Has(y.info[r], "REMOVED") <=> Has(x.info[r], "REMOVED")) /\ Still(x, y)
  BY <1>2, <1>3 DEF OtherFlags, Flag, Reflagged, Still, Undamped
<1>5. CASE Has(x.info[r], "REMOVED")
  <2>1. Ok(y, h, r, {}) /\ Agree(y, r) /\ Has(y.info[r], "REMOVED")
    BY <1>2a, <1>3, <1>4, <1>5
  <2>2. Ok(Reaped(y, r), h, None, {}) /\ Still(y, Reaped(y, r))
    BY <2>1, OkReaped
  <2> QED
    BY <1>4, <1>5, <2>2 DEF Still
<1>6. CASE ~Has(x.info[r], "REMOVED")
  <2>1. Ok(y, h, None, P)
    BY <1>3, OkClose
  <2> QED
    BY <1>2a, <1>4, <1>6, <2>1
<1> QED
  BY <1>5, <1>6

\* clear ip bgp dampening of one prefix.
LEMMA OkCleared ==
    ASSUME NEW x, NEW h, NEW r \in Route, Ok(x, h, None, {}), x.bdi[r] # None,
           NEW y, y = bgp_damp_info_free(x, r, TRUE)
    PROVE  Ok(y, h, None, {})
<1> DEFINE P == {}
           w == TRUE
           u == bgp_damp_info_free(x, r, w)
<1>1. Ok(x, h, r, P) /\ r \notin P /\ w \in BOOLEAN /\ y = u
  BY OkOpen
<1> HIDE DEF P, w
<1>2. Ok(u, h, r, P) /\ Others(x, u, r) /\ u.bdi[r] = None /\ Agree(u, r)
  BY <1>1, OkFreed
<1> HIDE DEF u
<1>3. Ok(y, h, None, P)
  BY <1>1, <1>2, OkClose
<1> QED
  BY <1>3 DEF P

-----------------------------------------------------------------------------
(***************************************************************************)
(* The inductive invariant: all is in order between two operations, every  *)
(* suppressed route will be looked at in time, and nothing is damped while *)
(* damping is not configured.                                              *)
(***************************************************************************)
Surroundings ==
    /\ enabled \in BOOLEAN /\ scanIn \in 0..ScanInterval /\ half \in BOOLEAN
    /\ queued \subseteq Route
    /\ told \in [Route -> Attr \cup {NoAttr}] /\ said \in [Route -> Attr \cup {NoAttr}]
    /\ flaps \in 0..MaxFlaps

DampOK ==
    /\ Surroundings
    /\ Ok(Here, half, None, {})
    /\ ~enabled => Undamped(Here)

\* The same fields.
LEMMA OkSameFields ==
    ASSUME NEW x, NEW y, NEW h, Ok(x, h, None, {}), y \in State,
           y.info = x.info, y.pc = x.pc, y.bdi = x.bdi, y.reuse = x.reuse,
           y.noReuse = x.noReuse, y.offset = x.offset
    PROVE  Ok(y, h, None, {}) /\ (Undamped(x) => Undamped(y))
<1>1. \A q \in Route : (Damped(y, q) <=> Damped(x, q)) /\ (Sound(x, q) => Sound(y, q))
  BY DEF Damped, Sound
<1>2. \A j : On(y, j) = On(x, j) /\ HeadOf(y, j) = HeadOf(x, j)
  BY <1>1 DEF On, Where, HeadOf
<1>3. \A q \in Route : Timely(x, h, q) => Timely(y, h, q)
  BY <1>1 DEF Timely, Remaining, Turns
<1>4. ListsOf(y, {})
  BY <1>2 DEF Ok, Sane, ListsOf
<1>5. Tallied(y, None)
  BY DEF Ok, Sane, Tallied, CountedIn, Agree
<1> QED
  BY <1>1, <1>3, <1>4, <1>5 DEF Ok, Sane, Undamped

LEMMA Stored ==
    ASSUME NEW x, NEW h, Ok(x, h, None, {}), Becomes(x)
    PROVE  Ok(Here', h, None, {}) /\ (Undamped(x) => Undamped(Here'))
<1> DEFINE y == Here'
<1>1. x \in State
  BY DEF Ok, Sane
<1>2. /\ y.info = x.info /\ y.pc = x.pc /\ y.bdi = x.bdi /\ y.reuse = x.reuse
      /\ y.noReuse = x.noReuse /\ y.offset = x.offset
  BY DEF Here, Becomes
<1>3. y \in State
  BY <1>1 DEF Here, Becomes, State
<1> HIDE DEF y
<1>4. Ok(y, h, None, {}) /\ (Undamped(x) => Undamped(y))
  BY <1>2, <1>3, OkSameFields
<1> QED
  BY <1>4 DEF y

LEMMA HereFields ==
    /\ Here.info = info /\ Here.pc = pcount /\ Here.bdi = bdi /\ Here.reuse = reuse
    /\ Here.noReuse = noReuse /\ Here.offset = offset
BY DEF Here

\* The operations keep what is in order in order.
Keeps == Ok(Here', half', None, {}) /\ (~enabled' => Undamped(Here'))

LEMMA KeepsNew ==
    ASSUME DampOK, NEW r \in Route, NEW a \in Attr, UpdateNew(r, a)
    PROVE  Keeps
<1> DEFINE x == Here
           z == SetFlag([x EXCEPT !.info[r].attr = a], r, "VALID")
<1>1. Ok(x, half, None, {}) /\ Becomes(z) /\ half' = half /\ enabled' = enabled
  BY DEF DampOK, UpdateNew
<1>2. z = SetFlag([x EXCEPT !.info[r].attr = a], r, "VALID")
  OBVIOUS
<1>3. ~enabled => Undamped(x)
  BY DEF DampOK
<1> HIDE DEF x, z
<1>4. Ok(z, half, None, {}) /\ Still(x, z)
  BY <1>1, <1>2, OkNew
<1>5. Ok(Here', half, None, {}) /\ (Undamped(z) => Undamped(Here'))
  BY <1>1, <1>4, Stored
<1> QED
  BY <1>1, <1>3, <1>4, <1>5 DEF Keeps, Still

LEMMA KeepsSame ==
    ASSUME DampOK, NEW r \in Route, UpdateSame(r)
    PROVE  Keeps
<1> DEFINE x == Here
           y == UnsetFlag(x, r, "ATTR_CHANGED")
           z == bgp_damp_update(y, r)
<1>1. Ok(x, half, None, {}) /\ half \in BOOLEAN /\ (~enabled => Undamped(x))
  BY DEF DampOK, Surroundings
<1>2. /\ IF enabled /\ Has(info[r], "HISTORY") THEN Becomes(z) ELSE Becomes(y)
      /\ half' = half /\ enabled' = enabled
  BY DEF UpdateSame
<1>3. y = UnsetFlag(x, r, "ATTR_CHANGED") /\ z = bgp_damp_update(y, r)
  OBVIOUS
<1> HIDE DEF x, y, z
<1>4. Ok(y, half, None, {}) /\ Still(x, y) /\ Ok(z, half, None, {})
  BY <1>1, <1>3, OkRepeated
<1>5. CASE enabled /\ Has(info[r], "HISTORY")
  <2>1. Ok(Here', half, None, {})
    BY <1>2, <1>4, <1>5, Stored
  <2> QED
    BY <1>2, <1>5, <2>1 DEF Keeps
<1>6. CASE ~(enabled /\ Has(info[r], "HISTORY"))
  <2>1. Ok(Here', half, None, {}) /\ (Undamped(y) => Undamped(Here'))
    BY <1>2, <1>4, <1>6, Stored
  <2> QED
    BY <1>1, <1>2, <1>4, <2>1 DEF Keeps, Still
<1> QED
  BY <1>5, <1>6

LEMMA KeepsChanged ==
    ASSUME DampOK, NEW r \in Route, NEW a \in Attr, UpdateChanged(r, a)
    PROVE  Keeps
<1> DEFINE x == Here
           u == ChangedTo(x, enabled, r, a)
<1>1. Ok(x, half, None, {}) /\ half \in BOOLEAN /\ (~enabled => Undamped(x)) /\ enabled \in BOOLEAN
  BY DEF DampOK, Surroundings
<1>2. x.info = info
  BY HereFields
<1>3. Becomes(u)
  BY <1>2 DEF UpdateChanged, ChangedTo, Revived
<1>4. half' = half /\ enabled' = enabled /\ Present(x.info[r])
  BY <1>2 DEF UpdateChanged
<1>5. u = ChangedTo(x, enabled, r, a)
  OBVIOUS
<1> HIDE DEF x, u
<1>6. Ok(u, half, None, {}) /\ (~enabled => Still(x, u))
  BY <1>1, <1>4, <1>5, OkChanged
<1>7. Ok(Here', half, None, {}) /\ (Undamped(u) => Undamped(Here'))
  BY <1>3, <1>6, Stored
<1> QED
  BY <1>1, <1>4, <1>6, <1>7 DEF Keeps, Still

LEMMA KeepsDenied ==
    ASSUME DampOK, NEW r \in Route, Denied(r)
    PROVE  Keeps
<1> DEFINE x == Here
           z == bgp_rib_remove(x, r)
<1>1. Ok(x, half, None, {}) /\ Becomes(z) /\ half' = half /\ enabled' = enabled
  BY DEF DampOK, Denied
<1>2. ~enabled => Undamped(x)
  BY DEF DampOK
<1> HIDE DEF x
<1>3. Ok(z, half, None, {}) /\ Still(x, z)
  BY <1>1, OkRemoved
<1> HIDE DEF z
<1>4. Ok(Here', half, None, {}) /\ (Undamped(z) => Undamped(Here'))
  BY <1>1, <1>3, Stored
<1> QED
  BY <1>1, <1>2, <1>3, <1>4 DEF Keeps, Still

LEMMA KeepsWithdraw ==
    ASSUME DampOK, NEW r \in Route, bgp_withdraw(r)
    PROVE  Keeps
<1> DEFINE x == Here
           y == bgp_damp_withdraw(x, r, Penalty)
           v == IF enabled THEN y ELSE x
           z == bgp_rib_remove(v, r)
<1>1. Ok(x, half, None, {}) /\ half \in BOOLEAN /\ (~enabled => Undamped(x))
  BY DEF DampOK, Surroundings
<1>2. /\ IF enabled /\ Damped(x, r) THEN Becomes(y) ELSE Becomes(z)
      /\ half' = half /\ enabled' = enabled
  BY DEF bgp_withdraw
<1>3. y = bgp_damp_withdraw(x, r, Penalty)
  OBVIOUS
<1> HIDE DEF x, y
<1>4. Ok(y, half, None, {})
  BY <1>1, <1>3, OkWithdrawal
<1>5. Ok(v, half, None, {}) /\ (~enabled => Undamped(v))
  BY <1>1, <1>4
<1> HIDE DEF v
<1>6. Ok(z, half, None, {}) /\ Still(v, z)
  BY <1>5, OkRemoved
<1> HIDE DEF z
<1>7. CASE enabled /\ Damped(x, r)
  <2>1. Ok(Here', half, None, {})
    BY <1>2, <1>4, <1>7, Stored
  <2> QED
    BY <1>2, <1>7, <2>1 DEF Keeps
<1>8. CASE ~(enabled /\ Damped(x, r))
  <2>1. Ok(Here', half, None, {}) /\ (Undamped(z) => Undamped(Here'))
    BY <1>2, <1>6, <1>8, Stored
  <2> QED
    BY <1>2, <1>5, <1>6, <2>1 DEF Keeps, Still
<1> QED
  BY <1>7, <1>8

LEMMA KeepsTick ==
    ASSUME DampOK, Tick
    PROVE  Keeps
<1> DEFINE v == Here
           x == [Here EXCEPT !.bdi = Older(bdi)]
           y == bgp_reuse_timer(x)
<1>1. Ok(v, half, None, {}) /\ half \in BOOLEAN /\ (~enabled => Undamped(v)) /\ v \in State
  BY DEF DampOK, Surroundings, Ok, Sane
<1>2. Aging(v, x)
  BY <1>1, HereOlder
<1>3. /\ IF half THEN Becomes(y) ELSE Becomes(x)
      /\ half' = ~half /\ enabled' = enabled
  BY DEF Tick
<1>4. enabled
  BY <1>1, HereFields DEF Tick, Decaying, Undamped
<1> HIDE DEF v, x
<1>5. CASE half
  <2>1. Ok(v, TRUE, None, {})
    BY <1>1, <1>5
  <2>2. Ok(y, FALSE, None, {})
    BY <1>2, <2>1, OkTimer
  <2> HIDE DEF y
  <2>3. Ok(Here', FALSE, None, {})
    BY <1>3, <1>5, <2>2, Stored
  <2> QED
    BY <1>3, <1>4, <1>5, <2>3 DEF Keeps
<1>6. CASE ~half
  <2>1. Ok(v, FALSE, None, {})
    BY <1>1, <1>6
  <2>2. Ok(x, TRUE, None, {})
    BY <1>2, <2>1, OkAging
  <2>3. Ok(Here', TRUE, None, {})
    BY <1>3, <1>6, <2>2, Stored
  <2> QED
    BY <1>3, <1>4, <1>6, <2>3 DEF Keeps
<1> QED
  BY <1>5, <1>6

LEMMA KeepsScan ==
    ASSUME DampOK, bgp_scan
    PROVE  Keeps
<1> DEFINE x == Here
           y == Scanned(x)
           z == IF enabled THEN y ELSE x
<1>1. Ok(x, half, None, {}) /\ (~enabled => Undamped(x))
  BY DEF DampOK
<1>2. Becomes(z) /\ half' = half /\ enabled' = enabled
  BY DEF bgp_scan
<1> HIDE DEF x
<1>3. Ok(y, half, None, {})
  BY <1>1, OkScanned
<1> HIDE DEF y
<1>4. Ok(z, half, None, {}) /\ (~enabled => Undamped(z))
  BY <1>1, <1>3
<1> HIDE DEF z
<1>5. Ok(Here', half, None, {}) /\ (Undamped(z) => Undamped(Here'))
  BY <1>2, <1>4, Stored
<1> QED
  BY <1>2, <1>4, <1>5 DEF Keeps

LEMMA KeepsProcess ==
    ASSUME DampOK, NEW r \in Route, bgp_process_main(r)
    PROVE  Keeps
<1> DEFINE x == Here
           s == SetFlag(x, r, "SELECTED")
           c == UnsetFlag(s, r, "ATTR_CHANGED")
           u == UnsetFlag(x, r, "SELECTED")
           d == IF Has(x.info[r], "REMOVED") THEN Reaped(u, r) ELSE u
<1>1. Ok(x, half, None, {}) /\ (~enabled => Undamped(x))
  BY DEF DampOK
<1>2. x.info = info
  BY HereFields
<1>3. (Becomes(x) \/ Becomes(c) \/ Becomes(d)) /\ half' = half /\ enabled' = enabled
  BY <1>2 DEF bgp_process_main
<1>4. /\ s = SetFlag(x, r, "SELECTED") /\ c = UnsetFlag(s, r, "ATTR_CHANGED")
      /\ u = UnsetFlag(x, r, "SELECTED")
      /\ d = IF Has(x.info[r], "REMOVED") THEN Reaped(u, r) ELSE u
  OBVIOUS
<1> HIDE DEF x, s, c, u, d
<1>5. Ok(c, half, None, {}) /\ Still(x, c)
  BY <1>1, <1>4, OkChosen
<1>6. Ok(d, half, None, {}) /\ Still(x, d)
  BY <1>1, <1>4, OkDropped
<1>7. PICK z : Becomes(z) /\ Ok(z, half, None, {}) /\ (~enabled => Undamped(z))
  BY <1>1, <1>3, <1>5, <1>6 DEF Still
<1>8. Ok(Here', half, None, {}) /\ (Undamped(z) => Undamped(Here'))
  BY <1>7, Stored
<1> QED
  BY <1>3, <1>7, <1>8 DEF Keeps

LEMMA KeepsCommand ==
    ASSUME DampOK, Command
    PROVE  Keeps
<1> DEFINE x == Here
           y == bgp_damp_info_clean(x)
<1>1. /\ Ok(x, half, None, {}) /\ Sane(x, None, {}) /\ half \in BOOLEAN
      /\ (~enabled => Undamped(x))
  BY DEF DampOK, Surroundings, Ok
<1>2. x.bdi = bdi
  BY HereFields
<1>3. ASSUME NEW r \in Route, bgp_clear_damp_route(r) PROVE Keeps
  <2> DEFINE z == bgp_damp_info_free(x, r, TRUE)
  <2>1. Becomes(z) /\ x.bdi[r] # None /\ half' = half /\ enabled' = enabled
    BY <1>2, <1>3 DEF bgp_clear_damp_route
  <2>2. z = bgp_damp_info_free(x, r, TRUE)
    OBVIOUS
  <2> HIDE DEF z, x
  <2>3. Ok(z, half, None, {})
    BY <1>1, <2>1, <2>2, OkCleared
  <2>4. Ok(Here', half, None, {})
    BY <2>1, <2>3, Stored
  <2>5. enabled
    BY <1>1, <2>1 DEF Undamped
  <2> QED
    BY <2>1, <2>4, <2>5 DEF Keeps
<1>4. CASE clear_ip_bgp_dampening \/ bgp_damp_disable
  <2>1. Becomes(y)
    BY <1>4 DEF clear_ip_bgp_dampening, bgp_damp_disable
  <2> DEFINE h == half'
  <2> HIDE DEF x, h
  <2>2. Ok(y, h, None, {}) /\ Undamped(y)
    BY <1>1, Cleaned
  <2> HIDE DEF y
  <2>3. Ok(Here', h, None, {}) /\ (Undamped(y) => Undamped(Here'))
    BY <2>1, <2>2, Stored
  <2> QED
    BY <2>2, <2>3 DEF Keeps, h
<1>5. CASE bgp_damp_enable
  <2>1. Becomes(x) /\ ~enabled /\ enabled' /\ half' = FALSE
    BY <1>5 DEF bgp_damp_enable, damped, Becomes, Here
  <2> HIDE DEF x
  <2>2. \A q \in Route : Sound(x, q) /\ x.bdi[q] = None
    BY <1>1, <2>1 DEF Sane, Undamped
  <2>3. \A q \in Route : Timely(x, FALSE, q)
    BY <2>2 DEF Timely, Sound
  <2>4. Ok(x, FALSE, None, {})
    BY <1>1, <2>3 DEF Ok
  <2>5. Ok(Here', FALSE, None, {})
    BY <2>1, <2>4, Stored
  <2> QED
    BY <2>1, <2>5 DEF Keeps
<1> QED
  BY <1>3, <1>4, <1>5 DEF Command

\* The reuse timer queues routes.
LEMMA TimerQueuesRoutes ==
    ASSUME NEW v, NEW x, NEW h, Ok(v, h, None, {}), Aging(v, x)
    PROVE  TimerQueues(x) \subseteq Route
<1> DEFINE head == x.reuse[x.offset]
           m == Members(x, head)
           N == Len(m)
           S == On(x, x.offset)
<1>1. Sane(x, None, {}) /\ x.offset \in List
  BY SaneAging DEF Ok, Sane, State
<1>2. x.offset \in AnyList /\ HeadOf(x, x.offset) = head
  BY <1>1, DampAssumption DEF AnyList, HeadOf, List, NoReuse
<1>3. Strung(x.bdi, HeadOf(x, x.offset), On(x, x.offset) \ {})
  BY <1>1, <1>2 DEF Sane, ListsOf
<1>4. Strung(x.bdi, head, S) /\ m = Members(x, head) /\ N = Len(m)
  BY <1>2, <1>3
<1>5. TimerQueues(x) \subseteq ToSet(m)
  BY DEF TimerQueues
<1> HIDE DEF head, m, N, S
<1>6. Enumerates(x.bdi, head, m, N, S)
  BY <1>4, StrungMembers
<1>7. ToSet(m) \subseteq Route
  BY <1>6 DEF Enumerates, ToSet
<1> QED
  BY <1>5, <1>7

LEMMA KeepsSurroundings ==
    ASSUME DampOK, [Next]_vars
    PROVE  Surroundings'
<1>1. /\ enabled \in BOOLEAN /\ scanIn \in 0..ScanInterval /\ half \in BOOLEAN
      /\ queued \subseteq Route
      /\ told \in [Route -> Attr \cup {NoAttr}] /\ said \in [Route -> Attr \cup {NoAttr}]
      /\ flaps \in 0..MaxFlaps
  BY DEF DampOK, Surroundings
<1>2. ScanInterval \in Nat /\ MaxFlaps \in Nat
  BY DampAssumption
<1>3. info \in [Route -> Info] /\ \A r \in Route : info[r].attr \in Attr \cup {NoAttr}
  <2>1. Here \in State /\ Here.info = info
    BY HereFields DEF DampOK, Ok, Sane
  <2>2. info \in [Route -> Info]
    BY <2>1 DEF State
  <2> QED
    BY <2>2 DEF Info
<1>4. Flap => flaps' \in 0..MaxFlaps
  BY <1>1, <1>2 DEF Flap
<1>5. ASSUME NEW r \in Route, NEW a \in Attr \cup {NoAttr}, Says(r, a)
      PROVE  said' \in [Route -> Attr \cup {NoAttr}]
  BY <1>1, <1>5 DEF Says
<1>6. ASSUME NEW r \in Route, NEW a \in Attr, UpdateNew(r, a) \/ UpdateChanged(r, a)
      PROVE  Surroundings'
  <2>1. Says(r, a) /\ Flap /\ UNCHANGED <<enabled, scanIn, half, told>> /\ queued' \subseteq Route
    BY <1>1, <1>6 DEF UpdateNew, UpdateChanged
  <2>2. said' \in [Route -> Attr \cup {NoAttr}]
    BY <1>5, <2>1
  <2> QED
    BY <1>1, <1>4, <2>1, <2>2 DEF Surroundings
<1>7. ASSUME NEW r \in Route, UpdateSame(r) PROVE Surroundings'
  <2>1. Says(r, info[r].attr) /\ Flap /\ UNCHANGED <<enabled, scanIn, half, told>>
        /\ queued' \subseteq Route
    BY <1>1, <1>7 DEF UpdateSame
  <2>2. said' \in [Route -> Attr \cup {NoAttr}]
    BY <1>3, <1>5, <2>1
  <2> QED
    BY <1>1, <1>4, <2>1, <2>2 DEF Surroundings
<1>8. ASSUME NEW r \in Route, Denied(r) \/ bgp_withdraw(r) PROVE Surroundings'
  <2>1. Says(r, NoAttr) /\ Flap /\ UNCHANGED <<enabled, scanIn, half, told>> /\ queued' \subseteq Route
    BY <1>1, <1>8 DEF Denied, bgp_withdraw
  <2>2. said' \in [Route -> Attr \cup {NoAttr}]
    BY <1>5, <2>1
  <2> QED
    BY <1>1, <1>4, <2>1, <2>2 DEF Surroundings
<1>9. CASE Command
  BY <1>1, <1>4, <1>9 DEF Command, bgp_clear_damp_route, clear_ip_bgp_dampening, bgp_damp_disable,
                          bgp_damp_enable, Surroundings
<1>10. CASE Tick
  <2> DEFINE v == Here
             x == [Here EXCEPT !.bdi = Older(bdi)]
  <2>1. Ok(v, half, None, {}) /\ v \in State
    BY DEF DampOK, Ok, Sane
  <2>2. Aging(v, x)
    BY <2>1, HereOlder
  <2>3. (queued' = queued \/ queued' = queued \cup TimerQueues(x))
    BY <1>10 DEF Tick
  <2> HIDE DEF v, x
  <2>4. TimerQueues(x) \subseteq Route
    BY <2>1, <2>2, TimerQueuesRoutes
  <2>5. /\ scanIn > 0 /\ scanIn' = scanIn - 1 /\ half' = ~half
        /\ UNCHANGED <<enabled, told, said, flaps>>
    BY <1>10 DEF Tick
  <2> QED
    BY <1>1, <1>2, <2>3, <2>4, <2>5 DEF Surroundings
<1>11. CASE bgp_scan
  BY <1>1, <1>2, <1>11 DEF bgp_scan, Surroundings
<1>12. ASSUME NEW r \in Route, bgp_process_main(r) PROVE Surroundings'
  <2>1. /\ queued' \subseteq queued
        /\ \E a \in Attr \cup {NoAttr} : told' = [told EXCEPT ![r] = a]
        /\ UNCHANGED <<enabled, scanIn, half, said, flaps>>
    BY <1>1, <1>3, <1>12 DEF bgp_process_main
  <2>2. told' \in [Route -> Attr \cup {NoAttr}]
    BY <1>1, <2>1
  <2> QED
    BY <1>1, <2>1, <2>2 DEF Surroundings
<1>13. CASE UNCHANGED vars
  BY <1>1, <1>13 DEF vars, Surroundings
<1> QED
  BY <1>6, <1>7, <1>8, <1>9, <1>10, <1>11, <1>12, <1>13 DEF Next, Neighbour

LEMMA DampInit ==
    ASSUME Init
    PROVE  DampOK
<1> DEFINE x == Here
           first == CHOOSE a \in Attr : TRUE
           i == [attr |-> first, flags |-> {"VALID", "COUNTED", "SELECTED"}]
<1>1. first \in Attr /\ first # NoAttr
  BY DampAssumption, NoAttrAssumption
<1>2. /\ info = [r \in Route |-> i] /\ told = [r \in Route |-> first]
      /\ said = [r \in Route |-> first] /\ pcount = Cardinality(Route)
      /\ bdi = [r \in Route |-> None] /\ reuse = [k \in List |-> None] /\ noReuse = None
      /\ offset = 0 /\ enabled = TRUE /\ scanIn = ScanInterval /\ half = FALSE
      /\ queued = {} /\ flaps = 0
  BY DEF Init
<1> HIDE DEF first
<1>3. i \in Info /\ i.attr = first /\ i.flags = {"VALID", "COUNTED", "SELECTED"}
  BY <1>1 DEF Info, Flag
<1>4. Has(i, "COUNTED") /\ ~HOLDDOWN(i) /\ Present(i) /\ ~Has(i, "DAMPED") /\ ~Has(i, "HISTORY")
  BY <1>1, <1>3 DEF Has, HOLDDOWN, UNUSEABLE, Present
<1> HIDE DEF i
<1>5. Cardinality(Route) \in Nat /\ 0 \in List
  BY DampAssumption, FS_CardinalityType DEF List
<1>6. /\ x.info = [r \in Route |-> i] /\ x.pc = Cardinality(Route) /\ x.bdi = [r \in Route |-> None]
      /\ x.reuse = [k \in List |-> None] /\ x.noReuse = None /\ x.offset = 0
  BY <1>2, HereFields
<1>7. x \in State
  BY <1>2, <1>3, <1>5 DEF Here, State, Bdi, Pointer
<1> HIDE DEF x
<1>8. CountedIn(x) = Route
  BY <1>4, <1>6 DEF CountedIn
<1>9. Tallied(x, None)
  BY <1>4, <1>6, <1>8 DEF Tallied, Agree
<1>10. \A q \in Route : Sound(x, q) /\ ~Damped(x, q) /\ x.bdi[q] = None
  BY <1>4, <1>6 DEF Sound, Damped
<1>11. ListsOf(x, {})
  <2>1. \A j \in AnyList : HeadOf(x, j) = None /\ On(x, j) \ {} = {}
    BY <1>6, <1>10 DEF HeadOf, On, AnyList
  <2> QED
    BY <2>1, StrungNone DEF ListsOf
<1>12. Ok(x, half, None, {}) /\ Undamped(x)
  BY <1>7, <1>9, <1>10, <1>11 DEF Ok, Sane, Timely, Undamped
<1>13. Surroundings
  <2>1. scanIn \in 0..ScanInterval /\ flaps \in 0..MaxFlaps
    BY <1>2, DampAssumption
  <2>2. told \in [Route -> Attr \cup {NoAttr}] /\ said \in [Route -> Attr \cup {NoAttr}]
    BY <1>1, <1>2
  <2>3. enabled \in BOOLEAN /\ half \in BOOLEAN /\ queued \subseteq Route
    BY <1>2
  <2> QED
    BY <2>1, <2>2, <2>3 DEF Surroundings
<1> QED
  BY <1>12, <1>13 DEF DampOK, x

LEMMA DampStep ==
    ASSUME DampOK, [Next]_vars
    PROVE  DampOK'
<1>1. Surroundings'
  BY KeepsSurroundings
<1>2. Keeps
  <2>1. CASE Neighbour
    BY <2>1, KeepsNew, KeepsSame, KeepsChanged, KeepsDenied, KeepsWithdraw DEF Neighbour
  <2>2. CASE \E r \in Route : bgp_process_main(r)
    BY <2>2, KeepsProcess
  <2>3. CASE UNCHANGED vars
    <3> DEFINE x == Here
    <3>1. /\ Ok(x, half, None, {}) /\ (~enabled => Undamped(x))
          /\ Becomes(x) /\ half' = half /\ enabled' = enabled
      BY <2>3 DEF DampOK, vars, Becomes, Here
    <3> HIDE DEF x
    <3>2. Ok(Here', half, None, {}) /\ (Undamped(x) => Undamped(Here'))
      BY <3>1, Stored
    <3> QED
      BY <3>1, <3>2 DEF Keeps
  <2> QED
    BY <2>1, <2>2, <2>3, KeepsTick, KeepsScan, KeepsCommand DEF Next
<1> QED
  BY <1>1, <1>2 DEF DampOK, Keeps

LEMMA DampAlways == Spec => []DampOK
<1>1. Init => DampOK
  BY DampInit
<1>2. DampOK /\ [Next]_vars => DampOK'
  BY DampStep
<1> QED
  BY <1>1, <1>2, PTL DEF Spec

-----------------------------------------------------------------------------
\* Types, whatever flaps, decays and is freed, for any reuse, suppress and
\* maximum suppress values whose tables fit; no penalty exceeds both the ceiling
\* and DEFAULT_PENALTY (bgp_damp_withdraw, bgp_pcount_adjust).
THEOREM DampTypeCorrect == Spec => []TypeOK
<1>1. DampOK => TypeOK
  <2>1. SUFFICES ASSUME DampOK PROVE TypeOK
    OBVIOUS
  <2>2. Here \in State
    BY <2>1 DEF DampOK, Ok, Sane
  <2> QED
    BY <2>1, <2>2, HereFields DEF DampOK, Surroundings, TypeOK, State, Bdi
<1> QED
  BY <1>1, DampAlways, PTL

\* The reuse list looks at a suppressed route before its penalty has fallen to
\* half the reuse limit (bgp_reuse_timer), also if announcements replace the
\* penalty by what is left of it (bgp_damp_update).
THEOREM TimelyReuseCorrect == Spec => []TimelyReuse
<1>1. DampOK => TimelyReuse
  <2>1. SUFFICES ASSUME DampOK, NEW r \in Route, Damped(Here, r)
        PROVE  Retained(bgp_damp_decay(bdi[r].age, bdi[r].penalty))
    BY DEF TimelyReuse
  <2> DEFINE x == Here
  <2>2. x.bdi = bdi
    BY HereFields
  <2>3. /\ x \in State /\ Sound(x, r) /\ Timely(x, half, r) /\ Damped(x, r) /\ half \in BOOLEAN
    BY <2>1 DEF DampOK, Surroundings, Ok, Sane
  <2> HIDE DEF x
  <2>4. Retained(Decayed(x, r))
    BY <2>3, TimelyFinds
  <2> QED
    BY <2>2, <2>4 DEF Decayed
<1> QED
  BY <1>1, DampAlways, PTL

\* The prefix count of the neighbour is the number of its usable routes, while
\* damping hides them, frees them and gives them back (bgp_info_set_flag,
\* bgp_info_unset_flag, bgp_damp_info_free).
THEOREM DampPrefixCountCorrect == Spec => []PrefixCount
<1>1. DampOK => PrefixCount
  <2>1. SUFFICES ASSUME DampOK PROVE PrefixCount
    OBVIOUS
  <2> DEFINE x == Here
  <2>2. x.info = info /\ x.pc = pcount
    BY HereFields
  <2>3. Tallied(x, None)
    BY <2>1 DEF DampOK, Ok, Sane
  <2> HIDE DEF x
  <2>4. ASSUME NEW q \in Route PROVE Has(x.info[q], "COUNTED") <=> Usable(info[q])
    <3>1. Agree(x, q) /\ (Has(info[q], "VALID") => Present(info[q]))
      BY <2>2, <2>3, DampAssumption DEF Tallied
    <3> QED
      BY <2>2, <3>1 DEF Agree, Usable, HOLDDOWN
  <2>5. CountedIn(x) = {q \in Route : Usable(info[q])}
    BY <2>4 DEF CountedIn
  <2> QED
    BY <2>2, <2>3, <2>5 DEF Tallied, PrefixCount
<1> QED
  BY <1>1, DampAlways, PTL

\* A list that is strung has its members in order, once each.
LEMMA HoldsStrung ==
    ASSUME NEW head, NEW S, Strung(bdi, head, S)
    PROVE  Holds(head, S)
<1> DEFINE x == Here
           m == Members(x, head)
           N == Len(m)
<1>1. x.bdi = bdi
  BY HereFields
<1>2. m = Members(x, head) /\ N = Len(m) /\ m = Members(Here, head)
  OBVIOUS
<1> HIDE DEF x, m, N
<1>3. Enumerates(x.bdi, head, m, N, S)
  BY <1>1, <1>2, StrungMembers
<1>4. /\ N \in Nat /\ m \in [1..N -> Route] /\ Chain(bdi, head, N, m)
      /\ S = {m[i] : i \in 1..N}
  BY <1>1, <1>3 DEF Enumerates
<1>5. DOMAIN m = 1..N /\ ToSet(m) = S
  BY <1>4 DEF ToSet
<1>6. Cardinality(S) = N
  <2>1. m \in Bijection(1..N, S)
    BY <1>4 DEF Bijection, Injection, Surjection, Chain, IsInjective
  <2>2. IsFiniteSet(1..N) /\ Cardinality(1..N) = N
    BY <1>4, FS_Interval
  <2> QED
    BY <2>1, <2>2, FS_Bijection DEF ExistsBijection
<1>7. \A i \in DOMAIN m :
        /\ bdi[m[i]].prev = IF i = 1 THEN None ELSE m[i - 1]
        /\ bdi[m[i]].next = IF i = Len(m) THEN None ELSE m[i + 1]
  BY <1>2, <1>4, <1>5 DEF Chain
<1> QED
  BY <1>2, <1>5, <1>6, <1>7 DEF Holds

\* Every bgp_damp_info is on exactly one list, the one that DAMPED and its index
\* name, and the links of the lists are right, while routes move from list to
\* list (BGP_DAMP_LIST_ADD, BGP_DAMP_LIST_DEL, bgp_reuse_list_add,
\* bgp_reuse_list_delete).
THEOREM LinkedCorrect == Spec => []Linked
<1>1. DampOK => Linked
  <2>1. SUFFICES ASSUME DampOK PROVE Linked
    OBVIOUS
  <2> DEFINE x == Here
             Is(r) == bdi[r] # None
  <2>2. x.info = info /\ x.bdi = bdi /\ x.reuse = reuse /\ x.noReuse = noReuse
    BY HereFields
  <2>3. Sane(x, None, {})
    BY <2>1 DEF DampOK, Ok
  <2>4. \A r \in Route : Damped(Here, r) <=> Damped(x, r)
    OBVIOUS
  <2> HIDE DEF x
  <2>5. \A j \in AnyList : Strung(bdi, HeadOf(x, j), On(x, j))
    BY <2>2, <2>3 DEF Sane, ListsOf
  <2>6. ASSUME NEW k \in List
        PROVE  Holds(reuse[k], {r \in Route : Is(r) /\ Damped(Here, r) /\ bdi[r].index = k})
    <3> DEFINE S == {r \in Route : Is(r) /\ Damped(Here, r) /\ bdi[r].index = k}
    <3>1. k \in AnyList /\ k # NoReuse
      BY DampAssumption DEF AnyList, List, NoReuse
    <3>2. HeadOf(x, k) = reuse[k] /\ On(x, k) = S
      BY <2>2, <2>4, <3>1 DEF HeadOf, On, Where
    <3> HIDE DEF S
    <3>3. Strung(bdi, reuse[k], S)
      BY <2>5, <3>1, <3>2
    <3>4. Holds(reuse[k], S)
      BY <3>3, HoldsStrung
    <3> QED
      BY <3>4 DEF S
  <2>7. Holds(noReuse, {r \in Route : Is(r) /\ ~Damped(Here, r)})
    <3> DEFINE S == {r \in Route : Is(r) /\ ~Damped(Here, r)}
    <3>1. NoReuse \in AnyList /\ \A r \in Route : Damped(x, r) => x.bdi[r].index # NoReuse
      BY <2>3, DampAssumption DEF AnyList, List, NoReuse, Sane, Sound
    <3>2. HeadOf(x, NoReuse) = noReuse /\ On(x, NoReuse) = S
      BY <2>2, <2>4, <3>1 DEF HeadOf, On, Where
    <3> HIDE DEF S
    <3>3. Strung(bdi, noReuse, S)
      BY <2>5, <3>1, <3>2
    <3>4. Holds(noReuse, S)
      BY <3>3, HoldsStrung
    <3> QED
      BY <3>4 DEF S
  <2>8. \A r \in Route : (Damped(Here, r) \/ Has(info[r], "HISTORY")) => Is(r)
    BY <2>2, <2>3, <2>4 DEF Sane, Sound
  <2> QED
    BY <2>6, <2>7, <2>8 DEF Linked
<1> QED
  BY <1>1, DampAlways, PTL
=============================================================================
