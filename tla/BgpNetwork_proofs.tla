------------------------- MODULE BgpNetwork_proofs -------------------------
(***************************************************************************)
(* MED adds up to the cost of the path, in any network of any size: the    *)
(* proof that every route of every router carries the origin's MED plus    *)
(* the cost of each link it came over.  And it finds the shortest path:    *)
(* once nothing is waiting in a network of external sessions, every router *)
(* has selected a route of the least cost of all there are.                *)
(***************************************************************************)
EXTENDS BgpNetwork, Fifo_proofs

\* Remainders may be taken before an addition: MED is 32 bits wide at each hop.
LEMMA AddModulo ==
    ASSUME NEW a \in Nat, NEW b \in Nat, NEW m \in Nat \ {0}
    PROVE  ((a % m) + b) % m = (a + b) % m
<1> DEFINE x == (a % m) + b
           y == a + b
<1>1. /\ a = m * (a \div m) + (a % m) /\ a \div m \in Int /\ a % m \in 0..(m - 1)
  BY SMTT(30)
<1>2. x \in Int /\ y \in Int /\ y = x + m * (a \div m)
  BY <1>1
<1> HIDE DEF x, y
<1>3. /\ x = m * (x \div m) + (x % m) /\ x \div m \in Int /\ x % m \in 0..(m - 1)
      /\ y = m * (y \div m) + (y % m) /\ y \div m \in Int /\ y % m \in 0..(m - 1)
  BY <1>2, SMTT(30)
<1> DEFINE d == (y \div m) - (x \div m) - (a \div m)
<1>4. d \in Int /\ m * d = (x % m) - (y % m)
  BY <1>1, <1>2, <1>3, SMTT(30)
<1> DEFINE gap == (x % m) - (y % m)
<1>5. /\ gap \in Int /\ m * d = gap
      /\ gap < m /\ -m < gap
  BY <1>3, <1>4
<1> HIDE DEF d, gap
<1>6. d < 1
  <2> SUFFICES ASSUME d >= 1 PROVE m * d >= m
    BY <1>4, <1>5
  <2> QED
    BY <1>4, SMTT(30)
<1>7. d > -1
  <2> SUFFICES ASSUME d <= -1 PROVE m * d <= -m
    BY <1>4, <1>5
  <2> QED
    BY <1>4, SMTT(30)
<1>8. d = 0
  BY <1>4, <1>6, <1>7
<1>9. gap = 0
  BY <1>5, <1>8
<1> QED
  BY <1>3, <1>9 DEF gap, x, y

-----------------------------------------------------------------------------
(***************************************************************************)
(* The cost of a path.                                                     *)
(***************************************************************************)
\* A way a route may have come: from an origin of the prefix over configured links.
IsPath(path) ==
    /\ path \in Seq(Router) /\ path # <<>> /\ path[Len(path)] \in Origins
    /\ \A i \in 1..(Len(path) - 1) : path[i + 1] \in Neighbours(path[i])

\* The recursion of CostOf.
SumStep(path, sum, k) ==
    IF k = 1 THEN Base[path[Len(path)]]
    ELSE sum[k - 1] + Cost[<<path[Len(path) - k + 2], path[Len(path) - k + 1]>>]

\* Links go both ways, and each has a cost.
LEMMA NeighbourFacts ==
    ASSUME NEW r \in Router, NEW q \in Neighbours(r)
    PROVE  /\ q \in Router /\ r \in Neighbours(q) /\ q # r
           /\ Cost[<<r, q>>] \in Nat /\ Cost[<<q, r>>] \in Nat
<1>1. q \in Router /\ r \in Neighbours(q)
  BY DEF Neighbours
<1>2. q # r
  BY LinkAssumption DEF Neighbours
<1> QED
  BY <1>1, <1>2, CostAssumption

\* The steps of the recursion along a path are numbers.
LEMMA HopCosts ==
    ASSUME NEW path, IsPath(path)
    PROVE  /\ Len(path) \in Nat /\ Len(path) >= 1 /\ Base[path[Len(path)]] \in Nat
           /\ \A k \in 2..Len(path) : Cost[<<path[Len(path) - k + 2], path[Len(path) - k + 1]>>] \in Nat
<1>1. Len(path) \in Nat /\ Len(path) >= 1
  BY DEF IsPath
<1>2. Base[path[Len(path)]] \in Nat
  BY CostAssumption DEF IsPath
<1>3. ASSUME NEW k \in 2..Len(path)
      PROVE  Cost[<<path[Len(path) - k + 2], path[Len(path) - k + 1]>>] \in Nat
  <2> DEFINE i == Len(path) - k + 1
  <2>1. i \in 1..(Len(path) - 1) /\ Len(path) - k + 2 = i + 1
    BY <1>1
  <2> HIDE DEF i
  <2>2. path[i] \in Router /\ path[i + 1] \in Neighbours(path[i])
    BY <1>1, <2>1 DEF IsPath
  <2>3. Cost[<<path[i + 1], path[i]>>] \in Nat
    BY <2>2, NeighbourFacts
  <2> QED
    BY <2>1, <2>3 DEF i
<1> QED
  BY <1>1, <1>2, <1>3

\* There is a function that satisfies the recursion.
LEMMA SumDefined ==
    ASSUME NEW path, IsPath(path)
    PROVE  \E sum : sum = [k \in 1..Len(path) |-> SumStep(path, sum, k)]
<1> DEFINE Good(sum, m) == \A k \in 1..m : sum[k] = SumStep(path, sum, k)
           I == {m \in Nat : m <= Len(path) => \E sum \in [1..m -> Nat] : Good(sum, m)}
<1>1. 0 \in I
  <2>1. [k \in 1..0 |-> 0] \in [1..0 -> Nat] /\ Good([k \in 1..0 |-> 0], 0)
    OBVIOUS
  <2> QED
    BY <2>1
<1>2. ASSUME NEW m \in Nat, m \in I PROVE m + 1 \in I
  <2>1. CASE m + 1 <= Len(path)
    <3>1. PICK f \in [1..m -> Nat] : Good(f, m)
      BY <1>2, <2>1
    <3> DEFINE sum == [k \in 1..(m + 1) |-> IF k <= m THEN f[k] ELSE SumStep(path, f, m + 1)]
    <3>2. SumStep(path, f, m + 1) \in Nat
      <4>1. CASE m = 0
        BY <4>1, HopCosts DEF SumStep
      <4>2. CASE m # 0
        <5>1. f[m] \in Nat /\ m + 1 \in 2..Len(path) /\ m + 1 # 1 /\ m + 1 - 1 = m
          BY <2>1, <4>2
        <5> DEFINE c == Cost[<<path[Len(path) - (m + 1) + 2], path[Len(path) - (m + 1) + 1]>>]
        <5>2. c \in Nat
          BY <5>1, HopCosts
        <5>3. SumStep(path, f, m + 1) = f[m] + c
          BY <5>1 DEF SumStep
        <5> HIDE DEF c
        <5> QED
          BY <5>1, <5>2, <5>3
      <4> QED
        BY <4>1, <4>2
    <3>3. sum \in [1..(m + 1) -> Nat]
      BY <3>2
    <3>4. \A k \in 1..(m + 1) : k # 1 => sum[k - 1] = f[k - 1]
      OBVIOUS
    <3>5. \A k \in 1..(m + 1) : SumStep(path, sum, k) = SumStep(path, f, k)
      BY <3>4 DEF SumStep
    <3>6. (\A k \in 1..m : sum[k] = f[k]) /\ sum[m + 1] = SumStep(path, f, m + 1)
      OBVIOUS
    <3> HIDE DEF sum
    <3>7. Good(sum, m + 1)
      BY <3>1, <3>5, <3>6
    <3>8. \E g \in [1..(m + 1) -> Nat] : Good(g, m + 1)
      BY <3>3, <3>7
    <3> HIDE DEF Good
    <3> QED
      BY <3>8
  <2>2. CASE ~(m + 1 <= Len(path))
    BY <2>2
  <2> QED
    BY <2>1, <2>2
<1>3. PICK sum \in [1..Len(path) -> Nat] : Good(sum, Len(path))
  <2>1. Len(path) \in I
    <3> HIDE DEF I
    <3> QED
      BY <1>1, <1>2, HopCosts, SetInduction
  <2> QED
    BY <2>1 DEF I
<1> QED
  BY <1>3

\* CostOf is computed hop by hop from the origin.
LEMMA CostComputes ==
    ASSUME NEW path, IsPath(path)
    PROVE  \E sum : /\ CostOf(path) = sum[Len(path)]
                    /\ \A k \in 1..Len(path) : sum[k] = SumStep(path, sum, k)
<1> DEFINE sum == CHOOSE f : f = [k \in 1..Len(path) |-> SumStep(path, f, k)]
<1>1. sum = [k \in 1..Len(path) |-> SumStep(path, sum, k)]
  BY SumDefined
<1>2. CostOf(path) = sum[Len(path)]
  BY DEF CostOf, SumStep
<1> HIDE DEF sum
<1>3. \A k \in 1..Len(path) : sum[k] = SumStep(path, sum, k)
  <2> DEFINE G == [k \in 1..Len(path) |-> SumStep(path, sum, k)]
  <2>1. \A k \in 1..Len(path) : G[k] = SumStep(path, sum, k)
    OBVIOUS
  <2>2. sum = G
    BY <1>1
  <2> HIDE DEF G
  <2> QED
    BY <2>1, <2>2
<1> QED
  BY <1>2, <1>3

\* The cost at an origin is the MED of its network command.
LEMMA CostAtOrigin ==
    ASSUME NEW r \in Origins
    PROVE  IsPath(<<r>>) /\ CostOf(<<r>>) = Base[r]
<1> DEFINE path == <<r>>
<1>1. Len(path) = 1 /\ path[1] = r /\ path \in Seq(Router) /\ path # <<>>
  BY CostAssumption
<1> HIDE DEF path
<1>2. IsPath(path)
  BY <1>1 DEF IsPath
<1>3. PICK sum : /\ CostOf(path) = sum[Len(path)]
                 /\ \A k \in 1..Len(path) : sum[k] = SumStep(path, sum, k)
  BY <1>2, CostComputes
<1>4. CostOf(path) = Base[r]
  BY <1>1, <1>3 DEF SumStep
<1> QED
  BY <1>2, <1>4 DEF path

\* A router that is told of a path has a path, at the cost of the link more.
LEMMA CostOfHop ==
    ASSUME NEW path, IsPath(path), NEW r \in Neighbours(Head(path))
    PROVE  /\ IsPath(<<r>> \o path) /\ CostOf(path) \in Nat
           /\ CostOf(<<r>> \o path) = CostOf(path) + Cost[<<Head(path), r>>]
<1> DEFINE longer == <<r>> \o path
           n == Len(path)
<1>1. path \in Seq(Router) /\ n \in Nat /\ n >= 1 /\ Head(path) = path[1] /\ path[1] \in Router
  BY HopCosts DEF IsPath
<1>2. r \in Router /\ Head(path) \in Neighbours(r)
  BY <1>1, NeighbourFacts
<1>3. /\ longer \in Seq(Router) /\ Len(longer) = n + 1 /\ longer[1] = r
      /\ \A i \in 1..n : longer[i + 1] = path[i]
  BY <1>1, <1>2
<1> HIDE DEF longer
<1>4. IsPath(longer)
  <2>1. longer # <<>> /\ longer[Len(longer)] \in Origins
    BY <1>1, <1>3 DEF IsPath
  <2>2. ASSUME NEW i \in 1..(Len(longer) - 1) PROVE longer[i + 1] \in Neighbours(longer[i])
    <3>1. CASE i = 1
      BY <1>1, <1>2, <1>3, <3>1
    <3>2. CASE i # 1
      <4> DEFINE j == i - 1
      <4>1. j \in 1..(n - 1) /\ j + 1 = i /\ j + 1 \in 1..n /\ j \in 1..n /\ i \in 1..n
        BY <1>1, <1>3, <3>2
      <4> HIDE DEF j
      <4>2. longer[i + 1] = path[j + 1] /\ longer[j + 1] = path[j]
        BY <1>3, <4>1
      <4>3. path[j + 1] \in Neighbours(path[j])
        BY <4>1 DEF IsPath
      <4> QED
        BY <4>1, <4>2, <4>3
    <3> QED
      BY <3>1, <3>2
  <2> QED
    BY <1>3, <2>1, <2>2 DEF IsPath
<1>5. PICK f : CostOf(path) = f[n] /\ \A k \in 1..n : f[k] = SumStep(path, f, k)
  BY CostComputes
<1>6. PICK g : CostOf(longer) = g[n + 1] /\ \A k \in 1..(n + 1) : g[k] = SumStep(longer, g, k)
  BY <1>3, <1>4, CostComputes
<1> HIDE DEF n
<1> DEFINE I == {m \in Nat : m + 1 <= n => f[m + 1] = g[m + 1] /\ f[m + 1] \in Nat}
<1>7. 0 \in I
  <2>1. f[1] = Base[path[Len(path)]] /\ g[1] = Base[longer[Len(longer)]]
    <3>1. 1 \in 1..n /\ 1 \in 1..(n + 1)
      BY <1>1
    <3>2. f[1] = SumStep(path, f, 1) /\ g[1] = SumStep(longer, g, 1)
      BY <1>5, <1>6, <3>1
    <3> QED
      BY <3>2 DEF SumStep
  <2>2. longer[Len(longer)] = path[Len(path)] /\ Base[path[Len(path)]] \in Nat
    BY <1>1, <1>3, HopCosts DEF n
  <2> QED
    BY <2>1, <2>2
<1>8. ASSUME NEW m \in Nat, m \in I PROVE m + 1 \in I
  <2> SUFFICES ASSUME m + 2 <= n PROVE f[m + 2] = g[m + 2] /\ f[m + 2] \in Nat
    OBVIOUS
  <2> DEFINE k == m + 2
  <2>1. k \in 2..n /\ k \in 1..n /\ k \in 1..(n + 1) /\ k # 1 /\ k - 1 = m + 1
    BY <1>1
  <2>2. f[m + 1] = g[m + 1] /\ f[m + 1] \in Nat
    BY <1>1, <1>8
  <2> HIDE DEF k
  <2>3. /\ f[k] = f[m + 1] + Cost[<<path[n - k + 2], path[n - k + 1]>>]
        /\ g[k] = g[m + 1] + Cost[<<longer[(n + 1) - k + 2], longer[(n + 1) - k + 1]>>]
    BY <1>3, <1>5, <1>6, <2>1 DEF SumStep, n
  <2>4. /\ n - k + 2 \in 1..n /\ (n + 1) - k + 2 = (n - k + 2) + 1
        /\ n - k + 1 \in 1..n /\ (n + 1) - k + 1 = (n - k + 1) + 1
    BY <1>1, <2>1
  <2>5. /\ longer[(n + 1) - k + 2] = path[n - k + 2]
        /\ longer[(n + 1) - k + 1] = path[n - k + 1]
    BY <1>3, <2>4
  <2>6. Cost[<<path[n - k + 2], path[n - k + 1]>>] \in Nat
    BY <2>1, HopCosts DEF n
  <2> QED
    BY <2>2, <2>3, <2>5, <2>6 DEF k
<1>9. n - 1 \in I
  <2> HIDE DEF I
  <2>1. \A m \in Nat : m \in I
    BY <1>7, <1>8, SetInduction
  <2> QED
    BY <1>1, <2>1
<1>10. f[n] = g[n] /\ f[n] \in Nat
  BY <1>1, <1>9
<1>11. g[n + 1] = g[n] + Cost[<<longer[2], longer[1]>>]
  <2>1. n + 1 # 1 /\ n + 1 \in 1..(n + 1) /\ (n + 1) - (n + 1) + 2 = 2 /\ (n + 1) - (n + 1) + 1 = 1
        /\ (n + 1) - 1 = n
    BY <1>1
  <2> QED
    BY <1>3, <1>6, <2>1 DEF SumStep
<1>12. longer[2] = path[1] /\ longer[1] = r
  BY <1>1, <1>3
<1> QED
  BY <1>1, <1>4, <1>5, <1>6, <1>10, <1>11, <1>12 DEF longer

-----------------------------------------------------------------------------
(***************************************************************************)
(* The inductive invariant.  MED is the cost of the path wherever a route  *)
(* is: in a table, waiting to be sent, and on the wire, where it has to    *)
(* come with the cost of the link in LOCAL_PREF.  A router knows the cost  *)
(* of a neighbour or takes it to be 0.  Where a route-map is missing,      *)
(* LOCAL_PREF is not the cost of the link, and only the types remain.      *)
(***************************************************************************)
Attrs == [med : 0..(MedRange - 1), pref : Nat, aspath : Seq(Nat), via : Seq(Router)]

Costs(attr, path) ==
    IsPath(path) /\ (RouteMap = Router => attr.med = CostOf(path) % MedRange)

\* The routes of r.
RouteOf(r) ==
    {e \in [peer : Neighbours(r) \cup {Self}, attr : Attrs, changed : BOOLEAN,
            removed : BOOLEAN, selected : BOOLEAN] : Costs(e.attr, <<r>> \o e.attr.via)}

\* Each neighbour has at most one route in the list.
Unique(routes) ==
    \A i, j \in DOMAIN routes : routes[i].peer = routes[j].peer => i = j

Lists(r) == {routes \in Seq(RouteOf(r)) : Unique(routes)}

\* What r may announce to q.
Update(r, q) ==
    {a \in Attrs : /\ Costs(a, a.via) /\ Head(a.via) = r
                   /\ RouteMap = Router => a.pref = Cost[<<r, q>>]}

AdjOf(r, q) ==
    [attr : Update(r, q) \cup {None}, adv : Update(r, q) \cup {None, Withdraw}]

\* What r may know of the cost of q.
Known(r, q, cost) == cost \in Nat /\ (RouteMap = Router => cost \in {0, Cost[<<q, r>>]})

RibOK == DOMAIN rib = Router /\ \A r \in Router : rib[r] \in Lists(r)

MedOK ==
    /\ DOMAIN localMed = Router
    /\ \A r \in Router : /\ DOMAIN localMed[r] = Neighbours(r)
                         /\ \A q \in Neighbours(r) : Known(r, q, localMed[r][q])

AdjOK ==
    /\ DOMAIN adjOut = Router
    /\ \A r \in Router : /\ DOMAIN adjOut[r] = Neighbours(r)
                         /\ \A q \in Neighbours(r) : adjOut[r][q] \in AdjOf(r, q)

WireOK ==
    /\ DOMAIN wire = Router
    /\ \A r \in Router :
          /\ DOMAIN wire[r] = Neighbours(r)
          /\ \A q \in Neighbours(r) : wire[r][q] \in Seq(Update(r, q) \cup {Withdraw})

SessionOK ==
    /\ DOMAIN up = Router /\ \A r \in Router : up[r] \subseteq Neighbours(r)
    /\ queued \in [Router -> BOOLEAN] /\ changes \in 0..MaxChanges

NetworkOK == RibOK /\ MedOK /\ AdjOK /\ WireOK /\ SessionOK

-----------------------------------------------------------------------------
(***************************************************************************)
(* The operators.                                                          *)
(***************************************************************************)
\* What a router makes of an update: the MED becomes the cost of its own path, and
\* the cost of the neighbour is known afterwards, whatever was known before.
LEMMA ParseCharges ==
    ASSUME NEW r \in Router, NEW q \in Neighbours(r), NEW known, Known(r, q, known),
           NEW msg \in Update(q, r)
    PROVE  LET parsed == bgp_attr_parse(known, msg)
           IN  /\ Known(r, q, parsed.cost) /\ parsed.attr \in Attrs
               /\ Costs(parsed.attr, <<r>> \o parsed.attr.via)
<1> DEFINE cost == IF known = 0 THEN msg.pref ELSE known
           attr == [msg EXCEPT !.med = (@ + cost) % MedRange]
<1>1. /\ msg \in Attrs /\ IsPath(msg.via) /\ Head(msg.via) = q
      /\ RouteMap = Router => msg.med = CostOf(msg.via) % MedRange /\ msg.pref = Cost[<<q, r>>]
  BY DEF Update, Costs
<1>2. msg.pref \in Nat /\ msg.med \in Nat /\ known \in Nat /\ MedRange \in Nat \ {0}
  BY <1>1, BoundAssumption DEF Attrs, Known
<1>3. cost \in Nat /\ (RouteMap = Router => cost = Cost[<<q, r>>])
  BY <1>1, <1>2 DEF Known
<1>4. r \in Neighbours(q) /\ q \in Router
  BY NeighbourFacts
<1>5. /\ IsPath(<<r>> \o msg.via) /\ CostOf(msg.via) \in Nat
      /\ CostOf(<<r>> \o msg.via) = CostOf(msg.via) + Cost[<<q, r>>]
  BY <1>1, <1>4, CostOfHop
<1> HIDE DEF cost
<1>6. (msg.med + cost) % MedRange \in 0..(MedRange - 1)
  <2> DEFINE x == msg.med + cost
  <2>1. x \in Nat
    BY <1>2, <1>3
  <2> HIDE DEF x
  <2>2. x % MedRange \in 0..(MedRange - 1)
    BY <1>2, <2>1, SMTT(30)
  <2> QED
    BY <2>2 DEF x
<1>7. /\ attr \in Attrs /\ attr.via = msg.via
      /\ attr.med = (msg.med + cost) % MedRange
  BY <1>1, <1>6 DEF Attrs
<1>8. ASSUME RouteMap = Router PROVE attr.med = CostOf(<<r>> \o msg.via) % MedRange
  <2> DEFINE a == CostOf(msg.via)
             b == Cost[<<q, r>>]
  <2>1. a \in Nat /\ b \in Nat /\ msg.med = a % MedRange /\ cost = b
    BY <1>1, <1>3, <1>5, <1>8, NeighbourFacts
  <2> HIDE DEF a, b
  <2>2. ((a % MedRange) + b) % MedRange = (a + b) % MedRange
    BY <1>2, <2>1, AddModulo
  <2> QED
    BY <1>5, <1>7, <2>1, <2>2 DEF a, b
<1>9. bgp_attr_parse(known, msg) = [cost |-> cost, attr |-> attr]
  BY DEF bgp_attr_parse, cost
<1> HIDE DEF attr
<1>10. Known(r, q, cost)
  BY <1>3 DEF Known
<1> QED
  BY <1>5, <1>7, <1>8, <1>9, <1>10 DEF Costs

\* What a router announces is a route of its own, with the cost of the link.
LEMMA OutgoingCharges ==
    ASSUME NEW r \in Router, NEW q \in Neighbours(r), NEW e \in RouteOf(r)
    PROVE  Outgoing(r, q, e) \in Update(r, q)
<1> DEFINE via == <<r>> \o e.attr.via
           aspath == IF peer_sort(r, q) = "EBGP" THEN <<AS[r]>> \o e.attr.aspath
                     ELSE e.attr.aspath
           a == Outgoing(r, q, e)
<1>1. e.attr \in Attrs /\ Costs(e.attr, via)
  BY DEF RouteOf
<1>2. AS[r] \in Nat /\ Cost[<<r, q>>] \in Nat
  BY CostAssumption
<1>3. via \in Seq(Router) /\ Head(via) = r /\ aspath \in Seq(Nat)
  BY <1>1, <1>2 DEF Attrs
<1>4. RouteMapOut(r, q, e) \in Nat /\ (RouteMap = Router => RouteMapOut(r, q, e) = Cost[<<r, q>>])
  BY <1>1, <1>2 DEF Attrs, RouteMapOut
<1>5. a = [med |-> e.attr.med, pref |-> RouteMapOut(r, q, e), aspath |-> aspath, via |-> via]
  BY DEF Outgoing
<1> HIDE DEF via, aspath, a
<1>6. a \in Attrs /\ a.via = via /\ a.med = e.attr.med /\ a.pref = RouteMapOut(r, q, e)
  BY <1>1, <1>3, <1>4, <1>5 DEF Attrs
<1>7. Costs(a, a.via)
  BY <1>1, <1>6 DEF Costs
<1>8. a \in Update(r, q)
  BY <1>3, <1>4, <1>6, <1>7 DEF Update
<1> QED
  BY <1>8 DEF a

\* The reaping keeps the order of a list, and so its uniqueness.
LEMMA ReapedList ==
    ASSUME NEW r \in Router, NEW routes \in Lists(r)
    PROVE  Reaped(routes) \in Lists(r)
<1> DEFINE T == {e \in ToSet(routes) : ~e.removed}
           S == RouteOf(r)
           left == Filter(routes, T)
<1>1. routes \in Seq(S) /\ Unique(routes) /\ DOMAIN routes = 1..Len(routes)
  BY DEF Lists
<1> HIDE DEF S, T
<1>2. left \in Seq(S)
  BY <1>1, FilterSet
<1>3. \A i, j \in 1..Len(left) : i < j =>
         \E k, l \in 1..Len(routes) : k < l /\ left[i] = routes[k] /\ left[j] = routes[l]
  BY <1>1, FilterOrder
<1> HIDE DEF left
<1>4. DOMAIN left = 1..Len(left) /\ Len(left) \in Nat
  BY <1>2
<1>5. ASSUME NEW i \in 1..Len(left), NEW j \in 1..Len(left), i < j
      PROVE  left[i].peer # left[j].peer
  <2>1. PICK k \in 1..Len(routes), l \in 1..Len(routes) :
           k < l /\ left[i] = routes[k] /\ left[j] = routes[l]
    BY <1>3, <1>5
  <2> QED
    BY <1>1, <2>1 DEF Unique
<1>6. Unique(left)
  BY <1>4, <1>5 DEF Unique
<1> QED
  BY <1>2, <1>6 DEF Lists, Reaped, left, S, T

\* A list whose routes keep their peers, and whose attributes stay accurate, is a
\* list again.
LEMMA ChangedList ==
    ASSUME NEW r \in Router, NEW routes \in Lists(r), NEW new,
           new = [i \in DOMAIN routes |-> new[i]],
           \A i \in DOMAIN routes : new[i] \in RouteOf(r) /\ new[i].peer = routes[i].peer
    PROVE  new \in Lists(r)
<1>1. routes \in Seq(RouteOf(r)) /\ Unique(routes) /\ DOMAIN routes = 1..Len(routes)
      /\ Len(routes) \in Nat
  BY DEF Lists
<1>2. DOMAIN new = 1..Len(routes) /\ \A i \in 1..Len(routes) : new[i] \in RouteOf(r)
  BY <1>1
<1>3. new \in Seq(RouteOf(r))
  BY <1>1, <1>2
<1>4. Unique(new)
  BY <1>1, <1>2 DEF Unique
<1> QED
  BY <1>3, <1>4 DEF Lists

\* bgp_update and bgp_static_update leave accurate lists.
LEMMA StoreStep ==
    ASSUME RibOK, SessionOK, NEW r \in Router, NEW q \in Neighbours(r) \cup {Self},
           NEW attr \in Attrs, Costs(attr, <<r>> \o attr.via), Store(r, q, attr)
    PROVE  RibOK' /\ queued' \in [Router -> BOOLEAN]
<1> DEFINE new == [peer |-> q, attr |-> attr, changed |-> FALSE, removed |-> FALSE,
                   selected |-> FALSE]
           same == {i \in Live(r, q) : Same(rib[r][i].attr, attr)}
           routes == rib[r]
           kept == [i \in DOMAIN routes |->
                       IF i \notin Entry(r, q) THEN routes[i]
                       ELSE IF i \in same
                            THEN [routes[i] EXCEPT !.changed = FALSE]
                            ELSE [routes[i] EXCEPT !.attr = attr, !.changed = TRUE,
                                                   !.removed = FALSE]]
<1>1. /\ rib' = [rib EXCEPT ![r] = IF Entry(r, q) = {} THEN <<new>> \o routes ELSE kept]
      /\ queued' \in [Router -> BOOLEAN]
  BY DEF Store, SessionOK
<1>2. /\ DOMAIN rib = Router /\ routes \in Lists(r) /\ routes \in Seq(RouteOf(r))
      /\ Unique(routes) /\ DOMAIN routes = 1..Len(routes) /\ Len(routes) \in Nat
  BY DEF RibOK, Lists
<1>3. new \in RouteOf(r) /\ new.peer = q
  BY DEF RouteOf
<1>4. Entry(r, q) = {i \in DOMAIN routes : routes[i].peer = q}
  BY DEF Entry
<1> HIDE DEF new, same, routes
<1>5. ASSUME Entry(r, q) = {} PROVE <<new>> \o routes \in Lists(r)
  <2> DEFINE longer == <<new>> \o routes
  <2>1. /\ longer \in Seq(RouteOf(r)) /\ Len(longer) = Len(routes) + 1 /\ longer[1] = new
        /\ \A i \in 1..Len(routes) : longer[i + 1] = routes[i]
    BY <1>2, <1>3
  <2> HIDE DEF longer
  <2>2. DOMAIN longer = 1..(Len(routes) + 1)
    BY <2>1
  <2>3. ASSUME NEW i \in 2..(Len(routes) + 1)
        PROVE  i - 1 \in 1..Len(routes) /\ longer[i] = routes[i - 1] /\ longer[i].peer # q
    <3>1. i - 1 \in 1..Len(routes) /\ (i - 1) + 1 = i
      BY <1>2
    <3> QED
      BY <1>2, <1>4, <1>5, <2>1, <3>1
  <2>4. ASSUME NEW i \in DOMAIN longer, NEW j \in DOMAIN longer, longer[i].peer = longer[j].peer
        PROVE  i = j
    <3>1. CASE i = 1 \/ j = 1
      BY <1>2, <1>3, <2>1, <2>2, <2>3, <2>4, <3>1
    <3>2. CASE i # 1 /\ j # 1
      <4>1. i \in 2..(Len(routes) + 1) /\ j \in 2..(Len(routes) + 1)
        BY <1>2, <2>2, <3>2
      <4>2. i - 1 = j - 1
        BY <1>2, <2>3, <2>4, <4>1 DEF Unique
      <4> QED
        BY <4>1, <4>2
    <3> QED
      BY <3>1, <3>2
  <2>5. longer \in Lists(r)
    BY <2>1, <2>4 DEF Lists, Unique
  <2> QED
    BY <2>5 DEF longer
<1>6. kept \in Lists(r)
  <2>1. ASSUME NEW i \in DOMAIN routes
        PROVE  kept[i] \in RouteOf(r) /\ kept[i].peer = routes[i].peer
    <3>1. routes[i] \in RouteOf(r)
      BY <1>2
    <3>2. [routes[i] EXCEPT !.changed = FALSE] \in RouteOf(r)
      BY <3>1 DEF RouteOf
    <3>3. [routes[i] EXCEPT !.attr = attr, !.changed = TRUE, !.removed = FALSE] \in RouteOf(r)
      BY <3>1 DEF RouteOf
    <3>4. /\ [routes[i] EXCEPT !.changed = FALSE].peer = routes[i].peer
          /\ [routes[i] EXCEPT !.attr = attr, !.changed = TRUE, !.removed = FALSE].peer = routes[i].peer
      BY <3>1 DEF RouteOf
    <3> QED
      BY <3>1, <3>2, <3>3, <3>4
  <2>2. kept = [i \in DOMAIN routes |-> kept[i]]
    OBVIOUS
  <2> HIDE DEF kept
  <2> QED
    BY <1>2, <2>1, <2>2, ChangedList
<1> HIDE DEF kept
<1>7. DOMAIN rib' = Router /\ rib'[r] \in Lists(r) /\ \A t \in Router \ {r} : rib'[t] = rib[t]
  BY <1>1, <1>2, <1>5, <1>6
<1>8. RibOK'
  BY <1>7 DEF RibOK
<1> QED
  BY <1>1, <1>8

\* bgp_rib_remove only marks.
LEMMA RemoveStep ==
    ASSUME RibOK, SessionOK, NEW r \in Router, NEW q, bgp_rib_remove(r, q)
    PROVE  RibOK' /\ queued' \in [Router -> BOOLEAN]
<1> DEFINE routes == rib[r]
           kept == [i \in DOMAIN routes |->
                       IF i \in Live(r, q) THEN [routes[i] EXCEPT !.removed = TRUE]
                       ELSE routes[i]]
<1>1. rib' = [rib EXCEPT ![r] = kept] /\ queued' \in [Router -> BOOLEAN]
  BY DEF bgp_rib_remove, SessionOK
<1>2. /\ DOMAIN rib = Router /\ routes \in Lists(r) /\ routes \in Seq(RouteOf(r))
      /\ DOMAIN routes = 1..Len(routes)
  BY DEF RibOK, Lists
<1> HIDE DEF routes
<1>3. kept \in Lists(r)
  <2>1. ASSUME NEW i \in DOMAIN routes
        PROVE  kept[i] \in RouteOf(r) /\ kept[i].peer = routes[i].peer
    <3>1. routes[i] \in RouteOf(r)
      BY <1>2
    <3>2. /\ [routes[i] EXCEPT !.removed = TRUE] \in RouteOf(r)
          /\ [routes[i] EXCEPT !.removed = TRUE].peer = routes[i].peer
      BY <3>1 DEF RouteOf
    <3> QED
      BY <3>1, <3>2
  <2>2. kept = [i \in DOMAIN routes |-> kept[i]]
    OBVIOUS
  <2> HIDE DEF kept
  <2> QED
    BY <1>2, <2>1, <2>2, ChangedList
<1> HIDE DEF kept
<1>4. DOMAIN rib' = Router /\ rib'[r] \in Lists(r) /\ \A t \in Router \ {r} : rib'[t] = rib[t]
  BY <1>1, <1>2, <1>3
<1> QED
  BY <1>1, <1>4 DEF RibOK

\* What is scheduled for a neighbour in one step: nothing, a withdrawal, or a route
\* of the table.
LEMMA AdjOperators ==
    ASSUME NEW r \in Router, NEW q \in Neighbours(r), NEW adj \in AdjOf(r, q)
    PROVE  /\ NoAdj \in AdjOf(r, q) /\ bgp_adj_out_unset(adj) \in AdjOf(r, q)
           /\ \A e \in RouteOf(r) : bgp_adj_out_set(adj, Outgoing(r, q, e)) \in AdjOf(r, q)
<1>1. NoAdj \in AdjOf(r, q) /\ bgp_adj_out_unset(adj) \in AdjOf(r, q)
  BY DEF AdjOf, NoAdj, bgp_adj_out_unset
<1>2. ASSUME NEW e \in RouteOf(r) PROVE bgp_adj_out_set(adj, Outgoing(r, q, e)) \in AdjOf(r, q)
  <2> DEFINE a == Outgoing(r, q, e)
  <2>1. a \in Update(r, q)
    BY OutgoingCharges
  <2> HIDE DEF a
  <2>2. bgp_adj_out_set(adj, a) \in AdjOf(r, q)
    BY <2>1 DEF AdjOf, bgp_adj_out_set
  <2> QED
    BY <2>2 DEF a
<1> QED
  BY <1>1, <1>2

\* The places of a list hold accurate routes.
LEMMA ListedRoutes ==
    ASSUME RibOK, NEW r \in Router
    PROVE  /\ DOMAIN rib[r] = 1..Len(rib[r]) /\ Len(rib[r]) \in Nat
           /\ \A i \in 1..Len(rib[r]) : rib[r][i] \in RouteOf(r)
<1>1. rib[r] \in Seq(RouteOf(r))
  BY DEF RibOK, Lists
<1> QED
  BY <1>1

\* The decision process, whatever it decides.
LEMMA ProcessStep ==
    ASSUME NetworkOK, NEW r \in Router, bgp_process_main(r)
    PROVE  NetworkOK'
<1> DEFINE routes == rib[r]
<1>1. PICK best \in 0..Len(routes) :
         LET same == best \in Selected(r) /\ ~rib[r][best].changed
             marked == [i \in DOMAIN rib[r] |->
                           [rib[r][i] EXCEPT !.selected = (i = best),
                                             !.changed = (@ /\ i # best)]]
         IN  /\ rib' = [rib EXCEPT ![r] = Reaped(IF same THEN @ ELSE marked)]
             /\ adjOut' = IF same THEN adjOut ELSE [adjOut EXCEPT ![r] = Announced(r, best)]
  BY DEF bgp_process_main
<1> DEFINE same == best \in Selected(r) /\ ~rib[r][best].changed
           marked == [i \in DOMAIN routes |->
                         [routes[i] EXCEPT !.selected = (i = best), !.changed = (@ /\ i # best)]]
           left == IF same THEN routes ELSE marked
<1>2. rib' = [rib EXCEPT ![r] = Reaped(left)]
  BY <1>1
<1>3. adjOut' = IF same THEN adjOut ELSE [adjOut EXCEPT ![r] = Announced(r, best)]
  BY <1>1
<1>4. /\ queued' = [queued EXCEPT ![r] = FALSE]
      /\ UNCHANGED <<localMed, wire, up, changes>>
  BY DEF bgp_process_main
<1>5. /\ DOMAIN rib = Router /\ routes \in Lists(r) /\ DOMAIN routes = 1..Len(routes)
      /\ \A i \in 1..Len(routes) : routes[i] \in RouteOf(r)
  BY ListedRoutes DEF NetworkOK, RibOK
<1> HIDE DEF routes, same
<1>6. marked \in Lists(r)
  <2>1. ASSUME NEW i \in DOMAIN routes
        PROVE  marked[i] \in RouteOf(r) /\ marked[i].peer = routes[i].peer
    <3> DEFINE e == routes[i]
    <3>1. e \in RouteOf(r)
      BY <1>5
    <3> HIDE DEF e
    <3>2. (e.changed /\ i # best) \in BOOLEAN /\ (i = best) \in BOOLEAN
      BY Zenon
    <3>3. \A a, b \in BOOLEAN :
             /\ [e EXCEPT !.selected = a, !.changed = b] \in RouteOf(r)
             /\ [e EXCEPT !.selected = a, !.changed = b].peer = e.peer
      BY <3>1 DEF RouteOf
    <3>4. /\ [e EXCEPT !.selected = (i = best), !.changed = (@ /\ i # best)] \in RouteOf(r)
          /\ [e EXCEPT !.selected = (i = best), !.changed = (@ /\ i # best)].peer = e.peer
      BY <3>2, <3>3, Zenon
    <3> QED
      BY <3>4 DEF e
  <2>2. marked = [i \in DOMAIN routes |-> marked[i]]
    OBVIOUS
  <2> HIDE DEF marked
  <2> QED
    BY <1>5, <2>1, <2>2, ChangedList
<1> HIDE DEF marked
<1>7. Reaped(left) \in Lists(r)
  BY <1>5, <1>6, ReapedList
<1> HIDE DEF left
<1>8. RibOK'
  <2>1. DOMAIN rib' = Router /\ rib'[r] \in Lists(r) /\ \A t \in Router \ {r} : rib'[t] = rib[t]
    BY <1>2, <1>5, <1>7
  <2> QED
    BY <2>1 DEF NetworkOK, RibOK
<1>9. AdjOK'
  <2>1. CASE same
    BY <1>3, <2>1 DEF NetworkOK, AdjOK
  <2>2. CASE ~same
    <3>1. adjOut' = [adjOut EXCEPT ![r] = Announced(r, best)]
      BY <1>3, <2>2
    <3>2. DOMAIN Announced(r, best) = Neighbours(r)
      BY DEF Announced
    <3>3. ASSUME NEW q \in Neighbours(r) PROVE Announced(r, best)[q] \in AdjOf(r, q)
      <4>1. adjOut[r][q] \in AdjOf(r, q)
        BY DEF NetworkOK, AdjOK
      <4>2. Announced(r, best)[q] =
               IF q \notin up[r] THEN adjOut[r][q]
               ELSE IF best # 0 /\ bgp_announce_check(r, q, rib[r][best])
                    THEN bgp_adj_out_set(adjOut[r][q], Outgoing(r, q, rib[r][best]))
                    ELSE bgp_adj_out_unset(adjOut[r][q])
        BY DEF Announced
      <4>3. best # 0 => rib[r][best] \in RouteOf(r)
        BY <1>5 DEF routes
      <4> QED
        BY <4>1, <4>2, <4>3, AdjOperators
    <3>4. DOMAIN adjOut' = Router /\ adjOut'[r] = Announced(r, best)
          /\ \A t \in Router \ {r} : adjOut'[t] = adjOut[t]
      BY <3>1 DEF NetworkOK, AdjOK
    <3> QED
      BY <3>2, <3>3, <3>4 DEF NetworkOK, AdjOK
  <2> QED
    BY <2>1, <2>2
<1> QED
  BY <1>4, <1>8, <1>9 DEF NetworkOK, MedOK, WireOK, SessionOK

\* An update that is written goes from adj_out onto the wire as it is.
LEMMA WriteStep ==
    ASSUME NetworkOK, NEW r \in Router, NEW q \in Neighbours(r), bgp_write(r, q)
    PROVE  NetworkOK'
<1> DEFINE adv == adjOut[r][q].adv
           written == IF adv = Withdraw THEN NoAdj ELSE [attr |-> adv, adv |-> None]
<1>1. /\ wire' = [wire EXCEPT ![r][q] = Append(@, adv)]
      /\ adjOut' = [adjOut EXCEPT ![r][q] = written]
      /\ adv # None /\ UNCHANGED <<rib, queued, localMed, up, changes>>
  BY DEF bgp_write
<1>2. /\ adjOut[r][q] \in AdjOf(r, q) /\ wire[r][q] \in Seq(Update(r, q) \cup {Withdraw})
      /\ DOMAIN adjOut = Router /\ DOMAIN adjOut[r] = Neighbours(r)
      /\ DOMAIN wire = Router /\ DOMAIN wire[r] = Neighbours(r)
  BY DEF NetworkOK, AdjOK, WireOK
<1>3. adv \in Update(r, q) \cup {Withdraw}
  BY <1>1, <1>2 DEF AdjOf
<1>4. written \in AdjOf(r, q)
  BY <1>3 DEF AdjOf, NoAdj
<1>5. Append(wire[r][q], adv) \in Seq(Update(r, q) \cup {Withdraw})
  BY <1>2, <1>3
<1> HIDE DEF adv, written
<1>6. /\ DOMAIN adjOut' = Router /\ adjOut'[r][q] = written
      /\ \A t \in Router : DOMAIN adjOut'[t] = DOMAIN adjOut[t]
      /\ \A t \in Router, u \in Router : <<t, u>> # <<r, q>> => adjOut'[t][u] = adjOut[t][u]
  BY <1>1, <1>2
<1>7. /\ DOMAIN wire' = Router /\ wire'[r][q] = Append(wire[r][q], adv)
      /\ \A t \in Router : DOMAIN wire'[t] = DOMAIN wire[t]
      /\ \A t \in Router, u \in Router : <<t, u>> # <<r, q>> => wire'[t][u] = wire[t][u]
  BY <1>1, <1>2
<1>8. \A t \in Router : Neighbours(t) \subseteq Router
  BY DEF Neighbours
<1>9. AdjOK'
  BY <1>4, <1>6, <1>8 DEF NetworkOK, AdjOK
<1>10. WireOK'
  BY <1>5, <1>7, <1>8 DEF NetworkOK, WireOK
<1> QED
  BY <1>1, <1>9, <1>10 DEF NetworkOK, RibOK, MedOK, SessionOK

\* An update that is read is charged with the cost of the neighbour, and leaves the
\* wire.
LEMMA ReceiveStep ==
    ASSUME NetworkOK, NEW r \in Router, NEW q \in Neighbours(r), bgp_update_receive(r, q)
    PROVE  NetworkOK'
<1> DEFINE msg == Head(wire[q][r])
           parsed == bgp_attr_parse(localMed[r][q], msg)
<1>1. /\ wire[q][r] # <<>> /\ wire' = [wire EXCEPT ![q][r] = Tail(@)]
      /\ IF msg = Withdraw
         THEN bgp_rib_remove(r, q) /\ UNCHANGED localMed
         ELSE /\ localMed' = [localMed EXCEPT ![r][q] = parsed.cost]
              /\ IF aspath_loop_check(r, parsed.attr) THEN bgp_rib_remove(r, q)
                 ELSE Store(r, q, parsed.attr)
      /\ UNCHANGED <<adjOut, up, changes>>
  BY DEF bgp_update_receive
<1>2. q \in Router /\ r \in Neighbours(q)
  BY NeighbourFacts
<1>3. /\ wire[q][r] \in Seq(Update(q, r) \cup {Withdraw}) /\ Known(r, q, localMed[r][q])
      /\ DOMAIN wire = Router /\ DOMAIN wire[q] = Neighbours(q)
      /\ DOMAIN localMed = Router /\ DOMAIN localMed[r] = Neighbours(r)
  BY <1>2 DEF NetworkOK, WireOK, MedOK
<1>4. msg \in Update(q, r) \cup {Withdraw} /\ Tail(wire[q][r]) \in Seq(Update(q, r) \cup {Withdraw})
  BY <1>1, <1>3
<1>5. \A t \in Router : Neighbours(t) \subseteq Router
  BY DEF Neighbours
<1>6. WireOK'
  <2>1. /\ DOMAIN wire' = Router /\ wire'[q][r] = Tail(wire[q][r])
        /\ \A t \in Router : DOMAIN wire'[t] = DOMAIN wire[t]
        /\ \A t \in Router, u \in Router : <<t, u>> # <<q, r>> => wire'[t][u] = wire[t][u]
    BY <1>1, <1>2, <1>3
  <2> QED
    BY <1>4, <1>5, <2>1 DEF NetworkOK, WireOK
<1> HIDE DEF msg
<1>7. CASE msg = Withdraw
  <2>1. RibOK' /\ queued' \in [Router -> BOOLEAN]
    BY <1>1, <1>7, RemoveStep DEF NetworkOK
  <2> QED
    BY <1>1, <1>6, <1>7, <2>1 DEF NetworkOK, MedOK, AdjOK, SessionOK
<1>8. CASE msg # Withdraw
  <2>1. msg \in Update(q, r)
    BY <1>4, <1>8
  <2>2. Known(r, q, parsed.cost) /\ parsed.attr \in Attrs /\ Costs(parsed.attr, <<r>> \o parsed.attr.via)
    BY <1>3, <2>1, ParseCharges
  <2> HIDE DEF parsed
  <2>3. RibOK' /\ queued' \in [Router -> BOOLEAN]
    <3>1. CASE aspath_loop_check(r, parsed.attr)
      BY <1>1, <1>8, <3>1, RemoveStep DEF NetworkOK
    <3>2. CASE ~aspath_loop_check(r, parsed.attr)
      <4>1. Store(r, q, parsed.attr)
        BY <1>1, <1>8, <3>2
      <4> QED
        BY <2>2, <4>1, StoreStep DEF NetworkOK
    <3> QED
      BY <3>1, <3>2
  <2>4. MedOK'
    <3>1. /\ DOMAIN localMed' = Router /\ localMed'[r][q] = parsed.cost
          /\ \A t \in Router : DOMAIN localMed'[t] = DOMAIN localMed[t]
          /\ \A t \in Router, u \in Router : <<t, u>> # <<r, q>> => localMed'[t][u] = localMed[t][u]
      <4>1. localMed' = [localMed EXCEPT ![r][q] = parsed.cost]
        BY <1>1, <1>8
      <4> QED
        BY <1>3, <4>1
    <3> QED
      BY <1>5, <2>2, <3>1 DEF NetworkOK, MedOK
  <2> QED
    BY <1>1, <1>6, <2>3, <2>4 DEF NetworkOK, AdjOK, SessionOK
<1> QED
  BY <1>7, <1>8

\* The network command sets the MED of its origin.
LEMMA StaticStep ==
    ASSUME NetworkOK, NEW r \in Router, bgp_static_update(r) \/ bgp_static_withdraw(r)
    PROVE  NetworkOK'
<1>1. /\ UNCHANGED <<localMed, adjOut, wire, up>> /\ changes < MaxChanges
      /\ changes' = changes + 1
  BY DEF bgp_static_update, bgp_static_withdraw, Change
<1>2. changes' \in 0..MaxChanges
  BY <1>1, BoundAssumption DEF NetworkOK, SessionOK
<1>3. RibOK' /\ queued' \in [Router -> BOOLEAN]
  <2>1. CASE bgp_static_update(r)
    <3> DEFINE attr == [med |-> Base[r] % MedRange, pref |-> DefaultLocalPref, aspath |-> <<>>,
                        via |-> <<>>]
    <3>1. r \in Origins /\ Store(r, Self, attr)
      BY <2>1 DEF bgp_static_update
    <3>2. IsPath(<<r>>) /\ CostOf(<<r>>) = Base[r] /\ Base[r] \in Nat
      BY <3>1, CostAtOrigin, CostAssumption
    <3>3. Base[r] % MedRange \in 0..(MedRange - 1)
      <4> DEFINE b == Base[r]
      <4>1. b \in Nat /\ MedRange \in Nat \ {0}
        BY <3>2, BoundAssumption
      <4> HIDE DEF b
      <4>2. b % MedRange \in 0..(MedRange - 1)
        BY <4>1, SMTT(30)
      <4> QED
        BY <4>2 DEF b
    <3>4. attr \in Attrs /\ attr.via = <<>> /\ attr.med = Base[r] % MedRange
      BY <3>3 DEF Attrs, DefaultLocalPref
    <3>5. <<r>> \o attr.via = <<r>>
      BY <3>4
    <3>6. Costs(attr, <<r>> \o attr.via)
      BY <3>2, <3>4, <3>5 DEF Costs
    <3> HIDE DEF attr
    <3> QED
      BY <3>1, <3>4, <3>6, StoreStep DEF NetworkOK
  <2>2. CASE bgp_static_withdraw(r)
    BY <2>2, RemoveStep DEF NetworkOK, bgp_static_withdraw
  <2> QED
    BY <2>1, <2>2
<1> QED
  BY <1>1, <1>2, <1>3 DEF NetworkOK, MedOK, AdjOK, WireOK, SessionOK

\* A session that ends loses what was under way, and keeps the cost it has learned.
LEMMA StopStep ==
    ASSUME NetworkOK, NEW r \in Router, NEW q \in Neighbours(r), Stop(r, q),
           changes' \in 0..MaxChanges
    PROVE  NetworkOK'
<1>1. /\ up' = [up EXCEPT ![r] = @ \ {q}] /\ bgp_rib_remove(r, q)
      /\ adjOut' = [adjOut EXCEPT ![r][q] = NoAdj]
      /\ wire' = [wire EXCEPT ![q][r] = <<>>] /\ UNCHANGED localMed
  BY DEF Stop
<1>2. q \in Router /\ r \in Neighbours(q) /\ \A t \in Router : Neighbours(t) \subseteq Router
  BY NeighbourFacts DEF Neighbours
<1>3. RibOK' /\ queued' \in [Router -> BOOLEAN]
  BY <1>1, RemoveStep DEF NetworkOK
<1>4. AdjOK'
  <2>1. /\ DOMAIN adjOut' = Router /\ adjOut'[r][q] = NoAdj
        /\ \A t \in Router : DOMAIN adjOut'[t] = DOMAIN adjOut[t]
        /\ \A t \in Router, u \in Router : <<t, u>> # <<r, q>> => adjOut'[t][u] = adjOut[t][u]
    BY <1>1 DEF NetworkOK, AdjOK
  <2>2. NoAdj \in AdjOf(r, q)
    BY DEF AdjOf, NoAdj
  <2> QED
    BY <1>2, <2>1, <2>2 DEF NetworkOK, AdjOK
<1>5. WireOK'
  <2>1. /\ DOMAIN wire' = Router /\ wire'[q][r] = <<>>
        /\ \A t \in Router : DOMAIN wire'[t] = DOMAIN wire[t]
        /\ \A t \in Router, u \in Router : <<t, u>> # <<q, r>> => wire'[t][u] = wire[t][u]
    BY <1>1, <1>2 DEF NetworkOK, WireOK
  <2>2. <<>> \in Seq(Update(q, r) \cup {Withdraw})
    OBVIOUS
  <2> QED
    BY <1>2, <2>1, <2>2 DEF NetworkOK, WireOK
<1>6. DOMAIN up' = Router /\ \A t \in Router : up'[t] \subseteq Neighbours(t)
  BY <1>1 DEF NetworkOK, SessionOK
<1> QED
  BY <1>1, <1>3, <1>4, <1>5, <1>6 DEF NetworkOK, MedOK, SessionOK

\* What is assigned for one direction of a session changes nothing else.
LEMMA OneWay ==
    ASSUME NEW f, DOMAIN f = Router, \A t \in Router : DOMAIN f[t] = Neighbours(t),
           NEW r \in Router, NEW q \in Neighbours(r), NEW x
    PROVE  \A g : g = [f EXCEPT ![r][q] = x] =>
              /\ DOMAIN g = Router /\ \A t \in Router : DOMAIN g[t] = Neighbours(t)
              /\ g[r][q] = x
              /\ \A t \in Router, u \in Router : <<t, u>> # <<r, q>> => g[t][u] = f[t][u]
OBVIOUS

\* An assignment for both directions of a session.
Both(f, r, q, x, y) == [f EXCEPT ![r][q] = x, ![q][r] = y]

\* What is assigned for both directions of a session changes nothing else.
LEMMA BothWays ==
    ASSUME NEW f, DOMAIN f = Router, \A t \in Router : DOMAIN f[t] = Neighbours(t),
           NEW r \in Router, NEW q \in Neighbours(r), NEW x, NEW y,
           NEW g, g = Both(f, r, q, x, y)
    PROVE  /\ DOMAIN g = Router /\ \A t \in Router : DOMAIN g[t] = Neighbours(t)
           /\ g[r][q] = x /\ g[q][r] = y
           /\ \A t \in Router, u \in Router :
                 <<t, u>> # <<r, q>> /\ <<t, u>> # <<q, r>> => g[t][u] = f[t][u]
<1>1. q \in Router /\ r \in Neighbours(q) /\ <<r, q>> # <<q, r>>
  BY NeighbourFacts
<1> DEFINE h == [f EXCEPT ![r][q] = x]
<1>2. g = [h EXCEPT ![q][r] = y]
  BY DEF Both
<1>3. h = [f EXCEPT ![r][q] = x]
  OBVIOUS
<1> HIDE DEF h
<1>4. /\ DOMAIN h = Router /\ \A t \in Router : DOMAIN h[t] = Neighbours(t)
      /\ h[r][q] = x
      /\ \A t \in Router, u \in Router : <<t, u>> # <<r, q>> => h[t][u] = f[t][u]
  BY <1>3, OneWay
<1>5. /\ DOMAIN g = Router /\ \A t \in Router : DOMAIN g[t] = Neighbours(t)
      /\ g[q][r] = y
      /\ \A t \in Router, u \in Router : <<t, u>> # <<q, r>> => g[t][u] = h[t][u]
  BY <1>1, <1>2, <1>4, OneWay
<1>6. g[r][q] = x
  BY <1>1, <1>4, <1>5
<1>7. ASSUME NEW t \in Router, NEW u \in Router, <<t, u>> # <<r, q>>, <<t, u>> # <<q, r>>
      PROVE  g[t][u] = f[t][u]
  BY <1>4, <1>5, <1>7
<1> QED
  BY <1>5, <1>6, <1>7

\* A session that starts is told the selected route.
LEMMA EstablishStep ==
    ASSUME NetworkOK, NEW r \in Router, NEW q, bgp_establish(r, q)
    PROVE  NetworkOK'
<1>1. /\ q \in Neighbours(r)
      /\ up' = [up EXCEPT ![r] = @ \cup {q}, ![q] = @ \cup {r}]
      /\ wire' = [wire EXCEPT ![r][q] = <<>>, ![q][r] = <<>>]
      /\ adjOut' = [adjOut EXCEPT ![r][q] = bgp_announce_table(r, q),
                                  ![q][r] = bgp_announce_table(q, r)]
      /\ UNCHANGED <<rib, queued, localMed, changes>>
  BY DEF bgp_establish
<1>2. q \in Router /\ r \in Neighbours(q) /\ q # r /\ \A t \in Router : Neighbours(t) \subseteq Router
  BY <1>1, NeighbourFacts DEF Neighbours
<1>3. ASSUME NEW t \in Router, NEW u \in Neighbours(t)
      PROVE  bgp_announce_table(t, u) \in AdjOf(t, u)
  <2>1. adjOut[t][u] \in AdjOf(t, u)
    BY DEF NetworkOK, AdjOK
  <2>2. CASE \E i \in Selected(t) : bgp_announce_check(t, u, rib[t][i])
    <3> DEFINE i == CHOOSE i \in Selected(t) : TRUE
    <3>1. i \in Selected(t)
      BY <2>2
    <3>2. bgp_announce_table(t, u) = bgp_adj_out_set(adjOut[t][u], Outgoing(t, u, rib[t][i]))
      BY <2>2 DEF bgp_announce_table
    <3> HIDE DEF i
    <3>3. rib[t][i] \in RouteOf(t)
      BY <3>1, ListedRoutes DEF NetworkOK, Selected
    <3> QED
      BY <2>1, <3>2, <3>3, AdjOperators
  <2>3. CASE ~\E i \in Selected(t) : bgp_announce_check(t, u, rib[t][i])
    BY <2>1, <2>3 DEF bgp_announce_table
  <2> QED
    BY <2>2, <2>3
<1>4. AdjOK'
  <2> DEFINE x == bgp_announce_table(r, q)
             y == bgp_announce_table(q, r)
             f == adjOut
             g == adjOut'
  <2>1. x \in AdjOf(r, q) /\ y \in AdjOf(q, r)
    BY <1>1, <1>2, <1>3
  <2>2. g = Both(f, r, q, x, y)
    BY <1>1 DEF Both
  <2>3. DOMAIN f = Router /\ \A t \in Router : DOMAIN f[t] = Neighbours(t)
    BY DEF NetworkOK, AdjOK
  <2>4. \A t \in Router : \A u \in Neighbours(t) : f[t][u] \in AdjOf(t, u)
    BY DEF NetworkOK, AdjOK
  <2> HIDE DEF x, y, f, g
  <2>5. /\ DOMAIN g = Router /\ \A t \in Router : DOMAIN g[t] = Neighbours(t)
        /\ g[r][q] = x /\ g[q][r] = y
        /\ \A t \in Router, u \in Router :
              <<t, u>> # <<r, q>> /\ <<t, u>> # <<q, r>> => g[t][u] = f[t][u]
    BY <1>1, <2>2, <2>3, BothWays
  <2>6. \A t \in Router : \A u \in Neighbours(t) : g[t][u] \in AdjOf(t, u)
    BY <1>2, <2>1, <2>4, <2>5
  <2> QED
    BY <2>5, <2>6 DEF g, AdjOK
<1>5. WireOK'
  <2> DEFINE x == <<>>
             f == wire
             g == wire'
  <2>1. x \in Seq(Update(r, q) \cup {Withdraw}) /\ x \in Seq(Update(q, r) \cup {Withdraw})
    OBVIOUS
  <2>2. g = Both(f, r, q, x, x)
    BY <1>1 DEF Both
  <2>3. DOMAIN f = Router /\ \A t \in Router : DOMAIN f[t] = Neighbours(t)
    BY DEF NetworkOK, WireOK
  <2>4. \A t \in Router : \A u \in Neighbours(t) :
           f[t][u] \in Seq(Update(t, u) \cup {Withdraw})
    BY DEF NetworkOK, WireOK
  <2> HIDE DEF x, f, g
  <2>5. /\ DOMAIN g = Router /\ \A t \in Router : DOMAIN g[t] = Neighbours(t)
        /\ g[r][q] = x /\ g[q][r] = x
        /\ \A t \in Router, u \in Router :
              <<t, u>> # <<r, q>> /\ <<t, u>> # <<q, r>> => g[t][u] = f[t][u]
    BY <1>1, <2>2, <2>3, BothWays
  <2>6. \A t \in Router : \A u \in Neighbours(t) :
           g[t][u] \in Seq(Update(t, u) \cup {Withdraw})
    <3> SUFFICES ASSUME NEW t \in Router, NEW u \in Neighbours(t)
                 PROVE  g[t][u] \in Seq(Update(t, u) \cup {Withdraw})
      OBVIOUS
    <3>1. CASE <<t, u>> = <<r, q>>
      BY <2>1, <2>5, <3>1
    <3>2. CASE <<t, u>> = <<q, r>>
      BY <2>1, <2>5, <3>2
    <3>3. CASE <<t, u>> # <<r, q>> /\ <<t, u>> # <<q, r>>
      BY <1>2, <2>4, <2>5, <3>3
    <3> QED
      BY <3>1, <3>2, <3>3
  <2> QED
    BY <2>5, <2>6 DEF g, WireOK
<1>6. DOMAIN up' = Router /\ \A t \in Router : up'[t] \subseteq Neighbours(t)
  BY <1>1, <1>2 DEF NetworkOK, SessionOK
<1> QED
  BY <1>1, <1>4, <1>5, <1>6 DEF NetworkOK, RibOK, MedOK, SessionOK

-----------------------------------------------------------------------------
(***************************************************************************)
(* The theorems.                                                           *)
(***************************************************************************)
\* The invariant holds in every reachable state of any network, whatever routers,
\* links, costs and options it has.
LEMMA NetworkAlways == Init /\ [][Next]_vars => []NetworkOK
<1>1. Init => NetworkOK
  <2> SUFFICES ASSUME Init PROVE NetworkOK
    OBVIOUS
  <2>1. ASSUME NEW r \in Router PROVE <<>> \in Lists(r)
    <3> DEFINE none == <<>>
    <3>1. none \in Seq(RouteOf(r)) /\ DOMAIN none = {}
      OBVIOUS
    <3> HIDE DEF none
    <3>2. none \in Lists(r)
      BY <3>1 DEF Lists, Unique
    <3> QED
      BY <3>2 DEF none
  <2>2. RibOK
    BY <2>1 DEF Init, RibOK
  <2>3. MedOK
    BY DEF Init, MedOK, Known
  <2>4. AdjOK
    BY DEF Init, AdjOK, AdjOf, NoAdj
  <2>5. WireOK
    BY DEF Init, WireOK
  <2>6. SessionOK
    BY BoundAssumption DEF Init, SessionOK
  <2> QED
    BY <2>2, <2>3, <2>4, <2>5, <2>6 DEF NetworkOK
<1>2. NetworkOK /\ [Next]_vars => NetworkOK'
  <2> SUFFICES ASSUME NetworkOK, [Next]_vars PROVE NetworkOK'
    OBVIOUS
  <2>1. CASE Transport
    <3>1. PICK r \in Router : \E q \in Neighbours(r) :
             bgp_write(r, q) \/ bgp_update_receive(r, q) \/ Noticed(r, q) \/ bgp_establish(r, q)
      BY <2>1 DEF Transport
    <3>2. PICK q \in Neighbours(r) :
             bgp_write(r, q) \/ bgp_update_receive(r, q) \/ Noticed(r, q) \/ bgp_establish(r, q)
      BY <3>1
    <3>3. CASE Noticed(r, q)
      <4>1. Stop(r, q) /\ changes' \in 0..MaxChanges
        BY <3>3 DEF Noticed, NetworkOK, SessionOK
      <4> QED
        BY <4>1, StopStep
    <3> QED
      BY <3>2, <3>3, WriteStep, ReceiveStep, EstablishStep
  <2>2. CASE \E r \in Router : bgp_process_main(r)
    BY <2>2, ProcessStep
  <2>3. CASE Disturbance
    <3>1. PICK r \in Router : \/ bgp_static_update(r) \/ bgp_static_withdraw(r)
                              \/ \E q \in Neighbours(r) : Lost(r, q)
      BY <2>3 DEF Disturbance
    <3>2. ASSUME NEW q \in Neighbours(r), Lost(r, q) PROVE NetworkOK'
      <4>1. Stop(r, q) /\ changes < MaxChanges /\ changes' = changes + 1
        BY <3>2 DEF Lost, Change
      <4>2. changes' \in 0..MaxChanges
        BY <4>1, BoundAssumption DEF NetworkOK, SessionOK
      <4> QED
        BY <4>1, <4>2, StopStep
    <3> QED
      BY <3>1, <3>2, StaticStep
  <2>4. CASE UNCHANGED vars
    BY <2>4 DEF vars, NetworkOK, RibOK, MedOK, AdjOK, WireOK, SessionOK
  <2> QED
    BY <2>1, <2>2, <2>3, <2>4 DEF Next
<1> QED
  BY <1>1, <1>2, PTL

\* In every network each neighbour has at most one route in a router's list, and no
\* MED leaves its range.
THEOREM NetworkTypeCorrect == Spec => []TypeOK
<1>1. NetworkOK => TypeOK
  <2> SUFFICES ASSUME NetworkOK PROVE TypeOK
    OBVIOUS
  <2>1. ASSUME NEW r \in Router, NEW i \in DOMAIN rib[r]
        PROVE  /\ rib[r][i].peer \in Neighbours(r) \cup {Self}
               /\ rib[r][i].attr.med \in 0..(MedRange - 1)
               /\ \A j \in DOMAIN rib[r] : rib[r][i].peer = rib[r][j].peer => i = j
    <3>1. rib[r][i] \in RouteOf(r) /\ Unique(rib[r])
      BY ListedRoutes DEF NetworkOK, RibOK, Lists
    <3> QED
      BY <3>1 DEF RouteOf, Attrs, Unique
  <2> QED
    BY <2>1 DEF TypeOK, NetworkOK, SessionOK
<1> QED
  BY <1>1, NetworkAlways, PTL DEF Spec

\* MED is the cost of the path: in a network where every router has the out
\* route-map, every route of every router carries the origin's MED plus the cost of
\* each link it came over (bgp_attr_med, bgp_attr_local_pref), whatever sessions
\* were lost, updates rejected and routes preferred.
THEOREM PathCostCorrect == RouteMap = Router => (Spec => []PathCost)
<1> SUFFICES ASSUME RouteMap = Router PROVE Spec => []PathCost
  OBVIOUS
<1>1. NetworkOK => PathCost
  <2> SUFFICES ASSUME NetworkOK, NEW r \in Router, NEW i \in DOMAIN rib[r]
               PROVE  rib[r][i].attr.med = CostOf(<<r>> \o rib[r][i].attr.via) % MedRange
    BY DEF PathCost
  <2>1. rib[r][i] \in RouteOf(r)
    BY ListedRoutes DEF NetworkOK
  <2> QED
    BY <2>1 DEF RouteOf, Costs
<1> QED
  BY <1>1, NetworkAlways, PTL DEF Spec

-----------------------------------------------------------------------------
(***************************************************************************)
(* The decision process of a router that compares every MED.               *)
(***************************************************************************)
\* The decision process goes by MED alone where it can.
ComparesMed == "ALWAYS_COMPARE_MED" \in Options /\ "DETERMINISTIC_MED" \notin Options

\* MED is the first check of bgp_info_cmp.
LEMMA MedDecides ==
    ASSUME ComparesMed, NEW n, NEW e, n.path.med \in Nat, e.path.med \in Nat
    PROVE  /\ n.path.med < e.path.med => Decision!bgp_info_cmp(n, e)
           /\ e.path.med < n.path.med => ~Decision!bgp_info_cmp(n, e)
<1> DEFINE checks == Decision!Checks(n, e)
           deciding == {i \in DOMAIN checks : checks[i] # 0}
<1>1. DOMAIN checks = 1..14 /\ checks[1] = Decision!MedCheck(n, e)
  BY DEF Decision!Checks
<1>2. Decision!bgp_info_cmp(n, e) <=> deciding = {} \/ checks[Decision!Min(deciding)] = 1
  BY DEF Decision!bgp_info_cmp
<1>3. Decision!MedComparable(n.path, e.path)
  BY DEF ComparesMed, Decision!MedComparable
<1>4. /\ Decision!bgp_med_value(n.path) = n.path.med
      /\ Decision!bgp_med_value(e.path) = e.path.med
  BY CostAssumption DEF Decision!bgp_med_value
<1>5. Decision!MedCheck(n, e) = IF n.path.med < e.path.med THEN 1
                                ELSE IF n.path.med > e.path.med THEN -1 ELSE 0
  BY <1>3, <1>4 DEF Decision!MedCheck, Decision!Lower
<1> HIDE DEF checks
<1>6. ASSUME checks[1] # 0 PROVE deciding # {} /\ Decision!Min(deciding) = 1
  <2>1. 1 \in deciding /\ \A i \in deciding : i \in Nat /\ 1 <= i
    BY <1>1, <1>6
  <2> HIDE DEF deciding
  <2>2. Decision!Min(deciding) = CHOOSE i \in deciding : \A k \in deciding : i <= k
    BY DEF Decision!Min
  <2> DEFINE m == CHOOSE i \in deciding : \A k \in deciding : i <= k
  <2>3. m \in deciding /\ \A k \in deciding : m <= k
    BY <2>1
  <2> HIDE DEF m
  <2>4. m = 1
    BY <2>1, <2>3
  <2> QED
    BY <2>1, <2>2, <2>4 DEF m
<1> HIDE DEF deciding
<1>7. CASE n.path.med < e.path.med
  BY <1>1, <1>2, <1>5, <1>6, <1>7
<1>8. CASE e.path.med < n.path.med
  BY <1>1, <1>2, <1>5, <1>6, <1>8
<1> QED
  BY <1>7, <1>8

\* The places of the usable routes.
Places(l) == {i \in 1..Len(l) : l[i].usable}

\* Usable lists the places of the usable routes.
LEMMA UsablePlaces ==
    ASSUME NEW S, NEW l \in Seq(S)
    PROVE  Decision!Usable(l) \in Seq(Places(l)) /\ ToSet(Decision!Usable(l)) = Places(l)
<1> DEFINE s == [i \in 1..Len(l) |-> i]
           T == {i \in 1..Len(l) : l[i].usable}
<1>1. Len(l) \in Nat
  OBVIOUS
<1>2. s \in Seq(1..Len(l)) /\ ToSet(s) = 1..Len(l)
  BY <1>1 DEF ToSet
<1>3. Decision!Usable(l) = Filter(s, T)
  BY DEF Decision!Usable, Decision!Filter, Filter
<1> HIDE DEF s
<1>4. Filter(s, T) \in Seq(1..Len(l)) /\ ToSet(Filter(s, T)) = (1..Len(l)) \cap T
  BY <1>2, FilterSet
<1>5. (1..Len(l)) \cap T = Places(l)
  BY DEF Places
<1> HIDE DEF T
<1> DEFINE left == Filter(s, T)
<1> HIDE DEF left
<1>6. left \in Seq(Places(l))
  <2>1. left \in Seq(1..Len(l)) /\ \A i \in 1..Len(left) : left[i] \in Places(l)
    BY <1>4, <1>5 DEF left, ToSet
  <2> QED
    BY <2>1
<1> USE DEF left
<1> QED
  BY <1>3, <1>4, <1>5, <1>6

\* The pass of the decision process, place by place.
LEMMA PassComputes ==
    ASSUME NEW l, NEW P, NEW places \in Seq(P)
    PROVE  \E best \in [0..Len(places) -> P \cup {0}] :
              /\ Decision!Best(l, places) = best[Len(places)] /\ best[0] = 0
              /\ \A n \in 1..Len(places) :
                    best[n] = IF best[n - 1] = 0
                                 \/ Decision!bgp_info_cmp(l[places[n]], l[best[n - 1]])
                              THEN places[n] ELSE best[n - 1]
<1> DEFINE N == Len(places)
           S == P \cup {0}
           Step(n, old) == IF old = 0 \/ Decision!bgp_info_cmp(l[places[n]], l[old])
                           THEN places[n] ELSE old
           step == [x \in (1..N) \X S |-> Step(x[1], x[2])]
           Body(B, n) == IF n = 0 THEN 0 ELSE Step(n, B[n - 1])
           best == CHOOSE B : B = [n \in 0..N |-> Body(B, n)]
           null == 0
<1>1. N \in Nat /\ null \in S /\ \A n \in 1..N : places[n] \in P
  OBVIOUS
<1>2. step \in Steps(N, S)
  BY <1>1 DEF Steps
<1>3. \A n \in 1..N : \A old \in S : step[<<n, old>>] = Step(n, old)
  OBVIOUS
<1>4. Decision!Best(l, places) = best[N]
  BY DEF Decision!Best
<1> HIDE DEF N, S, step, Step
<1>5. PICK f : f \in [0..N -> S] /\ f[0] = null /\ \A n \in 1..N : f[n] = step[<<n, f[n - 1]>>]
  <2> HIDE DEF null
  <2>1. \E f : Follows(f, N, S, null, step)
    BY <1>1, <1>2, Recursion
  <2> QED
    BY <2>1 DEF Follows
<1>6. \A n \in 0..N : f[n] = Body(f, n)
  <2> SUFFICES ASSUME NEW n \in 0..N PROVE f[n] = Body(f, n)
    OBVIOUS
  <2>1. CASE n = 0
    BY <1>5, <2>1
  <2>2. CASE n # 0
    <3>1. n \in 1..N /\ n - 1 \in 0..N
      BY <1>1, <2>2
    <3> QED
      BY <1>3, <1>5, <2>2, <3>1
  <2> QED
    BY <2>1, <2>2
<1> HIDE DEF Body
<1>7. f = [n \in 0..N |-> Body(f, n)]
  BY <1>5, <1>6
<1>8. best = [n \in 0..N |-> Body(best, n)]
  BY <1>7
<1> HIDE DEF best
<1>9. DOMAIN best = 0..N /\ \A n \in 0..N : best[n] = Body(best, n)
  <2> DEFINE g == [n \in 0..N |-> Body(best, n)]
  <2>1. DOMAIN g = 0..N /\ \A n \in 0..N : g[n] = Body(best, n)
    OBVIOUS
  <2>2. best = g
    BY <1>8
  <2> HIDE DEF g
  <2> QED
    BY <2>1, <2>2
<1>10. best[0] = 0 /\ \A n \in 1..N : best[n] = Step(n, best[n - 1])
  BY <1>1, <1>9 DEF Body
<1> DEFINE I == {n \in Nat : n <= N => best[n] \in S}
<1>11. 0 \in I
  BY <1>1, <1>10
<1>12. ASSUME NEW n \in Nat, n \in I PROVE n + 1 \in I
  <2>1. CASE n + 1 <= N
    <3>1. n + 1 \in 1..N /\ (n + 1) - 1 = n /\ best[n] \in S
      BY <1>1, <1>12, <2>1
    <3>2. best[n + 1] = Step(n + 1, best[n])
      BY <1>10, <3>1
    <3>3. best[n + 1] \in S
      BY <1>1, <3>1, <3>2 DEF Step, S
    <3> QED
      BY <3>3
  <2>2. CASE ~(n + 1 <= N)
    BY <2>2
  <2> QED
    BY <2>1, <2>2
<1>13. \A n \in 0..N : best[n] \in S
  <2>1. \A n \in Nat : n \in I
    <3> HIDE DEF I
    <3> QED
      BY <1>11, <1>12, SetInduction
  <2> QED
    BY <1>1, <2>1
<1>14. best \in [0..N -> S]
  <2> DEFINE g == [n \in 0..N |-> Body(best, n)]
  <2>1. DOMAIN g = 0..N /\ g = [n \in DOMAIN g |-> g[n]]
    OBVIOUS
  <2>2. best = g
    BY <1>8
  <2> HIDE DEF g
  <2> QED
    BY <1>13, <2>1, <2>2
<1> QED
  BY <1>4, <1>10, <1>14 DEF N, S, Step

\* The selected route is a usable one of the lowest MED.
LEMMA LowestMed ==
    ASSUME ComparesMed, NEW S, NEW l \in Seq(S), \A i \in 1..Len(l) : l[i].path.med \in Nat,
           NEW best, best = Decision!bgp_best_selection(l)
    PROVE  /\ best = 0 <=> Places(l) = {}
           /\ best # 0 => best \in Places(l)
           /\ best # 0 => \A i \in Places(l) : l[best].path.med <= l[i].path.med
<1> DEFINE P == Places(l)
           places == Decision!Usable(l)
           N == Len(places)
<1>1. best = Decision!Best(l, places)
  BY DEF ComparesMed, Decision!bgp_best_selection
<1>2. places \in Seq(P) /\ ToSet(places) = P
  BY UsablePlaces
<1>3. 0 \notin P /\ \A i \in P : l[i].path.med \in Nat
  BY DEF Places
<1> HIDE DEF P, places
<1>4. N \in Nat /\ (\A n \in 1..N : places[n] \in P) /\ P = {places[n] : n \in 1..N}
  BY <1>2 DEF ToSet
<1>5. PICK B \in [0..N -> P \cup {0}] :
         /\ best = B[N] /\ B[0] = 0
         /\ \A n \in 1..N : B[n] = IF B[n - 1] = 0
                                      \/ Decision!bgp_info_cmp(l[places[n]], l[B[n - 1]])
                                   THEN places[n] ELSE B[n - 1]
  BY <1>1, <1>2, PassComputes
<1> HIDE DEF N
<1> DEFINE Low(n) == (n > 0 => B[n] \in P) /\ \A j \in 1..n : l[B[n]].path.med <= l[places[j]].path.med
           I == {n \in Nat : n <= N => Low(n)}
<1>6. 0 \in I
  OBVIOUS
<1>7. ASSUME NEW n \in Nat, n \in I PROVE n + 1 \in I
  <2>1. CASE n + 1 <= N
    <3> DEFINE new == places[n + 1]
               old == B[n]
               next == B[n + 1]
    <3>1. Low(n)
      BY <1>4, <1>7, <2>1
    <3>2. n + 1 \in 1..N /\ (n + 1) - 1 = n /\ new \in P /\ old \in P \cup {0}
      BY <1>4, <1>5, <2>1
    <3>3. next = IF old = 0 \/ Decision!bgp_info_cmp(l[new], l[old]) THEN new ELSE old
      BY <1>5, <3>2
    <3>4. old = 0 => n = 0
      BY <1>3, <3>1
    <3>5. /\ \A j \in 1..n : places[j] \in P /\ l[old].path.med <= l[places[j]].path.med
          /\ n > 0 => old \in P
      BY <1>4, <2>1, <3>1
    <3> HIDE DEF new, old, next
    <3>6. next \in P
      BY <3>2, <3>3
    <3>7. l[next].path.med <= l[new].path.med
      <4>1. CASE next = new
        BY <1>3, <3>2, <4>1
      <4>2. CASE next # new
        <5>1. next = old /\ old \in P /\ ~Decision!bgp_info_cmp(l[new], l[old])
          BY <3>2, <3>3, <4>2
        <5>2. ~(l[new].path.med < l[old].path.med)
          BY <1>3, <3>2, <5>1, MedDecides
        <5> QED
          BY <1>3, <3>2, <5>1, <5>2
      <4> QED
        BY <4>1, <4>2
    <3>8. ASSUME NEW j \in 1..n PROVE l[next].path.med <= l[places[j]].path.med
      <4>1. old \in P /\ places[j] \in P /\ l[old].path.med <= l[places[j]].path.med
        BY <3>5
      <4>2. l[next].path.med <= l[old].path.med
        <5>1. CASE next = old
          BY <1>3, <4>1, <5>1
        <5>2. CASE next # old
          <6>1. next = new /\ Decision!bgp_info_cmp(l[new], l[old])
            BY <1>3, <3>3, <4>1, <5>2
          <6>2. ~(l[old].path.med < l[new].path.med)
            BY <1>3, <3>2, <4>1, <6>1, MedDecides
          <6> QED
            BY <1>3, <3>2, <4>1, <6>1, <6>2
        <5> QED
          BY <5>1, <5>2
      <4>3. l[next].path.med \in Nat /\ l[old].path.med \in Nat /\ l[places[j]].path.med \in Nat
        BY <1>3, <3>6, <4>1
      <4> QED
        BY <4>1, <4>2, <4>3
    <3>9. \A j \in 1..(n + 1) : j = n + 1 \/ j \in 1..n
      OBVIOUS
    <3>10. Low(n + 1)
      BY <3>6, <3>7, <3>8, <3>9 DEF new, next
    <3> QED
      BY <3>10
  <2>2. CASE ~(n + 1 <= N)
    BY <2>2
  <2> QED
    BY <2>1, <2>2
<1>8. N \in I
  <2> HIDE DEF I
  <2> QED
    BY <1>4, <1>6, <1>7, SetInduction
<1>9. Low(N)
  BY <1>4, <1>8
<1>10. CASE N = 0
  <2>1. P = {} /\ best = 0
    BY <1>4, <1>5, <1>10
  <2> QED
    BY <2>1 DEF P
<1>11. CASE N # 0
  <2>1. best \in P /\ best # 0 /\ P # {}
    BY <1>3, <1>4, <1>5, <1>9, <1>11
  <2>2. ASSUME NEW i \in P PROVE l[best].path.med <= l[i].path.med
    <3>1. PICK j \in 1..N : i = places[j]
      BY <1>4
    <3> QED
      BY <1>5, <1>9, <3>1
  <2> QED
    BY <2>1, <2>2 DEF P
<1> QED
  BY <1>10, <1>11

-----------------------------------------------------------------------------
(***************************************************************************)
(* A list as the set of its routes: a neighbour has one at most.           *)
(***************************************************************************)
Routes(r) == ToSet(rib[r])

\* What Store does to a route of the list.
Stored(e, q, attr) ==
    IF e.peer # q THEN e
    ELSE IF ~e.removed /\ Same(e.attr, attr) THEN [e EXCEPT !.changed = FALSE]
    ELSE [e EXCEPT !.attr = attr, !.changed = TRUE, !.removed = FALSE]

\* The route that Store adds.
NewRoute(q, attr) ==
    [peer |-> q, attr |-> attr, changed |-> FALSE, removed |-> FALSE, selected |-> FALSE]

\* What bgp_rib_remove does to a route of the list.
Dropped(e, q) == IF e.peer = q /\ ~e.removed THEN [e EXCEPT !.removed = TRUE] ELSE e

\* What bgp_process_main does to a route of the list when b is selected.
Marked(e, b) == [e EXCEPT !.selected = (e = b), !.changed = (@ /\ e # b)]

\* The set has the routes of the list, one of each peer.
LEMMA RoutesFacts ==
    ASSUME RibOK, NEW r \in Router
    PROVE  /\ Routes(r) = {rib[r][i] : i \in 1..Len(rib[r])}
           /\ \A e \in Routes(r) : e \in RouteOf(r)
           /\ \A e, f \in Routes(r) : e.peer = f.peer => e = f
           /\ \A i, j \in 1..Len(rib[r]) : rib[r][i].peer = rib[r][j].peer => i = j
<1>1. rib[r] \in Seq(RouteOf(r)) /\ Unique(rib[r]) /\ DOMAIN rib[r] = 1..Len(rib[r])
  BY DEF RibOK, Lists
<1>2. Routes(r) = {rib[r][i] : i \in 1..Len(rib[r])}
  BY <1>1 DEF Routes, ToSet
<1>3. \A i, j \in 1..Len(rib[r]) : rib[r][i].peer = rib[r][j].peer => i = j
  BY <1>1 DEF Unique
<1> QED
  BY <1>1, <1>2, <1>3

\* Store changes the route of q or adds one, and queues the node unless the same route
\* was there.
LEMMA StoreRoutes ==
    ASSUME RibOK, SessionOK, NEW r \in Router, NEW q, NEW attr, Store(r, q, attr)
    PROVE  /\ \A t \in Router \ {r} : rib'[t] = rib[t] /\ queued'[t] = queued[t]
           /\ (\A e \in Routes(r) : e.peer # q) => ToSet(rib'[r]) = Routes(r) \cup {NewRoute(q, attr)}
           /\ (\E e \in Routes(r) : e.peer = q) =>
                 ToSet(rib'[r]) = {Stored(e, q, attr) : e \in Routes(r)}
           /\ ~queued'[r] => /\ ~queued[r]
                             /\ \E e \in Routes(r) : e.peer = q /\ ~e.removed /\ Same(e.attr, attr)
<1> DEFINE routes == rib[r]
           new == NewRoute(q, attr)
           same == {i \in Live(r, q) : Same(rib[r][i].attr, attr)}
           kept == [i \in DOMAIN routes |->
                       IF i \notin Entry(r, q) THEN routes[i]
                       ELSE IF i \in same
                            THEN [routes[i] EXCEPT !.changed = FALSE]
                            ELSE [routes[i] EXCEPT !.attr = attr, !.changed = TRUE,
                                                   !.removed = FALSE]]
<1>1. /\ rib' = [rib EXCEPT ![r] = IF Entry(r, q) = {} THEN <<new>> \o routes ELSE kept]
      /\ queued' = [queued EXCEPT ![r] = @ \/ same = {}]
  BY DEF Store, NewRoute
<1>2. /\ DOMAIN rib = Router /\ DOMAIN queued = Router /\ routes \in Seq(RouteOf(r))
      /\ DOMAIN routes = 1..Len(routes) /\ Len(routes) \in Nat
      /\ Routes(r) = {routes[i] : i \in 1..Len(routes)}
  BY RoutesFacts DEF RibOK, Lists, SessionOK
<1>3. /\ Entry(r, q) = {i \in 1..Len(routes) : routes[i].peer = q}
      /\ same = {i \in 1..Len(routes) : /\ routes[i].peer = q /\ ~routes[i].removed
                                        /\ Same(routes[i].attr, attr)}
  BY <1>2 DEF Entry, Live
<1>4. \A t \in Router \ {r} : rib'[t] = rib[t] /\ queued'[t] = queued[t]
  BY <1>1, <1>2
<1>5. rib'[r] = (IF Entry(r, q) = {} THEN <<new>> \o routes ELSE kept)
  BY <1>1, <1>2
<1>6. ~queued'[r] => ~queued[r] /\ same # {}
  BY <1>1, <1>2
<1>7. ~queued'[r] => \E e \in Routes(r) : e.peer = q /\ ~e.removed /\ Same(e.attr, attr)
  <2> HIDE DEF routes
  <2> QED
    BY <1>2, <1>3, <1>6
<1>8. ASSUME \A e \in Routes(r) : e.peer # q
      PROVE  ToSet(rib'[r]) = Routes(r) \cup {new}
  <2>1. rib'[r] = <<new>> \o routes
    <3>1. Entry(r, q) = {}
      <4> HIDE DEF routes
      <4> QED
        BY <1>2, <1>3, <1>8
    <3> HIDE DEF new, routes, kept
    <3> QED
      BY <1>5, <3>1
  <2> DEFINE S == Routes(r) \cup {new}
             one == <<new>>
  <2>2. routes \in Seq(S) /\ one \in Seq(S)
    BY <1>2
  <2>3. ToSet(one) = {new} /\ ToSet(routes) = Routes(r)
    BY DEF ToSet, Routes
  <2> HIDE DEF S, one, routes, new
  <2>4. ToSet(one \o routes) = ToSet(one) \cup ToSet(routes)
    BY <2>2, ConcatSet
  <2> QED
    BY <2>1, <2>3, <2>4 DEF one
<1>9. ASSUME \E e \in Routes(r) : e.peer = q
      PROVE  ToSet(rib'[r]) = {Stored(e, q, attr) : e \in Routes(r)}
  <2>1. rib'[r] = kept
    BY <1>2, <1>3, <1>5, <1>9
  <2>2. ASSUME NEW i \in 1..Len(routes) PROVE kept[i] = Stored(routes[i], q, attr)
    <3> DEFINE e == routes[i]
               keep == [e EXCEPT !.changed = FALSE]
               put == [e EXCEPT !.attr = attr, !.changed = TRUE, !.removed = FALSE]
    <3>1. kept[i] = IF i \notin Entry(r, q) THEN e ELSE IF i \in same THEN keep ELSE put
      BY <1>2
    <3>2. Stored(e, q, attr) = IF e.peer # q THEN e
                               ELSE IF ~e.removed /\ Same(e.attr, attr) THEN keep ELSE put
      BY DEF Stored
    <3>3. /\ i \in Entry(r, q) <=> e.peer = q
          /\ i \in same <=> e.peer = q /\ ~e.removed /\ Same(e.attr, attr)
      BY <1>3
    <3> HIDE DEF e, keep, put, kept, same
    <3> QED
      BY <3>1, <3>2, <3>3 DEF e
  <2>3. DOMAIN kept = 1..Len(routes)
    BY <1>2
  <2> HIDE DEF kept
  <2>4. ToSet(kept) = {kept[i] : i \in 1..Len(routes)}
    BY <2>3 DEF ToSet
  <2> QED
    BY <1>2, <2>1, <2>2, <2>4
<1> QED
  BY <1>4, <1>6, <1>7, <1>8, <1>9

\* bgp_rib_remove marks the route of q, and queues the node if there was one.
LEMMA RemoveRoutes ==
    ASSUME RibOK, SessionOK, NEW r \in Router, NEW q, bgp_rib_remove(r, q)
    PROVE  /\ \A t \in Router \ {r} : rib'[t] = rib[t] /\ queued'[t] = queued[t]
           /\ ToSet(rib'[r]) = {Dropped(e, q) : e \in Routes(r)}
           /\ ~queued'[r] => ~queued[r] /\ \A e \in Routes(r) : e.peer = q => e.removed
<1> DEFINE routes == rib[r]
           kept == [i \in DOMAIN routes |->
                       IF i \in Live(r, q) THEN [routes[i] EXCEPT !.removed = TRUE]
                       ELSE routes[i]]
<1>1. /\ rib' = [rib EXCEPT ![r] = kept]
      /\ queued' = [queued EXCEPT ![r] = @ \/ Live(r, q) # {}]
  BY DEF bgp_rib_remove
<1>2. /\ DOMAIN rib = Router /\ DOMAIN queued = Router /\ DOMAIN routes = 1..Len(routes)
      /\ Routes(r) = {routes[i] : i \in 1..Len(routes)}
  BY RoutesFacts DEF RibOK, Lists, SessionOK
<1>3. Live(r, q) = {i \in 1..Len(routes) : routes[i].peer = q /\ ~routes[i].removed}
  BY <1>2 DEF Entry, Live
<1>4. /\ \A t \in Router \ {r} : rib'[t] = rib[t] /\ queued'[t] = queued[t]
      /\ rib'[r] = kept /\ (~queued'[r] => ~queued[r] /\ Live(r, q) = {})
  BY <1>1, <1>2
<1>5. ASSUME NEW i \in 1..Len(routes) PROVE kept[i] = Dropped(routes[i], q)
  BY <1>2, <1>3 DEF Dropped
<1>6. DOMAIN kept = 1..Len(routes)
  BY <1>2
<1> HIDE DEF kept, routes
<1>7. ToSet(kept) = {kept[i] : i \in 1..Len(routes)}
  BY <1>6 DEF ToSet
<1>8. ~queued'[r] => \A e \in Routes(r) : e.peer = q => e.removed
  BY <1>2, <1>3, <1>4
<1> QED
  BY <1>2, <1>4, <1>5, <1>7, <1>8

\* A live route of the lowest MED.
Lowest(r, b) ==
    /\ b \in Routes(r) /\ ~b.removed
    /\ \A e \in Routes(r) : ~e.removed => b.attr.med <= e.attr.med

\* The three outcomes of the decision process of r: nothing is left to select, the
\* selected route stays, or b is selected and announced.
LeavesNone(r) ==
    /\ \A e \in Routes(r) : e.removed
    /\ ToSet(rib'[r]) = {}
    /\ \A q \in Neighbours(r) :
          adjOut'[r][q] = IF q \in up[r] THEN bgp_adj_out_unset(adjOut[r][q]) ELSE adjOut[r][q]

Keeps(r, b) ==
    /\ b.selected /\ ~b.changed
    /\ ToSet(rib'[r]) = {e \in Routes(r) : ~e.removed}
    /\ adjOut' = adjOut

Chooses(r, b) ==
    /\ ToSet(rib'[r]) = {Marked(e, b) : e \in {f \in Routes(r) : ~f.removed}}
    /\ \A q \in Neighbours(r) :
          adjOut'[r][q] = IF q \notin up[r] THEN adjOut[r][q]
                          ELSE IF bgp_announce_check(r, q, b)
                               THEN bgp_adj_out_set(adjOut[r][q], Outgoing(r, q, b))
                               ELSE bgp_adj_out_unset(adjOut[r][q])

\* What the decision process sees of a route.
LEMMA DecidedFacts ==
    ASSUME NEW r, NEW e
    PROVE  Decided(r, e).path.med = e.attr.med /\ (Decided(r, e).usable <=> ~e.removed)
<1>1. Decided(r, e).path.med = e.attr.med
  BY DEF Decided
<1>2. Decided(r, e).usable = ~e.removed
  BY DEF Decided
<1> QED
  BY <1>1, <1>2

\* The decision process has one of the three outcomes, with a route of the lowest MED.
LEMMA ProcessRoutes ==
    ASSUME NetworkOK, ComparesMed, NEW r \in Router, bgp_process_main(r)
    PROVE  /\ \A t \in Router \ {r} : /\ rib'[t] = rib[t] /\ queued'[t] = queued[t]
                                      /\ adjOut'[t] = adjOut[t]
           /\ ~queued'[r]
           /\ LeavesNone(r) \/ \E b : Lowest(r, b) /\ (Keeps(r, b) \/ Chooses(r, b))
<1> DEFINE routes == rib[r]
           list == Listed(r)
<1>1. PICK best \in 0..Len(routes) :
         LET same == best \in Selected(r) /\ ~rib[r][best].changed
             marked == [i \in DOMAIN rib[r] |->
                           [rib[r][i] EXCEPT !.selected = (i = best),
                                             !.changed = (@ /\ i # best)]]
         IN  /\ best = Decision!bgp_best_selection(list)
             /\ rib' = [rib EXCEPT ![r] = Reaped(IF same THEN @ ELSE marked)]
             /\ adjOut' = IF same THEN adjOut ELSE [adjOut EXCEPT ![r] = Announced(r, best)]
  BY DEF bgp_process_main
<1> DEFINE same == best \in Selected(r) /\ ~rib[r][best].changed
           marked == [i \in DOMAIN routes |->
                         [routes[i] EXCEPT !.selected = (i = best), !.changed = (@ /\ i # best)]]
           left == IF same THEN routes ELSE marked
<1>2. /\ rib' = [rib EXCEPT ![r] = Reaped(left)] /\ best = Decision!bgp_best_selection(list)
      /\ adjOut' = IF same THEN adjOut ELSE [adjOut EXCEPT ![r] = Announced(r, best)]
  BY <1>1
<1>3. queued' = [queued EXCEPT ![r] = FALSE]
  BY DEF bgp_process_main
<1>4. /\ DOMAIN rib = Router /\ DOMAIN queued = Router /\ DOMAIN routes = 1..Len(routes)
      /\ Len(routes) \in Nat /\ DOMAIN adjOut = Router /\ routes \in Seq(RouteOf(r))
      /\ \A i \in 1..Len(routes) : routes[i] \in RouteOf(r)
      /\ Routes(r) = {routes[i] : i \in 1..Len(routes)}
      /\ \A i, j \in 1..Len(routes) : routes[i].peer = routes[j].peer => i = j
  BY RoutesFacts, ListedRoutes DEF NetworkOK, RibOK, SessionOK, AdjOK, Lists
<1>5. /\ \A t \in Router \ {r} : /\ rib'[t] = rib[t] /\ queued'[t] = queued[t]
                                 /\ adjOut'[t] = adjOut[t]
      /\ ~queued'[r] /\ rib'[r] = Reaped(left)
      /\ adjOut' = adjOut \/ adjOut'[r] = Announced(r, best)
      /\ same => adjOut' = adjOut
      /\ ~same => adjOut'[r] = Announced(r, best)
  <2> HIDE DEF same, left
  <2> QED
    BY <1>2, <1>3, <1>4
<1>6. /\ DOMAIN list = 1..Len(routes)
      /\ \A i \in 1..Len(routes) : /\ list[i].path.med = routes[i].attr.med
                                   /\ list[i].path.med \in Nat
                                   /\ list[i].usable <=> ~routes[i].removed
  <2>1. DOMAIN list = 1..Len(routes) /\ \A i \in 1..Len(routes) : list[i] = Decided(r, routes[i])
    BY <1>4 DEF Listed
  <2> HIDE DEF list, routes
  <2>2. \A i \in 1..Len(routes) : routes[i].attr.med \in Nat
    BY <1>4, BoundAssumption DEF RouteOf, Attrs
  <2> QED
    BY <2>1, <2>2, DecidedFacts
<1>7. /\ best = 0 <=> Places(list) = {}
      /\ best # 0 => best \in Places(list)
      /\ best # 0 => \A i \in Places(list) : list[best].path.med <= list[i].path.med
  <2>1. list \in Seq({list[i] : i \in 1..Len(routes)}) /\ Len(list) = Len(routes)
    <3> HIDE DEF routes
    <3> QED
      BY <1>4, <1>6 DEF Listed
  <2> DEFINE S == {list[i] : i \in 1..Len(routes)}
  <2> HIDE DEF list, S
  <2>2. list \in Seq(S)
    BY <2>1 DEF S
  <2>3. \A i \in 1..Len(list) : list[i].path.med \in Nat
    BY <1>6, <2>1
  <2>4. best = Decision!bgp_best_selection(list)
    BY <1>2
  <2> QED
    BY <2>2, <2>3, <2>4, LowestMed
<1>8. Places(list) = {i \in 1..Len(routes) : ~routes[i].removed}
  <2>1. Len(list) = Len(routes)
    BY <1>4 DEF Listed
  <2> HIDE DEF list, routes
  <2> QED
    BY <1>6, <2>1 DEF Places
<1> HIDE DEF list
<1>9. /\ DOMAIN marked = 1..Len(routes)
      /\ \A i \in 1..Len(routes) :
            marked[i] = [routes[i] EXCEPT !.selected = (i = best), !.changed = (@ /\ i # best)]
  BY <1>4
<1>10. \A i \in 1..Len(routes) : marked[i].removed = routes[i].removed
  <2> SUFFICES ASSUME NEW i \in 1..Len(routes) PROVE marked[i].removed = routes[i].removed
    OBVIOUS
  <2>1. routes[i] \in RouteOf(r)
    BY <1>4
  <2> QED
    BY <1>9, <2>1 DEF RouteOf
<1> HIDE DEF marked
<1>11. ToSet(rib'[r]) = {left[i] : i \in {j \in 1..Len(routes) : ~routes[j].removed}}
  <2> DEFINE T == {e \in ToSet(left) : ~e.removed}
             S == ToSet(left)
  <2>1. DOMAIN left = 1..Len(routes) /\ \A i \in 1..Len(routes) : left[i].removed = routes[i].removed
    <3> HIDE DEF same
    <3> QED
      BY <1>4, <1>9, <1>10
  <2> HIDE DEF left
  <2>2. S = {left[i] : i \in 1..Len(routes)}
    BY <2>1 DEF ToSet
  <2>3. left \in Seq(S)
    <3>1. marked = [i \in 1..Len(routes) |-> marked[i]]
      BY <1>4 DEF marked
    <3>2. left = [i \in 1..Len(routes) |-> left[i]]
      <4>1. CASE same
        BY <1>4, <4>1 DEF left
      <4>2. CASE ~same
        BY <3>1, <4>2 DEF left
      <4> QED
        BY <4>1, <4>2
    <3> QED
      BY <1>4, <2>2, <3>2
  <2> HIDE DEF S
  <2>4. ToSet(Filter(left, T)) = ToSet(left) \cap T
    BY <2>3, FilterSet
  <2>5. ToSet(rib'[r]) = T
    BY <1>5, <2>4 DEF Reaped
  <2> QED
    BY <2>1, <2>2, <2>5 DEF S
<1>12. CASE best = 0
  <2>1. \A e \in Routes(r) : e.removed
    BY <1>4, <1>7, <1>8, <1>12
  <2>2. ToSet(rib'[r]) = {}
    BY <1>7, <1>8, <1>11, <1>12
  <2>3. ~same
    BY <1>4, <1>12 DEF Selected
  <2>4. \A q \in Neighbours(r) :
           adjOut'[r][q] = IF q \in up[r] THEN bgp_adj_out_unset(adjOut[r][q]) ELSE adjOut[r][q]
    BY <1>5, <1>12, <2>3 DEF Announced
  <2> QED
    BY <1>5, <2>1, <2>2, <2>4 DEF LeavesNone
<1>13. CASE best # 0
  <2> DEFINE b == routes[best]
  <2>1. best \in 1..Len(routes) /\ ~b.removed /\ b \in Routes(r)
    BY <1>4, <1>7, <1>8, <1>13
  <2>2. Lowest(r, b)
    <3>1. ASSUME NEW e \in Routes(r), ~e.removed PROVE b.attr.med <= e.attr.med
      <4>1. PICK i \in 1..Len(routes) : e = routes[i]
        BY <1>4
      <4>2. list[best].path.med <= list[i].path.med
        BY <1>7, <1>8, <1>13, <3>1, <4>1
      <4> QED
        BY <1>6, <2>1, <4>1, <4>2
    <3> QED
      BY <2>1, <3>1 DEF Lowest
  <2>3. CASE same
    <3>1. b.selected /\ ~b.changed
      BY <2>3 DEF Selected
    <3>2. ToSet(rib'[r]) = {e \in Routes(r) : ~e.removed}
      <4> HIDE DEF routes, same
      <4> QED
        BY <1>4, <1>11, <2>3
    <3>3. Keeps(r, b)
      BY <1>5, <2>3, <3>1, <3>2 DEF Keeps
    <3> QED
      BY <1>5, <2>2, <3>3
  <2>4. CASE ~same
    <3>1. ASSUME NEW i \in 1..Len(routes) PROVE marked[i] = Marked(routes[i], b)
      <4>1. (i = best) = (routes[i] = b)
        BY <1>4, <2>1
      <4>2. (routes[i].changed /\ i # best) = (routes[i].changed /\ routes[i] # b)
        BY <4>1
      <4> QED
        BY <1>9, <4>1, <4>2, Zenon DEF Marked
    <3>2. ToSet(rib'[r]) = {Marked(e, b) : e \in {f \in Routes(r) : ~f.removed}}
      <4> HIDE DEF routes, same, b
      <4> QED
        BY <1>4, <1>11, <2>4, <3>1
    <3>3. Chooses(r, b)
      BY <1>5, <1>13, <2>4, <3>2 DEF Chooses, Announced
    <3> QED
      BY <1>5, <2>2, <3>3
  <2> QED
    BY <2>3, <2>4
<1> QED
  BY <1>12, <1>13

-----------------------------------------------------------------------------
(***************************************************************************)
(* What a table and a neighbour agree on.  R is the set of routes of r.    *)
(***************************************************************************)
\* One route is selected at most, one that changed waits to be processed, and a
\* router that has nothing to process has selected a route of the lowest MED.
ChoiceOK(R, busy) ==
    /\ \A e, f \in R : e.selected /\ f.selected => e = f
    /\ \A e \in R : e.selected /\ e.changed => busy
    /\ ~busy => /\ \A e \in R : ~e.removed
                /\ R # {} => \E e \in R : e.selected
                /\ \A e, f \in R : e.selected => e.attr.med <= f.attr.med

\* What the neighbour is to know once everything scheduled is sent.
Goal(adj) == IF adj.adv = None THEN adj.attr ELSE IF adj.adv = Withdraw THEN None ELSE adj.adv

\* What r announces to q when e is selected.
Due(r, q, e) == IF e.peer # q THEN Outgoing(r, q, e) ELSE None

\* The selected route was announced to q, unless it changed since.
AnnouncedOK(r, q, R, adj) ==
    /\ \A e \in R : e.selected /\ ~e.changed => Goal(adj) = Due(r, q, e)
    /\ (\A e \in R : ~e.selected) => Goal(adj) = None

\* The attributes of the live routes of q: at most one.
HeldOf(R, q) == {e.attr : e \in {f \in R : f.peer = q /\ ~f.removed}}

\* The routes of a list.
RouteSet(r, R) ==
    /\ \A e \in R : e \in RouteOf(r)
    /\ \A e, f \in R : e.peer = f.peer => e = f

\* A route after Store, field by field.
LEMMA StoredFacts ==
    ASSUME NEW r, NEW e \in RouteOf(r), NEW q, NEW attr, NEW s, s = Stored(e, q, attr)
    PROVE  /\ s.peer = e.peer /\ (s.selected <=> e.selected)
           /\ e.peer # q => s = e
           /\ e.peer = q /\ ~e.removed /\ Same(e.attr, attr) =>
                 s.attr = e.attr /\ ~s.removed /\ ~s.changed /\ (~e.changed => s = e)
           /\ e.peer = q /\ ~(~e.removed /\ Same(e.attr, attr)) =>
                 s.attr = attr /\ ~s.removed /\ s.changed
<1> DEFINE keep == [e EXCEPT !.changed = FALSE]
           put == [e EXCEPT !.attr = attr, !.changed = TRUE, !.removed = FALSE]
<1>1. /\ keep.peer = e.peer /\ keep.selected = e.selected /\ keep.attr = e.attr
      /\ keep.removed = e.removed /\ ~keep.changed
  BY DEF RouteOf
<1>2. /\ put.peer = e.peer /\ put.selected = e.selected /\ put.attr = attr
      /\ ~put.removed /\ put.changed
  BY DEF RouteOf
<1>3. ~e.changed => keep = e
  BY DEF RouteOf
<1>4. s = IF e.peer # q THEN e
          ELSE IF ~e.removed /\ Same(e.attr, attr) THEN keep ELSE put
  BY DEF Stored
<1> HIDE DEF keep, put
<1>5. CASE e.peer # q
  BY <1>4, <1>5
<1>6. CASE e.peer = q /\ ~e.removed /\ Same(e.attr, attr)
  BY <1>1, <1>3, <1>4, <1>6
<1>7. CASE e.peer = q /\ ~(~e.removed /\ Same(e.attr, attr))
  BY <1>2, <1>4, <1>7
<1> QED
  BY <1>5, <1>6, <1>7

\* A route after bgp_rib_remove, field by field.
LEMMA DroppedFacts ==
    ASSUME NEW r, NEW e \in RouteOf(r), NEW q, NEW d, d = Dropped(e, q)
    PROVE  /\ d.peer = e.peer /\ d.attr = e.attr
           /\ d.selected <=> e.selected
           /\ d.changed <=> e.changed
           /\ d.removed <=> e.removed \/ e.peer = q
           /\ e.peer # q \/ e.removed => d = e
<1> DEFINE x == [e EXCEPT !.removed = TRUE]
<1>1. /\ x.peer = e.peer /\ x.selected = e.selected /\ x.attr = e.attr
      /\ x.changed = e.changed /\ x.removed
  BY DEF RouteOf
<1>2. d = IF e.peer = q /\ ~e.removed THEN x ELSE e
  BY DEF Dropped
<1> HIDE DEF x
<1> QED
  BY <1>1, <1>2

\* A route after bgp_process_main, field by field.
LEMMA MarkedFacts ==
    ASSUME NEW r, NEW e \in RouteOf(r), NEW b, NEW m, m = Marked(e, b)
    PROVE  /\ m.peer = e.peer /\ m.attr = e.attr
           /\ m.removed <=> e.removed
           /\ m.selected <=> e = b
           /\ m.changed <=> e.changed /\ e # b
<1>1. (e.changed /\ e # b) \in BOOLEAN /\ (e = b) \in BOOLEAN
  BY Zenon
<1>2. \A x, y \in BOOLEAN : LET z == [e EXCEPT !.selected = x, !.changed = y]
                            IN  /\ z.peer = e.peer /\ z.attr = e.attr /\ z.removed = e.removed
                                /\ z.selected = x /\ z.changed = y
  BY DEF RouteOf
<1>3. m = [e EXCEPT !.selected = (e = b), !.changed = (@ /\ e # b)]
  BY DEF Marked
<1>4. /\ m.peer = e.peer /\ m.attr = e.attr /\ m.removed = e.removed
      /\ m.selected = (e = b) /\ m.changed = (e.changed /\ e # b)
  BY <1>1, <1>2, <1>3, Zenon
<1> QED
  BY <1>4

\* The routes after Store.
StoreSet(R, q, attr, R2) ==
    \/ (\A e \in R : e.peer # q) /\ R2 = R \cup {NewRoute(q, attr)}
    \/ (\E e \in R : e.peer = q) /\ R2 = {Stored(e, q, attr) : e \in R}

\* Store changes the route of q and nothing else; a selected route that it changes
\* waits to be processed.
LEMMA StoreKeeps ==
    ASSUME NEW r, NEW R, RouteSet(r, R), NEW q, NEW attr, NEW R2, StoreSet(R, q, attr, R2),
           \A e \in R : e.peer = q /\ Same(e.attr, attr) => e.attr = attr,
           NEW busy \in BOOLEAN, NEW busy2 \in BOOLEAN, ChoiceOK(R, busy),
           ~busy2 => ~busy /\ \E e \in R : e.peer = q /\ ~e.removed /\ Same(e.attr, attr),
           \A e \in R : busy /\ e.peer = q /\ ~e.removed /\ Same(e.attr, attr) => ~e.changed
    PROVE  /\ HeldOf(R2, q) = {attr} /\ \A p : p # q => HeldOf(R2, p) = HeldOf(R, p)
           /\ ChoiceOK(R2, busy2)
           /\ \A p, adj : AnnouncedOK(r, p, R, adj) => AnnouncedOK(r, p, R2, adj)
<1> DEFINE new == NewRoute(q, attr)
           Again(e) == ~e.removed /\ Same(e.attr, attr)
<1>1. CASE (\A e \in R : e.peer # q) /\ R2 = R \cup {new}
  <2>1. new.peer = q /\ new.attr = attr /\ ~new.removed /\ ~new.selected
    BY DEF NewRoute
  <2>2. busy2
    BY <1>1
  <2> HIDE DEF new
  <2>3. HeldOf(R2, q) = {attr}
    BY <1>1, <2>1 DEF HeldOf
  <2>4. ASSUME NEW p, p # q PROVE HeldOf(R2, p) = HeldOf(R, p)
    BY <1>1, <2>1, <2>4 DEF HeldOf
  <2>5. ChoiceOK(R2, busy2)
    BY <1>1, <2>1, <2>2 DEF ChoiceOK
  <2>6. ASSUME NEW p, NEW adj, AnnouncedOK(r, p, R, adj) PROVE AnnouncedOK(r, p, R2, adj)
    BY <1>1, <2>1, <2>6 DEF AnnouncedOK
  <2> QED
    BY <2>3, <2>4, <2>5, <2>6
<1>2. CASE (\E e \in R : e.peer = q) /\ R2 = {Stored(e, q, attr) : e \in R}
  <2> DEFINE St(e) == Stored(e, q, attr)
  <2>1. ASSUME NEW e \in R
        PROVE  /\ St(e) \in R2 /\ St(e).peer = e.peer /\ (St(e).selected <=> e.selected)
               /\ e.peer # q => St(e) = e
               /\ e.peer = q => ~St(e).removed /\ St(e).attr = attr
               /\ e.peer = q /\ Again(e) => ~e.removed /\ ~St(e).changed /\ St(e).attr = e.attr
                                            /\ (~e.changed => St(e) = e)
               /\ e.peer = q /\ ~Again(e) => St(e).changed
    <3>1. e \in RouteOf(r) /\ St(e) \in R2
      BY <1>2 DEF RouteSet
    <3> DEFINE x == Stored(e, q, attr)
    <3> HIDE DEF x
    <3>2. /\ x.peer = e.peer /\ (x.selected <=> e.selected)
          /\ e.peer # q => x = e
          /\ e.peer = q /\ Again(e) => x.attr = e.attr /\ ~x.removed /\ ~x.changed
                                       /\ (~e.changed => x = e)
          /\ e.peer = q /\ ~Again(e) => x.attr = attr /\ ~x.removed /\ x.changed
      BY <3>1, StoredFacts DEF x
    <3> QED
      BY <3>1, <3>2 DEF x
  <2>2. \A x \in R2 : \E e \in R : x = St(e)
    BY <1>2
  <2>3. \A e, f \in R : e.peer = f.peer => e = f
    BY DEF RouteSet
  <2> HIDE DEF St, Again
  <2>4. HeldOf(R2, q) = {attr}
    <3>1. PICK e \in R : e.peer = q
      BY <1>2
    <3>2. St(e) \in R2 /\ St(e).peer = q /\ ~St(e).removed /\ St(e).attr = attr
      BY <2>1, <3>1
    <3>3. \A x \in R2 : x.peer = q => x.attr = attr
      BY <2>1, <2>2
    <3> QED
      BY <3>2, <3>3 DEF HeldOf
  <2>5. ASSUME NEW p, p # q PROVE HeldOf(R2, p) = HeldOf(R, p)
    <3>1. \A x : x \in R2 /\ x.peer = p <=> x \in R /\ x.peer = p
      BY <2>1, <2>2, <2>5
    <3>2. {f \in R2 : f.peer = p /\ ~f.removed} = {f \in R : f.peer = p /\ ~f.removed}
      BY <3>1
    <3> QED
      BY <3>2 DEF HeldOf
  <2>6. ASSUME NEW e \in R, e.selected, e.peer = q, Again(e) PROVE St(e) = e
    <3>1. ~e.changed
      <4>1. CASE busy
        BY <2>6, <4>1 DEF Again
      <4>2. CASE ~busy
        BY <2>6, <4>2 DEF ChoiceOK
      <4> QED
        BY <4>1, <4>2
    <3> QED
      BY <2>1, <2>6, <3>1
  <2>7. ASSUME NEW e \in R, e.peer = q, ~Again(e) PROVE busy2
    <3> SUFFICES ASSUME ~busy2 PROVE FALSE
      OBVIOUS
    <3>1. PICK f \in R : f.peer = q /\ Again(f)
      BY DEF Again
    <3> QED
      BY <2>3, <2>7, <3>1
  <2>8. ASSUME NEW x \in R2, x.selected PROVE x \in R \/ (x.changed /\ busy2)
    <3>1. PICK e \in R : x = St(e)
      BY <2>2
    <3>2. e.selected
      BY <2>1, <2>8, <3>1
    <3> QED
      BY <2>1, <2>6, <2>7, <3>1, <3>2
  <2>9. (\A x \in R2 : ~x.selected) <=> (\A e \in R : ~e.selected)
    BY <2>1, <2>2
  <2>10. ChoiceOK(R2, busy2)
    <3>1. ASSUME NEW x \in R2, NEW y \in R2, x.selected, y.selected PROVE x = y
      <4>1. PICK e \in R, f \in R : x = St(e) /\ y = St(f)
        BY <2>2
      <4>2. e.selected /\ f.selected
        BY <2>1, <3>1, <4>1
      <4> QED
        BY <4>1, <4>2 DEF ChoiceOK
    <3>2. ASSUME NEW x \in R2, x.selected, x.changed PROVE busy2
      <4>1. CASE x \in R
        BY <3>2, <4>1 DEF ChoiceOK
      <4>2. CASE x \notin R
        BY <2>8, <3>2, <4>2
      <4> QED
        BY <4>1, <4>2
    <3>3. ASSUME ~busy2
          PROVE  /\ \A x \in R2 : ~x.removed
                 /\ R2 # {} => \E x \in R2 : x.selected
                 /\ \A x, y \in R2 : x.selected => x.attr.med <= y.attr.med
      <4>1. ~busy /\ \A e \in R : ~e.removed /\ (e.peer = q => Again(e))
        BY <2>7, <3>3 DEF ChoiceOK
      <4>2. \A e \in R : St(e).attr = e.attr /\ ~St(e).removed
        BY <2>1, <4>1
      <4>3. \A x \in R2 : ~x.removed
        BY <2>2, <4>2
      <4>4. R2 # {} => \E x \in R2 : x.selected
        BY <2>1, <2>2, <4>1 DEF ChoiceOK
      <4>5. ASSUME NEW x \in R2, NEW y \in R2, x.selected PROVE x.attr.med <= y.attr.med
        <5>1. PICK e \in R, f \in R : x = St(e) /\ y = St(f)
          BY <2>2
        <5>2. e.selected
          BY <2>1, <4>5, <5>1
        <5>3. e.attr.med <= f.attr.med
          BY <4>1, <5>2 DEF ChoiceOK
        <5> QED
          BY <4>2, <5>1, <5>3
      <4> QED
        BY <4>3, <4>4, <4>5
    <3> QED
      BY <3>1, <3>2, <3>3 DEF ChoiceOK
  <2>11. ASSUME NEW p, NEW adj, AnnouncedOK(r, p, R, adj) PROVE AnnouncedOK(r, p, R2, adj)
    <3>1. ASSUME NEW x \in R2, x.selected, ~x.changed PROVE Goal(adj) = Due(r, p, x)
      BY <2>8, <2>11, <3>1 DEF AnnouncedOK
    <3>2. (\A x \in R2 : ~x.selected) => Goal(adj) = None
      BY <2>9, <2>11 DEF AnnouncedOK
    <3> QED
      BY <3>1, <3>2 DEF AnnouncedOK
  <2> QED
    BY <2>4, <2>5, <2>10, <2>11
<1> QED
  BY <1>1, <1>2 DEF StoreSet

\* A selected route that is marked as removed is still the one that was announced.
LEMMA DueSame ==
    ASSUME NEW r, NEW q, NEW d, NEW e, d.peer = e.peer, d.attr = e.attr
    PROVE  Due(r, q, d) = Due(r, q, e)
BY DEF Due, Outgoing, RouteMapOut

\* The routes after bgp_rib_remove.
DropSet(R, q, R2) == R2 = {Dropped(e, q) : e \in R}

\* bgp_rib_remove takes the route of q out of use and changes nothing else.
LEMMA DropKeeps ==
    ASSUME NEW r, NEW R, RouteSet(r, R), NEW q, NEW R2, DropSet(R, q, R2),
           NEW busy \in BOOLEAN, NEW busy2 \in BOOLEAN, ChoiceOK(R, busy),
           ~busy2 => ~busy /\ \A e \in R : e.peer = q => e.removed
    PROVE  /\ HeldOf(R2, q) = {} /\ \A p : p # q => HeldOf(R2, p) = HeldOf(R, p)
           /\ ChoiceOK(R2, busy2)
           /\ \A p, adj : AnnouncedOK(r, p, R, adj) => AnnouncedOK(r, p, R2, adj)
<1> DEFINE Dr(e) == Dropped(e, q)
<1>1. ASSUME NEW e \in R
      PROVE  /\ Dr(e) \in R2 /\ Dr(e).peer = e.peer /\ Dr(e).attr = e.attr
             /\ Dr(e).selected <=> e.selected
             /\ Dr(e).changed <=> e.changed
             /\ Dr(e).removed <=> e.removed \/ e.peer = q
             /\ e.peer # q \/ e.removed => Dr(e) = e
  <2>1. e \in RouteOf(r) /\ Dr(e) \in R2
    BY DEF RouteSet, DropSet
  <2> DEFINE x == Dropped(e, q)
  <2> HIDE DEF x
  <2>2. /\ x.peer = e.peer /\ x.attr = e.attr
        /\ x.selected <=> e.selected
        /\ x.changed <=> e.changed
        /\ x.removed <=> e.removed \/ e.peer = q
        /\ e.peer # q \/ e.removed => x = e
    BY <2>1, DroppedFacts DEF x
  <2> QED
    BY <2>1, <2>2 DEF x
<1>2. \A x \in R2 : \E e \in R : x = Dr(e)
  BY DEF DropSet
<1> HIDE DEF Dr
<1>3. HeldOf(R2, q) = {}
  <2>1. \A x \in R2 : x.peer = q => x.removed
    BY <1>1, <1>2
  <2> QED
    BY <2>1 DEF HeldOf
<1>4. ASSUME NEW p, p # q PROVE HeldOf(R2, p) = HeldOf(R, p)
  <2>1. \A x : x \in R2 /\ x.peer = p <=> x \in R /\ x.peer = p
    BY <1>1, <1>2, <1>4
  <2>2. {f \in R2 : f.peer = p /\ ~f.removed} = {f \in R : f.peer = p /\ ~f.removed}
    BY <2>1
  <2> QED
    BY <2>2 DEF HeldOf
<1>5. ChoiceOK(R2, busy2)
  <2>1. ASSUME NEW x \in R2, NEW y \in R2, x.selected, y.selected PROVE x = y
    <3>1. PICK e \in R, f \in R : x = Dr(e) /\ y = Dr(f)
      BY <1>2
    <3>2. e.selected /\ f.selected
      BY <1>1, <2>1, <3>1
    <3> QED
      BY <3>1, <3>2 DEF ChoiceOK
  <2>2. ASSUME NEW x \in R2, x.selected, x.changed PROVE busy2
    <3>1. PICK e \in R : x = Dr(e)
      BY <1>2
    <3>2. e.selected /\ e.changed
      BY <1>1, <2>2, <3>1
    <3> QED
      BY <3>2 DEF ChoiceOK
  <2>3. ASSUME ~busy2 PROVE R2 = R
    <3>1. \A e \in R : Dr(e) = e
      BY <1>1, <2>3
    <3> QED
      BY <1>1, <1>2, <3>1
  <2>4. ASSUME ~busy2
        PROVE  /\ \A x \in R2 : ~x.removed
               /\ R2 # {} => \E x \in R2 : x.selected
               /\ \A x, y \in R2 : x.selected => x.attr.med <= y.attr.med
    BY <2>3, <2>4 DEF ChoiceOK
  <2> QED
    BY <2>1, <2>2, <2>4 DEF ChoiceOK
<1>6. ASSUME NEW p, NEW adj, AnnouncedOK(r, p, R, adj) PROVE AnnouncedOK(r, p, R2, adj)
  <2>1. ASSUME NEW x \in R2, x.selected, ~x.changed PROVE Goal(adj) = Due(r, p, x)
    <3>1. PICK e \in R : x = Dr(e)
      BY <1>2
    <3>2. e.selected /\ ~e.changed /\ x.peer = e.peer /\ x.attr = e.attr
      BY <1>1, <2>1, <3>1
    <3>3. Goal(adj) = Due(r, p, e)
      BY <1>6, <3>2 DEF AnnouncedOK
    <3> QED
      BY <3>2, <3>3, DueSame
  <2>2. (\A x \in R2 : ~x.selected) => Goal(adj) = None
    BY <1>1, <1>6 DEF AnnouncedOK
  <2> QED
    BY <2>1, <2>2 DEF AnnouncedOK
<1> QED
  BY <1>3, <1>4, <1>5, <1>6

\* Nothing in an adj_out, or a withdrawal, leaves the neighbour without a route.
LEMMA UnsetFacts ==
    ASSUME NEW r, NEW q, NEW adj \in AdjOf(r, q), NEW next, next = bgp_adj_out_unset(adj)
    PROVE  Goal(next) = None /\ next.attr = adj.attr /\ next.adv \in {None, Withdraw}
<1>1. CASE adj.attr = None
  BY <1>1 DEF bgp_adj_out_unset, NoAdj, Goal
<1>2. CASE adj.attr # None
  BY <1>2, NameAssumption DEF bgp_adj_out_unset, Goal, AdjOf
<1> QED
  BY <1>1, <1>2

\* An update is no mark.
LEMMA UpdateNames ==
    ASSUME NEW r, NEW q, NEW a \in Update(r, q)
    PROVE  a \in Attrs /\ a # None /\ a # Withdraw
<1>1. a \in Attrs
  BY DEF Update
<1>2. a \in [med : Nat, pref : Nat, aspath : Seq(Nat), via : Seq(Router)]
  BY <1>1, BoundAssumption DEF Attrs
<1> QED
  BY <1>1, <1>2, NameAssumption

\* What bgp_adj_out_set schedules is what the neighbour is to know.
LEMMA SetFacts ==
    ASSUME NEW r, NEW q, NEW adj \in AdjOf(r, q), NEW a \in Update(r, q),
           NEW next, next = bgp_adj_out_set(adj, a)
    PROVE  Goal(next) = a /\ next.attr = adj.attr /\ next.adv = a
<1>1. a # None /\ a # Withdraw
  BY UpdateNames
<1>2. next.attr = adj.attr /\ next.adv = a
  BY DEF bgp_adj_out_set, AdjOf
<1> QED
  BY <1>1, <1>2 DEF Goal

-----------------------------------------------------------------------------
(***************************************************************************)
(* A network of external sessions: every router is an AS of its own, has   *)
(* the out route-map and always compares MED.                              *)
(***************************************************************************)
External ==
    /\ RouteMap = Router /\ ComparesMed
    /\ \A r, q \in Router : AS[r] = AS[q] => r = q

\* Every neighbour is an external one, and is announced all routes but its own.
LEMMA ExternalSort ==
    ASSUME External, NEW r \in Router, NEW q \in Neighbours(r)
    PROVE  /\ peer_sort(r, q) = "EBGP" /\ q # Self
           /\ \A e : bgp_announce_check(r, q, e) <=> e.peer # q
<1>1. q \in Router /\ q # r /\ q # Self
  BY NeighbourFacts, RouterAssumption
<1>2. peer_sort(r, q) = "EBGP"
  BY <1>1 DEF External, peer_sort
<1> QED
  BY <1>1, <1>2 DEF bgp_announce_check

\* The decision process leaves the routes in use as they are, and announces what it
\* selects.
LEMMA ProcessKeeps ==
    ASSUME NetworkOK, External, NEW r \in Router, ChoiceOK(Routes(r), queued[r]),
           LeavesNone(r) \/ \E b : Lowest(r, b) /\ (Keeps(r, b) \/ Chooses(r, b))
    PROVE  LET R2 == ToSet(rib'[r])
           IN  /\ \A p : HeldOf(R2, p) = HeldOf(Routes(r), p)
               /\ ChoiceOK(R2, FALSE)
               /\ \A x \in R2 : \E e \in Routes(r) : x.peer = e.peer /\ x.attr = e.attr
               /\ \A q \in Neighbours(r) :
                     /\ adjOut'[r][q].attr = adjOut[r][q].attr
                     /\ \/ adjOut'[r][q].adv \in {adjOut[r][q].adv, None, Withdraw}
                        \/ \E e \in Routes(r) : adjOut'[r][q].adv = Outgoing(r, q, e)
                     /\ q \notin up[r] => adjOut'[r][q] = adjOut[r][q]
                     /\ q \in up[r] /\ AnnouncedOK(r, q, Routes(r), adjOut[r][q]) =>
                           AnnouncedOK(r, q, R2, adjOut'[r][q])
<1> DEFINE R == Routes(r)
           R2 == ToSet(rib'[r])
<1>1. RouteSet(r, R)
  BY RoutesFacts DEF RouteSet, NetworkOK
<1>2. \A q \in Neighbours(r) : adjOut[r][q] \in AdjOf(r, q)
  BY DEF NetworkOK, AdjOK
<1>3. CASE LeavesNone(r)
  <2>1. R2 = {} /\ \A e \in R : e.removed
    BY <1>3 DEF LeavesNone
  <2>2. \A p : HeldOf(R2, p) = HeldOf(R, p)
    BY <2>1 DEF HeldOf
  <2>3. ChoiceOK(R2, FALSE)
    BY <2>1 DEF ChoiceOK
  <2>4. ASSUME NEW q \in Neighbours(r)
        PROVE  /\ adjOut'[r][q].attr = adjOut[r][q].attr
               /\ adjOut'[r][q].adv \in {adjOut[r][q].adv, None, Withdraw}
               /\ q \notin up[r] => adjOut'[r][q] = adjOut[r][q]
               /\ q \in up[r] => AnnouncedOK(r, q, R2, adjOut'[r][q])
    <3>1. CASE q \in up[r]
      <4> DEFINE next == adjOut'[r][q]
      <4>1. next = bgp_adj_out_unset(adjOut[r][q])
        BY <1>3, <3>1 DEF LeavesNone
      <4> HIDE DEF next
      <4>2. Goal(next) = None /\ next.attr = adjOut[r][q].attr /\ next.adv \in {None, Withdraw}
        BY <1>2, <4>1, UnsetFacts
      <4>3. AnnouncedOK(r, q, R2, next)
        BY <2>1, <4>2 DEF AnnouncedOK
      <4> QED
        BY <3>1, <4>2, <4>3 DEF next
    <3>2. CASE q \notin up[r]
      BY <1>3, <3>2 DEF LeavesNone
    <3> QED
      BY <3>1, <3>2
  <2> HIDE DEF R, R2
  <2> QED
    BY <2>1, <2>2, <2>3, <2>4 DEF R, R2
<1>4. ASSUME NEW b, Lowest(r, b), Keeps(r, b)
      PROVE  /\ \A p : HeldOf(R2, p) = HeldOf(R, p)
             /\ ChoiceOK(R2, FALSE)
             /\ \A x \in R2 : x \in R
             /\ adjOut' = adjOut
             /\ \A q \in Neighbours(r) :
                   AnnouncedOK(r, q, R, adjOut[r][q]) => AnnouncedOK(r, q, R2, adjOut'[r][q])
  <2>1. /\ b \in R /\ ~b.removed /\ b.selected /\ ~b.changed /\ adjOut' = adjOut
        /\ R2 = {e \in R : ~e.removed} /\ b \in R2
        /\ \A e \in R2 : b.attr.med <= e.attr.med
    BY <1>4 DEF Lowest, Keeps
  <2>2. \A p : HeldOf(R2, p) = HeldOf(R, p)
    <3> SUFFICES ASSUME NEW p PROVE HeldOf(R2, p) = HeldOf(R, p)
      OBVIOUS
    <3>1. {f \in R2 : f.peer = p /\ ~f.removed} = {f \in R : f.peer = p /\ ~f.removed}
      BY <2>1
    <3> QED
      BY <3>1 DEF HeldOf
  <2>3. ChoiceOK(R2, FALSE)
    <3>1. \A e \in R2 : e.selected => e = b
      BY <2>1 DEF ChoiceOK, R
    <3> HIDE DEF R, R2
    <3> QED
      BY <2>1, <3>1 DEF ChoiceOK
  <2>4. ASSUME NEW q \in Neighbours(r), AnnouncedOK(r, q, R, adjOut[r][q])
        PROVE  AnnouncedOK(r, q, R2, adjOut'[r][q])
    <3> HIDE DEF R, R2
    <3> QED
      BY <2>1, <2>4 DEF AnnouncedOK
  <2> QED
    BY <2>1, <2>2, <2>3, <2>4
<1>5. ASSUME NEW b, Lowest(r, b), Chooses(r, b)
      PROVE  /\ \A p : HeldOf(R2, p) = HeldOf(R, p)
             /\ ChoiceOK(R2, FALSE)
             /\ \A x \in R2 : \E e \in R : x.peer = e.peer /\ x.attr = e.attr
             /\ \A q \in Neighbours(r) :
                     /\ adjOut'[r][q].attr = adjOut[r][q].attr
                     /\ \/ adjOut'[r][q].adv \in {adjOut[r][q].adv, None, Withdraw}
                        \/ \E e \in R : adjOut'[r][q].adv = Outgoing(r, q, e)
                     /\ q \notin up[r] => adjOut'[r][q] = adjOut[r][q]
                     /\ q \in up[r] => AnnouncedOK(r, q, R2, adjOut'[r][q])
  <2> DEFINE M(e) == Marked(e, b)
             L == {e \in R : ~e.removed}
  <2>1. /\ b \in R /\ ~b.removed /\ b \in L /\ b \in RouteOf(r)
        /\ \A e \in L : b.attr.med <= e.attr.med /\ e \in R
        /\ R2 = {M(e) : e \in L}
    BY <1>1, <1>5 DEF Lowest, Chooses, RouteSet
  <2>2. ASSUME NEW e \in L
        PROVE  /\ M(e) \in R2 /\ M(e).peer = e.peer /\ M(e).attr = e.attr /\ ~M(e).removed
               /\ M(e).selected <=> e = b
               /\ M(e).changed <=> e.changed /\ e # b
    <3>1. e \in RouteOf(r) /\ M(e) \in R2 /\ ~e.removed
      BY <1>1, <2>1 DEF RouteSet
    <3> DEFINE x == Marked(e, b)
    <3> HIDE DEF x
    <3>2. /\ x.peer = e.peer /\ x.attr = e.attr
          /\ x.removed <=> e.removed
          /\ x.selected <=> e = b
          /\ x.changed <=> e.changed /\ e # b
      BY <3>1, MarkedFacts DEF x
    <3> QED
      BY <3>1, <3>2 DEF x
  <2>3. \A x \in R2 : \E e \in L : x = M(e)
    BY <2>1
  <2>4. \A e \in R : ~e.removed <=> e \in L
    OBVIOUS
  <2> HIDE DEF M, L, R, R2
  <2>5. \A p : HeldOf(R2, p) = HeldOf(R, p)
    <3> SUFFICES ASSUME NEW p PROVE HeldOf(R2, p) = HeldOf(R, p)
      OBVIOUS
    <3>1. ASSUME NEW x \in HeldOf(R, p) PROVE x \in HeldOf(R2, p)
      <4>1. PICK e \in R : e.peer = p /\ ~e.removed /\ x = e.attr
        BY DEF HeldOf
      <4>2. e \in L
        BY <2>4, <4>1
      <4> QED
        BY <2>2, <4>1, <4>2 DEF HeldOf
    <3>2. ASSUME NEW x \in HeldOf(R2, p) PROVE x \in HeldOf(R, p)
      <4>1. PICK y \in R2 : y.peer = p /\ ~y.removed /\ x = y.attr
        BY DEF HeldOf
      <4>2. PICK e \in L : y = M(e)
        BY <2>3
      <4>3. e \in R /\ ~e.removed /\ e.peer = p /\ x = e.attr
        BY <2>1, <2>2, <2>4, <4>1, <4>2
      <4> QED
        BY <4>3 DEF HeldOf
    <3> QED
      BY <3>1, <3>2
  <2>6. /\ M(b) \in R2 /\ M(b).selected /\ ~M(b).changed
        /\ M(b).peer = b.peer /\ M(b).attr = b.attr
        /\ \A x \in R2 : x.selected => x = M(b)
    BY <2>1, <2>2, <2>3
  <2>7. \A x \in R2 : ~x.removed /\ M(b).attr.med <= x.attr.med
    BY <2>1, <2>2, <2>3, <2>6
  <2>8. ChoiceOK(R2, FALSE)
    BY <2>6, <2>7 DEF ChoiceOK
  <2>9. ASSUME NEW q \in Neighbours(r)
        PROVE  /\ adjOut'[r][q].attr = adjOut[r][q].attr
               /\ \/ adjOut'[r][q].adv \in {adjOut[r][q].adv, None, Withdraw}
                  \/ \E e \in R : adjOut'[r][q].adv = Outgoing(r, q, e)
               /\ q \notin up[r] => adjOut'[r][q] = adjOut[r][q]
               /\ q \in up[r] => AnnouncedOK(r, q, R2, adjOut'[r][q])
    <3> DEFINE next == adjOut'[r][q]
               out == Outgoing(r, q, b)
    <3>1. next = IF q \notin up[r] THEN adjOut[r][q]
                 ELSE IF b.peer # q THEN bgp_adj_out_set(adjOut[r][q], out)
                 ELSE bgp_adj_out_unset(adjOut[r][q])
      BY <1>5, ExternalSort DEF Chooses
    <3>2. out \in Update(r, q) /\ adjOut[r][q] \in AdjOf(r, q)
      BY <1>2, <2>1, OutgoingCharges
    <3>3. Due(r, q, M(b)) = IF b.peer # q THEN out ELSE None
      BY <2>6, DueSame DEF Due
    <3> HIDE DEF next, out
    <3>4. CASE q \notin up[r]
      BY <3>1, <3>4 DEF next
    <3>5. CASE q \in up[r] /\ b.peer # q
      <4>1. Goal(next) = out /\ next.attr = adjOut[r][q].attr /\ next.adv = out
        BY <3>1, <3>2, <3>5, SetFacts
      <4>2. AnnouncedOK(r, q, R2, next)
        BY <2>6, <3>3, <3>5, <4>1 DEF AnnouncedOK
      <4> QED
        BY <2>1, <3>5, <4>1, <4>2 DEF next, out
    <3>6. CASE q \in up[r] /\ b.peer = q
      <4>1. Goal(next) = None /\ next.attr = adjOut[r][q].attr /\ next.adv \in {None, Withdraw}
        BY <3>1, <3>2, <3>6, UnsetFacts
      <4>2. AnnouncedOK(r, q, R2, next)
        BY <2>6, <3>3, <3>6, <4>1 DEF AnnouncedOK
      <4> QED
        BY <3>6, <4>1, <4>2 DEF next
    <3> QED
      BY <3>4, <3>5, <3>6
  <2>10. \A x \in R2 : \E e \in R : x.peer = e.peer /\ x.attr = e.attr
    BY <2>1, <2>2, <2>3
  <2> QED
    BY <2>5, <2>8, <2>9, <2>10
<1> HIDE DEF R, R2
<1>6. CASE \E b : Lowest(r, b) /\ Keeps(r, b)
  BY <1>4, <1>6 DEF R, R2
<1>7. CASE \E b : Lowest(r, b) /\ Chooses(r, b)
  BY <1>5, <1>7 DEF R, R2
<1> QED
  BY <1>3, <1>6, <1>7

-----------------------------------------------------------------------------
(***************************************************************************)
(* The AS path tells the routers a route came through.                     *)
(***************************************************************************)
\* No router comes twice.
Simple(path) == \A i, j \in 1..Len(path) : path[i] = path[j] => i = j

\* The AS path has the AS of each router the route came through.
Traced(attr) ==
    /\ Len(attr.aspath) = Len(attr.via)
    /\ \A k \in 1..Len(attr.via) : attr.aspath[k] = AS[attr.via[k]]

\* Where route e of r came through: not through r, and last through its peer.
TracedRoute(r, e) ==
    /\ Traced(e.attr) /\ Simple(<<r>> \o e.attr.via)
    /\ IF e.peer = Self THEN e.attr.via = <<>>
       ELSE e.attr.via # <<>> /\ Head(e.attr.via) = e.peer

\* An update, or nothing.
TracedMsg(a) == a \in {None, Withdraw} \/ (Traced(a) /\ Simple(a.via))

\* What q makes of update a of r.
Charged(r, q, a) == [a EXCEPT !.med = (@ + Cost[<<r, q>>]) % MedRange]

\* A path goes on without a loop to a router it has not come through.
LEMMA SimplePrepend ==
    ASSUME NEW r \in Router, NEW via \in Seq(Router), Simple(via),
           \A k \in 1..Len(via) : via[k] # r
    PROVE  Simple(<<r>> \o via)
<1> DEFINE path == <<r>> \o via
           n == Len(via)
<1>1. /\ n \in Nat /\ Len(path) = n + 1 /\ path[1] = r
      /\ \A i \in 1..n : path[i + 1] = via[i]
  OBVIOUS
<1> HIDE DEF path, n
<1>2. \A i \in 2..(n + 1) : i - 1 \in 1..n /\ path[i] = via[i - 1]
  <2> SUFFICES ASSUME NEW i \in 2..(n + 1) PROVE i - 1 \in 1..n /\ path[i] = via[i - 1]
    OBVIOUS
  <2>1. i - 1 \in 1..n /\ (i - 1) + 1 = i
    BY <1>1
  <2> QED
    BY <1>1, <2>1
<1>3. \A i, j \in 1..n : via[i] = via[j] => i = j
  BY DEF Simple, n
<1>4. ASSUME NEW i \in 1..(n + 1), NEW j \in 1..(n + 1), path[i] = path[j] PROVE i = j
  <2>1. CASE i = 1 /\ j = 1
    BY <2>1
  <2>2. CASE i = 1 /\ j # 1
    <3>1. j \in 2..(n + 1)
      BY <1>1, <2>2
    <3> QED
      BY <1>1, <1>2, <1>4, <2>2, <3>1 DEF n
  <2>3. CASE i # 1 /\ j = 1
    <3>1. i \in 2..(n + 1)
      BY <1>1, <2>3
    <3> QED
      BY <1>1, <1>2, <1>4, <2>3, <3>1 DEF n
  <2>4. CASE i # 1 /\ j # 1
    <3>1. i \in 2..(n + 1) /\ j \in 2..(n + 1)
      BY <1>1, <2>4
    <3>2. i - 1 = j - 1
      BY <1>2, <1>3, <1>4, <3>1
    <3> QED
      BY <3>1, <3>2
  <2> QED
    BY <2>1, <2>2, <2>3, <2>4
<1> QED
  BY <1>1, <1>4 DEF Simple, path

\* The attributes that bgp_update compares tell everything.
LEMMA SameEqual ==
    ASSUME External, NEW a \in Attrs, NEW b \in Attrs, Traced(a), Traced(b), Same(a, b)
    PROVE  a = b
<1>1. a.med = b.med /\ a.pref = b.pref /\ a.aspath = b.aspath
  BY DEF Same
<1>2. a.via \in Seq(Router) /\ b.via \in Seq(Router) /\ Len(a.via) = Len(b.via)
  BY <1>1 DEF Attrs, Traced
<1>3. ASSUME NEW k \in 1..Len(a.via) PROVE a.via[k] = b.via[k]
  <2>1. AS[a.via[k]] = AS[b.via[k]]
    BY <1>1, <1>2 DEF Traced
  <2>2. a.via[k] \in Router /\ b.via[k] \in Router
    BY <1>2
  <2> QED
    BY <2>1, <2>2 DEF External
<1>4. a.via = b.via
  <2> DEFINE s == a.via
             t == b.via
  <2>1. s \in Seq(Router) /\ t \in Seq(Router) /\ Len(s) = Len(t) /\ \A k \in 1..Len(s) : s[k] = t[k]
    BY <1>2, <1>3
  <2> HIDE DEF s, t
  <2>2. s = t
    BY <2>1
  <2> QED
    BY <2>2 DEF s, t
<1>5. /\ a = [med |-> a.med, pref |-> a.pref, aspath |-> a.aspath, via |-> a.via]
      /\ b = [med |-> b.med, pref |-> b.pref, aspath |-> b.aspath, via |-> b.via]
  BY DEF Attrs
<1> QED
  BY <1>1, <1>4, <1>5

\* What a router announces is traced.
LEMMA OutgoingTraced ==
    ASSUME External, NEW r \in Router, NEW q \in Neighbours(r), NEW e \in RouteOf(r),
           TracedRoute(r, e)
    PROVE  TracedMsg(Outgoing(r, q, e))
<1> DEFINE a == Outgoing(r, q, e)
           via == e.attr.via
           aspath == e.attr.aspath
<1>1. a.via = <<r>> \o via /\ a.aspath = <<AS[r]>> \o aspath
  BY ExternalSort DEF Outgoing
<1>2. via \in Seq(Router) /\ aspath \in Seq(Nat) /\ AS[r] \in Nat
  BY CostAssumption DEF RouteOf, Attrs
<1>3. /\ Len(aspath) = Len(via) /\ Len(via) \in Nat /\ Simple(<<r>> \o via)
      /\ \A k \in 1..Len(via) : aspath[k] = AS[via[k]]
  BY <1>2 DEF TracedRoute, Traced
<1> DEFINE x == <<r>> \o via
           y == <<AS[r]>> \o aspath
<1>4. /\ Len(x) = Len(via) + 1 /\ x[1] = r /\ \A k \in 1..Len(via) : x[k + 1] = via[k]
      /\ Len(y) = Len(via) + 1 /\ y[1] = AS[r] /\ \A k \in 1..Len(via) : y[k + 1] = aspath[k]
  BY <1>2, <1>3
<1> HIDE DEF x, y, via, aspath, a
<1>5. ASSUME NEW k \in 1..Len(x) PROVE y[k] = AS[x[k]]
  <2>1. CASE k = 1
    BY <1>4, <2>1
  <2>2. CASE k # 1
    <3> DEFINE j == k - 1
    <3>1. j \in 1..Len(via) /\ j + 1 = k
      BY <1>3, <1>4, <2>2
    <3> HIDE DEF j
    <3>2. x[j + 1] = via[j] /\ y[j + 1] = aspath[j] /\ aspath[j] = AS[via[j]]
      BY <1>3, <1>4, <3>1
    <3> QED
      BY <3>1, <3>2
  <2> QED
    BY <2>1, <2>2
<1>6. a.via = x /\ a.aspath = y /\ Simple(x)
  BY <1>1, <1>3 DEF x, y
<1>7. Traced(a) /\ Simple(a.via)
  BY <1>4, <1>5, <1>6 DEF Traced
<1> QED
  BY <1>7 DEF TracedMsg, a

\* What a router makes of an update it reads.
LEMMA ParseIs ==
    ASSUME RouteMap = Router, NEW r \in Router, NEW q \in Neighbours(r), NEW known,
           Known(r, q, known), NEW msg \in Update(q, r), NEW a,
           a = bgp_attr_parse(known, msg).attr
    PROVE  /\ a = Charged(q, r, msg) /\ a.via = msg.via /\ a.aspath = msg.aspath
           /\ aspath_loop_check(r, a) <=> aspath_loop_check(r, msg)
<1>1. msg.pref = Cost[<<q, r>>] /\ known \in {0, Cost[<<q, r>>]} /\ msg \in Attrs
  BY DEF Update, Known
<1>2. a = [msg EXCEPT !.med = (@ + (IF known = 0 THEN msg.pref ELSE known)) % MedRange]
  BY DEF bgp_attr_parse
<1>3. a = Charged(q, r, msg)
  <2>1. (IF known = 0 THEN msg.pref ELSE known) = Cost[<<q, r>>]
    BY <1>1
  <2> QED
    BY <1>2, <2>1 DEF Charged
<1>4. a.via = msg.via /\ a.aspath = msg.aspath
  BY <1>1, <1>3 DEF Charged, Attrs
<1> QED
  BY <1>3, <1>4 DEF aspath_loop_check

\* A route that is accepted has not come through the router.
LEMMA AcceptTraced ==
    ASSUME NEW r \in Router, NEW q \in Router, q # Self, NEW a \in Attrs,
           Traced(a), Simple(a.via), a.via # <<>>, Head(a.via) = q, ~aspath_loop_check(r, a)
    PROVE  \A e : e.peer = q /\ e.attr = a => TracedRoute(r, e)
<1>1. a.via \in Seq(Router) /\ a.aspath \in Seq(Nat)
  BY DEF Attrs
<1>2. ASSUME NEW k \in 1..Len(a.via) PROVE a.via[k] # r
  <2>1. a.aspath[k] = AS[a.via[k]] /\ k \in DOMAIN a.aspath
    BY <1>1 DEF Traced
  <2> QED
    BY <2>1 DEF aspath_loop_check
<1>3. Simple(<<r>> \o a.via)
  BY <1>1, <1>2, SimplePrepend
<1> QED
  BY <1>3 DEF TracedRoute

-----------------------------------------------------------------------------
(***************************************************************************)
(* The inductive invariant: neighbours agree.  What a router has selected, *)
(* what it has scheduled, what is on the wire and what the neighbour has   *)
(* are related step by step, so that nothing is left to differ when        *)
(* nothing waits.                                                          *)
(***************************************************************************)
RoutesTraced == \A r \in Router : \A e \in Routes(r) : TracedRoute(r, e)

\* Every router by itself.
Selections == \A r \in Router : ChoiceOK(Routes(r), queued[r])

\* What is scheduled and on the wire is traced.
OutTraced ==
    \A r \in Router : \A q \in Neighbours(r) :
        /\ TracedMsg(adjOut[r][q].attr) /\ TracedMsg(adjOut[r][q].adv)
        /\ \A i \in 1..Len(wire[r][q]) : TracedMsg(wire[r][q][i])

\* Each end of a session by itself: while it is up the selected route is scheduled or
\* sent; when it is down nothing is left of it.
Sides ==
    \A r \in Router : \A q \in Neighbours(r) :
        IF q \in up[r] THEN AnnouncedOK(r, q, Routes(r), adjOut[r][q])
        ELSE adjOut[r][q] = NoAdj /\ HeldOf(Routes(r), q) = {}

\* What q holds of r when a is the last update it read.
Accepted(r, q, a) == IF a = None \/ aspath_loop_check(q, a) THEN {} ELSE {Charged(r, q, a)}

\* The last update r sent, a, is the last one on the wire w or what q holds.
DeliveredOK(r, q, w, a, held) ==
    IF w = <<>> THEN held = Accepted(r, q, a)
    ELSE w[Len(w)] = IF a = None THEN Withdraw ELSE a

\* The two ends of a session.
Agreed ==
    \A r \in Router : \A q \in Neighbours(r) :
        q \in up[r] /\ r \in up[q] =>
            DeliveredOK(r, q, wire[r][q], adjOut[r][q].attr, HeldOf(Routes(q), r))

\* The invariant.
Consistent == RoutesTraced /\ Selections /\ OutTraced /\ Sides /\ Agreed

\* Where a route came through is told by its peer and its attributes.
LEMMA TracedSame ==
    ASSUME NEW r, NEW d, NEW e, d.peer = e.peer, d.attr = e.attr, TracedRoute(r, e)
    PROVE  TracedRoute(r, d)
BY DEF TracedRoute

\* In one step the list of r changed in the route of q only, which is now held.
Changed(r, q, held) ==
    /\ \A t \in Router \ {r} : rib'[t] = rib[t]
    /\ HeldOf(ToSet(rib'[r]), q) = held
    /\ \A p : p # q => HeldOf(ToSet(rib'[r]), p) = HeldOf(Routes(r), p)
    /\ \A p, adj : AnnouncedOK(r, p, Routes(r), adj) => AnnouncedOK(r, p, ToSet(rib'[r]), adj)

\* bgp_rib_remove leaves no route of q and the others as they were.
LEMMA RemoveTable ==
    ASSUME NetworkOK, RoutesTraced, Selections, NEW r \in Router, NEW q, bgp_rib_remove(r, q)
    PROVE  RoutesTraced' /\ Selections' /\ Changed(r, q, {})
<1> DEFINE R == Routes(r)
           R2 == ToSet(rib'[r])
<1>1. /\ \A t \in Router \ {r} : rib'[t] = rib[t] /\ queued'[t] = queued[t]
      /\ R2 = {Dropped(e, q) : e \in R}
      /\ ~queued'[r] => ~queued[r] /\ \A e \in R : e.peer = q => e.removed
  BY RemoveRoutes DEF NetworkOK
<1>2. queued[r] \in BOOLEAN /\ queued'[r] \in BOOLEAN
  BY RemoveStep DEF NetworkOK, SessionOK
<1>3. RouteSet(r, R)
  BY RoutesFacts DEF RouteSet, NetworkOK
<1>4. ChoiceOK(R, queued[r])
  BY DEF Selections
<1> DEFINE busy == queued[r]
           busy2 == queued'[r]
<1> HIDE DEF R, R2, busy, busy2
<1>5. /\ HeldOf(R2, q) = {} /\ \A p : p # q => HeldOf(R2, p) = HeldOf(R, p)
      /\ ChoiceOK(R2, busy2)
      /\ \A p, adj : AnnouncedOK(r, p, R, adj) => AnnouncedOK(r, p, R2, adj)
  <2>1. /\ ~busy2 => ~busy /\ \A e \in R : e.peer = q => e.removed
        /\ busy \in BOOLEAN /\ busy2 \in BOOLEAN /\ ChoiceOK(R, busy)
    BY <1>1, <1>2, <1>4 DEF busy, busy2
  <2>2. DropSet(R, q, R2)
    BY <1>1 DEF DropSet
  <2> QED
    BY <1>3, <2>1, <2>2, DropKeeps
<1>6. Changed(r, q, {})
  BY <1>1, <1>5 DEF Changed, R, R2
<1>7. Selections'
  <2>1. ASSUME NEW t \in Router PROVE ChoiceOK(ToSet(rib'[t]), queued'[t])
    <3>1. CASE t = r
      BY <1>5, <3>1 DEF R2, busy2
    <3>2. CASE t # r
      BY <1>1, <3>2 DEF Selections, Routes
    <3> QED
      BY <3>1, <3>2
  <2> QED
    BY <2>1 DEF Selections, Routes
<1>8. RoutesTraced'
  <2>1. ASSUME NEW x \in R2 PROVE TracedRoute(r, x)
    <3>1. PICK e \in R : x = Dropped(e, q)
      BY <1>1
    <3>2. e \in RouteOf(r) /\ TracedRoute(r, e)
      BY <1>3 DEF RouteSet, RoutesTraced, R
    <3>3. x.peer = e.peer /\ x.attr = e.attr
      BY <3>1, <3>2, DroppedFacts
    <3> QED
      BY <3>2, <3>3, TracedSame
  <2>2. ASSUME NEW t \in Router, NEW x \in ToSet(rib'[t]) PROVE TracedRoute(t, x)
    <3>1. CASE t = r
      BY <2>1, <2>2, <3>1 DEF R2
    <3>2. CASE t # r
      BY <1>1, <2>2, <3>2 DEF RoutesTraced, Routes
    <3> QED
      BY <3>1, <3>2
  <2> QED
    BY <2>2 DEF RoutesTraced, Routes
<1> QED
  BY <1>6, <1>7, <1>8

\* Store leaves the new route of q and the others as they were.
LEMMA StoreTable ==
    ASSUME NetworkOK, External, RoutesTraced, Selections, NEW r \in Router,
           NEW q, NEW attr \in Attrs, Store(r, q, attr), queued' \in [Router -> BOOLEAN],
           \A e : e.peer = q /\ e.attr = attr => TracedRoute(r, e),
           \A e \in Routes(r) :
              queued[r] /\ e.peer = q /\ ~e.removed /\ Same(e.attr, attr) => ~e.changed
    PROVE  RoutesTraced' /\ Selections' /\ Changed(r, q, {attr})
<1> DEFINE R == Routes(r)
           R2 == ToSet(rib'[r])
           new == NewRoute(q, attr)
<1>1. /\ \A t \in Router \ {r} : rib'[t] = rib[t] /\ queued'[t] = queued[t]
      /\ (\A e \in R : e.peer # q) => R2 = R \cup {new}
      /\ (\E e \in R : e.peer = q) => R2 = {Stored(e, q, attr) : e \in R}
      /\ ~queued'[r] => /\ ~queued[r]
                        /\ \E e \in R : e.peer = q /\ ~e.removed /\ Same(e.attr, attr)
  BY StoreRoutes DEF NetworkOK
<1>2. queued[r] \in BOOLEAN /\ queued'[r] \in BOOLEAN
  BY DEF NetworkOK, SessionOK
<1>3. RouteSet(r, R)
  BY RoutesFacts DEF RouteSet, NetworkOK
<1>4. ChoiceOK(R, queued[r]) /\ \A e \in R : TracedRoute(r, e)
  BY DEF Selections, RoutesTraced
<1>5. new.peer = q /\ new.attr = attr /\ TracedRoute(r, new)
  BY DEF NewRoute
<1>6. Traced(attr)
  BY <1>5 DEF TracedRoute
<1>7. \A e \in R : e.peer = q /\ Same(e.attr, attr) => e.attr = attr
  <2> SUFFICES ASSUME NEW e \in R, Same(e.attr, attr) PROVE e.attr = attr
    OBVIOUS
  <2>1. e.attr \in Attrs /\ Traced(e.attr)
    BY <1>3, <1>4 DEF RouteSet, RouteOf, TracedRoute
  <2> QED
    BY <1>6, <2>1, SameEqual
<1>8. StoreSet(R, q, attr, R2)
  BY <1>1 DEF StoreSet
<1> DEFINE busy == queued[r]
           busy2 == queued'[r]
<1>9. /\ ~busy2 => ~busy /\ \E e \in R : e.peer = q /\ ~e.removed /\ Same(e.attr, attr)
      /\ busy \in BOOLEAN /\ busy2 \in BOOLEAN /\ ChoiceOK(R, busy)
      /\ \A e \in R : busy /\ e.peer = q /\ ~e.removed /\ Same(e.attr, attr) => ~e.changed
  BY <1>1, <1>2, <1>4
<1> HIDE DEF R, R2, busy, busy2
<1>10. /\ HeldOf(R2, q) = {attr} /\ \A p : p # q => HeldOf(R2, p) = HeldOf(R, p)
       /\ ChoiceOK(R2, busy2)
       /\ \A p, adj : AnnouncedOK(r, p, R, adj) => AnnouncedOK(r, p, R2, adj)
  BY <1>3, <1>7, <1>8, <1>9, StoreKeeps
<1>11. Changed(r, q, {attr})
  BY <1>1, <1>10 DEF Changed, R, R2
<1>12. Selections'
  <2>1. ASSUME NEW t \in Router PROVE ChoiceOK(ToSet(rib'[t]), queued'[t])
    <3>1. CASE t = r
      BY <1>10, <3>1 DEF R2, busy2
    <3>2. CASE t # r
      BY <1>1, <3>2 DEF Selections, Routes
    <3> QED
      BY <3>1, <3>2
  <2> QED
    BY <2>1 DEF Selections, Routes
<1>13. RoutesTraced'
  <2>1. ASSUME NEW x \in R2 PROVE TracedRoute(r, x)
    <3>1. CASE x \in R \/ x = new
      BY <1>4, <1>5, <3>1
    <3>2. CASE \E e \in R : x = Stored(e, q, attr)
      <4>1. PICK e \in R : x = Stored(e, q, attr)
        BY <3>2
      <4>2. e \in RouteOf(r) /\ TracedRoute(r, e)
        BY <1>3, <1>4 DEF RouteSet
      <4>3. x.peer = e.peer /\ (x.attr = e.attr \/ (e.peer = q /\ x.attr = attr))
        BY <4>1, <4>2, StoredFacts
      <4> QED
        BY <4>2, <4>3, TracedSame
    <3> QED
      BY <1>1, <2>1, <3>1, <3>2
  <2>2. ASSUME NEW t \in Router, NEW x \in ToSet(rib'[t]) PROVE TracedRoute(t, x)
    <3>1. CASE t = r
      BY <2>1, <2>2, <3>1 DEF R2
    <3>2. CASE t # r
      BY <1>1, <2>2, <3>2 DEF RoutesTraced, Routes
    <3> QED
      BY <3>1, <3>2
  <2> QED
    BY <2>2 DEF RoutesTraced, Routes
<1> QED
  BY <1>11, <1>12, <1>13

-----------------------------------------------------------------------------
(***************************************************************************)
(* The steps.                                                              *)
(***************************************************************************)
\* The decision process of a router keeps the neighbours in agreement.
LEMMA ProcessConsistent ==
    ASSUME NetworkOK, External, Consistent, NEW r \in Router, bgp_process_main(r)
    PROVE  Consistent'
<1> DEFINE R == Routes(r)
           R2 == ToSet(rib'[r])
<1>1. /\ \A t \in Router \ {r} : /\ rib'[t] = rib[t] /\ queued'[t] = queued[t]
                                 /\ adjOut'[t] = adjOut[t]
      /\ ~queued'[r]
      /\ LeavesNone(r) \/ \E b : Lowest(r, b) /\ (Keeps(r, b) \/ Chooses(r, b))
  BY ProcessRoutes DEF External
<1>2. wire' = wire /\ up' = up
  BY DEF bgp_process_main
<1>3. ChoiceOK(R, queued[r]) /\ RouteSet(r, R)
  BY RoutesFacts DEF Consistent, Selections, RouteSet, NetworkOK
<1>4. /\ \A p : HeldOf(R2, p) = HeldOf(R, p)
      /\ ChoiceOK(R2, FALSE)
      /\ \A x \in R2 : \E e \in R : x.peer = e.peer /\ x.attr = e.attr
      /\ \A q \in Neighbours(r) :
            /\ adjOut'[r][q].attr = adjOut[r][q].attr
            /\ \/ adjOut'[r][q].adv \in {adjOut[r][q].adv, None, Withdraw}
               \/ \E e \in R : adjOut'[r][q].adv = Outgoing(r, q, e)
            /\ q \notin up[r] => adjOut'[r][q] = adjOut[r][q]
            /\ q \in up[r] /\ AnnouncedOK(r, q, R, adjOut[r][q]) =>
                  AnnouncedOK(r, q, R2, adjOut'[r][q])
  BY <1>1, <1>3, ProcessKeeps
<1>5. queued'[r] = FALSE
  BY <1>1, ProcessStep DEF NetworkOK, SessionOK
<1> HIDE DEF R, R2
<1>6. RoutesTraced'
  <2>1. ASSUME NEW t \in Router, NEW x \in ToSet(rib'[t]) PROVE TracedRoute(t, x)
    <3>1. CASE t = r
      <4>1. PICK e \in R : x.peer = e.peer /\ x.attr = e.attr
        BY <1>4, <2>1, <3>1 DEF R2
      <4>2. TracedRoute(r, e)
        BY DEF Consistent, RoutesTraced, R
      <4> QED
        BY <3>1, <4>1, <4>2, TracedSame
    <3>2. CASE t # r
      BY <1>1, <2>1, <3>2 DEF Consistent, RoutesTraced, Routes
    <3> QED
      BY <3>1, <3>2
  <2> QED
    BY <2>1 DEF RoutesTraced, Routes
<1>7. Selections'
  <2>1. ASSUME NEW t \in Router PROVE ChoiceOK(ToSet(rib'[t]), queued'[t])
    <3>1. CASE t = r
      BY <1>4, <1>5, <3>1 DEF R2
    <3>2. CASE t # r
      BY <1>1, <3>2 DEF Consistent, Selections, Routes
    <3> QED
      BY <3>1, <3>2
  <2> QED
    BY <2>1 DEF Selections, Routes
<1>8. OutTraced'
  <2>1. ASSUME NEW t \in Router, NEW q \in Neighbours(t)
        PROVE  TracedMsg(adjOut'[t][q].attr) /\ TracedMsg(adjOut'[t][q].adv)
    <3>0. TracedMsg(adjOut[t][q].attr) /\ TracedMsg(adjOut[t][q].adv)
      BY DEF Consistent, OutTraced
    <3>1. CASE t = r
      <4>1. ASSUME NEW e \in R, adjOut'[r][q].adv = Outgoing(r, q, e)
            PROVE  TracedMsg(adjOut'[r][q].adv)
        <5>1. e \in RouteOf(r) /\ TracedRoute(r, e)
          BY <1>3 DEF RouteSet, Consistent, RoutesTraced, R
        <5> QED
          BY <3>1, <4>1, <5>1, OutgoingTraced
      <4>2. TracedMsg(None) /\ TracedMsg(Withdraw)
        BY DEF TracedMsg
      <4> QED
        BY <1>4, <3>0, <3>1, <4>1, <4>2
    <3>2. CASE t # r
      BY <1>1, <3>0, <3>2
    <3> QED
      BY <3>1, <3>2
  <2> QED
    BY <1>2, <2>1 DEF Consistent, OutTraced
<1>9. Sides'
  <2>1. ASSUME NEW t \in Router, NEW q \in Neighbours(t)
        PROVE  IF q \in up[t] THEN AnnouncedOK(t, q, ToSet(rib'[t]), adjOut'[t][q])
               ELSE adjOut'[t][q] = NoAdj /\ HeldOf(ToSet(rib'[t]), q) = {}
    <3>0. IF q \in up[t] THEN AnnouncedOK(t, q, Routes(t), adjOut[t][q])
          ELSE adjOut[t][q] = NoAdj /\ HeldOf(Routes(t), q) = {}
      BY DEF Consistent, Sides
    <3>1. CASE t = r
      BY <1>4, <3>0, <3>1 DEF R, R2
    <3>2. CASE t # r
      BY <1>1, <3>0, <3>2 DEF Routes
    <3> QED
      BY <3>1, <3>2
  <2> QED
    BY <1>2, <2>1 DEF Sides, Routes
<1>10. Agreed'
  <2>1. ASSUME NEW t \in Router, NEW q \in Neighbours(t)
        PROVE  /\ adjOut'[t][q].attr = adjOut[t][q].attr
               /\ HeldOf(ToSet(rib'[q]), t) = HeldOf(Routes(q), t)
    <3>1. q \in Router
      BY NeighbourFacts
    <3>2. adjOut'[t][q].attr = adjOut[t][q].attr
      BY <1>1, <1>4
    <3>3. HeldOf(ToSet(rib'[q]), t) = HeldOf(Routes(q), t)
      <4>1. CASE q = r
        BY <1>4, <4>1 DEF R, R2
      <4>2. CASE q # r
        BY <1>1, <3>1, <4>2 DEF Routes
      <4> QED
        BY <4>1, <4>2
    <3> QED
      BY <3>2, <3>3
  <2> QED
    BY <1>2, <2>1 DEF Consistent, Agreed, Routes
<1> QED
  BY <1>6, <1>7, <1>8, <1>9, <1>10 DEF Consistent

\* An update that is written is the last one on the wire.
LEMMA WriteConsistent ==
    ASSUME NetworkOK, Consistent, NEW r \in Router, NEW q \in Neighbours(r), bgp_write(r, q)
    PROVE  Consistent'
<1> DEFINE adv == adjOut[r][q].adv
           written == IF adv = Withdraw THEN NoAdj ELSE [attr |-> adv, adv |-> None]
           sent == Append(wire[r][q], adv)
<1>1. /\ wire' = [wire EXCEPT ![r][q] = sent]
      /\ adjOut' = [adjOut EXCEPT ![r][q] = written]
      /\ adv # None /\ UNCHANGED <<rib, queued, up>> /\ q \in up[r]
  BY DEF bgp_write
<1>2. /\ adjOut[r][q] \in AdjOf(r, q) /\ wire[r][q] \in Seq(Update(r, q) \cup {Withdraw})
      /\ DOMAIN adjOut = Router /\ DOMAIN adjOut[r] = Neighbours(r)
      /\ DOMAIN wire = Router /\ DOMAIN wire[r] = Neighbours(r)
  BY DEF NetworkOK, AdjOK, WireOK
<1>3. adv \in Update(r, q) \cup {Withdraw}
  BY <1>1, <1>2 DEF AdjOf
<1>4. TracedMsg(adv) /\ TracedMsg(None)
  BY DEF Consistent, OutTraced, TracedMsg
<1>5. /\ Goal(written) = Goal(adjOut[r][q]) /\ TracedMsg(written.attr) /\ TracedMsg(written.adv)
      /\ adv = IF written.attr = None THEN Withdraw ELSE written.attr
  <2>1. CASE adv = Withdraw
    BY <1>1, <1>4, <2>1 DEF Goal, NoAdj
  <2>2. CASE adv # Withdraw
    BY <1>1, <1>4, <2>2 DEF Goal
  <2> QED
    BY <2>1, <2>2
<1>6. /\ sent # <<>> /\ sent[Len(sent)] = adv
      /\ \A i \in 1..Len(sent) : TracedMsg(sent[i])
  <2>1. \A i \in 1..Len(wire[r][q]) : TracedMsg(wire[r][q][i])
    BY DEF Consistent, OutTraced
  <2> DEFINE w == wire[r][q]
             S == Update(r, q) \cup {Withdraw}
  <2>2. w \in Seq(S) /\ adv \in S
    BY <1>2, <1>3
  <2> HIDE DEF w, S, adv
  <2>3. /\ Len(Append(w, adv)) = Len(w) + 1 /\ Len(w) \in Nat /\ Append(w, adv) # <<>>
        /\ Append(w, adv)[Len(w) + 1] = adv /\ \A i \in 1..Len(w) : Append(w, adv)[i] = w[i]
    BY <2>2
  <2>4. \A i \in 1..(Len(w) + 1) : i \in 1..Len(w) \/ i = Len(w) + 1
    BY <2>3
  <2> QED
    BY <1>4, <2>1, <2>3, <2>4 DEF w
<1> HIDE DEF adv, written, sent
<1>7. /\ adjOut'[r][q] = written /\ wire'[r][q] = sent
      /\ \A t \in Router, u \in Router :
            <<t, u>> # <<r, q>> => adjOut'[t][u] = adjOut[t][u] /\ wire'[t][u] = wire[t][u]
  BY <1>1, <1>2
<1>8. \A t \in Router : Neighbours(t) \subseteq Router
  BY DEF Neighbours
<1>9. OutTraced'
  <2>1. ASSUME NEW t \in Router, NEW u \in Neighbours(t)
        PROVE  /\ TracedMsg(adjOut'[t][u].attr) /\ TracedMsg(adjOut'[t][u].adv)
               /\ \A i \in 1..Len(wire'[t][u]) : TracedMsg(wire'[t][u][i])
    <3>1. CASE <<t, u>> = <<r, q>>
      BY <1>5, <1>6, <1>7, <3>1
    <3>2. CASE <<t, u>> # <<r, q>>
      BY <1>7, <1>8, <3>2 DEF Consistent, OutTraced
    <3> QED
      BY <3>1, <3>2
  <2> QED
    BY <2>1 DEF OutTraced
<1>10. Sides'
  <2>1. ASSUME NEW t \in Router, NEW u \in Neighbours(t)
        PROVE  IF u \in up[t] THEN AnnouncedOK(t, u, Routes(t), adjOut'[t][u])
               ELSE adjOut'[t][u] = NoAdj /\ HeldOf(Routes(t), u) = {}
    <3>0. IF u \in up[t] THEN AnnouncedOK(t, u, Routes(t), adjOut[t][u])
          ELSE adjOut[t][u] = NoAdj /\ HeldOf(Routes(t), u) = {}
      BY DEF Consistent, Sides
    <3>1. CASE <<t, u>> = <<r, q>>
      BY <1>1, <1>5, <1>7, <3>0, <3>1 DEF AnnouncedOK
    <3>2. CASE <<t, u>> # <<r, q>>
      BY <1>7, <1>8, <3>0, <3>2
    <3> QED
      BY <3>1, <3>2
  <2> QED
    BY <1>1, <2>1 DEF Sides, Routes
<1>11. Agreed'
  <2>1. ASSUME NEW t \in Router, NEW u \in Neighbours(t), u \in up[t] /\ t \in up[u]
        PROVE  DeliveredOK(t, u, wire'[t][u], adjOut'[t][u].attr, HeldOf(Routes(u), t))
    <3>1. CASE <<t, u>> = <<r, q>>
      <4>1. wire'[t][u] # <<>> /\ wire'[t][u][Len(wire'[t][u])] = adv /\ adjOut'[t][u] = written
        BY <1>6, <1>7, <3>1
      <4> QED
        BY <1>5, <4>1 DEF DeliveredOK
    <3>2. CASE <<t, u>> # <<r, q>>
      BY <1>7, <1>8, <2>1, <3>2 DEF Consistent, Agreed
    <3> QED
      BY <3>1, <3>2
  <2> QED
    BY <1>1, <2>1 DEF Agreed, Routes
<1> QED
  BY <1>1, <1>9, <1>10, <1>11 DEF Consistent, RoutesTraced, Selections, Routes

\* A changed list is still announced, and a closed session has no route in it.
LEMMA TableSides ==
    ASSUME Sides, NEW r \in Router, NEW q, NEW held, Changed(r, q, held),
           up' = up, adjOut' = adjOut, q \in up[r] \/ q \notin Neighbours(r) \/ held = {}
    PROVE  Sides'
<1> SUFFICES ASSUME NEW t \in Router, NEW u \in Neighbours(t)
             PROVE  IF u \in up[t] THEN AnnouncedOK(t, u, ToSet(rib'[t]), adjOut[t][u])
                    ELSE adjOut[t][u] = NoAdj /\ HeldOf(ToSet(rib'[t]), u) = {}
  BY DEF Sides, Routes
<1>1. IF u \in up[t] THEN AnnouncedOK(t, u, Routes(t), adjOut[t][u])
      ELSE adjOut[t][u] = NoAdj /\ HeldOf(Routes(t), u) = {}
  BY DEF Sides
<1>2. CASE t = r
  BY <1>1, <1>2 DEF Changed
<1>3. CASE t # r
  BY <1>1, <1>3 DEF Changed, Routes
<1> QED
  BY <1>2, <1>3

\* The last update of a connection stays the last until it is read.
LEMMA LastOfTail ==
    ASSUME NEW S, NEW w \in Seq(S), w # <<>>
    PROVE  /\ Head(w) = w[1] /\ Tail(w) \in Seq(S) /\ 1 \in 1..Len(w) /\ Head(w) \in S
           /\ Tail(w) = <<>> => w[Len(w)] = Head(w)
           /\ Tail(w) # <<>> => Tail(w)[Len(Tail(w))] = w[Len(w)]
           /\ \A i \in 1..Len(Tail(w)) : i + 1 \in 1..Len(w) /\ Tail(w)[i] = w[i + 1]
<1>1. /\ Len(w) \in Nat /\ Len(w) >= 1 /\ Head(w) = w[1] /\ Tail(w) \in Seq(S)
      /\ Len(Tail(w)) = Len(w) - 1 /\ Head(w) \in S
      /\ \A i \in 1..(Len(w) - 1) : Tail(w)[i] = w[i + 1]
  OBVIOUS
<1>2. Tail(w) = <<>> => Len(w) = 1
  <2>1. Len(<<>>) = 0
    OBVIOUS
  <2>2. Tail(w) = <<>> => Len(Tail(w)) = 0
    BY <2>1
  <2>3. Len(Tail(w)) = 0 => Len(w) = 1
    <3> DEFINE n == Len(w)
               m == Len(Tail(w))
    <3>1. n \in Nat /\ m = n - 1
      BY <1>1
    <3> HIDE DEF n, m
    <3>2. m = 0 => n = 1
      BY <3>1
    <3> QED
      BY <3>2 DEF n, m
  <2> QED
    BY <2>2, <2>3
<1>3. Tail(w) # <<>> => Len(w) - 1 \in 1..(Len(w) - 1) /\ (Len(w) - 1) + 1 = Len(w)
  BY <1>1
<1>4. \A i \in 1..(Len(w) - 1) : i + 1 \in 1..Len(w)
  BY <1>1
<1> QED
  BY <1>1, <1>2, <1>3, <1>4

\* What r reads of q becomes what it holds.
LEMMA ReadTable ==
    ASSUME NetworkOK, External, Consistent, NEW r \in Router, NEW q \in Neighbours(r),
           bgp_update_receive(r, q), NEW msg, msg = Head(wire[q][r])
    PROVE  /\ RoutesTraced' /\ Selections'
           /\ Changed(r, q, Accepted(q, r, IF msg = Withdraw THEN None ELSE msg))
<1> DEFINE parsed == bgp_attr_parse(localMed[r][q], msg)
           a == parsed.attr
<1>1. /\ q \in up[r] /\ wire[q][r] # <<>> /\ Processed(r, q)
      /\ IF msg = Withdraw THEN bgp_rib_remove(r, q)
         ELSE IF aspath_loop_check(r, a) THEN bgp_rib_remove(r, q) ELSE Store(r, q, a)
  BY DEF bgp_update_receive
<1>2. q \in Router /\ r \in Neighbours(q) /\ q # Self
  BY NeighbourFacts, ExternalSort
<1>3. wire[q][r] \in Seq(Update(q, r) \cup {Withdraw}) /\ Known(r, q, localMed[r][q])
  BY <1>2 DEF NetworkOK, WireOK, MedOK
<1>4. msg \in Update(q, r) \cup {Withdraw} /\ TracedMsg(msg)
  <2> DEFINE w == wire[q][r]
             S == Update(q, r) \cup {Withdraw}
  <2>1. w \in Seq(S) /\ w # <<>> /\ msg = Head(w) /\ \A i \in 1..Len(w) : TracedMsg(w[i])
    BY <1>1, <1>2, <1>3 DEF Consistent, OutTraced
  <2> HIDE DEF w, S
  <2>2. Head(w) \in S /\ TracedMsg(Head(w))
    BY <2>1, LastOfTail
  <2> QED
    BY <2>1, <2>2 DEF S
<1>5. CASE msg = Withdraw
  <2>1. RoutesTraced' /\ Selections' /\ Changed(r, q, {})
    BY <1>1, <1>5, RemoveTable DEF Consistent
  <2> QED
    BY <1>5, <2>1 DEF Accepted
<1>6. CASE msg # Withdraw
  <2>1. msg \in Update(q, r) /\ msg # None /\ Traced(msg) /\ Simple(msg.via)
    BY <1>4, <1>6, UpdateNames DEF TracedMsg
  <2>2. /\ a = Charged(q, r, msg) /\ a.via = msg.via /\ a.aspath = msg.aspath
        /\ aspath_loop_check(r, a) <=> aspath_loop_check(r, msg)
    BY <1>3, <2>1, ParseIs DEF External
  <2>3. a \in Attrs /\ Costs(a, <<r>> \o a.via)
    BY <1>3, <2>1, ParseCharges
  <2> HIDE DEF parsed, a
  <2>4. CASE aspath_loop_check(r, a)
    <3>1. RoutesTraced' /\ Selections' /\ Changed(r, q, {})
      BY <1>1, <1>6, <2>4, RemoveTable DEF Consistent
    <3> QED
      BY <1>6, <2>2, <2>4, <3>1 DEF Accepted
  <2>5. CASE ~aspath_loop_check(r, a)
    <3>1. Store(r, q, a)
      BY <1>1, <1>6, <2>5
    <3>2. queued' \in [Router -> BOOLEAN]
      BY <2>3, <3>1, StoreStep DEF NetworkOK
    <3>3. \A e : e.peer = q /\ e.attr = a => TracedRoute(r, e)
      <4>1. msg.via # <<>> /\ Head(msg.via) = q
        BY <2>1 DEF Update, Costs, IsPath
      <4>2. Traced(a) /\ Simple(a.via) /\ a.via # <<>> /\ Head(a.via) = q
        BY <2>1, <2>2, <4>1 DEF Traced
      <4> QED
        BY <1>2, <2>3, <2>5, <4>2, AcceptTraced
    <3>4. \A e \in Routes(r) : queued[r] /\ e.peer = q => ~e.changed
      <4>1. Routes(r) = {rib[r][i] : i \in 1..Len(rib[r])} /\ DOMAIN rib[r] = 1..Len(rib[r])
        BY RoutesFacts, ListedRoutes DEF NetworkOK
      <4> QED
        BY <1>1, <4>1 DEF Processed, Entry
    <3>5. RoutesTraced' /\ Selections' /\ Changed(r, q, {a})
      BY <2>3, <3>1, <3>2, <3>3, <3>4, StoreTable DEF Consistent
    <3> QED
      BY <1>6, <2>1, <2>2, <2>5, <3>5 DEF Accepted
  <2> QED
    BY <2>4, <2>5
<1> QED
  BY <1>5, <1>6

\* Reading an update keeps the neighbours in agreement.
LEMMA ReceiveConsistent ==
    ASSUME NetworkOK, External, Consistent, NEW r \in Router, NEW q \in Neighbours(r),
           bgp_update_receive(r, q)
    PROVE  Consistent'
<1> DEFINE msg == Head(wire[q][r])
           told == IF msg = Withdraw THEN None ELSE msg
           w == wire[q][r]
           S == Update(q, r) \cup {Withdraw}
<1>1. RoutesTraced' /\ Selections' /\ Changed(r, q, Accepted(q, r, told))
  BY ReadTable
<1>2. /\ wire' = [wire EXCEPT ![q][r] = Tail(@)] /\ up' = up /\ adjOut' = adjOut
      /\ q \in up[r] /\ w # <<>>
  BY DEF bgp_update_receive
<1>3. q \in Router /\ r \in Neighbours(q)
  BY NeighbourFacts
<1>4. /\ w \in Seq(S) /\ DOMAIN wire = Router /\ DOMAIN wire[q] = Neighbours(q)
      /\ \A i \in 1..Len(w) : TracedMsg(w[i])
  BY <1>3 DEF NetworkOK, WireOK, Consistent, OutTraced
<1>5. /\ wire'[q][r] = Tail(w)
      /\ \A t \in Router, u \in Router : <<t, u>> # <<q, r>> => wire'[t][u] = wire[t][u]
  BY <1>2, <1>3, <1>4
<1>6. \A t \in Router : Neighbours(t) \subseteq Router
  BY DEF Neighbours
<1>7. Sides'
  BY <1>1, <1>2, TableSides DEF Consistent
<1> HIDE DEF w, S, msg, told
<1>8. /\ Tail(w) = <<>> => w[Len(w)] = msg
      /\ Tail(w) # <<>> => Tail(w)[Len(Tail(w))] = w[Len(w)]
      /\ \A i \in 1..Len(Tail(w)) : TracedMsg(Tail(w)[i])
  <2>1. /\ Tail(w) = <<>> => w[Len(w)] = Head(w)
        /\ Tail(w) # <<>> => Tail(w)[Len(Tail(w))] = w[Len(w)]
        /\ \A i \in 1..Len(Tail(w)) : i + 1 \in 1..Len(w) /\ Tail(w)[i] = w[i + 1]
    BY <1>2, <1>4, LastOfTail
  <2>2. Head(w) = msg
    BY DEF w, msg
  <2> QED
    BY <1>4, <2>1, <2>2
<1>9. OutTraced'
  <2>1. ASSUME NEW t \in Router, NEW u \in Neighbours(t)
        PROVE  \A i \in 1..Len(wire'[t][u]) : TracedMsg(wire'[t][u][i])
    <3>1. CASE <<t, u>> = <<q, r>>
      BY <1>5, <1>8, <3>1
    <3>2. CASE <<t, u>> # <<q, r>>
      BY <1>5, <1>6, <3>2 DEF Consistent, OutTraced
    <3> QED
      BY <3>1, <3>2
  <2> QED
    BY <1>2, <2>1 DEF Consistent, OutTraced
<1>10. Agreed'
  <2>1. ASSUME NEW t \in Router, NEW u \in Neighbours(t), u \in up[t] /\ t \in up[u]
        PROVE  DeliveredOK(t, u, wire'[t][u], adjOut[t][u].attr, HeldOf(ToSet(rib'[u]), t))
    <3> DEFINE a == adjOut[t][u].attr
    <3>0. DeliveredOK(t, u, wire[t][u], a, HeldOf(Routes(u), t)) /\ u \in Router
      BY <1>6, <2>1 DEF Consistent, Agreed
    <3>1. CASE <<t, u>> = <<q, r>>
      <4>1. t = q /\ u = r
        BY <3>1
      <4>2. w[Len(w)] = (IF a = None THEN Withdraw ELSE a) /\ wire'[t][u] = Tail(w)
        BY <1>2, <1>5, <3>0, <4>1 DEF DeliveredOK, w
      <4>3. CASE Tail(w) # <<>>
        BY <1>8, <4>2, <4>3 DEF DeliveredOK
      <4>4. CASE Tail(w) = <<>>
        <5>1. msg = IF a = None THEN Withdraw ELSE a
          BY <1>8, <4>2, <4>4
        <5>2. a = None \/ a # Withdraw
          <6>1. adjOut[t][u] \in AdjOf(t, u)
            BY DEF NetworkOK, AdjOK
          <6>2. a \in Update(t, u) \cup {None}
            BY <6>1 DEF AdjOf
          <6> QED
            BY <6>2, UpdateNames
        <5>3. told = a
          BY <5>1, <5>2 DEF told
        <5>4. HeldOf(ToSet(rib'[u]), t) = Accepted(t, u, a)
          BY <1>1, <4>1, <5>3 DEF Changed
        <5> QED
          BY <4>2, <4>4, <5>4 DEF DeliveredOK
      <4> QED
        BY <4>3, <4>4
    <3>2. CASE <<t, u>> # <<q, r>>
      <4>1. wire'[t][u] = wire[t][u]
        BY <1>5, <3>0, <3>2
      <4>2. HeldOf(ToSet(rib'[u]), t) = HeldOf(Routes(u), t)
        <5>1. CASE u = r
          BY <1>1, <3>2, <5>1 DEF Changed
        <5>2. CASE u # r
          BY <1>1, <3>0, <5>2 DEF Changed, Routes
        <5> QED
          BY <5>1, <5>2
      <4> QED
        BY <3>0, <4>1, <4>2
    <3> QED
      BY <3>1, <3>2
  <2> QED
    BY <1>2, <2>1 DEF Agreed, Routes
<1> QED
  BY <1>1, <1>7, <1>9, <1>10 DEF Consistent

\* The network command.
LEMMA StaticConsistent ==
    ASSUME NetworkOK, External, Consistent, NEW r \in Router,
           bgp_static_update(r) \/ bgp_static_withdraw(r)
    PROVE  Consistent'
<1>1. wire' = wire /\ up' = up /\ adjOut' = adjOut
  BY DEF bgp_static_update, bgp_static_withdraw
<1>2. \E held : RoutesTraced' /\ Selections' /\ Changed(r, Self, held)
  <2>1. CASE bgp_static_withdraw(r)
    <3>1. bgp_rib_remove(r, Self)
      BY <2>1 DEF bgp_static_withdraw
    <3> QED
      BY <3>1, RemoveTable DEF Consistent
  <2>2. CASE bgp_static_update(r)
    <3> DEFINE attr == [med |-> Base[r] % MedRange, pref |-> DefaultLocalPref, aspath |-> <<>>,
                        via |-> <<>>]
    <3>1. r \in Origins /\ Store(r, Self, attr) /\ Live(r, Self) = {}
      BY <2>2 DEF bgp_static_update
    <3>2. attr \in Attrs
      <4>1. Base[r] \in Nat
        BY <3>1, CostAssumption
      <4>2. Base[r] % MedRange \in 0..(MedRange - 1)
        BY <4>1, BoundAssumption, SMTT(30)
      <4> QED
        BY <4>2 DEF Attrs, DefaultLocalPref
    <3>3. queued' \in [Router -> BOOLEAN]
      BY <3>1 DEF Store, NetworkOK, SessionOK
    <3>4. \A e : e.peer = Self /\ e.attr = attr => TracedRoute(r, e)
      <4>1. attr.via = <<>> /\ attr.aspath = <<>>
        OBVIOUS
      <4>2. Traced(attr)
        BY <4>1 DEF Traced
      <4>3. Simple(<<r>> \o attr.via)
        <5> DEFINE none == <<>>
        <5>1. none \in Seq(Router) /\ Len(none) = 0
          OBVIOUS
        <5> HIDE DEF none
        <5>2. Simple(<<r>> \o none)
          BY <5>1, SimplePrepend DEF Simple
        <5> QED
          BY <4>1, <5>2 DEF none
      <4> HIDE DEF attr
      <4> QED
        BY <4>1, <4>2, <4>3 DEF TracedRoute
    <3>5. \A e \in Routes(r) : e.peer = Self => e.removed
      <4>1. Routes(r) = {rib[r][i] : i \in 1..Len(rib[r])} /\ DOMAIN rib[r] = 1..Len(rib[r])
        BY RoutesFacts, ListedRoutes DEF NetworkOK
      <4> QED
        BY <3>1, <4>1 DEF Live, Entry
    <3> HIDE DEF attr
    <3>6. RoutesTraced' /\ Selections' /\ Changed(r, Self, {attr})
      BY <3>1, <3>2, <3>3, <3>4, <3>5, StoreTable DEF Consistent
    <3> QED
      BY <3>6
  <2> QED
    BY <2>1, <2>2
<1>3. PICK held : RoutesTraced' /\ Selections' /\ Changed(r, Self, held)
  BY <1>2
<1>4. \A t \in Router : Neighbours(t) \subseteq Router
  BY DEF Neighbours
<1>5. Self \notin Neighbours(r)
  BY <1>4, RouterAssumption
<1>6. Sides'
  BY <1>1, <1>3, <1>5, TableSides DEF Consistent
<1>7. OutTraced'
  BY <1>1 DEF Consistent, OutTraced
<1>8. Agreed'
  <2>1. ASSUME NEW t \in Router, NEW u \in Neighbours(t)
        PROVE  HeldOf(ToSet(rib'[u]), t) = HeldOf(Routes(u), t)
    <3>1. u \in Router /\ t # Self
      BY <1>4, RouterAssumption
    <3>2. CASE u = r
      BY <1>3, <3>1, <3>2 DEF Changed
    <3>3. CASE u # r
      BY <1>3, <3>1, <3>3 DEF Changed, Routes
    <3> QED
      BY <3>2, <3>3
  <2> QED
    BY <1>1, <2>1 DEF Consistent, Agreed, Routes
<1> QED
  BY <1>3, <1>6, <1>7, <1>8 DEF Consistent

\* A session that stops leaves nothing on its side.
LEMMA StopConsistent ==
    ASSUME NetworkOK, External, Consistent, NEW r \in Router, NEW q \in Neighbours(r), Stop(r, q)
    PROVE  Consistent'
<1>1. /\ up' = [up EXCEPT ![r] = @ \ {q}] /\ bgp_rib_remove(r, q)
      /\ adjOut' = [adjOut EXCEPT ![r][q] = NoAdj] /\ wire' = [wire EXCEPT ![q][r] = <<>>]
  BY DEF Stop
<1>2. RoutesTraced' /\ Selections' /\ Changed(r, q, {})
  BY <1>1, RemoveTable DEF Consistent
<1>3. q \in Router /\ r \in Neighbours(q) /\ \A t \in Router : Neighbours(t) \subseteq Router
  BY NeighbourFacts DEF Neighbours
<1>4. /\ DOMAIN up = Router /\ DOMAIN adjOut = Router /\ DOMAIN adjOut[r] = Neighbours(r)
      /\ DOMAIN wire = Router /\ DOMAIN wire[q] = Neighbours(q)
  BY <1>3 DEF NetworkOK, AdjOK, WireOK, SessionOK
<1>5. /\ adjOut'[r][q] = NoAdj /\ wire'[q][r] = <<>> /\ up'[r] = up[r] \ {q}
      /\ \A t \in Router \ {r} : up'[t] = up[t]
      /\ \A t \in Router, u \in Router : <<t, u>> # <<r, q>> => adjOut'[t][u] = adjOut[t][u]
      /\ \A t \in Router, u \in Router : <<t, u>> # <<q, r>> => wire'[t][u] = wire[t][u]
  BY <1>1, <1>3, <1>4
<1>6. Sides'
  <2>1. ASSUME NEW t \in Router, NEW u \in Neighbours(t)
        PROVE  IF u \in up'[t] THEN AnnouncedOK(t, u, ToSet(rib'[t]), adjOut'[t][u])
               ELSE adjOut'[t][u] = NoAdj /\ HeldOf(ToSet(rib'[t]), u) = {}
    <3>0. IF u \in up[t] THEN AnnouncedOK(t, u, Routes(t), adjOut[t][u])
          ELSE adjOut[t][u] = NoAdj /\ HeldOf(Routes(t), u) = {}
      BY DEF Consistent, Sides
    <3>1. CASE t = r /\ u = q
      BY <1>2, <1>5, <3>1 DEF Changed
    <3>2. CASE t = r /\ u # q
      <4>1. adjOut'[t][u] = adjOut[t][u] /\ (u \in up'[t] <=> u \in up[t])
        BY <1>3, <1>5, <3>2
      <4> QED
        BY <1>2, <3>0, <3>2, <4>1 DEF Changed
    <3>3. CASE t # r
      <4>1. adjOut'[t][u] = adjOut[t][u] /\ up'[t] = up[t] /\ rib'[t] = rib[t]
        BY <1>2, <1>3, <1>5, <3>3 DEF Changed
      <4> QED
        BY <3>0, <4>1 DEF Routes
    <3> QED
      BY <3>1, <3>2, <3>3
  <2> QED
    BY <2>1 DEF Sides, Routes
<1>7. OutTraced'
  <2>1. ASSUME NEW t \in Router, NEW u \in Neighbours(t)
        PROVE  /\ TracedMsg(adjOut'[t][u].attr) /\ TracedMsg(adjOut'[t][u].adv)
               /\ \A i \in 1..Len(wire'[t][u]) : TracedMsg(wire'[t][u][i])
    <3>0. /\ TracedMsg(adjOut[t][u].attr) /\ TracedMsg(adjOut[t][u].adv)
          /\ \A i \in 1..Len(wire[t][u]) : TracedMsg(wire[t][u][i])
      BY DEF Consistent, OutTraced
    <3>1. TracedMsg(adjOut'[t][u].attr) /\ TracedMsg(adjOut'[t][u].adv)
      <4>1. CASE <<t, u>> = <<r, q>>
        BY <1>5, <4>1 DEF NoAdj, TracedMsg
      <4>2. CASE <<t, u>> # <<r, q>>
        BY <1>3, <1>5, <3>0, <4>2
      <4> QED
        BY <4>1, <4>2
    <3>2. \A i \in 1..Len(wire'[t][u]) : TracedMsg(wire'[t][u][i])
      <4>1. CASE <<t, u>> = <<q, r>>
        <5>1. Len(wire'[t][u]) = 0
          BY <1>5, <4>1
        <5> QED
          BY <5>1
      <4>2. CASE <<t, u>> # <<q, r>>
        BY <1>3, <1>5, <3>0, <4>2
      <4> QED
        BY <4>1, <4>2
    <3> QED
      BY <3>1, <3>2
  <2> QED
    BY <2>1 DEF OutTraced
<1>8. Agreed'
  <2>1. ASSUME NEW t \in Router, NEW u \in Neighbours(t), u \in up'[t], t \in up'[u]
        PROVE  DeliveredOK(t, u, wire'[t][u], adjOut'[t][u].attr, HeldOf(ToSet(rib'[u]), t))
    <3>1. <<t, u>> # <<r, q>> /\ <<t, u>> # <<q, r>> /\ u \in Router
      BY <1>3, <1>5, <2>1
    <3>2. u \in up[t] /\ t \in up[u]
      BY <1>5, <2>1, <3>1
    <3>3. wire'[t][u] = wire[t][u] /\ adjOut'[t][u] = adjOut[t][u]
      BY <1>5, <3>1
    <3>4. HeldOf(ToSet(rib'[u]), t) = HeldOf(Routes(u), t)
      <4>1. CASE u = r
        BY <1>2, <3>1, <4>1 DEF Changed
      <4>2. CASE u # r
        BY <1>2, <3>1, <4>2 DEF Changed, Routes
      <4> QED
        BY <4>1, <4>2
    <3> QED
      BY <3>2, <3>3, <3>4 DEF Consistent, Agreed
  <2> QED
    BY <2>1 DEF Agreed, Routes
<1> QED
  BY <1>2, <1>6, <1>7, <1>8 DEF Consistent

\* What one end of a new session starts with: the selected route is scheduled.
LEMMA TableAnnounced ==
    ASSUME NetworkOK, External, Consistent, NEW r \in Router, NEW q \in Neighbours(r),
           q \notin up[r], NEW adj, adj = bgp_announce_table(r, q)
    PROVE  /\ AnnouncedOK(r, q, Routes(r), adj) /\ adj.attr = None
           /\ TracedMsg(adj.attr) /\ TracedMsg(adj.adv)
<1> DEFINE R == Routes(r)
<1>1. /\ adjOut[r][q] = NoAdj /\ adjOut[r][q] \in AdjOf(r, q)
      /\ ChoiceOK(R, queued[r]) /\ \A e \in R : TracedRoute(r, e) /\ e \in RouteOf(r)
  BY RoutesFacts DEF Consistent, Sides, Selections, RoutesTraced, NetworkOK, AdjOK
<1>2. /\ R = {rib[r][i] : i \in 1..Len(rib[r])} /\ DOMAIN rib[r] = 1..Len(rib[r])
      /\ Selected(r) = {i \in 1..Len(rib[r]) : rib[r][i].selected}
  BY RoutesFacts, ListedRoutes DEF NetworkOK, Selected
<1>3. \A e : bgp_announce_check(r, q, e) <=> e.peer # q
  BY ExternalSort
<1>4. CASE \E i \in Selected(r) : bgp_announce_check(r, q, rib[r][i])
  <2> DEFINE i == CHOOSE i \in Selected(r) : TRUE
             e == rib[r][i]
             out == Outgoing(r, q, e)
  <2>1. i \in Selected(r)
    BY <1>4
  <2>2. adj = bgp_adj_out_set(adjOut[r][q], out)
    BY <1>4 DEF bgp_announce_table
  <2> HIDE DEF i
  <2>3. e \in R /\ e.selected
    BY <1>2, <2>1
  <2>4. \A f \in R : f.selected => f = e
    BY <1>1, <2>3 DEF ChoiceOK
  <2>5. e.peer # q
    <3>1. PICK j \in Selected(r) : bgp_announce_check(r, q, rib[r][j])
      BY <1>4
    <3>2. rib[r][j] \in R /\ rib[r][j].selected /\ rib[r][j].peer # q
      BY <1>2, <1>3, <3>1
    <3> QED
      BY <2>4, <3>2
  <2>6. out \in Update(r, q) /\ TracedMsg(out)
    BY <1>1, <2>3, OutgoingCharges, OutgoingTraced
  <2> HIDE DEF out, e, R
  <2>7. Goal(adj) = out /\ adj.attr = adjOut[r][q].attr /\ adj.adv = out
    BY <1>1, <2>2, <2>6, SetFacts
  <2>8. adj.attr = None /\ TracedMsg(None)
    BY <1>1, <2>7 DEF NoAdj, TracedMsg
  <2>9. AnnouncedOK(r, q, R, adj)
    BY <2>3, <2>4, <2>5, <2>7 DEF AnnouncedOK, Due, out
  <2> QED
    BY <2>6, <2>7, <2>8, <2>9 DEF R
<1>5. CASE ~\E i \in Selected(r) : bgp_announce_check(r, q, rib[r][i])
  <2>1. adj = NoAdj
    BY <1>1, <1>5 DEF bgp_announce_table
  <2>2. Goal(adj) = None /\ adj.attr = None /\ adj.adv = None /\ TracedMsg(None)
    BY <2>1 DEF Goal, NoAdj, TracedMsg
  <2>3. \A e \in R : e.selected => e.peer = q
    BY <1>2, <1>3, <1>5
  <2> HIDE DEF R
  <2>4. AnnouncedOK(r, q, R, adj)
    BY <2>2, <2>3 DEF AnnouncedOK, Due
  <2> QED
    BY <2>2, <2>4 DEF R
<1> QED
  BY <1>4, <1>5

\* A session that starts is in agreement: nothing is held, and the table is scheduled.
LEMMA EstablishConsistent ==
    ASSUME NetworkOK, External, Consistent, NEW r \in Router, NEW q \in Neighbours(r),
           bgp_establish(r, q)
    PROVE  Consistent'
<1> DEFINE x == bgp_announce_table(r, q)
           y == bgp_announce_table(q, r)
           none == <<>>
<1>1. /\ q \notin up[r] /\ r \notin up[q] /\ rib' = rib /\ queued' = queued
      /\ up' = [up EXCEPT ![r] = @ \cup {q}, ![q] = @ \cup {r}]
      /\ wire' = Both(wire, r, q, none, none) /\ adjOut' = Both(adjOut, r, q, x, y)
  BY DEF bgp_establish, Both
<1>2. q \in Router /\ r \in Neighbours(q) /\ q # r /\ \A t \in Router : Neighbours(t) \subseteq Router
  BY NeighbourFacts DEF Neighbours
<1>3. /\ AnnouncedOK(r, q, Routes(r), x) /\ x.attr = None /\ TracedMsg(x.attr) /\ TracedMsg(x.adv)
      /\ AnnouncedOK(q, r, Routes(q), y) /\ y.attr = None /\ TracedMsg(y.attr) /\ TracedMsg(y.adv)
  BY <1>1, <1>2, TableAnnounced
<1>4. HeldOf(Routes(r), q) = {} /\ HeldOf(Routes(q), r) = {}
  BY <1>1, <1>2 DEF Consistent, Sides
<1>5. /\ DOMAIN adjOut = Router /\ \A t \in Router : DOMAIN adjOut[t] = Neighbours(t)
      /\ DOMAIN wire = Router /\ \A t \in Router : DOMAIN wire[t] = Neighbours(t)
      /\ DOMAIN up = Router
  BY DEF NetworkOK, AdjOK, WireOK, SessionOK
<1> HIDE DEF x, y, none
<1>6. /\ adjOut'[r][q] = x /\ adjOut'[q][r] = y
      /\ \A t \in Router, u \in Router :
            <<t, u>> # <<r, q>> /\ <<t, u>> # <<q, r>> => adjOut'[t][u] = adjOut[t][u]
  <2> DEFINE f == adjOut
             g == adjOut'
  <2>1. g = Both(f, r, q, x, y) /\ DOMAIN f = Router /\ \A t \in Router : DOMAIN f[t] = Neighbours(t)
    BY <1>1, <1>5
  <2> HIDE DEF f, g
  <2>2. /\ g[r][q] = x /\ g[q][r] = y
        /\ \A t \in Router, u \in Router :
              <<t, u>> # <<r, q>> /\ <<t, u>> # <<q, r>> => g[t][u] = f[t][u]
    BY <2>1, BothWays
  <2> QED
    BY <2>2 DEF f, g
<1>7. /\ wire'[r][q] = none /\ wire'[q][r] = none
      /\ \A t \in Router, u \in Router :
            <<t, u>> # <<r, q>> /\ <<t, u>> # <<q, r>> => wire'[t][u] = wire[t][u]
  <2> DEFINE f == wire
             g == wire'
  <2>1. g = Both(f, r, q, none, none) /\ DOMAIN f = Router /\ \A t \in Router : DOMAIN f[t] = Neighbours(t)
    BY <1>1, <1>5
  <2> HIDE DEF f, g
  <2>2. /\ g[r][q] = none /\ g[q][r] = none
        /\ \A t \in Router, u \in Router :
              <<t, u>> # <<r, q>> /\ <<t, u>> # <<q, r>> => g[t][u] = f[t][u]
    BY <2>1, BothWays
  <2> QED
    BY <2>2 DEF f, g
<1>8. /\ up'[r] = up[r] \cup {q} /\ up'[q] = up[q] \cup {r}
      /\ \A t \in Router : t # r /\ t # q => up'[t] = up[t]
  BY <1>1, <1>2, <1>5
<1>9. ASSUME NEW t \in Router, NEW u \in Neighbours(t), <<t, u>> # <<r, q>>, <<t, u>> # <<q, r>>
      PROVE  (u \in up'[t] <=> u \in up[t]) /\ (t \in up'[u] <=> t \in up[u]) /\ u \in Router
             /\ adjOut'[t][u] = adjOut[t][u] /\ wire'[t][u] = wire[t][u]
  <2>1. u \in Router
    BY <1>2
  <2>2. u \in up'[t] <=> u \in up[t]
    BY <1>8, <1>9
  <2>3. t \in up'[u] <=> t \in up[u]
    BY <1>8, <1>9, <2>1
  <2> QED
    BY <1>6, <1>7, <1>9, <2>1, <2>2, <2>3
<1>10. Sides'
  <2>1. ASSUME NEW t \in Router, NEW u \in Neighbours(t)
        PROVE  IF u \in up'[t] THEN AnnouncedOK(t, u, Routes(t), adjOut'[t][u])
               ELSE adjOut'[t][u] = NoAdj /\ HeldOf(Routes(t), u) = {}
    <3>1. CASE <<t, u>> = <<r, q>>
      BY <1>3, <1>6, <1>8, <3>1
    <3>2. CASE <<t, u>> = <<q, r>>
      BY <1>3, <1>6, <1>8, <3>2
    <3>3. CASE <<t, u>> # <<r, q>> /\ <<t, u>> # <<q, r>>
      BY <1>9, <3>3 DEF Consistent, Sides
    <3> QED
      BY <3>1, <3>2, <3>3
  <2> QED
    BY <1>1, <2>1 DEF Sides, Routes
<1>11. OutTraced'
  <2>1. ASSUME NEW t \in Router, NEW u \in Neighbours(t)
        PROVE  /\ TracedMsg(adjOut'[t][u].attr) /\ TracedMsg(adjOut'[t][u].adv)
               /\ \A i \in 1..Len(wire'[t][u]) : TracedMsg(wire'[t][u][i])
    <3>0. Len(none) = 0
      BY DEF none
    <3>1. CASE <<t, u>> = <<r, q>>
      BY <1>3, <1>6, <1>7, <3>0, <3>1
    <3>2. CASE <<t, u>> = <<q, r>>
      BY <1>3, <1>6, <1>7, <3>0, <3>2
    <3>3. CASE <<t, u>> # <<r, q>> /\ <<t, u>> # <<q, r>>
      BY <1>9, <3>3 DEF Consistent, OutTraced
    <3> QED
      BY <3>1, <3>2, <3>3
  <2> QED
    BY <2>1 DEF OutTraced
<1>12. Agreed'
  <2>1. ASSUME NEW t \in Router, NEW u \in Neighbours(t), u \in up'[t], t \in up'[u]
        PROVE  DeliveredOK(t, u, wire'[t][u], adjOut'[t][u].attr, HeldOf(Routes(u), t))
    <3>0. none = <<>>
      BY DEF none
    <3>1. CASE <<t, u>> = <<r, q>>
      <4>1. wire'[t][u] = none /\ adjOut'[t][u].attr = None /\ HeldOf(Routes(u), t) = {}
        BY <1>3, <1>4, <1>6, <1>7, <3>1
      <4> QED
        BY <3>0, <4>1 DEF DeliveredOK, Accepted
    <3>2. CASE <<t, u>> = <<q, r>>
      <4>1. wire'[t][u] = none /\ adjOut'[t][u].attr = None /\ HeldOf(Routes(u), t) = {}
        BY <1>3, <1>4, <1>6, <1>7, <3>2
      <4> QED
        BY <3>0, <4>1 DEF DeliveredOK, Accepted
    <3>3. CASE <<t, u>> # <<r, q>> /\ <<t, u>> # <<q, r>>
      BY <1>9, <2>1, <3>3 DEF Consistent, Agreed
    <3> QED
      BY <3>1, <3>2, <3>3
  <2> QED
    BY <1>1, <2>1 DEF Agreed, Routes
<1> QED
  BY <1>1, <1>10, <1>11, <1>12 DEF Consistent, RoutesTraced, Selections, Routes

\* Neighbours agree in every reachable state.
LEMMA ConsistentAlways ==
    ASSUME External
    PROVE  Init /\ [][Next]_vars => []Consistent
<1>1. Init => Consistent
  <2> SUFFICES ASSUME Init PROVE Consistent
    OBVIOUS
  <2>1. \A r \in Router : Routes(r) = {}
    BY NoElements DEF Init, Routes
  <2>2. \A r \in Router : up[r] = {} /\ \A q \in Neighbours(r) : adjOut[r][q] = NoAdj /\ wire[r][q] = <<>>
    BY DEF Init
  <2>3. RoutesTraced /\ Selections
    <3>1. RoutesTraced
      BY <2>1 DEF RoutesTraced
    <3>2. Selections
      BY <2>1 DEF Selections, ChoiceOK
    <3> QED
      BY <3>1, <3>2
  <2>4. OutTraced
    <3>1. NoAdj.attr = None /\ NoAdj.adv = None /\ TracedMsg(None) /\ Len(<<>>) = 0
      BY DEF NoAdj, TracedMsg
    <3> QED
      BY <2>2, <3>1 DEF OutTraced
  <2>5. Sides
    <3>1. \A r \in Router : \A q : HeldOf(Routes(r), q) = {}
      BY <2>1 DEF HeldOf
    <3> QED
      BY <2>2, <3>1 DEF Sides
  <2>6. Agreed
    BY <2>2 DEF Agreed
  <2> QED
    BY <2>3, <2>4, <2>5, <2>6 DEF Consistent
<1>2. NetworkOK /\ Consistent /\ [Next]_vars => Consistent'
  <2> SUFFICES ASSUME NetworkOK, Consistent, [Next]_vars PROVE Consistent'
    OBVIOUS
  <2>1. CASE Transport
    <3>1. PICK r \in Router : \E q \in Neighbours(r) :
             bgp_write(r, q) \/ bgp_update_receive(r, q) \/ Noticed(r, q) \/ bgp_establish(r, q)
      BY <2>1 DEF Transport
    <3>2. PICK q \in Neighbours(r) :
             bgp_write(r, q) \/ bgp_update_receive(r, q) \/ Noticed(r, q) \/ bgp_establish(r, q)
      BY <3>1
    <3>3. Noticed(r, q) => Stop(r, q)
      BY DEF Noticed
    <3> QED
      BY <3>2, <3>3, WriteConsistent, ReceiveConsistent, StopConsistent, EstablishConsistent
  <2>2. CASE \E r \in Router : bgp_process_main(r)
    BY <2>2, ProcessConsistent
  <2>3. CASE Disturbance
    <3>1. PICK r \in Router : \/ bgp_static_update(r) \/ bgp_static_withdraw(r)
                              \/ \E q \in Neighbours(r) : Lost(r, q)
      BY <2>3 DEF Disturbance
    <3>2. ASSUME NEW q \in Neighbours(r), Lost(r, q) PROVE Consistent'
      <4>1. Stop(r, q)
        BY <3>2 DEF Lost
      <4> QED
        BY <4>1, StopConsistent
    <3> QED
      BY <3>1, <3>2, StaticConsistent
  <2>4. CASE UNCHANGED vars
    BY <2>4 DEF vars, Consistent, RoutesTraced, Selections, OutTraced, Sides, Agreed, Routes
  <2> QED
    BY <2>1, <2>2, <2>3, <2>4 DEF Next
<1> QED
  BY <1>1, <1>2, NetworkAlways, PTL

-----------------------------------------------------------------------------
(***************************************************************************)
(* The settled network.  The routes of a router lead over the sessions to  *)
(* an origin, and no way to an origin costs less than what is selected.    *)
(***************************************************************************)
\* MED does not wrap around: it can hold the cost of every path without a loop.
NoWrap == \A path \in Seq(Router) : IsPath(path) /\ Simple(path) => CostOf(path) < MedRange

\* A way to a live origin over sessions that are up.
LivePath(path) ==
    /\ path \in Seq(Router) /\ path # <<>>
    /\ \A i \in 1..(Len(path) - 1) : path[i + 1] \in up[path[i]]
    /\ Live(path[Len(path)], Self) # {}

\* What is known of the network when nothing is waiting.
AtRest == NetworkOK /\ Consistent /\ Settled

\* In an external network the paths that may be taken are the live ones without a
\* loop.
LEMMA PathsAreSimple ==
    ASSUME External, NEW r \in Router, NEW path
    PROVE  path \in PathsTo(r) <=> LivePath(path) /\ Simple(path) /\ path[1] = r
<1> DEFINE N == Cardinality(Router)
           All == UNION {[1..n -> Router] : n \in 1..N}
           Into == \A i, j \in 1..Len(path) :
                      i < j /\ AS[path[i]] = AS[path[j]] => j = i + 1 /\ path[i] # path[j]
<1>1. N \in Nat /\ IsFiniteSet(Router)
  BY RouterAssumption, FS_CardinalityType
<1>2. ASSUME path \in Seq(Router) PROVE Into <=> Simple(path)
  <2>1. Len(path) \in Nat /\ \A i \in 1..Len(path) : path[i] \in Router
    BY <1>2
  <2>2. ASSUME Into, NEW i \in 1..Len(path), NEW j \in 1..Len(path), path[i] = path[j]
        PROVE  i = j
    <3>1. ~(i < j) /\ ~(j < i)
      BY <2>2
    <3> QED
      BY <2>1, <3>1
  <2>3. ASSUME Simple(path), NEW i \in 1..Len(path), NEW j \in 1..Len(path),
               i < j, AS[path[i]] = AS[path[j]]
        PROVE  FALSE
    <3>1. path[i] = path[j]
      BY <2>1, <2>3 DEF External
    <3>2. i = j
      BY <2>3, <3>1 DEF Simple
    <3> QED
      BY <2>1, <2>3, <3>2
  <2> QED
    BY <2>2, <2>3 DEF Simple
<1>3. ASSUME path \in All PROVE path \in Seq(Router) /\ path # <<>>
  <2>1. PICK n \in 1..N : path \in [1..n -> Router]
    BY <1>3
  <2>2. n \in Nat /\ n >= 1
    BY <1>1
  <2>3. path \in Seq(Router) /\ Len(path) = n
    BY <2>1, <2>2
  <2> QED
    BY <2>2, <2>3
<1>4. ASSUME path \in Seq(Router), path # <<>>, Simple(path) PROVE path \in All
  <2> DEFINE n == Len(path)
  <2>1. n \in Nat /\ n >= 1 /\ path \in [1..n -> Router]
    BY <1>4
  <2>2. \A i, j \in 1..n : path[i] = path[j] => i = j
    BY <1>4 DEF Simple
  <2> HIDE DEF n
  <2>3. IsFiniteSet(1..n) /\ Cardinality(1..n) = n
    BY <2>1, FS_Interval
  <2>4. ~(N < n)
    <3> SUFFICES ASSUME N < n PROVE FALSE
      OBVIOUS
    <3>1. \E x, y \in 1..n : x # y /\ path[x] = path[y]
      BY <1>1, <2>1, <2>3, FS_PigeonHole
    <3> QED
      BY <2>2, <3>1
  <2>5. n \in 1..N
    BY <1>1, <2>1, <2>4
  <2> QED
    BY <2>1, <2>5
<1> HIDE DEF All, Into
<1>5. path \in PathsTo(r) <=>
        /\ path \in All /\ path[1] = r
        /\ \A i \in 1..(Len(path) - 1) : path[i + 1] \in up[path[i]]
        /\ Into /\ Live(path[Len(path)], Self) # {}
  BY DEF PathsTo, All, Into, N
<1> QED
  BY <1>2, <1>3, <1>4, <1>5 DEF LivePath

\* A router that has nothing to process has selected its cheapest route.
LEMMA RestSelects ==
    ASSUME AtRest, NEW r \in Router, NEW e \in Routes(r)
    PROVE  /\ e \in RouteOf(r) /\ TracedRoute(r, e) /\ ~e.removed
           /\ e.selected => ~e.changed /\ \A f \in Routes(r) : f.selected => e = f
           /\ \E f \in Routes(r) : f.selected /\ f.attr.med <= e.attr.med
<1>1. ~queued[r] /\ ChoiceOK(Routes(r), queued[r])
  BY DEF AtRest, Settled, Consistent, Selections
<1>2. e \in RouteOf(r) /\ TracedRoute(r, e)
  BY RoutesFacts DEF AtRest, NetworkOK, Consistent, RoutesTraced
<1> QED
  BY <1>1, <1>2 DEF ChoiceOK

\* What a router holds of a neighbour is what the neighbour selected, unless it came
\* through the router.
LEMMA RestHolds ==
    ASSUME External, AtRest, NEW r \in Router, NEW q \in up[r]
    PROVE  /\ q \in Neighbours(r)
           /\ \A f \in Routes(q) : f.selected =>
                 HeldOf(Routes(r), q) = Accepted(q, r, Due(q, r, f))
           /\ (\A f \in Routes(q) : ~f.selected) => HeldOf(Routes(r), q) = {}
<1>1. q \in Neighbours(r) /\ q \in Router /\ r \in Neighbours(q)
  BY NeighbourFacts DEF AtRest, NetworkOK, SessionOK
<1> DEFINE adj == adjOut[q][r]
<1>2. r \in up[q] /\ adj.adv = None /\ wire[q][r] = <<>>
  BY <1>1 DEF AtRest, Settled
<1>3. HeldOf(Routes(r), q) = Accepted(q, r, adj.attr)
  BY <1>1, <1>2 DEF AtRest, Consistent, Agreed, DeliveredOK
<1>4. AnnouncedOK(q, r, Routes(q), adj)
  BY <1>1, <1>2 DEF AtRest, Consistent, Sides
<1>5. Goal(adj) = adj.attr
  BY <1>2 DEF Goal
<1> HIDE DEF adj
<1>6. ASSUME NEW f \in Routes(q), f.selected PROVE adj.attr = Due(q, r, f)
  BY <1>1, <1>4, <1>5, <1>6, RestSelects DEF AnnouncedOK
<1>7. ASSUME \A f \in Routes(q) : ~f.selected PROVE HeldOf(Routes(r), q) = {}
  BY <1>3, <1>4, <1>5, <1>7 DEF AnnouncedOK, Accepted
<1> QED
  BY <1>1, <1>3, <1>6, <1>7

\* A route of a router is the selected one of its peer and the link between them.
LEMMA RestFrom ==
    ASSUME External, AtRest, NEW r \in Router, NEW e \in Routes(r), e.peer # Self
    PROVE  /\ e.peer \in up[r] /\ e.peer \in Router /\ r \in Neighbours(e.peer)
           /\ \E f \in Routes(e.peer) : f.selected /\ e.attr.via = <<e.peer>> \o f.attr.via
<1> DEFINE q == e.peer
<1>1. e \in RouteOf(r) /\ ~e.removed
  BY RestSelects
<1>2. q \in Neighbours(r)
  BY <1>1 DEF RouteOf
<1>3. q \in Router /\ r \in Neighbours(q)
  BY <1>2, NeighbourFacts
<1>4. e.attr \in HeldOf(Routes(r), q)
  BY <1>1 DEF HeldOf
<1>5. q \in up[r]
  BY <1>2, <1>4 DEF AtRest, Consistent, Sides
<1>6. PICK f \in Routes(q) : f.selected
  BY <1>4, <1>5, RestHolds
<1> DEFINE a == Due(q, r, f)
<1>7. e.attr \in Accepted(q, r, a)
  BY <1>4, <1>5, <1>6, RestHolds
<1>8. a # None /\ e.attr = Charged(q, r, a)
  BY <1>7 DEF Accepted
<1>9. a = Outgoing(q, r, f)
  BY <1>8 DEF Due
<1>10. f \in RouteOf(q)
  BY <1>3, RestSelects
<1>11. a \in Attrs /\ a.via = <<q>> \o f.attr.via
  <2>1. Outgoing(q, r, f) \in Update(q, r)
    BY <1>3, <1>10, OutgoingCharges
  <2> QED
    BY <1>9, <2>1, UpdateNames DEF Outgoing
<1> HIDE DEF a
<1>12. e.attr.via = a.via
  BY <1>8, <1>11 DEF Charged, Attrs
<1> QED
  BY <1>3, <1>5, <1>6, <1>11, <1>12

\* A path with a link is that link and the rest of the path.
LEMMA PathTail ==
    ASSUME NEW path \in Seq(Router), Len(path) > 1, NEW rest, rest = Tail(path)
    PROVE  /\ rest \in Seq(Router) /\ rest # <<>> /\ Len(rest) = Len(path) - 1
           /\ Head(rest) = path[2] /\ rest[1] = path[2] /\ path[1] \in Router /\ path[2] \in Router
           /\ path = <<path[1]>> \o rest /\ rest[Len(rest)] = path[Len(path)]
           /\ \A i \in 1..(Len(rest) - 1) :
                 i + 1 \in 1..(Len(path) - 1) /\ rest[i] = path[i + 1] /\ rest[i + 1] = path[(i + 1) + 1]
<1> DEFINE n == Len(path)
           m == Len(rest)
<1>1. /\ n \in Nat /\ n > 1 /\ m = n - 1 /\ rest \in Seq(Router)
      /\ \A i \in 1..m : rest[i] = path[i + 1]
  OBVIOUS
<1>2. rest # <<>> /\ Head(rest) = rest[1]
  <2>1. m # 0
    BY <1>1
  <2>2. Len(<<>>) = 0
    OBVIOUS
  <2>3. rest # <<>>
    BY <2>1, <2>2
  <2> QED
    BY <1>1, <2>3
<1>3. path[1] \in Router /\ path[2] \in Router
  BY <1>1
<1> DEFINE joined == <<path[1]>> \o rest
<1>4. /\ joined \in Seq(Router) /\ Len(joined) = m + 1 /\ joined[1] = path[1]
      /\ \A i \in 1..m : joined[i + 1] = rest[i]
  BY <1>1, <1>3
<1>5. path = joined
  <2> HIDE DEF joined, n, m
  <2>1. Len(joined) = Len(path)
    BY <1>1, <1>4 DEF n
  <2>2. ASSUME NEW i \in 1..n PROVE path[i] = joined[i]
    <3>1. CASE i = 1
      BY <1>4, <3>1
    <3>2. CASE i # 1
      <4> DEFINE j == i - 1
      <4>1. j \in 1..m /\ j + 1 = i
        BY <1>1, <3>2
      <4> HIDE DEF j
      <4>2. rest[j] = path[j + 1] /\ joined[j + 1] = rest[j]
        BY <1>1, <1>4, <4>1
      <4> QED
        BY <4>1, <4>2
    <3> QED
      BY <3>1, <3>2
  <2> QED
    BY <1>4, <2>1, <2>2 DEF n
<1>6. 1 \in 1..m /\ 1 + 1 = 2 /\ m \in 1..m /\ m + 1 = n
  BY <1>1
<1>7. rest[1] = path[2] /\ rest[m] = path[n]
  BY <1>1, <1>6
<1>8. ASSUME NEW i \in 1..(m - 1)
      PROVE  i + 1 \in 1..(n - 1) /\ rest[i] = path[i + 1] /\ rest[i + 1] = path[(i + 1) + 1]
  <2>1. i + 1 \in 1..(n - 1) /\ i \in 1..m /\ i + 1 \in 1..m
    BY <1>1
  <2> QED
    BY <1>1, <2>1
<1> QED
  BY <1>1, <1>2, <1>3, <1>5, <1>7, <1>8

\* The rest of a path costs what is left without its first link.
LEMMA CostOfTail ==
    ASSUME NEW path, IsPath(path)
    PROVE  /\ CostOf(path) \in Nat
           /\ Len(path) > 1 => /\ IsPath(Tail(path)) /\ CostOf(Tail(path)) \in Nat
                               /\ path[1] \in Neighbours(path[2])
                               /\ CostOf(path) = CostOf(Tail(path)) + Cost[<<path[2], path[1]>>]
<1>1. path \in Seq(Router) /\ path # <<>> /\ Len(path) \in Nat /\ Len(path) >= 1
  BY DEF IsPath
<1>2. CASE Len(path) = 1
  <2>1. path = <<path[1]>> /\ path[1] \in Origins
    BY <1>1, <1>2 DEF IsPath
  <2>2. CostOf(<<path[1]>>) = Base[path[1]] /\ Base[path[1]] \in Nat
    BY <2>1, CostAtOrigin, CostAssumption
  <2> QED
    BY <1>2, <2>1, <2>2
<1>3. CASE Len(path) > 1
  <2> DEFINE rest == Tail(path)
  <2>1. /\ rest \in Seq(Router) /\ rest # <<>> /\ Head(rest) = path[2] /\ path[1] \in Router
        /\ path = <<path[1]>> \o rest /\ rest[Len(rest)] = path[Len(path)]
        /\ \A i \in 1..(Len(rest) - 1) :
              i + 1 \in 1..(Len(path) - 1) /\ rest[i] = path[i + 1] /\ rest[i + 1] = path[(i + 1) + 1]
    BY <1>1, <1>3, PathTail
  <2> HIDE DEF rest
  <2>2. IsPath(rest)
    BY <2>1 DEF IsPath
  <2>3. path[1] \in Neighbours(path[2])
    <3>1. 1 \in 1..(Len(path) - 1) /\ 1 + 1 = 2
      BY <1>1, <1>3
    <3>2. path[2] \in Neighbours(path[1])
      BY <3>1 DEF IsPath
    <3> QED
      BY <2>1, <3>2, NeighbourFacts
  <2>4. path[2] \in Router
    BY <1>1, <1>3
  <2>5. CostOf(rest) \in Nat /\ CostOf(path) = CostOf(rest) + Cost[<<path[2], path[1]>>]
    <3>1. path[1] \in Neighbours(Head(rest))
      BY <2>1, <2>3
    <3>2. /\ CostOf(rest) \in Nat
          /\ CostOf(<<path[1]>> \o rest) = CostOf(rest) + Cost[<<Head(rest), path[1]>>]
      BY <2>2, <3>1, CostOfHop
    <3> QED
      BY <2>1, <3>2
  <2>6. Cost[<<path[2], path[1]>>] \in Nat
    BY <2>3, <2>4, NeighbourFacts
  <2> QED
    BY <2>2, <2>3, <2>5, <2>6 DEF rest
<1>4. Len(path) = 1 \/ Len(path) > 1
  <2> DEFINE n == Len(path)
  <2>1. n \in Nat /\ n >= 1
    BY <1>1
  <2> HIDE DEF n
  <2>2. n = 1 \/ n > 1
    BY <2>1
  <2> QED
    BY <2>2 DEF n
<1> QED
  BY <1>2, <1>3, <1>4

\* The MED of a route is the cost of the path it came.
LEMMA RestCost ==
    ASSUME External, NoWrap, AtRest, NEW r \in Router, NEW e \in Routes(r)
    PROVE  LET path == <<r>> \o e.attr.via
           IN  /\ path \in Seq(Router) /\ path # <<>> /\ path[1] = r /\ IsPath(path) /\ Simple(path)
               /\ e.attr.med = CostOf(path) /\ CostOf(path) \in Nat /\ e.attr.med \in Nat
<1> DEFINE path == <<r>> \o e.attr.via
<1>1. e \in RouteOf(r) /\ TracedRoute(r, e)
  BY RestSelects
<1>2. e.attr.via \in Seq(Router) /\ IsPath(path) /\ e.attr.med = CostOf(path) % MedRange
  BY <1>1 DEF RouteOf, Attrs, Costs, External
<1>3. Simple(path) /\ path \in Seq(Router) /\ path # <<>> /\ path[1] = r
  BY <1>1, <1>2 DEF TracedRoute
<1>4. CostOf(path) \in Nat
  BY <1>2, CostOfTail
<1>5. CostOf(path) < MedRange
  BY <1>2, <1>3 DEF NoWrap
<1>6. CostOf(path) % MedRange = CostOf(path)
  <2> DEFINE c == CostOf(path)
  <2>1. c \in Nat /\ c < MedRange /\ MedRange \in Nat \ {0}
    BY <1>4, <1>5, BoundAssumption
  <2> HIDE DEF c
  <2>2. c % MedRange = c
    BY <2>1, SMTT(30)
  <2> QED
    BY <2>2 DEF c
<1> QED
  BY <1>2, <1>3, <1>4, <1>6

\* The way back is no cheaper: the peer's selected route costs no more than the route
\* it led to.
LEMMA RestCheaper ==
    ASSUME External, NoWrap, AtRest, NEW r \in Router, NEW e \in Routes(r), e.peer # Self
    PROVE  \E f \in Routes(e.peer) : /\ f.selected /\ e.attr.via = <<e.peer>> \o f.attr.via
                                     /\ f.attr.med <= e.attr.med
<1> DEFINE q == e.peer
           way == <<r>> \o e.attr.via
<1>1. q \in Router /\ r \in Neighbours(q)
  BY RestFrom
<1>2. PICK f \in Routes(q) : f.selected /\ e.attr.via = <<q>> \o f.attr.via
  BY RestFrom
<1> DEFINE path == <<q>> \o f.attr.via
<1>3. /\ path \in Seq(Router) /\ path # <<>> /\ path[1] = q /\ IsPath(path)
      /\ f.attr.med = CostOf(path) /\ CostOf(path) \in Nat
  BY <1>1, RestCost
<1>4. e.attr.med = CostOf(way)
  BY RestCost
<1>5. way = <<r>> \o path
  BY <1>2
<1> HIDE DEF path, way
<1>6. Head(path) = q
  BY <1>3
<1>7. CostOf(way) = CostOf(path) + Cost[<<q, r>>]
  BY <1>1, <1>3, <1>5, <1>6, CostOfHop
<1>8. Cost[<<q, r>>] \in Nat
  BY <1>1, NeighbourFacts
<1>9. f.attr.med <= e.attr.med
  BY <1>3, <1>4, <1>7, <1>8
<1> QED
  BY <1>2, <1>9

\* The routers a route came through have selected routes that cost no more.
LEMMA RestAlong ==
    ASSUME External, NoWrap, AtRest, NEW r \in Router, NEW e \in Routes(r),
           NEW k \in 1..Len(e.attr.via)
    PROVE  \E g \in Routes(e.attr.via[k]) : g.selected /\ g.attr.med <= e.attr.med
<1> DEFINE Good(t, d) ==
               \A j \in 1..Len(d.attr.via) :
                   \E g \in Routes(d.attr.via[j]) : g.selected /\ g.attr.med <= d.attr.med
           I == {n \in Nat : \A t \in Router : \A d \in Routes(t) : Len(d.attr.via) = n => Good(t, d)}
<1>1. 0 \in I
  OBVIOUS
<1>2. ASSUME NEW n \in Nat, n \in I PROVE n + 1 \in I
  <2> SUFFICES ASSUME NEW t \in Router, NEW d \in Routes(t), Len(d.attr.via) = n + 1,
                      NEW j \in 1..(n + 1)
               PROVE  \E g \in Routes(d.attr.via[j]) : g.selected /\ g.attr.med <= d.attr.med
    OBVIOUS
  <2>1. d.peer # Self
    <3>1. Len(<<>>) = 0 /\ n + 1 # 0
      OBVIOUS
    <3>2. d.attr.via # <<>>
      BY <3>1
    <3> QED
      BY <3>2, RestSelects DEF TracedRoute
  <2> DEFINE q == d.peer
  <2>2. q \in Router
    BY <2>1, RestFrom
  <2>3. PICK f \in Routes(q) : /\ f.selected /\ d.attr.via = <<q>> \o f.attr.via
                               /\ f.attr.med <= d.attr.med
    BY <2>1, RestCheaper
  <2> DEFINE v == d.attr.via
             w == f.attr.via
  <2>4. w \in Seq(Router) /\ f.attr.med \in Nat /\ d.attr.med \in Nat
    <3>1. f \in RouteOf(q)
      BY <2>2, RestSelects
    <3>2. f.attr.med \in Nat /\ d.attr.med \in Nat
      BY <2>2, RestCost
    <3> QED
      BY <3>1, <3>2 DEF RouteOf, Attrs
  <2>5. Len(w) = n /\ v[1] = q /\ \A i \in 1..n : v[i + 1] = w[i]
    <3>1. v = <<q>> \o w /\ Len(v) = n + 1
      BY <2>3
    <3> HIDE DEF v, w, q
    <3>2. Len(v) = Len(w) + 1 /\ Len(w) \in Nat /\ v[1] = q /\ \A i \in 1..Len(w) : v[i + 1] = w[i]
      BY <2>2, <2>4, <3>1
    <3>3. Len(w) = n
      BY <3>1, <3>2
    <3> QED
      BY <3>2, <3>3
  <2>6. CASE j = 1
    BY <2>3, <2>5, <2>6
  <2>7. CASE j # 1
    <3>1. j - 1 \in 1..n /\ (j - 1) + 1 = j
      BY <2>7
    <3>2. Good(q, f)
      BY <1>2, <2>2, <2>5
    <3>3. PICK g \in Routes(w[j - 1]) : g.selected /\ g.attr.med <= f.attr.med
      BY <2>5, <3>1, <3>2
    <3>4. v[j] = w[j - 1]
      BY <2>5, <3>1
    <3>5. w[j - 1] \in Router
      BY <2>4, <2>5, <3>1
    <3>6. g.attr.med \in Nat
      BY <3>5, RestCost
    <3>7. g.attr.med <= d.attr.med
      BY <2>3, <2>4, <3>3, <3>6
    <3> QED
      BY <3>3, <3>4, <3>7
  <2> QED
    BY <2>6, <2>7
<1>3. Len(e.attr.via) \in I
  <2>1. Len(e.attr.via) \in Nat
    BY RestSelects DEF RouteOf, Attrs
  <2> HIDE DEF I
  <2> QED
    BY <1>1, <1>2, <2>1, SetInduction
<1> QED
  BY <1>3

\* A route leads over sessions that are up to a live origin.
LEMMA RestPath ==
    ASSUME External, NoWrap, AtRest, NEW r \in Router, NEW e \in Routes(r)
    PROVE  LivePath(<<r>> \o e.attr.via)
<1> DEFINE I == {n \in Nat : \A t \in Router : \A d \in Routes(t) :
                                 Len(d.attr.via) = n => LivePath(<<t>> \o d.attr.via)}
<1>1. 0 \in I
  <2> SUFFICES ASSUME NEW t \in Router, NEW d \in Routes(t), Len(d.attr.via) = 0
               PROVE  LivePath(<<t>> \o d.attr.via)
    OBVIOUS
  <2>1. d \in RouteOf(t) /\ TracedRoute(t, d) /\ ~d.removed
    BY RestSelects
  <2>2. d.attr.via \in Seq(Router)
    BY <2>1 DEF RouteOf, Attrs
  <2>3. d.attr.via = <<>>
    BY <2>2
  <2>4. d.peer = Self
    BY <2>1, <2>3 DEF TracedRoute
  <2>5. PICK i \in 1..Len(rib[t]) : d = rib[t][i]
    BY RoutesFacts DEF AtRest, NetworkOK
  <2>6. DOMAIN rib[t] = 1..Len(rib[t])
    BY DEF AtRest, NetworkOK, RibOK, Lists
  <2>7. i \in Live(t, Self)
    BY <2>1, <2>4, <2>5, <2>6 DEF Live, Entry
  <2> DEFINE path == <<t>> \o d.attr.via
  <2>8. path = <<t>>
    BY <2>3
  <2> HIDE DEF path
  <2>9. path \in Seq(Router) /\ Len(path) = 1 /\ path[1] = t /\ path # <<>>
    BY <2>8
  <2>10. LivePath(path)
    BY <2>7, <2>9 DEF LivePath
  <2> QED
    BY <2>10 DEF path
<1>2. ASSUME NEW n \in Nat, n \in I PROVE n + 1 \in I
  <2> SUFFICES ASSUME NEW t \in Router, NEW d \in Routes(t), Len(d.attr.via) = n + 1
               PROVE  LivePath(<<t>> \o d.attr.via)
    OBVIOUS
  <2>1. d.peer # Self
    <3>1. Len(<<>>) = 0 /\ n + 1 # 0
      OBVIOUS
    <3>2. d.attr.via # <<>>
      BY <3>1
    <3> QED
      BY <3>2, RestSelects DEF TracedRoute
  <2> DEFINE q == d.peer
             v == d.attr.via
  <2>2. q \in Router /\ q \in up[t]
    BY <2>1, RestFrom
  <2>3. PICK f \in Routes(q) : v = <<q>> \o f.attr.via
    BY <2>1, RestFrom
  <2>4. f.attr.via \in Seq(Router)
    <3>1. f \in RouteOf(q)
      BY <2>2, RestSelects
    <3> QED
      BY <3>1 DEF RouteOf, Attrs
  <2>5. Len(v) = n + 1
    OBVIOUS
  <2> HIDE DEF q, v
  <2>6. Len(f.attr.via) = n /\ v \in Seq(Router) /\ v[1] = q
    <3>1. Len(f.attr.via) \in Nat /\ Len(v) = Len(f.attr.via) + 1
      BY <2>2, <2>3, <2>4
    <3> QED
      BY <2>2, <2>3, <2>4, <2>5, <3>1
  <2>7. LivePath(v)
    BY <1>2, <2>2, <2>3, <2>6
  <2> DEFINE path == <<t>> \o v
  <2>8. /\ path \in Seq(Router) /\ Len(path) = n + 2 /\ path[1] = t
        /\ \A i \in 1..(n + 1) : path[i + 1] = v[i]
    BY <2>5, <2>6
  <2> HIDE DEF path
  <2>9. ASSUME NEW i \in 1..(n + 1) PROVE path[i + 1] \in up[path[i]]
    <3>1. CASE i = 1
      BY <2>2, <2>6, <2>8, <3>1
    <3>2. CASE i # 1
      <4> DEFINE j == i - 1
      <4>1. j \in 1..n /\ j + 1 = i /\ j \in 1..(n + 1)
        BY <3>2
      <4> HIDE DEF j
      <4>2. path[i + 1] = v[i] /\ path[i] = v[j]
        BY <2>8, <4>1
      <4>3. v[j + 1] \in up[v[j]]
        <5>1. j \in 1..(Len(v) - 1)
          BY <2>5, <4>1
        <5> QED
          BY <2>7, <5>1 DEF LivePath
      <4> QED
        BY <4>1, <4>2, <4>3
    <3> QED
      BY <3>1, <3>2
  <2>10. path[n + 2] = v[n + 1]
    <3>1. n + 1 \in 1..(n + 1) /\ (n + 1) + 1 = n + 2
      OBVIOUS
    <3> QED
      BY <2>8, <3>1
  <2>11. Live(path[n + 2], Self) # {}
    BY <2>5, <2>7, <2>10 DEF LivePath
  <2>12. path # <<>>
    <3>1. Len(<<>>) = 0 /\ n + 2 # 0
      OBVIOUS
    <3> QED
      BY <2>8, <3>1
  <2>13. n + 2 - 1 = n + 1
    OBVIOUS
  <2>14. LivePath(path)
    BY <2>8, <2>9, <2>11, <2>12, <2>13 DEF LivePath
  <2> QED
    BY <2>14 DEF path, v
<1>3. Len(e.attr.via) \in I
  <2>1. Len(e.attr.via) \in Nat
    BY RestSelects DEF RouteOf, Attrs
  <2> HIDE DEF I
  <2> QED
    BY <1>1, <1>2, <2>1, SetInduction
<1> QED
  BY <1>3

\* The local route of a live origin, and the MED it has.
LEMMA RestOrigin ==
    ASSUME External, NoWrap, AtRest, NEW r \in Router, Live(r, Self) # {}
    PROVE  r \in Origins /\ \E e \in Routes(r) : e.selected /\ e.attr.med <= CostOf(<<r>>)
<1>1. PICK i \in DOMAIN rib[r] : rib[r][i].peer = Self
  BY DEF Live, Entry
<1>2. DOMAIN rib[r] = 1..Len(rib[r])
  BY DEF AtRest, NetworkOK, RibOK, Lists
<1> DEFINE s == rib[r][i]
<1>3. s \in Routes(r)
  BY <1>2, RoutesFacts DEF AtRest, NetworkOK
<1>4. s.attr.via = <<>>
  BY <1>1, <1>3, RestSelects DEF TracedRoute
<1> DEFINE path == <<r>> \o s.attr.via
<1>5. path = <<r>>
  BY <1>4
<1>6. IsPath(<<r>>) /\ s.attr.med = CostOf(<<r>>)
  <2>1. IsPath(path) /\ s.attr.med = CostOf(path)
    BY <1>3, RestCost
  <2> HIDE DEF path, s
  <2> QED
    BY <1>5, <2>1
<1>7. r \in Origins
  BY <1>6 DEF IsPath
<1> HIDE DEF s
<1>8. \E e \in Routes(r) : e.selected /\ e.attr.med <= s.attr.med
  BY <1>3, RestSelects
<1> QED
  BY <1>6, <1>7, <1>8

\* A neighbour of a router with a route has one that costs the link more, at most.
LEMMA RestSpreads ==
    ASSUME External, NoWrap, AtRest, NEW r \in Router, NEW q \in up[r],
           NEW f \in Routes(q), f.selected
    PROVE  \E e \in Routes(r) : e.selected /\ e.attr.med <= f.attr.med + Cost[<<q, r>>]
<1>1. q \in Neighbours(r) /\ q \in Router /\ r \in Neighbours(q) /\ q # r
  BY RestHolds, NeighbourFacts
<1>2. Cost[<<q, r>>] \in Nat /\ f.attr.med \in Nat
  BY <1>1, NeighbourFacts, RestCost
<1>3. ASSUME NEW e \in Routes(r), e.selected, e.attr.med <= f.attr.med
      PROVE  e.attr.med <= f.attr.med + Cost[<<q, r>>]
  <2>1. e.attr.med \in Nat
    BY RestCost
  <2> QED
    BY <1>2, <1>3, <2>1
<1>4. CASE f.peer = r
  <2>1. r # Self
    BY RouterAssumption
  <2>2. \E e \in Routes(r) : e.selected /\ e.attr.med <= f.attr.med
    BY <1>1, <1>4, <2>1, RestCheaper
  <2> QED
    BY <1>3, <2>2
<1>5. CASE f.peer # r
  <2> DEFINE a == Outgoing(q, r, f)
  <2>1. Due(q, r, f) = a /\ HeldOf(Routes(r), q) = Accepted(q, r, a)
    BY <1>5, RestHolds DEF Due
  <2>2. f \in RouteOf(q) /\ TracedRoute(q, f)
    BY <1>1, RestSelects
  <2>3. a \in Attrs /\ a # None /\ TracedMsg(a) /\ a # Withdraw
    <3>1. a \in Update(q, r)
      BY <1>1, <2>2, OutgoingCharges
    <3>2. TracedMsg(a)
      BY <1>1, <2>2, OutgoingTraced
    <3> QED
      BY <3>1, <3>2, UpdateNames
  <2>4. a.via = <<q>> \o f.attr.via /\ a.med = f.attr.med
    BY DEF Outgoing
  <2> HIDE DEF a
  <2>5. CASE aspath_loop_check(r, a)
    <3>1. PICK i \in DOMAIN a.aspath : a.aspath[i] = AS[r]
      BY <2>5 DEF aspath_loop_check
    <3>2. /\ a.aspath \in Seq(Nat) /\ a.via \in Seq(Router) /\ Len(a.aspath) = Len(a.via)
          /\ \A k \in 1..Len(a.via) : a.aspath[k] = AS[a.via[k]]
      BY <2>3 DEF Attrs, Traced, TracedMsg
    <3>3. i \in 1..Len(a.via) /\ a.via[i] = r
      <4>1. i \in 1..Len(a.via)
        BY <3>1, <3>2
      <4>2. AS[a.via[i]] = AS[r] /\ a.via[i] \in Router
        BY <3>1, <3>2, <4>1
      <4> QED
        BY <4>1, <4>2 DEF External
    <3> DEFINE w == f.attr.via
    <3>4. w \in Seq(Router)
      BY <2>2 DEF RouteOf, Attrs
    <3>5. \E k \in 1..Len(w) : w[k] = r
      <4> DEFINE v == a.via
                 k == i - 1
      <4>1. v = <<q>> \o w /\ i \in 1..Len(v) /\ v[i] = r
        BY <2>4, <3>3
      <4> HIDE DEF v, w
      <4>2. Len(w) \in Nat /\ Len(v) = Len(w) + 1 /\ v[1] = q /\ \A j \in 1..Len(w) : v[j + 1] = w[j]
        BY <1>1, <3>4, <4>1
      <4>3. i # 1
        BY <1>1, <4>1, <4>2
      <4>4. k \in 1..Len(w) /\ k + 1 = i
        BY <4>1, <4>2, <4>3
      <4> HIDE DEF k
      <4>5. w[k] = r
        BY <4>1, <4>2, <4>4
      <4> QED
        BY <4>4, <4>5
    <3>6. \E e \in Routes(r) : e.selected /\ e.attr.med <= f.attr.med
      BY <1>1, <3>5, RestAlong
    <3> QED
      BY <1>3, <3>6
  <2>6. CASE ~aspath_loop_check(r, a)
    <3>1. Charged(q, r, a) \in HeldOf(Routes(r), q)
      BY <2>1, <2>3, <2>6 DEF Accepted
    <3>2. PICK d \in Routes(r) : d.attr = Charged(q, r, a)
      BY <3>1 DEF HeldOf
    <3>3. d.attr.med = (f.attr.med + Cost[<<q, r>>]) % MedRange
      BY <2>3, <2>4, <3>2 DEF Charged, Attrs
    <3> DEFINE x == f.attr.med + Cost[<<q, r>>]
    <3>4. x \in Nat /\ d.attr.med = x % MedRange /\ MedRange \in Nat \ {0}
      BY <1>2, <3>3, BoundAssumption
    <3> HIDE DEF x
    <3>5. x % MedRange <= x
      BY <3>4, SMTT(30)
    <3>6. PICK e \in Routes(r) : e.selected /\ e.attr.med <= d.attr.med
      BY RestSelects
    <3>7. e.attr.med \in Nat /\ d.attr.med \in Nat
      BY RestCost
    <3>8. e.attr.med <= x
      BY <3>4, <3>5, <3>6, <3>7
    <3> QED
      BY <3>6, <3>8 DEF x
  <2> QED
    BY <2>5, <2>6
<1> QED
  BY <1>4, <1>5

\* No live path costs less than what the router at its end has selected.
LEMMA RestLeast ==
    ASSUME External, NoWrap, AtRest, NEW path, LivePath(path)
    PROVE  /\ IsPath(path)
           /\ \E e \in Routes(path[1]) : e.selected /\ e.attr.med <= CostOf(path)
<1> DEFINE Good(p) == IsPath(p) /\ \E e \in Routes(p[1]) : e.selected /\ e.attr.med <= CostOf(p)
           I == {n \in Nat : \A p : LivePath(p) /\ Len(p) = n + 1 => Good(p)}
<1>1. 0 \in I
  <2> SUFFICES ASSUME NEW p, LivePath(p), Len(p) = 1 PROVE Good(p)
    OBVIOUS
  <2>1. p \in Seq(Router) /\ Live(p[1], Self) # {}
    BY DEF LivePath
  <2>2. p = <<p[1]>> /\ p[1] \in Router
    BY <2>1
  <2> DEFINE r == p[1]
  <2> HIDE DEF r
  <2>3. p = <<r>> /\ r \in Router /\ Live(r, Self) # {}
    BY <2>1, <2>2 DEF r
  <2>4. r \in Origins /\ \E e \in Routes(r) : e.selected /\ e.attr.med <= CostOf(<<r>>)
    BY <2>3, RestOrigin
  <2>5. IsPath(<<r>>)
    BY <2>4, CostAtOrigin
  <2>6. IsPath(p) /\ \E e \in Routes(r) : e.selected /\ e.attr.med <= CostOf(p)
    BY <2>3, <2>4, <2>5
  <2> QED
    BY <2>6 DEF r
<1>2. ASSUME NEW n \in Nat, n \in I PROVE n + 1 \in I
  <2> SUFFICES ASSUME NEW p, LivePath(p), Len(p) = n + 2 PROVE Good(p)
    OBVIOUS
  <2> DEFINE rest == Tail(p)
  <2>1. p \in Seq(Router) /\ Len(p) > 1 /\ rest = Tail(p)
    BY DEF LivePath
  <2> HIDE DEF rest
  <2>2. /\ rest \in Seq(Router) /\ rest # <<>> /\ Len(rest) = Len(p) - 1
        /\ Head(rest) = p[2] /\ rest[1] = p[2] /\ p[1] \in Router /\ p[2] \in Router
        /\ p = <<p[1]>> \o rest /\ rest[Len(rest)] = p[Len(p)]
        /\ \A i \in 1..(Len(rest) - 1) :
              i + 1 \in 1..(Len(p) - 1) /\ rest[i] = p[i + 1] /\ rest[i + 1] = p[(i + 1) + 1]
    BY <2>1, PathTail
  <2>3. LivePath(rest)
    BY <2>2 DEF LivePath
  <2>4. Len(rest) = n + 1
    BY <2>2
  <2>5. Good(rest)
    BY <1>2, <2>3, <2>4
  <2> DEFINE r == p[1]
             q == p[2]
  <2>6. q \in up[r]
    <3>1. 1 \in 1..(Len(p) - 1) /\ 1 + 1 = 2
      OBVIOUS
    <3> QED
      BY <3>1 DEF LivePath
  <2>7. r \in Router /\ q \in Neighbours(r) /\ r \in Neighbours(q)
    BY <2>2, <2>6, RestHolds, NeighbourFacts
  <2>8. PICK f \in Routes(q) : f.selected /\ f.attr.med <= CostOf(rest)
    BY <2>2, <2>5
  <2>9. PICK e \in Routes(r) : e.selected /\ e.attr.med <= f.attr.med + Cost[<<q, r>>]
    BY <2>6, <2>7, <2>8, RestSpreads
  <2>10. /\ IsPath(p) /\ CostOf(rest) \in Nat
         /\ CostOf(p) = CostOf(rest) + Cost[<<q, r>>]
    <3>1. /\ IsPath(<<r>> \o rest) /\ CostOf(rest) \in Nat
          /\ CostOf(<<r>> \o rest) = CostOf(rest) + Cost[<<Head(rest), r>>]
      <4>1. r \in Neighbours(Head(rest))
        BY <2>2, <2>7
      <4> QED
        BY <2>5, <4>1, CostOfHop
    <3> QED
      BY <2>2, <3>1
  <2>11. e.attr.med \in Nat /\ f.attr.med \in Nat /\ Cost[<<q, r>>] \in Nat
    BY <2>2, <2>7, NeighbourFacts, RestCost
  <2>12. e.attr.med <= CostOf(p)
    BY <2>8, <2>9, <2>10, <2>11
  <2> QED
    BY <2>9, <2>10, <2>12
<1>3. Len(path) - 1 \in I
  <2>1. Len(path) \in Nat /\ Len(path) >= 1
    BY DEF LivePath
  <2>2. Len(path) - 1 \in Nat
    BY <2>1
  <2> HIDE DEF I
  <2> QED
    BY <1>1, <1>2, <2>2, SetInduction
<1>4. Len(path) = (Len(path) - 1) + 1
  <2>1. Len(path) \in Nat
    BY DEF LivePath
  <2> QED
    BY <2>1
<1> QED
  BY <1>3, <1>4

\* A settled network has found the shortest paths.
LEMMA RestShortest ==
    ASSUME External, NoWrap, NetworkOK, Consistent
    PROVE  SettledIsShortest
<1> SUFFICES ASSUME Settled, NEW r \in Router
             PROVE  /\ Selected(r) = {} <=> PathsTo(r) = {}
                    /\ \A i \in Selected(r) :
                          rib[r][i].attr.med = Min({CostOf(path) : path \in PathsTo(r)})
  BY DEF SettledIsShortest
<1>1. AtRest
  BY DEF AtRest
<1>2. Routes(r) = {rib[r][i] : i \in 1..Len(rib[r])} /\ DOMAIN rib[r] = 1..Len(rib[r])
  BY RoutesFacts DEF NetworkOK, RibOK, Lists
<1>3. ASSUME NEW path \in PathsTo(r)
      PROVE  /\ CostOf(path) \in Nat
             /\ \E e \in Routes(r) : e.selected /\ e.attr.med <= CostOf(path)
  <2>1. LivePath(path) /\ path[1] = r
    BY PathsAreSimple
  <2>2. IsPath(path) /\ \E e \in Routes(path[1]) : e.selected /\ e.attr.med <= CostOf(path)
    BY <1>1, <2>1, RestLeast
  <2> QED
    BY <2>1, <2>2, CostOfTail
<1>4. ASSUME NEW e \in Routes(r)
      PROVE  <<r>> \o e.attr.via \in PathsTo(r) /\ e.attr.med = CostOf(<<r>> \o e.attr.via)
  <2> DEFINE path == <<r>> \o e.attr.via
  <2>1. Simple(path) /\ path[1] = r /\ e.attr.med = CostOf(path)
    BY <1>1, RestCost
  <2>2. LivePath(path)
    BY <1>1, RestPath
  <2> HIDE DEF path
  <2>3. path \in PathsTo(r)
    BY <2>1, <2>2, PathsAreSimple
  <2> QED
    BY <2>1, <2>3 DEF path
<1>5. Selected(r) = {} <=> PathsTo(r) = {}
  <2>1. ASSUME NEW i \in Selected(r) PROVE PathsTo(r) # {}
    <3>1. rib[r][i] \in Routes(r)
      BY <1>2 DEF Selected
    <3> QED
      BY <1>4, <3>1
  <2>2. ASSUME NEW path \in PathsTo(r) PROVE Selected(r) # {}
    <3>1. PICK e \in Routes(r) : e.selected
      BY <1>3
    <3>2. PICK i \in 1..Len(rib[r]) : e = rib[r][i]
      BY <1>2
    <3>3. i \in Selected(r)
      BY <1>2, <3>1, <3>2 DEF Selected
    <3> QED
      BY <3>3
  <2> QED
    BY <2>1, <2>2
<1>6. ASSUME NEW i \in Selected(r)
      PROVE  rib[r][i].attr.med = Min({CostOf(path) : path \in PathsTo(r)})
  <2> DEFINE e == rib[r][i]
             S == {CostOf(path) : path \in PathsTo(r)}
  <2>1. e \in Routes(r) /\ e.selected
    BY <1>2 DEF Selected
  <2> DEFINE c == e.attr.med
  <2>2. c \in S
    BY <1>4, <2>1
  <2>3. ASSUME NEW path \in PathsTo(r) PROVE c <= CostOf(path)
    <3>1. PICK f \in Routes(r) : f.selected /\ f.attr.med <= CostOf(path)
      BY <1>3
    <3>2. e = f
      BY <1>1, <2>1, <3>1, RestSelects
    <3> QED
      BY <3>1, <3>2
  <2>4. \A y \in S : y \in Nat /\ c <= y
    BY <1>3, <2>3
  <2> HIDE DEF S, c
  <2> DEFINE m == CHOOSE x \in S : \A y \in S : x <= y
  <2>5. m \in S /\ \A y \in S : m <= y
    BY <2>2, <2>4
  <2> HIDE DEF m
  <2>6. m = c
    BY <2>2, <2>4, <2>5
  <2>7. Min(S) = m
    BY DEF Min, m
  <2> QED
    BY <2>6, <2>7 DEF S, c
<1> QED
  BY <1>5, <1>6

\* The shortest paths: in a network of external sessions with the out route-map
\* everywhere, in which MED is always compared and cannot wrap around, each router
\* that has nothing waiting anywhere has selected a route of the least cost of all
\* paths over the sessions that are up, and none when there is no path.
THEOREM SettledIsShortestCorrect == External /\ NoWrap => (Spec => []SettledIsShortest)
<1> SUFFICES ASSUME External, NoWrap PROVE Spec => []SettledIsShortest
  OBVIOUS
<1>1. Init /\ [][Next]_vars => []Consistent
  BY ConsistentAlways
<1>2. NetworkOK /\ Consistent => SettledIsShortest
  BY RestShortest
<1> QED
  BY <1>1, <1>2, NetworkAlways, PTL DEF Spec
=============================================================================
