------------------------- MODULE BgpDecision_proofs -------------------------
(***************************************************************************)
(* The decision process finds the best route, for any routes, lists and    *)
(* options.  Two routes of which MED is comparable, or is not, are         *)
(* compared lexicographically by a tuple of numbers (Compares), so that    *)
(* a pass along the list, which keeps the best route so far, ends with one *)
(* that is not worse than any other (PassFinds).                           *)
(***************************************************************************)
EXTENDS BgpDecision, Fifo_proofs

-----------------------------------------------------------------------------
(***************************************************************************)
(* The lexicographic order.                                                *)
(***************************************************************************)
Tuple(N) == [1..N -> Int]

\* Two different tuples are first told apart at one place.
LEMMA FirstDifference ==
    ASSUME NEW N \in Nat, NEW a \in Tuple(N), NEW b \in Tuple(N),
           NEW i \in 1..N, a[i] # b[i]
    PROVE  \E m \in 1..i : a[m] # b[m] /\ \A j \in 1..(m - 1) : a[j] = b[j]
<1> DEFINE D == {k \in 1..i : a[k] # b[k]}
<1>1. i \in D /\ D \subseteq Nat
  OBVIOUS
<1>2. PICK m \in D : \A k \in D : m <= k
  <2> HIDE DEF D
  <2> QED
    BY <1>1, LeastNatural
<1>3. ASSUME NEW j \in 1..(m - 1) PROVE a[j] = b[j]
  BY <1>2, <1>3
<1> QED
  BY <1>2, <1>3

\* That place decides.
LEMMA WorseAt ==
    ASSUME NEW N \in Nat, NEW a \in Tuple(N), NEW b \in Tuple(N),
           NEW m \in 1..N, a[m] # b[m], \A j \in 1..(m - 1) : a[j] = b[j]
    PROVE  Worse(a, b) <=> a[m] > b[m]
<1>1. DOMAIN a = 1..N
  BY DEF Tuple
<1>2. ASSUME a[m] > b[m] PROVE Worse(a, b)
  BY <1>1, <1>2 DEF Worse
<1>3. ASSUME Worse(a, b) PROVE a[m] > b[m]
  <2>1. PICK i \in 1..N : a[i] > b[i] /\ \A j \in 1..(i - 1) : a[j] = b[j]
    BY <1>1, <1>3 DEF Worse
  <2>2. i = m
    BY <2>1 DEF Tuple
  <2> QED
    BY <2>1, <2>2
<1> QED
  BY <1>2, <1>3

\* Of two different tuples one is worse, and only one.
LEMMA WorseTotal ==
    ASSUME NEW N \in Nat, NEW a \in Tuple(N), NEW b \in Tuple(N),
           NEW i \in 1..N, a[i] # b[i]
    PROVE  Worse(a, b) <=> ~Worse(b, a)
<1>1. PICK m \in 1..i : a[m] # b[m] /\ \A j \in 1..(m - 1) : a[j] = b[j]
  BY FirstDifference
<1>2. m \in 1..N
  OBVIOUS
<1>3. Worse(a, b) <=> a[m] > b[m]
  BY <1>1, <1>2, WorseAt
<1>4. Worse(b, a) <=> b[m] > a[m]
  <2>1. b[m] # a[m] /\ \A j \in 1..(m - 1) : b[j] = a[j]
    BY <1>1
  <2> QED
    BY <1>2, <2>1, WorseAt
<1>5. a[m] \in Int /\ b[m] \in Int
  BY <1>2 DEF Tuple
<1> QED
  BY <1>1, <1>3, <1>4, <1>5

\* No tuple is worse than itself, and of two tuples not both are.
LEMMA WorseOneWay ==
    ASSUME NEW N \in Nat, NEW a \in Tuple(N), NEW b \in Tuple(N), Worse(a, b)
    PROVE  ~Worse(b, a)
<1>1. PICK i \in 1..N : a[i] > b[i]
  BY DEF Worse, Tuple
<1>2. a[i] # b[i]
  BY <1>1 DEF Tuple
<1> QED
  BY <1>2, WorseTotal

\* Not being worse is transitive.
LEMMA WorseChain ==
    ASSUME NEW N \in Nat, NEW a \in Tuple(N), NEW b \in Tuple(N),
           NEW c \in Tuple(N), ~Worse(a, b), ~Worse(b, c)
    PROVE  ~Worse(a, c)
<1> SUFFICES ASSUME Worse(a, c) PROVE FALSE
  OBVIOUS
<1>1. PICK i \in 1..N : a[i] > c[i] /\ \A j \in 1..(i - 1) : a[j] = c[j]
  BY DEF Worse, Tuple
<1> DEFINE D == {k \in 1..i : a[k] # b[k] \/ b[k] # c[k]}
<1>2. i \in D /\ D \subseteq Nat
  BY <1>1 DEF Tuple
<1>3. PICK m \in D : \A k \in D : m <= k
  <2> HIDE DEF D
  <2> QED
    BY <1>2, LeastNatural
<1>4. m \in 1..N /\ m \in 1..i /\ (a[m] # b[m] \/ b[m] # c[m])
  OBVIOUS
<1>5. ASSUME NEW j \in 1..(m - 1) PROVE a[j] = b[j] /\ b[j] = c[j]
  BY <1>3
<1> HIDE DEF D
<1>6. a[m] \in Int /\ b[m] \in Int /\ c[m] \in Int
  BY <1>4 DEF Tuple
<1>7. a[m] <= b[m]
  <2> SUFFICES ASSUME a[m] > b[m] PROVE Worse(a, b)
    BY <1>6
  <2> QED
    BY <1>4, <1>5 DEF Worse, Tuple
<1>8. b[m] <= c[m]
  <2> SUFFICES ASSUME b[m] > c[m] PROVE Worse(b, c)
    BY <1>6
  <2> QED
    BY <1>4, <1>5 DEF Worse, Tuple
<1>9. a[m] < c[m]
  BY <1>4, <1>6, <1>7, <1>8
<1>10. CASE m = i
  BY <1>1, <1>6, <1>9, <1>10
<1>11. CASE m # i
  <2>1. m \in 1..(i - 1)
    BY <1>4, <1>11
  <2> QED
    BY <1>1, <1>6, <1>9, <2>1
<1> QED
  BY <1>10, <1>11

-----------------------------------------------------------------------------
(***************************************************************************)
(* The comparison of two routes.                                           *)
(***************************************************************************)
\* A route as bgp_update and the local sources put it into the list.
Sound(r) == r \in Route /\ r.path \in Paths[r.peer]

\* The check for the oldest route prefers the one that is selected.
Older(r) ==
    IF "COMPARE_ROUTER_ID" \notin config /\ Sort[r.peer] = "EBGP" /\ r.selected THEN 0 ELSE 1

Length(r) == IF "ASPATH_IGNORE" \in config THEN 0 ELSE PathLength(r.path)

External(r) == IF Sort[r.peer] = "EBGP" THEN 0 ELSE 1

\* What bgp_info_cmp compares, the better the smaller; MED only if it is comparable.
Key(r, comparable) ==
    << IF comparable THEN bgp_med_value(r.path) ELSE 0, -r.path.weight, -PrefOf(r.path),
       Rank(r.path.sub), Length(r), r.path.origin, External(r), r.igp, Older(r),
       IdOf(r), r.path.cluster, Address[r.peer] >>

\* What the checks look at are numbers.
LEMMA KeyType ==
    ASSUME NEW r, Sound(r), NEW c \in BOOLEAN
    PROVE  Key(r, c) \in Tuple(12)
<1>1. /\ r.path \in Path /\ r.peer \in Peer /\ r.igp \in Nat
      /\ Address[r.peer] \in Nat /\ RouterId[r.peer] \in Nat
  BY PeerAssumption, PathAssumption DEF Sound, Route
<1>2. bgp_med_value(r.path) \in Nat /\ PrefOf(r.path) \in Nat
  BY <1>1, NumberAssumption DEF Path, bgp_med_value, PrefOf
<1>3. Length(r) \in Nat /\ Older(r) \in Nat /\ External(r) \in Nat /\ Rank(r.path.sub) \in Nat
  BY <1>1 DEF Path, Length, PathLength, Older, External, Rank
<1>4. IdOf(r) \in Nat
  BY <1>1 DEF Path, IdOf
<1>5. r.path.weight \in Nat /\ r.path.origin \in Nat /\ r.path.cluster \in Nat
  BY <1>1 DEF Path
<1> QED
  BY <1>1, <1>2, <1>3, <1>4, <1>5 DEF Key, Tuple

\* The first check that does not leave it open decides.
LEMMA FirstCheck ==
    ASSUME NEW n, NEW e, NEW j \in 1..14,
           Checks(n, e)[j] # 0, \A i \in 1..(j - 1) : Checks(n, e)[i] = 0
    PROVE  bgp_info_cmp(n, e) <=> Checks(n, e)[j] = 1
<1> DEFINE checks == Checks(n, e)
           deciding == {i \in DOMAIN checks : checks[i] # 0}
<1>1. DOMAIN checks = 1..14
  BY DEF Checks
<1>2. bgp_info_cmp(n, e) <=> deciding = {} \/ checks[Min(deciding)] = 1
  BY DEF bgp_info_cmp
<1> HIDE DEF checks
<1>3. j \in deciding /\ \A i \in deciding : j <= i
  BY <1>1 DEF checks
<1>4. deciding \subseteq Nat
  BY <1>1
<1> HIDE DEF deciding
<1>5. Min(deciding) = j
  <2>1. Min(deciding) = CHOOSE i \in deciding : \A k \in deciding : i <= k
    BY DEF Min
  <2>2. Min(deciding) \in deciding /\ \A k \in deciding : Min(deciding) <= k
    BY <1>3, <2>1
  <2> DEFINE m == Min(deciding)
  <2> HIDE DEF m
  <2>3. m \in Nat /\ j \in Nat /\ m <= j /\ j <= m
    BY <1>3, <1>4, <2>2 DEF m
  <2> QED
    BY <2>3 DEF m
<1> QED
  BY <1>2, <1>3, <1>5 DEF checks

\* The checks for local routes follow the rank, and leave open what is no local
\* route: there is one local route of a kind.
LEMMA LocalChecks ==
    ASSUME NEW n, Sound(n), NEW e, Sound(e), n.peer # e.peer
    PROVE  LET static == LocalCheck(n, e, "STATIC")
               redistribute == LocalCheck(n, e, "REDISTRIBUTE")
               aggregate == LocalCheck(n, e, "AGGREGATE")
               a == Rank(n.path.sub)
               b == Rank(e.path.sub)
           IN  /\ a = b => /\ static = 0 /\ redistribute = 0 /\ aggregate = 0
                           /\ Sort[n.peer] # "INTERNAL" /\ Sort[e.peer] # "INTERNAL"
               /\ a # b => \/ static = Lower(a, b)
                           \/ static = 0 /\ redistribute = Lower(a, b)
                           \/ static = 0 /\ redistribute = 0 /\ aggregate = Lower(a, b)
<1>1. n.path.sub \in SubType /\ e.path.sub \in SubType /\ n.peer \in Peer /\ e.peer \in Peer
  BY PathAssumption DEF Sound, Route, Path
<1>2. n.path.sub = e.path.sub => n.path.sub = "NORMAL"
  BY <1>1, LocalAssumption DEF Sound
<1>3. /\ n.path.sub = "NORMAL" => Sort[n.peer] # "INTERNAL"
      /\ e.path.sub = "NORMAL" => Sort[e.peer] # "INTERNAL"
  BY <1>1, LocalAssumption DEF Sound
<1> QED
  BY <1>1, <1>2, <1>3 DEF SubType, Rank, LocalCheck, Prefer, Lower

\* Every check compares two numbers of the keys, when those before are the same.
LEMMA CheckFacts ==
    ASSUME NEW n, Sound(n), NEW e, Sound(e), n.peer # e.peer, ~(n.selected /\ e.selected),
           NEW a, a = Key(n, MedComparable(n.path, e.path)),
           NEW b, b = Key(e, MedComparable(n.path, e.path)),
           NEW k, k = Checks(n, e)
    PROVE  /\ k[1] = Lower(a[1], b[1]) /\ k[2] = Lower(a[2], b[2]) /\ k[3] = Lower(a[3], b[3])
           /\ a[4] = b[4] => k[4] = 0 /\ k[5] = 0 /\ k[6] = 0
           /\ a[4] # b[4] => \/ k[4] = Lower(a[4], b[4])
                             \/ k[4] = 0 /\ k[5] = Lower(a[4], b[4])
                             \/ k[4] = 0 /\ k[5] = 0 /\ k[6] = Lower(a[4], b[4])
           /\ k[7] = Lower(a[5], b[5]) /\ k[8] = Lower(a[6], b[6])
           /\ a[4] = b[4] => k[9] = Lower(a[7], b[7])
           /\ k[10] = Lower(a[8], b[8])
           /\ a[7] = b[7] => k[11] = Lower(a[9], b[9])
           /\ k[12] = Lower(a[10], b[10]) /\ k[13] = Lower(a[11], b[11])
           /\ k[14] = Lower(a[12], b[12]) /\ a[12] # b[12]
<1> DEFINE c == MedComparable(n.path, e.path)
<1>1. /\ n.path \in Path /\ e.path \in Path /\ n.peer \in Peer /\ e.peer \in Peer
      /\ n \in Route /\ e \in Route
      /\ Sort[n.peer] \in PeerSort /\ Sort[e.peer] \in PeerSort
  BY PeerAssumption, PathAssumption DEF Sound, Route
<1>2. /\ k[1] = MedCheck(n, e) /\ k[2] = WeightCheck(n, e) /\ k[3] = LocalPrefCheck(n, e)
      /\ k[4] = LocalCheck(n, e, "STATIC") /\ k[5] = LocalCheck(n, e, "REDISTRIBUTE")
      /\ k[6] = LocalCheck(n, e, "AGGREGATE") /\ k[7] = LengthCheck(n, e)
      /\ k[8] = OriginCheck(n, e) /\ k[9] = SortCheck(n, e) /\ k[10] = IgpCheck(n, e)
      /\ k[11] = OldestCheck(n, e) /\ k[12] = RouterIdCheck(n, e)
      /\ k[13] = ClusterCheck(n, e) /\ k[14] = AddressCheck(n, e)
  BY DEF Checks
<1>3. /\ a[1] = (IF c THEN bgp_med_value(n.path) ELSE 0) /\ a[2] = -n.path.weight
      /\ a[3] = -PrefOf(n.path) /\ a[4] = Rank(n.path.sub) /\ a[5] = Length(n)
      /\ a[6] = n.path.origin /\ a[7] = External(n) /\ a[8] = n.igp /\ a[9] = Older(n)
      /\ a[10] = IdOf(n) /\ a[11] = n.path.cluster /\ a[12] = Address[n.peer]
  BY DEF Key
<1>4. /\ b[1] = (IF c THEN bgp_med_value(e.path) ELSE 0) /\ b[2] = -e.path.weight
      /\ b[3] = -PrefOf(e.path) /\ b[4] = Rank(e.path.sub) /\ b[5] = Length(e)
      /\ b[6] = e.path.origin /\ b[7] = External(e) /\ b[8] = e.igp /\ b[9] = Older(e)
      /\ b[10] = IdOf(e) /\ b[11] = e.path.cluster /\ b[12] = Address[e.peer]
  BY DEF Key
<1>5. k[1] = Lower(a[1], b[1])
  BY <1>2, <1>3, <1>4 DEF MedCheck, Lower
<1>6. k[2] = Lower(a[2], b[2])
  BY <1>1, <1>2, <1>3, <1>4 DEF WeightCheck, Higher, Lower, Path
<1>7. k[3] = Lower(a[3], b[3])
  <2>1. PrefOf(n.path) \in Nat /\ PrefOf(e.path) \in Nat
    BY <1>1, NumberAssumption DEF Path, PrefOf
  <2> QED
    BY <1>2, <1>3, <1>4, <2>1 DEF LocalPrefCheck, Higher, Lower
<1>8. /\ a[4] = b[4] => k[4] = 0 /\ k[5] = 0 /\ k[6] = 0
      /\ a[4] # b[4] => \/ k[4] = Lower(a[4], b[4])
                        \/ k[4] = 0 /\ k[5] = Lower(a[4], b[4])
                        \/ k[4] = 0 /\ k[5] = 0 /\ k[6] = Lower(a[4], b[4])
      /\ a[4] = b[4] => Sort[n.peer] # "INTERNAL" /\ Sort[e.peer] # "INTERNAL"
  BY <1>2, <1>3, <1>4, LocalChecks
<1>9. k[7] = Lower(a[5], b[5])
  BY <1>2, <1>3, <1>4 DEF LengthCheck, Length, Lower
<1>10. k[8] = Lower(a[6], b[6]) /\ k[10] = Lower(a[8], b[8]) /\ k[12] = Lower(a[10], b[10])
       /\ k[13] = Lower(a[11], b[11]) /\ k[14] = Lower(a[12], b[12])
  BY <1>2, <1>3, <1>4 DEF OriginCheck, IgpCheck, RouterIdCheck, ClusterCheck, AddressCheck
<1>11. a[4] = b[4] => k[9] = Lower(a[7], b[7])
  BY <1>1, <1>2, <1>3, <1>4, <1>8 DEF SortCheck, External, Prefer, Lower, PeerSort
<1>12. a[7] = b[7] => k[11] = Lower(a[9], b[9])
  BY <1>1, <1>2, <1>3, <1>4 DEF OldestCheck, External, Older, Prefer, Lower
<1>13. a[12] # b[12]
  BY <1>1, <1>3, <1>4, PeerAssumption
<1> QED
  BY <1>5, <1>6, <1>7, <1>8, <1>9, <1>10, <1>11, <1>12, <1>13

\* Two routes are compared by their keys: bgp_info_cmp is a lexicographic order.
LEMMA Compares ==
    ASSUME NEW n, Sound(n), NEW e, Sound(e), n.peer # e.peer, ~(n.selected /\ e.selected),
           NEW c, c = MedComparable(n.path, e.path)
    PROVE  bgp_info_cmp(n, e) <=> Worse(Key(e, c), Key(n, c))
<1> DEFINE a == Key(n, c)
           b == Key(e, c)
           k == Checks(n, e)
<1>1. c \in BOOLEAN
  BY DEF MedComparable, SameNeighbourAS, aspath_cmp_left, aspath_cmp_left_confed
<1>2. a \in Tuple(12) /\ b \in Tuple(12)
  BY <1>1, KeyType
<1>3. /\ k[1] = Lower(a[1], b[1]) /\ k[2] = Lower(a[2], b[2]) /\ k[3] = Lower(a[3], b[3])
      /\ a[4] = b[4] => k[4] = 0 /\ k[5] = 0 /\ k[6] = 0
      /\ a[4] # b[4] => \/ k[4] = Lower(a[4], b[4])
                        \/ k[4] = 0 /\ k[5] = Lower(a[4], b[4])
                        \/ k[4] = 0 /\ k[5] = 0 /\ k[6] = Lower(a[4], b[4])
      /\ k[7] = Lower(a[5], b[5]) /\ k[8] = Lower(a[6], b[6])
      /\ a[4] = b[4] => k[9] = Lower(a[7], b[7])
      /\ k[10] = Lower(a[8], b[8])
      /\ a[7] = b[7] => k[11] = Lower(a[9], b[9])
      /\ k[12] = Lower(a[10], b[10]) /\ k[13] = Lower(a[11], b[11])
      /\ k[14] = Lower(a[12], b[12]) /\ a[12] # b[12]
  BY CheckFacts
<1>4. \A j \in 1..14 : k[j] # 0 /\ (\A i \in 1..(j - 1) : k[i] = 0)
                          => (bgp_info_cmp(n, e) <=> k[j] = 1)
  BY FirstCheck
<1> HIDE DEF a, b, k
<1>5. PICK m \in 1..12 : a[m] # b[m] /\ \A j \in 1..(m - 1) : a[j] = b[j]
  <2>1. 12 \in Nat /\ 12 \in 1..12
    OBVIOUS
  <2> QED
    BY <1>2, <1>3, <2>1, FirstDifference
<1>6. Worse(b, a) <=> b[m] > a[m]
  <2>1. b[m] # a[m] /\ \A j \in 1..(m - 1) : b[j] = a[j]
    BY <1>5
  <2> QED
    BY <1>2, <2>1, WorseAt
<1>7. a[m] \in Int /\ b[m] \in Int
  BY <1>2 DEF Tuple
<1>8. \A i \in 1..(m - 1) : Lower(a[i], b[i]) = 0
  BY <1>2, <1>5 DEF Lower, Tuple
<1>9. Lower(a[m], b[m]) # 0 /\ (Lower(a[m], b[m]) = 1 <=> b[m] > a[m])
  BY <1>5, <1>7 DEF Lower
<1>10. \E j \in 1..14 : k[j] = Lower(a[m], b[m]) /\ \A i \in 1..(j - 1) : k[i] = 0
  <2>1. CASE m = 1
    BY <1>3, <2>1
  <2>2. CASE m = 2
    <3>1. k[1] = 0 /\ k[2] = Lower(a[m], b[m])
      BY <1>3, <1>8, <2>2
    <3> QED
      BY <3>1
  <2>3. CASE m = 3
    <3>1. k[1] = 0 /\ k[2] = 0 /\ k[3] = Lower(a[m], b[m])
      BY <1>3, <1>8, <2>3
    <3> QED
      BY <3>1
  <2>4. CASE m = 4
    <3>1. k[1] = 0 /\ k[2] = 0 /\ k[3] = 0
      BY <1>3, <1>8, <2>4
    <3>2. \/ k[4] = Lower(a[m], b[m])
          \/ k[4] = 0 /\ k[5] = Lower(a[m], b[m])
          \/ k[4] = 0 /\ k[5] = 0 /\ k[6] = Lower(a[m], b[m])
      BY <1>3, <1>5, <2>4
    <3>3. CASE k[4] = Lower(a[m], b[m])
      BY <3>1, <3>3
    <3>4. CASE k[4] = 0 /\ k[5] = Lower(a[m], b[m])
      BY <3>1, <3>4
    <3>5. CASE k[4] = 0 /\ k[5] = 0 /\ k[6] = Lower(a[m], b[m])
      BY <3>1, <3>5
    <3> QED
      BY <3>2, <3>3, <3>4, <3>5
  <2>5. CASE m > 4
    <3>1. /\ k[1] = 0 /\ k[2] = 0 /\ k[3] = 0 /\ k[4] = 0 /\ k[5] = 0 /\ k[6] = 0
          /\ k[9] = Lower(a[7], b[7])
      BY <1>3, <1>5, <1>8, <2>5
    <3>2. /\ m > 5 => k[7] = 0
          /\ m > 6 => k[8] = 0
          /\ m > 7 => k[9] = 0 /\ k[11] = Lower(a[9], b[9])
          /\ m > 8 => k[10] = 0
          /\ m > 9 => k[11] = 0
          /\ m > 10 => k[12] = 0
          /\ m > 11 => k[13] = 0
      BY <1>3, <1>5, <1>8, <3>1
    <3>3. m + 2 \in 1..14 /\ \A i \in 1..(m + 1) : k[i] = 0
      BY <2>5, <3>1, <3>2
    <3>4. k[m + 2] = Lower(a[m], b[m])
      <4>1. m \in {5, 6, 7, 8, 9, 10, 11, 12}
        BY <2>5
      <4> QED
        BY <1>3, <3>1, <3>2, <4>1
    <3> QED
      BY <3>3, <3>4
  <2> QED
    BY <2>1, <2>2, <2>3, <2>4, <2>5
<1>11. bgp_info_cmp(n, e) <=> b[m] > a[m]
  BY <1>4, <1>9, <1>10
<1> QED
  BY <1>6, <1>11 DEF a, b

-----------------------------------------------------------------------------
(***************************************************************************)
(* A pass along the list.                                                  *)
(***************************************************************************)
\* The places of the usable routes.
Places(l) == {i \in 1..Len(l) : l[i].usable}

\* Usable lists them in the order of the list.
LEMMA UsableFacts ==
    ASSUME NEW l \in Seq(Route)
    PROVE  /\ Places(l) \subseteq Nat \ {0}
           /\ Usable(l) \in Seq(Places(l)) /\ ToSet(Usable(l)) = Places(l)
           /\ \A i, j \in 1..Len(Usable(l)) : i < j => Usable(l)[i] < Usable(l)[j]
<1> DEFINE s == [i \in 1..Len(l) |-> i]
           T == {i \in 1..Len(l) : l[i].usable}
           S == 1..Len(l)
<1>1. Len(l) \in Nat
  OBVIOUS
<1>2. /\ s \in Seq(S) /\ Len(s) = Len(l) /\ ToSet(s) = S
      /\ \A i \in 1..Len(l) : s[i] = i
  BY <1>1 DEF ToSet
<1>3. Usable(l) = Filter(s, T)
  BY DEF Usable
<1> HIDE DEF s, T
<1>4. Usable(l) \in Seq(S) /\ ToSet(Usable(l)) = S \cap T
  BY <1>2, <1>3, FilterSet
<1>5. S \cap T = Places(l)
  BY DEF Places, T
<1> HIDE DEF S
<1>6. Usable(l) \in Seq(Places(l))
  BY <1>4, <1>5 DEF ToSet
<1>7. ASSUME NEW i \in 1..Len(Usable(l)), NEW j \in 1..Len(Usable(l)), i < j
      PROVE  Usable(l)[i] < Usable(l)[j]
  <2>1. PICK k, m \in 1..Len(s) : k < m /\ Usable(l)[i] = s[k] /\ Usable(l)[j] = s[m]
    BY <1>2, <1>3, <1>7, FilterOrder
  <2> QED
    BY <1>2, <2>1
<1>8. Places(l) \subseteq Nat \ {0}
  BY <1>1 DEF Places
<1> QED
  BY <1>4, <1>5, <1>6, <1>7, <1>8

\* B[n] is the best of the first n places.
IsPass(B, l, P, places) ==
    /\ B \in [0..Len(places) -> P \cup {0}] /\ B[0] = 0
    /\ \A n \in 1..Len(places) :
          B[n] = IF B[n - 1] = 0 \/ bgp_info_cmp(l[places[n]], l[B[n - 1]])
                 THEN places[n] ELSE B[n - 1]

\* Best is computed place by place.
LEMMA BestComputes ==
    ASSUME NEW l, NEW P, NEW places \in Seq(P)
    PROVE  \E B : IsPass(B, l, P, places) /\ Best(l, places) = B[Len(places)]
<1> DEFINE N == Len(places)
           S == P \cup {0}
           Step(n, old) == IF old = 0 \/ bgp_info_cmp(l[places[n]], l[old])
                           THEN places[n] ELSE old
           step == [x \in (1..N) \X S |-> Step(x[1], x[2])]
           Body(B, n) == IF n = 0 THEN 0 ELSE Step(n, B[n - 1])
           best == CHOOSE B : B = [n \in 0..N |-> Body(B, n)]
           null == 0
<1>1. N \in Nat /\ 0 \in S /\ \A n \in 1..N : places[n] \in P
  OBVIOUS
<1>2. step \in Steps(N, S) /\ null \in S
  BY <1>1 DEF Steps
<1>3. \A n \in 1..N : \A old \in S : step[<<n, old>>] = Step(n, old)
  OBVIOUS
<1>4. Best(l, places) = best[N]
  BY DEF Best
<1> HIDE DEF N, S, step, Step
<1>5. PICK f : f \in [0..N -> S] /\ f[0] = null /\ \A n \in 1..N : f[n] = step[<<n, f[n - 1]>>]
  <2> HIDE DEF null
  <2>1. \E f : Follows(f, N, S, null, step)
    BY <1>1, <1>2, Recursion
  <2> QED
    BY <2>1 DEF Follows
<1>6. \A n \in 0..N : f[n] = Body(f, n)
  <2> SUFFICES ASSUME NEW n \in 0..N PROVE f[n] = Body(f, n)
    OBVIOUS
  <2>1. CASE n = 0
    BY <1>5, <2>1
  <2>2. CASE n # 0
    <3>1. n \in 1..N /\ n - 1 \in 0..N
      BY <1>1, <2>2
    <3> QED
      BY <1>3, <1>5, <2>2, <3>1
  <2> QED
    BY <2>1, <2>2
<1> HIDE DEF Body
<1>7. f = [n \in 0..N |-> Body(f, n)]
  BY <1>5, <1>6
<1>8. best = [n \in 0..N |-> Body(best, n)]
  BY <1>7
<1> HIDE DEF best
<1>9. \A n \in 0..N : best[n] = Body(best, n)
  <2> DEFINE g == [n \in 0..N |-> Body(best, n)]
  <2>1. \A n \in 0..N : g[n] = Body(best, n)
    OBVIOUS
  <2>2. best = g
    BY <1>8
  <2> HIDE DEF g
  <2> QED
    BY <2>1, <2>2
<1>10. best[0] = 0 /\ \A n \in 1..N : best[n] = Step(n, best[n - 1])
  BY <1>1, <1>9 DEF Body
<1> DEFINE I == {n \in Nat : n <= N => best[n] \in S}
<1>11. 0 \in I
  BY <1>1, <1>10
<1>12. ASSUME NEW n \in Nat, n \in I PROVE n + 1 \in I
  <2>1. CASE n + 1 <= N
    <3>1. n + 1 \in 1..N /\ (n + 1) - 1 = n /\ best[n] \in S
      BY <1>1, <1>12, <2>1
    <3>2. best[n + 1] = Step(n + 1, best[n])
      BY <1>10, <3>1
    <3>3. best[n + 1] \in S
      BY <1>1, <3>1, <3>2 DEF Step, S
    <3> QED
      BY <3>3
  <2>2. CASE ~(n + 1 <= N)
    BY <2>2
  <2> QED
    BY <2>1, <2>2
<1>13. \A n \in 0..N : best[n] \in S
  <2>1. \A n \in Nat : n \in I
    <3> HIDE DEF I
    <3> QED
      BY <1>11, <1>12, SetInduction
  <2> QED
    BY <1>1, <2>1
<1>14. best \in [0..N -> S]
  <2> DEFINE g == [n \in 0..N |-> Body(best, n)]
  <2>1. DOMAIN g = 0..N /\ g = [n \in DOMAIN g |-> g[n]]
    OBVIOUS
  <2>2. best = g
    BY <1>8
  <2> HIDE DEF g
  <2> QED
    BY <1>13, <2>1, <2>2
<1>15. IsPass(best, l, P, places)
  BY <1>10, <1>14 DEF IsPass, N, S, Step
<1> QED
  BY <1>4, <1>15 DEF N

\* The best is one of the places, or NULL.
LEMMA BestType ==
    ASSUME NEW l, NEW P, NEW places \in Seq(P)
    PROVE  Best(l, places) \in P \cup {0}
<1>1. PICK B : IsPass(B, l, P, places) /\ Best(l, places) = B[Len(places)]
  BY BestComputes
<1>2. Len(places) \in Nat
  OBVIOUS
<1> QED
  BY <1>1, <1>2 DEF IsPass

\* A pass ends with a place that is related to all the others, when the comparison
\* follows a relation that is transitive.
LEMMA PassFinds ==
    ASSUME NEW l, NEW P, 0 \notin P, NEW places \in Seq(P), NEW G,
           \A i \in P : <<i, i>> \in G,
           \A i, j, k \in P : <<i, j>> \in G /\ <<j, k>> \in G => <<i, k>> \in G,
           \A i, j \in P : i # j => IF bgp_info_cmp(l[i], l[j]) THEN <<i, j>> \in G
                                    ELSE <<j, i>> \in G
    PROVE  /\ Best(l, places) = 0 <=> ToSet(places) = {}
           /\ ToSet(places) # {} => Best(l, places) \in ToSet(places)
           /\ \A j \in ToSet(places) : <<Best(l, places), j>> \in G
<1> DEFINE N == Len(places)
<1>0. PICK B : IsPass(B, l, P, places) /\ Best(l, places) = B[Len(places)]
  BY BestComputes
<1>1. /\ B \in [0..N -> P \cup {0}] /\ Best(l, places) = B[N] /\ B[0] = 0
      /\ \A n \in 1..N :
            B[n] = IF B[n - 1] = 0 \/ bgp_info_cmp(l[places[n]], l[B[n - 1]])
                   THEN places[n] ELSE B[n - 1]
  BY <1>0 DEF IsPass
<1>2. N \in Nat /\ \A n \in 1..N : places[n] \in P
  OBVIOUS
<1>3. ToSet(places) = {places[n] : n \in 1..N}
  BY DEF ToSet
<1> HIDE DEF N
<1> DEFINE Found(n) == \A j \in 1..n : <<B[n], places[j]>> \in G
           From(n) == n > 0 => \E j \in 1..n : B[n] = places[j]
           I == {n \in Nat : n <= N => Found(n) /\ From(n)}
<1>4. 0 \in I
  OBVIOUS
<1>5. ASSUME NEW n \in Nat, n \in I PROVE n + 1 \in I
  <2>1. CASE n + 1 <= N
    <3> DEFINE new == places[n + 1]
               old == B[n]
    <3>1. Found(n) /\ From(n)
      BY <1>5, <2>1, <1>2
    <3>2. n + 1 \in 1..N /\ (n + 1) - 1 = n /\ new \in P /\ new # 0 /\ old \in P \cup {0}
      BY <1>1, <1>2, <2>1
    <3>3. B[n + 1] = IF old = 0 \/ bgp_info_cmp(l[new], l[old]) THEN new ELSE old
      BY <1>1, <3>2
    <3>4. \A j \in 1..n : places[j] \in P
      BY <1>2, <2>1
    <3>5. old = 0 => n = 0
      BY <3>1, <3>4
    <3>6. From(n + 1)
      <4>1. B[n + 1] = new \/ (B[n + 1] = old /\ old # 0)
        BY <3>3
      <4>2. CASE B[n + 1] = new
        BY <4>2, <3>2
      <4>3. CASE B[n + 1] = old /\ old # 0
        <5>1. n # 0
          BY <1>1, <4>3
        <5>2. PICK j \in 1..n : B[n] = places[j]
          BY <3>1, <5>1
        <5> QED
          BY <4>3, <5>2
      <4> QED
        BY <4>1, <4>2, <4>3
    <3>7. Found(n + 1)
      <4>1. CASE B[n + 1] = new
        <5>1. <<new, new>> \in G
          BY <3>2
        <5>2. ASSUME NEW j \in 1..n PROVE <<new, places[j]>> \in G
          <6>1. old \in P /\ <<old, places[j]>> \in G /\ places[j] \in P
            BY <3>1, <3>2, <3>4, <3>5
          <6>2. CASE old = new
            BY <6>1, <6>2
          <6>3. CASE old # new
            <7> HIDE DEF old, new
            <7>1. bgp_info_cmp(l[new], l[old])
              BY <3>2, <3>3, <4>1, <6>1, <6>3
            <7>2. <<new, old>> \in G
              BY <3>2, <6>1, <6>3, <7>1
            <7> QED
              BY <3>2, <6>1, <7>2
          <6> QED
            BY <6>2, <6>3
        <5>3. \A j \in 1..(n + 1) : j = n + 1 \/ j \in 1..n
          OBVIOUS
        <5> QED
          BY <4>1, <5>1, <5>2, <5>3
      <4>2. CASE B[n + 1] # new
        <5>1. B[n + 1] = old /\ old # 0 /\ ~bgp_info_cmp(l[new], l[old])
          BY <3>3, <4>2
        <5>2. old \in P /\ old # new
          BY <3>2, <5>1, <4>2
        <5>3. <<old, new>> \in G
          <6> HIDE DEF old, new
          <6> QED
            BY <3>2, <5>1, <5>2
        <5>4. \A j \in 1..(n + 1) : j = n + 1 \/ j \in 1..n
          OBVIOUS
        <5> QED
          BY <3>1, <5>1, <5>3, <5>4
      <4> QED
        BY <4>1, <4>2
    <3> HIDE DEF Found, From
    <3> QED
      BY <3>6, <3>7
  <2>2. CASE ~(n + 1 <= N)
    BY <2>2
  <2> QED
    BY <2>1, <2>2
<1>6. N \in I
  <2> HIDE DEF I
  <2> QED
    BY <1>2, <1>4, <1>5, SetInduction
<1>7. Found(N) /\ From(N)
  BY <1>2, <1>6
<1>8. CASE N = 0
  <2>1. ToSet(places) = {} /\ Best(l, places) = 0
    BY <1>1, <1>3, <1>8
  <2> QED
    BY <2>1
<1>9. CASE N # 0
  <2>1. PICK j \in 1..N : B[N] = places[j]
    BY <1>2, <1>7, <1>9
  <2>2. Best(l, places) \in ToSet(places) /\ Best(l, places) # 0
    BY <1>1, <1>2, <1>3, <2>1
  <2>3. \A k \in ToSet(places) : <<Best(l, places), k>> \in G
    BY <1>1, <1>3, <1>7
  <2> QED
    BY <2>2, <2>3
<1> QED
  BY <1>8, <1>9

-----------------------------------------------------------------------------
(***************************************************************************)
(* The groups of deterministic-med.                                        *)
(***************************************************************************)
\* What a route that is not checked yet gathers.
Gathered(l, i, checked) ==
    {j \in ToSet(Usable(l)) \ checked :
        j >= i /\ (j = i \/ SameNeighbourAS(l[i].path, l[j].path))}

Winner(l, group) == Best(l, Filter(Usable(l), group))

\* What GroupWinners has found so far.
Found(l) == [checked : SUBSET Places(l), winners : SUBSET (Places(l) \cup {0})]

GroupStep(l, n, acc) ==
    LET group == Gathered(l, Usable(l)[n], acc.checked)
    IN  IF Usable(l)[n] \in acc.checked THEN acc
        ELSE [checked |-> acc.checked \cup ToSet(Filter(Usable(l), group)),
              winners |-> acc.winners \cup {Winner(l, group)}]

\* What was found so far stays of this kind.
LEMMA GroupStepType ==
    ASSUME NEW l \in Seq(Route), NEW n \in 1..Len(Usable(l)), NEW acc \in Found(l)
    PROVE  GroupStep(l, n, acc) \in Found(l)
<1> DEFINE group == Gathered(l, Usable(l)[n], acc.checked)
           s == Filter(Usable(l), group)
           P == Places(l)
<1>1. Usable(l) \in Seq(P) /\ ToSet(Usable(l)) = P
  BY UsableFacts
<1> HIDE DEF group, P
<1>2. s \in Seq(P) /\ ToSet(s) \subseteq P
  BY <1>1, FilterSet
<1>3. Winner(l, group) \in P \cup {0}
  <2>1. s \in Seq(P) /\ Len(s) \in Nat
    BY <1>2
  <2> HIDE DEF s
  <2>2. Best(l, s) \in P \cup {0}
    BY <2>1, BestType
  <2> QED
    BY <2>2 DEF Winner, s
<1>4. acc.checked \subseteq P /\ acc.winners \subseteq P \cup {0}
  BY DEF Found, P
<1>5. [checked |-> acc.checked \cup ToSet(s), winners |-> acc.winners \cup {Winner(l, group)}]
          \in Found(l)
  <2> HIDE DEF s
  <2> QED
    BY <1>2, <1>3, <1>4 DEF Found, P
<1> QED
  BY <1>5 DEF GroupStep, group

\* GroupWinners is computed place by place.
LEMMA GroupComputes ==
    ASSUME NEW l \in Seq(Route)
    PROVE  \E A \in [0..Len(Usable(l)) -> Found(l)] :
              /\ GroupWinners(l) = A[Len(Usable(l))].winners
              /\ A[0] = [checked |-> {}, winners |-> {}]
              /\ \A n \in 1..Len(Usable(l)) : A[n] = GroupStep(l, n, A[n - 1])
<1> DEFINE N == Len(Usable(l))
           S == Found(l)
           first == [checked |-> {}, winners |-> {}]
           step == [x \in (1..N) \X S |-> GroupStep(l, x[1], x[2])]
           Body(A, n) == IF n = 0 THEN first ELSE GroupStep(l, n, A[n - 1])
           after == CHOOSE A : A = [n \in 0..N |-> Body(A, n)]
<1>1. N \in Nat /\ first \in S
  BY UsableFacts DEF Found
<1>2. \A n \in 1..N : \A acc \in S : GroupStep(l, n, acc) \in S
  BY GroupStepType
<1>3. step \in Steps(N, S)
  BY <1>2 DEF Steps
<1>4. \A n \in 1..N : \A acc \in S : step[<<n, acc>>] = GroupStep(l, n, acc)
  OBVIOUS
<1>5. GroupWinners(l) = after[N].winners
  BY DEF GroupWinners, GroupStep, Gathered, Winner
<1> HIDE DEF N, S, step, first
<1>6. PICK f : f \in [0..N -> S] /\ f[0] = first /\ \A n \in 1..N : f[n] = step[<<n, f[n - 1]>>]
  <2>1. \E f : Follows(f, N, S, first, step)
    BY <1>1, <1>3, Recursion
  <2> QED
    BY <2>1 DEF Follows
<1>7. \A n \in 0..N : f[n] = Body(f, n)
  <2> SUFFICES ASSUME NEW n \in 0..N PROVE f[n] = Body(f, n)
    OBVIOUS
  <2>1. CASE n = 0
    BY <1>6, <2>1
  <2>2. CASE n # 0
    <3>1. n \in 1..N /\ n - 1 \in 0..N
      BY <1>1, <2>2
    <3> QED
      BY <1>4, <1>6, <2>2, <3>1
  <2> QED
    BY <2>1, <2>2
<1> HIDE DEF Body
<1>8. f = [n \in 0..N |-> Body(f, n)]
  BY <1>6, <1>7
<1>9. after = [n \in 0..N |-> Body(after, n)]
  BY <1>8
<1> HIDE DEF after
<1>10. DOMAIN after = 0..N /\ (\A n \in 0..N : after[n] = Body(after, n))
       /\ after = [n \in DOMAIN after |-> after[n]]
  <2> DEFINE g == [n \in 0..N |-> Body(after, n)]
  <2>1. DOMAIN g = 0..N /\ (\A n \in 0..N : g[n] = Body(after, n))
        /\ g = [n \in DOMAIN g |-> g[n]]
    OBVIOUS
  <2>2. after = g
    BY <1>9
  <2> HIDE DEF g
  <2> QED
    BY <2>1, <2>2
<1>11. after[0] = first /\ \A n \in 1..N : after[n] = GroupStep(l, n, after[n - 1])
  BY <1>1, <1>10 DEF Body
<1> DEFINE I == {n \in Nat : n <= N => after[n] \in S}
<1>12. 0 \in I
  BY <1>1, <1>11
<1>13. ASSUME NEW n \in Nat, n \in I PROVE n + 1 \in I
  <2>1. CASE n + 1 <= N
    <3>1. n + 1 \in 1..N /\ (n + 1) - 1 = n /\ after[n] \in S
      BY <1>1, <1>13, <2>1
    <3>2. after[n + 1] \in S
      BY <1>2, <1>11, <3>1
    <3> QED
      BY <3>2
  <2>2. CASE ~(n + 1 <= N)
    BY <2>2
  <2> QED
    BY <2>1, <2>2
<1>14. \A n \in 0..N : after[n] \in S
  <2>1. \A n \in Nat : n \in I
    <3> HIDE DEF I
    <3> QED
      BY <1>12, <1>13, SetInduction
  <2> QED
    BY <1>1, <2>1
<1>15. after \in [0..N -> S]
  BY <1>10, <1>14
<1> QED
  BY <1>5, <1>11, <1>15 DEF N, S, first

\* No peer is in a confederation.
NoConfederation == \A q \in Peer : \A path \in Paths[q] : path.leftConfed = None

AllSound(l) == l \in Seq(Route) /\ \A i \in 1..Len(l) : Sound(l[i])

SameAS(l, i, j) == SameNeighbourAS(l[i].path, l[j].path)

\* Without confederations routes have the same neighbouring AS when they have
\* the same first AS.
LEMMA SameASFacts ==
    ASSUME NoConfederation, NEW l, AllSound(l)
    PROVE  \A i, j, k \in Places(l) :
              SameAS(l, i, j) => SameAS(l, j, i) /\ (SameAS(l, j, k) => SameAS(l, i, k))
<1>1. \A i \in Places(l) : l[i].path.leftConfed = None
  BY DEF NoConfederation, AllSound, Sound, Places, Route
<1> QED
  BY <1>1 DEF SameAS, SameNeighbourAS, aspath_cmp_left, aspath_cmp_left_confed

\* A route and those of its neighbouring AS; without confederations all of them.
IsGroup(l, G) ==
    /\ G \subseteq Places(l)
    /\ \E i \in G :
          /\ \A j \in G : j = i \/ SameAS(l, i, j)
          /\ NoConfederation => \A j \in Places(l) : SameAS(l, i, j) => j \in G

\* Every route is in a group, and the winners are the best routes of the groups.
LEMMA GroupsCover ==
    ASSUME NEW l, AllSound(l)
    PROVE  /\ \A w \in GroupWinners(l) : \E G : IsGroup(l, G) /\ w = Winner(l, G)
           /\ \A j \in Places(l) :
                 \E G : IsGroup(l, G) /\ j \in G /\ Winner(l, G) \in GroupWinners(l)
<1> DEFINE N == Len(Usable(l))
           P == Places(l)
<1>1. /\ l \in Seq(Route) /\ P \subseteq Nat \ {0} /\ Usable(l) \in Seq(P)
      /\ ToSet(Usable(l)) = P
      /\ \A i, j \in 1..N : i < j => Usable(l)[i] < Usable(l)[j]
  BY UsableFacts DEF AllSound
<1>2. N \in Nat /\ (\A n \in 1..N : Usable(l)[n] \in P)
      /\ \A j \in P : \E n \in 1..N : Usable(l)[n] = j
  BY <1>1 DEF ToSet
<1>3. PICK A \in [0..N -> Found(l)] :
              /\ GroupWinners(l) = A[N].winners
              /\ A[0] = [checked |-> {}, winners |-> {}]
              /\ \A n \in 1..N : A[n] = GroupStep(l, n, A[n - 1])
  BY <1>1, GroupComputes
<1> HIDE DEF N, P
<1> DEFINE Passed(n) == \A m \in 1..n : Usable(l)[m] \in A[n].checked
           Winners(n) == \A w \in A[n].winners : \E G : IsGroup(l, G) /\ w = Winner(l, G)
           Covered(n) == \A j \in A[n].checked :
                            \E G : IsGroup(l, G) /\ j \in G /\ Winner(l, G) \in A[n].winners
           Closed(n) == NoConfederation =>
                           \A i \in A[n].checked, j \in P : SameAS(l, i, j) => j \in A[n].checked
           I == {n \in Nat : n <= N => Passed(n) /\ Winners(n) /\ Covered(n) /\ Closed(n)}
<1>4. 0 \in I
  <2>1. A[0].checked = {} /\ A[0].winners = {}
    BY <1>3
  <2> QED
    BY <2>1
<1>5. ASSUME NEW n \in Nat, n \in I PROVE n + 1 \in I
  <2>1. CASE n + 1 <= N
    <3> DEFINE i == Usable(l)[n + 1]
               old == A[n]
               new == A[n + 1]
               G == Gathered(l, i, old.checked)
    <3>1. Passed(n) /\ Winners(n) /\ Covered(n) /\ Closed(n)
      BY <1>2, <1>5, <2>1
    <3>2. n + 1 \in 1..N /\ (n + 1) - 1 = n /\ n \in 0..N
      BY <1>2, <2>1
    <3>3. i \in P /\ old \in Found(l) /\ new = GroupStep(l, n + 1, old)
      BY <1>2, <1>3, <3>2
    <3>4. CASE i \in old.checked
      <4>1. new = old
        BY <3>3, <3>4 DEF GroupStep
      <4>2. Passed(n + 1)
        <5>1. \A m \in 1..(n + 1) : m \in 1..n \/ m = n + 1
          OBVIOUS
        <5> QED
          BY <3>1, <3>4, <4>1, <5>1
      <4>3. Winners(n + 1) /\ Covered(n + 1) /\ Closed(n + 1)
        BY <3>1, <4>1
      <4> HIDE DEF Passed, Winners, Covered, Closed
      <4> QED
        BY <4>2, <4>3
    <3>5. CASE i \notin old.checked
      <4>1. ToSet(Filter(Usable(l), G)) = G /\ G \subseteq P
        <5>1. G \subseteq P
          BY <1>1 DEF Gathered
        <5> HIDE DEF G
        <5>2. ToSet(Filter(Usable(l), G)) = P \cap G
          BY <1>1, FilterSet
        <5> QED
          BY <5>1, <5>2
      <4>2. new = [checked |-> old.checked \cup G, winners |-> old.winners \cup {Winner(l, G)}]
        BY <3>3, <3>5, <4>1 DEF GroupStep
      <4>3. new.checked = old.checked \cup G /\ new.winners = old.winners \cup {Winner(l, G)}
        BY <4>2
      <4>4. \A j : j \in G <=> j \in P /\ j \notin old.checked /\ j >= i
                                /\ (j = i \/ SameAS(l, i, j))
        BY <1>1 DEF Gathered, SameAS
      <4>5. i \in G
        <5> HIDE DEF G, i
        <5>1. i \in Nat
          BY <1>1, <3>3
        <5> QED
          BY <3>3, <3>5, <4>4, <5>1
      <4>6. ASSUME NoConfederation, NEW j \in P, SameAS(l, i, j) PROVE j \in G
        <5>1. SameAS(l, j, i)
          BY <3>3, <4>6, SameASFacts DEF P
        <5>2. j \notin old.checked
          BY <3>1, <3>3, <3>5, <4>6, <5>1
        <5>3. PICK m \in 1..N : Usable(l)[m] = j
          BY <1>2
        <5>4. m \notin 1..n
          BY <3>1, <5>2, <5>3
        <5>5. m = n + 1 \/ m > n + 1
          BY <1>2, <5>4
        <5>6. j >= i
          <6>1. i \in Nat /\ j \in Nat
            BY <1>1, <3>3
          <6>2. CASE m = n + 1
            BY <5>3, <6>1, <6>2
          <6>3. CASE m > n + 1
            <7>1. i < j
              BY <1>1, <3>2, <5>3, <6>3
            <7> HIDE DEF i
            <7> QED
              BY <6>1, <7>1
          <6> QED
            BY <5>5, <6>2, <6>3
        <5> QED
          BY <4>4, <4>6, <5>2, <5>6
      <4>7. IsGroup(l, G)
        <5>1. \A j \in G : j = i \/ SameAS(l, i, j)
          BY <4>4
        <5>2. NoConfederation => \A j \in Places(l) : SameAS(l, i, j) => j \in G
          BY <4>6 DEF P
        <5> HIDE DEF G, i
        <5> QED
          BY <4>1, <4>5, <5>1, <5>2 DEF IsGroup, P
      <4>8. Passed(n + 1)
        <5>1. \A m \in 1..(n + 1) : m \in 1..n \/ m = n + 1
          OBVIOUS
        <5> QED
          BY <3>1, <4>3, <4>5, <5>1
      <4>9. Winners(n + 1)
        BY <3>1, <4>3, <4>7
      <4>10. Covered(n + 1)
        <5> SUFFICES ASSUME NEW j \in new.checked
                     PROVE  \E H : IsGroup(l, H) /\ j \in H /\ Winner(l, H) \in new.winners
          OBVIOUS
        <5> HIDE DEF G, new
        <5>1. CASE j \in G
          BY <4>3, <4>7, <5>1
        <5>2. CASE j \in old.checked
          <6>1. PICK H : IsGroup(l, H) /\ j \in H /\ Winner(l, H) \in old.winners
            BY <3>1, <5>2
          <6> QED
            BY <4>3, <6>1
        <5> QED
          BY <4>3, <5>1, <5>2
      <4>11. Closed(n + 1)
        <5> SUFFICES ASSUME NoConfederation, NEW k \in new.checked, NEW j \in P, SameAS(l, k, j)
                     PROVE  j \in new.checked
          OBVIOUS
        <5>1. CASE k \in G
          <6>1. k \in P /\ (k = i \/ SameAS(l, i, k))
            BY <4>4, <5>1
          <6>2. SameAS(l, i, j)
            BY <3>3, <6>1, SameASFacts DEF P
          <6> QED
            BY <4>3, <4>6, <6>2
        <5>2. CASE k \in old.checked
          BY <3>1, <4>3, <5>2
        <5> QED
          BY <4>3, <5>1, <5>2
      <4> HIDE DEF Passed, Winners, Covered, Closed
      <4> QED
        BY <4>8, <4>9, <4>10, <4>11
    <3> QED
      BY <3>4, <3>5
  <2>2. CASE ~(n + 1 <= N)
    BY <2>2
  <2> QED
    BY <2>1, <2>2
<1>6. N \in I
  <2> HIDE DEF I
  <2> QED
    BY <1>2, <1>4, <1>5, SetInduction
<1>7. Passed(N) /\ Winners(N) /\ Covered(N)
  BY <1>2, <1>6
<1> QED
  BY <1>2, <1>3, <1>7 DEF P

-----------------------------------------------------------------------------
(***************************************************************************)
(* What the selection finds.                                               *)
(***************************************************************************)
\* Each peer has one route, and at most one is selected.
Distinct(l) ==
    \A i, j \in 1..Len(l) :
        l[i].peer = l[j].peer \/ (l[i].selected /\ l[j].selected) => i = j

NoWorse(l, c, i, j) == ~Worse(Key(l[i], c), Key(l[j], c))

\* The order of the places by their keys.
LEMMA KeyOrder ==
    ASSUME NEW l, AllSound(l), NEW c \in BOOLEAN
    PROVE  /\ \A i \in Places(l) : NoWorse(l, c, i, i)
           /\ \A i, j, k \in Places(l) :
                 NoWorse(l, c, i, j) /\ NoWorse(l, c, j, k) => NoWorse(l, c, i, k)
<1>1. \A i \in Places(l) : Key(l[i], c) \in Tuple(12)
  BY KeyType DEF AllSound, Places
<1>2. 12 \in Nat
  OBVIOUS
<1>3. ASSUME NEW i \in Places(l) PROVE NoWorse(l, c, i, i)
  <2> DEFINE a == Key(l[i], c)
             n == 12
  <2>1. a \in Tuple(n) /\ n \in Nat
    BY <1>1
  <2> HIDE DEF a, n
  <2>2. ~Worse(a, a)
    BY <2>1, WorseOneWay
  <2> QED
    BY <2>2 DEF NoWorse, a
<1>4. ASSUME NEW i \in Places(l), NEW j \in Places(l), NEW k \in Places(l),
             NoWorse(l, c, i, j), NoWorse(l, c, j, k)
      PROVE  NoWorse(l, c, i, k)
  <2> DEFINE x == Key(l[i], c)
             y == Key(l[j], c)
             z == Key(l[k], c)
             n == 12
  <2>1. x \in Tuple(n) /\ y \in Tuple(n) /\ z \in Tuple(n) /\ n \in Nat
    BY <1>1
  <2>2. ~Worse(x, y) /\ ~Worse(y, z)
    BY <1>4 DEF NoWorse
  <2> HIDE DEF x, y, z, n
  <2>3. ~Worse(x, z)
    BY <2>1, <2>2, WorseChain
  <2> QED
    BY <2>3 DEF NoWorse, x, z
<1> QED
  BY <1>3, <1>4

\* Two routes of which neither is worse are the same one: addresses differ.
LEMMA KeyUnique ==
    ASSUME NEW x, Sound(x), NEW y, Sound(y), NEW c \in BOOLEAN,
           ~Worse(Key(x, c), Key(y, c)), ~Worse(Key(y, c), Key(x, c))
    PROVE  x.peer = y.peer
<1> DEFINE a == Key(x, c)
           b == Key(y, c)
           n == 12
<1>1. a \in Tuple(n) /\ b \in Tuple(n) /\ n \in Nat /\ n \in 1..n
  BY KeyType
<1>2. a[n] = Address[x.peer] /\ b[n] = Address[y.peer]
  BY DEF Key
<1>3. ~Worse(a, b) /\ ~Worse(b, a)
  OBVIOUS
<1> HIDE DEF a, b, n
<1>4. a[n] = b[n]
  BY <1>1, <1>3, WorseTotal
<1>5. x.peer \in Peer /\ y.peer \in Peer
  BY DEF Sound, Route
<1> QED
  BY <1>2, <1>4, <1>5, PeerAssumption

\* A pass over routes whose MEDs are all comparable, or are all not, finds one that
\* is not worse than any of them.
LEMMA PassBest ==
    ASSUME NEW l, AllSound(l), Distinct(l), NEW S, S \subseteq Places(l), NEW c \in BOOLEAN,
           \A i, j \in S : i # j => MedComparable(l[i].path, l[j].path) = c,
           NEW places \in Seq(S)
    PROVE  \A j \in ToSet(places) : NoWorse(l, c, Best(l, places), j)
<1> DEFINE G == {e \in S \X S : NoWorse(l, c, e[1], e[2])}
<1>1. \A i, j \in S : <<i, j>> \in G <=> NoWorse(l, c, i, j)
  OBVIOUS
<1>2. G \subseteq S \X S
  OBVIOUS
<1>3. 0 \notin S
  BY DEF Places
<1> HIDE DEF G
<1>4. \A i \in S : <<i, i>> \in G
  BY <1>1, KeyOrder
<1>5. \A i, j, k \in S : <<i, j>> \in G /\ <<j, k>> \in G => <<i, k>> \in G
  BY <1>1, KeyOrder
<1>6. ASSUME NEW i \in S, NEW j \in S, i # j
      PROVE  IF bgp_info_cmp(l[i], l[j]) THEN <<i, j>> \in G ELSE <<j, i>> \in G
  <2> DEFINE x == l[i]
             y == l[j]
             a == Key(x, c)
             b == Key(y, c)
             n == 12
  <2>1. Sound(x) /\ Sound(y) /\ x.peer # y.peer /\ ~(x.selected /\ y.selected)
    BY <1>6 DEF AllSound, Distinct, Places
  <2>2. c = MedComparable(x.path, y.path)
    BY <1>6
  <2>3. a \in Tuple(n) /\ b \in Tuple(n) /\ n \in Nat
    BY <2>1, KeyType
  <2>4. bgp_info_cmp(x, y) <=> Worse(b, a)
    <3> HIDE DEF x, y
    <3> QED
      BY <2>1, <2>2, Compares
  <2>5. Worse(b, a) => ~Worse(a, b)
    <3> HIDE DEF a, b, n
    <3> QED
      BY <2>3, WorseOneWay
  <2>6. (<<i, j>> \in G <=> ~Worse(a, b)) /\ (<<j, i>> \in G <=> ~Worse(b, a))
    BY <1>1 DEF NoWorse
  <2> QED
    BY <2>4, <2>5, <2>6
<1>7. \A j \in ToSet(places) : <<Best(l, places), j>> \in G
  BY <1>3, <1>4, <1>5, <1>6, PassFinds
<1> QED
  BY <1>1, <1>2, <1>7

\* A pass over some places ends with one of them.
LEMMA PassEnds ==
    ASSUME NEW l, NEW S, 0 \notin S, NEW places \in Seq(S)
    PROVE  /\ Best(l, places) = 0 <=> ToSet(places) = {}
           /\ ToSet(places) # {} => Best(l, places) \in ToSet(places)
<1> DEFINE G == S \X S
<1>1. \A i, j \in S : <<i, j>> \in G
  OBVIOUS
<1> HIDE DEF G
<1> QED
  BY <1>1, PassFinds

\* The usable routes at some of the places, in the order of the list.
LEMMA FilterPlaces ==
    ASSUME NEW l, AllSound(l), NEW S, S \subseteq Places(l)
    PROVE  Filter(Usable(l), S) \in Seq(S) /\ ToSet(Filter(Usable(l), S)) = S
<1> DEFINE P == Places(l)
           s == Usable(l)
           t == Filter(s, S)
<1>1. s \in Seq(P) /\ ToSet(s) = P
  BY UsableFacts DEF AllSound
<1> HIDE DEF P, s
<1>2. t \in Seq(P) /\ ToSet(t) = S
  <2>1. t \in Seq(P) /\ ToSet(t) = P \cap S
    BY <1>1, FilterSet
  <2> QED
    BY <2>1 DEF P
<1> HIDE DEF t
<1>3. t \in Seq(S)
  BY <1>2 DEF ToSet
<1> QED
  BY <1>2, <1>3 DEF t, s

\* The winner of a group is the best route of it, where MED is comparable.
LEMMA GroupBest ==
    ASSUME NEW l, AllSound(l), Distinct(l), NEW G, IsGroup(l, G)
    PROVE  /\ Winner(l, G) \in G
           /\ "ALWAYS_COMPARE_MED" \in config \/ NoConfederation
                 => \A j \in G : NoWorse(l, TRUE, Winner(l, G), j)
<1> DEFINE s == Filter(Usable(l), G)
<1>1. G \subseteq Places(l) /\ G # {} /\ 0 \notin G
  BY DEF IsGroup, Places
<1>2. s \in Seq(G) /\ ToSet(s) = G
  BY <1>1, FilterPlaces
<1>3. Winner(l, G) = Best(l, s)
  BY DEF Winner
<1> HIDE DEF s
<1>4. Winner(l, G) \in G
  BY <1>1, <1>2, <1>3, PassEnds
<1>5. ASSUME "ALWAYS_COMPARE_MED" \in config \/ NoConfederation
      PROVE  \A j \in G : NoWorse(l, TRUE, Winner(l, G), j)
  <2> DEFINE c == TRUE
  <2>1. ASSUME NEW i \in G, NEW j \in G, i # j PROVE MedComparable(l[i].path, l[j].path) = c
    <3>1. CASE "ALWAYS_COMPARE_MED" \in config
      BY <3>1 DEF MedComparable
    <3>2. CASE NoConfederation
      <4>1. PICK h \in G : \A k \in G : k = h \/ SameAS(l, h, k)
        BY DEF IsGroup
      <4>2. SameAS(l, i, j)
        BY <1>1, <2>1, <3>2, <4>1, SameASFacts
      <4> QED
        BY <4>2 DEF SameAS, MedComparable
    <3> QED
      BY <1>5, <3>1, <3>2
  <2>2. c \in BOOLEAN
    OBVIOUS
  <2>3. \A j \in ToSet(s) : NoWorse(l, c, Best(l, s), j)
    <3> HIDE DEF c
    <3> QED
      BY <1>1, <1>2, <2>1, <2>2, PassBest
  <2> QED
    BY <1>2, <1>3, <2>3
<1> QED
  BY <1>4, <1>5

\* The winners of all the groups.
LEMMA WinnerFacts ==
    ASSUME NEW l, AllSound(l), Distinct(l)
    PROVE  /\ GroupWinners(l) \subseteq Places(l)
           /\ GroupWinners(l) = {} => Places(l) = {}
           /\ "ALWAYS_COMPARE_MED" \in config =>
                 \A j \in Places(l) : \E w \in GroupWinners(l) : NoWorse(l, TRUE, w, j)
           /\ NoConfederation =>
                 /\ \A w \in GroupWinners(l), j \in Places(l) :
                       SameAS(l, w, j) => NoWorse(l, TRUE, w, j)
                 /\ \A j \in Places(l) : \E w \in GroupWinners(l) : j = w \/ SameAS(l, j, w)
<1> DEFINE P == Places(l)
           W == GroupWinners(l)
<1>1. \A w \in W : \E G : IsGroup(l, G) /\ w = Winner(l, G)
  BY GroupsCover
<1>2. \A j \in P : \E G : IsGroup(l, G) /\ j \in G /\ Winner(l, G) \in W
  BY GroupsCover
<1>3. \A G : IsGroup(l, G) => G \subseteq P
  BY DEF IsGroup
<1>4. \A G : IsGroup(l, G) =>
         /\ Winner(l, G) \in G
         /\ "ALWAYS_COMPARE_MED" \in config \/ NoConfederation
               => \A j \in G : NoWorse(l, TRUE, Winner(l, G), j)
  BY GroupBest
<1> HIDE DEF P, W
<1>5. W \subseteq P
  BY <1>1, <1>3, <1>4
<1>6. W = {} => P = {}
  BY <1>2
<1>7. ASSUME "ALWAYS_COMPARE_MED" \in config, NEW j \in P
      PROVE  \E w \in W : NoWorse(l, TRUE, w, j)
  BY <1>2, <1>4, <1>7
<1>8. ASSUME NoConfederation, NEW w \in W, NEW j \in P, SameAS(l, w, j)
      PROVE  NoWorse(l, TRUE, w, j)
  <2>1. PICK G : IsGroup(l, G) /\ w = Winner(l, G)
    BY <1>1
  <2>2. PICK h \in G : /\ \A k \in G : k = h \/ SameAS(l, h, k)
                       /\ \A k \in Places(l) : SameAS(l, h, k) => k \in G
    BY <1>8, <2>1 DEF IsGroup
  <2>3. w \in G /\ h \in P /\ w \in P
    BY <1>3, <1>4, <2>1
  <2>4. SameAS(l, h, j)
    BY <1>8, <2>2, <2>3, SameASFacts DEF P
  <2>5. j \in G
    BY <2>2, <2>4 DEF P
  <2> QED
    BY <1>4, <1>8, <2>1, <2>5
<1>9. ASSUME NoConfederation, NEW j \in P PROVE \E w \in W : j = w \/ SameAS(l, j, w)
  <2>1. PICK G : IsGroup(l, G) /\ j \in G /\ Winner(l, G) \in W
    BY <1>2
  <2>2. PICK h \in G : \A k \in G : k = h \/ SameAS(l, h, k)
    BY <2>1 DEF IsGroup
  <2> DEFINE w == Winner(l, G)
  <2>3. w \in G /\ h \in P /\ w \in P
    BY <1>3, <1>4, <2>1
  <2>4. (j = h \/ SameAS(l, h, j)) /\ (w = h \/ SameAS(l, h, w))
    BY <2>1, <2>2, <2>3
  <2> HIDE DEF w
  <2>5. j = w \/ SameAS(l, j, w)
    BY <1>9, <2>3, <2>4, SameASFacts DEF P
  <2> QED
    BY <2>1, <2>5 DEF w
<1> QED
  BY <1>5, <1>6, <1>7, <1>8, <1>9 DEF P, W

\* A route that no route of its neighbouring AS is better than.
BestOfAS(l, j) == \A k \in Places(l) : SameAS(l, j, k) => NoWorse(l, TRUE, j, k)

\* Where the order of the routes in the list cannot decide.
Separable(l) ==
    /\ {"DETERMINISTIC_MED", "COMPARE_ROUTER_ID"} \subseteq config /\ NoConfederation
    /\ \A i \in Places(l) : l[i].path.hops > 0

\* How good the route at a place is, under the options that promise something.
IsBest(l, i) ==
    /\ "ALWAYS_COMPARE_MED" \in config => \A j \in Places(l) : NoWorse(l, TRUE, i, j)
    /\ "DETERMINISTIC_MED" \in config /\ NoConfederation => BestOfAS(l, i)
    /\ "ALWAYS_COMPARE_MED" \notin config /\ Separable(l) =>
          \A j \in Places(l) : BestOfAS(l, j) => NoWorse(l, FALSE, i, j)

\* What bgp_best_selection finds.
LEMMA SelectionFinds ==
    ASSUME NEW l, AllSound(l), Distinct(l)
    PROVE  /\ bgp_best_selection(l) = 0 <=> Places(l) = {}
           /\ bgp_best_selection(l) \in Places(l) \cup {0}
           /\ bgp_best_selection(l) # 0 => IsBest(l, bgp_best_selection(l))
<1> DEFINE P == Places(l)
           S == IF "DETERMINISTIC_MED" \in config THEN GroupWinners(l) ELSE P
           s == Filter(Usable(l), S)
           u == Usable(l)
           b == bgp_best_selection(l)
<1>1. u \in Seq(P) /\ ToSet(u) = P
  BY UsableFacts DEF AllSound
<1>2. PICK t : t \in Seq(S) /\ ToSet(t) = S /\ b = Best(l, t)
  <2>1. CASE "DETERMINISTIC_MED" \in config
    <3>1. b = Best(l, s)
      BY <2>1 DEF bgp_best_selection
    <3>2. S \subseteq P
      BY <2>1, WinnerFacts
    <3>3. s \in Seq(S) /\ ToSet(s) = S
      <4> HIDE DEF S
      <4> QED
        BY <3>2, FilterPlaces
    <3> QED
      BY <3>1, <3>3
  <2>2. CASE "DETERMINISTIC_MED" \notin config
    <3>1. b = Best(l, u) /\ S = P
      BY <2>2 DEF bgp_best_selection
    <3> QED
      BY <1>1, <3>1
  <2> QED
    BY <2>1, <2>2
<1>3. S \subseteq P /\ (S = {} <=> P = {}) /\ 0 \notin P /\ 0 \notin S
  <2>1. GroupWinners(l) \subseteq P /\ (GroupWinners(l) = {} => P = {})
    BY WinnerFacts
  <2>2. 0 \notin P
    BY DEF Places
  <2> HIDE DEF P
  <2> QED
    BY <2>1, <2>2
<1>4. "ALWAYS_COMPARE_MED" \in config =>
         \A j \in P : \E w \in S : NoWorse(l, TRUE, w, j)
  <2>1. TRUE \in BOOLEAN
    OBVIOUS
  <2>2. \A i \in Places(l) : NoWorse(l, TRUE, i, i)
    BY <2>1, KeyOrder
  <2> QED
    BY <2>2, WinnerFacts
<1>5. "DETERMINISTIC_MED" \in config /\ NoConfederation =>
         /\ \A w \in S, j \in P : SameAS(l, w, j) => NoWorse(l, TRUE, w, j)
         /\ \A j \in P : \E w \in S : j = w \/ SameAS(l, j, w)
  BY WinnerFacts
<1> HIDE DEF S, P, s, u, b
<1>6. (b = 0 <=> S = {}) /\ (S # {} => b \in S)
  BY <1>2, <1>3, PassEnds
<1>7. (b = 0 <=> P = {}) /\ b \in P \cup {0}
  BY <1>3, <1>6
<1>8. ASSUME "ALWAYS_COMPARE_MED" \in config, NEW j \in P PROVE NoWorse(l, TRUE, b, j)
  <2> DEFINE c == TRUE
  <2>1. c \in BOOLEAN /\ \A i, k \in S : i # k => MedComparable(l[i].path, l[k].path) = c
    BY <1>8 DEF MedComparable
  <2>2. PICK w \in S : NoWorse(l, c, w, j)
    BY <1>4, <1>8
  <2> HIDE DEF c
  <2>3. NoWorse(l, c, b, w)
    BY <1>2, <1>3, <2>1, PassBest DEF P
  <2>4. b \in P /\ w \in P
    BY <1>3, <1>6
  <2>5. NoWorse(l, c, b, j)
    BY <1>8, <2>1, <2>2, <2>3, <2>4, KeyOrder DEF P
  <2> QED
    BY <2>5 DEF c
<1>9. ASSUME "DETERMINISTIC_MED" \in config, NoConfederation, b # 0 PROVE BestOfAS(l, b)
  BY <1>5, <1>6, <1>9 DEF BestOfAS, P
<1>10. ASSUME "DETERMINISTIC_MED" \in config, NoConfederation, b # 0,
              "ALWAYS_COMPARE_MED" \notin config, \A i \in P : l[i].path.hops > 0,
              NEW j \in P, BestOfAS(l, j)
       PROVE  NoWorse(l, FALSE, b, j)
  <2> DEFINE c == FALSE
             med == TRUE
  <2>1. \A i, k \in P : SameAS(l, i, k) => SameAS(l, k, i)
    BY <1>10, SameASFacts DEF P
  <2>2. ASSUME NEW i \in P, NEW k \in P, BestOfAS(l, i), BestOfAS(l, k), SameAS(l, i, k)
        PROVE  i = k
    <3>1. NoWorse(l, med, i, k) /\ NoWorse(l, med, k, i) /\ med \in BOOLEAN
      BY <2>1, <2>2 DEF BestOfAS, P
    <3>2. Sound(l[i]) /\ Sound(l[k]) /\ i \in 1..Len(l) /\ k \in 1..Len(l)
      BY DEF AllSound, P, Places
    <3> DEFINE x == l[i]
               y == l[k]
    <3>3. ~Worse(Key(x, med), Key(y, med)) /\ ~Worse(Key(y, med), Key(x, med))
      BY <3>1 DEF NoWorse
    <3>4. x.peer = y.peer
      <4> HIDE DEF x, y, med
      <4>1. Sound(x) /\ Sound(y)
        BY <3>2 DEF x, y
      <4> QED
        BY <3>1, <3>3, <4>1, KeyUnique
    <3> QED
      BY <3>2, <3>4 DEF Distinct
  <2>3. \A w \in S : w \in P /\ BestOfAS(l, w)
    BY <1>3, <1>5, <1>10 DEF BestOfAS, P
  <2>4. j \in S
    <3>1. PICK w \in S : j = w \/ SameAS(l, j, w)
      BY <1>5, <1>10
    <3> QED
      BY <1>10, <2>2, <2>3, <3>1
  <2>5. ASSUME NEW i \in S, NEW k \in S, i # k
        PROVE  MedComparable(l[i].path, l[k].path) = c
    <3>1. ~SameAS(l, i, k)
      BY <2>2, <2>3, <2>5
    <3>2. l[i].path.hops # 0
      BY <1>10, <2>3
    <3> QED
      BY <1>10, <3>1, <3>2 DEF MedComparable, SameAS
  <2>6. c \in BOOLEAN
    OBVIOUS
  <2> HIDE DEF c
  <2>7. NoWorse(l, c, b, j)
    BY <1>2, <1>3, <2>4, <2>5, <2>6, PassBest DEF P
  <2> QED
    BY <2>7 DEF c
<1>11. b # 0 => IsBest(l, b)
  <2> SUFFICES ASSUME b # 0 PROVE IsBest(l, b)
    OBVIOUS
  <2>1. "ALWAYS_COMPARE_MED" \in config => \A j \in Places(l) : NoWorse(l, TRUE, b, j)
    BY <1>8 DEF P
  <2>2. "DETERMINISTIC_MED" \in config /\ NoConfederation => BestOfAS(l, b)
    BY <1>9
  <2>3. "ALWAYS_COMPARE_MED" \notin config /\ Separable(l) =>
          \A j \in Places(l) : BestOfAS(l, j) => NoWorse(l, FALSE, b, j)
    BY <1>10 DEF P, Separable
  <2> QED
    BY <2>1, <2>2, <2>3 DEF IsBest
<1> QED
  BY <1>7, <1>11 DEF P, b

\* Only one route is.
LEMMA BestUnique ==
    ASSUME NEW l, AllSound(l), Distinct(l), NEW i \in Places(l), NEW k \in Places(l),
           IsBest(l, i), IsBest(l, k), "ALWAYS_COMPARE_MED" \in config \/ Separable(l)
    PROVE  i = k
<1>1. \E c \in BOOLEAN : NoWorse(l, c, i, k) /\ NoWorse(l, c, k, i)
  <2>1. CASE "ALWAYS_COMPARE_MED" \in config
    BY <2>1 DEF IsBest
  <2>2. CASE "ALWAYS_COMPARE_MED" \notin config /\ Separable(l)
    <3>1. BestOfAS(l, i) /\ BestOfAS(l, k)
      BY <2>2 DEF IsBest, Separable
    <3>2. NoWorse(l, FALSE, i, k) /\ NoWorse(l, FALSE, k, i)
      BY <2>2, <3>1 DEF IsBest
    <3> QED
      BY <3>2
  <2> QED
    BY <2>1, <2>2
<1>2. PICK c \in BOOLEAN : NoWorse(l, c, i, k) /\ NoWorse(l, c, k, i)
  BY <1>1
<1> DEFINE x == l[i]
           y == l[k]
<1>3. Sound(x) /\ Sound(y) /\ i \in 1..Len(l) /\ k \in 1..Len(l)
  BY DEF AllSound, Places
<1>4. ~Worse(Key(x, c), Key(y, c)) /\ ~Worse(Key(y, c), Key(x, c))
  BY <1>2 DEF NoWorse
<1>5. x.peer = y.peer
  <2> HIDE DEF x, y
  <2> QED
    BY <1>3, <1>4, KeyUnique
<1> QED
  BY <1>3, <1>5 DEF Distinct

-----------------------------------------------------------------------------
(***************************************************************************)
(* Marking the best route.                                                 *)
(***************************************************************************)
Mark(r, best) == [r EXCEPT !.selected = best]

\* Marking changes nothing but the mark.
LEMMA MarkFacts ==
    ASSUME NEW r, Sound(r), NEW best \in BOOLEAN
    PROVE  /\ Sound(Mark(r, best)) /\ Mark(r, best).selected = best
           /\ Mark(r, best).peer = r.peer /\ Mark(r, best).path = r.path
           /\ Mark(r, best).usable = r.usable /\ Mark(r, best).removed = r.removed
           /\ Mark(r, best).igp = r.igp
  BY DEF Mark, Sound, Route

\* A tuple that is smaller at one place, and the same elsewhere, is not worse.
LEMMA ImproveAt ==
    ASSUME NEW N \in Nat, NEW a \in Tuple(N), NEW b \in Tuple(N), NEW m \in 1..N,
           a[m] <= b[m], \A i \in 1..N : i # m => a[i] = b[i]
    PROVE  ~Worse(a, b)
<1> SUFFICES ASSUME Worse(a, b) PROVE FALSE
  OBVIOUS
<1>1. PICK i \in 1..N : a[i] > b[i]
  BY DEF Worse, Tuple
<1>2. a[i] \in Int /\ b[i] \in Int
  BY DEF Tuple
<1> QED
  BY <1>1, <1>2

\* The mark matters to the check for the oldest route only, and it helps.
LEMMA MarkKey ==
    ASSUME NEW r, Sound(r), NEW c \in BOOLEAN, NEW best \in BOOLEAN
    PROVE  /\ best => ~Worse(Key(Mark(r, best), c), Key(r, c))
           /\ ~best => ~Worse(Key(r, c), Key(Mark(r, best), c))
           /\ "COMPARE_ROUTER_ID" \in config => Key(Mark(r, best), c) = Key(r, c)
<1> DEFINE x == Mark(r, best)
           a == Key(x, c)
           b == Key(r, c)
           N == 12
           m == 9
<1>1. /\ Sound(x) /\ x.selected = best /\ x.peer = r.peer /\ x.path = r.path /\ x.igp = r.igp
  BY MarkFacts
<1>2. a \in Tuple(N) /\ b \in Tuple(N)
  <2> HIDE DEF x
  <2> QED
    BY <1>1, KeyType
<1> HIDE DEF x
<1>3. /\ a[1] = b[1] /\ a[2] = b[2] /\ a[3] = b[3] /\ a[4] = b[4] /\ a[6] = b[6]
      /\ a[8] = b[8] /\ a[11] = b[11] /\ a[12] = b[12]
  BY <1>1 DEF Key
<1>4. a[5] = b[5]
  BY <1>1 DEF Key, Length
<1>5. a[7] = b[7] /\ a[10] = b[10]
  BY <1>1 DEF Key, External, IdOf
<1>6. a[9] = Older(x) /\ b[9] = Older(r)
  BY DEF Key
<1>7. /\ best => Older(x) <= Older(r)
      /\ ~best => Older(r) <= Older(x)
      /\ "COMPARE_ROUTER_ID" \in config => Older(x) = Older(r)
  BY <1>1 DEF Older
<1>8. N \in Nat /\ m \in 1..N
  OBVIOUS
<1>9. \A i \in 1..N : i # m => a[i] = b[i]
  <2>1. \A i \in 1..12 : i \in {1, 2, 3, 4, 5, 6, 7, 8, 9, 10, 11, 12}
    OBVIOUS
  <2> HIDE DEF a, b
  <2> QED
    BY <1>3, <1>4, <1>5, <2>1
<1>10. (best => a[m] <= b[m]) /\ (~best => b[m] <= a[m])
  BY <1>6, <1>7
<1>11. "COMPARE_ROUTER_ID" \in config => \A i \in 1..N : a[i] = b[i]
  <2>1. "COMPARE_ROUTER_ID" \in config => a[m] = b[m]
    BY <1>6, <1>7
  <2> HIDE DEF a, b, m
  <2> QED
    BY <1>9, <2>1
<1> HIDE DEF a, b, N, m
<1>12. best => ~Worse(a, b)
  BY <1>2, <1>8, <1>9, <1>10, ImproveAt
<1>13. ~best => ~Worse(b, a)
  <2>1. \A i \in 1..N : i # m => b[i] = a[i]
    BY <1>9
  <2> QED
    BY <1>2, <1>8, <2>1, <1>10, ImproveAt
<1>14. "COMPARE_ROUTER_ID" \in config => a = b
  <2>1. a = [i \in 1..N |-> a[i]] /\ b = [i \in 1..N |-> b[i]]
    BY <1>2 DEF Tuple
  <2> QED
    BY <1>11, <2>1
<1> QED
  BY <1>12, <1>13, <1>14 DEF a, b, x

Marked(l, best) == [i \in DOMAIN l |-> Mark(l[i], i = best)]

\* A route that is removed is not usable.
RemovedUnusable(l) == \A i \in 1..Len(l) : l[i].removed => ~l[i].usable

\* The best route is selected, if there is one.
Chosen(l) ==
    /\ (\A i \in 1..Len(l) : ~l[i].selected) => Places(l) = {}
    /\ \A i \in 1..Len(l) : l[i].selected => i \in Places(l) /\ IsBest(l, i)

\* The marked list has the routes of the list.
LEMMA MarkedFacts ==
    ASSUME NEW l, AllSound(l), NEW b, NEW m, m = Marked(l, b)
    PROVE  /\ AllSound(m) /\ Len(m) = Len(l) /\ Len(l) \in Nat
           /\ \A i \in 1..Len(l) :
                 /\ m[i] = Mark(l[i], i = b) /\ m[i].selected = (i = b)
                 /\ m[i].peer = l[i].peer /\ m[i].path = l[i].path
                 /\ m[i].usable = l[i].usable /\ m[i].removed = l[i].removed
<1>1. l \in Seq(Route) /\ DOMAIN l = 1..Len(l) /\ Len(l) \in Nat
  BY DEF AllSound
<1>2. DOMAIN m = 1..Len(l) /\ \A i \in 1..Len(l) : m[i] = Mark(l[i], i = b)
  BY <1>1 DEF Marked
<1>3. ASSUME NEW i \in 1..Len(l)
      PROVE  /\ Sound(m[i]) /\ m[i].selected = (i = b)
             /\ m[i].peer = l[i].peer /\ m[i].path = l[i].path
             /\ m[i].usable = l[i].usable /\ m[i].removed = l[i].removed
  <2> DEFINE r == l[i]
             best == i = b
  <2>1. Sound(r) /\ best \in BOOLEAN
    BY DEF AllSound
  <2>2. m[i] = Mark(r, best)
    BY <1>2
  <2> HIDE DEF r, best
  <2>3. /\ Sound(Mark(r, best)) /\ Mark(r, best).selected = best
        /\ Mark(r, best).peer = r.peer /\ Mark(r, best).path = r.path
        /\ Mark(r, best).usable = r.usable /\ Mark(r, best).removed = r.removed
    BY <2>1, MarkFacts
  <2> QED
    BY <2>2, <2>3 DEF r, best
<1>4. \A i \in 1..Len(l) : m[i] \in Route
  BY <1>3 DEF Sound
<1>5. m = [i \in 1..Len(l) |-> m[i]]
  BY <1>1 DEF Marked
<1>6. m \in Seq(Route) /\ Len(m) = Len(l)
  BY <1>1, <1>4, <1>5
<1> QED
  BY <1>1, <1>2, <1>3, <1>6 DEF AllSound

\* The routes that are not removed.
IsLive(T, m) == \A r : r \in T <=> r \in ToSet(m) /\ ~r.removed

\* f has the routes of m that are not removed, in their order.
Keeps(f, m) ==
    /\ AllSound(f)
    /\ \A i \in 1..Len(f) : \E k \in 1..Len(m) : f[i] = m[k] /\ ~m[k].removed
    /\ \A k \in 1..Len(m) : ~m[k].removed => \E i \in 1..Len(f) : f[i] = m[k]
    /\ \A i, j \in 1..Len(f) : i < j =>
          \E k, n \in 1..Len(m) : k < n /\ f[i] = m[k] /\ f[j] = m[n]

\* What the node keeps of them.
LEMMA KeptFacts ==
    ASSUME NEW m, AllSound(m), NEW T, IsLive(T, m), NEW f, f = Filter(m, T)
    PROVE  Keeps(f, m)
<1>1. m \in Seq(Route) /\ f = Filter(m, T)
  BY DEF AllSound
<1>2. ToSet(m) = {m[k] : k \in 1..Len(m)}
  BY <1>1 DEF ToSet
<1>3. \A r : r \in T <=> (\E k \in 1..Len(m) : r = m[k]) /\ ~r.removed
  BY <1>2 DEF IsLive
<1>4. f \in Seq(Route) /\ ToSet(f) = ToSet(m) \cap T
  BY <1>1, FilterSet
<1>5. \A i, j \in 1..Len(f) : i < j =>
         \E k, n \in 1..Len(m) : k < n /\ f[i] = m[k] /\ f[j] = m[n]
  <2> SUFFICES ASSUME NEW i \in 1..Len(f), NEW j \in 1..Len(f), i < j
               PROVE  \E k, n \in 1..Len(m) : k < n /\ f[i] = m[k] /\ f[j] = m[n]
    OBVIOUS
  <2>1. PICK k, n \in 1..Len(m) : k < n /\ Filter(m, T)[i] = m[k] /\ Filter(m, T)[j] = m[n]
    BY <1>1, FilterOrder
  <2> QED
    BY <1>1, <2>1
<1>6. ToSet(f) = {f[i] : i \in 1..Len(f)}
  BY <1>4 DEF ToSet
<1>7. \A i \in 1..Len(f) : f[i] \in T
  BY <1>4, <1>6
<1>8. \A i \in 1..Len(f) : \E k \in 1..Len(m) : f[i] = m[k] /\ ~m[k].removed
  BY <1>3, <1>7
<1>9. ASSUME NEW k \in 1..Len(m), ~m[k].removed PROVE \E i \in 1..Len(f) : f[i] = m[k]
  <2>1. m[k] \in T /\ m[k] \in ToSet(m)
    BY <1>2, <1>3, <1>9
  <2>2. m[k] \in ToSet(f)
    BY <1>4, <2>1
  <2> QED
    BY <1>6, <2>2
<1>10. AllSound(f)
  BY <1>4, <1>8 DEF AllSound
<1> QED
  BY <1>5, <1>8, <1>9, <1>10 DEF Keeps

\* Marking keeps the order of the best route and any other.
LEMMA MarkNoWorse ==
    ASSUME NEW x, Sound(x), NEW y, Sound(y), NEW c \in BOOLEAN, ~Worse(Key(x, c), Key(y, c))
    PROVE  ~Worse(Key(Mark(x, TRUE), c), Key(Mark(y, FALSE), c))
<1> DEFINE yes == TRUE
           no == FALSE
           u == Mark(x, yes)
           v == Mark(y, no)
           a == Key(u, c)
           d == Key(x, c)
           e == Key(y, c)
           g == Key(v, c)
           N == 12
<1>1. yes \in BOOLEAN /\ no \in BOOLEAN /\ yes /\ ~no /\ N \in Nat
  OBVIOUS
<1> HIDE DEF yes, no
<1>2. Sound(u) /\ Sound(v)
  BY <1>1, MarkFacts
<1>3. ~Worse(a, d) /\ ~Worse(e, g) /\ ~Worse(d, e)
  BY <1>1, MarkKey
<1> HIDE DEF u, v
<1>4. a \in Tuple(N) /\ d \in Tuple(N) /\ e \in Tuple(N) /\ g \in Tuple(N)
  BY <1>2, KeyType
<1> HIDE DEF a, d, e, g, N
<1>5. ~Worse(a, e)
  BY <1>1, <1>3, <1>4, WorseChain
<1>6. ~Worse(a, g)
  BY <1>1, <1>3, <1>4, <1>5, WorseChain
<1> QED
  BY <1>6 DEF a, g, u, v, yes, no

\* Processing the node leaves the best route selected.
LEMMA ProcessFacts ==
    ASSUME NEW l, AllSound(l), Distinct(l), RemovedUnusable(l),
           NEW b, b = bgp_best_selection(l), NEW m, m = Marked(l, b),
           NEW T, IsLive(T, m), NEW f, f = Filter(m, T)
    PROVE  AllSound(f) /\ Distinct(f) /\ RemovedUnusable(f) /\ Chosen(f)
<1>1. /\ AllSound(m) /\ Len(m) = Len(l) /\ Len(l) \in Nat
      /\ \A i \in 1..Len(l) :
            /\ m[i] = Mark(l[i], i = b) /\ m[i].selected = (i = b)
            /\ m[i].peer = l[i].peer /\ m[i].path = l[i].path
            /\ m[i].usable = l[i].usable /\ m[i].removed = l[i].removed
  BY MarkedFacts
<1>2. /\ AllSound(f)
      /\ \A i \in 1..Len(f) : \E k \in 1..Len(m) : f[i] = m[k] /\ ~m[k].removed
      /\ \A k \in 1..Len(m) : ~m[k].removed => \E i \in 1..Len(f) : f[i] = m[k]
      /\ \A i, j \in 1..Len(f) : i < j =>
            \E k, n \in 1..Len(m) : k < n /\ f[i] = m[k] /\ f[j] = m[n]
  <2>1. Keeps(f, m)
    BY <1>1, KeptFacts
  <2> QED
    BY <2>1 DEF Keeps
<1>3. (b = 0 <=> Places(l) = {}) /\ b \in Places(l) \cup {0} /\ (b # 0 => IsBest(l, b))
  BY SelectionFinds
<1>4. ASSUME NEW k \in Places(l) PROVE \E i \in Places(f) : f[i] = m[k]
  <2>1. k \in 1..Len(m) /\ ~m[k].removed /\ m[k].usable
    BY <1>1 DEF Places, RemovedUnusable
  <2>2. PICK i \in 1..Len(f) : f[i] = m[k]
    BY <1>2, <2>1
  <2> QED
    BY <2>1, <2>2 DEF Places
<1>5. ASSUME NEW i \in Places(f) PROVE \E k \in Places(l) : f[i] = m[k]
  <2>1. i \in 1..Len(f) /\ f[i].usable
    BY DEF Places
  <2>2. PICK k \in 1..Len(m) : f[i] = m[k]
    BY <1>2, <2>1
  <2> QED
    BY <1>1, <2>1, <2>2 DEF Places
<1>6. Distinct(f)
  <2>1. ASSUME NEW i \in 1..Len(f), NEW j \in 1..Len(f), i < j
        PROVE  ~(f[i].peer = f[j].peer \/ (f[i].selected /\ f[j].selected))
    <3>1. PICK k, n \in 1..Len(m) : k < n /\ f[i] = m[k] /\ f[j] = m[n]
      BY <1>2, <2>1
    <3>2. k # n /\ k \in 1..Len(l) /\ n \in 1..Len(l)
      BY <1>1, <3>1
    <3>3. m[k].peer # m[n].peer
      BY <1>1, <3>2 DEF Distinct
    <3>4. ~(m[k].selected /\ m[n].selected)
      BY <1>1, <3>2
    <3> QED
      BY <3>1, <3>3, <3>4
  <2>2. Len(f) \in Nat
    BY <1>2 DEF AllSound
  <2>3. ASSUME NEW i \in 1..Len(f), NEW j \in 1..Len(f),
               f[i].peer = f[j].peer \/ (f[i].selected /\ f[j].selected)
        PROVE  i = j
    <3>1. ~(i < j) /\ ~(j < i)
      BY <2>1, <2>3
    <3> QED
      BY <2>2, <3>1
  <2> QED
    BY <2>3 DEF Distinct
<1>7. RemovedUnusable(f)
  <2> SUFFICES ASSUME NEW i \in 1..Len(f) PROVE ~f[i].removed
    BY DEF RemovedUnusable
  <2>1. PICK k \in 1..Len(m) : f[i] = m[k] /\ ~m[k].removed
    BY <1>2
  <2> QED
    BY <2>1
<1>8. (\A i \in 1..Len(f) : ~f[i].selected) => Places(f) = {}
  <2> SUFFICES ASSUME NEW j \in Places(f) PROVE \E i \in 1..Len(f) : f[i].selected
    OBVIOUS
  <2>1. Places(l) # {}
    BY <1>5
  <2>2. b \in Places(l) /\ b \in 1..Len(l)
    BY <1>3, <2>1 DEF Places
  <2>3. PICK i \in Places(f) : f[i] = m[b]
    BY <1>4, <2>2
  <2>4. m[b].selected
    BY <1>1, <2>2
  <2> QED
    BY <2>3, <2>4 DEF Places
<1>9. ASSUME NEW i \in 1..Len(f), f[i].selected PROVE i \in Places(f) /\ IsBest(f, i)
  <2>1. b \in Places(l) /\ f[i] = m[b] /\ b \in 1..Len(l)
    <3>1. PICK k \in 1..Len(l) : f[i] = m[k]
      BY <1>1, <1>2
    <3>2. k = b
      BY <1>1, <1>9, <3>1
    <3>3. b # 0
      BY <3>2
    <3> QED
      BY <1>3, <3>1, <3>2, <3>3
  <2>2. i \in Places(f)
    BY <1>1, <2>1 DEF Places
  <2>3. IsBest(l, b)
    BY <1>1, <1>3, <2>1
  <2>4. ASSUME NEW c \in BOOLEAN, NEW j \in Places(f), NEW k \in Places(l), f[j] = m[k],
               NoWorse(l, c, b, k)
        PROVE  NoWorse(f, c, i, j)
    <3>1. CASE k = b
      <4>1. NoWorse(f, c, j, j)
        BY <1>2, KeyOrder
      <4> QED
        BY <2>1, <2>4, <3>1, <4>1 DEF NoWorse
    <3>2. CASE k # b
      <4> DEFINE x == l[b]
                 y == l[k]
      <4>1. Sound(x) /\ Sound(y) /\ k \in 1..Len(l)
        BY <2>1 DEF AllSound, Places
      <4>2. ~Worse(Key(x, c), Key(y, c))
        BY <2>4 DEF NoWorse
      <4>3. f[i] = Mark(x, TRUE)
        BY <1>1, <2>1
      <4>4. f[j] = Mark(y, FALSE)
        <5>1. m[k] = Mark(y, k = b) /\ (k = b) = FALSE
          BY <1>1, <3>2, <4>1
        <5> QED
          BY <2>4, <5>1
      <4> HIDE DEF x, y
      <4>5. ~Worse(Key(Mark(x, TRUE), c), Key(Mark(y, FALSE), c))
        BY <4>1, <4>2, MarkNoWorse
      <4> QED
        BY <4>3, <4>4, <4>5 DEF NoWorse
    <3> QED
      BY <3>1, <3>2
  <2>5. \A j \in Places(f) : \A k \in Places(l) : f[j] = m[k] => f[j].path = l[k].path
    BY <1>1 DEF Places
  <2>6. "ALWAYS_COMPARE_MED" \in config => \A j \in Places(f) : NoWorse(f, TRUE, i, j)
    <3> SUFFICES ASSUME "ALWAYS_COMPARE_MED" \in config, NEW j \in Places(f)
                 PROVE  NoWorse(f, TRUE, i, j)
      OBVIOUS
    <3>1. PICK k \in Places(l) : f[j] = m[k]
      BY <1>5
    <3>2. NoWorse(l, TRUE, b, k)
      BY <2>3 DEF IsBest
    <3> QED
      BY <2>4, <3>1, <3>2
  <2>7. "DETERMINISTIC_MED" \in config /\ NoConfederation => BestOfAS(f, i)
    <3> SUFFICES ASSUME "DETERMINISTIC_MED" \in config, NoConfederation, NEW j \in Places(f),
                        SameAS(f, i, j)
                 PROVE  NoWorse(f, TRUE, i, j)
      BY DEF BestOfAS
    <3>1. PICK k \in Places(l) : f[j] = m[k]
      BY <1>5
    <3>2. SameAS(l, b, k)
      <4>1. f[i].path = l[b].path /\ f[j].path = l[k].path
        BY <2>1, <2>2, <2>5, <3>1
      <4> QED
        BY <4>1 DEF SameAS
    <3>3. NoWorse(l, TRUE, b, k)
      BY <2>3, <3>2 DEF IsBest, BestOfAS
    <3> QED
      BY <2>4, <3>1, <3>3
  <2>8. ASSUME "ALWAYS_COMPARE_MED" \notin config, Separable(f), NEW j \in Places(f),
               BestOfAS(f, j)
        PROVE  NoWorse(f, FALSE, i, j)
    <3>1. PICK k \in Places(l) : f[j] = m[k]
      BY <1>5
    <3>2. Separable(l)
      <4>1. ASSUME NEW n \in Places(l) PROVE l[n].path.hops > 0
        <5>1. PICK j2 \in Places(f) : f[j2] = m[n]
          BY <1>4
        <5> QED
          BY <2>5, <2>8, <5>1 DEF Separable
      <4> QED
        BY <2>8, <4>1 DEF Separable
    <3>3. \A n \in Places(l), c \in BOOLEAN : Key(m[n], c) = Key(l[n], c)
      <4> SUFFICES ASSUME NEW n \in Places(l), NEW c \in BOOLEAN PROVE Key(m[n], c) = Key(l[n], c)
        OBVIOUS
      <4> DEFINE r == l[n]
                 best == n = b
      <4>1. Sound(r) /\ best \in BOOLEAN /\ m[n] = Mark(r, best)
        BY <1>1 DEF AllSound, Places
      <4>2. "COMPARE_ROUTER_ID" \in config
        BY <2>8 DEF Separable
      <4> HIDE DEF r, best
      <4>3. Key(Mark(r, best), c) = Key(r, c)
        BY <4>1, <4>2, MarkKey
      <4> QED
        BY <4>1, <4>3 DEF r
    <3>4. BestOfAS(l, k)
      <4> SUFFICES ASSUME NEW n \in Places(l), SameAS(l, k, n) PROVE NoWorse(l, TRUE, k, n)
        BY DEF BestOfAS
      <4>1. PICK j2 \in Places(f) : f[j2] = m[n]
        BY <1>4
      <4>2. SameAS(f, j, j2)
        <5>1. f[j].path = l[k].path /\ f[j2].path = l[n].path
          BY <2>5, <3>1, <4>1
        <5> QED
          BY <5>1 DEF SameAS
      <4>3. NoWorse(f, TRUE, j, j2)
        BY <2>8, <4>2 DEF BestOfAS
      <4>4. ~Worse(Key(m[k], TRUE), Key(m[n], TRUE))
        BY <3>1, <4>1, <4>3 DEF NoWorse
      <4>5. Key(m[k], TRUE) = Key(l[k], TRUE) /\ Key(m[n], TRUE) = Key(l[n], TRUE)
        BY <3>3
      <4> QED
        BY <4>4, <4>5 DEF NoWorse
    <3>5. NoWorse(l, FALSE, b, k)
      BY <2>3, <2>8, <3>2, <3>4 DEF IsBest
    <3> QED
      BY <2>4, <3>1, <3>5
  <2> QED
    BY <2>2, <2>6, <2>7, <2>8 DEF IsBest
<1> QED
  BY <1>2, <1>6, <1>7, <1>8, <1>9 DEF Chosen

-----------------------------------------------------------------------------
(***************************************************************************)
(* The invariant.                                                          *)
(***************************************************************************)
DecisionInv ==
    /\ TypeOK /\ AllSound(list) /\ Distinct(list) /\ RemovedUnusable(list)
    /\ ~changed => Chosen(list)

\* What is promised of a list depends on the options, which do not change.
LEMMA ChosenSame ==
    ASSUME config' = config, NEW new, list' = new, Chosen(new)
    PROVE  Chosen(list)'
<1>1. ASSUME NEW c, NEW i, NEW j PROVE NoWorse(list, c, i, j)' <=> NoWorse(new, c, i, j)
  BY DEF NoWorse, Key, bgp_med_value, Older, Length, PathLength
<1>2. ASSUME NEW i PROVE BestOfAS(list, i)' <=> BestOfAS(new, i)
  BY <1>1 DEF BestOfAS
<1>3. Separable(list)' <=> Separable(new)
  BY DEF Separable
<1>4. ASSUME NEW i PROVE IsBest(list, i)' <=> IsBest(new, i)
  BY <1>1, <1>2, <1>3 DEF IsBest
<1> QED
  BY <1>4 DEF Chosen

\* The routes are changed where they are: by an update, a withdraw or a scan.
LEMMA InPlace ==
    ASSUME DecisionInv, NEW new, new \in Seq(Route), Len(new) = Len(list),
           \A i \in 1..Len(list) :
              /\ new[i].peer = list[i].peer /\ new[i].selected = list[i].selected
              /\ new[i].path \in Paths[list[i].peer] /\ (new[i].removed => ~new[i].usable)
    PROVE  AllSound(new) /\ Distinct(new) /\ RemovedUnusable(new)
<1>1. \A i \in 1..Len(new) : new[i] \in Route
  OBVIOUS
<1>2. AllSound(new)
  BY <1>1 DEF AllSound, Sound
<1>3. Distinct(new)
  BY DEF DecisionInv, Distinct
<1>4. RemovedUnusable(new)
  BY DEF RemovedUnusable
<1> QED
  BY <1>2, <1>3, <1>4

\* The list has one route of a peer.
LEMMA TypeFromInv ==
    ASSUME NEW l, AllSound(l), Distinct(l)
    PROVE  l \in Seq(Route) /\ \A i, j \in DOMAIN l : l[i].peer = l[j].peer => i = j
<1>1. l \in Seq(Route) /\ DOMAIN l = 1..Len(l)
  BY DEF AllSound
<1> QED
  BY <1>1 DEF Distinct

\* A next hop is found with a metric, or not.
LEMMA NexthopType ==
    ASSUME NEW q \in Peer, NEW nexthop \in bgp_nexthop_lookup(q)
    PROVE  nexthop.valid \in BOOLEAN /\ nexthop.metric \in Nat
<1> DEFINE Unreachable == [valid |-> FALSE, metric |-> 0]
           Local == [valid |-> TRUE, metric |-> 0]
           Igp == [valid : {TRUE}, metric : Metrics]
<1>1. nexthop = Local \/ nexthop = Unreachable \/ nexthop \in Igp
  BY DEF bgp_nexthop_lookup
<1>2. CASE nexthop = Local
  BY <1>2
<1>3. CASE nexthop = Unreachable
  BY <1>3
<1>4. CASE nexthop \in Igp
  BY <1>4, VariesAssumption
<1> QED
  BY <1>1, <1>2, <1>3, <1>4

\* A new route, at the head.
LEMMA AddKeeps ==
    ASSUME DecisionInv, NEW q \in Peer, NEW path \in Paths[q],
           NEW nexthop \in bgp_nexthop_lookup(q), bgp_info_add(q, path, nexthop)
    PROVE  (AllSound(list) /\ Distinct(list) /\ RemovedUnusable(list))'
<1> DEFINE r == [peer |-> q, path |-> path, usable |-> nexthop.valid,
                 igp |-> nexthop.metric, removed |-> FALSE, selected |-> FALSE]
<1>1. path \in Path /\ nexthop.valid \in BOOLEAN /\ nexthop.metric \in Nat
  BY PathAssumption, NexthopType
<1>2. r \in Route /\ Sound(r) /\ r.peer = q /\ ~r.selected /\ ~r.removed
  BY <1>1 DEF Route, Sound
<1>3. list' = <<r>> \o list
  BY DEF bgp_info_add
<1> HIDE DEF r
<1>4. list \in Seq(Route) /\ Len(list) \in Nat /\ DOMAIN list = 1..Len(list)
  BY DEF DecisionInv, AllSound
<1>5. /\ list' \in Seq(Route) /\ Len(list') = Len(list) + 1 /\ list'[1] = r
      /\ \A i \in 2..(Len(list) + 1) : list'[i] = list[i - 1]
  BY <1>2, <1>3, <1>4
<1>6. \A i \in 1..(Len(list) + 1) : i = 1 \/ (i \in 2..(Len(list) + 1) /\ i - 1 \in 1..Len(list))
  BY <1>4
<1>7. \A i \in 1..Len(list) : list[i].peer # q
  BY <1>4 DEF bgp_info_add, Entry
<1>8. AllSound(list')
  BY <1>2, <1>5, <1>6 DEF AllSound, DecisionInv
<1>9. Distinct(list')
  <2> SUFFICES ASSUME NEW i \in 1..Len(list'), NEW j \in 1..Len(list'),
                      \/ list'[i].peer = list'[j].peer
                      \/ list'[i].selected /\ list'[j].selected
               PROVE  i = j
    BY DEF Distinct
  <2>1. CASE i = 1 /\ j = 1
    BY <2>1
  <2>2. CASE i = 1 /\ j # 1
    <3>1. list'[i] = r /\ list'[j] = list[j - 1] /\ j - 1 \in 1..Len(list)
      BY <1>5, <1>6, <2>2
    <3> QED
      BY <1>2, <1>7, <3>1
  <2>3. CASE i # 1 /\ j = 1
    <3>1. list'[j] = r /\ list'[i] = list[i - 1] /\ i - 1 \in 1..Len(list)
      BY <1>5, <1>6, <2>3
    <3> QED
      BY <1>2, <1>7, <3>1
  <2>4. CASE i # 1 /\ j # 1
    <3>1. /\ list'[i] = list[i - 1] /\ i - 1 \in 1..Len(list)
          /\ list'[j] = list[j - 1] /\ j - 1 \in 1..Len(list)
      BY <1>5, <1>6, <2>4
    <3>2. i - 1 = j - 1
      BY <3>1 DEF DecisionInv, Distinct
    <3> QED
      BY <1>4, <1>5, <3>2
  <2> QED
    BY <2>1, <2>2, <2>3, <2>4
<1>10. RemovedUnusable(list')
  BY <1>2, <1>5, <1>6 DEF RemovedUnusable, DecisionInv
<1> QED
  BY <1>8, <1>9, <1>10

\* An update of a route that is there, even if it waits to be reaped.
LEMMA UpdateKeeps ==
    ASSUME DecisionInv, NEW q \in Peer, NEW path \in Paths[q],
           NEW nexthop \in bgp_nexthop_lookup(q), bgp_update_implicit(q, path, nexthop)
    PROVE  (AllSound(list) /\ Distinct(list) /\ RemovedUnusable(list))'
<1>1. PICK i \in Entry(q) :
         list' = [list EXCEPT ![i].path = path, ![i].usable = nexthop.valid,
                              ![i].igp = nexthop.metric, ![i].removed = FALSE]
  BY DEF bgp_update_implicit
<1>2. list \in Seq(Route) /\ DOMAIN list = 1..Len(list) /\ \A k \in 1..Len(list) : Sound(list[k])
  BY DEF DecisionInv, AllSound
<1>3. i \in 1..Len(list) /\ list[i].peer = q
  BY <1>2 DEF Entry
<1>4. path \in Path /\ nexthop.valid \in BOOLEAN /\ nexthop.metric \in Nat
  BY PathAssumption, NexthopType
<1>5. /\ list'[i].peer = q /\ list'[i].selected = list[i].selected /\ list'[i].path = path
      /\ list'[i].removed = FALSE /\ list'[i] \in Route
  BY <1>1, <1>2, <1>3, <1>4, ZenonT(30) DEF Sound, Route
<1>6. \A k \in 1..Len(list) : k # i => list'[k] = list[k]
  BY <1>1, <1>2
<1>7. \A k \in 1..Len(list) : list'[k] \in Route
  BY <1>2, <1>5, <1>6
<1>8. list' \in Seq(Route) /\ Len(list') = Len(list)
  <2>1. DOMAIN list' = 1..Len(list) /\ list' = [k \in 1..Len(list) |-> list'[k]]
    BY <1>1, <1>2
  <2>2. Len(list) \in Nat
    BY <1>2
  <2> QED
    BY <1>7, <2>1, <2>2
<1>9. ASSUME NEW k \in 1..Len(list)
      PROVE  /\ list'[k].peer = list[k].peer /\ list'[k].selected = list[k].selected
             /\ list'[k].path \in Paths[list[k].peer] /\ (list'[k].removed => ~list'[k].usable)
  BY <1>2, <1>3, <1>5, <1>6 DEF Sound, DecisionInv, RemovedUnusable
<1> DEFINE new == list'
<1> HIDE DEF new
<1>10. AllSound(new) /\ Distinct(new) /\ RemovedUnusable(new)
  BY <1>8, <1>9, InPlace DEF new
<1> QED
  BY <1>10 DEF new

\* A withdraw: the route stays until it is reaped.
LEMMA DeleteKeeps ==
    ASSUME DecisionInv, NEW q \in Peer, bgp_info_delete(q)
    PROVE  (AllSound(list) /\ Distinct(list) /\ RemovedUnusable(list))'
<1>1. PICK i \in Entry(q) : list' = [list EXCEPT ![i].usable = FALSE, ![i].removed = TRUE]
  BY DEF bgp_info_delete
<1>2. list \in Seq(Route) /\ DOMAIN list = 1..Len(list) /\ \A k \in 1..Len(list) : Sound(list[k])
  BY DEF DecisionInv, AllSound
<1>3. i \in 1..Len(list)
  BY <1>2 DEF Entry
<1>4. /\ list'[i].peer = list[i].peer /\ list'[i].selected = list[i].selected
      /\ list'[i].path = list[i].path /\ list'[i].usable = FALSE /\ list'[i] \in Route
  BY <1>1, <1>2, <1>3 DEF Sound, Route
<1>5. \A k \in 1..Len(list) : k # i => list'[k] = list[k]
  BY <1>1, <1>2
<1>6. \A k \in 1..Len(list) : list'[k] \in Route
  BY <1>2, <1>4, <1>5
<1>7. list' \in Seq(Route) /\ Len(list') = Len(list)
  <2>1. DOMAIN list' = 1..Len(list) /\ list' = [k \in 1..Len(list) |-> list'[k]]
    BY <1>1, <1>2
  <2>2. Len(list) \in Nat
    BY <1>2
  <2> QED
    BY <1>6, <2>1, <2>2
<1>8. ASSUME NEW k \in 1..Len(list)
      PROVE  /\ list'[k].peer = list[k].peer /\ list'[k].selected = list[k].selected
             /\ list'[k].path \in Paths[list[k].peer] /\ (list'[k].removed => ~list'[k].usable)
  BY <1>2, <1>4, <1>5 DEF Sound, DecisionInv, RemovedUnusable
<1> DEFINE new == list'
<1> HIDE DEF new
<1>9. AllSound(new) /\ Distinct(new) /\ RemovedUnusable(new)
  BY <1>7, <1>8, InPlace DEF new
<1> QED
  BY <1>9 DEF new

\* The scan of the next hops.
LEMMA ScanKeeps ==
    ASSUME DecisionInv,
           NEW found \in [NexthopVaries -> UNION {bgp_nexthop_lookup(q) : q \in NexthopVaries}],
           bgp_scan(found)
    PROVE  (AllSound(list) /\ Distinct(list) /\ RemovedUnusable(list))'
<1> DEFINE Looked(r) == [r EXCEPT !.usable = found[r.peer].valid, !.igp = found[r.peer].metric]
<1>1. list' = [i \in DOMAIN list |-> IF i \in Scanned THEN Looked(list[i]) ELSE list[i]]
  BY DEF bgp_scan
<1>2. /\ list \in Seq(Route) /\ Len(list) \in Nat /\ DOMAIN list = 1..Len(list)
      /\ \A k \in 1..Len(list) : Sound(list[k])
  BY DEF DecisionInv, AllSound
<1>3. \A k \in Scanned : ~list[k].removed /\ list[k].peer \in NexthopVaries
  BY DEF Scanned
<1>4. \A q \in NexthopVaries : found[q].valid \in BOOLEAN /\ found[q].metric \in Nat
  <2> SUFFICES ASSUME NEW q \in NexthopVaries
               PROVE  found[q].valid \in BOOLEAN /\ found[q].metric \in Nat
    OBVIOUS
  <2>1. PICK p \in NexthopVaries : found[q] \in bgp_nexthop_lookup(p)
    OBVIOUS
  <2>2. p \in Peer
    BY VariesAssumption
  <2> DEFINE nexthop == found[q]
  <2> HIDE DEF nexthop
  <2>3. nexthop.valid \in BOOLEAN /\ nexthop.metric \in Nat
    BY <2>1, <2>2, NexthopType DEF nexthop
  <2> QED
    BY <2>3 DEF nexthop
<1>5. ASSUME NEW r, Sound(r), r.peer \in NexthopVaries
      PROVE  /\ Looked(r) \in Route /\ Looked(r).peer = r.peer /\ Looked(r).path = r.path
             /\ Looked(r).selected = r.selected /\ Looked(r).removed = r.removed
  BY <1>4, <1>5 DEF Sound, Route
<1> HIDE DEF Looked
<1>6. ASSUME NEW k \in 1..Len(list)
      PROVE  /\ list'[k] \in Route
             /\ list'[k].peer = list[k].peer /\ list'[k].selected = list[k].selected
             /\ list'[k].path \in Paths[list[k].peer] /\ (list'[k].removed => ~list'[k].usable)
  <2>1. Sound(list[k]) /\ (list[k].removed => ~list[k].usable)
    BY <1>2 DEF DecisionInv, RemovedUnusable
  <2>2. CASE k \in Scanned
    <3>1. list'[k] = Looked(list[k])
      BY <1>1, <1>2, <2>2
    <3> QED
      BY <1>3, <1>5, <2>1, <2>2, <3>1 DEF Sound
  <2>3. CASE k \notin Scanned
    <3>1. list'[k] = list[k]
      BY <1>1, <1>2, <2>3
    <3> QED
      BY <2>1, <3>1 DEF Sound
  <2> QED
    BY <2>2, <2>3
<1> DEFINE new == list'
<1>7. new \in Seq(Route) /\ Len(new) = Len(list)
  <2>1. DOMAIN list' = 1..Len(list) /\ list' = [k \in 1..Len(list) |-> list'[k]]
    BY <1>1, <1>2
  <2> QED
    BY <1>2, <1>6, <2>1
<1> HIDE DEF new
<1>8. AllSound(new) /\ Distinct(new) /\ RemovedUnusable(new)
  BY <1>6, <1>7, InPlace DEF new
<1> QED
  BY <1>8 DEF new

\* The selection, and the reaping of the removed routes.
LEMMA ProcessKeeps ==
    ASSUME DecisionInv, bgp_process_main
    PROVE  (AllSound(list) /\ Distinct(list) /\ RemovedUnusable(list) /\ Chosen(list))'
<1> DEFINE b == bgp_best_selection(list)
           m == Marked(list, b)
           T == {r \in ToSet(m) : ~r.removed}
           f == Filter(m, T)
<1>1. list' = f /\ config' = config
  BY DEF bgp_process_main, Marked, Mark
<1>2. AllSound(list) /\ Distinct(list) /\ RemovedUnusable(list)
  BY DEF DecisionInv
<1>3. IsLive(T, m)
  BY DEF IsLive
<1> HIDE DEF T
<1>4. b = bgp_best_selection(list) /\ m = Marked(list, b) /\ f = Filter(m, T)
  OBVIOUS
<1> DEFINE l == list
<1>5. AllSound(l) /\ Distinct(l) /\ RemovedUnusable(l) /\ b = bgp_best_selection(l) /\ m = Marked(l, b)
  BY <1>2, <1>4
<1> HIDE DEF b, m, f, l
<1>6. AllSound(f) /\ Distinct(f) /\ RemovedUnusable(f) /\ Chosen(f)
  BY <1>3, <1>4, <1>5, ProcessFacts
<1>7. Chosen(list)'
  BY <1>1, <1>6, ChosenSame
<1> QED
  BY <1>1, <1>6, <1>7

\* The invariant holds: the best route is selected unless a route changed since.
LEMMA DecisionInvariant == Spec => []DecisionInv
<1>1. Init => DecisionInv
  <2> SUFFICES ASSUME Init PROVE DecisionInv
    OBVIOUS
  <2>1. list = <<>> /\ config \in Configs /\ queued = FALSE /\ changed = FALSE
    BY DEF Init
  <2>2. list \in Seq(Route) /\ Len(list) = 0 /\ DOMAIN list = {}
    BY <2>1
  <2>3. AllSound(list) /\ Distinct(list) /\ RemovedUnusable(list)
    BY <2>2 DEF AllSound, Distinct, RemovedUnusable
  <2>4. Chosen(list)
    BY <2>2 DEF Chosen, Places
  <2>5. TypeOK
    BY <2>1, <2>2 DEF TypeOK
  <2> QED
    BY <2>3, <2>4, <2>5 DEF DecisionInv
<1>2. DecisionInv /\ [Next]_vars => DecisionInv'
  <2> SUFFICES ASSUME DecisionInv, [Next]_vars PROVE DecisionInv'
    OBVIOUS
  <2>1. config \in Configs /\ queued \in BOOLEAN /\ changed \in BOOLEAN
    BY DEF DecisionInv, TypeOK
  <2>2. ASSUME config' = config, queued' \in BOOLEAN, changed' \in BOOLEAN,
               (AllSound(list) /\ Distinct(list) /\ RemovedUnusable(list))',
               ~changed' => Chosen(list)'
        PROVE  DecisionInv'
    <3> DEFINE l == list'
    <3>1. AllSound(l) /\ Distinct(l)
      BY <2>2
    <3> HIDE DEF l
    <3>2. l \in Seq(Route) /\ \A i, j \in DOMAIN l : l[i].peer = l[j].peer => i = j
      BY <3>1, TypeFromInv
    <3>3. TypeOK'
      BY <2>1, <2>2, <3>2 DEF TypeOK, l
    <3> QED
      BY <2>2, <3>3 DEF DecisionInv
  <2>3. ASSUME list' = list, config' = config, queued' \in BOOLEAN, changed' = changed
        PROVE  DecisionInv'
    <3>1. (AllSound(list) /\ Distinct(list) /\ RemovedUnusable(list))'
      BY <2>3 DEF DecisionInv
    <3>2. ~changed' => Chosen(list)'
      <4> SUFFICES ASSUME ~changed' PROVE Chosen(list)'
        OBVIOUS
      <4> DEFINE new == list
      <4>1. Chosen(new) /\ list' = new
        BY <2>3 DEF DecisionInv
      <4> HIDE DEF new
      <4> QED
        BY <2>3, <4>1, ChosenSame
    <3> QED
      BY <2>1, <2>2, <2>3, <3>1, <3>2
  <2>4. ASSUME NEW q \in Peer, bgp_info_delete(q) PROVE DecisionInv'
    <3>1. config' = config /\ queued' = TRUE /\ changed' = TRUE
      BY <2>4 DEF bgp_info_delete
    <3> QED
      BY <2>2, <2>4, <3>1, DeleteKeeps
  <2>5. ASSUME NEW q \in Peer, NEW path \in Paths[q], NEW nexthop \in bgp_nexthop_lookup(q),
               bgp_info_add(q, path, nexthop)
        PROVE  DecisionInv'
    <3>1. config' = config /\ queued' = TRUE /\ changed' = TRUE
      BY <2>5 DEF bgp_info_add
    <3> QED
      BY <2>2, <2>5, <3>1, AddKeeps
  <2>6. ASSUME NEW q \in Peer, NEW path \in Paths[q], NEW nexthop \in bgp_nexthop_lookup(q),
               bgp_update_implicit(q, path, nexthop)
        PROVE  DecisionInv'
    <3>1. config' = config /\ queued' = TRUE /\ changed' = TRUE
      BY <2>6 DEF bgp_update_implicit
    <3> QED
      BY <2>2, <2>6, <3>1, UpdateKeeps
  <2>7. ASSUME NEW found \in [NexthopVaries -> UNION {bgp_nexthop_lookup(q) : q \in NexthopVaries}],
               bgp_scan(found)
        PROVE  DecisionInv'
    <3>1. /\ config' = config /\ queued' = (queued \/ list # <<>>)
          /\ changed' = (changed \/ list' # list)
      BY <2>7 DEF bgp_scan
    <3>2. queued' \in BOOLEAN /\ changed' \in BOOLEAN
      BY <3>1
    <3>3. CASE list' = list
      <4>1. changed' = changed
        BY <2>1, <3>1, <3>3
      <4> QED
        BY <2>3, <3>1, <3>2, <3>3, <4>1
    <3>4. CASE list' # list
      <4>1. changed' = TRUE
        BY <3>1, <3>4
      <4>2. (AllSound(list) /\ Distinct(list) /\ RemovedUnusable(list))'
        BY <2>7, ScanKeeps
      <4> QED
        BY <2>2, <3>1, <3>2, <4>1, <4>2
    <3> QED
      BY <3>3, <3>4
  <2>8. CASE bgp_process_main
    <3>1. config' = config /\ queued' = FALSE /\ changed' = FALSE
      BY <2>8 DEF bgp_process_main
    <3>2. (AllSound(list) /\ Distinct(list) /\ RemovedUnusable(list) /\ Chosen(list))'
      BY <2>8, ProcessKeeps
    <3> QED
      BY <2>2, <3>1, <3>2
  <2>9. CASE UNCHANGED vars
    BY <2>1, <2>3, <2>9 DEF vars
  <2> QED
    BY <2>4, <2>5, <2>6, <2>7, <2>8, <2>9 DEF Next
<1> QED
  BY <1>1, <1>2, PTL DEF Spec

-----------------------------------------------------------------------------
(***************************************************************************)
(* What it says of the best route.                                         *)
(***************************************************************************)
\* The merits are the first of the things bgp_info_cmp compares.
LEMMA MeritsFirst ==
    ASSUME NEW x, Sound(x), NEW y, Sound(y), Worse(Merits(x), Merits(y))
    PROVE  Worse(Key(x, TRUE), Key(y, TRUE))
<1>1. ASSUME NEW r PROVE \A i \in 1..8 : Merits(r)[i] = Key(r, TRUE)[i]
  <2>1. /\ Merits(r)[1] = Key(r, TRUE)[1] /\ Merits(r)[2] = Key(r, TRUE)[2]
        /\ Merits(r)[3] = Key(r, TRUE)[3] /\ Merits(r)[4] = Key(r, TRUE)[4]
        /\ Merits(r)[5] = Key(r, TRUE)[5] /\ Merits(r)[6] = Key(r, TRUE)[6]
        /\ Merits(r)[7] = Key(r, TRUE)[7] /\ Merits(r)[8] = Key(r, TRUE)[8]
    BY DEF Merits, Key, Length, External
  <2>2. \A i \in 1..8 : i \in {1, 2, 3, 4, 5, 6, 7, 8}
    OBVIOUS
  <2> QED
    BY <2>1, <2>2
<1>2. DOMAIN Merits(x) = 1..8 /\ DOMAIN Key(x, TRUE) = 1..12
  BY DEF Merits, Key
<1> DEFINE m == Merits(x)
           n == Merits(y)
           a == Key(x, TRUE)
           b == Key(y, TRUE)
<1>3. /\ \A i \in 1..8 : m[i] = a[i] /\ n[i] = b[i]
      /\ DOMAIN m = 1..8 /\ DOMAIN a = 1..12 /\ Worse(m, n)
  BY <1>1, <1>2
<1> HIDE DEF m, n, a, b
<1>4. PICK i \in 1..8 : m[i] > n[i] /\ \A j \in 1..(i - 1) : m[j] = n[j]
  BY <1>3 DEF Worse
<1>5. a[i] > b[i] /\ (\A j \in 1..(i - 1) : a[j] = b[j]) /\ i \in 1..12
  BY <1>3, <1>4
<1>6. Worse(a, b)
  BY <1>3, <1>5 DEF Worse
<1> QED
  BY <1>6 DEF a, b

\* The routes of the list are at the places 1..Len(list).
LEMMA Selected ==
    ASSUME DecisionInv, ~changed
    PROVE  /\ DOMAIN list = 1..Len(list) /\ SelectedAt \subseteq Places(list)
           /\ SelectedAt = {} => Places(list) = {}
           /\ \A i \in SelectedAt : IsBest(list, i)
           /\ \A i \in DOMAIN list : list[i].usable => i \in Places(list)
           /\ \A i \in Places(list) : Sound(list[i])
<1>1. DOMAIN list = 1..Len(list) /\ \A i \in 1..Len(list) : Sound(list[i])
  BY DEF DecisionInv, AllSound
<1>2. Chosen(list)
  BY DEF DecisionInv
<1>3. SelectedAt = {} => Places(list) = {}
  BY <1>1, <1>2 DEF Chosen, SelectedAt
<1>4. SelectedAt \subseteq Places(list) /\ \A i \in SelectedAt : IsBest(list, i)
  BY <1>1, <1>2 DEF Chosen, SelectedAt
<1> QED
  BY <1>1, <1>3, <1>4 DEF Places

\* The list of a node holds at most one route of each peer, and every route is of
\* its type, through updates, withdraws, scans and reaping (bgp_update,
\* bgp_info_delete, bgp_scan, bgp_process_main).
THEOREM DecisionTypeCorrect == Spec => []TypeOK
<1>1. DecisionInv => TypeOK
  BY DEF DecisionInv
<1> QED
  BY <1>1, DecisionInvariant, PTL

\* With always-compare-med no usable route is better than the one bgp_best_selection
\* left selected, in the lexicographic order of the checks, whether the routes were
\* compared in one pass or first within their groups.
THEOREM BestOverallCorrect == Spec => []BestOverall
<1>1. ASSUME DecisionInv PROVE BestOverall
  <2> SUFFICES ASSUME ~changed, "ALWAYS_COMPARE_MED" \in config
               PROVE  /\ SelectedAt = {} => \A j \in DOMAIN list : ~list[j].usable
                      /\ \A i \in SelectedAt, j \in DOMAIN list :
                            list[j].usable => ~Worse(Merits(list[i]), Merits(list[j]))
    BY DEF BestOverall
  <2>1. SelectedAt = {} => \A j \in DOMAIN list : ~list[j].usable
    BY <1>1, Selected
  <2>2. ASSUME NEW i \in SelectedAt, NEW j \in DOMAIN list, list[j].usable
        PROVE  ~Worse(Merits(list[i]), Merits(list[j]))
    <3>1. j \in Places(list) /\ i \in Places(list) /\ IsBest(list, i)
      BY <1>1, <2>2, Selected
    <3>2. Sound(list[i]) /\ Sound(list[j])
      BY <1>1, <3>1, Selected
    <3> DEFINE x == list[i]
               y == list[j]
    <3>3. ~Worse(Key(x, TRUE), Key(y, TRUE))
      BY <3>1 DEF IsBest, NoWorse
    <3>4. Sound(x) /\ Sound(y)
      BY <3>2
    <3> HIDE DEF x, y
    <3>5. ~Worse(Merits(x), Merits(y))
      BY <3>3, <3>4, MeritsFirst
    <3> QED
      BY <3>5 DEF x, y
  <2> QED
    BY <2>1, <2>2
<1> QED
  BY <1>1, DecisionInvariant, PTL

\* With deterministic-med, and no confederations, no usable route of the best
\* route's neighbouring AS has a lower MED: the groups that bgp_best_selection
\* gathers along the list are all the routes of a neighbouring AS.
THEOREM BestMedOfNeighbourCorrect ==
    ASSUME NoConfederation
    PROVE  Spec => []BestMedOfNeighbour
<1>1. ASSUME DecisionInv PROVE BestMedOfNeighbour
  <2> SUFFICES ASSUME ~changed, "DETERMINISTIC_MED" \in config,
                      NEW i \in SelectedAt, NEW j \in DOMAIN list, list[j].usable,
                      SameNeighbourAS(list[i].path, list[j].path)
               PROVE  bgp_med_value(list[i].path) <= bgp_med_value(list[j].path)
    BY DEF BestMedOfNeighbour
  <2>1. j \in Places(list) /\ i \in Places(list) /\ IsBest(list, i)
    BY <1>1, Selected
  <2>2. Sound(list[i]) /\ Sound(list[j])
    BY <1>1, <2>1, Selected
  <2> DEFINE x == list[i]
             y == list[j]
             a == Key(x, TRUE)
             b == Key(y, TRUE)
  <2>3. ~Worse(a, b)
    BY <2>1 DEF IsBest, BestOfAS, NoWorse, SameAS
  <2>4. a \in Tuple(12) /\ b \in Tuple(12)
    BY <2>2, KeyType
  <2>5. a[1] = bgp_med_value(x.path) /\ b[1] = bgp_med_value(y.path)
    BY DEF Key
  <2> HIDE DEF a, b
  <2>6. a[1] \in Int /\ b[1] \in Int /\ DOMAIN a = 1..12
    BY <2>4 DEF Tuple
  <2>7. ~(a[1] > b[1])
    BY <2>3, <2>6 DEF Worse
  <2>8. a[1] <= b[1]
    BY <2>6, <2>7
  <2> QED
    BY <2>5, <2>8
<1> QED
  BY <1>1, DecisionInvariant, PTL

\* Where the comparison is a total order.
Decided == "ALWAYS_COMPARE_MED" \in config \/ Separable(list)

\* A node that is processed again although nothing changed keeps its best route, when
\* MED is always compared, also with the preference for the route that is selected;
\* and with deterministic-med and compare-routerid when no AS path is empty.
THEOREM StableCorrect == Spec => [](Decided => Stable)
<1>1. ASSUME DecisionInv, Decided PROVE Stable
  <2> SUFFICES ASSUME ~changed PROVE SelectedAt = {bgp_best_selection(list)} \ {0}
    BY DEF Stable
  <2> DEFINE b == bgp_best_selection(list)
             l == list
  <2>1. AllSound(l) /\ Distinct(l)
    BY <1>1 DEF DecisionInv
  <2>2. (b = 0 <=> Places(l) = {}) /\ b \in Places(l) \cup {0} /\ (b # 0 => IsBest(l, b))
    BY <2>1, SelectionFinds
  <2>3. /\ SelectedAt \subseteq Places(l) /\ (SelectedAt = {} => Places(l) = {})
        /\ \A i \in SelectedAt : IsBest(l, i)
    BY <1>1, Selected
  <2>4. "ALWAYS_COMPARE_MED" \in config \/ Separable(l)
    BY <1>1 DEF Decided
  <2> HIDE DEF b, l
  <2>5. \A i \in SelectedAt : b # 0 => i = b
    BY <2>1, <2>2, <2>3, <2>4, BestUnique
  <2>6. SelectedAt = {b} \ {0}
    BY <2>2, <2>3, <2>5
  <2> QED
    BY <2>6 DEF b
<1> QED
  BY <1>1, DecisionInvariant, PTL

\* l is the list in another order.
Reordered(l, old, f) ==
    /\ f \in Bijection(1..Len(old), 1..Len(old))
    /\ l = [i \in 1..Len(old) |-> old[f[i]]]

\* Another order has the same routes at other places.
LEMMA ReorderFacts ==
    ASSUME NEW old, AllSound(old), Distinct(old), NEW l, NEW f, Reordered(l, old, f)
    PROVE  /\ AllSound(l) /\ Distinct(l)
           /\ \A i \in Places(l) : f[i] \in Places(old) /\ l[i] = old[f[i]]
           /\ \A k \in Places(old) : \E i \in Places(l) : f[i] = k
<1> DEFINE N == Len(old)
           D == 1..N
<1>1. old \in Seq(Route) /\ N \in Nat /\ \A i \in D : Sound(old[i]) /\ old[i] \in Route
  BY DEF AllSound, Sound
<1>2. /\ f \in [D -> D] /\ (\A w \in D : \E v \in D : f[v] = w) /\ l = [i \in D |-> old[f[i]]]
      /\ \A i, j \in D : f[i] = f[j] => i = j
  BY DEF Reordered, Bijection, Injection, Surjection, IsInjective
<1>3. \A i \in D : f[i] \in D /\ l[i] = old[f[i]]
  BY <1>2
<1>4. l \in Seq(Route) /\ Len(l) = N
  <2>1. l = [i \in D |-> l[i]] /\ \A i \in D : l[i] \in Route
    BY <1>1, <1>2, <1>3
  <2> QED
    BY <1>1, <2>1
<1>5. AllSound(l)
  BY <1>1, <1>3, <1>4 DEF AllSound
<1>6. Distinct(l)
  <2> SUFFICES ASSUME NEW i \in D, NEW j \in D,
                      l[i].peer = l[j].peer \/ (l[i].selected /\ l[j].selected)
               PROVE  i = j
    BY <1>4 DEF Distinct
  <2>1. f[i] = f[j]
    BY <1>3 DEF Distinct
  <2> QED
    BY <1>2, <2>1
<1>7. \A i \in Places(l) : f[i] \in Places(old) /\ l[i] = old[f[i]]
  BY <1>3, <1>4 DEF Places
<1>8. \A k \in Places(old) : \E i \in Places(l) : f[i] = k
  BY <1>2, <1>3, <1>4 DEF Places
<1> QED
  BY <1>5, <1>6, <1>7, <1>8

\* The best route of the one is the best route of the other.
LEMMA ReorderBest ==
    ASSUME NEW old, AllSound(old), Distinct(old), NEW l, NEW f, Reordered(l, old, f),
           NEW b \in Places(l), IsBest(l, b)
    PROVE  IsBest(old, f[b])
<1>1. /\ \A i \in Places(l) : f[i] \in Places(old) /\ l[i] = old[f[i]]
      /\ \A k \in Places(old) : \E i \in Places(l) : f[i] = k
  BY ReorderFacts
<1>2. \A c : \A i, j \in Places(l) : NoWorse(l, c, i, j) <=> NoWorse(old, c, f[i], f[j])
  BY <1>1 DEF NoWorse
<1>3. \A i, j \in Places(l) : SameAS(l, i, j) <=> SameAS(old, f[i], f[j])
  BY <1>1 DEF SameAS
<1>4. \A i \in Places(l) : BestOfAS(l, i) <=> BestOfAS(old, f[i])
  <2> SUFFICES ASSUME NEW i \in Places(l) PROVE BestOfAS(l, i) <=> BestOfAS(old, f[i])
    OBVIOUS
  <2>1. ASSUME BestOfAS(l, i) PROVE BestOfAS(old, f[i])
    <3> SUFFICES ASSUME NEW k \in Places(old), SameAS(old, f[i], k) PROVE NoWorse(old, TRUE, f[i], k)
      BY DEF BestOfAS
    <3>1. PICK j \in Places(l) : f[j] = k
      BY <1>1
    <3>2. SameAS(l, i, j)
      BY <1>3, <3>1
    <3>3. NoWorse(l, TRUE, i, j)
      BY <2>1, <3>2 DEF BestOfAS
    <3> QED
      BY <1>2, <3>1, <3>3
  <2>2. ASSUME BestOfAS(old, f[i]) PROVE BestOfAS(l, i)
    <3> SUFFICES ASSUME NEW j \in Places(l), SameAS(l, i, j) PROVE NoWorse(l, TRUE, i, j)
      BY DEF BestOfAS
    <3>1. f[j] \in Places(old) /\ SameAS(old, f[i], f[j])
      BY <1>1, <1>3
    <3>2. NoWorse(old, TRUE, f[i], f[j])
      BY <2>2, <3>1 DEF BestOfAS
    <3> QED
      BY <1>2, <3>2
  <2> QED
    BY <2>1, <2>2
<1>5. Separable(old) => Separable(l)
  BY <1>1 DEF Separable
<1>6. "ALWAYS_COMPARE_MED" \in config => \A k \in Places(old) : NoWorse(old, TRUE, f[b], k)
  <2> SUFFICES ASSUME "ALWAYS_COMPARE_MED" \in config, NEW k \in Places(old)
               PROVE  NoWorse(old, TRUE, f[b], k)
    OBVIOUS
  <2>1. PICK j \in Places(l) : f[j] = k
    BY <1>1
  <2>2. NoWorse(l, TRUE, b, j)
    BY DEF IsBest
  <2> QED
    BY <1>2, <2>1, <2>2
<1>7. "DETERMINISTIC_MED" \in config /\ NoConfederation => BestOfAS(old, f[b])
  BY <1>4 DEF IsBest
<1>8. ASSUME "ALWAYS_COMPARE_MED" \notin config, Separable(old), NEW k \in Places(old),
             BestOfAS(old, k)
      PROVE  NoWorse(old, FALSE, f[b], k)
  <2>1. PICK j \in Places(l) : f[j] = k
    BY <1>1
  <2>2. BestOfAS(l, j) /\ Separable(l)
    BY <1>4, <1>5, <1>8, <2>1
  <2>3. NoWorse(l, FALSE, b, j)
    BY <1>8, <2>2 DEF IsBest
  <2> QED
    BY <1>2, <2>1, <2>3
<1> QED
  BY <1>6, <1>7, <1>8 DEF IsBest

\* With deterministic-med and compare-routerid, no confederations and no empty AS path,
\* the best route does not depend on the order of the list: bgp_best_selection finds the
\* same one in every order.
THEOREM OrderFreeCorrect ==
    ASSUME NoConfederation
    PROVE  Spec => []OrderFree
<1>1. ASSUME DecisionInv PROVE OrderFree
  <2> DEFINE l(f) == [i \in DOMAIN list |-> list[f[i]]]
  <2> SUFFICES ASSUME ~changed, {"DETERMINISTIC_MED", "COMPARE_ROUTER_ID"} \subseteq config,
                      \A i \in DOMAIN list : list[i].usable => list[i].path.hops > 0,
                      NEW f \in Bijection(DOMAIN list, DOMAIN list)
               PROVE  SelectedAt = {f[i] : i \in {bgp_best_selection(l(f))} \ {0}}
    BY DEF OrderFree
  <2> DEFINE old == list
             new == l(f)
             b == bgp_best_selection(new)
  <2>1. AllSound(old) /\ Distinct(old) /\ DOMAIN list = 1..Len(old)
    BY <1>1 DEF DecisionInv, AllSound
  <2>2. Reordered(new, old, f)
    BY <2>1 DEF Reordered
  <2>3. Separable(old)
    BY <2>1 DEF Separable, Places
  <2>4. /\ SelectedAt \subseteq Places(old) /\ (SelectedAt = {} => Places(old) = {})
        /\ \A i \in SelectedAt : IsBest(old, i)
    BY <1>1, Selected
  <2> HIDE DEF old, new
  <2>5. /\ AllSound(new) /\ Distinct(new)
        /\ \A i \in Places(new) : f[i] \in Places(old) /\ new[i] = old[f[i]]
        /\ \A k \in Places(old) : \E i \in Places(new) : f[i] = k
    BY <2>1, <2>2, ReorderFacts
  <2>6. /\ b = 0 <=> Places(new) = {}
        /\ b \in Places(new) \cup {0} /\ (b # 0 => IsBest(new, b))
    BY <2>5, SelectionFinds
  <2> HIDE DEF b
  <2>7. CASE b = 0
    <3>1. SelectedAt = {}
      BY <2>4, <2>5, <2>6, <2>7
    <3>2. {f[i] : i \in {b} \ {0}} = {}
      BY <2>7
    <3> QED
      BY <3>1, <3>2 DEF b, new
  <2>8. CASE b # 0
    <3>1. b \in Places(new) /\ IsBest(new, b)
      BY <2>6, <2>8
    <3>2. IsBest(old, f[b]) /\ f[b] \in Places(old)
      BY <2>1, <2>2, <2>5, <3>1, ReorderBest
    <3> DEFINE k == f[b]
    <3>3. k \in Places(old) /\ IsBest(old, k)
      BY <3>2
    <3> HIDE DEF k
    <3>4. \A i \in SelectedAt : i = k
      BY <2>1, <2>3, <2>4, <3>3, BestUnique
    <3>5. SelectedAt = {k}
      BY <2>4, <3>3, <3>4
    <3>6. {f[i] : i \in {b} \ {0}} = {k}
      BY <2>8 DEF k
    <3> QED
      BY <3>5, <3>6 DEF b, new
  <2> QED
    BY <2>7, <2>8
<1> QED
  BY <1>1, DecisionInvariant, PTL
=============================================================================
