--------------------------- MODULE ListingProofs ----------------------------
(***************************************************************************)
(* The listings of lstbt for any buses, retimers, command lines and        *)
(* numbers of changes: what is shown about a router with a decimal name is *)
(* true, in the tree every router stands below its own parent, and lstbt   *)
(* converts only what it has read unless a router has been unplugged.      *)
(* The options are those written on a command line that fits the array.    *)
(***************************************************************************)
EXTENDS Listing, InductionLemmas, FiniteSetTheorems, TLAPS

-----------------------------------------------------------------------------
(* Names *)

\* The two hexadecimal digits of a port; which port a character belongs to,
\* counted from the last, and whether it is the upper digit.
Upper(p)   == p \div 16
Lower(p)   == p % 16
Hop(k)     == (k - 1) \div 2
IsUpper(k) == k % 2 = 1

Port == 1 .. 63

\* The digits of a port are numbers; a port below ten has one that is not zero.
LEMMA Digits ==
  /\ \A p \in Port : Upper(p) \in Nat /\ Lower(p) \in Nat
  /\ \A p \in 1 .. 9 : Upper(p) = 0 /\ Lower(p) = p
  /\ \A p \in Port : p <= 9 => p \in 1 .. 9
BY DEF Upper, Lower, Port

\* Every character belongs to a port of the route: the first two to the last port,
\* the last one to the first.
LEMMA Hops ==
  /\ \A n \in Nat : \A k \in 1 .. 2 * n : n - Hop(k) \in 1 .. n
  /\ \A n \in Nat : Hop(2 * n + 1) = n
  /\ \A n \in Nat \ {0} :
       /\ 1 \in 1 .. 2 * n /\ n - Hop(1) = n /\ IsUpper(1)
       /\ 2 \in 1 .. 2 * n /\ n - Hop(2) = n /\ ~IsUpper(2)
       /\ 2 * n \in 1 .. 2 * n /\ n - Hop(2 * n) = 1 /\ ~IsUpper(2 * n)
BY DEF Hop, IsUpper

\* The character at a place of a route.
LEMMA CharacterAt ==
  ASSUME NEW route, NEW k \in 1 .. 2 * Len(route)
  PROVE  LET p == route[Len(route) - Hop(k)]
         IN Bytes(route)[k] = IF IsUpper(k) THEN Upper(p) ELSE Lower(p)
BY DEF Bytes, Hop, IsUpper, Upper, Lower

\* The characters of a route are digits, two per port.
LEMMA BytesType ==
  ASSUME NEW route \in Seq(Port)
  PROVE  Bytes(route) \in Seq(Nat) /\ Len(Bytes(route)) = 2 * Len(route)
<1> DEFINE n == Len(route)
<1>1. n \in Nat /\ \A m \in 1 .. n : route[m] \in Port
  OBVIOUS
<1>2. ASSUME NEW k \in 1 .. 2 * n PROVE Bytes(route)[k] \in Nat
  <2>1. n - Hop(k) \in 1 .. n
    BY <1>1, Hops
  <2>2. Upper(route[n - Hop(k)]) \in Nat /\ Lower(route[n - Hop(k)]) \in Nat
    BY <1>1, <2>1, Digits
  <2> QED
    BY <2>2, CharacterAt
<1>3. Bytes(route) = [k \in 1 .. 2 * n |-> Bytes(route)[k]]
  BY DEF Bytes
<1> QED
  BY <1>1, <1>2, <1>3

\* Domain and route of a router, with the set of ports as a name.
LEMMA RouterType ==
  ASSUME NEW r, IsRouter(r)
  PROVE  r.dom \in Nat /\ r.route \in Seq(Port)
<1>1. r \in [dom : 0 .. 99, route : Seq(Port)]
  BY Zenon DEF IsRouter, Port
<1>2. r.dom \in 0 .. 99
  BY <1>1, Zenon
<1>3. r.dom \in Nat
  BY <1>2
<1> QED
  BY <1>1, <1>3, Zenon

\* A name is its domain and digits.
LEMMA NameType ==
  ASSUME NEW r, IsRouter(r)
  PROVE  /\ NameOf(r).dom = r.dom /\ NameOf(r).dom \in Nat
         /\ NameOf(r).hex \in Seq(Nat)
         /\ DOMAIN NameOf(r) = {"dom", "hex"}
<1>1. r.dom \in Nat /\ r.route \in Seq(Port)
  BY RouterType
<1>2. Bytes(r.route) \in Seq(Nat) /\ Len(Bytes(r.route)) = 2 * Len(r.route)
  BY <1>1, BytesType
<1>3. r.route # <<>> => Tail(Bytes(r.route)) \in Seq(Nat)
  BY <1>1, <1>2
<1>4. Hex(r.route) \in Seq(Nat)
  BY <1>1, <1>2, <1>3 DEF Hex
<1> QED
  BY <1>1, <1>4 DEF NameOf, Name

\* A route of ports below ten gives one character for the last port and two for
\* each of the others.
LEMMA DecimalName ==
  ASSUME NEW r, IsRouter(r), Decimal(r), r.route # <<>>
  PROVE  LET h == NameOf(r).hex
             n == Len(r.route)
         IN Len(h) = 2 * n - 1 /\ h[1] = r.route[n] /\ h[Len(h)] = r.route[1]
<1> DEFINE n == Len(r.route)
           b == Bytes(r.route)
<1>1. r.route \in Seq(Port) /\ n \in Nat \ {0}
  BY RouterType
<1>2. \A k \in 1 .. n : r.route[k] \in 1 .. 9
  <2>1. \A k \in 1 .. n : r.route[k] \in Port
    BY <1>1
  <2>2. \A k \in 1 .. n : r.route[k] <= 9
    BY DEF Decimal
  <2> QED
    BY <2>1, <2>2, Digits
<1>3. b \in Seq(Nat) /\ Len(b) = 2 * n
  BY <1>1, BytesType
<1>4. b[1] = Upper(r.route[n]) /\ b[2] = Lower(r.route[n])
  <2>1. /\ 1 \in 1 .. 2 * n /\ n - Hop(1) = n /\ IsUpper(1)
        /\ 2 \in 1 .. 2 * n /\ n - Hop(2) = n /\ ~IsUpper(2)
    BY <1>1, Hops, Zenon
  <2> QED
    BY <2>1, CharacterAt
<1>5. b[2 * n] = Lower(r.route[1])
  <2>1. 2 * n \in 1 .. 2 * n /\ n - Hop(2 * n) = 1 /\ ~IsUpper(2 * n)
    BY <1>1, Hops, Zenon
  <2> QED
    BY <2>1, CharacterAt
<1>6. b[1] = 0 /\ b[2] = r.route[n] /\ b[2 * n] = r.route[1]
  <2>1. r.route[1] \in 1 .. 9 /\ r.route[n] \in 1 .. 9
    BY <1>1, <1>2
  <2> QED
    BY <1>4, <1>5, <2>1, Digits
<1>7. NameOf(r).hex = Tail(b)
  BY <1>6 DEF NameOf, Name, Hex
<1>8. \A t \in Seq(Nat) : Len(t) > 1 =>
        Len(Tail(t)) = Len(t) - 1 /\ Tail(t)[1] = t[2] /\ Tail(t)[Len(t) - 1] = t[Len(t)]
  OBVIOUS
<1>9. 2 * n > 1
  BY <1>1
<1> HIDE DEF n, b
<1>10. Len(Tail(b)) = 2 * n - 1 /\ Tail(b)[1] = b[2] /\ Tail(b)[2 * n - 1] = b[2 * n]
  BY <1>3, <1>8, <1>9, Zenon
<1> QED
  BY <1>6, <1>7, <1>10, Zenon DEF n

\* Domains and characters of one digit.
LEMMA OneDigit ==
  /\ \A x \in Nat : x <= 9 => ~(x >= 10)
  /\ \A x \in 1 .. 9 : ~(x > 9)
OBVIOUS

\* Domain, depth and port cut from a decimal name are those of the route.
LEMMA LabelsOfName ==
  ASSUME NEW r, IsRouter(r), Decimal(r)
  PROVE  /\ domain_of_router(NameOf(r)) = r.dom
         /\ depth_of_router(NameOf(r)) = Len(r.route)
         /\ r.route # <<>> => downstream_port(NameOf(r)) = Last(r.route)
<1> DEFINE n == Len(r.route)
           a == NameOf(r)
<1>1. a.dom = r.dom /\ a.dom <= 9 /\ a.dom \in Nat
  BY NameType DEF Decimal
<1>2. domain_of_router(a) = r.dom
  BY <1>1 DEF domain_of_router
<1>3. CASE r.route = <<>>
  <2>1. a.hex = <<0>>
    BY <1>3 DEF NameOf, Name, Hex
  <2> QED
    BY <1>2, <1>3, <2>1 DEF depth_of_router, is_host_router
<1>4. CASE r.route # <<>>
  <2>1. /\ Len(a.hex) = 2 * n - 1
        /\ a.hex[1] = r.route[n] /\ a.hex[Len(a.hex)] = r.route[1]
    BY <1>4, DecimalName
  <2>2. n \in Nat /\ r.route[1] \in 1 .. 9 /\ r.route[n] \in 1 .. 9
    <3>1. r.route \in Seq(Port)
      BY RouterType
    <3>2. n \in Nat /\ n >= 1 /\ r.route[1] \in Port /\ r.route[n] \in Port
      BY <1>4, <3>1
    <3>3. r.route[1] <= 9 /\ r.route[n] <= 9
      BY <3>2 DEF Decimal
    <3> QED
      BY <3>2, <3>3, Digits
  <2>3. strlen(a) = 2 * n + 1 /\ ~is_host_router(a)
    <3>1. strlen(a) = 1 + 1 + Len(a.hex)
      <4>1. a.dom < 10
        BY <1>1
      <4> QED
        BY <4>1 DEF strlen, DomainLen
    <3>2. ~is_host_router(a)
      BY <2>1, <2>2 DEF is_host_router
    <3> QED
      BY <2>1, <2>2, <3>1, <3>2
  <2>4. depth_of_router(a) = Hop(2 * n + 1)
    BY <2>3 DEF depth_of_router, Hop
  <2>5. Hop(2 * n + 1) = n
    BY <2>2, Hops
  <2>6. downstream_port(a) = Last(r.route)
    <3>1. ~(a.dom >= 10) /\ ~(a.hex[1] > 9)
      BY <1>1, <2>1, <2>2, OneDigit, Zenon
    <3>2. downstream_port(a) = r.route[Len(r.route)]
      BY <2>1, <3>1, Zenon DEF downstream_port
    <3> QED
      BY <3>2, Zenon DEF Last
  <2> QED
    BY <1>2, <2>4, <2>5, <2>6
<1> QED
  BY <1>3, <1>4

-----------------------------------------------------------------------------
(* The order of ls: a finite set of names is listed whole *)

Agree(s, t, c) == \A m \in 1 .. c : s[m] = t[m]

\* Where a sequence s of length p ends or has the smaller element, while t of
\* length q has the same elements before.
LessAt(s, p, t, q, k) ==
  /\ k \in 1 .. q
  /\ \A m \in 1 .. k - 1 : m <= p /\ s[m] = t[m]
  /\ k > p \/ s[k] < t[k]

\* c is where the agreement ends.
Parting(s, p, t, q, c) ==
  /\ c <= p /\ c <= q /\ Agree(s, t, c)
  /\ c + 1 <= p /\ c + 1 <= q => s[c + 1] # t[c + 1]

\* Two sequences agree up to some place and not at the next.
LEMMA LongestAgreement ==
  ASSUME NEW s, NEW t, NEW p \in Nat, NEW q \in Nat
  PROVE  \E c \in Nat : Parting(s, p, t, q, c)
<1> DEFINE A == {m \in 0 .. p : m <= q /\ Agree(s, t, m)}
<1>1. IsFiniteSet(A)
  <2>1. IsFiniteSet(0 .. p) /\ A \in SUBSET (0 .. p)
    BY FS_Interval
  <2> QED
    BY <2>1, FS_Subset
<1>2. 0 \in A
  BY DEF Agree
<1>3. \A m \in A : 0 .. m \subseteq A
  BY DEF Agree
<1>4. A \in SUBSET Nat
  OBVIOUS
<1>5. PICK c \in A : c + 1 \notin A
  <2> HIDE DEF A
  <2> QED
    BY <1>1, <1>2, <1>3, <1>4, LastOne
<1>6. ASSUME c + 1 <= p, c + 1 <= q, s[c + 1] = t[c + 1] PROVE FALSE
  <2>1. \A m \in 1 .. c + 1 : m \in 1 .. c \/ m = c + 1
    BY <1>5
  <2>2. Agree(s, t, c + 1)
    BY <1>5, <1>6, <2>1 DEF Agree
  <2> QED
    BY <1>5, <1>6, <2>2
<1> QED
  BY <1>5, <1>6 DEF Parting

Numbers(s, p) == \A m \in 1 .. p : s[m] \in Int

Earlier(s, p, t, q) == \E k : LessAt(s, p, t, q, k)
Same(s, p, t, q)    == p = q /\ \A m \in 1 .. p : s[m] = t[m]

\* Sequences of numbers are ordered.
LEMMA LexicographicOrder ==
  ASSUME NEW s, NEW p \in Nat, Numbers(s, p),
         NEW t, NEW q \in Nat, Numbers(t, q),
         NEW u, NEW w \in Nat, Numbers(u, w)
  PROVE  /\ ~Earlier(s, p, s, p)
         /\ Earlier(s, p, t, q) /\ Earlier(t, q, u, w) => Earlier(s, p, u, w)
         /\ Earlier(s, p, t, q) \/ Earlier(t, q, s, p) \/ Same(s, p, t, q)
<1>1. ASSUME NEW k, LessAt(s, p, s, p, k) PROVE FALSE
  BY <1>1 DEF LessAt, Numbers
<1>2. ASSUME NEW k, NEW l, LessAt(s, p, t, q, k), LessAt(t, q, u, w, l)
      PROVE  \E n : LessAt(s, p, u, w, n)
  <2>1. k \in 1 .. q /\ l \in 1 .. w
    BY <1>2 DEF LessAt, Numbers
  <2>2. CASE k < l
    <3>1. LessAt(s, p, u, w, k)
      BY <1>2, <2>1, <2>2 DEF LessAt, Numbers
    <3> QED
      BY <3>1
  <2>3. CASE l < k
    <3>1. LessAt(s, p, u, w, l)
      BY <1>2, <2>1, <2>3 DEF LessAt, Numbers
    <3> QED
      BY <3>1
  <2>4. CASE l = k
    <3>1. LessAt(s, p, u, w, k)
      BY <1>2, <2>1, <2>4 DEF LessAt, Numbers
    <3> QED
      BY <3>1
  <2> QED
    BY <2>1, <2>2, <2>3, <2>4
<1>3. \/ \E k : LessAt(s, p, t, q, k) \/ LessAt(t, q, s, p, k)
      \/ p = q /\ \A m \in 1 .. p : s[m] = t[m]
  <2>1. PICK c \in Nat : Parting(s, p, t, q, c)
    BY LongestAgreement
  <2>2. \A m \in 1 .. c : s[m] = t[m] /\ m <= p /\ m <= q
    BY <2>1 DEF Agree, Parting
  <2>3. CASE c = p /\ c = q
    BY <2>2, <2>3
  <2>4. CASE c + 1 <= q /\ (c + 1 > p \/ s[c + 1] < t[c + 1])
    <3>1. LessAt(s, p, t, q, c + 1)
      BY <2>1, <2>2, <2>4 DEF LessAt, Numbers
    <3> QED
      BY <3>1
  <2>5. CASE c + 1 <= p /\ (c + 1 > q \/ t[c + 1] < s[c + 1])
    <3>1. LessAt(t, q, s, p, c + 1)
      BY <2>1, <2>2, <2>5 DEF LessAt, Numbers
    <3> QED
      BY <3>1
  <2>6. c + 1 \in 1 .. p => s[c + 1] \in Int
    BY DEF Numbers
  <2>7. c + 1 \in 1 .. q => t[c + 1] \in Int
    BY DEF Numbers
  <2> QED
    BY <2>1, <2>3, <2>4, <2>5, <2>6, <2>7 DEF Parting
<1> QED
  BY <1>1, <1>2, <1>3 DEF Earlier, Same

\* A set of names, or of retimers, in which each is known by what ls prints.
Listable(S) ==
  /\ IsFiniteSet(S)
  /\ \A a \in S : a.dom \in Nat /\ a.hex \in Seq(Nat) /\ PortOf(a) \in Nat
  /\ \A a, b \in S : a.dom = b.dom /\ a.hex = b.hex /\ PortOf(a) = PortOf(b) => a = b

HexBefore(a, b) == Earlier(a.hex, Len(a.hex), b.hex, Len(b.hex))

\* The order of ls by domain, route and port.
LEMMA PrecedesBy ==
  ASSUME NEW a, NEW b
  PROVE  Precedes(a, b) <=>
           \/ a.dom < b.dom
           \/ a.dom = b.dom /\ a.hex = b.hex /\ PortOf(a) < PortOf(b)
           \/ a.dom = b.dom /\ HexBefore(a, b)
BY Zenon DEF Precedes, HexBefore, Earlier, LessAt

\* ls orders the names.
LEMMA PrecedesIsOrder ==
  ASSUME NEW S, Listable(S), NEW a \in S, NEW b \in S, NEW c \in S
  PROVE  /\ ~Precedes(a, a)
         /\ Precedes(a, b) /\ Precedes(b, c) => Precedes(a, c)
         /\ a = b \/ Precedes(a, b) \/ Precedes(b, a)
<1>1. \A x \in S : Len(x.hex) \in Nat /\ Numbers(x.hex, Len(x.hex))
  BY DEF Listable, Numbers
<1>2. /\ ~HexBefore(a, a)
      /\ HexBefore(a, b) /\ HexBefore(b, c) => HexBefore(a, c)
      /\ HexBefore(a, b) \/ HexBefore(b, a) \/ Same(a.hex, Len(a.hex), b.hex, Len(b.hex))
  BY <1>1, LexicographicOrder DEF HexBefore
<1>3. HexBefore(a, b) \/ HexBefore(b, a) \/ a.hex = b.hex
  <2>1. a.hex \in Seq(Nat) /\ b.hex \in Seq(Nat)
    BY DEF Listable
  <2>2. Same(a.hex, Len(a.hex), b.hex, Len(b.hex)) => a.hex = b.hex
    <3>1. \A s \in Seq(Nat) : s = [m \in 1 .. Len(s) |-> s[m]]
      OBVIOUS
    <3>2. /\ a.hex = [m \in 1 .. Len(a.hex) |-> a.hex[m]]
          /\ b.hex = [m \in 1 .. Len(b.hex) |-> b.hex[m]]
      BY <2>1, <3>1, Zenon
    <3> QED
      BY <3>2, Zenon DEF Same
  <2> QED
    BY <1>2, <2>2
<1>4. \A x \in S : x.dom \in Nat /\ PortOf(x) \in Nat
  BY DEF Listable
<1>5. a.dom = b.dom /\ a.hex = b.hex /\ PortOf(a) = PortOf(b) => a = b
  BY DEF Listable
<1>6. /\ a.hex = b.hex => (HexBefore(b, c) <=> HexBefore(a, c))
      /\ b.hex = c.hex => (HexBefore(a, b) <=> HexBefore(a, c))
  BY DEF HexBefore
<1> QED
  BY <1>2, <1>3, <1>4, <1>5, <1>6, PrecedesBy

Rank(S, a) == Cardinality({b \in S : Precedes(b, a)})

\* No name is listed twice.
Apart(t) == \A j, k \in DOMAIN t : t[j] = t[k] => j = k

\* ls lists every name of the set once and nothing else.
LEMMA LsLists ==
  ASSUME NEW S, Listable(S)
  PROVE  /\ DOMAIN ls(S) = 1 .. Cardinality(S) /\ Cardinality(S) \in Nat
         /\ \A k \in DOMAIN ls(S) : ls(S)[k] \in S
         /\ \A a \in S : \E k \in DOMAIN ls(S) : ls(S)[k] = a
         /\ Apart(ls(S))
<1> DEFINE n == Cardinality(S)
           Below(a) == {b \in S : Precedes(b, a)}
<1>1. IsFiniteSet(S) /\ n \in Nat
  BY FS_CardinalityType DEF Listable
<1>2. ASSUME NEW a \in S
      PROVE  IsFiniteSet(Below(a)) /\ Rank(S, a) \in 0 .. n - 1
  <2>1. Below(a) \in SUBSET S /\ a \notin Below(a)
    BY PrecedesIsOrder
  <2>2. IsFiniteSet(Below(a)) /\ Rank(S, a) <= n /\ Rank(S, a) # n /\ Rank(S, a) \in Nat
    BY <1>1, <2>1, FS_Subset, FS_CardinalityType DEF Rank
  <2> QED
    BY <1>1, <2>2
<1>3. ASSUME NEW a \in S, NEW b \in S, a # b
      PROVE  Rank(S, a) # Rank(S, b)
  <2>1. ASSUME NEW x \in S, NEW y \in S, Precedes(x, y) PROVE Rank(S, x) # Rank(S, y)
    <3>1. Below(x) \in SUBSET Below(y)
      BY <2>1, PrecedesIsOrder
    <3>2. x \in Below(y) /\ x \notin Below(x)
      BY <2>1, PrecedesIsOrder
    <3> QED
      BY <1>2, <3>1, <3>2, FS_Subset DEF Rank
  <2>2. Precedes(a, b) \/ Precedes(b, a)
    BY <1>3, PrecedesIsOrder
  <2> QED
    BY <2>1, <2>2
<1>4. ASSUME NEW k \in 1 .. n
      PROVE  \E a \in S : Rank(S, a) = k - 1
  <2>1. SUFFICES ASSUME \A a \in S : Rank(S, a) # k - 1 PROVE FALSE
    OBVIOUS
  <2> DEFINE T == (0 .. n - 1) \ {k - 1}
             f == [a \in S |-> Rank(S, a)]
  <2>2. IsFiniteSet(0 .. n - 1) /\ Cardinality(0 .. n - 1) = n
    <3>1. n - 1 \in Int /\ 0 \in Int /\ ~(0 > n - 1) /\ n - 1 - 0 + 1 = n
      BY <1>1
    <3> QED
      BY <3>1, FS_Interval
  <2>3. IsFiniteSet(T) /\ Cardinality(T) < n
    <3>1. k - 1 \in 0 .. n - 1
      BY <1>1
    <3>2. IsFiniteSet(T) /\ Cardinality(T) = n - 1
      <4> DEFINE I == 0 .. n - 1
      <4>1. IsFiniteSet(I) /\ Cardinality(I) = n /\ k - 1 \in I /\ T = I \ {k - 1}
        BY <2>2, <3>1
      <4> HIDE DEF I, T
      <4> QED
        BY <4>1, FS_RemoveElement
    <3>3. n - 1 < n
      BY <1>1
    <3>4. Cardinality(T) < n
      BY <3>2, <3>3, Zenon
    <3> QED
      BY <3>2, <3>4, Zenon
  <2>4. f \in [S -> T]
    BY <1>2, <2>1
  <2>5. \E x, y \in S : x # y /\ f[x] = f[y]
    <3> HIDE DEF T, f
    <3> QED
      BY <1>1, <2>3, <2>4, FS_PigeonHole
  <2> QED
    BY <1>3, <2>5
<1>5. DOMAIN ls(S) = 1 .. n
  BY DEF ls
<1>6. ASSUME NEW k \in 1 .. n PROVE ls(S)[k] \in S /\ Rank(S, ls(S)[k]) = k - 1
  <2>1. ls(S)[k] = CHOOSE a \in S : Rank(S, a) = k - 1
    BY DEF ls, Rank
  <2> QED
    BY <1>4, <2>1
<1>7. ASSUME NEW a \in S PROVE \E k \in 1 .. n : ls(S)[k] = a
  <2>1. \A m \in 0 .. n - 1 : m + 1 \in 1 .. n /\ m + 1 - 1 = m
    BY <1>1
  <2>2. \E k \in 1 .. n : k - 1 = Rank(S, a)
    <3>1. PICK m \in 0 .. n - 1 : m = Rank(S, a)
      BY <1>2
    <3>2. m + 1 \in 1 .. n /\ m + 1 - 1 = m
      BY <2>1
    <3> HIDE DEF n
    <3> QED
      BY <3>1, <3>2
  <2> PICK k \in 1 .. n : k - 1 = Rank(S, a)
    BY <2>2
  <2>3. ls(S)[k] = a
    BY <1>3, <1>6, Zenon
  <2> QED
    BY <2>3
<1>8. ASSUME NEW j \in 1 .. n, NEW k \in 1 .. n, ls(S)[j] = ls(S)[k] PROVE j = k
  <2>1. j - 1 = k - 1
    BY <1>6, <1>8, Zenon
  <2> QED
    BY <1>1, <2>1
<1> QED
  BY <1>1, <1>5, <1>6, <1>7, <1>8, Zenon DEF Apart

-----------------------------------------------------------------------------
(* The invariant *)

NameSet == {NameOf(r) : r \in Universe}
RetimerSet == {RetimerOf(t) : t \in {u \in Retimers : u.at \in Universe}}
ItemSet == NameSet \cup RetimerSet

\* What is printed about an item in a row.
EntryOf(a, d) == [item |-> a, row |-> d, labels |-> Labels(a, d)]

FrameSet == [depth : Nat, todo : Seq(ItemSet)]
EntrySet == {EntryOf(a, d) : a \in ItemSet, d \in Nat}

AtItem  == {"present", "header"}
Printed == {"ids", "generation", "auth", "children"}

BusOK ==
  /\ present \in SUBSET Universe /\ IsFiniteSet(present)
  /\ gone \in SUBSET NameSet

ListsTyped ==
  /\ stack \in Seq(FrameSet)
  /\ printed \in Seq(EntrySet)
  /\ pc \in AtItem \cup Printed => item \in ItemSet /\ stack # <<>>

\* The item's router is there or has been.
Known(a) == RouterName(a) \in Names \cup gone

Seen ==
  /\ \A f \in DOMAIN stack : \A k \in DOMAIN stack[f].todo : Known(stack[f].todo[k])
  /\ pc \in AtItem \cup Printed \cup {"crash"} => Known(item)
  /\ pc = "ls" /\ Given(opts.s) => opts.s.name \in Names \cup gone

\* The router of one name is connected to that of the other.
Child(a, b) ==
  \E r \in Universe : r.route # <<>> /\ NameOf(r) = a /\ NameOf(Parent(r)) = b

\* The list at depth d is of the routers below entry m, the last one above it.
Hangs(d, m) ==
  /\ m \in DOMAIN printed
  /\ printed[m].row = d - 1
  /\ \A q \in DOMAIN printed : q > m => printed[q].row >= d
  /\ \A k \in DOMAIN stack[d + 1].todo : Child(stack[d + 1].todo[k], printed[m].item)
  /\ d + 1 = Len(stack) /\ pc \in AtItem => Child(item, printed[m].item)

Nested ==
  /\ \A f \in DOMAIN stack : stack[f].depth = f - 1
  /\ \A d \in 1 .. Len(stack) - 1 : \E m : Hangs(d, m)
  /\ pc \in Printed => /\ Len(printed) > 0
                       /\ printed[Len(printed)] = EntryOf(item, Len(stack) - 1)

IInv == BusOK /\ ListsTyped /\ Seen /\ Nested /\ TreeShape /\ NoCrash

-----------------------------------------------------------------------------
(* Names and listings *)

\* Every router that is ever there has a domain and a route.
LEMMA UniverseType == \A r \in Universe : IsRouter(r)
BY PopulationsAssumption, ChangesAssumption DEF Universe

\* The name of a router has no port.
LEMMA NameItem ==
  ASSUME NEW r \in Universe
  PROVE  /\ NameOf(r).dom \in Nat /\ NameOf(r).hex \in Seq(Nat)
         /\ PortOf(NameOf(r)) = 0 /\ RouterName(NameOf(r)) = NameOf(r)
         /\ NameOf(r) = [dom |-> NameOf(r).dom, hex |-> NameOf(r).hex]
<1>1. IsRouter(r)
  BY UniverseType
<1>2. NameOf(r) = [dom |-> NameOf(r).dom, hex |-> NameOf(r).hex]
  BY DEF NameOf, Name
<1>3. PortOf(NameOf(r)) = 0
  BY <1>1, NameType DEF PortOf
<1> QED
  BY <1>1, <1>2, <1>3, NameType DEF RouterName

\* That of a retimer has the port, and the name of its router.
LEMMA RetimerItem ==
  ASSUME NEW t \in Retimers, t.at \in Universe
  PROVE  /\ RetimerOf(t).dom \in Nat /\ RetimerOf(t).hex \in Seq(Nat)
         /\ PortOf(RetimerOf(t)) = t.port /\ t.port \in Nat
         /\ RouterName(RetimerOf(t)) = NameOf(t.at)
         /\ RetimerOf(t) = [dom |-> RetimerOf(t).dom, hex |-> RetimerOf(t).hex,
                            port |-> t.port]
<1>1. /\ RetimerOf(t).dom = t.at.dom /\ RetimerOf(t).hex = NameOf(t.at).hex
      /\ RetimerOf(t).port = t.port
      /\ DOMAIN RetimerOf(t) = {"dom", "hex", "port"}
      /\ RetimerOf(t) = [dom |-> RetimerOf(t).dom, hex |-> RetimerOf(t).hex,
                         port |-> t.port]
  BY DEF RetimerOf
<1>2. t.port \in Nat
  BY RetimersAssumption
<1>3. PortOf(RetimerOf(t)) = t.port
  BY <1>1 DEF PortOf
<1>4. NameOf(t.at).dom = t.at.dom
  BY DEF NameOf, Name
<1> QED
  BY <1>1, <1>2, <1>3, <1>4, NameItem DEF RouterName

\* Names present can be listed.
LEMMA NamesAreListable ==
  ASSUME BusOK, NEW S \in SUBSET Names
  PROVE  Listable(S) /\ S \subseteq NameSet /\ \A a \in S : Known(a)
<1>1. IsFiniteSet(S)
  <2> DEFINE f == [r \in present |-> NameOf(r)]
  <2>1. f \in Surjection(present, Names)
    BY DEF Surjection, Names
  <2> QED
    BY <2>1, FS_Surjection, FS_Subset DEF BusOK
<1>2. \A a \in S : \E r \in Universe : a = NameOf(r)
  BY DEF BusOK, Names
<1>3. \A a \in S : /\ a.dom \in Nat /\ a.hex \in Seq(Nat) /\ PortOf(a) = 0
                   /\ RouterName(a) = a /\ a = [dom |-> a.dom, hex |-> a.hex]
  BY <1>2, NameItem
<1> QED
  BY <1>1, <1>2, <1>3 DEF Listable, NameSet, Known

\* Retimers of routers present can be listed.
LEMMA RetimersAreListable ==
  ASSUME BusOK, NEW U \in SUBSET {u \in Retimers : u.at \in present}
  PROVE  LET S == {RetimerOf(t) : t \in U}
         IN Listable(S) /\ S \subseteq RetimerSet /\ \A a \in S : Known(a)
<1> DEFINE S == {RetimerOf(t) : t \in U}
<1>1. IsFiniteSet(S)
  <2> DEFINE f == [t \in U |-> RetimerOf(t)]
  <2>1. f \in Surjection(U, S)
    BY DEF Surjection
  <2>2. IsFiniteSet(U)
    BY RetimersAssumption, FS_Subset
  <2> QED
    BY <2>1, <2>2, FS_Surjection
<1>2. \A a \in S : \E t \in U : a = RetimerOf(t) /\ t.at \in present /\ t.at \in Universe
  BY DEF BusOK
<1>3. \A a \in S : /\ a.dom \in Nat /\ a.hex \in Seq(Nat) /\ PortOf(a) \in Nat
                   /\ RouterName(a) \in Names
                   /\ a = [dom |-> a.dom, hex |-> a.hex, port |-> PortOf(a)]
  <2>1. SUFFICES ASSUME NEW t \in U, t.at \in present, t.at \in Universe
        PROVE LET a == RetimerOf(t)
              IN /\ a.dom \in Nat /\ a.hex \in Seq(Nat) /\ PortOf(a) \in Nat
                 /\ RouterName(a) \in Names
                 /\ a = [dom |-> a.dom, hex |-> a.hex, port |-> PortOf(a)]
    BY <1>2, Zenon
  <2>2. NameOf(t.at) \in Names
    BY <2>1 DEF Names
  <2>3. t \in Retimers
    OBVIOUS
  <2> QED
    BY <2>1, <2>2, <2>3, RetimerItem
<1>4. S \subseteq RetimerSet
  BY <1>2 DEF RetimerSet
<1> QED
  BY <1>1, <1>3, <1>4 DEF Listable, Known

\* What ls lists of items present is a list of items present.
LEMMA LsOfItems ==
  ASSUME NEW S, Listable(S), S \subseteq ItemSet, \A a \in S : Known(a)
  PROVE  /\ ls(S) \in Seq(ItemSet)
         /\ \A k \in DOMAIN ls(S) : ls(S)[k] \in S /\ Known(ls(S)[k])
<1>1. /\ DOMAIN ls(S) = 1 .. Cardinality(S) /\ Cardinality(S) \in Nat
      /\ \A k \in DOMAIN ls(S) : ls(S)[k] \in S
  BY LsLists, Zenon
<1>2. ls(S) = [k \in 1 .. Cardinality(S) |-> ls(S)[k]]
  BY DEF ls
<1> QED
  BY <1>1, <1>2

\* Whatever the mode, the program starts from a list of items present, or of one
\* that was when it was looked for.
LEMMA SelectedItems ==
  ASSUME BusOK, Seen, pc = "ls"
  PROVE  Selected \in Seq(ItemSet) /\ \A k \in DOMAIN Selected : Known(Selected[k])
<1>1. CASE mode = "retimer"
  <2> DEFINE U == {u \in Retimers : u.at \in present
                     /\ IF Given(opts.s)
                        THEN /\ NameOf(u.at) = opts.s.name
                             /\ u.at.dom = domain_of_router(opts.s.name)
                        ELSE u.at.dom = i}
             S == {RetimerOf(t) : t \in U}
  <2>1. U \in SUBSET {u \in Retimers : u.at \in present}
    OBVIOUS
  <2>2. Selected = ls(S)
    BY <1>1 DEF Selected
  <2>3. Listable(S) /\ S \subseteq RetimerSet /\ \A a \in S : Known(a)
    BY <2>1, RetimersAreListable
  <2> HIDE DEF S
  <2> QED
    BY <2>2, <2>3, LsOfItems DEF ItemSet
<1>2. CASE mode # "retimer" /\ Given(opts.s)
  <2>1. Selected = <<opts.s.name>>
    BY <1>2 DEF Selected
  <2>2. opts.s.name \in Names \cup gone
    BY <1>2 DEF Seen
  <2>3. PICK r \in Universe : opts.s.name = NameOf(r)
    BY <2>2 DEF BusOK, Names, NameSet
  <2>4. opts.s.name \in ItemSet /\ Known(opts.s.name)
    BY <2>2, <2>3, NameItem DEF Known, ItemSet, NameSet
  <2> QED
    BY <2>1, <2>4
<1>3. CASE mode # "retimer" /\ ~Given(opts.s)
  <2>1. \A S \in SUBSET Names :
          /\ ls(S) \in Seq(ItemSet)
          /\ \A k \in DOMAIN ls(S) : ls(S)[k] \in S /\ Known(ls(S)[k])
    BY NamesAreListable, LsOfItems DEF ItemSet
  <2>2. InDomain \in SUBSET Names
    BY DEF InDomain
  <2>3. CASE mode = "tree" /\ ~Given(opts.d)
    <3> DEFINE hosts == {a \in InDomain : is_host_router(a) /\ domain_of_router(a) = i}
    <3>1. hosts \in SUBSET Names
      BY <2>2
    <3>2. Selected = IF hosts = {} THEN <<>> ELSE <<ls(hosts)[1]>>
      BY <1>3, <2>3 DEF Selected
    <3>3. hosts # {} => 1 \in DOMAIN ls(hosts)
      <4>1. Listable(hosts)
        BY <3>1, NamesAreListable
      <4>2. hosts # {} => Cardinality(hosts) # 0
        BY <4>1, FS_EmptySet DEF Listable
      <4> HIDE DEF hosts
      <4> QED
        BY <4>1, <4>2, LsLists
    <3>4. hosts # {} => ls(hosts)[1] \in ItemSet /\ Known(ls(hosts)[1])
      BY <2>1, <3>1, <3>3
    <3> HIDE DEF hosts
    <3>5. CASE hosts = {}
      BY <3>2, <3>5
    <3>6. CASE hosts # {}
      BY <3>2, <3>4, <3>6
    <3> QED
      BY <3>5, <3>6
  <2>4. CASE ~(mode = "tree" /\ ~Given(opts.d))
    <3>1. Selected = ls(InDomain)
      BY <1>3, <2>4 DEF Selected
    <3> QED
      BY <2>1, <2>2, <3>1
  <2> QED
    BY <2>3, <2>4
<1> QED
  BY <1>1, <1>2, <1>3

\* The directory of a router lists routers connected to it.
LEMMA ChildrenItems ==
  ASSUME BusOK, NEW a
  PROVE  /\ ls(ChildrenOf(a)) \in Seq(ItemSet)
         /\ \A k \in DOMAIN ls(ChildrenOf(a)) :
              Known(ls(ChildrenOf(a))[k]) /\ Child(ls(ChildrenOf(a))[k], a)
<1>1. ChildrenOf(a) \in SUBSET Names
  BY DEF ChildrenOf, Names
<1>2. ASSUME NEW c \in ChildrenOf(a) PROVE Child(c, a)
  <2>1. PICK q \in present :
          /\ c = NameOf(q) /\ Exists(a) /\ q.route # <<>>
          /\ RouterOf(a) = [q EXCEPT !.route = Front(@)]
    BY DEF ChildrenOf
  <2>2. NameOf(RouterOf(a)) = a
    BY <2>1 DEF RouterOf, Exists, Names
  <2>3. NameOf(Parent(q)) = a
    BY <2>1, <2>2 DEF Parent
  <2> QED
    BY <2>1, <2>3 DEF Child, BusOK
<1>3. /\ Listable(ChildrenOf(a)) /\ ChildrenOf(a) \subseteq ItemSet
      /\ \A c \in ChildrenOf(a) : Known(c)
  BY <1>1, NamesAreListable DEF ItemSet
<1> QED
  BY <1>2, <1>3, LsOfItems

-----------------------------------------------------------------------------
(* The initial state and each step *)

\* Nothing is listed yet.
LEMMA InvInit == Init => IInv
<1> SUFFICES ASSUME Init PROVE IInv
  OBVIOUS
<1>1. BusOK
  BY PopulationsAssumption DEF Init, BusOK, Universe
<1>2. pc = "main" /\ stack = <<>> /\ printed = <<>>
  BY DEF Init
<1>3. ListsTyped
  BY <1>2 DEF ListsTyped, AtItem, Printed
<1>4. Seen
  BY <1>2 DEF Seen, AtItem, Printed
<1>5. Nested
  BY <1>2 DEF Nested, Printed
<1>6. TreeShape
  BY <1>2 DEF TreeShape
<1>7. NoCrash
  BY <1>2 DEF NoCrash
<1> QED
  BY <1>1, <1>3, <1>4, <1>5, <1>6, <1>7 DEF IInv

\* Routers plugged in are of the universe; those unplugged keep their names.
LEMMA BusStep ==
  BusOK /\ [Next]_vars => /\ BusOK' /\ gone \subseteq gone'
                          /\ Names \cup gone \subseteq (Names \cup gone)'
<1> DEFINE Goal == /\ BusOK' /\ gone \subseteq gone'
                   /\ Names \cup gone \subseteq (Names \cup gone)'
<1> SUFFICES ASSUME BusOK, [Next]_vars PROVE Goal
  OBVIOUS
<1>1. CASE UNCHANGED busVars
  BY <1>1 DEF busVars, BusOK, Names
<1>2. ASSUME NEW r \in Movable, Plug(r) PROVE Goal
  <2>1. IsFiniteSet(present')
    BY <1>2, FS_AddElement DEF Plug, BusOK
  <2> QED
    BY <1>2, <2>1 DEF Plug, BusOK, Universe, Names
<1>3. ASSUME NEW r \in Movable, Unplug(r) PROVE Goal
  <2>1. IsFiniteSet(present')
    BY <1>3, FS_RemoveElement DEF Unplug, BusOK
  <2>2. NameOf(r) \in NameSet
    BY DEF Universe, NameSet
  <2>3. BusOK'
    BY <1>3, <2>1, <2>2 DEF Unplug, BusOK
  <2> QED
    BY <1>3, <2>3 DEF Unplug, Names
<1>4. CASE Program
  BY <1>1, <1>4 DEF Program, main, Overrun, Count, Validate, Device, Ls, NextName, Return,
     NextDomain, Finish, About, Present, Header, dump_vdid, dump_generation,
     dump_auth_sts, enumerate_dev_tree, LinkFound
<1> QED
  BY <1>1, <1>2, <1>3, <1>4 DEF Next, Bus, vars

\* Steps that do not look at an item.
Elsewhere ==
  \/ main \/ Overrun \/ Count \/ Validate \/ Device
  \/ NextDomain \/ Finish \/ LinkFound

\* They leave lists and bus alone, and start a list of a device only after it was
\* found.
LEMMA ElsewhereSteps ==
  Elsewhere => /\ UNCHANGED <<stack, printed, item, busVars>>
               /\ pc' \in {"count", "validate", "device", "ls", "exit", "overrun"}
               /\ pc' = "ls" /\ Given(opts'.s) => UNCHANGED opts /\ Exists(opts.s.name)
<1> SUFFICES ASSUME Elsewhere
             PROVE  /\ UNCHANGED <<stack, printed, item, busVars>>
                    /\ pc' \in {"count", "validate", "device", "ls", "exit", "overrun"}
                    /\ pc' = "ls" /\ Given(opts'.s) => UNCHANGED opts /\ Exists(opts.s.name)
  OBVIOUS
<1>1. CASE main \/ Overrun
  BY <1>1 DEF main, Overrun, Goto, Exit
<1>2. CASE Count
  BY <1>2 DEF Count, Goto, Exit
<1>3. CASE Validate
  BY <1>3 DEF Validate, Goto, Exit
<1>4. CASE Device
  BY <1>4 DEF Device, Goto, Exit, is_router_present
<1>5. CASE NextDomain
  BY <1>5 DEF NextDomain, Goto
<1>6. CASE Finish \/ LinkFound
  BY <1>6 DEF Finish, LinkFound, Goto, Exit
<1> QED
  BY <1>1, <1>2, <1>3, <1>4, <1>5, <1>6 DEF Elsewhere

\* Steps about an item after it has been printed.
Reading == dump_vdid \/ dump_generation \/ dump_auth_sts

\* They leave lists and bus alone, and crash only when the router is not there.
LEMMA ReadingSteps ==
  Reading => /\ UNCHANGED <<stack, printed, item, opts, busVars>>
             /\ pc \in Printed
             /\ pc' \in Printed \cup {"next", "crash"}
             /\ pc' = "crash" => ~Exists(RouterName(item))
<1>1. ASSUME NEW next, ReadOr(next)
      PROVE  \/ pc' = next
             \/ pc' = "crash" /\ ~Exists(RouterName(item))
  BY <1>1 DEF ReadOr, Goto
<1>2. CASE dump_vdid
  <2>1. PICK next \in {"next", "generation"} : ReadOr(next)
    BY <1>2 DEF dump_vdid
  <2> QED
    BY <1>1, <1>2, <2>1 DEF dump_vdid, Printed
<1>3. CASE dump_generation
  <2>1. PICK next \in {"next", "children", "auth"} : ReadOr(next)
    <3> DEFINE n == CASE mode = "plain" -> "next"
                      [] mode = "tree" /\ opts.v = 0 -> "children"
                      [] OTHER -> "auth"
    <3>1. n \in {"next", "children", "auth"}
      <4>1. CASE mode = "plain"
        BY <4>1
      <4>2. CASE mode = "tree" /\ opts.v = 0
        BY <4>2
      <4>3. CASE ~(mode = "plain") /\ ~(mode = "tree" /\ opts.v = 0)
        BY <4>3
      <4> QED
        BY <4>1, <4>2, <4>3
    <3>2. ReadOr(n)
      BY <1>3, Zenon DEF dump_generation
    <3> QED
      BY <3>1, <3>2
  <2> QED
    BY <1>1, <1>3, <2>1 DEF dump_generation, Printed
<1>4. CASE dump_auth_sts
  <2>1. PICK next \in {"children", "next"} : ReadOr(next)
    BY <1>4 DEF dump_auth_sts
  <2> QED
    BY <1>1, <1>4, <2>1 DEF dump_auth_sts, Printed
<1> QED
  BY <1>2, <1>3, <1>4 DEF Reading

\* Every step is one of those that the following lemmas treat.
LEMMA StepCases ==
  [Next]_vars => \/ Elsewhere \/ Ls \/ NextName \/ Return \/ Present \/ Header
                 \/ Reading \/ enumerate_dev_tree \/ UNCHANGED progVars
BY DEF Next, Program, About, Elsewhere, Reading, Bus, Plug, Unplug, vars

\* Places before the last one.
LEMMA BeforeLast ==
  \A n \in Nat \ {0} : n \in 1 .. n /\ \A f \in 1 .. n - 1 : f \in 1 .. n /\ f # n
OBVIOUS

\* Replacing the last element of a sequence.
LEMMA ReplaceLast ==
  ASSUME NEW F, NEW s \in Seq(F), s # <<>>, NEW e \in F,
         NEW t, t = [s EXCEPT ![Len(s)] = e]
  PROVE  /\ t \in Seq(F) /\ Len(t) = Len(s) /\ t[Len(s)] = e
         /\ \A f \in 1 .. Len(s) - 1 : t[f] = s[f]
<1>1. Len(s) \in Nat \ {0} /\ DOMAIN s = 1 .. Len(s) /\ DOMAIN t = 1 .. Len(s)
  OBVIOUS
<1>2. \A f \in 1 .. Len(s) : t[f] = IF f = Len(s) THEN e ELSE s[f]
  BY <1>1
<1>3. \A f \in 1 .. Len(s) : t[f] \in F
  <2>1. \A f \in 1 .. Len(s) : s[f] \in F
    OBVIOUS
  <2> QED
    BY <1>2, <2>1, Zenon
<1>4. t \in Seq(F) /\ Len(t) = Len(s)
  <2>1. t = [f \in 1 .. Len(s) |-> t[f]]
    BY <1>1
  <2> QED
    BY <1>1, <1>3, <2>1
<1>5. /\ Len(s) \in 1 .. Len(s)
      /\ \A f \in 1 .. Len(s) - 1 : f \in 1 .. Len(s) /\ f # Len(s)
  BY <1>1, BeforeLast, Zenon
<1> QED
  BY <1>2, <1>4, <1>5, Zenon

\* Replacing what is left to do at one depth.
LEMMA ReplaceTodo ==
  ASSUME NEW f, NEW d, NEW t, f = [depth |-> d, todo |-> t], NEW u
  PROVE  [f EXCEPT !.todo = u] = [depth |-> d, todo |-> u]
OBVIOUS

\* Taking a name from the innermost list.
LEMMA NextNameLists ==
  ASSUME ListsTyped, NextName
  PROVE  LET n == Len(stack)  rest == stack'[n].todo  todo == stack[n].todo
         IN /\ n \in Nat \ {0} /\ todo \in Seq(ItemSet) /\ todo # <<>>
            /\ stack' \in Seq(FrameSet) /\ Len(stack') = n
            /\ \A f \in 1 .. n - 1 : stack'[f] = stack[f]
            /\ stack'[n].depth = stack[n].depth
            /\ item' = todo[1] /\ 1 \in DOMAIN todo /\ todo[1] \in ItemSet
            /\ \A k \in DOMAIN rest : k + 1 \in DOMAIN todo /\ rest[k] = todo[k + 1]
            /\ \A k \in DOMAIN todo : k = 1 \/ (k - 1 \in DOMAIN rest /\ rest[k - 1] = todo[k])
<1> DEFINE n == Len(stack)
           todo == stack[n].todo
<1>1. stack \in Seq(FrameSet) /\ stack # <<>> /\ top = stack[n]
  BY DEF ListsTyped, NextName, top, Last
<1>2. n \in Nat \ {0} /\ n \in 1 .. n
  BY <1>1
<1>3. stack[n] \in FrameSet
  BY <1>1, <1>2
<1>4. todo \in Seq(ItemSet) /\ todo # <<>> /\ stack[n].depth \in Nat
      /\ stack[n] = [depth |-> stack[n].depth, todo |-> todo]
  BY <1>1, <1>3 DEF FrameSet, NextName
<1>5. /\ Tail(todo) \in Seq(ItemSet) /\ Head(todo) = todo[1]
      /\ 1 \in DOMAIN todo /\ todo[1] \in ItemSet
      /\ \A k \in DOMAIN Tail(todo) : k + 1 \in DOMAIN todo /\ Tail(todo)[k] = todo[k + 1]
      /\ \A k \in DOMAIN todo :
           k = 1 \/ (k - 1 \in DOMAIN Tail(todo) /\ Tail(todo)[k - 1] = todo[k])
  BY <1>4
<1> DEFINE frame == [depth |-> stack[n].depth, todo |-> Tail(todo)]
<1>6. stack' = [stack EXCEPT ![n] = frame]
  <2>1. [stack[n] EXCEPT !.todo = Tail(@)] = frame
    BY <1>4, ReplaceTodo
  <2>2. stack' = [stack EXCEPT ![n] = [stack[n] EXCEPT !.todo = Tail(@)]]
    BY Zenon DEF NextName
  <2> QED
    BY <2>1, <2>2, Zenon
<1>7. frame \in FrameSet
  BY <1>4, <1>5 DEF FrameSet
<1>8. /\ stack' \in Seq(FrameSet) /\ Len(stack') = n
      /\ \A f \in 1 .. n - 1 : stack'[f] = stack[f]
      /\ stack'[n] = frame
  <2> HIDE DEF frame
  <2> QED
    BY <1>1, <1>6, <1>7, ReplaceLast
<1>9. item' = todo[1]
  BY <1>1, <1>5 DEF NextName
<1> QED
  BY <1>2, <1>4, <1>5, <1>8, <1>9

\* The first n elements of a sequence.
LEMMA InitialPart ==
  ASSUME NEW s, NEW n \in Nat
  PROVE  LET t == SubSeq(s, 1, n)
         IN Len(t) = n /\ DOMAIN t = 1 .. n /\ \A f \in 1 .. n : t[f] = s[f]
OBVIOUS

\* A sequence without its last element.
LEMMA DropLast ==
  ASSUME NEW F, NEW s \in Seq(F), s # <<>>
  PROVE  LET t == SubSeq(s, 1, Len(s) - 1)
         IN /\ Len(s) \in Nat \ {0} /\ t \in Seq(F) /\ Len(t) = Len(s) - 1
            /\ \A f \in 1 .. Len(s) - 1 : t[f] = s[f]
<1>1. Len(s) \in Nat \ {0} /\ \A f \in 1 .. Len(s) : s[f] \in F
  OBVIOUS
<1> DEFINE n == Len(s) - 1
           t == SubSeq(s, 1, n)
<1>2. n \in Nat /\ \A f \in 1 .. n : f \in 1 .. Len(s)
  BY <1>1
<1>3. Len(t) = n /\ DOMAIN t = 1 .. n /\ \A f \in 1 .. n : t[f] = s[f]
  BY <1>2, InitialPart
<1>4. t \in Seq(F)
  <2>1. t = [f \in 1 .. n |-> s[f]]
    BY <1>1, <1>2
  <2> QED
    BY <1>1, <1>2, <2>1
<1> QED
  BY <1>1, <1>3, <1>4

\* Leaving the innermost list.
LEMMA ReturnLists ==
  ASSUME ListsTyped, Return
  PROVE  /\ Len(stack) \in Nat \ {0} /\ Len(stack') = Len(stack) - 1
         /\ stack' \in Seq(FrameSet)
         /\ \A f \in 1 .. Len(stack) - 1 : stack'[f] = stack[f]
         /\ UNCHANGED <<pc, opts, item, printed, busVars>> /\ pc = "next"
<1>1. stack \in Seq(FrameSet) /\ stack # <<>> /\ stack' = SubSeq(stack, 1, Len(stack) - 1)
  BY DEF ListsTyped, Return, Front
<1>2. UNCHANGED <<pc, opts, item, printed, busVars>> /\ pc = "next"
  BY DEF Return
<1> QED
  BY <1>1, <1>2, DropLast, Zenon

\* Starting a list below the innermost one.
LEMMA EnterLists ==
  ASSUME BusOK, ListsTyped, Nested, enumerate_dev_tree
  PROVE  LET n == Len(stack)  f == stack'[n + 1]
         IN /\ n \in Nat \ {0} /\ Len(stack') = n + 1 /\ stack' \in Seq(FrameSet)
            /\ \A k \in 1 .. n : stack'[k] = stack[k]
            /\ f.depth = n
            /\ \A k \in DOMAIN f.todo : Known(f.todo[k]) /\ Child(f.todo[k], item)
            /\ pc' = "next" /\ UNCHANGED <<opts, item, printed, busVars>>
<1> DEFINE n == Len(stack)
           list == ls(ChildrenOf(item))
           f == [depth |-> n, todo |-> list]
<1>1. pc = "children" /\ pc' = "next" /\ UNCHANGED <<opts, item, printed, busVars>>
  BY DEF enumerate_dev_tree, Goto
<1>2. stack \in Seq(FrameSet) /\ stack # <<>>
  BY <1>1 DEF ListsTyped, Printed
<1>3. n \in Nat \ {0} /\ n \in DOMAIN stack
  BY <1>2
<1>4. stack[n].depth = n - 1
  BY <1>3 DEF Nested
<1>5. Deeper(top.depth) = n
  BY <1>3, <1>4 DEF Deeper, top, Last
<1>6. stack' = Append(stack, f)
  BY <1>5 DEF enumerate_dev_tree
<1>7. /\ list \in Seq(ItemSet)
      /\ \A k \in DOMAIN list : Known(list[k]) /\ Child(list[k], item)
  BY ChildrenItems
<1>8. f \in FrameSet
  BY <1>3, <1>7 DEF FrameSet
<1>9. /\ Len(stack') = n + 1 /\ stack' \in Seq(FrameSet)
      /\ \A k \in 1 .. n : stack'[k] = stack[k]
      /\ stack'[n + 1] = f
  <2> HIDE DEF f
  <2> QED
    BY <1>2, <1>6, <1>8
<1> QED
  BY <1>1, <1>3, <1>7, <1>9

\* Printing an item, or giving up on it.
LEMMA HeaderLists ==
  ASSUME ListsTyped, Nested, Header
  PROVE  LET n == Len(stack)
         IN /\ n \in Nat \ {0} /\ pc = "header" /\ item \in ItemSet
            /\ UNCHANGED <<opts, stack, item, busVars>>
            /\ \/ /\ printed' = Append(printed, EntryOf(item, n - 1))
                  /\ pc' \in {"generation", "ids"}
               \/ UNCHANGED printed /\ pc' = "next"
<1> DEFINE n == Len(stack)
<1>1. pc = "header" /\ UNCHANGED <<opts, stack, item, busVars>>
  BY DEF Header
<1>2. item \in ItemSet /\ stack \in Seq(FrameSet) /\ stack # <<>>
  BY <1>1 DEF ListsTyped, AtItem
<1>3. n \in Nat \ {0} /\ n \in DOMAIN stack
  BY <1>2
<1>4. stack[n].depth = n - 1
  BY <1>3 DEF Nested
<1>5. Entry = EntryOf(item, n - 1)
  BY <1>4 DEF Entry, EntryOf, top, Last
<1>6. \/ printed' = Append(printed, Entry) /\ pc' \in {"generation", "ids"}
      \/ UNCHANGED printed /\ pc' = "next"
  BY DEF Header, Goto
<1> QED
  BY <1>1, <1>2, <1>3, <1>5, <1>6

\* Listing anew.
LEMMA LsStarts ==
  ASSUME BusOK, Seen, Ls
  PROVE  /\ stack' \in Seq(FrameSet) /\ Len(stack') = 1 /\ stack'[1].depth = 0
         /\ \A k \in DOMAIN stack'[1].todo : Known(stack'[1].todo[k])
         /\ pc' = "next" /\ UNCHANGED <<opts, item, printed, busVars>>
<1>1. pc = "ls" /\ pc' = "next" /\ UNCHANGED <<opts, item, printed, busVars>>
      /\ stack' = <<[depth |-> 0, todo |-> Selected]>>
  BY DEF Ls, Goto
<1>2. Selected \in Seq(ItemSet) /\ \A k \in DOMAIN Selected : Known(Selected[k])
  BY <1>1, SelectedItems
<1> DEFINE f == [depth |-> 0, todo |-> Selected]
<1>3. f \in FrameSet
  BY <1>2 DEF FrameSet
<1>4. stack' \in Seq(FrameSet) /\ Len(stack') = 1 /\ stack'[1] = f
  <2> HIDE DEF f
  <2>1. stack' = <<f>>
    BY <1>1 DEF f
  <2> QED
    BY <1>3, <2>1
<1> QED
  BY <1>1, <1>2, <1>4

\* A router that is not there is passed over.
LEMMA PresentSteps ==
  Present => /\ pc = "present" /\ pc' \in {"header", "next"}
             /\ UNCHANGED <<opts, stack, item, printed, busVars>>
BY DEF Present, Goto

\* ListsTyped is preserved.
LEMMA ListsTypedStep ==
  ASSUME IInv, [Next]_vars
  PROVE  ListsTyped'
<1>0. /\ BusOK /\ Seen /\ Nested
      /\ stack \in Seq(FrameSet) /\ printed \in Seq(EntrySet)
      /\ pc \in AtItem \cup Printed => item \in ItemSet /\ stack # <<>>
  BY DEF IInv, ListsTyped
<1> USE DEF AtItem, Printed
<1>1. CASE Elsewhere
  BY <1>0, <1>1, ElsewhereSteps DEF ListsTyped
<1>2. CASE Ls
  BY <1>0, <1>2, LsStarts DEF ListsTyped
<1>3. CASE NextName
  <2>1. /\ stack' \in Seq(FrameSet) /\ Len(stack') \in Nat \ {0} /\ item' \in ItemSet
    BY <1>3, NextNameLists DEF IInv
  <2>2. UNCHANGED printed
    BY <1>3 DEF NextName
  <2> QED
    BY <1>0, <2>1, <2>2 DEF ListsTyped
<1>4. CASE Return
  BY <1>0, <1>4, ReturnLists DEF ListsTyped, IInv
<1>5. CASE Present
  BY <1>0, <1>5, PresentSteps DEF ListsTyped
<1>6. CASE Header
  <2>1. Len(stack) \in Nat \ {0} => stack # <<>> /\ EntryOf(item, Len(stack) - 1) \in
          {EntryOf(item, d) : d \in Nat}
    OBVIOUS
  <2>2. item \in ItemSet => {EntryOf(item, d) : d \in Nat} \subseteq EntrySet
    BY DEF EntrySet
  <2> QED
    BY <1>0, <1>6, <2>1, <2>2, HeaderLists DEF ListsTyped, IInv
<1>7. CASE Reading
  BY <1>0, <1>7, ReadingSteps DEF ListsTyped
<1>8. CASE enumerate_dev_tree
  BY <1>0, <1>8, EnterLists DEF ListsTyped, IInv
<1>9. CASE UNCHANGED progVars
  BY <1>0, <1>9 DEF ListsTyped, progVars
<1> QED
  BY <1>1, <1>2, <1>3, <1>4, <1>5, <1>6, <1>7, <1>8, <1>9, StepCases

\* Seen is preserved: lists are made of routers that are there, and routers that
\* leave are among those gone.
LEMMA SeenStep ==
  ASSUME IInv, [Next]_vars
  PROVE  Seen'
<1> DEFINE Was == Names \cup gone
<1>1. /\ BusOK /\ ListsTyped /\ Nested
      /\ \A f \in DOMAIN stack : \A k \in DOMAIN stack[f].todo : Known(stack[f].todo[k])
      /\ pc \in AtItem \cup Printed \cup {"crash"} => Known(item)
      /\ pc = "ls" /\ Given(opts.s) => opts.s.name \in Was
  BY DEF IInv, Seen
<1>2. Was \subseteq Was'
  BY <1>1, BusStep
<1> DEFINE Stays(a) == RouterName(a) \in Was'
<1>3. \A a : Known(a) => Stays(a)
  BY <1>2 DEF Known
<1>4. \A f \in DOMAIN stack : \A k \in DOMAIN stack[f].todo : Stays(stack[f].todo[k])
  BY <1>1, <1>3, Zenon
<1>5. SUFFICES
        /\ \A f \in DOMAIN stack' : \A k \in DOMAIN stack'[f].todo : Stays(stack'[f].todo[k])
        /\ pc' \in AtItem \cup Printed \cup {"crash"} => Stays(item')
        /\ pc' = "ls" /\ Given(opts'.s) => opts'.s.name \in Was'
  BY DEF Seen, Known
<1> HIDE DEF Was, Stays
<1> USE DEF AtItem, Printed
<1>6. CASE Elsewhere
  <2>1. /\ UNCHANGED stack /\ pc' \notin AtItem \cup Printed \cup {"crash"}
        /\ pc' = "ls" /\ Given(opts'.s) => opts' = opts /\ Exists(opts.s.name)
    BY <1>6, ElsewhereSteps
  <2>2. Exists(opts.s.name) => opts.s.name \in Was'
    BY <1>2 DEF Exists, Was
  <2> QED
    BY <1>4, <2>1, <2>2
<1>7. CASE Ls
  <2>1. /\ stack' \in Seq(FrameSet) /\ Len(stack') = 1 /\ pc' = "next"
        /\ \A k \in DOMAIN stack'[1].todo : Known(stack'[1].todo[k])
    BY <1>1, <1>7, LsStarts DEF IInv
  <2>2. \A k \in DOMAIN stack'[1].todo : Stays(stack'[1].todo[k])
    BY <1>3, <2>1, Zenon
  <2>3. DOMAIN stack' = {1}
    BY <2>1
  <2> QED
    BY <2>1, <2>2, <2>3
<1>8. CASE NextName
  <2> DEFINE n == Len(stack)
             rest == stack'[n].todo
             todo == stack[n].todo
  <2>1. /\ n \in Nat \ {0} /\ stack' \in Seq(FrameSet) /\ Len(stack') = n
        /\ \A f \in 1 .. n - 1 : stack'[f] = stack[f]
        /\ item' = todo[1] /\ 1 \in DOMAIN todo
        /\ \A k \in DOMAIN rest : k + 1 \in DOMAIN todo /\ rest[k] = todo[k + 1]
    BY <1>1, <1>8, NextNameLists
  <2>2. pc' \in {"present", "header"}
    BY <1>8 DEF NextName, Goto
  <2>3. DOMAIN stack = 1 .. n /\ DOMAIN stack' = 1 .. n /\ n \in 1 .. n
    BY <1>1, <2>1 DEF ListsTyped
  <2>4. \A k \in DOMAIN rest : Stays(rest[k])
    BY <1>4, <2>1, <2>3
  <2>5. Stays(item')
    BY <1>4, <2>1, <2>3
  <2>6. \A f \in 1 .. n - 1 : \A k \in DOMAIN stack'[f].todo : Stays(stack'[f].todo[k])
    BY <1>4, <2>1, <2>3
  <2>7. \A f \in 1 .. n : f \in 1 .. n - 1 \/ f = n
    BY <2>1
  <2> HIDE DEF n
  <2> QED
    BY <2>2, <2>3, <2>4, <2>5, <2>6, <2>7
<1>9. CASE Return
  <2>1. /\ DOMAIN stack' \subseteq DOMAIN stack
        /\ \A f \in DOMAIN stack' : stack'[f] = stack[f]
    <3>1. /\ Len(stack) \in Nat \ {0} /\ Len(stack') = Len(stack) - 1
          /\ stack' \in Seq(FrameSet)
          /\ \A f \in 1 .. Len(stack) - 1 : stack'[f] = stack[f]
      BY <1>1, <1>9, ReturnLists
    <3>2. DOMAIN stack = 1 .. Len(stack) /\ DOMAIN stack' = 1 .. Len(stack) - 1
      BY <1>1, <3>1 DEF ListsTyped
    <3> QED
      BY <3>1, <3>2
  <2>2. pc' = "next"
    BY <1>1, <1>9, ReturnLists
  <2> QED
    BY <1>4, <2>1, <2>2
<1>10. CASE Present \/ Header
  BY <1>1, <1>3, <1>4, <1>10, PresentSteps, HeaderLists
<1>11. CASE Reading
  BY <1>1, <1>3, <1>4, <1>11, ReadingSteps
<1>12. CASE enumerate_dev_tree
  <2> DEFINE n == Len(stack)
             f == stack'[n + 1]
  <2>1. /\ n \in Nat \ {0} /\ Len(stack') = n + 1 /\ stack' \in Seq(FrameSet)
        /\ \A k \in 1 .. n : stack'[k] = stack[k]
        /\ \A k \in DOMAIN f.todo : Known(f.todo[k])
        /\ pc' = "next"
    BY <1>1, <1>12, EnterLists
  <2>2. \A k \in DOMAIN f.todo : Stays(f.todo[k])
    BY <1>3, <2>1, Zenon
  <2>3. DOMAIN stack = 1 .. n /\ DOMAIN stack' = 1 .. n + 1
    BY <1>1, <2>1 DEF ListsTyped
  <2>4. \A k \in 1 .. n + 1 : k \in 1 .. n \/ k = n + 1
    BY <2>1
  <2> QED
    BY <1>4, <2>1, <2>2, <2>3, <2>4
<1>13. CASE UNCHANGED progVars
  BY <1>1, <1>3, <1>4, <1>2, <1>13 DEF progVars, Was
<1> QED
  BY <1>6, <1>7, <1>8, <1>9, <1>10, <1>11, <1>12, <1>13, StepCases

\* NoCrash is preserved: what is looked at has been seen, so when it cannot be read
\* it has been unplugged.
LEMMA NoCrashStep ==
  ASSUME IInv, [Next]_vars
  PROVE  NoCrash'
<1>1. /\ BusOK /\ ListsTyped /\ Nested /\ Seen /\ NoCrash
  BY DEF IInv
<1>2. gone \subseteq gone'
  BY <1>1, BusStep
<1>3. CASE pc' # "crash"
  BY <1>3 DEF NoCrash
<1>4. CASE Reading /\ pc' = "crash"
  <2>1. item' = item /\ gone' = gone /\ pc \in Printed /\ RouterName(item) \notin Names
    BY <1>4, ReadingSteps DEF busVars, Exists
  <2>2. Known(item)
    BY <1>1, <2>1 DEF Seen
  <2> QED
    BY <2>1, <2>2 DEF Known, NoCrash
<1>5. CASE UNCHANGED progVars
  BY <1>1, <1>2, <1>5 DEF progVars, NoCrash
<1>6. CASE \/ Elsewhere \/ Ls \/ NextName \/ Return \/ Present \/ Header
           \/ enumerate_dev_tree
  <2>1. pc' # "crash"
    BY <1>1, <1>6, ElsewhereSteps, LsStarts, ReturnLists, PresentSteps, HeaderLists,
       EnterLists DEF NextName, Goto
  <2> QED
    BY <1>3, <2>1
<1> QED
  BY <1>3, <1>4, <1>5, <1>6, StepCases

\* A step that changes neither the lists nor the item.
LEMMA NestedStays ==
  ASSUME Nested, UNCHANGED <<stack, printed, item>>,
         pc' \in AtItem => pc \in AtItem,
         pc' \in Printed => pc \in Printed
  PROVE  Nested'
<1>1. ASSUME NEW d, NEW m, Hangs(d, m) PROVE Hangs(d, m)'
  BY <1>1 DEF Hangs
<1>2. \A d \in 1 .. Len(stack) - 1 : \E m : Hangs(d, m)'
  BY <1>1 DEF Nested
<1>3. UNCHANGED EntryOf(item, Len(stack) - 1)
  BY DEF EntryOf, domain_of_router, depth_of_router, downstream_port
<1> QED
  BY <1>2, <1>3 DEF Nested

\* Taking a name: it hangs where its list does.
LEMMA NestedNextName ==
  ASSUME ListsTyped, Nested, NextName
  PROVE  Nested'
<1> DEFINE n == Len(stack)
           rest == stack'[n].todo
           todo == stack[n].todo
<1>1. /\ n \in Nat \ {0} /\ Len(stack') = n /\ stack' \in Seq(FrameSet)
      /\ \A f \in 1 .. n - 1 : stack'[f] = stack[f]
      /\ stack'[n].depth = stack[n].depth
      /\ item' = todo[1] /\ 1 \in DOMAIN todo
      /\ \A k \in DOMAIN rest : k + 1 \in DOMAIN todo /\ rest[k] = todo[k + 1]
  BY NextNameLists
<1>2. DOMAIN stack = 1 .. n /\ DOMAIN stack' = 1 .. n
  BY <1>1 DEF ListsTyped
<1>3. UNCHANGED printed /\ pc' \in AtItem
  BY DEF NextName, Goto, AtItem
<1> HIDE DEF n
<1>4. \A f \in 1 .. n : f \in 1 .. n - 1 \/ f = n
  BY <1>1
<1>5. \A f \in DOMAIN stack' : stack'[f].depth = f - 1
  BY <1>1, <1>2, <1>4 DEF Nested
<1>6. ASSUME NEW d \in 1 .. n - 1
      PROVE  \E m : Hangs(d, m)'
  <2>1. PICK m : Hangs(d, m)
    BY DEF Nested, n
  <2>2. d + 1 \in 1 .. n /\ (d + 1 \in 1 .. n - 1 \/ d + 1 = n)
    BY <1>1
  <2>3. CASE d + 1 \in 1 .. n - 1
    <3>1. d + 1 # n /\ stack'[d + 1] = stack[d + 1]
      BY <1>1, <2>3
    <3> QED
      BY <1>1, <1>3, <2>1, <3>1 DEF Hangs
  <2>4. CASE d + 1 = n
    <3>1. \A k \in DOMAIN todo : Child(todo[k], printed[m].item)
      BY <2>1, <2>4 DEF Hangs
    <3>2. /\ \A k \in DOMAIN rest : Child(rest[k], printed[m].item)
          /\ Child(item', printed[m].item)
      BY <1>1, <3>1, Zenon
    <3>3. m \in DOMAIN printed /\ printed[m].row = d - 1
          /\ \A q \in DOMAIN printed : q > m => printed[q].row >= d
      BY <2>1 DEF Hangs
    <3>4. Hangs(d, m)'
      BY <1>3, <2>4, <3>2, <3>3 DEF Hangs, Child
    <3> QED
      BY <3>4
  <2> QED
    BY <2>2, <2>3, <2>4
<1>7. pc' \notin Printed
  BY <1>3 DEF AtItem, Printed
<1> QED
  BY <1>1, <1>5, <1>6, <1>7 DEF Nested

\* Back in the list above.
LEMMA NestedReturn ==
  ASSUME ListsTyped, Nested, Return
  PROVE  Nested'
<1>1. /\ Len(stack) \in Nat \ {0} /\ Len(stack') = Len(stack) - 1
      /\ stack' \in Seq(FrameSet)
      /\ \A f \in 1 .. Len(stack) - 1 : stack'[f] = stack[f]
      /\ UNCHANGED <<pc, item, printed>> /\ pc' = "next"
  BY ReturnLists
<1>2. /\ DOMAIN stack = 1 .. Len(stack) /\ DOMAIN stack' = 1 .. Len(stack) - 1
  BY <1>1 DEF ListsTyped
<1>3. \A f \in DOMAIN stack' : stack'[f].depth = f - 1
  <2>1. \A f \in 1 .. Len(stack) - 1 : f \in 1 .. Len(stack)
    BY <1>1
  <2> QED
    BY <1>1, <1>2, <2>1 DEF Nested
<1>4. pc' \notin AtItem \cup Printed
  BY <1>1 DEF AtItem, Printed
<1>5. ASSUME NEW d \in 1 .. Len(stack') - 1
      PROVE  \E m : Hangs(d, m)'
  <2>1. d \in 1 .. Len(stack) - 1 /\ d + 1 \in 1 .. Len(stack) - 1
    BY <1>1
  <2>2. PICK m : Hangs(d, m)
    BY <2>1 DEF Nested
  <2>3. stack'[d + 1] = stack[d + 1]
    BY <1>1, <2>1
  <2> QED
    BY <1>1, <1>4, <2>2, <2>3 DEF Hangs
<1> QED
  BY <1>3, <1>4, <1>5 DEF Nested

\* What follows when an entry is added in the row of the innermost list.
LEMMA Added ==
  ASSUME ListsTyped, NEW e, NEW l, l = Append(printed, e)
  PROVE  LET p == Len(printed)
         IN /\ p \in Nat /\ DOMAIN printed = 1 .. p
            /\ Len(l) = p + 1 /\ DOMAIN l = 1 .. p + 1 /\ l[p + 1] = e
            /\ \A k \in 1 .. p : l[k] = printed[k]
BY DEF ListsTyped

\* Printing: the new entry is not above any list.
LEMMA NestedPrinted ==
  ASSUME ListsTyped, Nested,
         Len(stack) \in Nat \ {0}, UNCHANGED <<stack, item>>, pc' \in Printed,
         printed' = Append(printed, EntryOf(item, Len(stack) - 1))
  PROVE  Nested'
<1> DEFINE p == Len(printed)
           n == Len(stack)
           e == EntryOf(item, n - 1)
<1>1. /\ p \in Nat /\ DOMAIN printed = 1 .. p
      /\ Len(printed') = p + 1 /\ DOMAIN printed' = 1 .. p + 1 /\ printed'[p + 1] = e
      /\ \A k \in 1 .. p : printed'[k] = printed[k]
  BY Added
<1>2. e.row = n - 1
  BY DEF EntryOf
<1>3. pc' \notin AtItem
  BY DEF AtItem, Printed
<1>4. ASSUME NEW d \in 1 .. n - 1
      PROVE  \E m : Hangs(d, m)'
  <2>1. PICK m : Hangs(d, m)
    BY DEF Nested
  <2>2. /\ m \in 1 .. p /\ printed[m].row = d - 1
        /\ \A q \in 1 .. p : q > m => printed[q].row >= d
        /\ \A k \in DOMAIN stack[d + 1].todo : Child(stack[d + 1].todo[k], printed[m].item)
    BY <1>1, <2>1 DEF Hangs
  <2>3. n - 1 >= d
    OBVIOUS
  <2> HIDE DEF p, n, e
  <2>4. /\ m \in DOMAIN printed' /\ printed'[m] = printed[m]
        /\ \A q \in 1 .. p + 1 : q \in 1 .. p \/ q = p + 1
    BY <1>1, <2>2
  <2>5. \A q \in DOMAIN printed' : q > m => printed'[q].row >= d
    BY <1>1, <1>2, <2>2, <2>3, <2>4
  <2> QED
    BY <1>3, <2>2, <2>4, <2>5 DEF Hangs, Child
<1>5. Len(printed') > 0 /\ printed'[Len(printed')] = EntryOf(item, n - 1)
  BY <1>1
<1>6. (EntryOf(item, Len(stack) - 1))' = EntryOf(item, n - 1)
  BY DEF EntryOf, domain_of_router, depth_of_router, downstream_port
<1> QED
  BY <1>4, <1>5, <1>6 DEF Nested

\* A new list hangs at the entry printed last.
LEMMA NestedEnter ==
  ASSUME BusOK, ListsTyped, Nested, enumerate_dev_tree
  PROVE  Nested'
<1>0. /\ Len(stack) \in Nat \ {0} /\ Len(stack') = Len(stack) + 1
      /\ Len(printed) \in Nat
      /\ DOMAIN stack = 1 .. Len(stack) /\ DOMAIN stack' = 1 .. Len(stack')
      /\ DOMAIN printed = 1 .. Len(printed)
  BY EnterLists DEF ListsTyped
<1> PICK n \in Nat \ {0} : n = Len(stack)
  BY <1>0
<1> PICK p \in Nat : p = Len(printed)
  BY <1>0
<1> DEFINE f == stack'[n + 1]
<1>1. /\ Len(stack') = n + 1
      /\ \A k \in 1 .. n : stack'[k] = stack[k]
      /\ f.depth = n
      /\ \A k \in DOMAIN f.todo : Child(f.todo[k], item)
      /\ pc' = "next" /\ UNCHANGED <<item, printed>>
  BY EnterLists
<1>2. DOMAIN stack = 1 .. n /\ DOMAIN stack' = 1 .. n + 1
      /\ DOMAIN printed = 1 .. p
  BY <1>0
<1>3. p > 0 /\ printed[p] = EntryOf(item, n - 1)
  BY DEF Nested, enumerate_dev_tree, Printed
<1>4. printed[p].row = n - 1 /\ printed[p].item = item
  BY <1>3 DEF EntryOf
<1>5. pc' \notin AtItem \cup Printed
  BY <1>1 DEF AtItem, Printed
<1> HIDE DEF f
<1>6. \A k \in DOMAIN stack' : stack'[k].depth = k - 1
  <2>1. \A k \in 1 .. n + 1 : k \in 1 .. n \/ k = n + 1
    BY <1>1
  <2>2. \A k \in 1 .. n : stack'[k].depth = k - 1
    BY <1>1, <1>2 DEF Nested
  <2>3. stack'[n + 1].depth = n + 1 - 1
    BY <1>1 DEF f
  <2> QED
    BY <1>2, <2>1, <2>2, <2>3
<1>7. ASSUME NEW d \in 1 .. n - 1
      PROVE  \E m : Hangs(d, m)'
  <2>1. PICK m : Hangs(d, m)
    BY DEF Nested
  <2>2. stack'[d + 1] = stack[d + 1]
    <3>1. d + 1 \in 1 .. n
      BY <1>1
    <3> QED
      BY <1>1, <3>1
  <2> QED
    BY <1>1, <1>5, <2>1, <2>2 DEF Hangs
<1>8. Hangs(n, p)'
  <2>1. p \in 1 .. p /\ \A q \in 1 .. p : ~(q > p)
    BY <1>2, <1>3
  <2>2. /\ p \in DOMAIN printed' /\ printed'[p].row = n - 1
        /\ \A q \in DOMAIN printed' : q > p => printed'[q].row >= n
    BY <1>1, <1>2, <1>4, <2>1
  <2>3. \A k \in DOMAIN stack'[n + 1].todo : Child(stack'[n + 1].todo[k], printed'[p].item)
    BY <1>1, <1>4 DEF f
  <2> QED
    BY <1>5, <2>2, <2>3 DEF Hangs, Child
<1>9. \A d \in 1 .. Len(stack') - 1 : d \in 1 .. n - 1 \/ d = n
  <2>1. Len(stack') - 1 = n /\ n \in Nat \ {0}
    BY <1>1
  <2> QED
    BY <2>1
<1>10. \A d \in 1 .. Len(stack') - 1 : \E m : Hangs(d, m)'
  BY <1>7, <1>8, <1>9
<1> QED
  BY <1>5, <1>6, <1>10 DEF Nested

\* Nested is preserved.
LEMMA NestedStep ==
  ASSUME IInv, [Next]_vars
  PROVE  Nested'
<1>1. BusOK /\ ListsTyped /\ Seen /\ Nested
  BY DEF IInv
<1>2. CASE \/ UNCHANGED progVars
           \/ Elsewhere \/ Present \/ Reading
           \/ Header /\ UNCHANGED printed /\ pc' = "next"
  <2>1. /\ UNCHANGED <<stack, printed, item>>
        /\ pc' \in AtItem => pc \in AtItem
        /\ pc' \in Printed => pc \in Printed
    BY <1>1, <1>2, ElsewhereSteps, PresentSteps, ReadingSteps, HeaderLists
       DEF progVars, AtItem, Printed
  <2> QED
    BY <1>1, <2>1, NestedStays
<1>3. CASE Ls
  <2>1. /\ stack' \in Seq(FrameSet) /\ Len(stack') = 1 /\ stack'[1].depth = 0
        /\ pc' = "next"
    BY <1>1, <1>3, LsStarts
  <2>2. DOMAIN stack' = {1} /\ 1 .. Len(stack') - 1 = {}
    BY <2>1
  <2> QED
    BY <2>1, <2>2 DEF Nested, Printed
<1>4. CASE Header /\ ~(UNCHANGED printed /\ pc' = "next")
  <2>1. /\ Len(stack) \in Nat \ {0} /\ UNCHANGED <<stack, item>> /\ pc' \in Printed
        /\ printed' = Append(printed, EntryOf(item, Len(stack) - 1))
    BY <1>1, <1>4, HeaderLists DEF Printed
  <2> QED
    BY <1>1, <2>1, NestedPrinted
<1> QED
  BY <1>1, <1>2, <1>3, <1>4, StepCases, NestedNextName, NestedReturn, NestedEnter

\* A new line stands below the entry its list hangs at.
LEMMA TreeShapePrinted ==
  ASSUME ListsTyped, Nested, TreeShape, pc \in AtItem,
         NEW d \in Nat, d = Len(stack) - 1,
         printed' = Append(printed, EntryOf(item, d))
  PROVE  TreeShape'
<1> DEFINE Below(l, k, m) ==
             /\ l[m].row = l[k].row - 1
             /\ \A q \in m + 1 .. k - 1 : l[q].row >= l[k].row
             /\ Child(l[k].item, l[m].item)
<1>0. Len(printed) \in Nat
  BY Added
<1> PICK p \in Nat : p = Len(printed)
  BY <1>0
<1>1. /\ DOMAIN printed = 1 .. p
      /\ Len(printed') = p + 1
      /\ printed'[p + 1].row = d /\ printed'[p + 1].item = item
      /\ \A k \in 1 .. p : printed'[k] = printed[k]
  BY Added DEF EntryOf
<1>2. SUFFICES ASSUME NEW k \in 1 .. p + 1, printed'[k].row > 0
               PROVE  \E m \in 1 .. k - 1 : Below(printed', k, m)
  <2>1. (\A k \in 1 .. Len(printed') : printed'[k].row > 0 =>
           \E m \in 1 .. k - 1 : Below(printed', k, m)) => TreeShape'
    BY Zenon DEF TreeShape, Child
  <2>2. 1 .. Len(printed') = 1 .. p + 1
    BY <1>1
  <2> HIDE DEF Below
  <2> QED
    BY <2>1, <2>2, Zenon
<1>3. CASE k \in 1 .. p
  <2>1. PICK m \in 1 .. k - 1 : Below(printed, k, m)
    BY <1>1, <1>2, <1>3 DEF TreeShape, Child
  <2>2. m \in 1 .. p /\ \A q \in m + 1 .. k - 1 : q \in 1 .. p
    BY <1>3
  <2>3. printed'[k] = printed[k] /\ printed'[m] = printed[m]
        /\ \A q \in m + 1 .. k - 1 : printed'[q] = printed[q]
    BY <1>1, <1>3, <2>2
  <2>4. Below(printed', k, m)
    BY <2>1, <2>3
  <2> QED
    BY <2>4
<1>4. CASE k = p + 1
  <2>1. d > 0 /\ d \in 1 .. Len(stack) - 1
    BY <1>1, <1>2, <1>4
  <2>2. PICK m : Hangs(d, m)
    BY <2>1 DEF Nested
  <2>3. /\ m \in 1 .. p /\ printed[m].row = d - 1
        /\ \A q \in 1 .. p : q > m => printed[q].row >= d
        /\ Child(item, printed[m].item)
    BY <1>1, <2>1, <2>2 DEF Hangs
  <2>4. m \in 1 .. k - 1 /\ \A q \in m + 1 .. k - 1 : q \in 1 .. p /\ q > m
    BY <1>4, <2>3
  <2>5. Below(printed', k, m)
    BY <1>1, <1>4, <2>3, <2>4
  <2> QED
    BY <2>4, <2>5
<1>5. k \in 1 .. p \/ k = p + 1
  OBVIOUS
<1> QED
  BY <1>3, <1>4, <1>5

\* TreeShape is preserved.
LEMMA TreeShapeStep ==
  ASSUME IInv, [Next]_vars
  PROVE  TreeShape'
<1>1. BusOK /\ ListsTyped /\ Seen /\ Nested /\ TreeShape
  BY DEF IInv
<1>2. CASE UNCHANGED printed
  BY <1>1, <1>2 DEF TreeShape
<1>3. CASE Header /\ ~UNCHANGED printed
  <2>1. /\ Len(stack) \in Nat \ {0} /\ pc \in AtItem
        /\ printed' = Append(printed, EntryOf(item, Len(stack) - 1))
    BY <1>1, <1>3, HeaderLists DEF AtItem
  <2>2. Len(stack) - 1 \in Nat
    BY <2>1
  <2> QED
    BY <1>1, <2>1, <2>2, TreeShapePrinted
<1>4. \/ Header \/ UNCHANGED printed
  BY <1>1, StepCases, ElsewhereSteps, LsStarts, ReturnLists, PresentSteps, ReadingSteps,
     EnterLists DEF NextName, progVars
<1> QED
  BY <1>2, <1>3, <1>4

-----------------------------------------------------------------------------
(* Theorems *)

\* The invariant is inductive.
LEMMA InvNext == IInv /\ [Next]_vars => IInv'
BY BusStep, ListsTypedStep, SeenStep, NestedStep, TreeShapeStep, NoCrashStep DEF IInv

\* IInv for every bus, command line and course of changes.
THEOREM Invariant == Spec => []IInv
BY InvInit, InvNext, PTL DEF Spec

\* TreeShape for every bus, command line and course of changes: what lstbt -t
\* indents below a router was connected to it.
THEOREM TreeIsTrue == Spec => []TreeShape
<1>1. IInv => TreeShape
  BY DEF IInv
<1> QED
  BY <1>1, Invariant, PTL

\* NoCrash for every bus, command line and course of changes: lstbt converts
\* what it could not read of a router only after the router was unplugged.
THEOREM CrashOnlyIfUnplugged == Spec => []NoCrash
<1>1. IInv => NoCrash
  BY DEF IInv
<1> QED
  BY <1>1, Invariant, PTL

\* The name of a router that hangs at another is not that of a host router.
LEMMA HostRouterName ==
  ASSUME NEW r, NEW q, IsRouter(q), q.route # <<>>, r.route = <<>>
  PROVE  NameOf(q) # NameOf(r)
<1> DEFINE n == Len(q.route)
           b == Bytes(q.route)
<1>1. q.route \in Seq(Port) /\ n \in Nat \ {0}
  BY RouterType
<1>2. b \in Seq(Nat) /\ Len(b) = 2 * n
  BY <1>1, BytesType
<1>3. NameOf(r).hex = <<0>>
  BY DEF NameOf, Name, Hex
<1>4. SUFFICES ASSUME NameOf(q) = NameOf(r) PROVE FALSE
  OBVIOUS
<1>5. NameOf(q).hex = IF b[1] = 0 THEN Tail(b) ELSE b
  BY DEF NameOf, Name, Hex
<1> HIDE DEF b
<1>6. b[1] = Upper(q.route[n]) /\ b[2] = Lower(q.route[n])
  <2>1. /\ 1 \in 1 .. 2 * n /\ n - Hop(1) = n /\ IsUpper(1)
        /\ 2 \in 1 .. 2 * n /\ n - Hop(2) = n /\ ~IsUpper(2)
    BY <1>1, Hops, Zenon
  <2> QED
    BY <2>1, CharacterAt DEF b
<1>7. q.route[n] \in Port
  BY <1>1
<1> HIDE DEF n
<1>8. Len(b) # 1
  BY <1>1, <1>2
<1>9. b[1] = 0 /\ Tail(b) = <<0>>
  <2>1. b # <<0>>
    BY <1>8
  <2> QED
    BY <1>3, <1>4, <1>5, <2>1, Zenon
<1>10. b[2] = 0
  <2>1. Tail(b)[1] = b[2]
    BY <1>1, <1>2
  <2>2. \A t : t = <<0>> => t[1] = 0
    OBVIOUS
  <2> QED
    BY <1>9, <2>1, <2>2, Zenon
<1>11. \A p \in Port : ~(Upper(p) = 0 /\ Lower(p) = 0)
  BY DEF Upper, Lower, Port
<1> QED
  BY <1>6, <1>7, <1>9, <1>10, <1>11, Zenon

\* LabelsAreTrue for every bus, command line and course of changes: the domain,
\* depth and port that lstbt cuts from a decimal name are those of the router.
THEOREM LabelsTrue == Spec => []LabelsAreTrue
<1>1. ASSUME IInv PROVE LabelsAreTrue
  <2> SUFFICES ASSUME NEW k \in 1 .. Len(printed), NEW r \in Universe,
                      NameOf(r) = RouterName(printed[k].item), Decimal(r)
               PROVE  LET shown == printed[k].labels
                      IN /\ "domain" \in DOMAIN shown => shown.domain = r.dom
                         /\ "depth" \in DOMAIN shown => shown.depth = Len(r.route)
                         /\ "port" \in DOMAIN shown =>
                              \/ "port" \in DOMAIN printed[k].item
                              \/ r.route # <<>> /\ shown.port = Last(r.route)
    BY DEF LabelsAreTrue
  <2>1. printed[k] \in EntrySet
    BY <1>1 DEF IInv, ListsTyped
  <2>2. PICK a \in ItemSet, d \in Nat : printed[k] = EntryOf(a, d)
    BY <2>1 DEF EntrySet
  <2>3. /\ domain_of_router(a) = domain_of_router(RouterName(a))
        /\ depth_of_router(a) = depth_of_router(RouterName(a))
        /\ downstream_port(a) = downstream_port(RouterName(a))
    BY DEF RouterName, domain_of_router, depth_of_router, downstream_port,
       is_host_router, strlen, DomainLen
  <2>4. printed[k].item = a /\ printed[k].row = d /\ printed[k].labels = Labels(a, d)
    BY <2>2 DEF EntryOf
  <2>5. RouterName(a) = NameOf(r)
    BY <2>4
  <2>6. /\ domain_of_router(a) = r.dom /\ depth_of_router(a) = Len(r.route)
        /\ r.route # <<>> => downstream_port(a) = Last(r.route)
    BY <2>3, <2>5, LabelsOfName, UniverseType
  <2>7. CASE "port" \in DOMAIN a
    <3>1. Labels(a, d) = [domain |-> domain_of_router(a), port |-> a.port]
      BY <2>7 DEF Labels
    <3> QED
      BY <2>4, <2>6, <2>7, <3>1
  <2>8. CASE "port" \notin DOMAIN a /\ d = 0
    <3>1. Labels(a, d) = [domain |-> domain_of_router(a), depth |-> depth_of_router(a)]
      BY <2>8 DEF Labels
    <3> QED
      BY <2>4, <2>6, <3>1
  <2>9. CASE "port" \notin DOMAIN a /\ d # 0
    <3>1. Labels(a, d) = [port |-> downstream_port(a)]
      BY <2>9 DEF Labels
    <3>2. printed[k].row > 0
      BY <2>4, <2>9
    <3>3. PICK q \in Universe : q.route # <<>> /\ NameOf(q) = a
      BY <1>1, <2>4, <3>2 DEF IInv, TreeShape
    <3>4. RouterName(a) = a
      BY <3>3, NameItem
    <3>5. r.route # <<>>
      BY <2>5, <3>3, <3>4, HostRouterName, UniverseType
    <3> QED
      BY <2>4, <2>6, <3>1, <3>5
  <2> QED
    BY <2>7, <2>8, <2>9
<1> QED
  BY <1>1, Invariant, PTL

-----------------------------------------------------------------------------
(* That the argument loop of main() reads what is written, for all lines   *)
(* of words that the array of arguments holds.  Parse follows the loop     *)
(* from word to word.  Read says what a prefix of the command line means,  *)
(* without a loop: an option that waits for its value, the first value of  *)
(* each option, which switches came, and how often -v came as a u8 holds   *)
(* it.                                                                     *)

-----------------------------------------------------------------------------
(* Which arguments are values *)

Takes(a, k) == a[k].opt \in WithValue

\* Options with values stand in all of these places, and none before.
RunFrom(a, m, k) == (\A q \in m .. k : Takes(a, q)) /\ (m = 1 \/ ~Takes(a, m - 1))

IsValue(a, k) == \E m \in 1 .. k - 1 : (k - m) % 2 = 1 /\ RunFrom(a, m, k - 1)

\* An option that waits for its value.
Waits(a, k) == Takes(a, k) /\ ~IsValue(a, k)

\* The options with values that stand together begin somewhere.
LEMMA RunBegins ==
  ASSUME NEW a, NEW n \in Nat \ {0}, Takes(a, n)
  PROVE  \E m \in 1 .. n : RunFrom(a, m, n)
<1> DEFINE A == {k \in 0 .. n : k = 0 \/ ~Takes(a, k) \/ \E m \in 1 .. k : RunFrom(a, m, k)}
<1>1. 0 \in A
  OBVIOUS
<1>2. ASSUME NEW k \in 0 .. n - 1, k \in A PROVE k + 1 \in A
  <2>1. k + 1 \in 0 .. n /\ k + 1 \in 1 .. k + 1 /\ k + 1 - 1 = k /\ k \in Nat
    OBVIOUS
  <2>2. CASE ~Takes(a, k + 1)
    BY <2>1, <2>2
  <2>3. CASE Takes(a, k + 1) /\ (k = 0 \/ ~Takes(a, k))
    <3>1. RunFrom(a, k + 1, k + 1)
      <4>1. \A q \in k + 1 .. k + 1 : q = k + 1
        OBVIOUS
      <4> QED
        BY <2>1, <2>3, <4>1 DEF RunFrom
    <3> QED
      BY <2>1, <3>1
  <2>4. CASE Takes(a, k + 1) /\ k # 0 /\ Takes(a, k)
    <3>1. PICK m \in 1 .. k : RunFrom(a, m, k)
      BY <1>2, <2>4
    <3>2. m \in 1 .. k + 1 /\ \A q \in m .. k + 1 : q \in m .. k \/ q = k + 1
      OBVIOUS
    <3>3. RunFrom(a, m, k + 1)
      BY <2>4, <3>1, <3>2, Zenon DEF RunFrom
    <3> QED
      BY <2>1, <3>2, <3>3
  <2> QED
    BY <2>2, <2>3, <2>4
<1>3. n \in A
  <2> HIDE DEF A
  <2>1. 0 .. n \subseteq A
    BY <1>1, <1>2, Induction
  <2> QED
    BY <2>1
<1> QED
  BY <1>3

\* They begin in one place only.
LEMMA RunBeginsOnce ==
  ASSUME NEW a, NEW n \in Nat, NEW l \in 1 .. n, NEW m \in 1 .. n,
         RunFrom(a, l, n), RunFrom(a, m, n)
  PROVE  l = m
<1>1. ASSUME NEW j \in 1 .. n, NEW k \in 1 .. n, RunFrom(a, j, n), RunFrom(a, k, n), j < k
      PROVE  FALSE
  <2>1. k # 1 /\ k - 1 \in j .. n
    BY <1>1
  <2> QED
    BY <1>1, <2>1, Zenon DEF RunFrom
<1>2. l < m \/ m < l \/ l = m
  OBVIOUS
<1> QED
  BY <1>1, <1>2, Zenon

\* An argument is a value exactly if the one before waits for it.
LEMMA ValueAfterOption ==
  ASSUME NEW a, NEW k \in Nat
  PROVE  IsValue(a, k + 1) <=> k # 0 /\ Waits(a, k)
<1>1. k + 1 - 1 = k
  OBVIOUS
<1>2. \A m \in 1 .. k : (k + 1 - m) % 2 = 1 <=> (k - m) % 2 # 1
  OBVIOUS
<1>3. ASSUME NEW m \in 1 .. k, (k + 1 - m) % 2 = 1, RunFrom(a, m, k)
      PROVE  k # 0 /\ Waits(a, k)
  <2>1. k # 0 /\ k \in m .. k /\ k - 1 \in Nat
    OBVIOUS
  <2>2. Takes(a, k)
    BY <1>3, <2>1, Zenon DEF RunFrom
  <2>3. ASSUME NEW l \in 1 .. k - 1, (k - l) % 2 = 1, RunFrom(a, l, k - 1)
        PROVE  FALSE
    <3>1. l \in 1 .. k /\ \A q \in l .. k : q \in l .. k - 1 \/ q = k
      OBVIOUS
    <3>2. RunFrom(a, l, k)
      BY <2>2, <2>3, <3>1, Zenon DEF RunFrom
    <3>3. l = m
      BY <1>3, <3>1, <3>2, RunBeginsOnce, Zenon
    <3> QED
      BY <1>2, <1>3, <2>3, <3>3, Zenon
  <2> QED
    BY <2>1, <2>2, <2>3, Zenon DEF Waits, IsValue
<1>4. ASSUME k # 0, Waits(a, k)
      PROVE  \E m \in 1 .. k : (k + 1 - m) % 2 = 1 /\ RunFrom(a, m, k)
  <2>1. Takes(a, k) /\ k \in Nat \ {0}
    BY <1>4 DEF Waits
  <2>2. PICK m \in 1 .. k : RunFrom(a, m, k)
    BY <2>1, RunBegins
  <2>3. ASSUME (k - m) % 2 = 1 PROVE FALSE
    <3>1. m \in 1 .. k - 1
      BY <2>3
    <3>2. \A q \in m .. k - 1 : q \in m .. k
      OBVIOUS
    <3>3. RunFrom(a, m, k - 1)
      BY <2>2, <3>2, Zenon DEF RunFrom
    <3> QED
      BY <1>4, <2>3, <3>1, <3>3, Zenon DEF Waits, IsValue
  <2> QED
    BY <1>2, <2>2, <2>3, Zenon
<1> QED
  BY <1>1, <1>3, <1>4 DEF IsValue
-----------------------------------------------------------------------------
(* One argument *)

ValueSet == Argument \cup {NoArg}
OptsSet  == [D : ValueSet, d : ValueSet, s : ValueSet,
             r : {0, 1}, t : {0, 1}, v : 0 .. VerboseWraps - 1,
             prev : WithValue \cup {""}, end : {"", "told", "invalid"}]
Flags    == Switches \cup {"v"}

\* What a letter that came n times leaves, and what it leaves once more.
Value(l, n) == IF l = "v" THEN n % VerboseWraps ELSE IF n = 0 THEN 0 ELSE 1
Counted(l, x) == IF l = "v" THEN (x + 1) % VerboseWraps ELSE 1

\* The u8 wraps.
LEMMA WrapsAt ==
  ASSUME NEW W \in Nat \ {0}, NEW n \in Nat
  PROVE  ((n % W) + 1) % W = (n + 1) % W
<1>1. n % W \in 0 .. W - 1 /\ n \div W \in Nat /\ n = W * (n \div W) + (n % W)
  OBVIOUS
<1> DEFINE r == n % W
           q == n \div W
<1>2. \A k \in Nat : \A x \in 0 .. W - 1 : (W * k + x) % W = x
  OBVIOUS
<1> HIDE DEF r, q
<1>3. r \in 0 .. W - 1 /\ q \in Nat /\ n = W * q + r
  BY <1>1 DEF r, q
<1>4. (r + 1) % W = (n + 1) % W
  <2>1. CASE r + 1 \in 0 .. W - 1
    <3>1. n + 1 = W * q + (r + 1)
      BY <1>3
    <3>2. (n + 1) % W = r + 1
      BY <1>2, <1>3, <2>1, <3>1
    <3>3. (r + 1) % W = r + 1
      BY <2>1
    <3> QED
      BY <3>2, <3>3
  <2>2. CASE r + 1 = W
    <3>1. n + 1 = W * (q + 1) + 0
      BY <1>3, <2>2
    <3>2. q + 1 \in Nat /\ 0 \in 0 .. W - 1
      BY <1>3
    <3>3. (n + 1) % W = 0
      BY <1>2, <3>1, <3>2, Zenon
    <3>4. W % W = 0
      OBVIOUS
    <3> QED
      BY <2>2, <3>3, <3>4
  <2> QED
    BY <1>3, <2>1, <2>2
<1> QED
  BY <1>4 DEF r

\* One occurrence more.
LEMMA ValueGrows ==
  ASSUME NEW l \in Flags
  PROVE  Value(l, 0) = 0 /\ \A n \in Nat : Counted(l, Value(l, n)) = Value(l, n + 1)
<1>1. VerboseWraps \in Nat \ {0}
  BY VerboseWrapsAssumption
<1>2. 0 % VerboseWraps = 0
  BY <1>1
<1>3. ASSUME NEW n \in Nat PROVE Counted(l, Value(l, n)) = Value(l, n + 1)
  <2>1. ((n % VerboseWraps) + 1) % VerboseWraps = (n + 1) % VerboseWraps
    BY <1>1, WrapsAt
  <2>2. n + 1 # 0
    OBVIOUS
  <2> QED
    BY <2>1, <2>2, Zenon DEF Counted, Value
<1> QED
  BY <1>2, <1>3, Zenon DEF Value

SameIn(p, q, S) == \A l \in S : q[l] = p[l]

\* What the loop of main() makes of one argument.
Stores(p, arg, q) ==
  /\ p.prev \in WithValue /\ q.prev = "" /\ q.end = ""
  /\ q[p.prev] = TakeValue(p[p.prev], arg)
  /\ SameIn(p, q, (WithValue \ {p.prev}) \cup Flags)
Awaits(p, arg, q) ==
  /\ p.prev = "" /\ arg.opt \in WithValue /\ q.prev = arg.opt /\ q.end = ""
  /\ SameIn(p, q, WithValue \cup Flags)
Counts(p, arg, q) ==
  /\ p.prev = "" /\ arg.opt \in Flags /\ q.prev = "" /\ q.end = ""
  /\ q[arg.opt] = Counted(arg.opt, p[arg.opt])
  /\ SameIn(p, q, (Flags \ {arg.opt}) \cup WithValue)

\* No argument is not an argument.
LEMMA NoArgIsNone ==
  /\ NoArg = [opt |-> "none", num |-> -1, name |-> NoName]
  /\ NoArg.opt = "none" /\ NoArg \notin Argument
<1>1. NoArg = [opt |-> "none", num |-> -1, name |-> NoName]
  BY DEF NoArg, Opt, Text
<1>2. NoArg.opt = "none"
  BY <1>1
<1>3. \A x \in Argument : x.opt # NoArg.opt
  BY <1>2 DEF Argument, Letter
<1> QED
  BY <1>1, <1>2, <1>3, Zenon

\* One argument more.
LEMMA ParseArgCases ==
  ASSUME NEW p \in OptsSet, NEW arg \in Argument, NEW q, q = ParseArg(p, arg)
  PROVE  /\ q \in OptsSet
         /\ q.end = "" =>
              p.end = "" /\ (Stores(p, arg, q) \/ Awaits(p, arg, q) \/ Counts(p, arg, q))
<1>1. TakeValue(NoArg, arg) = arg /\ \A x \in ValueSet : TakeValue(x, arg) \in ValueSet
  BY DEF TakeValue, ValueSet
<1>2. arg \in ValueSet
  BY DEF ValueSet
<1>3. \A n \in 0 .. VerboseWraps - 1 : (n + 1) % VerboseWraps \in 0 .. VerboseWraps - 1
  BY VerboseWrapsAssumption
<1> HIDE DEF ValueSet, Argument, TakeValue
<1> USE DEF OptsSet, WithValue, Flags, Switches, Tells
<1>4. p.v \in 0 .. VerboseWraps - 1
  BY Zenon
<1>5. CASE p.end # ""
  BY <1>5 DEF ParseArg
<1>6. CASE p.end = "" /\ p.prev # ""
  <2>1. q = [p EXCEPT !.prev = "", ![p.prev] = TakeValue(@, arg)]
    BY <1>6 DEF ParseArg
  <2>2. CASE p.prev = "D"
    <3>1. q = [p EXCEPT !.prev = "", !.D = TakeValue(@, arg)]
      BY <2>1, <2>2
    <3>2. TakeValue(p.D, arg) \in ValueSet
      BY <1>1
    <3> QED
      BY <1>6, <2>2, <3>1, <3>2 DEF Stores, SameIn
  <2>3. CASE p.prev = "d"
    <3>1. q = [p EXCEPT !.prev = "", !.d = TakeValue(@, arg)]
      BY <2>1, <2>3
    <3>2. TakeValue(p.d, arg) \in ValueSet
      BY <1>1
    <3> QED
      BY <1>6, <2>3, <3>1, <3>2 DEF Stores, SameIn
  <2>4. CASE p.prev = "s"
    <3>1. q = [p EXCEPT !.prev = "", !.s = TakeValue(@, arg)]
      BY <2>1, <2>4
    <3>2. TakeValue(p.s, arg) \in ValueSet
      BY <1>1
    <3> QED
      BY <1>6, <2>4, <3>1, <3>2 DEF Stores, SameIn
  <2> QED
    BY <1>6, <2>2, <2>3, <2>4
<1>7. CASE p.end = "" /\ p.prev = "" /\ arg.opt \in WithValue
  <2>1. q = [p EXCEPT !.prev = arg.opt]
    BY <1>7 DEF ParseArg
  <2> QED
    BY <1>7, <2>1 DEF Awaits, SameIn
<1>8. CASE p.end = "" /\ p.prev = "" /\ arg.opt \in Flags
  <2>1. CASE arg.opt = "r"
    <3>1. q = [p EXCEPT !.r = 1]
      BY <1>8, <2>1 DEF ParseArg
    <3>2. q \in OptsSet /\ q.prev = "" /\ q.end = "" /\ q["r"] = 1
      BY <1>8, <3>1
    <3>3. q["r"] = Counted("r", p["r"])
      BY <3>2 DEF Counted
    <3>4. SameIn(p, q, (Flags \ {"r"}) \cup WithValue)
      BY <3>1 DEF SameIn
    <3> QED
      BY <1>8, <2>1, <3>2, <3>3, <3>4, Zenon DEF Counts
  <2>2. CASE arg.opt = "t"
    <3>1. q = [p EXCEPT !.t = 1]
      BY <1>8, <2>2 DEF ParseArg
    <3>2. q \in OptsSet /\ q.prev = "" /\ q.end = "" /\ q["t"] = 1
      BY <1>8, <3>1
    <3>3. q["t"] = Counted("t", p["t"])
      BY <3>2 DEF Counted
    <3>4. SameIn(p, q, (Flags \ {"t"}) \cup WithValue)
      BY <3>1 DEF SameIn
    <3> QED
      BY <1>8, <2>2, <3>2, <3>3, <3>4, Zenon DEF Counts
  <2>3. CASE arg.opt = "v"
    <3>1. q = [p EXCEPT !.v = (p.v + 1) % VerboseWraps]
      BY <1>8, <2>3 DEF ParseArg
    <3>2. (p.v + 1) % VerboseWraps \in 0 .. VerboseWraps - 1
      BY <1>3, <1>4, Zenon
    <3>3. /\ q \in OptsSet /\ q.prev = "" /\ q.end = ""
          /\ q["v"] = (p["v"] + 1) % VerboseWraps
      BY <1>8, <3>1, <3>2
    <3>4. SameIn(p, q, (Flags \ {"v"}) \cup WithValue)
      BY <3>1 DEF SameIn
    <3>5. q["v"] = Counted("v", p["v"])
      BY <3>3, Zenon DEF Counted
    <3> QED
      BY <1>8, <2>3, <3>3, <3>4, <3>5, Zenon DEF Counts
  <2> QED
    BY <1>8, <2>1, <2>2, <2>3
<1>9. CASE p.end = "" /\ p.prev = "" /\ arg.opt \notin WithValue \cup Flags
  <2>1. q \in {[p EXCEPT !.end = "told"], [p EXCEPT !.end = "invalid"]}
    BY <1>9 DEF ParseArg
  <2> QED
    BY <2>1
<1> QED
  BY <1>5, <1>6, <1>7, <1>8, <1>9
-----------------------------------------------------------------------------
(* All of them *)

\* The option stands here, and is not the value of another.
At(a, l, m) == ~IsValue(a, m) /\ a[m].opt = l

Places(a, l, k) == {m \in 1 .. k : At(a, l, m)}

\* x follows the first occurrence of l, if one before k has a value.
FirstValue(a, l, k, x) ==
  \/ x = NoArg /\ \A m \in 1 .. k - 1 : ~At(a, l, m)
  \/ \E m \in 1 .. k - 1 : At(a, l, m) /\ (\A q \in 1 .. m - 1 : ~At(a, l, q)) /\ x = a[m + 1]

\* What has been made of the first k arguments.
Read(a, k, p) ==
  p.end = "" =>
    /\ p.prev = IF k # 0 /\ Waits(a, k) THEN a[k].opt ELSE ""
    /\ \A l \in WithValue : FirstValue(a, l, k, p[l])
    /\ \A l \in Flags : p[l] = Value(l, Cardinality(Places(a, l, k)))

\* Occurrences are counted.
LEMMA PlacesGrow ==
  ASSUME NEW a, NEW l, NEW k \in Nat
  PROVE  /\ IsFiniteSet(Places(a, l, k)) /\ Cardinality(Places(a, l, k)) \in Nat
         /\ ~At(a, l, k + 1) => Places(a, l, k + 1) = Places(a, l, k)
         /\ At(a, l, k + 1) => Cardinality(Places(a, l, k + 1)) = Cardinality(Places(a, l, k)) + 1
         /\ Places(a, l, 0) = {}
<1>1. IsFiniteSet(Places(a, l, k))
  <2>1. IsFiniteSet(1 .. k)
    BY FS_Interval
  <2>2. Places(a, l, k) \subseteq 1 .. k
    BY DEF Places
  <2> QED
    BY <2>1, <2>2, FS_Subset
<1>2. \A m : m \in 1 .. k + 1 <=> m \in 1 .. k \/ m = k + 1
  OBVIOUS
<1>3. k + 1 \notin 1 .. k /\ 1 .. 0 = {}
  OBVIOUS
<1>4. ~At(a, l, k + 1) => Places(a, l, k + 1) = Places(a, l, k)
  BY <1>2, Zenon DEF Places
<1>5. At(a, l, k + 1) => Places(a, l, k + 1) = Places(a, l, k) \cup {k + 1}
  BY <1>2 DEF Places
<1>6. k + 1 \notin Places(a, l, k)
  BY <1>3 DEF Places
<1>7. Places(a, l, 0) = {}
  BY <1>3 DEF Places
<1> QED
  BY <1>1, <1>4, <1>5, <1>6, <1>7, FS_AddElement, FS_CardinalityType, Zenon

\* An argument that is no occurrence leaves the first value.
LEMMA FirstValueStays ==
  ASSUME NEW a, NEW l, NEW k \in Nat, NEW x, FirstValue(a, l, k, x), k # 0 => ~At(a, l, k)
  PROVE  FirstValue(a, l, k + 1, x)
<1>1. \A m \in 1 .. k + 1 - 1 : m \in 1 .. k - 1 \/ (m = k /\ k # 0)
  OBVIOUS
<1>2. \A m \in 1 .. k - 1 : m \in 1 .. k + 1 - 1
  OBVIOUS
<1>3. CASE x = NoArg /\ \A m \in 1 .. k - 1 : ~At(a, l, m)
  <2>1. \A m \in 1 .. k + 1 - 1 : ~At(a, l, m)
    BY <1>1, <1>3, Zenon
  <2> QED
    BY <1>3, <2>1 DEF FirstValue
<1>4. CASE \E m \in 1 .. k - 1 :
        At(a, l, m) /\ (\A q \in 1 .. m - 1 : ~At(a, l, q)) /\ x = a[m + 1]
  BY <1>2, <1>4 DEF FirstValue
<1> QED
  BY <1>3, <1>4 DEF FirstValue

\* An occurrence that was waiting for its value, with the value.
LEMMA FirstValueTaken ==
  ASSUME NEW a, NEW l, NEW k \in Nat \ {0}, NEW x, FirstValue(a, l, k, x), At(a, l, k),
         \A m \in 1 .. k : a[m + 1] # NoArg
  PROVE  FirstValue(a, l, k + 1, TakeValue(x, a[k + 1]))
<1>1. k \in 1 .. k + 1 - 1 /\ \A m \in 1 .. k - 1 : m \in 1 .. k + 1 - 1
  OBVIOUS
<1>2. CASE x = NoArg
  <2>1. \A m \in 1 .. k - 1 : ~At(a, l, m)
    <3>1. \A m \in 1 .. k - 1 : m \in 1 .. k
      OBVIOUS
    <3> QED
      BY <1>2, <3>1 DEF FirstValue
  <2>2. TakeValue(x, a[k + 1]) = a[k + 1]
    BY <1>2 DEF TakeValue
  <2> QED
    BY <1>1, <2>1, <2>2 DEF FirstValue
<1>3. CASE x # NoArg
  <2>1. TakeValue(x, a[k + 1]) = x
    BY <1>3 DEF TakeValue
  <2> QED
    BY <1>1, <1>3, <2>1 DEF FirstValue
<1> QED
  BY <1>2, <1>3

\* What a place and the next are.
LEMMA ElementAt ==
  ASSUME NEW S, NEW a \in Seq(S)
  PROVE  /\ Len(a) \in Nat /\ \A m \in 1 .. Len(a) : a[m] \in S
         /\ \A k \in Nat : k + 1 \in 1 .. Len(a) =>
              k + 1 # 0 /\ \A m \in 1 .. k : m + 1 \in 1 .. Len(a)
OBVIOUS

\* A function over 1 .. n is a sequence.
LEMMA FunctionIsSequence ==
  ASSUME NEW S, NEW n \in Nat, NEW t, t = [m \in 1 .. n |-> t[m]],
         \A m \in 1 .. n : t[m] \in S
  PROVE  t \in Seq(S)
OBVIOUS

\* What has been read stays true with one argument more.
LEMMA ReadStep ==
  ASSUME NEW a \in Seq(Argument), NEW k \in Nat, k + 1 \in 1 .. Len(a),
         NEW p \in OptsSet, Read(a, k, p),
         NEW q, q = ParseArg(p, a[k + 1])
  PROVE  Read(a, k + 1, q)
<1> SUFFICES ASSUME q.end = "" PROVE Read(a, k + 1, q)
  BY DEF Read
<1>1. \A m \in 1 .. Len(a) : a[m] \in Argument
  BY ElementAt, Zenon
<1>2. p.end = "" /\ (Stores(p, a[k + 1], q) \/ Awaits(p, a[k + 1], q) \/ Counts(p, a[k + 1], q))
  BY <1>1, ParseArgCases, Zenon
<1>3. /\ p.prev = IF k # 0 /\ Waits(a, k) THEN a[k].opt ELSE ""
      /\ \A l \in WithValue : FirstValue(a, l, k, p[l])
      /\ \A l \in Flags : p[l] = Value(l, Cardinality(Places(a, l, k)))
  BY <1>2, Zenon DEF Read
<1>4. IsValue(a, k + 1) <=> k # 0 /\ Waits(a, k)
  BY ValueAfterOption, Zenon
<1>5. "" \notin WithValue /\ WithValue \cap Flags = {}
  BY DEF WithValue, Flags, Switches
<1>6. k + 1 # 0
  BY ElementAt, Zenon
<1>7. CASE Stores(p, a[k + 1], q)
  <2>1. k # 0 /\ Waits(a, k) /\ p.prev = a[k].opt
    BY <1>3, <1>5, <1>7, Zenon DEF Stores
  <2>2. IsValue(a, k + 1) /\ ~Waits(a, k + 1) /\ \A l : ~At(a, l, k + 1)
    BY <1>4, <2>1, Zenon DEF Waits, At
  <2>3. At(a, p.prev, k)
    BY <2>1, Zenon DEF At, Waits
  <2>4. \A m \in 1 .. k : a[m + 1] # NoArg
    <3>1. \A m \in 1 .. k : m + 1 \in 1 .. Len(a)
      BY ElementAt, Zenon
    <3> QED
      BY <1>1, <3>1, NoArgIsNone, Zenon
  <2>5. ASSUME NEW l \in WithValue PROVE FirstValue(a, l, k + 1, q[l])
    <3>1. CASE l = p.prev
      <4>1. q[l] = TakeValue(p[l], a[k + 1])
        BY <1>7, <3>1, Zenon DEF Stores
      <4>2. FirstValue(a, l, k, p[l]) /\ At(a, l, k) /\ k \in Nat \ {0}
        BY <1>3, <2>1, <2>3, <3>1
      <4> QED
        BY <2>4, <4>1, <4>2, FirstValueTaken, Zenon
    <3>2. CASE l # p.prev
      <4>1. q[l] = p[l]
        BY <1>7, <3>2, Zenon DEF Stores, SameIn
      <4>2. ~At(a, l, k)
        BY <2>1, <3>2, Zenon DEF At
      <4> QED
        BY <1>3, <4>1, <4>2, FirstValueStays, Zenon
    <3> QED
      BY <3>1, <3>2
  <2>6. ASSUME NEW l \in Flags PROVE q[l] = Value(l, Cardinality(Places(a, l, k + 1)))
    <3>1. q[l] = p[l]
      BY <1>7, Zenon DEF Stores, SameIn
    <3> QED
      BY <1>3, <2>2, <3>1, PlacesGrow, Zenon
  <2> QED
    BY <1>7, <2>2, <2>5, <2>6, Zenon DEF Read, Stores
<1>8. CASE p.prev = ""
  <2>1. ~(k # 0 /\ Waits(a, k))
    BY <1>3, <1>5, <1>8, Zenon DEF Waits, Takes
  <2>2. ~IsValue(a, k + 1) /\ \A l : At(a, l, k + 1) <=> a[k + 1].opt = l
    BY <1>4, <2>1, Zenon DEF At
  <2>3. ASSUME NEW l \in WithValue, q[l] = p[l] PROVE FirstValue(a, l, k + 1, q[l])
    <3>1. k # 0 => ~At(a, l, k)
      BY <2>1, Zenon DEF At, Waits, Takes
    <3> QED
      BY <1>3, <2>3, <3>1, FirstValueStays, Zenon
  <2>4. ASSUME NEW l \in Flags, q[l] = p[l], a[k + 1].opt # l
        PROVE  q[l] = Value(l, Cardinality(Places(a, l, k + 1)))
    BY <1>3, <2>2, <2>4, PlacesGrow, Zenon
  <2>5. CASE Awaits(p, a[k + 1], q)
    <3>1. q.prev = a[k + 1].opt /\ Waits(a, k + 1)
      BY <2>2, <2>5, Zenon DEF Awaits, Waits, Takes
    <3>2. \A l \in WithValue \cup Flags : q[l] = p[l]
      BY <2>5, Zenon DEF Awaits, SameIn
    <3>3. \A l \in Flags : a[k + 1].opt # l
      BY <1>5, <2>5, Zenon DEF Awaits
    <3> QED
      BY <1>6, <2>3, <2>4, <3>1, <3>2, <3>3, Zenon DEF Read
  <2>6. CASE Counts(p, a[k + 1], q)
    <3>1. q.prev = "" /\ ~Waits(a, k + 1)
      BY <1>5, <2>6, Zenon DEF Counts, Waits, Takes
    <3>2. \A l \in WithValue : q[l] = p[l]
      BY <2>6, Zenon DEF Counts, SameIn
    <3>3. ASSUME NEW l \in Flags PROVE q[l] = Value(l, Cardinality(Places(a, l, k + 1)))
      <4>1. CASE l = a[k + 1].opt
        <5>1. q[l] = Counted(l, p[l])
          BY <2>6, <4>1, Zenon DEF Counts
        <5>2. /\ Cardinality(Places(a, l, k + 1)) = Cardinality(Places(a, l, k)) + 1
              /\ Cardinality(Places(a, l, k)) \in Nat
          BY <2>2, <4>1, PlacesGrow, Zenon
        <5> QED
          BY <1>3, <5>1, <5>2, ValueGrows, Zenon
      <4>2. CASE l # a[k + 1].opt
        <5>1. q[l] = p[l]
          BY <2>6, <4>2, Zenon DEF Counts, SameIn
        <5> QED
          BY <2>4, <4>2, <5>1, Zenon
      <4> QED
        BY <4>1, <4>2
    <3> QED
      BY <2>3, <3>1, <3>2, <3>3, Zenon DEF Read
  <2>7. ~Stores(p, a[k + 1], q)
    BY <1>5, <1>8, Zenon DEF Stores
  <2> QED
    BY <1>2, <2>5, <2>6, <2>7
<1>9. Awaits(p, a[k + 1], q) \/ Counts(p, a[k + 1], q) => p.prev = ""
  BY DEF Awaits, Counts
<1> QED
  BY <1>2, <1>7, <1>8, <1>9
-----------------------------------------------------------------------------
(* The command line *)

\* An option is an argument.
LEMMA OptionType ==
  \A l \in Letter \cup {""} : Opt(l) \in Argument
<1> DEFINE L == Letter \cup {""}
<1>1. NoName \in [dom : Int, hex : Seq(Nat)] /\ -1 \in Int
  BY DEF NoName
<1> HIDE DEF L
<1>2. ASSUME NEW l \in L PROVE Opt(l) = [opt |-> l, num |-> -1, name |-> NoName]
  BY DEF Opt, Text
<1>3. Argument = [opt : L, num : Int, name : [dom : Int, hex : Seq(Nat)]]
  BY Zenon DEF Argument, L
<1>4. ASSUME NEW l \in L PROVE Opt(l) \in Argument
  BY <1>1, <1>2, <1>3
<1> QED
  BY <1>4, Zenon DEF L

\* A command line is a sequence of arguments.
LEMMA ArgumentsType ==
  ASSUME NEW words \in CommandLines
  PROVE  ameliorate_args(words) \in Seq(Argument)
<1> DEFINE ss == [k \in 1 .. Len(words) |->
                    IF ~words[k].dash THEN <<words[k].text>>
                    ELSE IF words[k].letters = <<>> THEN <<Opt("")>>
                    ELSE [m \in 1 .. Len(words[k].letters) |-> Opt(words[k].letters[m])]]
           Dashed == [dash : {TRUE}, letters : Seq(Letter), text : {NoArg}]
           Undashed == [dash : {FALSE}, letters : {<<>>}, text : Argument]
<1>1. words \in Seq(Dashed \cup Undashed)
  BY CommandLinesAssumption, Zenon
<1>2. \A k \in 1 .. Len(words) : words[k] \in Dashed \cup Undashed
  <2> HIDE DEF Dashed, Undashed
  <2> QED
    BY <1>1, ElementAt, Zenon
<1>3. Len(words) \in Nat
  <2> HIDE DEF Dashed, Undashed
  <2> QED
    BY <1>1, ElementAt, Zenon
<1>4. \A l \in Letter \cup {""} : Opt(l) \in Argument
  BY OptionType, Zenon
<1>5. ASSUME NEW k \in 1 .. Len(words)
      PROVE  (IF ~words[k].dash THEN <<words[k].text>>
              ELSE IF words[k].letters = <<>> THEN <<Opt("")>>
              ELSE [m \in 1 .. Len(words[k].letters) |-> Opt(words[k].letters[m])]) \in Seq(Argument)
  <2> HIDE DEF ss
  <2>0. \A x \in Argument : <<x>> \in Seq(Argument)
    OBVIOUS
  <2>1. CASE words[k] \in Undashed
    <3>1. ~words[k].dash /\ words[k].text \in Argument
      BY <2>1
    <3> QED
      BY <2>0, <3>1, Zenon
  <2>2. CASE words[k] \in Dashed
    <3>1. words[k].dash /\ words[k].letters \in Seq(Letter)
      BY <2>2, Zenon
    <3>2. /\ \A m \in 1 .. Len(words[k].letters) : words[k].letters[m] \in Letter
          /\ Len(words[k].letters) \in Nat
      BY <3>1, ElementAt, Zenon
    <3>3. \A m \in 1 .. Len(words[k].letters) : Opt(words[k].letters[m]) \in Argument
      BY <1>4, <3>2, Zenon
    <3>4. Len(words[k].letters) \in Nat
      BY <3>2
    <3>5. [m \in 1 .. Len(words[k].letters) |-> Opt(words[k].letters[m])] \in Seq(Argument)
      <4> DEFINE t == [m \in 1 .. Len(words[k].letters) |-> Opt(words[k].letters[m])]
      <4>1. \A m \in 1 .. Len(words[k].letters) : t[m] \in Argument
        BY <3>3, Zenon
      <4>2. t = [m \in 1 .. Len(words[k].letters) |-> t[m]]
        BY Zenon
      <4> HIDE DEF t
      <4>3. t \in Seq(Argument)
        BY <3>4, <4>1, <4>2, FunctionIsSequence, Zenon
      <4> QED
        BY <4>3, Zenon DEF t
    <3>6. <<Opt("")>> \in Seq(Argument)
      BY <1>4, <2>0, Zenon
    <3> QED
      BY <3>1, <3>5, <3>6, Zenon
  <2> QED
    BY <1>2, <2>1, <2>2
<1>6. ss \in Seq(Seq(Argument))
  <2>1. \A k \in 1 .. Len(words) : ss[k] \in Seq(Argument)
    BY <1>5, Zenon
  <2>2. ss = [k \in 1 .. Len(words) |-> ss[k]]
    BY Zenon
  <2> HIDE DEF ss
  <2> QED
    BY <1>3, <2>1, <2>2
<1>7. ameliorate_args(words) = FlattenSeq(ss)
  BY Zenon DEF ameliorate_args
<1> HIDE DEF ss
<1> QED
  BY <1>6, <1>7, FlattenType, Zenon
\* Before the first argument.
LEMMA NothingParsed ==
  /\ Unparsed \in OptsSet /\ Unparsed.prev = ""
  /\ \A l \in Flags : Unparsed[l] = 0
  /\ \A l \in WithValue : Unparsed[l] = NoArg
BY VerboseWrapsAssumption DEF Unparsed, OptsSet, ValueSet, Flags, Switches, WithValue

\* What main() makes of a command line is read off its arguments.
LEMMA ParseReads ==
  ASSUME NEW words \in CommandLines
  PROVE  LET a == ameliorate_args(words)
         IN Parse(words) \in OptsSet /\ Read(a, Len(a), Parse(words))
<1> DEFINE a == ameliorate_args(words)
           n == Len(a)
           Def(P) == P = [k \in 0 .. n |-> IF k = 0 THEN Unparsed ELSE ParseArg(P[k - 1], a[k])]
           step == [k \in 1 .. n |-> [p \in OptsSet |-> ParseArg(p, a[k])]]
<1>1. a \in Seq(Argument)
  BY ArgumentsType
<1>2. n \in Nat /\ \A k \in 1 .. n : a[k] \in Argument
  <2> HIDE DEF a
  <2> QED
    BY <1>1, ElementAt, Zenon
<1>3. Unparsed \in OptsSet
  BY NothingParsed, Zenon
<1>4. \A k \in 1 .. n : \A p \in OptsSet : ParseArg(p, a[k]) \in OptsSet
  <2> HIDE DEF a, n
  <2> QED
    BY <1>2, ParseArgCases, Zenon
<1> HIDE DEF a, n
<1>5. step \in [1 .. n -> [OptsSet -> OptsSet]]
  BY <1>4, Zenon
<1>6. PICK f : Recurs(f, n, OptsSet, Unparsed, step)
  <2> HIDE DEF step
  <2> QED
    BY <1>2, <1>3, <1>5, Recursion, Zenon
<1>7. f \in [0 .. n -> OptsSet] /\ f[0] = Unparsed
  BY <1>6, Zenon DEF Recurs
<1>8. \A k \in 0 .. n : k = 0 \/ (k \in 1 .. n /\ k - 1 \in 0 .. n)
  BY <1>2
<1>9. ASSUME NEW k \in 0 .. n PROVE f[k] = IF k = 0 THEN Unparsed ELSE ParseArg(f[k - 1], a[k])
  <2>1. CASE k = 0
    BY <1>7, <2>1, Zenon
  <2>2. CASE k # 0
    <3>1. k \in 1 .. n /\ k - 1 \in 0 .. n
      BY <1>8, <2>2, Zenon
    <3>2. f[k - 1] \in OptsSet
      BY <1>7, <3>1, Zenon
    <3>3. f[k] = step[k][f[k - 1]]
      BY <1>6, <3>1, Zenon DEF Recurs
    <3> QED
      BY <2>2, <3>1, <3>2, <3>3, Zenon
  <2> QED
    BY <2>1, <2>2
<1>10. Def(f)
  <2>1. f = [k \in 0 .. n |-> f[k]]
    BY <1>7, Zenon
  <2> QED
    BY <1>9, <2>1, Zenon
<1>11. Def(CHOOSE P : Def(P))
  BY <1>10, Zenon
<1> DEFINE P == CHOOSE Q : Def(Q)
<1>12. Parse(words) = P[n]
  BY Zenon DEF Parse, a, n
<1>13. \A k \in 0 .. n : P[k] = IF k = 0 THEN Unparsed ELSE ParseArg(P[k - 1], a[k])
  BY <1>11, Zenon
<1> HIDE DEF P
<1> DEFINE A == {k \in 0 .. n : P[k] \in OptsSet /\ Read(a, k, P[k])}
<1>14. 0 \in A
  <2>1. P[0] = Unparsed /\ 0 \in 0 .. n
    BY <1>2, <1>13
  <2>2. \A l : Places(a, l, 0) = {} /\ Cardinality({}) = 0
    BY PlacesGrow, FS_EmptySet
  <2>3. \A l \in Flags : Unparsed[l] = Value(l, 0)
    BY NothingParsed, ValueGrows, Zenon
  <2>4. \A l \in WithValue : FirstValue(a, l, 0, Unparsed[l])
    <3>1. \A l \in WithValue : Unparsed[l] = NoArg
      BY NothingParsed, Zenon
    <3>2. 1 .. 0 - 1 = {}
      OBVIOUS
    <3> QED
      BY <3>1, <3>2 DEF FirstValue
  <2>5. Unparsed.prev = ""
    BY NothingParsed, Zenon
  <2> QED
    BY <1>3, <2>1, <2>2, <2>3, <2>4, <2>5, Zenon DEF Read
<1>15. ASSUME NEW k \in 0 .. n - 1, k \in A PROVE k + 1 \in A
  <2>1. k \in Nat /\ k + 1 \in 1 .. n /\ k + 1 \in 0 .. n /\ k + 1 # 0 /\ k + 1 - 1 = k
    BY <1>2
  <2>2. P[k + 1] = ParseArg(P[k], a[k + 1])
    BY <1>13, <2>1
  <2>3. P[k] \in OptsSet /\ Read(a, k, P[k])
    BY <1>15
  <2>4. P[k + 1] \in OptsSet
    BY <1>4, <2>1, <2>2, <2>3, Zenon
  <2>5. Read(a, k + 1, P[k + 1])
    BY <1>1, <2>1, <2>2, <2>3, ReadStep, Zenon DEF n
  <2> QED
    BY <2>1, <2>4, <2>5, Zenon
<1>16. n \in A
  <2> HIDE DEF A
  <2>1. 0 .. n \subseteq A
    BY <1>2, <1>14, <1>15, Induction
  <2> QED
    BY <1>2, <2>1
<1> QED
  BY <1>12, <1>16, Zenon DEF a, n

\* The options are unread or what main() makes of the command line.
OptsInv == argv \in CommandLines /\ opts \in {Unparsed, Parse(argv)}

\* They stay so.
LEMMA OptsInvariant == Spec => []OptsInv
<1>1. Init => OptsInv
  BY DEF Init, OptsInv
<1>2. OptsInv /\ [Next]_vars => OptsInv'
  <2> SUFFICES ASSUME OptsInv, [Next]_vars PROVE OptsInv'
    OBVIOUS
  <2>1. UNCHANGED argv /\ (UNCHANGED opts \/ opts' = Parse(argv))
    BY DEF Next, Program, Bus, Plug, Unplug, vars, progVars, busVars, main, Overrun, Count, Validate,
       Device, Ls, NextName, Return, NextDomain, Finish, About, Present, Header, dump_vdid,
       dump_generation, dump_auth_sts, enumerate_dev_tree, LinkFound
  <2> QED
    BY <2>1 DEF OptsInv
<1> QED
  BY <1>1, <1>2, PTL DEF Spec

\* The first of some places.
LEMMA FirstPlace ==
  ASSUME NEW n \in Nat, NEW S, \A k \in S : k \in 1 .. n - 1,
         NEW m \in S, \A q \in 1 .. m - 1 : q \notin S
  PROVE  1 + (CHOOSE k \in S : \A q \in S : k <= q) = m + 1
<1>1. \A k \in S : m <= k
  <2>1. ASSUME NEW k \in S, ~(m <= k) PROVE FALSE
    <3>1. k \in 1 .. m - 1
      BY <2>1
    <3> QED
      BY <2>1, <3>1
  <2> QED
    BY <2>1
<1> DEFINE c == CHOOSE k \in S : \A q \in S : k <= q
<1>2. c \in S /\ \A q \in S : c <= q
  BY <1>1, Zenon
<1> HIDE DEF c
<1>3. c = m
  BY <1>1, <1>2
<1>4. 1 + c = m + 1
  BY <1>3
<1> QED
  BY <1>4, Zenon DEF c

\* The places of a sequence but for the last.
LEMMA LastPlace ==
  ASSUME NEW n \in Nat
  PROVE  /\ \A k \in 1 .. n : k \in 1 .. n - 1 \/ (k = n /\ n # 0)
         /\ \A k \in 1 .. n - 1 : k \in 1 .. n /\ \A q \in 1 .. k - 1 : q \in 1 .. n - 1
OBVIOUS

\* What has been read off the arguments is what was written.
LEMMA ReadAsWritten ==
  ASSUME OptsInv
  PROVE  ParsedAsWritten
<1> DEFINE a == ameliorate_args(argv)
           n == Len(a)
           Occurs(l) == {k \in 1 .. n : At(a, l, k)}
<1> SUFFICES ASSUME opts # Unparsed, opts.end = "", opts.prev = ""
             PROVE  /\ \A l \in WithValue :
                         opts[l] = IF Occurs(l) = {} THEN NoArg
                                   ELSE a[1 + CHOOSE k \in Occurs(l) : \A m \in Occurs(l) : k <= m]
                    /\ \A l \in Switches : opts[l] = IF Occurs(l) = {} THEN 0 ELSE 1
                    /\ opts.v = Cardinality(Occurs("v")) % VerboseWraps
  BY Zenon DEF ParsedAsWritten, At, IsValue, RunFrom, Takes
<1>1. opts = Parse(argv) /\ argv \in CommandLines
  BY DEF OptsInv
<1>2. Read(a, n, opts) /\ a \in Seq(Argument)
  BY <1>1, ParseReads, ArgumentsType
<1> HIDE DEF a
<1>3. n \in Nat /\ \A k \in 1 .. n : a[k] \in Argument
  BY <1>2, ElementAt, Zenon
<1> HIDE DEF n
<1>4. /\ "" = IF n # 0 /\ Waits(a, n) THEN a[n].opt ELSE ""
      /\ \A l \in WithValue : FirstValue(a, l, n, opts[l])
      /\ \A l \in Flags : opts[l] = Value(l, Cardinality(Places(a, l, n)))
  BY <1>2, Zenon DEF Read
<1>5. ~(n # 0 /\ Waits(a, n))
  <2>1. "" \notin WithValue
    BY DEF WithValue
  <2> QED
    BY <1>4, <2>1, Zenon DEF Waits, Takes
<1>6. ASSUME NEW l \in WithValue
      PROVE  opts[l] = IF Occurs(l) = {} THEN NoArg
                       ELSE a[1 + CHOOSE k \in Occurs(l) : \A m \in Occurs(l) : k <= m]
  <2>1. \A k \in 1 .. n : k \in 1 .. n - 1 \/ (k = n /\ n # 0)
    BY <1>3, LastPlace, Zenon
  <2>2. \A k \in Occurs(l) : k \in 1 .. n - 1 /\ At(a, l, k)
    BY <1>5, <2>1, Zenon DEF At, Waits, Takes
  <2>3. CASE opts[l] = NoArg /\ \A k \in 1 .. n - 1 : ~At(a, l, k)
    <3>1. Occurs(l) = {}
      <4> HIDE DEF Occurs
      <4> QED
        BY <2>2, <2>3, Zenon
    <3> QED
      BY <2>3, <3>1, Zenon
  <2>4. CASE \E m \in 1 .. n - 1 :
          At(a, l, m) /\ (\A q \in 1 .. m - 1 : ~At(a, l, q)) /\ opts[l] = a[m + 1]
    <3>1. PICK m \in 1 .. n - 1 :
            At(a, l, m) /\ (\A q \in 1 .. m - 1 : ~At(a, l, q)) /\ opts[l] = a[m + 1]
      BY <2>4
    <3>2. m \in Occurs(l)
      <4>1. m \in 1 .. n
        BY <1>3, LastPlace, Zenon
      <4> QED
        BY <3>1, <4>1
    <3>3. \A q \in 1 .. m - 1 : q \notin Occurs(l)
      BY <3>1
    <3> HIDE DEF Occurs
    <3>4. 1 + (CHOOSE k \in Occurs(l) : \A q \in Occurs(l) : k <= q) = m + 1
      BY <1>3, <2>2, <3>2, <3>3, FirstPlace, Zenon
    <3>5. Occurs(l) # {}
      BY <3>2, Zenon
    <3> QED
      BY <3>1, <3>4, <3>5, Zenon
  <2> QED
    BY <1>4, <2>3, <2>4, Zenon DEF FirstValue
<1>7. ASSUME NEW l \in Flags
      PROVE  opts[l] = Value(l, Cardinality(Occurs(l))) /\ IsFiniteSet(Occurs(l))
  BY <1>3, <1>4, PlacesGrow, Zenon DEF Places
<1>8. ASSUME NEW l \in Switches PROVE opts[l] = IF Occurs(l) = {} THEN 0 ELSE 1
  <2>1. l \in Flags /\ l # "v"
    BY DEF Flags, Switches
  <2> HIDE DEF Occurs
  <2>2. Cardinality(Occurs(l)) = 0 <=> Occurs(l) = {}
    BY <1>7, <2>1, FS_EmptySet, Zenon
  <2> QED
    BY <1>7, <2>1, <2>2, Zenon DEF Value
<1>9. opts.v = Cardinality(Occurs("v")) % VerboseWraps
  <2>1. "v" \in Flags
    BY DEF Flags
  <2> HIDE DEF Occurs
  <2> QED
    BY <1>7, <2>1, Zenon DEF Value
<1> QED
  BY <1>6, <1>8, <1>9, Zenon

\* ParsedAsWritten: the argument loop of main() reads every command line of less
\* than MAX_LEN arguments as it is written; it counts -v up to what a u8 holds.
THEOREM ReadsAsWritten == Spec => []ParsedAsWritten
BY OptsInvariant, ReadAsWritten, PTL

=============================================================================
