------------------------- MODULE ListingShownProofs -------------------------
(***************************************************************************)
(* What lstbt shows, for every bus and every command line.                 *)
(*                                                                         *)
(* It shows no router of a decimal name twice, whatever comes and goes     *)
(* meanwhile.  A name is printed for an entry of a list that ls made, and  *)
(* no name is twice in a list.  Domains are listed one after the other.    *)
(* Within a domain, depth and row of the entries of one call differ by a   *)
(* constant, so two calls cannot both reach a name, except below an entry  *)
(* that was itself printed twice.                                          *)
(*                                                                         *)
(* On an undisturbed bus it shows exactly what its arguments ask for.      *)
(* Nothing is shown or listed that is not asked for.  What is to be listed *)
(* first has been shown, is still to do or is of a domain still to come,   *)
(* and so is every router below one shown.  At the end nothing is to do;   *)
(* induction over the length of routes gives all the routers.              *)
(***************************************************************************)
EXTENDS ListingProofs

-----------------------------------------------------------------------------
(* Names tell routers apart *)

\* A port is its two digits.
LEMMA TwoDigits ==
  \A p, q \in Port : Upper(p) = Upper(q) /\ Lower(p) = Lower(q) => p = q
BY DEF Upper, Lower, Port

\* The two characters of a port.
LEMMA CharactersOf ==
  \A n \in Nat : \A j \in 1 .. n :
    /\ \E k \in 1 .. 2 * n : n - Hop(k) = j /\ IsUpper(k)
    /\ \E k \in 1 .. 2 * n : n - Hop(k) = j /\ ~IsUpper(k)
<1>1. ASSUME NEW n \in Nat, NEW j \in 1 .. n
      PROVE  /\ \E k \in 1 .. 2 * n : n - Hop(k) = j /\ IsUpper(k)
             /\ \E k \in 1 .. 2 * n : n - Hop(k) = j /\ ~IsUpper(k)
  <2> DEFINE u == 2 * (n - j) + 1
             l == 2 * (n - j) + 2
  <2>1. u \in 1 .. 2 * n /\ n - Hop(u) = j /\ IsUpper(u)
    BY DEF Hop, IsUpper
  <2>2. l \in 1 .. 2 * n /\ n - Hop(l) = j /\ ~IsUpper(l)
    BY DEF Hop, IsUpper
  <2> HIDE DEF u, l
  <2> QED
    BY <2>1, <2>2, Zenon
<1> QED
  BY <1>1, Zenon

\* Routes with the same characters are the same.
LEMMA BytesTellRoutes ==
  ASSUME NEW s \in Seq(Port), NEW t \in Seq(Port), Bytes(s) = Bytes(t)
  PROVE  s = t
<1>1. PICK n \in Nat : n = Len(s) /\ n = Len(t)
  <2>1. 2 * Len(s) = 2 * Len(t)
    BY BytesType, Zenon
  <2>2. Len(s) \in Nat /\ Len(t) \in Nat
    OBVIOUS
  <2>3. \A a, b \in Nat : 2 * a = 2 * b => a = b
    OBVIOUS
  <2> QED
    BY <2>1, <2>2, <2>3, Zenon
<1>2. ASSUME NEW j \in 1 .. n PROVE s[j] = t[j]
  <2>1. PICK k \in 1 .. 2 * n : n - Hop(k) = j /\ IsUpper(k)
    BY CharactersOf, Zenon
  <2>2. PICK l \in 1 .. 2 * n : n - Hop(l) = j /\ ~IsUpper(l)
    BY CharactersOf, Zenon
  <2>3. Upper(s[j]) = Upper(t[j])
    BY <1>1, <2>1, CharacterAt, Zenon
  <2>4. Lower(s[j]) = Lower(t[j])
    BY <1>1, <2>2, CharacterAt, Zenon
  <2>5. s[j] \in Port /\ t[j] \in Port
    <3>1. \A u \in Seq(Port) : \A m \in 1 .. Len(u) : u[m] \in Port
      OBVIOUS
    <3> QED
      BY <1>1, <3>1, Zenon
  <2> QED
    BY <2>3, <2>4, <2>5, TwoDigits, Zenon
<1>3. \A u \in Seq(Port) : u = [j \in 1 .. Len(u) |-> u[j]]
  OBVIOUS
<1>4. /\ s = [j \in 1 .. n |-> s[j]]
      /\ t = [j \in 1 .. n |-> t[j]]
  BY <1>1, <1>3, Zenon
<1> QED
  BY <1>2, <1>4, Zenon

\* A sequence is known by its head and tail.
LEMMA HeadAndTail ==
  ASSUME NEW S, NEW s \in Seq(S), NEW t \in Seq(S), s # <<>>, t # <<>>,
         s[1] = t[1], Tail(s) = Tail(t)
  PROVE  s = t
<1>1. s = <<s[1]>> \o Tail(s) /\ t = <<t[1]>> \o Tail(t)
  OBVIOUS
<1> QED
  BY <1>1, Zenon

\* The characters of a route without a zero in front: an odd number if one was
\* there, and not a zero alone.
LEMMA HexOf ==
  ASSUME NEW s \in Seq(Port), s # <<>>
  PROVE  /\ Hex(s) = IF Bytes(s)[1] = 0 THEN Tail(Bytes(s)) ELSE Bytes(s)
         /\ Len(Bytes(s)) = 2 * Len(s) /\ Bytes(s) # <<>> /\ Len(s) \in Nat \ {0}
         /\ Bytes(s)[1] = 0 => Len(Hex(s)) = 2 * Len(s) - 1
         /\ Bytes(s)[1] # 0 => Len(Hex(s)) = 2 * Len(s)
         /\ Hex(s) # <<0>>
<1>1. Len(s) \in Nat \ {0} /\ \A j \in 1 .. Len(s) : s[j] \in Port
  OBVIOUS
<1> PICK n \in Nat \ {0} : n = Len(s)
  BY <1>1
<1>2. Bytes(s) \in Seq(Nat) /\ Len(Bytes(s)) = 2 * n
  BY BytesType
<1>3. Hex(s) = IF Bytes(s)[1] = 0 THEN Tail(Bytes(s)) ELSE Bytes(s)
  BY DEF Hex
<1>4. Bytes(s) # <<>> /\ Len(Tail(Bytes(s))) = 2 * n - 1
  BY <1>2
<1>5. /\ 1 \in 1 .. 2 * n /\ n - Hop(1) = n /\ IsUpper(1)
      /\ 2 \in 1 .. 2 * n /\ n - Hop(2) = n /\ ~IsUpper(2)
  BY Hops, Zenon
<1>6. Bytes(s)[1] = Upper(s[n]) /\ Bytes(s)[2] = Lower(s[n])
  BY <1>5, CharacterAt, Zenon
<1>7. Hex(s) # <<0>>
  <2>1. <<0>>[1] = 0 /\ Len(<<0>>) = 1
    OBVIOUS
  <2>2. CASE Bytes(s)[1] # 0
    <3>1. Hex(s)[1] # 0
      BY <1>3, <2>2, Zenon
    <3> QED
      BY <2>1, <3>1, Zenon
  <2>3. CASE Bytes(s)[1] = 0
    <3>1. \A p \in Port : ~(Upper(p) = 0 /\ Lower(p) = 0)
      BY DEF Upper, Lower, Port
    <3>2. s[n] \in Port
      BY <1>1
    <3>3. Bytes(s)[2] # 0
      BY <1>6, <2>3, <3>1, <3>2, Zenon
    <3>4. \A u \in Seq(Nat) : Len(u) >= 2 => Tail(u)[1] = u[2]
      OBVIOUS
    <3>5. 2 * n >= 2
      OBVIOUS
    <3>6. Hex(s)[1] = Bytes(s)[2]
      BY <1>2, <1>3, <2>3, <3>4, <3>5, Zenon
    <3> QED
      BY <2>1, <3>3, <3>6, Zenon
  <2> QED
    BY <2>2, <2>3
<1> QED
  BY <1>1, <1>2, <1>3, <1>4, <1>7

\* The digits of a name tell its route.
LEMMA HexTellsRoutes ==
  ASSUME NEW s \in Seq(Port), NEW t \in Seq(Port), Hex(s) = Hex(t)
  PROVE  s = t
<1>1. CASE s = <<>> \/ t = <<>>
  BY <1>1, HexOf DEF Hex
<1>2. CASE s # <<>> /\ t # <<>>
  <2>1. \A m, n \in Nat : 2 * m - 1 # 2 * n
    OBVIOUS
  <2>2. Bytes(s)[1] = 0 <=> Bytes(t)[1] = 0
    BY <1>2, <2>1, HexOf, Zenon
  <2>3. CASE Bytes(s)[1] # 0
    BY <1>2, <2>2, <2>3, HexOf, BytesTellRoutes, Zenon
  <2>4. CASE Bytes(s)[1] = 0
    <3>1. Bytes(s) \in Seq(Nat) /\ Bytes(t) \in Seq(Nat)
      BY BytesType
    <3>2. Tail(Bytes(s)) = Tail(Bytes(t)) /\ Bytes(s) # <<>> /\ Bytes(t) # <<>>
      BY <1>2, <2>2, <2>4, HexOf, Zenon
    <3>3. Bytes(s) = Bytes(t)
      BY <2>2, <2>4, <3>1, <3>2, HeadAndTail, Zenon
    <3> QED
      BY <3>3, BytesTellRoutes, Zenon
  <2> QED
    BY <2>3, <2>4
<1> QED
  BY <1>1, <1>2

\* A name is of one router.
LEMMA NamesTellRouters ==
  ASSUME NEW r, NEW q, IsRouter(r), IsRouter(q), NameOf(r) = NameOf(q)
  PROVE  r = q
<1>1. /\ r.dom = q.dom /\ Hex(r.route) = Hex(q.route)
  BY Zenon DEF NameOf, Name
<1>2. r.route \in Seq(Port) /\ q.route \in Seq(Port)
  BY RouterType, Zenon
<1>3. r.route = q.route
  BY <1>1, <1>2, HexTellsRoutes, Zenon
<1>4. /\ r = [dom |-> r.dom, route |-> r.route]
      /\ q = [dom |-> q.dom, route |-> q.route]
  <2>1. \A D, F : \A x \in [dom : D, route : F] : x = [dom |-> x.dom, route |-> x.route]
    OBVIOUS
  <2> QED
    BY <2>1, Zenon DEF IsRouter
<1> QED
  BY <1>1, <1>3, <1>4, Zenon

-----------------------------------------------------------------------------
(* The invariant of EachOnce *)

DecimalNames == {NameOf(r) : r \in {q \in Universe : Decimal(q)}}
Decimals     == {a \in ItemSet : RouterName(a) \in DecimalNames}

Early == {"main", "count", "validate", "device"}

\* The domains are listed one after the other.
Sweeping == ~Given(opts.s) /\ ~Given(opts.D)

Todo(f) == {stack[f].todo[k] : k \in DOMAIN stack[f].todo}

Shown(a) == \E k \in DOMAIN printed : printed[k].item = a

\* Depth of the routers in the first list of a tree: half the length of their names.
Base ==
  IF Given(opts.s) THEN depth_of_router(opts.s.name)
  ELSE IF Given(opts.d) /\ opts.d.num # 0
       THEN (router_len_in_depth(opts.d.num) - 1) \div 2
  ELSE 0

\* Rows are not deeper than the route, and start at one depth.
AtRow(a, row) ==
  \A r \in Universe : NameOf(r) = RouterName(a) =>
    /\ row <= Len(r.route)
    /\ mode = "tree" /\ Decimal(r) => Len(r.route) - row = Base

\* Lists start empty, and are made once unless there are domains to go through.
Begun ==
  /\ pc \in Early => stack = <<>> /\ printed = <<>> /\ i = 0
  /\ pc = "ls" /\ ~Sweeping => printed = <<>>

\* What is printed is of the domains so far, what is listed of the one at hand.
Swept ==
  Sweeping =>
    /\ i \in Nat
    /\ \A k \in DOMAIN printed : printed[k].item.dom <= i
    /\ pc = "ls" => \A k \in DOMAIN printed : printed[k].item.dom < i
    /\ \A f \in DOMAIN stack : \A a \in Todo(f) : a.dom = i
    /\ pc \in AtItem \cup Printed => item.dom = i

Rows ==
  /\ Len(stack) > 1 \/ pc = "children" => mode = "tree"
  /\ \A k \in DOMAIN printed : AtRow(printed[k].item, printed[k].row)
  /\ \A f \in DOMAIN stack : \A a \in Todo(f) : AtRow(a, f - 1)
  /\ pc \in AtItem => AtRow(item, Len(stack) - 1)

\* What is still to do is not repeated and has not been printed.
Lists ==
  /\ \A f \in DOMAIN stack : Apart(stack[f].todo)
  /\ \A f \in DOMAIN stack : \A a \in Todo(f) \cap Decimals : ~Shown(a)
  /\ pc \in AtItem => item \notin Todo(Len(stack)) /\ (item \in Decimals => ~Shown(item))

\* EachOnce for what is printed.
Once ==
  \A j, k \in DOMAIN printed :
    printed[j].item = printed[k].item /\ printed[j].item \in Decimals => j = k

OnceInv == Begun /\ Swept /\ Rows /\ Lists /\ Once

-----------------------------------------------------------------------------
(* Steps *)

\* Nothing is taken or printed.
Still ==
  /\ UNCHANGED <<i, stack, printed, item>>
  /\ pc' \in AtItem => pc \in AtItem
  /\ pc' \in Printed => pc \in Printed
  /\ pc' = "children" => pc = "children" \/ mode = "tree"
  /\ pc' \in Early \cup {"ls"} => pc' = pc

\* An item is printed.
Prints ==
  /\ Header
  /\ printed' = Append(printed, EntryOf(item, Len(stack) - 1))
  /\ pc' \in {"ids", "generation"}

\* The reading steps lead on to the children in a tree only.
LEMMA ReadingStill ==
  Reading => Still /\ UNCHANGED opts
<1>1. ASSUME NEW next, ReadOr(next)
      PROVE  pc' = next \/ pc' = "crash"
  BY <1>1 DEF ReadOr, Goto
<1>2. CASE dump_vdid
  <2>1. PICK next \in {"next", "generation"} : ReadOr(next)
    BY <1>2 DEF dump_vdid
  <2>2. pc' \in {"next", "generation", "crash"}
    BY <1>1, <2>1
  <2> QED
    BY <1>2, <2>2 DEF dump_vdid, Still, AtItem, Printed, Early
<1>3. CASE dump_generation
  <2> DEFINE n == CASE mode = "plain" -> "next"
                    [] mode = "tree" /\ opts.v = 0 -> "children"
                    [] OTHER -> "auth"
  <2>1. n \in {"next", "children", "auth"} /\ (n = "children" => mode = "tree")
    <3>1. CASE mode = "plain"
      BY <3>1
    <3>2. CASE mode = "tree" /\ opts.v = 0
      BY <3>2
    <3>3. CASE ~(mode = "plain") /\ ~(mode = "tree" /\ opts.v = 0)
      BY <3>3
    <3> QED
      BY <3>1, <3>2, <3>3
  <2>2. ReadOr(n)
    BY <1>3, Zenon DEF dump_generation
  <2> HIDE DEF n
  <2>3. pc' \in {"next", "children", "auth", "crash"} /\ (pc' = "children" => mode = "tree")
    BY <1>1, <2>1, <2>2
  <2> QED
    BY <1>3, <2>3 DEF dump_generation, Still, AtItem, Printed, Early
<1>4. CASE dump_auth_sts
  <2> DEFINE n == IF mode = "tree" THEN "children" ELSE "next"
  <2>1. n \in {"next", "children"} /\ (n = "children" => mode = "tree")
    OBVIOUS
  <2>2. ReadOr(n)
    BY <1>4, Zenon DEF dump_auth_sts
  <2> HIDE DEF n
  <2>3. pc' \in {"next", "children", "crash"} /\ (pc' = "children" => mode = "tree")
    BY <1>1, <2>1, <2>2
  <2> QED
    BY <1>4, <2>3 DEF dump_auth_sts, Still, AtItem, Printed, Early
<1> QED
  BY <1>2, <1>3, <1>4 DEF Reading

\* A step after the arguments have been looked at leaves them alone and is one of
\* these.
LEMMA OnceCases ==
  ASSUME IInv, [Next]_vars, pc \notin Early
  PROVE  /\ UNCHANGED opts
         /\ Still \/ NextDomain \/ Ls \/ NextName \/ Return \/ Prints \/ enumerate_dev_tree
<1>1. ListsTyped /\ Nested
  BY DEF IInv
<1>2. CASE Elsewhere
  <2>1. NextDomain \/ Finish \/ LinkFound
    BY <1>2 DEF Elsewhere, Early, main, Overrun, Count, Validate, Device
  <2> QED
    BY <2>1 DEF NextDomain, Finish, LinkFound, Goto, Exit, Still, AtItem, Printed, Early
<1>3. CASE Reading
  BY <1>3, ReadingStill
<1>4. CASE Header
  <2>1. UNCHANGED <<i, opts>>
    BY <1>4 DEF Header
  <2> QED
    BY <1>1, <1>4, <2>1, HeaderLists DEF Prints, Still, AtItem, Printed, Early
<1>5. CASE Present
  BY <1>5 DEF Present, Goto, Still, AtItem, Printed, Early
<1>6. CASE UNCHANGED progVars
  BY <1>6 DEF progVars, Still
<1>7. CASE Ls \/ NextName \/ Return \/ enumerate_dev_tree
  BY <1>7 DEF Ls, NextName, Return, enumerate_dev_tree
<1> QED
  BY <1>2, <1>3, <1>4, <1>5, <1>6, <1>7, StepCases

\* The row of an item depends on the arguments only.
LEMMA RowsStay ==
  ASSUME UNCHANGED opts
  PROVE  /\ mode' = mode /\ Sweeping' = Sweeping
         /\ \A a, row : AtRow(a, row) => AtRow(a, row)'
<1>1. mode' = mode /\ Sweeping' = Sweeping
  BY DEF mode, Sweeping
<1>2. Base' = Base
  BY DEF Base, depth_of_router, is_host_router, strlen, DomainLen
<1>3. ASSUME NEW a, NEW row, AtRow(a, row) PROVE AtRow(a, row)'
  BY <1>1, <1>2, <1>3 DEF AtRow, NameOf, Name, RouterName, Decimal
<1> QED
  BY <1>1, <1>3

\* Nothing is listed when lstbt starts.
LEMMA OnceInit == Init => OnceInv
<1> SUFFICES ASSUME Init PROVE OnceInv
  OBVIOUS
<1>1. pc = "main" /\ stack = <<>> /\ printed = <<>> /\ i = 0
  BY DEF Init
<1> QED
  BY <1>1 DEF OnceInv, Begun, Swept, Rows, Lists, Once, Early, AtItem, Printed

\* Until the arguments are accepted nothing is listed.
LEMMA EarlyStep ==
  ASSUME Begun, [Next]_vars, pc \in Early
  PROVE  OnceInv'
<1>1. stack = <<>> /\ printed = <<>> /\ i = 0
  BY DEF Begun
<1>2. /\ UNCHANGED <<stack, printed>>
      /\ pc' \in Early \cup {"ls", "exit", "overrun"}
      /\ \/ i' = i
         \/ pc' \notin Early /\ UNCHANGED opts /\ Given(opts.D)
  <2>1. CASE main \/ Overrun \/ Count \/ Device
    <3>1. /\ UNCHANGED <<stack, printed>>
          /\ pc' \in {"count", "validate", "device", "ls", "exit", "overrun"}
      BY <2>1, ElsewhereSteps DEF Elsewhere
    <3>2. UNCHANGED i
      BY <2>1 DEF main, Overrun, Count, Device
    <3> QED
      BY <3>1, <3>2 DEF Early
  <2>2. CASE Validate
    <3>1. UNCHANGED <<stack, printed, opts>>
      BY <2>2 DEF Validate
    <3>2. \/ pc' = "exit" /\ i' = i
          \/ /\ pc' \in {"device", "ls"}
             /\ i' = IF Given(opts.D) THEN opts.D.num ELSE 0
             /\ pc' = "device" => ~Given(opts.D)
      BY <2>2 DEF Validate, Goto, Exit, validate_args
    <3> QED
      BY <1>1, <3>1, <3>2 DEF Early
  <2>3. CASE UNCHANGED progVars
    BY <2>3 DEF progVars
  <2>4. CASE NextDomain \/ Finish \/ LinkFound \/ Ls \/ NextName \/ Return \/ Present
             \/ Header \/ Reading \/ enumerate_dev_tree
    BY <2>4 DEF NextDomain, Finish, LinkFound, Ls, NextName, Return, Present, Header,
       Reading, dump_vdid, dump_generation, dump_auth_sts, enumerate_dev_tree, Early
  <2> QED
    BY <2>1, <2>2, <2>3, <2>4, StepCases DEF Elsewhere
<1>3. /\ stack' = <<>> /\ printed' = <<>>
      /\ pc' \in Early => i' = 0
      /\ Sweeping' => i' = 0
  BY <1>1, <1>2 DEF Sweeping
<1>4. pc' \notin AtItem \cup Printed
  BY <1>2 DEF Early, AtItem, Printed
<1>5. pc' # "children"
  BY <1>2 DEF Early
<1> QED
  BY <1>3, <1>4, <1>5 DEF OnceInv, Begun, Swept, Rows, Lists, Once

-----------------------------------------------------------------------------
(* What is listed first *)

\* What comes first in a tree of routers with decimal names has the depth asked
\* for.
LEMMA RootDepth ==
  ASSUME NEW r \in Universe, Decimal(r), ~Given(opts.s),
         Given(opts.d) => is_router_depth(NameOf(r), opts.d.num),
         ~Given(opts.d) => is_host_router(NameOf(r))
  PROVE  Len(r.route) = Base
<1>1. depth_of_router(NameOf(r)) = Len(r.route)
  BY UniverseType, LabelsOfName
<1>2. CASE is_host_router(NameOf(r))
  BY <1>1, <1>2 DEF depth_of_router, Base, is_router_depth
<1>3. CASE ~is_host_router(NameOf(r))
  <2>1. Given(opts.d) /\ opts.d.num # 0
        /\ strlen(NameOf(r)) = router_len_in_depth(opts.d.num)
    BY <1>3, Zenon DEF is_router_depth
  <2>2. Base = (router_len_in_depth(opts.d.num) - 1) \div 2
    BY <2>1, Zenon DEF Base
  <2>3. depth_of_router(NameOf(r)) = (strlen(NameOf(r)) - 1) \div 2
    BY <1>3, Zenon DEF depth_of_router
  <2> QED
    BY <1>1, <2>1, <2>2, <2>3, Zenon
<1> QED
  BY <1>2, <1>3

\* A router's own row is its first one.
LEMMA FirstRow ==
  ASSUME NEW a,
         \A r \in Universe : NameOf(r) = RouterName(a) =>
           (mode = "tree" /\ Decimal(r) => Len(r.route) = Base)
  PROVE  AtRow(a, 0)
<1>1. \A r \in Universe : Len(r.route) \in Nat
  BY UniverseType, RouterType
<1>2. \A n \in Nat : 0 <= n /\ n - 0 = n
  OBVIOUS
<1> QED
  BY <1>1, <1>2 DEF AtRow

\* Names listed by domain and depth.
LEMMA InDomainFirst ==
  ASSUME BusOK, ~Given(opts.s), NEW a \in InDomain,
         mode = "tree" /\ ~Given(opts.d) => is_host_router(a)
  PROVE  a.dom = i /\ AtRow(a, 0)
<1>1. a.dom = i /\ (Given(opts.d) => is_router_depth(a, opts.d.num))
  BY DEF InDomain, is_router_format
<1>2. RouterName(a) = a
  BY NameItem DEF InDomain, Names, BusOK
<1>3. ASSUME NEW r \in Universe, NameOf(r) = RouterName(a), mode = "tree", Decimal(r)
      PROVE  Len(r.route) = Base
  BY <1>1, <1>2, <1>3, RootDepth
<1> QED
  BY <1>1, <1>3, FirstRow

\* A list by ls repeats nothing.
LEMMA LsApart ==
  ASSUME NEW S, Listable(S)
  PROVE  Apart(ls(S)) /\ \A k \in DOMAIN ls(S) : ls(S)[k] \in S
BY LsLists, Zenon

\* The first list repeats nothing, is of the domain at hand and in the first row.
LEMMA SelectedOnce ==
  ASSUME BusOK, Seen, pc = "ls"
  PROVE  /\ Apart(Selected)
         /\ \A k \in DOMAIN Selected :
              (Sweeping => Selected[k].dom = i) /\ AtRow(Selected[k], 0)
<1> DEFINE Fine(a) == (Sweeping => a.dom = i) /\ AtRow(a, 0)
           Goal == Apart(Selected) /\ \A k \in DOMAIN Selected : Fine(Selected[k])
<1> SUFFICES Goal
  OBVIOUS
<1>0. ASSUME NEW S, Listable(S), Selected = ls(S), \A a \in S : Fine(a) PROVE Goal
  <2> HIDE DEF Fine
  <2> QED
    BY <1>0, LsApart, Zenon
<1>1. CASE mode = "retimer"
  <2> DEFINE U == {u \in Retimers : u.at \in present
                     /\ IF Given(opts.s)
                        THEN /\ NameOf(u.at) = opts.s.name
                             /\ u.at.dom = domain_of_router(opts.s.name)
                        ELSE u.at.dom = i}
             S == {RetimerOf(t) : t \in U}
  <2>1. Selected = ls(S)
    BY <1>1 DEF Selected
  <2>2. Listable(S)
    <3>1. U \in SUBSET {u \in Retimers : u.at \in present}
      OBVIOUS
    <3> QED
      BY <3>1, RetimersAreListable
  <2>3. ASSUME NEW t \in U PROVE Fine(RetimerOf(t))
    <3>1. Sweeping => RetimerOf(t).dom = i
      BY DEF Sweeping, RetimerOf
    <3>2. AtRow(RetimerOf(t), 0)
      BY <1>1, FirstRow
    <3> QED
      BY <3>1, <3>2
  <2>4. \A a \in S : Fine(a)
    BY <2>3
  <2> HIDE DEF S, Fine, Goal
  <2> QED
    BY <1>0, <2>1, <2>2, <2>4
<1>2. CASE mode # "retimer" /\ Given(opts.s)
  <2> DEFINE a == opts.s.name
  <2>1. Selected = <<a>>
    BY <1>2 DEF Selected
  <2>2. a \in Names \cup gone
    BY <1>2 DEF Seen
  <2>3. RouterName(a) = a
    BY <2>2, NameItem DEF BusOK, Names, NameSet
  <2>4. ASSUME NEW r \in Universe, NameOf(r) = RouterName(a), Decimal(r)
        PROVE  Len(r.route) = Base
    BY <1>2, <2>3, <2>4, UniverseType, LabelsOfName DEF Base
  <2>5. AtRow(a, 0)
    <3> HIDE DEF a
    <3> QED
      BY <2>4, FirstRow
  <2>6. Fine(a)
    BY <1>2, <2>5 DEF Sweeping
  <2> HIDE DEF a, Fine
  <2> QED
    BY <2>1, <2>6 DEF Apart
<1>3. CASE mode # "retimer" /\ ~Given(opts.s)
  <2>1. InDomain \in SUBSET Names
    BY DEF InDomain
  <2>2. CASE mode = "tree" /\ ~Given(opts.d)
    <3> DEFINE hosts == {a \in InDomain : is_host_router(a) /\ domain_of_router(a) = i}
               a == ls(hosts)[1]
    <3>1. Selected = IF hosts = {} THEN <<>> ELSE <<a>>
      BY <1>3, <2>2 DEF Selected
    <3>2. hosts # {} => a \in hosts
      <4>1. hosts \in SUBSET Names
        BY <2>1
      <4>2. Listable(hosts)
        BY <4>1, NamesAreListable
      <4>3. hosts # {} => Cardinality(hosts) # 0
        BY <4>2, FS_EmptySet DEF Listable
      <4> HIDE DEF hosts
      <4>4. hosts # {} => 1 \in DOMAIN ls(hosts)
        BY <4>2, <4>3, LsLists
      <4> QED
        BY <4>2, <4>4, LsApart
    <3>3. hosts # {} => Fine(a)
      <4> HIDE DEF a
      <4> QED
        BY <1>3, <2>2, <3>2, InDomainFirst
    <3> HIDE DEF hosts, a, Fine
    <3> QED
      BY <3>1, <3>3 DEF Apart
  <2>3. CASE ~(mode = "tree" /\ ~Given(opts.d))
    <3>1. Selected = ls(InDomain)
      BY <1>3, <2>3 DEF Selected
    <3>2. \A a \in InDomain : Fine(a)
      BY <1>3, <2>3, InDomainFirst
    <3>3. Listable(InDomain)
      BY <2>1, NamesAreListable
    <3> HIDE DEF Fine, Goal
    <3> QED
      BY <1>0, <3>1, <3>2, <3>3
  <2> QED
    BY <2>2, <2>3
<1> QED
  BY <1>1, <1>2, <1>3

-----------------------------------------------------------------------------
(* What is listed below a router *)

\* A route without its last port.
LEMMA ShorterRoute ==
  ASSUME NEW s \in Seq(Port), s # <<>>
  PROVE  /\ Front(s) \in Seq(Port) /\ Len(Front(s)) = Len(s) - 1 /\ Len(s) \in Nat
         /\ \A k \in 1 .. Len(Front(s)) : k \in 1 .. Len(s) /\ Front(s)[k] = s[k]
<1>1. Front(s) = SubSeq(s, 1, Len(s) - 1)
  BY DEF Front
<1>2. /\ Len(s) \in Nat \ {0} /\ Front(s) \in Seq(Port) /\ Len(Front(s)) = Len(s) - 1
      /\ \A k \in 1 .. Len(s) - 1 : Front(s)[k] = s[k]
  BY <1>1, DropLast, Zenon
<1>3. \A n \in Nat \ {0} : \A k \in 1 .. n - 1 : k \in 1 .. n
  OBVIOUS
<1>4. Len(s) \in Nat
  BY <1>2
<1> QED
  BY <1>2, <1>3, <1>4, Zenon

\* Replacing the route of a router.
LEMMA ReplaceRoute ==
  ASSUME NEW D, NEW F, NEW r \in [dom : D, route : F], NEW f \in F
  PROVE  LET q == [r EXCEPT !.route = f]
         IN q \in [dom : D, route : F] /\ q.dom = r.dom /\ q.route = f
OBVIOUS

\* The router a router is connected to is one, and has a decimal name if that has.
LEMMA ParentIsRouter ==
  ASSUME NEW r, IsRouter(r), r.route # <<>>
  PROVE  /\ IsRouter(Parent(r)) /\ Parent(r).dom = r.dom
         /\ Len(Parent(r).route) = Len(r.route) - 1 /\ Len(r.route) \in Nat
         /\ Decimal(r) => Decimal(Parent(r))
<1> DEFINE q == Parent(r)
<1>1. r.route \in Seq(Port)
  BY RouterType
<1>2. r \in [dom : 0 .. 99, route : Seq(Port)] /\ Len(r.route) < MaxDepthPossible
  BY Zenon DEF IsRouter, Port
<1>3. /\ Front(r.route) \in Seq(Port) /\ Len(Front(r.route)) = Len(r.route) - 1
      /\ Len(r.route) \in Nat
      /\ \A k \in 1 .. Len(Front(r.route)) : k \in 1 .. Len(r.route) /\ Front(r.route)[k] = r.route[k]
  BY <1>1, ShorterRoute
<1>4. q \in [dom : 0 .. 99, route : Seq(Port)] /\ q.dom = r.dom /\ q.route = Front(r.route)
  BY <1>2, <1>3, ReplaceRoute DEF Parent
<1>5. Len(q.route) < MaxDepthPossible
  <2>1. \A n \in Nat : n < 8 => n - 1 < 8
    OBVIOUS
  <2> QED
    BY <1>2, <1>3, <1>4, <2>1, Zenon DEF MaxDepthPossible
<1>6. IsRouter(q)
  BY <1>4, <1>5, Zenon DEF IsRouter, Port
<1>7. Decimal(r) => Decimal(q)
  BY <1>3, <1>4, Zenon DEF Decimal
<1> QED
  BY <1>3, <1>4, <1>6, <1>7, Zenon

\* An item names a router.
LEMMA ItemRouter ==
  ASSUME NEW a \in ItemSet
  PROVE  \E q \in Universe : NameOf(q) = RouterName(a) /\ q.dom = a.dom
<1>1. CASE a \in NameSet
  <2>1. PICK q \in Universe : a = NameOf(q)
    BY <1>1 DEF NameSet
  <2>2. NameOf(q).dom = q.dom
    BY UniverseType, NameType
  <2> QED
    BY <2>1, <2>2, NameItem
<1>2. CASE a \in RetimerSet
  <2>1. PICK t \in Retimers : t.at \in Universe /\ a = RetimerOf(t)
    BY <1>2 DEF RetimerSet
  <2>2. a.dom = t.at.dom
    BY <2>1 DEF RetimerOf
  <2> QED
    BY <2>1, <2>2, RetimerItem
<1> QED
  BY <1>1, <1>2 DEF ItemSet

\* The router of a child is connected to the router of the item, one row above.
LEMMA ChildRouter ==
  ASSUME NEW a \in ItemSet, NEW c, Child(c, a)
  PROVE  \E r, q \in Universe :
           /\ NameOf(r) = c /\ RouterName(c) = c
           /\ NameOf(q) = a /\ RouterName(a) = a
           /\ q.dom = r.dom /\ a.dom = c.dom
           /\ Len(q.route) \in Nat /\ Len(r.route) = Len(q.route) + 1
           /\ Decimal(r) => Decimal(q)
<1>1. PICK r \in Universe : r.route # <<>> /\ NameOf(r) = c /\ NameOf(Parent(r)) = a
  BY DEF Child
<1>2. IsRouter(r)
  BY UniverseType
<1>3. /\ IsRouter(Parent(r)) /\ Parent(r).dom = r.dom
      /\ Len(Parent(r).route) = Len(r.route) - 1 /\ Len(r.route) \in Nat
      /\ Decimal(r) => Decimal(Parent(r))
  BY <1>1, <1>2, ParentIsRouter
<1>4. PICK q \in Universe : NameOf(q) = RouterName(a)
  BY ItemRouter
<1>5. RouterName(a) = a
  <2>1. a = [dom |-> a.dom, hex |-> a.hex]
    BY <1>1 DEF NameOf, Name
  <2> QED
    BY <2>1 DEF RouterName
<1>6. q = Parent(r)
  BY <1>1, <1>3, <1>4, <1>5, UniverseType, NamesTellRouters, Zenon
<1>7. RouterName(c) = c
  BY <1>1, NameItem
<1>8. a.dom = q.dom /\ c.dom = r.dom
  BY <1>1, <1>4, <1>5, UniverseType, NameType
<1>9. Len(q.route) \in Nat
  BY UniverseType, RouterType
<1>10. Len(r.route) = Len(q.route) + 1
  BY <1>3, <1>6, <1>9
<1> QED
  BY <1>1, <1>3, <1>4, <1>5, <1>6, <1>7, <1>8, <1>9, <1>10, Zenon

\* Its row is the next.
LEMMA RowBelow ==
  ASSUME NEW a \in ItemSet, NEW c, Child(c, a), NEW d \in Nat, AtRow(a, d)
  PROVE  AtRow(c, d + 1)
<1>1. PICK r, q \in Universe :
        /\ NameOf(r) = c /\ RouterName(c) = c
        /\ NameOf(q) = a /\ RouterName(a) = a
        /\ q.dom = r.dom /\ a.dom = c.dom
        /\ Len(q.route) \in Nat /\ Len(r.route) = Len(q.route) + 1
        /\ Decimal(r) => Decimal(q)
  BY ChildRouter, Zenon
<1>2. /\ d <= Len(q.route)
      /\ mode = "tree" /\ Decimal(q) => Len(q.route) - d = Base
  BY <1>1, Zenon DEF AtRow
<1>3. \A s \in Universe : NameOf(s) = RouterName(c) => s = r
  BY <1>1, UniverseType, NamesTellRouters, Zenon
<1>4. \A m, n \in Nat : m <= n => m + 1 <= n + 1 /\ (n + 1) - (m + 1) = n - m
  OBVIOUS
<1>5. /\ d + 1 <= Len(r.route)
      /\ mode = "tree" /\ Decimal(r) => Len(r.route) - (d + 1) = Base
  BY <1>1, <1>2, <1>4, Zenon
<1> QED
  BY <1>3, <1>5, Zenon DEF AtRow

-----------------------------------------------------------------------------
(* The lists after a step *)

\* What is left to do in a list is a list of items.
LEMMA FrameTodo ==
  ASSUME NEW s \in Seq(FrameSet), NEW f \in 1 .. Len(s)
  PROVE  s[f].todo \in Seq(ItemSet)
<1>1. s[f] \in FrameSet
  OBVIOUS
<1>2. \A x \in FrameSet : x.todo \in Seq(ItemSet)
  BY Zenon DEF FrameSet
<1> QED
  BY <1>1, <1>2, Zenon

\* Lists only become shorter, but where one is made.
LEMMA FramesShrink ==
  ASSUME ListsTyped, Still \/ NextDomain \/ NextName \/ Return \/ Prints
  PROVE  /\ DOMAIN stack' \subseteq DOMAIN stack
         /\ Len(stack') <= Len(stack)
         /\ \A f \in DOMAIN stack' : Todo(f)' \subseteq Todo(f)
         /\ \A f \in DOMAIN stack' : Apart(stack[f].todo) => Apart(stack'[f].todo)
<1> DEFINE After(f) == {stack'[f].todo[k] : k \in DOMAIN stack'[f].todo}
<1>0. \A f : Todo(f)' = After(f)
  BY DEF Todo
<1>1. Len(stack) \in Nat /\ DOMAIN stack = 1 .. Len(stack)
  BY DEF ListsTyped
<1>2. CASE Still \/ NextDomain \/ Prints
  <2>1. UNCHANGED stack
    BY <1>2 DEF Still, NextDomain, Prints, Header
  <2> QED
    BY <1>1, <2>1 DEF Todo, Apart
<1>3. CASE Return
  <2>1. /\ Len(stack) \in Nat \ {0} /\ Len(stack') = Len(stack) - 1
        /\ stack' \in Seq(FrameSet)
        /\ \A f \in 1 .. Len(stack) - 1 : stack'[f] = stack[f]
    BY <1>3, ReturnLists
  <2>2. DOMAIN stack' = 1 .. Len(stack) - 1
    BY <2>1
  <2>3. \A f \in DOMAIN stack' : stack'[f] = stack[f]
    BY <2>1, <2>2
  <2>4. \A f \in DOMAIN stack' : After(f) \subseteq Todo(f)
    BY <2>3 DEF Todo
  <2>5. DOMAIN stack' \subseteq DOMAIN stack /\ Len(stack') <= Len(stack)
    BY <1>1, <2>1, <2>2
  <2> QED
    BY <1>0, <2>3, <2>4, <2>5, Zenon
<1>4. CASE NextName
  <2> DEFINE n == Len(stack)
             rest == stack'[n].todo
             todo == stack[n].todo
  <2>1. /\ n \in Nat \ {0} /\ stack' \in Seq(FrameSet) /\ Len(stack') = n
        /\ \A f \in 1 .. n - 1 : stack'[f] = stack[f]
        /\ \A k \in DOMAIN rest : k + 1 \in DOMAIN todo /\ rest[k] = todo[k + 1]
    BY <1>4, NextNameLists
  <2>2. DOMAIN stack' = 1 .. n
    BY <2>1
  <2>3. \A f \in 1 .. n : f \in 1 .. n - 1 \/ f = n
    BY <2>1
  <2>4. rest \in Seq(ItemSet)
    BY <2>1, FrameTodo
  <2>5. After(n) \subseteq Todo(n)
    BY <2>1 DEF Todo
  <2>6. Apart(todo) => Apart(rest)
    <3>1. \A j, k \in DOMAIN rest : j + 1 = k + 1 => j = k
      BY <2>4
    <3> HIDE DEF n, rest, todo
    <3> QED
      BY <2>1, <3>1 DEF Apart
  <2>7. ASSUME NEW f \in 1 .. n
        PROVE After(f) \subseteq Todo(f) /\ (Apart(stack[f].todo) => Apart(stack'[f].todo))
    <3>1. CASE f = n
      BY <2>5, <2>6, <3>1
    <3>2. CASE f \in 1 .. n - 1
      BY <2>1, <3>2 DEF Todo
    <3> QED
      BY <2>3, <3>1, <3>2
  <2>8. Len(stack') <= Len(stack)
    BY <2>1
  <2> HIDE DEF After
  <2> QED
    BY <1>0, <1>1, <2>2, <2>7, <2>8, Zenon
<1> QED
  BY <1>2, <1>3, <1>4

\* The name taken is no longer in its list.
LEMMA NextNameTakes ==
  ASSUME ListsTyped, NextName
  PROVE  LET n == Len(stack)
         IN /\ n \in DOMAIN stack /\ Len(stack') = n
            /\ item' \in Todo(n) /\ item' \in ItemSet
            /\ Apart(stack[n].todo) => item' \notin Todo(n)'
            /\ pc' \in AtItem /\ UNCHANGED <<i, printed, opts>>
<1> DEFINE n == Len(stack)
           rest == stack'[n].todo
           todo == stack[n].todo
<1>1. /\ n \in Nat \ {0} /\ stack' \in Seq(FrameSet) /\ Len(stack') = n
      /\ item' = todo[1] /\ 1 \in DOMAIN todo /\ todo[1] \in ItemSet
      /\ \A k \in DOMAIN rest : k + 1 \in DOMAIN todo /\ rest[k] = todo[k + 1]
  BY NextNameLists
<1>2. n \in DOMAIN stack
  BY <1>1 DEF ListsTyped
<1>3. rest \in Seq(ItemSet)
  BY <1>1, FrameTodo
<1>4. \A k \in DOMAIN rest : k + 1 # 1
  BY <1>3
<1>5. UNCHANGED <<i, printed, opts>> /\ pc' \in AtItem
  BY DEF NextName, Goto, AtItem
<1>6. Todo(n)' = {rest[k] : k \in DOMAIN rest}
  BY <1>1 DEF Todo
<1>7. Apart(todo) => item' \notin Todo(n)'
  <2> HIDE DEF n, rest, todo
  <2> QED
    BY <1>1, <1>4, <1>6 DEF Apart
<1>8. item' \in Todo(n)
  BY <1>1 DEF Todo
<1> QED
  BY <1>1, <1>2, <1>5, <1>7, <1>8

\* The first list.
LEMMA LsTodo ==
  ASSUME BusOK, Seen, Ls
  PROVE  /\ DOMAIN stack' = {1} /\ Len(stack') = 1
         /\ Apart(stack'[1].todo)
         /\ \A a \in Todo(1)' : (Sweeping => a.dom = i) /\ AtRow(a, 0)
         /\ pc = "ls" /\ pc' = "next" /\ UNCHANGED <<i, opts, printed>>
<1>1. /\ pc = "ls" /\ pc' = "next" /\ UNCHANGED <<i, opts, printed>>
      /\ stack' = <<[depth |-> 0, todo |-> Selected]>>
  BY DEF Ls, Goto
<1>2. Apart(Selected)
      /\ \A k \in DOMAIN Selected : (Sweeping => Selected[k].dom = i) /\ AtRow(Selected[k], 0)
  BY <1>1, SelectedOnce
<1>3. DOMAIN stack' = {1} /\ Len(stack') = 1 /\ stack'[1].todo = Selected
  BY <1>1
<1>4. Todo(1)' = {Selected[k] : k \in DOMAIN Selected}
  BY <1>3 DEF Todo
<1> QED
  BY <1>1, <1>2, <1>3, <1>4, Zenon

\* A list of children.
LEMMA EnterTodo ==
  ASSUME BusOK, ListsTyped, Nested, enumerate_dev_tree, NEW n, n = Len(stack)
  PROVE  /\ n \in Nat \ {0} /\ Len(stack') = n + 1
         /\ DOMAIN stack = 1 .. n /\ DOMAIN stack' = 1 .. n + 1
         /\ \A f \in 1 .. n : stack'[f] = stack[f] /\ Todo(f)' = Todo(f)
         /\ Apart(stack'[n + 1].todo)
         /\ \A c \in Todo(n + 1)' : Child(c, item)
         /\ pc = "children" /\ item \in ItemSet
         /\ pc' = "next" /\ UNCHANGED <<i, opts, item, printed>>
<1> DEFINE list == ls(ChildrenOf(item))
<1>1. /\ n \in Nat \ {0} /\ Len(stack') = n + 1 /\ stack' \in Seq(FrameSet)
      /\ \A k \in 1 .. n : stack'[k] = stack[k]
      /\ pc' = "next" /\ UNCHANGED <<opts, item, printed>>
  BY EnterLists
<1>2. DOMAIN stack = 1 .. n /\ DOMAIN stack' = 1 .. n + 1
  BY <1>1 DEF ListsTyped
<1>3. pc = "children" /\ UNCHANGED i
  BY DEF enumerate_dev_tree
<1>4. item \in ItemSet
  BY <1>3 DEF ListsTyped, Printed
<1>5. stack'[n + 1].todo = list
  <2> DEFINE f == [depth |-> Deeper(top.depth), todo |-> list]
  <2>1. stack' = Append(stack, f)
    BY DEF enumerate_dev_tree
  <2>2. stack'[n + 1] = f
    <3> HIDE DEF f
    <3> QED
      BY <2>1, <1>1, <1>2 DEF ListsTyped
  <2> QED
    BY <2>2
<1>6. Apart(list)
  <2>1. ChildrenOf(item) \in SUBSET Names
    BY DEF ChildrenOf, Names
  <2> QED
    BY <2>1, NamesAreListable, LsApart
<1>7. \A c \in Todo(n + 1)' : Child(c, item)
  <2>1. \A k \in DOMAIN list : Child(list[k], item)
    BY ChildrenItems
  <2>2. Todo(n + 1)' = {list[k] : k \in DOMAIN list}
    BY <1>1, <1>5 DEF Todo
  <2> HIDE DEF list
  <2> QED
    BY <2>1, <2>2
<1>8. \A f \in 1 .. n : Todo(f)' = Todo(f)
  BY <1>1 DEF Todo
<1> QED
  BY <1>1, <1>2, <1>3, <1>4, <1>5, <1>6, <1>7, <1>8

\* What is printed are items.
LEMMA PrintedItems ==
  ASSUME ListsTyped
  PROVE  \A k \in DOMAIN printed : /\ printed[k].item \in ItemSet /\ printed[k].row \in Nat
                                   /\ printed[k].item.dom \in Nat
<1>1. \A k \in DOMAIN printed : printed[k] \in EntrySet
  BY DEF ListsTyped
<1>2. \A e \in EntrySet : e.item \in ItemSet /\ e.row \in Nat
  BY DEF EntrySet, EntryOf
<1>3. \A a \in ItemSet : a.dom \in Nat
  BY ItemRouter, UniverseType, RouterType
<1> QED
  BY <1>1, <1>2, <1>3, Zenon

\* Printing adds the item at hand.
LEMMA PrintsItem ==
  ASSUME ListsTyped, Prints, NEW p, p = Len(printed)
  PROVE  /\ p \in Nat /\ DOMAIN printed = 1 .. p /\ DOMAIN printed' = 1 .. p + 1
         /\ \A k \in 1 .. p + 1 : k \in 1 .. p \/ k = p + 1
         /\ \A k \in 1 .. p : printed'[k] = printed[k]
         /\ printed'[p + 1].item = item /\ printed'[p + 1].row = Len(stack) - 1
         /\ pc \in AtItem /\ pc' \in Printed
         /\ item \in ItemSet /\ Len(stack) \in Nat \ {0} /\ DOMAIN stack = 1 .. Len(stack)
         /\ UNCHANGED <<i, opts, stack, item>>
<1>1. /\ p \in Nat /\ DOMAIN printed = 1 .. p
      /\ DOMAIN printed' = 1 .. p + 1 /\ printed'[p + 1] = EntryOf(item, Len(stack) - 1)
      /\ \A k \in 1 .. p : printed'[k] = printed[k]
  BY Added DEF Prints
<1>2. pc = "header" /\ pc' \in Printed /\ UNCHANGED <<i, opts, stack, item>>
  BY DEF Prints, Header, Printed
<1>3. item \in ItemSet /\ stack # <<>> /\ stack \in Seq(FrameSet)
  BY <1>2 DEF ListsTyped, AtItem
<1>4. Len(stack) \in Nat \ {0} /\ DOMAIN stack = 1 .. Len(stack)
  BY <1>3
<1>5. \A k \in 1 .. p + 1 : k \in 1 .. p \/ k = p + 1
  BY <1>1
<1> QED
  BY <1>1, <1>2, <1>3, <1>4, <1>5 DEF AtItem, EntryOf

-----------------------------------------------------------------------------
(* The invariant is inductive *)

\* Begun is preserved: the lists are made again only for another domain.
LEMMA BegunStep ==
  ASSUME IInv, OnceInv, [Next]_vars, pc \notin Early
  PROVE  Begun'
<1>1. ListsTyped /\ BusOK /\ Seen /\ Nested /\ Begun
  BY DEF IInv, OnceInv
<1>2. UNCHANGED opts /\ Sweeping' = Sweeping
  BY OnceCases, RowsStay
<1>3. CASE Still
  BY <1>1, <1>2, <1>3 DEF Still, Begun
<1>4. CASE NextDomain
  BY <1>2, <1>4 DEF NextDomain, Goto, Sweeping, Begun, Early
<1>5. CASE Ls \/ NextName \/ Return \/ Prints \/ enumerate_dev_tree
  <2>1. pc' \in AtItem \cup Printed \cup {"next"}
    BY <1>5 DEF Ls, NextName, Return, Prints, enumerate_dev_tree, Goto, AtItem, Printed
  <2> QED
    BY <2>1 DEF Begun, Early, AtItem, Printed
<1> QED
  BY <1>3, <1>4, <1>5, OnceCases

\* Swept is preserved: the domain at hand changes when its lists are done.
LEMMA SweptStep ==
  ASSUME IInv, OnceInv, [Next]_vars, pc \notin Early
  PROVE  Swept'
<1>1. ListsTyped /\ BusOK /\ Seen /\ Nested /\ Swept
  BY DEF IInv, OnceInv
<1>2. UNCHANGED opts /\ Sweeping' = Sweeping
  BY OnceCases, RowsStay
<1>3. SUFFICES ASSUME Sweeping
               PROVE  /\ i' \in Nat
                      /\ \A k \in DOMAIN printed' : printed'[k].item.dom <= i'
                      /\ pc' = "ls" => \A k \in DOMAIN printed' : printed'[k].item.dom < i'
                      /\ \A f \in DOMAIN stack' : \A a \in Todo(f)' : a.dom = i'
                      /\ pc' \in AtItem \cup Printed => item'.dom = i'
  BY <1>2 DEF Swept
<1>4. /\ i \in Nat
      /\ \A k \in DOMAIN printed : printed[k].item.dom <= i
      /\ pc = "ls" => \A k \in DOMAIN printed : printed[k].item.dom < i
      /\ \A f \in DOMAIN stack : \A a \in Todo(f) : a.dom = i
      /\ pc \in AtItem \cup Printed => item.dom = i
  BY <1>1, <1>3 DEF Swept
<1>5. Still \/ NextDomain \/ NextName \/ Return \/ Prints =>
        /\ DOMAIN stack' \subseteq DOMAIN stack
        /\ \A f \in DOMAIN stack' : Todo(f)' \subseteq Todo(f)
  BY <1>1, FramesShrink
<1>6. CASE Still
  BY <1>4, <1>5, <1>6 DEF Still
<1>7. CASE NextDomain
  <2>1. /\ i' = i + 1 /\ UNCHANGED printed /\ pc' = "ls" /\ stack' = <<>>
    BY <1>7 DEF NextDomain, NextIndex, Goto
  <2>2. \A k \in DOMAIN printed : printed[k].item.dom \in Nat
    BY <1>1, PrintedItems
  <2>3. \A m, n \in Nat : m <= n => m < n + 1 /\ m <= n + 1
    OBVIOUS
  <2>4. \A k \in DOMAIN printed : printed[k].item.dom < i' /\ printed[k].item.dom <= i'
    BY <1>4, <2>1, <2>2, <2>3
  <2> QED
    BY <1>4, <2>1, <2>4 DEF AtItem, Printed
<1>8. CASE Ls
  BY <1>1, <1>3, <1>4, <1>8, LsTodo DEF AtItem, Printed
<1>9. CASE NextName
  <2>1. /\ Len(stack) \in DOMAIN stack /\ item' \in Todo(Len(stack))
        /\ pc' \in AtItem /\ UNCHANGED <<i, printed>>
    BY <1>1, <1>9, NextNameTakes
  <2> QED
    BY <1>4, <1>5, <1>9, <2>1 DEF AtItem
<1>10. CASE Return
  BY <1>4, <1>5, <1>10 DEF Return, AtItem, Printed
<1>11. CASE Prints
  <2> DEFINE p == Len(printed)
  <2>1. /\ p \in Nat /\ DOMAIN printed = 1 .. p /\ DOMAIN printed' = 1 .. p + 1
        /\ \A k \in 1 .. p + 1 : k \in 1 .. p \/ k = p + 1
        /\ \A k \in 1 .. p : printed'[k] = printed[k]
        /\ printed'[p + 1].item = item
        /\ pc \in AtItem /\ pc' \in Printed /\ UNCHANGED <<i, item>>
    BY <1>1, <1>11, PrintsItem
  <2>2. \A k \in 1 .. p + 1 : printed'[k].item.dom <= i
    BY <1>4, <2>1
  <2> HIDE DEF p
  <2> QED
    BY <1>4, <1>5, <1>11, <2>1, <2>2 DEF AtItem, Printed
<1>12. CASE enumerate_dev_tree
  <2> PICK n : n = Len(stack)
    OBVIOUS
  <2>1. /\ n \in Nat \ {0} /\ DOMAIN stack = 1 .. n /\ DOMAIN stack' = 1 .. n + 1
        /\ \A f \in 1 .. n : Todo(f)' = Todo(f)
        /\ \A c \in Todo(n + 1)' : Child(c, item)
        /\ pc = "children" /\ item \in ItemSet
        /\ pc' = "next" /\ UNCHANGED <<i, opts, item, printed>>
    BY <1>1, <1>12, EnterTodo
  <2>2. \A c : Child(c, item) => c.dom = item.dom
    BY <2>1, ChildRouter
  <2>3. \A f \in 1 .. n + 1 : f \in 1 .. n \/ f = n + 1
    BY <2>1
  <2>4. item.dom = i
    BY <1>4, <2>1 DEF Printed
  <2>5. \A f \in DOMAIN stack' : \A a \in Todo(f)' : a.dom = i
    BY <1>4, <2>1, <2>2, <2>3, <2>4
  <2> QED
    BY <1>4, <2>1, <2>5 DEF AtItem, Printed
<1> QED
  BY <1>6, <1>7, <1>8, <1>9, <1>10, <1>11, <1>12, OnceCases

\* Rows is preserved: a list one row deeper is of routers one port further on.
LEMMA RowsStep ==
  ASSUME IInv, OnceInv, [Next]_vars, pc \notin Early
  PROVE  Rows'
<1>1. ListsTyped /\ BusOK /\ Seen /\ Nested /\ Rows
  BY DEF IInv, OnceInv
<1>2. UNCHANGED opts /\ mode' = mode /\ \A a, row : AtRow(a, row) => AtRow(a, row)'
  BY OnceCases, RowsStay
<1>3. SUFFICES /\ Len(stack') > 1 \/ pc' = "children" => mode = "tree"
               /\ \A k \in DOMAIN printed' : AtRow(printed'[k].item, printed'[k].row)
               /\ \A f \in DOMAIN stack' : \A a \in Todo(f)' : AtRow(a, f - 1)
               /\ pc' \in AtItem => AtRow(item', Len(stack') - 1)
  BY <1>2 DEF Rows
<1>4. /\ Len(stack) > 1 \/ pc = "children" => mode = "tree"
      /\ \A k \in DOMAIN printed : AtRow(printed[k].item, printed[k].row)
      /\ \A f \in DOMAIN stack : \A a \in Todo(f) : AtRow(a, f - 1)
      /\ pc \in AtItem => AtRow(item, Len(stack) - 1)
  BY <1>1 DEF Rows
<1>5. Still \/ NextDomain \/ NextName \/ Return \/ Prints =>
        /\ DOMAIN stack' \subseteq DOMAIN stack
        /\ Len(stack') <= Len(stack)
        /\ \A f \in DOMAIN stack' : Todo(f)' \subseteq Todo(f)
  BY <1>1, FramesShrink
<1>6. CASE Still
  BY <1>4, <1>5, <1>6 DEF Still
<1>7. CASE NextDomain
  BY <1>4, <1>5, <1>7 DEF NextDomain, Goto, AtItem
<1>8. CASE Ls
  <2>1. 1 - 1 = 0 /\ ~(1 > 1)
    OBVIOUS
  <2> QED
    BY <1>1, <1>4, <1>8, <2>1, LsTodo DEF AtItem
<1>9. CASE NextName
  <2>1. /\ Len(stack) \in DOMAIN stack /\ item' \in Todo(Len(stack)) /\ Len(stack') = Len(stack)
        /\ pc' \in AtItem /\ UNCHANGED <<i, printed>>
    BY <1>1, <1>9, NextNameTakes
  <2>2. pc' # "children"
    BY <2>1 DEF AtItem
  <2> QED
    BY <1>4, <1>5, <1>9, <2>1, <2>2
<1>10. CASE Return
  <2>1. Len(stack) \in Nat \ {0} /\ Len(stack') = Len(stack) - 1 /\ pc' = "next"
        /\ UNCHANGED printed
    BY <1>1, <1>10, ReturnLists
  <2>2. Len(stack') > 1 => Len(stack) > 1
    BY <2>1
  <2> QED
    BY <1>4, <1>5, <1>10, <2>1, <2>2 DEF AtItem
<1>11. CASE Prints
  <2> DEFINE p == Len(printed)
  <2>1. /\ p \in Nat /\ DOMAIN printed = 1 .. p /\ DOMAIN printed' = 1 .. p + 1
        /\ \A k \in 1 .. p + 1 : k \in 1 .. p \/ k = p + 1
        /\ \A k \in 1 .. p : printed'[k] = printed[k]
        /\ printed'[p + 1].item = item /\ printed'[p + 1].row = Len(stack) - 1
        /\ pc \in AtItem /\ UNCHANGED <<stack, item>>
    BY <1>1, <1>11, PrintsItem
  <2>2. pc' \notin AtItem /\ pc' # "children"
    BY <1>11 DEF Prints, AtItem
  <2>3. \A k \in 1 .. p + 1 : AtRow(printed'[k].item, printed'[k].row)
    BY <1>4, <2>1
  <2> HIDE DEF p
  <2> QED
    BY <1>4, <1>5, <1>11, <2>1, <2>2, <2>3
<1>12. CASE enumerate_dev_tree
  <2> PICK n : n = Len(stack)
    OBVIOUS
  <2>1. /\ n \in Nat \ {0} /\ DOMAIN stack = 1 .. n /\ DOMAIN stack' = 1 .. n + 1
        /\ \A f \in 1 .. n : Todo(f)' = Todo(f)
        /\ \A c \in Todo(n + 1)' : Child(c, item)
        /\ pc = "children" /\ item \in ItemSet
        /\ pc' = "next" /\ UNCHANGED <<i, opts, item, printed>>
    BY <1>1, <1>12, EnterTodo
  <2>2. AtRow(item, n - 1)
    <3>1. Len(printed) > 0 /\ printed[Len(printed)] = EntryOf(item, n - 1)
      BY <1>1, <2>1 DEF Nested, Printed
    <3>2. Len(printed) \in DOMAIN printed
      BY <1>1, <3>1 DEF ListsTyped
    <3> QED
      BY <1>4, <3>1, <3>2 DEF EntryOf
  <2>3. n - 1 \in Nat /\ n - 1 + 1 = n /\ n + 1 - 1 = n
    BY <2>1
  <2>4. \A c \in Todo(n + 1)' : AtRow(c, n + 1 - 1)
    BY <2>1, <2>2, <2>3, RowBelow
  <2>5. \A f \in 1 .. n + 1 : f \in 1 .. n \/ f = n + 1
    BY <2>1
  <2>6. \A f \in DOMAIN stack' : \A a \in Todo(f)' : AtRow(a, f - 1)
    BY <1>4, <2>1, <2>4, <2>5
  <2> QED
    BY <1>4, <2>1, <2>6 DEF AtItem
<1> QED
  BY <1>6, <1>7, <1>8, <1>9, <1>10, <1>11, <1>12, OnceCases

\* Two lists of a tree hold nothing in common: they are of different rows.
LEMMA RowsApart ==
  ASSUME mode = "tree", NEW a \in Decimals, NEW d \in Int, NEW e \in Int,
         AtRow(a, d), AtRow(a, e)
  PROVE  d = e
<1>1. PICK r \in Universe : Decimal(r) /\ NameOf(r) = RouterName(a)
  BY DEF Decimals, DecimalNames
<1>2. Len(r.route) - d = Base /\ Len(r.route) - e = Base
  BY <1>1, Zenon DEF AtRow
<1>3. Len(r.route) \in Nat
  BY UniverseType, RouterType
<1>4. \A n \in Nat : n - d = n - e => d = e
  OBVIOUS
<1> QED
  BY <1>2, <1>3, <1>4, Zenon

\* The children of the router printed last have not been printed: their row would
\* be below this router, which has not been printed before.
LEMMA ChildrenAreNew ==
  ASSUME IInv, Rows, Once, pc = "children",
         NEW c \in Decimals, Child(c, item)
  PROVE  ~Shown(c)
<1>1. ListsTyped /\ Nested /\ TreeShape
  BY DEF IInv
<1>2. item \in ItemSet /\ stack \in Seq(FrameSet) /\ stack # <<>>
  BY <1>1 DEF ListsTyped, Printed
<1> PICK n \in Nat \ {0} : n = Len(stack)
  BY <1>2
<1> PICK p \in Nat : p = Len(printed) /\ DOMAIN printed = 1 .. p
  BY <1>1 DEF ListsTyped
<1>3. p \in DOMAIN printed /\ printed[p].item = item /\ printed[p].row = n - 1
  <2>1. p > 0 /\ printed[p] = EntryOf(item, n - 1)
    BY <1>1 DEF Nested, Printed
  <2> QED
    BY <2>1 DEF EntryOf
<1>4. PICK r \in Universe : r.route # <<>> /\ NameOf(r) = c /\ NameOf(Parent(r)) = item
  BY DEF Child
<1>5. \A s \in Universe : NameOf(s) = c => s = r
  BY <1>4, UniverseType, NamesTellRouters, Zenon
<1>6. PICK s, q \in Universe :
        /\ NameOf(s) = c /\ RouterName(c) = c
        /\ NameOf(q) = item /\ RouterName(item) = item
        /\ Decimal(s) => Decimal(q)
  BY <1>2, ChildRouter
<1>7. Decimal(r) /\ s = r
  BY <1>5, <1>6 DEF Decimals, DecimalNames
<1>8. item \in Decimals
  BY <1>2, <1>6, <1>7 DEF Decimals, DecimalNames
<1>9. mode = "tree" /\ AtRow(item, n - 1)
  BY <1>3 DEF Rows
<1>10. AtRow(c, n)
  <2>1. n - 1 \in Nat /\ n - 1 + 1 = n
    OBVIOUS
  <2> QED
    BY <1>2, <1>9, <2>1, RowBelow
<1>11. SUFFICES ASSUME NEW k \in DOMAIN printed, printed[k].item = c PROVE FALSE
  BY DEF Shown
<1>12. printed[k].row = n
  <2>1. AtRow(c, printed[k].row)
    BY <1>11 DEF Rows
  <2>2. printed[k].row \in Nat
    BY <1>1, PrintedItems
  <2> QED
    BY <1>9, <1>10, <2>1, <2>2, RowsApart
<1>13. PICK m \in 1 .. k - 1 :
         \E t \in Universe : NameOf(t) = printed[k].item /\ NameOf(Parent(t)) = printed[m].item
  <2>1. k \in 1 .. Len(printed) /\ printed[k].row > 0
    BY <1>11, <1>12
  <2> QED
    BY <1>1, <2>1, Zenon DEF TreeShape
<1>14. printed[m].item = item
  BY <1>4, <1>5, <1>11, <1>13
<1>15. m \in DOMAIN printed /\ m # p
  BY <1>11
<1> QED
  BY <1>3, <1>8, <1>14, <1>15 DEF Once

\* Lists is preserved.
LEMMA ListsStep ==
  ASSUME IInv, OnceInv, [Next]_vars, pc \notin Early
  PROVE  Lists'
<1>1. ListsTyped /\ BusOK /\ Seen /\ Nested /\ Begun /\ Swept /\ Rows /\ Lists /\ Once
  BY DEF IInv, OnceInv
<1>2. SUFFICES /\ \A f \in DOMAIN stack' : Apart(stack'[f].todo)
               /\ \A f \in DOMAIN stack' : \A a \in Todo(f)' \cap Decimals :
                    \A k \in DOMAIN printed' : printed'[k].item # a
               /\ pc' \in AtItem => /\ item' \notin Todo(Len(stack))'
                                    /\ item' \in Decimals =>
                                         \A k \in DOMAIN printed' : printed'[k].item # item'
  BY DEF Lists, Shown, Apart
<1>3. /\ \A f \in DOMAIN stack : Apart(stack[f].todo)
      /\ \A f \in DOMAIN stack : \A a \in Todo(f) \cap Decimals :
           \A k \in DOMAIN printed : printed[k].item # a
      /\ pc \in AtItem => /\ item \notin Todo(Len(stack))
                          /\ item \in Decimals =>
                               \A k \in DOMAIN printed : printed[k].item # item
  BY <1>1 DEF Lists, Shown
<1>4. Still \/ NextDomain \/ NextName \/ Return \/ Prints =>
        /\ DOMAIN stack' \subseteq DOMAIN stack
        /\ \A f \in DOMAIN stack' : Todo(f)' \subseteq Todo(f)
        /\ \A f \in DOMAIN stack' : Apart(stack'[f].todo)
  BY <1>1, <1>3, FramesShrink
<1>5. CASE Still
  <2>1. UNCHANGED <<stack, printed, item>> /\ (pc' \in AtItem => pc \in AtItem)
    BY <1>5 DEF Still
  <2>2. Todo(Len(stack))' = Todo(Len(stack))
    BY <2>1 DEF Todo
  <2> QED
    BY <1>3, <1>4, <1>5, <2>1, <2>2
<1>6. CASE NextDomain
  BY <1>3, <1>4, <1>6 DEF NextDomain, Goto, AtItem
<1>7. CASE Ls
  <2>1. /\ DOMAIN stack' = {1} /\ Apart(stack'[1].todo)
        /\ \A a \in Todo(1)' : Sweeping => a.dom = i
        /\ pc = "ls" /\ pc' = "next" /\ UNCHANGED printed
    BY <1>1, <1>7, LsTodo
  <2>2. ASSUME NEW a \in Todo(1)', NEW k \in DOMAIN printed PROVE printed[k].item # a
    <3>1. Sweeping
      BY <1>1, <2>1, <2>2 DEF Begun
    <3>2. printed[k].item.dom < i /\ i \in Nat
      BY <1>1, <2>1, <3>1 DEF Swept
    <3> QED
      BY <2>1, <3>1, <3>2
  <2> QED
    BY <2>1, <2>2 DEF AtItem
<1>8. CASE NextName
  <2>1. /\ Len(stack) \in DOMAIN stack /\ Len(stack') = Len(stack)
        /\ item' \in Todo(Len(stack)) /\ UNCHANGED printed
        /\ item' \notin Todo(Len(stack))'
    BY <1>1, <1>3, <1>8, NextNameTakes
  <2> QED
    BY <1>3, <1>4, <1>8, <2>1
<1>9. CASE Return
  BY <1>3, <1>4, <1>9 DEF Return, AtItem
<1>10. CASE Prints
  <2> PICK p : p = Len(printed)
    OBVIOUS
  <2> PICK n : n = Len(stack)
    OBVIOUS
  <2>1. /\ DOMAIN printed = 1 .. p /\ DOMAIN printed' = 1 .. p + 1
        /\ \A k \in 1 .. p + 1 : k \in 1 .. p \/ k = p + 1
        /\ \A k \in 1 .. p : printed'[k] = printed[k]
        /\ printed'[p + 1].item = item
        /\ pc \in AtItem /\ UNCHANGED <<stack, item>>
        /\ n \in Nat \ {0} /\ DOMAIN stack = 1 .. n
    BY <1>1, <1>10, PrintsItem
  <2>2. pc' \notin AtItem
    BY <1>10 DEF Prints, AtItem
  <2>3. ASSUME NEW f \in DOMAIN stack, NEW a \in Todo(f) \cap Decimals PROVE a # item
    <3>1. CASE f = n
      BY <1>3, <2>1, <3>1
    <3>2. CASE f # n
      <4>1. n > 1
        BY <2>1, <3>2
      <4>2. mode = "tree" /\ AtRow(a, f - 1) /\ AtRow(item, n - 1)
        BY <1>1, <2>1, <4>1 DEF Rows
      <4>3. f - 1 \in Int /\ n - 1 \in Int /\ f - 1 # n - 1
        BY <2>1, <3>2
      <4> QED
        BY <4>2, <4>3, RowsApart
    <3> QED
      BY <3>1, <3>2
  <2>4. \A f \in DOMAIN stack' : \A a \in Todo(f)' \cap Decimals :
          \A k \in 1 .. p + 1 : printed'[k].item # a
    <3>1. SUFFICES ASSUME NEW f \in DOMAIN stack', NEW a \in Todo(f)' \cap Decimals,
                          NEW k \in 1 .. p + 1
                   PROVE  printed'[k].item # a
      OBVIOUS
    <3>2. f \in DOMAIN stack /\ a \in Todo(f) \cap Decimals
      BY <1>4, <1>10
    <3> QED
      BY <1>3, <2>1, <2>3, <3>2
  <2> QED
    BY <1>4, <1>10, <2>1, <2>2, <2>4
<1>11. CASE enumerate_dev_tree
  <2> PICK n : n = Len(stack)
    OBVIOUS
  <2>1. /\ DOMAIN stack = 1 .. n /\ DOMAIN stack' = 1 .. n + 1 /\ n \in Nat \ {0}
        /\ \A f \in 1 .. n : stack'[f] = stack[f] /\ Todo(f)' = Todo(f)
        /\ Apart(stack'[n + 1].todo)
        /\ \A c \in Todo(n + 1)' : Child(c, item)
        /\ pc = "children" /\ pc' = "next" /\ UNCHANGED printed
    BY <1>1, <1>11, EnterTodo
  <2>2. \A f \in 1 .. n + 1 : f \in 1 .. n \/ f = n + 1
    BY <2>1
  <2>3. \A c \in Todo(n + 1)' \cap Decimals : ~Shown(c)
    BY <1>1, <2>1, ChildrenAreNew
  <2>4. \A f \in DOMAIN stack' : \A a \in Todo(f)' \cap Decimals :
          \A k \in DOMAIN printed : printed[k].item # a
    BY <1>3, <2>1, <2>2, <2>3 DEF Shown
  <2>5. \A f \in DOMAIN stack' : Apart(stack'[f].todo)
    BY <1>3, <2>1, <2>2
  <2> QED
    BY <2>1, <2>4, <2>5 DEF AtItem
<1> QED
  BY <1>5, <1>6, <1>7, <1>8, <1>9, <1>10, <1>11, OnceCases

\* Once is preserved: only what has not been printed is.
LEMMA OnceStep ==
  ASSUME IInv, OnceInv, [Next]_vars, pc \notin Early
  PROVE  Once'
<1>1. ListsTyped /\ Lists /\ Once
  BY DEF IInv, OnceInv
<1>2. CASE UNCHANGED printed
  BY <1>1, <1>2 DEF Once
<1>3. CASE Prints
  <2> PICK p : p = Len(printed)
    OBVIOUS
  <2>1. /\ DOMAIN printed = 1 .. p /\ DOMAIN printed' = 1 .. p + 1
        /\ \A k \in 1 .. p + 1 : k \in 1 .. p \/ k = p + 1
        /\ \A k \in 1 .. p : printed'[k] = printed[k]
        /\ printed'[p + 1].item = item
        /\ pc \in AtItem
    BY <1>1, <1>3, PrintsItem
  <2>2. item \in Decimals => \A k \in 1 .. p : printed[k].item # item
    BY <1>1, <2>1 DEF Lists, Shown
  <2>3. \A j, k \in 1 .. p :
          printed[j].item = printed[k].item /\ printed[j].item \in Decimals => j = k
    BY <1>1, <2>1 DEF Once
  <2>4. ASSUME NEW j \in 1 .. p + 1, NEW k \in 1 .. p + 1,
               printed'[j].item = printed'[k].item, printed'[j].item \in Decimals
        PROVE  j = k
    BY <2>1, <2>2, <2>3, <2>4
  <2> QED
    BY <2>1, <2>4 DEF Once
<1>4. Prints \/ UNCHANGED printed
  BY OnceCases DEF Still, NextDomain, Ls, NextName, Return, enumerate_dev_tree
<1> QED
  BY <1>2, <1>3, <1>4

\* OnceInv for every bus, command line and course of changes.
THEOREM OnceInvariant == Spec => []OnceInv
<1>1. IInv /\ OnceInv /\ [Next]_vars => OnceInv'
  <2>1. CASE pc \in Early
    BY <2>1, EarlyStep DEF OnceInv
  <2>2. CASE pc \notin Early
    BY <2>2, BegunStep, SweptStep, RowsStep, ListsStep, OnceStep DEF OnceInv
  <2> QED
    BY <2>1, <2>2
<1> QED
  BY <1>1, Invariant, OnceInit, PTL DEF Spec

\* EachOnce for every bus, command line and course of changes: lstbt shows no
\* router with a decimal name twice.
THEOREM ShownOnce == Spec => []EachOnce
<1>1. ASSUME IInv, OnceInv PROVE EachOnce
  <2>1. ListsTyped /\ Once
    BY <1>1 DEF IInv, OnceInv
  <2>2. DOMAIN printed = 1 .. Len(printed)
    BY <2>1 DEF ListsTyped
  <2>3. ASSUME NEW j \in 1 .. Len(printed), NEW k \in 1 .. Len(printed),
               j # k, printed[j].item = printed[k].item,
               NEW r \in Universe, Decimal(r), NameOf(r) = RouterName(printed[j].item)
        PROVE  FALSE
    <3>1. printed[j].item \in Decimals
      BY <2>1, <2>2, <2>3, PrintedItems DEF Decimals, DecimalNames
    <3> QED
      BY <2>1, <2>2, <2>3, <3>1 DEF Once
  <2> QED
    BY <2>3 DEF EachOnce
<1> QED
  BY <1>1, Invariant, OnceInvariant, PTL

-----------------------------------------------------------------------------
(* Types *)

Locations == {"main", "count", "validate", "device", "ls", "next", "present", "header",
             "ids", "generation", "auth", "children", "exit", "crash", "overrun"}

\* TypeOK but for the lists.
Scalars ==
  /\ pc \in Locations
  /\ domains \in Nat /\ i \in Nat
  /\ found \in BOOLEAN /\ status \in {0, 1}
  /\ changes \in 0 .. MaxChanges

\* The options have their types, before and after they are read.
LEMMA OptsTyped == OptsInv => opts \in OptsSet
BY NothingParsed, ParseReads DEF OptsInv

\* The scalars have their types at the start.
LEMMA ScalarsInit == Init => Scalars
<1> SUFFICES ASSUME Init PROVE Scalars
  OBVIOUS
<1>1. pc = "main" /\ domains = 0 /\ i = 0 /\ found = FALSE /\ status = 0 /\ changes = 0
  BY DEF Init
<1>2. 0 \in 0 .. MaxChanges
  BY ChangesAssumption
<1> QED
  BY <1>1, <1>2 DEF Scalars, Locations

\* An accepted domain is a number.
LEMMA DomainGiven ==
  ASSUME opts \in OptsSet, validate_args, Given(opts.D)
  PROVE  opts.D.num \in Nat
<1>1. opts.D \in Argument
  <2>1. opts.D \in ValueSet
    BY Zenon DEF OptsSet
  <2> QED
    BY <2>1, Zenon DEF ValueSet, Given
<1>2. opts.D.num \in Int
  BY <1>1, Zenon DEF Argument
<1>3. opts.D.num >= 0
  BY DEF validate_args, IsNumBelow, Given
<1> QED
  BY <1>2, <1>3

\* Counted domains are a number.
LEMMA DomainsCounted == BusOK => total_domains \in Nat
<1> SUFFICES ASSUME BusOK PROVE total_domains \in Nat
  OBVIOUS
<1>1. IsFiniteSet({r.dom : r \in present})
  <2> DEFINE f == [r \in present |-> r.dom]
  <2>1. f \in Surjection(present, {r.dom : r \in present})
    BY DEF Surjection
  <2> QED
    BY <2>1, FS_Surjection DEF BusOK
<1> QED
  BY <1>1, FS_CardinalityType DEF total_domains

\* The scalars keep their types.
LEMMA ScalarsStep ==
  ASSUME BusOK, opts \in OptsSet, Scalars, [Next]_vars
  PROVE  Scalars'
<1> USE DEF Scalars, Locations
<1>1. CASE main \/ Overrun
  BY <1>1 DEF main, Overrun, Goto, Exit, busVars, outcome
<1>2. CASE Count
  BY <1>2, DomainsCounted DEF Count, Goto, Exit, busVars, outcome
<1>3. CASE Validate
  BY <1>3, DomainGiven DEF Validate, Goto, Exit, busVars, outcome
<1>4. CASE Device \/ Ls \/ NextName \/ Return \/ Finish \/ LinkFound \/ enumerate_dev_tree
  BY <1>4 DEF Device, Ls, NextName, Return, Finish, LinkFound, enumerate_dev_tree,
     Goto, Exit, busVars, outcome
<1>5. CASE NextDomain
  BY <1>5 DEF NextDomain, NextIndex, Goto, busVars, outcome
<1>6. CASE Present \/ Header
  BY <1>6 DEF Present, Header, Goto, busVars, outcome
<1>7. CASE Reading
  <2>1. pc' \in Locations
    BY <1>7, ReadingSteps DEF Printed
  <2> QED
    BY <1>7, <2>1 DEF Reading, dump_vdid, dump_generation, dump_auth_sts, busVars, outcome
<1>8. CASE Bus
  BY <1>8, ChangesAssumption DEF Bus, Plug, Unplug, progVars, outcome
<1>9. CASE UNCHANGED vars
  BY <1>9 DEF vars, progVars, busVars, outcome
<1> QED
  BY <1>1, <1>2, <1>3, <1>4, <1>5, <1>6, <1>7, <1>8, <1>9
  DEF Next, Program, About, Reading

\* Rows are not deeper than routes.
LEMMA RowsBound ==
  ASSUME ListsTyped, Rows
  PROVE  \A k \in 1 .. Len(printed) : printed[k].row \in 0 .. MaxDepthPossible
<1>1. ASSUME NEW k \in 1 .. Len(printed) PROVE printed[k].row \in 0 .. MaxDepthPossible
  <2>1. PICK a \in ItemSet, d \in Nat : printed[k] = EntryOf(a, d)
    <3>1. printed[k] \in EntrySet
      BY ElementAt, Zenon DEF ListsTyped
    <3> QED
      BY <3>1 DEF EntrySet
  <2>2. printed[k].item = a /\ printed[k].row = d
    BY <2>1 DEF EntryOf
  <2>3. PICK q \in Universe : NameOf(q) = RouterName(a)
    BY ItemRouter
  <2>4. d <= Len(q.route)
    <3>1. k \in DOMAIN printed
      BY DEF ListsTyped
    <3> QED
      BY <2>2, <2>3, <3>1, Zenon DEF Rows, AtRow
  <2>5. Len(q.route) \in Nat /\ Len(q.route) < MaxDepthPossible
    BY UniverseType, RouterType DEF IsRouter
  <2>6. \A m, n \in Nat : m <= n /\ n < 8 => m \in 0 .. 8
    OBVIOUS
  <2> QED
    BY <2>2, <2>4, <2>5, <2>6, Zenon DEF MaxDepthPossible
<1> QED
  BY <1>1

\* TypeOK: the variables have their types for all constants; no row of a tree is
\* deeper than a topology ID allows.
THEOREM TypeCorrect == Spec => []TypeOK
<1>1. IInv /\ OptsInv /\ Scalars /\ [Next]_vars => Scalars'
  BY OptsTyped, ScalarsStep DEF IInv
<1>2. IInv /\ OnceInv /\ OptsInv /\ Scalars => TypeOK
  <2> SUFFICES ASSUME IInv, OnceInv, OptsInv, Scalars PROVE TypeOK
    OBVIOUS
  <2>1. opts.r \in {0, 1} /\ opts.t \in {0, 1} /\ opts.v \in 0 .. VerboseWraps - 1
    BY OptsTyped, Zenon DEF OptsSet
  <2>2. \A k \in 1 .. Len(stack) : stack[k].depth = k - 1
    <3>1. DOMAIN stack = 1 .. Len(stack)
      BY DEF IInv, ListsTyped
    <3> QED
      BY <3>1, Zenon DEF IInv, Nested
  <2>3. \A k \in 1 .. Len(printed) : printed[k].row \in 0 .. MaxDepthPossible
    BY RowsBound DEF IInv, OnceInv
  <2>4. argv \in CommandLines /\ present \subseteq Universe
    BY DEF IInv, BusOK, OptsInv
  <2> QED
    BY <2>1, <2>2, <2>3, <2>4, Zenon DEF Scalars, Locations, TypeOK
<1> QED
  BY ScalarsInit, <1>1, <1>2, Invariant, OnceInvariant, OptsInvariant, PTL DEF Spec

-----------------------------------------------------------------------------
(* An undisturbed listing: names *)

\* The characters of a decimal name are decimal digits.
LEMMA DecimalDigits ==
  ASSUME NEW r, IsRouter(r), Decimal(r)
  PROVE  \A k \in 1 .. Len(NameOf(r).hex) : NameOf(r).hex[k] <= 9
<1> DEFINE b == Bytes(r.route)
           n == Len(r.route)
<1>1. r.route \in Seq(Port) /\ n \in Nat
  BY RouterType
<1>2. b \in Seq(Nat) /\ Len(b) = 2 * n
  BY <1>1, BytesType
<1>3. ASSUME NEW k \in 1 .. 2 * n PROVE b[k] <= 9
  <2> DEFINE p == r.route[n - Hop(k)]
  <2>1. n - Hop(k) \in 1 .. n
    BY <1>1, Hops
  <2>2. p \in Port /\ p <= 9
    BY <1>1, <2>1 DEF Decimal
  <2>3. Upper(p) = 0 /\ Lower(p) = p
    BY <2>2, Digits
  <2>4. b[k] = IF IsUpper(k) THEN Upper(p) ELSE Lower(p)
    BY CharacterAt
  <2> HIDE DEF p, b
  <2> QED
    BY <2>2, <2>3, <2>4
<1>4. CASE r.route = <<>>
  <2>1. NameOf(r).hex = <<0>>
    BY <1>4 DEF NameOf, Name, Hex
  <2> QED
    BY <2>1
<1>5. CASE r.route # <<>>
  <2>1. NameOf(r).hex = IF b[1] = 0 THEN Tail(b) ELSE b
    BY <1>5 DEF NameOf, Name, Hex
  <2>2. 1 \in 1 .. Len(b)
    BY <1>1, <1>2, <1>5
  <2>3. \A t \in Seq(Nat) : 1 \in 1 .. Len(t) =>
          \A k \in 1 .. Len(Tail(t)) : k + 1 \in 1 .. Len(t) /\ Tail(t)[k] = t[k + 1]
    OBVIOUS
  <2> HIDE DEF b, n
  <2> QED
    BY <1>2, <1>3, <2>1, <2>2, <2>3, Zenon
<1> QED
  BY <1>4, <1>5

\* A decimal name has the form of those of its domain, and of no other.
LEMMA DecimalFormat ==
  ASSUME NEW r, IsRouter(r), Decimal(r), NEW d
  PROVE  is_router_format(NameOf(r), d) <=> r.dom = d
BY DecimalDigits, NameType, Zenon DEF is_router_format

\* A decimal name tells a host router from others, and the depth.
LEMMA DecimalDepth ==
  ASSUME NEW r, IsRouter(r), Decimal(r)
  PROVE  /\ is_host_router(NameOf(r)) <=> r.route = <<>>
         /\ \A d \in Nat : is_router_depth(NameOf(r), d) <=> Len(r.route) = d
<1> DEFINE n == Len(r.route)
           h == NameOf(r).hex
<1>1. r.route \in Seq(Port) /\ n \in Nat /\ NameOf(r).dom < 10
  BY RouterType, NameType DEF Decimal
<1>2. CASE r.route = <<>>
  <2>1. h = <<0>> /\ n = 0
    BY <1>2 DEF NameOf, Name, Hex
  <2>2. is_host_router(NameOf(r))
    BY <2>1 DEF is_host_router
  <2> QED
    BY <1>2, <2>1, <2>2 DEF is_router_depth
<1>3. CASE r.route # <<>>
  <2>1. Len(h) = 2 * n - 1 /\ h[Len(h)] = r.route[1] /\ n # 0
    BY <1>1, <1>3, DecimalName
  <2>2. r.route[1] # 0
    <3>1. r.route[1] \in Port
      BY <1>1, <1>3
    <3> QED
      BY <3>1 DEF Port
  <2>3. ~is_host_router(NameOf(r))
    BY <2>1, <2>2 DEF is_host_router
  <2>4. strlen(NameOf(r)) = 1 + 1 + Len(h)
    BY <1>1, Zenon DEF strlen, DomainLen
  <2>5. ASSUME NEW d \in Nat PROVE is_router_depth(NameOf(r), d) <=> n = d
    <3>1. CASE d = 0
      BY <2>1, <2>3, <3>1 DEF is_router_depth
    <3>2. CASE d # 0
      <4>1. strlen(NameOf(r)) = 2 * n + 1 /\ router_len_in_depth(d) = 2 * d + 1
        BY <1>1, <2>1, <2>4, <3>2 DEF router_len_in_depth
      <4>2. is_router_depth(NameOf(r), d) <=> strlen(NameOf(r)) = router_len_in_depth(d)
        BY <2>3, <3>2, Zenon DEF is_router_depth
      <4>3. 2 * n + 1 = 2 * d + 1 <=> n = d
        BY <1>1
      <4> QED
        BY <4>1, <4>2, <4>3, Zenon
    <3> QED
      BY <3>1, <3>2
  <2> QED
    BY <1>3, <2>3, <2>5
<1> QED
  BY <1>2, <1>3
-----------------------------------------------------------------------------
(* Routes *)

\* A route is a prefix of itself and of longer ones, and of the same length only of
\* itself.
LEMMA PrefixesOf ==
  ASSUME NEW s \in Seq(Port), NEW t \in Seq(Port)
  PROVE  /\ IsPrefix(s, s)
         /\ IsPrefix(s, t) => Len(s) \in Nat /\ Len(t) \in Nat /\ Len(s) <= Len(t)
         /\ IsPrefix(s, t) /\ Len(s) = Len(t) => s = t
         /\ t # <<>> => (IsPrefix(s, Front(t)) => IsPrefix(s, t))
         /\ t # <<>> => (IsPrefix(s, t) /\ Len(s) # Len(t) => IsPrefix(s, Front(t)))
<1>1. Len(s) \in Nat /\ Len(t) \in Nat /\ Len(s) <= Len(s)
  OBVIOUS
<1>2. SubSeq(s, 1, Len(s)) = s /\ SubSeq(t, 1, Len(t)) = t
  OBVIOUS
<1>3. IsPrefix(s, s)
  BY <1>1, Zenon DEF IsPrefix
<1>4. IsPrefix(s, t) /\ Len(s) = Len(t) => s = t
  BY <1>2, Zenon DEF IsPrefix
<1>5. ASSUME t # <<>>
      PROVE  /\ IsPrefix(s, Front(t)) => IsPrefix(s, t)
             /\ IsPrefix(s, t) /\ Len(s) # Len(t) => IsPrefix(s, Front(t))
  <2> DEFINE u == Front(t)
             m == Len(s)
  <2>1. /\ u \in Seq(Port) /\ Len(u) = Len(t) - 1 /\ Len(t) \in Nat
        /\ \A k \in 1 .. Len(u) : u[k] = t[k]
    BY <1>5, ShorterRoute
  <2>2. ASSUME m <= Len(u) PROVE SubSeq(t, 1, m) = SubSeq(u, 1, m)
    <3>1. m <= Len(t) /\ m \in Nat
      BY <2>1, <2>2
    <3>2. \A x \in Seq(Port) : m <= Len(x) =>
            SubSeq(x, 1, m) = [k \in 1 .. m |-> x[k]]
      BY <3>1
    <3>3. \A k \in 1 .. m : u[k] = t[k]
      BY <2>1, <2>2, <3>1
    <3> HIDE DEF u, m
    <3>4. [k \in 1 .. m |-> t[k]] = [k \in 1 .. m |-> u[k]]
      BY <3>3, Zenon
    <3> QED
      BY <2>1, <2>2, <3>1, <3>2, <3>4, Zenon
  <2>3. m <= Len(u) => m <= Len(t)
    BY <1>1, <2>1
  <2>4. m <= Len(t) /\ m # Len(t) => m <= Len(u)
    BY <1>1, <2>1
  <2> HIDE DEF u
  <2> QED
    BY <2>2, <2>3, <2>4, Zenon DEF IsPrefix, u
<1> QED
  BY <1>1, <1>3, <1>4, <1>5, Zenon DEF IsPrefix

-----------------------------------------------------------------------------
(* An undisturbed listing: the invariant *)

\* Nothing has come or gone.
Fixed == changes = 0 => present \in Populations /\ gone = {}

\* The condition of QuietListing on the bus.
Calm ==
  /\ changes = 0
  /\ \A r \in present : Decimal(r)
  /\ {r.dom : r \in present} = 0 .. total_domains - 1

\* The names first listed for what is asked for.
RootItems == IF mode = "retimer" THEN {RetimerOf(t) : t \in {u \in Retimers : u.at \in Roots}}
             ELSE {NameOf(r) : r \in Roots}

Running == {"ls", "next"} \cup AtItem \cup Printed

\* An item has been printed, is at hand or is to do.
Coming(a) == \/ Shown(a)
             \/ \E f \in DOMAIN stack : a \in Todo(f)
             \/ pc \in AtItem /\ item = a

\* Its domain is still to be listed.
Ahead(a) == IF Sweeping THEN a.dom > i \/ (a.dom = i /\ pc = "ls") ELSE pc = "ls"

\* What has been validated.
Accepted ==
  /\ pc \in {"validate", "device"} \cup Running => domains = total_domains
  /\ pc = "device" => Given(opts.s)
  /\ pc \in {"device"} \cup Running =>
       /\ Given(opts.s) => ~Given(opts.D) /\ ~Given(opts.d)
       /\ Given(opts.D) => i = opts.D.num
       /\ Given(opts.d) => mode # "retimer" /\ opts.d.num \in Nat
  /\ pc \in Running /\ Given(opts.s) => opts.s.name \in Names
  /\ pc = "ls" => stack = <<>>
  /\ pc = "present" => mode = "plain"

\* Only what was asked for is shown, at hand or to do.
SoundSoFar ==
  /\ \A k \in DOMAIN printed : printed[k].item \in Wanted
  /\ \A f \in DOMAIN stack : Todo(f) \subseteq Wanted
  /\ pc \in AtItem \cup Printed => item \in Wanted

\* What is to be listed first has not been passed over.
RootsReached == mode # "verbose" /\ pc \in Running => \A a \in RootItems : Coming(a) \/ Ahead(a)

\* Neither have the routers below one that is shown.
ChildrenReached ==
  mode = "tree" /\ pc \in Running =>
    \A c \in present : c.route # <<>> /\ Shown(NameOf(Parent(c))) =>
      Coming(NameOf(c)) \/ (pc \in Printed /\ item = NameOf(Parent(c)))

QuietInv ==
  Fixed /\ (Calm => Accepted /\ SoundSoFar /\ RootsReached /\ ChildrenReached)

-----------------------------------------------------------------------------
(* The routers on an undisturbed bus *)

\* They are routers, and each has the one it is connected to.
LEMMA FixedBus ==
  ASSUME Fixed, changes = 0
  PROVE  /\ \A r \in present : IsRouter(r)
         /\ \A r \in present : r.route # <<>> => Parent(r) \in present
<1>1. present \in Populations
  BY DEF Fixed
<1>2. ASSUME NEW r \in present PROVE IsRouter(r)
  BY <1>1, PopulationsAssumption
<1>3. ASSUME NEW r \in present, r.route # <<>> PROVE Parent(r) \in present
  <2>1. r.route \in Seq(Port)
    BY <1>2, RouterType
  <2>2. Len(r.route) - 1 \in 0 .. Len(r.route) - 1
    BY <1>3, <2>1
  <2>3. [r EXCEPT !.route = SubSeq(@, 1, Len(r.route) - 1)] \in present
    BY <1>1, <2>2, PopulationsAssumption
  <2> QED
    BY <2>3, Zenon DEF Parent, Front
<1> QED
  BY <1>2, <1>3

\* A name present is that of one router.
LEMMA RouterNamed ==
  ASSUME Fixed, changes = 0, NEW r \in present
  PROVE  /\ Exists(NameOf(r)) /\ NameOf(r) \in Names
         /\ RouterOf(NameOf(r)) = r
<1>1. NameOf(r) \in Names
  BY DEF Names
<1>2. \E q \in present : NameOf(q) = NameOf(r)
  OBVIOUS
<1>3. RouterOf(NameOf(r)) \in present /\ NameOf(RouterOf(NameOf(r))) = NameOf(r)
  BY <1>2, Zenon DEF RouterOf
<1>4. RouterOf(NameOf(r)) = r
  BY <1>3, FixedBus, NamesTellRouters, Zenon
<1> QED
  BY <1>1, <1>4 DEF Exists

-----------------------------------------------------------------------------
(* What is listed first *)

\* What is listed first was asked for.
LEMMA RootsWanted ==
  ASSUME Fixed, changes = 0
  PROVE  RootItems \subseteq Wanted
<1>1. ASSUME NEW r \in Roots PROVE r \in present /\ IsPrefix(r.route, r.route)
  <2>1. r \in present
    BY Zenon DEF Roots
  <2>2. r.route \in Seq(Port)
    BY <2>1, FixedBus, RouterType
  <2> QED
    BY <2>1, <2>2, PrefixesOf
<1>2. CASE mode = "tree"
  <2>1. mode # "retimer"
    BY <1>2
  <2>2. Wanted = {NameOf(r) : r \in {q \in present : \E a \in Roots :
                               a.dom = q.dom /\ IsPrefix(a.route, q.route)}}
    BY <1>2 DEF Wanted
  <2>3. RootItems = {NameOf(r) : r \in Roots}
    BY <2>1, Zenon DEF RootItems
  <2> QED
    BY <1>1, <2>2, <2>3, Zenon
<1>3. CASE mode = "retimer"
  BY <1>3 DEF Wanted, RootItems
<1>4. CASE mode # "tree" /\ mode # "retimer"
  <2>1. Wanted = {NameOf(r) : r \in Roots}
    BY <1>4 DEF Wanted
  <2> QED
    BY <1>4, <2>1, Zenon DEF RootItems
<1> QED
  BY <1>2, <1>3, <1>4

\* The names of a domain, and of a depth in it.
LEMMA InDomainOf ==
  ASSUME Fixed, Calm, Given(opts.d) => opts.d.num \in Nat
  PROVE  /\ \A r \in present :
              NameOf(r) \in InDomain <=>
                r.dom = i /\ (Given(opts.d) => Len(r.route) = opts.d.num)
         /\ \A a \in InDomain : \E r \in present : a = NameOf(r)
<1>1. ASSUME NEW r \in present
      PROVE  NameOf(r) \in InDomain <=>
               r.dom = i /\ (Given(opts.d) => Len(r.route) = opts.d.num)
  <2>1. IsRouter(r) /\ Decimal(r) /\ NameOf(r) \in Names
    BY FixedBus, RouterNamed, Zenon DEF Calm
  <2>2. is_router_format(NameOf(r), i) <=> r.dom = i
    BY <2>1, DecimalFormat
  <2>3. Given(opts.d) =>
          (is_router_depth(NameOf(r), opts.d.num) <=> Len(r.route) = opts.d.num)
    BY <2>1, DecimalDepth
  <2> QED
    BY <2>1, <2>2, <2>3, Zenon DEF InDomain
<1>2. ASSUME NEW a \in InDomain PROVE \E r \in present : a = NameOf(r)
  BY Zenon DEF InDomain, Names
<1> QED
  BY <1>1, <1>2

\* What a sequence contains.
In(s) == {s[k] : k \in DOMAIN s}

\* The list that ls makes has every name.
LEMMA LsListsAll ==
  ASSUME NEW S, Listable(S)
  PROVE  In(ls(S)) = S
<1>1. /\ \A k \in DOMAIN ls(S) : ls(S)[k] \in S
      /\ \A a \in S : \E k \in DOMAIN ls(S) : ls(S)[k] = a
  BY LsLists, Zenon
<1> QED
  BY <1>1, Zenon DEF In

\* Of a domain without a gap, the host router comes first in its tree; there is one.
LEMMA HostFirst ==
  ASSUME BusOK, Fixed, Calm, mode = "tree", ~Given(opts.s), ~Given(opts.d)
  PROVE  In(Selected) = {NameOf(r) : r \in {q \in present : q.dom = i /\ q.route = <<>>}}
<1> DEFINE hosts == {a \in InDomain : is_host_router(a) /\ domain_of_router(a) = i}
           H == {q \in present : q.dom = i /\ q.route = <<>>}
<1>1. Selected = IF hosts = {} THEN <<>> ELSE <<ls(hosts)[1]>>
  BY DEF Selected
<1>2. ASSUME NEW r \in present PROVE NameOf(r) \in hosts <=> r \in H
  <2>1. IsRouter(r) /\ Decimal(r)
    BY FixedBus, Zenon DEF Calm
  <2>2. is_host_router(NameOf(r)) <=> r.route = <<>>
    BY <2>1, DecimalDepth
  <2>3. domain_of_router(NameOf(r)) = r.dom
    BY <2>1, LabelsOfName
  <2>4. NameOf(r) \in InDomain <=> r.dom = i
    BY InDomainOf
  <2> QED
    BY <2>2, <2>3, <2>4, Zenon
<1>3. hosts = {NameOf(r) : r \in H}
  <2>1. \A a \in hosts : \E r \in present : a = NameOf(r)
    BY InDomainOf
  <2>2. \A r \in H : r \in present
    OBVIOUS
  <2> HIDE DEF hosts, H
  <2> QED
    BY <1>2, <2>1, <2>2, Zenon
<1>4. ASSUME NEW q \in H, NEW r \in H PROVE q = r
  <2>1. IsRouter(q) /\ IsRouter(r)
    BY FixedBus DEF Calm
  <2>2. NameOf(q) = NameOf(r)
    BY DEF NameOf
  <2> QED
    BY <2>1, <2>2, NamesTellRouters
<1>5. \A a, b \in hosts : a = b
  <2> HIDE DEF hosts, H
  <2> QED
    BY <1>3, <1>4, Zenon
<1>6. hosts # {} => ls(hosts)[1] \in hosts
  <2>1. hosts \in SUBSET Names
    BY DEF InDomain
  <2>2. Listable(hosts)
    BY <2>1, NamesAreListable
  <2>3. hosts # {} => Cardinality(hosts) # 0
    BY <2>2, FS_EmptySet DEF Listable
  <2> HIDE DEF hosts
  <2>4. hosts # {} => 1 \in DOMAIN ls(hosts)
    BY <2>2, <2>3, LsLists
  <2> QED
    BY <2>2, <2>4, LsApart
<1> DEFINE a == ls(hosts)[1]
<1>7. In(Selected) = hosts
  <2> HIDE DEF hosts, a
  <2>1. CASE hosts = {}
    <3>1. In(<<>>) = {}
      BY DEF In
    <3> QED
      BY <1>1, <2>1, <3>1, Zenon
  <2>2. CASE hosts # {}
    <3>1. In(<<a>>) = {a}
      BY DEF In
    <3>2. Selected = <<a>>
      BY <1>1, <2>2, Zenon DEF a
    <3>3. hosts = {a}
      BY <1>5, <1>6, <2>2, Zenon DEF a
    <3> QED
      BY <3>1, <3>2, <3>3, Zenon
  <2> QED
    BY <2>1, <2>2
<1> QED
  BY <1>3, <1>7, Zenon

\* With the bus undisturbed the first list has what is to be listed first, of the
\* domain at hand if there are several.
LEMMA SelectedAll ==
  ASSUME BusOK, Fixed, Calm, Accepted, pc = "ls"
  PROVE  In(Selected) = {a \in RootItems : Sweeping => a.dom = i}
<1>0. /\ Given(opts.s) => ~Given(opts.D) /\ ~Given(opts.d) /\ opts.s.name \in Names
      /\ Given(opts.D) => i = opts.D.num
      /\ Given(opts.d) => mode # "retimer" /\ opts.d.num \in Nat
  BY DEF Accepted, Running
<1>1. CASE mode = "retimer"
  <2> DEFINE U == {u \in Retimers : u.at \in present
                     /\ IF Given(opts.s)
                        THEN /\ NameOf(u.at) = opts.s.name
                             /\ u.at.dom = domain_of_router(opts.s.name)
                        ELSE u.at.dom = i}
             S == {RetimerOf(t) : t \in U}
  <2>1. Selected = ls(S)
    BY <1>1 DEF Selected
  <2>2. Listable(S)
    <3>1. U \in SUBSET {u \in Retimers : u.at \in present}
      OBVIOUS
    <3> QED
      BY <3>1, RetimersAreListable
  <2>3. In(Selected) = S
    <3> HIDE DEF S
    <3> QED
      BY <2>1, <2>2, LsListsAll, Zenon
  <2>4. RootItems = {RetimerOf(t) : t \in {u \in Retimers : u.at \in Roots}}
    BY <1>1, Zenon DEF RootItems
  <2>5. ASSUME NEW t \in Retimers
        PROVE  t \in U <=> t.at \in Roots /\ (Sweeping => t.at.dom = i)
    <3>1. t.at \in Roots <=> /\ t.at \in present
                             /\ Given(opts.D) => t.at.dom = opts.D.num
                             /\ Given(opts.s) => NameOf(t.at) = opts.s.name
      <4>1. ~Given(opts.d) /\ mode # "tree"
        BY <1>0, <1>1
      <4> QED
        BY <4>1, Zenon DEF Roots
    <3>2. t.at \in present => domain_of_router(NameOf(t.at)) = t.at.dom
      BY LabelsOfName, UniverseType DEF BusOK, Calm
    <3> QED
      BY <1>0, <3>1, <3>2, Zenon DEF Sweeping
  <2>6. \A t : RetimerOf(t).dom = t.at.dom
    BY DEF RetimerOf
  <2> HIDE DEF U
  <2>7. \A t \in U : t \in Retimers
    BY DEF U
  <2> QED
    BY <2>3, <2>4, <2>5, <2>6, <2>7, Zenon
<1>2. CASE mode # "retimer" /\ Given(opts.s)
  <2>1. Selected = <<opts.s.name>>
    BY <1>2 DEF Selected
  <2>2. In(Selected) = {opts.s.name}
    BY <2>1 DEF In
  <2>3. RootItems = {NameOf(r) : r \in Roots}
    BY <1>2, Zenon DEF RootItems
  <2>4. PICK r \in present : NameOf(r) = opts.s.name
    BY <1>0, <1>2, Zenon DEF Names
  <2>5. r \in Roots /\ \A q \in Roots : NameOf(q) = opts.s.name
    BY <1>0, <1>2, <2>4, Zenon DEF Roots
  <2>6. ~Sweeping
    BY <1>2, Zenon DEF Sweeping
  <2> QED
    BY <2>2, <2>3, <2>4, <2>5, <2>6, Zenon
<1>3. CASE mode # "retimer" /\ ~Given(opts.s)
  <2>1. RootItems = {NameOf(r) : r \in Roots}
    BY <1>3, Zenon DEF RootItems
  <2>2. Sweeping <=> ~Given(opts.D)
    BY <1>3, Zenon DEF Sweeping
  <2>3. \A r \in present : NameOf(r).dom = r.dom
    BY DEF NameOf, Name
  <2>4. CASE mode = "tree" /\ ~Given(opts.d)
    <3>1. In(Selected) = {NameOf(r) : r \in {q \in present : q.dom = i /\ q.route = <<>>}}
      BY <1>3, <2>4, HostFirst
    <3>2. \A r : r \in Roots <=> /\ r \in present /\ r.route = <<>>
                                 /\ Given(opts.D) => r.dom = i
      BY <1>0, <1>3, <2>4, Zenon DEF Roots
    <3> QED
      BY <2>1, <2>2, <2>3, <3>1, <3>2, Zenon
  <2>5. CASE ~(mode = "tree" /\ ~Given(opts.d))
    <3>1. Selected = ls(InDomain)
      BY <1>3, <2>5 DEF Selected
    <3>2. InDomain \in SUBSET Names
      BY DEF InDomain
    <3>3. In(Selected) = InDomain
      BY <3>1, <3>2, NamesAreListable, LsListsAll, Zenon
    <3>4. \A r : r \in Roots <=> /\ r \in present
                                 /\ Given(opts.D) => r.dom = i
                                 /\ Given(opts.d) => Len(r.route) = opts.d.num
      BY <1>0, <1>3, <2>5, Zenon DEF Roots
    <3>5. /\ \A r \in present :
               NameOf(r) \in InDomain <=>
                 r.dom = i /\ (Given(opts.d) => Len(r.route) = opts.d.num)
          /\ \A a \in InDomain : \E r \in present : a = NameOf(r)
      BY <1>0, InDomainOf
    <3>6. ASSUME NEW a \in InDomain PROVE a \in RootItems /\ (Sweeping => a.dom = i)
      <4>1. PICK r \in present : a = NameOf(r)
        BY <3>5
      <4>2. r.dom = i /\ r \in Roots
        BY <3>4, <3>5, <4>1, Zenon
      <4> QED
        BY <2>1, <2>3, <4>1, <4>2, Zenon
    <3>7. ASSUME NEW a \in RootItems, Sweeping => a.dom = i PROVE a \in InDomain
      <4>1. PICK r \in Roots : a = NameOf(r)
        BY <2>1, Zenon
      <4>2. r \in present /\ r.dom = i /\ (Given(opts.d) => Len(r.route) = opts.d.num)
        BY <2>2, <2>3, <3>4, <3>7, <4>1, Zenon
      <4> QED
        BY <3>5, <4>1, <4>2, Zenon
    <3> QED
      BY <3>3, <3>6, <3>7, Zenon
  <2> QED
    BY <2>4, <2>5
<1> QED
  BY <1>1, <1>2, <1>3

-----------------------------------------------------------------------------
(* What is listed below a router *)

\* With the bus undisturbed the directory of a router has the routers connected to it.
LEMMA ChildrenAll ==
  ASSUME Fixed, Calm, NEW p \in present
  PROVE  ChildrenOf(NameOf(p)) =
           {NameOf(c) : c \in {q \in present : q.route # <<>> /\ Parent(q) = p}}
<1>1. IsRouter(p) /\ Decimal(p) /\ Exists(NameOf(p)) /\ RouterOf(NameOf(p)) = p
  BY FixedBus, RouterNamed, Zenon DEF Calm
<1>2. domain_of_router(NameOf(p)) = p.dom
  BY <1>1, LabelsOfName
<1>3. ASSUME NEW q \in present, q.route # <<>>
      PROVE  /\ RouterOf(NameOf(p)) = [q EXCEPT !.route = Front(@)]
             /\ is_router_format(NameOf(q), domain_of_router(NameOf(p)))
             <=> Parent(q) = p
  <2>1. IsRouter(q) /\ Decimal(q)
    BY FixedBus, Zenon DEF Calm
  <2>2. Parent(q) = [q EXCEPT !.route = Front(@)]
    BY Zenon DEF Parent
  <2>3. Parent(q).dom = q.dom
    BY <1>3, <2>1, ParentIsRouter
  <2>4. Parent(q) = p => is_router_format(NameOf(q), p.dom)
    BY <2>1, <2>3, DecimalFormat, Zenon
  <2> QED
    BY <1>1, <1>2, <2>2, <2>4, Zenon
<1> QED
  BY <1>1, <1>3, Zenon DEF ChildrenOf

\* What was asked for in a tree.
LEMMA TreeWanted ==
  ASSUME mode = "tree"
  PROVE  Wanted = {NameOf(r) : r \in {q \in present : \E a \in Roots :
                             a.dom = q.dom /\ IsPrefix(a.route, q.route)}}
BY DEF Wanted

\* The route of the router a router is connected to.
LEMMA ParentRoute ==
  ASSUME NEW q, IsRouter(q), q.route # <<>>
  PROVE  Parent(q).route = Front(q.route)
<1>1. q \in [dom : 0 .. 99, route : Seq(Port)]
  BY Zenon DEF IsRouter, Port
<1>2. Front(q.route) \in Seq(Port)
  BY RouterType, ShorterRoute
<1> QED
  BY <1>1, <1>2, ReplaceRoute DEF Parent

\* Routers connected to one that was asked for were asked for.
LEMMA ChildrenWanted ==
  ASSUME Fixed, Calm, mode = "tree", NEW a \in Wanted
  PROVE  ChildrenOf(a) \subseteq Wanted
<1>1. PICK p \in present : a = NameOf(p) /\ \E b \in Roots : b.dom = p.dom /\ IsPrefix(b.route, p.route)
  BY TreeWanted, Zenon
<1>2. PICK b \in Roots : b.dom = p.dom /\ IsPrefix(b.route, p.route)
  BY <1>1
<1>3. ASSUME NEW q \in present, q.route # <<>>, Parent(q) = p PROVE NameOf(q) \in Wanted
  <2>1. b \in present /\ IsRouter(q) /\ IsRouter(b)
    BY FixedBus, Zenon DEF Roots, Calm
  <2>2. q.dom = p.dom
    BY <1>3, <2>1, ParentIsRouter
  <2>3. p.route = Front(q.route)
    BY <1>3, <2>1, ParentRoute
  <2>4. q.route \in Seq(Port) /\ b.route \in Seq(Port)
    BY <2>1, RouterType
  <2>5. IsPrefix(b.route, q.route)
    BY <1>2, <1>3, <2>3, <2>4, PrefixesOf
  <2> QED
    BY <1>2, <2>2, <2>5, TreeWanted, Zenon
<1>4. \A c \in ChildrenOf(a) : \E q \in present : q.route # <<>> /\ Parent(q) = p /\ c = NameOf(q)
  BY <1>1, ChildrenAll, Zenon
<1> QED
  BY <1>3, <1>4, Zenon

-----------------------------------------------------------------------------
(* Steps of an undisturbed listing *)

\* Nothing is taken or printed, and an item is done with only where it may be.
Rests ==
  /\ UNCHANGED <<i, stack, printed, item>>
  /\ pc' \in AtItem => pc \in AtItem
  /\ pc' \in Printed => pc \in Printed
  /\ pc' = "ls" => pc = "ls"
  /\ pc' = "present" => pc = "present"
  /\ pc' \in Running => pc \in Running
  /\ pc \in {"ls", "next"} /\ pc' \in Running => pc' = pc
  /\ pc' \notin Early
  /\ pc \in AtItem /\ pc' \in Running =>
       pc' \in AtItem \/ mode = "verbose" \/ (pc = "present" /\ ~Exists(item))
  /\ pc \in Printed /\ pc' \in Running /\ mode = "tree" => pc' \in Printed

\* What is read about an item in the tree leads on to its children.
LEMMA ReadingRests ==
  Reading => Rests
<1> DEFINE GoesOn == mode = "tree" => pc' \in Printed \cup {"crash"}
<1>1. ASSUME NEW next, ReadOr(next)
      PROVE  pc' = next \/ pc' = "crash"
  BY <1>1 DEF ReadOr, Goto
<1>2. ASSUME dump_vdid PROVE GoesOn
  <2> DEFINE n == IF mode = "retimer" THEN "next" ELSE "generation"
  <2>1. mode = "tree" => n \in Printed
    BY DEF Printed
  <2>2. ReadOr(n)
    BY <1>2, Zenon DEF dump_vdid
  <2> QED
    BY <1>1, <2>1, <2>2, Zenon
<1>3. ASSUME dump_generation PROVE GoesOn
  <2> DEFINE n == CASE mode = "plain" -> "next"
                    [] mode = "tree" /\ opts.v = 0 -> "children"
                    [] OTHER -> "auth"
  <2>1. mode = "tree" => n \in Printed
    <3>1. CASE mode = "tree" /\ opts.v = 0
      BY <3>1 DEF Printed
    <3>2. CASE mode = "tree" /\ opts.v # 0
      BY <3>2 DEF Printed
    <3> QED
      BY <3>1, <3>2
  <2>2. ReadOr(n)
    BY <1>3, Zenon DEF dump_generation
  <2> HIDE DEF n
  <2> QED
    BY <1>1, <2>1, <2>2, Zenon
<1>4. ASSUME dump_auth_sts PROVE GoesOn
  <2> DEFINE n == IF mode = "tree" THEN "children" ELSE "next"
  <2>1. mode = "tree" => n \in Printed
    BY DEF Printed
  <2>2. ReadOr(n)
    BY <1>4, Zenon DEF dump_auth_sts
  <2> QED
    BY <1>1, <2>1, <2>2, Zenon
<1> SUFFICES ASSUME Reading PROVE Rests
  OBVIOUS
<1>5. GoesOn
  BY <1>2, <1>3, <1>4 DEF Reading
<1>6. /\ UNCHANGED <<stack, printed, item>>
      /\ pc \in Printed
      /\ pc' \in Printed \cup {"next", "crash"}
  BY ReadingSteps
<1>7. UNCHANGED i
  BY DEF Reading, dump_vdid, dump_generation, dump_auth_sts
<1> QED
  BY <1>5, <1>6, <1>7 DEF Rests, Printed, AtItem, Running, Early

\* A step after the arguments have been looked at is one of these.
LEMMA QuietCases ==
  ASSUME IInv, [Next]_vars, pc \notin Early
  PROVE  /\ UNCHANGED <<opts, domains>>
         /\ Rests \/ NextDomain \/ Ls \/ NextName \/ Return \/ Prints \/ enumerate_dev_tree
<1>1. ListsTyped /\ Nested
  BY DEF IInv
<1>2. CASE Elsewhere
  <2>1. NextDomain \/ Finish \/ LinkFound
    BY <1>2 DEF Elsewhere, Early, main, Overrun, Count, Validate, Device
  <2> QED
    BY <2>1 DEF NextDomain, Finish, LinkFound, Goto, Exit, Rests, AtItem, Printed, Early, Running
<1>3. CASE Reading
  <2>1. UNCHANGED <<opts, domains>>
    BY <1>3 DEF Reading, dump_vdid, dump_generation, dump_auth_sts
  <2> QED
    BY <1>3, <2>1, ReadingRests
<1>4. CASE Header
  <2>1. UNCHANGED <<i, opts, domains>>
    BY <1>4 DEF Header
  <2>2. /\ pc = "header" /\ UNCHANGED <<stack, item>>
        /\ \/ /\ printed' = Append(printed, EntryOf(item, Len(stack) - 1))
              /\ pc' \in {"generation", "ids"}
           \/ UNCHANGED printed /\ pc' = "next"
    BY <1>1, <1>4, HeaderLists
  <2>3. Prints \/ (mode = "verbose" /\ pc' = "next" /\ UNCHANGED printed)
    BY <1>4, <2>2 DEF Prints, Header, Goto
  <2> QED
    BY <2>1, <2>2, <2>3 DEF Rests, AtItem, Printed, Early, Running
<1>5. CASE Present
  BY <1>5 DEF Present, Goto, Rests, AtItem, Printed, Early, Running
<1>6. CASE UNCHANGED progVars
  BY <1>6 DEF progVars, Rests, AtItem, Printed, Running
<1>7. CASE Ls \/ NextName \/ Return \/ enumerate_dev_tree
  BY <1>7 DEF Ls, NextName, Return, enumerate_dev_tree
<1> QED
  BY <1>2, <1>3, <1>4, <1>5, <1>6, <1>7, StepCases

\* Without a change the bus stays as it is.
LEMMA BusRests ==
  ASSUME changes \in Nat, [Next]_vars, changes' = 0
  PROVE  UNCHANGED busVars
<1>1. CASE Program
  BY <1>1 DEF busVars, Program, main, Overrun, Count, Validate, Device, Ls, NextName, Return,
     NextDomain, Finish, About, Present, Header, dump_vdid, dump_generation,
     dump_auth_sts, enumerate_dev_tree, LinkFound
<1>2. CASE Bus
  <2>1. changes' = changes + 1
    BY <1>2 DEF Bus, Plug, Unplug
  <2> QED
    BY <2>1
<1>3. CASE UNCHANGED vars
  BY <1>3 DEF vars
<1> QED
  BY <1>1, <1>2, <1>3 DEF Next

\* So do the routers there, their names, and with the arguments what is asked for.
LEMMA AskedStays ==
  ASSUME UNCHANGED busVars
  PROVE  /\ Names' = Names /\ total_domains' = total_domains
         /\ (Calm' <=> Calm) /\ (Fixed' <=> Fixed)
         /\ UNCHANGED opts => /\ mode' = mode /\ (Sweeping' <=> Sweeping)
                              /\ RootItems' = RootItems /\ Wanted' = Wanted
<1>1. UNCHANGED <<present, changes, gone>>
  BY DEF busVars
<1>2. Names' = Names /\ total_domains' = total_domains
  BY <1>1 DEF Names, total_domains
<1>3. (Calm' <=> Calm) /\ (Fixed' <=> Fixed)
  BY <1>1, <1>2 DEF Calm, Fixed, Decimal
<1>4. ASSUME UNCHANGED opts
      PROVE  /\ mode' = mode /\ (Sweeping' <=> Sweeping)
             /\ RootItems' = RootItems /\ Wanted' = Wanted
  <2>1. mode' = mode /\ Sweeping' = Sweeping
    BY <1>4 DEF mode, Sweeping
  <2>2. Roots' = Roots
    BY <1>1, <1>4, <2>1 DEF Roots, NameOf, Name
  <2>3. RootItems' = RootItems
    BY <2>1, <2>2 DEF RootItems, NameOf, Name, RetimerOf
  <2>4. Wanted' = Wanted
    BY <1>1, <2>1, <2>2 DEF Wanted, NameOf, Name, RetimerOf
  <2> QED
    BY <2>1, <2>3, <2>4
<1> QED
  BY <1>2, <1>3, <1>4

\* What has been printed stays printed; only Prints adds to it.
LEMMA ShownStays ==
  ASSUME ListsTyped,
         Rests \/ NextDomain \/ Ls \/ NextName \/ Return \/ Prints \/ enumerate_dev_tree
  PROVE  /\ \A a : Shown(a) => Shown(a)'
         /\ \A a : Shown(a)' => Shown(a) \/ (Prints /\ a = item)
         /\ Prints => Shown(item)' /\ UNCHANGED item
<1>1. CASE UNCHANGED printed
  <2>1. \A a : Shown(a)' <=> Shown(a)
    BY <1>1 DEF Shown
  <2>2. Prints => FALSE
    <3>1. SUFFICES ASSUME Prints PROVE FALSE
      OBVIOUS
    <3>2. PICK p : p = Len(printed)
      OBVIOUS
    <3>3. /\ p \in Nat /\ DOMAIN printed = 1 .. p /\ DOMAIN printed' = 1 .. p + 1
      BY <3>1, <3>2, PrintsItem
    <3> QED
      BY <1>1, <3>3
  <2> QED
    BY <2>1, <2>2, Zenon
<1>2. CASE Prints
  <2>1. PICK p : p = Len(printed)
    OBVIOUS
  <2>2. /\ DOMAIN printed = 1 .. p /\ DOMAIN printed' = 1 .. p + 1 /\ p \in Nat
        /\ \A k \in 1 .. p + 1 : k \in 1 .. p \/ k = p + 1
        /\ \A k \in 1 .. p : printed'[k] = printed[k]
        /\ printed'[p + 1].item = item /\ UNCHANGED item
    BY <1>2, <2>1, PrintsItem
  <2>3. p + 1 \in 1 .. p + 1 /\ \A k \in 1 .. p : k \in 1 .. p + 1
    BY <2>2
  <2>4. Shown(item)'
    BY <2>2, <2>3 DEF Shown
  <2>5. ASSUME NEW a, Shown(a) PROVE Shown(a)'
    BY <2>2, <2>3, <2>5, Zenon DEF Shown
  <2>6. ASSUME NEW a, Shown(a)' PROVE Shown(a) \/ a = item
    BY <2>2, <2>6, Zenon DEF Shown
  <2> QED
    BY <1>2, <2>2, <2>4, <2>5, <2>6
<1> QED
  BY <1>1, <1>2 DEF Rests, NextDomain, Ls, NextName, Return, enumerate_dev_tree

\* A list loses nothing but the name that is taken.
LEMMA TodoStays ==
  ASSUME BusOK, ListsTyped, Nested, pc = "ls" => stack = <<>>,
         Rests \/ NextDomain \/ Ls \/ NextName \/ Return \/ Prints \/ enumerate_dev_tree,
         NEW f \in DOMAIN stack, NEW a \in Todo(f)
  PROVE  \/ f \in DOMAIN stack' /\ a \in Todo(f)'
         \/ pc' \in AtItem /\ item' = a
<1> DEFINE After(g) == {stack'[g].todo[k] : k \in DOMAIN stack'[g].todo}
<1>0. \A g : Todo(g)' = After(g)
  BY DEF Todo
<1>1. Len(stack) \in Nat /\ DOMAIN stack = 1 .. Len(stack)
  BY DEF ListsTyped
<1>2. CASE Rests \/ NextDomain \/ Prints
  <2>1. UNCHANGED stack
    BY <1>2 DEF Rests, NextDomain, Prints, Header
  <2> QED
    BY <2>1 DEF Todo
<1>3. CASE Ls
  BY <1>1, <1>3 DEF Ls
<1>4. CASE Return
  <2>1. /\ Len(stack) \in Nat \ {0} /\ Len(stack') = Len(stack) - 1
        /\ stack' \in Seq(FrameSet)
        /\ \A g \in 1 .. Len(stack) - 1 : stack'[g] = stack[g]
    BY <1>4, ReturnLists
  <2>2. f # Len(stack)
    <3>1. top.todo = <<>> /\ top = stack[Len(stack)]
      BY <1>4 DEF Return, top, Last
    <3>2. ASSUME f = Len(stack) PROVE FALSE
      <4>1. stack[f].todo = <<>>
        BY <3>1, <3>2
      <4> QED
        BY <4>1 DEF Todo
    <3> QED
      BY <3>2
  <2>3. f \in 1 .. Len(stack) - 1 /\ DOMAIN stack' = 1 .. Len(stack) - 1
    BY <1>1, <2>1, <2>2
  <2>4. stack'[f] = stack[f]
    BY <2>1, <2>3
  <2>5. a \in After(f)
    BY <2>4 DEF Todo
  <2> QED
    BY <1>0, <2>3, <2>5, Zenon
<1>5. CASE NextName
  <2> DEFINE n == Len(stack)
             rest == stack'[n].todo
             todo == stack[n].todo
  <2>1. /\ n \in Nat \ {0} /\ stack' \in Seq(FrameSet) /\ Len(stack') = n
        /\ \A g \in 1 .. n - 1 : stack'[g] = stack[g]
        /\ item' = todo[1]
        /\ \A k \in DOMAIN todo : k = 1 \/ (k - 1 \in DOMAIN rest /\ rest[k - 1] = todo[k])
    BY <1>5, NextNameLists
  <2>2. DOMAIN stack' = 1 .. n /\ DOMAIN stack = 1 .. n
    BY <1>1, <2>1
  <2>3. f \in 1 .. n - 1 \/ f = n
    BY <2>1, <2>2
  <2>4. pc' \in AtItem
    BY <1>5 DEF NextName, Goto, AtItem
  <2>5. CASE f = n
    <3>1. PICK k \in DOMAIN todo : a = todo[k]
      BY <2>5 DEF Todo
    <3>2. a = item' \/ a \in After(n)
      BY <2>1, <3>1
    <3> HIDE DEF After
    <3> QED
      BY <1>0, <2>2, <2>4, <2>5, <3>2, Zenon
  <2>6. CASE f \in 1 .. n - 1
    <3>1. a \in After(f)
      BY <2>1, <2>6 DEF Todo
    <3> HIDE DEF After
    <3> QED
      BY <1>0, <2>2, <3>1, Zenon
  <2> QED
    BY <2>3, <2>5, <2>6
<1>6. CASE enumerate_dev_tree
  <2>1. PICK n : n = Len(stack)
    OBVIOUS
  <2>2. /\ DOMAIN stack = 1 .. n /\ DOMAIN stack' = 1 .. n + 1 /\ n \in Nat \ {0}
        /\ \A g \in 1 .. n : stack'[g] = stack[g] /\ Todo(g)' = Todo(g)
    BY <1>6, <2>1, EnterTodo
  <2>3. f \in DOMAIN stack'
    BY <2>2
  <2> QED
    BY <2>2, <2>3, Zenon
<1> QED
  BY <1>2, <1>3, <1>4, <1>5, <1>6

\* An item that is coming comes or has come.
LEMMA ComingStays ==
  ASSUME BusOK, ListsTyped, Nested, pc = "ls" => stack = <<>>,
         Rests \/ NextDomain \/ Ls \/ NextName \/ Return \/ Prints \/ enumerate_dev_tree,
         mode # "verbose", pc' \in Running, pc = "present" => Exists(item),
         NEW a, Coming(a)
  PROVE  Coming(a)'
<1>1. CASE Shown(a)
  BY <1>1, ShownStays, Zenon DEF Coming
<1>2. CASE \E f \in DOMAIN stack : a \in Todo(f)
  <2>1. PICK f \in DOMAIN stack : a \in Todo(f)
    BY <1>2
  <2>2. \/ f \in DOMAIN stack' /\ a \in Todo(f)'
        \/ pc' \in AtItem /\ item' = a
    BY <2>1, TodoStays
  <2> QED
    BY <2>2, Zenon DEF Coming
<1>3. CASE pc \in AtItem /\ item = a
  <2>1. CASE Rests
    BY <1>3, <2>1, Zenon DEF Rests, Coming
  <2>2. CASE Prints
    BY <1>3, <2>2, ShownStays, Zenon DEF Coming
  <2>3. CASE NextDomain \/ Ls \/ NextName \/ Return \/ enumerate_dev_tree
    BY <1>3, <2>3 DEF NextDomain, Ls, NextName, Return, enumerate_dev_tree, AtItem
  <2> QED
    BY <2>1, <2>2, <2>3
<1> QED
  BY <1>1, <1>2, <1>3 DEF Coming

-----------------------------------------------------------------------------
(* Until the first list *)

\* What is to be listed first is of a domain that was counted.
LEMMA RootDomain ==
  ASSUME BusOK, Calm, NEW a \in RootItems
  PROVE  a.dom \in Nat /\ a.dom < total_domains
<1>1. \E r \in present : a.dom = r.dom
  <2>1. CASE mode = "retimer"
    BY <2>1 DEF RootItems, Roots, RetimerOf
  <2>2. CASE mode # "retimer"
    <3>1. PICK r \in Roots : a = NameOf(r)
      BY <2>2, Zenon DEF RootItems
    <3>2. r \in present
      BY Zenon DEF Roots
    <3>3. NameOf(r).dom = r.dom
      BY DEF NameOf, Name
    <3> QED
      BY <3>1, <3>2, <3>3
  <2> QED
    BY <2>1, <2>2
<1>2. a.dom \in 0 .. total_domains - 1
  BY <1>1, Zenon DEF Calm
<1>3. total_domains \in Nat
  BY DomainsCounted
<1> QED
  BY <1>2, <1>3

\* The steps before.
LEMMA EarlyCases ==
  ASSUME [Next]_vars, pc \in Early
  PROVE  main \/ Overrun \/ Count \/ Validate \/ Device \/ UNCHANGED progVars
<1>1. ASSUME NextDomain \/ Finish \/ LinkFound \/ Ls \/ NextName \/ Return \/ Present
             \/ Header \/ Reading \/ enumerate_dev_tree
      PROVE  FALSE
  BY <1>1 DEF NextDomain, Finish, LinkFound, Ls, NextName, Return, Present, Header,
     Reading, dump_vdid, dump_generation, dump_auth_sts, enumerate_dev_tree, Early
<1> QED
  BY <1>1, StepCases DEF Elsewhere

\* The arguments are validated against the domains there are.
LEMMA AcceptedEarly ==
  ASSUME OptsInv, Accepted, Begun, UNCHANGED busVars, [Next]_vars, pc \in Early
  PROVE  Accepted' /\ (pc' = "ls" /\ Sweeping' => i' = 0)
<1>0. stack = <<>> /\ i = 0
  BY DEF Begun
<1>1. total_domains' = total_domains /\ Names' = Names
  BY AskedStays
<1>2. CASE main \/ Overrun
  <2>1. pc' \in {"count", "exit", "overrun"}
    BY <1>2 DEF main, Overrun, Goto, Exit
  <2> QED
    BY <2>1 DEF Accepted, Running, AtItem, Printed
<1>3. CASE Count
  <2>1. pc' \in {"validate", "exit"} /\ domains' = total_domains
    BY <1>3 DEF Count, Goto, Exit
  <2> QED
    BY <1>1, <2>1 DEF Accepted, Running, AtItem, Printed
<1>4. CASE Validate
  <2>1. UNCHANGED <<opts, domains, stack>> /\ pc = "validate"
    BY <1>4 DEF Validate
  <2>2. \/ pc' = "exit"
        \/ /\ validate_args
           /\ i' = IF Given(opts.D) THEN opts.D.num ELSE 0
           /\ pc' = IF Given(opts.s) THEN "device" ELSE "ls"
    BY <1>4 DEF Validate, Goto, Exit
  <2>3. domains = total_domains
    BY <2>1 DEF Accepted
  <2>4. mode' = mode
    BY <2>1 DEF mode
  <2>5. CASE pc' = "exit"
    BY <2>5 DEF Accepted, Running, AtItem, Printed
  <2>6. CASE validate_args /\ pc' \in {"device", "ls"}
    <3>1. Given(opts.s) => ~Given(opts.D) /\ ~Given(opts.d)
      BY <2>6, Zenon DEF validate_args
    <3>2. Given(opts.d) => mode # "retimer" /\ opts.d.num \in Nat
      <4>1. SUFFICES ASSUME Given(opts.d) PROVE mode # "retimer" /\ opts.d.num \in Nat
        OBVIOUS
      <4>2. ~Given(opts.s)
        BY <3>1, <4>1
      <4>3. mode # "retimer" /\ IsNumBelow(opts.d, MaxDepthPossible)
        BY <2>6, <4>1, <4>2, Zenon DEF validate_args
      <4>4. opts.d.num \in Int
        <5>1. opts.d \in ValueSet
          BY OptsTyped, Zenon DEF OptsSet
        <5>2. opts.d \in Argument
          BY <4>1, <5>1, Zenon DEF ValueSet, Given
        <5> QED
          BY <5>2, Zenon DEF Argument
      <4>5. opts.d.num >= 0
        BY <4>3, Zenon DEF IsNumBelow
      <4> QED
        BY <4>3, <4>4, <4>5
    <3>3. /\ i' = IF Given(opts.D) THEN opts.D.num ELSE 0
          /\ pc' = IF Given(opts.s) THEN "device" ELSE "ls"
      BY <2>2, <2>6
    <3>4. Accepted'
      BY <1>0, <1>1, <2>1, <2>3, <2>4, <3>1, <3>2, <3>3, Zenon
         DEF Accepted, Running, AtItem, Printed
    <3>5. pc' = "ls" /\ Sweeping' => i' = 0
      BY <2>1, <3>3 DEF Sweeping
    <3> QED
      BY <3>4, <3>5
  <2> QED
    BY <2>2, <2>5, <2>6
<1>5. CASE Device
  <2>1. UNCHANGED <<opts, domains, stack, i>> /\ pc = "device"
    BY <1>5 DEF Device
  <2>2. pc' = "exit" \/ (pc' = "ls" /\ opts.s.name \in Names)
    BY <1>5 DEF Device, Goto, Exit, is_router_present, Exists
  <2>3. mode' = mode
    BY <2>1 DEF mode
  <2>4. CASE pc' = "exit"
    BY <2>4 DEF Accepted, Running, AtItem, Printed
  <2>5. CASE pc' = "ls" /\ opts.s.name \in Names
    <3>1. Accepted'
      BY <1>0, <1>1, <2>1, <2>3, <2>5, Zenon DEF Accepted, Running, AtItem, Printed
    <3> QED
      BY <1>0, <2>1, <3>1
  <2> QED
    BY <2>2, <2>4, <2>5
<1>6. CASE UNCHANGED progVars
  <2>1. UNCHANGED <<pc, opts, domains, stack, i>>
    BY <1>6 DEF progVars
  <2>2. mode' = mode
    BY <2>1 DEF mode
  <2> QED
    BY <1>0, <1>1, <2>1, <2>2 DEF Accepted, Early
<1> QED
  BY <1>2, <1>3, <1>4, <1>5, <1>6, EarlyCases

\* Nothing has been listed, and the first list is still to come.
LEMMA QuietEarly ==
  ASSUME BusOK, OptsInv, Accepted, Begun, Calm, UNCHANGED busVars, [Next]_vars, pc \in Early
  PROVE  Accepted' /\ SoundSoFar' /\ RootsReached' /\ ChildrenReached'
<1>1. stack' = <<>> /\ printed' = <<>> /\ pc' \in Early \cup {"ls", "exit", "overrun"}
  <2>1. stack = <<>> /\ printed = <<>>
    BY DEF Begun
  <2>2. CASE main \/ Overrun \/ Count \/ Validate \/ Device
    BY <2>1, <2>2, ElsewhereSteps DEF Elsewhere, Early
  <2>3. CASE UNCHANGED progVars
    BY <2>1, <2>3 DEF progVars
  <2> QED
    BY <2>2, <2>3, EarlyCases
<1>2. pc' \notin AtItem \cup Printed
  BY <1>1 DEF Early, AtItem, Printed
<1>3. Accepted' /\ (pc' = "ls" /\ Sweeping' => i' = 0)
  BY AcceptedEarly
<1>4. SoundSoFar'
  BY <1>1, <1>2 DEF SoundSoFar
<1>5. ASSUME NEW a \in RootItems', pc' = "ls" PROVE Ahead(a)'
  <2>1. UNCHANGED opts
    <3>1. ~main /\ ~Count
      BY <1>5 DEF main, Count, Goto, Exit
    <3> QED
      BY <3>1, EarlyCases DEF Overrun, Validate, Device, progVars
  <2>2. a.dom \in Nat
    BY <1>5, <2>1, AskedStays, RootDomain
  <2>3. Sweeping' => a.dom > i' \/ a.dom = i'
    BY <1>3, <1>5, <2>2
  <2> QED
    BY <1>5, <2>3 DEF Ahead
<1>6. pc' \in Running => pc' = "ls"
  BY <1>1 DEF Early, Running, AtItem, Printed
<1>7. RootsReached'
  BY <1>5, <1>6 DEF RootsReached
<1>8. \A a : ~Shown(a)'
  BY <1>1 DEF Shown
<1>9. ChildrenReached'
  BY <1>8 DEF ChildrenReached
<1> QED
  BY <1>3, <1>4, <1>7, <1>9

-----------------------------------------------------------------------------
(* From the first list on *)

\* The list made for the directory of a router has all routers in it.
LEMMA EnteredAll ==
  ASSUME BusOK, ListsTyped, Nested, enumerate_dev_tree, NEW n, n = Len(stack)
  PROVE  Todo(n + 1)' = ChildrenOf(item)
<1> DEFINE list == ls(ChildrenOf(item))
           f == [depth |-> Deeper(top.depth), todo |-> list]
<1>1. n \in Nat /\ DOMAIN stack = 1 .. n
  BY EnterTodo
<1>2. stack' = Append(stack, f)
  BY DEF enumerate_dev_tree
<1>3. stack'[n + 1] = f
  <2> HIDE DEF f
  <2> QED
    BY <1>1, <1>2 DEF ListsTyped
<1>4. Todo(n + 1)' = In(list)
  BY <1>3 DEF Todo, In
<1>5. ChildrenOf(item) \in SUBSET Names
  BY DEF ChildrenOf, Names
<1> QED
  BY <1>4, <1>5, NamesAreListable, LsListsAll

\* Where the steps lead.
LEMMA LateSteps ==
  ASSUME ListsTyped,
         Rests \/ NextDomain \/ Ls \/ NextName \/ Return \/ Prints \/ enumerate_dev_tree
  PROVE  /\ pc' \in Running => pc \in Running
         /\ pc' \notin Early \/ pc \in Early
         /\ ~NextDomain => UNCHANGED i
         /\ pc' = "ls" => (Rests /\ pc = "ls") \/ NextDomain
         /\ pc' = "present" => (Rests /\ pc = "present") \/ (NextName /\ mode = "plain")
<1>1. CASE Rests
  BY <1>1 DEF Rests
<1>2. CASE NextDomain
  BY <1>2 DEF NextDomain, Goto, Running, AtItem, Printed, Early
<1>3. CASE Ls
  BY <1>3 DEF Ls, Goto, Running, AtItem, Printed, Early
<1>4. CASE NextName
  BY <1>4 DEF NextName, Goto, Running, AtItem, Printed, Early
<1>5. CASE Return
  BY <1>5 DEF Return, Goto, Running, AtItem, Printed, Early
<1>6. CASE Prints
  BY <1>6 DEF Prints, Header, Running, AtItem, Printed, Early
<1>7. CASE enumerate_dev_tree
  BY <1>7 DEF enumerate_dev_tree, Goto, Running, AtItem, Printed, Early
<1> QED
  BY <1>1, <1>2, <1>3, <1>4, <1>5, <1>6, <1>7

\* Accepted is preserved: nothing is validated twice.
LEMMA AcceptedLate ==
  ASSUME IInv, Accepted, UNCHANGED busVars, [Next]_vars, pc \notin Early
  PROVE  Accepted'
<1>1. /\ UNCHANGED <<opts, domains>>
      /\ Rests \/ NextDomain \/ Ls \/ NextName \/ Return \/ Prints \/ enumerate_dev_tree
  BY QuietCases
<1>2. /\ pc' \in Running => pc \in Running
      /\ pc' \notin Early
      /\ ~NextDomain => UNCHANGED i
      /\ pc' = "ls" => (Rests /\ pc = "ls") \/ NextDomain
      /\ pc' = "present" => (Rests /\ pc = "present") \/ (NextName /\ mode = "plain")
  BY <1>1, LateSteps DEF IInv
<1>3. pc' # "validate" /\ pc' # "device"
  BY <1>2 DEF Early
<1>4. total_domains' = total_domains /\ Names' = Names /\ mode' = mode
  BY <1>1, AskedStays
<1>5. Given(opts.D) => UNCHANGED i
  BY <1>2 DEF NextDomain
<1>6. pc' = "ls" => stack' = <<>>
  BY <1>2 DEF NextDomain, Rests, Accepted
<1>7. pc' = "present" => mode' = "plain"
  BY <1>2, <1>4 DEF Accepted
<1>8. /\ pc' \in Running => domains = total_domains
      /\ pc' \in Running =>
           /\ Given(opts.s) => ~Given(opts.D) /\ ~Given(opts.d)
           /\ Given(opts.D) => i = opts.D.num
           /\ Given(opts.d) => mode # "retimer" /\ opts.d.num \in Nat
      /\ pc' \in Running /\ Given(opts.s) => opts.s.name \in Names
  BY <1>2, Zenon DEF Accepted
<1> QED
  BY <1>1, <1>3, <1>4, <1>5, <1>6, <1>7, <1>8 DEF Accepted

\* SoundSoFar is preserved: lists are of what was asked for.
LEMMA SoundLate ==
  ASSUME IInv, Rows, Fixed, Calm, Accepted, SoundSoFar, UNCHANGED busVars, [Next]_vars,
         pc \notin Early
  PROVE  SoundSoFar'
<1>0. BusOK /\ ListsTyped /\ Seen /\ Nested
  BY DEF IInv
<1>1. /\ UNCHANGED <<opts, domains>>
      /\ Rests \/ NextDomain \/ Ls \/ NextName \/ Return \/ Prints \/ enumerate_dev_tree
  BY QuietCases
<1>2. Wanted' = Wanted
  BY <1>1, AskedStays
<1>3. \A a : Shown(a) => a \in Wanted
  BY DEF SoundSoFar, Shown
<1>4. Prints => item \in Wanted
  BY DEF SoundSoFar, Prints, Header, AtItem
<1>5. \A a : Shown(a)' => a \in Wanted
  BY <1>0, <1>1, <1>3, <1>4, ShownStays, Zenon
<1>6. \A k \in DOMAIN printed' : printed'[k].item \in Wanted'
  BY <1>2, <1>5 DEF Shown
<1>7. \A f \in DOMAIN stack' : Todo(f)' \subseteq Wanted
  <2>1. CASE Rests \/ NextDomain \/ Prints
    <3>1. UNCHANGED stack
      BY <2>1 DEF Rests, NextDomain, Prints, Header
    <3> QED
      BY <3>1 DEF SoundSoFar, Todo
  <2>2. CASE NextName \/ Return
    <3>1. DOMAIN stack' \subseteq DOMAIN stack /\ \A f \in DOMAIN stack' : Todo(f)' \subseteq Todo(f)
      BY <1>0, <2>2, FramesShrink
    <3> QED
      BY <3>1, Zenon DEF SoundSoFar
  <2>3. CASE Ls
    <3>1. pc = "ls" /\ stack' = <<[depth |-> 0, todo |-> Selected]>>
      BY <2>3 DEF Ls
    <3>2. In(Selected) \subseteq Wanted
      BY <1>0, <3>1, SelectedAll, RootsWanted DEF Calm
    <3>3. DOMAIN stack' = {1} /\ Todo(1)' = In(Selected)
      BY <3>1 DEF Todo, In
    <3> QED
      BY <3>2, <3>3, Zenon
  <2>4. CASE enumerate_dev_tree
    <3> DEFINE list == ls(ChildrenOf(item))
    <3>1. PICK n : n = Len(stack)
      OBVIOUS
    <3>2. /\ DOMAIN stack = 1 .. n /\ DOMAIN stack' = 1 .. n + 1 /\ n \in Nat \ {0}
          /\ \A f \in 1 .. n : stack'[f] = stack[f] /\ Todo(f)' = Todo(f)
          /\ pc = "children" /\ item \in ItemSet
      BY <1>0, <2>4, <3>1, EnterTodo
    <3>3. item \in Wanted /\ mode = "tree"
      BY <3>2 DEF SoundSoFar, Printed, Rows
    <3>4. Todo(n + 1)' = ChildrenOf(item)
      BY <1>0, <2>4, <3>1, EnteredAll
    <3>5. ChildrenOf(item) \subseteq Wanted
      BY <3>3, ChildrenWanted
    <3>6. \A f \in 1 .. n + 1 : f \in 1 .. n \/ f = n + 1
      BY <3>2
    <3> QED
      BY <3>2, <3>4, <3>5, <3>6, Zenon DEF SoundSoFar
  <2> QED
    BY <1>1, <2>1, <2>2, <2>3, <2>4
<1>8. pc' \in AtItem \cup Printed => item' \in Wanted
  <2>1. CASE Rests
    BY <2>1 DEF Rests, SoundSoFar
  <2>2. CASE NextName
    BY <1>0, <2>2, NextNameTakes DEF SoundSoFar
  <2>3. CASE Prints
    BY <1>0, <1>4, <2>3, ShownStays
  <2>4. CASE NextDomain \/ Ls \/ Return \/ enumerate_dev_tree
    BY <2>4 DEF NextDomain, Ls, Return, enumerate_dev_tree, Goto, AtItem, Printed
  <2> QED
    BY <1>1, <2>1, <2>2, <2>3, <2>4
<1> QED
  BY <1>2, <1>6, <1>7, <1>8, Zenon DEF SoundSoFar

\* A router of the plain listing is there when it is looked for.
LEMMA PresentThere ==
  ASSUME Accepted, SoundSoFar, pc = "present"
  PROVE  Exists(item)
<1>1. mode = "plain" /\ item \in Wanted
  BY DEF Accepted, SoundSoFar, AtItem
<1>2. Wanted = {NameOf(r) : r \in Roots}
  BY <1>1 DEF Wanted
<1> QED
  BY <1>1, <1>2, Zenon DEF Roots, Names, Exists

\* RootsReached is preserved: a list is made of each domain, and left when it is empty.
LEMMA RootsLate ==
  ASSUME IInv, i \in Nat, Fixed, Calm, Accepted, SoundSoFar, RootsReached,
         UNCHANGED busVars, [Next]_vars, pc \notin Early
  PROVE  RootsReached'
<1>0. BusOK /\ ListsTyped /\ Seen /\ Nested /\ (pc = "ls" => stack = <<>>)
  BY DEF IInv, Accepted
<1>1. /\ UNCHANGED opts
      /\ Rests \/ NextDomain \/ Ls \/ NextName \/ Return \/ Prints \/ enumerate_dev_tree
  BY QuietCases
<1>2. mode' = mode /\ (Sweeping' <=> Sweeping) /\ RootItems' = RootItems
  BY <1>1, AskedStays
<1>3. pc' \in Running => pc \in Running
  BY <1>0, <1>1, LateSteps
<1>4. ASSUME NEW a \in RootItems, mode # "verbose", pc' \in Running
      PROVE  Coming(a)' \/ Ahead(a)'
  <2>1. Coming(a) \/ Ahead(a)
    BY <1>3, <1>4 DEF RootsReached
  <2>2. CASE Coming(a)
    BY <1>0, <1>1, <1>4, <2>2, ComingStays, PresentThere
  <2>3. a.dom \in Nat
    BY <1>0, RootDomain
  <2>4. CASE Ahead(a) /\ Ls
    <3>1. pc = "ls" /\ stack' = <<[depth |-> 0, todo |-> Selected]>> /\ UNCHANGED i
      BY <2>4 DEF Ls
    <3>2. CASE Sweeping /\ a.dom > i
      BY <1>2, <3>1, <3>2 DEF Ahead
    <3>3. CASE Sweeping => a.dom = i
      <4>1. a \in In(Selected)
        BY <1>0, <1>4, <3>1, <3>3, SelectedAll
      <4>2. DOMAIN stack' = {1} /\ Todo(1)' = In(Selected)
        BY <3>1 DEF Todo, In
      <4>3. \E f \in DOMAIN stack' : a \in Todo(f)'
        BY <4>1, <4>2, Zenon
      <4> QED
        BY <4>3 DEF Coming
    <3> QED
      BY <2>4, <3>2, <3>3 DEF Ahead
  <2>5. CASE Ahead(a) /\ NextDomain
    <3>1. Sweeping /\ pc = "next" /\ pc' = "ls" /\ i' = i + 1
      BY <2>5 DEF NextDomain, Goto, Sweeping, NextIndex
    <3>2. a.dom > i
      BY <2>5, <3>1 DEF Ahead
    <3>3. a.dom > i' \/ a.dom = i'
      BY <2>3, <3>1, <3>2
    <3> QED
      BY <1>2, <3>1, <3>3 DEF Ahead
  <2>6. CASE Ahead(a) /\ (Rests \/ NextName \/ Return \/ Prints \/ enumerate_dev_tree)
    <3>1. UNCHANGED i
      BY <2>6 DEF Rests, NextName, Return, Prints, Header, enumerate_dev_tree
    <3>2. pc = "ls" => pc' = "ls"
      <4>1. CASE Rests
        BY <1>4, <4>1 DEF Rests
      <4>2. CASE NextName \/ Return \/ Prints \/ enumerate_dev_tree
        BY <4>2 DEF NextName, Return, Prints, Header, enumerate_dev_tree
      <4> QED
        BY <2>6, <4>1, <4>2
    <3> QED
      BY <1>2, <2>6, <3>1, <3>2 DEF Ahead
  <2> QED
    BY <1>1, <2>1, <2>2, <2>4, <2>5, <2>6
<1> QED
  BY <1>2, <1>4 DEF RootsReached

\* ChildrenReached is preserved: after a router is shown its directory is listed.
LEMMA ChildrenLate ==
  ASSUME IInv, Fixed, Calm, Accepted, SoundSoFar, ChildrenReached,
         UNCHANGED busVars, [Next]_vars, pc \notin Early
  PROVE  ChildrenReached'
<1>0. BusOK /\ ListsTyped /\ Seen /\ Nested /\ (pc = "ls" => stack = <<>>)
  BY DEF IInv, Accepted
<1>1. /\ UNCHANGED opts
      /\ Rests \/ NextDomain \/ Ls \/ NextName \/ Return \/ Prints \/ enumerate_dev_tree
  BY QuietCases
<1>2. mode' = mode /\ present' = present
  BY <1>1 DEF mode, busVars
<1>3. pc' \in Running => pc \in Running
  BY <1>0, <1>1, LateSteps
<1>4. ASSUME NEW c \in present, c.route # <<>>, mode = "tree", pc' \in Running,
             NEW b, b = NameOf(Parent(c)), Shown(b)', NEW a, a = NameOf(c)
      PROVE  Coming(a)' \/ (pc' \in Printed /\ item' = b)
  <2>1. CASE Prints /\ b = item
    BY <1>0, <2>1, ShownStays DEF Prints, Printed
  <2>2. CASE Shown(b)
    <3>1. Coming(a) \/ (pc \in Printed /\ item = b)
      BY <1>3, <1>4, <2>2 DEF ChildrenReached
    <3>2. CASE Coming(a)
      BY <1>0, <1>1, <1>4, <3>2, ComingStays, PresentThere
    <3>3. CASE pc \in Printed /\ item = b
      <4>1. CASE Rests
        BY <1>4, <3>3, <4>1 DEF Rests
      <4>2. CASE enumerate_dev_tree
        <5>1. Parent(c) \in present
          BY <1>4, FixedBus DEF Calm
        <5>2. a \in ChildrenOf(item)
          BY <1>4, <3>3, <5>1, ChildrenAll
        <5>3. PICK n : n = Len(stack)
          OBVIOUS
        <5>4. a \in Todo(n + 1)'
          BY <1>0, <4>2, <5>2, <5>3, EnteredAll
        <5>5. n + 1 \in DOMAIN stack'
          <6>1. DOMAIN stack' = 1 .. n + 1 /\ n \in Nat
            BY <1>0, <4>2, <5>3, EnterTodo
          <6> QED
            BY <6>1
        <5> QED
          BY <5>4, <5>5, Zenon DEF Coming
      <4>3. CASE NextDomain \/ Ls \/ NextName \/ Return \/ Prints
        BY <3>3, <4>3 DEF NextDomain, Ls, NextName, Return, Prints, Header, Printed
      <4> QED
        BY <1>1, <4>1, <4>2, <4>3
    <3> QED
      BY <3>1, <3>2, <3>3
  <2> QED
    BY <1>0, <1>1, <1>4, <2>1, <2>2, ShownStays
<1>5. ASSUME NEW c \in present, c.route # <<>>, mode = "tree", pc' \in Running,
             Shown(NameOf(Parent(c)))'
      PROVE  Coming(NameOf(c))' \/ (pc' \in Printed /\ item' = NameOf(Parent(c)))
  BY <1>4, <1>5, Zenon
<1> QED
  BY <1>2, <1>5, Zenon DEF ChildrenReached

-----------------------------------------------------------------------------
(* The end *)

\* All that was to be listed first has been shown at the end.
LEMMA RootsShown ==
  ASSUME BusOK, Calm, Accepted, RootsReached, Finish, mode # "verbose", i \in Nat
  PROVE  \A a \in RootItems : Shown(a)
<1>1. /\ pc = "next" /\ stack = <<>>
      /\ Given(opts.s) \/ Given(opts.D) \/ i + 1 >= domains
  BY DEF Finish
<1>2. pc \in Running /\ pc \notin AtItem
  BY <1>1 DEF Running, AtItem
<1>3. ASSUME NEW a \in RootItems PROVE Shown(a)
  <2>1. Coming(a) \/ Ahead(a)
    BY <1>2 DEF RootsReached
  <2>2. ~Ahead(a)
    <3>1. a.dom \in Nat /\ a.dom < total_domains /\ total_domains = domains
      BY <1>2, RootDomain DEF Accepted
    <3>2. ASSUME Sweeping PROVE ~(a.dom > i)
      <4>1. i + 1 >= domains
        BY <1>1, <3>2, Zenon DEF Sweeping
      <4>2. \A d, t \in Nat : d < t /\ i + 1 >= t => ~(d > i)
        OBVIOUS
      <4>3. domains \in Nat /\ a.dom < domains
        BY <3>1, DomainsCounted
      <4> QED
        BY <3>1, <4>1, <4>2, <4>3, Zenon
    <3> QED
      BY <1>1, <3>2 DEF Ahead
  <2>3. Coming(a) => Shown(a)
    BY <1>1, <1>2 DEF Coming
  <2> QED
    BY <2>1, <2>2, <2>3
<1> QED
  BY <1>3

\* So have the routers below one of them.
LEMMA BelowShown ==
  ASSUME Fixed, Calm, ChildrenReached, Finish, mode = "tree",
         NEW b \in present, Shown(NameOf(b)),
         NEW q \in present, q.dom = b.dom, IsPrefix(b.route, q.route)
  PROVE  Shown(NameOf(q))
<1>0. pc = "next" /\ stack = <<>>
  BY DEF Finish
<1>1. pc \in Running /\ pc \notin AtItem /\ pc \notin Printed
  BY <1>0 DEF Running, AtItem, Printed
<1>2. ASSUME NEW c \in present, c.route # <<>>, Shown(NameOf(Parent(c)))
      PROVE  Shown(NameOf(c))
  <2>1. Coming(NameOf(c))
    BY <1>1, <1>2 DEF ChildrenReached
  <2> QED
    BY <1>0, <1>1, <2>1 DEF Coming
<1>3. \A r \in present : IsRouter(r) /\ r.route \in Seq(Port) /\ Len(r.route) \in Nat
  <2>1. \A r \in present : IsRouter(r)
    BY FixedBus DEF Calm
  <2> QED
    BY <2>1, RouterType
<1> DEFINE n == Len(q.route)
           Below(r, m) == r.dom = b.dom /\ IsPrefix(b.route, r.route) /\ Len(r.route) = Len(b.route) + m
           A == {m \in 0 .. n : \A r \in present : Below(r, m) => Shown(NameOf(r))}
<1>4. 0 \in A
  <2>1. ASSUME NEW r \in present, Below(r, 0) PROVE r = b
    <3>1. Len(r.route) = Len(b.route)
      BY <1>3, <2>1
    <3>2. r.route = b.route
      BY <1>3, <2>1, <3>1, PrefixesOf
    <3>3. NameOf(r) = NameOf(b)
      BY <2>1, <3>2 DEF NameOf
    <3> QED
      BY <1>3, <3>3, NamesTellRouters
  <2>2. 0 \in 0 .. n
    BY <1>3
  <2> QED
    BY <2>1, <2>2, Zenon
<1>5. ASSUME NEW m \in 0 .. n - 1, m \in A PROVE m + 1 \in A
  <2>1. m + 1 \in 0 .. n /\ m \in Nat
    BY <1>3
  <2>2. ASSUME NEW r \in present, Below(r, m + 1) PROVE Shown(NameOf(r))
    <3>0. PICK u, w : u = Len(r.route) /\ w = Len(b.route)
      OBVIOUS
    <3>1. Len(r.route) # Len(b.route) /\ r.route # <<>> /\ Len(r.route) - 1 = Len(b.route) + m
      <4>1. u \in Nat /\ w \in Nat /\ u = w + (m + 1)
        BY <1>3, <2>2, <3>0, Zenon
      <4>2. u # w /\ u # 0 /\ u - 1 = w + m
        <5> HIDE DEF n, A, Below
        <5>1. m \in Nat
          BY <2>1, Zenon
        <5> QED
          BY <4>1, <5>1
      <4>3. Len(<<>>) = 0
        OBVIOUS
      <4> QED
        BY <3>0, <4>2, <4>3, Zenon
    <3>2. Parent(r) \in present
      BY <3>1, FixedBus DEF Calm
    <3>3. Parent(r).dom = r.dom /\ Parent(r).route = Front(r.route)
          /\ Len(Parent(r).route) = Len(r.route) - 1
      BY <1>3, <3>1, ParentIsRouter, ParentRoute
    <3>4. IsPrefix(b.route, Front(r.route))
      BY <1>3, <2>2, <3>1, PrefixesOf
    <3>5. Below(Parent(r), m)
      BY <2>2, <3>1, <3>3, <3>4, Zenon
    <3>6. Shown(NameOf(Parent(r)))
      BY <1>5, <3>2, <3>5, Zenon
    <3> QED
      BY <1>2, <3>1, <3>6
  <2> QED
    BY <2>1, <2>2, Zenon
<1>6. 0 .. n \subseteq A
  <2>1. n \in Nat
    BY <1>3
  <2> HIDE DEF n, A
  <2> QED
    BY <1>4, <1>5, <2>1, Induction
<1>7. PICK m \in 0 .. n : n = Len(b.route) + m
  <2>1. Len(b.route) <= n /\ Len(b.route) \in Nat /\ n \in Nat
    BY <1>3, PrefixesOf
  <2>2. n - Len(b.route) \in 0 .. n /\ n = Len(b.route) + (n - Len(b.route))
    <3>1. \A u, w \in Nat : w <= u => u - w \in 0 .. u /\ u = w + (u - w)
      OBVIOUS
    <3> QED
      BY <2>1, <3>1, Zenon
  <2> QED
    BY <2>2, Zenon
<1> QED
  BY <1>6, <1>7, Zenon

\* What has been shown is what was asked for.
LEMMA FinishedAll ==
  ASSUME BusOK, ListsTyped, i \in Nat, Fixed, Calm, Accepted, SoundSoFar,
         RootsReached, ChildrenReached, Finish
  PROVE  IF mode = "verbose" THEN Listed \subseteq Wanted ELSE Listed = Wanted
<1>1. \A a : a \in Listed <=> Shown(a)
  <2>1. DOMAIN printed = 1 .. Len(printed)
    BY DEF ListsTyped
  <2> QED
    BY <2>1, Zenon DEF Listed, Shown
<1>2. Listed \subseteq Wanted
  BY <1>1, Zenon DEF SoundSoFar, Shown
<1>3. ASSUME mode # "verbose" PROVE Wanted \subseteq Listed
  <2>1. \A a \in RootItems : Shown(a)
    BY <1>3, RootsShown
  <2>2. CASE mode = "tree"
    <3>1. RootItems = {NameOf(r) : r \in Roots}
      BY <2>2 DEF RootItems
    <3>2. ASSUME NEW q \in present, NEW b \in Roots, b.dom = q.dom, IsPrefix(b.route, q.route)
          PROVE  Shown(NameOf(q))
      <4>1. b \in present
        BY Zenon DEF Roots
      <4>2. Shown(NameOf(b))
        BY <2>1, <3>1, Zenon
      <4> QED
        BY <2>2, <3>2, <4>1, <4>2, BelowShown
    <3> QED
      BY <1>1, <2>2, <3>2, TreeWanted, Zenon
  <2>3. CASE mode # "tree"
    <3>1. Wanted = RootItems
      <4>1. CASE mode = "retimer"
        BY <4>1 DEF Wanted, RootItems
      <4>2. CASE mode # "retimer"
        BY <2>3, <4>2 DEF Wanted, RootItems
      <4> QED
        BY <4>1, <4>2
    <3> QED
      BY <1>1, <2>1, <3>1, Zenon
  <2> QED
    BY <2>2, <2>3
<1> QED
  BY <1>2, <1>3

\* The invariant holds at the start.
LEMMA QuietInit == Init => QuietInv /\ QuietListing
<1> SUFFICES ASSUME Init PROVE QuietInv /\ QuietListing
  OBVIOUS
<1>1. /\ pc = "main" /\ stack = <<>> /\ printed = <<>>
      /\ present \in Populations /\ gone = {}
  BY DEF Init
<1>2. Accepted /\ RootsReached /\ ChildrenReached
  BY <1>1 DEF Accepted, RootsReached, ChildrenReached, Running, AtItem, Printed
<1>3. SoundSoFar
  BY <1>1 DEF SoundSoFar, AtItem, Printed
<1>4. Fixed
  BY <1>1 DEF Fixed
<1>5. QuietListing
  BY <1>1 DEF QuietListing
<1> QED
  BY <1>2, <1>3, <1>4, <1>5 DEF QuietInv

\* Every step preserves the invariant.
LEMMA QuietStep ==
  ASSUME IInv, OnceInv, OptsInv, Scalars, QuietInv, [Next]_vars
  PROVE  QuietInv'
<1>0. BusOK /\ i \in Nat /\ changes \in Nat /\ Rows /\ Begun
  BY DEF IInv, Scalars, OnceInv
<1>1. CASE changes' # 0
  BY <1>1 DEF QuietInv, Fixed, Calm
<1>2. CASE changes' = 0
  <2>1. UNCHANGED busVars
    BY <1>0, <1>2, BusRests
  <2>2. (Calm' <=> Calm) /\ (Fixed' <=> Fixed)
    BY <2>1, AskedStays
  <2>3. ASSUME Calm PROVE Accepted' /\ SoundSoFar' /\ RootsReached' /\ ChildrenReached'
    <3>1. Fixed /\ Accepted /\ SoundSoFar /\ RootsReached /\ ChildrenReached
      BY <2>3, Zenon DEF QuietInv
    <3>2. CASE pc \in Early
      BY <1>0, <2>1, <2>3, <3>1, <3>2, QuietEarly
    <3>3. CASE pc \notin Early
      BY <1>0, <2>1, <2>3, <3>1, <3>3, AcceptedLate, SoundLate, RootsLate, ChildrenLate
    <3> QED
      BY <3>2, <3>3
  <2> QED
    BY <2>2, <2>3, Zenon DEF QuietInv
<1> QED
  BY <1>1, <1>2

\* The last step is Finish when something, or nothing, is said to have been found.
LEMMA LastStep ==
  ASSUME [Next]_vars, pc' = "exit", told' \in {"listed", "nothing found"}
  PROVE  \/ Finish
         \/ pc = "exit" /\ UNCHANGED vars
<1>1. CASE main \/ Overrun \/ Count \/ Validate \/ Device \/ LinkFound
  BY <1>1 DEF main, Overrun, Count, Validate, Device, LinkFound, Exit, Goto, outcome
<1>2. CASE Ls \/ NextName \/ Return \/ NextDomain \/ Present \/ Header \/ enumerate_dev_tree
  BY <1>2 DEF Ls, NextName, Return, NextDomain, Present, Header, enumerate_dev_tree, Goto
<1>3. CASE Reading
  BY <1>3, ReadingSteps DEF Printed
<1>4. CASE Bus
  BY <1>4 DEF Bus, Plug, Unplug, progVars, Ended
<1>5. CASE UNCHANGED vars
  BY <1>5 DEF vars, progVars
<1> QED
  BY <1>1, <1>2, <1>3, <1>4, <1>5 DEF Next, Program, About, Reading

\* Every step preserves what is said of an undisturbed listing.
LEMMA QuietListed ==
  ASSUME IInv, Scalars, QuietInv, QuietListing, [Next]_vars
  PROVE  QuietListing'
<1>0. BusOK /\ ListsTyped /\ i \in Nat /\ changes \in Nat
  BY DEF IInv, Scalars
<1>1. ASSUME pc' = "exit", told' \in {"listed", "nothing found"}, Calm'
      PROVE  (IF mode = "verbose" THEN Listed \subseteq Wanted ELSE Listed = Wanted)'
  <2>1. UNCHANGED busVars
    BY <1>0, <1>1, BusRests DEF Calm
  <2>2. Calm
    BY <1>1, <2>1, AskedStays
  <2>3. CASE Finish
    <3>1. IF mode = "verbose" THEN Listed \subseteq Wanted ELSE Listed = Wanted
      BY <1>0, <2>2, <2>3, FinishedAll DEF QuietInv
    <3>2. UNCHANGED <<opts, printed>>
      BY <2>3 DEF Finish
    <3>3. mode' = mode /\ Wanted' = Wanted
      BY <2>1, <3>2, AskedStays
    <3>4. Listed' = Listed
      BY <3>2 DEF Listed
    <3> QED
      BY <3>1, <3>3, <3>4
  <2>4. CASE pc = "exit" /\ UNCHANGED vars
    <3>1. UNCHANGED <<opts, printed, told>>
      BY <2>4 DEF vars, progVars, outcome
    <3>2. IF mode = "verbose" THEN Listed \subseteq Wanted ELSE Listed = Wanted
      BY <1>1, <2>2, <2>4, <3>1 DEF QuietListing, Calm
    <3>3. mode' = mode /\ Wanted' = Wanted
      BY <2>1, <3>1, AskedStays
    <3>4. Listed' = Listed
      BY <3>1 DEF Listed
    <3> QED
      BY <3>2, <3>3, <3>4
  <2> QED
    BY <1>1, <2>3, <2>4, LastStep
<1> QED
  BY <1>1 DEF QuietListing, Calm

\* QuietListing: when nothing comes or goes, a listing shows exactly the routers or
\* retimers its arguments ask for, and a verbose one no others, for every
\* population of routers and every command line.
THEOREM ListsWhatIsAsked == Spec => []QuietListing
<1>1. IInv /\ OptsInv /\ Scalars /\ [Next]_vars => Scalars'
  BY OptsTyped, ScalarsStep DEF IInv
<1>2. IInv /\ OnceInv /\ OptsInv /\ Scalars /\ QuietInv /\ [Next]_vars => QuietInv'
  BY QuietStep
<1>3. IInv /\ Scalars /\ QuietInv /\ QuietListing /\ [Next]_vars => QuietListing'
  BY QuietListed
<1> QED
  BY ScalarsInit, QuietInit, <1>1, <1>2, <1>3, Invariant, OnceInvariant, OptsInvariant,
     PTL DEF Spec

=============================================================================
