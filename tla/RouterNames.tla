---------------------------- MODULE RouterNames -----------------------------
(***************************************************************************)
(* Names of routers and what lstbt makes of them (lib/helpers.c and        *)
(* lib/lstbt_t.c).  The kernel names a router by its domain and its route: *)
(* the downstream ports from the host router on, one byte each, printed as *)
(* one hexadecimal number with the deepest port in front.  lstbt tells     *)
(* depth, domain and port from the length of the name and from single      *)
(* characters of it.                                                       *)
(***************************************************************************)
EXTENDS Integers, Sequences

\* The characters of "%llx": two digits per port, no zero in front.
Bytes(route) ==
  [k \in 1 .. 2 * Len(route) |->
     LET port == route[Len(route) - (k - 1) \div 2]
     IN IF k % 2 = 1 THEN port \div 16 ELSE port % 16]

Hex(route) == IF route = <<>> THEN <<0>>
              ELSE IF Bytes(route)[1] = 0 THEN Tail(Bytes(route)) ELSE Bytes(route)

\* "%u-%llx": a domain, its number of digits, and the digits of the route.
Name(dom, route) == [dom |-> dom, hex |-> Hex(route)]

DomainLen(name) == IF name.dom < 10 THEN 1 ELSE 2

strlen(name) == DomainLen(name) + 1 + Len(name.hex)

-----------------------------------------------------------------------------
\* Variant: the domain is not compared.
is_router_format_Any(name, domain) == \A k \in 1 .. Len(name.hex) : name.hex[k] <= 9

\* Decimal digits and a dash only, and the domain in front.
is_router_format(name, domain) ==
  /\ \A k \in 1 .. Len(name.hex) : name.hex[k] <= 9
  /\ name.dom = domain

\* The last character.
is_host_router(name) == name.hex[Len(name.hex)] = 0

\* Variant: the dash is forgotten.
router_len_in_depth_Bare(depth) == IF depth = 0 THEN 3 ELSE 2 * depth

router_len_in_depth(depth) == IF depth = 0 THEN 3 ELSE 2 * depth + 1

is_router_depth(name, depth) ==
  IF depth = 0 THEN is_host_router(name)
  ELSE ~is_host_router(name) /\ strlen(name) = router_len_in_depth(depth)

\* Variant: one hop less.
depth_of_router_Len(name) == IF is_host_router(name) THEN 0 ELSE (strlen(name) - 2) \div 2

depth_of_router(name) == IF is_host_router(name) THEN 0 ELSE (strlen(name) - 1) \div 2

\* The first character.
domain_of_router(name) == IF name.dom < 10 THEN name.dom ELSE name.dom \div 10

\* The third character: a dash, with a domain of two digits.
downstream_port(name) ==
  IF name.dom >= 10 \/ name.hex[1] > 9 THEN 0 ELSE name.hex[1]
=============================================================================
