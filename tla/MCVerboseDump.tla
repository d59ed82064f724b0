--------------------------- MODULE MCVerboseDump ----------------------------
(***************************************************************************)
(* Model checking of VerboseDump: hosts and devices of both generations,   *)
(* full and small routers, each with two fillings of the registers, and    *)
(* some with registers that cannot be read.                                *)
(***************************************************************************)
EXTENDS VerboseDump

Env(loud, route, usb4, kinds, fill) ==
  [loud |-> loud, route |-> route, usb4 |-> usb4, up_usb4 |-> usb4, types |-> kinds,
   up_ports |-> 32, fill |-> fill, blocked |-> {}]

Host    == <<"lane", "lane", "down_usb3", "dp_in", "down_pcie", "none">>
Dock    == <<"lane", "lane", "up_usb3", "dp_out", "up_pcie">>
Hub     == <<"lane", "lane", "lane", "lane", "down_usb3", "down_pcie">>
Filled  == <<"lane", "lane", "dp_in", "dp_in", "up_usb3", "up_pcie", "dp_out">>

\* Registers next to each other, of neighbouring adapters and of the router above
\* differ in every bit, and so do the first two fillings.  The third leaves the
\* highest bits unset, so that any register looks like the version of a TBT3 router.
MCHasBit(fill, of, cap, off, at, b) ==
  (b + off + at + fill + IF of = "self" THEN 0 ELSE 1) % 2 = 0 /\ (fill = 2 => b < 29)

MCEnvs ==
  {Env(TRUE, <<>>, TRUE, Host, p) : p \in {0, 1}}
    \cup {Env(TRUE, <<>>, FALSE, Hub, p) : p \in {0, 1}}
    \cup {Env(TRUE, <<3>>, TRUE, Dock, p) : p \in {0, 1}}
    \cup {Env(TRUE, <<1, 3, 5, 63>>, FALSE, Hub, p) : p \in {0, 1}}
    \cup {Env(FALSE, <<1, 3>>, TRUE, Filled, 0), Env(TRUE, <<1, 3, 5>>, TRUE, Filled, 1)}
    \cup {Env(TRUE, <<1, 1, 1, 1, 3>>, TRUE, <<"lane">>, 0)}
    \cup {[Env(TRUE, <<3>>, FALSE, Dock, 0) EXCEPT !.up_usb4 = TRUE]}
    \cup {[Env(TRUE, <<1>>, TRUE, Dock, 0) EXCEPT !.blocked = B] :
             B \in {{<<"basic", 4>>, <<"usb3", 4>>}, {<<"basic", 2>>}, {<<"basic", 5>>, <<"dp", 0>>},
                    {<<"basic", 0>>}, {<<"pcie", 0>>, <<"adp", 4>>}}}
    \cup {[Env(TRUE, <<1>>, FALSE, Hub, 1) EXCEPT !.blocked = B] :
             B \in {{<<"vsec6", 2>>, <<"basic", 6>>}, {<<"vsec6", 0>>}}}
    \cup {[Env(TRUE, r, FALSE, Hub, p) EXCEPT !.up_ports = 2, !.blocked = B] :
             r \in {<<1, 1, 1, 3>>, <<1, 1, 1, 1, 1, 3>>}, p \in {0, 2},
             B \in {{}, {<<"basic", 0>>}}}
=============================================================================
