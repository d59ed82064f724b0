---------------------------- MODULE VerboseDump -----------------------------
(***************************************************************************)
(* What lstbt -v and -vv ask about one router: dump_router_verbose() and   *)
(* the functions it calls (lib/lstbt_v.c), through the getters of module   *)
(* Registers and the lookups of lib/helpers.c.  The program is the         *)
(* sequence of its questions: what is asked next depends on the answers    *)
(* before.  Any question may fail from some moment on, because every       *)
(* lookup counts routers and adapters again (module DebugfsCache) and they *)
(* may be unplugged; and registers of the router may be unreadable, which  *)
(* the kernel's file says in their place.                                  *)
(*                                                                         *)
(* The lookups of one question are one step: what is lost stays lost, so   *)
(* that a loss between them leaves the same answer as one before them.     *)
(***************************************************************************)
EXTENDS Registers, SequencesExt, RouterNames

CONSTANTS
  MaxAdapters,  \* MAX_ADAPTERS (64)
  MaxLosses,    \* bound on what gets lost during a dump
  Envs,         \* routers and verbosities, see below
  HasBit(_, _, _, _, _, _)  \* contents of the registers

ASSUME AdaptersAssumption == MaxAdapters \in 2 .. 64 /\ MaxLosses \in Nat

\* loud: -vv.  route: ports from the host router on.  usb4, up_usb4: the major
\* version of the router and of the one it is connected to is not zero.
\* up_ports: USB4 ports of that one; the router hangs at one of them.
\* types: adapters 1, 2, ... and what they are.  fill: contents of the other
\* registers.  blocked: <<capability, offset>> of unreadable registers.
IsEnv(e) ==
  /\ e.loud \in BOOLEAN /\ e.usb4 \in BOOLEAN /\ e.up_usb4 \in BOOLEAN
  /\ e.route \in Seq(1 .. 63) /\ Len(e.route) <= 7
  /\ e.up_ports \in 1 .. 32
  /\ e.route # <<>> => e.route[Len(e.route)] <= 2 * e.up_ports
  /\ e.types \in Seq(AnyAdp) /\ Len(e.types) < MaxAdapters

ASSUME EnvsAssumption == \A e \in Envs : IsEnv(e)

\* An adapter of no known type has the protocol, version and sub-type of none.
ASSUME NoneAssumption ==
  \A e \in Envs : \A a \in 1 .. Len(e.types) : e.types[a] = NoType =>
    \A t \in DOMAIN PVS : {b \in 0 .. 23 : HasBit(e.fill, "self", "adp", 2, a, b)} # PVS[t]

\* Two lane adapters make a port, and those of a TBT3 router come first:
\* get_usb4_port_num() takes that for granted.
ASSUME LanesAssumption ==
  \A e \in Envs : ~e.usb4 =>
    \A a \in 1 .. Len(e.types) : e.types[a] = "lane" => \A b \in 1 .. a : e.types[b] = "lane"

VARIABLES
  env,
  stack,   \* calls: function, questions left, max_adp, failed before
  types,   \* adp_types
  active,  \* adapters found enabled
  top,     \* topology ID, low and high
  last,    \* last question and its answer
  fate,    \* "running", "done" or "crash"
  lost,    \* what cannot be had any more
  calm,    \* nothing got lost since the function was called
  asked    \* questions while nothing was lost

vars == <<env, stack, types, active, top, last, fate, lost, calm, asked>>

-----------------------------------------------------------------------------
(* The registers *)

IsDevice == ~is_host_router(Name(0, env.route))

Binary(n) == {b \in 0 .. 7 : (n \div 2^b) % 2 = 1}

\* No field read as a number has more than twelve bits.
Number ==
  [S \in SUBSET (0 .. 11) |->
     LET bit(b) == IF b \in S THEN 2^b ELSE 0
     IN bit(0) + bit(1) + bit(2) + bit(3) + bit(4) + bit(5)
          + bit(6) + bit(7) + bit(8) + bit(9) + bit(10) + bit(11)]

At(lo, S) == {lo + b : b \in S}

Pattern(of, cap, off, at) == {b \in Word : HasBit(env.fill, of, cap, off, at, b)}

TypeAt(a) == IF a \in 1 .. Len(env.types) THEN env.types[a] ELSE NoType

ComLen  == 8
Usb4Len == 161

Lanes == {a \in 1 .. Len(env.types) : env.types[a] = "lane"}

\* Bytes lo .. hi of the route.
RouteBits(lo, hi) ==
  UNION {At(8 * (k - lo), Binary(env.route[k])) : k \in lo .. (IF hi < Len(env.route) THEN hi
                                                               ELSE Len(env.route))}

\* What the register contains.
Content(of, cap, off, at) ==
  LET p == Pattern(of, cap, off, at)
      usb4 == IF of = "self" THEN env.usb4 ELSE env.up_usb4
  IN CASE cap = "basic" /\ off = 1 -> (p \ (14 .. 19)) \cup At(14, Binary(Len(env.types)))
       [] cap = "basic" /\ off = 2 -> RouteBits(1, 4)
       [] cap = "basic" /\ off = 3 -> (p \ (0 .. 23)) \cup RouteBits(5, 7)
       [] cap = "basic" /\ off = 4 -> (p \ (29 .. 31)) \cup IF usb4 THEN {29} ELSE {}
       [] cap = "vsec6" /\ off = 2 -> At(8, Binary(ComLen)) \cup At(16, Binary(Usb4Len))
       [] cap = "adp" /\ off = 2 /\ TypeAt(at) # NoType -> PVS[TypeAt(at)]
       [] OTHER -> p

HasCap(of, cap) ==
  cap \in {"vsec1", "vsec6"} => ~(IF of = "self" THEN env.usb4 ELSE env.up_usb4)

Blocked(of, cap, off) == of = "self" /\ <<cap, off>> \in env.blocked

\* get_cap_vcap_start(): a capability is taken to begin with its first readable
\* register.
Lead(of, cap) ==
  IF ~Blocked(of, cap, 0) THEN 0
  ELSE CHOOSE k \in 1 .. 32 :
         ~Blocked(of, cap, k) /\ \A m \in 0 .. k - 1 : Blocked(of, cap, m)

-----------------------------------------------------------------------------
(* Questions *)

\* Variant: ports are counted from one.
get_usb4_port_num_One(adp) == adp \div 2

\* The division of C is towards zero.
get_usb4_port_num(adp) == IF adp = 0 THEN 0 ELSE (adp - 1) \div 2

is_adp_lane_0(a) == types[a] = "lane" /\ a % 2 = 1

HasType(who, a) == types[a] \in who \/ ("lane_0" \in who /\ is_adp_lane_0(a))
                     \/ who = AnyAdp

\* Adapters the search for an entry compares with: one less in a full router.
total_adps == IF Len(env.types) = MaxAdapters - 1 THEN MaxAdapters - 1
              ELSE Len(env.types) + 1

is_adp_present(a) == "adapters" \notin lost /\ a \in 1 .. Len(env.types)

RouterFound(of) == IF of = "self" THEN "router" \notin lost ELSE "upstream" \notin lost

Unavailable == [failed |-> TRUE, word |-> {}]

get_register_val(of, cap, off, at) ==
  LET k == off + Lead(of, cap)
  IN IF HasCap(of, cap) /\ ~Blocked(of, cap, k)
     THEN [failed |-> FALSE, word |-> Content(of, cap, k, at)]
     ELSE Unavailable

get_adapter_register_val(cap, off, a) ==
  IF RouterFound("self") /\ a < total_adps THEN get_register_val("self", cap, off, a)
  ELSE Unavailable

get_router_register_val(of, cap, off) ==
  IF RouterFound(of) THEN get_register_val(of, cap, off, 0) ELSE Unavailable

\* Registers of a port in VSEC6: the common region says where.
PortOffset(of, off, adp) ==
  LET com == get_router_register_val(of, "vsec6", 2)
      Len6(g) == Number[Genuine(Getter[g], com.word)]
  IN IF com.failed THEN -1
     ELSE Len6("get_tbt3_usb4_reg_dwords") * get_usb4_port_num(adp)
            + Len6("get_tbt3_com_reg_dwords") + off

Lookup(q) ==
  LET g == Getter[q.get]
  IN CASE g.who # Router ->
            IF is_adp_present(q.at) /\ HasType(g.who, q.at)
            THEN IF g.host /\ IsDevice THEN [failed |-> FALSE, word |-> {}]
                 ELSE get_adapter_register_val(g.cap, g.off, q.at)
            ELSE Unavailable
       [] g.who = Router /\ q.get \in DOMAIN Vsec6Port ->
            LET off == PortOffset(q.of, g.off, q.at)
            IN IF off < 0 THEN Unavailable ELSE get_router_register_val(q.of, g.cap, off)
       [] OTHER -> get_router_register_val(q.of, g.cap, g.off)

Ports(of) == IF of = "self" THEN (Cardinality(Lanes) + 1) \div 2 ELSE env.up_ports

\* The ports' registers end with the capability, and so does the array of lines made
\* from the kernel's file.
OutOfRange(q) ==
  /\ q.get \in DOMAIN Vsec6Port
  /\ ~Lookup(q).failed
  /\ PortOffset(q.of, Getter[q.get].off, q.at) + Lead(q.of, "vsec6")
       >= ComLen + Usb4Len * Ports(q.of)

Answer(q) ==
  LET r == Lookup(q) IN IF r.failed THEN Sentinel(Getter[q.get])
                        ELSE Genuine(Getter[q.get], r.word)

-----------------------------------------------------------------------------
(* What the callers compare an answer with *)

Unchecked == {"is_wake_enabled_usb3", "is_wake_enabled_dp", "get_wake_status_usb3",
              "get_wake_status_dp", "is_dp_vid_en"}
Codes     == {"get_dp_max_link_rate", "get_dp_max_lane_count", "get_dp_in_nrd_max_lr",
              "get_dp_in_nrd_max_lc"}
By6  == {"get_max_adp"}
By8  == {"get_usb4v", "get_notification_timeout", "is_tbt3_not_supported",
         "is_usb4_port_configured", "is_wake_enabled_pcie", "get_wake_status_pcie",
         "is_tbt3_hot_events_disabled_lane", "get_usb3_scale", "is_usb3_link_valid",
         "get_usb3_actual_lr", "get_usb3_max_sup_lr", "get_usb3_port_link_state",
         "get_pcie_ltssm", "get_dp_hpd_status", "get_dp_in_estimated_bw",
         "get_dp_in_granularity", "get_dp_in_alloc_bw", "get_dp_in_req_bw"}
By16 == {"get_tbt3_wake_events_en", "are_cl0s_enabled", "is_cl1_enabled", "is_cl2_enabled",
         "is_usb4_clx_supported", "get_usb3_consumed_up_bw", "get_usb3_consumed_down_bw",
         "get_usb3_allocated_up_bw", "get_usb3_allocated_down_bw", "is_dp_mst_cap"}
         \cup Codes

By32 == {"get_adp_pvs", "get_top_id_low", "get_top_id_high", "is_router_configured",
         "is_tunneling_on_pcie", "is_tunneling_on_usb3", "is_tunneling_config_valid",
         "is_tunneling_ready", "is_ihci_on", "is_ihci_present", "get_tbt3_lanes_configured",
         "is_tbt3_clx_supported", "is_adp_locked", "are_hot_events_disabled",
         "get_usb4_wake_status", "get_usb4_wakes_en", "is_usb3_adp_en",
         "is_pcie_adp_enabled", "is_pcie_link_up", "is_pcie_tx_ei", "is_pcie_rx_ei",
         "is_pcie_switch_warm_reset", "is_dp_aux_en", "is_dp_dsc_sup", "is_dp_lttpr_sup",
         "is_dp_in_bw_alloc_sup", "is_dp_in_cm_bw_alloc_support",
         "is_dp_in_dptx_bw_alloc_en", "is_dp_in_dptx_req"}

Questions == By6 \cup By8 \cup By16 \cup By32 \cup Unchecked

ComparedWith(get) ==
  CASE get \in By6 -> {6} [] get \in By8 -> {8} [] get \in By16 -> {16} [] OTHER -> {32}

\* The line says that the register is not accessible.
Recognised(q, ans) == q.get \notin Unchecked /\ ans = ComparedWith(q.get)

-----------------------------------------------------------------------------
(* The functions: what each asks first *)

Q(get, at) == [get |-> get, at |-> at, of |-> "self"]
R(get)     == Q(get, 0)
Upstream(q) == [q EXCEPT !.of = "upstream"]

All(gets, at) == [k \in 1 .. Len(gets) |-> Q(gets[k], at)]
When(b, s)    == IF b THEN s ELSE <<>>

\* Variant: one adapter too many.
Adapters_Beyond == 1 .. MaxAdapters

Adapters == 1 .. MaxAdapters - 1

\* The loops over adapters, in their order.
Each(S, items(_)) ==
  FlattenSeq([a \in 1 .. MaxAdapters |-> When(a \in S, items(a))])

OfType(t) == {a \in Adapters : types[a] = t}

LanesUpTo(max) == {a \in Adapters : a <= max /\ is_adp_lane_0(a)}

\* Variant: the loop ends at the number of lane adapters.
LaneLoop_Short == {a \in OfType("lane") : a < Cardinality(OfType("lane"))}

LaneLoop == {a \in OfType("lane") : a < MaxAdapters - 1}

fill_adp_types_in_router == Each(Adapters, LAMBDA a : <<Q("get_adp_pvs", a)>>)

dump_router_verbose ==
  All(<<"fill_adp_types_in_router", "get_top_id_low", "get_top_id_high", "get_max_adp",
        "is_router_configured">>, 0)
  \o When(env.loud, All(<<"get_notification_timeout", "is_tbt3_not_supported",
                          "dump_power_states_compatibility">>, 0))
  \o When(env.loud /\ IsDevice, All(<<"dump_ihci_status", "dump_pcie_tunneling_status",
                                      "dump_usb3_tunneling_status">>, 0))
  \o When(env.loud, <<R("dump_wakes")>>)
  \o <<R("get_usb4v")>>
  \o When(env.loud, <<R("dump_lane_adapters")>>)
  \o <<R("dump_adapters_num")>>
  \o When(env.loud, All(<<"dump_up_usb3_adapters", "dump_down_usb3_adapters",
                          "dump_up_pcie_adapters", "dump_down_pcie_adapters",
                          "dump_dp_in_adapters", "dump_dp_out_adapters">>, 0))

dump_power_states_compatibility ==
  When(IsDevice, All(<<"get_upstream_router", "get_top_id_low", "get_top_id_high",
                       "get_usb4v">>, 0))

dump_ihci_status ==
  All(<<"is_ihci_present", "is_tunneling_config_valid", "is_ihci_on">>, 0)

tunneling_status == All(<<"is_tunneling_config_valid", "is_tunneling_ready">>, 0)

dump_wakes == All(<<"get_max_adp", "get_usb4v">>, 0)

dump_usb4_gen_wakes ==
  All(<<"is_wake_enabled_pcie", "is_wake_enabled_usb3", "is_wake_enabled_dp">>, 0)

dump_gen_wake_status ==
  All(<<"get_wake_status_pcie", "get_wake_status_usb3", "get_wake_status_dp">>, 0)

dump_wake_status ==
  <<R("get_max_adp")>> \o When(IsDevice, <<R("dump_gen_wake_status")>>) \o <<R("get_usb4v")>>

\* USB3, PCIe and DP.
dump_adapters_num == [k \in 1 .. 3 |-> R("get_max_adp")]

dump_lane_adapters == Each(LaneLoop, LAMBDA a : All(<<"is_adp_locked", "get_usb4v">>, a))

\* One function per type in the code.
enabled_adapters(type, enabled, attributes) ==
  <<R("get_max_adp")>> \o Each(OfType(type), LAMBDA a : <<Q(enabled, a)>>)
                       \o When(OfType(type) # {}, <<R(attributes)>>)

dump_usb3_bws_lr_pls ==
  Each(active, LAMBDA a :
    When(~IsDevice, All(<<"get_usb3_scale", "get_usb3_consumed_up_bw",
                          "get_usb3_consumed_down_bw", "get_usb3_allocated_up_bw",
                          "get_usb3_allocated_down_bw">>, a))
    \o All(<<"is_usb3_link_valid", "get_usb3_actual_lr", "get_usb3_max_sup_lr",
             "get_usb3_port_link_state">>, a))

dump_pcie_attributes ==
  Each(active, LAMBDA a :
    All(<<"is_pcie_link_up", "is_pcie_tx_ei", "is_pcie_rx_ei",
          "is_pcie_switch_warm_reset", "get_pcie_ltssm">>, a))

dump_dp_attributes ==
  Each(active, LAMBDA a :
    All(<<"is_dp_mst_cap", "is_dp_dsc_sup", "get_dp_hpd_status", "get_dp_max_link_rate",
          "get_dp_max_lane_count", "is_dp_lttpr_sup">>, a)
    \o When(types[a] = "dp_in",
         All(<<"is_dp_in_bw_alloc_sup", "is_dp_in_cm_bw_alloc_support",
               "is_dp_in_dptx_bw_alloc_en", "get_dp_in_estimated_bw",
               "get_dp_in_nrd_max_lc", "get_dp_in_nrd_max_lr", "get_dp_in_granularity",
               "get_dp_in_alloc_bw", "get_dp_in_req_bw", "is_dp_in_dptx_req">>, a)))

Body(fn) ==
  CASE fn = "fill_adp_types_in_router"        -> fill_adp_types_in_router
    [] fn = "dump_power_states_compatibility" -> dump_power_states_compatibility
    [] fn = "dump_ihci_status"                -> dump_ihci_status
    [] fn = "dump_pcie_tunneling_status"      -> tunneling_status
    [] fn = "dump_usb3_tunneling_status"      -> tunneling_status
    [] fn = "dump_wakes"                      -> dump_wakes
    [] fn = "dump_usb4_gen_wakes"             -> dump_usb4_gen_wakes
    [] fn = "dump_gen_wake_status"            -> dump_gen_wake_status
    [] fn = "dump_wake_status"                -> dump_wake_status
    [] fn = "dump_lane_adapters"              -> dump_lane_adapters
    [] fn = "dump_adapters_num"               -> dump_adapters_num
    [] fn = "dump_up_usb3_adapters"   -> enabled_adapters("up_usb3", "is_usb3_adp_en", "dump_usb3_bws_lr_pls")
    [] fn = "dump_down_usb3_adapters" -> enabled_adapters("down_usb3", "is_usb3_adp_en", "dump_usb3_bws_lr_pls")
    [] fn = "dump_up_pcie_adapters"   -> enabled_adapters("up_pcie", "is_pcie_adp_enabled", "dump_pcie_attributes")
    [] fn = "dump_down_pcie_adapters" -> enabled_adapters("down_pcie", "is_pcie_adp_enabled", "dump_pcie_attributes")
    [] fn = "dump_dp_in_adapters"     -> enabled_adapters("dp_in", "is_dp_aux_en", "dump_dp_attributes")
    [] fn = "dump_dp_out_adapters"    -> enabled_adapters("dp_out", "is_dp_aux_en", "dump_dp_attributes")
    [] fn = "dump_usb3_bws_lr_pls" -> dump_usb3_bws_lr_pls
    [] fn = "dump_pcie_attributes" -> dump_pcie_attributes
    [] fn = "dump_dp_attributes"   -> dump_dp_attributes

-----------------------------------------------------------------------------
(* ... and how it goes on with an answer *)

\* An answer without which the function returns.
Returns ==
  [dump_router_verbose |-> {"get_top_id_low", "get_top_id_high"},
   dump_power_states_compatibility |-> {"get_top_id_low", "get_top_id_high", "get_usb4v"},
   dump_ihci_status |-> {"is_ihci_present", "is_tunneling_config_valid", "is_ihci_on"},
   dump_wakes |-> {"get_max_adp", "get_usb4v"},
   dump_usb4_gen_wakes |-> {"is_wake_enabled_pcie"},
   dump_gen_wake_status |-> {"get_wake_status_pcie"},
   dump_wake_status |-> {"get_max_adp", "get_usb4v"},
   dump_up_usb3_adapters |-> {"get_max_adp"}, dump_down_usb3_adapters |-> {"get_max_adp"},
   dump_up_pcie_adapters |-> {"get_max_adp"}, dump_down_pcie_adapters |-> {"get_max_adp"},
   dump_dp_in_adapters |-> {"get_max_adp"}, dump_dp_out_adapters |-> {"get_max_adp"}]

GivesUp(fn, q, ans) ==
  fn \in DOMAIN Returns /\ q.get \in Returns[fn] /\ Recognised(q, ans)

\* A failed get_usb4v() counts as version 0 where it does not return.
is_usb4(q, ans) == ~Recognised(q, ans) /\ ans \cap (5 .. 7) # {}

LevelOf(id, k) == Number[{b - 8 * k : b \in id \cap (8 * k .. 8 * k + 5)}]

\* The high half is shifted by 23.
TopId == {b + 23 : b \in top.high} \cup top.low

\* Variant: the level below.
get_ups_down_port_Depth(depth) == LevelOf(TopId, depth)

\* Of a device at a depth of at least one.
get_ups_down_port(depth) == LevelOf(TopId, depth - 1)

Depth == depth_of_router(Name(0, env.route))

AfterPower(q, ans) ==
  When(q.get = "get_usb4v",
    IF is_usb4(q, ans) THEN <<Q("is_usb4_port_configured", get_ups_down_port(Depth))>>
    ELSE <<Upstream(Q("get_tbt3_lanes_configured", get_ups_down_port(Depth)))>>)

AfterTunneling(on, q, ans, failed) ==
  When(q.get = "is_tunneling_ready" /\ ~failed /\ ~Recognised(q, ans), <<R(on)>>)

AfterWakes(q, ans, max) ==
  When(q.get = "get_usb4v",
    IF is_usb4(q, ans)
    THEN When(IsDevice, <<R("dump_usb4_gen_wakes")>>)
           \o Each(LanesUpTo(max), LAMBDA a : <<Q("get_usb4_wakes_en", a)>>)
    ELSE Each(LanesUpTo(max), LAMBDA a : <<Q("get_tbt3_wake_events_en", a)>>))

AfterWakeStatus(q, ans, max) ==
  When(q.get = "get_usb4v" /\ is_usb4(q, ans),
       Each(LanesUpTo(max), LAMBDA a : <<Q("get_usb4_wake_status", a)>>))

\* Variant: not only for lane 0.
AfterLane_All(q, ans) ==
  CASE q.get = "get_usb4v" ->
         All(IF is_usb4(q, ans) THEN <<"are_hot_events_disabled", "is_usb4_clx_supported">>
             ELSE <<"is_tbt3_hot_events_disabled_lane", "is_tbt3_clx_supported">>, q.at)
    [] OTHER -> <<>>

AfterLane(q, ans) ==
  CASE q.get = "get_usb4v" /\ is_usb4(q, ans) ->
         <<Q("are_hot_events_disabled", q.at)>>
           \o When(is_adp_lane_0(q.at), <<Q("is_usb4_clx_supported", q.at)>>)
    [] q.get = "get_usb4v" /\ ~is_usb4(q, ans) ->
         All(<<"is_tbt3_hot_events_disabled_lane", "is_tbt3_clx_supported">>, q.at)
    [] q.get \in {"is_tbt3_clx_supported", "is_usb4_clx_supported"} ->
         When(~Recognised(q, ans) /\ ans # {},
              All(<<"are_cl0s_enabled", "is_cl1_enabled", "is_cl2_enabled">>, q.at))
    [] OTHER -> <<>>

AfterHeader(q, ans) ==
  When(q.get = "get_usb4v" /\ env.loud /\ (IsDevice \/ is_usb4(q, ans)),
       <<R("dump_wake_status")>>)

\* is_dp_adp_enabled() asks twice.
AfterEnabled(q, ans) ==
  When(q.get = "is_dp_aux_en" /\ ~Recognised(q, ans), <<Q("is_dp_vid_en", q.at)>>)

After(f, q, ans) ==
  CASE f.fn = "dump_router_verbose"             -> AfterHeader(q, ans)
    [] f.fn = "dump_power_states_compatibility" -> AfterPower(q, ans)
    [] f.fn = "dump_pcie_tunneling_status" -> AfterTunneling("is_tunneling_on_pcie", q, ans, f.failed)
    [] f.fn = "dump_usb3_tunneling_status" -> AfterTunneling("is_tunneling_on_usb3", q, ans, f.failed)
    [] f.fn = "dump_wakes"                      -> AfterWakes(q, ans, f.max)
    [] f.fn = "dump_wake_status"                -> AfterWakeStatus(q, ans, f.max)
    [] f.fn = "dump_lane_adapters"              -> AfterLane(q, ans)
    [] OTHER                                    -> AfterEnabled(q, ans)

\* Variant: asked again until there is an answer.
Rest_Retry(f, q, ans) == IF GivesUp(f.fn, q, ans) THEN f.todo ELSE After(f, q, ans) \o Tail(f.todo)

Rest(f, q, ans) == IF GivesUp(f.fn, q, ans) THEN <<>> ELSE After(f, q, ans) \o Tail(f.todo)

-----------------------------------------------------------------------------
(* Steps *)

Running == fate = "running" /\ stack # <<>>
frame   == Head(stack)
next    == Head(frame.todo)

Frame(fn, todo) == [fn |-> fn, todo |-> todo, max |-> 0, failed |-> FALSE]

Callee == <<[frame EXCEPT !.todo = Tail(@)]>> \o Tail(stack)

Call ==
  /\ Running /\ frame.todo # <<>>
  /\ next.get \notin Questions \cup {"get_upstream_router"}
  /\ stack' = <<Frame(next.get, Body(next.get))>> \o Callee
  /\ active' = IF next.get \in {"dump_usb3_bws_lr_pls", "dump_pcie_attributes",
                                "dump_dp_attributes"} THEN active ELSE {}
  /\ calm' = TRUE
  /\ UNCHANGED <<env, types, top, last, fate, lost, asked>>

\* The link is read and taken apart without a look at whether it was there.
get_upstream_router ==
  /\ Running /\ frame.todo # <<>>
  /\ next.get = "get_upstream_router"
  /\ stack' = Callee
  /\ fate' = IF "link" \in lost THEN "crash" ELSE fate
  /\ UNCHANGED <<env, types, active, top, last, lost, calm, asked>>

TypeOf(ans) ==
  IF \E t \in DOMAIN PVS : PVS[t] = ans THEN CHOOSE t \in DOMAIN PVS : PVS[t] = ans ELSE NoType

\* An index beyond the end of the array would be written, too.
Store(f, i, v) == [k \in DOMAIN f \cup {i} |-> IF k = i THEN v ELSE f[k]]

Enables == {"is_usb3_adp_en", "is_pcie_adp_enabled", "is_dp_aux_en", "is_dp_vid_en"}

Ask ==
  /\ Running /\ frame.todo # <<>>
  /\ next.get \in Questions
  /\ ~OutOfRange(next)
  /\ \E ans \in {Answer(next)} :
     LET q  == next
         ok == ~Recognised(q, ans)
     IN /\ last' = [q |-> q, ans |-> ans, failed |-> Lookup(q).failed,
                      calm |-> calm]
        /\ types' = IF q.get = "get_adp_pvs" THEN Store(types, q.at, TypeOf(ans)) ELSE types
        /\ active' = IF q.get \in Enables /\ ok /\ ans # {} THEN active \cup {q.at} ELSE active
        /\ top' = [top EXCEPT !.low  = IF q.get = "get_top_id_low" /\ ok THEN ans ELSE @,
                              !.high = IF q.get = "get_top_id_high" /\ ok THEN ans ELSE @,
                              !.read = @ \/ (q.get = "get_top_id_high" /\ ok)]
        /\ asked' = IF lost = {} THEN asked \cup {<<q.get, q.at>>} ELSE asked
        /\ stack' = <<[frame EXCEPT
                         !.todo   = Rest(frame, q, ans),
                         !.max    = IF q.get = "get_max_adp" THEN Number[ans] ELSE @,
                         !.failed = @ \/ ~ok]>> \o Tail(stack)
  /\ UNCHANGED <<env, fate, lost, calm>>

AskBeyond ==
  /\ Running /\ frame.todo # <<>>
  /\ next.get \in Questions
  /\ OutOfRange(next)
  /\ fate' = "crash"
  /\ UNCHANGED <<env, stack, types, active, top, last, lost, calm, asked>>

Return ==
  /\ Running /\ frame.todo = <<>>
  /\ stack' = Tail(stack)
  /\ fate' = IF Len(stack) = 1 THEN "done" ELSE fate
  /\ UNCHANGED <<env, types, active, top, last, lost, calm, asked>>

\* Unplugging takes the ports' directories, shortens the search for the entries
\* of the router and of the one above it, and takes the link.
Lose(x) ==
  /\ Running /\ Cardinality(lost) < MaxLosses
  /\ x \notin lost
  /\ lost' = lost \cup {x}
  /\ calm' = FALSE
  /\ asked' = {}
  /\ UNCHANGED <<env, stack, types, active, top, last, fate>>

Init ==
  /\ env \in Envs
  /\ stack = <<Frame("dump_router_verbose", dump_router_verbose)>>
  /\ types = [a \in 0 .. MaxAdapters - 1 |-> NoType]
  /\ active = {}
  /\ top = [read |-> FALSE, low |-> {}, high |-> {}]
  /\ last = [q |-> R("nothing"), ans |-> {}, failed |-> FALSE, calm |-> TRUE]
  /\ fate = "running"
  /\ lost = {} /\ calm = TRUE /\ asked = {}

Program == Call \/ get_upstream_router \/ Ask \/ AskBeyond \/ Return

Bus == \E x \in {"adapters", "router", "upstream", "link"} : Lose(x)

Next == Program \/ Bus \/ (~Running /\ UNCHANGED vars)

Spec == Init /\ [][Next]_vars /\ WF_vars(Program)
-----------------------------------------------------------------------------
TypeOK ==
  /\ IsEnv(env)
  /\ \A k \in 1 .. Len(stack) : stack[k].max \in 0 .. 64 /\ stack[k].failed \in BOOLEAN
  /\ DOMAIN types = 0 .. MaxAdapters - 1
  /\ \A a \in DOMAIN types : types[a] \in AnyAdp
  /\ active \subseteq DOMAIN types
  /\ last.ans \subseteq 0 .. 63
  /\ fate \in {"running", "done", "crash"}
  /\ lost \subseteq {"adapters", "router", "upstream", "link"}

\* The line on sleep of a USB4 router asks the router itself for a port of the
\* one above.
SleepLine(q) == q.get \in {"is_usb4_port_configured", "get_tbt3_lanes_configured"}

Shifted(q) == Lead("self", Getter[q.get].cap) # 0

\* The register a question is about, found without lstbt's arithmetic.
PortOf(a) == CHOOSE p \in 0 .. 31 : a \in {2 * p + 1, 2 * p + 2}

Truth(q) ==
  LET g == Getter[q.get]
  IN FieldOf(g, Content(q.of, g.cap,
                        IF q.get \in DOMAIN Vsec6Port
                        THEN ComLen + Usb4Len * PortOf(q.at) + g.off ELSE g.off,
                        IF g.who = Router THEN 0 ELSE q.at))

Asked == last.q.get \in Questions

\* Link rates and lane counts are printed if they are one of these.
Shown(q, ans) == q.get \in Codes => ans \subseteq 0 .. 2

\* What a line shows as the value of a field is the value of that field in the
\* register of that adapter or port, unless the failure is one lstbt does not
\* look for, in a function during which something was unplugged.  Left out: the
\* line on sleep and capabilities whose first register is unreadable.
ClaimsHold ==
  Asked /\ ~Recognised(last.q, last.ans) /\ Shown(last.q, last.ans)
    /\ ~SleepLine(last.q) /\ ~Shifted(last.q)
    => IF last.failed THEN last.q.get \in Unchecked /\ ~last.calm ELSE last.ans = Truth(last.q)

\* A line says that a register is not accessible exactly when it could not be
\* read: a value is never taken for the sentinel, nor the sentinel for a value.
FailureIsRecognised ==
  Asked /\ last.q.get \notin Unchecked \cup Codes
    => (Recognised(last.q, last.ans) <=> last.failed)

Quiet == lost = {} /\ env.blocked = {}

\* When nothing is unplugged and all registers can be read, every question has
\* an answer: none asks for an adapter of another type, for a capability the
\* router does not have or beyond the end of one, although the port of the router
\* above may be the wrong one: deeper than four levels it comes out as 0.  Left out:
\* adapters that do not exist or are the 63rd, and the answer on sleep.
QuietDumpAnswers ==
  Quiet => /\ fate # "crash"
           /\ Asked /\ last.failed =>
                \/ last.q.get = "get_adp_pvs" /\ ~(last.q.at \in 1 .. Len(env.types)
                                                   /\ last.q.at < MaxAdapters - 1)
                \/ SleepLine(last.q)

Nonzero(get, a) == Truth(Q(get, a)) # {}

\* When nothing is unplugged and all registers can be read, -vv asks for the
\* state of every adapter, and for all attributes of every enabled one.
AllAsked ==
  fate = "done" /\ Quiet /\ env.loud =>
    \A a \in {k \in 1 .. Len(env.types) : k < MaxAdapters - 1} :
      LET Told(get) == <<get, a>> \in asked
      IN CASE env.types[a] = "lane" ->
                /\ Told("is_adp_locked")
                /\ env.usb4 /\ a % 2 = 1 => /\ Told("get_usb4_wakes_en")
                                            /\ Told("get_usb4_wake_status")
                                            /\ Told("is_usb4_clx_supported")
                /\ ~env.usb4 /\ a % 2 = 1 => Told("get_tbt3_wake_events_en")
           [] env.types[a] \in Usb3 ->
                /\ Told("is_usb3_adp_en")
                /\ Nonzero("is_usb3_adp_en", a) => Told("get_usb3_port_link_state")
           [] env.types[a] \in Pcie ->
                /\ Told("is_pcie_adp_enabled")
                /\ Nonzero("is_pcie_adp_enabled", a) => Told("get_pcie_ltssm")
           [] env.types[a] \in Dp ->
                /\ Told("is_dp_aux_en")
                /\ Nonzero("is_dp_aux_en", a) \/ Nonzero("is_dp_vid_en", a) =>
                     Told(IF env.types[a] = "dp_in" THEN "is_dp_in_dptx_req"
                          ELSE "is_dp_lttpr_sup")
           [] OTHER -> TRUE

\* The route printed, and the port of the router above, come from the topology ID
\* in two registers and agree with the route the name was made from, as long as
\* the router is at most four levels deep.
RouteIsRead ==
  top.read /\ Len(env.route) <= 4 /\ Lead("self", "basic") = 0 =>
    /\ \A k \in 0 .. 6 :
         LevelOf(TopId, k) = IF k < Len(env.route) THEN env.route[k + 1] ELSE 0
    /\ IsDevice => get_ups_down_port(Depth) = env.route[Len(env.route)]

\* The dump of a router ends, whatever is unplugged.
Terminates == <>~Running
=============================================================================
