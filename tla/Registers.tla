----------------------------- MODULE Registers ------------------------------
(***************************************************************************)
(* The getters of lstbt: lib/router.c and lib/adapter.c.  Each reads one   *)
(* word of one capability, masks a field out of it, may shift it down, and *)
(* returns it in a type of some width.  When the word cannot be had it     *)
(* returns a power of two instead, the sentinel, in the same type.         *)
(*                                                                         *)
(* A number is the set of its one bits, so that words of 32 bits and       *)
(* sentinels of 33 can be told apart: {32} is 2^32, {} is zero, masking is *)
(* \cap and a return type of w bits keeps 0 .. w - 1.                      *)
(***************************************************************************)
EXTENDS Integers

Bits(hi, lo) == lo .. hi
Bit(b)       == {b}
Word         == 0 .. 31

\* mask, shift: the field; width: return type; fail: log2 of the sentinel;
\* who: types of adapters it is for; host: zero except on host routers.
Field(cap, off, mask, shift, width, fail, who) ==
  [cap |-> cap, off |-> off, mask |-> mask, shift |-> shift, width |-> width,
   fail |-> fail, who |-> who, host |-> FALSE]

HostOnly(f) == [f EXCEPT !.host = TRUE]

-----------------------------------------------------------------------------
(* Types of adapters, as found by fill_adp_types_in_router() *)

NoType == "none"
Usb3   == {"up_usb3", "down_usb3"}
Pcie   == {"up_pcie", "down_pcie"}
Dp     == {"dp_in", "dp_out"}
AdpTypes == {"lane"} \cup Usb3 \cup Pcie \cup Dp
AnyAdp == AdpTypes \cup {NoType}
Router == {}     \* a getter of router.c

\* Protocol, version and sub-type: get_adp_pvs().
PVS ==
  [lane      |-> {0},
   down_pcie |-> {20, 8, 0}, up_pcie  |-> {20, 8, 1},
   dp_in     |-> {19, 18, 17, 8, 0}, dp_out |-> {19, 18, 17, 8, 1},
   down_usb3 |-> {21, 8, 0}, up_usb3  |-> {21, 8, 1}]

-----------------------------------------------------------------------------
(* router.c.  A parameter of the C function that selects a field is part of *)
(* the name here.                                                           *)

RouterBasic ==
  [get_upstream_adp         |-> Field("basic", 1, Bits(13, 8),  8,  8,  6, Router),
   get_max_adp              |-> Field("basic", 1, Bits(19, 14), 14, 8,  6, Router),
   get_rev_no               |-> Field("basic", 1, Bits(31, 24), 24, 16, 8, Router),
   get_top_id_low           |-> Field("basic", 2, Word,         0,  64, 32, Router),
   get_top_id_high          |-> Field("basic", 3, Bits(23, 0),  0,  64, 32, Router),
   is_router_configured     |-> Field("basic", 3, Bit(31),      0,  64, 32, Router)]

RouterVersion ==
  [get_notification_timeout |-> Field("basic", 4, Bits(7, 0),   0,  16, 8, Router),
   get_cmuv                 |-> Field("basic", 4, Bits(15, 8),  8,  16, 8, Router),
   get_usb4v                |-> Field("basic", 4, Bits(31, 24), 24, 16, 8, Router)]

RouterControl ==
  [is_wake_enabled_pcie     |-> Field("basic", 5, Bit(1),  0, 16, 8, Router),
   is_wake_enabled_usb3     |-> Field("basic", 5, Bit(2),  0, 16, 8, Router),
   is_wake_enabled_dp       |-> Field("basic", 5, Bit(3),  0, 16, 8, Router),
   is_tunneling_on_pcie     |-> Field("basic", 5, Bit(24), 0, 64, 32, Router),
   is_tunneling_on_usb3     |-> Field("basic", 5, Bit(25), 0, 64, 32, Router),
   is_tunneling_on_hci      |-> Field("basic", 5, Bit(26), 0, 64, 32, Router),
   is_ihci_on               |-> Field("basic", 5, Bit(26), 0, 64, 32, Router),
   is_tunneling_config_valid |-> Field("basic", 5, Bit(31), 0, 64, 32, Router)]

RouterStatus ==
  [is_router_sleep_ready    |-> Field("basic", 6, Bit(0),  0, 16, 8, Router),
   is_tbt3_not_supported    |-> Field("basic", 6, Bit(1),  0, 16, 8, Router),
   get_wake_status_pcie     |-> Field("basic", 6, Bit(2),  0, 16, 8, Router),
   get_wake_status_usb3     |-> Field("basic", 6, Bit(3),  0, 16, 8, Router),
   get_wake_status_dp       |-> Field("basic", 6, Bit(4),  0, 16, 8, Router),
   is_ihci_present          |-> Field("basic", 6, Bit(18), 0, 64, 32, Router),
   is_router_ready          |-> Field("basic", 6, Bit(24), 0, 64, 32, Router),
   is_tunneling_ready       |-> Field("basic", 6, Bit(25), 0, 64, 32, Router)]

Vsec1 ==
  [is_tbt3_hot_events_disabled_lane |-> Field("vsec1", 1, Bit(3), 0, 16, 8, Router)]

\* The common region of VSEC6.
Vsec6Common ==
  [get_tbt3_com_reg_dwords  |-> Field("vsec6", 2, Bits(15, 8),  8,  16, 8, Router),
   get_tbt3_usb4_reg_dwords |-> Field("vsec6", 2, Bits(27, 16), 16, 32, 16, Router),
   get_tbt3_usb4_ports      |-> Field("vsec6", 2, Bits(3, 0),   0,  16, 8, Router)]

\* Registers of one port in VSEC6: off is relative to the region of the port.
Vsec6Port ==
  [is_tbt3_bonding_en        |-> Field("vsec6", 141, Bit(12),     0, 32, 16, Router),
   get_tbt3_wake_events_en   |-> Field("vsec6", 150, Bits(10, 0), 0, 32, 16, Router),
   get_tbt3_lanes_configured |-> Field("vsec6", 150, {16, 20},    0, 64, 32, Router),
   is_tbt3_compatible_mode   |-> Field("vsec6", 151, Bit(17),     0, 64, 32, Router),
   is_tbt3_clx_supported     |-> Field("vsec6", 151, Bit(18),     0, 64, 32, Router)]

-----------------------------------------------------------------------------
(* adapter.c *)

AdapterBasic ==
  [get_adp_pvs             |-> Field("adp", 2, Bits(23, 0), 0, 64, 32, AnyAdp),
   is_adp_plugged          |-> Field("adp", 4, Bit(30),     0, 64, 32, AnyAdp),
   is_adp_locked           |-> Field("adp", 4, Bit(31),     0, 64, 32, AnyAdp),
   are_hot_events_disabled |-> Field("adp", 5, Bit(31),     0, 64, 32, AnyAdp)]

LaneCapability ==
  [get_sup_link_speeds |-> Field("lane", 0, Bits(19, 16), 16, 16, 8, {"lane"}),
   get_sup_link_widths |-> Field("lane", 0, Bits(25, 20), 20, 16, 8, {"lane"}),
   are_cl0s_supported  |-> Field("lane", 0, Bit(26), 0, 64, 32, {"lane"}),
   is_cl1_supported    |-> Field("lane", 0, Bit(27), 0, 64, 32, {"lane"}),
   is_cl2_supported    |-> Field("lane", 0, Bit(28), 0, 64, 32, {"lane"})]

LaneControl ==
  [are_cl0s_enabled      |-> Field("lane", 1, Bit(10), 0, 32, 16, {"lane"}),
   is_cl1_enabled        |-> Field("lane", 1, Bit(11), 0, 32, 16, {"lane"}),
   is_cl2_enabled        |-> Field("lane", 1, Bit(12), 0, 32, 16, {"lane"}),
   is_lane_disabled      |-> Field("lane", 1, Bit(14), 0, 32, 16, {"lane"}),
   cur_link_speed        |-> Field("lane", 1, Bits(19, 16), 16, 16, 8, {"lane"}),
   neg_link_width        |-> Field("lane", 1, Bits(25, 20), 20, 16, 8, {"lane"}),
   get_lane_adp_state    |-> Field("lane", 1, Bits(29, 26), 26, 16, 8, {"lane"}),
   is_secondary_lane_adp |-> Field("lane", 1, Bit(30), 0, 64, 32, {"lane"})]

Usb4Port ==
  [get_usb4_cable_version       |-> Field("port", 18, Bits(7, 4), 4, 16, 8, {"lane_0"}),
   is_usb4_bonding_en           |-> Field("port", 18, Bit(8),  0, 32, 16, {"lane_0"}),
   is_usb4_tbt3_compatible_mode |-> Field("port", 18, Bit(9),  0, 32, 16, {"lane_0"}),
   is_usb4_clx_supported        |-> Field("port", 18, Bit(10), 0, 32, 16, {"lane_0"}),
   is_usb4_router_detected      |-> Field("port", 18, Bit(13), 0, 32, 16, {"lane_0"}),
   get_usb4_wake_status         |-> Field("port", 18, Word,    0, 64, 32, {"lane_0"}),
   is_usb4_port_configured      |-> Field("port", 19, Bit(3),  0, 16, 8, {"lane_0"}),
   get_usb4_wakes_en            |-> Field("port", 19, Word,    0, 64, 32, {"lane_0"})]

Usb3Bandwidth ==
  [is_usb3_adp_en             |-> Field("usb3", 0, {30, 31}, 0, 64, 32, Usb3),
   get_usb3_consumed_up_bw    |-> HostOnly(Field("usb3", 1, Bits(11, 0),  0,  32, 16, Usb3)),
   get_usb3_consumed_down_bw  |-> HostOnly(Field("usb3", 1, Bits(23, 12), 12, 32, 16, Usb3)),
   get_usb3_allocated_up_bw   |-> HostOnly(Field("usb3", 2, Bits(11, 0),  0,  32, 16, Usb3)),
   get_usb3_allocated_down_bw |-> HostOnly(Field("usb3", 2, Bits(23, 12), 12, 32, 16, Usb3)),
   get_usb3_scale             |-> HostOnly(Field("usb3", 3, Bits(5, 0),   0,  16, 8, Usb3))]

Usb3Link ==
  [get_usb3_actual_lr       |-> Field("usb3", 4, Bits(6, 0),   0,  16, 8, Usb3),
   is_usb3_link_valid       |-> Field("usb3", 4, Bit(7),       0,  16, 8, Usb3),
   get_usb3_port_link_state |-> Field("usb3", 4, Bits(11, 8),  8,  16, 8, Usb3),
   get_usb3_max_sup_lr      |-> Field("usb3", 4, Bits(18, 12), 12, 16, 8, Usb3)]

PcieStatus ==
  [is_pcie_link_up           |-> Field("pcie", 0, Bit(16), 0, 64, 32, Pcie),
   is_pcie_tx_ei             |-> Field("pcie", 0, Bit(17), 0, 64, 32, Pcie),
   is_pcie_rx_ei             |-> Field("pcie", 0, Bit(18), 0, 64, 32, Pcie),
   is_pcie_switch_warm_reset |-> Field("pcie", 0, Bit(19), 0, 64, 32, Pcie),
   get_pcie_ltssm            |-> Field("pcie", 0, Bits(28, 25), 25, 16, 8, Pcie),
   is_pcie_adp_enabled       |-> Field("pcie", 0, Bit(31), 0, 64, 32, Pcie)]

DpControl ==
  [is_dp_aux_en                |-> Field("dp", 0, Bit(30),      0,  64, 32, Dp),
   is_dp_vid_en                |-> Field("dp", 0, Bit(31),      0,  64, 32, Dp),
   get_dp_in_nrd_max_lc        |-> Field("dp", 2, Bits(2, 0),   0,  16, 8, {"dp_in"}),
   get_dp_hpd_status           |-> Field("dp", 2, Bit(6),       0,  16, 8, Dp),
   get_dp_in_nrd_max_lr        |-> Field("dp", 2, Bits(9, 7),   7,  16, 8, {"dp_in"})]

DpBandwidth ==
  [is_dp_in_cm_ack             |-> Field("dp", 2, Bit(10),      0,  16, 8, {"dp_in"}),
   get_dp_in_granularity       |-> Field("dp", 2, Bits(12, 11), 11, 16, 8, {"dp_in"}),
   is_dp_in_cm_bw_alloc_support |-> Field("dp", 2, Bit(20),     0,  64, 32, {"dp_in"}),
   get_dp_in_estimated_bw      |-> Field("dp", 2, Bits(31, 24), 24, 16, 8, {"dp_in"})]

\* The functions take a flag for the remote side's word, at offset 5.
DpLocalCap ==
  [get_dp_protocol_adp_ver |-> Field("dp", 4, Bits(3, 0),   0,  16, 8, Dp),
   get_dp_max_link_rate    |-> Field("dp", 4, Bits(11, 8),  8,  16, 8, Dp),
   get_dp_max_lane_count   |-> Field("dp", 4, Bits(14, 12), 12, 16, 8, Dp),
   is_dp_mst_cap           |-> Field("dp", 4, Bit(15),      0,  32, 16, Dp),
   is_dp_lttpr_sup         |-> Field("dp", 4, Bit(27),      0,  64, 32, Dp)]

DpLocalFlags ==
  [is_dp_in_bw_alloc_sup   |-> Field("dp", 4, Bit(28),      0,  64, 32, {"dp_in"}),
   is_dp_dsc_sup           |-> Field("dp", 4, Bit(29),      0,  64, 32, Dp)]

DpStatus ==
  [get_dp_in_lane_count    |-> Field("dp", 6, Bits(2, 0),   0,  16, 8, {"dp_in"}),
   get_dp_in_link_rate     |-> Field("dp", 6, Bits(11, 8),  8,  16, 8, {"dp_in"}),
   get_dp_in_alloc_bw      |-> Field("dp", 6, Bits(31, 24), 24, 16, 8, {"dp_in"}),
   get_dp_out_lane_count   |-> Field("dp", 6, Bits(2, 0),   0,  16, 8, {"dp_out"}),
   get_dp_out_link_rate    |-> Field("dp", 6, Bits(11, 8),  8,  16, 8, {"dp_out"}),
   is_dp_out_cm_handshake  |-> Field("dp", 6, Bit(25),      0,  64, 32, {"dp_out"}),
   is_dp_out_dp_in_usb4    |-> Field("dp", 6, Bit(26),      0,  64, 32, {"dp_out"})]

\* The first asks DP_STATUS_CTRL for a bit that adapter.h puts into
\* DP_COMMON_CAP; nothing calls it.
DpRequest ==
  [is_dp_in_dprx_cap_read_done |-> Field("dp", 6, Bit(31),    0, 64, 32, {"dp_in"}),
   get_dp_in_req_bw            |-> Field("dp", 8, Bits(7, 0), 0, 16, 8, {"dp_in"}),
   is_dp_in_dptx_bw_alloc_en   |-> Field("dp", 8, Bit(30),    0, 64, 32, {"dp_in"}),
   is_dp_in_dptx_req           |-> Field("dp", 8, Bit(31),    0, 64, 32, {"dp_in"})]

-----------------------------------------------------------------------------
(* What a getter returns *)

Join(f, g) == [n \in DOMAIN f \cup DOMAIN g |-> IF n \in DOMAIN f THEN f[n] ELSE g[n]]

OfRouters ==
  Join(Join(Join(RouterBasic, RouterVersion), Join(RouterControl, RouterStatus)),
       Join(Vsec1, Join(Vsec6Common, Vsec6Port)))

OfLanes == Join(AdapterBasic, Join(LaneCapability, Join(LaneControl, Usb4Port)))
OfUsb3  == Join(Usb3Bandwidth, Usb3Link)
OfDp    == Join(Join(DpControl, Join(DpBandwidth, DpLocalCap)),
                Join(DpLocalFlags, Join(DpStatus, DpRequest)))

Getter == Join(OfRouters, Join(Join(OfLanes, OfUsb3), Join(PcieStatus, OfDp)))

\* Variant: all of them return u8.
Returned_Byte(g, bits) == bits \cap (0 .. 7)

\* The return type keeps the low bits.
Returned(g, bits) == bits \cap (0 .. g.width - 1)

Sentinel(g) == Returned(g, {g.fail})

\* The field of word w.
FieldOf(g, w) == {b - g.shift : b \in w \cap g.mask}

Genuine(g, w) == Returned(g, FieldOf(g, w))

\* The field and the sentinel fit into the return type, and the sentinel is no
\* bit of the field.
WellFormed(g) ==
  /\ g.fail \in 0 .. g.width - 1
  /\ \A b \in g.mask : b - g.shift \in (0 .. g.width - 1) \ {g.fail}
=============================================================================
