------------------------- MODULE VerboseDumpProofs --------------------------
(***************************************************************************)
(* What lstbt -v and -vv show is true, for all routers, adapters and       *)
(* contents of registers, and whatever is unplugged meanwhile.             *)
(*                                                                         *)
(* No getter can be misunderstood: for every word a register may hold, what*)
(* it returns differs from what it returns when the word could not be had, *)
(* and no bit of the field is lost on the way.  Therefore a value is never *)
(* taken for a failure, nor a failure that is looked for for a value.      *)
(*                                                                         *)
(* The failures that are not looked for are of questions asked right after *)
(* another about the same register.  So the second part is about the order *)
(* of questions: what each function still has to ask, on every path.       *)
(***************************************************************************)
EXTENDS VerboseDump, InductionLemmas, TLAPS

-----------------------------------------------------------------------------
(* The getters *)

\* Sentinels differ from the codes that are printed, too.
Sound(t) == \A n \in DOMAIN t : WellFormed(t[n]) /\ t[n].width \in 1 .. 64 /\ t[n].fail > 2

USE DEF Bits, Bit, Word, Router, Usb3, Pcie, Dp, AnyAdp

\* router.c, words 1 to 3: no sentinel is a value.
LEMMA RouterBasicSound == Sound(RouterBasic)
BY DEF Sound, WellFormed, Field, RouterBasic

\* router.c, word 4: no sentinel is a value.
LEMMA RouterVersionSound == Sound(RouterVersion)
BY DEF Sound, WellFormed, Field, RouterVersion

\* router.c, word 5: no sentinel is a value.
LEMMA RouterControlSound == Sound(RouterControl)
BY DEF Sound, WellFormed, Field, RouterControl

\* router.c, word 6: no sentinel is a value.
LEMMA RouterStatusSound == Sound(RouterStatus)
BY DEF Sound, WellFormed, Field, RouterStatus

\* router.c, VSEC1: no sentinel is a value.
LEMMA Vsec1Sound == Sound(Vsec1)
BY DEF Sound, WellFormed, Field, Vsec1

\* router.c, VSEC6: no sentinel is a value.
LEMMA Vsec6CommonSound == Sound(Vsec6Common)
BY DEF Sound, WellFormed, Field, Vsec6Common

\* router.c, ports in VSEC6: no sentinel is a value.
LEMMA Vsec6PortSound == Sound(Vsec6Port)
BY DEF Sound, WellFormed, Field, Vsec6Port

\* adapter.c, words of any adapter: no sentinel is a value.
LEMMA AdapterBasicSound == Sound(AdapterBasic)
BY DEF Sound, WellFormed, Field, AdapterBasic

\* adapter.c, lanes, word 0: no sentinel is a value.
LEMMA LaneCapabilitySound == Sound(LaneCapability)
BY DEF Sound, WellFormed, Field, LaneCapability

\* adapter.c, lanes, word 1: no sentinel is a value.
LEMMA LaneControlSound == Sound(LaneControl)
BY DEF Sound, WellFormed, Field, LaneControl

\* adapter.c, USB4 ports: no sentinel is a value.
LEMMA Usb4PortSound == Sound(Usb4Port)
BY DEF Sound, WellFormed, Field, Usb4Port

\* adapter.c, USB3, words 0 to 3: no sentinel is a value.
LEMMA Usb3BandwidthSound == Sound(Usb3Bandwidth)
BY DEF Sound, WellFormed, Field, HostOnly, Usb3Bandwidth

\* adapter.c, USB3, word 4: no sentinel is a value.
LEMMA Usb3LinkSound == Sound(Usb3Link)
BY DEF Sound, WellFormed, Field, Usb3Link

\* adapter.c, PCIe: no sentinel is a value.
LEMMA PcieStatusSound == Sound(PcieStatus)
BY DEF Sound, WellFormed, Field, PcieStatus

\* adapter.c, DP, words 0 and 2: no sentinel is a value.
LEMMA DpControlSound == Sound(DpControl)
BY DEF Sound, WellFormed, Field, DpControl

\* adapter.c, DP, word 2: no sentinel is a value.
LEMMA DpBandwidthSound == Sound(DpBandwidth)
BY DEF Sound, WellFormed, Field, DpBandwidth

\* adapter.c, DP, word 4: no sentinel is a value.
LEMMA DpLocalCapSound == Sound(DpLocalCap)
BY DEF Sound, WellFormed, Field, DpLocalCap

\* adapter.c, DP, word 4: no sentinel is a value.
LEMMA DpLocalFlagsSound == Sound(DpLocalFlags)
BY DEF Sound, WellFormed, Field, DpLocalFlags

\* adapter.c, DP, word 6: no sentinel is a value.
LEMMA DpStatusSound == Sound(DpStatus)
BY DEF Sound, WellFormed, Field, DpStatus

\* adapter.c, DP, words 6 and 8: no sentinel is a value.
LEMMA DpRequestSound == Sound(DpRequest)
BY DEF Sound, WellFormed, Field, DpRequest

\* Sound tables make a sound one.
LEMMA JoinSound ==
  ASSUME NEW f, NEW g, Sound(f), Sound(g)
  PROVE  Sound(Join(f, g))
BY DEF Sound, Join

\* No sentinel of any getter is a value.
LEMMA GetterSound == Sound(Getter)
<1>1. Sound(OfRouters)
  BY JoinSound, RouterBasicSound, RouterVersionSound, RouterControlSound, RouterStatusSound,
     Vsec1Sound, Vsec6CommonSound, Vsec6PortSound DEF OfRouters
<1>2. Sound(OfLanes)
  BY JoinSound, AdapterBasicSound, LaneCapabilitySound, LaneControlSound, Usb4PortSound
     DEF OfLanes
<1>3. Sound(OfUsb3)
  BY JoinSound, Usb3BandwidthSound, Usb3LinkSound DEF OfUsb3
<1>4. Sound(OfDp)
  BY JoinSound, DpControlSound, DpBandwidthSound, DpLocalCapSound, DpLocalFlagsSound,
     DpStatusSound, DpRequestSound DEF OfDp
<1> QED
  BY <1>1, <1>2, <1>3, <1>4, JoinSound, PcieStatusSound DEF Getter

\* The two things a caller relies on, for any getter that is well-formed.
LEMMA WellFormedUnambiguous ==
  ASSUME NEW g, WellFormed(g), NEW w \in SUBSET Word
  PROVE  /\ Sentinel(g) = {g.fail}
         /\ Genuine(g, w) = FieldOf(g, w)
         /\ g.fail \notin Genuine(g, w)
<1>1. g.fail \in 0 .. g.width - 1
  BY DEF WellFormed
<1>2. Sentinel(g) = {g.fail}
  BY <1>1 DEF Sentinel, Returned
<1>3. ASSUME NEW b \in FieldOf(g, w)
      PROVE  b \in (0 .. g.width - 1) \ {g.fail}
  BY <1>3 DEF FieldOf, WellFormed
<1> QED
  BY <1>2, <1>3 DEF Genuine, Returned

\* Every getter of router.c and adapter.c: for every content of its register the
\* value is the whole field and differs from the sentinel, although the return
\* types are as narrow as 8 bits and the sentinels as small as 64.
THEOREM GettersAreUnambiguous ==
  \A n \in DOMAIN Getter : \A w \in SUBSET Word :
    /\ Genuine(Getter[n], w) = FieldOf(Getter[n], w)
    /\ Genuine(Getter[n], w) # Sentinel(Getter[n])
<1> SUFFICES ASSUME NEW n \in DOMAIN Getter, NEW w \in SUBSET Word
             PROVE  /\ Genuine(Getter[n], w) = FieldOf(Getter[n], w)
                    /\ Genuine(Getter[n], w) # Sentinel(Getter[n])
  OBVIOUS
<1>1. WellFormed(Getter[n])
  BY GetterSound DEF Sound
<1> QED
  BY <1>1, WellFormedUnambiguous

-----------------------------------------------------------------------------
(* Their callers *)

Checked == Questions \ (Unchecked \cup Codes)

\* Getters that are zero except on host routers, and those of a port in VSEC6.
HostQs == {"get_usb3_scale", "get_usb3_consumed_up_bw", "get_usb3_consumed_down_bw",
           "get_usb3_allocated_up_bw", "get_usb3_allocated_down_bw"}
PortQs == {"is_tbt3_bonding_en", "get_tbt3_wake_events_en", "get_tbt3_lanes_configured",
           "is_tbt3_compatible_mode", "is_tbt3_clx_supported"}

\* Those about the capabilities of a TBT3 router.
Tbt3Qs == PortQs \cup {"is_tbt3_hot_events_disabled_lane"}

\* Questions to the router itself.
RouterQs ==
  {"get_top_id_low", "get_top_id_high", "get_max_adp", "is_router_configured",
   "get_notification_timeout", "is_tbt3_not_supported", "get_usb4v", "is_ihci_present",
   "is_tunneling_config_valid", "is_ihci_on", "is_tunneling_ready", "is_tunneling_on_pcie",
   "is_tunneling_on_usb3", "is_wake_enabled_pcie", "is_wake_enabled_usb3",
   "is_wake_enabled_dp", "get_wake_status_pcie", "get_wake_status_usb3",
   "get_wake_status_dp", "is_tbt3_hot_events_disabled_lane"}

\* Questions to adapters of any type and of each.
AnyQs   == {"get_adp_pvs", "is_adp_locked", "are_hot_events_disabled"}
LaneQs  == {"are_cl0s_enabled", "is_cl1_enabled", "is_cl2_enabled"}
Lane0Qs == {"is_usb4_clx_supported", "get_usb4_wake_status", "get_usb4_wakes_en"}
Usb3Qs  ==
  HostQs \cup {"is_usb3_adp_en", "is_usb3_link_valid", "get_usb3_actual_lr",
              "get_usb3_max_sup_lr", "get_usb3_port_link_state"}
PcieQs  == {"is_pcie_adp_enabled", "is_pcie_link_up", "is_pcie_tx_ei", "is_pcie_rx_ei",
            "is_pcie_switch_warm_reset", "get_pcie_ltssm"}
DpQs    == {"is_dp_aux_en", "is_dp_vid_en", "is_dp_mst_cap", "is_dp_dsc_sup",
            "get_dp_hpd_status", "get_dp_max_link_rate", "get_dp_max_lane_count",
            "is_dp_lttpr_sup"}
DpInQs  == {"is_dp_in_bw_alloc_sup", "is_dp_in_cm_bw_alloc_support",
            "is_dp_in_dptx_bw_alloc_en", "get_dp_in_estimated_bw", "get_dp_in_nrd_max_lc",
            "get_dp_in_nrd_max_lr", "get_dp_in_granularity", "get_dp_in_alloc_bw",
            "get_dp_in_req_bw", "is_dp_in_dptx_req"}

\* What g reads, of whom.
Reads(g, cap, off, who) == g.cap = cap /\ g.off = off /\ g.who = who /\ g.host = FALSE

\* What getter n, which is g, reads, if it is one of those the dump relies on.
Known(n, g) ==
  /\ g.off \in Nat /\ (n \in HostQs \/ g.host = FALSE)
  /\ n \in PortQs => g.who = Router /\ g.cap = "vsec6"
  /\ n = "get_max_adp" => Reads(g, "basic", 1, Router) /\ g.mask = Bits(19, 14) /\ g.shift = 14
  /\ n = "get_top_id_low" => Reads(g, "basic", 2, Router) /\ g.mask = Word /\ g.shift = 0
  /\ n = "get_top_id_high" => Reads(g, "basic", 3, Router) /\ g.mask = 0 .. 23 /\ g.shift = 0
  /\ n \in {"is_wake_enabled_pcie", "is_wake_enabled_usb3", "is_wake_enabled_dp"} =>
       Reads(g, "basic", 5, Router)
  /\ n \in {"get_wake_status_pcie", "get_wake_status_usb3", "get_wake_status_dp"} =>
       Reads(g, "basic", 6, Router)
  /\ n = "get_tbt3_com_reg_dwords" =>
       Reads(g, "vsec6", 2, Router) /\ g.mask = Bits(15, 8) /\ g.shift = 8
  /\ n = "get_tbt3_usb4_reg_dwords" =>
       Reads(g, "vsec6", 2, Router) /\ g.mask = Bits(27, 16) /\ g.shift = 16
  /\ n \in {"is_dp_aux_en", "is_dp_vid_en"} => Reads(g, "dp", 0, Dp)

\* Whom getter n, which is g, is for, and where what it reads is found.
Serves(n, g) ==
  /\ n \in RouterQs => g.who = Router
  /\ n \in AnyQs => g.who = AnyAdp
  /\ n \in LaneQs => g.who = {"lane"}
  /\ n \in Lane0Qs => g.who = {"lane_0"}
  /\ n \in Usb3Qs => g.who = Usb3
  /\ n \in PcieQs => g.who = Pcie
  /\ n \in DpQs => g.who = Dp
  /\ n \in DpInQs => g.who = {"dp_in"}
  /\ n \in Questions \ Tbt3Qs => g.cap \notin {"vsec1", "vsec6"}
  /\ n \in PortQs => g.off < Usb4Len
  /\ n = "get_usb4v" => Reads(g, "basic", 4, Router) /\ g.mask = Bits(31, 24) /\ g.shift = 24
  /\ n = "get_adp_pvs" => Reads(g, "adp", 2, AnyAdp) /\ g.mask = 0 .. 23 /\ g.shift = 0

\* A caller compares with the sentinel the getter returns, and the getters it
\* relies on read what they are meant to.
Agrees(t) ==
  \A n \in DOMAIN t : /\ n \in Checked => ComparedWith(n) = {t[n].fail}
                    /\ Known(n, t[n]) /\ Serves(n, t[n])

USE DEF Known, Serves, Reads, HostQs, PortQs, Tbt3Qs, RouterQs, AnyQs, LaneQs, Lane0Qs, Usb3Qs,
        PcieQs, DpQs, DpInQs, Usb4Len, Checked, Questions, ComparedWith, By6, By8, By16, By32,
        Unchecked, Codes

\* router.c, words 1 to 3: callers compare with the sentinel returned.
LEMMA RouterBasicAgrees == Agrees(RouterBasic)
BY DEF Agrees, Field, RouterBasic

\* router.c, word 4: callers compare with the sentinel returned.
LEMMA RouterVersionAgrees == Agrees(RouterVersion)
BY DEF Agrees, Field, RouterVersion

\* router.c, word 5: callers compare with the sentinel returned.
LEMMA RouterControlAgrees == Agrees(RouterControl)
BY DEF Agrees, Field, RouterControl

\* router.c, word 6: callers compare with the sentinel returned.
LEMMA RouterStatusAgrees == Agrees(RouterStatus)
BY DEF Agrees, Field, RouterStatus

\* router.c, VSEC1: callers compare with the sentinel returned.
LEMMA Vsec1Agrees == Agrees(Vsec1)
BY DEF Agrees, Field, Vsec1

\* router.c, VSEC6: callers compare with the sentinel returned.
LEMMA Vsec6CommonAgrees == Agrees(Vsec6Common)
BY DEF Agrees, Field, Vsec6Common

\* router.c, ports in VSEC6: callers compare with the sentinel returned.
LEMMA Vsec6PortAgrees == Agrees(Vsec6Port)
BY DEF Agrees, Field, Vsec6Port

\* adapter.c, words of any adapter: callers compare with the sentinel returned.
LEMMA AdapterBasicAgrees == Agrees(AdapterBasic)
<1>1. \A n \in DOMAIN AdapterBasic : Serves(n, AdapterBasic[n])
  BY DEF Field, AdapterBasic
<1>2. \A n \in DOMAIN AdapterBasic : n \in Checked => ComparedWith(n) = {AdapterBasic[n].fail}
  BY DEF Field, AdapterBasic
<1>3. \A n \in DOMAIN AdapterBasic : Known(n, AdapterBasic[n])
  BY DEF Field, AdapterBasic
<1> HIDE DEF Known, Serves, Checked, ComparedWith
<1> QED
  BY <1>1, <1>2, <1>3, Zenon DEF Agrees

\* adapter.c, lanes, word 0: callers compare with the sentinel returned.
LEMMA LaneCapabilityAgrees == Agrees(LaneCapability)
BY DEF Agrees, Field, LaneCapability

\* adapter.c, lanes, word 1: callers compare with the sentinel returned.
LEMMA LaneControlAgrees == Agrees(LaneControl)
BY DEF Agrees, Field, LaneControl

\* adapter.c, USB4 ports: callers compare with the sentinel returned.
LEMMA Usb4PortAgrees == Agrees(Usb4Port)
BY DEF Agrees, Field, Usb4Port

\* adapter.c, USB3, words 0 to 3: callers compare with the sentinel returned.
LEMMA Usb3BandwidthAgrees == Agrees(Usb3Bandwidth)
BY DEF Agrees, Field, HostOnly, Usb3Bandwidth

\* adapter.c, USB3, word 4: callers compare with the sentinel returned.
LEMMA Usb3LinkAgrees == Agrees(Usb3Link)
BY DEF Agrees, Field, Usb3Link

\* adapter.c, PCIe: callers compare with the sentinel returned.
LEMMA PcieStatusAgrees == Agrees(PcieStatus)
BY DEF Agrees, Field, PcieStatus

\* adapter.c, DP, words 0 and 2: callers compare with the sentinel returned.
LEMMA DpControlAgrees == Agrees(DpControl)
BY DEF Agrees, Field, DpControl

\* adapter.c, DP, word 2: callers compare with the sentinel returned.
LEMMA DpBandwidthAgrees == Agrees(DpBandwidth)
BY DEF Agrees, Field, DpBandwidth

\* adapter.c, DP, word 4: callers compare with the sentinel returned.
LEMMA DpLocalCapAgrees == Agrees(DpLocalCap)
BY DEF Agrees, Field, DpLocalCap

\* adapter.c, DP, word 4: callers compare with the sentinel returned.
LEMMA DpLocalFlagsAgrees == Agrees(DpLocalFlags)
BY DEF Agrees, Field, DpLocalFlags

\* adapter.c, DP, word 6: callers compare with the sentinel returned.
LEMMA DpStatusAgrees == Agrees(DpStatus)
BY DEF Agrees, Field, DpStatus

\* adapter.c, DP, words 6 and 8: callers compare with the sentinel returned.
LEMMA DpRequestAgrees == Agrees(DpRequest)
BY DEF Agrees, Field, DpRequest

HIDE DEF Known, Serves, Reads, HostQs, PortQs, Tbt3Qs, RouterQs, AnyQs, LaneQs, Lane0Qs, Usb3Qs,
         PcieQs, DpQs, DpInQs, Usb4Len, Checked, Questions, ComparedWith, By6, By8, By16, By32,
         Unchecked, Codes

\* Tables that agree still do when they are put together.
LEMMA JoinAgrees ==
  ASSUME NEW f, NEW g, Agrees(f), Agrees(g)
  PROVE  Agrees(Join(f, g))
BY DEF Agrees, Join

\* What the callers compare with is what the getters return.
LEMMA GetterAgrees == Agrees(Getter)
<1>1. Agrees(OfRouters)
  BY JoinAgrees, RouterBasicAgrees, RouterVersionAgrees, RouterControlAgrees,
     RouterStatusAgrees, Vsec1Agrees, Vsec6CommonAgrees, Vsec6PortAgrees DEF OfRouters
<1>2. Agrees(OfLanes)
  BY JoinAgrees, AdapterBasicAgrees, LaneCapabilityAgrees, LaneControlAgrees,
     Usb4PortAgrees DEF OfLanes
<1>3. Agrees(OfUsb3)
  BY JoinAgrees, Usb3BandwidthAgrees, Usb3LinkAgrees DEF OfUsb3
<1>4. Agrees(OfDp)
  BY JoinAgrees, DpControlAgrees, DpBandwidthAgrees, DpLocalCapAgrees, DpLocalFlagsAgrees,
     DpStatusAgrees, DpRequestAgrees DEF OfDp
<1> QED
  BY <1>1, <1>2, <1>3, <1>4, JoinAgrees, PcieStatusAgrees DEF Getter

\* Names(t): the getters of table t.
Names(t) == DOMAIN t

\* A joined table has the getters of both.
LEMMA JoinNames ==
  ASSUME NEW f, NEW g
  PROVE  Names(Join(f, g)) = Names(f) \cup Names(g)
BY DEF Names, Join

\* Every question has a getter.
LEMMA QuestionsHaveGetters == Questions \subseteq DOMAIN Getter /\ Checked \subseteq Questions
<1>1. Names(Getter) = Names(OfRouters) \cup Names(OfLanes) \cup Names(OfUsb3)
                        \cup Names(PcieStatus) \cup Names(OfDp)
  BY JoinNames DEF Getter
<1>2. Names(OfRouters) = Names(RouterBasic) \cup Names(RouterVersion)
        \cup Names(RouterControl) \cup Names(RouterStatus) \cup Names(Vsec1)
        \cup Names(Vsec6Common) \cup Names(Vsec6Port)
  BY JoinNames DEF OfRouters
<1>3. Names(OfLanes) = Names(AdapterBasic) \cup Names(LaneCapability)
        \cup Names(LaneControl) \cup Names(Usb4Port)
  BY JoinNames DEF OfLanes
<1>4. Names(OfUsb3) = Names(Usb3Bandwidth) \cup Names(Usb3Link)
  BY JoinNames DEF OfUsb3
<1>5. Names(OfDp) = Names(DpControl) \cup Names(DpBandwidth) \cup Names(DpLocalCap)
        \cup Names(DpLocalFlags) \cup Names(DpStatus) \cup Names(DpRequest)
  BY JoinNames DEF OfDp
<1>6. By6 \subseteq Names(RouterBasic)
  BY DEF By6, Names, RouterBasic
<1>7. By8 \subseteq Names(Getter)
  <2>1. {"get_usb4v", "get_notification_timeout"} \subseteq Names(RouterVersion)
    BY DEF Names, RouterVersion
  <2>2. {"is_tbt3_not_supported", "get_wake_status_pcie"} \subseteq Names(RouterStatus)
    BY DEF Names, RouterStatus
  <2>3. "is_wake_enabled_pcie" \in Names(RouterControl)
    BY DEF Names, RouterControl
  <2>4. "is_tbt3_hot_events_disabled_lane" \in Names(Vsec1)
    BY DEF Names, Vsec1
  <2>5. "is_usb4_port_configured" \in Names(Usb4Port)
    BY DEF Names, Usb4Port
  <2>6. "get_usb3_scale" \in Names(Usb3Bandwidth)
    BY DEF Names, Usb3Bandwidth
  <2>7. {"is_usb3_link_valid", "get_usb3_actual_lr", "get_usb3_max_sup_lr",
         "get_usb3_port_link_state"} \subseteq Names(Usb3Link)
    BY DEF Names, Usb3Link
  <2>8. "get_pcie_ltssm" \in Names(PcieStatus)
    BY DEF Names, PcieStatus
  <2>9. "get_dp_hpd_status" \in Names(DpControl)
    BY DEF Names, DpControl
  <2>10. {"get_dp_in_estimated_bw", "get_dp_in_granularity"} \subseteq Names(DpBandwidth)
    BY DEF Names, DpBandwidth
  <2>11. "get_dp_in_alloc_bw" \in Names(DpStatus) /\ "get_dp_in_req_bw" \in Names(DpRequest)
    BY DEF Names, DpStatus, DpRequest
  <2> QED
    BY <1>1, <1>2, <1>3, <1>4, <1>5, <2>1, <2>2, <2>3, <2>4, <2>5, <2>6, <2>7, <2>8, <2>9,
       <2>10, <2>11 DEF By8
<1>8. By16 \subseteq Names(Getter)
  <2>1. "get_tbt3_wake_events_en" \in Names(Vsec6Port)
    BY DEF Names, Vsec6Port
  <2>2. {"are_cl0s_enabled", "is_cl1_enabled", "is_cl2_enabled"} \subseteq Names(LaneControl)
    BY DEF Names, LaneControl
  <2>3. "is_usb4_clx_supported" \in Names(Usb4Port)
    BY DEF Names, Usb4Port
  <2>4. {"get_usb3_consumed_up_bw", "get_usb3_consumed_down_bw", "get_usb3_allocated_up_bw",
         "get_usb3_allocated_down_bw"} \subseteq Names(Usb3Bandwidth)
    BY DEF Names, Usb3Bandwidth
  <2>5. {"is_dp_mst_cap", "get_dp_max_link_rate", "get_dp_max_lane_count"}
          \subseteq Names(DpLocalCap)
    BY DEF Names, DpLocalCap
  <2>6. {"get_dp_in_nrd_max_lr", "get_dp_in_nrd_max_lc"} \subseteq Names(DpControl)
    BY DEF Names, DpControl
  <2> QED
    BY <1>1, <1>2, <1>3, <1>4, <1>5, <2>1, <2>2, <2>3, <2>4, <2>5, <2>6 DEF By16, Codes
<1>9. By32 \subseteq Names(Getter)
  <2>1. {"get_top_id_low", "get_top_id_high", "is_router_configured"} \subseteq Names(RouterBasic)
    BY DEF Names, RouterBasic
  <2>2. {"is_tunneling_on_pcie", "is_tunneling_on_usb3", "is_tunneling_config_valid",
         "is_ihci_on"} \subseteq Names(RouterControl)
    BY DEF Names, RouterControl
  <2>3. {"is_tunneling_ready", "is_ihci_present"} \subseteq Names(RouterStatus)
    BY DEF Names, RouterStatus
  <2>4. {"get_tbt3_lanes_configured", "is_tbt3_clx_supported"} \subseteq Names(Vsec6Port)
    BY DEF Names, Vsec6Port
  <2>5. {"get_adp_pvs", "is_adp_locked", "are_hot_events_disabled"} \subseteq Names(AdapterBasic)
    BY DEF Names, AdapterBasic
  <2>6. {"get_usb4_wake_status", "get_usb4_wakes_en"} \subseteq Names(Usb4Port)
    BY DEF Names, Usb4Port
  <2>7. "is_usb3_adp_en" \in Names(Usb3Bandwidth)
    BY DEF Names, Usb3Bandwidth
  <2>8. {"is_pcie_adp_enabled", "is_pcie_link_up", "is_pcie_tx_ei", "is_pcie_rx_ei",
         "is_pcie_switch_warm_reset"} \subseteq Names(PcieStatus)
    BY DEF Names, PcieStatus
  <2>9. "is_dp_aux_en" \in Names(DpControl) /\ "is_dp_lttpr_sup" \in Names(DpLocalCap)
    BY DEF Names, DpControl, DpLocalCap
  <2>10. {"is_dp_dsc_sup", "is_dp_in_bw_alloc_sup"} \subseteq Names(DpLocalFlags)
    BY DEF Names, DpLocalFlags
  <2>11. "is_dp_in_cm_bw_alloc_support" \in Names(DpBandwidth)
    BY DEF Names, DpBandwidth
  <2>12. {"is_dp_in_dptx_bw_alloc_en", "is_dp_in_dptx_req"} \subseteq Names(DpRequest)
    BY DEF Names, DpRequest
  <2> QED
    BY <1>1, <1>2, <1>3, <1>4, <1>5, <2>1, <2>2, <2>3, <2>4, <2>5, <2>6, <2>7, <2>8, <2>9,
       <2>10, <2>11, <2>12 DEF By32
<1>10. Unchecked \subseteq Names(Getter)
  <2>1. {"is_wake_enabled_usb3", "is_wake_enabled_dp"} \subseteq Names(RouterControl)
    BY DEF Names, RouterControl
  <2>2. {"get_wake_status_usb3", "get_wake_status_dp"} \subseteq Names(RouterStatus)
    BY DEF Names, RouterStatus
  <2>3. "is_dp_vid_en" \in Names(DpControl)
    BY DEF Names, DpControl
  <2> QED
    BY <1>1, <1>2, <1>5, <2>1, <2>2, <2>3 DEF Unchecked
<1>11. Questions = By6 \cup By8 \cup By16 \cup By32 \cup Unchecked /\ Checked \subseteq Questions
  BY Zenon DEF Checked, Questions
<1> QED
  BY <1>1, <1>2, <1>6, <1>7, <1>8, <1>9, <1>10, <1>11 DEF Names

-----------------------------------------------------------------------------
\* Bytes of the route fit where they are put.
LEMMA RouteFits ==
  ASSUME IsEnv(env)
  PROVE  RouteBits(1, 4) \subseteq Word /\ RouteBits(5, 7) \subseteq 0 .. 23
<1>1. Len(env.route) \in Nat
  BY DEF IsEnv
<1>2. \A n : Binary(n) \subseteq 0 .. 7
  BY DEF Binary
<1>3. ASSUME NEW lo \in Nat, NEW hi \in Nat, NEW x \in RouteBits(lo, hi)
      PROVE  x \in 0 .. 8 * (hi - lo) + 7
  <2>1. PICK k \in lo .. (IF hi < Len(env.route) THEN hi ELSE Len(env.route)) :
          x \in At(8 * (k - lo), Binary(env.route[k]))
    BY <1>3 DEF RouteBits
  <2>2. PICK b \in 0 .. 7 : x = 8 * (k - lo) + b
    BY <2>1, <1>2 DEF At
  <2>3. k \in Int /\ lo <= k /\ k <= hi
    BY <1>1
  <2> QED
    BY <2>2, <2>3
<1>4. 8 * (4 - 1) + 7 = 31 /\ 8 * (7 - 5) + 7 = 23
  OBVIOUS
<1> QED
  BY <1>3, <1>4 DEF Word

\* A register has 32 bits.
LEMMA ContentFits ==
  ASSUME IsEnv(env), NEW of, NEW cap, NEW off, NEW at
  PROVE  Content(of, cap, off, at) \subseteq Word
<1> DEFINE p == Pattern(of, cap, off, at)
           usb4 == IF of = "self" THEN env.usb4 ELSE env.up_usb4
<1>1. p \subseteq Word
  BY DEF Pattern
<1>2. \A lo \in 0 .. 16 : \A n : At(lo, Binary(n)) \subseteq Word
  BY DEF At, Binary, Word
<1>3. TypeAt(at) # NoType => PVS[TypeAt(at)] \subseteq Word
  <2>1. ASSUME at \in 1 .. Len(env.types) PROVE env.types[at] \in AnyAdp
    BY <2>1 DEF IsEnv
  <2>2. TypeAt(at) # NoType => TypeAt(at) \in AdpTypes
    BY <2>1 DEF TypeAt, AnyAdp
  <2>3. \A t \in AdpTypes : PVS[t] \subseteq Word
    BY DEF AdpTypes, PVS, Usb3, Pcie, Dp, Word
  <2> QED
    BY <2>2, <2>3
<1> HIDE DEF Word, Bit, Bits, Router, Usb3, Pcie, Dp, AnyAdp
<1>4. CASE cap = "basic" /\ off = 1
  BY <1>1, <1>2, <1>4 DEF Content
<1>5. CASE cap = "basic" /\ off = 2
  BY <1>5, RouteFits DEF Content
<1>6. CASE cap = "basic" /\ off = 3
  BY <1>1, <1>6, RouteFits DEF Content, Word
<1>7. CASE cap = "basic" /\ off = 4
  BY <1>1, <1>7 DEF Content, Word
<1>8. CASE cap = "vsec6" /\ off = 2
  BY <1>2, <1>8 DEF Content
<1>9. CASE cap = "adp" /\ off = 2 /\ TypeAt(at) # NoType
  BY <1>3, <1>9 DEF Content
<1>10. CASE /\ cap = "basic" => off \notin 1 .. 4
            /\ ~(cap = "vsec6" /\ off = 2)
            /\ ~(cap = "adp" /\ off = 2 /\ TypeAt(at) # NoType)
  BY <1>1, <1>10 DEF Content
<1> QED
  BY <1>4, <1>5, <1>6, <1>7, <1>8, <1>9, <1>10

\* What a lookup finds is a word, whichever way it goes.
LEMMA LookupFindsWord ==
  ASSUME IsEnv(env), NEW q
  PROVE  /\ Lookup(q).failed \in BOOLEAN
         /\ Lookup(q).word \in SUBSET Word
<1> DEFINE Found(r) == r.failed \in BOOLEAN /\ r.word \in SUBSET Word
<1>1. Found(Unavailable)
  BY DEF Unavailable
<1>2. \A of, cap, off, at : Found(get_register_val(of, cap, off, at))
  BY <1>1, ContentFits DEF get_register_val
<1>3. \A of, cap, off : Found(get_router_register_val(of, cap, off))
  BY <1>1, <1>2 DEF get_router_register_val
<1>4. \A cap, off, a : Found(get_adapter_register_val(cap, off, a))
  BY <1>1, <1>2 DEF get_adapter_register_val
<1>5. Found([failed |-> FALSE, word |-> {}])
  OBVIOUS
<1> HIDE DEF Found
<1>6. Found(Lookup(q))
  <2>1. CASE Getter[q.get].who # Router
    BY <1>1, <1>4, <1>5, <2>1 DEF Lookup
  <2>2. CASE Getter[q.get].who = Router /\ q.get \in DOMAIN Vsec6Port
    BY <1>1, <1>3, <2>2 DEF Lookup
  <2>3. CASE Getter[q.get].who = Router /\ q.get \notin DOMAIN Vsec6Port
    BY <1>3, <2>3 DEF Lookup
  <2> QED
    BY <2>1, <2>2, <2>3
<1> QED
  BY <1>6 DEF Found

\* The answer to a question that is checked is the sentinel its caller looks for
\* exactly when the lookup failed.
LEMMA AnswerIsRecognised ==
  ASSUME IsEnv(env), NEW q, q.get \in Checked
  PROVE  Recognised(q, Answer(q)) <=> Lookup(q).failed
<1> DEFINE g == Getter[q.get]
           r == Lookup(q)
<1>1. WellFormed(g) /\ ComparedWith(q.get) = {g.fail}
  BY QuestionsHaveGetters, GetterSound, GetterAgrees DEF Sound, Agrees
<1>2. r.failed \in BOOLEAN /\ r.word \in SUBSET Word
  BY LookupFindsWord
<1>3. Recognised(q, Answer(q)) <=> Answer(q) = {g.fail}
  BY <1>1 DEF Recognised, Checked
<1>4. CASE r.failed
  BY <1>1, <1>3, <1>4, WellFormedUnambiguous, {} \in SUBSET Word DEF Answer
<1>5. CASE ~r.failed
  <2>1. g.fail \notin Genuine(g, r.word)
    BY <1>1, <1>2, WellFormedUnambiguous
  <2>2. Answer(q) = Genuine(g, r.word)
    BY <1>5 DEF Answer
  <2> QED
    BY <1>3, <1>5, <2>1, <2>2
<1> QED
  BY <1>2, <1>4, <1>5

-----------------------------------------------------------------------------
\* The invariant, and the environment it rests on.
IInv == env \in Envs /\ FailureIsRecognised

\* How many adapters a router may have.
LEMMA AdaptersFit == MaxAdapters \in 2 .. 64 /\ MaxAdapters \in Nat
BY AdaptersAssumption

\* The routers a run is about are routers.
LEMMA EnvIsOne == env \in Envs => IsEnv(env)
BY EnvsAssumption

\* Nothing has been asked yet.
LEMMA InitRecognises == Init => IInv
<1> SUFFICES ASSUME Init PROVE FailureIsRecognised
  BY DEF Init, IInv
<1>1. last.q.get = "nothing"
  BY DEF Init, R, Q
<1>2. "nothing" \notin Questions
  BY DEF Questions, By6, By8, By16, By32, Unchecked, Codes
<1> QED
  BY <1>1, <1>2 DEF FailureIsRecognised, Asked

\* A question keeps the invariant, whatever its lookup finds.
LEMMA AskRecognises ==
  ASSUME IInv, Ask
  PROVE  IInv'
<1>1. IsEnv(env)
  BY EnvIsOne DEF IInv
<1>2. env' = env
  BY DEF Ask
<1>3. /\ last'.q = next
      /\ last'.ans = Answer(next)
      /\ last'.failed = Lookup(next).failed
  BY DEF Ask
<1>4. ASSUME next.get \in Checked
      PROVE  Recognised(last'.q, last'.ans) <=> last'.failed
  BY <1>1, <1>3, <1>4, AnswerIsRecognised
<1> QED
  BY <1>2, <1>3, <1>4 DEF IInv, FailureIsRecognised, Asked, Recognised, Checked

\* So does every step: the others leave the last answer alone.
LEMMA StepRecognises == IInv /\ [Next]_vars => IInv'
<1> SUFFICES ASSUME IInv, [Next]_vars PROVE IInv'
  OBVIOUS
<1>1. ASSUME UNCHANGED <<env, last>> PROVE IInv'
  BY <1>1 DEF IInv, FailureIsRecognised, Asked, Recognised
<1>2. CASE Call
  BY <1>1, <1>2 DEF Call
<1>3. CASE get_upstream_router
  BY <1>1, <1>3 DEF get_upstream_router
<1>4. CASE Ask
  BY <1>4, AskRecognises
<1>5. CASE AskBeyond
  BY <1>1, <1>5 DEF AskBeyond
<1>6. CASE Return
  BY <1>1, <1>6 DEF Return
<1>7. CASE Bus
  BY <1>1, <1>7 DEF Bus, Lose
<1>8. CASE UNCHANGED vars
  BY <1>1, <1>8 DEF vars
<1> QED
  BY <1>2, <1>3, <1>4, <1>5, <1>6, <1>7, <1>8 DEF Next, Program

\* In every dump of every router, whatever its registers contain and whatever is
\* unplugged meanwhile, a line of lstbt -v or -vv says that a register is not
\* accessible exactly when it could not be read.
THEOREM FailuresRecognised == Spec => []FailureIsRecognised
<1>1. IInv => FailureIsRecognised
  BY DEF IInv
<1> QED
  BY InitRecognises, StepRecognises, <1>1, PTL DEF Spec

HIDE DEF Bits, Bit, Word, Router, Usb3, Pcie, Dp, AnyAdp

-----------------------------------------------------------------------------
(* Numbers and their bits *)

\* The values of the bits.
LEMMA Powers ==
  /\ 2^0 = 1 /\ 2^1 = 2 /\ 2^2 = 4 /\ 2^3 = 8 /\ 2^4 = 16 /\ 2^5 = 32
  /\ 2^6 = 64 /\ 2^7 = 128 /\ 2^8 = 256 /\ 2^9 = 512 /\ 2^10 = 1024 /\ 2^11 = 2048
OBVIOUS

\* Value(S): the sum of the bits in S.
Value(S) ==
  (IF 0 \in S THEN 1 ELSE 0) + (IF 1 \in S THEN 2 ELSE 0) + (IF 2 \in S THEN 4 ELSE 0)
    + (IF 3 \in S THEN 8 ELSE 0) + (IF 4 \in S THEN 16 ELSE 0) + (IF 5 \in S THEN 32 ELSE 0)
    + (IF 6 \in S THEN 64 ELSE 0) + (IF 7 \in S THEN 128 ELSE 0) + (IF 8 \in S THEN 256 ELSE 0)
    + (IF 9 \in S THEN 512 ELSE 0) + (IF 10 \in S THEN 1024 ELSE 0)
    + (IF 11 \in S THEN 2048 ELSE 0)

\* Number adds them up.
LEMMA NumberIsValue ==
  ASSUME NEW S \in SUBSET (0 .. 11)
  PROVE  Number[S] = Value(S)
BY Powers DEF Number, Value

\* How large the numbers are.
LEMMA NumberFits ==
  ASSUME NEW S
  PROVE  /\ S \subseteq 0 .. 5 => Number[S] \in 0 .. 63
         /\ S \subseteq 0 .. 11 => Number[S] \in Nat
<1>1. ASSUME S \subseteq 0 .. 5 PROVE Number[S] \in 0 .. 63
  <2>1. S \in SUBSET (0 .. 11)
    BY <1>1
  <2>2. \A b \in {6, 7, 8, 9, 10, 11} : b \notin S
    BY <1>1
  <2> QED
    BY <2>1, <2>2, NumberIsValue DEF Value
<1>2. ASSUME S \subseteq 0 .. 11 PROVE Number[S] \in Nat
  BY <1>2, NumberIsValue DEF Value
<1> QED
  BY <1>1, <1>2

\* The value returned when the number of adapters cannot be read is 64.
LEMMA NumberOfSentinel == Number[{6}] = 64
<1>1. {6} \in SUBSET (0 .. 11)
  OBVIOUS
<1> QED
  BY <1>1, NumberIsValue DEF Value

\* The bits of a byte.
LEMMA BinaryIs ==
  ASSUME NEW n \in Nat
  PROVE  /\ Binary(n) \subseteq 0 .. 7
         /\ 0 \in Binary(n) <=> n % 2 = 1
         /\ 1 \in Binary(n) <=> (n \div 2) % 2 = 1
         /\ 2 \in Binary(n) <=> (n \div 4) % 2 = 1
         /\ 3 \in Binary(n) <=> (n \div 8) % 2 = 1
         /\ 4 \in Binary(n) <=> (n \div 16) % 2 = 1
         /\ 5 \in Binary(n) <=> (n \div 32) % 2 = 1
         /\ 6 \in Binary(n) <=> (n \div 64) % 2 = 1
         /\ 7 \in Binary(n) <=> (n \div 128) % 2 = 1
<1>1. n \div 1 = n
  OBVIOUS
<1> QED
  BY <1>1, Powers DEF Binary

\* A number put into bits is read back.
LEMMA NumberOfBinary ==
  ASSUME NEW n \in 0 .. 255
  PROVE  Number[Binary(n)] = n
<1>1. Binary(n) \in SUBSET (0 .. 11) /\ \A b \in {8, 9, 10, 11} : b \notin Binary(n)
  BY BinaryIs
<1>2. n = (n % 2) + 2 * ((n \div 2) % 2) + 4 * ((n \div 4) % 2) + 8 * ((n \div 8) % 2)
            + 16 * ((n \div 16) % 2) + 32 * ((n \div 32) % 2) + 64 * ((n \div 64) % 2)
            + 128 * ((n \div 128) % 2)
  OBVIOUS
<1>3. \A k \in Nat : k % 2 = 0 \/ k % 2 = 1
  OBVIOUS
<1>4. \A k \in {2, 4, 8, 16, 32, 64, 128} : n \div k \in Nat
  OBVIOUS
<1>5. Value(Binary(n)) = n
  BY <1>1, <1>2, <1>3, <1>4, BinaryIs DEF Value
<1> QED
  BY <1>1, <1>5, NumberIsValue

\* Ports have six bits.
LEMMA PortBits ==
  ASSUME NEW n \in 0 .. 63
  PROVE  Binary(n) \subseteq 0 .. 5
<1>1. (n \div 64) % 2 = 0 /\ (n \div 128) % 2 = 0
  OBVIOUS
<1>2. 6 \notin Binary(n) /\ 7 \notin Binary(n) /\ Binary(n) \subseteq 0 .. 7
  BY <1>1, BinaryIs
<1> QED
  BY <1>2

-----------------------------------------------------------------------------
(* The topology ID *)

\* The route is one of at most seven ports.
LEMMA RouteType ==
  ASSUME IsEnv(env)
  PROVE  /\ Len(env.route) \in 0 .. 7
         /\ DOMAIN env.route = 1 .. Len(env.route)
         /\ \A k \in 1 .. Len(env.route) : env.route[k] \in 1 .. 63
<1>1. ASSUME NEW T, NEW r \in Seq(T)
      PROVE  /\ Len(r) \in Nat /\ DOMAIN r = 1 .. Len(r)
             /\ \A k \in 1 .. Len(r) : r[k] \in T
  OBVIOUS
<1>2. env.route \in Seq(1 .. 63) /\ Len(env.route) <= 7
  BY DEF IsEnv
<1>3. \A n \in Nat : n <= 7 => n \in 0 .. 7
  OBVIOUS
<1> QED
  BY <1>1, <1>2, <1>3, Zenon

\* Where the bits of four ports stand.
LEMMA BitsOfRoute ==
  ASSUME IsEnv(env), NEW k \in 0 .. 6, Len(env.route) <= 4
  PROVE  {b - 8 * k : b \in RouteBits(1, 4) \cap (8 * k .. 8 * k + 5)}
           = IF k < Len(env.route) THEN Binary(env.route[k + 1]) ELSE {}
<1> DEFINE n == Len(env.route)
           S == {b - 8 * k : b \in RouteBits(1, 4) \cap (8 * k .. 8 * k + 5)}
<1>1. n \in 0 .. 4
  <2>1. \A m \in 0 .. 7 : m <= 4 => m \in 0 .. 4
    OBVIOUS
  <2> QED
    BY <2>1, RouteType, Zenon
<1>2. \A j \in 1 .. n : Binary(env.route[j]) \subseteq 0 .. 5
  <2>1. \A j \in 1 .. 63 : j \in 0 .. 63
    OBVIOUS
  <2> QED
    BY <2>1, RouteType, PortBits, Zenon
<1>3. \A x : x \in RouteBits(1, 4) <=>
               \E j \in 1 .. n : \E b \in Binary(env.route[j]) : x = 8 * (j - 1) + b
  <2>1. 1 .. (IF 4 < n THEN 4 ELSE n) = 1 .. n
    BY <1>1
  <2>2. RouteBits(1, 4) = UNION {At(8 * (j - 1), Binary(env.route[j])) : j \in 1 .. n}
    BY <2>1, Zenon DEF RouteBits
  <2>3. \A x, lo, B : x \in At(lo, B) <=> \E b \in B : x = lo + b
    BY DEF At
  <2>4. \A x : x \in RouteBits(1, 4) <=>
                 \E j \in 1 .. n : x \in At(8 * (j - 1), Binary(env.route[j]))
    BY <2>2, Zenon
  <2> HIDE DEF n
  <2> QED
    BY <2>3, <2>4
<1>4. \A j \in 1 .. n, b \in 0 .. 5 : 8 * (j - 1) + b \in 8 * k .. 8 * k + 5 <=> j = k + 1
  BY <1>1
<1>5. ASSUME NEW x \in S PROVE k < n /\ x \in Binary(env.route[k + 1])
  <2>1. PICK y \in RouteBits(1, 4) : y \in 8 * k .. 8 * k + 5 /\ x = y - 8 * k
    BY <1>5
  <2>2. PICK j \in 1 .. n : \E b \in Binary(env.route[j]) : y = 8 * (j - 1) + b
    BY <1>3, <2>1
  <2>3. PICK b \in Binary(env.route[j]) : y = 8 * (j - 1) + b
    BY <2>2
  <2>4. b \in 0 .. 5
    BY <1>2, <2>3
  <2>5. j = k + 1
    BY <1>4, <2>1, <2>3, <2>4
  <2>6. x = b /\ k < n
    BY <1>1, <2>1, <2>3, <2>4, <2>5
  <2> QED
    BY <2>3, <2>5, <2>6
<1>6. ASSUME k < n, NEW b \in Binary(env.route[k + 1]) PROVE b \in S
  <2>1. k + 1 \in 1 .. n /\ k + 1 - 1 = k
    BY <1>1, <1>6
  <2>2. b \in 0 .. 5
    BY <1>2, <2>1, Zenon
  <2>3. PICK y : y = 8 * (k + 1 - 1) + b
    OBVIOUS
  <2>4. y \in RouteBits(1, 4)
    <3> HIDE DEF n
    <3> QED
      BY <1>3, <1>6, <2>1, <2>3
  <2>5. y \in 8 * k .. 8 * k + 5 /\ b = y - 8 * k
    BY <2>2, <2>3
  <2> QED
    BY <2>4, <2>5, Zenon
<1> HIDE DEF S, n
<1>7. S = IF k < n THEN Binary(env.route[k + 1]) ELSE {}
  BY <1>5, <1>6
<1> QED
  BY <1>7 DEF S, n

\* The depth is cut from the name; that of a device is its number of hops, even
\* if its ports take two digits.
LEMMA DepthOfDevice ==
  ASSUME IsEnv(env), IsDevice
  PROVE  Depth = Len(env.route) /\ env.route # <<>>
<1> DEFINE r == env.route
           n == Len(env.route)
           name == Name(0, env.route)
<1>1. n \in 0 .. 7 /\ (n = 0 <=> r = <<>>)
  BY RouteType DEF IsEnv
<1>2. ~is_host_router(name) /\ name.dom = 0 /\ name.hex = Hex(r)
  BY DEF IsDevice, Name
<1>3. r # <<>>
  <2>1. ASSUME r = <<>> PROVE FALSE
    <3>1. Hex(r) = <<0>>
      BY <2>1 DEF Hex
    <3> QED
      BY <1>2, <3>1 DEF is_host_router
  <2> QED
    BY <2>1
<1>4. Len(Hex(r)) \in {2 * n, 2 * n - 1}
  <2>1. Bytes(r) \in Seq(Int) /\ Len(Bytes(r)) = 2 * n
    <3>1. \A k \in 1 .. 2 * n : n - (k - 1) \div 2 \in 1 .. n
      BY <1>1
    <3>2. ASSUME NEW k \in 1 .. 2 * n PROVE Bytes(r)[k] \in Int
      <4>1. PICK p \in 1 .. 63 : p = r[n - (k - 1) \div 2]
        BY <3>1, RouteType
      <4>2. Bytes(r)[k] = IF k % 2 = 1 THEN p \div 16 ELSE p % 16
        BY <4>1 DEF Bytes
      <4> QED
        BY <4>2
    <3>3. DOMAIN Bytes(r) = 1 .. 2 * n /\ 2 * n \in Nat
      BY <1>1 DEF Bytes
    <3>4. Bytes(r) = [k \in 1 .. 2 * n |-> Bytes(r)[k]]
      BY Zenon DEF Bytes
    <3> QED
      BY <3>2, <3>3, <3>4
  <2>2. Bytes(r) # <<>>
    BY <1>1, <1>3, <2>1
  <2>3. Len(Tail(Bytes(r))) = 2 * n - 1
    BY <1>1, <2>1, <2>2
  <2> QED
    BY <1>3, <2>1, <2>3 DEF Hex
<1>5. depth_of_router(name) = (2 + Len(Hex(r)) - 1) \div 2
  <2>1. DomainLen(name) = 1
    BY <1>2 DEF DomainLen
  <2>2. strlen(name) = 2 + Len(Hex(r))
    <3>1. 1 + 1 = 2
      OBVIOUS
    <3> QED
      BY <1>2, <2>1, <3>1, Zenon DEF strlen
  <2> HIDE DEF name
  <2> QED
    BY <1>2, <2>2 DEF depth_of_router
<1>6. (2 + Len(Hex(r)) - 1) \div 2 = n
  BY <1>1, <1>4
<1> QED
  BY <1>3, <1>5, <1>6 DEF Depth

\* What the register holds is read, as long as it can be read.
TopRead ==
  Lead("self", "basic") = 0 => top.low = RouteBits(1, 4) /\ top.high = RouteBits(5, 7)

\* ... as far as it has been read.
TopSeen ==
  Lead("self", "basic") = 0 =>
    top.low \in {{}, RouteBits(1, 4)} /\ top.high \in {{}, RouteBits(5, 7)}

\* From both halves the route is put together.
LEMMA RouteOfTop ==
  ASSUME IsEnv(env), top.read => TopRead
  PROVE  RouteIsRead
<1> SUFFICES ASSUME top.read, Len(env.route) <= 4, Lead("self", "basic") = 0
             PROVE  /\ \A k \in 0 .. 6 : LevelOf(TopId, k)
                                = IF k < Len(env.route) THEN env.route[k + 1] ELSE 0
                    /\ IsDevice => get_ups_down_port(Depth) = env.route[Len(env.route)]
  BY DEF RouteIsRead
<1> DEFINE n == Len(env.route)
<1>1. n \in 0 .. 7 /\ \A k \in 1 .. n : env.route[k] \in 1 .. 63
  BY RouteType
<1>2. top.low = RouteBits(1, 4) /\ top.high = RouteBits(5, 7)
  BY DEF TopRead
<1>3. RouteBits(5, 7) = {}
  <2>1. 5 .. (IF 7 < n THEN 7 ELSE n) = {}
    BY <1>1
  <2> QED
    BY <2>1 DEF RouteBits
<1>4. TopId = RouteBits(1, 4)
  BY <1>2, <1>3 DEF TopId
<1>5. ASSUME NEW k \in 0 .. 6
      PROVE  LevelOf(TopId, k) = IF k < n THEN env.route[k + 1] ELSE 0
  <2>1. LevelOf(TopId, k) = Number[IF k < n THEN Binary(env.route[k + 1]) ELSE {}]
    BY <1>4, BitsOfRoute, Zenon DEF LevelOf
  <2>2. CASE k < n
    <3>1. k + 1 \in 1 .. n
      BY <1>1, <2>2
    <3>2. env.route[k + 1] \in 0 .. 255
      BY <1>1, <3>1
    <3>3. Number[Binary(env.route[k + 1])] = env.route[k + 1]
      BY <3>2, NumberOfBinary
    <3> QED
      BY <2>1, <2>2, <3>3, Zenon
  <2>3. CASE ~(k < n)
    <3>1. Number[{}] = 0
      BY NumberIsValue DEF Value
    <3> QED
      BY <2>1, <2>3, <3>1, Zenon
  <2> QED
    BY <2>2, <2>3
<1>6. ASSUME IsDevice PROVE get_ups_down_port(Depth) = env.route[n]
  <2>1. Depth = n /\ n # 0
    BY <1>6, <1>1, DepthOfDevice
  <2>2. n - 1 \in 0 .. 6 /\ n - 1 < n /\ n - 1 + 1 = n
    BY <1>1, <2>1
  <2> QED
    BY <1>5, <2>1, <2>2, Zenon DEF get_ups_down_port
<1> QED
  BY <1>5, <1>6

\* Where the bits of the ports from the fifth on stand in the high half.
LEMMA HighBits ==
  ASSUME IsEnv(env), NEW x \in RouteBits(5, 7)
  PROVE  Len(env.route) > 4 /\ x \in 0 .. 8 * (Len(env.route) - 5) + 5
<1> DEFINE n == Len(env.route)
<1>1. n \in 0 .. 7 /\ \A k \in 1 .. n : env.route[k] \in 1 .. 63
  BY RouteType
<1>2. PICK k \in 5 .. (IF 7 < n THEN 7 ELSE n) : x \in At(8 * (k - 5), Binary(env.route[k]))
  BY DEF RouteBits
<1>3. k \in 5 .. n
  BY <1>1, <1>2
<1>4. env.route[k] \in 0 .. 63
  BY <1>1, <1>3
<1>5. PICK b \in Binary(env.route[k]) : x = 8 * (k - 5) + b
  BY <1>2 DEF At
<1>6. b \in 0 .. 5
  BY <1>4, <1>5, PortBits
<1> HIDE DEF n
<1>7. n > 4 /\ x \in 0 .. 8 * (n - 5) + 5
  BY <1>1, <1>3, <1>5, <1>6
<1> QED
  BY <1>7 DEF n

\* The port of the router above is the one the router hangs at, or 0 deeper than
\* four levels and before it is read: the shift by 23 puts no bit of the route where
\* the port of such a router is looked for.
LEMMA PortAbove ==
  ASSUME IsEnv(env), IsDevice, TopSeen, Lead("self", "basic") = 0
  PROVE  get_ups_down_port(Depth) \in {0, env.route[Len(env.route)]}
<1> DEFINE n == Len(env.route)
           S == {b - 8 * (n - 1) : b \in TopId \cap (8 * (n - 1) .. 8 * (n - 1) + 5)}
<1>1. n \in 1 .. 7 /\ \A k \in 1 .. n : env.route[k] \in 1 .. 63
  BY RouteType, DepthOfDevice
<1>2. get_ups_down_port(Depth) = Number[S]
  BY DepthOfDevice DEF get_ups_down_port, LevelOf
<1>3. Number[{}] = 0
  BY NumberIsValue DEF Value
<1>4. top.low \in {{}, RouteBits(1, 4)} /\ top.high \in {{}, RouteBits(5, 7)}
  BY DEF TopSeen
<1>5. CASE n > 4
  <2>1. RouteBits(1, 4) \subseteq 0 .. 31
    BY RouteFits DEF Word
  <2>2. \A x \in RouteBits(5, 7) : x \in 0 .. 8 * (n - 5) + 5
    BY HighBits
  <2> HIDE DEF n
  <2>3. ASSUME NEW x \in TopId PROVE x \notin 8 * (n - 1) .. 8 * (n - 1) + 5
    <3>1. CASE x \in top.low
      <4>1. x \in 0 .. 31
        BY <1>4, <2>1, <3>1
      <4> QED
        BY <1>1, <1>5, <4>1
    <3>2. CASE x \notin top.low
      <4>1. PICK b \in top.high : x = b + 23
        BY <3>2 DEF TopId
      <4>2. b \in 0 .. 8 * (n - 5) + 5
        BY <1>4, <2>2, <4>1
      <4> QED
        BY <1>1, <1>5, <4>1, <4>2
    <3> QED
      BY <3>1, <3>2
  <2>4. S = {}
    BY <2>3
  <2> QED
    BY <1>2, <1>3, <2>4, Zenon
<1>6. CASE ~(n > 4)
  <2>1. RouteBits(5, 7) = {}
    BY <1>6, HighBits
  <2>2. TopId = top.low
    BY <1>4, <2>1 DEF TopId
  <2>3. CASE top.low = {}
    <3>1. S = {}
      BY <2>2, <2>3
    <3> QED
      BY <1>2, <1>3, <3>1, Zenon
  <2>4. CASE top.low = RouteBits(1, 4)
    <3>1. n - 1 \in 0 .. 6 /\ n <= 4 /\ n - 1 < n /\ (n - 1) + 1 = n
      BY <1>1, <1>6
    <3> HIDE DEF n
    <3>2. {b - 8 * (n - 1) : b \in RouteBits(1, 4) \cap (8 * (n - 1) .. 8 * (n - 1) + 5)}
            = Binary(env.route[n])
      <4>1. \A k \in 0 .. 6 :
              {b - 8 * k : b \in RouteBits(1, 4) \cap (8 * k .. 8 * k + 5)}
                = IF k < n THEN Binary(env.route[k + 1]) ELSE {}
        BY <3>1, BitsOfRoute, Zenon DEF n
      <4> QED
        BY <3>1, <4>1
    <3>3. env.route[n] \in 0 .. 255
      BY <1>1
    <3>4. Number[Binary(env.route[n])] = env.route[n]
      BY <3>3, NumberOfBinary
    <3> QED
      BY <1>2, <2>2, <2>4, <3>2, <3>4, Zenon DEF n
  <2> QED
    BY <1>4, <2>2, <2>3, <2>4
<1> QED
  BY <1>5, <1>6

\* The router above has registers for that port.
LEMMA PortWithin ==
  ASSUME IsEnv(env), TopSeen, Lead("self", "basic") = 0
  PROVE  get_usb4_port_num(get_ups_down_port(Depth)) \in 0 .. env.up_ports - 1
<1> DEFINE port == get_ups_down_port(Depth)
<1>1. env.up_ports \in 1 .. 32
  BY DEF IsEnv
<1>2. CASE ~IsDevice
  <2>1. Depth = 0
    BY <1>2 DEF IsDevice, Depth, depth_of_router
  <2>2. TopId \subseteq Nat
    BY RouteFits DEF TopSeen, TopId, Word
  <2>3. {b - 8 * (0 - 1) : b \in TopId \cap (8 * (0 - 1) .. 8 * (0 - 1) + 5)} = {}
    BY <2>2
  <2>4. Number[{}] = 0
    BY NumberIsValue DEF Value
  <2>5. port = 0
    BY <2>1, <2>3, <2>4, Zenon DEF get_ups_down_port, LevelOf
  <2> HIDE DEF port
  <2>6. get_usb4_port_num(port) = 0
    BY <2>5 DEF get_usb4_port_num
  <2> QED
    BY <1>1, <2>6 DEF port
<1>3. CASE IsDevice
  <2> DEFINE p == env.route[Len(env.route)]
  <2>1. p \in 1 .. 63
    <3>1. Len(env.route) \in 1 .. Len(env.route)
      BY <1>3, RouteType, DepthOfDevice
    <3> QED
      BY <3>1, RouteType
  <2>2. port \in {0, p} /\ p <= 2 * env.up_ports
    BY <1>3, PortAbove, DepthOfDevice DEF IsEnv
  <2> HIDE DEF port, p
  <2>3. port \in 0 .. 2 * env.up_ports
    BY <1>1, <2>1, <2>2
  <2>4. get_usb4_port_num(port) \in 0 .. env.up_ports - 1
    BY <1>1, <2>3 DEF get_usb4_port_num
  <2> QED
    BY <2>4 DEF port
<1> QED
  BY <1>2, <1>3

-----------------------------------------------------------------------------
(* What a function has left to ask *)

\* Questions to an adapter or a port of the router.
AdapterQs ==
  {"get_adp_pvs", "get_tbt3_wake_events_en", "is_tbt3_clx_supported", "is_adp_locked",
   "are_hot_events_disabled", "get_usb4_wake_status", "get_usb4_wakes_en",
   "is_usb4_clx_supported", "are_cl0s_enabled", "is_cl1_enabled", "is_cl2_enabled",
   "is_usb3_adp_en", "get_usb3_scale", "get_usb3_consumed_up_bw",
   "get_usb3_consumed_down_bw", "get_usb3_allocated_up_bw", "get_usb3_allocated_down_bw",
   "is_usb3_link_valid", "get_usb3_actual_lr", "get_usb3_max_sup_lr",
   "get_usb3_port_link_state", "is_pcie_adp_enabled", "is_pcie_link_up", "is_pcie_tx_ei",
   "is_pcie_rx_ei", "is_pcie_switch_warm_reset", "get_pcie_ltssm", "is_dp_aux_en",
   "is_dp_vid_en", "is_dp_mst_cap", "is_dp_dsc_sup", "get_dp_hpd_status",
   "get_dp_max_link_rate", "get_dp_max_lane_count", "is_dp_lttpr_sup",
   "is_dp_in_bw_alloc_sup", "is_dp_in_cm_bw_alloc_support", "is_dp_in_dptx_bw_alloc_en",
   "get_dp_in_estimated_bw", "get_dp_in_nrd_max_lc", "get_dp_in_nrd_max_lr",
   "get_dp_in_granularity", "get_dp_in_alloc_bw", "get_dp_in_req_bw", "is_dp_in_dptx_req"}

SleepQs == {"is_usb4_port_configured", "get_tbt3_lanes_configured"}

Functions ==
  {"fill_adp_types_in_router", "dump_power_states_compatibility", "dump_ihci_status",
   "dump_pcie_tunneling_status", "dump_usb3_tunneling_status", "dump_wakes",
   "dump_usb4_gen_wakes", "dump_gen_wake_status", "dump_wake_status",
   "dump_lane_adapters", "dump_adapters_num", "dump_up_usb3_adapters",
   "dump_down_usb3_adapters", "dump_up_pcie_adapters", "dump_down_pcie_adapters",
   "dump_dp_in_adapters", "dump_dp_out_adapters", "dump_usb3_bws_lr_pls",
   "dump_pcie_attributes", "dump_dp_attributes"}

\* A question that is asked only right after this one.
LeaderOf ==
  [get_top_id_high      |-> "get_top_id_low",
   is_wake_enabled_usb3 |-> "is_wake_enabled_pcie",
   is_wake_enabled_dp   |-> "is_wake_enabled_usb3",
   get_wake_status_usb3 |-> "get_wake_status_pcie",
   get_wake_status_dp   |-> "get_wake_status_usb3",
   is_dp_vid_en         |-> "is_dp_aux_en"]
Followers == DOMAIN LeaderOf

\* One whose failure ends the function, as those after it rely on.
Decisive == {"get_top_id_low", "is_wake_enabled_pcie", "get_wake_status_pcie"}

Asks == AdapterQs \cup RouterQs \cup SleepQs

\* What function fn may have on its list.
Items(fn) ==
  {q \in [get : Asks \cup Functions \cup {"get_upstream_router"}, at : 0 .. 64,
          of : {"self", "upstream"}] :
     /\ q.get \in AdapterQs => q.at \in Adapters
     /\ q.get \notin SleepQs => q.of = "self"
     /\ fn = "dump_lane_adapters" => q.at \in Adapters
     /\ q.get \in HostQs => ~IsDevice
     /\ q.get \in Decisive => fn \in DOMAIN Returns /\ q.get \in Returns[fn]}

\* p is the question before q, for the same adapter.
Leads(p, q) == p.get = LeaderOf[q.get] /\ p.at = q.at /\ p.of = q.of

\* In s, which comes after p, questions are asked right after the ones they rely
\* on.  is_dp_vid_en is never left for later.
Led(p, s) ==
  \A k \in 1 .. Len(s) :
    s[k].get \in Followers =>
      /\ Leads(IF k = 1 THEN p ELSE s[k - 1], s[k])
      /\ k > 1 => s[k].get # "is_dp_vid_en"

\* What is left of a function after p, and its lists that stand alone.
Rests(fn, p) == {s \in Seq(Items(fn)) : Led(p, s)}

Nobody == R("nothing")
Lists(fn) == Rests(fn, Nobody)

\* Those p that no other relies on have nothing to do with what follows.
Leaders == {LeaderOf[n] : n \in Followers}

\* What sequences are made of.
LEMMA Ranges ==
  ASSUME NEW T, NEW s \in Seq(T)
  PROVE  Len(s) \in Nat /\ \A k \in 1 .. Len(s) : s[k] \in T
OBVIOUS

\* Nobody leads.
LEMMA NobodyLeads == Nobody.get \notin Leaders
BY DEF Nobody, R, Q, Leaders, Followers, LeaderOf

\* After one that does not lead, the first of a rest does not follow.
LEMMA NoFollower ==
  ASSUME NEW fn, NEW p, p.get \notin Leaders, NEW s \in Rests(fn, p), Len(s) > 0
  PROVE  s[1].get \notin Followers
<1>1. 1 \in 1 .. Len(s)
  <2>1. s \in Seq(Items(fn))
    BY Zenon DEF Rests
  <2>2. Len(s) \in Nat
    BY <2>1, Ranges, Zenon
  <2> QED
    BY <2>2
<1>2. s[1].get \in Followers => p.get = LeaderOf[s[1].get]
  BY <1>1, Zenon DEF Rests, Led, Leads
<1> QED
  BY <1>2, Zenon DEF Leaders

\* Then it stands alone; and what stands alone may come after anything.
LEMMA AfterNone ==
  ASSUME NEW fn, NEW p, NEW s \in Seq(Items(fn)), Len(s) > 0 => s[1].get \notin Followers,
         Led(p, s), NEW q
  PROVE  s \in Rests(fn, q)
<1>1. Len(s) \in Nat
  BY Ranges, Zenon
<1>2. 1 \in 1 .. Len(s) => Len(s) > 0
  BY <1>1
<1>3. Led(q, s)
  BY <1>2, Zenon DEF Led
<1> QED
  BY <1>3, Zenon DEF Rests

\* What comes after one that does not lead is a list.
LEMMA Alone ==
  ASSUME NEW fn, NEW p, p.get \notin Leaders
  PROVE  Rests(fn, p) \subseteq Lists(fn)
BY NoFollower, AfterNone, Zenon DEF Lists, Rests

\* A list may be asked at any time.
LEMMA AnyTime ==
  ASSUME NEW fn, NEW p
  PROVE  Lists(fn) \subseteq Rests(fn, p)
BY NobodyLeads, NoFollower, AfterNone, Zenon DEF Lists, Rests

\* A list may follow.
LEMMA RestsJoin ==
  ASSUME NEW fn, NEW p, NEW s \in Rests(fn, p), NEW t \in Lists(fn)
  PROVE  s \o t \in Rests(fn, p)
<1> DEFINE n == Len(s)
           m == Len(t)
           u == s \o t
           before(k) == IF k = 1 THEN p ELSE u[k - 1]
<1>1. s \in Seq(Items(fn)) /\ t \in Seq(Items(fn)) /\ Led(p, s) /\ Led(Nobody, t)
  BY DEF Lists, Rests
<1>2. /\ n \in Nat /\ m \in Nat /\ u \in Seq(Items(fn)) /\ Len(u) = n + m
      /\ \A k \in 1 .. n : u[k] = s[k]
      /\ \A k \in n + 1 .. n + m : u[k] = t[k - n]
  BY <1>1
<1>3. ASSUME NEW k \in 1 .. n + m, u[k].get \in Followers
      PROVE  Leads(before(k), u[k]) /\ (k > 1 => u[k].get # "is_dp_vid_en")
  <2> HIDE DEF n, m, u
  <2>1. CASE k \in 1 .. n
    <3>1. s[k].get \in Followers /\ u[k] = s[k]
      BY <1>2, <1>3, <2>1
    <3>2. /\ Leads(IF k = 1 THEN p ELSE s[k - 1], s[k])
          /\ k > 1 => s[k].get # "is_dp_vid_en"
      BY <1>1, <2>1, <3>1, Zenon DEF Led, n
    <3>3. k # 1 => k - 1 \in 1 .. n
      BY <1>2, <2>1
    <3> QED
      BY <1>2, <3>1, <3>2, <3>3, Zenon
  <2>2. CASE k \in n + 1 .. n + m
    <3>1. PICK j : j = k - n
      OBVIOUS
    <3>2. j \in 1 .. m /\ k = n + j
      BY <1>2, <2>2, <3>1
    <3>3. t[j].get \in Followers /\ u[k] = t[j]
      BY <1>2, <1>3, <2>2, <3>1
    <3>4. m > 0 /\ (j # 1 => j > 1)
      BY <1>2, <3>2
    <3>5. t[1].get \notin Followers
      BY <3>4, NobodyLeads, NoFollower, Zenon DEF Lists, m
    <3>6. j > 1 /\ Leads(t[j - 1], t[j]) /\ t[j].get # "is_dp_vid_en"
      BY <1>1, <3>2, <3>3, <3>4, <3>5, Zenon DEF Led, m
    <3>7. k - 1 \in n + 1 .. n + m /\ k - 1 - n = j - 1 /\ k > 1 /\ k # 1
      BY <1>2, <3>2, <3>6
    <3>8. u[k - 1] = t[j - 1]
      BY <1>2, <3>7
    <3> QED
      BY <3>3, <3>6, <3>7, <3>8, Zenon
  <2> QED
    BY <1>2, <2>1, <2>2
<1> QED
  BY <1>2, <1>3 DEF Rests, Led

\* Lists may be joined.
LEMMA ListsJoin ==
  ASSUME NEW fn, NEW s \in Lists(fn), NEW t \in Lists(fn)
  PROVE  s \o t \in Lists(fn)
BY RestsJoin, Zenon DEF Lists

\* What is left after the first question.
LEMMA TailLeft ==
  ASSUME NEW fn, NEW p, NEW s \in Rests(fn, p), s # <<>>
  PROVE  /\ Head(s) \in Items(fn)
         /\ Tail(s) \in Rests(fn, Head(s))
         /\ Head(s).get = "is_dp_aux_en" => Tail(s) \in Lists(fn)
<1> DEFINE n == Len(s)
           t == Tail(s)
           before(k) == IF k = 1 THEN Head(s) ELSE t[k - 1]
<1>1. s \in Seq(Items(fn)) /\ Led(p, s)
  BY DEF Rests
<1>2. /\ n \in Nat /\ n # 0 /\ t \in Seq(Items(fn)) /\ Len(t) = n - 1
      /\ Head(s) = s[1] /\ Head(s) \in Items(fn)
      /\ \A k \in 1 .. n - 1 : t[k] = s[k + 1]
  BY <1>1
<1>3. ASSUME NEW k \in 1 .. n - 1, t[k].get \in Followers
      PROVE  Leads(before(k), t[k]) /\ t[k].get # "is_dp_vid_en"
  <2> HIDE DEF n, t
  <2>5. PICK j : j = k + 1
    OBVIOUS
  <2>1. j \in 1 .. n /\ j # 1 /\ j > 1 /\ j - 1 = k
    BY <1>2, <2>5
  <2>2. s[j].get \in Followers /\ t[k] = s[j]
    BY <1>2, <1>3, <2>5
  <2>3. Leads(s[j - 1], s[j]) /\ s[j].get # "is_dp_vid_en"
    BY <1>1, <2>1, <2>2, Zenon DEF Led, n
  <2>4. before(k) = s[k]
    <3>1. CASE k = 1
      BY <1>2, <3>1
    <3>2. CASE k # 1
      <4>1. k - 1 \in 1 .. n - 1 /\ k - 1 + 1 = k
        BY <1>2, <3>2
      <4> QED
        BY <1>2, <3>2, <4>1
    <3> QED
      BY <3>1, <3>2
  <2> QED
    BY <2>1, <2>2, <2>3, <2>4
<1> HIDE DEF n, t
<1>4. Led(Head(s), t)
  BY <1>2, <1>3 DEF Led
<1>5. ASSUME Head(s).get = "is_dp_aux_en" PROVE t \in Lists(fn)
  <2>1. ASSUME n - 1 > 0 PROVE t[1].get \notin Followers
    <3>1. 1 \in 1 .. n - 1
      BY <1>2, <2>1
    <3>2. t[1].get \in Followers => LeaderOf[t[1].get] = "is_dp_aux_en"
                                     /\ t[1].get # "is_dp_vid_en"
      BY <1>3, <1>5, <3>1, Zenon DEF Leads
    <3> QED
      BY <3>2 DEF LeaderOf, Followers
  <2> QED
    BY <1>2, <1>4, <2>1, AfterNone, Zenon DEF Lists
<1> QED
  BY <1>2, <1>4, <1>5, Zenon DEF Rests, t

\* Nothing left is a list.
LEMMA NoneLeft == \A fn : <<>> \in Lists(fn)
BY DEF Lists, Rests, Led

\* One question is one, unless it needs another before it.
LEMMA OneLeft ==
  ASSUME NEW fn, NEW q \in Items(fn), NEW p, q.get \in Followers => Leads(p, q)
  PROVE  <<q>> \in Rests(fn, p)
<1>1. <<q>> \in Seq(Items(fn)) /\ Len(<<q>>) = 1 /\ <<q>>[1] = q
  OBVIOUS
<1>2. \A k \in 1 .. 1 : k = 1
  OBVIOUS
<1>3. ~(1 > 1)
  OBVIOUS
<1> QED
  BY <1>1, <1>2, <1>3, Zenon DEF Rests, Led

\* Lists asked on a condition.
LEMMA WhenLeft ==
  ASSUME NEW fn, NEW b, NEW s, b => s \in Lists(fn)
  PROVE  When(b, s) \in Lists(fn)
BY NoneLeft DEF When

\* Several questions about one adapter.
LEMMA AllLeft ==
  ASSUME NEW fn, NEW T, NEW gets \in Seq(T), NEW at, \A g \in T : Q(g, at) \in Items(fn),
         \A k \in 1 .. Len(gets) : gets[k] \in Followers =>
            k > 1 /\ gets[k - 1] = LeaderOf[gets[k]] /\ gets[k] # "is_dp_vid_en"
  PROVE  All(gets, at) \in Lists(fn)
<1> DEFINE s == All(gets, at)
           n == Len(gets)
<1>1. /\ s \in Seq(Items(fn)) /\ Len(s) = n /\ n \in Nat
      /\ \A k \in 1 .. n : s[k] = Q(gets[k], at)
  BY DEF All
<1>2. \A k \in 1 .. n : k > 1 => k # 1 /\ k - 1 \in 1 .. n
  BY <1>1
<1>3. \A g : Q(g, at).get = g /\ Q(g, at).at = at /\ Q(g, at).of = "self"
  BY DEF Q
<1> HIDE DEF s
<1>4. ASSUME NEW k \in 1 .. n, s[k].get \in Followers
      PROVE  /\ Leads(IF k = 1 THEN Nobody ELSE s[k - 1], s[k])
             /\ k > 1 => s[k].get # "is_dp_vid_en"
  <2>1. s[k].get = gets[k]
    BY <1>1, <1>3, Zenon
  <2>2. k > 1 /\ gets[k - 1] = LeaderOf[gets[k]] /\ gets[k] # "is_dp_vid_en"
    BY <1>4, <2>1, Zenon
  <2>3. k # 1 /\ s[k - 1] = Q(gets[k - 1], at) /\ s[k] = Q(gets[k], at)
    BY <1>1, <1>2, <2>2, Zenon
  <2>4. Leads(Q(gets[k - 1], at), Q(gets[k], at))
    BY <1>3, <2>2, Zenon DEF Leads
  <2> QED
    BY <2>1, <2>2, <2>3, <2>4, Zenon
<1>5. s \in Lists(fn)
  BY <1>1, <1>4, Zenon DEF Lists, Rests, Led
<1> QED
  BY <1>5 DEF s

\* Lists for each adapter in turn.
LEMMA EachLeft ==
  ASSUME NEW fn, NEW ss, DOMAIN ss = 1 .. MaxAdapters,
         ss = [a \in 1 .. MaxAdapters |-> ss[a]],
         \A a \in 1 .. MaxAdapters : ss[a] \in Lists(fn)
  PROVE  FlattenSeq(ss) \in Lists(fn)
<1>1. MaxAdapters \in Nat
  BY AdaptersFit, Zenon
<1>2. ss \in Seq(Lists(fn))
  BY <1>1
<1>3. Lists(fn) \in SUBSET Seq(Items(fn))
  BY DEF Lists, Rests
<1> QED
  BY <1>2, <1>3, NoneLeft, ListsJoin, FlattenClosed, Zenon

-----------------------------------------------------------------------------
(* Every function has such a list *)

\* What adapters and routers are asked, apart from what follows or decides.
OfAdapters == AdapterQs \ (HostQs \cup {"is_dp_vid_en"})
OfRouter   == RouterQs \ (Followers \cup Decisive)
PerAdapter == OfAdapters \cup OfRouter
OfSelf     == OfRouter \cup Functions \cup {"get_upstream_router"}

\* What each of these asks may be on a list.
LEMMA MayBeAsked ==
  ASSUME NEW fn
  PROVE  /\ \A g \in PerAdapter, a \in Adapters : g \notin Followers /\ Q(g, a) \in Items(fn)
         /\ fn # "dump_lane_adapters" =>
              \A g \in OfSelf : g \notin Followers /\ Q(g, 0) \in Items(fn)
<1>1. Adapters \subseteq 0 .. 64
  BY AdaptersFit DEF Adapters
<1>2. AdapterQs \cap Decisive = {} /\ AdapterQs \cap SleepQs = {}
  BY DEF AdapterQs, Decisive, SleepQs
<1>3. OfAdapters \cap Followers = {}
  BY DEF OfAdapters, AdapterQs, HostQs, Followers, LeaderOf
<1>4. RouterQs \cap AdapterQs = {} /\ RouterQs \cap SleepQs = {}
  BY DEF RouterQs, AdapterQs, SleepQs
<1> DEFINE Fs == Functions \cup {"get_upstream_router"}
<1>5. Fs \cap Asks = {}
  BY DEF Functions, Asks, RouterQs, AdapterQs, SleepQs
<1>6. Followers \cup Decisive \cup HostQs \subseteq Asks /\ HostQs \subseteq AdapterQs
  BY DEF Asks, RouterQs, AdapterQs, Followers, LeaderOf, Decisive, HostQs
<1>7. AdapterQs \subseteq Asks /\ RouterQs \subseteq Asks /\ SleepQs \subseteq Asks
  BY Zenon DEF Asks
<1>8. 0 \in 0 .. 64
  OBVIOUS
<1>9. ASSUME NEW g \in Asks \cup Fs, NEW a \in 0 .. 64, g \notin SleepQs \cup Decisive \cup HostQs,
             a \in Adapters \/ (g \notin AdapterQs /\ fn # "dump_lane_adapters")
      PROVE  Q(g, a) \in Items(fn)
  BY <1>9 DEF Items, Q
<1> HIDE DEF Fs
<1>10. ASSUME NEW g \in OfAdapters, NEW a \in Adapters
       PROVE  g \notin Followers /\ Q(g, a) \in Items(fn)
  BY <1>1, <1>2, <1>3, <1>7, <1>9 DEF OfAdapters
<1>11. ASSUME NEW g \in OfRouter, NEW a \in Adapters \cup {0},
              a \in Adapters \/ fn # "dump_lane_adapters"
       PROVE  g \notin Followers /\ Q(g, a) \in Items(fn)
  BY <1>1, <1>4, <1>6, <1>7, <1>8, <1>9, <1>11 DEF OfRouter
<1>12. ASSUME NEW g \in Fs, fn # "dump_lane_adapters"
       PROVE  g \notin Followers /\ Q(g, 0) \in Items(fn)
  BY <1>5, <1>6, <1>7, <1>8, <1>9, <1>12
<1> QED
  BY <1>10, <1>11, <1>12 DEF Fs, PerAdapter, OfSelf

\* Several questions of one kind.
LEMMA KindsLeft ==
  ASSUME NEW fn
  PROVE  /\ \A gets \in Seq(PerAdapter), a \in Adapters : All(gets, a) \in Lists(fn)
         /\ fn # "dump_lane_adapters" =>
              \A gets \in Seq(OfSelf) : All(gets, 0) \in Lists(fn)
<1>1. ASSUME NEW T, NEW gets \in Seq(T), NEW a,
             \A g \in T : g \notin Followers /\ Q(g, a) \in Items(fn)
      PROVE  All(gets, a) \in Lists(fn)
  <2>1. \A k \in 1 .. Len(gets) : gets[k] \in T
    BY Ranges, Zenon
  <2> QED
    BY <1>1, <2>1, AllLeft, Zenon
<1> QED
  BY <1>1, MayBeAsked, Zenon

\* One question of one kind.
LEMMA OneKindLeft ==
  ASSUME NEW fn
  PROVE  /\ \A g \in PerAdapter, a \in Adapters : <<Q(g, a)>> \in Lists(fn)
         /\ fn # "dump_lane_adapters" => \A g \in OfSelf : <<R(g)>> \in Lists(fn)
<1>1. \A q \in Items(fn) : q.get \notin Followers => <<q>> \in Lists(fn)
  BY OneLeft, Zenon DEF Lists
<1>2. \A g, a : Q(g, a).get = g
  BY DEF Q
<1>3. \A g, a : g \notin Followers /\ Q(g, a) \in Items(fn) => <<Q(g, a)>> \in Lists(fn)
  BY <1>1, <1>2, Zenon
<1> QED
  BY <1>3, MayBeAsked, Zenon DEF R

\* The loops of the functions.
LEMMA LoopsLeft ==
  ASSUME NEW fn, NEW S \in SUBSET Adapters
  PROVE  /\ \A gets \in Seq(PerAdapter) :
              FlattenSeq([a \in 1 .. MaxAdapters |-> When(a \in S, All(gets, a))]) \in Lists(fn)
         /\ \A g \in PerAdapter :
              FlattenSeq([a \in 1 .. MaxAdapters |-> When(a \in S, <<Q(g, a)>>)]) \in Lists(fn)
<1>1. ASSUME NEW gets \in Seq(PerAdapter)
      PROVE  FlattenSeq([a \in 1 .. MaxAdapters |-> When(a \in S, All(gets, a))]) \in Lists(fn)
  <2> DEFINE ss == [a \in 1 .. MaxAdapters |-> When(a \in S, All(gets, a))]
  <2>1. \A a \in 1 .. MaxAdapters : ss[a] \in Lists(fn)
    BY KindsLeft, WhenLeft, Zenon
  <2>2. DOMAIN ss = 1 .. MaxAdapters /\ ss = [a \in 1 .. MaxAdapters |-> ss[a]]
    BY Zenon
  <2> HIDE DEF ss
  <2>3. FlattenSeq(ss) \in Lists(fn)
    BY <2>1, <2>2, EachLeft, Zenon
  <2> QED
    BY <2>3 DEF ss
<1>2. ASSUME NEW g \in PerAdapter
      PROVE  FlattenSeq([a \in 1 .. MaxAdapters |-> When(a \in S, <<Q(g, a)>>)]) \in Lists(fn)
  <2> DEFINE ss == [a \in 1 .. MaxAdapters |-> When(a \in S, <<Q(g, a)>>)]
  <2>1. \A a \in 1 .. MaxAdapters : ss[a] \in Lists(fn)
    BY OneKindLeft, WhenLeft, Zenon
  <2>2. DOMAIN ss = 1 .. MaxAdapters /\ ss = [a \in 1 .. MaxAdapters |-> ss[a]]
    BY Zenon
  <2> HIDE DEF ss
  <2>3. FlattenSeq(ss) \in Lists(fn)
    BY <2>1, <2>2, EachLeft, Zenon
  <2> QED
    BY <2>3 DEF ss
<1> QED
  BY <1>1, <1>2

\* The sets of adapters the loops go through.
LEMMA LoopsFit ==
  /\ \A t : OfType(t) \in SUBSET Adapters
  /\ LaneLoop \in SUBSET Adapters
  /\ \A max : LanesUpTo(max) \in SUBSET Adapters
BY DEF OfType, LaneLoop, LanesUpTo

\* The types of all adapters are looked up.
LEMMA FillLeft == fill_adp_types_in_router \in Lists("fill_adp_types_in_router")
<1>1. "get_adp_pvs" \in PerAdapter
  BY DEF PerAdapter, OfAdapters, AdapterQs, HostQs
<1>2. Adapters \in SUBSET Adapters
  OBVIOUS
<1> QED
  BY <1>1, <1>2, LoopsLeft, Zenon DEF fill_adp_types_in_router, Each

\* The power states are about the router above.
LEMMA PowerLeft ==
  dump_power_states_compatibility \in Lists("dump_power_states_compatibility")
<1> DEFINE fn == "dump_power_states_compatibility"
           T == {"get_upstream_router", "get_top_id_low", "get_top_id_high", "get_usb4v"}
           gets == <<"get_upstream_router", "get_top_id_low", "get_top_id_high", "get_usb4v">>
<1>1. gets \in Seq(T)
  OBVIOUS
<1>2. \A g \in T : Q(g, 0) \in Items(fn)
  BY DEF Q, Items, Asks, Returns, SleepQs, AdapterQs, RouterQs, Decisive, HostQs
<1>3. \A k \in 1 .. Len(gets) : gets[k] \in Followers =>
            k > 1 /\ gets[k - 1] = LeaderOf[gets[k]] /\ gets[k] # "is_dp_vid_en"
  BY DEF Followers, LeaderOf
<1> HIDE DEF T, gets
<1>4. All(gets, 0) \in Lists(fn)
  BY <1>1, <1>2, <1>3, AllLeft, Zenon
<1> USE DEF gets
<1> QED
  BY <1>4, WhenLeft DEF dump_power_states_compatibility

\* Questions to the router alone.
LEMMA RouterBodiesLeft ==
  ASSUME NEW fn, fn # "dump_lane_adapters"
  PROVE  /\ dump_ihci_status \in Lists(fn)
         /\ tunneling_status \in Lists(fn)
         /\ dump_wakes \in Lists(fn)
         /\ dump_adapters_num \in Lists(fn)
         /\ dump_wake_status \in Lists(fn)
<1>1. dump_ihci_status \in Lists(fn)
  <2>1. <<"is_ihci_present", "is_tunneling_config_valid", "is_ihci_on">> \in Seq(OfSelf)
    BY DEF OfSelf, OfRouter, RouterQs, Followers, LeaderOf, Decisive
  <2> QED
    BY <2>1, KindsLeft, Zenon DEF dump_ihci_status
<1>2. tunneling_status \in Lists(fn)
  <2>1. <<"is_tunneling_config_valid", "is_tunneling_ready">> \in Seq(OfSelf)
    BY DEF OfSelf, OfRouter, RouterQs, Followers, LeaderOf, Decisive
  <2> QED
    BY <2>1, KindsLeft, Zenon DEF tunneling_status
<1>3. dump_wakes \in Lists(fn)
  <2>1. <<"get_max_adp", "get_usb4v">> \in Seq(OfSelf)
    BY DEF OfSelf, OfRouter, RouterQs, Followers, LeaderOf, Decisive
  <2> QED
    BY <2>1, KindsLeft, Zenon DEF dump_wakes
<1>4. dump_adapters_num \in Lists(fn)
  <2> DEFINE gets == <<"get_max_adp", "get_max_adp", "get_max_adp">>
  <2>1. gets \in Seq(OfSelf)
    BY DEF OfSelf, OfRouter, RouterQs, Followers, LeaderOf, Decisive
  <2>2. dump_adapters_num = All(gets, 0)
    BY DEF dump_adapters_num, All, R
  <2> QED
    BY <2>1, <2>2, KindsLeft, Zenon
<1>5. dump_wake_status \in Lists(fn)
  <2>1. <<R("get_max_adp")>> \in Lists(fn) /\ <<R("get_usb4v")>> \in Lists(fn)
        /\ <<R("dump_gen_wake_status")>> \in Lists(fn)
    <3>1. {"get_max_adp", "get_usb4v"} \subseteq OfSelf
      BY DEF OfSelf, OfRouter, RouterQs, Followers, LeaderOf, Decisive
    <3>2. "dump_gen_wake_status" \in OfSelf
      BY DEF OfSelf, Functions
    <3> QED
      BY <3>1, <3>2, OneKindLeft, Zenon
  <2>2. When(IsDevice, <<R("dump_gen_wake_status")>>) \in Lists(fn)
    BY <2>1, WhenLeft
  <2> QED
    BY <2>1, <2>2, ListsJoin, Zenon DEF dump_wake_status
<1> QED
  BY <1>1, <1>2, <1>3, <1>4, <1>5

\* The wakes follow one another.
LEMMA GenWakesLeft == dump_usb4_gen_wakes \in Lists("dump_usb4_gen_wakes")
<1> DEFINE fn == "dump_usb4_gen_wakes"
           T == {"is_wake_enabled_pcie", "is_wake_enabled_usb3", "is_wake_enabled_dp"}
           gets == <<"is_wake_enabled_pcie", "is_wake_enabled_usb3", "is_wake_enabled_dp">>
<1>1. gets \in Seq(T)
  OBVIOUS
<1>2. \A g \in T : Q(g, 0) \in Items(fn)
  BY DEF Q, Items, Asks, Returns, SleepQs, AdapterQs, RouterQs, Decisive, HostQs
<1>3. \A k \in 1 .. Len(gets) : gets[k] \in Followers =>
            k > 1 /\ gets[k - 1] = LeaderOf[gets[k]] /\ gets[k] # "is_dp_vid_en"
  BY DEF Followers, LeaderOf
<1> HIDE DEF T, gets
<1>4. All(gets, 0) \in Lists(fn)
  BY <1>1, <1>2, <1>3, AllLeft, Zenon
<1> QED
  BY <1>4, Zenon DEF dump_usb4_gen_wakes, gets

\* So do the events that woke the router.
LEMMA GenStatusLeft == dump_gen_wake_status \in Lists("dump_gen_wake_status")
<1> DEFINE fn == "dump_gen_wake_status"
           T == {"get_wake_status_pcie", "get_wake_status_usb3", "get_wake_status_dp"}
           gets == <<"get_wake_status_pcie", "get_wake_status_usb3", "get_wake_status_dp">>
<1>1. gets \in Seq(T)
  OBVIOUS
<1>2. \A g \in T : Q(g, 0) \in Items(fn)
  BY DEF Q, Items, Asks, Returns, SleepQs, AdapterQs, RouterQs, Decisive, HostQs
<1>3. \A k \in 1 .. Len(gets) : gets[k] \in Followers =>
            k > 1 /\ gets[k - 1] = LeaderOf[gets[k]] /\ gets[k] # "is_dp_vid_en"
  BY DEF Followers, LeaderOf
<1> HIDE DEF T, gets
<1>4. All(gets, 0) \in Lists(fn)
  BY <1>1, <1>2, <1>3, AllLeft, Zenon
<1> QED
  BY <1>4, Zenon DEF dump_gen_wake_status, gets

\* A question to every lane.
LEMMA LanesLeft == \A fn : dump_lane_adapters \in Lists(fn)
<1> TAKE fn
<1>1. <<"is_adp_locked", "get_usb4v">> \in Seq(PerAdapter)
  BY DEF PerAdapter, OfAdapters, AdapterQs, HostQs, OfRouter, RouterQs, Followers, LeaderOf, Decisive
<1> QED
  BY <1>1, LoopsFit, LoopsLeft, Zenon DEF dump_lane_adapters, Each

\* The adapters of a type, and their attributes.
LEMMA EnabledLeft ==
  ASSUME NEW fn, fn # "dump_lane_adapters", NEW type, NEW enabled \in PerAdapter, NEW attributes \in Functions
  PROVE  enabled_adapters(type, enabled, attributes) \in Lists(fn)
<1>1. <<R("get_max_adp")>> \in Lists(fn)
  <2>1. "get_max_adp" \in OfSelf
    BY DEF OfSelf, OfRouter, RouterQs, Followers, LeaderOf, Decisive
  <2> QED
    BY <2>1, OneKindLeft, Zenon
<1>2. Each(OfType(type), LAMBDA a : <<Q(enabled, a)>>) \in Lists(fn)
  BY LoopsFit, LoopsLeft, Zenon DEF Each
<1>3. When(OfType(type) # {}, <<R(attributes)>>) \in Lists(fn)
  <2>1. <<R(attributes)>> \in Lists(fn)
    BY OneKindLeft, Zenon DEF OfSelf
  <2> QED
    BY <2>1, WhenLeft, Zenon
<1>4. \A u, v, w \in Lists(fn) : u \o v \o w \in Lists(fn)
  BY ListsJoin, Zenon
<1> QED
  BY <1>1, <1>2, <1>3, <1>4, Zenon DEF enabled_adapters

\* The attributes of USB3 adapters.
LEMMA Usb3Left ==
  ASSUME NEW fn, active \in SUBSET Adapters
  PROVE  dump_usb3_bws_lr_pls \in Lists(fn)
<1> DEFINE bws == <<"get_usb3_scale", "get_usb3_consumed_up_bw", "get_usb3_consumed_down_bw",
                    "get_usb3_allocated_up_bw", "get_usb3_allocated_down_bw">>
           lr == <<"is_usb3_link_valid", "get_usb3_actual_lr", "get_usb3_max_sup_lr",
                   "get_usb3_port_link_state">>
           items(a) == When(~IsDevice, All(bws, a)) \o All(lr, a)
           ss == [a \in 1 .. MaxAdapters |-> When(a \in active, items(a))]
<1>1. bws \in Seq(HostQs) /\ lr \in Seq(PerAdapter)
  BY DEF PerAdapter, OfAdapters, AdapterQs, HostQs
<1>2. ASSUME NEW a \in Adapters, ~IsDevice PROVE All(bws, a) \in Lists(fn)
  <2>1. a \in 0 .. 64
    BY AdaptersFit DEF Adapters
  <2>2. HostQs \cap (Followers \cup SleepQs \cup Decisive) = {} /\ HostQs \subseteq AdapterQs
    BY DEF HostQs, Followers, LeaderOf, SleepQs, Decisive, AdapterQs
  <2>3. \A g \in HostQs : g \notin Followers /\ Q(g, a) \in Items(fn)
    BY <1>2, <2>1, <2>2 DEF Items, Q, Asks
  <2> HIDE DEF bws
  <2>4. \A k \in 1 .. Len(bws) : bws[k] \in HostQs
    BY <1>1, Ranges, Zenon
  <2> QED
    BY <1>1, <2>3, <2>4, AllLeft, Zenon
<1> HIDE DEF bws, lr
<1>6. \A a \in Adapters : items(a) \in Lists(fn)
  BY <1>1, <1>2, KindsLeft, WhenLeft, ListsJoin, Zenon
<1> HIDE DEF items
<1>3. \A a \in 1 .. MaxAdapters : ss[a] \in Lists(fn)
  BY <1>6, WhenLeft, Zenon
<1>4. DOMAIN ss = 1 .. MaxAdapters /\ ss = [a \in 1 .. MaxAdapters |-> ss[a]]
  BY Zenon
<1>5. FlattenSeq(ss) \in Lists(fn)
  <2> HIDE DEF ss
  <2> QED
    BY <1>3, <1>4, EachLeft, Zenon
<1> QED
  BY <1>5, Zenon DEF dump_usb3_bws_lr_pls, Each, items, bws, lr

\* The attributes of PCIe adapters.
LEMMA PcieLeft ==
  ASSUME NEW fn, active \in SUBSET Adapters
  PROVE  dump_pcie_attributes \in Lists(fn)
<1>1. <<"is_pcie_link_up", "is_pcie_tx_ei", "is_pcie_rx_ei", "is_pcie_switch_warm_reset",
        "get_pcie_ltssm">> \in Seq(PerAdapter)
  BY DEF PerAdapter, OfAdapters, AdapterQs, HostQs
<1> QED
  BY <1>1, LoopsLeft, Zenon DEF dump_pcie_attributes, Each

\* The attributes of DP adapters.
LEMMA DpLeft ==
  ASSUME NEW fn, active \in SUBSET Adapters
  PROVE  dump_dp_attributes \in Lists(fn)
<1> DEFINE com == <<"is_dp_mst_cap", "is_dp_dsc_sup", "get_dp_hpd_status",
                    "get_dp_max_link_rate", "get_dp_max_lane_count", "is_dp_lttpr_sup">>
           bw == <<"is_dp_in_bw_alloc_sup", "is_dp_in_cm_bw_alloc_support",
                   "is_dp_in_dptx_bw_alloc_en", "get_dp_in_estimated_bw",
                   "get_dp_in_nrd_max_lc", "get_dp_in_nrd_max_lr", "get_dp_in_granularity",
                   "get_dp_in_alloc_bw", "get_dp_in_req_bw", "is_dp_in_dptx_req">>
           items(a) == All(com, a) \o When(types[a] = "dp_in", All(bw, a))
           ss == [a \in 1 .. MaxAdapters |-> When(a \in active, items(a))]
<1>1. com \in Seq(PerAdapter) /\ bw \in Seq(PerAdapter)
  BY DEF PerAdapter, OfAdapters, AdapterQs, HostQs
<1> HIDE DEF com, bw
<1>2. \A a \in Adapters : items(a) \in Lists(fn)
  BY <1>1, KindsLeft, WhenLeft, ListsJoin, Zenon
<1> HIDE DEF items
<1>3. \A a \in 1 .. MaxAdapters : ss[a] \in Lists(fn)
  BY <1>2, WhenLeft, Zenon
<1>4. DOMAIN ss = 1 .. MaxAdapters /\ ss = [a \in 1 .. MaxAdapters |-> ss[a]]
  BY Zenon
<1>5. FlattenSeq(ss) \in Lists(fn)
  <2> HIDE DEF ss
  <2> QED
    BY <1>3, <1>4, EachLeft, Zenon
<1> QED
  BY <1>5, Zenon DEF dump_dp_attributes, Each, items, com, bw

\* The dump itself.
LEMMA DumpLeft == dump_router_verbose \in Lists("dump_router_verbose")
<1> DEFINE fn == "dump_router_verbose"
           T == {"fill_adp_types_in_router", "get_top_id_low", "get_top_id_high",
                 "get_max_adp", "is_router_configured"}
           gets == <<"fill_adp_types_in_router", "get_top_id_low", "get_top_id_high",
                     "get_max_adp", "is_router_configured">>
<1>1. gets \in Seq(T)
  OBVIOUS
<1>2. \A g \in T : Q(g, 0) \in Items(fn)
  BY DEF Q, Items, Asks, Returns, SleepQs, AdapterQs, RouterQs, Functions, Decisive, HostQs
<1>3. \A k \in 1 .. Len(gets) : gets[k] \in Followers =>
            k > 1 /\ gets[k - 1] = LeaderOf[gets[k]] /\ gets[k] # "is_dp_vid_en"
  BY DEF Followers, LeaderOf
<1> HIDE DEF T, gets
<1>4. All(gets, 0) \in Lists(fn)
  BY <1>1, <1>2, <1>3, AllLeft, Zenon
<1> DEFINE power == <<"get_notification_timeout", "is_tbt3_not_supported",
                      "dump_power_states_compatibility">>
           tunnels == <<"dump_ihci_status", "dump_pcie_tunneling_status",
                        "dump_usb3_tunneling_status">>
           adapters == <<"dump_up_usb3_adapters", "dump_down_usb3_adapters",
                         "dump_up_pcie_adapters", "dump_down_pcie_adapters",
                         "dump_dp_in_adapters", "dump_dp_out_adapters">>
<1>5. All(power, 0) \in Lists(fn)
  <2> DEFINE P == {"get_notification_timeout", "is_tbt3_not_supported",
                   "dump_power_states_compatibility"}
  <2>1. power \in Seq(P)
    OBVIOUS
  <2>2. \A g \in P : g \notin Followers /\ Q(g, 0) \in Items(fn)
    BY DEF Q, Items, Asks, SleepQs, AdapterQs, RouterQs, Functions, Decisive, HostQs,
           Followers, LeaderOf
  <2> HIDE DEF P, power
  <2>3. \A k \in 1 .. Len(power) : power[k] \in P
    BY <2>1, Ranges, Zenon
  <2> QED
    BY <2>1, <2>2, <2>3, AllLeft, Zenon
<1>6. tunnels \in Seq(OfSelf) /\ adapters \in Seq(OfSelf)
  BY DEF OfSelf, Functions
<1>7. {"dump_wakes", "dump_lane_adapters", "dump_adapters_num"} \subseteq OfSelf
  BY DEF OfSelf, Functions
<1>8. "get_usb4v" \in OfSelf
  BY DEF OfSelf, OfRouter, RouterQs, Followers, LeaderOf, Decisive
<1> HIDE DEF power, tunnels, adapters
<1>13. fn # "dump_lane_adapters"
  OBVIOUS
<1>9. All(tunnels, 0) \in Lists(fn) /\ All(adapters, 0) \in Lists(fn)
  BY <1>13, <1>6, KindsLeft, Zenon
<1>10. /\ <<R("dump_wakes")>> \in Lists(fn) /\ <<R("dump_lane_adapters")>> \in Lists(fn)
       /\ <<R("dump_adapters_num")>> \in Lists(fn) /\ <<R("get_usb4v")>> \in Lists(fn)
  BY <1>13, <1>7, <1>8, OneKindLeft, Zenon
<1> DEFINE a1 == When(env.loud, All(power, 0))
           a2 == When(env.loud /\ IsDevice, All(tunnels, 0))
           a3 == When(env.loud, <<R("dump_wakes")>>)
           a4 == When(env.loud, <<R("dump_lane_adapters")>>)
           a5 == When(env.loud, All(adapters, 0))
<1>11. /\ a1 \in Lists(fn) /\ a2 \in Lists(fn) /\ a3 \in Lists(fn) /\ a4 \in Lists(fn)
       /\ a5 \in Lists(fn)
  BY <1>5, <1>9, <1>10, WhenLeft, Zenon
<1>12. dump_router_verbose = All(gets, 0) \o a1 \o a2 \o a3 \o <<R("get_usb4v")>> \o a4
                               \o <<R("dump_adapters_num")>> \o a5
  BY Zenon DEF dump_router_verbose, gets, power, tunnels, adapters
<1> HIDE DEF a1, a2, a3, a4, a5, fn
<1> QED
  BY <1>4, <1>10, <1>11, <1>12, ListsJoin, Zenon DEF fn

\* Every function asks what it may.
LEMMA BodyLeft ==
  ASSUME NEW fn \in Functions, active \in SUBSET Adapters
  PROVE  Body(fn) \in Lists(fn)
<1>1. {"is_usb3_adp_en", "is_pcie_adp_enabled", "is_dp_aux_en"} \subseteq PerAdapter
  BY DEF PerAdapter, OfAdapters, AdapterQs, HostQs
<1>2. {"dump_usb3_bws_lr_pls", "dump_pcie_attributes", "dump_dp_attributes"} \subseteq Functions
  BY DEF Functions
<1>3. \A f, t : f # "dump_lane_adapters" =>
                /\ enabled_adapters(t, "is_usb3_adp_en", "dump_usb3_bws_lr_pls") \in Lists(f)
                /\ enabled_adapters(t, "is_pcie_adp_enabled", "dump_pcie_attributes") \in Lists(f)
                /\ enabled_adapters(t, "is_dp_aux_en", "dump_dp_attributes") \in Lists(f)
  BY <1>1, <1>2, EnabledLeft, Zenon
<1> HIDE DEF Lists
<1> QED
  BY <1>3, FillLeft, PowerLeft, RouterBodiesLeft, GenWakesLeft, GenStatusLeft, LanesLeft,
     Usb3Left, PcieLeft, DpLeft DEF Body, Functions

-----------------------------------------------------------------------------
(* ... and is left with one *)

\* A port taken from a topology ID has six bits.
LEMMA LevelFits ==
  ASSUME NEW id, NEW k \in Int
  PROVE  LevelOf(id, k) \in 0 .. 63
<1>1. {b - 8 * k : b \in id \cap (8 * k .. 8 * k + 5)} \subseteq 0 .. 5
  OBVIOUS
<1> QED
  BY <1>1, NumberFits, Zenon DEF LevelOf

\* The router's depth is a number.
LEMMA DepthFits == IsEnv(env) => Depth \in Nat
<1> SUFFICES ASSUME IsEnv(env) PROVE Depth \in Nat
  OBVIOUS
<1>1. CASE IsDevice
  <2>1. Depth = Len(env.route) /\ Len(env.route) \in 0 .. 7
    BY <1>1, DepthOfDevice, RouteType
  <2> QED
    BY <2>1
<1>2. CASE ~IsDevice
  BY <1>2 DEF IsDevice, Depth, depth_of_router
<1> QED
  BY <1>1, <1>2

\* The line on sleep asks for a port.
LEMMA PowerAfter ==
  ASSUME IsEnv(env), NEW q, NEW ans
  PROVE  AfterPower(q, ans) \in Lists("dump_power_states_compatibility")
<1> DEFINE fn == "dump_power_states_compatibility"
           port == get_ups_down_port(Depth)
           own == Q("is_usb4_port_configured", port)
           up == Upstream(Q("get_tbt3_lanes_configured", port))
<1>1. port \in 0 .. 63
  <2>1. Depth - 1 \in Int
    BY DepthFits
  <2> QED
    BY <2>1, LevelFits, Zenon DEF get_ups_down_port
<1> HIDE DEF port
<1>2. own \in Items(fn) /\ up \in Items(fn)
  <2>1. port \in 0 .. 64
    BY <1>1
  <2>2. {"is_usb4_port_configured", "get_tbt3_lanes_configured"} \subseteq Asks
    BY DEF Asks, SleepQs
  <2> QED
    BY <2>1, <2>2 DEF Items, Q, Upstream, SleepQs, AdapterQs, Decisive, HostQs
<1>3. own.get \notin Followers /\ up.get \notin Followers
  BY DEF Q, Upstream, Followers, LeaderOf
<1> HIDE DEF own, up
<1>4. <<own>> \in Lists(fn) /\ <<up>> \in Lists(fn)
  BY <1>2, <1>3, OneLeft, Zenon DEF Lists
<1> QED
  BY <1>4, WhenLeft, Zenon DEF AfterPower, own, up, port

\* What a tunnel's line goes on with.
LEMMA TunnelingAfter ==
  ASSUME NEW fn, fn # "dump_lane_adapters", NEW on \in OfSelf, NEW q, NEW ans, NEW failed
  PROVE  AfterTunneling(on, q, ans, failed) \in Lists(fn)
BY OneKindLeft, WhenLeft, Zenon DEF AfterTunneling

\* The wakes of the lanes.
LEMMA WakesAfter ==
  ASSUME NEW fn, fn # "dump_lane_adapters", NEW q, NEW ans, NEW max
  PROVE  AfterWakes(q, ans, max) \in Lists(fn) /\ AfterWakeStatus(q, ans, max) \in Lists(fn)
<1>1. "dump_usb4_gen_wakes" \in OfSelf
  BY DEF OfSelf, Functions
<1>2. When(IsDevice, <<R("dump_usb4_gen_wakes")>>) \in Lists(fn)
  BY <1>1, OneKindLeft, WhenLeft, Zenon
<1>3. {"get_usb4_wakes_en", "get_tbt3_wake_events_en", "get_usb4_wake_status"} \subseteq PerAdapter
  BY DEF PerAdapter, OfAdapters, AdapterQs, HostQs
<1>4. /\ Each(LanesUpTo(max), LAMBDA a : <<Q("get_usb4_wakes_en", a)>>) \in Lists(fn)
      /\ Each(LanesUpTo(max), LAMBDA a : <<Q("get_tbt3_wake_events_en", a)>>) \in Lists(fn)
      /\ Each(LanesUpTo(max), LAMBDA a : <<Q("get_usb4_wake_status", a)>>) \in Lists(fn)
  BY <1>3, LoopsFit, LoopsLeft, Zenon DEF Each
<1>5. When(IsDevice, <<R("dump_usb4_gen_wakes")>>)
        \o Each(LanesUpTo(max), LAMBDA a : <<Q("get_usb4_wakes_en", a)>>) \in Lists(fn)
  BY <1>2, <1>4, ListsJoin, Zenon
<1>6. AfterWakes(q, ans, max) \in Lists(fn)
  BY <1>4, <1>5, WhenLeft, Zenon DEF AfterWakes
<1>7. AfterWakeStatus(q, ans, max) \in Lists(fn)
  BY <1>4, WhenLeft, Zenon DEF AfterWakeStatus
<1> QED
  BY <1>6, <1>7

\* What a lane is asked next.
LEMMA LaneAfter ==
  ASSUME NEW q, q.at \in Adapters, NEW ans
  PROVE  AfterLane(q, ans) \in Lists("dump_lane_adapters")
<1> DEFINE fn == "dump_lane_adapters"
           tbt3 == <<"is_tbt3_hot_events_disabled_lane", "is_tbt3_clx_supported">>
           clx == <<"are_cl0s_enabled", "is_cl1_enabled", "is_cl2_enabled">>
<1>1. tbt3 \in Seq(PerAdapter) /\ clx \in Seq(PerAdapter)
  BY DEF PerAdapter, OfAdapters, AdapterQs, HostQs, OfRouter, RouterQs, Followers, LeaderOf, Decisive
<1>2. {"are_hot_events_disabled", "is_usb4_clx_supported"} \subseteq PerAdapter
  BY DEF PerAdapter, OfAdapters, AdapterQs, HostQs
<1> HIDE DEF tbt3, clx
<1>3. All(tbt3, q.at) \in Lists(fn) /\ All(clx, q.at) \in Lists(fn)
  BY <1>1, KindsLeft, Zenon
<1>4. /\ <<Q("are_hot_events_disabled", q.at)>> \in Lists(fn)
      /\ <<Q("is_usb4_clx_supported", q.at)>> \in Lists(fn)
  BY <1>2, OneKindLeft, Zenon
<1>5. \A b : <<Q("are_hot_events_disabled", q.at)>>
               \o When(b, <<Q("is_usb4_clx_supported", q.at)>>) \in Lists(fn)
  BY <1>4, WhenLeft, ListsJoin, Zenon
<1>6. \A b : When(b, All(clx, q.at)) \in Lists(fn)
  BY <1>3, WhenLeft, Zenon
<1> HIDE DEF fn
<1> QED
  BY <1>3, <1>5, <1>6, NoneLeft, Zenon DEF AfterLane, tbt3, clx, fn

\* An adapter for DP is asked twice.
LEMMA EnabledAfter ==
  ASSUME NEW fn, NEW q \in Items(fn), NEW ans
  PROVE  AfterEnabled(q, ans) \in Rests(fn, q)
<1> DEFINE vid == Q("is_dp_vid_en", q.at)
<1>1. ASSUME q.get = "is_dp_aux_en" PROVE vid \in Items(fn) /\ Leads(q, vid)
  <2>1. q.at \in Adapters /\ q.of = "self" /\ q.at \in 0 .. 64
    BY <1>1 DEF Items, AdapterQs, SleepQs
  <2> QED
    BY <1>1, <2>1 DEF Items, Q, Asks, AdapterQs, SleepQs, Decisive, HostQs, Leads, LeaderOf
<1>2. q.get = "is_dp_aux_en" => <<vid>> \in Rests(fn, q)
  <2> HIDE DEF vid
  <2> QED
    BY <1>1, OneLeft, Zenon
<1> QED
  BY <1>2, NoneLeft, AnyTime DEF AfterEnabled, When

\* How a function goes on.
LEMMA AfterLeft ==
  ASSUME IsEnv(env), NEW f, NEW q \in Items(f.fn), NEW ans
  PROVE  /\ After(f, q, ans) \in Rests(f.fn, q)
         /\ q.get # "is_dp_aux_en" => After(f, q, ans) \in Lists(f.fn)
         /\ q.get \in Leaders /\ (q.get # "is_dp_aux_en" \/ Recognised(q, ans)) =>
              After(f, q, ans) = <<>>
<1> DEFINE fn == f.fn
           aft == After(f, q, ans)
           Special == {"dump_router_verbose", "dump_power_states_compatibility",
                       "dump_pcie_tunneling_status", "dump_usb3_tunneling_status",
                       "dump_wakes", "dump_wake_status", "dump_lane_adapters"}
<1>1. {"is_tunneling_on_pcie", "is_tunneling_on_usb3", "dump_wake_status"} \subseteq OfSelf
  BY DEF OfSelf, Functions, OfRouter, RouterQs, Followers, LeaderOf, Decisive
<1>2. ASSUME fn \in Special PROVE aft \in Lists(fn)
  <2>1. CASE fn = "dump_router_verbose"
    <3>1. AfterHeader(q, ans) \in Lists(fn)
      BY <1>1, <2>1, OneKindLeft, WhenLeft, Zenon DEF AfterHeader
    <3> QED
      BY <2>1, <3>1 DEF After
  <2>2. CASE fn = "dump_power_states_compatibility"
    BY <2>2, PowerAfter DEF After
  <2>3. CASE fn = "dump_pcie_tunneling_status"
    <3>1. AfterTunneling("is_tunneling_on_pcie", q, ans, f.failed) \in Lists(fn)
      BY <1>1, <2>3, TunnelingAfter
    <3> QED
      BY <2>3, <3>1 DEF After
  <2>4. CASE fn = "dump_usb3_tunneling_status"
    <3>1. AfterTunneling("is_tunneling_on_usb3", q, ans, f.failed) \in Lists(fn)
      BY <1>1, <2>4, TunnelingAfter
    <3> QED
      BY <2>4, <3>1 DEF After
  <2>5. CASE fn = "dump_wakes"
    BY <2>5, WakesAfter DEF After
  <2>6. CASE fn = "dump_wake_status"
    BY <2>6, WakesAfter DEF After
  <2>7. CASE fn = "dump_lane_adapters"
    <3>1. q.at \in Adapters
      BY <2>7 DEF Items
    <3> QED
      BY <2>7, <3>1, LaneAfter DEF After
  <2> QED
    BY <1>2, <2>1, <2>2, <2>3, <2>4, <2>5, <2>6, <2>7
<1>3. ASSUME fn \notin Special PROVE aft = AfterEnabled(q, ans)
  BY <1>3 DEF After
<1>4. q.get # "is_dp_aux_en" \/ Recognised(q, ans) => AfterEnabled(q, ans) = <<>>
  BY DEF AfterEnabled, When
<1>5. ASSUME q.get \in Leaders, fn \in Special PROVE aft = <<>>
  <2>1. /\ q.get \notin {"get_usb4v", "is_tunneling_ready", "is_tbt3_clx_supported",
                         "is_usb4_clx_supported"}
    BY <1>5 DEF Leaders, Followers, LeaderOf
  <2> QED
    BY <1>5, <2>1 DEF After, AfterHeader, AfterPower, AfterTunneling, AfterWakes,
                       AfterWakeStatus, AfterLane, When
<1> HIDE DEF aft, Special, fn
<1>6. aft \in Rests(fn, q)
  BY <1>2, <1>3, AnyTime, EnabledAfter, Zenon DEF fn
<1>7. q.get # "is_dp_aux_en" => aft \in Lists(fn)
  BY <1>2, <1>3, <1>4, NoneLeft, Zenon
<1>8. q.get \in Leaders /\ (q.get # "is_dp_aux_en" \/ Recognised(q, ans)) => aft = <<>>
  BY <1>3, <1>4, <1>5, Zenon
<1> QED
  BY <1>6, <1>7, <1>8 DEF fn, aft

\* The list after an answer.
LEMMA RestLeft ==
  ASSUME IsEnv(env), NEW f, NEW p, f.todo \in Rests(f.fn, p), f.todo # <<>>, NEW ans
  PROVE  Rest(f, Head(f.todo), ans) \in Rests(f.fn, Head(f.todo))
<1> DEFINE fn == f.fn
           q == Head(f.todo)
           t == Tail(f.todo)
           aft == After(f, q, ans)
<1>1. q \in Items(fn) /\ t \in Rests(fn, q) /\ (q.get = "is_dp_aux_en" => t \in Lists(fn))
  BY TailLeft, Zenon
<1>2. /\ aft \in Rests(fn, q)
      /\ q.get \in Leaders /\ q.get # "is_dp_aux_en" => aft = <<>>
  BY <1>1, AfterLeft, Zenon
<1>3. <<>> \in Rests(fn, q)
  BY NoneLeft, AnyTime, Zenon
<1>4. <<>> \o t = t
  <2>1. t \in Seq(Items(fn))
    BY <1>1, Zenon DEF Rests
  <2> HIDE DEF t
  <2> QED
    BY <2>1
<1>5. aft \o t \in Rests(fn, q)
  <2> HIDE DEF aft, t, q, fn
  <2>1. CASE q.get \in Leaders /\ q.get # "is_dp_aux_en"
    BY <1>1, <1>2, <1>4, <2>1, Zenon
  <2>2. CASE q.get = "is_dp_aux_en" \/ q.get \notin Leaders
    <3>1. t \in Lists(fn)
      BY <1>1, <2>2, Alone, Zenon
    <3> QED
      BY <1>2, <3>1, RestsJoin, Zenon
  <2> QED
    BY <2>1, <2>2, Zenon
<1> QED
  BY <1>3, <1>5, Zenon DEF Rest

\* What follows relies on an answer.
LEMMA FollowerRelies ==
  ASSUME IsEnv(env), NEW f, NEW p, f.todo \in Rests(f.fn, p), f.todo # <<>>, NEW ans,
         NEW q, q = Head(f.todo), NEW s, s = Rest(f, q, ans), s # <<>>,
         Head(s).get \in Followers
  PROVE  Leads(q, Head(s)) /\ (q.get \in Unchecked \/ ~Recognised(q, ans))
<1> DEFINE fn == f.fn
           t == Tail(f.todo)
<1>1. q \in Items(fn) /\ t \in Rests(fn, q) /\ (q.get = "is_dp_aux_en" => t \in Lists(fn))
  BY TailLeft, Zenon
<1>2. s \in Rests(fn, q)
  BY RestLeft, Zenon
<1>3. Len(s) > 0 /\ Head(s) = s[1] /\ 1 \in 1 .. Len(s)
  <2>1. s \in Seq(Items(fn))
    BY <1>2, Zenon DEF Rests
  <2> HIDE DEF fn
  <2> QED
    BY <2>1
<1>4. Leads(q, Head(s))
  BY <1>2, <1>3, Zenon DEF Rests, Led
<1>5. ~GivesUp(fn, q, ans) /\ s = After(f, q, ans) \o t
  BY Zenon DEF Rest
<1>6. CASE q.get \in Decisive
  BY <1>1, <1>5, <1>6, <1>4 DEF GivesUp, Items
<1>7. CASE q.get = "is_dp_aux_en"
  <2>1. ASSUME Recognised(q, ans) PROVE FALSE
    <3>1. After(f, q, ans) = <<>>
      BY <1>1, <1>7, <2>1, AfterLeft DEF Leaders, Followers, LeaderOf
    <3>2. <<>> \o t = t
      <4>1. t \in Seq(Items(fn))
        BY <1>1, Zenon DEF Rests
      <4> HIDE DEF t, fn
      <4> QED
        BY <4>1
    <3>3. s \in Lists(fn)
      BY <1>1, <1>5, <1>7, <3>1, <3>2, Zenon
    <3> QED
      BY <1>3, <3>3, NobodyLeads, NoFollower, Zenon DEF Lists
  <2> QED
    BY <1>4, <2>1
<1>8. q.get \in Decisive \cup Unchecked \cup {"is_dp_aux_en"}
  BY <1>4 DEF Leads, Followers, LeaderOf, Decisive, Unchecked
<1> QED
  BY <1>4, <1>6, <1>7, <1>8

-----------------------------------------------------------------------------
(* What an answer tells *)

\* What is known of the getter of a question.
LEMMA GetterOf ==
  ASSUME NEW n \in Questions \cup {"get_tbt3_com_reg_dwords", "get_tbt3_usb4_reg_dwords"}
  PROVE  LET g == Getter[n]
         IN /\ Known(n, g) /\ Serves(n, g) /\ WellFormed(g) /\ g.width \in 1 .. 64 /\ g.fail > 2
            /\ Sentinel(g) = {g.fail}
            /\ \A w \in SUBSET Word : Genuine(g, w) = FieldOf(g, w)
<1> DEFINE g == Getter[n]
<1>1. n \in DOMAIN Getter
  <2>1. {"get_tbt3_com_reg_dwords", "get_tbt3_usb4_reg_dwords"} \subseteq Names(Vsec6Common)
    BY DEF Names, Vsec6Common
  <2>2. Names(Vsec6Common) \subseteq Names(OfRouters) /\ Names(OfRouters) \subseteq Names(Getter)
    BY JoinNames DEF OfRouters, Getter
  <2> QED
    BY <2>1, <2>2, QuestionsHaveGetters DEF Names
<1>2. Known(n, g) /\ Serves(n, g) /\ WellFormed(g) /\ g.width \in 1 .. 64 /\ g.fail > 2
  BY <1>1, GetterSound, GetterAgrees DEF Sound, Agrees
<1>3. Sentinel(g) = {g.fail} /\ \A w \in SUBSET Word : Genuine(g, w) = FieldOf(g, w)
  <2>1. {} \in SUBSET Word
    OBVIOUS
  <2> QED
    BY <1>2, <2>1, WellFormedUnambiguous, Zenon
<1> QED
  BY <1>2, <1>3

\* The getters of a port in VSEC6.
LEMMA PortGetters == DOMAIN Vsec6Port = PortQs
BY DEF Vsec6Port, PortQs

\* A port has two adapters.
LEMMA PortOfIs ==
  ASSUME NEW a \in 1 .. 64
  PROVE  PortOf(a) = get_usb4_port_num(a)
<1> DEFINE p == (a - 1) \div 2
<1>1. p \in 0 .. 31 /\ a \in {2 * p + 1, 2 * p + 2}
  OBVIOUS
<1>2. \A r \in 0 .. 31 : a \in {2 * r + 1, 2 * r + 2} => r = p
  OBVIOUS
<1>3. PICK r : r = PortOf(a)
  OBVIOUS
<1>4. r \in 0 .. 31 /\ a \in {2 * r + 1, 2 * r + 2}
  <2> HIDE DEF p
  <2> QED
    BY <1>1, <1>3, Zenon DEF PortOf
<1> QED
  BY <1>2, <1>3, <1>4 DEF get_usb4_port_num

\* A field is what was put there.
LEMMA FieldAt ==
  ASSUME NEW lo \in Nat, NEW hi \in Nat, NEW B \in SUBSET Nat, NEW w,
         w \cap (lo .. hi) = At(lo, B)
  PROVE  {y - lo : y \in w \cap (lo .. hi)} = B
<1>1. \A b \in B : lo + b - lo = b
  OBVIOUS
<1>2. {y - lo : y \in At(lo, B)} = B
  <2>1. ASSUME NEW x \in {y - lo : y \in At(lo, B)} PROVE x \in B
    BY <1>1, <2>1 DEF At
  <2>2. ASSUME NEW x \in B PROVE x \in {y - lo : y \in At(lo, B)}
    <3>1. PICK y : y = lo + x
      OBVIOUS
    <3>2. y \in At(lo, B) /\ x = y - lo
      BY <1>1, <2>2, <3>1 DEF At
    <3> QED
      BY <3>2, Zenon
  <2> QED
    BY <2>1, <2>2, Zenon
<1> QED
  BY <1>2

\* What the common region of VSEC6 says of the registers of a port.
LEMMA LengthsRead ==
  LET w == Content("self", "vsec6", 2, 0)
  IN /\ Number[Genuine(Getter["get_tbt3_com_reg_dwords"], w)] = ComLen
     /\ Number[Genuine(Getter["get_tbt3_usb4_reg_dwords"], w)] = Usb4Len
<1> DEFINE w == At(8, Binary(8)) \cup At(16, Binary(161))
<1>1. Content("self", "vsec6", 2, 0) = w
  BY DEF Content, ComLen, Usb4Len
<1>2. Binary(8) \subseteq 0 .. 7 /\ Binary(161) \subseteq 0 .. 7
  BY BinaryIs
<1>3. w \in SUBSET Word
  BY <1>2 DEF At, Word
<1> DEFINE com == Getter["get_tbt3_com_reg_dwords"]
           port == Getter["get_tbt3_usb4_reg_dwords"]
<1>4. /\ Genuine(com, w) = FieldOf(com, w) /\ com.mask = 8 .. 15 /\ com.shift = 8
      /\ Genuine(port, w) = FieldOf(port, w) /\ port.mask = 16 .. 27 /\ port.shift = 16
  <2> HIDE DEF w
  <2> QED
    BY <1>3, GetterOf DEF Known, Bits
<1> HIDE DEF com, port
<1>5. FieldOf(com, w) = Binary(8)
  <2>1. w \cap (8 .. 15) = At(8, Binary(8))
    BY <1>2 DEF At
  <2> HIDE DEF w
  <2>2. Binary(8) \in SUBSET Nat
    BY <1>2
  <2>3. 8 \in Nat /\ 15 \in Nat
    OBVIOUS
  <2>4. {y - 8 : y \in w \cap (8 .. 15)} = Binary(8)
    BY <2>1, <2>2, <2>3, FieldAt, Zenon
  <2> QED
    BY <1>4, <2>4, Zenon DEF FieldOf
<1>6. FieldOf(port, w) = Binary(161)
  <2>1. w \cap (16 .. 27) = At(16, Binary(161))
    BY <1>2 DEF At
  <2> HIDE DEF w
  <2>2. Binary(161) \in SUBSET Nat
    BY <1>2
  <2>3. 16 \in Nat /\ 27 \in Nat
    OBVIOUS
  <2>4. {y - 16 : y \in w \cap (16 .. 27)} = Binary(161)
    BY <2>1, <2>2, <2>3, FieldAt, Zenon
  <2> QED
    BY <1>4, <2>4, Zenon DEF FieldOf
<1>7. Number[Binary(8)] = 8 /\ Number[Binary(161)] = 161
  BY NumberOfBinary
<1> HIDE DEF w
<1>8. Number[Genuine(com, w)] = ComLen /\ Number[Genuine(port, w)] = Usb4Len
  BY <1>4, <1>5, <1>6, <1>7 DEF ComLen, Usb4Len
<1> QED
  BY <1>1, <1>8, Zenon DEF com, port

\* A register is found if its capability begins where it should.
LEMMA Unshifted ==
  ASSUME NEW of, NEW cap, NEW off \in Nat, NEW at, Lead(of, cap) = 0,
         ~get_register_val(of, cap, off, at).failed
  PROVE  get_register_val(of, cap, off, at).word = Content(of, cap, off, at)
<1>1. off + Lead(of, cap) = off
  OBVIOUS
<1> QED
  BY <1>1 DEF get_register_val, Unavailable

\* A register of a router is found, if it is.
LEMMA RouterUnshifted ==
  ASSUME NEW of, NEW cap, NEW off \in Nat, Lead(of, cap) = 0,
         ~get_router_register_val(of, cap, off).failed
  PROVE  get_router_register_val(of, cap, off).word = Content(of, cap, off, 0)
BY Unshifted DEF get_router_register_val, Unavailable

\* What is answered is the field of that register of that adapter or port.
LEMMA AnswerTells ==
  ASSUME IsEnv(env), NEW fn, NEW q \in Items(fn), q.get \in Questions,
         ~SleepLine(q), ~Shifted(q), ~Lookup(q).failed
  PROVE  Answer(q) = Truth(q)
<1> DEFINE g == Getter[q.get]
           off == IF q.get \in DOMAIN Vsec6Port
                  THEN ComLen + Usb4Len * PortOf(q.at) + g.off ELSE g.off
           at == IF g.who = Router THEN 0 ELSE q.at
<1>1. /\ Known(q.get, g)
      /\ \A w \in SUBSET Word : Genuine(g, w) = FieldOf(g, w)
  BY GetterOf
<1>2. q.of = "self" /\ Lead("self", g.cap) = 0 /\ g.off \in Nat
  <2>1. q.of = "self" /\ Lead("self", g.cap) = 0
    BY DEF Items, SleepLine, SleepQs, Shifted
  <2> QED
    BY <1>1, <2>1 DEF Known
<1>3. Lookup(q).word = Content("self", g.cap, off, at)
  <2>1. CASE g.who # Router
    <3>1. q.get \notin DOMAIN Vsec6Port
      BY <1>1, <2>1, PortGetters DEF Known
    <3>2. ~(g.host /\ IsDevice)
      BY <1>1 DEF Known, Items
    <3>3. /\ Lookup(q) = get_adapter_register_val(g.cap, g.off, q.at)
          /\ ~get_adapter_register_val(g.cap, g.off, q.at).failed
      BY <2>1, <3>2 DEF Lookup, Unavailable
    <3>4. Lookup(q) = get_register_val("self", g.cap, g.off, q.at)
      BY <3>3 DEF get_adapter_register_val, Unavailable
    <3> HIDE DEF g
    <3>5. Lookup(q).word = Content("self", g.cap, g.off, q.at)
      BY <1>2, <3>4, Unshifted
    <3> QED
      BY <2>1, <3>1, <3>5, Zenon
  <2>2. CASE g.who = Router /\ q.get \in DOMAIN Vsec6Port
    <3> DEFINE v == PortOffset("self", g.off, q.at)
               com == get_router_register_val("self", "vsec6", 2)
    <3>1. g.cap = "vsec6"
      BY <1>1, <2>2, PortGetters DEF Known
    <3>2. /\ ~(v < 0) /\ Lookup(q) = get_router_register_val("self", g.cap, v)
          /\ ~get_router_register_val("self", g.cap, v).failed
      BY <1>2, <2>2 DEF Lookup, Unavailable
    <3>3. ~com.failed
      BY <3>2 DEF PortOffset
    <3>4. com.word = Content("self", "vsec6", 2, 0)
      BY <1>2, <3>1, <3>3, RouterUnshifted
    <3>5. v = Usb4Len * get_usb4_port_num(q.at) + ComLen + g.off
      <4> HIDE DEF com, g
      <4> QED
        BY <3>3, <3>4, LengthsRead, Zenon DEF PortOffset, com
    <3>6. q.at \in 1 .. 64
      <4>1. q.get \in AdapterQs
        BY <2>2, PortGetters DEF PortQs, AdapterQs, SleepLine, Questions, By6, By8, By16,
           By32, Unchecked, Codes
      <4>2. Adapters \subseteq 1 .. 64
        BY AdaptersFit DEF Adapters
      <4> QED
        BY <4>1, <4>2 DEF Items
    <3>7. v = off /\ v \in Nat
      BY <1>2, <2>2, <3>5, <3>6, PortOfIs DEF ComLen, Usb4Len, get_usb4_port_num
    <3> HIDE DEF g, v, off
    <3>8. get_router_register_val("self", g.cap, v).word = Content("self", g.cap, v, 0)
      BY <1>2, <3>2, <3>7, RouterUnshifted, Zenon
    <3>9. Lookup(q).word = Content("self", g.cap, off, 0)
      BY <3>2, <3>7, <3>8, Zenon
    <3> QED
      BY <2>2, <3>9, Zenon
  <2>3. CASE g.who = Router /\ q.get \notin DOMAIN Vsec6Port
    BY <1>1, <1>2, <2>3, RouterUnshifted DEF Lookup
  <2> QED
    BY <2>1, <2>2, <2>3
<1> QED
  BY <1>1, <1>2, <1>3, LookupFindsWord DEF Answer, Truth

-----------------------------------------------------------------------------
(* Calls, and what of them stays *)

\* Frames after question p, and stacks of which the last question was p.
Frames(p) ==
  {f \in [fn : Functions \cup {"dump_router_verbose"},
          todo : Seq([get : Asks \cup Functions \cup {"get_upstream_router"}, at : 0 .. 64,
                      of : {"self", "upstream"}]),
          max : 0 .. 64, failed : BOOLEAN] :
     f.todo \in Rests(f.fn, p)}

Stacked(st, p) == st \in Seq(Frames(p)) /\ (st # <<>> => Tail(st) \in Seq(Frames(Nobody)))

\* What depends on the router alone stays.
LEMMA EnvSame ==
  ASSUME env' = env
  PROVE  /\ \A of, cap : Lead(of, cap)' = Lead(of, cap)
         /\ \A lo, hi : RouteBits(lo, hi)' = RouteBits(lo, hi)
         /\ \A of, cap, off, at : Content(of, cap, off, at)' = Content(of, cap, off, at)
         /\ \A of, cap, off : Blocked(of, cap, off)' = Blocked(of, cap, off)
         /\ \A of, cap : HasCap(of, cap)' = HasCap(of, cap)
         /\ IsDevice' = IsDevice /\ total_adps' = total_adps
         /\ \A q : Shifted(q)' = Shifted(q) /\ Truth(q)' = Truth(q)
         /\ \A st, p : Stacked(st, p)' = Stacked(st, p)
<1>1. \A of, cap, off : Blocked(of, cap, off)' = Blocked(of, cap, off)
  BY DEF Blocked
<1>2. \A of, cap : Lead(of, cap)' = Lead(of, cap)
  BY <1>1 DEF Lead, Blocked
<1>3. \A lo, hi : RouteBits(lo, hi)' = RouteBits(lo, hi)
  BY DEF RouteBits
<1>4. \A of, cap, off, at : Pattern(of, cap, off, at)' = Pattern(of, cap, off, at)
  BY DEF Pattern
<1>5. \A a : TypeAt(a)' = TypeAt(a)
  BY DEF TypeAt
<1>6. \A of, cap, off, at : Content(of, cap, off, at)' = Content(of, cap, off, at)
  <2> TAKE of, cap, off, at
  <2>1. /\ RouteBits(1, 4)' = RouteBits(1, 4) /\ RouteBits(5, 7)' = RouteBits(5, 7)
        /\ Pattern(of, cap, off, at)' = Pattern(of, cap, off, at) /\ TypeAt(at)' = TypeAt(at)
    BY <1>3, <1>4, <1>5, Zenon
  <2> QED
    BY <2>1, Zenon DEF Content
<1>7. \A of, cap : HasCap(of, cap)' = HasCap(of, cap)
  BY DEF HasCap
<1>8. IsDevice' = IsDevice /\ total_adps' = total_adps
  BY DEF IsDevice, total_adps
<1>9. \A q : Shifted(q)' = Shifted(q)
  BY <1>2 DEF Shifted
<1>10. \A q : Truth(q)' = Truth(q)
  BY <1>6 DEF Truth
<1>11. \A fn : Items(fn)' = Items(fn)
  BY <1>8 DEF Items
<1>12. \A fn, p : Rests(fn, p)' = Rests(fn, p)
  BY <1>11 DEF Rests
<1>13. \A p : Frames(p)' = Frames(p)
  BY <1>12 DEF Frames
<1>14. \A st, p : Stacked(st, p)' = Stacked(st, p)
  BY <1>13 DEF Stacked
<1> QED
  BY <1>1, <1>2, <1>3, <1>6, <1>7, <1>8, <1>9, <1>10, <1>14

\* So does what a lookup finds while nothing gets lost and no type is found.
LEMMA LookupSame ==
  ASSUME UNCHANGED <<env, types, lost>>
  PROVE  \A q : Lookup(q)' = Lookup(q)
<1>1. env' = env /\ types' = types /\ lost' = lost
  OBVIOUS
<1>2. \A of, cap, off, at :
         get_register_val(of, cap, off, at)' = get_register_val(of, cap, off, at)
  BY <1>1, EnvSame, Zenon DEF get_register_val
<1>3. \A of, cap, off :
         get_router_register_val(of, cap, off)' = get_router_register_val(of, cap, off)
  BY <1>1, <1>2, Zenon DEF get_router_register_val, RouterFound
<1>4. \A cap, off, a :
         get_adapter_register_val(cap, off, a)' = get_adapter_register_val(cap, off, a)
  BY <1>1, <1>2, EnvSame, Zenon DEF get_adapter_register_val, RouterFound
<1>5. \A who, a : HasType(who, a)' = HasType(who, a)
  BY <1>1, Zenon DEF HasType, is_adp_lane_0
<1>6. \A a : is_adp_present(a)' = is_adp_present(a)
  BY <1>1, Zenon DEF is_adp_present
<1>7. \A of, off, adp : PortOffset(of, off, adp)' = PortOffset(of, off, adp)
  BY <1>3, Zenon DEF PortOffset
<1>8. IsDevice' = IsDevice
  BY <1>1, EnvSame, Zenon
<1> QED
  BY <1>3, <1>4, <1>5, <1>6, <1>7, <1>8, Zenon DEF Lookup

\* An answer has at most 64 bits.
LEMMA AnswerFits ==
  ASSUME NEW q, q.get \in Questions
  PROVE  Answer(q) \subseteq 0 .. 63
<1>1. Getter[q.get].width \in 1 .. 64
  BY GetterOf
<1> QED
  BY <1>1 DEF Answer, Sentinel, Genuine, Returned

\* The number of adapters, or the sentinel, has seven.
LEMMA MaxFits ==
  ASSUME IsEnv(env), NEW q, q.get = "get_max_adp"
  PROVE  Number[Answer(q)] \in 0 .. 64
<1> DEFINE g == Getter[q.get]
           w == Lookup(q).word
<1>1. q.get \in Checked /\ q.get \in Questions /\ ComparedWith(q.get) = {6}
  <2>1. q.get \in By6 /\ q.get \notin Unchecked /\ q.get \notin Codes
        /\ q.get \notin By8 /\ q.get \notin By16
    BY DEF By6, Unchecked, Codes, By8, By16
  <2> QED
    BY <2>1 DEF Checked, Questions, ComparedWith
<1>2. /\ g.mask = 14 .. 19 /\ g.shift = 14 /\ Genuine(g, w) = FieldOf(g, w)
      /\ Sentinel(g) = {g.fail}
  BY <1>1, GetterOf, LookupFindsWord DEF Known, Bits
<1>3. CASE Lookup(q).failed
  <2>1. {g.fail} = {6}
    BY <1>1, QuestionsHaveGetters, GetterAgrees DEF Agrees
  <2> QED
    BY <1>2, <1>3, <2>1, NumberOfSentinel DEF Answer
<1>4. CASE ~Lookup(q).failed
  <2>1. FieldOf(g, w) \subseteq 0 .. 5
    BY <1>2 DEF FieldOf
  <2>2. Answer(q) = FieldOf(g, w)
    BY <1>2, <1>4 DEF Answer
  <2>3. Number[FieldOf(g, w)] \in 0 .. 63
    BY <2>1, NumberFits, Zenon
  <2> QED
    BY <2>2, <2>3
<1> QED
  BY <1>3, <1>4

\* Both halves of the topology ID are what the registers hold.
LEMMA TopAnswers ==
  ASSUME IsEnv(env), NEW fn, NEW q \in Items(fn), ~Lookup(q).failed,
         Lead("self", "basic") = 0
  PROVE  /\ q.get = "get_top_id_low" => Answer(q) = RouteBits(1, 4)
         /\ q.get = "get_top_id_high" => Answer(q) = RouteBits(5, 7)
<1>1. RouteBits(1, 4) \subseteq Word /\ RouteBits(5, 7) \subseteq 0 .. 23
  BY RouteFits
<1>2. {"get_top_id_low", "get_top_id_high"} \subseteq Questions
  BY DEF Questions, By32
<1> DEFINE g == Getter[q.get]
<1>3. ASSUME q.get = "get_top_id_low" PROVE Answer(q) = RouteBits(1, 4)
  <2>1. Reads(g, "basic", 2, Router) /\ g.mask = Word /\ g.shift = 0
    BY <1>2, <1>3, GetterOf DEF Known
  <2>2. ~SleepLine(q) /\ ~Shifted(q) /\ q.get \notin DOMAIN Vsec6Port /\ q.of = "self"
    BY <1>3, <2>1, PortGetters DEF SleepLine, Shifted, Reads, PortQs, Items, SleepQs
  <2>3. Answer(q) = FieldOf(g, Content("self", "basic", 2, 0))
    BY <1>2, <1>3, <2>1, <2>2, AnswerTells DEF Truth, Reads
  <2>4. Content("self", "basic", 2, 0) = RouteBits(1, 4)
    BY DEF Content
  <2> QED
    BY <1>1, <2>1, <2>3, <2>4 DEF FieldOf, Word
<1>4. ASSUME q.get = "get_top_id_high" PROVE Answer(q) = RouteBits(5, 7)
  <2>1. Reads(g, "basic", 3, Router) /\ g.mask = 0 .. 23 /\ g.shift = 0
    BY <1>2, <1>4, GetterOf DEF Known
  <2>2. ~SleepLine(q) /\ ~Shifted(q) /\ q.get \notin DOMAIN Vsec6Port /\ q.of = "self"
    BY <1>4, <2>1, PortGetters DEF SleepLine, Shifted, Reads, PortQs, Items, SleepQs
  <2>3. Answer(q) = FieldOf(g, Content("self", "basic", 3, 0))
    BY <1>2, <1>4, <2>1, <2>2, AnswerTells DEF Truth, Reads
  <2>4. Content("self", "basic", 3, 0)
          = (Pattern("self", "basic", 3, 0) \ (0 .. 23)) \cup RouteBits(5, 7)
    BY DEF Content
  <2> QED
    BY <1>1, <2>1, <2>3, <2>4 DEF FieldOf
<1> QED
  BY <1>3, <1>4

\* A code that could not be read is not shown as one.
LEMMA CodesHidden ==
  ASSUME NEW q, q.get \in Codes, Lookup(q).failed
  PROVE  ~Shown(q, Answer(q))
<1>1. q.get \in Questions
  BY DEF Questions, By16
<1>2. Answer(q) = {Getter[q.get].fail} /\ Getter[q.get].fail > 2
  BY <1>1, GetterOf DEF Answer
<1>3. \A n : n > 2 => n \notin 0 .. 2
  OBVIOUS
<1> QED
  BY <1>2, <1>3 DEF Shown

\* One who is not checked is in the register of the one it follows.
LEMMA SameRegister ==
  ASSUME NEW p, NEW q, q.get \in Unchecked, Leads(p, q)
  PROVE  Lookup(q).failed = Lookup(p).failed
<1> DEFINE g == Getter[q.get]
           h == Getter[p.get]
<1>1. p.at = q.at /\ p.of = q.of /\ p.get = LeaderOf[q.get]
  BY DEF Leads
<1>2. CASE q.get \in {"is_wake_enabled_usb3", "is_wake_enabled_dp"}
  <2>1. Reads(g, "basic", 5, Router) /\ Reads(h, "basic", 5, Router)
    <3> DEFINE T == {"is_wake_enabled_pcie", "is_wake_enabled_usb3",
                     "is_wake_enabled_dp"}
    <3>1. q.get \in T /\ p.get \in T
      BY <1>1, <1>2 DEF LeaderOf
    <3>2. T \subseteq Questions
      BY DEF Questions, By8, Unchecked
    <3>3. Known(q.get, g) /\ Known(p.get, h)
      BY <3>1, <3>2, GetterOf
    <3> QED
      BY <3>1, <3>3, Zenon DEF Known
  <2>2. q.get \notin DOMAIN Vsec6Port /\ p.get \notin DOMAIN Vsec6Port
    BY <1>1, <1>2, PortGetters DEF PortQs, LeaderOf
  <2> HIDE DEF g, h
  <2> QED
    BY <1>1, <2>1, <2>2 DEF Lookup, Reads, g, h
<1>3. CASE q.get \in {"get_wake_status_usb3", "get_wake_status_dp"}
  <2>1. Reads(g, "basic", 6, Router) /\ Reads(h, "basic", 6, Router)
    <3> DEFINE T == {"get_wake_status_pcie", "get_wake_status_usb3",
                     "get_wake_status_dp"}
    <3>1. q.get \in T /\ p.get \in T
      BY <1>1, <1>3 DEF LeaderOf
    <3>2. T \subseteq Questions
      BY DEF Questions, By8, Unchecked
    <3>3. Known(q.get, g) /\ Known(p.get, h)
      BY <3>1, <3>2, GetterOf
    <3> QED
      BY <3>1, <3>3, Zenon DEF Known
  <2>2. q.get \notin DOMAIN Vsec6Port /\ p.get \notin DOMAIN Vsec6Port
    BY <1>1, <1>3, PortGetters DEF PortQs, LeaderOf
  <2> HIDE DEF g, h
  <2> QED
    BY <1>1, <2>1, <2>2 DEF Lookup, Reads, g, h
<1>4. CASE q.get = "is_dp_vid_en"
  <2>1. Reads(g, "dp", 0, Dp) /\ Reads(h, "dp", 0, Dp)
    <3> DEFINE T == {"is_dp_aux_en", "is_dp_vid_en"}
    <3>1. q.get \in T /\ p.get \in T
      BY <1>1, <1>4 DEF LeaderOf
    <3>2. T \subseteq Questions
      BY DEF Questions, By32, Unchecked
    <3>3. Known(q.get, g) /\ Known(p.get, h)
      BY <3>1, <3>2, GetterOf
    <3> QED
      BY <3>1, <3>3, Zenon DEF Known
  <2>2. Dp # Router
    BY DEF Dp, Router
  <2> HIDE DEF g, h
  <2> QED
    BY <1>1, <2>1, <2>2 DEF Lookup, Reads, g, h
<1> QED
  BY <1>2, <1>3, <1>4 DEF Unchecked

-----------------------------------------------------------------------------
(* The invariant of a dump *)

LowRead == Lead("self", "basic") = 0 => top.low = RouteBits(1, 4)

\* What question q takes for granted when it is the next one.
ReliesOn(q) ==
  /\ q.get = "get_top_id_high" => LowRead
  /\ q.get \in Unchecked /\ calm => ~Lookup(q).failed

\* ClaimsHold, of question and answer l.
Claim(l) ==
  l.q.get \in Questions /\ ~Recognised(l.q, l.ans) /\ Shown(l.q, l.ans)
    /\ ~SleepLine(l.q) /\ ~Shifted(l.q)
    => IF l.failed THEN l.q.get \in Unchecked /\ ~l.calm ELSE l.ans = Truth(l.q)

Typed ==
  /\ types \in [0 .. MaxAdapters - 1 -> AnyAdp]
  /\ active \subseteq Adapters
  /\ top \in [read : BOOLEAN, low : SUBSET (0 .. 63), high : SUBSET (0 .. 63)]
  /\ last.ans \subseteq 0 .. 63
  /\ calm \in BOOLEAN
  /\ fate \in {"running", "done", "crash"}
  /\ lost \subseteq {"adapters", "router", "upstream", "link"}

StackFits == \A st, p : st = stack /\ p = last.q => Stacked(st, p)
NextFits  == \A q : stack # <<>> /\ frame.todo # <<>> /\ q = next => ReliesOn(q)
TopFits   == (top.read => TopRead) /\ TopSeen
LastTells == \A l : l = last => Claim(l)

DumpInv == env \in Envs /\ Typed /\ StackFits /\ NextFits /\ TopFits /\ LastTells

\* Sequences over a set are sequences over a larger one.
LEMMA SeqGrows ==
  ASSUME NEW S, NEW T, S \subseteq T, NEW s \in Seq(S)
  PROVE  s \in Seq(T)
OBVIOUS

\* What may come first, may come after anything.
LEMMA FramesGrow == \A p : Frames(Nobody) \subseteq Frames(p)
<1>1. \A fn, p : Rests(fn, Nobody) \subseteq Rests(fn, p)
  BY AnyTime, Zenon DEF Lists
<1> QED
  BY <1>1, Zenon DEF Frames

\* A sequence with something before it.
LEMMA Pushed ==
  ASSUME NEW S, NEW T, T \subseteq S, NEW x \in S, NEW t \in Seq(T)
  PROVE  /\ <<x>> \o t \in Seq(S) /\ <<x>> \o t # <<>>
         /\ Head(<<x>> \o t) = x /\ Tail(<<x>> \o t) = t
<1>1. t \in Seq(S)
  BY SeqGrows
<1>2. <<x>> \in Seq(S)
  OBVIOUS
<1>3. <<x>> \o t \in Seq(S) /\ Len(<<x>> \o t) = Len(t) + 1
  BY <1>1, <1>2
<1>4. Tail(<<x>> \o t) = t
  BY <1>1, <1>2
<1> QED
  BY <1>1, <1>2, <1>3, <1>4

\* What is on the stack, and what may be put there.
LEMMA StackTop ==
  ASSUME NEW st, NEW p, Stacked(st, p), st # <<>>
  PROVE  Head(st) \in Frames(p) /\ Tail(st) \in Seq(Frames(Nobody))
<1>1. \A S : st \in Seq(S) => Head(st) \in S
  OBVIOUS
<1> QED
  BY <1>1, Zenon DEF Stacked

\* A frame on top of others that wait.
LEMMA StackPush ==
  ASSUME NEW p, NEW f \in Frames(p), NEW t \in Seq(Frames(Nobody))
  PROVE  /\ Stacked(<<f>> \o t, p) /\ <<f>> \o t # <<>>
         /\ Head(<<f>> \o t) = f /\ Tail(<<f>> \o t) = t
<1> DEFINE st == <<f>> \o t
<1>1. /\ st \in Seq(Frames(p)) /\ st # <<>>
      /\ Head(st) = f /\ Tail(st) = t
  <2>1. Frames(Nobody) \subseteq Frames(p)
    BY FramesGrow
  <2> HIDE DEF Frames, Nobody
  <2> QED
    BY <2>1, Pushed
<1> HIDE DEF st
<1>2. Stacked(st, p)
  BY <1>1, Zenon DEF Stacked
<1> QED
  BY <1>1, <1>2, Zenon DEF st

\* Frames that wait, after any question.
LEMMA StackPop ==
  ASSUME NEW t \in Seq(Frames(Nobody)), NEW p
  PROVE  Stacked(t, p)
<1>1. t # <<>> => Tail(t) \in Seq(Frames(Nobody))
  <2>1. \A S : t \in Seq(S) /\ t # <<>> => Tail(t) \in Seq(S)
    OBVIOUS
  <2> QED
    BY <2>1, Zenon
<1>2. t \in Seq(Frames(p))
  BY FramesGrow, SeqGrows, Zenon
<1> QED
  BY <1>1, <1>2, Zenon DEF Stacked

AnyItem == [get : Asks \cup Functions \cup {"get_upstream_router"}, at : 0 .. 64,
            of : {"self", "upstream"}]

\* A rest is made of items.
LEMMA RestItems ==
  ASSUME NEW fn, NEW p, NEW s \in Rests(fn, p)
  PROVE  s \in Seq(AnyItem)
<1>1. Items(fn) \subseteq AnyItem
  BY Zenon DEF Items, AnyItem
<1>2. s \in Seq(Items(fn))
  BY Zenon DEF Rests
<1> QED
  BY <1>1, <1>2, SeqGrows, Zenon

\* A frame that goes on with another list.
LEMMA FrameLeft ==
  ASSUME NEW p, NEW f \in Frames(p), NEW q, NEW s \in Rests(f.fn, q), NEW m \in 0 .. 64,
         NEW b \in BOOLEAN
  PROVE  /\ [f EXCEPT !.todo = s, !.max = m, !.failed = b] \in Frames(q)
         /\ [f EXCEPT !.todo = s] \in Frames(q)
<1>1. s \in Seq(AnyItem)
  BY RestItems, Zenon
<1> DEFINE Todos == Seq(AnyItem)
           Fns == Functions \cup {"dump_router_verbose"}
           AnyFrame == [fn : Fns, todo : Todos, max : 0 .. 64, failed : BOOLEAN]
<1>2. \A r : Frames(r) = {g \in AnyFrame : g.todo \in Rests(g.fn, r)}
  BY Zenon DEF Frames, AnyItem
<1>3. f \in AnyFrame
  BY <1>2, Zenon
<1> HIDE DEF Todos, Fns
<1> DEFINE g == [f EXCEPT !.todo = s, !.max = m, !.failed = b]
           h == [f EXCEPT !.todo = s]
<1>4. g \in AnyFrame /\ g.todo = s /\ g.fn = f.fn
  BY <1>1, <1>3 DEF Todos
<1>5. h \in AnyFrame /\ h.todo = s /\ h.fn = f.fn
  BY <1>1, <1>3 DEF Todos
<1> HIDE DEF g, h
<1>6. g \in Frames(q) /\ h \in Frames(q)
  BY <1>2, <1>4, <1>5, Zenon
<1> QED
  BY <1>6, Zenon DEF g, h

\* A function that is called.
LEMMA FrameNew ==
  ASSUME NEW fn \in Functions \cup {"dump_router_verbose"}, NEW s \in Lists(fn)
  PROVE  /\ Frame(fn, s) \in Frames(Nobody)
         /\ Frame(fn, s).todo = s
<1>1. s \in Seq(AnyItem) /\ s \in Rests(fn, Nobody)
  BY RestItems, Zenon DEF Lists
<1> DEFINE Todos == Seq(AnyItem)
           Fns == Functions \cup {"dump_router_verbose"}
           AnyFrame == [fn : Fns, todo : Todos, max : 0 .. 64, failed : BOOLEAN]
<1>2. Frames(Nobody) = {g \in AnyFrame : g.todo \in Rests(g.fn, Nobody)}
  BY Zenon DEF Frames, AnyItem
<1>3. fn \in Fns /\ s \in Todos
  BY <1>1, Zenon
<1> HIDE DEF Todos, Fns
<1>4. Frame(fn, s) \in AnyFrame /\ Frame(fn, s).todo = s /\ Frame(fn, s).fn = fn
  BY <1>3 DEF Frame
<1> QED
  BY <1>1, <1>2, <1>4, Zenon

\* The first on a list that stands alone follows no other.
LEMMA FirstFree ==
  ASSUME NEW fn, NEW s \in Lists(fn), s # <<>>
  PROVE  Head(s).get \notin Followers
<1>1. Len(s) > 0 /\ Head(s) = s[1]
  <2>1. s \in Seq(Items(fn))
    BY Zenon DEF Lists, Rests
  <2> QED
    BY <2>1
<1> QED
  BY <1>1, NobodyLeads, NoFollower, Zenon DEF Lists

\* One that follows no other takes nothing for granted.
LEMMA FreeRelies ==
  ASSUME NEW q, q.get \notin Followers
  PROVE  ReliesOn(q) /\ ReliesOn(q)'
<1>1. Unchecked \subseteq Followers /\ "get_top_id_high" \in Followers
  BY DEF Unchecked, Followers, LeaderOf
<1> QED
  BY <1>1, Zenon DEF ReliesOn

\* A stack whose next question follows no other.
LEMMA Restacked ==
  ASSUME env' = env, NEW st, NEW p, stack' = st, last'.q = p, Stacked(st, p),
         st # <<>> /\ Head(st).todo # <<>> => Head(Head(st).todo).get \notin Followers
  PROVE  StackFits' /\ NextFits'
<1>1. StackFits'
  <2>1. \A t, q : Stacked(t, q)' = Stacked(t, q)
    BY EnvSame, Zenon
  <2> QED
    BY <2>1, Zenon DEF StackFits
<1>2. NextFits'
  BY FreeRelies, Zenon DEF NextFits, frame, next
<1> QED
  BY <1>1, <1>2

\* Functions that wait go on with one that follows no other.
LEMMA Waiting ==
  ASSUME NEW t \in Seq(Frames(Nobody)), t # <<>>, Head(t).todo # <<>>
  PROVE  Head(Head(t).todo).get \notin Followers
<1>1. Head(t) \in Frames(Nobody)
  BY StackPop, StackTop, Zenon
<1>2. Head(t).todo \in Lists(Head(t).fn)
  BY <1>1, Zenon DEF Frames, Lists
<1> QED
  BY <1>2, FirstFree, Zenon

\* What was said and what was read of the topology ID stays true.
LEMMA Kept ==
  ASSUME env' = env, UNCHANGED <<last, top>>, TopFits, LastTells
  PROVE  TopFits' /\ LastTells'
<1>1. last' = last /\ top' = top
  OBVIOUS
<1>2. TopFits'
  BY <1>1, EnvSame, Zenon DEF TopFits, TopRead, TopSeen
<1>3. ASSUME NEW l PROVE Claim(l)' = Claim(l)
  BY EnvSame, Zenon DEF Claim, Recognised, Shown, SleepLine
<1>4. LastTells'
  BY <1>1, <1>3, Zenon DEF LastTells
<1> QED
  BY <1>2, <1>4

\* The next question, and what is left after it.
LEMMA NextItem ==
  ASSUME StackFits, stack # <<>>, frame.todo # <<>>
  PROVE  /\ frame \in Frames(last.q) /\ frame.todo \in Rests(frame.fn, last.q)
         /\ frame.failed \in BOOLEAN /\ frame.max \in 0 .. 64
         /\ next \in Items(frame.fn)
         /\ Tail(frame.todo) \in Rests(frame.fn, next)
         /\ Tail(stack) \in Seq(Frames(Nobody))
<1>1. Stacked(stack, last.q)
  BY Zenon DEF StackFits
<1>2. frame \in Frames(last.q) /\ Tail(stack) \in Seq(Frames(Nobody))
  BY <1>1, StackTop, Zenon DEF frame
<1>3. /\ frame.todo \in Rests(frame.fn, last.q)
      /\ frame.failed \in BOOLEAN /\ frame.max \in 0 .. 64
  <2> DEFINE Todos == Seq(AnyItem)
             Fns == Functions \cup {"dump_router_verbose"}
             AnyFrame == [fn : Fns, todo : Todos, max : 0 .. 64, failed : BOOLEAN]
  <2>1. frame \in AnyFrame /\ frame.todo \in Rests(frame.fn, last.q)
    BY <1>2, Zenon DEF Frames, AnyItem
  <2> HIDE DEF Todos, Fns
  <2> QED
    BY <2>1
<1>4. next \in Items(frame.fn) /\ Tail(frame.todo) \in Rests(frame.fn, next)
  BY <1>3, TailLeft, Zenon DEF next
<1> QED
  BY <1>2, <1>3, <1>4

\* The caller waits, whatever it called.
LEMMA CallerWaits ==
  ASSUME StackFits, stack # <<>>, frame.todo # <<>>, next.get \notin Leaders
  PROVE  Callee \in Seq(Frames(Nobody))
<1> DEFINE f == [frame EXCEPT !.todo = Tail(@)]
           s == Tail(frame.todo)
<1>1. /\ frame \in Frames(last.q) /\ s \in Rests(frame.fn, next)
      /\ Tail(stack) \in Seq(Frames(Nobody)) /\ frame.max \in 0 .. 64
  BY NextItem, Zenon
<1>2. s \in Rests(frame.fn, Nobody)
  BY <1>1, Alone, Zenon DEF Lists
<1>3. f \in Frames(Nobody)
  <2>1. \A m \in 0 .. 64, b \in BOOLEAN : [frame EXCEPT !.todo = s] \in Frames(Nobody)
    BY <1>1, <1>2, FrameLeft, Zenon
  <2>2. TRUE \in BOOLEAN
    OBVIOUS
  <2> QED
    BY <1>1, <2>1, <2>2, Zenon
<1>4. <<f>> \o Tail(stack) \in Seq(Frames(Nobody))
  <2> DEFINE t == Tail(stack)
  <2>1. t \in Seq(Frames(Nobody))
    BY <1>1
  <2> HIDE DEF f, t
  <2>2. Stacked(<<f>> \o t, Nobody)
    BY <1>3, <2>1, StackPush, Zenon
  <2> QED
    BY <2>2, Zenon DEF Stacked, t
<1> QED
  BY <1>4, Zenon DEF Callee

-----------------------------------------------------------------------------
(* Every step keeps it *)

\* The invariant after a step that says nothing and leaves the topology ID.
LEMMA Moved ==
  ASSUME DumpInv, env' = env, UNCHANGED <<last, top>>, Typed', StackFits', NextFits'
  PROVE  DumpInv'
<1>1. TopFits' /\ LastTells'
  BY Kept, Zenon DEF DumpInv
<1>2. (env \in Envs)'
  BY Zenon DEF DumpInv
<1> QED
  BY <1>1, <1>2, Zenon DEF DumpInv

\* The dump begins with its own list.
LEMMA InitFits == Init => DumpInv
<1> SUFFICES ASSUME Init PROVE DumpInv
  OBVIOUS
<1> DEFINE f == Frame("dump_router_verbose", dump_router_verbose)
<1>1. /\ f \in Frames(Nobody) /\ f.todo = dump_router_verbose
  BY DumpLeft, FrameNew, Zenon
<1>2. stack = <<f>> /\ last.q = Nobody
  BY DEF Init, Nobody
<1>3. Stacked(<<f>>, Nobody) /\ Head(<<f>>) = f
  <2>1. <<>> \in Seq(Frames(Nobody))
    OBVIOUS
  <2>2. <<f>> \o <<>> = <<f>>
    OBVIOUS
  <2> HIDE DEF f
  <2> QED
    BY <1>1, <2>1, <2>2, StackPush, Zenon
<1> HIDE DEF f
<1>4. StackFits
  BY <1>2, <1>3, Zenon DEF StackFits
<1>5. NextFits
  <2>1. frame = f
    BY <1>2, <1>3, Zenon DEF frame
  <2>2. f.todo # <<>> => Head(f.todo).get \notin Followers
    BY <1>1, DumpLeft, FirstFree, Zenon
  <2> QED
    BY <2>1, <2>2, FreeRelies, Zenon DEF NextFits, next
<1>6. Typed
  BY DEF Init, Typed, AnyAdp
<1>7. TopFits
  BY DEF Init, TopFits, TopSeen
<1>8. LastTells
  <2>1. last.q.get = "nothing"
    BY DEF Init, R, Q
  <2>2. "nothing" \notin Questions
    BY DEF Questions, By6, By8, By16, By32, Unchecked, Codes
  <2> QED
    BY <2>1, <2>2, Zenon DEF LastTells, Claim
<1>9. env \in Envs
  BY DEF Init
<1> QED
  BY <1>4, <1>5, <1>6, <1>7, <1>8, <1>9 DEF DumpInv

\* What may be asked is a question, and so is what others rely on.
LEMMA AsksAreQuestions ==
  /\ Asks \subseteq Questions /\ Leaders \subseteq Questions
  /\ "get_upstream_router" \notin Leaders
<1>1. Asks \subseteq Questions
  BY DEF Asks, AdapterQs, RouterQs, SleepQs, Questions, By6, By8, By16, By32, Unchecked, Codes
<1>2. Leaders \subseteq {"get_top_id_low", "is_wake_enabled_pcie", "is_wake_enabled_usb3",
                         "get_wake_status_pcie", "get_wake_status_usb3", "is_dp_aux_en"}
  BY DEF Leaders, Followers, LeaderOf
<1>3. {"get_top_id_low", "is_wake_enabled_pcie", "is_wake_enabled_usb3",
       "get_wake_status_pcie", "get_wake_status_usb3", "is_dp_aux_en"} \subseteq Questions
  BY DEF Questions, By6, By8, By16, By32, Unchecked, Codes
<1>4. "get_upstream_router" \notin Leaders
  BY <1>2
<1> QED
  BY <1>1, <1>2, <1>3, <1>4

\* A function is called and begins with its own list.
LEMMA CallFits == DumpInv /\ Call => DumpInv'
<1> SUFFICES ASSUME DumpInv, Call PROVE DumpInv'
  OBVIOUS
<1> DEFINE fn == next.get
           f == Frame(fn, Body(fn))
<1>1. /\ stack # <<>> /\ frame.todo # <<>> /\ fn \notin Questions /\ fn # "get_upstream_router"
      /\ StackFits
  BY Zenon DEF Call, Running, DumpInv
<1>2. fn \in Functions
  <2>1. next \in Items(frame.fn)
    BY <1>1, NextItem, Zenon
  <2>2. fn \in Asks \cup Functions \cup {"get_upstream_router"}
    BY <2>1 DEF Items
  <2> QED
    BY <1>1, <2>2, AsksAreQuestions
<1>3. fn \notin Leaders
  BY <1>1, AsksAreQuestions
<1>4. Callee \in Seq(Frames(Nobody))
  BY <1>1, <1>3, CallerWaits, Zenon
<1>5. Body(fn) \in Lists(fn)
  BY <1>2, BodyLeft, Zenon DEF DumpInv, Typed
<1>6. f \in Frames(Nobody) /\ f.todo = Body(fn)
  BY <1>2, <1>5, FrameNew, Zenon
<1> DEFINE t == <<f>> \o Callee
<1>7. env' = env /\ UNCHANGED <<last, top, types, fate, lost>> /\ stack' = t
  BY Zenon DEF Call, f
<1> HIDE DEF f, fn
<1>8. f \in Frames(last.q)
  BY <1>6, FramesGrow, Zenon
<1>9. Stacked(t, last.q) /\ Head(t) = f
  BY <1>4, <1>8, StackPush, Zenon
<1>10. f.todo # <<>> => Head(f.todo).get \notin Followers
  BY <1>5, <1>6, FirstFree, Zenon
<1>11. last'.q = last.q
  BY <1>7
<1> HIDE DEF t
<1>12. StackFits' /\ NextFits'
  BY <1>7, <1>9, <1>10, <1>11, Restacked, Zenon
<1>13. Typed'
  <2>1. calm' = TRUE /\ (active' = active \/ active' = {})
    BY Zenon DEF Call
  <2> QED
    BY <1>7, <2>1 DEF DumpInv, Typed
<1> QED
  BY <1>7, <1>12, <1>13, Moved, Zenon

\* The link to the router above is taken apart.
LEMMA UpstreamFits == DumpInv /\ get_upstream_router => DumpInv'
<1> SUFFICES ASSUME DumpInv, get_upstream_router PROVE DumpInv'
  OBVIOUS
<1>1. /\ stack # <<>> /\ frame.todo # <<>> /\ next.get = "get_upstream_router"
      /\ StackFits
  BY Zenon DEF get_upstream_router, Running, DumpInv
<1>2. Callee \in Seq(Frames(Nobody))
  BY <1>1, AsksAreQuestions, CallerWaits, Zenon
<1>3. env' = env /\ UNCHANGED <<last, top, types, active, calm, lost>> /\ stack' = Callee
  BY Zenon DEF get_upstream_router
<1>4. Stacked(Callee, last.q)
  BY <1>2, StackPop, Zenon
<1>5. last'.q = last.q
  BY <1>3
<1>6. StackFits' /\ NextFits'
  BY <1>2, <1>3, <1>4, <1>5, Waiting, Restacked, Zenon
<1>7. Typed'
  <2>1. fate' = "crash" \/ fate' = fate
    BY Zenon DEF get_upstream_router
  <2> QED
    BY <1>3, <2>1 DEF DumpInv, Typed
<1> QED
  BY <1>3, <1>6, <1>7, Moved, Zenon

\* A function returns to one that waits.
LEMMA ReturnFits == DumpInv /\ Return => DumpInv'
<1> SUFFICES ASSUME DumpInv, Return PROVE DumpInv'
  OBVIOUS
<1> DEFINE t == Tail(stack)
<1>1. t \in Seq(Frames(Nobody))
  <2>1. Stacked(stack, last.q) /\ stack # <<>>
    BY Zenon DEF DumpInv, StackFits, Return, Running
  <2> QED
    BY <2>1, StackTop, Zenon
<1>2. env' = env /\ UNCHANGED <<last, top, types, active, calm, lost>> /\ stack' = t
  BY Zenon DEF Return
<1>3. Stacked(t, last.q) /\ last'.q = last.q
  BY <1>1, <1>2, StackPop, Zenon
<1> HIDE DEF t
<1>4. StackFits' /\ NextFits'
  BY <1>1, <1>2, <1>3, Waiting, Restacked, Zenon
<1>5. Typed'
  <2>1. fate' = "done" \/ fate' = fate
    BY Zenon DEF Return
  <2> QED
    BY <1>2, <2>1 DEF DumpInv, Typed
<1> QED
  BY <1>2, <1>4, <1>5, Moved, Zenon

\* The stack stays.
LEMMA StackSame ==
  ASSUME env' = env, UNCHANGED <<stack, last>>, StackFits
  PROVE  StackFits'
<1>1. \A t, q : Stacked(t, q)' = Stacked(t, q)
  BY EnvSame, Zenon
<1>2. stack' = stack /\ last' = last
  OBVIOUS
<1> QED
  BY <1>1, <1>2, Zenon DEF StackFits

\* What was read of the topology ID.
LEMMA LowSame ==
  ASSUME env' = env, top' = top
  PROVE  LowRead' = LowRead
BY EnvSame, Zenon DEF LowRead

\* Steps that leave everything but whether the program still runs.
LEMMA StayFits ==
  ASSUME DumpInv, UNCHANGED <<env, stack, types, active, top, last, lost, calm>>,
         fate' \in {"running", "done", "crash"}
  PROVE  DumpInv'
<1>1. /\ env' = env /\ stack' = stack /\ types' = types /\ active' = active /\ top' = top
      /\ last' = last /\ lost' = lost /\ calm' = calm
  OBVIOUS
<1>2. StackFits'
  BY <1>1, StackSame, Zenon DEF DumpInv
<1>3. \A q : Lookup(q)' = Lookup(q)
  BY <1>1, LookupSame, Zenon
<1>4. LowRead' = LowRead
  BY <1>1, LowSame, Zenon
<1>5. ASSUME NEW q, ReliesOn(q) PROVE ReliesOn(q)'
  <2>1. q.get = "get_top_id_high" => LowRead'
    BY <1>4, <1>5, Zenon DEF ReliesOn
  <2>2. ASSUME q.get \in Unchecked, calm' PROVE ~Lookup(q)'.failed
    <3>1. calm
      BY <1>1, <2>2
    <3> QED
      BY <1>3, <1>5, <2>2, <3>1, Zenon DEF ReliesOn
  <2> QED
    BY <2>1, <2>2, Zenon DEF ReliesOn
<1>6. NextFits'
  BY <1>1, <1>5, Zenon DEF DumpInv, NextFits, frame, next
<1>7. Typed'
  BY <1>1 DEF DumpInv, Typed
<1> QED
  BY <1>1, <1>2, <1>6, <1>7, Moved, Zenon

\* Something gets lost, and what follows is no longer sure to be answered.
LEMMA LoseFits == DumpInv /\ Bus => DumpInv'
<1> SUFFICES ASSUME DumpInv, NEW x \in {"adapters", "router", "upstream", "link"}, Lose(x)
             PROVE  DumpInv'
  BY Zenon DEF Bus
<1>1. /\ env' = env /\ stack' = stack /\ types' = types /\ active' = active /\ top' = top
      /\ last' = last /\ lost' = lost \cup {x} /\ calm' = FALSE /\ fate' = fate
  BY Zenon DEF Lose
<1>2. StackFits'
  BY <1>1, StackSame, Zenon DEF DumpInv
<1>3. LowRead' = LowRead
  BY <1>1, LowSame, Zenon
<1>4. \A q : ReliesOn(q) => ReliesOn(q)'
  BY <1>1, <1>3, Zenon DEF ReliesOn
<1>5. NextFits'
  BY <1>1, <1>4, Zenon DEF DumpInv, NextFits, frame, next
<1>6. Typed'
  BY <1>1 DEF DumpInv, Typed
<1> QED
  BY <1>1, <1>2, <1>5, <1>6, Moved, Zenon

\* Where the answer goes.
Answered(q, ans) ==
  /\ types' = IF q.get = "get_adp_pvs" THEN Store(types, q.at, TypeOf(ans)) ELSE types
  /\ active' \in {active, active \cup {q.at}}
  /\ q.get \notin Enables => active' = active
  /\ top'.low = IF q.get = "get_top_id_low" /\ ~Recognised(q, ans) THEN ans ELSE top.low
  /\ top'.high = IF q.get = "get_top_id_high" /\ ~Recognised(q, ans) THEN ans ELSE top.high
  /\ top'.read => top.read \/ (q.get = "get_top_id_high" /\ ~Recognised(q, ans))
  /\ top' \in [read : BOOLEAN, low : {top.low, ans}, high : {top.high, ans}]

\* What Ask does, apart from the list.
LEMMA AskDoes ==
  ASSUME Ask, Typed, NEW q, q = next, NEW ans, ans = Answer(q)
  PROVE  /\ last' = [q |-> q, ans |-> ans, failed |-> Lookup(q).failed, calm |-> calm]
         /\ Answered(q, ans)
         /\ stack' = <<[frame EXCEPT
                          !.todo   = Rest(frame, q, ans),
                          !.max    = IF q.get = "get_max_adp" THEN Number[ans] ELSE @,
                          !.failed = @ \/ Recognised(q, ans)]>> \o Tail(stack)
         /\ env' = env /\ UNCHANGED <<fate, lost, calm>>
<1> DEFINE ok == ~Recognised(q, ans)
<1>1. /\ last' = [q |-> q, ans |-> ans, failed |-> Lookup(q).failed, calm |-> calm]
      /\ types' = IF q.get = "get_adp_pvs" THEN Store(types, q.at, TypeOf(ans)) ELSE types
      /\ active' = IF q.get \in Enables /\ ok /\ ans # {} THEN active \cup {q.at} ELSE active
      /\ top' = [top EXCEPT !.low  = IF q.get = "get_top_id_low" /\ ok THEN ans ELSE @,
                            !.high = IF q.get = "get_top_id_high" /\ ok THEN ans ELSE @,
                            !.read = @ \/ (q.get = "get_top_id_high" /\ ok)]
      /\ stack' = <<[frame EXCEPT
                       !.todo   = Rest(frame, q, ans),
                       !.max    = IF q.get = "get_max_adp" THEN Number[ans] ELSE @,
                       !.failed = @ \/ ~ok]>> \o Tail(stack)
      /\ env' = env /\ UNCHANGED <<fate, lost, calm>>
  BY Zenon DEF Ask
<1>2. top \in [read : BOOLEAN, low : SUBSET (0 .. 63), high : SUBSET (0 .. 63)]
  BY DEF Typed
<1>3. Answered(q, ans)
  <2> HIDE DEF ok
  <2>1. /\ top'.low = IF q.get = "get_top_id_low" /\ ok THEN ans ELSE top.low
        /\ top'.high = IF q.get = "get_top_id_high" /\ ok THEN ans ELSE top.high
        /\ top'.read => top.read \/ (q.get = "get_top_id_high" /\ ok)
        /\ top' \in [read : BOOLEAN, low : {top.low, ans}, high : {top.high, ans}]
    BY <1>1, <1>2
  <2>2. /\ active' \in {active, active \cup {q.at}}
        /\ q.get \notin Enables => active' = active
    BY <1>1, Zenon
  <2> QED
    BY <1>1, <2>1, <2>2, Zenon DEF Answered, ok
<1>4. ~ok <=> Recognised(q, ans)
  OBVIOUS
<1> QED
  BY <1>1, <1>3, Zenon DEF ok

\* The answer finds its place.
LEMMA AskTyped ==
  ASSUME DumpInv, Ask
  PROVE  Typed'
<1> DEFINE q == next
           ans == Answer(q)
<1>1. /\ q.get \in Questions /\ stack # <<>> /\ frame.todo # <<>> /\ StackFits /\ Typed
  BY Zenon DEF Ask, Running, DumpInv
<1>2. q \in Items(frame.fn)
  BY <1>1, NextItem, Zenon
<1>3. /\ last'.ans = ans /\ Answered(q, ans)
      /\ fate' = fate /\ lost' = lost /\ calm' = calm
  <2>1. /\ last' = [q |-> q, ans |-> ans, failed |-> Lookup(q).failed, calm |-> calm]
        /\ Answered(q, ans)
        /\ fate' = fate /\ lost' = lost /\ calm' = calm
    BY <1>1, AskDoes, Zenon
  <2> HIDE DEF q, ans
  <2> QED
    BY <2>1
<1>4. ans \in SUBSET (0 .. 63)
  BY <1>1, AnswerFits
<1>5. q.get \in {"get_adp_pvs"} \cup Enables => q.at \in Adapters
  <2>1. {"get_adp_pvs"} \cup Enables \subseteq AdapterQs
    BY DEF Enables, AdapterQs
  <2> QED
    BY <1>2, <2>1 DEF Items
<1> HIDE DEF q, ans
<1>6. active' \subseteq Adapters
  <2>1. active \subseteq Adapters
    BY <1>1 DEF Typed
  <2>2. CASE q.get \in Enables
    BY <1>3, <1>5, <2>1, <2>2 DEF Answered
  <2>3. CASE q.get \notin Enables
    BY <1>3, <2>1, <2>3, Zenon DEF Answered
  <2> QED
    BY <2>2, <2>3
<1>7. types' \in [0 .. MaxAdapters - 1 -> AnyAdp]
  <2>1. types \in [0 .. MaxAdapters - 1 -> AnyAdp]
    BY <1>1 DEF Typed
  <2>2. CASE q.get = "get_adp_pvs"
    <3>1. types' = Store(types, q.at, TypeOf(ans))
      BY <1>3, <2>2, Zenon DEF Answered
    <3>2. TypeOf(ans) \in AnyAdp
      <4>1. DOMAIN PVS \cup {NoType} \subseteq AnyAdp
        BY DEF PVS, AnyAdp, AdpTypes, Usb3, Pcie, Dp
      <4>2. TypeOf(ans) \in DOMAIN PVS \cup {NoType}
        BY Zenon DEF TypeOf
      <4> QED
        BY <4>1, <4>2
    <3>3. q.at \in 0 .. MaxAdapters - 1
      <4>1. Adapters \subseteq 0 .. MaxAdapters - 1
        BY AdaptersFit DEF Adapters
      <4> QED
        BY <1>5, <2>2, <4>1
    <3> DEFINE D == 0 .. MaxAdapters - 1
    <3> HIDE DEF D
    <3> QED
      BY <2>1, <3>1, <3>2, <3>3 DEF Store, D
  <2>3. CASE q.get # "get_adp_pvs"
    BY <1>3, <2>1, <2>3, Zenon DEF Answered
  <2> QED
    BY <2>2, <2>3
<1>8. top' \in [read : BOOLEAN, low : SUBSET (0 .. 63), high : SUBSET (0 .. 63)]
  <2>1. top' \in [read : BOOLEAN, low : {top.low, ans}, high : {top.high, ans}]
    BY <1>3, Zenon DEF Answered
  <2>2. top.low \in SUBSET (0 .. 63) /\ top.high \in SUBSET (0 .. 63)
    BY <1>1 DEF Typed
  <2> QED
    BY <1>4, <2>1, <2>2
<1> QED
  BY <1>1, <1>3, <1>4, <1>6, <1>7, <1>8 DEF Typed

\* A failure is looked for where the answer is shown or another relies on it.
LEMMA FailureSeen ==
  ASSUME IsEnv(env), NEW q, q.get \in Questions, ~Recognised(q, Answer(q)),
         Shown(q, Answer(q)), Lookup(q).failed
  PROVE  q.get \in Unchecked
<1>1. q.get \in Checked \/ q.get \in Unchecked \/ q.get \in Codes
  BY Zenon DEF Checked
<1>2. ASSUME q.get \in Checked PROVE FALSE
  BY <1>2, AnswerIsRecognised
<1>3. ASSUME q.get \in Codes PROVE FALSE
  BY <1>3, CodesHidden
<1> QED
  BY <1>1, <1>2, <1>3

\* What is shown is true.
LEMMA AskTells ==
  ASSUME DumpInv, Ask
  PROVE  LastTells'
<1> DEFINE q == next
           ans == Answer(q)
           l == [q |-> q, ans |-> ans, failed |-> Lookup(q).failed, calm |-> calm]
<1>1. /\ q.get \in Questions /\ stack # <<>> /\ frame.todo # <<>> /\ StackFits /\ Typed
      /\ ReliesOn(q) /\ IsEnv(env)
  BY EnvIsOne, Zenon DEF Ask, Running, DumpInv, NextFits
<1>2. q \in Items(frame.fn)
  BY <1>1, NextItem, Zenon
<1>3. last' = l /\ env' = env
  BY <1>1, AskDoes, Zenon
<1>4. l.q = q /\ l.ans = ans /\ l.failed = Lookup(q).failed /\ l.calm = calm
  OBVIOUS
<1> HIDE DEF l
<1>5. ASSUME ~Recognised(q, ans), Shown(q, ans), ~SleepLine(q), ~Shifted(q)
      PROVE  IF Lookup(q).failed THEN q.get \in Unchecked /\ ~calm ELSE ans = Truth(q)
  <2>1. ASSUME Lookup(q).failed PROVE q.get \in Unchecked /\ ~calm
    <3>1. q.get \in Unchecked
      BY <1>1, <1>5, <2>1, FailureSeen, Zenon
    <3> QED
      BY <1>1, <2>1, <3>1, Zenon DEF ReliesOn
  <2>2. ASSUME ~Lookup(q).failed PROVE ans = Truth(q)
    BY <1>1, <1>2, <1>5, <2>2, AnswerTells, Zenon
  <2> QED
    BY <2>1, <2>2, Zenon
<1>6. Claim(l)
  BY <1>4, <1>5, Zenon DEF Claim
<1>7. ASSUME NEW m PROVE Claim(m)' = Claim(m)
  BY <1>3, EnvSame, Zenon DEF Claim, Recognised, Shown, SleepLine
<1> QED
  BY <1>3, <1>6, <1>7, Zenon DEF LastTells

\* Both halves of the topology ID are what the registers hold.
LEMMA AskReadsTop ==
  ASSUME DumpInv, Ask
  PROVE  /\ TopFits'
         /\ next.get = "get_top_id_low" /\ ~Recognised(next, Answer(next)) => LowRead'
<1> DEFINE q == next
           ans == Answer(q)
           ok == ~Recognised(q, ans)
<1>1. /\ q.get \in Questions /\ stack # <<>> /\ frame.todo # <<>> /\ StackFits /\ Typed
      /\ ReliesOn(q) /\ IsEnv(env) /\ TopFits
  BY EnvIsOne, Zenon DEF Ask, Running, DumpInv, NextFits
<1>2. q \in Items(frame.fn)
  BY <1>1, NextItem, Zenon
<1>3. Answered(q, ans) /\ env' = env
  BY <1>1, AskDoes, Zenon
<1>4. ASSUME q.get \in {"get_top_id_low", "get_top_id_high"}, ok PROVE ~Lookup(q).failed
  <2>1. q.get \in Checked
    BY <1>4 DEF Checked, Questions, By32, Unchecked, Codes
  <2> QED
    BY <1>1, <1>4, <2>1, AnswerIsRecognised
<1>5. ASSUME Lead("self", "basic") = 0
      PROVE  /\ q.get = "get_top_id_low" /\ ok => ans = RouteBits(1, 4)
             /\ q.get = "get_top_id_high" /\ ok => ans = RouteBits(5, 7)
  BY <1>1, <1>2, <1>4, <1>5, TopAnswers
<1>6. /\ Lead("self", "basic")' = Lead("self", "basic")
      /\ RouteBits(1, 4)' = RouteBits(1, 4) /\ RouteBits(5, 7)' = RouteBits(5, 7)
  BY <1>3, EnvSame
<1> HIDE DEF ok, ans, q
<1>7. /\ top'.low = IF q.get = "get_top_id_low" /\ ok THEN ans ELSE top.low
      /\ top'.high = IF q.get = "get_top_id_high" /\ ok THEN ans ELSE top.high
      /\ top'.read => top.read \/ (q.get = "get_top_id_high" /\ ok)
  BY <1>3, Zenon DEF Answered, ok
<1>8. q.get = "get_top_id_low" /\ ok => LowRead'
  BY <1>5, <1>6, <1>7, Zenon DEF LowRead
<1>9. ASSUME top'.read, Lead("self", "basic") = 0
      PROVE  top'.low = RouteBits(1, 4) /\ top'.high = RouteBits(5, 7)
  <2>1. CASE q.get = "get_top_id_high" /\ ok
    <3>1. top.low = RouteBits(1, 4)
      BY <1>1, <1>9, <2>1, Zenon DEF ReliesOn, LowRead
    <3>2. q.get # "get_top_id_low"
      BY <2>1
    <3> QED
      BY <1>5, <1>7, <1>9, <2>1, <3>1, <3>2, Zenon
  <2>2. CASE ~(q.get = "get_top_id_high" /\ ok)
    <3>1. top.low = RouteBits(1, 4) /\ top.high = RouteBits(5, 7)
      BY <1>1, <1>7, <1>9, <2>2, Zenon DEF TopFits, TopRead
    <3> QED
      BY <1>5, <1>7, <1>9, <2>2, <3>1, Zenon
  <2> QED
    BY <2>1, <2>2
<1>10. TopSeen'
  BY <1>1, <1>5, <1>6, <1>7, Zenon DEF TopFits, TopSeen
<1>11. TopFits'
  BY <1>6, <1>9, <1>10, Zenon DEF TopFits, TopRead
<1> QED
  BY <1>8, <1>11 DEF q, ok, ans

\* What follows the answer may rely on it.
LEMMA AskLeads ==
  ASSUME DumpInv, Ask, NEW r, NEW s, s = Rest(frame, next, Answer(next)), s # <<>>,
         r = Head(s)
  PROVE  ReliesOn(r)'
<1> DEFINE q == next
           ans == Answer(q)
<1>1. /\ q.get \in Questions /\ stack # <<>> /\ frame.todo # <<>> /\ StackFits /\ Typed
      /\ ReliesOn(q) /\ IsEnv(env)
  BY EnvIsOne, Zenon DEF Ask, Running, DumpInv, NextFits
<1>2. frame.todo \in Rests(frame.fn, last.q)
  BY <1>1, NextItem, Zenon
<1>3. Answered(q, ans) /\ env' = env /\ lost' = lost /\ calm' = calm
  BY <1>1, AskDoes, Zenon
<1>4. CASE r.get \notin Followers
  BY <1>4, FreeRelies, Zenon
<1>5. CASE r.get \in Followers
  <2>1. Leads(q, r) /\ (q.get \in Unchecked \/ ~Recognised(q, ans))
    BY <1>1, <1>2, <1>5, FollowerRelies, Zenon DEF next
  <2>2. ASSUME r.get = "get_top_id_high" PROVE LowRead'
    <3>1. q.get = "get_top_id_low" /\ q.get \notin Unchecked
      BY <2>1, <2>2 DEF Leads, LeaderOf, Unchecked
    <3> QED
      BY <2>1, <3>1, AskReadsTop, Zenon
  <2>3. ASSUME r.get \in Unchecked, calm' PROVE ~Lookup(r)'.failed
    <3>1. Lookup(r).failed = Lookup(q).failed
      BY <2>1, <2>3, SameRegister, Zenon
    <3>2. q.get \in Leaders
      BY <1>5, <2>1, Zenon DEF Leads, Leaders
    <3>3. q.get \in Checked \cup Unchecked /\ q.get # "get_adp_pvs"
      <4>1. Leaders \subseteq {"get_top_id_low", "is_wake_enabled_pcie",
              "is_wake_enabled_usb3", "get_wake_status_pcie", "get_wake_status_usb3",
              "is_dp_aux_en"}
        BY DEF Leaders, Followers, LeaderOf
      <4>2. {"get_top_id_low", "is_wake_enabled_pcie",
              "is_wake_enabled_usb3", "get_wake_status_pcie", "get_wake_status_usb3",
              "is_dp_aux_en"} \subseteq Checked \cup Unchecked
        BY DEF Checked, Questions, By8, By32, Unchecked, Codes
      <4> QED
        BY <3>2, <4>1, <4>2
    <3>4. types' = types
      BY <1>3, <3>3, Zenon DEF Answered
    <3>5. Lookup(r)' = Lookup(r)
      BY <1>3, <3>4, LookupSame
    <3>6. ASSUME Lookup(q).failed PROVE FALSE
      <4>1. CASE q.get \in Unchecked
        BY <1>1, <1>3, <2>3, <3>6, <4>1 DEF ReliesOn
      <4>2. CASE q.get \in Checked
        BY <1>1, <2>1, <3>6, <4>2, AnswerIsRecognised DEF Checked
      <4> QED
        BY <3>3, <4>1, <4>2
    <3> QED
      BY <3>1, <3>5, <3>6
  <2> QED
    BY <2>2, <2>3, Zenon DEF ReliesOn
<1> QED
  BY <1>4, <1>5

\* A question is asked, and the function goes on with the answer.
LEMMA AskFits == DumpInv /\ Ask => DumpInv'
<1> SUFFICES ASSUME DumpInv, Ask PROVE DumpInv'
  OBVIOUS
<1> DEFINE q == next
           ans == Answer(q)
           s == Rest(frame, q, ans)
           m == IF q.get = "get_max_adp" THEN Number[ans] ELSE frame.max
           b == frame.failed \/ Recognised(q, ans)
           f == [frame EXCEPT !.todo = s, !.max = m, !.failed = b]
           t == Tail(stack)
<1>1. /\ q.get \in Questions /\ stack # <<>> /\ frame.todo # <<>> /\ StackFits /\ Typed
      /\ IsEnv(env) /\ env \in Envs
  BY EnvIsOne, Zenon DEF Ask, Running, DumpInv
<1>2. /\ frame \in Frames(last.q) /\ frame.todo \in Rests(frame.fn, last.q)
      /\ frame.failed \in BOOLEAN /\ frame.max \in 0 .. 64
      /\ t \in Seq(Frames(Nobody))
  BY <1>1, NextItem, Zenon
<1>3. s \in Rests(frame.fn, q)
  BY <1>1, <1>2, RestLeft, Zenon DEF next
<1>4. m \in 0 .. 64
  BY <1>1, <1>2, MaxFits
<1>5. b \in BOOLEAN
  OBVIOUS
<1>6. last'.q = q /\ stack' = <<f>> \o t /\ env' = env
  <2>1. /\ last' = [q |-> q, ans |-> ans, failed |-> Lookup(q).failed, calm |-> calm]
        /\ stack' = <<f>> \o t /\ env' = env
    BY <1>1, AskDoes, Zenon
  <2> HIDE DEF q, ans, f, t
  <2> QED
    BY <2>1
<1>7. f \in Frames(q)
  <2> HIDE DEF s, m, b, q, ans
  <2> QED
    BY <1>2, <1>3, <1>4, <1>5, FrameLeft, Zenon DEF f
<1>8. f.todo = s
  <2> HIDE DEF s, m, b, q, ans
  <2> DEFINE Fns == Functions \cup {"dump_router_verbose"}
             AnyFrame == [fn : Fns, todo : Seq(AnyItem), max : 0 .. 64, failed : BOOLEAN]
  <2>1. frame \in AnyFrame
    BY <1>2, Zenon DEF Frames, AnyItem
  <2> HIDE DEF Fns
  <2> QED
    BY <2>1 DEF f
<1> HIDE DEF f, t
<1>9. Stacked(<<f>> \o t, q) /\ Head(<<f>> \o t) = f
  BY <1>2, <1>7, StackPush, Zenon
<1>10. StackFits'
  <2>1. \A u, p : Stacked(u, p)' = Stacked(u, p)
    BY <1>6, EnvSame, Zenon
  <2> QED
    BY <1>6, <1>9, <2>1, Zenon DEF StackFits
<1>11. NextFits'
  <2>1. frame' = f
    BY <1>6, <1>9, Zenon DEF frame
  <2>2. \A r : s # <<>> /\ r = Head(s) => ReliesOn(r)'
    BY AskLeads, Zenon
  <2> HIDE DEF s
  <2>3. next' = Head(s) /\ frame'.todo = s
    BY <2>1, <1>8, Zenon DEF next
  <2> QED
    BY <2>2, <2>3, Zenon DEF NextFits
<1>12. (env \in Envs)' /\ Typed' /\ TopFits' /\ LastTells'
  BY <1>1, <1>6, AskTyped, AskReadsTop, AskTells
<1> QED
  BY <1>10, <1>11, <1>12, Zenon DEF DumpInv

\* Every step keeps the invariant.
LEMMA StepFits == DumpInv /\ [Next]_vars => DumpInv'
<1> SUFFICES ASSUME DumpInv, [Next]_vars PROVE DumpInv'
  OBVIOUS
<1>1. fate \in {"running", "done", "crash"}
  BY DEF DumpInv, Typed
<1>2. CASE Call
  BY <1>2, CallFits, Zenon
<1>3. CASE get_upstream_router
  BY <1>3, UpstreamFits, Zenon
<1>4. CASE Ask
  BY <1>4, AskFits, Zenon
<1>5. CASE AskBeyond
  BY <1>5, StayFits DEF AskBeyond
<1>6. CASE Return
  BY <1>6, ReturnFits, Zenon
<1>7. CASE Bus
  BY <1>7, LoseFits, Zenon
<1>8. CASE UNCHANGED vars
  BY <1>1, <1>8, StayFits DEF vars
<1> QED
  BY <1>2, <1>3, <1>4, <1>5, <1>6, <1>7, <1>8, Zenon DEF Next, Program

\* The invariant holds in every dump.
LEMMA DumpFits == Spec => []DumpInv
BY InitFits, StepFits, PTL DEF Spec

\* In every dump of every router, what a line of lstbt -v or -vv shows as the
\* value of a field is the value of that field in the register of that adapter or
\* port, unless a failure lstbt does not look for comes of an unplugging during
\* the function that shows it.
THEOREM ShowsWhatIsThere == Spec => []ClaimsHold
<1>1. DumpInv => ClaimsHold
  BY Zenon DEF DumpInv, LastTells, Claim, ClaimsHold, Asked
<1> QED
  BY <1>1, DumpFits, PTL

\* The route printed and the port of the router above come of both registers of
\* the topology ID and agree with the name, for every router at most four levels
\* deep: get_top_id_high() is only asked after get_top_id_low() was answered.
THEOREM RouteAsRead == Spec => []RouteIsRead
<1>1. DumpInv => RouteIsRead
  BY EnvIsOne, RouteOfTop, Zenon DEF DumpInv, TopFits
<1> QED
  BY <1>1, DumpFits, PTL

\* Every answer finds its place: no adapter beyond the arrays, no number of
\* adapters above 64.
THEOREM TypeCorrect == Spec => []TypeOK
<1>1. DumpInv => TypeOK
  <2> SUFFICES ASSUME DumpInv PROVE TypeOK
    OBVIOUS
  <2>1. IsEnv(env) /\ Typed
    BY EnvIsOne DEF DumpInv
  <2>2. ASSUME NEW k \in 1 .. Len(stack)
        PROVE  stack[k].max \in 0 .. 64 /\ stack[k].failed \in BOOLEAN
    <3> DEFINE Fns == Functions \cup {"dump_router_verbose"}
               AnyFrame == [fn : Fns, todo : Seq(AnyItem), max : 0 .. 64, failed : BOOLEAN]
    <3>1. stack \in Seq(Frames(last.q))
      BY Zenon DEF DumpInv, StackFits, Stacked
    <3>2. stack[k] \in Frames(last.q)
      BY <3>1, Ranges, Zenon
    <3>3. stack[k] \in AnyFrame
      BY <3>2, Zenon DEF Frames, AnyItem
    <3> HIDE DEF Fns
    <3> QED
      BY <3>3
  <2>3. active \subseteq DOMAIN types
    <3>1. Adapters \subseteq 0 .. MaxAdapters - 1
      BY AdaptersFit DEF Adapters
    <3> QED
      BY <2>1, <3>1 DEF Typed
  <2> QED
    BY <2>1, <2>2, <2>3 DEF TypeOK, Typed
<1> QED
  BY <1>1, DumpFits, PTL


-----------------------------------------------------------------------------
(* A dump during which nothing gets lost: what is asked has an answer *)

\* The functions about adapters of a class.
Usb3Fns == {"dump_up_usb3_adapters", "dump_down_usb3_adapters"}
PcieFns == {"dump_up_pcie_adapters", "dump_down_pcie_adapters"}
DpFns   == {"dump_dp_in_adapters", "dump_dp_out_adapters"}
AttributeFns == {"dump_usb3_bws_lr_pls", "dump_pcie_attributes", "dump_dp_attributes"}

\* Function f calls function g.
Calls(f, g) ==
  \/ f = "dump_router_verbose"
       /\ g \in Functions \ (AttributeFns \cup {"dump_usb4_gen_wakes", "dump_gen_wake_status"})
  \/ f = "dump_wakes" /\ g = "dump_usb4_gen_wakes"
  \/ f = "dump_wake_status" /\ g = "dump_gen_wake_status"
  \/ f \in Usb3Fns /\ g = "dump_usb3_bws_lr_pls"
  \/ f \in PcieFns /\ g = "dump_pcie_attributes"
  \/ f \in DpFns /\ g = "dump_dp_attributes"

AboutUsb3(fn) == fn \in Usb3Fns \cup {"dump_usb3_bws_lr_pls"}
AboutPcie(fn) == fn \in PcieFns \cup {"dump_pcie_attributes"}
AboutDp(fn)   == fn \in DpFns \cup {"dump_dp_attributes"}

\* Type t is of the class function fn is about.
OfClass(fn, t) ==
  /\ AboutUsb3(fn) => t \in Usb3
  /\ AboutPcie(fn) => t \in Pcie
  /\ AboutDp(fn) => t \in Dp

PortLaneQs == {"get_tbt3_wake_events_en", "is_tbt3_clx_supported"}

\* The type found of an adapter.
Found(a) == IF a \in Adapters THEN types[a] ELSE NoType

\* Question q on the list of fn is for an adapter of the type found there, and for
\* a router of the generation that has the capability.
Fit(fn, q) ==
  LET t == Found(q.at)
  IN /\ q.get \in AnyQs \ {"get_adp_pvs"} => t # NoType
     /\ q.get \in LaneQs \cup Lane0Qs \cup PortLaneQs \/ fn = "dump_lane_adapters" => t = "lane"
     /\ q.get \in Lane0Qs => q.at % 2 = 1
     /\ q.get \in Usb3Qs => AboutUsb3(fn) /\ t \in Usb3
     /\ q.get \in PcieQs => AboutPcie(fn) /\ t \in Pcie
     /\ q.get \in DpQs => AboutDp(fn) /\ t \in Dp
     /\ q.get \in DpInQs => AboutDp(fn) /\ t = "dp_in"
     /\ q.get \in PortLaneQs \cup {"is_tbt3_hot_events_disabled_lane"} => env.usb4 = FALSE
     /\ q.get = "get_tbt3_lanes_configured" =>
          q.of = "upstream" /\ get_usb4_port_num(q.at) \in 0 .. env.up_ports - 1
     /\ q.get \in Functions => Calls(fn, q.get)

Fits(fn) == {q \in AnyItem : Fit(fn, q)}


\* What each kind of question needs to fit.
LEMMA KindFits ==
  ASSUME NEW fn, fn # "dump_lane_adapters", NEW a \in 0 .. 64
  PROVE  /\ \A g \in RouterQs \ {"is_tbt3_hot_events_disabled_lane"} : Q(g, a) \in Fits(fn)
         /\ \A g \in Functions : Calls(fn, g) => Q(g, a) \in Fits(fn)
         /\ \A g \in {"get_adp_pvs", "get_upstream_router", "is_usb4_port_configured"} :
              Q(g, a) \in Fits(fn)
         /\ get_usb4_port_num(a) \in 0 .. env.up_ports - 1 =>
              Upstream(Q("get_tbt3_lanes_configured", a)) \in Fits(fn)
         /\ a \in Adapters /\ is_adp_lane_0(a) => \A g \in Lane0Qs : Q(g, a) \in Fits(fn)
         /\ a \in Adapters /\ types[a] = "lane" /\ env.usb4 = FALSE => \A g \in PortLaneQs : Q(g, a) \in Fits(fn)
         /\ a \in Adapters /\ AboutUsb3(fn) /\ types[a] \in Usb3 => \A g \in Usb3Qs : Q(g, a) \in Fits(fn)
         /\ a \in Adapters /\ AboutPcie(fn) /\ types[a] \in Pcie => \A g \in PcieQs : Q(g, a) \in Fits(fn)
         /\ a \in Adapters /\ AboutDp(fn) /\ types[a] \in Dp => \A g \in DpQs : Q(g, a) \in Fits(fn)
         /\ a \in Adapters /\ AboutDp(fn) /\ types[a] = "dp_in" => \A g \in DpInQs : Q(g, a) \in Fits(fn)
<1> USE DEF AnyQs, LaneQs, Lane0Qs, PortLaneQs, Usb3Qs, HostQs, PcieQs, DpQs, DpInQs, RouterQs,
            SleepQs, Functions
<1>1. ASSUME NEW g \in Asks \cup Functions \cup {"get_upstream_router"},
             g # "get_tbt3_lanes_configured", Fit(fn, Q(g, a))
      PROVE  Q(g, a) \in Fits(fn)
  BY <1>1 DEF Fits, AnyItem, Q
<1>2. \A g \in RouterQs \ {"is_tbt3_hot_events_disabled_lane"} : Q(g, a) \in Fits(fn)
  BY <1>1 DEF Fit, Found, Q, Asks
<1>3. \A g \in Functions : Calls(fn, g) => Q(g, a) \in Fits(fn)
  BY <1>1 DEF Fit, Q
<1>4. \A g \in {"get_adp_pvs", "get_upstream_router", "is_usb4_port_configured"} :
         Q(g, a) \in Fits(fn)
  BY <1>1 DEF Fit, Found, Q, Asks, AdapterQs
<1>5. ASSUME get_usb4_port_num(a) \in 0 .. env.up_ports - 1
      PROVE  Upstream(Q("get_tbt3_lanes_configured", a)) \in Fits(fn)
  BY <1>5 DEF Fits, Fit, Found, Q, Upstream, Asks, AnyItem
<1>6. ASSUME a \in Adapters, is_adp_lane_0(a), NEW g \in Lane0Qs PROVE Q(g, a) \in Fits(fn)
  BY <1>1, <1>6 DEF Fit, Found, Q, Asks, AdapterQs, is_adp_lane_0
<1>7. ASSUME a \in Adapters, types[a] = "lane", env.usb4 = FALSE, NEW g \in PortLaneQs PROVE Q(g, a) \in Fits(fn)
  BY <1>1, <1>7 DEF Fit, Found, Q, Asks, AdapterQs
<1>8. ASSUME a \in Adapters, AboutUsb3(fn), types[a] \in Usb3, NEW g \in Usb3Qs PROVE Q(g, a) \in Fits(fn)
  BY <1>1, <1>8 DEF Fit, Found, Q, Asks, AdapterQs
<1>9. ASSUME a \in Adapters, AboutPcie(fn), types[a] \in Pcie, NEW g \in PcieQs PROVE Q(g, a) \in Fits(fn)
  BY <1>1, <1>9 DEF Fit, Found, Q, Asks, AdapterQs
<1>10. ASSUME a \in Adapters, AboutDp(fn), types[a] \in Dp, NEW g \in DpQs PROVE Q(g, a) \in Fits(fn)
  BY <1>1, <1>10 DEF Fit, Found, Q, Asks, AdapterQs
<1>11. ASSUME a \in Adapters, AboutDp(fn), types[a] = "dp_in", NEW g \in DpInQs PROVE Q(g, a) \in Fits(fn)
  BY <1>1, <1>11 DEF Fit, Found, Q, Asks, AdapterQs
<1> HIDE DEF AnyQs, LaneQs, Lane0Qs, PortLaneQs, Usb3Qs, HostQs, PcieQs, DpQs, DpInQs, RouterQs,
            SleepQs, Functions
<1> QED
  BY <1>2, <1>3, <1>4, <1>5, <1>6, <1>7, <1>8, <1>9, <1>10, <1>11, Zenon

\* What a lane is asked fits.
LEMMA LaneKindFits ==
  ASSUME NEW a \in Adapters, types[a] = "lane"
  PROVE  /\ \A g \in {"is_adp_locked", "get_usb4v", "are_hot_events_disabled"} \cup LaneQs :
              Q(g, a) \in Fits("dump_lane_adapters")
         /\ is_adp_lane_0(a) => Q("is_usb4_clx_supported", a) \in Fits("dump_lane_adapters")
         /\ env.usb4 = FALSE => \A g \in {"is_tbt3_hot_events_disabled_lane", "is_tbt3_clx_supported"} :
              Q(g, a) \in Fits("dump_lane_adapters")
<1> USE DEF AnyQs, LaneQs, Lane0Qs, PortLaneQs, Usb3Qs, HostQs, PcieQs, DpQs, DpInQs, RouterQs,
            SleepQs, Functions
<1> DEFINE fn == "dump_lane_adapters"
<1>1. a \in 0 .. 64
  BY AdaptersFit DEF Adapters
<1>2. ASSUME NEW g \in Asks, g # "get_tbt3_lanes_configured", Fit(fn, Q(g, a))
      PROVE  Q(g, a) \in Fits(fn)
  BY <1>1, <1>2 DEF Fits, AnyItem, Q
<1>3. \A g \in {"is_adp_locked", "get_usb4v", "are_hot_events_disabled"} \cup LaneQs :
              Q(g, a) \in Fits(fn)
  BY <1>2 DEF Fit, Found, Q, Asks, AdapterQs, NoType
<1>4. ASSUME is_adp_lane_0(a) PROVE Q("is_usb4_clx_supported", a) \in Fits(fn)
  BY <1>2, <1>4 DEF Fit, Found, Q, Asks, AdapterQs, is_adp_lane_0
<1>5. ASSUME env.usb4 = FALSE, NEW g \in {"is_tbt3_hot_events_disabled_lane", "is_tbt3_clx_supported"}
      PROVE  Q(g, a) \in Fits(fn)
  BY <1>2, <1>5 DEF Fit, Found, Q, Asks, AdapterQs
<1> HIDE DEF AnyQs, LaneQs, Lane0Qs, PortLaneQs, Usb3Qs, HostQs, PcieQs, DpQs, DpInQs, RouterQs,
            SleepQs, Functions
<1> QED
  BY <1>3, <1>4, <1>5, Zenon

\* Lists of questions of a kind.
LEMMA SeqAll ==
  ASSUME NEW T, NEW G, NEW gets \in Seq(G), NEW at, \A g \in G : Q(g, at) \in T
  PROVE  All(gets, at) \in Seq(T)
<1>1. /\ \A k \in 1 .. Len(gets) : gets[k] \in G
      /\ Len(gets) \in Nat
  BY Ranges, Zenon
<1> DEFINE f == [k \in 1 .. Len(gets) |-> Q(gets[k], at)]
<1>2. f \in [1 .. Len(gets) -> T]
  BY <1>1
<1> HIDE DEF f
<1>3. \A n \in Nat : \A g : g \in [1 .. n -> T] => g \in Seq(T)
  OBVIOUS
<1>4. f \in Seq(T)
  BY <1>1, <1>2, <1>3, Zenon
<1> QED
  BY <1>4 DEF All, f

\* One question, several, and those asked on a condition.
LEMMA SeqParts ==
  ASSUME NEW T
  PROVE  /\ \A q \in T : <<q>> \in Seq(T)
         /\ \A s, t \in Seq(T) : s \o t \in Seq(T)
         /\ \A b, s : (b => s \in Seq(T)) => When(b, s) \in Seq(T)
         /\ <<>> \in Seq(T)
<1>1. <<>> \in Seq(T)
  OBVIOUS
<1>2. \A b, s : (b => s \in Seq(T)) => When(b, s) \in Seq(T)
  BY <1>1, Zenon DEF When
<1>3. \A q \in T : <<q>> \in Seq(T)
  OBVIOUS
<1>4. \A s, t \in Seq(T) : s \o t \in Seq(T)
  OBVIOUS
<1> QED
  BY <1>1, <1>2, <1>3, <1>4

\* The loops.
LEMMA SeqLoop ==
  ASSUME NEW T, NEW ss, ss = [a \in 1 .. MaxAdapters |-> ss[a]],
         \A a \in 1 .. MaxAdapters : ss[a] \in Seq(T)
  PROVE  FlattenSeq(ss) \in Seq(T)
<1>1. MaxAdapters \in Nat
  BY AdaptersFit, Zenon
<1>2. ASSUME NEW S, \A a \in 1 .. MaxAdapters : ss[a] \in S PROVE ss \in Seq(S)
  <2>1. ss \in [1 .. MaxAdapters -> S]
    BY <1>2, Zenon
  <2> QED
    BY <1>1, <2>1
<1>3. ss \in Seq(Seq(T))
  BY <1>1, <1>2, Zenon
<1> QED
  BY <1>3, FlattenType, Zenon

\* A question of one kind, or several, in a loop over adapters S.
LEMMA SeqLoops ==
  ASSUME NEW T, NEW S
  PROVE  /\ \A g : (\A a \in 1 .. MaxAdapters : a \in S => Q(g, a) \in T) =>
              FlattenSeq([a \in 1 .. MaxAdapters |-> When(a \in S, <<Q(g, a)>>)]) \in Seq(T)
         /\ \A G : \A gets \in Seq(G) :
              (\A a \in 1 .. MaxAdapters : a \in S => \A g \in G : Q(g, a) \in T) =>
                FlattenSeq([a \in 1 .. MaxAdapters |-> When(a \in S, All(gets, a))]) \in Seq(T)
<1>1. ASSUME NEW g, \A a \in 1 .. MaxAdapters : a \in S => Q(g, a) \in T
      PROVE  FlattenSeq([a \in 1 .. MaxAdapters |-> When(a \in S, <<Q(g, a)>>)]) \in Seq(T)
  <2> DEFINE ss == [a \in 1 .. MaxAdapters |-> When(a \in S, <<Q(g, a)>>)]
  <2>1. \A a \in 1 .. MaxAdapters : ss[a] \in Seq(T)
    BY <1>1, SeqParts, Zenon
  <2>2. ss = [a \in 1 .. MaxAdapters |-> ss[a]]
    BY Zenon
  <2> HIDE DEF ss
  <2>3. FlattenSeq(ss) \in Seq(T)
    BY <2>1, <2>2, SeqLoop, Zenon
  <2> QED
    BY <2>3 DEF ss
<1>2. ASSUME NEW G, NEW gets \in Seq(G),
             \A a \in 1 .. MaxAdapters : a \in S => \A g \in G : Q(g, a) \in T
      PROVE  FlattenSeq([a \in 1 .. MaxAdapters |-> When(a \in S, All(gets, a))]) \in Seq(T)
  <2> DEFINE ss == [a \in 1 .. MaxAdapters |-> When(a \in S, All(gets, a))]
  <2>1. \A a \in 1 .. MaxAdapters : ss[a] \in Seq(T)
    <3>1. ASSUME NEW a \in 1 .. MaxAdapters, a \in S PROVE All(gets, a) \in Seq(T)
      BY <1>2, <3>1, SeqAll, Zenon
    <3> QED
      BY <3>1, SeqParts, Zenon
  <2>2. ss = [a \in 1 .. MaxAdapters |-> ss[a]]
    BY Zenon
  <2> HIDE DEF ss
  <2>3. FlattenSeq(ss) \in Seq(T)
    BY <2>1, <2>2, SeqLoop, Zenon
  <2> QED
    BY <2>3 DEF ss
<1> QED
  BY <1>1, <1>2, Zenon

\* What function fn may ask whatever the types.
SelfKinds(fn) ==
  (RouterQs \ {"is_tbt3_hot_events_disabled_lane"}) \cup {g \in Functions : Calls(fn, g)}
    \cup {"get_adp_pvs", "get_upstream_router", "is_usb4_port_configured"}

\* Lists of such questions.
LEMMA SelfFits ==
  ASSUME NEW fn, fn # "dump_lane_adapters"
  PROVE  /\ \A g \in SelfKinds(fn), a \in 0 .. 64 : Q(g, a) \in Fits(fn)
         /\ \A gets \in Seq(SelfKinds(fn)) : All(gets, 0) \in Seq(Fits(fn))
         /\ \A g \in SelfKinds(fn) : <<R(g)>> \in Seq(Fits(fn))
<1>1. \A g \in SelfKinds(fn), a \in 0 .. 64 : Q(g, a) \in Fits(fn)
  BY KindFits, Zenon DEF SelfKinds
<1>2. 0 \in 0 .. 64
  OBVIOUS
<1>3. \A gets \in Seq(SelfKinds(fn)) : All(gets, 0) \in Seq(Fits(fn))
  BY <1>1, <1>2, SeqAll, Zenon
<1>4. \A g \in SelfKinds(fn) : <<R(g)>> \in Seq(Fits(fn))
  BY <1>1, <1>2, SeqParts, Zenon DEF R
<1> QED
  BY <1>1, <1>3, <1>4

\* Functions that ask the router alone.
LEMMA RouterBodiesFit ==
  ASSUME NEW fn, fn # "dump_lane_adapters"
  PROVE  /\ dump_ihci_status \in Seq(Fits(fn))
         /\ tunneling_status \in Seq(Fits(fn))
         /\ dump_wakes \in Seq(Fits(fn))
         /\ dump_usb4_gen_wakes \in Seq(Fits(fn))
         /\ dump_gen_wake_status \in Seq(Fits(fn))
         /\ dump_adapters_num \in Seq(Fits(fn))
         /\ dump_power_states_compatibility \in Seq(Fits(fn))
         /\ fill_adp_types_in_router \in Seq(Fits(fn))
         /\ fn = "dump_wake_status" => dump_wake_status \in Seq(Fits(fn))
<1> DEFINE K == SelfKinds(fn)
<1>1. RouterQs \ {"is_tbt3_hot_events_disabled_lane"} \subseteq K
      /\ {"get_adp_pvs", "get_upstream_router"} \subseteq K
  BY DEF SelfKinds
<1> HIDE DEF K
<1>2. /\ <<"is_ihci_present", "is_tunneling_config_valid", "is_ihci_on">> \in Seq(K)
      /\ <<"is_tunneling_config_valid", "is_tunneling_ready">> \in Seq(K)
      /\ <<"get_max_adp", "get_usb4v">> \in Seq(K)
      /\ <<"is_wake_enabled_pcie", "is_wake_enabled_usb3", "is_wake_enabled_dp">> \in Seq(K)
      /\ <<"get_wake_status_pcie", "get_wake_status_usb3", "get_wake_status_dp">> \in Seq(K)
      /\ <<"get_max_adp", "get_max_adp", "get_max_adp">> \in Seq(K)
      /\ <<"get_upstream_router", "get_top_id_low", "get_top_id_high", "get_usb4v">> \in Seq(K)
      /\ {"get_max_adp", "get_usb4v", "get_adp_pvs"} \subseteq K
  BY <1>1 DEF RouterQs
<1>3. dump_adapters_num = All(<<"get_max_adp", "get_max_adp", "get_max_adp">>, 0)
  BY DEF dump_adapters_num, All, R
<1>4. \A gets \in Seq(K) : All(gets, 0) \in Seq(Fits(fn))
  BY SelfFits, Zenon DEF K
<1>5. dump_power_states_compatibility \in Seq(Fits(fn))
  BY <1>2, <1>4, SeqParts, Zenon DEF dump_power_states_compatibility
<1>6. fill_adp_types_in_router \in Seq(Fits(fn))
  <2>1. \A a \in 1 .. MaxAdapters : Q("get_adp_pvs", a) \in Fits(fn)
    <3>1. 1 .. MaxAdapters \subseteq 0 .. 64
      BY AdaptersFit
    <3> QED
      BY <1>2, <3>1, SelfFits, Zenon DEF K
  <2> QED
    BY <2>1, SeqLoops, Zenon DEF fill_adp_types_in_router, Each
<1>7. ASSUME fn = "dump_wake_status" PROVE dump_wake_status \in Seq(Fits(fn))
  <2>1. {"get_max_adp", "get_usb4v"} \subseteq K
    BY <1>2
  <2>2. /\ <<R("get_max_adp")>> \in Seq(Fits(fn)) /\ <<R("get_usb4v")>> \in Seq(Fits(fn))
        /\ <<R("dump_gen_wake_status")>> \in Seq(Fits(fn))
    <3>1. "dump_gen_wake_status" \in K
      BY <1>7 DEF K, SelfKinds, Calls, Functions
    <3> QED
      BY <2>1, <3>1, SelfFits, Zenon DEF K
  <2> QED
    BY <2>2, SeqParts, Zenon DEF dump_wake_status
<1> QED
  BY <1>2, <1>3, <1>4, <1>5, <1>6, <1>7, Zenon
     DEF dump_ihci_status, tunneling_status, dump_wakes, dump_usb4_gen_wakes, dump_gen_wake_status

\* Lanes are asked what lanes can answer.
LEMMA LanesFit == dump_lane_adapters \in Seq(Fits("dump_lane_adapters"))
<1>1. <<"is_adp_locked", "get_usb4v">> \in Seq({"is_adp_locked", "get_usb4v"})
  OBVIOUS
<1>2. ASSUME NEW a \in LaneLoop, NEW g \in {"is_adp_locked", "get_usb4v"}
      PROVE  Q(g, a) \in Fits("dump_lane_adapters")
  <2>1. a \in Adapters /\ types[a] = "lane"
    BY DEF LaneLoop, OfType
  <2> QED
    BY <2>1, LaneKindFits
<1> QED
  BY <1>1, <1>2, SeqLoops, Zenon DEF dump_lane_adapters, Each

\* Adapters are asked whether they are enabled by the function for their type.
LEMMA EnabledFit ==
  ASSUME NEW fn, NEW type, NEW enabled, NEW attributes \in Functions, Calls(fn, attributes),
         fn \in Usb3Fns \cup PcieFns \cup DpFns,
         \A a \in Adapters : types[a] = type => Q(enabled, a) \in Fits(fn)
  PROVE  enabled_adapters(type, enabled, attributes) \in Seq(Fits(fn))
<1>1. fn # "dump_lane_adapters"
  BY DEF Usb3Fns, PcieFns, DpFns
<1>2. {"get_max_adp", attributes} \subseteq SelfKinds(fn)
  BY DEF SelfKinds, RouterQs
<1>3. <<R("get_max_adp")>> \in Seq(Fits(fn)) /\ <<R(attributes)>> \in Seq(Fits(fn))
  BY <1>1, <1>2, SelfFits
<1>4. Each(OfType(type), LAMBDA a : <<Q(enabled, a)>>) \in Seq(Fits(fn))
  <2>1. \A a \in OfType(type) : a \in Adapters /\ types[a] = type
    BY DEF OfType
  <2> QED
    BY <2>1, SeqLoops, Zenon DEF Each
<1> QED
  BY <1>3, <1>4, SeqParts, Zenon DEF enabled_adapters

\* The function for every type calls the one for the attributes of its class.
LEMMA ClassesFit ==
  /\ \A fn \in Usb3Fns, t \in Usb3 :
       enabled_adapters(t, "is_usb3_adp_en", "dump_usb3_bws_lr_pls") \in Seq(Fits(fn))
  /\ \A fn \in PcieFns, t \in Pcie :
       enabled_adapters(t, "is_pcie_adp_enabled", "dump_pcie_attributes") \in Seq(Fits(fn))
  /\ \A fn \in DpFns, t \in Dp :
       enabled_adapters(t, "is_dp_aux_en", "dump_dp_attributes") \in Seq(Fits(fn))
<1>1. \A fn : fn \in Usb3Fns \cup PcieFns \cup DpFns => fn # "dump_lane_adapters"
  BY DEF Usb3Fns, PcieFns, DpFns
<1>2. {"dump_usb3_bws_lr_pls", "dump_pcie_attributes", "dump_dp_attributes"} \subseteq Functions
  BY DEF Functions
<1>3. /\ \A fn \in Usb3Fns : Calls(fn, "dump_usb3_bws_lr_pls") /\ AboutUsb3(fn)
      /\ \A fn \in PcieFns : Calls(fn, "dump_pcie_attributes") /\ AboutPcie(fn)
      /\ \A fn \in DpFns : Calls(fn, "dump_dp_attributes") /\ AboutDp(fn)
  BY DEF Calls, AboutUsb3, AboutPcie, AboutDp
<1>4. "is_usb3_adp_en" \in Usb3Qs /\ "is_pcie_adp_enabled" \in PcieQs /\ "is_dp_aux_en" \in DpQs
  BY DEF Usb3Qs, PcieQs, DpQs
<1>8. \A a \in Adapters : a \in 0 .. 64
  BY AdaptersFit DEF Adapters
<1>5. ASSUME NEW fn \in Usb3Fns, NEW t \in Usb3
      PROVE  enabled_adapters(t, "is_usb3_adp_en", "dump_usb3_bws_lr_pls") \in Seq(Fits(fn))
  <2>1. \A a \in Adapters : types[a] = t => Q("is_usb3_adp_en", a) \in Fits(fn)
    BY <1>1, <1>8, <1>3, <1>4, KindFits, Zenon
  <2> QED
    BY <1>2, <1>3, <2>1, EnabledFit
<1>6. ASSUME NEW fn \in PcieFns, NEW t \in Pcie
      PROVE  enabled_adapters(t, "is_pcie_adp_enabled", "dump_pcie_attributes") \in Seq(Fits(fn))
  <2>1. \A a \in Adapters : types[a] = t => Q("is_pcie_adp_enabled", a) \in Fits(fn)
    BY <1>1, <1>8, <1>3, <1>4, KindFits, Zenon
  <2> QED
    BY <1>2, <1>3, <2>1, EnabledFit
<1>7. ASSUME NEW fn \in DpFns, NEW t \in Dp
      PROVE  enabled_adapters(t, "is_dp_aux_en", "dump_dp_attributes") \in Seq(Fits(fn))
  <2>1. \A a \in Adapters : types[a] = t => Q("is_dp_aux_en", a) \in Fits(fn)
    BY <1>1, <1>8, <1>3, <1>4, KindFits, Zenon
  <2> QED
    BY <1>2, <1>3, <2>1, EnabledFit
<1> QED
  BY <1>5, <1>6, <1>7

\* The adapters found enabled are of the class the function is about.
ActiveFits(fn) == \A a \in active : OfClass(fn, types[a])

\* Their attributes.
LEMMA AttributesFit ==
  ASSUME active \in SUBSET Adapters
  PROVE  /\ ActiveFits("dump_usb3_bws_lr_pls") =>
              dump_usb3_bws_lr_pls \in Seq(Fits("dump_usb3_bws_lr_pls"))
         /\ ActiveFits("dump_pcie_attributes") =>
              dump_pcie_attributes \in Seq(Fits("dump_pcie_attributes"))
         /\ ActiveFits("dump_dp_attributes") =>
              dump_dp_attributes \in Seq(Fits("dump_dp_attributes"))
<1>1. active \subseteq 0 .. 64
  BY AdaptersFit DEF Adapters
<1>2. ASSUME ActiveFits("dump_usb3_bws_lr_pls")
      PROVE  dump_usb3_bws_lr_pls \in Seq(Fits("dump_usb3_bws_lr_pls"))
  <2> DEFINE T == Fits("dump_usb3_bws_lr_pls")
             bws == <<"get_usb3_scale", "get_usb3_consumed_up_bw", "get_usb3_consumed_down_bw",
                      "get_usb3_allocated_up_bw", "get_usb3_allocated_down_bw">>
             lr == <<"is_usb3_link_valid", "get_usb3_actual_lr", "get_usb3_max_sup_lr",
                     "get_usb3_port_link_state">>
             items(a) == When(~IsDevice, All(bws, a)) \o All(lr, a)
             ss == [a \in 1 .. MaxAdapters |-> When(a \in active, items(a))]
  <2>1. bws \in Seq(Usb3Qs) /\ lr \in Seq(Usb3Qs)
    BY DEF Usb3Qs, HostQs
  <2>2. AboutUsb3("dump_usb3_bws_lr_pls") /\ "dump_usb3_bws_lr_pls" # "dump_lane_adapters"
    BY DEF AboutUsb3
  <2>3. \A a \in active : \A g \in Usb3Qs : Q(g, a) \in T
    BY <1>1, <1>2, <2>2, KindFits DEF ActiveFits, OfClass
  <2> HIDE DEF bws, lr, T
  <2>4. \A a \in active : All(bws, a) \in Seq(T) /\ All(lr, a) \in Seq(T)
    BY <2>1, <2>3, SeqAll, Zenon
  <2>5. \A a \in active : items(a) \in Seq(T)
    BY <2>4, SeqParts, Zenon
  <2> HIDE DEF items
  <2>6. \A a \in 1 .. MaxAdapters : ss[a] \in Seq(T)
    BY <2>5, SeqParts, Zenon
  <2>7. ss = [a \in 1 .. MaxAdapters |-> ss[a]]
    BY Zenon
  <2>8. FlattenSeq(ss) \in Seq(T)
    <3> HIDE DEF ss
    <3> QED
      BY <2>6, <2>7, SeqLoop, Zenon
  <2> QED
    BY <2>8, Zenon DEF dump_usb3_bws_lr_pls, Each, items, bws, lr, T
<1>3. ASSUME ActiveFits("dump_pcie_attributes")
      PROVE  dump_pcie_attributes \in Seq(Fits("dump_pcie_attributes"))
  <2>1. <<"is_pcie_link_up", "is_pcie_tx_ei", "is_pcie_rx_ei", "is_pcie_switch_warm_reset",
          "get_pcie_ltssm">> \in Seq(PcieQs)
    BY DEF PcieQs
  <2>2. AboutPcie("dump_pcie_attributes") /\ "dump_pcie_attributes" # "dump_lane_adapters"
    BY DEF AboutPcie
  <2>3. \A a \in active : \A g \in PcieQs : Q(g, a) \in Fits("dump_pcie_attributes")
    BY <1>1, <1>3, <2>2, KindFits DEF ActiveFits, OfClass
  <2> QED
    BY <2>1, <2>3, SeqLoops, Zenon DEF dump_pcie_attributes, Each
<1>4. ASSUME ActiveFits("dump_dp_attributes")
      PROVE  dump_dp_attributes \in Seq(Fits("dump_dp_attributes"))
  <2> DEFINE T == Fits("dump_dp_attributes")
             com == <<"is_dp_mst_cap", "is_dp_dsc_sup", "get_dp_hpd_status",
                      "get_dp_max_link_rate", "get_dp_max_lane_count", "is_dp_lttpr_sup">>
             bw == <<"is_dp_in_bw_alloc_sup", "is_dp_in_cm_bw_alloc_support",
                     "is_dp_in_dptx_bw_alloc_en", "get_dp_in_estimated_bw",
                     "get_dp_in_nrd_max_lc", "get_dp_in_nrd_max_lr", "get_dp_in_granularity",
                     "get_dp_in_alloc_bw", "get_dp_in_req_bw", "is_dp_in_dptx_req">>
             items(a) == All(com, a) \o When(types[a] = "dp_in", All(bw, a))
             ss == [a \in 1 .. MaxAdapters |-> When(a \in active, items(a))]
  <2>1. com \in Seq(DpQs) /\ bw \in Seq(DpInQs)
    BY DEF DpQs, DpInQs
  <2>2. AboutDp("dump_dp_attributes") /\ "dump_dp_attributes" # "dump_lane_adapters"
    BY DEF AboutDp
  <2>3. /\ \A a \in active : \A g \in DpQs : Q(g, a) \in T
        /\ \A a \in active : types[a] = "dp_in" => \A g \in DpInQs : Q(g, a) \in T
    BY <1>1, <1>4, <2>2, KindFits DEF ActiveFits, OfClass
  <2> HIDE DEF com, bw, T
  <2>4. /\ \A a \in active : All(com, a) \in Seq(T)
        /\ \A a \in active : types[a] = "dp_in" => All(bw, a) \in Seq(T)
    BY <2>1, <2>3, SeqAll, Zenon
  <2>5. \A a \in active : items(a) \in Seq(T)
    BY <2>4, SeqParts, Zenon
  <2> HIDE DEF items
  <2>6. \A a \in 1 .. MaxAdapters : ss[a] \in Seq(T)
    BY <2>5, SeqParts, Zenon
  <2>7. ss = [a \in 1 .. MaxAdapters |-> ss[a]]
    BY Zenon
  <2>8. FlattenSeq(ss) \in Seq(T)
    <3> HIDE DEF ss
    <3> QED
      BY <2>6, <2>7, SeqLoop, Zenon
  <2> QED
    BY <2>8, Zenon DEF dump_dp_attributes, Each, items, com, bw, T
<1> QED
  BY <1>2, <1>3, <1>4

\* Every function begins with what it may ask.
LEMMA BodyFits ==
  ASSUME NEW fn \in Functions, active \in SUBSET Adapters,
         fn \in AttributeFns => ActiveFits(fn)
  PROVE  Body(fn) \in Seq(Fits(fn))
<1>1. /\ {"dump_up_usb3_adapters", "dump_down_usb3_adapters"} = Usb3Fns
      /\ {"dump_up_pcie_adapters", "dump_down_pcie_adapters"} = PcieFns
      /\ {"dump_dp_in_adapters", "dump_dp_out_adapters"} = DpFns
      /\ "up_usb3" \in Usb3 /\ "down_usb3" \in Usb3 /\ "up_pcie" \in Pcie /\ "down_pcie" \in Pcie
      /\ "dp_in" \in Dp /\ "dp_out" \in Dp
  BY DEF Usb3Fns, PcieFns, DpFns, Usb3, Pcie, Dp
<1>2. CASE fn \in Usb3Fns
  BY <1>1, <1>2, ClassesFit DEF Body
<1>3. CASE fn \in PcieFns
  BY <1>1, <1>3, ClassesFit DEF Body
<1>4. CASE fn \in DpFns
  BY <1>1, <1>4, ClassesFit DEF Body
<1>5. CASE fn \in AttributeFns
  BY <1>5, AttributesFit DEF Body, AttributeFns
<1>6. CASE fn = "dump_lane_adapters"
  BY <1>6, LanesFit DEF Body
<1>7. CASE fn \in Functions \ (Usb3Fns \cup PcieFns \cup DpFns \cup AttributeFns \cup {"dump_lane_adapters"})
  <2> HIDE DEF Fits
  <2> QED
    BY <1>7, RouterBodiesFit DEF Body, Functions, Usb3Fns, PcieFns, DpFns, AttributeFns
<1> QED
  BY <1>2, <1>3, <1>4, <1>5, <1>6, <1>7

\* So does the dump.
LEMMA DumpListFits == dump_router_verbose \in Seq(Fits("dump_router_verbose"))
<1> DEFINE fn == "dump_router_verbose"
           K == SelfKinds(fn)
           G == RouterQs \ {"is_tbt3_hot_events_disabled_lane"}
           F == Functions \ (AttributeFns \cup {"dump_usb4_gen_wakes", "dump_gen_wake_status"})
           gets == <<"fill_adp_types_in_router", "get_top_id_low", "get_top_id_high",
                     "get_max_adp", "is_router_configured">>
           power == <<"get_notification_timeout", "is_tbt3_not_supported",
                      "dump_power_states_compatibility">>
           tunnels == <<"dump_ihci_status", "dump_pcie_tunneling_status",
                        "dump_usb3_tunneling_status">>
           adapters == <<"dump_up_usb3_adapters", "dump_down_usb3_adapters",
                         "dump_up_pcie_adapters", "dump_down_pcie_adapters",
                         "dump_dp_in_adapters", "dump_dp_out_adapters">>
<1>1. G \subseteq K /\ F \subseteq K
  BY DEF SelfKinds, Calls
<1> HIDE DEF K
<1>2. /\ {"get_top_id_low", "get_top_id_high", "get_max_adp", "is_router_configured",
          "get_notification_timeout", "is_tbt3_not_supported", "get_usb4v"} \subseteq K
      /\ {"fill_adp_types_in_router", "dump_power_states_compatibility", "dump_ihci_status",
          "dump_pcie_tunneling_status", "dump_usb3_tunneling_status", "dump_wakes",
          "dump_lane_adapters", "dump_adapters_num", "dump_up_usb3_adapters",
          "dump_down_usb3_adapters", "dump_up_pcie_adapters", "dump_down_pcie_adapters",
          "dump_dp_in_adapters", "dump_dp_out_adapters"} \subseteq K
  BY <1>1 DEF RouterQs, Functions, AttributeFns
<1>3. gets \in Seq(K) /\ power \in Seq(K) /\ tunnels \in Seq(K) /\ adapters \in Seq(K)
  BY <1>2
<1>4. {"dump_wakes", "get_usb4v", "dump_lane_adapters", "dump_adapters_num"} \subseteq K
  BY <1>2
<1> HIDE DEF gets, power, tunnels, adapters
<1>5. fn # "dump_lane_adapters"
  OBVIOUS
<1> HIDE DEF fn
<1>6. /\ All(gets, 0) \in Seq(Fits(fn)) /\ All(power, 0) \in Seq(Fits(fn))
      /\ All(tunnels, 0) \in Seq(Fits(fn)) /\ All(adapters, 0) \in Seq(Fits(fn))
  BY <1>3, <1>5, SelfFits, Zenon DEF K
<1>7. /\ <<R("dump_wakes")>> \in Seq(Fits(fn)) /\ <<R("get_usb4v")>> \in Seq(Fits(fn))
      /\ <<R("dump_lane_adapters")>> \in Seq(Fits(fn))
      /\ <<R("dump_adapters_num")>> \in Seq(Fits(fn))
  <2>1. \A g \in K : <<R(g)>> \in Seq(Fits(fn))
    BY <1>5, SelfFits, Zenon DEF K
  <2> QED
    BY <1>4, <2>1
<1> DEFINE a1 == When(env.loud, All(power, 0))
           a2 == When(env.loud /\ IsDevice, All(tunnels, 0))
           a3 == When(env.loud, <<R("dump_wakes")>>)
           a4 == When(env.loud, <<R("dump_lane_adapters")>>)
           a5 == When(env.loud, All(adapters, 0))
<1>8. /\ a1 \in Seq(Fits(fn)) /\ a2 \in Seq(Fits(fn)) /\ a3 \in Seq(Fits(fn))
      /\ a4 \in Seq(Fits(fn)) /\ a5 \in Seq(Fits(fn))
  BY <1>6, <1>7, SeqParts, Zenon
<1>9. dump_router_verbose = All(gets, 0) \o a1 \o a2 \o a3 \o <<R("get_usb4v")>> \o a4
                              \o <<R("dump_adapters_num")>> \o a5
  BY Zenon DEF dump_router_verbose, gets, power, tunnels, adapters
<1> HIDE DEF a1, a2, a3, a4, a5
<1>10. \A s, t \in Seq(Fits(fn)) : s \o t \in Seq(Fits(fn))
  BY SeqParts, Zenon
<1>11. dump_router_verbose \in Seq(Fits(fn))
  BY <1>6, <1>7, <1>8, <1>9, <1>10, Zenon
<1> QED
  BY <1>11 DEF fn

\* An answer tells the generation of the router.
Tells(q, ans) == q.get = "get_usb4v" /\ ~is_usb4(q, ans) => env.usb4 = FALSE

\* What the functions that are about lanes go on with.
LEMMA LanesAfterFit ==
  ASSUME NEW q, NEW ans, Tells(q, ans), NEW max
  PROVE  /\ AfterWakes(q, ans, max) \in Seq(Fits("dump_wakes"))
         /\ AfterWakeStatus(q, ans, max) \in Seq(Fits("dump_wake_status"))
<1>1. \A a \in LanesUpTo(max) : a \in 0 .. 64 /\ a \in Adapters /\ is_adp_lane_0(a) /\ types[a] = "lane"
  BY AdaptersFit DEF LanesUpTo, Adapters, is_adp_lane_0
<1>2. {"get_usb4_wakes_en", "get_usb4_wake_status"} \subseteq Lane0Qs
      /\ "get_tbt3_wake_events_en" \in PortLaneQs
  BY DEF Lane0Qs, PortLaneQs
<1>3. \A fn, g, a : fn # "dump_lane_adapters" /\ g \in Lane0Qs /\ a \in LanesUpTo(max) =>
         Q(g, a) \in Fits(fn)
  BY <1>1, KindFits, Zenon
<1>4. ASSUME NEW fn, fn # "dump_lane_adapters", NEW g \in Lane0Qs
      PROVE  Each(LanesUpTo(max), LAMBDA a : <<Q(g, a)>>) \in Seq(Fits(fn))
  BY <1>3, <1>4, SeqLoops, Zenon DEF Each
<1>5. "dump_wakes" # "dump_lane_adapters" /\ "dump_wake_status" # "dump_lane_adapters"
  OBVIOUS
<1>6. AfterWakeStatus(q, ans, max) \in Seq(Fits("dump_wake_status"))
  <2>1. Each(LanesUpTo(max), LAMBDA a : <<Q("get_usb4_wake_status", a)>>)
          \in Seq(Fits("dump_wake_status"))
    BY <1>2, <1>4, <1>5
  <2> QED
    BY <2>1, SeqParts, Zenon DEF AfterWakeStatus
<1>7. AfterWakes(q, ans, max) \in Seq(Fits("dump_wakes"))
  <2>1. Each(LanesUpTo(max), LAMBDA a : <<Q("get_usb4_wakes_en", a)>>) \in Seq(Fits("dump_wakes"))
    BY <1>2, <1>4, <1>5
  <2>2. <<R("dump_usb4_gen_wakes")>> \in Seq(Fits("dump_wakes"))
    <3>1. "dump_usb4_gen_wakes" \in SelfKinds("dump_wakes")
      BY DEF SelfKinds, Calls, Functions
    <3> QED
      BY <1>5, <3>1, SelfFits, Zenon
  <2>3. ASSUME env.usb4 = FALSE
        PROVE  Each(LanesUpTo(max), LAMBDA a : <<Q("get_tbt3_wake_events_en", a)>>)
                 \in Seq(Fits("dump_wakes"))
    <3>1. \A a \in LanesUpTo(max) : Q("get_tbt3_wake_events_en", a) \in Fits("dump_wakes")
      BY <1>1, <1>2, <1>5, <2>3, KindFits, Zenon
    <3> QED
      BY <3>1, SeqLoops, Zenon DEF Each
  <2> QED
    BY <2>1, <2>2, <2>3, SeqParts, Zenon DEF AfterWakes, Tells
<1> QED
  BY <1>6, <1>7

\* What a lane is asked next.
LEMMA LaneAfterFit ==
  ASSUME NEW q, q \in Fits("dump_lane_adapters"), q.at \in Adapters, NEW ans, Tells(q, ans)
  PROVE  AfterLane(q, ans) \in Seq(Fits("dump_lane_adapters"))
<1> DEFINE T == Fits("dump_lane_adapters")
           tbt3 == <<"is_tbt3_hot_events_disabled_lane", "is_tbt3_clx_supported">>
           clx == <<"are_cl0s_enabled", "is_cl1_enabled", "is_cl2_enabled">>
           Tbt3 == {"is_tbt3_hot_events_disabled_lane", "is_tbt3_clx_supported"}
<1>1. types[q.at] = "lane"
  BY DEF Fits, Fit, Found
<1>2. tbt3 \in Seq(Tbt3) /\ clx \in Seq(LaneQs)
  BY DEF LaneQs
<1>3. /\ \A g \in {"are_hot_events_disabled"} \cup LaneQs : Q(g, q.at) \in T
      /\ is_adp_lane_0(q.at) => Q("is_usb4_clx_supported", q.at) \in T
      /\ env.usb4 = FALSE => \A g \in Tbt3 : Q(g, q.at) \in T
  BY <1>1, LaneKindFits
<1> HIDE DEF T, tbt3, clx, Tbt3
<1>4. All(clx, q.at) \in Seq(T) /\ (env.usb4 = FALSE => All(tbt3, q.at) \in Seq(T))
  BY <1>2, <1>3, SeqAll, Zenon
<1>5. <<Q("are_hot_events_disabled", q.at)>>
        \o When(is_adp_lane_0(q.at), <<Q("is_usb4_clx_supported", q.at)>>) \in Seq(T)
  <2>1. Q("are_hot_events_disabled", q.at) \in T
    BY <1>3
  <2> QED
    BY <1>3, <2>1, SeqParts, Zenon
<1>6. \A b : When(b, All(clx, q.at)) \in Seq(T)
  BY <1>4, SeqParts, Zenon
<1>7. <<>> \in Seq(T)
  BY SeqParts, Zenon
<1> QED
  BY <1>4, <1>5, <1>6, <1>7, Zenon DEF AfterLane, Tells, tbt3, clx, T

\* How a function goes on.
LEMMA AfterFits ==
  ASSUME IsEnv(env), TopSeen, Lead("self", "basic") = 0, NEW f, NEW q \in Items(f.fn), q \in Fits(f.fn), NEW ans, Tells(q, ans)
  PROVE  After(f, q, ans) \in Seq(Fits(f.fn))
<1> DEFINE fn == f.fn
           Special == {"dump_router_verbose", "dump_power_states_compatibility",
                       "dump_pcie_tunneling_status", "dump_usb3_tunneling_status",
                       "dump_wakes", "dump_wake_status", "dump_lane_adapters"}
<1>1. CASE fn = "dump_router_verbose"
  <2>1. "dump_wake_status" \in SelfKinds(fn)
    BY <1>1 DEF SelfKinds, Calls, Functions, AttributeFns
  <2>2. AfterHeader(q, ans) \in Seq(Fits(fn))
    <3>1. fn # "dump_lane_adapters"
      BY <1>1
    <3> QED
      BY <2>1, <3>1, SelfFits, SeqParts, Zenon DEF AfterHeader
  <2> QED
    BY <1>1, <2>2 DEF After
<1>2. CASE fn = "dump_power_states_compatibility"
  <2> DEFINE port == get_ups_down_port(Depth)
  <2>1. port \in 0 .. 64
    <3>1. Depth - 1 \in Int
      BY DepthFits
    <3>2. port \in 0 .. 63
      BY <3>1, LevelFits, Zenon DEF get_ups_down_port
    <3> HIDE DEF port
    <3> QED
      BY <3>2
  <2>2. fn # "dump_lane_adapters"
    BY <1>2
  <2> HIDE DEF port, fn
  <2>3. Q("is_usb4_port_configured", port) \in Fits(fn)
    BY <2>1, <2>2, KindFits
  <2>4. Upstream(Q("get_tbt3_lanes_configured", port)) \in Fits(fn)
    <3>1. get_usb4_port_num(port) \in 0 .. env.up_ports - 1
      BY PortWithin DEF port
    <3> QED
      BY <2>1, <2>2, <3>1, KindFits
  <2>5. AfterPower(q, ans) \in Seq(Fits(fn))
    BY <2>3, <2>4, SeqParts, Zenon DEF AfterPower, port
  <2> QED
    BY <1>2, <2>5 DEF After, fn
<1>3. CASE fn \in {"dump_pcie_tunneling_status", "dump_usb3_tunneling_status"}
  <2>1. {"is_tunneling_on_pcie", "is_tunneling_on_usb3"} \subseteq SelfKinds(fn)
    BY DEF SelfKinds, RouterQs
  <2>2. fn # "dump_lane_adapters"
    BY <1>3
  <2>3. \A on \in SelfKinds(fn) : AfterTunneling(on, q, ans, f.failed) \in Seq(Fits(fn))
    BY <2>2, SelfFits, SeqParts, Zenon DEF AfterTunneling
  <2> QED
    BY <1>3, <2>1, <2>3 DEF After
<1>4. CASE fn \in {"dump_wakes", "dump_wake_status"}
  BY <1>4, LanesAfterFit DEF After
<1>5. CASE fn = "dump_lane_adapters"
  <2>1. q.at \in Adapters
    BY <1>5 DEF Items
  <2> QED
    BY <1>5, <2>1, LaneAfterFit DEF After
<1>6. CASE fn \notin Special
  <2>1. After(f, q, ans) = AfterEnabled(q, ans)
    BY <1>6 DEF After
  <2>2. ASSUME q.get = "is_dp_aux_en" PROVE Q("is_dp_vid_en", q.at) \in Fits(fn)
    <3>4. q.at \in Adapters
      BY <2>2 DEF Items, AdapterQs
    <3>1. AboutDp(fn) /\ types[q.at] \in Dp
      BY <2>2, <3>4 DEF Fits, Fit, Found, DpQs
    <3>2. q.at \in 0 .. 64 /\ "is_dp_vid_en" \in DpQs
      BY DEF Items, DpQs
    <3>3. fn # "dump_lane_adapters"
      BY <1>6
    <3> HIDE DEF fn
    <3> QED
      BY <3>1, <3>2, <3>3, <3>4, KindFits
  <2> QED
    BY <2>1, <2>2, SeqParts, Zenon DEF AfterEnabled
<1> QED
  BY <1>1, <1>2, <1>3, <1>4, <1>5, <1>6

\* A type that was found is the type of an adapter whose registers are found.
TypesFound ==
  \A a \in 0 .. MaxAdapters - 1 :
    types[a] # NoType =>
      a \in 1 .. Len(env.types) /\ a < total_adps /\ types[a] = env.types[a]

\* A readable register is found.
LEMMA QuietFinds ==
  ASSUME Quiet, NEW of, NEW cap, NEW off \in Nat
  PROVE  /\ Lead(of, cap) = 0
         /\ HasCap(of, cap) => \A at : get_register_val(of, cap, off, at).failed = FALSE
         /\ HasCap(of, cap) => get_router_register_val(of, cap, off).failed = FALSE
         /\ HasCap("self", cap) => \A a : a < total_adps =>
              get_adapter_register_val(cap, off, a).failed = FALSE
<1>1. \A o, c, k : ~Blocked(o, c, k)
  BY DEF Blocked, Quiet
<1>2. \A o, c : Lead(o, c) = 0
  BY <1>1 DEF Lead
<1>3. \A o : RouterFound(o)
  BY DEF RouterFound, Quiet
<1>4. \A o : HasCap(o, cap) => \A at : get_register_val(o, cap, off, at).failed = FALSE
  BY <1>1, <1>2 DEF get_register_val
<1> QED
  BY <1>2, <1>3, <1>4, Zenon DEF get_router_register_val, get_adapter_register_val

\* What there are questions about.
LEMMA AdapterKinds ==
  /\ AdapterQs \subseteq AnyQs \cup LaneQs \cup Lane0Qs \cup Usb3Qs \cup PcieQs \cup DpQs
                           \cup DpInQs \cup PortLaneQs
  /\ \A fn, q : q \in Items(fn) /\ q.get \in Questions =>
       q.get \in AdapterQs \cup RouterQs \cup SleepQs
<1>1. AdapterQs \subseteq AnyQs \cup LaneQs \cup Lane0Qs \cup Usb3Qs \cup PcieQs \cup DpQs
                           \cup DpInQs \cup PortLaneQs
  BY DEF AdapterQs, AnyQs, LaneQs, Lane0Qs, Usb3Qs, HostQs, PcieQs, DpQs, DpInQs, PortLaneQs
<1>2. (Functions \cup {"get_upstream_router"}) \cap Questions = {}
  BY DEF Functions, Questions, By6, By8, By16, By32, Unchecked, Codes
<1>3. \A fn, q : q \in Items(fn) /\ q.get \in Questions =>
       q.get \in AdapterQs \cup RouterQs \cup SleepQs
  BY <1>2 DEF Items, Asks
<1> QED
  BY <1>1, <1>3

\* The lanes of a TBT3 router come first.
LEMMA LanesFirst ==
  env \in Envs /\ env.usb4 = FALSE =>
    \A a \in 1 .. Len(env.types) : env.types[a] = "lane" => \A b \in 1 .. a : env.types[b] = "lane"
BY LanesAssumption, Zenon

\* So that no lane has a number above how many there are.
LEMMA LanesCounted ==
  ASSUME env \in Envs, env.usb4 = FALSE, NEW a \in 1 .. Len(env.types), env.types[a] = "lane"
  PROVE  Cardinality(Lanes) \in Nat /\ a <= Cardinality(Lanes)
<1>1. Len(env.types) \in Nat
  BY EnvIsOne DEF IsEnv
<1>2. 1 .. a \subseteq Lanes
  <2>1. 1 .. a \subseteq 1 .. Len(env.types)
    BY <1>1
  <2>2. \A b \in 1 .. a : env.types[b] = "lane"
    BY LanesFirst, Zenon
  <2> QED
    BY <2>1, <2>2 DEF Lanes
<1>3. IsFiniteSet(Lanes) /\ Cardinality(Lanes) \in Nat
  <2>1. IsFiniteSet(1 .. Len(env.types))
    BY <1>1, FS_Interval
  <2>2. Lanes \in SUBSET (1 .. Len(env.types))
    BY DEF Lanes
  <2> QED
    BY <2>1, <2>2, FS_Subset, FS_CardinalityType
<1>4. Cardinality(1 .. a) = a
  <2>1. Cardinality(1 .. a) = a - 1 + 1
    BY <1>1, FS_Interval
  <2> QED
    BY <1>1, <2>1
<1>5. Cardinality(1 .. a) <= Cardinality(Lanes)
  BY <1>2, <1>3, FS_Subset
<1> QED
  BY <1>3, <1>4, <1>5

\* The common region says the same of the router above.
LEMMA LengthsOf ==
  ASSUME Quiet, NEW of, HasCap(of, "vsec6"), NEW off \in Nat, NEW a \in 0 .. 64
  PROVE  PortOffset(of, off, a) = Usb4Len * get_usb4_port_num(a) + ComLen + off
<1> DEFINE com == get_router_register_val(of, "vsec6", 2)
<1>1. com.failed = FALSE /\ Lead(of, "vsec6") = 0
  BY QuietFinds
<1>2. com.word = Content(of, "vsec6", 2, 0)
  BY <1>1, RouterUnshifted
<1>3. Content(of, "vsec6", 2, 0) = Content("self", "vsec6", 2, 0)
  BY DEF Content
<1> HIDE DEF com
<1>4. /\ Number[Genuine(Getter["get_tbt3_com_reg_dwords"], com.word)] = ComLen
      /\ Number[Genuine(Getter["get_tbt3_usb4_reg_dwords"], com.word)] = Usb4Len
  BY <1>2, <1>3, LengthsRead
<1> QED
  BY <1>1, <1>4, Zenon DEF PortOffset, com

\* The registers of every port a lane may belong to are within the capability.
LEMMA PortAnswers ==
  ASSUME Quiet, env \in Envs, TypesFound, NEW q, q.get \in PortLaneQs, q.at \in Adapters,
         q.of = "self", types[q.at] = "lane", env.usb4 = FALSE
  PROVE  Lookup(q).failed = FALSE /\ ~OutOfRange(q)
<1> DEFINE a == q.at
           g == Getter[q.get]
           v == PortOffset("self", g.off, a)
<1>1. q.get \in PortQs /\ q.get \in Questions
  BY DEF PortLaneQs, PortQs, Questions, By6, By8, By16, By32, Unchecked, Codes
<1>2. g.who = Router /\ g.cap = "vsec6" /\ g.off \in Nat /\ g.off < Usb4Len
  BY <1>1, GetterOf DEF Known, Serves
<1>3. a \in 0 .. 64 /\ a \in 0 .. MaxAdapters - 1
  BY AdaptersFit DEF Adapters
<1>4. a \in 1 .. Len(env.types) /\ env.types[a] = "lane"
  BY <1>3 DEF TypesFound, NoType
<1>5. HasCap("self", "vsec6")
  BY DEF HasCap
<1>6. v = Usb4Len * get_usb4_port_num(a) + ComLen + g.off
  BY <1>2, <1>3, <1>5, LengthsOf
<1>7. /\ Cardinality(Lanes) \in Nat /\ a <= Cardinality(Lanes)
  BY <1>4, LanesCounted, Zenon
<1> HIDE DEF g, v
<1>8. v \in Nat /\ v + 0 < ComLen + Usb4Len * ((Cardinality(Lanes) + 1) \div 2)
  <2>1. a \in Int /\ a > 0
    BY <1>3, <1>4
  <2>2. get_usb4_port_num(a) \in Nat /\ get_usb4_port_num(a) + 1 <= (Cardinality(Lanes) + 1) \div 2
    BY <1>7, <2>1 DEF get_usb4_port_num
  <2>3. (Cardinality(Lanes) + 1) \div 2 \in Nat
    BY <1>7
  <2> HIDE DEF a
  <2> QED
    BY <1>2, <1>6, <2>2, <2>3 DEF ComLen, Usb4Len
<1>9. Lookup(q) = get_router_register_val("self", "vsec6", v)
  <2>1. ~(v < 0)
    BY <1>8
  <2> QED
    BY <1>1, <1>2, <2>1, PortGetters, Zenon DEF Lookup, g, v
<1>10. Lookup(q).failed = FALSE /\ Lead("self", "vsec6") = 0
  BY <1>5, <1>8, <1>9, QuietFinds
<1>11. ~OutOfRange(q)
  <2>1. ~(v + 0 >= ComLen + Usb4Len * ((Cardinality(Lanes) + 1) \div 2))
    <3>1. Cardinality(Lanes) \in Nat
      BY <1>7
    <3> QED
      BY <1>8, <3>1 DEF ComLen, Usb4Len
  <2> QED
    BY <1>10, <2>1, Zenon DEF OutOfRange, Ports, g, v, a
<1> QED
  BY <1>10, <1>11

\* Questions that may go unanswered: for the type of an adapter there is none of,
\* and on sleep.
Excused(q) ==
  \/ q.get = "get_adp_pvs" /\ ~(q.at \in 1 .. Len(env.types) /\ q.at < MaxAdapters - 1)
  \/ SleepLine(q)

\* The questions to the router have answers.
LEMMA RouterAnswers ==
  ASSUME Quiet, NEW q, q.get \in RouterQs, q.of = "self",
         q.get = "is_tbt3_hot_events_disabled_lane" => env.usb4 = FALSE
  PROVE  Lookup(q).failed = FALSE /\ ~OutOfRange(q)
<1> DEFINE g == Getter[q.get]
<1>1. /\ q.get \in Questions /\ q.get \notin PortQs
      /\ q.get \in Tbt3Qs => q.get = "is_tbt3_hot_events_disabled_lane"
  BY DEF RouterQs, PortQs, Tbt3Qs, Questions, By6, By8, By16, By32, Unchecked, Codes
<1>2. g.who = Router /\ g.off \in Nat /\ (q.get \notin Tbt3Qs => g.cap \notin {"vsec1", "vsec6"})
  BY <1>1, GetterOf DEF Known, Serves
<1>3. HasCap("self", g.cap)
  BY <1>1, <1>2 DEF HasCap
<1>4. Lookup(q) = get_router_register_val("self", g.cap, g.off)
  BY <1>1, <1>2, PortGetters DEF Lookup
<1>5. get_router_register_val("self", g.cap, g.off).failed = FALSE
  BY <1>2, <1>3, QuietFinds
<1> QED
  BY <1>1, <1>4, <1>5, PortGetters DEF OutOfRange

\* So have those to an adapter of the right type.
LEMMA AdapterAnswers ==
  ASSUME Quiet, NEW q, q.get \in AdapterQs \ PortLaneQs, q.of = "self",
         q.at \in 1 .. Len(env.types), q.at < total_adps,
         HasType(Getter[q.get].who, q.at)
  PROVE  Lookup(q).failed = FALSE /\ ~OutOfRange(q)
<1> DEFINE g == Getter[q.get]
<1>1. q.get \in Questions /\ q.get \notin Tbt3Qs /\ q.get \notin PortQs
  BY DEF AdapterQs, PortLaneQs, PortQs, Tbt3Qs, Questions, By6, By8, By16, By32, Unchecked, Codes
<1>2. g.off \in Nat /\ g.cap \notin {"vsec1", "vsec6"}
  BY <1>1, GetterOf DEF Known, Serves
<1>3. g.who # Router
  <2>1. g.who \in {AnyAdp, {"lane"}, {"lane_0"}, Usb3, Pcie, Dp, {"dp_in"}}
    BY <1>1, AdapterKinds, GetterOf DEF Serves
  <2> QED
    BY <2>1 DEF AnyAdp, Usb3, Pcie, Dp, Router
<1>4. HasCap("self", g.cap)
  BY <1>2 DEF HasCap
<1>5. get_adapter_register_val(g.cap, g.off, q.at).failed = FALSE
  BY <1>2, <1>4, QuietFinds
<1>6. is_adp_present(q.at)
  BY DEF is_adp_present, Quiet
<1>7. Lookup(q).failed = FALSE
  <2>1. Lookup(q) = IF g.host /\ IsDevice THEN [failed |-> FALSE, word |-> {}]
                    ELSE get_adapter_register_val(g.cap, g.off, q.at)
    BY <1>3, <1>6, Zenon DEF Lookup, g
  <2> HIDE DEF g
  <2> QED
    BY <1>5, <2>1
<1> QED
  BY <1>1, <1>7, PortGetters DEF OutOfRange

\* The line on sleep asks for no register beyond the capability, either.
LEMMA SleepAnswers ==
  ASSUME Quiet, NEW q, q.get \in SleepQs, q.at \in 0 .. 64,
         IsEnv(env),
         q.get = "get_tbt3_lanes_configured" =>
           q.of = "upstream" /\ get_usb4_port_num(q.at) \in 0 .. env.up_ports - 1
  PROVE  ~OutOfRange(q)
<1>1. CASE q.get = "is_usb4_port_configured"
  BY <1>1, PortGetters DEF OutOfRange, PortQs
<1>2. CASE q.get = "get_tbt3_lanes_configured"
  <2> DEFINE g == Getter[q.get]
             v == PortOffset("upstream", g.off, q.at)
  <2>1. q.get \in Questions /\ q.get \in PortQs
    BY <1>2 DEF PortQs, Questions, By6, By8, By16, By32, Unchecked, Codes
  <2>2. g.who = Router /\ g.cap = "vsec6" /\ g.off \in Nat /\ g.off < Usb4Len
    BY <2>1, GetterOf DEF Known, Serves
  <2>3. get_usb4_port_num(q.at) \in 0 .. env.up_ports - 1 /\ env.up_ports \in 1 .. 32
    BY <1>2 DEF IsEnv
  <2>4. CASE HasCap("upstream", "vsec6")
    <3>1. v = Usb4Len * get_usb4_port_num(q.at) + ComLen + g.off
      BY <2>2, <2>4, LengthsOf
    <3>2. Lead("upstream", "vsec6") = 0
      BY <2>2, QuietFinds
    <3> HIDE DEF g, v
    <3>3. ~(v + 0 >= ComLen + Usb4Len * env.up_ports)
      BY <2>2, <2>3, <3>1 DEF ComLen, Usb4Len
    <3> QED
      BY <1>2, <3>2, <3>3 DEF OutOfRange, Ports, g, v
  <2>5. CASE ~HasCap("upstream", "vsec6")
    <3>1. \A off : get_router_register_val("upstream", "vsec6", off) = Unavailable
      BY <2>5 DEF get_router_register_val, get_register_val
    <3>2. Lookup(q) = Unavailable
      BY <1>2, <2>1, <2>2, <3>1, PortGetters DEF Lookup
    <3> QED
      BY <3>2 DEF OutOfRange, Unavailable
  <2> QED
    BY <2>4, <2>5
<1> QED
  BY <1>1, <1>2 DEF SleepQs

\* A question that fits has an answer.
LEMMA MayAsk ==
  ASSUME Quiet, env \in Envs, TypesFound, NEW fn, NEW q \in Items(fn), q \in Fits(fn),
         q.get \in Questions
  PROVE  ~OutOfRange(q) /\ (Lookup(q).failed => Excused(q))
<1>1. /\ q.get \in AdapterQs => q.at \in Adapters
      /\ q.get \notin SleepQs => q.of = "self"
      /\ q.at \in 0 .. 64
  BY DEF Items
<1>2. Fit(fn, q)
  BY DEF Fits
<1>3. AdapterQs \cap SleepQs = {} /\ RouterQs \cap SleepQs = {}
  BY DEF AdapterQs, RouterQs, SleepQs
<1>4. CASE q.get \in RouterQs
  <2>1. q.get = "is_tbt3_hot_events_disabled_lane" => env.usb4 = FALSE
    BY <1>2 DEF Fit
  <2>2. q.of = "self"
    BY <1>1, <1>3, <1>4
  <2> QED
    BY <1>4, <2>1, <2>2, RouterAnswers
<1>5. CASE q.get \in SleepQs
  <2>1. q.get = "get_tbt3_lanes_configured" =>
          q.of = "upstream" /\ get_usb4_port_num(q.at) \in 0 .. env.up_ports - 1
    BY <1>2, Zenon DEF Fit
  <2>2. Excused(q)
    BY <1>5 DEF Excused, SleepLine, SleepQs
  <2> QED
    BY <1>1, <1>5, <2>1, <2>2, EnvIsOne, SleepAnswers
<1>6. CASE q.get \in AdapterQs
  <2>1. q.at \in Adapters /\ q.of = "self"
    BY <1>1, <1>3, <1>6
  <2>2. q.at \in 0 .. MaxAdapters - 1
    BY <2>1, AdaptersFit DEF Adapters
  <2>3. types[q.at] # NoType =>
          q.at \in 1 .. Len(env.types) /\ q.at < total_adps /\ types[q.at] = env.types[q.at]
    BY <2>2 DEF TypesFound
  <2>4. CASE q.get \in PortLaneQs
    <3>1. types[q.at] = "lane" /\ env.usb4 = FALSE
      BY <1>2, <2>1, <2>4, Zenon DEF Fit, Found
    <3> QED
      BY <2>1, <2>4, <3>1, PortAnswers
  <2>5. CASE q.get \notin PortLaneQs /\ q.get # "get_adp_pvs"
    <3>1. HasType(Getter[q.get].who, q.at) /\ types[q.at] # NoType
      <4> DEFINE t == types[q.at]
                 who == Getter[q.get].who
      <4>1. q.get \in AnyQs \cup LaneQs \cup Lane0Qs \cup Usb3Qs \cup PcieQs \cup DpQs \cup DpInQs
        BY <1>6, <2>5, AdapterKinds
      <4>2. /\ q.get \in AnyQs => who = AnyAdp
            /\ q.get \in LaneQs => who = {"lane"}
            /\ q.get \in Lane0Qs => who = {"lane_0"}
            /\ q.get \in Usb3Qs => who = Usb3
            /\ q.get \in PcieQs => who = Pcie
            /\ q.get \in DpQs => who = Dp
            /\ q.get \in DpInQs => who = {"dp_in"}
        BY GetterOf, Zenon DEF Serves
      <4>3. /\ q.get \in AnyQs => t # NoType
            /\ q.get \in LaneQs \cup Lane0Qs => t = "lane"
            /\ q.get \in Lane0Qs => q.at % 2 = 1
            /\ q.get \in Usb3Qs => t \in Usb3
            /\ q.get \in PcieQs => t \in Pcie
            /\ q.get \in DpQs => t \in Dp
            /\ q.get \in DpInQs => t = "dp_in"
        BY <1>2, <2>1, <2>5 DEF Fit, Found
      <4>4. NoType \notin {"lane", "dp_in"} \cup Usb3 \cup Pcie \cup Dp
        BY DEF NoType, Usb3, Pcie, Dp
      <4> HIDE DEF who
      <4>5. t # NoType
        BY <4>1, <4>3, <4>4
      <4>6. HasType(who, q.at)
        BY <4>1, <4>2, <4>3 DEF HasType, is_adp_lane_0
      <4> QED
        BY <4>5, <4>6 DEF who
    <3> QED
      BY <1>6, <2>1, <2>3, <2>5, <3>1, AdapterAnswers
  <2>6. CASE q.get = "get_adp_pvs"
    <3>1. q.get \notin PortLaneQs /\ q.get \in AnyQs /\ q.get \in Questions
      BY <2>6 DEF PortLaneQs, AnyQs
    <3>2. HasType(Getter[q.get].who, q.at)
      BY <3>1, GetterOf DEF Serves, HasType
    <3>3. CASE q.at \in 1 .. Len(env.types) /\ q.at < MaxAdapters - 1
      <4>1. q.at < total_adps
        <5>1. Len(env.types) \in Nat /\ MaxAdapters \in Nat
          BY EnvIsOne, AdaptersFit DEF IsEnv
        <5> QED
          BY <3>3, <5>1 DEF total_adps
      <4> QED
        BY <1>6, <2>1, <3>1, <3>2, <3>3, <4>1, AdapterAnswers
    <3>4. CASE ~(q.at \in 1 .. Len(env.types) /\ q.at < MaxAdapters - 1)
      <4>1. q.get \notin DOMAIN Vsec6Port
        BY <2>6, PortGetters DEF PortQs
      <4> QED
        BY <2>6, <3>4, <4>1 DEF OutOfRange, Excused
    <3> QED
      BY <3>3, <3>4
  <2> QED
    BY <2>4, <2>5, <2>6
<1> QED
  BY <1>4, <1>5, <1>6, AdapterKinds

\* The version says of what generation the router is.
LEMMA VersionTells ==
  ASSUME Quiet, env \in Envs, NEW fn, NEW q \in Items(fn), q.get = "get_usb4v"
  PROVE  ~Recognised(q, Answer(q)) /\ (is_usb4(q, Answer(q)) <=> env.usb4 = TRUE)
<1> DEFINE g == Getter[q.get]
           w == Content("self", "basic", 4, 0)
           ans == Answer(q)
<1>1. /\ q.get \in Questions /\ q.get \in RouterQs /\ q.get \in Checked
      /\ q.get \notin SleepQs /\ q.get \notin PortQs
  BY DEF Questions, RouterQs, Checked, SleepQs, PortQs, By8, Unchecked, Codes
<1>2. q.of = "self" /\ Lookup(q).failed = FALSE
  <2>1. q.of = "self"
    BY <1>1 DEF Items
  <2> QED
    BY <1>1, <2>1, RouterAnswers
<1>3. g.cap = "basic" /\ g.off = 4 /\ g.who = Router /\ g.mask = 24 .. 31 /\ g.shift = 24
  BY <1>1, GetterOf DEF Serves, Reads, Bits
<1>4. ans = FieldOf(g, w)
  <2>1. ~SleepLine(q) /\ ~Shifted(q)
    BY <1>1, <1>3, QuietFinds DEF SleepLine, SleepQs, Shifted
  <2>2. ans = Truth(q)
    BY <1>1, <1>2, <2>1, EnvIsOne, AnswerTells
  <2> QED
    BY <1>1, <1>2, <1>3, <2>2, PortGetters DEF Truth
<1>5. w \cap (29 .. 31) = IF env.usb4 THEN {29} ELSE {}
  BY DEF Content
<1> HIDE DEF g, w
<1>6. ans = {b - 24 : b \in w \cap (24 .. 31)}
  BY <1>3, <1>4 DEF FieldOf
<1> HIDE DEF ans
<1>7. ~Recognised(q, ans)
  BY <1>1, <1>2, EnvIsOne, AnswerIsRecognised DEF ans
<1>8. env.usb4 \in BOOLEAN
  BY EnvIsOne DEF IsEnv
<1>9. CASE env.usb4 = TRUE
  <2>1. 29 \in w \cap (24 .. 31) /\ 29 - 24 = 5
    BY <1>5, <1>9
  <2>2. 5 \in ans
    BY <1>6, <2>1
  <2> QED
    BY <1>7, <1>9, <2>2 DEF is_usb4, ans
<1>10. CASE env.usb4 = FALSE
  <2>1. ASSUME NEW b \in w \cap (24 .. 31) PROVE b - 24 \notin 5 .. 7
    BY <1>5, <1>10
  <2>2. ans \cap (5 .. 7) = {}
    BY <1>6, <2>1
  <2> QED
    BY <1>7, <1>10, <2>2 DEF is_usb4, ans
<1> QED
  BY <1>8, <1>9, <1>10

\* No two types have the same protocol, version and sub-type.
LEMMA PvsDiffer ==
  /\ \A s, t \in DOMAIN PVS : PVS[s] = PVS[t] => s = t
  /\ \A t \in DOMAIN PVS : PVS[t] \subseteq 0 .. 23 /\ PVS[t] # {32}
  /\ AnyAdp = DOMAIN PVS \cup {NoType}
<1>1. DOMAIN PVS = {"lane", "down_pcie", "up_pcie", "dp_in", "dp_out", "down_usb3", "up_usb3"}
  BY DEF PVS
<1>2. /\ PVS["lane"] = {0} /\ PVS["down_pcie"] = {20, 8, 0} /\ PVS["up_pcie"] = {20, 8, 1}
      /\ PVS["dp_in"] = {19, 18, 17, 8, 0} /\ PVS["dp_out"] = {19, 18, 17, 8, 1}
      /\ PVS["down_usb3"] = {21, 8, 0} /\ PVS["up_usb3"] = {21, 8, 1}
  BY DEF PVS
<1> HIDE DEF PVS
<1>3. \A t \in DOMAIN PVS : PVS[t] \subseteq 0 .. 23 /\ PVS[t] # {32}
  BY <1>1, <1>2
<1>4. /\ \A t \in DOMAIN PVS : 20 \in PVS[t] <=> t \in {"down_pcie", "up_pcie"}
      /\ \A t \in DOMAIN PVS : 19 \in PVS[t] <=> t \in {"dp_in", "dp_out"}
      /\ \A t \in DOMAIN PVS : 21 \in PVS[t] <=> t \in {"down_usb3", "up_usb3"}
      /\ \A t \in DOMAIN PVS : 1 \in PVS[t] <=> t \in {"up_pcie", "dp_out", "up_usb3"}
  BY <1>1, <1>2
<1>5. \A s, t \in DOMAIN PVS : PVS[s] = PVS[t] => s = t
  BY <1>1, <1>4
<1>6. AnyAdp = DOMAIN PVS \cup {NoType}
  BY <1>1 DEF AnyAdp, AdpTypes, Usb3, Pcie, Dp
<1> QED
  BY <1>3, <1>5, <1>6

\* The type an answer stands for.
LEMMA TypeOfIs ==
  /\ \A t \in DOMAIN PVS : TypeOf(PVS[t]) = t
  /\ \A ans : (\A t \in DOMAIN PVS : PVS[t] # ans) => TypeOf(ans) = NoType
<1>1. ASSUME NEW t \in DOMAIN PVS PROVE TypeOf(PVS[t]) = t
  <2>1. \A s \in DOMAIN PVS : PVS[s] = PVS[t] => s = t
    BY PvsDiffer, Zenon
  <2>2. \E s \in DOMAIN PVS : PVS[s] = PVS[t]
    BY Zenon
  <2>3. PICK s : s = TypeOf(PVS[t])
    OBVIOUS
  <2>4. s \in DOMAIN PVS /\ PVS[s] = PVS[t]
    BY <2>2, <2>3, Zenon DEF TypeOf
  <2> QED
    BY <2>1, <2>3, <2>4, Zenon
<1>2. \A ans : (\A t \in DOMAIN PVS : PVS[t] # ans) => TypeOf(ans) = NoType
  BY Zenon DEF TypeOf
<1> QED
  BY <1>1, <1>2, Zenon

\* The registers of an adapter of no known type.
LEMMA NoneLooksLikeNone ==
  env \in Envs => \A a \in 1 .. Len(env.types) : env.types[a] = NoType =>
    \A t \in DOMAIN PVS : {b \in 0 .. 23 : HasBit(env.fill, "self", "adp", 2, a, b)} # PVS[t]
BY NoneAssumption, Zenon

\* A type is found if the registers of the adapter are, and then it is its type.
LEMMA PvsTells ==
  ASSUME Quiet, env \in Envs, NEW fn, NEW q \in Items(fn), q.get = "get_adp_pvs"
  PROVE  TypeOf(Answer(q)) = IF q.at \in 1 .. Len(env.types) /\ q.at < total_adps
                             THEN env.types[q.at] ELSE NoType
<1> DEFINE g == Getter[q.get]
           a == q.at
           w == Content("self", "adp", 2, a)
           ans == Answer(q)
<1>1. /\ q.get \in Questions /\ q.get \in AdapterQs /\ q.get \in Checked /\ q.get \in AnyQs
      /\ q.get \notin SleepQs /\ q.get \notin PortQs /\ q.get \notin PortLaneQs
      /\ ComparedWith(q.get) = {32}
  BY DEF Questions, AdapterQs, Checked, AnyQs, SleepQs, PortQs, PortLaneQs, By6, By8, By16, By32,
         Unchecked, Codes, ComparedWith
<1>2. q.of = "self" /\ a \in Adapters
  BY <1>1 DEF Items
<1>3. g.cap = "adp" /\ g.off = 2 /\ g.who = AnyAdp /\ g.mask = 0 .. 23 /\ g.shift = 0
      /\ g.host = FALSE /\ Sentinel(g) = {g.fail}
  BY <1>1, GetterOf DEF Serves, Reads
<1>4. AnyAdp # Router
  BY DEF AnyAdp, Router
<1>5. CASE a \in 1 .. Len(env.types) /\ a < total_adps
  <2>1. Lookup(q).failed = FALSE
    <3>1. HasType(g.who, a)
      BY <1>3 DEF HasType
    <3> QED
      BY <1>1, <1>2, <1>5, <3>1, AdapterAnswers
  <2>2. ans = FieldOf(g, w)
    <3>1. ~SleepLine(q) /\ ~Shifted(q)
      BY <1>1, <1>3, QuietFinds DEF SleepLine, SleepQs, Shifted
    <3>2. ans = Truth(q)
      BY <1>1, <2>1, <3>1, EnvIsOne, AnswerTells
    <3> QED
      BY <1>1, <1>2, <1>3, <1>4, <3>2, PortGetters DEF Truth
  <2> HIDE DEF g, w
  <2>3. ans = w \cap (0 .. 23)
    <3>1. ans = {b - 0 : b \in w \cap (0 .. 23)}
      BY <1>3, <2>2 DEF FieldOf
    <3>2. \A b \in 0 .. 23 : b - 0 = b
      OBVIOUS
    <3> HIDE DEF ans
    <3> QED
      BY <3>1, <3>2
  <2>4. TypeAt(a) = env.types[a] /\ env.types[a] \in AnyAdp
    BY <1>5, EnvIsOne DEF TypeAt, IsEnv
  <2>5. CASE env.types[a] # NoType
    <3>1. w = PVS[env.types[a]] /\ env.types[a] \in DOMAIN PVS
      BY <2>4, <2>5, PvsDiffer DEF Content, w
    <3>2. ans = PVS[env.types[a]]
      BY <2>3, <3>1, PvsDiffer
    <3> QED
      BY <1>5, <3>1, <3>2, TypeOfIs
  <2>6. CASE env.types[a] = NoType
    <3>1. w = {b \in Word : HasBit(env.fill, "self", "adp", 2, a, b)}
      BY <2>4, <2>6 DEF Content, Pattern, w
    <3>2. ans = {b \in 0 .. 23 : HasBit(env.fill, "self", "adp", 2, a, b)}
      BY <2>3, <3>1 DEF Word
    <3>3. \A t \in DOMAIN PVS : PVS[t] # ans
      BY <1>5, <2>6, <3>2, NoneLooksLikeNone, Zenon
    <3> QED
      BY <1>5, <2>6, <3>3, TypeOfIs
  <2> QED
    BY <2>5, <2>6
<1>6. CASE ~(a \in 1 .. Len(env.types) /\ a < total_adps)
  <2>1. Lookup(q) = Unavailable
    BY <1>1, <1>3, <1>4, <1>6 DEF Lookup, is_adp_present, get_adapter_register_val
  <2>2. {g.fail} = {32}
    BY <1>1, QuestionsHaveGetters, GetterAgrees DEF Agrees
  <2>3. ans = {32}
    BY <1>3, <2>1, <2>2 DEF Answer, Unavailable
  <2> HIDE DEF ans
  <2>4. TypeOf(ans) = NoType
    BY <2>3, PvsDiffer, TypeOfIs, Zenon
  <2> QED
    BY <1>6, <2>4, Zenon DEF ans
<1> QED
  BY <1>5, <1>6

-----------------------------------------------------------------------------
(* The calls of such a dump *)

\* Every function on the stack has a list that fits, and called the one above.
Fitting(st) ==
  \A k \in 1 .. Len(st) :
    /\ st[k].todo \in Seq(Fits(st[k].fn))
    /\ k > 1 => Calls(st[k].fn, st[k - 1].fn)

\* The top of such a stack and the rest of it.
LEMMA FittingTop ==
  ASSUME NEW S, NEW st \in Seq(S), st # <<>>, Fitting(st)
  PROVE  /\ Head(st).todo \in Seq(Fits(Head(st).fn)) /\ Fitting(Tail(st))
         /\ Tail(st) # <<>> => Calls(Head(Tail(st)).fn, Head(st).fn)
<1> DEFINE t == Tail(st)
           n == Len(st)
<1>1. /\ n \in Nat /\ n > 0 /\ Len(t) = n - 1 /\ Head(st) = st[1] /\ 1 \in 1 .. n
      /\ \A k \in 1 .. n - 1 : t[k] = st[k + 1]
      /\ t # <<>> => n > 1 /\ Head(t) = st[2]
  OBVIOUS
<1>2. \A k \in 1 .. n - 1 : k + 1 \in 1 .. n /\ k + 1 > 1 /\ k + 1 - 1 = k
      /\ (k > 1 => k - 1 \in 1 .. n - 1 /\ k - 1 + 1 = k)
  BY <1>1
<1>3. n > 1 => 2 \in 1 .. n /\ 2 > 1 /\ 2 - 1 = 1
  BY <1>1
<1> HIDE DEF t
<1>4. Head(st).todo \in Seq(Fits(Head(st).fn))
  BY <1>1, Zenon DEF Fitting
<1>5. t # <<>> => Calls(Head(t).fn, Head(st).fn)
  BY <1>1, <1>3, Zenon DEF Fitting
<1>6. ASSUME NEW k \in 1 .. n - 1
      PROVE  t[k].todo \in Seq(Fits(t[k].fn)) /\ (k > 1 => Calls(t[k].fn, t[k - 1].fn))
  <2>1. PICK j : j = k + 1
    OBVIOUS
  <2>2. /\ j \in 1 .. n /\ j > 1 /\ t[k] = st[j]
        /\ k > 1 => t[k - 1] = st[j - 1]
    <3>1. j \in 1 .. n /\ j > 1 /\ t[k] = st[j]
      BY <1>1, <1>2, <2>1, Zenon
    <3>2. ASSUME k > 1 PROVE t[k - 1] = st[j - 1]
      <4>1. t[k - 1] = st[k - 1 + 1] /\ k - 1 + 1 = j - 1
        BY <1>1, <1>2, <2>1, <3>2
      <4> QED
        BY <4>1
    <3> QED
      BY <3>1, <3>2
  <2>3. st[j].todo \in Seq(Fits(st[j].fn)) /\ Calls(st[j].fn, st[j - 1].fn)
    BY <2>2, Zenon DEF Fitting
  <2> QED
    BY <2>2, <2>3, Zenon
<1>7. Fitting(t)
  BY <1>1, <1>6, Zenon DEF Fitting
<1> QED
  BY <1>4, <1>5, <1>7 DEF t

\* A function put on top.
LEMMA FittingPush ==
  ASSUME NEW S, NEW f \in S, NEW t \in Seq(S), Fitting(t), f.todo \in Seq(Fits(f.fn)),
         t # <<>> => Calls(Head(t).fn, f.fn)
  PROVE  Fitting(<<f>> \o t)
<1> DEFINE st == <<f>> \o t
           n == Len(t)
<1>1. /\ n \in Nat /\ Len(st) = n + 1 /\ st[1] = f
      /\ \A k \in 2 .. n + 1 : st[k] = t[k - 1]
      /\ n > 0 => t # <<>> /\ Head(t) = t[1]
  OBVIOUS
<1>2. \A k \in 2 .. n + 1 : /\ k - 1 \in 1 .. n /\ n > 0
                            /\ k # 2 => k - 1 > 1 /\ k - 1 \in 2 .. n + 1
                            /\ k = 2 => k - 1 = 1
  BY <1>1
<1> HIDE DEF st, n
<1>3. ASSUME NEW k \in 2 .. n + 1
      PROVE  st[k].todo \in Seq(Fits(st[k].fn)) /\ Calls(st[k].fn, st[k - 1].fn)
  <2>1. st[k] = t[k - 1] /\ k - 1 \in 1 .. n
    BY <1>1, <1>2
  <2>2. st[k].todo \in Seq(Fits(st[k].fn))
    BY <2>1, Zenon DEF Fitting, n
  <2>3. CASE k = 2
    <3>1. k - 1 = 1 /\ t # <<>> /\ t[k - 1] = Head(t)
      BY <1>1, <1>2, <2>3, Zenon
    <3> QED
      BY <1>1, <2>1, <2>2, <3>1, Zenon
  <2>4. CASE k # 2
    <3>1. k - 1 > 1 /\ k - 1 \in 2 .. n + 1
      BY <1>2, <2>4, Zenon
    <3>2. st[k - 1] = t[k - 1 - 1]
      BY <1>1, <3>1, Zenon
    <3>3. Calls(t[k - 1].fn, t[k - 1 - 1].fn)
      BY <2>1, <3>1, Zenon DEF Fitting, n
    <3> QED
      BY <2>1, <2>2, <3>2, <3>3, Zenon
  <2> QED
    BY <2>3, <2>4, Zenon
<1>4. \A k \in 1 .. n + 1 : k = 1 \/ k \in 2 .. n + 1
  BY <1>1
<1>5. ~(1 > 1)
  OBVIOUS
<1>6. Fitting(st)
  BY <1>1, <1>3, <1>4, <1>5, Zenon DEF Fitting
<1> QED
  BY <1>6 DEF st

\* Types that are found stay.
Growing == env' = env /\ \A a \in Adapters : types[a] # NoType => types'[a] = types[a]

\* What fits, goes on to fit as types are found.
LEMMA FitsGrow ==
  ASSUME Growing
  PROVE  /\ \A fn : Fits(fn) \subseteq Fits(fn)'
         /\ \A st : Fitting(st) => Fitting(st)'
         /\ \A fn, a : a \in Adapters /\ OfClass(fn, types[a]) => OfClass(fn, types'[a])
<1>1. \A a : Found(a) # NoType => Found(a)' = Found(a)
  BY DEF Growing, Found
<1>2. NoType \notin {"lane", "dp_in"} \cup Usb3 \cup Pcie \cup Dp
  BY DEF NoType, Usb3, Pcie, Dp
<1>3. ASSUME NEW fn, NEW q, Fit(fn, q) PROVE Fit(fn, q)'
  <2>1. env' = env
    BY DEF Growing
  <2>2. /\ Found(q.at) # NoType => Found(q.at)' # NoType
        /\ Found(q.at) = "lane" => Found(q.at)' = "lane"
        /\ Found(q.at) = "dp_in" => Found(q.at)' = "dp_in"
        /\ Found(q.at) \in Usb3 => Found(q.at)' \in Usb3
        /\ Found(q.at) \in Pcie => Found(q.at)' \in Pcie
        /\ Found(q.at) \in Dp => Found(q.at)' \in Dp
    BY <1>1, <1>2
  <2> QED
    BY <1>3, <2>1, <2>2, Zenon DEF Fit
<1>4. \A fn : Fits(fn) \subseteq Fits(fn)'
  BY <1>3, Zenon DEF Fits
<1>5. ASSUME NEW st, Fitting(st) PROVE Fitting(st)'
  <2>1. \A fn, s : s \in Seq(Fits(fn)) => s \in Seq(Fits(fn)')
    BY <1>4, SeqGrows, Zenon
  <2> QED
    BY <1>5, <2>1, Zenon DEF Fitting
<1>6. \A fn, a : a \in Adapters /\ OfClass(fn, types[a]) => OfClass(fn, types'[a])
  <2>1. \A a \in Adapters : types[a] \in Usb3 \cup Pcie \cup Dp => types'[a] = types[a]
    BY <1>2 DEF Growing
  <2> QED
    BY <2>1 DEF OfClass
<1> QED
  BY <1>4, <1>5, <1>6

-----------------------------------------------------------------------------
(* The invariant of such a dump *)

StackFitting == \A st : st = stack => Fitting(st)
ActiveFitting == stack # <<>> => ActiveFits(frame.fn)
LastAnswered == \A l : l = last => (l.q.get \in Questions /\ l.failed => Excused(l.q))

QuietInv ==
  Quiet => fate # "crash" /\ TypesFound /\ StackFitting /\ ActiveFitting /\ LastAnswered

\* What is quiet was quiet.
LEMMA QuietBefore == [Next]_vars /\ Quiet' => Quiet /\ env' = env
<1> SUFFICES ASSUME [Next]_vars, Quiet' PROVE Quiet /\ env' = env
  OBVIOUS
<1>1. ASSUME NEW x, Lose(x) PROVE FALSE
  BY <1>1 DEF Lose, Quiet
<1>2. env' = env /\ lost' = lost
  BY <1>1, Zenon DEF Next, Program, Bus, Call, get_upstream_router, Ask, AskBeyond, Return, vars
<1> QED
  BY <1>2 DEF Quiet

\* The dump begins with what fits.
LEMMA QuietInit == Init => QuietInv
<1> SUFFICES ASSUME Init PROVE QuietInv
  OBVIOUS
<1> DEFINE f == Frame("dump_router_verbose", dump_router_verbose)
<1>1. stack = <<f>> /\ fate = "running" /\ active = {} /\ last.q.get = "nothing"
  BY DEF Init, R, Q
<1>2. f.todo \in Seq(Fits(f.fn))
  BY DumpListFits DEF Frame
<1>3. TypesFound
  BY DEF Init, TypesFound
<1> HIDE DEF f
<1>4. StackFitting
  <2>1. Len(stack) = 1 /\ stack[1] = f
    BY <1>1
  <2>2. \A k \in 1 .. 1 : k = 1 /\ ~(k > 1)
    OBVIOUS
  <2> QED
    BY <1>2, <2>1, <2>2, Zenon DEF StackFitting, Fitting
<1>5. ActiveFitting
  BY <1>1 DEF ActiveFitting, ActiveFits
<1>6. "nothing" \notin Questions
  BY DEF Questions, By6, By8, By16, By32, Unchecked, Codes
<1>7. LastAnswered
  BY <1>1, <1>6, Zenon DEF LastAnswered
<1> QED
  BY <1>1, <1>3, <1>4, <1>5, <1>7 DEF QuietInv

\* The next question fits, and so do those after it, and the callers.
LEMMA NextFitting ==
  ASSUME StackFits, StackFitting, stack # <<>>
  PROVE  /\ frame.todo \in Seq(Fits(frame.fn)) /\ Fitting(Tail(stack))
         /\ Tail(stack) # <<>> => Calls(Head(Tail(stack)).fn, frame.fn)
         /\ frame.todo # <<>> => next \in Fits(frame.fn) /\ Tail(frame.todo) \in Seq(Fits(frame.fn))
<1>1. stack \in Seq(Frames(last.q))
  BY Zenon DEF StackFits, Stacked
<1>2. /\ frame.todo \in Seq(Fits(frame.fn)) /\ Fitting(Tail(stack))
      /\ Tail(stack) # <<>> => Calls(Head(Tail(stack)).fn, frame.fn)
  BY <1>1, FittingTop, Zenon DEF StackFitting, frame
<1>3. \A T : \A s \in Seq(T) : s # <<>> => Head(s) \in T /\ Tail(s) \in Seq(T)
  OBVIOUS
<1>4. frame.todo # <<>> => next \in Fits(frame.fn) /\ Tail(frame.todo) \in Seq(Fits(frame.fn))
  BY <1>2, <1>3, Zenon DEF next
<1> QED
  BY <1>2, <1>4

\* A frame on top whose list changes.
LEMMA FittingTodo ==
  ASSUME StackFits, StackFitting, stack # <<>>, NEW f, f \in Frames(Nobody) \cup Frames(next),
         f.fn = frame.fn, f.todo \in Seq(Fits(f.fn))
  PROVE  Fitting(<<f>> \o Tail(stack))
<1>1. Tail(stack) \in Seq(Frames(Nobody))
  BY StackTop, Zenon DEF StackFits
<1>2. Tail(stack) \in Seq(Frames(Nobody) \cup Frames(next))
  <2>1. Frames(Nobody) \subseteq Frames(Nobody) \cup Frames(next)
    BY Zenon
  <2> QED
    BY <1>1, <2>1, SeqGrows, Zenon
<1>3. Fitting(Tail(stack)) /\ (Tail(stack) # <<>> => Calls(Head(Tail(stack)).fn, f.fn))
  BY NextFitting, Zenon
<1> QED
  BY <1>2, <1>3, FittingPush, Zenon

\* The invariant after a step that finds no type and asks nothing.
LEMMA QuietMoved ==
  ASSUME QuietInv, Quiet, env' = env, UNCHANGED <<types, last>>, fate' # "crash",
         StackFitting', ActiveFitting'
  PROVE  QuietInv'
<1>1. types' = types /\ last' = last
  OBVIOUS
<1>2. TypesFound'
  BY <1>1, EnvSame DEF QuietInv, TypesFound
<1>3. LastAnswered'
  BY <1>1, Zenon DEF QuietInv, LastAnswered, Excused, SleepLine
<1> QED
  BY <1>2, <1>3, Zenon DEF QuietInv

\* A stack that fits, after a step that finds no type.
LEMMA StackStays ==
  ASSUME env' = env, types' = types
  PROVE  /\ \A st : st = stack' /\ Fitting(st) => StackFitting'
         /\ \A fn : ActiveFits(fn) /\ active' \subseteq active => ActiveFits(fn)'
<1>1. Growing
  BY DEF Growing
<1>2. \A st : Fitting(st) => Fitting(st)'
  BY <1>1, FitsGrow, Zenon
<1> QED
  BY <1>2, Zenon DEF StackFitting, ActiveFits, OfClass

\* Functions called are about the class of their callers, or about none.
LEMMA CalledOfClass ==
  ASSUME NEW f, NEW g, Calls(f, g), NEW t
  PROVE  /\ OfClass(g, t) => OfClass(f, t)
         /\ g \in AttributeFns => (OfClass(f, t) => OfClass(g, t))
<1>1. CASE f = "dump_router_verbose"
  BY <1>1 DEF Calls, OfClass, AboutUsb3, AboutPcie, AboutDp, Usb3Fns, PcieFns, DpFns,
     AttributeFns, Functions
<1>2. CASE f \in {"dump_wakes", "dump_wake_status"}
  BY <1>2 DEF Calls, OfClass, AboutUsb3, AboutPcie, AboutDp, Usb3Fns, PcieFns, DpFns, AttributeFns
<1>3. CASE f \in Usb3Fns \cup PcieFns \cup DpFns
  BY <1>3 DEF Calls, OfClass, AboutUsb3, AboutPcie, AboutDp, Usb3Fns, PcieFns, DpFns, AttributeFns
<1> QED
  BY <1>1, <1>2, <1>3 DEF Calls

\* Frames are records.
LEMMA FrameIs ==
  ASSUME NEW p, NEW f \in Frames(p), NEW s, NEW m, NEW b
  PROVE  /\ [f EXCEPT !.todo = s].fn = f.fn /\ [f EXCEPT !.todo = s].todo = s
         /\ [f EXCEPT !.todo = s, !.max = m, !.failed = b].fn = f.fn
         /\ [f EXCEPT !.todo = s, !.max = m, !.failed = b].todo = s
<1> DEFINE Todos == Seq(AnyItem)
           Fns == Functions \cup {"dump_router_verbose"}
           AnyFrame == [fn : Fns, todo : Todos, max : 0 .. 64, failed : BOOLEAN]
<1>1. f \in AnyFrame
  BY Zenon DEF Frames, AnyItem
<1> HIDE DEF Todos, Fns
<1> QED
  BY <1>1

\* The caller, when it waits.
LEMMA CalleeFits ==
  ASSUME StackFits, StackFitting, stack # <<>>, frame.todo # <<>>, next.get \notin Leaders
  PROVE  /\ Fitting(Callee) /\ Callee # <<>> /\ Head(Callee).fn = frame.fn
<1> DEFINE s == Tail(frame.todo)
           f == [frame EXCEPT !.todo = s]
           t == Tail(stack)
<1>1. /\ frame \in Frames(last.q) /\ s \in Rests(frame.fn, next)
      /\ t \in Seq(Frames(Nobody)) /\ frame.max \in 0 .. 64
  BY NextItem, Zenon
<1>2. s \in Rests(frame.fn, Nobody)
  BY <1>1, Alone, Zenon DEF Lists
<1>3. f \in Frames(Nobody)
  <2>1. \A m \in 0 .. 64, b \in BOOLEAN : [frame EXCEPT !.todo = s] \in Frames(Nobody)
    BY <1>1, <1>2, FrameLeft, Zenon
  <2>2. TRUE \in BOOLEAN
    OBVIOUS
  <2> QED
    BY <1>1, <2>1, <2>2, Zenon
<1>4. f.fn = frame.fn /\ f.todo = s
  BY <1>1, FrameIs, Zenon
<1>5. s \in Seq(Fits(frame.fn))
  BY NextFitting, Zenon
<1> HIDE DEF f, s, t
<1>6. Fitting(<<f>> \o t)
  BY <1>3, <1>4, <1>5, FittingTodo, Zenon DEF t
<1>7. <<f>> \o t # <<>> /\ Head(<<f>> \o t) = f
  BY <1>1, <1>3, StackPush, Zenon
<1>8. Callee = <<f>> \o t
  BY Zenon DEF Callee, f, s, t
<1> QED
  BY <1>4, <1>6, <1>7, <1>8, Zenon

\* A function is called for which the adapters found enabled are right.
LEMMA QuietCall ==
  ASSUME DumpInv, QuietInv, Quiet, Call
  PROVE  QuietInv'
<1> DEFINE fn == next.get
           f == Frame(fn, Body(fn))
<1>1. /\ stack # <<>> /\ frame.todo # <<>> /\ fn \notin Questions /\ fn # "get_upstream_router"
      /\ StackFits /\ StackFitting /\ ActiveFitting /\ fate # "crash"
  BY Zenon DEF Call, Running, DumpInv, QuietInv
<1>2. fn \in Functions /\ Calls(frame.fn, fn)
  <2>1. next \in Items(frame.fn) /\ next \in Fits(frame.fn)
    BY <1>1, NextItem, NextFitting, Zenon
  <2>2. fn \in Asks \cup Functions \cup {"get_upstream_router"}
    BY <2>1 DEF Items
  <2>3. fn \in Functions
    BY <1>1, <2>2, AsksAreQuestions
  <2> QED
    BY <2>1, <2>3, Zenon DEF Fits, Fit
<1>3. fn \notin Leaders
  BY <1>1, AsksAreQuestions
<1>4. /\ Callee \in Seq(Frames(Nobody)) /\ Fitting(Callee) /\ Callee # <<>>
      /\ Head(Callee).fn = frame.fn
  BY <1>1, <1>3, CallerWaits, CalleeFits, Zenon
<1>5. fn \in AttributeFns => ActiveFits(fn)
  BY <1>1, <1>2, CalledOfClass, Zenon DEF ActiveFitting, ActiveFits
<1>6. active \in SUBSET Adapters
  BY DEF DumpInv, Typed
<1>7. Body(fn) \in Seq(Fits(fn)) /\ Body(fn) \in Lists(fn)
  BY <1>2, <1>5, <1>6, BodyFits, BodyLeft, Zenon
<1>8. f \in Frames(Nobody) /\ f.todo = Body(fn) /\ f.fn = fn
  <2>1. f \in Frames(Nobody) /\ f.todo = Body(fn)
    BY <1>2, <1>7, FrameNew, Zenon
  <2> QED
    BY <2>1 DEF Frame
<1>9. /\ env' = env /\ types' = types /\ last' = last /\ fate' = fate
      /\ stack' = <<f>> \o Callee
      /\ active' = IF fn \in AttributeFns THEN active ELSE {}
  BY Zenon DEF Call, AttributeFns
<1> HIDE DEF f, fn
<1>10. Fitting(<<f>> \o Callee)
  BY <1>2, <1>4, <1>7, <1>8, FittingPush, Zenon
<1>11. StackFitting'
  BY <1>9, <1>10, StackStays, Zenon
<1>12. frame' = f
  <2>1. Head(<<f>> \o Callee) = f
    BY <1>4, <1>8, StackPush, Zenon
  <2> QED
    BY <1>9, <2>1, Zenon DEF frame
<1>13. ASSUME NEW g, g = fn PROVE ActiveFits(g)'
  <2>1. CASE fn \in AttributeFns
    <3>1. ActiveFits(g) /\ active' \subseteq active
      BY <1>5, <1>9, <1>13, <2>1, Zenon
    <3> QED
      BY <1>9, <3>1, StackStays, Zenon
  <2>2. CASE fn \notin AttributeFns
    <3>1. active' = {}
      BY <1>9, <2>2, Zenon
    <3> QED
      BY <3>1, Zenon DEF ActiveFits
  <2> QED
    BY <2>1, <2>2
<1>14. ActiveFitting'
  BY <1>8, <1>12, <1>13, Zenon DEF ActiveFitting
<1> QED
  BY <1>1, <1>9, <1>11, <1>14, QuietMoved, Zenon

\* The link to the router above is there.
LEMMA QuietUpstream ==
  ASSUME DumpInv, QuietInv, Quiet, get_upstream_router
  PROVE  QuietInv'
<1>1. /\ stack # <<>> /\ frame.todo # <<>> /\ next.get = "get_upstream_router"
      /\ StackFits /\ StackFitting /\ ActiveFitting /\ fate # "crash"
  BY Zenon DEF get_upstream_router, Running, DumpInv, QuietInv
<1>2. Fitting(Callee) /\ Callee # <<>> /\ Head(Callee).fn = frame.fn
  BY <1>1, AsksAreQuestions, CalleeFits, Zenon
<1>3. /\ env' = env /\ types' = types /\ last' = last /\ active' = active /\ stack' = Callee
      /\ fate' = IF "link" \in lost THEN "crash" ELSE fate
  BY Zenon DEF get_upstream_router
<1>4. fate' # "crash"
  BY <1>1, <1>3 DEF Quiet
<1>5. StackFitting'
  BY <1>2, <1>3, StackStays, Zenon
<1>6. ActiveFitting'
  <2>1. \A g : g = frame.fn => ActiveFits(g)'
    BY <1>1, <1>3, StackStays, Zenon DEF ActiveFitting
  <2>2. frame'.fn = frame.fn
    BY <1>2, <1>3, Zenon DEF frame
  <2> QED
    BY <2>1, <2>2, Zenon DEF ActiveFitting
<1> QED
  BY <1>3, <1>4, <1>5, <1>6, QuietMoved, Zenon

\* A function returns to one that may have been about the same adapters.
LEMMA QuietReturn ==
  ASSUME DumpInv, QuietInv, Quiet, Return
  PROVE  QuietInv'
<1>1. /\ stack # <<>> /\ StackFits /\ StackFitting /\ ActiveFitting /\ fate # "crash"
  BY Zenon DEF Return, Running, DumpInv, QuietInv
<1>2. /\ env' = env /\ types' = types /\ last' = last /\ active' = active
      /\ stack' = Tail(stack) /\ fate' = IF Len(stack) = 1 THEN "done" ELSE fate
  BY Zenon DEF Return
<1>3. /\ Fitting(Tail(stack))
      /\ Tail(stack) # <<>> => Calls(Head(Tail(stack)).fn, frame.fn)
  BY <1>1, NextFitting, Zenon
<1>4. fate' # "crash"
  BY <1>1, <1>2
<1>5. StackFitting'
  BY <1>2, <1>3, StackStays, Zenon
<1>6. ActiveFitting'
  <2>1. ASSUME stack' # <<>>, NEW g, g = frame'.fn PROVE ActiveFits(g)'
    <3>1. g = Head(Tail(stack)).fn
      BY <1>2, <2>1, Zenon DEF frame
    <3>2. Calls(g, frame.fn)
      BY <1>2, <1>3, <2>1, <3>1, Zenon
    <3>3. ActiveFits(g)
      BY <1>1, <3>2, CalledOfClass, Zenon DEF ActiveFitting, ActiveFits
    <3> QED
      BY <1>2, <3>3, StackStays, Zenon
  <2> QED
    BY <2>1, Zenon DEF ActiveFitting
<1> QED
  BY <1>2, <1>4, <1>5, <1>6, QuietMoved, Zenon

\* Nothing changes but how the dump ends.
LEMMA QuietStay ==
  ASSUME QuietInv, Quiet, UNCHANGED <<env, types, last, stack, active, fate>>
  PROVE  QuietInv'
<1>1. /\ env' = env /\ types' = types /\ last' = last /\ stack' = stack /\ active' = active
      /\ fate' = fate
  OBVIOUS
<1>2. StackFitting /\ ActiveFitting /\ fate # "crash"
  BY Zenon DEF QuietInv
<1>3. StackFitting'
  BY <1>1, <1>2, StackStays, Zenon DEF StackFitting
<1>4. ActiveFitting'
  <2>1. \A g : g = frame.fn /\ stack # <<>> => ActiveFits(g)'
    BY <1>1, <1>2, StackStays, Zenon DEF ActiveFitting
  <2> QED
    BY <1>1, <2>1, Zenon DEF ActiveFitting, frame
<1> QED
  BY <1>1, <1>2, <1>3, <1>4, QuietMoved, Zenon

\* No question is about registers beyond a capability.
LEMMA QuietBeyond ==
  ASSUME DumpInv, QuietInv, Quiet, AskBeyond
  PROVE  FALSE
<1>1. /\ stack # <<>> /\ frame.todo # <<>> /\ next.get \in Questions /\ OutOfRange(next)
      /\ StackFits /\ StackFitting /\ env \in Envs /\ TypesFound
  BY Zenon DEF AskBeyond, Running, DumpInv, QuietInv
<1>2. next \in Items(frame.fn) /\ next \in Fits(frame.fn)
  BY <1>1, NextItem, NextFitting, Zenon
<1> QED
  BY <1>1, <1>2, MayAsk, Zenon

\* An answer finds the types that are there.
LEMMA QuietTypes ==
  ASSUME DumpInv, QuietInv, Quiet, Ask
  PROVE  TypesFound' /\ Growing
<1> DEFINE q == next
           ans == Answer(q)
<1>1. /\ stack # <<>> /\ frame.todo # <<>> /\ q.get \in Questions
      /\ StackFits /\ StackFitting /\ env \in Envs /\ TypesFound /\ Typed
  BY Zenon DEF Ask, Running, DumpInv, QuietInv
<1>2. q \in Items(frame.fn)
  BY <1>1, NextItem, Zenon
<1>3. Answered(q, ans) /\ env' = env
  BY <1>1, AskDoes, Zenon
<1>4. types' = IF q.get = "get_adp_pvs" THEN Store(types, q.at, TypeOf(ans)) ELSE types
  BY <1>3, Zenon DEF Answered
<1>5. total_adps' = total_adps
  BY <1>3, EnvSame
<1>6. CASE q.get # "get_adp_pvs"
  BY <1>1, <1>3, <1>4, <1>5, <1>6 DEF TypesFound, Growing
<1>7. CASE q.get = "get_adp_pvs"
  <2>1. TypeOf(ans) = IF q.at \in 1 .. Len(env.types) /\ q.at < total_adps
                      THEN env.types[q.at] ELSE NoType
    BY <1>1, <1>2, <1>7, PvsTells
  <2>2. q.at \in 0 .. MaxAdapters - 1 /\ Adapters \subseteq 0 .. MaxAdapters - 1
    <3>1. q.at \in Adapters
      BY <1>2, <1>7 DEF Items, AdapterQs
    <3> QED
      BY <3>1, AdaptersFit DEF Adapters
  <2> DEFINE D == 0 .. MaxAdapters - 1
             i == q.at
             v == TypeOf(ans)
  <2>3. types \in [D -> AnyAdp]
    BY <1>1 DEF Typed
  <2> HIDE DEF D, i, v, q, ans
  <2>4. \A a \in D : types'[a] = IF a = i THEN v ELSE types[a]
    <3>1. types' = Store(types, i, v)
      BY <1>4, <1>7, Zenon DEF i, v
    <3>2. DOMAIN types = D /\ i \in D
      BY <2>2, <2>3 DEF D, i
    <3> QED
      BY <3>1, <3>2, Zenon DEF Store
  <2>5. TypesFound'
    BY <1>1, <1>3, <1>5, <2>1, <2>4 DEF TypesFound, D, i, v
  <2>6. Growing
    BY <1>1, <1>3, <2>1, <2>2, <2>4 DEF TypesFound, Growing, D, i, v
  <2> QED
    BY <2>5, <2>6
<1> QED
  BY <1>6, <1>7

\* The list that an answer leaves fits.
LEMMA RestFits ==
  ASSUME DumpInv, QuietInv, Quiet, stack # <<>>, frame.todo # <<>>, next.get \in Questions
  PROVE  Rest(frame, next, Answer(next)) \in Seq(Fits(frame.fn))
<1> DEFINE q == next
           ans == Answer(q)
           t == Tail(frame.todo)
           aft == After(frame, q, ans)
<1>1. StackFits /\ StackFitting /\ env \in Envs /\ IsEnv(env)
  BY EnvIsOne, Zenon DEF DumpInv, QuietInv
<1>2. q \in Items(frame.fn) /\ q \in Fits(frame.fn) /\ t \in Seq(Fits(frame.fn))
  BY <1>1, NextItem, NextFitting, Zenon
<1>3. Tells(q, ans)
  <2>1. q.get = "get_usb4v" => (is_usb4(q, ans) <=> env.usb4 = TRUE)
    BY <1>1, <1>2, VersionTells, Zenon
  <2>2. env.usb4 \in BOOLEAN
    BY <1>1 DEF IsEnv
  <2> QED
    BY <2>1, <2>2 DEF Tells
<1>4. aft \in Seq(Fits(frame.fn))
  <2>1. TopSeen
    BY Zenon DEF DumpInv, TopFits
  <2>2. Lead("self", "basic") = 0
    BY 0 \in Nat, QuietFinds, Zenon
  <2> QED
    BY <1>1, <1>2, <1>3, <2>1, <2>2, AfterFits, Zenon
<1> HIDE DEF q, ans, t, aft
<1>5. aft \o t \in Seq(Fits(frame.fn)) /\ <<>> \in Seq(Fits(frame.fn))
  BY <1>2, <1>4, SeqParts, Zenon
<1>6. Rest(frame, q, ans) = IF GivesUp(frame.fn, q, ans) THEN <<>> ELSE aft \o t
  BY Zenon DEF Rest, q, ans, t, aft
<1>7. Rest(frame, q, ans) \in Seq(Fits(frame.fn))
  BY <1>5, <1>6, Zenon
<1> QED
  BY <1>7, Zenon DEF q, ans

\* An adapter asked whether it is enabled is of the class the function is about.
LEMMA EnablesFit ==
  ASSUME NEW fn, NEW q \in Items(fn), q \in Fits(fn), q.get \in Enables
  PROVE  q.at \in Adapters /\ OfClass(fn, types[q.at])
<1>1. Fit(fn, q)
  BY Zenon DEF Fits
<1>2. q.get \in AdapterQs /\ q.get \in Usb3Qs \cup PcieQs \cup DpQs
  BY DEF Enables, AdapterQs, Usb3Qs, HostQs, PcieQs, DpQs
<1>3. q.at \in Adapters
  BY <1>2, Zenon DEF Items
<1>4. Found(q.at) = types[q.at]
  BY <1>3, Zenon DEF Found
<1>5. /\ AboutUsb3(fn) => ~AboutPcie(fn) /\ ~AboutDp(fn)
      /\ AboutPcie(fn) => ~AboutUsb3(fn) /\ ~AboutDp(fn)
      /\ AboutDp(fn) => ~AboutUsb3(fn) /\ ~AboutPcie(fn)
  BY DEF AboutUsb3, AboutPcie, AboutDp, Usb3Fns, PcieFns, DpFns
<1>6. \/ AboutUsb3(fn) /\ types[q.at] \in Usb3
      \/ AboutPcie(fn) /\ types[q.at] \in Pcie
      \/ AboutDp(fn) /\ types[q.at] \in Dp
  BY <1>1, <1>2, <1>4, Zenon DEF Fit
<1> QED
  BY <1>3, <1>5, <1>6, Zenon DEF OfClass

\* A question is asked, and answered.
LEMMA QuietAsk ==
  ASSUME DumpInv, QuietInv, Quiet, Ask
  PROVE  QuietInv'
<1> DEFINE q == next
           ans == Answer(q)
           s == Rest(frame, q, ans)
           m == IF q.get = "get_max_adp" THEN Number[ans] ELSE frame.max
           b == frame.failed \/ Recognised(q, ans)
           f == [frame EXCEPT !.todo = s, !.max = m, !.failed = b]
           t == Tail(stack)
<1>1. /\ q.get \in Questions /\ stack # <<>> /\ frame.todo # <<>> /\ StackFits /\ Typed
      /\ IsEnv(env) /\ env \in Envs
      /\ StackFitting /\ ActiveFitting /\ TypesFound /\ fate # "crash"
  BY EnvIsOne, Zenon DEF Ask, Running, DumpInv, QuietInv
<1>2. /\ frame \in Frames(last.q) /\ frame.todo \in Rests(frame.fn, last.q)
      /\ frame.failed \in BOOLEAN /\ frame.max \in 0 .. 64
      /\ t \in Seq(Frames(Nobody)) /\ q \in Items(frame.fn) /\ q \in Fits(frame.fn)
  BY <1>1, NextItem, NextFitting, Zenon
<1>3. s \in Rests(frame.fn, q) /\ s \in Seq(Fits(frame.fn))
  BY <1>1, <1>2, RestLeft, RestFits, Zenon DEF next
<1>4. m \in 0 .. 64 /\ b \in BOOLEAN
  BY <1>1, <1>2, MaxFits
<1>5. /\ last' = [q |-> q, ans |-> ans, failed |-> Lookup(q).failed, calm |-> calm]
      /\ stack' = <<f>> \o t /\ env' = env /\ fate' = fate /\ Answered(q, ans)
  BY <1>1, AskDoes, Zenon
<1>6. active' = active \/ (q.get \in Enables /\ active' = active \cup {q.at})
  BY <1>5 DEF Answered
<1>7. f \in Frames(q)
  <2> HIDE DEF s, m, b, q, ans
  <2> QED
    BY <1>2, <1>3, <1>4, FrameLeft, Zenon DEF f
<1>8. f.todo = s /\ f.fn = frame.fn
  <2> HIDE DEF s, m, b, q, ans
  <2> DEFINE Fns == Functions \cup {"dump_router_verbose"}
             AnyFrame == [fn : Fns, todo : Seq(AnyItem), max : 0 .. 64, failed : BOOLEAN]
  <2>1. frame \in AnyFrame
    BY <1>2, Zenon DEF Frames, AnyItem
  <2> HIDE DEF Fns
  <2> QED
    BY <2>1 DEF f
<1>9. TypesFound' /\ Growing
  BY QuietTypes, Zenon
<1>10. LastAnswered'
  <2>1. Lookup(q).failed => Excused(q)
    BY <1>1, <1>2, MayAsk, Zenon
  <2>2. last'.q = q /\ last'.failed = Lookup(q).failed
    <3> HIDE DEF q, ans
    <3> QED
      BY <1>5
  <2>3. \A r : Excused(r)' = Excused(r)
    BY <1>5, Zenon DEF Excused, SleepLine
  <2> HIDE DEF q
  <2>4. ASSUME NEW l, l = last', l.failed PROVE Excused(l.q)'
    BY <2>1, <2>2, <2>3, <2>4, Zenon
  <2> QED
    BY <2>4, Zenon DEF LastAnswered
<1> HIDE DEF f, t, s, m, b, ans
<1>11. StackFitting'
  <2>1. Fitting(<<f>> \o t)
    <3>1. f \in Frames(Nobody) \cup Frames(next) /\ f.todo \in Seq(Fits(f.fn))
      BY <1>3, <1>7, <1>8, Zenon
    <3> QED
      BY <1>1, <1>8, <3>1, FittingTodo, Zenon DEF t
  <2>2. \A st : Fitting(st) => Fitting(st)'
    BY <1>9, FitsGrow, Zenon
  <2> QED
    BY <1>5, <2>1, <2>2, Zenon DEF StackFitting
<1>12. frame'.fn = frame.fn
  <2>1. Head(<<f>> \o t) = f
    BY <1>2, <1>7, StackPush, Zenon
  <2> QED
    BY <1>5, <1>8, <2>1, Zenon DEF frame
<1>13. ActiveFitting'
  <2>1. active \subseteq Adapters
    BY <1>1 DEF Typed
  <2>2. \A a \in active : OfClass(frame.fn, types[a])
    BY <1>1, Zenon DEF ActiveFitting, ActiveFits
  <2>3. q.get \in Enables => q.at \in Adapters /\ OfClass(frame.fn, types[q.at])
    BY <1>2, EnablesFit, Zenon
  <2> HIDE DEF q
  <2>4. \A a \in active' : a \in Adapters /\ OfClass(frame.fn, types[a])
    BY <1>6, <2>1, <2>2, <2>3, Zenon
  <2>5. \A a \in active' : OfClass(frame.fn, types'[a])
    BY <1>9, <2>4, FitsGrow, Zenon
  <2>6. \A g : g = frame.fn => ActiveFits(g)'
    BY <2>5, Zenon DEF ActiveFits, OfClass
  <2> QED
    BY <1>12, <2>6, Zenon DEF ActiveFitting
<1> QED
  BY <1>1, <1>5, <1>9, <1>10, <1>11, <1>13, Zenon DEF QuietInv

\* Every step keeps what fits.
LEMMA QuietStep == DumpInv /\ QuietInv /\ [Next]_vars => QuietInv'
<1> SUFFICES ASSUME DumpInv, QuietInv, [Next]_vars, Quiet' PROVE QuietInv'
  BY Zenon DEF QuietInv
<1>1. Quiet
  BY QuietBefore, Zenon
<1>2. CASE Call
  BY <1>1, <1>2, QuietCall, Zenon
<1>3. CASE get_upstream_router
  BY <1>1, <1>3, QuietUpstream, Zenon
<1>4. CASE Ask
  BY <1>1, <1>4, QuietAsk, Zenon
<1>5. CASE AskBeyond
  BY <1>1, <1>5, QuietBeyond, Zenon
<1>6. CASE Return
  BY <1>1, <1>6, QuietReturn, Zenon
<1>7. CASE Bus
  <2>1. \A x : ~Lose(x)
    BY DEF Lose, Quiet
  <2> QED
    BY <1>7, <2>1, Zenon DEF Bus
<1>8. CASE UNCHANGED vars
  BY <1>1, <1>8, QuietStay DEF vars
<1> QED
  BY <1>2, <1>3, <1>4, <1>5, <1>6, <1>7, <1>8, Zenon DEF Next, Program

\* When nothing is unplugged and all registers can be read, every question of the
\* dump has an answer: no getter is called for an adapter of another type, for a
\* capability the router does not have or for registers beyond the end of one.
THEOREM QuietAnswers == Spec => []QuietDumpAnswers
<1>1. QuietInv => QuietDumpAnswers
  <2> SUFFICES ASSUME QuietInv, Quiet PROVE QuietDumpAnswers
    BY Zenon DEF QuietDumpAnswers
  <2> QED
    BY Zenon DEF QuietInv, QuietDumpAnswers, LastAnswered, Excused, Asked
<1>2. DumpInv /\ QuietInv /\ [Next]_vars => DumpInv' /\ QuietInv'
  BY StepFits, QuietStep, Zenon
<1>3. Init => DumpInv /\ QuietInv
  BY InitFits, QuietInit, Zenon
<1> QED
  BY <1>1, <1>2, <1>3, PTL DEF Spec

-----------------------------------------------------------------------------
(* Such a dump at -vv: what has to be asked is on a list until it is asked *)

\* Question q is on list s.
Has(s, q) == \E j \in 1 .. Len(s) : s[j] = q

\* What is on a list of lists.
LEMMA HasParts ==
  ASSUME NEW T
  PROVE  /\ \A q : Has(<<q>>, q) /\ ~Has(<<>>, q)
         /\ \A s, t \in Seq(T) : \A q : Has(s, q) \/ Has(t, q) => Has(s \o t, q)
         /\ \A s \in Seq(T) : \A q : s # <<>> /\ Has(s, q) => q = Head(s) \/ Has(Tail(s), q)
         /\ \A b, s, q : b /\ Has(s, q) => Has(When(b, s), q)
<1>1. ASSUME NEW q PROVE Has(<<q>>, q) /\ ~Has(<<>>, q)
  BY DEF Has
<1>2. ASSUME NEW s \in Seq(T), NEW t \in Seq(T), NEW q, Has(s, q) PROVE Has(s \o t, q)
  <2>1. PICK j \in 1 .. Len(s) : s[j] = q
    BY <1>2, Zenon DEF Has
  <2>2. j \in 1 .. Len(s \o t) /\ (s \o t)[j] = q
    BY <2>1
  <2> QED
    BY <2>2, Zenon DEF Has
<1>3. ASSUME NEW s \in Seq(T), NEW t \in Seq(T), NEW q, Has(t, q) PROVE Has(s \o t, q)
  <2>1. PICK j \in 1 .. Len(t) : t[j] = q
    BY <1>3, Zenon DEF Has
  <2>2. Len(s) + j \in 1 .. Len(s \o t) /\ (s \o t)[Len(s) + j] = q
    BY <2>1
  <2> QED
    BY <2>2, Zenon DEF Has
<1>4. ASSUME NEW s \in Seq(T), NEW q, s # <<>>, Has(s, q), q # Head(s) PROVE Has(Tail(s), q)
  <2>1. PICK j \in 1 .. Len(s) : s[j] = q
    BY <1>4, Zenon DEF Has
  <2>2. j # 1
    BY <1>4, <2>1
  <2>3. PICK i : i = j - 1
    OBVIOUS
  <2>4. i \in 1 .. Len(Tail(s)) /\ Tail(s)[i] = q
    BY <1>4, <2>1, <2>2, <2>3
  <2> QED
    BY <2>4, Zenon DEF Has
<1>5. \A b, s, q : b /\ Has(s, q) => Has(When(b, s), q)
  BY Zenon DEF When
<1> QED
  BY <1>1, <1>2, <1>3, <1>4, <1>5, Zenon

\* The same questions of one adapter.
LEMMA HasAll ==
  ASSUME NEW G, NEW gets \in Seq(G), NEW g, Has(gets, g), NEW at
  PROVE  Has(All(gets, at), Q(g, at))
<1>1. PICK j \in 1 .. Len(gets) : gets[j] = g
  BY Zenon DEF Has
<1> DEFINE f == [k \in 1 .. Len(gets) |-> Q(gets[k], at)]
<1>2. f[j] = Q(g, at)
  BY <1>1, Zenon
<1>3. Len(gets) \in Nat
  OBVIOUS
<1>4. Len(f) = Len(gets)
  BY <1>3
<1> HIDE DEF f
<1>5. Has(f, Q(g, at))
  BY <1>1, <1>2, <1>4, Zenon DEF Has
<1> QED
  BY <1>5, Zenon DEF All, f

\* A loop has what is asked of one of its adapters.
LEMMA HasLoop ==
  ASSUME NEW T, NEW ss, ss = [a \in 1 .. MaxAdapters |-> ss[a]],
         \A a \in 1 .. MaxAdapters : ss[a] \in Seq(T),
         NEW k \in 1 .. MaxAdapters, NEW q, Has(ss[k], q)
  PROVE  Has(FlattenSeq(ss), q)
<1>1. MaxAdapters \in Nat
  BY AdaptersFit, Zenon
<1>2. ASSUME NEW S, \A a \in 1 .. MaxAdapters : ss[a] \in S
      PROVE  ss \in Seq(S) /\ Len(ss) = MaxAdapters
  <2>1. ss \in [1 .. MaxAdapters -> S]
    BY <1>2, Zenon
  <2> QED
    BY <1>1, <2>1
<1>3. ss \in Seq(Seq(T)) /\ Len(ss) = MaxAdapters
  BY <1>1, <1>2, Zenon
<1>4. PICK j \in 1 .. Len(ss[k]) : ss[k][j] = q
  BY Zenon DEF Has
<1>5. k \in 1 .. Len(ss)
  BY <1>3, Zenon
<1> QED
  BY <1>3, <1>4, <1>5, FlattenHas, Zenon DEF Has

\* The loops in the program.
LEMMA HasLoops ==
  ASSUME NEW S, NEW k \in 1 .. MaxAdapters, k \in S
  PROVE  /\ \A g : Has(FlattenSeq([a \in 1 .. MaxAdapters |-> When(a \in S, <<Q(g, a)>>)]), Q(g, k))
         /\ \A G : \A gets \in Seq(G) : \A g : Has(gets, g) =>
              Has(FlattenSeq([a \in 1 .. MaxAdapters |-> When(a \in S, All(gets, a))]), Q(g, k))
<1>1. ASSUME NEW g
      PROVE  Has(FlattenSeq([a \in 1 .. MaxAdapters |-> When(a \in S, <<Q(g, a)>>)]), Q(g, k))
  <2> DEFINE T == {Q(g, a) : a \in 1 .. MaxAdapters}
             ss == [a \in 1 .. MaxAdapters |-> When(a \in S, <<Q(g, a)>>)]
  <2>1. \A a \in 1 .. MaxAdapters : ss[a] = When(a \in S, <<Q(g, a)>>)
    BY Zenon
  <2>2. \A a \in 1 .. MaxAdapters : Q(g, a) \in T
    BY Zenon
  <2> HIDE DEF T
  <2>3. \A a \in 1 .. MaxAdapters : ss[a] \in Seq(T)
    BY <2>1, <2>2, SeqParts, Zenon
  <2>4. ss = [a \in 1 .. MaxAdapters |-> ss[a]]
    BY Zenon
  <2>5. Has(ss[k], Q(g, k))
    BY <2>1, HasParts, Zenon
  <2> HIDE DEF ss
  <2>6. Has(FlattenSeq(ss), Q(g, k))
    BY <2>3, <2>4, <2>5, HasLoop, Zenon
  <2> QED
    BY <2>6, Zenon DEF ss
<1>2. ASSUME NEW G, NEW gets \in Seq(G), NEW g, Has(gets, g)
      PROVE  Has(FlattenSeq([a \in 1 .. MaxAdapters |-> When(a \in S, All(gets, a))]), Q(g, k))
  <2> DEFINE T == {Q(h, a) : h \in G, a \in 1 .. MaxAdapters}
             ss == [a \in 1 .. MaxAdapters |-> When(a \in S, All(gets, a))]
  <2>1. \A a \in 1 .. MaxAdapters : ss[a] = When(a \in S, All(gets, a))
    BY Zenon
  <2>2. \A h \in G : \A a \in 1 .. MaxAdapters : Q(h, a) \in T
    OBVIOUS
  <2> HIDE DEF T
  <2>3. \A a \in 1 .. MaxAdapters : ss[a] \in Seq(T)
    BY <2>1, <2>2, SeqAll, SeqParts, Zenon
  <2>4. ss = [a \in 1 .. MaxAdapters |-> ss[a]]
    BY Zenon
  <2>5. Has(ss[k], Q(g, k))
    BY <1>2, <2>1, HasParts, HasAll, Zenon
  <2> HIDE DEF ss
  <2>6. Has(FlattenSeq(ss), Q(g, k))
    BY <2>3, <2>4, <2>5, HasLoop, Zenon
  <2> QED
    BY <2>6, Zenon DEF ss
<1> QED
  BY <1>1, <1>2, Zenon

\* What each type of adapter is listed by, asked first, told about by, and asked last.
Lister ==
  [up_usb3 |-> "dump_up_usb3_adapters", down_usb3 |-> "dump_down_usb3_adapters",
   up_pcie |-> "dump_up_pcie_adapters", down_pcie |-> "dump_down_pcie_adapters",
   dp_in |-> "dump_dp_in_adapters", dp_out |-> "dump_dp_out_adapters"]
Enabler ==
  [up_usb3 |-> "is_usb3_adp_en", down_usb3 |-> "is_usb3_adp_en",
   up_pcie |-> "is_pcie_adp_enabled", down_pcie |-> "is_pcie_adp_enabled",
   dp_in |-> "is_dp_aux_en", dp_out |-> "is_dp_aux_en"]
Details ==
  [up_usb3 |-> "dump_usb3_bws_lr_pls", down_usb3 |-> "dump_usb3_bws_lr_pls",
   up_pcie |-> "dump_pcie_attributes", down_pcie |-> "dump_pcie_attributes",
   dp_in |-> "dump_dp_attributes", dp_out |-> "dump_dp_attributes"]
Latest ==
  [up_usb3 |-> "get_usb3_port_link_state", down_usb3 |-> "get_usb3_port_link_state",
   up_pcie |-> "get_pcie_ltssm", down_pcie |-> "get_pcie_ltssm",
   dp_in |-> "is_dp_in_dptx_req", dp_out |-> "is_dp_lttpr_sup"]
Kinds == {"up_usb3", "down_usb3", "up_pcie", "down_pcie", "dp_in", "dp_out"}

Enablers(t) == {Enabler[t]} \cup IF t \in Dp THEN {"is_dp_vid_en"} ELSE {}

\* Adapters AllAsked is about.
There(a) == a \in 1 .. Len(env.types) /\ a < MaxAdapters - 1

Enabled(a) == \E e \in Enablers(env.types[a]) : Nonzero(e, a)

\* AllAsked: adapter a has to be asked for g.
Due(g, a) ==
  LET t == env.types[a]
  IN /\ There(a)
     /\ \/ t = "lane" /\ \/ g = "is_adp_locked"
                         \/ a % 2 = 1 /\ env.usb4 = TRUE /\ g \in Lane0Qs
                         \/ a % 2 = 1 /\ env.usb4 = FALSE /\ g = "get_tbt3_wake_events_en"
        \/ t \in Kinds /\ (g = Enabler[t] \/ (g = Latest[t] /\ Enabled(a)))

WakeQs == {"get_usb4_wakes_en", "get_tbt3_wake_events_en"}

\* Item q on the list of fn has adapter a asked for g, sooner or later.
LeadsTo(fn, q, g, a) ==
  \/ q = Q(g, a)
  \/ g \in {"is_adp_locked", "is_usb4_clx_supported"} /\ q = R("dump_lane_adapters")
  \/ g \in WakeQs /\ q = R("dump_wakes")
  \/ g = "get_usb4_wake_status" /\ q = R("dump_wake_status")
  \/ LET t == env.types[a]
     IN t \in Kinds /\ g \in {Enabler[t], Latest[t]} /\ q = R(Lister[t])
  \/ fn = "dump_router_verbose" /\ g = "get_usb4_wake_status" /\ q = R("get_usb4v")
  \/ fn = "dump_lane_adapters" /\ g = "is_usb4_clx_supported" /\ q = Q("get_usb4v", a)

\* The lanes that f will ask for g are chosen by the version and the number of
\* adapters.
Wakes(f, g) ==
  /\ \/ f.fn = "dump_wakes" /\ g \in WakeQs
     \/ f.fn = "dump_wake_status" /\ g = "get_usb4_wake_status"
  /\ Has(f.todo, R("get_usb4v"))
  /\ f.max = Len(env.types) \/ Head(f.todo) = R("get_max_adp")

Pends(f, g, a) ==
  \/ \E q : Has(f.todo, q) /\ LeadsTo(f.fn, q, g, a)
  \/ Wakes(f, g)

StackPends(st, g, a) == \E k \in 1 .. Len(st) : Pends(st[k], g, a)

Inquiries == {q \in AnyItem : q.get \in Questions}

\* Those asked whether a is enabled, of which one will say so.
Probes(s, a) ==
  \E e \in Enablers(env.types[a]) : Has(s, Q(e, a)) /\ (Nonzero(e, a) \/ e = "is_dp_aux_en")

\* f gathers the enabled adapters of a's type, a among them, to tell about them.
Gathers(f, on, g, a) ==
  LET t == env.types[a]
  IN /\ t \in Kinds /\ g = Latest[t] /\ f.fn = Lister[t]
     /\ \E s \in Seq(Inquiries) :
          f.todo = s \o <<R(Details[t])>> /\ (a \in on \/ Probes(s, a))

Open(g, a) ==
  \/ <<g, a>> \in asked
  \/ \A st : st = stack => StackPends(st, g, a)
  \/ stack # <<>> /\ \A f, on : f = frame /\ on = active => Gathers(f, on, g, a)

TypesKnown == \A a : There(a) => types[a] = env.types[a]

\* The types are found before anything else.
Filling ==
  \/ TypesKnown
  \/ stack # <<>> /\ frame.todo # <<>> /\ next = R("fill_adp_types_in_router")
  \/ /\ stack # <<>> /\ frame.fn = "fill_adp_types_in_router"
     /\ \A q : Has(frame.todo, q) => q.get = "get_adp_pvs"
     /\ \A a : There(a) => types[a] = env.types[a] \/ Has(frame.todo, Q("get_adp_pvs", a))

AskedInv ==
  Quiet /\ env.loud = TRUE =>
    /\ Filling
    /\ fate = "done" => stack = <<>>
    /\ \A g, a : Due(g, a) => Open(g, a)

-----------------------------------------------------------------------------
(* What the lists have *)

\* The tables are of these types, and name these functions and questions.
LEMMA TablesAre ==
  /\ Kinds \cap Usb3 = {"up_usb3", "down_usb3"} /\ Kinds \cap Pcie = {"up_pcie", "down_pcie"}
  /\ Kinds \cap Dp = {"dp_in", "dp_out"} /\ Kinds = Usb3 \cup Pcie \cup Dp
  /\ "lane" \notin Kinds /\ NoType \notin Kinds /\ NoType # "lane"
  /\ \A t \in Kinds :
       /\ Lister[t] \in Usb3Fns \cup PcieFns \cup DpFns /\ Lister[t] \in Functions
       /\ Details[t] \in AttributeFns /\ Details[t] \in Functions
       /\ Enabler[t] \in Questions /\ Latest[t] \in Questions
       /\ Enablers(t) \subseteq Enables
       /\ OfClass(Lister[t], t)
<1>1. /\ Kinds \cap Usb3 = {"up_usb3", "down_usb3"} /\ Kinds \cap Pcie = {"up_pcie", "down_pcie"}
      /\ Kinds \cap Dp = {"dp_in", "dp_out"} /\ Kinds = Usb3 \cup Pcie \cup Dp
      /\ "lane" \notin Kinds /\ NoType \notin Kinds /\ NoType # "lane"
  BY DEF Kinds, NoType, Usb3, Pcie, Dp
<1>2. \A t \in Kinds : Lister[t] \in Usb3Fns \cup PcieFns \cup DpFns
  BY DEF Kinds, Lister, Usb3Fns, PcieFns, DpFns
<1>3. Usb3Fns \cup PcieFns \cup DpFns \cup AttributeFns \subseteq Functions
  BY DEF Usb3Fns, PcieFns, DpFns, AttributeFns, Functions
<1>4. \A t \in Kinds : Details[t] \in AttributeFns
  BY DEF Kinds, Details, AttributeFns
<1>5. \A t \in Kinds : Enabler[t] \in Enables /\ Enablers(t) \subseteq Enables
  BY DEF Kinds, Enabler, Enablers, Enables
<1>6. {"get_usb3_port_link_state", "get_pcie_ltssm", "is_dp_in_dptx_req", "is_dp_lttpr_sup"} \cup Enables
        \subseteq Questions
  BY DEF Enables, Questions, By8, By16, By32, Unchecked, Codes
<1>7. \A t \in Kinds : Latest[t] \in
         {"get_usb3_port_link_state", "get_pcie_ltssm", "is_dp_in_dptx_req", "is_dp_lttpr_sup"}
  BY DEF Kinds, Latest
<1>8. \A t \in Kinds : /\ Lister[t] \in Usb3Fns <=> t \in Usb3
                       /\ Lister[t] \in PcieFns <=> t \in Pcie
                       /\ Lister[t] \in DpFns <=> t \in Dp
  BY DEF Kinds, Lister, Usb3Fns, PcieFns, DpFns, Usb3, Pcie, Dp
<1>9. \A t \in Kinds : OfClass(Lister[t], t)
  <2>1. AttributeFns \cap (Usb3Fns \cup PcieFns \cup DpFns) = {}
    BY DEF Usb3Fns, PcieFns, DpFns, AttributeFns
  <2> QED
    BY <1>2, <1>8, <2>1 DEF OfClass, AboutUsb3, AboutPcie, AboutDp, AttributeFns
<1> HIDE DEF Kinds
<1> QED
  BY <1>1, <1>2, <1>3, <1>4, <1>5, <1>6, <1>7, <1>9

\* What is due is a question.
LEMMA DueAsked ==
  \A g, a : Due(g, a) => g \in Questions /\ a \in 1 .. 63 /\ a \in Adapters /\ There(a)
<1>1. \A a : There(a) => a \in 1 .. 63 /\ a \in Adapters
  <2>1. MaxAdapters \in 2 .. 64
    BY AdaptersFit
  <2> QED
    BY <2>1 DEF There, Adapters
<1>2. {"is_adp_locked", "get_tbt3_wake_events_en"} \cup Lane0Qs \subseteq Questions
  BY DEF Lane0Qs, Questions, By8, By16, By32, Unchecked, Codes
<1> QED
  BY <1>1, <1>2, TablesAre, Zenon DEF Due

\* The number of adapters is read.
LEMMA MaxIs ==
  ASSUME Quiet, env \in Envs, NEW fn, NEW q \in Items(fn), q.get = "get_max_adp"
  PROVE  Number[Answer(q)] = Len(env.types)
<1> DEFINE g == Getter[q.get]
           w == Content("self", "basic", 1, 0)
           ans == Answer(q)
           n == Len(env.types)
<1>1. /\ q.get \in Questions /\ q.get \in RouterQs
      /\ q.get \notin SleepQs /\ q.get \notin PortQs
  BY DEF Questions, RouterQs, SleepQs, PortQs, By6
<1>2. q.of = "self" /\ Lookup(q).failed = FALSE
  <2>1. q.of = "self"
    BY <1>1 DEF Items
  <2> QED
    BY <1>1, <2>1, RouterAnswers
<1>3. g.cap = "basic" /\ g.off = 1 /\ g.who = Router /\ g.mask = 14 .. 19 /\ g.shift = 14
  BY <1>1, GetterOf DEF Known, Serves, Reads, Bits
<1>4. ans = FieldOf(g, w)
  <2>1. ~SleepLine(q) /\ ~Shifted(q)
    BY <1>1, <1>3, QuietFinds DEF SleepLine, SleepQs, Shifted
  <2>2. ans = Truth(q)
    BY <1>1, <1>2, <2>1, EnvIsOne, AnswerTells
  <2> QED
    BY <1>1, <1>2, <1>3, <2>2, PortGetters DEF Truth
<1>5. w = (Pattern("self", "basic", 1, 0) \ (14 .. 19)) \cup At(14, Binary(n))
  BY DEF Content
<1>6. n \in 0 .. 63
  <2>1. n \in Nat /\ n < MaxAdapters
    BY EnvIsOne DEF IsEnv
  <2> HIDE DEF n
  <2> QED
    BY <2>1, AdaptersFit
<1> HIDE DEF g, w, n
<1>7. Binary(n) \subseteq 0 .. 5 /\ Number[Binary(n)] = n
  <2>1. n \in 0 .. 255
    BY <1>6
  <2> QED
    BY <1>6, <2>1, PortBits, NumberOfBinary, Zenon
<1>8. w \cap (14 .. 19) = At(14, Binary(n))
  BY <1>5, <1>7 DEF At
<1>9. ans = {b - 14 : b \in At(14, Binary(n))}
  BY <1>3, <1>4, <1>8 DEF FieldOf
<1>10. {b - 14 : b \in At(14, Binary(n))} = Binary(n)
  <2> DEFINE B == Binary(n)
  <2>1. B \subseteq 0 .. 5
    BY <1>7
  <2> HIDE DEF B
  <2> DEFINE C == {14 + b : b \in B}
  <2>2. \A b \in B : 14 + b \in C /\ 14 + b - 14 = b
    BY <2>1
  <2>3. \A c \in C : c - 14 \in B
    BY <2>1
  <2> HIDE DEF C
  <2>4. {c - 14 : c \in C} = B
    <3>1. \A b \in B : b \in {c - 14 : c \in C}
      <4>1. \A b \in B : \E c \in C : b = c - 14
        <5>1. ASSUME NEW b \in B PROVE \E c \in C : b = c - 14
          <6>1. PICK c : c = 14 + b
            OBVIOUS
          <6>2. c \in C /\ b = c - 14
            BY <2>1, <2>2, <6>1
          <6> QED
            BY <6>2, Zenon
        <5> QED
          BY <5>1, Zenon
      <4> QED
        BY <4>1, Zenon
    <3>2. \A b \in {c - 14 : c \in C} : b \in B
      BY <2>3, Zenon
    <3> QED
      BY <3>1, <3>2, Zenon
  <2> QED
    BY <2>4 DEF At, B, C
<1> QED
  BY <1>7, <1>9, <1>10 DEF n

\* Nothing that fails makes a function give up.
LEMMA NoneGivesUp ==
  ASSUME Quiet, env \in Envs, TypesFound, NEW fn, NEW q \in Items(fn), q \in Fits(fn),
         q.get \in Questions
  PROVE  ~GivesUp(fn, q, Answer(q))
<1> SUFFICES ASSUME fn \in DOMAIN Returns, q.get \in Returns[fn] PROVE ~Recognised(q, Answer(q))
  BY DEF GivesUp
<1>1. q.get \in Checked /\ q.get # "get_adp_pvs" /\ ~SleepLine(q)
  BY DEF Returns, Checked, SleepLine, Questions, By6, By8, By16, By32, Unchecked, Codes
<1>2. ~Lookup(q).failed
  BY <1>1, MayAsk DEF Excused
<1> QED
  BY <1>1, <1>2, EnvIsOne, AnswerIsRecognised

\* The function for a type asks whether adapters of that type are enabled.
LEMMA ListerBody ==
  \A t \in Kinds : Body(Lister[t]) = enabled_adapters(t, Enabler[t], Details[t])
<1>1. /\ Lister["up_usb3"] = "dump_up_usb3_adapters" /\ Lister["down_usb3"] = "dump_down_usb3_adapters"
      /\ Lister["up_pcie"] = "dump_up_pcie_adapters" /\ Lister["down_pcie"] = "dump_down_pcie_adapters"
      /\ Lister["dp_in"] = "dump_dp_in_adapters" /\ Lister["dp_out"] = "dump_dp_out_adapters"
  BY DEF Lister
<1>2. /\ Enabler["up_usb3"] = "is_usb3_adp_en" /\ Enabler["down_usb3"] = "is_usb3_adp_en"
      /\ Enabler["up_pcie"] = "is_pcie_adp_enabled" /\ Enabler["down_pcie"] = "is_pcie_adp_enabled"
      /\ Enabler["dp_in"] = "is_dp_aux_en" /\ Enabler["dp_out"] = "is_dp_aux_en"
  BY DEF Enabler
<1>3. /\ Details["up_usb3"] = "dump_usb3_bws_lr_pls" /\ Details["down_usb3"] = "dump_usb3_bws_lr_pls"
      /\ Details["up_pcie"] = "dump_pcie_attributes" /\ Details["down_pcie"] = "dump_pcie_attributes"
      /\ Details["dp_in"] = "dump_dp_attributes" /\ Details["dp_out"] = "dump_dp_attributes"
  BY DEF Details
<1> QED
  BY <1>1, <1>2, <1>3 DEF Kinds, Body

\* A frame that has just been put on the stack.
LEMMA NewFrame ==
  ASSUME NEW fn, NEW s
  PROVE  Frame(fn, s).fn = fn /\ Frame(fn, s).todo = s
BY DEF Frame

\* What is asked of the lanes.
LEMMA LanesHave ==
  ASSUME NEW a, There(a), a \in Adapters, types[a] = "lane"
  PROVE  Has(dump_lane_adapters, Q("is_adp_locked", a)) /\ Has(dump_lane_adapters, Q("get_usb4v", a))
<1>1. a \in LaneLoop /\ a \in 1 .. MaxAdapters
  BY AdaptersFit DEF LaneLoop, OfType, Adapters, There
<1> DEFINE gets == <<"is_adp_locked", "get_usb4v">>
           G == {"is_adp_locked", "get_usb4v"}
<1>2. gets \in Seq(G) /\ Has(gets, "is_adp_locked") /\ Has(gets, "get_usb4v")
  <2>1. gets[1] = "is_adp_locked" /\ gets[2] = "get_usb4v" /\ 1 \in 1 .. Len(gets) /\ 2 \in 1 .. Len(gets)
    OBVIOUS
  <2>2. gets \in Seq(G)
    OBVIOUS
  <2> HIDE DEF gets
  <2> QED
    BY <2>1, <2>2, Zenon DEF Has
<1> HIDE DEF G
<1> QED
  BY <1>1, <1>2, HasLoops, Zenon DEF dump_lane_adapters, Each

\* What is asked about wakes.
LEMMA WakesHave ==
  /\ Has(dump_wakes, R("get_usb4v")) /\ Head(dump_wakes) = R("get_max_adp")
  /\ Has(dump_wake_status, R("get_usb4v")) /\ Head(dump_wake_status) = R("get_max_adp")
<1>1. Has(dump_wakes, R("get_usb4v")) /\ Head(dump_wakes) = R("get_max_adp")
  <2>1. dump_wakes = <<R("get_max_adp"), R("get_usb4v")>>
    BY DEF dump_wakes, All, R
  <2>2. dump_wakes[2] = R("get_usb4v") /\ 2 \in 1 .. Len(dump_wakes)
    BY <2>1
  <2> QED
    BY <2>1, <2>2 DEF Has
<1>2. Has(dump_wake_status, R("get_usb4v")) /\ Head(dump_wake_status) = R("get_max_adp")
  <2> DEFINE x == R("get_max_adp")
             y == R("get_usb4v")
             z == R("dump_gen_wake_status")
             m == When(IsDevice, <<z>>)
             T == {x, y, z}
  <2>1. <<x>> \in Seq(T) /\ <<y>> \in Seq(T) /\ m \in Seq(T)
    BY SeqParts, Zenon
  <2> HIDE DEF T, x, y, m
  <2>2. <<x>> \o m \in Seq(T)
    BY <2>1, SeqParts, Zenon
  <2>3. Has(<<x>> \o m \o <<y>>, y)
    BY <2>1, <2>2, HasParts, Zenon
  <2>4. Head(<<x>> \o m \o <<y>>) = x
    BY <2>1
  <2> QED
    BY <2>3, <2>4, Zenon DEF dump_wake_status, x, y, m
<1> QED
  BY <1>1, <1>2

\* What the function for a type asks.
LEMMA EnabledHave ==
  ASSUME NEW a, There(a), a \in Adapters, NEW t \in Kinds, types[a] = t
  PROVE  \E s \in Seq(Inquiries) :
           /\ Body(Lister[t]) = s \o <<R(Details[t])>>
           /\ Has(s, Q(Enabler[t], a))
<1> DEFINE T == Inquiries
           x == R("get_max_adp")
           y == R(Details[t])
           loop == Each(OfType(t), LAMBDA b : <<Q(Enabler[t], b)>>)
<1>1. a \in OfType(t) /\ a \in 1 .. MaxAdapters
  BY AdaptersFit DEF OfType, Adapters
<1>2. x \in T
  BY DEF Inquiries, AnyItem, R, Q, Asks, RouterQs, Questions, By6
<1>3. \A b \in 1 .. MaxAdapters : Q(Enabler[t], b) \in T
  <2>1. Enabler[t] \in Questions /\ Enabler[t] \in AdapterQs
    BY TablesAre DEF Enabler, Kinds, AdapterQs
  <2>2. 1 .. MaxAdapters \subseteq 0 .. 64
    BY AdaptersFit
  <2> QED
    BY <2>1, <2>2 DEF Inquiries, AnyItem, Q, Asks
<1>4. loop \in Seq(T)
  BY <1>3, SeqLoops, Zenon DEF Each
<1>5. Has(loop, Q(Enabler[t], a))
  BY <1>1, HasLoops, Zenon DEF Each
<1>6. <<x>> \in Seq(T)
  BY <1>2, SeqParts, Zenon
<1>7. Body(Lister[t]) = <<x>> \o loop \o <<y>>
  <2>1. When(OfType(t) # {}, <<y>>) = <<y>>
    BY <1>1, Zenon DEF When
  <2> QED
    BY <2>1, ListerBody, Zenon DEF enabled_adapters
<1> HIDE DEF T, x, y, loop
<1>8. <<x>> \o loop \in Seq(T) /\ Has(<<x>> \o loop, Q(Enabler[t], a))
  BY <1>4, <1>5, <1>6, SeqParts, HasParts, Zenon
<1> QED
  BY <1>7, <1>8, Zenon DEF T, y

-----------------------------------------------------------------------------
(* What is asked, when a function is called and when an answer comes *)

\* Functions are not questions.
LEMMA FunctionsApart ==
  /\ Functions \cap Questions = {}
  /\ "get_upstream_router" \notin Functions \cup Questions /\ "get_usb4v" \in Questions
  /\ {"dump_lane_adapters", "dump_wakes", "dump_wake_status", "fill_adp_types_in_router"} \subseteq Functions
BY DEF Functions, Questions, By6, By8, By16, By32, Unchecked, Codes

\* Items of the same kind for the same adapter are the same.
LEMMA ItemsDiffer ==
  /\ \A g, h, a, b : Q(g, a) = Q(h, b) => g = h /\ a = b
  /\ \A g, h : R(g) = R(h) => g = h
  /\ \A g, h, a : R(g) = Q(h, a) => g = h
  /\ \A g, a : Q(g, a).get = g /\ Q(g, a).at = a /\ R(g).get = g /\ R(g).at = 0
BY DEF Q, R

\* What is due to an adapter says what type it is of.
LEMMA DueIs ==
  ASSUME NEW g, NEW a, Due(g, a)
  PROVE  LET t == env.types[a]
             lane == {"is_adp_locked", "get_tbt3_wake_events_en"} \cup Lane0Qs
         IN /\ There(a)
            /\ \/ t = "lane" /\ g \in lane
               \/ t \in Kinds /\ g \in {Enabler[t], Latest[t]} /\ g \notin lane
            /\ g \in WakeQs \cup Lane0Qs => a % 2 = 1
            /\ g \in Lane0Qs => env.usb4 = TRUE
            /\ g = "get_tbt3_wake_events_en" => env.usb4 = FALSE
            /\ t \in Kinds /\ g = Latest[t] => Enabled(a)
<1>1. \A t \in Kinds :
        /\ Enabler[t] \in {"is_usb3_adp_en", "is_pcie_adp_enabled", "is_dp_aux_en"}
        /\ Latest[t] \in {"get_usb3_port_link_state", "get_pcie_ltssm", "is_dp_in_dptx_req",
                          "is_dp_lttpr_sup"}
  BY DEF Kinds, Enabler, Latest
<1>2. "lane" \notin Kinds
  BY TablesAre
<1> HIDE DEF Kinds
<1> QED
  BY <1>1, <1>2 DEF Due, WakeQs, Lane0Qs

\* The types are known.
LEMMA LaneKnown ==
  ASSUME TypesKnown, NEW g, NEW a, Due(g, a)
  PROVE  /\ types[a] = env.types[a] /\ a \in Adapters /\ There(a)
BY DueAsked, Zenon DEF TypesKnown

\* The function for a type gathers the adapters that are enabled.
LEMMA ListerHas ==
  ASSUME TypesKnown, NEW g, NEW a, Due(g, a), NEW t \in Kinds, t = env.types[a],
         NEW f, f = Frame(Lister[t], Body(Lister[t]))
  PROVE  Pends(f, g, a) \/ Gathers(f, {}, g, a)
<1>1. types[a] = t /\ a \in Adapters /\ There(a)
  BY LaneKnown, Zenon
<1>2. PICK s \in Seq(Inquiries) : /\ Body(Lister[t]) = s \o <<R(Details[t])>>
                                  /\ Has(s, Q(Enabler[t], a))
  BY <1>1, EnabledHave, Zenon
<1>3. f.fn = Lister[t] /\ f.todo = s \o <<R(Details[t])>>
  BY <1>2, NewFrame, Zenon
<1>4. g = Enabler[t] \/ (g = Latest[t] /\ Enabled(a))
  BY DueIs, TablesAre
<1>5. CASE g = Enabler[t]
  <2> DEFINE y == R(Details[t])
             S == Inquiries \cup {y}
  <2>1. s \in Seq(S) /\ <<y>> \in Seq(S)
    BY SeqGrows, SeqParts, Zenon
  <2> HIDE DEF y, S
  <2>2. Has(s \o <<y>>, Q(g, a))
    BY <1>2, <1>5, <2>1, HasParts, Zenon
  <2> QED
    BY <1>3, <2>2, Zenon DEF Pends, LeadsTo, y
<1>6. CASE g = Latest[t] /\ Enabled(a)
  <2>1. Probes(s, a)
    <3>1. CASE t \in Dp
      <4>1. Enabler[t] = "is_dp_aux_en"
        BY <3>1, TablesAre DEF Enabler, Dp
      <4> QED
        BY <1>2, <4>1 DEF Probes, Enablers
    <3>2. CASE t \notin Dp
      <4>1. Enablers(t) = {Enabler[t]}
        BY <3>2 DEF Enablers
      <4>2. Nonzero(Enabler[t], a)
        BY <1>6, <4>1 DEF Enabled
      <4> QED
        BY <1>2, <4>1, <4>2 DEF Probes
    <3> QED
      BY <3>1, <3>2, Zenon
  <2> QED
    BY <1>3, <1>6, <2>1, Zenon DEF Gathers
<1> QED
  BY <1>4, <1>5, <1>6

\* A function that is called has what it was called for.
LEMMA BodyHas ==
  ASSUME TypesKnown, NEW g, NEW a, Due(g, a), NEW fn \in Functions, NEW p,
         LeadsTo(p, R(fn), g, a), NEW f, f = Frame(fn, Body(fn))
  PROVE  Pends(f, g, a) \/ Gathers(f, {}, g, a)
<1>1. g \in Questions /\ fn # "get_usb4v" /\ fn # g
  BY DueAsked, FunctionsApart
<1>2. f.fn = fn /\ f.todo = Body(fn)
  BY NewFrame, Zenon
<1>3. types[a] = env.types[a] /\ a \in Adapters /\ There(a)
  BY LaneKnown, Zenon
<1>4. CASE g \in {"is_adp_locked", "is_usb4_clx_supported"} /\ fn = "dump_lane_adapters"
  <2>1. types[a] = "lane"
    BY <1>3, <1>4, DueIs DEF Lane0Qs
  <2>2. Has(dump_lane_adapters, Q("is_adp_locked", a)) /\ Has(dump_lane_adapters, Q("get_usb4v", a))
    BY <1>3, <2>1, LanesHave, Zenon
  <2>3. Body(fn) = dump_lane_adapters
    BY <1>4 DEF Body
  <2>4. \E q : Has(f.todo, q) /\ LeadsTo(f.fn, q, g, a)
    <3>1. LeadsTo(fn, Q("is_adp_locked", a), g, a) \/ LeadsTo(fn, Q("get_usb4v", a), g, a)
      BY <1>4 DEF LeadsTo
    <3> QED
      BY <1>2, <2>2, <2>3, <3>1, Zenon
  <2> QED
    BY <2>4, Zenon DEF Pends
<1>5. CASE g \in WakeQs /\ fn = "dump_wakes"
  <2>1. Body(fn) = dump_wakes
    BY <1>5 DEF Body
  <2> QED
    BY <1>2, <1>5, <2>1, WakesHave, Zenon DEF Pends, Wakes
<1>6. CASE g = "get_usb4_wake_status" /\ fn = "dump_wake_status"
  <2>1. Body(fn) = dump_wake_status
    BY <1>6 DEF Body
  <2> QED
    BY <1>2, <1>6, <2>1, WakesHave, Zenon DEF Pends, Wakes
<1>7. CASE env.types[a] \in Kinds /\ fn = Lister[env.types[a]]
  BY <1>7, ListerHas, Zenon
<1>8. \/ g \in {"is_adp_locked", "is_usb4_clx_supported"} /\ fn = "dump_lane_adapters"
      \/ g \in WakeQs /\ fn = "dump_wakes"
      \/ g = "get_usb4_wake_status" /\ fn = "dump_wake_status"
      \/ env.types[a] \in Kinds /\ fn = Lister[env.types[a]]
  <2>1. /\ R(fn) # Q(g, a) /\ R(fn) # R("get_usb4v") /\ R(fn) # Q("get_usb4v", a)
        /\ \A h : R(fn) = R(h) => fn = h
    BY <1>1, ItemsDiffer, Zenon
  <2> QED
    BY <2>1, Zenon DEF LeadsTo
<1> QED
  BY <1>4, <1>5, <1>6, <1>7, <1>8, Zenon

\* Nothing is due from the function that finds the types, nor from the link.
LEMMA NoneLeads ==
  ASSUME NEW p, NEW g \in Questions, NEW a, NEW q, LeadsTo(p, q, g, a)
  PROVE  /\ q # R("fill_adp_types_in_router") /\ q.get # "get_upstream_router"
         /\ q.get \notin Questions => q = R(q.get)
         /\ q.get \in Questions => \/ q = Q(g, a)
                                   \/ p = "dump_router_verbose" /\ g = "get_usb4_wake_status" /\ q = R("get_usb4v")
                                   \/ p = "dump_lane_adapters" /\ g = "is_usb4_clx_supported" /\ q = Q("get_usb4v", a)
<1>1. \A t \in Kinds : Lister[t] \in Functions /\ Lister[t] # "fill_adp_types_in_router"
  <2>1. "fill_adp_types_in_router" \notin Usb3Fns \cup PcieFns \cup DpFns
    BY DEF Usb3Fns, PcieFns, DpFns
  <2> QED
    BY <2>1, TablesAre, Zenon
<1>2. \A h, b : Q(h, b).get = h /\ R(h).get = h
  BY ItemsDiffer, Zenon
<1>3. \A h \in {"dump_lane_adapters", "dump_wakes", "dump_wake_status"} :
         h \in Functions /\ h # "fill_adp_types_in_router"
  BY FunctionsApart
<1>4. \/ q = Q(g, a) \/ q = R("get_usb4v") \/ q = Q("get_usb4v", a)
      \/ q.get \in Functions /\ q.get # "fill_adp_types_in_router" /\ q = R(q.get)
  <2>1. \/ q = Q(g, a) \/ q = R("get_usb4v") \/ q = Q("get_usb4v", a)
        \/ \E h \in {"dump_lane_adapters", "dump_wakes", "dump_wake_status"} : q = R(h)
        \/ env.types[a] \in Kinds /\ q = R(Lister[env.types[a]])
    BY Zenon DEF LeadsTo
  <2> QED
    BY <1>1, <1>2, <1>3, <2>1, Zenon
<1>5. q.get \in Functions => q.get \notin Questions
  BY FunctionsApart
<1>6. q # R("fill_adp_types_in_router") /\ q.get # "get_upstream_router"
  BY <1>2, <1>4, FunctionsApart
<1>7. q.get \notin Questions => q = R(q.get)
  <2>1. "get_usb4v" \in Questions
    BY FunctionsApart
  <2> QED
    BY <1>2, <1>4, <2>1, Zenon
<1>8. ASSUME q.get \in Questions
      PROVE  \/ q = Q(g, a)
             \/ p = "dump_router_verbose" /\ g = "get_usb4_wake_status" /\ q = R("get_usb4v")
             \/ p = "dump_lane_adapters" /\ g = "is_usb4_clx_supported" /\ q = Q("get_usb4v", a)
  <2>1. \A h \in Functions : q # R(h)
    BY <1>2, <1>8, FunctionsApart
  <2> QED
    BY <1>1, <2>1, FunctionsApart, Zenon DEF LeadsTo
<1> QED
  BY <1>6, <1>7, <1>8, Zenon

\* What is asked of the adapters found enabled.
LEMMA DetailsHave ==
  ASSUME active \subseteq Adapters, NEW a \in active, NEW t \in Kinds, types[a] = t
  PROVE  Has(Body(Details[t]), Q(Latest[t], a))
<1> DEFINE T == {Q(g, b) : g \in Questions, b \in 1 .. MaxAdapters}
<1>1. \A g \in Questions : \A b \in 1 .. MaxAdapters : Q(g, b) \in T
  OBVIOUS
<1>2. a \in 1 .. MaxAdapters
  BY AdaptersFit DEF Adapters
<1> HIDE DEF T
<1>3. ASSUME NEW gets \in Seq(Questions) PROVE \A b \in 1 .. MaxAdapters : All(gets, b) \in Seq(T)
  BY <1>1, SeqAll, Zenon
<1>4. CASE t \in Usb3
  <2> DEFINE host == <<"get_usb3_scale", "get_usb3_consumed_up_bw", "get_usb3_consumed_down_bw",
                       "get_usb3_allocated_up_bw", "get_usb3_allocated_down_bw">>
             gets == <<"is_usb3_link_valid", "get_usb3_actual_lr", "get_usb3_max_sup_lr",
                       "get_usb3_port_link_state">>
             items(b) == When(~IsDevice, All(host, b)) \o All(gets, b)
             ss == [b \in 1 .. MaxAdapters |-> When(b \in active, items(b))]
  <2>1. host \in Seq(Questions) /\ gets \in Seq(Questions) /\ Has(gets, "get_usb3_port_link_state")
    <3>1. host \in Seq(Questions)
      BY DEF Questions, By6, By8, By16, By32, Unchecked, Codes
    <3>2. gets \in Seq(Questions)
      BY DEF Questions, By6, By8, By16, By32, Unchecked, Codes
    <3>3. gets[4] = "get_usb3_port_link_state" /\ 4 \in 1 .. Len(gets)
      OBVIOUS
    <3> HIDE DEF gets
    <3> QED
      BY <3>1, <3>2, <3>3, Zenon DEF Has
  <2>2. Latest[t] = "get_usb3_port_link_state" /\ Body(Details[t]) = dump_usb3_bws_lr_pls
    <3>1. t \in {"up_usb3", "down_usb3"}
      BY <1>4, TablesAre
    <3>2. Latest[t] = "get_usb3_port_link_state" /\ Details[t] = "dump_usb3_bws_lr_pls"
      BY <3>1 DEF Latest, Details
    <3> QED
      BY <3>2 DEF Body
  <2>3. dump_usb3_bws_lr_pls = FlattenSeq(ss)
    BY Zenon DEF dump_usb3_bws_lr_pls, Each
  <2> HIDE DEF host, gets
  <2>4. \A b \in 1 .. MaxAdapters : items(b) \in Seq(T)
    BY <1>3, <2>1, SeqParts, Zenon
  <2>5. Has(items(a), Q("get_usb3_port_link_state", a))
    <3>1. Has(All(gets, a), Q("get_usb3_port_link_state", a))
      BY <2>1, HasAll, Zenon
    <3>2. All(gets, a) \in Seq(T) /\ When(~IsDevice, All(host, a)) \in Seq(T)
      BY <1>2, <1>3, <2>1, SeqParts, Zenon
    <3> QED
      BY <3>1, <3>2, HasParts, Zenon
  <2> HIDE DEF items
  <2>6. /\ \A b \in 1 .. MaxAdapters : ss[b] = When(b \in active, items(b))
        /\ ss = [b \in 1 .. MaxAdapters |-> ss[b]]
    BY Zenon
  <2>7. /\ \A b \in 1 .. MaxAdapters : ss[b] \in Seq(T)
        /\ Has(ss[a], Q("get_usb3_port_link_state", a))
    BY <1>2, <2>4, <2>5, <2>6, SeqParts, HasParts, Zenon
  <2> HIDE DEF ss
  <2>8. Has(FlattenSeq(ss), Q("get_usb3_port_link_state", a))
    BY <1>2, <2>6, <2>7, HasLoop, Zenon
  <2> QED
    BY <2>2, <2>3, <2>8, Zenon
<1>5. CASE t \in Pcie
  <2> DEFINE gets == <<"is_pcie_link_up", "is_pcie_tx_ei", "is_pcie_rx_ei",
                       "is_pcie_switch_warm_reset", "get_pcie_ltssm">>
  <2>1. gets \in Seq(Questions) /\ Has(gets, "get_pcie_ltssm")
    <3>1. gets \in Seq(Questions)
      BY DEF Questions, By6, By8, By16, By32, Unchecked, Codes
    <3>2. gets[5] = "get_pcie_ltssm" /\ 5 \in 1 .. Len(gets)
      OBVIOUS
    <3> HIDE DEF gets
    <3> QED
      BY <3>1, <3>2, Zenon DEF Has
  <2>2. Latest[t] = "get_pcie_ltssm" /\ Body(Details[t]) = dump_pcie_attributes
    <3>1. t \in {"up_pcie", "down_pcie"}
      BY <1>5, TablesAre
    <3>2. Latest[t] = "get_pcie_ltssm" /\ Details[t] = "dump_pcie_attributes"
      BY <3>1 DEF Latest, Details
    <3> QED
      BY <3>2 DEF Body
  <2> HIDE DEF gets
  <2>3. Has(FlattenSeq([b \in 1 .. MaxAdapters |-> When(b \in active, All(gets, b))]), Q("get_pcie_ltssm", a))
    BY <1>2, <2>1, HasLoops, Zenon
  <2> QED
    BY <2>2, <2>3, Zenon DEF dump_pcie_attributes, Each, gets
<1>6. CASE t \in Dp
  <2> DEFINE gets == <<"is_dp_mst_cap", "is_dp_dsc_sup", "get_dp_hpd_status", "get_dp_max_link_rate",
                       "get_dp_max_lane_count", "is_dp_lttpr_sup">>
             ins  == <<"is_dp_in_bw_alloc_sup", "is_dp_in_cm_bw_alloc_support",
                       "is_dp_in_dptx_bw_alloc_en", "get_dp_in_estimated_bw",
                       "get_dp_in_nrd_max_lc", "get_dp_in_nrd_max_lr", "get_dp_in_granularity",
                       "get_dp_in_alloc_bw", "get_dp_in_req_bw", "is_dp_in_dptx_req">>
             items(b) == All(gets, b) \o When(types[b] = "dp_in", All(ins, b))
             ss == [b \in 1 .. MaxAdapters |-> When(b \in active, items(b))]
  <2>1. /\ gets \in Seq(Questions) /\ ins \in Seq(Questions)
        /\ Has(gets, "is_dp_lttpr_sup") /\ Has(ins, "is_dp_in_dptx_req")
    <3>1. gets \in Seq(Questions)
      BY DEF Questions, By6, By8, By16, By32, Unchecked, Codes
    <3>2. ins \in Seq(Questions)
      BY DEF Questions, By6, By8, By16, By32, Unchecked, Codes
    <3>3. gets[6] = "is_dp_lttpr_sup" /\ 6 \in 1 .. Len(gets)
      OBVIOUS
    <3>4. ins[10] = "is_dp_in_dptx_req" /\ 10 \in 1 .. Len(ins)
      OBVIOUS
    <3> HIDE DEF gets, ins
    <3> QED
      BY <3>1, <3>2, <3>3, <3>4, Zenon DEF Has
  <2>2. /\ Body(Details[t]) = dump_dp_attributes
        /\ Latest[t] = "is_dp_lttpr_sup" \/ (Latest[t] = "is_dp_in_dptx_req" /\ t = "dp_in")
    <3>1. t \in {"dp_in", "dp_out"}
      BY <1>6, TablesAre
    <3>2. Details[t] = "dump_dp_attributes"
      BY <3>1 DEF Details
    <3>3. Latest[t] = "is_dp_lttpr_sup" \/ (Latest[t] = "is_dp_in_dptx_req" /\ t = "dp_in")
      BY <3>1 DEF Latest
    <3> QED
      BY <3>2, <3>3 DEF Body
  <2>3. dump_dp_attributes = FlattenSeq(ss)
    BY Zenon DEF dump_dp_attributes, Each
  <2> HIDE DEF gets, ins
  <2>4. \A b \in 1 .. MaxAdapters : items(b) \in Seq(T)
    BY <1>3, <2>1, SeqParts, Zenon
  <2>5. Has(items(a), Q(Latest[t], a))
    <3>1. /\ Has(All(gets, a), Q("is_dp_lttpr_sup", a))
          /\ Has(All(ins, a), Q("is_dp_in_dptx_req", a))
      BY <2>1, HasAll, Zenon
    <3>2. All(gets, a) \in Seq(T) /\ When(types[a] = "dp_in", All(ins, a)) \in Seq(T)
      BY <1>2, <1>3, <2>1, SeqParts, Zenon
    <3>3. t = "dp_in" => Has(When(types[a] = "dp_in", All(ins, a)), Q("is_dp_in_dptx_req", a))
      BY <3>1, HasParts, Zenon
    <3> QED
      BY <2>2, <3>1, <3>2, <3>3, HasParts, Zenon
  <2> HIDE DEF items
  <2>6. /\ \A b \in 1 .. MaxAdapters : ss[b] = When(b \in active, items(b))
        /\ ss = [b \in 1 .. MaxAdapters |-> ss[b]]
    BY Zenon
  <2>7. /\ \A b \in 1 .. MaxAdapters : ss[b] \in Seq(T)
        /\ Has(ss[a], Q(Latest[t], a))
    BY <1>2, <2>4, <2>5, <2>6, SeqParts, HasParts, Zenon
  <2> HIDE DEF ss
  <2>8. Has(FlattenSeq(ss), Q(Latest[t], a))
    BY <1>2, <2>6, <2>7, HasLoop, Zenon
  <2> QED
    BY <2>2, <2>3, <2>8, Zenon
<1>7. t \in Usb3 \/ t \in Pcie \/ t \in Dp
  BY TablesAre
<1> QED
  BY <1>4, <1>5, <1>6, <1>7, Zenon

\* A version on the list is followed by what a router of that version is asked.
LEMMA AskHas ==
  ASSUME Quiet, env \in Envs, TypesFound, env.loud = TRUE,
         NEW g, NEW a, Due(g, a),
         NEW f, NEW q \in Items(f.fn), q \in Fits(f.fn), q.get \in Questions,
         f.todo \in Seq(AnyItem), f.todo # <<>>, q = Head(f.todo),
         TypesKnown \/ q.get = "get_adp_pvs",
         NEW h, h.fn = f.fn, h.todo = After(f, q, Answer(q)) \o Tail(f.todo),
         h.max = IF q.get = "get_max_adp" THEN Number[Answer(q)] ELSE f.max,
         Pends(f, g, a)
  PROVE  q = Q(g, a) \/ Pends(h, g, a)
<1> DEFINE ans == Answer(q)
           s == After(f, q, ans)
           r == Tail(f.todo)
           T == AnyItem
<1>1. IsEnv(env) /\ There(a) /\ a \in Adapters /\ a \in 1 .. MaxAdapters /\ g \in Questions
  <2>1. IsEnv(env) /\ There(a) /\ a \in Adapters /\ g \in Questions
    BY EnvIsOne, DueAsked, Zenon
  <2> QED
    BY <2>1, AdaptersFit DEF Adapters
<1>2. s \in Seq(T) /\ r \in Seq(T)
  <2>1. s \in Rests(f.fn, q)
    BY <1>1, AfterLeft, Zenon
  <2>2. s \in Seq(T)
    BY <2>1, RestItems, Zenon
  <2> HIDE DEF s, T
  <2> QED
    BY <2>2 DEF T
<1>3. /\ \A x : Has(s, x) \/ Has(r, x) => Has(h.todo, x)
      /\ \A x : Has(f.todo, x) => x = q \/ Has(r, x)
  <2>1. h.todo = s \o r
    OBVIOUS
  <2> HIDE DEF s, r
  <2>2. \A x : Has(s, x) \/ Has(r, x) => Has(h.todo, x)
    <3>1. \A x : Has(s, x) \/ Has(r, x) => Has(s \o r, x)
      BY <1>2, HasParts, Zenon
    <3> QED
      BY <2>1, <3>1, Zenon
  <2>3. \A x : Has(f.todo, x) => x = q \/ Has(r, x)
    BY HasParts, Zenon DEF r
  <2> QED
    BY <2>2, <2>3, Zenon
<1>4. q.get = "get_usb4v" => (is_usb4(q, ans) <=> env.usb4 = TRUE)
  BY VersionTells, Zenon
<1>5. q.get # "get_adp_pvs" => types[a] = env.types[a]
  BY <1>1, Zenon DEF TypesKnown
<1>6. ASSUME NEW x, Has(s, x), LeadsTo(f.fn, x, g, a) PROVE Pends(h, g, a)
  BY <1>3, <1>6, Zenon DEF Pends
<1>7. CASE \E x : Has(f.todo, x) /\ LeadsTo(f.fn, x, g, a)
  <2>1. PICK x : Has(f.todo, x) /\ LeadsTo(f.fn, x, g, a)
    BY <1>7, Zenon
  <2>2. CASE Has(r, x)
    BY <1>3, <2>1, <2>2, Zenon DEF Pends
  <2>3. CASE x = q
    <3>1. \/ q = Q(g, a)
          \/ f.fn = "dump_router_verbose" /\ g = "get_usb4_wake_status" /\ q = R("get_usb4v")
          \/ f.fn = "dump_lane_adapters" /\ g = "is_usb4_clx_supported" /\ q = Q("get_usb4v", a)
      <4>1. LeadsTo(f.fn, q, g, a)
        BY <2>1, <2>3, Zenon
      <4> QED
        BY <1>1, <4>1, NoneLeads
    <3>2. CASE f.fn = "dump_router_verbose" /\ g = "get_usb4_wake_status" /\ q = R("get_usb4v")
      <4>1. env.usb4 = TRUE
        BY <3>2, DueIs DEF Lane0Qs
      <4>2. q.get = "get_usb4v" /\ is_usb4(q, ans)
        BY <1>4, <3>2, <4>1, ItemsDiffer, Zenon
      <4>3. s = AfterHeader(q, ans)
        BY <3>2, Zenon DEF After
      <4>4. s = <<R("dump_wake_status")>>
        BY <4>2, <4>3, Zenon DEF AfterHeader, When
      <4>5. Has(s, R("dump_wake_status"))
        BY <4>4, HasParts, Zenon
      <4> QED
        BY <1>6, <3>2, <4>5, Zenon DEF LeadsTo
    <3>3. CASE f.fn = "dump_lane_adapters" /\ g = "is_usb4_clx_supported" /\ q = Q("get_usb4v", a)
      <4>1. env.usb4 = TRUE /\ a % 2 = 1 /\ env.types[a] = "lane"
        BY <3>3, DueIs DEF Lane0Qs
      <4>2. q.get = "get_usb4v" /\ q.at = a /\ is_usb4(q, ans)
        <5>1. q.get = "get_usb4v" /\ q.at = a
          BY <3>3, ItemsDiffer
        <5> QED
          BY <1>4, <4>1, <5>1, Zenon
      <4>3. is_adp_lane_0(a)
        BY <1>5, <4>1, <4>2 DEF is_adp_lane_0
      <4>4. s = AfterLane(q, ans)
        BY <3>3 DEF After
      <4>5. s = <<Q("are_hot_events_disabled", a)>> \o When(is_adp_lane_0(a), <<Q("is_usb4_clx_supported", a)>>)
        BY <4>2, <4>4 DEF AfterLane
      <4>6. Has(s, Q(g, a))
        <5> DEFINE x1 == Q("are_hot_events_disabled", a)
                   x2 == Q("is_usb4_clx_supported", a)
                   S  == {x1, x2}
        <5>1. <<x1>> \in Seq(S) /\ <<x2>> \in Seq(S)
          OBVIOUS
        <5> HIDE DEF s, x1, x2, S
        <5>2. s = <<x1>> \o <<x2>>
          BY <4>3, <4>5, Zenon DEF When, x1, x2
        <5>3. Has(s, x2)
          BY <5>1, <5>2, HasParts, Zenon
        <5> QED
          BY <3>3, <5>3, Zenon DEF x2
      <4> QED
        BY <1>6, <4>6, Zenon DEF LeadsTo
    <3> QED
      BY <3>1, <3>2, <3>3, Zenon
  <2> QED
    BY <1>3, <2>1, <2>2, <2>3, Zenon
<1>8. CASE Wakes(f, g)
  <2>1. CASE q = R("get_usb4v")
    <3>1. q.get = "get_usb4v" /\ q # R("get_max_adp")
      BY <2>1, ItemsDiffer
    <3>2. f.max = Len(env.types)
      BY <1>8, <3>1, Zenon DEF Wakes
    <3>3. a \in LanesUpTo(f.max)
      <4>1. env.types[a] = "lane" /\ a % 2 = 1 /\ a <= Len(env.types)
        <5>1. g \in WakeQs \cup Lane0Qs
          BY <1>8 DEF Wakes, Lane0Qs
        <5>2. g \in {"is_adp_locked", "get_tbt3_wake_events_en"} \cup Lane0Qs
          BY <5>1 DEF WakeQs, Lane0Qs
        <5>3. env.types[a] = "lane" /\ a % 2 = 1
          BY <5>1, <5>2, DueIs
        <5> QED
          BY <1>1, <5>3 DEF There
      <4> QED
        BY <1>1, <1>5, <3>1, <3>2, <4>1 DEF LanesUpTo, is_adp_lane_0
    <3> DEFINE loop(x) == Each(LanesUpTo(f.max), LAMBDA b : <<Q(x, b)>>)
    <3>4. \A x : Has(loop(x), Q(x, a))
      BY <1>1, <3>3, HasLoops, Zenon DEF Each
    <3> HIDE DEF s, ans
    <3>5. Has(s, Q(g, a))
      <4>1. CASE f.fn = "dump_wakes" /\ g = "get_tbt3_wake_events_en"
        <5>1. ~is_usb4(q, ans)
          BY <1>4, <3>1, <4>1, DueIs
        <5>2. s = AfterWakes(q, ans, f.max)
          BY <4>1, Zenon DEF After, s
        <5>3. s = loop("get_tbt3_wake_events_en")
          BY <3>1, <5>1, <5>2, Zenon DEF AfterWakes, When, Each
        <5> HIDE DEF loop
        <5> QED
          BY <3>4, <4>1, <5>3, Zenon
      <4>2. CASE f.fn = "dump_wakes" /\ g = "get_usb4_wakes_en"
        <5>1. is_usb4(q, ans)
          BY <1>4, <3>1, <4>2, DueIs DEF Lane0Qs
        <5>2. s = AfterWakes(q, ans, f.max)
          BY <4>2, Zenon DEF After, s
        <5> DEFINE w == When(IsDevice, <<R("dump_usb4_gen_wakes")>>)
                   S == {R("dump_usb4_gen_wakes")} \cup {Q("get_usb4_wakes_en", b) : b \in 1 .. MaxAdapters}
        <5>3. s = w \o loop("get_usb4_wakes_en")
          BY <3>1, <5>1, <5>2, Zenon DEF AfterWakes, When, Each
        <5>4. R("dump_usb4_gen_wakes") \in S /\ \A b \in 1 .. MaxAdapters : Q("get_usb4_wakes_en", b) \in S
          OBVIOUS
        <5> HIDE DEF S
        <5>5. w \in Seq(S) /\ loop("get_usb4_wakes_en") \in Seq(S)
          BY <5>4, SeqParts, SeqLoops, Zenon DEF Each
        <5> HIDE DEF w, loop
        <5> QED
          BY <3>4, <4>2, <5>3, <5>5, HasParts, Zenon
      <4>3. CASE f.fn = "dump_wake_status" /\ g = "get_usb4_wake_status"
        <5>1. is_usb4(q, ans)
          BY <1>4, <3>1, <4>3, DueIs DEF Lane0Qs
        <5>2. s = AfterWakeStatus(q, ans, f.max)
          BY <4>3, Zenon DEF After, s
        <5>3. s = loop("get_usb4_wake_status")
          BY <3>1, <5>1, <5>2, Zenon DEF AfterWakeStatus, When, Each
        <5> HIDE DEF loop
        <5> QED
          BY <3>4, <4>3, <5>3, Zenon
      <4> QED
        BY <1>8, <4>1, <4>2, <4>3 DEF Wakes, WakeQs
    <3> QED
      BY <1>6, <3>5, Zenon DEF LeadsTo
  <2>2. CASE q # R("get_usb4v")
    <3>1. Has(h.todo, R("get_usb4v"))
      BY <1>3, <1>8, <2>2, Zenon DEF Wakes
    <3>2. h.max = Len(env.types)
      <4>1. CASE q.get = "get_max_adp"
        BY <4>1, MaxIs
      <4>2. CASE q.get # "get_max_adp"
        <5>1. q # R("get_max_adp")
          BY <4>2, ItemsDiffer
        <5> QED
          BY <1>8, <4>2, <5>1 DEF Wakes
      <4> QED
        BY <4>1, <4>2
    <3> QED
      BY <1>8, <3>1, <3>2, Zenon DEF Wakes, Pends
  <2> QED
    BY <2>1, <2>2
<1> QED
  BY <1>7, <1>8, Zenon DEF Pends

\* The functions for types go on with a DP adapter only.
LEMMA ListerAfter ==
  ASSUME NEW t \in Kinds, NEW f, f.fn = Lister[t], NEW q, NEW ans
  PROVE  After(f, q, ans) = AfterEnabled(q, ans)
<1>1. f.fn \in Usb3Fns \cup PcieFns \cup DpFns
  BY TablesAre
<1> QED
  BY <1>1 DEF After, Usb3Fns, PcieFns, DpFns

\* f asks question q and has more to ask before it tells of the adapters.
GoesOn(f, on, a, q) ==
  \E s \in Seq(Inquiries) :
    /\ s # <<>> /\ q = Head(s)
    /\ Tail(f.todo) = Tail(s) \o <<R(Details[env.types[a]])>>
    /\ a \in on \/ Probes(s, a)

\* What gathers begins with a question or is about to tell of the adapters.
LEMMA GatherNext ==
  ASSUME NEW f, NEW on, NEW g, NEW a, Gathers(f, on, g, a), NEW q, q = Head(f.todo)
  PROVE  /\ env.types[a] \in Kinds /\ f.todo # <<>>
         /\ \/ q = R(Details[env.types[a]]) /\ a \in on
            \/ q.get \in Questions /\ GoesOn(f, on, a, q)
<1> DEFINE t == env.types[a]
           y == R(Details[t])
<1>1. t \in Kinds
  BY Zenon DEF Gathers
<1>2. PICK s \in Seq(Inquiries) : f.todo = s \o <<y>> /\ (a \in on \/ Probes(s, a))
  BY Zenon DEF Gathers
<1> HIDE DEF y
<1>3. CASE s = <<>>
  <2>1. f.todo = <<y>> /\ f.todo # <<>> /\ q = y
    BY <1>2, <1>3
  <2>2. ~Probes(s, a)
    BY <1>3, HasParts, Zenon DEF Probes
  <2> QED
    BY <1>1, <1>2, <2>1, <2>2, Zenon DEF y
<1>4. CASE s # <<>>
  <2>1. \A S : \A z \in Seq(S) : z # <<>> =>
          z \o <<y>> # <<>> /\ Head(z \o <<y>>) = Head(z) /\ Tail(z \o <<y>>) = Tail(z) \o <<y>>
            /\ Head(z) \in S
    OBVIOUS
  <2>2. /\ f.todo # <<>> /\ q = Head(s) /\ Tail(f.todo) = Tail(s) \o <<y>>
        /\ q \in Inquiries
    BY <1>2, <1>4, <2>1, Zenon
  <2>3. q.get \in Questions
    BY <2>2, Zenon DEF Inquiries
  <2> QED
    BY <1>1, <1>2, <1>4, <2>2, <2>3, Zenon DEF y, GoesOn
<1> QED
  BY <1>3, <1>4

\* An adapter that is to be found enabled, is.
LEMMA ProbeAnswers ==
  ASSUME Quiet, env \in Envs, TypesFound, NEW g, NEW a, Due(g, a),
         env.types[a] \in Kinds, g = Latest[env.types[a]],
         NEW fn, NEW e \in Enablers(env.types[a]), NEW q \in Items(fn), q \in Fits(fn), q = Q(e, a),
         Nonzero(e, a) \/ e = "is_dp_aux_en"
  PROVE  /\ ~Recognised(q, Answer(q))
         /\ Answer(q) # {} \/ (e = "is_dp_aux_en" /\ \E v \in Enablers(env.types[a]) :
                                                       v = "is_dp_vid_en" /\ Nonzero(v, a))
<1>1. e \in Enables /\ q.get = e
  BY TablesAre, ItemsDiffer
<1>2. /\ e \in Questions /\ e # "get_adp_pvs" /\ e \notin SleepQs /\ IsEnv(env)
      /\ e \in Checked \/ e = "is_dp_vid_en"
  <2>1. /\ e \in Questions /\ e # "get_adp_pvs" /\ e \notin SleepQs
        /\ e \in Checked \/ e = "is_dp_vid_en"
    BY <1>1 DEF Enables, SleepQs, Checked, Questions, By6, By8, By16, By32, Unchecked, Codes
  <2> QED
    BY <2>1, EnvIsOne, Zenon
<1>3. ~Lookup(q).failed /\ ~SleepLine(q)
  <2>1. ~SleepLine(q)
    BY <1>1, <1>2 DEF SleepLine, SleepQs
  <2>2. ~Excused(q)
    BY <1>1, <1>2, <2>1 DEF Excused
  <2> QED
    BY <1>1, <1>2, <2>1, <2>2, MayAsk, Zenon
<1>4. ~Shifted(q)
  BY QuietFinds DEF Shifted
<1>5. Answer(q) = Truth(q)
  BY <1>1, <1>2, <1>3, <1>4, AnswerTells
<1>6. ~Recognised(q, Answer(q))
  <2>1. CASE e \in Checked
    BY <1>1, <1>2, <1>3, <2>1, AnswerIsRecognised
  <2>2. CASE e = "is_dp_vid_en"
    BY <1>1, <2>2 DEF Recognised, Unchecked
  <2> QED
    BY <1>2, <2>1, <2>2
<1>7. Nonzero(e, a) => Answer(q) # {}
  BY <1>5, Zenon DEF Nonzero
<1>8. ASSUME ~Nonzero(e, a)
      PROVE  e = "is_dp_aux_en" /\ \E v \in Enablers(env.types[a]) : v = "is_dp_vid_en" /\ Nonzero(v, a)
  <2>1. PICK v \in Enablers(env.types[a]) : Nonzero(v, a)
    BY DueIs DEF Enabled
  <2>2. e = "is_dp_aux_en" /\ v # e
    BY <1>8, <2>1
  <2>3. v = "is_dp_vid_en"
    <3>1. Enabler[env.types[a]] # "is_dp_vid_en"
      BY DEF Kinds, Enabler
    <3> QED
      BY <2>2, <3>1 DEF Enablers
  <2> QED
    BY <2>1, <2>2, <2>3, Zenon
<1> QED
  BY <1>6, <1>7, <1>8, Zenon

\* An answer goes on with gathering.
LEMMA GatherAsk ==
  ASSUME Quiet, env \in Envs, TypesFound,
         NEW g, NEW a, Due(g, a),
         NEW f, NEW q \in Items(f.fn), q \in Fits(f.fn), q.get \in Questions, q = Head(f.todo),
         NEW h, h.fn = f.fn, h.todo = After(f, q, Answer(q)) \o Tail(f.todo),
         NEW on, Gathers(f, on, g, a), NEW on2, on \subseteq on2,
         q.get \in Enables /\ ~Recognised(q, Answer(q)) /\ Answer(q) # {} => q.at \in on2
  PROVE  Gathers(h, on2, g, a)
<1> DEFINE t == env.types[a]
           y == R(Details[t])
           ans == Answer(q)
           w == AfterEnabled(q, ans)
<1>1. t \in Kinds /\ g = Latest[t] /\ f.fn = Lister[t]
  BY Zenon DEF Gathers
<1>2. q # y
  BY <1>1, TablesAre, FunctionsApart, ItemsDiffer
<1>3. PICK s \in Seq(Inquiries) :
         /\ s # <<>> /\ q = Head(s) /\ Tail(f.todo) = Tail(s) \o <<y>>
         /\ a \in on \/ Probes(s, a)
  <2>1. GoesOn(f, on, a, q)
    BY <1>2, GatherNext, Zenon
  <2> QED
    BY <2>1, Zenon DEF GoesOn
<1>4. w \in Seq(Inquiries)
  <2>1. Q("is_dp_vid_en", q.at) \in Inquiries
    <3>1. q.at \in 0 .. 64
      BY DEF Items
    <3> QED
      BY <3>1 DEF Inquiries, AnyItem, Q, Asks, AdapterQs, Questions, Unchecked
  <2> QED
    BY <2>1, SeqParts, Zenon DEF AfterEnabled
<1>5. Tail(s) \in Seq(Inquiries)
  BY <1>3
<1>6. h.todo = (w \o Tail(s)) \o <<y>> /\ w \o Tail(s) \in Seq(Inquiries)
  <2>1. After(f, q, ans) = w
    BY <1>1, ListerAfter
  <2>2. h.todo = w \o (Tail(s) \o <<y>>)
    BY <1>3, <2>1
  <2> HIDE DEF w, y
  <2>3. \A S, z : \A u, v \in Seq(S) : u \o (v \o <<z>>) = (u \o v) \o <<z>> /\ u \o v \in Seq(S)
    OBVIOUS
  <2>4. w \o (Tail(s) \o <<y>>) = (w \o Tail(s)) \o <<y>> /\ w \o Tail(s) \in Seq(Inquiries)
    <3> DEFINE v == Tail(s)
    <3>1. v \in Seq(Inquiries)
      BY <1>5
    <3> HIDE DEF v
    <3>2. w \o (v \o <<y>>) = (w \o v) \o <<y>> /\ w \o v \in Seq(Inquiries)
      <4> DEFINE S == Inquiries
      <4>1. w \in Seq(S) /\ v \in Seq(S)
        BY <1>4, <3>1
      <4> HIDE DEF S
      <4>2. w \o (v \o <<y>>) = (w \o v) \o <<y>> /\ w \o v \in Seq(S)
        BY <4>1
      <4> QED
        BY <4>2 DEF S
    <3> QED
      BY <3>2, Zenon DEF v
  <2> QED
    BY <2>2, <2>4, Zenon
<1>7. ASSUME a \notin on2 PROVE Probes(w \o Tail(s), a)
  <2>1. PICK e \in Enablers(t) : Has(s, Q(e, a)) /\ (Nonzero(e, a) \/ e = "is_dp_aux_en")
    BY <1>3, <1>7, Zenon DEF Probes
  <2> HIDE DEF w
  <2>2. \A x : Has(w, x) \/ Has(Tail(s), x) => Has(w \o Tail(s), x)
    BY <1>4, <1>5, HasParts, Zenon
  <2>3. Q(e, a) = q \/ Has(Tail(s), Q(e, a))
    BY <1>3, <2>1, HasParts, Zenon
  <2>4. CASE Has(Tail(s), Q(e, a))
    BY <2>1, <2>2, <2>4, Zenon DEF Probes
  <2>5. CASE Q(e, a) = q
    <3>1. /\ ~Recognised(q, ans)
          /\ ans # {} \/ (e = "is_dp_aux_en" /\ \E v \in Enablers(t) : v = "is_dp_vid_en" /\ Nonzero(v, a))
      BY <1>1, <2>1, <2>5, ProbeAnswers, Zenon
    <3>2. q.get = e /\ q.at = a /\ e \in Enables
      BY <1>1, <2>5, ItemsDiffer, TablesAre
    <3>3. ans = {}
      BY <1>7, <3>1, <3>2, Zenon
    <3>4. PICK v \in Enablers(t) : v = "is_dp_vid_en" /\ Nonzero(v, a) /\ e = "is_dp_aux_en"
      BY <3>1, <3>3, Zenon
    <3>5. w = <<Q("is_dp_vid_en", a)>>
      BY <3>1, <3>2, <3>4, Zenon DEF AfterEnabled, When, w
    <3>6. Has(w, Q(v, a))
      BY <3>4, <3>5, HasParts, Zenon
    <3> QED
      BY <2>2, <3>4, <3>6, Zenon DEF Probes
  <2> QED
    BY <2>3, <2>4, <2>5, Zenon
<1> HIDE DEF w, y
<1> QED
  BY <1>1, <1>6, <1>7, Zenon DEF Gathers, y

\* What the adapters that were gathered are told about with.
LEMMA GatherCall ==
  ASSUME TypesKnown, active \subseteq Adapters, NEW g, NEW a, Due(g, a),
         NEW f, Gathers(f, active, g, a), NEW fn, fn \notin Questions, R(fn) = Head(f.todo)
  PROVE  fn \in AttributeFns /\ Pends(Frame(fn, Body(fn)), g, a)
<1> DEFINE t == env.types[a]
<1>1. t \in Kinds /\ g = Latest[t]
  BY Zenon DEF Gathers
<1>2. types[a] = t
  BY LaneKnown, Zenon
<1>3. R(fn).get \notin Questions
  BY ItemsDiffer, Zenon
<1>4. R(fn) = R(Details[t]) /\ a \in active
  BY <1>3, GatherNext, Zenon
<1>5. fn = Details[t]
  BY <1>4, ItemsDiffer, Zenon
<1>6. Has(Body(fn), Q(g, a))
  BY <1>1, <1>2, <1>4, <1>5, DetailsHave, Zenon
<1>7. fn \in AttributeFns
  BY <1>1, <1>5, TablesAre, Zenon
<1> DEFINE h == Frame(fn, Body(fn))
<1>8. h.todo = Body(fn)
  BY NewFrame, Zenon
<1> HIDE DEF h
<1>9. Pends(h, g, a)
  BY <1>6, <1>8, Zenon DEF Pends, LeadsTo
<1> QED
  BY <1>7, <1>9, Zenon DEF h

-----------------------------------------------------------------------------
(* What is due stays open *)

\* What is due, and what will be asked, depends on the router alone.
LEMMA DueSame ==
  ASSUME env' = env
  PROVE  /\ \A a : There(a)' <=> There(a)
         /\ \A g, a : Due(g, a)' <=> Due(g, a)
         /\ \A f, g, a : Pends(f, g, a)' <=> Pends(f, g, a)
         /\ \A st, g, a : StackPends(st, g, a)' <=> StackPends(st, g, a)
         /\ \A f, on, g, a : Gathers(f, on, g, a)' <=> Gathers(f, on, g, a)
<1>1. \A e, a : Nonzero(e, a)' <=> Nonzero(e, a)
  BY EnvSame, Zenon DEF Nonzero
<1>2. \A a : There(a)' <=> There(a)
  BY Zenon DEF There
<1>3. \A a : Enabled(a)' <=> Enabled(a)
  BY <1>1, Zenon DEF Enabled
<1>4. \A g, a : Due(g, a)' <=> Due(g, a)
  BY <1>2, <1>3, Zenon DEF Due
<1>5. \A fn, q, g, a : LeadsTo(fn, q, g, a)' <=> LeadsTo(fn, q, g, a)
  BY DEF LeadsTo
<1>6. \A f, g : Wakes(f, g)' <=> Wakes(f, g)
  BY Zenon DEF Wakes
<1>7. \A f, g, a : Pends(f, g, a)' <=> Pends(f, g, a)
  BY <1>5, <1>6, Zenon DEF Pends
<1>8. \A st, g, a : StackPends(st, g, a)' <=> StackPends(st, g, a)
  BY <1>7, Zenon DEF StackPends
<1>9. \A s, a : Probes(s, a)' <=> Probes(s, a)
  BY <1>1, Zenon DEF Probes
<1>10. \A f, on, g, a : Gathers(f, on, g, a)' <=> Gathers(f, on, g, a)
  BY <1>9, Zenon DEF Gathers
<1> QED
  BY <1>2, <1>4, <1>7, <1>8, <1>10, Zenon

\* The stack has what its top has, and what the rest of it has.
LEMMA TopPends ==
  ASSUME NEW S, NEW st \in Seq(S), st # <<>>, NEW g, NEW a, StackPends(st, g, a)
  PROVE  Pends(Head(st), g, a) \/ StackPends(Tail(st), g, a)
<1>1. PICK k \in 1 .. Len(st) : Pends(st[k], g, a)
  BY Zenon DEF StackPends
<1>2. CASE k = 1
  BY <1>1, <1>2
<1>3. CASE k # 1
  <2>1. PICK i : i = k - 1
    OBVIOUS
  <2>2. i \in 1 .. Len(Tail(st)) /\ Tail(st)[i] = st[k]
    BY <1>3, <2>1
  <2> QED
    BY <1>1, <2>2, Zenon DEF StackPends
<1> QED
  BY <1>2, <1>3

\* What is put on the stack leaves what is below.
LEMMA PushPends ==
  ASSUME NEW S, NEW f \in S, NEW t \in Seq(S), NEW g, NEW a, Pends(f, g, a) \/ StackPends(t, g, a)
  PROVE  StackPends(<<f>> \o t, g, a)
<1> DEFINE st == <<f>> \o t
<1>1. st[1] = f /\ 1 \in 1 .. Len(st)
  OBVIOUS
<1>2. ASSUME NEW k \in 1 .. Len(t) PROVE \E i \in 1 .. Len(st) : st[i] = t[k]
  <2>1. PICK i : i = k + 1
    OBVIOUS
  <2>2. i \in 1 .. Len(st) /\ st[i] = t[k]
    BY <2>1
  <2> QED
    BY <2>2, Zenon
<1> HIDE DEF st
<1>3. StackPends(st, g, a)
  BY <1>1, <1>2, Zenon DEF StackPends
<1> QED
  BY <1>3, Zenon DEF st

\* What pends on the stack is open.
LEMMA PendsOpen ==
  ASSUME env' = env, NEW g, NEW a, NEW st, stack' = st, StackPends(st, g, a)
  PROVE  Open(g, a)'
BY DueSame, Zenon DEF Open

\* The invariant, of what it is made of.
LEMMA AskedOf ==
  ASSUME env' = env, Filling', fate' = "done" => stack' = <<>>,
         \A g, a : Due(g, a) => Open(g, a)'
  PROVE  AskedInv'
BY DueSame, Zenon DEF AskedInv

\* The calls in the stack, and the one of it that goes on.
LEMMA CalleeIs ==
  ASSUME StackFits, stack # <<>>, frame.todo # <<>>, next.get \notin Leaders
  PROVE  \E c \in Frames(Nobody) :
           /\ c.fn = frame.fn /\ c.todo = Tail(frame.todo) /\ c.max = frame.max
           /\ Callee = <<c>> \o Tail(stack)
<1> DEFINE s == Tail(frame.todo)
           f == [frame EXCEPT !.todo = s]
<1>1. /\ frame \in Frames(last.q) /\ s \in Rests(frame.fn, next) /\ frame.max \in 0 .. 64
  BY NextItem, Zenon
<1>2. s \in Rests(frame.fn, Nobody)
  BY <1>1, Alone, Zenon DEF Lists
<1>3. f \in Frames(Nobody)
  <2>1. \A m \in 0 .. 64, b \in BOOLEAN : [frame EXCEPT !.todo = s] \in Frames(Nobody)
    BY <1>1, <1>2, FrameLeft, Zenon
  <2>2. TRUE \in BOOLEAN
    OBVIOUS
  <2> QED
    BY <1>1, <2>1, <2>2, Zenon
<1>4. f.fn = frame.fn /\ f.todo = s
  BY <1>1, FrameIs, Zenon
<1>5. f.max = frame.max
  <2> DEFINE Fns == Functions \cup {"dump_router_verbose"}
             AnyFrame == [fn : Fns, todo : Seq(AnyItem), max : 0 .. 64, failed : BOOLEAN]
  <2>1. frame \in AnyFrame
    BY <1>1, Zenon DEF Frames, AnyItem
  <2> HIDE DEF Fns, s
  <2> QED
    BY <2>1
<1>6. Callee = <<f>> \o Tail(stack)
  BY Zenon DEF Callee
<1> HIDE DEF f
<1> QED
  BY <1>3, <1>4, <1>5, <1>6, Zenon DEF s

\* A call takes nothing from the list but what it is for.
LEMMA CallPends ==
  ASSUME NEW g \in Questions, NEW a, NEW f, f.todo \in Seq(AnyItem), f.todo # <<>>, NEW q, q = Head(f.todo),
         q.get \notin Questions,
         NEW c, c.fn = f.fn, c.todo = Tail(f.todo), c.max = f.max, Pends(f, g, a)
  PROVE  Pends(c, g, a) \/ LeadsTo(f.fn, q, g, a)
<1>1. \A x : Has(f.todo, x) => x = q \/ Has(c.todo, x)
  BY HasParts, Zenon
<1>2. CASE \E x : Has(f.todo, x) /\ LeadsTo(f.fn, x, g, a)
  BY <1>1, <1>2, Zenon DEF Pends
<1>3. CASE Wakes(f, g)
  <2>1. q # R("get_usb4v") /\ q # R("get_max_adp")
    <3>1. "get_usb4v" \in Questions /\ "get_max_adp" \in Questions
      BY DEF Questions, By6, By8
    <3> QED
      BY <3>1, ItemsDiffer
  <2>2. Has(c.todo, R("get_usb4v"))
    BY <1>1, <1>3, <2>1, Zenon DEF Wakes
  <2>3. c.max = Len(env.types)
    BY <1>3, <2>1, Zenon DEF Wakes
  <2> QED
    BY <1>3, <2>2, <2>3, Zenon DEF Wakes, Pends
<1> QED
  BY <1>2, <1>3, Zenon DEF Pends

\* The function that finds the types asks all adapters.
LEMMA FillHas ==
  /\ \A q : Has(fill_adp_types_in_router, q) => q.get = "get_adp_pvs"
  /\ \A a : There(a) => Has(fill_adp_types_in_router, Q("get_adp_pvs", a))
<1> DEFINE T == {Q("get_adp_pvs", b) : b \in 1 .. MaxAdapters}
           s == fill_adp_types_in_router
<1>1. \A b \in 1 .. MaxAdapters : Q("get_adp_pvs", b) \in T
  OBVIOUS
<1>2. \A q \in T : q.get = "get_adp_pvs"
  BY ItemsDiffer, Zenon
<1> HIDE DEF T
<1>3. s \in Seq(T)
  BY <1>1, SeqLoops, Zenon DEF fill_adp_types_in_router, Each
<1>4. ASSUME NEW a, There(a) PROVE Has(s, Q("get_adp_pvs", a))
  <2>1. a \in Adapters /\ a \in 1 .. MaxAdapters
    BY <1>4, AdaptersFit DEF There, Adapters
  <2> QED
    BY <2>1, HasLoops, Zenon DEF fill_adp_types_in_router, Each
<1> HIDE DEF s
<1>5. \A q : Has(s, q) => q.get = "get_adp_pvs"
  <2>1. ASSUME NEW q, Has(s, q) PROVE q \in T
    <3>1. PICK j \in 1 .. Len(s) : s[j] = q
      BY <2>1, Zenon DEF Has
    <3> QED
      BY <1>3, <3>1
  <2> QED
    BY <1>2, <2>1, Zenon
<1> QED
  BY <1>4, <1>5, Zenon DEF s

\* The types that were known, are.
LEMMA KnownSame ==
  ASSUME env' = env, types' = types
  PROVE  TypesKnown' <=> TypesKnown
BY DueSame, Zenon DEF TypesKnown

\* The first of the list is on it.
LEMMA HeadHas ==
  ASSUME NEW T, NEW s \in Seq(T), s # <<>>
  PROVE  Has(s, Head(s))
<1>1. 1 \in 1 .. Len(s) /\ s[1] = Head(s)
  OBVIOUS
<1> QED
  BY <1>1, Zenon DEF Has

\* The list of the function that runs.
LEMMA NextOnList ==
  ASSUME StackFits, stack # <<>>, frame.todo # <<>>
  PROVE  /\ frame.todo \in Seq(AnyItem) /\ Has(frame.todo, next) /\ next \in AnyItem
         /\ Tail(frame.todo) \in Seq(AnyItem)
         /\ \A q : Has(frame.todo, q) => q = next \/ Has(Tail(frame.todo), q)
<1>1. frame.todo \in Seq(AnyItem)
  BY NextItem, RestItems, Zenon
<1> DEFINE s == frame.todo
<1> HIDE DEF s
<1>2. s \in Seq(AnyItem) /\ s # <<>>
  BY <1>1, Zenon DEF s
<1>3. Head(s) \in AnyItem /\ Tail(s) \in Seq(AnyItem)
  <2> DEFINE T == AnyItem
  <2>1. s \in Seq(T)
    BY <1>2
  <2> HIDE DEF T
  <2>2. Head(s) \in T /\ Tail(s) \in Seq(T)
    BY <1>2, <2>1
  <2> QED
    BY <2>2 DEF T
<1>4. Has(s, Head(s)) /\ \A q : Has(s, q) => q = Head(s) \/ Has(Tail(s), q)
  BY <1>2, HeadHas, HasParts, Zenon
<1> QED
  BY <1>1, <1>3, <1>4, Zenon DEF s, next

\* What can be pending or gathered while the types are being found.
LEMMA FillingNext ==
  ASSUME DumpInv, Filling, stack # <<>>, frame.todo # <<>>, next.get \notin Questions
  PROVE  TypesKnown \/ next = R("fill_adp_types_in_router")
<1>1. Has(frame.todo, next)
  BY NextOnList, Zenon DEF DumpInv
<1>2. "get_adp_pvs" \in Questions
  BY DEF Questions, By32
<1> QED
  BY <1>1, <1>2, Zenon DEF Filling

\* A function is called.
LEMMA AskedCall ==
  ASSUME DumpInv, AskedInv, Quiet, env.loud = TRUE, Call
  PROVE  AskedInv'
<1> DEFINE fn == next.get
           f == Frame(fn, Body(fn))
           t == Tail(stack)
           r == Tail(frame.todo)
<1>1. /\ stack # <<>> /\ frame.todo # <<>> /\ fn \notin Questions /\ fn # "get_upstream_router"
      /\ StackFits /\ fate = "running" /\ active \subseteq Adapters
      /\ Filling /\ \A g, a : Due(g, a) => Open(g, a)
  BY Zenon DEF Call, Running, DumpInv, AskedInv, Typed
<1>2. fn \in Functions /\ fn \notin Leaders
  <2>1. next \in Items(frame.fn)
    BY <1>1, NextItem, Zenon
  <2>2. fn \in Asks \cup Functions \cup {"get_upstream_router"}
    BY <2>1 DEF Items
  <2> QED
    BY <1>1, <2>2, AsksAreQuestions
<1>3. PICK c \in Frames(Nobody) :
        /\ c.fn = frame.fn /\ c.todo = r /\ c.max = frame.max
        /\ Callee = <<c>> \o t
  BY <1>1, <1>2, CalleeIs, Zenon
<1>4. t \in Seq(Frames(Nobody))
  BY <1>1, NextItem, Zenon
<1>5. /\ env' = env /\ types' = types /\ asked' = asked /\ fate' = fate
      /\ stack' = <<f>> \o Callee
      /\ active' = IF fn \in AttributeFns THEN active ELSE {}
  BY Zenon DEF Call, AttributeFns
<1>6. /\ frame.todo \in Seq(AnyItem) /\ next \in AnyItem /\ r \in Seq(AnyItem)
      /\ Has(frame.todo, next)
  BY <1>1, NextOnList, Zenon
<1>7. f.fn = fn /\ f.todo = Body(fn)
  BY NewFrame, Zenon
<1> HIDE DEF fn, f, t, r
<1> DEFINE S == {f} \cup Frames(Nobody)
<1>8. f \in S /\ c \in S /\ t \in Seq(S) /\ stack = <<frame>> \o t /\ stack \in Seq({frame} \cup Frames(Nobody))
  <2>1. f \in S /\ c \in S /\ Frames(Nobody) \subseteq S
    OBVIOUS
  <2>2. t \in Seq(S)
    BY <1>4, <2>1, SeqGrows, Zenon
  <2>3. stack \in Seq(Frames(last.q))
    BY <1>1, Zenon DEF StackFits, Stacked
  <2>4. stack = <<frame>> \o t
    <3> DEFINE T == Frames(last.q)
    <3>1. stack \in Seq(T)
      BY <2>3
    <3> HIDE DEF T
    <3> QED
      BY <1>1, <3>1 DEF frame, t
  <2>5. <<frame>> \o t \in Seq({frame} \cup Frames(Nobody))
    <3> DEFINE T == {frame} \cup Frames(Nobody)
    <3>1. frame \in T /\ Frames(Nobody) \subseteq T
      OBVIOUS
    <3>2. t \in Seq(T)
      BY <1>4, <3>1, SeqGrows, Zenon
    <3> HIDE DEF T
    <3>3. <<frame>> \o t \in Seq(T)
      BY <3>1, <3>2
    <3> QED
      BY <3>3 DEF T
  <2> QED
    BY <2>1, <2>2, <2>4, <2>5, Zenon
<1> HIDE DEF S
<1>9. \A g, a : Pends(f, g, a) \/ Pends(c, g, a) \/ StackPends(t, g, a) => Open(g, a)'
  <2>1. <<c>> \o t \in Seq(S)
    BY <1>8
  <2>2. \A g, a : Pends(f, g, a) \/ StackPends(<<c>> \o t, g, a) => StackPends(<<f>> \o (<<c>> \o t), g, a)
    BY <1>8, <2>1, PushPends, Zenon
  <2>3. \A g, a : Pends(c, g, a) \/ StackPends(t, g, a) => StackPends(<<c>> \o t, g, a)
    BY <1>8, PushPends, Zenon
  <2> QED
    BY <1>3, <1>5, <2>2, <2>3, PendsOpen, Zenon
<1>10. frame' = f /\ stack' # <<>>
  <2>1. <<c>> \o t \in Seq(S)
    BY <1>8
  <2>2. Head(<<f>> \o (<<c>> \o t)) = f /\ <<f>> \o (<<c>> \o t) # <<>>
    BY <1>8, <2>1
  <2> QED
    BY <1>3, <1>5, <2>2, Zenon DEF frame
<1>11. TypesKnown \/ next = R("fill_adp_types_in_router")
  BY <1>1, FillingNext, Zenon DEF fn
<1>12. Filling'
  <2>1. CASE TypesKnown
    BY <1>5, <2>1, KnownSame, Zenon DEF Filling
  <2>2. CASE next = R("fill_adp_types_in_router")
    <3>1. fn = "fill_adp_types_in_router"
      BY <2>2, ItemsDiffer, Zenon DEF fn
    <3>2. f.fn = "fill_adp_types_in_router" /\ f.todo = fill_adp_types_in_router
      BY <1>7, <3>1 DEF Body
    <3>3. \A a : There(a)' => Has(f.todo, Q("get_adp_pvs", a))
      BY <1>5, <3>2, DueSame, FillHas, Zenon
    <3>4. \A q : Has(f.todo, q) => q.get = "get_adp_pvs"
      BY <3>2, FillHas, Zenon
    <3> QED
      BY <1>10, <3>2, <3>3, <3>4, Zenon DEF Filling
  <2> QED
    BY <1>11, <2>1, <2>2
<1>13. ASSUME NEW g, NEW a, Due(g, a) PROVE Open(g, a)'
  <2>1. g \in Questions
    BY <1>13, DueAsked, Zenon
  <2>2. CASE <<g, a>> \in asked
    BY <1>5, <2>2, Zenon DEF Open
  <2>3. CASE StackPends(stack, g, a)
    <3>1. Pends(frame, g, a) \/ StackPends(t, g, a)
      BY <1>1, <1>8, <2>3, TopPends, Zenon DEF frame, t
    <3>2. CASE Pends(frame, g, a)
      <4>1. Pends(c, g, a) \/ LeadsTo(frame.fn, next, g, a)
        BY <1>1, <1>3, <1>6, <2>1, <3>2, CallPends, Zenon DEF next, fn, r
      <4>2. CASE LeadsTo(frame.fn, next, g, a)
        <5>1. next # R("fill_adp_types_in_router") /\ next = R(fn)
          BY <1>1, <2>1, <4>2, NoneLeads, Zenon DEF fn
        <5>2. LeadsTo(frame.fn, R(fn), g, a) /\ TypesKnown
          BY <1>11, <4>2, <5>1, Zenon
        <5>3. Pends(f, g, a) \/ Gathers(f, {}, g, a)
          BY <1>2, <1>13, <5>2, BodyHas, Zenon DEF f
        <5>4. CASE Gathers(f, {}, g, a)
          <6>1. \A on : Gathers(f, on, g, a)
            BY <5>4, Zenon DEF Gathers
          <6>2. \A h, on : h = f => Gathers(h, on, g, a)'
            BY <1>5, <6>1, DueSame, Zenon
          <6> QED
            BY <1>10, <6>2, Zenon DEF Open
        <5> QED
          BY <1>9, <5>3, <5>4, Zenon
      <4> QED
        BY <1>9, <4>1, <4>2, Zenon
    <3> QED
      BY <1>9, <3>1, <3>2, Zenon
  <2>4. CASE Gathers(frame, active, g, a)
    <3>1. next = R(Details[env.types[a]]) /\ env.types[a] \in Kinds
      BY <1>1, <2>4, GatherNext, Zenon DEF next, fn
    <3>2. fn = Details[env.types[a]] /\ next = R(fn)
      BY <3>1, ItemsDiffer, Zenon DEF fn
    <3>3. fn \in AttributeFns
      BY <3>1, <3>2, TablesAre, Zenon
    <3>4. TypesKnown
      <4>1. "fill_adp_types_in_router" \notin AttributeFns
        BY DEF AttributeFns
      <4>2. R(fn) # R("fill_adp_types_in_router")
        BY <3>3, <4>1, ItemsDiffer
      <4> QED
        BY <1>11, <3>2, <4>2, Zenon
    <3>5. Pends(f, g, a)
      BY <1>1, <1>13, <2>4, <3>2, <3>4, GatherCall, Zenon DEF f, next
    <3> QED
      BY <1>9, <3>5, Zenon
  <2> QED
    BY <1>1, <1>13, <2>2, <2>3, <2>4, Zenon DEF Open
<1>14. fate' = "done" => stack' = <<>>
  BY <1>1, <1>5
<1> QED
  BY <1>5, <1>12, <1>13, <1>14, AskedOf, Zenon

\* The link to the router above is read.
LEMMA AskedUpstream ==
  ASSUME DumpInv, QuietInv, AskedInv, Quiet, env.loud = TRUE, get_upstream_router
  PROVE  AskedInv'
<1> DEFINE t == Tail(stack)
           r == Tail(frame.todo)
<1>1. /\ stack # <<>> /\ frame.todo # <<>> /\ next.get = "get_upstream_router"
      /\ StackFits /\ fate = "running"
      /\ Filling /\ \A g, a : Due(g, a) => Open(g, a)
  BY Zenon DEF get_upstream_router, Running, DumpInv, AskedInv
<1>2. next.get \notin Leaders /\ next.get \notin Questions /\ next.get \notin Functions
  BY <1>1, AsksAreQuestions, FunctionsApart
<1>3. PICK c \in Frames(Nobody) :
        /\ c.fn = frame.fn /\ c.todo = r /\ c.max = frame.max
        /\ Callee = <<c>> \o t
  BY <1>1, <1>2, CalleeIs, Zenon
<1>4. t \in Seq(Frames(Nobody))
  BY <1>1, NextItem, Zenon
<1>5. /\ env' = env /\ types' = types /\ asked' = asked /\ stack' = Callee
      /\ fate' = IF "link" \in lost THEN "crash" ELSE fate
  BY Zenon DEF get_upstream_router
<1>6. frame.todo \in Seq(AnyItem)
  BY <1>1, NextOnList, Zenon
<1>7. \A g, a : Pends(c, g, a) \/ StackPends(t, g, a) => Open(g, a)'
  <2>1. \A g, a : Pends(c, g, a) \/ StackPends(t, g, a) => StackPends(<<c>> \o t, g, a)
    BY <1>4, PushPends, Zenon
  <2> QED
    BY <1>3, <1>5, <2>1, PendsOpen, Zenon
<1>8. TypesKnown
  <2>1. next # R("fill_adp_types_in_router")
    BY <1>1, ItemsDiffer
  <2> QED
    BY <1>1, <1>2, <2>1, FillingNext, Zenon
<1>9. Filling'
  BY <1>5, <1>8, KnownSame, Zenon DEF Filling
<1>10. stack \in Seq(Frames(last.q))
  BY <1>1, Zenon DEF StackFits, Stacked
<1>11. ASSUME NEW g, NEW a, Due(g, a) PROVE Open(g, a)'
  <2>1. g \in Questions
    BY <1>11, DueAsked, Zenon
  <2>2. CASE <<g, a>> \in asked
    BY <1>5, <2>2, Zenon DEF Open
  <2>3. CASE StackPends(stack, g, a)
    <3>1. Pends(frame, g, a) \/ StackPends(t, g, a)
      BY <1>1, <1>10, <2>3, TopPends, Zenon DEF frame, t
    <3>2. ~LeadsTo(frame.fn, next, g, a)
      BY <1>1, <2>1, NoneLeads, Zenon
    <3>3. Pends(frame, g, a) => Pends(c, g, a)
      BY <1>1, <1>2, <1>3, <1>6, <2>1, <3>2, CallPends, Zenon DEF next, r
    <3> QED
      BY <1>7, <3>1, <3>3, Zenon
  <2>4. CASE Gathers(frame, active, g, a)
    <3>1. next = R(Details[env.types[a]]) /\ env.types[a] \in Kinds
      BY <1>2, <2>4, GatherNext, Zenon DEF next
    <3>2. next.get \in Functions
      BY <3>1, ItemsDiffer, TablesAre, Zenon
    <3> QED
      BY <1>2, <3>2
  <2> QED
    BY <1>1, <1>11, <2>2, <2>3, <2>4, Zenon DEF Open
<1>12. fate' = "done" => stack' = <<>>
  BY <1>1, <1>5
<1> QED
  BY <1>5, <1>9, <1>11, <1>12, AskedOf, Zenon

\* A function returns that has nothing left to ask.
LEMMA AskedReturn ==
  ASSUME DumpInv, AskedInv, Quiet, env.loud = TRUE, Return
  PROVE  AskedInv'
<1> DEFINE t == Tail(stack)
<1>1. /\ stack # <<>> /\ frame.todo = <<>> /\ StackFits /\ fate = "running"
      /\ Filling /\ \A g, a : Due(g, a) => Open(g, a)
  BY Zenon DEF Return, Running, DumpInv, AskedInv
<1>2. /\ env' = env /\ types' = types /\ asked' = asked /\ stack' = t
      /\ fate' = IF Len(stack) = 1 THEN "done" ELSE fate
  BY Zenon DEF Return
<1>3. stack \in Seq(Frames(last.q))
  BY <1>1, Zenon DEF StackFits, Stacked
<1>4. \A q : ~Has(frame.todo, q)
  BY <1>1, HasParts, Zenon
<1>5. TypesKnown
  BY <1>1, <1>4, Zenon DEF Filling, TypesKnown
<1>6. Filling'
  BY <1>2, <1>5, KnownSame, Zenon DEF Filling
<1>7. ASSUME NEW g, NEW a, Due(g, a) PROVE Open(g, a)'
  <2>1. CASE <<g, a>> \in asked
    BY <1>2, <2>1, Zenon DEF Open
  <2>2. CASE StackPends(stack, g, a)
    <3>1. Pends(frame, g, a) \/ StackPends(t, g, a)
      BY <1>1, <1>3, <2>2, TopPends, Zenon DEF frame, t
    <3>2. ~Pends(frame, g, a)
      BY <1>4, Zenon DEF Pends, Wakes
    <3> QED
      BY <1>2, <3>1, <3>2, PendsOpen, Zenon
  <2>3. ~Gathers(frame, active, g, a)
    BY <1>1, GatherNext, Zenon
  <2> QED
    BY <1>1, <1>7, <2>1, <2>2, <2>3, Zenon DEF Open
<1>8. fate' = "done" => stack' = <<>>
  <2>1. Len(stack) = 1 => t = <<>>
    <3> DEFINE T == Frames(last.q)
    <3>1. stack \in Seq(T)
      BY <1>3
    <3> HIDE DEF T
    <3>2. t \in Seq(T) /\ (Len(stack) = 1 => Len(t) = 0)
      BY <1>1, <3>1
    <3> HIDE DEF t
    <3> QED
      BY <3>2
  <2> QED
    BY <1>1, <1>2, <2>1
<1> QED
  BY <1>2, <1>6, <1>7, <1>8, AskedOf, Zenon

\* Nothing changes.
LEMMA AskedStay ==
  ASSUME AskedInv, Quiet, env.loud = TRUE, UNCHANGED vars
  PROVE  AskedInv'
<1>1. /\ env' = env /\ types' = types /\ asked' = asked /\ stack' = stack /\ active' = active
      /\ fate' = fate
  BY DEF vars
<1>2. Filling /\ (fate = "done" => stack = <<>>) /\ \A g, a : Due(g, a) => Open(g, a)
  BY Zenon DEF AskedInv
<1>3. frame' = frame /\ next' = next
  BY <1>1, Zenon DEF frame, next
<1>4. Filling'
  BY <1>1, <1>2, <1>3, KnownSame, DueSame, Zenon DEF Filling
<1>5. ASSUME NEW g, NEW a, Due(g, a) PROVE Open(g, a)'
  <2>1. Open(g, a)
    BY <1>2, <1>5, Zenon
  <2> QED
    BY <1>1, <1>3, <2>1, DueSame, Zenon DEF Open
<1> QED
  BY <1>1, <1>2, <1>4, <1>5, AskedOf, Zenon

\* What a question finds enabled, and that it was asked.
LEMMA AskFinds ==
  ASSUME Ask, Quiet, NEW q, q = next, NEW ans, ans = Answer(q)
  PROVE  /\ active' = IF q.get \in Enables /\ ~Recognised(q, ans) /\ ans # {} THEN active \cup {q.at}
                      ELSE active
         /\ asked' = asked \cup {<<q.get, q.at>>}
BY Zenon DEF Ask, Quiet

\* Types that are known stay so, and one is known when it was asked for.
LEMMA AskKnows ==
  ASSUME DumpInv, QuietInv, Quiet, Ask, NEW a, There(a),
         types[a] = env.types[a] \/ next = Q("get_adp_pvs", a)
  PROVE  types'[a] = env.types[a]
<1>1. /\ stack # <<>> /\ frame.todo # <<>> /\ StackFits /\ env \in Envs /\ TypesFound /\ Typed
  BY Zenon DEF Ask, Running, DumpInv, QuietInv
<1>2. next \in Items(frame.fn)
  BY <1>1, NextItem, Zenon
<1>3. TypesFound' /\ Growing
  BY QuietTypes, Zenon
<1>4. a \in 1 .. Len(env.types) /\ a < total_adps /\ a \in Adapters /\ a \in 0 .. MaxAdapters - 1
  BY AdaptersFit DEF There, total_adps, Adapters
<1>5. CASE types[a] = env.types[a]
  <2>1. types'[a] = NoType \/ types'[a] = env.types[a]
    BY <1>3, <1>4 DEF TypesFound, Growing
  <2>2. types[a] # NoType => types'[a] = types[a]
    BY <1>3, <1>4 DEF Growing
  <2> QED
    BY <1>5, <2>1, <2>2
<1>6. CASE next = Q("get_adp_pvs", a)
  <2> DEFINE q == next
             ans == Answer(q)
  <2>1. q.get = "get_adp_pvs" /\ q.at = a
    BY <1>6, ItemsDiffer, Zenon
  <2>2. TypeOf(ans) = env.types[a]
    BY <1>1, <1>2, <1>4, <2>1, PvsTells
  <2>3. Answered(q, ans)
    BY <1>1, AskDoes, Zenon
  <2>4. types' = Store(types, a, TypeOf(ans))
    BY <2>1, <2>3, Zenon DEF Answered
  <2> HIDE DEF ans
  <2> QED
    BY <2>2, <2>4, Zenon DEF Store
<1> QED
  BY <1>5, <1>6

\* A question is asked.
LEMMA AskedAsk ==
  ASSUME DumpInv, QuietInv, AskedInv, Quiet, env.loud = TRUE, Ask
  PROVE  AskedInv'
<1> DEFINE q == next
           ans == Answer(q)
           s == Rest(frame, q, ans)
           m == IF q.get = "get_max_adp" THEN Number[ans] ELSE frame.max
           b == frame.failed \/ Recognised(q, ans)
           f == [frame EXCEPT !.todo = s, !.max = m, !.failed = b]
           t == Tail(stack)
           r == Tail(frame.todo)
<1>1. /\ q.get \in Questions /\ stack # <<>> /\ frame.todo # <<>> /\ StackFits /\ Typed
      /\ IsEnv(env) /\ env \in Envs
      /\ StackFitting /\ TypesFound /\ fate = "running"
      /\ Filling /\ \A g, a : Due(g, a) => Open(g, a)
  BY EnvIsOne, Zenon DEF Ask, Running, DumpInv, QuietInv, AskedInv
<1>2. /\ frame \in Frames(last.q) /\ frame.todo \in Rests(frame.fn, last.q)
      /\ frame.failed \in BOOLEAN /\ frame.max \in 0 .. 64
      /\ t \in Seq(Frames(Nobody)) /\ q \in Items(frame.fn) /\ q \in Fits(frame.fn)
  BY <1>1, NextItem, NextFitting, Zenon
<1>3. s = After(frame, q, ans) \o r
  <2>1. ~GivesUp(frame.fn, q, ans)
    BY <1>1, <1>2, NoneGivesUp, Zenon
  <2> QED
    BY <2>1, Zenon DEF Rest
<1>4. m \in 0 .. 64 /\ b \in BOOLEAN
  BY <1>1, <1>2, MaxFits
<1>5. /\ stack' = <<f>> \o t /\ env' = env /\ fate' = fate
  BY <1>1, AskDoes, Zenon
<1>6. /\ active' = IF q.get \in Enables /\ ~Recognised(q, ans) /\ ans # {} THEN active \cup {q.at}
                   ELSE active
      /\ asked' = asked \cup {<<q.get, q.at>>}
  BY AskFinds, Zenon
<1>7. f.todo = s /\ f.fn = frame.fn /\ f.max = m
  <2> HIDE DEF s, m, b, q, ans
  <2> DEFINE Fns == Functions \cup {"dump_router_verbose"}
             AnyFrame == [fn : Fns, todo : Seq(AnyItem), max : 0 .. 64, failed : BOOLEAN]
  <2>1. frame \in AnyFrame
    BY <1>2, Zenon DEF Frames, AnyItem
  <2> HIDE DEF Fns
  <2> QED
    BY <2>1 DEF f
<1>8. /\ frame.todo \in Seq(AnyItem) /\ Has(frame.todo, q) /\ r \in Seq(AnyItem)
      /\ \A x : Has(frame.todo, x) => x = q \/ Has(r, x)
  BY <1>1, NextOnList, Zenon
<1>9. q = Head(frame.todo)
  BY Zenon DEF next
<1> HIDE DEF f, t, s, m, b, ans, r, q
<1>10. /\ \A g, a : Pends(f, g, a) \/ StackPends(t, g, a) => Open(g, a)'
       /\ frame' = f /\ stack' # <<>>
  <2> DEFINE S == {f} \cup Frames(Nobody)
  <2>1. f \in S /\ Frames(Nobody) \subseteq S
    OBVIOUS
  <2>2. t \in Seq(S)
    BY <1>2, <2>1, SeqGrows, Zenon
  <2> HIDE DEF S
  <2>3. \A g, a : Pends(f, g, a) \/ StackPends(t, g, a) => StackPends(<<f>> \o t, g, a)
    BY <2>1, <2>2, PushPends, Zenon
  <2>4. Head(<<f>> \o t) = f /\ <<f>> \o t # <<>>
    BY <2>1, <2>2
  <2> QED
    BY <1>5, <2>3, <2>4, PendsOpen, Zenon DEF frame
<1>11. stack \in Seq(Frames(last.q))
  BY <1>1, Zenon DEF StackFits, Stacked
<1>12. \/ TypesKnown
       \/ /\ q.get = "get_adp_pvs" /\ frame.fn = "fill_adp_types_in_router"
          /\ \A x : Has(frame.todo, x) => x.get = "get_adp_pvs"
          /\ \A a : There(a) => types[a] = env.types[a] \/ Has(frame.todo, Q("get_adp_pvs", a))
  <2>1. next # R("fill_adp_types_in_router")
    <3>1. q # R("fill_adp_types_in_router")
      BY <1>1, FunctionsApart, ItemsDiffer
    <3> QED
      BY <3>1, Zenon DEF q
  <2> QED
    BY <1>1, <1>8, <2>1, Zenon DEF Filling
<1>13. Filling'
  <2>1. CASE TypesKnown
    <3>1. \A a : There(a) => types'[a] = env.types[a]
      BY <2>1, AskKnows, Zenon DEF TypesKnown
    <3> QED
      BY <1>5, <3>1, DueSame, Zenon DEF Filling, TypesKnown
  <2>2. CASE /\ q.get = "get_adp_pvs" /\ frame.fn = "fill_adp_types_in_router"
             /\ \A x : Has(frame.todo, x) => x.get = "get_adp_pvs"
             /\ \A a : There(a) => types[a] = env.types[a] \/ Has(frame.todo, Q("get_adp_pvs", a))
    <3>1. f.todo = r
      <4>1. After(frame, q, ans) = AfterEnabled(q, ans)
        BY <2>2 DEF After
      <4>2. AfterEnabled(q, ans) = <<>>
        BY <2>2 DEF AfterEnabled, When
      <4>3. s = <<>> \o r
        BY <1>3, <4>1, <4>2, Zenon
      <4> QED
        BY <1>7, <1>8, <4>3
    <3>2. \A x : Has(f.todo, x) => x.get = "get_adp_pvs"
      <4>1. \A x : Has(r, x) => Has(frame.todo, x)
        <5>1. \A S : \A z \in Seq(S) : z # <<>> => z = <<Head(z)>> \o Tail(z)
          OBVIOUS
        <5>2. frame.todo = <<q>> \o r
          BY <1>1, <1>8, <1>9, <5>1, Zenon DEF r
        <5>3. <<q>> \in Seq(AnyItem)
          <6>1. q \in AnyItem
            BY <1>1, NextOnList, Zenon DEF q
          <6> QED
            BY <6>1, SeqParts, Zenon
        <5>4. \A x : Has(r, x) => Has(<<q>> \o r, x)
          BY <1>8, <5>3, HasParts, Zenon
        <5> QED
          BY <5>2, <5>4, Zenon
      <4> QED
        BY <2>2, <3>1, <4>1, Zenon
    <3>3. \A a : There(a) => types'[a] = env.types[a] \/ Has(f.todo, Q("get_adp_pvs", a))
      BY <1>8, <2>2, <3>1, AskKnows, Zenon DEF q
    <3>4. \A a : There(a)' => types'[a] = env.types[a] \/ Has(f.todo, Q("get_adp_pvs", a))
      BY <1>5, <3>3, DueSame, Zenon
    <3> QED
      BY <1>5, <1>7, <1>10, <2>2, <3>2, <3>4, Zenon DEF Filling
  <2> QED
    BY <1>12, <2>1, <2>2, Zenon
<1>14. ASSUME NEW g, NEW a, Due(g, a) PROVE Open(g, a)'
  <2>1. g \in Questions /\ a \in Adapters
    BY <1>14, DueAsked, Zenon
  <2>2. CASE <<g, a>> \in asked
    BY <1>6, <2>2, Zenon DEF Open
  <2>3. CASE StackPends(stack, g, a)
    <3>1. Pends(frame, g, a) \/ StackPends(t, g, a)
      BY <1>1, <1>11, <2>3, TopPends, Zenon DEF frame, t
    <3>2. CASE Pends(frame, g, a)
      <4>1. TypesKnown \/ q.get = "get_adp_pvs"
        BY <1>12, Zenon
      <4>2. f.fn = frame.fn /\ f.todo = After(frame, q, Answer(q)) \o Tail(frame.todo)
            /\ f.max = IF q.get = "get_max_adp" THEN Number[Answer(q)] ELSE frame.max
        BY <1>3, <1>7, Zenon DEF ans, r, m
      <4>3. q = Q(g, a) \/ Pends(f, g, a)
        BY <1>1, <1>2, <1>8, <1>9, <1>14, <3>2, <4>1, <4>2, AskHas, Zenon
      <4>4. CASE q = Q(g, a)
        <5>1. q.get = g /\ q.at = a
          BY <4>4, ItemsDiffer, Zenon
        <5> QED
          BY <1>6, <5>1, Zenon DEF Open
      <4> QED
        BY <1>10, <4>3, <4>4, Zenon
    <3> QED
      BY <1>10, <3>1, <3>2, Zenon
  <2>4. CASE Gathers(frame, active, g, a)
    <3>1. active \subseteq active'
      BY <1>6, Zenon
    <3>2. f.fn = frame.fn /\ f.todo = After(frame, q, Answer(q)) \o Tail(frame.todo)
      BY <1>3, <1>7, Zenon DEF ans, r
    <3>3. ASSUME NEW on2, on2 = active' PROVE Gathers(f, on2, g, a)
      <4>1. active \subseteq on2
        BY <3>1, <3>3, Zenon
      <4>2. q.get \in Enables /\ ~Recognised(q, Answer(q)) /\ Answer(q) # {} => q.at \in on2
        BY <1>6, <3>3, Zenon DEF ans
      <4> QED
        BY <1>1, <1>2, <1>9, <1>14, <2>4, <3>2, <4>1, <4>2, GatherAsk, Zenon
    <3>4. \A h, on : h = f /\ on = active' => Gathers(h, on, g, a)'
      BY <1>5, <3>3, DueSame, Zenon
    <3> QED
      BY <1>10, <3>4, Zenon DEF Open
  <2> QED
    BY <1>1, <1>14, <2>2, <2>3, <2>4, Zenon DEF Open
<1>15. fate' = "done" => stack' = <<>>
  BY <1>1, <1>5
<1> QED
  BY <1>5, <1>13, <1>14, <1>15, AskedOf, Zenon

\* Every step goes on with what is due.
LEMMA AskedStep == DumpInv /\ QuietInv /\ AskedInv /\ [Next]_vars => AskedInv'
<1> SUFFICES ASSUME DumpInv, QuietInv, AskedInv, [Next]_vars, Quiet', (env.loud = TRUE)'
             PROVE  AskedInv'
  BY Zenon DEF AskedInv
<1>1. Quiet /\ env' = env
  BY QuietBefore, Zenon
<1>2. env.loud = TRUE
  BY <1>1, Zenon
<1>3. CASE Call
  BY <1>1, <1>2, <1>3, AskedCall, Zenon
<1>4. CASE get_upstream_router
  BY <1>1, <1>2, <1>4, AskedUpstream, Zenon
<1>5. CASE Ask
  BY <1>1, <1>2, <1>5, AskedAsk, Zenon
<1>6. CASE AskBeyond
  BY <1>1, <1>6, QuietBeyond, Zenon
<1>7. CASE Return
  BY <1>1, <1>2, <1>7, AskedReturn, Zenon
<1>8. CASE Bus
  <2>1. \A x : ~Lose(x)
    BY <1>1 DEF Lose, Quiet
  <2> QED
    BY <1>8, <2>1, Zenon DEF Bus
<1>9. CASE UNCHANGED vars
  BY <1>1, <1>2, <1>9, AskedStay, Zenon
<1> QED
  BY <1>3, <1>4, <1>5, <1>6, <1>7, <1>8, <1>9, Zenon DEF Next, Program

\* The lists the dump of a router at -vv begins with.
LEMMA DumpHas ==
  ASSUME env.loud = TRUE
  PROVE  /\ Head(dump_router_verbose) = R("fill_adp_types_in_router") /\ dump_router_verbose # <<>>
         /\ \A fn \in {"dump_wakes", "get_usb4v", "dump_lane_adapters"} \cup {Lister[t] : t \in Kinds} :
              Has(dump_router_verbose, R(fn))
<1> DEFINE g1 == <<"fill_adp_types_in_router", "get_top_id_low", "get_top_id_high", "get_max_adp",
                   "is_router_configured">>
           g2 == <<"get_notification_timeout", "is_tbt3_not_supported",
                   "dump_power_states_compatibility">>
           g3 == <<"dump_ihci_status", "dump_pcie_tunneling_status", "dump_usb3_tunneling_status">>
           g8 == <<"dump_up_usb3_adapters", "dump_down_usb3_adapters", "dump_up_pcie_adapters",
                   "dump_down_pcie_adapters", "dump_dp_in_adapters", "dump_dp_out_adapters">>
           N == Functions \cup Questions
           T == {R(n) : n \in N}
           s1 == All(g1, 0)
           s2 == When(env.loud, All(g2, 0))
           s3 == When(env.loud /\ IsDevice, All(g3, 0))
           s4 == When(env.loud, <<R("dump_wakes")>>)
           s5 == <<R("get_usb4v")>>
           s6 == When(env.loud, <<R("dump_lane_adapters")>>)
           s7 == <<R("dump_adapters_num")>>
           s8 == When(env.loud, All(g8, 0))
<1>1. g1 \in Seq(N) /\ g2 \in Seq(N) /\ g3 \in Seq(N) /\ g8 \in Seq(N)
  <2>1. {"get_top_id_low", "get_top_id_high", "get_max_adp", "is_router_configured",
         "get_notification_timeout", "is_tbt3_not_supported"} \subseteq N
    BY DEF Questions, By6, By8, By32
  <2>2. {"fill_adp_types_in_router", "dump_power_states_compatibility", "dump_ihci_status",
         "dump_pcie_tunneling_status", "dump_usb3_tunneling_status", "dump_up_usb3_adapters",
         "dump_down_usb3_adapters", "dump_up_pcie_adapters", "dump_down_pcie_adapters",
         "dump_dp_in_adapters", "dump_dp_out_adapters"} \subseteq N
    BY DEF Functions
  <2> HIDE DEF N
  <2>3. g1 \in Seq(N)
    BY <2>1, <2>2
  <2>4. g2 \in Seq(N)
    BY <2>1, <2>2
  <2>5. g3 \in Seq(N)
    BY <2>2
  <2>6. g8 \in Seq(N)
    BY <2>2
  <2> QED
    BY <2>3, <2>4, <2>5, <2>6, Zenon
<1>2. \A n \in N : R(n) \in T /\ Q(n, 0) \in T /\ R(n) = Q(n, 0)
  BY DEF R
<1> HIDE DEF T, N
<1>3. ASSUME NEW gets \in Seq(N) PROVE All(gets, 0) \in Seq(T)
  BY <1>2, SeqAll, Zenon
<1>4. \A n \in N : <<R(n)>> \in Seq(T)
  BY <1>2, SeqParts, Zenon
<1>5. /\ "dump_wakes" \in N /\ "get_usb4v" \in N /\ "dump_lane_adapters" \in N
      /\ "dump_adapters_num" \in N
  BY FunctionsApart DEF Functions, N
<1>6. s1 = <<R("fill_adp_types_in_router")>> \o Tail(s1) /\ s1 # <<>> /\ Head(s1) = R("fill_adp_types_in_router")
  BY DEF All, R
<1>7. \A t \in Kinds : Has(g8, Lister[t])
  <2>1. /\ g8[1] = "dump_up_usb3_adapters" /\ g8[2] = "dump_down_usb3_adapters"
        /\ g8[3] = "dump_up_pcie_adapters" /\ g8[4] = "dump_down_pcie_adapters"
        /\ g8[5] = "dump_dp_in_adapters" /\ g8[6] = "dump_dp_out_adapters"
        /\ \A k \in 1 .. 6 : k \in 1 .. Len(g8)
    OBVIOUS
  <2>2. \A t \in Kinds : \E k \in 1 .. 6 : Lister[t] = g8[k]
    <3>1. /\ Lister["up_usb3"] = g8[1] /\ Lister["down_usb3"] = g8[2]
          /\ Lister["up_pcie"] = g8[3] /\ Lister["down_pcie"] = g8[4]
          /\ Lister["dp_in"] = g8[5] /\ Lister["dp_out"] = g8[6]
      BY DEF Lister
    <3>2. 1 \in 1 .. 6 /\ 2 \in 1 .. 6 /\ 3 \in 1 .. 6 /\ 4 \in 1 .. 6 /\ 5 \in 1 .. 6 /\ 6 \in 1 .. 6
      OBVIOUS
    <3> HIDE DEF g8
    <3> QED
      BY <3>1, <3>2 DEF Kinds
  <2> HIDE DEF g8
  <2> QED
    BY <2>1, <2>2, Zenon DEF Has
<1>8. s1 \in Seq(T)
  <2> HIDE DEF g1
  <2> QED
    BY <1>1, <1>3, Zenon
<1> HIDE DEF g1, g2, g3, g8
<1>9. /\ s2 \in Seq(T) /\ s3 \in Seq(T) /\ s4 \in Seq(T) /\ s5 \in Seq(T) /\ s6 \in Seq(T)
      /\ s7 \in Seq(T) /\ s8 \in Seq(T)
  BY <1>1, <1>3, <1>4, <1>5, SeqParts, Zenon
<1>10. \A t \in Kinds : Has(s8, R(Lister[t]))
  <2>1. \A t \in Kinds : Has(All(g8, 0), R(Lister[t]))
    BY <1>1, <1>7, HasAll, Zenon DEF R
  <2> QED
    BY <2>1, HasParts, Zenon
<1>11. Has(s4, R("dump_wakes")) /\ Has(s5, R("get_usb4v")) /\ Has(s6, R("dump_lane_adapters"))
  BY HasParts, Zenon
<1>12. dump_router_verbose = s1 \o s2 \o s3 \o s4 \o s5 \o s6 \o s7 \o s8
  BY Zenon DEF dump_router_verbose, g1, g2, g3, g8
<1> HIDE DEF s1, s2, s3, s4, s5, s6, s7, s8
<1> DEFINE u3 == s1 \o s2 \o s3
           u4 == u3 \o s4
           u5 == u4 \o s5
           u6 == u5 \o s6
           u7 == u6 \o s7
<1>13. u3 \in Seq(T) /\ u3 # <<>> /\ Head(u3) = Head(s1)
  BY <1>6, <1>8, <1>9
<1> HIDE DEF u3
<1>14. u4 \in Seq(T) /\ u4 # <<>> /\ Head(u4) = Head(u3)
  BY <1>9, <1>13
<1> HIDE DEF u4
<1>15. u5 \in Seq(T) /\ u5 # <<>> /\ Head(u5) = Head(u4)
  BY <1>9, <1>14
<1> HIDE DEF u5
<1>16. u6 \in Seq(T) /\ u6 # <<>> /\ Head(u6) = Head(u5)
  BY <1>9, <1>15
<1> HIDE DEF u6
<1>17. u7 \in Seq(T) /\ u7 # <<>> /\ Head(u7) = Head(u6)
  BY <1>9, <1>16
<1> HIDE DEF u7
<1>18. u7 \o s8 # <<>> /\ Head(u7 \o s8) = Head(u7)
  BY <1>9, <1>17
<1>19. Has(u4, R("dump_wakes")) /\ Has(u5, R("get_usb4v")) /\ Has(u6, R("dump_lane_adapters"))
       /\ \A t \in Kinds : Has(u7 \o s8, R(Lister[t]))
  BY <1>9, <1>10, <1>11, <1>13, <1>14, <1>15, <1>16, <1>17, HasParts, Zenon DEF u4, u5, u6
<1>20. \A x : (Has(u4, x) => Has(u5, x)) /\ (Has(u5, x) => Has(u6, x)) /\ (Has(u6, x) => Has(u7, x))
              /\ (Has(u7, x) => Has(u7 \o s8, x))
  <2>1. \A x : Has(u4, x) => Has(u5, x)
    BY <1>9, <1>14, HasParts, Zenon DEF u5
  <2>2. \A x : Has(u5, x) => Has(u6, x)
    BY <1>9, <1>15, HasParts, Zenon DEF u6
  <2>3. \A x : Has(u6, x) => Has(u7, x)
    BY <1>9, <1>16, HasParts, Zenon DEF u7
  <2>4. \A x : Has(u7, x) => Has(u7 \o s8, x)
    BY <1>9, <1>17, HasParts, Zenon
  <2> QED
    BY <2>1, <2>2, <2>3, <2>4, Zenon
<1>21. dump_router_verbose = u7 \o s8
  BY <1>12, Zenon DEF u3, u4, u5, u6, u7
<1>22. \A fn \in {"dump_wakes", "get_usb4v", "dump_lane_adapters"} : Has(u7 \o s8, R(fn))
  BY <1>19, <1>20, Zenon
<1>23. \A fn \in {Lister[t] : t \in Kinds} : Has(u7 \o s8, R(fn))
  BY <1>19, Zenon
<1> QED
  BY <1>6, <1>13, <1>14, <1>15, <1>16, <1>17, <1>18, <1>21, <1>22, <1>23, Zenon

\* The dump begins with all of it to be asked.
LEMMA AskedInit == Init => AskedInv
<1> SUFFICES ASSUME Init, env.loud = TRUE PROVE AskedInv
  BY Zenon DEF AskedInv
<1> DEFINE f == Frame("dump_router_verbose", dump_router_verbose)
<1>1. stack = <<f>> /\ fate = "running"
  BY Zenon DEF Init
<1>2. f.fn = "dump_router_verbose" /\ f.todo = dump_router_verbose
  BY NewFrame, Zenon
<1> HIDE DEF f
<1>3. stack # <<>> /\ frame = f /\ stack[1] = f /\ 1 \in 1 .. Len(stack)
  BY <1>1 DEF frame
<1>4. Filling
  BY <1>2, <1>3, DumpHas, Zenon DEF Filling, next
<1>5. ASSUME NEW g, NEW a, Due(g, a) PROVE Open(g, a)
  <2>1. \E fn \in {"dump_wakes", "get_usb4v", "dump_lane_adapters"} \cup {Lister[t] : t \in Kinds} :
           LeadsTo(f.fn, R(fn), g, a)
    <3>1. CASE env.types[a] \in Kinds
      <4>1. LeadsTo(f.fn, R(Lister[env.types[a]]), g, a)
        BY <1>5, <3>1, DueIs, TablesAre DEF LeadsTo
      <4> QED
        BY <3>1, <4>1, Zenon
    <3>2. CASE env.types[a] \notin Kinds
      <4>1. g \in {"is_adp_locked", "get_tbt3_wake_events_en"} \cup Lane0Qs
        BY <1>5, <3>2, DueIs, Zenon
      <4>2. CASE g \in {"is_adp_locked", "is_usb4_clx_supported"}
        <5>1. LeadsTo(f.fn, R("dump_lane_adapters"), g, a)
          BY <4>2 DEF LeadsTo
        <5> QED
          BY <5>1, Zenon
      <4>3. CASE g \in WakeQs
        <5>1. LeadsTo(f.fn, R("dump_wakes"), g, a)
          BY <4>3 DEF LeadsTo
        <5> QED
          BY <5>1, Zenon
      <4>4. CASE g = "get_usb4_wake_status"
        <5>1. LeadsTo(f.fn, R("get_usb4v"), g, a)
          BY <1>2, <4>4 DEF LeadsTo
        <5> QED
          BY <5>1, Zenon
      <4> QED
        BY <4>1, <4>2, <4>3, <4>4 DEF WakeQs, Lane0Qs
    <3> QED
      BY <3>1, <3>2
  <2>2. Pends(f, g, a)
    BY <1>2, <2>1, DumpHas, Zenon DEF Pends
  <2> QED
    BY <1>3, <2>2, Zenon DEF Open, StackPends
<1> QED
  BY <1>1, <1>4, <1>5, Zenon DEF AskedInv

\* When nothing is unplugged and all registers can be read, a dump at -vv that is
\* done has asked for the state of every adapter, and for all attributes of every
\* enabled one: no answer, no change of types and no call in between drops one.
THEOREM EveryAdapterAsked == Spec => []AllAsked
<1>1. DumpInv /\ AskedInv => AllAsked
  <2> SUFFICES ASSUME DumpInv, AskedInv, Quiet, fate = "done", env.loud
               PROVE  AllAsked
    BY Zenon DEF AllAsked
  <2>1. env.loud = TRUE
    BY EnvIsOne DEF DumpInv, IsEnv
  <2>2. stack = <<>> /\ \A g, a : Due(g, a) => Open(g, a)
    BY <2>1, Zenon DEF AskedInv
  <2>3. \A g, a : Due(g, a) => <<g, a>> \in asked
    <3>1. \A g, a : ~StackPends(<<>>, g, a)
      BY DEF StackPends
    <3> QED
      BY <2>2, <3>1, Zenon DEF Open
  <2>4. env.usb4 \in BOOLEAN
    BY EnvIsOne DEF DumpInv, IsEnv
  <2>5. ASSUME NEW a \in {k \in 1 .. Len(env.types) : k < MaxAdapters - 1}
        PROVE  LET Told(get) == <<get, a>> \in asked
               IN CASE env.types[a] = "lane" ->
                /\ Told("is_adp_locked")
                /\ env.usb4 /\ a % 2 = 1 => /\ Told("get_usb4_wakes_en")
                                            /\ Told("get_usb4_wake_status")
                                            /\ Told("is_usb4_clx_supported")
                /\ ~env.usb4 /\ a % 2 = 1 => Told("get_tbt3_wake_events_en")
           [] env.types[a] \in Usb3 ->
                /\ Told("is_usb3_adp_en")
                /\ Nonzero("is_usb3_adp_en", a) => Told("get_usb3_port_link_state")
           [] env.types[a] \in Pcie ->
                /\ Told("is_pcie_adp_enabled")
                /\ Nonzero("is_pcie_adp_enabled", a) => Told("get_pcie_ltssm")
           [] env.types[a] \in Dp ->
                /\ Told("is_dp_aux_en")
                /\ Nonzero("is_dp_aux_en", a) \/ Nonzero("is_dp_vid_en", a) =>
                     Told(IF env.types[a] = "dp_in" THEN "is_dp_in_dptx_req"
                          ELSE "is_dp_lttpr_sup")
           [] OTHER -> TRUE
    <3>1. There(a)
      BY <2>5 DEF There
    <3>2. ASSUME NEW t \in Kinds, t = env.types[a]
          PROVE  /\ <<Enabler[t], a>> \in asked
                 /\ \A e \in Enablers(t) : Nonzero(e, a) => <<Latest[t], a>> \in asked
      BY <2>3, <3>1, <3>2, Zenon DEF Due, Enabled
    <3>3. /\ Usb3 = {"up_usb3", "down_usb3"} /\ Pcie = {"up_pcie", "down_pcie"} /\ Dp = {"dp_in", "dp_out"}
      BY DEF Usb3, Pcie, Dp
    <3>4. CASE env.types[a] = "lane"
      <4>1. <<"is_adp_locked", a>> \in asked
        BY <2>3, <3>1, <3>4, Zenon DEF Due
      <4>2. env.usb4 /\ a % 2 = 1 => \A g \in Lane0Qs : <<g, a>> \in asked
        BY <2>3, <2>4, <3>1, <3>4, Zenon DEF Due
      <4>3. ~env.usb4 /\ a % 2 = 1 => <<"get_tbt3_wake_events_en", a>> \in asked
        BY <2>3, <2>4, <3>1, <3>4 DEF Due
      <4> QED
        BY <3>3, <3>4, <4>1, <4>2, <4>3 DEF Lane0Qs
    <3>5. CASE env.types[a] \in Usb3
      BY <3>2, <3>3, <3>5 DEF Kinds, Enabler, Enablers, Latest
    <3>6. CASE env.types[a] \in Pcie
      BY <3>2, <3>3, <3>6 DEF Kinds, Enabler, Enablers, Latest
    <3>7. CASE env.types[a] \in Dp
      BY <3>2, <3>3, <3>7 DEF Kinds, Enabler, Enablers, Latest
    <3>8. CASE env.types[a] \notin {"lane"} \cup Usb3 \cup Pcie \cup Dp
      BY <3>8
    <3> QED
      BY <3>4, <3>5, <3>6, <3>7, <3>8
  <2> QED
    BY <2>5, Zenon DEF AllAsked
<1>2. DumpInv /\ QuietInv /\ AskedInv /\ [Next]_vars => DumpInv' /\ QuietInv' /\ AskedInv'
  BY StepFits, QuietStep, AskedStep, Zenon
<1>3. Init => DumpInv /\ QuietInv /\ AskedInv
  BY InitFits, QuietInit, AskedInit, Zenon
<1> QED
  BY <1>1, <1>2, <1>3, PTL DEF Spec
=============================================================================
