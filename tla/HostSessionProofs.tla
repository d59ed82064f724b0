------------------------- MODULE HostSessionProofs --------------------------
(***************************************************************************)
(* One run of example.c for IOMMU groups of any size: while nobody adds or *)
(* removes devices, the hardware is driven under no native driver, the     *)
(* loops stay inside dev_list and, if no write to sysfs fails either,      *)
(* every path of main() to its end hands the machine back; and whatever    *)
(* happens, the exit status is 0 only for a request that was posted.       *)
(***************************************************************************)
EXTENDS HostSession, FiniteSetTheorems, TLAPS

Binding   == {"take", "claim"}
Driving   == {"reset", "hw_init", "dma", "close"}
Releasing == {"release", "forget", "remove"}
Before    == {"find", "count", "check", "list"}

-----------------------------------------------------------------------------
(* The inductive invariant *)

\* Where the loops are in dev_list.
Positions ==
  /\ pc \in {"claim", "forget", "remove", "wait"} => i <= Len(dev_list)
  /\ pc \in {"forget", "remove"} => i <= num
  /\ pc \in Binding => i <= Len(dev_list) + 1
  /\ Len(dev_list) <= Cardinality(Device)
  /\ pc \in Releasing => i <= num + 1

\* What main() will return.
Returned ==
  /\ pc \in {"close", "exit"} \cup Releasing /\ ret = 0 => posted
  /\ aborted => ret = 1 /\ pc = "exit"

\* Before the list is taken nothing has been touched.
Untouched ==
  pc \in Before =>
    /\ \A d \in Device : driver[d] \in {"native", "absent"}
    /\ ids = {} /\ files = {}
    /\ pc \in {"check", "list"} => num = Cardinality(Group)

\* The list has every device there is, once, and is as long as the count.
Listed ==
  /\ Len(dev_list) = num
  /\ \A k, m \in DOMAIN dev_list : dev_list[k] = dev_list[m] => k = m
  /\ \A d \in Device : driver[d] # "absent" <=> \E k \in DOMAIN dev_list : dev_list[k] = d
  /\ \A d \in ids : \E k \in DOMAIN dev_list : dev_list[k] = d

\* How far a device has got on its way to vfio-pci and back.
Is(k, who, claimed) == driver[dev_list[k]] = who /\ (dev_list[k] \in ids <=> claimed)

\* Devices in front of the loop's position, at it and behind it.
Progress ==
  \A k \in DOMAIN dev_list :
    /\ pc \in Binding /\ k < i => Is(k, "vfio", TRUE)
    /\ pc \in Binding /\ k > i => Is(k, "native", FALSE)
    /\ pc = "take" /\ k = i => Is(k, "native", FALSE)
    /\ pc = "claim" /\ k = i => Is(k, "none", FALSE)
    /\ pc \in Driving => Is(k, "vfio", TRUE)
    /\ pc \in Releasing /\ k < i => Is(k, "removed", FALSE)
    /\ pc \in Releasing /\ k > i => Is(k, "vfio", TRUE)
    /\ pc = "release" /\ k = i => Is(k, "vfio", TRUE)
    /\ pc = "forget" /\ k = i => Is(k, "none", TRUE)
    /\ pc = "remove" /\ k = i => Is(k, "none", FALSE)

Closed == pc \in Releasing => files \subseteq {"device"}

\* An open file of the controller keeps vfio-pci on it.
Held == pc \in Driving \cup Releasing /\ "device" \in files => driver[Host] = "vfio"

\* As long as no device has come or gone, the count is that of the list, and
\* the group that was found viable is.
Counted ==
  plugs = 0 =>
    /\ Untouched
    /\ pc \in Binding \cup Driving \cup Releasing => Len(dev_list) = num
    /\ pc \in Driving => Viable
    /\ pc # "overrun"

\* As long, besides, as every write to sysfs has been carried out.
Undisturbed ==
  plugs = 0 /\ ~refused =>
    /\ pc \in Binding \cup Driving \cup Releasing => Listed /\ Progress /\ Closed
    /\ RestoredOnReturn

IInv == TypeOK /\ Positions /\ Returned /\ Held /\ Counted /\ Undisturbed

-----------------------------------------------------------------------------
(* Counts and listings *)

\* A set of devices can be counted.
LEMMA FiniteDevices ==
  ASSUME NEW S \in SUBSET Device
  PROVE  /\ IsFiniteSet(S)
         /\ Cardinality(S) \in Nat /\ Cardinality(Device) \in Nat
         /\ Cardinality(S) <= Cardinality(Device)
BY DeviceAssumption, FS_Subset, FS_CardinalityType

\* A listing has every device of the set once.
LEMMA ListingIsComplete ==
  ASSUME NEW S \in SUBSET Device, NEW s \in Listings(S)
  PROVE  /\ s \in Seq(Device) /\ Len(s) = Cardinality(S)
         /\ \A k \in DOMAIN s : s[k] \in S
         /\ \A k, m \in DOMAIN s : s[k] = s[m] => k = m
         /\ \A d \in S : \E k \in DOMAIN s : s[k] = d
<1>1. IsFiniteSet(S) /\ Cardinality(S) \in Nat
  BY FiniteDevices
<1>2. s \in [1 .. Cardinality(S) -> S] /\ \A j, k \in DOMAIN s : j # k => s[j] # s[k]
  BY DEF Listings
<1>3. s \in Seq(Device) /\ Len(s) = Cardinality(S)
  BY <1>1, <1>2
<1>4. s \in Injection(1 .. Cardinality(S), S)
  BY <1>2 DEF Injection, IsInjective
<1>5. Cardinality(1 .. Cardinality(S)) = Cardinality(S)
  BY <1>1, FS_Interval
<1>6. s \in Surjection(1 .. Cardinality(S), S)
  BY <1>1, <1>4, <1>5, FS_Injection
<1> QED
  BY <1>2, <1>3, <1>6 DEF Surjection

-----------------------------------------------------------------------------
(* Types, positions and the value returned, whatever the group does *)

\* The variables keep their types.
LEMMA TypedStep ==
  ASSUME TypeOK, Positions, [Next]_vars
  PROVE  TypeOK'
<1> USE DeviceAssumption DEF TypeOK, Labels, Goto, mainVars, sysVars, Write, Refuse
<1>1. Group \in SUBSET Device
  BY DEF Group
<1>2. Cardinality(Group) \in 0 .. Cardinality(Device) /\ Cardinality(Device) \in Nat
  BY <1>1, FiniteDevices
<1>3. \A k \in DOMAIN dev_list : dev_list[k] \in Device
  OBVIOUS
<1>4. DOMAIN dev_list = 1 .. Len(dev_list) /\ Len(dev_list) \in Nat
  OBVIOUS
<1>5. CASE FindHost
  BY <1>5 DEF FindHost
<1>6. CASE total_grp_modules
  BY <1>2, <1>6 DEF total_grp_modules
<1>7. CASE check_vfio_module
  BY <1>7 DEF check_vfio_module
<1>8. CASE ListGroup
  <2>1. dev_list' \in Seq(Device) /\ 1 \in 1 .. Cardinality(Device) + 1
    BY <1>1, <1>2, <1>8, ListingIsComplete DEF ListGroup
  <2> QED
    BY <1>8, <2>1 DEF ListGroup
<1>9. CASE TakeDevice
  <2>1. driver' \in [Device -> {"native", "vfio", "none", "removed", "absent"}]
    BY <1>9 DEF TakeDevice, Taken
  <2> QED
    BY <1>9, <2>1 DEF TakeDevice
<1>10. CASE ClaimDevice
  <2>1. driver' \in [Device -> {"native", "vfio", "none", "removed", "absent"}]
    BY <1>10 DEF ClaimDevice, Claimed
  <2>2. i' \in 1 .. Cardinality(Device) + 1 /\ ids' \subseteq Device
    BY <1>2, <1>3, <1>4, <1>10 DEF ClaimDevice, Advance, Positions
  <2> QED
    BY <1>10, <2>1, <2>2 DEF ClaimDevice
<1>11. CASE vfio_dev_init
  BY <1>2, <1>11 DEF vfio_dev_init, FailedInit
<1>12. CASE reset_host_interface \/ tbt_hw_init \/ request_router_cfg
  BY <1>12 DEF reset_host_interface, tbt_hw_init, request_router_cfg
<1>13. CASE CloseFiles
  BY <1>2, <1>13 DEF CloseFiles, FilesLeft
<1>14. CASE ReleaseDevice
  <2>1. driver' \in [Device -> {"native", "vfio", "none", "removed", "absent"}]
    BY <1>14 DEF ReleaseDevice, Detach, Taken
  <2> QED
    BY <1>14, <2>1 DEF ReleaseDevice, Detach
<1>15. CASE ForgetDevice
  BY <1>15 DEF ForgetDevice
<1>16. CASE remove_pci_dev
  <2>1. driver' \in [Device -> {"native", "vfio", "none", "removed", "absent"}]
    BY <1>16 DEF remove_pci_dev, Detach, Removed
  <2>2. i' \in 1 .. Cardinality(Device) + 1
    BY <1>2, <1>16 DEF remove_pci_dev, Positions, Releasing
  <2> QED
    BY <1>16, <2>1, <2>2 DEF remove_pci_dev, Detach
<1>17. CASE do_pci_rescan
  <2>1. driver' \in [Device -> {"native", "vfio", "none", "removed", "absent"}]
    BY <1>17 DEF do_pci_rescan
  <2> QED
    BY <1>17, <2>1 DEF do_pci_rescan
<1>18. CASE LinkFound \/ NullUsed \/ WatcherExits
  BY <1>18 DEF LinkFound, NullUsed, WatcherExits, Abort
<1>19. CASE EnableNoIommu
  BY <1>19 DEF EnableNoIommu
<1>20. CASE Plug
  <2>1. driver' \in [Device -> {"native", "vfio", "none", "removed", "absent"}]
    BY <1>20 DEF Plug
  <2> QED
    BY <1>20, <2>1 DEF Plug
<1>21. CASE UNCHANGED vars
  BY <1>21 DEF vars
<1> QED
  BY <1>5, <1>6, <1>7, <1>8, <1>9, <1>10, <1>11, <1>12, <1>13, <1>14, <1>15, <1>16, <1>17,
    <1>18, <1>19, <1>20, <1>21 DEF Next, Main, World, Ended

\* The loops stay within the list or the count they go by.
LEMMA PositionsStep ==
  ASSUME TypeOK, Positions, [Next]_vars
  PROVE  Positions'
<1> USE DEF Positions, Binding, Releasing, Goto, mainVars, sysVars
<1>1. Group \in SUBSET Device
  BY DEF Group
<1>2. /\ Cardinality(Group) <= Cardinality(Device) /\ Cardinality(Device) \in Nat
      /\ Cardinality(Group) \in Nat
  BY <1>1, FiniteDevices
<1>3. Len(dev_list) \in Nat /\ i \in Nat /\ i >= 1 /\ num \in Nat
  BY <1>2 DEF TypeOK
<1>4. CASE FindHost \/ total_grp_modules \/ check_vfio_module
  BY <1>4 DEF FindHost, total_grp_modules, check_vfio_module
<1>5. CASE ListGroup
  <2>1. Len(dev_list') = Cardinality(Group)
    BY <1>1, <1>5, ListingIsComplete DEF ListGroup
  <2> QED
    BY <1>2, <1>5, <2>1 DEF ListGroup
<1>6. CASE TakeDevice \/ ForgetDevice
  BY <1>3, <1>6 DEF TakeDevice, ForgetDevice
<1>7. CASE ClaimDevice
  BY <1>3, <1>7 DEF ClaimDevice, Advance
<1>8. CASE vfio_dev_init \/ CloseFiles
  BY <1>3, <1>8 DEF vfio_dev_init, CloseFiles
<1>9. CASE reset_host_interface \/ tbt_hw_init \/ request_router_cfg
  BY <1>9 DEF reset_host_interface, tbt_hw_init, request_router_cfg
<1>10. CASE ReleaseDevice
  BY <1>3, <1>10 DEF ReleaseDevice, Detach, MoreToRelease
<1>11. CASE remove_pci_dev
  BY <1>3, <1>11 DEF remove_pci_dev, Detach
<1>12. CASE do_pci_rescan \/ LinkFound \/ NullUsed \/ WatcherExits
  BY <1>12 DEF do_pci_rescan, LinkFound, NullUsed, WatcherExits, Abort
<1>13. CASE EnableNoIommu \/ Plug
  BY <1>13 DEF EnableNoIommu, Plug
<1>14. CASE UNCHANGED vars
  BY <1>14 DEF vars
<1> QED
  BY <1>4, <1>5, <1>6, <1>7, <1>8, <1>9, <1>10, <1>11, <1>12, <1>13, <1>14
    DEF Next, Main, World, Ended

\* A 0 that main() is going to return was set after the request was posted.
LEMMA ReturnedStep ==
  ASSUME TypeOK, Returned, [Next]_vars
  PROVE  Returned'
<1> USE DEF Returned, Releasing, Goto, mainVars, sysVars
<1>1. CASE FindHost \/ total_grp_modules \/ check_vfio_module \/ ListGroup
  BY <1>1 DEF FindHost, total_grp_modules, check_vfio_module, ListGroup
<1>2. CASE TakeDevice \/ ClaimDevice
  BY <1>2 DEF TakeDevice, ClaimDevice
<1>3. CASE vfio_dev_init
  BY <1>3 DEF vfio_dev_init, FailedInit
<1>4. CASE reset_host_interface \/ tbt_hw_init \/ request_router_cfg
  <2>1. CASE reset_host_interface \/ tbt_hw_init
    BY <2>1 DEF reset_host_interface, tbt_hw_init
  <2>2. CASE request_router_cfg
    <3>1. (ret' = 0 => posted') /\ UNCHANGED aborted /\ pc' = "close"
      BY <2>2 DEF request_router_cfg
    <3>2. ~aborted
      BY <2>2 DEF request_router_cfg
    <3> QED
      BY <3>1, <3>2
  <2> QED
    BY <1>4, <2>1, <2>2
<1>5. CASE CloseFiles \/ ReleaseDevice \/ ForgetDevice \/ remove_pci_dev \/ do_pci_rescan
  BY <1>5 DEF CloseFiles, ReleaseDevice, ForgetDevice, remove_pci_dev, do_pci_rescan, Detach
<1>6. CASE LinkFound \/ NullUsed \/ WatcherExits
  BY <1>6 DEF LinkFound, NullUsed, WatcherExits, Abort
<1>7. CASE EnableNoIommu \/ Plug
  BY <1>7 DEF EnableNoIommu, Plug
<1>8. CASE UNCHANGED vars
  BY <1>8 DEF vars
<1> QED
  BY <1>1, <1>2, <1>3, <1>4, <1>5, <1>6, <1>7, <1>8 DEF Next, Main, World, Ended

-----------------------------------------------------------------------------
(* While no device comes or goes *)

\* A write to sysfs is about one device of the list, and it stays in the group.
LEMMA OneDevice ==
  ASSUME TypeOK, Listed, i \in DOMAIN dev_list, NEW w, w # "absent",
         driver' = [driver EXCEPT ![dev_list[i]] = w],
         ids' \subseteq ids \cup {dev_list[i]}, UNCHANGED <<num, dev_list>>
  PROVE  /\ Listed'
         /\ driver'[dev_list[i]] = w
         /\ \A k \in DOMAIN dev_list : k # i => /\ dev_list[k] # dev_list[i]
                                                /\ driver'[dev_list[k]] = driver[dev_list[k]]
<1>1. dev_list[i] \in Device /\ driver[dev_list[i]] # "absent"
  BY DEF TypeOK, Listed
<1>2. \A d \in Device : driver'[d] = IF d = dev_list[i] THEN w ELSE driver[d]
  BY <1>1 DEF TypeOK
<1>3. \A k \in DOMAIN dev_list : dev_list[k] \in Device
  BY DEF TypeOK
<1>4. \A d \in Device : driver'[d] # "absent" <=> driver[d] # "absent"
  BY <1>1, <1>2
<1>5. \A k \in DOMAIN dev_list : k # i => dev_list[k] # dev_list[i]
  BY DEF Listed
<1>6. Listed'
  BY <1>4 DEF Listed
<1> QED
  BY <1>1, <1>2, <1>3, <1>5, <1>6

\* While the controller's file is open, what would take the controller from
\* vfio-pci waits.
LEMMA HeldStep ==
  ASSUME TypeOK, Positions, Held, [Next]_vars
  PROVE  Held'
<1> USE DEF Held, Driving, Releasing, Goto, mainVars, sysVars
<1>1. CASE FindHost \/ total_grp_modules \/ check_vfio_module \/ ListGroup
  BY <1>1 DEF FindHost, total_grp_modules, check_vfio_module, ListGroup
<1>2. CASE TakeDevice \/ ClaimDevice
  BY <1>2 DEF TakeDevice, ClaimDevice
<1>3. CASE vfio_dev_init
  BY <1>3 DEF vfio_dev_init
<1>4. CASE reset_host_interface \/ tbt_hw_init \/ request_router_cfg \/ CloseFiles
  BY <1>4 DEF reset_host_interface, tbt_hw_init, request_router_cfg, CloseFiles, FilesLeft
<1>5. ASSUME NEW left, NEW next, next \in Releasing, pc \in Releasing, UNCHANGED files,
             Detach(dev_list[i], left, next)
      PROVE  Held'
  BY <1>5, DeviceAssumption DEF Detach, Awaited, Write, Refuse, TypeOK
<1>6. CASE ReleaseDevice
  <2>1. CASE pc' = "overrun"
    BY <2>1
  <2>2. CASE pc' # "overrun"
    <3>1. Detach(dev_list[i], Taken(driver[dev_list[i]]), "forget") /\ pc = "release"
          /\ UNCHANGED files
      BY <1>6, <2>2 DEF ReleaseDevice
    <3> QED
      BY <1>5, <3>1
  <2> QED
    BY <2>1, <2>2
<1>7. CASE remove_pci_dev
  <2>1. Detach(dev_list[i], Removed(driver[dev_list[i]]), "release") /\ pc = "remove"
        /\ UNCHANGED files
    BY <1>7 DEF remove_pci_dev
  <2> QED
    BY <1>5, <2>1
<1>8. CASE ForgetDevice
  BY <1>8 DEF ForgetDevice, Write, Refuse
<1>9. CASE do_pci_rescan \/ LinkFound \/ NullUsed \/ WatcherExits
  BY <1>9 DEF do_pci_rescan, LinkFound, NullUsed, WatcherExits, Abort
<1>10. CASE Plug
  <2>1. PICK d \in Device : ~Awaited(d) /\ driver' = [driver EXCEPT ![d] =
                    CASE driver[d] = "absent" -> IF d \in ids THEN "vfio" ELSE "native"
                      [] OTHER -> "absent"]
    BY <1>10 DEF Plug
  <2>2. UNCHANGED <<pc, files>>
    BY <1>10 DEF Plug
  <2> QED
    BY <2>1, <2>2, DeviceAssumption DEF Awaited, TypeOK
<1>11. CASE EnableNoIommu \/ UNCHANGED vars
  BY <1>11 DEF EnableNoIommu, vars
<1> QED
  BY <1>1, <1>2, <1>3, <1>4, <1>6, <1>7, <1>8, <1>9, <1>10, <1>11
    DEF Next, Main, World, Ended

\* Nobody but a device that comes changes the count or the list, and a group
\* that was viable when it was opened stays so until it is handed back.
LEMMA CountedStep ==
  ASSUME TypeOK, Positions, Counted, [Next]_vars
  PROVE  Counted'
<1> SUFFICES ASSUME plugs' = 0
             PROVE  /\ Untouched'
                    /\ pc' \in Binding \cup Driving \cup Releasing => Len(dev_list)' = num'
                    /\ pc' \in Driving => Viable'
                    /\ pc' # "overrun"
  BY DEF Counted
<1> USE DEF Binding, Driving, Releasing, Before, Goto, mainVars, sysVars
<1>1. plugs = 0
  BY DEF Next, Main, World, Ended, vars, TypeOK, FindHost, total_grp_modules,
    check_vfio_module, ListGroup, TakeDevice, ClaimDevice, vfio_dev_init,
    reset_host_interface, tbt_hw_init, request_router_cfg, CloseFiles, ReleaseDevice,
    ForgetDevice, remove_pci_dev, do_pci_rescan, LinkFound, NullUsed, WatcherExits, Abort,
    EnableNoIommu, Plug
<1>2. /\ Untouched /\ pc # "overrun"
      /\ pc \in Binding \cup Driving \cup Releasing => Len(dev_list) = num
      /\ pc \in Driving => Viable
  BY <1>1 DEF Counted
<1>3. CASE FindHost \/ total_grp_modules \/ check_vfio_module
  <2>1. /\ pc \in Before /\ UNCHANGED <<driver, ids, files>>
        /\ pc' \in {"count", "check", "list", "exit"}
        /\ pc' \in {"check", "list"} => num' = Cardinality(Group)
    BY <1>2, <1>3 DEF FindHost, total_grp_modules, check_vfio_module, Untouched
  <2>2. Group' = Group
    BY <2>1 DEF Group
  <2> QED
    BY <1>2, <2>1, <2>2 DEF Untouched
<1>4. CASE ListGroup
  <2>1. pc' = "take" /\ dev_list' \in Listings(Group) /\ num' = num /\ num = Cardinality(Group)
    BY <1>2, <1>4 DEF ListGroup, Untouched
  <2>2. Group \in SUBSET Device
    BY DEF Group
  <2> QED
    BY <2>1, <2>2, ListingIsComplete DEF Untouched
<1>5. CASE TakeDevice \/ ClaimDevice
  BY <1>2, <1>5 DEF TakeDevice, ClaimDevice, Untouched
<1>6. CASE vfio_dev_init
  <2>1. Viable => Viable'
    BY <1>6 DEF vfio_dev_init, Viable, Group
  <2> QED
    BY <1>2, <1>6, <2>1 DEF vfio_dev_init, Untouched
<1>7. CASE reset_host_interface \/ tbt_hw_init \/ request_router_cfg \/ CloseFiles
  <2>1. pc \in Driving /\ UNCHANGED <<num, dev_list, driver>> /\ pc' \in Driving \cup {"release"}
    BY <1>7 DEF reset_host_interface, tbt_hw_init, request_router_cfg, CloseFiles
  <2>2. Viable'
    BY <1>2, <2>1 DEF Viable, Group
  <2> QED
    BY <1>2, <2>1, <2>2 DEF Untouched
<1>8. CASE ReleaseDevice
  <2>1. i <= Len(dev_list) /\ pc = "release" /\ UNCHANGED <<num, dev_list>>
    BY <1>2, <1>8 DEF ReleaseDevice, MoreToRelease
  <2>2. Len(dev_list) \in Nat /\ i \in Int
    <3>1. Cardinality(Device) \in Nat
      BY FiniteDevices
    <3> QED
      BY <3>1 DEF TypeOK
  <2>3. pc' \in {"forget", "wait"}
    BY <1>8, <2>1, <2>2 DEF ReleaseDevice, Detach
  <2> QED
    BY <1>2, <2>1, <2>3 DEF Untouched
<1>9. CASE ForgetDevice
  BY <1>2, <1>9 DEF ForgetDevice, Untouched
<1>10. CASE remove_pci_dev
  BY <1>2, <1>10 DEF remove_pci_dev, Detach, Untouched
<1>11. CASE do_pci_rescan \/ LinkFound \/ NullUsed \/ WatcherExits
  BY <1>11 DEF do_pci_rescan, LinkFound, NullUsed, WatcherExits, Abort, Untouched
<1>12. CASE EnableNoIommu \/ UNCHANGED vars
  BY <1>2, <1>12 DEF EnableNoIommu, vars, Untouched, Viable, Group
<1>13. ~Plug
  BY <1>1 DEF Plug, TypeOK
<1> QED
  BY <1>3, <1>4, <1>5, <1>6, <1>7, <1>8, <1>9, <1>10, <1>11, <1>12, <1>13
    DEF Next, Main, World, Ended

\* A write to sysfs that is carried out was not refused.
LEMMA CarriedOut ==
  ASSUME NEW drivers, NEW claimed, Refuse \/ Write(drivers, claimed), ~refused'
  PROVE  driver' = drivers /\ ids' = claimed
BY DEF Refuse, Write

\* main() takes every device there is, in order, and hands it back in order.
LEMMA UndisturbedStep ==
  ASSUME IInv, [Next]_vars
  PROVE  Undisturbed'
<1> SUFFICES ASSUME plugs' = 0, ~refused'
             PROVE  /\ pc' \in Binding \cup Driving \cup Releasing =>
                         Listed' /\ Progress' /\ Closed'
                    /\ RestoredOnReturn'
  BY DEF Undisturbed
<1> USE DEF Binding, Driving, Releasing, Goto, mainVars, sysVars
<1>1. TypeOK /\ Positions
  BY DEF IInv
<1>2. plugs = 0 /\ ~refused
  BY <1>1 DEF Next, Main, World, Ended, vars, TypeOK, FindHost, total_grp_modules,
    check_vfio_module, ListGroup, TakeDevice, ClaimDevice, vfio_dev_init,
    reset_host_interface, tbt_hw_init, request_router_cfg, CloseFiles, ReleaseDevice,
    ForgetDevice, remove_pci_dev, do_pci_rescan, Detach, Write, Refuse, LinkFound, NullUsed,
    WatcherExits, Abort, EnableNoIommu, Plug
<1>3. /\ Untouched /\ RestoredOnReturn
      /\ pc \in Binding \cup Driving \cup Releasing => Listed /\ Progress /\ Closed
  BY <1>2 DEF IInv, Counted, Undisturbed
<1>4. Len(dev_list) \in Nat /\ DOMAIN dev_list = 1 .. Len(dev_list) /\ i \in Nat /\ i >= 1
        /\ num \in Nat /\ DOMAIN dev_list \subseteq Nat
  <2>1. Cardinality(Device) \in Nat
    BY FiniteDevices
  <2> QED
    BY <1>1, <2>1 DEF TypeOK
<1>5. \A k \in DOMAIN dev_list : k < i \/ k = i \/ k > i
  BY <1>4
<1>6. CASE FindHost \/ total_grp_modules \/ check_vfio_module
  <2>1. /\ pc \in Before /\ UNCHANGED <<driver, ids, files>>
        /\ pc' \in {"count", "check", "list", "exit"}
    BY <1>6 DEF FindHost, total_grp_modules, check_vfio_module, Before
  <2> QED
    BY <1>3, <2>1 DEF Untouched, RestoredOnReturn
<1>7. CASE ListGroup
  <2>1. /\ pc' = "take" /\ i' = 1 /\ dev_list' \in Listings(Group)
        /\ UNCHANGED <<num, files, driver, ids>>
    BY <1>7 DEF ListGroup
  <2>2. /\ \A d \in Device : driver[d] \in {"native", "absent"}
        /\ ids = {} /\ files = {} /\ num = Cardinality(Group)
    BY <1>3, <1>7 DEF ListGroup, Untouched, Before
  <2>3. Group \in SUBSET Device /\ \A d \in Device : d \in Group <=> driver[d] = "native"
    BY <2>2 DEF Group
  <2>4. /\ Len(dev_list') = num
        /\ \A k \in DOMAIN dev_list' : dev_list'[k] \in Group
        /\ \A k, m \in DOMAIN dev_list' : dev_list'[k] = dev_list'[m] => k = m
        /\ \A d \in Group : \E k \in DOMAIN dev_list' : dev_list'[k] = d
        /\ DOMAIN dev_list' \subseteq Nat \ {0}
    BY <2>1, <2>2, <2>3, ListingIsComplete
  <2>5. Listed'
    BY <2>1, <2>2, <2>3, <2>4 DEF Listed
  <2>6. \A k \in DOMAIN dev_list' : driver[dev_list'[k]] = "native" /\ dev_list'[k] \notin ids /\ ~(k < 1)
    BY <2>2, <2>3, <2>4
  <2>7. Progress'
    BY <2>1, <2>6 DEF Progress, Is
  <2> QED
    BY <2>1, <2>2, <2>5, <2>7 DEF RestoredOnReturn, Closed
<1>8. CASE TakeDevice
  <2>1. /\ pc = "take" /\ pc' = "claim" /\ i \in DOMAIN dev_list
        /\ UNCHANGED <<num, dev_list, i, ids>>
        /\ driver' = [driver EXCEPT ![dev_list[i]] = Taken(driver[dev_list[i]])]
    BY <1>4, <1>8, CarriedOut DEF TakeDevice
  <2>2. Listed /\ Progress
    BY <1>3, <2>1
  <2>3. Is(i, "native", FALSE)
    BY <2>1, <2>2 DEF Progress
  <2>4. Taken(driver[dev_list[i]]) = "none"
    BY <2>3 DEF Is, Taken
  <2>5. /\ Listed' /\ driver'[dev_list[i]] = "none"
        /\ \A k \in DOMAIN dev_list : k # i => driver'[dev_list[k]] = driver[dev_list[k]]
    BY <1>1, <2>1, <2>2, <2>4, OneDevice
  <2>6. Progress'
    BY <1>4, <2>1, <2>2, <2>3, <2>5 DEF Progress, Is
  <2> QED
    BY <2>1, <2>5, <2>6 DEF RestoredOnReturn, Closed
<1>9. CASE ClaimDevice
  <2>1. /\ pc = "claim" /\ pc' = "take" /\ i \in DOMAIN dev_list /\ i' = i + 1
        /\ UNCHANGED <<num, dev_list>> /\ ids' = ids \cup {dev_list[i]}
        /\ driver' = [driver EXCEPT ![dev_list[i]] = Claimed(driver[dev_list[i]])]
    BY <1>1, <1>4, <1>9 DEF ClaimDevice, Write, Refuse, Advance, Positions
  <2>2. Listed /\ Progress
    BY <1>3, <2>1
  <2>3. Is(i, "none", FALSE)
    BY <2>1, <2>2 DEF Progress
  <2>4. Claimed(driver[dev_list[i]]) = "vfio"
    BY <2>3 DEF Is, Claimed
  <2>5. /\ Listed' /\ driver'[dev_list[i]] = "vfio"
        /\ \A k \in DOMAIN dev_list : k # i => /\ dev_list[k] # dev_list[i]
                                               /\ driver'[dev_list[k]] = driver[dev_list[k]]
    BY <1>1, <2>1, <2>2, <2>4, OneDevice
  <2>6. \A k \in DOMAIN dev_list : k < i' <=> k < i \/ k = i
    BY <1>4, <2>1
  <2>7. ASSUME NEW k \in DOMAIN dev_list
        PROVE  /\ k < i' => Is(k, "vfio", TRUE)'
               /\ k >= i' => Is(k, "native", FALSE)'
    BY <1>4, <2>1, <2>2, <2>5, <2>6 DEF Progress, Is
  <2>8. Progress'
    <3>1. i' \in Nat /\ DOMAIN dev_list' = DOMAIN dev_list /\ \A k \in DOMAIN dev_list : k \in Nat
      BY <1>4, <2>1
    <3>2. \A k \in DOMAIN dev_list : (k > i' => k >= i') /\ (k = i' => k >= i')
      BY <3>1
    <3> QED
      BY <2>1, <2>7, <3>1, <3>2 DEF Progress
  <2> QED
    BY <2>1, <2>5, <2>8 DEF RestoredOnReturn, Closed
<1>10. CASE vfio_dev_init
  <2>1. /\ pc = "take" /\ i > Len(dev_list) /\ UNCHANGED <<num, dev_list, driver, ids>>
        /\ \/ pc' = "reset"
           \/ pc' = "release" /\ i' = 1 /\ files' = {}
    BY <1>10 DEF vfio_dev_init
  <2>2. Listed /\ \A k \in DOMAIN dev_list : Is(k, "vfio", TRUE)
    <3>1. \A k \in DOMAIN dev_list : k < i
      BY <1>4, <2>1
    <3> QED
      BY <1>3, <2>1, <3>1 DEF Progress
  <2>3. Listed' /\ \A k \in DOMAIN dev_list' : Is(k, "vfio", TRUE)'
    BY <2>1, <2>2 DEF Listed, Is
  <2>4. \A k \in DOMAIN dev_list' : ~(k < 1)
    BY <1>4, <2>1
  <2> QED
    BY <2>1, <2>3, <2>4 DEF Progress, RestoredOnReturn, Closed
<1>11. CASE reset_host_interface \/ tbt_hw_init \/ request_router_cfg \/ CloseFiles
  <2>1. /\ pc \in Driving /\ UNCHANGED <<num, dev_list, driver, ids>>
        /\ \/ pc' \in Driving
           \/ pc' = "release" /\ i' = 1 /\ files' = FilesLeft
    BY <1>11 DEF reset_host_interface, tbt_hw_init, request_router_cfg, CloseFiles
  <2>2. Listed' /\ \A k \in DOMAIN dev_list' : Is(k, "vfio", TRUE)'
    BY <1>3, <2>1 DEF Progress, Listed, Is
  <2>3. \A k \in DOMAIN dev_list' : ~(k < 1)
    BY <1>4, <2>1
  <2>4. FilesLeft \subseteq {"device"}
    BY <1>1 DEF FilesLeft, TypeOK
  <2> QED
    BY <2>1, <2>2, <2>3, <2>4 DEF Progress, RestoredOnReturn, Closed
<1>12. CASE ReleaseDevice
  <2>1. pc = "release" /\ i <= num /\ Listed /\ Progress /\ Closed
    BY <1>3, <1>12 DEF ReleaseDevice, MoreToRelease
  <2>2. i \in DOMAIN dev_list
    BY <1>4, <2>1 DEF Listed
  <2>0. i <= Len(dev_list)
    BY <1>4, <2>2
  <2> SUFFICES ASSUME pc' # "wait"
               PROVE  pc' = "forget" /\ Listed' /\ Progress' /\ Closed'
    BY <1>12, <2>0, <1>4 DEF ReleaseDevice, Detach, RestoredOnReturn
  <2>3. /\ pc' = "forget" /\ UNCHANGED <<num, dev_list, i, ids, files>>
        /\ driver' = [driver EXCEPT ![dev_list[i]] = Taken(driver[dev_list[i]])]
    BY <1>4, <1>12, <2>0 DEF ReleaseDevice, Detach, Write, Refuse
  <2>4. Is(i, "vfio", TRUE)
    BY <2>1, <2>2 DEF Progress
  <2>5. Taken(driver[dev_list[i]]) = "none"
    BY <2>4 DEF Is, Taken
  <2>6. /\ Listed' /\ driver'[dev_list[i]] = "none"
        /\ \A k \in DOMAIN dev_list : k # i => driver'[dev_list[k]] = driver[dev_list[k]]
    BY <1>1, <2>1, <2>2, <2>3, <2>5, OneDevice
  <2>7. Progress'
    BY <1>4, <2>1, <2>3, <2>4, <2>6 DEF Progress, Is
  <2> QED
    BY <2>1, <2>3, <2>6, <2>7 DEF RestoredOnReturn, Closed
<1>13. CASE ForgetDevice
  <2>1. /\ pc = "forget" /\ pc' = "remove" /\ UNCHANGED <<num, dev_list, i, driver, files>>
        /\ ids' = ids \ {dev_list[i]} /\ Listed /\ Progress /\ Closed
    BY <1>3, <1>13, CarriedOut DEF ForgetDevice
  <2>2. i \in DOMAIN dev_list
    BY <1>1, <1>4, <2>1 DEF Positions
  <2>3. Listed'
    BY <2>1 DEF Listed
  <2>4. \A k \in DOMAIN dev_list : k # i => dev_list[k] # dev_list[i]
    BY <2>1, <2>2 DEF Listed
  <2>5. Progress'
    BY <1>4, <2>1, <2>2, <2>4 DEF Progress, Is
  <2> QED
    BY <2>1, <2>3, <2>5 DEF RestoredOnReturn, Closed
<1>14. CASE remove_pci_dev
  <2>1. pc = "remove" /\ i \in DOMAIN dev_list /\ Listed /\ Progress /\ Closed
    BY <1>1, <1>3, <1>4, <1>14 DEF remove_pci_dev, Positions
  <2>2. Is(i, "none", FALSE)
    BY <2>1 DEF Progress
  <2>3. /\ pc' = "release" /\ i' = i + 1 /\ UNCHANGED <<num, dev_list, ids, files>>
        /\ driver' = [driver EXCEPT ![dev_list[i]] = "removed"]
    BY <1>14, <2>2 DEF remove_pci_dev, Detach, Awaited, Removed, Write, Refuse, Is
  <2>4. /\ Listed' /\ driver'[dev_list[i]] = "removed"
        /\ \A k \in DOMAIN dev_list : k # i => driver'[dev_list[k]] = driver[dev_list[k]]
    BY <1>1, <2>1, <2>3, OneDevice
  <2>5. ASSUME NEW k \in DOMAIN dev_list
        PROVE  /\ k < i' => Is(k, "removed", FALSE)'
               /\ k >= i' => Is(k, "vfio", TRUE)'
    <3>1. k < i' <=> k < i \/ k = i
      BY <1>4, <2>3
    <3>2. k >= i' => k > i /\ k # i
      BY <1>4, <2>3
    <3> QED
      BY <2>1, <2>2, <2>3, <2>4, <3>1, <3>2 DEF Progress, Is
  <2>6. \A k \in DOMAIN dev_list : (k > i' => k >= i') /\ (k = i' => k >= i')
    BY <1>4, <2>3
  <2>7. Progress'
    BY <2>3, <2>5, <2>6 DEF Progress
  <2> QED
    BY <2>1, <2>3, <2>4, <2>7 DEF RestoredOnReturn, Closed
<1>15. CASE do_pci_rescan
  <2>1. /\ pc = "release" /\ ~(i <= num) /\ Listed /\ Progress /\ Closed
        /\ pc' = "exit" /\ UNCHANGED <<ids, files>>
    BY <1>3, <1>15 DEF do_pci_rescan, MoreToRelease, Write, Refuse
  <2>2. \A k \in DOMAIN dev_list : k < i
    BY <1>4, <2>1 DEF Listed
  <2>3. \A k \in DOMAIN dev_list : Is(k, "removed", FALSE)
    BY <2>1, <2>2 DEF Progress
  <2>4. ids = {}
    <3>1. \A d \in ids : FALSE
      BY <2>1, <2>3 DEF Listed, Is
    <3> QED
      BY <3>1
  <2>5. \A d \in Device : driver[d] \in {"removed", "absent"}
    BY <2>1, <2>3 DEF Listed, Is
  <2>6. \A d \in Device : driver'[d] \in {"native", "absent"}
    BY <1>15, <2>4, <2>5 DEF do_pci_rescan, Write, Refuse
  <2>7. files = {}
    BY <2>1, <2>5, DeviceAssumption DEF IInv, Held, Closed
  <2> QED
    BY <2>1, <2>4, <2>6, <2>7 DEF RestoredOnReturn
<1>16. CASE LinkFound \/ NullUsed \/ WatcherExits
  <2>1. (pc' = "exit" /\ aborted') \/ pc' = "crash"
    BY <1>16 DEF LinkFound, NullUsed, WatcherExits, Abort
  <2> QED
    BY <2>1 DEF RestoredOnReturn
<1>17. ASSUME UNCHANGED <<pc, num, dev_list, i, files, driver, ids, aborted, plugs>>
       PROVE  /\ pc' \in Binding \cup Driving \cup Releasing => Listed' /\ Progress' /\ Closed'
              /\ RestoredOnReturn'
  BY <1>2, <1>3, <1>17 DEF Listed, Progress, Is, Closed, RestoredOnReturn
<1>18. CASE EnableNoIommu \/ UNCHANGED vars
  BY <1>17, <1>18 DEF EnableNoIommu, vars
<1>19. ~Plug
  BY <1>1, <1>2 DEF Plug
<1> QED
  BY <1>6, <1>7, <1>8, <1>9, <1>10, <1>11, <1>12, <1>13, <1>14, <1>15, <1>16, <1>18, <1>19
    DEF Next, Main, World, Ended

-----------------------------------------------------------------------------
(* The theorems *)

\* A run begins with the native drivers in charge.
LEMMA InitHolds == Init => IInv
<1> SUFFICES ASSUME Init PROVE IInv
  OBVIOUS
<1> USE DeviceAssumption DEF Init
<1>1. Cardinality(Device) \in Nat /\ Len(dev_list) = 0 /\ dev_list \in Seq(Device)
  BY FiniteDevices
<1>2. TypeOK
  <2>1. driver \in [Device -> {"native", "vfio", "none", "removed", "absent"}]
    OBVIOUS
  <2>2. 0 \in 0 .. Cardinality(Device) /\ 1 \in 1 .. Cardinality(Device) + 1 /\ 0 \in 0 .. MaxPlugs
    BY <1>1
  <2>3. /\ pc = "find" /\ num = 0 /\ i = 1 /\ ret = 0 /\ posted = FALSE /\ files = {}
        /\ watcher = FALSE /\ ids = {} /\ no_iommu = FALSE /\ plugs = 0
        /\ refused = FALSE /\ aborted = FALSE
    OBVIOUS
  <2> QED
    BY <1>1, <2>1, <2>2, <2>3, Zenon DEF TypeOK, Labels
<1>3. Positions /\ Returned
  BY <1>1 DEF Positions, Returned, Binding, Releasing
<1>4. Held /\ Counted /\ Undisturbed
  BY DEF Held, Counted, Undisturbed, Untouched, RestoredOnReturn, Binding, Driving, Releasing
<1> QED
  BY <1>2, <1>3, <1>4 DEF IInv

\* The invariant is inductive.
LEMMA StepHolds == IInv /\ [Next]_vars => IInv'
BY TypedStep, PositionsStep, ReturnedStep, HeldStep, CountedStep, UndisturbedStep DEF IInv

\* Every variable keeps its type.
THEOREM TypeCorrect == Spec => []TypeOK
<1>1. IInv => TypeOK
  BY DEF IInv
<1> QED
  BY InitHolds, StepHolds, <1>1, PTL DEF Spec

\* Whichever path main() takes to its own end, every device is back with its
\* driver, vfio-pci claims none and no VFIO file is open, if no device came or
\* went and no write to sysfs failed.
THEOREM MachineIsRestored == Spec => []RestoredOnReturn
<1>1. IInv => RestoredOnReturn
  BY DEF IInv, Undisturbed, RestoredOnReturn
<1> QED
  BY InitHolds, StepHolds, <1>1, PTL DEF Spec

\* reset_host_interface() and what follows it run, as long as no device came or
\* went, while no native driver is left in the group, and while vfio-pci drives
\* all of it if no write to sysfs failed.
THEOREM HardwareStaysOurs == Spec => []HardwareIsOurs
<1>1. IInv => HardwareIsOurs
  <2> SUFFICES ASSUME IInv, pc \in Driving, plugs = 0, NEW d \in Group
               PROVE  /\ driver[d] # "native"
                      /\ refused \/ driver[d] = "vfio"
    BY DEF HardwareIsOurs, Driving
  <2>1. driver[d] # "native"
    BY DEF IInv, Counted, Viable
  <2>2. ASSUME ~refused PROVE driver[d] = "vfio"
    <3>1. Listed /\ Progress
      BY <2>2 DEF IInv, Undisturbed
    <3>2. PICK k \in DOMAIN dev_list : dev_list[k] = d
      BY <3>1 DEF Listed, Group
    <3> QED
      BY <3>1, <3>2 DEF Progress, Is
  <2>3. refused \in BOOLEAN
    BY DEF IInv, TypeOK
  <2> QED
    BY <2>1, <2>2, <2>3
<1> QED
  BY InitHolds, StepHolds, <1>1, PTL DEF Spec

\* unbind_grp_modules() does not read past dev_list, although it counts by
\* another listing, as long as no device came or went.
THEOREM ListIsNotOverrun == Spec => []NoOverrun
<1>1. IInv => NoOverrun
  BY DEF IInv, Counted, NoOverrun
<1> QED
  BY InitHolds, StepHolds, <1>1, PTL DEF Spec

\* main() returns 0 only after request_router_cfg() has posted its request.
THEOREM StatusStaysHonest == Spec => []StatusIsHonest
<1>1. IInv => StatusIsHonest
  BY DEF IInv, Returned, StatusIsHonest
<1> QED
  BY InitHolds, StepHolds, <1>1, PTL DEF Spec

=============================================================================
