----------------------------- MODULE HostSession -----------------------------
(***************************************************************************)
(* One run of example.c: take the PCI devices of the controller's IOMMU    *)
(* group from their drivers and give them to vfio-pci, open the VFIO       *)
(* files, drive the hardware, and hand everything back, on the straight    *)
(* path and on every error path of main(); with the thread that watches    *)
(* for VFIO's no-IOMMU mode, the exits in the middle of a helper, writes   *)
(* to sysfs that fail unnoticed, results used unchecked, and devices that  *)
(* come and go.                                                            *)
(*                                                                         *)
(* What happens on the hardware in between is HwInit and TxRing; here it   *)
(* succeeds or fails.                                                      *)
(***************************************************************************)
EXTENDS Integers, Sequences, FiniteSets

CONSTANTS
  Device,      \* PCI devices that can be in the IOMMU group
  Host,        \* the host controller among them, pci_id of main()
  MaxPlugs,    \* bound on devices coming or going
  Corruption,  \* is_link_nabs() may find a link in sysfs
  UnsafeMode   \* somebody may switch VFIO to no-IOMMU mode

ASSUME DeviceAssumption ==
  IsFiniteSet(Device) /\ Host \in Device /\ MaxPlugs \in Nat
ASSUME EnvironmentAssumption ==
  Corruption \in BOOLEAN /\ UnsafeMode \in BOOLEAN

VARIABLES
  \* main()
  pc,        \* next step
  num,       \* devices total_grp_modules() counted
  dev_list,  \* devices bind_grp_modules() found
  i,         \* position in the loop over dev_list
  ret,       \* main()'s ret
  posted,    \* request_router_cfg() posted its request
  files,     \* VFIO files held open
  watcher,   \* the no-IOMMU thread runs
  \* the system
  driver,    \* who drives a device: "native", "vfio", "none", "removed", "absent"
  ids,       \* devices vfio-pci claims through new_id
  no_iommu,  \* enable_unsafe_noiommu_mode reads 'Y'
  plugs,     \* devices that came or went
  refused,   \* a write to sysfs failed
  aborted    \* the process ended in exit(1) outside main()

mainVars == <<num, dev_list, i, ret, posted, files, watcher>>
sysVars  == <<driver, ids, no_iommu, plugs, refused>>
vars == <<pc, mainVars, sysVars, aborted>>

-----------------------------------------------------------------------------
\* What ls finds in the group's directory.
Group == {d \in Device : driver[d] \in {"native", "vfio", "none"}}

\* The listings of a set of devices.
Listings(S) == {s \in [1 .. Cardinality(S) -> S] :
                  \A j, k \in DOMAIN s : j # k => s[j] # s[k]}

\* main() has returned, has read past dev_list, or has dereferenced NULL.
Running == pc \notin {"exit", "overrun", "crash"}

Goto(l) == pc' = l /\ UNCHANGED aborted

\* An echo into sysfs, run by sudo in a shell ...
Write(drivers, claimed) ==
  driver' = drivers /\ ids' = claimed /\ UNCHANGED refused

\* ... and one that fails, which nobody looks at.
Refuse == refused' = TRUE /\ UNCHANGED <<driver, ids>>

\* vfio-pci lets a device go only when its VFIO file is closed; until then the
\* kernel keeps the writer waiting.
Awaited(d) == d = Host /\ driver[d] = "vfio" /\ "device" \in files

-----------------------------------------------------------------------------
(* Setting up *)

\* trim_host_pci_id()
FindHost ==
  /\ pc = "find"
  /\ \/ Goto("count") /\ UNCHANGED ret
     \/ Goto("exit") /\ ret' = 1
  /\ UNCHANGED <<num, dev_list, i, posted, files, watcher, sysVars>>

total_grp_modules ==
  /\ pc = "count"
  /\ num' = Cardinality(Group)
  /\ Goto("check")
  /\ UNCHANGED <<dev_list, i, ret, posted, files, watcher, sysVars>>

\* A thread that cannot be created is only warned about.
check_vfio_module ==
  /\ pc = "check"
  /\ \/ Goto("exit") /\ ret' = 1 /\ UNCHANGED watcher
     \/ Goto("list") /\ watcher' \in BOOLEAN /\ UNCHANGED ret
  /\ UNCHANGED <<num, dev_list, i, posted, files, sysVars>>

\* bind_grp_modules() lists the group anew ...
ListGroup ==
  /\ pc = "list"
  /\ dev_list' \in Listings(Group)
  /\ i' = 1
  /\ Goto("take")
  /\ UNCHANGED <<num, ret, posted, files, watcher, sysVars>>

\* What is left of a driver after the write to driver/unbind.
Taken(d) == IF d \in {"native", "vfio"} THEN "none" ELSE d

\* ... and for each device writes driver/unbind ...
TakeDevice ==
  /\ pc = "take"
  /\ i <= Len(dev_list)
  /\ Refuse \/ Write([driver EXCEPT ![dev_list[i]] = Taken(@)], ids)
  /\ Goto("claim")
  /\ UNCHANGED <<mainVars, no_iommu, plugs>>

\* Variants: the loop does not advance, or twice for one device.
Advance_Stuck == i
Advance_Twice == i + 2

Advance == i + 1

\* Variant: new_id is written before the driver has let the device go.
Claimed_Early(d) == d

Claimed(d) == IF d = "none" THEN "vfio" ELSE d

\* ... and vfio-pci/new_id, which binds the device if it is there and free.
ClaimDevice ==
  /\ pc = "claim"
  /\ \/ Refuse
     \/ Write([driver EXCEPT ![dev_list[i]] = Claimed(@)], ids \cup {dev_list[i]})
  /\ i' = Advance
  /\ Goto("take")
  /\ UNCHANGED <<num, dev_list, ret, posted, files, watcher, no_iommu, plugs>>

\* Variant: main() jumps to its end with the ret it was born with.
FailedInit_Unset == ret

\* main()'s ret when vfio_dev_init() returned NULL.
FailedInit == 1

\* The kernel calls a group viable when no driver but vfio-pci is in it.
Viable == \A d \in Group : driver[d] # "native"

\* vfio_dev_init() closes what it opened when it fails.  What the ioctls after
\* the check of the group return is not looked at: main() goes on without the
\* device's file.
vfio_dev_init ==
  /\ pc = "take"
  /\ i > Len(dev_list)
  /\ \/ /\ Viable
        /\ \/ driver[Host] = "vfio" /\ files' = {"container", "group", "device"}
           \/ files' = {"container", "group"}
        /\ Goto("reset")
        /\ UNCHANGED <<i, ret>>
     \/ /\ files' = {}
        /\ ret' = FailedInit
        /\ i' = 1
        /\ Goto("release")
  /\ UNCHANGED <<num, dev_list, posted, watcher, sysVars>>

-----------------------------------------------------------------------------
(* Driving the hardware *)

\* The regions are fetched and the host interface is reset; a region that
\* cannot be mapped is left alone.
reset_host_interface ==
  /\ pc = "reset"
  /\ Goto("hw_init")
  /\ UNCHANGED <<mainVars, sysVars>>

tbt_hw_init ==
  /\ pc = "hw_init"
  /\ \/ Goto("dma") /\ ret' = 0
     \/ Goto("close") /\ ret' = 1
  /\ UNCHANGED <<num, dev_list, i, posted, files, watcher, sysVars>>

request_router_cfg ==
  /\ pc = "dma"
  /\ posted' \in BOOLEAN
  /\ posted' => "device" \in files
  /\ ret' = IF posted' THEN 0 ELSE 1
  /\ Goto("close")
  /\ UNCHANGED <<num, dev_list, i, files, watcher, sysVars>>

-----------------------------------------------------------------------------
(* Handing back *)

\* The container and the group are closed, the device is not.
FilesLeft == files \ {"container", "group"}

CloseFiles ==
  /\ pc = "close"
  /\ files' = FilesLeft
  /\ i' = 1
  /\ Goto("release")
  /\ UNCHANGED <<num, dev_list, ret, posted, watcher, sysVars>>

\* Variants: the loop stops one short or one late.
MoreToRelease_Short == i < num
MoreToRelease_Past == i <= num + 1

\* The loop of unbind_grp_modules() goes by num, not by the list.
MoreToRelease == i <= num

\* The write that takes device d from its driver: it waits, is carried out or
\* fails.
Detach(d, left, next) ==
  \/ Awaited(d) /\ Goto("wait") /\ UNCHANGED <<driver, ids, refused>>
  \/ ~Awaited(d) /\ Goto(next) /\ Write([driver EXCEPT ![d] = left], ids)
  \/ Goto(next) /\ Refuse

\* unbind_vfio_module(): driver/unbind ...
ReleaseDevice ==
  /\ pc = "release"
  /\ MoreToRelease
  /\ \/ /\ i > Len(dev_list)        \* beyond the end of the array
        /\ Goto("overrun")
        /\ UNCHANGED <<driver, ids, refused>>
     \/ /\ i <= Len(dev_list)
        /\ Detach(dev_list[i], Taken(driver[dev_list[i]]), "forget")
  /\ UNCHANGED <<mainVars, no_iommu, plugs>>

\* ... vfio-pci/remove_id ...
ForgetDevice ==
  /\ pc = "forget"
  /\ Refuse \/ Write(driver, ids \ {dev_list[i]})
  /\ Goto("remove")
  /\ UNCHANGED <<mainVars, no_iommu, plugs>>

\* What is left of a device that was removed.
Removed(d) == IF d = "absent" THEN d ELSE "removed"

\* ... and remove_pci_dev().
remove_pci_dev ==
  /\ pc = "remove"
  /\ Detach(dev_list[i], Removed(driver[dev_list[i]]), "release")
  /\ i' = IF pc' = "wait" THEN i ELSE i + 1
  /\ UNCHANGED <<num, dev_list, ret, posted, files, watcher, no_iommu, plugs>>

\* The rescan finds the removed devices and offers them to their drivers.
do_pci_rescan ==
  /\ pc = "release"
  /\ ~MoreToRelease
  /\ \/ Refuse
     \/ Write([d \in Device |->
                  IF driver[d] # "removed" THEN driver[d]
                  ELSE IF d \in ids THEN "vfio" ELSE "native"], ids)
  /\ Goto("exit")
  /\ UNCHANGED <<mainVars, no_iommu, plugs>>

-----------------------------------------------------------------------------
(* The rest of the world *)

Abort ==
  /\ pc' = "exit"
  /\ ret' = 1
  /\ aborted' = TRUE
  /\ UNCHANGED <<num, dev_list, i, posted, files, watcher, sysVars>>

\* exit(1) after is_link_nabs(), in front of each write to sysfs.
LinkFound ==
  /\ Corruption
  /\ \/ pc = "take" /\ i <= Len(dev_list)
     \/ pc \in {"claim", "forget", "remove"}
     \/ pc = "release"
  /\ Abort

\* What lspci, readlink or setpci did not print, and a region that is not
\* there, are dereferenced as NULL.
NullUsed ==
  /\ pc \in {"take", "reset", "hw_init", "dma"}
  /\ Goto("crash")
  /\ UNCHANGED <<mainVars, sysVars>>

\* wait_for_vfio_no_iommu()
WatcherExits == watcher /\ no_iommu /\ Running /\ Abort

EnableNoIommu ==
  /\ UnsafeMode /\ ~no_iommu /\ Running
  /\ no_iommu' = TRUE
  /\ UNCHANGED <<pc, mainVars, driver, ids, plugs, refused, aborted>>

\* A device comes, and its driver or vfio-pci takes it, or goes; the controller
\* does not go while its file is open.
Plug ==
  /\ plugs < MaxPlugs /\ Running
  /\ \E d \in {e \in Device : ~Awaited(e)} :
       driver' = [driver EXCEPT ![d] =
                    CASE @ = "absent" -> IF d \in ids THEN "vfio" ELSE "native"
                      [] OTHER -> "absent"]
  /\ plugs' = plugs + 1
  /\ UNCHANGED <<pc, mainVars, ids, no_iommu, refused, aborted>>

\* Nothing follows the end, and nothing but the watcher's exit the wait.
Ended == (~Running \/ pc = "wait") /\ UNCHANGED vars

-----------------------------------------------------------------------------
Init ==
  /\ pc = "find"
  /\ num = 0
  /\ dev_list = <<>>
  /\ i = 1
  /\ ret = 0
  /\ posted = FALSE
  /\ files = {}
  /\ watcher = FALSE
  /\ driver \in [Device -> {"native", "absent"}]
  /\ driver[Host] = "native"
  /\ ids = {}
  /\ no_iommu = FALSE
  /\ plugs = 0
  /\ refused = FALSE
  /\ aborted = FALSE

Main == \/ FindHost \/ total_grp_modules \/ check_vfio_module
        \/ ListGroup \/ TakeDevice \/ ClaimDevice \/ vfio_dev_init
        \/ reset_host_interface \/ tbt_hw_init \/ request_router_cfg
        \/ CloseFiles \/ ReleaseDevice \/ ForgetDevice \/ remove_pci_dev
        \/ do_pci_rescan

World == LinkFound \/ NullUsed \/ WatcherExits \/ EnableNoIommu \/ Plug

Next == Main \/ World \/ Ended

Spec == Init /\ [][Next]_vars /\ WF_vars(Main) /\ WF_vars(WatcherExits)
-----------------------------------------------------------------------------
Labels == {"find", "count", "check", "list", "take", "claim", "reset", "hw_init",
           "dma", "close", "release", "forget", "remove", "wait", "exit",
           "overrun", "crash"}

TypeOK ==
  /\ pc \in Labels
  /\ num \in 0 .. Cardinality(Device)
  /\ dev_list \in Seq(Device)
  /\ i \in 1 .. Cardinality(Device) + 1
  /\ ret \in {0, 1}
  /\ posted \in BOOLEAN
  /\ files \subseteq {"container", "group", "device"}
  /\ watcher \in BOOLEAN
  /\ driver \in [Device -> {"native", "vfio", "none", "removed", "absent"}]
  /\ ids \subseteq Device
  /\ no_iommu \in BOOLEAN
  /\ plugs \in 0 .. MaxPlugs
  /\ refused \in BOOLEAN
  /\ aborted \in BOOLEAN

\* Whichever path main() takes to its own end, the machine is as it was before:
\* every device is back with its driver, vfio-pci claims none, and no VFIO file
\* is open, as long as the group did not change and no write to sysfs failed.
\* (With the controller's file open it does not come to its end, see Terminates.)
RestoredOnReturn ==
  pc = "exit" /\ ~aborted /\ plugs = 0 /\ ~refused =>
    /\ \A d \in Device : driver[d] \in {"native", "absent"}
    /\ ids = {}
    /\ files = {}

\* The hardware is touched only while no native driver is left in the group,
\* whatever failed on the way, and while vfio-pci has all of it when nothing
\* did.
HardwareIsOurs ==
  pc \in {"reset", "hw_init", "dma", "close"} /\ plugs = 0 =>
    \A d \in Group : /\ driver[d] # "native"
                     /\ refused \/ driver[d] = "vfio"

\* unbind_grp_modules() stays inside dev_list although it counts by num.
NoOverrun == plugs = 0 => pc # "overrun"

\* The exit status is 0 only after a request that was posted.
StatusIsHonest == pc = "exit" /\ ret = 0 => posted /\ ~aborted

\* The program ends, on every path and whatever the group does, unless it comes
\* to take the controller from vfio-pci with the controller's own file open:
\* CloseFiles leaves it open, and main() waits for a file only it could close.
Terminates ==
  <>(~Running \/ (pc = "wait" /\ dev_list[i] = Host /\ "device" \in files))

-----------------------------------------------------------------------------
(* What comments of the code say and the code does not keep *)

\* passthrough.c:269: "Unbinds VFIO to all the PCI modules present in the
\* 'dev_list' provided".
AllListedUnbound ==
  pc = "exit" /\ ~aborted /\ ~refused =>
    \A j \in DOMAIN dev_list : driver[dev_list[j]] # "vfio"
=============================================================================
