# thunderbolt-utils in TLA+

thunderbolt-utils consists of two programs that share no code at run time:

* a **user-space DMA library** (`tbtutils.c`, `passthrough.c`, `pciutils.c`,
  `utils.c`) and its only client, `example.c`: take the host router away from the
  kernel with VFIO, power it on, set up a transmit and a receive ring and post a
  control request by DMA;
* **lstbt** (`lib/`), which lists routers, adapters and retimers by reading sysfs
  and debugfs.

The modules here model both: the first completely but for the arithmetic of BARs
and CRCs, the second from its command line to its exit, with every register it
reads and every question it asks, but without wording and layout.

## Inventory

| Part | Source | State | Operations | Talks to | Hard behaviour | What makes it correct |
|---|---|---|---|---|---|---|
| Transmit ring and requests | `tbtutils.c` | `tx_desc[]`, `rx_desc[]`, `tx_index`, `page_index`; ring registers; descriptors in shared memory | reset, allocate, initialise, `request_router_cfg`, free | the router, by registers and DMA | the router works while the library does; late answers; descriptor reuse; index wrap | success is reported only for a request that was sent; nothing else is sent; no access to memory that is gone; the two producer positions agree |
| DMA mappings | `passthrough.c:480-546` | the IOMMU table, buffers | `iommu_map_va`, `iommu_unmap_va`, `free_dma_map` | the ring code | 8-bit page index; ignored failures | the router reaches exactly what the library holds |
| Power-on | `tbtutils.c:173-253,418-444` | PCI capability registers | `tbt_hw_init` and what it calls | firmware, through `setpci` | polling with a timeout; text conversions | terminates; finds ready hardware ready |
| Host session | `example.c`, `passthrough.c:29-352`, `pciutils.c` | drivers of the group's devices, vfio-pci's IDs, open files | bind, open, use, close, unbind, rescan | sysfs, VFIO, a watcher thread | failures noticed and unnoticed, `exit(1)` in helpers, a file left open, hot plug between two listings | what comes to its end hands the machine back |
| BAR access | `passthrough.c:123-170,355-478` | region list | `find_bar_for_off`, read, write | VFIO regions | offset outside all BARs | the right BAR and offset |
| CRC and byte order | `utils.c:70-115,271-362` | none | `get_crc32`, `get_crc8`, `convert_to_be32` | request bytes | table and bit order | agrees with the polynomial |
| Shell helpers and lists | `utils.c` | none | `do_bash_cmd`, lists, `strtoud` | everything | empty output | |
| lstbt command line | `lib/lstbt.c`, `lib/helpers.c:533-978` | arguments | parse, normalise, dispatch | all listings | argument order, defaults | one listing per valid line, none otherwise |
| lstbt debugfs cache | `lib/helpers.c:57-484` | `routers_config` | init, lookup, exit | debugfs, sysfs | routers that come and go | a lookup answers from the right router or not at all |
| lstbt router registers | `lib/router.c` | none | getters | cache | topology ID of a router that is gone | sentinel or the register's bits |
| lstbt adapter registers | `lib/adapter.c` | `adp_types` | type cache, getters | cache | cache of another router | type and register of the same router |
| lstbt tree and retimers | `lib/lstbt_t.c`, `lib/lstbt_r.c` | recursion only | recursion over sysfs names | | names of uneven form | each router once, under its parent |
| lstbt verbose dump | `lib/lstbt_v.c` | none | per-router dump | all of the above | wrong router or word queried | what is printed belongs to the router named |

## Modules

| Module | Models | State and actions against the code |
|---|---|---|
| `TxRing` | the ring, requests, DMA mappings, and the router | one action per library call; `request_router_cfg()` in seven steps between which the router moves |
| `RequestChannel` | what `request_router_cfg()` promises | abstract; `TxRing` implements it (`ChannelSpec`) |
| `HwInit` | `tbt_hw_init()` and the firmware | one action for the power request, one per poll |
| `HostSession` | `example.c` with its VFIO and PCI helpers | `pc` follows `main()`; one action per helper, one per write to sysfs |
| `DebugfsCache` | the debugfs and type caches of `lstbt -v`, from filling to release, with routers that come and go | one action per element filled, looked up or freed |
| `RouterNames` | names of routers, and depth, domain and port cut from them | operators |
| `Listing` | `lstbt`, `-t`, `-r` and the outer loops of `-v`, from the command line to the exit | one action per shell command; one frame of `stack` per recursion |
| `Registers` | the getters of `router.c` and `adapter.c` | a table; one entry per getter |
| `VerboseDump` | what `-v` and `-vv` ask about one router | one action per question, per call and per return |
| `TxRingProofs`, `HostSessionProofs`, `DebugfsCacheProofs`, `VerboseDumpProofs`, `ListingProofs`, `ListingShownProofs`, `HwInitProofs` | theorems | |
| `InductionLemmas` | induction up to a bound, recursive functions and flattened sequences, for the proofs | |
| `MCTxRing`, `MCHwInit`, `MCHostSession`, `MCDebugfsCache`, `MCListing`, `MCVerboseDump` | instances for TLC | |

`VerboseDump` extends `Registers` and `RouterNames`; `Listing` extends
`RouterNames`. `DebugfsCache`, `Listing` and `VerboseDump` look at one run of lstbt
at three scales: the arrays, the names, the registers. What a finer one has found
out about a lookup (an answer of the right router, or a failure) is what the coarser
one assumes of it.

### TxRing

`pc` names the call, or the step inside `request_router_cfg()`, that comes next.
`page_index`, `tx_index`, `tx_desc[]` (`txDesc`: its pages, `desc`: what is in
them) and the two ring register blocks are the code's. A page of memory is
identified by the number of pages allocated before it. `iommu` maps I/O virtual
pages to pages: `Iova` is the truncation to the `u8` parameter of
`iommu_map_va()`, `Map` refuses an address in use and the library does not notice,
`Unmap` goes by address.

`request_router_cfg()` is split where the router can tell the difference: map the
buffer and arm the descriptor (`ArmRequest`); write the request into it
(`FillRequest`); allow bus mastering; read the indices (`ReadIndex`); write them
back (`WriteIndex`); look at the flag after the sleep (`CheckDone`); free the
buffer (`FreeRequest`). The loads of `tx_start()` are one step because the router
changes only the consumer index. `init_host_tx()` is one step because the ring is
not valid before its last store, which follows from `reset_host_interface()` at
the start of a session, as in `example.c`.

The router fetches the descriptor at its consumer index, reads the buffer and
sends it, and writes `TX_DESC_DONE` back: three steps, each of which can be late.
It is external to the repository and modelled from what the code tells of it:
16-byte descriptors (`tbtutils.c:367`) from a base register, the flag on success
(`tbtutils.c:398`), the valid bits, `CTRL_TIMEOUT` as "Max. amount of time taken
by the router to write back" (`tb_cfg.h:33`). As the library's descriptors lie at
the start of one page each, slot 0 of the ring is `tx_desc[0]` and the other slots
are the zeros behind it. Whether a store to the register also sets its consumer
half is not in the code; both readings are covered (`ConsWritable`).

A message is the page it was read from; the bits of the request, the CRC and the
route are not distinguished. A router that reads a slot behind `tx_desc[0]`
transmits the page at address zero, which is a ring's page and no request: for
`RequestChannel` that is a `Stray`. The receive ring is mapped and initialised but never
posted to, in the code as in the model.

### HwInit

Registers are sequences of hexadecimal digits because `setpci` prints them and
`strtoud()` parses them; `strtou` is `strtoul()` with its stop at the first digit
the base does not have. The firmware sets its ready bit at any time after the
power request. A `setpci` that prints nothing leads to `crash` (`NoAnswer`), because
`do_bash_cmd()` returns `NULL` and nobody looks. The success branch of `Poll` is in the model and is never taken;
that is what `AlwaysTimesOut` says. The value written to the latency register is
left out.

### HostSession

`driver` says for each device of the group who drives it. `bind_grp_modules()`
and `unbind_grp_modules()` are loops of one action per write to sysfs, each of
which can be the place where `is_link_nabs()` ends the process. The count taken
first (`num`) and the list taken later (`dev_list`) are separate, and a device can
come or go between any two steps. The watcher thread ends the process at any step
once no-IOMMU mode is on. Reading past `dev_list` goes to `overrun`.

What `main()` does not look at is in the model as well. Every write to sysfs may fail
(`Refuse`), and the loops go on. The four ioctls at the end of `vfio_dev_init()`
(`passthrough.c:334-339`) may leave it without the device's file; it returns a pointer all
the same. What `lspci`, `readlink` or `setpci` did not print and a BAR that is not in the
list are `NULL` where they are used: `NullUsed` ends in `crash`.

`Host` is the controller, whose VFIO file is the one opened. `CloseFiles` closes the
container and the group and leaves that file open (`example.c:87-88`). When
vfio-pci is to let go of a device whose file is open, in `driver/unbind` or
`remove`, the kernel keeps the writer waiting until the file is closed (`Awaited`), and
only the process that waits could close it: `pc` becomes `wait` and stays, unless the watcher ends
the process. `Terminates` therefore says that the program ends or waits there. The
path without a failure always waits: `RestoredOnReturn` is about the others.

The devices of the group have distinct vendor and device numbers.

### DebugfsCache

`names` is the array `routers_config` as allocated, `cache` its entries as far as
they are filled, with the adapter array of each (`adps`, allocated with `room`
elements; `Unset` is memory nothing has been written to). Every `ls` is a step of
its own, because the code takes each count anew: routers in debugfs (filling and
release), routers in sysfs (lookup), adapters of a router (before the allocation,
before the filling, at each lookup, at the release). An access outside an array or
to an element not written leads to one of the `Wild` ends. A lookup takes three looks
at the bus (`is_adp_present`, `get_router_config_item`, `get_adp_config_item`).
`types` and `filled` are `adp_types` and `are_adp_types_filled`; a type is
represented by the device it was read from.

The routers printed are any subset of those in sysfs with decimal names, listed at
once: domain, depth and device arguments select one. Of the lines printed about a
router one per typed adapter stands for all. The registers copied from a router or
adapter are one value; the text they are parsed from is not modelled.

The bus is external: a router appears in sysfs, then in debugfs, then port by port,
and disappears from debugfs first.

### RouterNames and Listing

A router is its domain and its route; a name is the domain and the hexadecimal
digits of the route, the deepest port in front, as the kernel prints it. The
operators follow `lib/helpers.c` in cutting depth, domain and port from the length
and from single characters, mistakes included.

`main()` is one action for the argument loop (`ameliorate_args` splits options that
stand together; `TakeValue` is one pass with a pending option), one for counting
the domains, one for validation and dispatch. A listing runs `ls` into the top frame of `stack` and
takes the names one at a time; each further shell command about a name
(`is_router_present`, vendor and device, generation, authorisation, the directory of
a router in the tree) is an action, and routers come and go between any two.
An entry of `printed` holds the name and the numbers shown in front of the line (`Labels`:
domain and depth of a router, its port in the tree below another, domain and port of a
retimer). `NULL` of a command whose file is gone, when converted, leads to `crash`. The
retimers of a router given with `-s` are looked for in the domain named by the first character
of its name, as in `lstbt_r.c:172`.

Two limits of the code are parameters: `VerboseWraps`, the range of the `u8` that counts
`-v` (`lstbt.c:169`), and `MaxArgs`, the places of the array `ameliorate_args()`
allocates and does not check (`helpers.c:930`); a longer line ends in `overrun`.

### Registers and VerboseDump

A number is the set of its one bits: masks are intersections, a return type of *w*
bits keeps the bits below *w*, and a sentinel of 2^32 exists. An entry of the table
names capability, offset, mask, shift, width of the return type, sentinel, and the
adapters the getter is for.

A function of `lstbt_v.c` is a sequence of questions, each to a getter at an adapter
or port, some of them conditional on the answers before (`AfterLane` and its like,
`Callee`). A question looks up the register through the cache; it fails when what it is
about has been lost (adapters, the router, the router above, the link to it), when
the adapter has another type, when the register is unreadable, or when the
capability ends before it. Registers that cannot be read shift the capability, as in
`get_cap_vcap_start()`; a shift past its end is `AskBeyond`, and so is a port behind the
last one of VSEC6. `env` is the router: route, generation, adapters, unreadable registers, a
filling of the others, and the number of ports of the router above (`up_ports`), so that a
wrong port computed for it can lie beyond its capability.
What a filling is (`HasBit`) is a parameter: two that differ by register and by adapter
for TLC, any for the proofs.

## Runs

| Run | Shows | Bounds |
|---|---|---|
| `late` | the ring implements `RequestChannel`, success is genuine and the positions agree with a late router | ring of 3, 7 requests (two laps and one), no wrap of `page_index`, 1 session |
| `prompt` | table exact, rings backed, nothing unmapped accessed up to the wrap; first descriptor served; calls return | ring of 2, 9 requests, 8 I/O pages (wrap after 5 requests), 2 sessions |
| `unserved` | violation: the second request is not served | ring of 2 |
| `code_sizes_wrap` | violation: 225th request reported as posted, something else sent | the code's sizes: 16, 16, 256 |
| `hw_init` | power-on returns, and always with a timeout, or ends with a `setpci` that has no answer | 2 digits, all 256 values, 4 polls |
| `hw_ready_unseen` | violation: ready hardware is not found ready | the same |
| `session` | the machine is handed back on each path that ends, nothing is read past the list, the status is honest, the program ends or waits for the file it left open | groups of up to 3 devices with the controller, 1 hot plug, any write to sysfs failing |
| `session_plug` | violation: a listed device stays with vfio-pci | the same |
| `cache` | lookups answer from the router named or not at all, unplugging leads outside no array, types stay with their router, an undisturbed run finds everything, the program ends | 3 names (one not decimal), 2 devices with 1 and 3 of 3 adapters, 1 plugged in, any number unplugged |
| `cache_plug` | violation: a lookup reads past the cache | the same |
| `listing` | arguments are read as they stand, an undisturbed listing shows what was asked for, nothing twice or under the wrong parent, labels are true, lstbt ends | 30 command lines (`-v` up to 4 times with a counter of 3, up to 7 arguments in an array of 7 places), 5 populations (no, one and two domains, a gap, ports of two digits), 2 retimers, 2 changes among 4 routers |
| `verbose` | what is shown is the field it is said to be, failures are recognised, an undisturbed dump has all answers and forgets no adapter, the route is read back, the dump ends | 27 routers of both generations and up to six levels, 3 fillings, 7 sets of unreadable registers, 2 or 32 ports above, 8 adapters, 2 losses |

Three slots tell "the next" from "the previous" descriptor, and two laps show
every reuse of one. Two digits are enough for the conversion because a decimal
number of *n* digits is below half of 16 to the *n* from *n* = 2 on. Three devices
give a first, a middle and a last one to the loops. Three adapters stand for 63: the
last is the one the count leaves out and the loops over the types stop before. Two
devices on three names let a name change its device and a device its name, before and
behind the name that is not decimal.

The command lines of `listing` have options alone, repeated, in groups, with a value
missing, out of range or of the wrong kind, and in the place of another's value, and go up to and beyond both limits. Two
changes let one router be replaced, or two go. In `verbose`, 8 for `MAX_ADAPTERS`
keeps the loops' three different ends apart, one router has an adapter at the last
place, and together the routers have every type of adapter. Neighbouring registers have different contents, so
that a wrong offset or adapter shows. Routers four and six levels deep stand below one with two ports, where a
wrong port leads past the capability. Two losses let one follow the other; what is
lost stays lost.

`LateSpec` is `Spec` with the assumption that the router does not hold one
descriptor while the library goes once round the ring (16 times 2 ms, with the
code's numbers). Without it the write-back for an old request can be taken for the
answer to a new one. `Prompt` is the assumption of `tb_cfg.h:33`.

Every property of a passing run has a variant of the code (`Name_Variant`
operators next to the definition) that breaks it.

### What the violations mean

1. The ring is not contiguous: only the request that uses descriptor 0 can succeed.
2. After 256 pages I/O virtual addresses repeat. The request whose buffer collides
   with the ring's first page is request 225 with the code's sizes, it uses
   descriptor 0, and so it is reported as posted while something else was sent.
   Freeing it unmaps the ring.
3. `FW_RDY` is parsed in the wrong base and never seen; `example.c` never gets
   past `tbt_hw_init()`.
4. `unbind_grp_modules()` is given a count that is older than its list.
5. `get_router_config_item()` bounds its search by a count of another directory at
   another time. `NoWildAccess` says when that is harmless: when all routers present
   were complete in debugfs at the time they were listed and none has come since. A
   router on its way out is enough to break it.

Disagreements noted without a run, in the library: `tx_index` is not reset when
`init_host_tx()` resets the producer index (`IndexAgreement` is therefore about
the first session), and the DMA delay counter is compared with its shift instead of
shifted (`Delay`). `example.c` closes the container and the group but not the device's
file, and waits for itself when it unbinds vfio-pci (`example.c:87-92`). The results
of ioctls (`passthrough.c:334-339`), of commands (`pciutils.c:67`, `tbtutils.c:186`) and
of writes to sysfs are used or passed over unchecked; a run that ends there, or
through the watcher or `is_link_nabs()`, leaves devices with vfio-pci.

In lstbt; the models contain them unless said otherwise, and the properties
leave them out by name or by a condition:

* a name with a hexadecimal letter is no router, and one that ends in 0 is a host
  router (`helpers.c:592`, `612`); a domain of two digits is cut (`795`); a gap in
  the numbers of domains hides the last one (`lstbt.c:147`);
* the topology ID is shifted by 23 instead of 32, so that from the fifth level on the port
  of the router above comes out as 0 (`lstbt_v.c:168`); with the topology ID's register
  shifted as well (below) the port is arbitrary and may lie beyond the capability; the line on sleep asks the router itself instead of the one
  above (`214`);
* unreadable registers at the beginning of a capability shift all others and can
  lead past the array (`helpers.c:136`);
* a second and third question about one register, lost in between, are not checked
  (`lstbt_v.c:427`, `558`, `1215`); link rate and lane count have two sentinels,
  of which the caller knows one (`1221`);
* `-v` is counted in a `u8`, so that 256 of them are none (`lstbt.c:169`); the array of
  arguments is not checked for its length (`helpers.c:930`);
* the retimers of a router in a domain of two digits are not found (`lstbt_r.c:172`);
* the result of a command that fails is converted or searched as it is
  (`helpers.c:656`, `lstbt_v.c:106`);
* arithmetic and wording outside the models: the bandwidth shift can overflow
  (`lstbt_v.c:736`), the link state is always printed as Resume (`764`), the
  estimated bandwidth stands for the allocated and the requested one (`1389`);
  `is_dp_in_dprx_cap_read_done()` reads another register than its name says
  (`adapter.c:1684`; `Registers` has the one it reads).

## Fairness

`WF(InRequest)`: a call of `request_router_cfg()` that has begun goes on; it is
straight-line code with one sleep. `WF(Router)`: the router works on while there is
something to do; needed only where a prompt router is waited for. The client's
calls are not fair: it may stop calling. `WF(Library)` in `HwInit`, `WF(Main)` and
`WF(WatcherExits)` in `HostSession`, `WF(Program)` in `DebugfsCache`, `Listing` and
`VerboseDump`: running code goes on running, and the shell commands it starts come
back. The exception is the write that takes the controller from vfio-pci with its file open, which is a
state of its own (`wait`) that `Main` does not leave. The ends in `crash`, `NoAnswer` and `NullUsed`, are not fair:
commands need not fail. The firmware, hot plug and unplug, corruption and the mode
switch are not fair.

## Proofs

All theorems are about `Spec` (one about `LateSpec`) for all values of the
constants that satisfy the modules' assumptions; further conditions are named.

`TxRingProofs`, for every ring size, every number of I/O pages, sessions and
requests, a prompt or late router and either reading of the consumer index:

* `TypeCorrect`: `TypeOK`, inductive together with `SizeKnown` (a valid ring has its
  size; the router works on a valid ring), which keeps the remainders defined.
* `IndexAgrees`: `IndexAgreement`, by `IndexInv`, which adds where the two positions
  start and what `tx_start()` has read.
* `MappingsCorrect`: `MappedIffHeld`. It is not inductive: it does not say that
  addresses not yet given out are free, nor that the request's buffer is not a ring
  page. `Mappings` says both, in the form that until the wrap the table is the
  identity on the pages held and empty elsewhere. `MapFresh` and `UnmapHeld` carry
  this over an allocation and a release.
* `RingsStayBacked`: `RingsBacked`, from the former and `Bases`.

On these builds what follows a request:

* `SuccessStaysGenuine`: `SuccessIsGenuine` in the first session until `page_index`
  wraps (`FirstLap`). Before the producer index moves the router is on other slots
  and nothing points to the buffer but the request's descriptor (`NotYetSeen`);
  afterwards the request's slot is reached once (`SeenOnce`). What carries this is that
  pages are given out once (`PagesApart`), that no address is from the future
  (`AddrsOld`), and that only slot 0 of the ring the router reads is the library's, so that
  only a fetch from it can ask for a write-back (`StatusFromFirst`). `FirstLap` is
  needed: in a second session `tx_index` may be elsewhere than the producer index, and
  a request may be read before it has been written.
* `RingImplementsChannel`: `LateSpec => Channel!Safety`, the safety half of
  `ChannelSpec`, if there is one session and the I/O pages suffice for the rings and
  the requests. `Budget` counts the pages, so that the second condition excludes a
  wrap; `ChannelStep` maps every step of the same invariant to one of the channel's.
* `NothingFaults`, `FirstIsServed`: `NoFault`, and `FirstSlotServed` for rings of more
  than one descriptor, for a prompt router. `PromptInv` says that outside the
  wait the router has nothing to do, and `Serving` that in the wait it has the one
  request or has finished it.

`HostSessionProofs`, for groups of any size: `TypeCorrect`, `MachineIsRestored`,
`HardwareStaysOurs`, `ListIsNotOverrun`, `StatusStaysHonest`. `RestoredOnReturn`
says nothing of the loops on the way and holds for the paths that come to an end with no
device changed and no write to sysfs failed; that the hardware is never driven beside a native
driver holds when writes fail as well, because vfio-pci asks for a viable group. `IInv` adds where they are (`Positions`), that
as long as no device comes or goes the list has every device once and as many as were
counted (`Listed`), and what has become of each device in front of the loop, at it and behind it
(`Progress`). A step of a loop touches one device, so `OneDevice` is all that is needed
of the others.

`DebugfsCacheProofs`, for any names, routers, adapters and any plugging:
`TypeCorrect`, `AnswersAreOfTheirRouter`, `TypesFitAnswers`, `NoAccessIsWild`. `IInv` says
that no name is listed twice (`Distinct`), how far the arrays are filled at each step
(`Filled`), that a copy is of a device that stood under the name (`Copied`), that types
are those of the current router as far as the loop has come (`TypesFit`), and, for
`NoWildAccess`, that counts of the moment are at most the ones arrays were allocated
with as long as nothing has come (`Bounded`). The counts are cardinalities; the
lemmas on finite sets say that one of a subset is smaller. `QuietAnswersAreRight`:
`QuietAnswer`. `Quiet` says of a bus that nothing came to or left what one function
after the other has established: the arrays hold every router present, with its adapters
(`AllListed`), what was copied is what is there (`Fresh`), and a look-up finds the
router it asks about (`Asked`).

`VerboseDumpProofs`: `GettersAreUnambiguous`: for every getter and every content of its
register the value returned is the whole field and differs from the sentinel. Each
part of the table is checked entry by entry, and `Join` puts the parts together.
`FailuresRecognised`: `FailureIsRecognised`. It needs the former
theorem for values that are not sentinels, and that every caller compares with the
sentinel its getter returns (the `Agrees` lemmas, again entry by entry) for the
converse. The invariant adds only that the router dumped is one of `Envs`.

The other theorems of `VerboseDumpProofs` are about the order of questions:
`ShowsWhatIsThere`: `ClaimsHold`, `RouteAsRead`: `RouteIsRead`, and `TypeCorrect`: `TypeOK`, for up
to 64 adapters (`AdaptersAssumption`), any router and any filling of its registers.
`ClaimsHold` is not inductive: that a failure which is not looked for can only come
of an unplugging depends on the question before it, which read the same register and was
checked. `Rests` says of each function what it may have left to ask after a question: questions
of the kind that belongs to it (`Items`: to an adapter inside the arrays, to the router
itself, of a host router only) in an order where the six questions that rely on
another come right after it (`Led`). One lemma per function shows that its list is one
(`BodyLeft`, `DumpLeft`), and one per continuation that so is what remains after any answer
(`AfterLeft`, `RestLeft`). `DumpInv` says this of the frame on top of the stack and of those
that wait (`StackFits`), that the next question is sure to be answered
as long as nothing got lost, if it is one of the six (`NextFits`), and what has become of the
topology ID (`TopFits`). That the answer is the field in the register of that adapter or port
(`AnswerTells`) needs the arithmetic of ports, and of the two lengths in VSEC6 it is done
with (`PortOfIs`, `LengthsRead`); that the route is read back (`RouteOfTop`), that numbers
are the sums of their bits (`NumberOfBinary`) and that the depth is that of the name
(`DepthOfDevice`).

`QuietAnswers`: `QuietDumpAnswers`, for dumps during which nothing gets lost. Which
adapter a question may be asked of is decided long before it is asked: the types are
filled in first, the loops over adapters choose by them, and the attributes
are asked of those found enabled. `QuietInv` therefore says that types found are those of
the router (`TypesFound`), that each question still on a list is one its adapter and the
router's generation have an answer to (`Fits`), that whoever waits on the stack called the
function above (`Calls`), and that the adapters found enabled are of the class the
function is about (`ActiveFitting`). `FitsGrow` says that what fits stays so while types are found,
`BodyFits` and `AfterFits` that every list and every continuation fits, and `MayAsk` that what
fits has an answer. Two assumptions on the routers carry it. `NoneAssumption`: a register of an
adapter of no known type does not read like one of the seven known. `LanesAssumption`: the
lane adapters of a router without USB4 come first, which `get_usb4_port_num()` takes for granted
(`router.c:590-600`); without it the port computed may lie beyond the capability. For the
router above, `TopSeen` says what the register of the topology ID holds, `HighBits` and `PortAbove` that
the port taken from it is the route's or 0, and `PortWithin` that this lies within the ports the
router above has. The property leaves out two questions: the sleep line's (`SleepLine`), and the type of an
adapter that does not exist or is the 63rd.

`EveryAdapterAsked`: `AllAsked`, for the same dumps at `-vv` and under the same two
assumptions. Nothing in a state says that an adapter has been passed over, so `AskedInv` has to
say where each question still to come will come from. The types are found before anything else
(`Filling`). After that whatever is due to an adapter (`Due`) has been asked, or is led to by
an item still on a list somewhere on the stack (`LeadsTo`, `Pends`): the question, the
function that asks it, or the version that decides whether it is called, with the number of
adapters read already where that number chooses the lanes (`Wakes`); or the function on top is gathering the enabled
adapters of the class, and this one has been found enabled or has a question to come that will
say so (`Gathers`, `Probes`). A call hands all its items to the new list (`BodyHas`), an answer
hands its item to what follows (`AskHas`, `GatherAsk`), no function returns early
(`NoneGivesUp`), and the number of adapters read is the right one (`MaxIs`). Adapter 63 is left out,
as in the property: the search for the highest port begins at 62 (`helpers.c:66,74`), so lstbt has
no entry for it. `AskedInv` and `QuietInv` were checked by TLC with the bounds of
`verbose` before they were proved.

`ListingProofs`, for finite populations and sets of retimers, routes of any length
and any number of changes: `LabelsTrue`, `CrashOnlyIfUnplugged`, `TreeIsTrue`.
`LabelsAreTrue` is about the numbers printed, which are cut from names: `DecimalName` says where the ports of a route are in
its name, `LabelsOfName` what the functions of `helpers.c` cut from it. For the other
two `IInv` adds that every name still to do, at whatever depth, is of a router that is
there or among those gone (`Seen`), and that every list below the first hangs at
an entry already printed, the last one above it, whose children it lists (`Nested`).
That a list holds only what was to be listed (`LsLists`) needs the order of `ls` to be a
total order (`PrecedesIsOrder`) and the pigeonhole principle: ranks are distinct and
less than the number of names.

Also in `ListingProofs`, for any words and any values of `MaxArgs` and `VerboseWraps`,
and so for the code's 1024 and 256: `ReadsAsWritten`: `ParsedAsWritten`. A line whose arguments
do not fit the array is not parsed (`Overrun`), and `-v` is read modulo its counter.
The words are what `CommandLinesAssumption` says, groups of letters after a dash and
words without one. The property finds the values by counting the options before them;
the loop knows one pending option. `ValueAfterOption` joins the two: an argument
is a value exactly if the one before it waits for one, because options that stand
together begin in one place (`RunBegins`, `RunBeginsOnce`) and parity changes from each to the
next. `Read` says of a prefix of the arguments what the loop must hold after it,
`ReadStep` goes on by one argument, and induction over the prefixes gives the whole line.
`ameliorate_args` and `Parse` are recursive functions, so that `Recursion` (as in
`HwInitProofs`, and both in `InductionLemmas`) has to say first that they are what their definitions say.

`ListingShownProofs`: `ShownOnce`: `EachOnce`, under the same assumptions and with a
topology ID of seven bytes (`IsRouter`; `router.h:19-23`). Names tell routers apart
(`NamesTellRouters`), and no list has a name twice (`LsApart`), so only two lists can
repeat one. `OnceInv` rules this out. Domains are swept one after the other, and what is
printed or listed is of the domains so far (`Swept`). In a tree the row of a decimal
name is its depth less that of the names listed first (`Rows`), so a name cannot come up
again in another row. `Lists` says that what is still to do has not been printed: the
children of an entry are new when they are listed, because one already printed would by
`TreeShape` stand below its parent, printed before it, and the parent has been printed
just now, for the first time (`ChildrenAreNew`). Names of uneven form are left
out, as in the property: the depth lstbt takes from one may not be its own, so that a
router and one below it may both be listed first. `TypeCorrect`: `TypeOK` of `Listing`,
with bounds on the rows shown from `Nested` and the types of the options from the argument loop.

Also in `ListingShownProofs`: `ListsWhatIsAsked`: `QuietListing`. `Wanted` is said by routes,
what lstbt does by names; on a bus of decimal names the two select the same routers
(`SelectedAll`, `ChildrenAll`). `QuietInv` holds for the bus as it was at the start (`Fixed`):
what has been validated is still so (`Accepted`), nothing is shown or to do that is not
wanted (`SoundSoFar`), and nothing wanted is passed over. That is said of what is listed
first (`RootsReached`: shown, to do, at hand or of a domain still to come) and of
the routers below one shown (`ChildrenReached`). When nothing is to do, induction over the length
of the route gives every router of the tree (`BelowShown`); that its parents are there is
`PopulationsAssumption`. A verbose listing may leave out a router, so for it only
`SoundSoFar` remains.

`HwInitProofs`, for registers of any number of digits from two and any number of
polls: `TypeCorrect`, and `TimesOut`: `AlwaysTimesOut`. The ready bit is the highest of
the register, and a number of as many decimal digits is below it (`BelowTopBit`): every
further digit multiplies the number by ten and the bit by sixteen (`DigitBelowBit`).
`strtou` and `BIT` are recursive functions. That a recursion over an interval defines one
(`Recursion`), and induction up to its end (`Induction`), are proved in `InductionLemmas`
from the cardinality of the set of numbers below which the statement holds.

Every invariant of the runs that pass is stated by a theorem. Only model-checked is liveness
under fairness, which is out of the prover's reach: `Terminates` and its like in each
component, and the liveness half of `ChannelSpec`.

## Plan

Done: `TxRing` with its refinement, `HwInit`, `HostSession`, `DebugfsCache`,
`RouterNames`, `Listing`, `Registers`, `VerboseDump`, and the proofs above.

Left: the arithmetic of BAR access and CRC, for the reasons below.

## Not modelled

The arithmetic of BAR access (`passthrough.c:123-170,355-478`) is a lookup in a table that does not
change once it is read; that a region is missing, which the unchecked ioctls before it can
bring about, is in `HostSession` (`NullUsed`). CRC and byte order (`utils.c`) are functions of the
request's bytes, which the models take as one value; a unit
test against known frames says more about them than bounded inputs would.
Formatting and printing of lstbt, shell plumbing (`popen`, string trimming), memory
allocation and the Makefile are left out. The retimers' own files are one step.
The kernel's VFIO is modelled only as far as the code uses it: viability of a group, the
binding by ID, and the wait for an open file when a device is unbound or removed.
