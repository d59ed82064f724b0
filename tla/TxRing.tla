------------------------------- MODULE TxRing -------------------------------
(***************************************************************************)
(* The transmit ring of the host interface: the library functions of       *)
(* tbtutils.c that allocate, start, use and free it, the IOMMU mappings    *)
(* of passthrough.c that back it, and the host router that reads it by DMA *)
(* while the library runs.                                                 *)
(*                                                                         *)
(* A client calls the library the way example.c does: reset, allocate,     *)
(* initialise, any number of read requests, free; and it may start over.   *)
(*                                                                         *)
(* A page of memory is named by the value page_index has when it is        *)
(* allocated, so two allocations never share a name although they may      *)
(* share an I/O virtual address.                                           *)
(***************************************************************************)
EXTENDS Integers, Sequences, FiniteSets

CONSTANTS
  TX_SIZE,       \* descriptors of the transmit ring (16)
  RX_SIZE,       \* descriptors of the receive ring (16)
  IOVA_PAGES,    \* pages the index of iommu_map_va() can tell apart (2^8)
  MaxRequests,   \* bound on the calls of request_router_cfg()
  MaxSessions,   \* bound on the calls of reset_host_interface()
  Prompt,        \* the router keeps to CTRL_TIMEOUT
  ConsWritable   \* a write to TX_PROD_CONS_INDEX also sets the consumer half

ASSUME SizesAssumption ==
  /\ TX_SIZE \in Nat \ {0}
  /\ RX_SIZE \in Nat \ {0}
  /\ IOVA_PAGES \in Nat
  /\ TX_SIZE + RX_SIZE <= IOVA_PAGES
ASSUME BoundsAssumption == MaxRequests \in Nat /\ MaxSessions \in Nat
ASSUME HardwareAssumption == Prompt \in BOOLEAN /\ ConsWritable \in BOOLEAN

VARIABLES
  \* the library
  pc,          \* the call, or the step of a call, that comes next
  page_index,  \* pages mapped so far
  tx_index,    \* descriptor the next request uses
  txDesc,      \* page of each transmit descriptor, NoPage when not allocated
  rxDesc,      \* the same for the receive descriptors
  desc,        \* what the driver's transmit descriptors hold
  buf,         \* page of the current read request, NoPage outside a call
  filled,      \* the read request has been written into buf
  idx,         \* the index registers as tx_start() read them
  ret,         \* what request_router_cfg() will return
  \* the IOMMU and the host interface registers
  iommu,       \* I/O virtual page -> page
  reg,         \* registers of transmit ring 0
  rxReg,       \* registers of receive ring 0
  busMaster,   \* the PCI function may master the bus
  \* the host router
  dev,         \* the descriptor it is working on
  wire,        \* what it has transmitted
  fault,       \* it has accessed an address that is not mapped
  \* history
  asked,       \* pages of all requests
  sessions,    \* sessions started
  lapped       \* a descriptor was armed again while the router still held it

libVars  == <<pc, page_index, tx_index, txDesc, rxDesc, desc, buf, filled, idx, ret>>
hostVars == <<iommu, reg, rxReg, busMaster>>
devVars  == <<dev, wire, fault>>
histVars == <<asked, sessions, lapped>>
vars == <<libVars, hostVars, devVars, histVars>>

-----------------------------------------------------------------------------
NoPage == -1
Pages  == Nat \cup {NoPage}
Slots  == 0 .. TX_SIZE - 1
RxSlots == 0 .. RX_SIZE - 1
Iovas  == 0 .. IOVA_PAGES - 1

ClientSteps  == {"closed", "alloc_tx", "alloc_rx", "init_tx", "init_rx", "idle"}
RequestSteps == {"fill", "master", "read_index", "write_index", "wait", "free"}

\* A descriptor: where its buffer is, TX_REQ_STS and TX_DESC_DONE.
Descs    == [addr : Iovas, sts : BOOLEAN, done : BOOLEAN]
ZeroDesc == [addr |-> 0, sts |-> FALSE, done |-> FALSE]

ResetRegs   == [base |-> 0, prod |-> 0, cons |-> 0, size |-> 0, valid |-> FALSE]
ResetRxRegs == [base |-> 0, size |-> 0, valid |-> FALSE]
IdleDev     == [phase |-> "idle", slot |-> 0, addr |-> 0, sts |-> FALSE]

-----------------------------------------------------------------------------
(* I/O virtual addresses *)

\* iommu_map_va() takes the 64-bit page_index as a u8.
Iova(p) == p % IOVA_PAGES

\* Mapping a run of new pages.  VFIO refuses an address that is in use and the
\* library does not look at the result.
Map(t, ps) ==
  [a \in Iovas |-> IF t[a] = NoPage /\ \E p \in ps : Iova(p) = a
                   THEN CHOOSE p \in ps : Iova(p) = a
                   ELSE t[a]]

\* Variant: the mapping outlives its page.
Unmap_Leak(t, ps) == t

\* Unmapping is by address, whoever owns the mapping there.
Unmap(t, ps) ==
  [a \in Iovas |-> IF \E p \in ps : Iova(p) = a THEN NoPage ELSE t[a]]

\* Variant: the last page is forgotten.
NewPages_Short(n) == page_index .. page_index + n - 2

NewPages(n) == page_index .. page_index + n - 1

PagesOf(d, S) == {d[i] : i \in S} \ {NoPage}

-----------------------------------------------------------------------------
(* The library, call by call *)

reset_host_interface ==
  /\ pc = "closed"
  /\ sessions < MaxSessions
  /\ reg' = ResetRegs
  /\ rxReg' = ResetRxRegs
  /\ dev' = IdleDev
  /\ sessions' = sessions + 1
  /\ pc' = "alloc_tx"
  /\ UNCHANGED <<page_index, tx_index, txDesc, rxDesc, desc, buf, filled, idx, ret,
                 iommu, busMaster, wire, fault, asked, lapped>>

\* One page per descriptor.
allocate_tx_desc ==
  /\ pc = "alloc_tx"
  /\ txDesc' = [i \in Slots |-> page_index + i]
  /\ desc' = [i \in Slots |-> ZeroDesc]
  /\ iommu' = Map(iommu, NewPages(TX_SIZE))
  /\ page_index' = page_index + TX_SIZE
  /\ pc' = "alloc_rx"
  /\ UNCHANGED <<tx_index, rxDesc, buf, filled, idx, ret, reg, rxReg, busMaster,
                 devVars, histVars>>

allocate_rx_desc ==
  /\ pc = "alloc_rx"
  /\ rxDesc' = [i \in RxSlots |-> page_index + i]
  /\ iommu' = Map(iommu, NewPages(RX_SIZE))
  /\ page_index' = page_index + RX_SIZE
  /\ pc' = "init_tx"
  /\ UNCHANGED <<tx_index, txDesc, desc, buf, filled, idx, ret, reg, rxReg, busMaster,
                 devVars, histVars>>

\* Variant: the base of the receive ring.
RingBase_Rx == Iova(rxDesc[0])

RingBase == Iova(txDesc[0])

\* The registers are written one by one, TX_VALID last; the ring is invalid
\* until then, so the router cannot tell this from a single step.
init_host_tx ==
  /\ pc = "init_tx"
  /\ reg' = [base |-> RingBase, prod |-> 0,
             cons |-> IF ConsWritable THEN 0 ELSE reg.cons,
             size |-> TX_SIZE, valid |-> TRUE]
  /\ pc' = "init_rx"
  /\ UNCHANGED <<page_index, tx_index, txDesc, rxDesc, desc, buf, filled, idx, ret,
                 iommu, rxReg, busMaster, devVars, histVars>>

init_host_rx ==
  /\ pc = "init_rx"
  /\ rxReg' = [base |-> Iova(rxDesc[0]), size |-> RX_SIZE, valid |-> TRUE]
  /\ pc' = "idle"
  /\ UNCHANGED <<page_index, tx_index, txDesc, rxDesc, desc, buf, filled, idx, ret,
                 iommu, reg, busMaster, devVars, histVars>>

-----------------------------------------------------------------------------
(* request_router_cfg(), step by step *)

\* Variants: DONE is left as it was; page_index is incremented too early;
\* TX_REQ_STS is forgotten.
ArmedDesc_StaleDone == [addr |-> Iova(page_index), sts |-> TRUE,
                        done |-> desc[tx_index].done]
ArmedDesc_NextPage == [addr |-> Iova(page_index + 1), sts |-> TRUE, done |-> FALSE]
ArmedDesc_NoStatus == [addr |-> Iova(page_index), sts |-> FALSE, done |-> FALSE]

\* What make_tx_read_req() writes into the descriptor; DONE of an earlier use
\* goes with the assignment to flags.
ArmedDesc == [addr |-> Iova(page_index), sts |-> TRUE, done |-> FALSE]

\* make_tx_read_req() maps the buffer and arms the descriptor ...
ArmRequest ==
  /\ pc = "idle"
  /\ Cardinality(asked) < MaxRequests
  /\ buf' = page_index
  /\ filled' = FALSE
  /\ iommu' = Map(iommu, {page_index})
  /\ page_index' = page_index + 1
  /\ desc' = [desc EXCEPT ![tx_index] = ArmedDesc]
  /\ asked' = asked \cup {page_index}
  /\ lapped' = (lapped \/ (dev.phase # "idle" /\ dev.slot = tx_index))
  /\ pc' = "fill"
  /\ UNCHANGED <<tx_index, txDesc, rxDesc, idx, ret, reg, rxReg, busMaster,
                 devVars, sessions>>

\* ... and only then writes the request and its CRC into the buffer.
FillRequest ==
  /\ pc = "fill"
  /\ filled' = TRUE
  /\ pc' = "master"
  /\ UNCHANGED <<page_index, tx_index, txDesc, rxDesc, desc, buf, idx, ret,
                 hostVars, devVars, histVars>>

allow_bus_master ==
  /\ pc = "master"
  /\ busMaster' = TRUE
  /\ pc' = "read_index"
  /\ UNCHANGED <<page_index, tx_index, txDesc, rxDesc, desc, buf, filled, idx, ret,
                 iommu, reg, rxReg, devVars, histVars>>

\* tx_start() reads the indices and the size with three loads; the router
\* changes only one of them, so one step stands for the three.
ReadIndex ==
  /\ pc = "read_index"
  /\ idx' = [prod |-> reg.prod, cons |-> reg.cons, size |-> reg.size]
  /\ pc' = "write_index"
  /\ UNCHANGED <<page_index, tx_index, txDesc, rxDesc, desc, buf, filled, ret,
                 hostVars, devVars, histVars>>

\* Variants: the index is not wrapped, or wrapped one too late.
NextSlot_Unwrapped(i) == i + 1
NextSlot_Late(i) == IF i = TX_SIZE THEN 0 ELSE i + 1

\* tx_index_inc()
NextSlot(i) == (i + 1) % TX_SIZE

\* The store writes the consumer index read before back with the new producer
\* index.  A size of zero would end the process.
WriteIndex ==
  /\ pc = "write_index"
  /\ idx.size # 0
  /\ reg' = [reg EXCEPT !.prod = (idx.prod + 1) % idx.size,
                        !.cons = IF ConsWritable THEN idx.cons ELSE @]
  /\ tx_index' = NextSlot(tx_index)
  /\ pc' = "wait"
  /\ UNCHANGED <<page_index, txDesc, rxDesc, desc, buf, filled, idx, ret,
                 iommu, rxReg, busMaster, devVars, histVars>>

\* The descriptor make_tx_read_req() returned: tx_index has moved on by one.
CurrentSlot == (tx_index + TX_SIZE - 1) % TX_SIZE

\* The router has nothing left to do on the ring.
Quiet == dev.phase = "idle" /\ (reg.valid => reg.prod = reg.cons)

\* Variant: wait for the flag, not for the timeout.
WaitOver_Done == desc[CurrentSlot].done

\* usleep(CTRL_TIMEOUT) ends without looking at the router.  A prompt router
\* needs no longer than that.
WaitOver == Prompt => Quiet

\* usleep(CTRL_TIMEOUT) is over: look at TX_DESC_DONE.
CheckDone ==
  /\ pc = "wait"
  /\ WaitOver
  /\ ret' = IF desc[CurrentSlot].done THEN 0 ELSE 1
  /\ pc' = "free"
  /\ UNCHANGED <<page_index, tx_index, txDesc, rxDesc, desc, buf, filled, idx,
                 hostVars, devVars, histVars>>

\* free_dma_map() of the request, answered or not.
FreeRequest ==
  /\ pc = "free"
  /\ iommu' = Unmap(iommu, {buf})
  /\ buf' = NoPage
  /\ pc' = "idle"
  /\ UNCHANGED <<page_index, tx_index, txDesc, rxDesc, desc, filled, idx, ret,
                 reg, rxReg, busMaster, devVars, histVars>>

\* TX_VALID and RX_VALID stay set.
free_tx_rx_desc ==
  /\ pc = "idle"
  /\ iommu' = Unmap(iommu, PagesOf(txDesc, Slots) \cup PagesOf(rxDesc, RxSlots))
  /\ txDesc' = [i \in Slots |-> NoPage]
  /\ rxDesc' = [i \in RxSlots |-> NoPage]
  /\ pc' = "closed"
  /\ UNCHANGED <<page_index, tx_index, desc, buf, filled, idx, ret, reg, rxReg,
                 busMaster, devVars, histVars>>

-----------------------------------------------------------------------------
(* The host router *)

\* Descriptors are 16 bytes and the ring is contiguous, so every slot lies in
\* the page behind the base register; the library's descriptor is at the start
\* of that page and the rest of it is zero.
InSlot(i, s) == s = 0 /\ txDesc[i] # NoPage /\ txDesc[i] = iommu[reg.base]

DescAt(s) == IF \E i \in Slots : InSlot(i, s)
             THEN desc[CHOOSE i \in Slots : InSlot(i, s)]
             ELSE ZeroDesc

\* An access to an unmapped address drops the packet.
Drop ==
  /\ fault' = TRUE
  /\ dev' = IdleDev
  /\ UNCHANGED wire

Consume(s) == reg' = [reg EXCEPT !.cons = (s + 1) % reg.size]

Fetch ==
  /\ dev.phase = "idle"
  /\ reg.valid /\ busMaster /\ reg.prod # reg.cons
  /\ \/ /\ iommu[reg.base] = NoPage
        /\ Drop
        /\ Consume(reg.cons)
     \/ /\ iommu[reg.base] # NoPage
        /\ dev' = [phase |-> "fetched", slot |-> reg.cons,
                   addr |-> DescAt(reg.cons).addr, sts |-> DescAt(reg.cons).sts]
        /\ UNCHANGED <<wire, fault, reg>>
  /\ UNCHANGED <<libVars, iommu, rxReg, busMaster, histVars>>

Transmit ==
  /\ dev.phase = "fetched"
  /\ LET p == iommu[dev.addr] IN
     \/ /\ p = NoPage
        /\ Drop
        /\ Consume(dev.slot)
     \/ /\ p # NoPage
        /\ wire' = Append(wire, [page |-> p, whole |-> (p = buf => filled)])
        /\ dev' = [dev EXCEPT !.phase = "sent"]
        /\ UNCHANGED <<fault, reg>>
  /\ UNCHANGED <<libVars, iommu, rxReg, busMaster, histVars>>

\* Status write-back, when the descriptor asked for it, and the index update.
WriteBack ==
  /\ dev.phase = "sent"
  /\ desc' = [i \in Slots |-> IF dev.sts /\ InSlot(i, dev.slot)
                              THEN [desc[i] EXCEPT !.done = TRUE]
                              ELSE desc[i]]
  /\ fault' = (fault \/ (dev.sts /\ iommu[reg.base] = NoPage))
  /\ dev' = IdleDev
  /\ Consume(dev.slot)
  /\ UNCHANGED <<pc, page_index, tx_index, txDesc, rxDesc, buf, filled, idx, ret,
                 iommu, rxReg, busMaster, wire, histVars>>

-----------------------------------------------------------------------------
Init ==
  /\ pc = "closed"
  /\ page_index = 0
  /\ tx_index = 0
  /\ txDesc = [i \in Slots |-> NoPage]
  /\ rxDesc = [i \in RxSlots |-> NoPage]
  /\ desc = [i \in Slots |-> ZeroDesc]
  /\ buf = NoPage
  /\ filled = FALSE
  /\ idx = [prod |-> 0, cons |-> 0, size |-> 0]
  /\ ret = 0
  /\ iommu = [a \in Iovas |-> NoPage]
  /\ reg = ResetRegs
  /\ rxReg = ResetRxRegs
  /\ busMaster = FALSE
  /\ dev = IdleDev
  /\ wire = <<>>
  /\ fault = FALSE
  /\ asked = {}
  /\ sessions = 0
  /\ lapped = FALSE

\* A call that has begun goes on to its end; the client need not call again.
InRequest == FillRequest \/ allow_bus_master \/ ReadIndex \/ WriteIndex
               \/ CheckDone \/ FreeRequest

Library == \/ reset_host_interface \/ allocate_tx_desc \/ allocate_rx_desc
           \/ init_host_tx \/ init_host_rx
           \/ ArmRequest \/ InRequest
           \/ free_tx_rx_desc

Router == Fetch \/ Transmit \/ WriteBack

\* The program may end between sessions.
Ended == pc = "closed" /\ UNCHANGED vars

Next == Library \/ Router \/ Ended

Fairness == WF_vars(InRequest) /\ WF_vars(Router)

Spec == Init /\ [][Next]_vars /\ Fairness

\* A late router that still lets go of a descriptor before the ring comes
\* round to it again, TX_SIZE times CTRL_TIMEOUT at least.
LateSpec == Init /\ [][Next /\ ~lapped']_vars /\ Fairness

-----------------------------------------------------------------------------
TypeOK ==
  /\ pc \in ClientSteps \cup RequestSteps
  /\ page_index \in Nat
  /\ tx_index \in Slots
  /\ txDesc \in [Slots -> Pages]
  /\ rxDesc \in [RxSlots -> Pages]
  /\ desc \in [Slots -> Descs]
  /\ buf \in Pages
  /\ filled \in BOOLEAN
  /\ idx \in [prod : Slots, cons : Slots, size : {0, TX_SIZE}]
  /\ ret \in {0, 1}
  /\ iommu \in [Iovas -> Pages]
  /\ reg \in [base : Iovas, prod : Slots, cons : Slots, size : {0, TX_SIZE},
              valid : BOOLEAN]
  /\ rxReg \in [base : Iovas, size : {0, RX_SIZE}, valid : BOOLEAN]
  /\ busMaster \in BOOLEAN
  /\ dev \in [phase : {"idle", "fetched", "sent"}, slot : Slots, addr : Iovas,
              sts : BOOLEAN]
  /\ wire \in Seq([page : Nat, whole : BOOLEAN])
  /\ fault \in BOOLEAN
  /\ asked \subseteq Nat
  /\ sessions \in Nat
  /\ lapped \in BOOLEAN
-----------------------------------------------------------------------------
(* Safety *)

\* The truncation of page_index to 8 bits has not lost anything yet.
NoWrap == page_index <= IOVA_PAGES

Held == PagesOf(txDesc, Slots) \cup PagesOf(rxDesc, RxSlots) \cup ({buf} \ {NoPage})

\* Until page_index exceeds what iommu_map_va() can tell apart, the pages the
\* router can reach are exactly those the library holds, each at the address
\* the library believes it has: no allocation collides with a live one, no
\* free_dma_map() takes somebody else's mapping away and none leaves its own.
MappedIffHeld ==
  NoWrap => /\ \A p \in Held : iommu[Iova(p)] = p
            /\ \A a \in Iovas : iommu[a] # NoPage => iommu[a] \in Held

\* From the initialisation of a ring to free_tx_rx_desc() the base register
\* leads through the IOMMU to the page of the ring's first descriptor, for
\* every state of the requests in between.
RingsBacked ==
  NoWrap /\ pc # "closed" =>
    /\ reg.valid => iommu[reg.base] = txDesc[0]
    /\ rxReg.valid => iommu[rxReg.base] = rxDesc[0]

\* The library keeps the producer position twice, in tx_index and in the
\* producer half of TX_PROD_CONS_INDEX.  In the first session the two agree
\* whenever a descriptor is chosen, up to the store that moves both.
IndexAgreement ==
  sessions = 1 =>
    /\ pc \in {"idle", "fill", "master", "read_index"} => tx_index = reg.prod
    /\ pc = "write_index" => tx_index = idx.prod

\* request_router_cfg() reports success only for a request that has gone on
\* the wire, whole, in this very call, unless its descriptor was armed while
\* the router was still working on the previous use of it.
SuccessIsGenuine ==
  pc = "free" /\ ret = 0 /\ ~lapped =>
    \E k \in DOMAIN wire : wire[k] = [page |-> buf, whole |-> TRUE]

\* A router that keeps to CTRL_TIMEOUT never reaches for an address that is
\* not mapped: the library does not take a buffer or a ring away too early.
NoFault == Prompt /\ NoWrap /\ sessions = 1 => ~fault

\* A prompt router answers every request that uses the first descriptor, also
\* after the ring has gone round.
FirstSlotServed ==
  Prompt /\ NoWrap /\ sessions = 1 /\ pc = "free" /\ CurrentSlot = 0 => ret = 0

-----------------------------------------------------------------------------
(* Liveness, and the promise to the caller *)

\* Every call of request_router_cfg() returns.
RequestReturns == pc \in RequestSteps ~> pc = "idle"

\* A request exists for the caller once its payload is in the buffer.
Made == IF filled THEN asked ELSE asked \ {buf}
Sent == [i \in DOMAIN wire |-> wire[i].page]

Channel == INSTANCE RequestChannel WITH
  Request <- Nat,
  None    <- NoPage,
  current <- IF filled THEN buf ELSE NoPage,
  made    <- Made,
  sent    <- Sent,
  answer  <- CASE pc = "free" /\ ret = 0 -> "posted"
               [] pc = "free" /\ ret # 0 -> "failed"
               [] OTHER -> "none"

\* The ring implements RequestChannel: of all requests only that of the call in
\* progress is ever transmitted, whole and at most once, "posted" is answered
\* only when it has been, and every call returns.
ChannelSpec == Channel!Spec

-----------------------------------------------------------------------------
(* What comments of the code say and the code does not keep *)

\* tbtutils.c:398: TX_DESC_DONE is set "if successful transmission has
\* occured".  A prompt router and a first session leave no other excuse.
EveryRequestServed ==
  Prompt /\ NoWrap /\ sessions = 1 /\ pc = "free" => ret = 0

\* tbtutils.c:398 again: the flag stands for a transmission of the request.
FlagMeansTransmitted ==
  pc = "free" /\ ret = 0 => \E k \in DOMAIN wire : wire[k].page = buf
=============================================================================
