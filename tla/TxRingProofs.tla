---------------------------- MODULE TxRingProofs ----------------------------
(***************************************************************************)
(* Proofs about TxRing for every ring size, every number of I/O virtual    *)
(* pages and every number of requests and sessions.                        *)
(*                                                                         *)
(* The key is Identity: as long as page_index has not wrapped, an I/O      *)
(* virtual page is mapped to the page of the same number or to nothing,    *)
(* and the former exactly when the library holds that page.                *)
(***************************************************************************)
EXTENDS TxRing, SequenceTheorems, FiniteSetTheorems, TLAPS

-----------------------------------------------------------------------------
(* Arithmetic of the truncated page index and of the ring *)

\* The remainder by a positive number lies below it: the range of the u8
\* index of iommu_map_va() and of tx_index_inc().
LEMMA ModRange ==
  ASSUME NEW p \in Int, NEW m \in Nat \ {0}
  PROVE  p % m \in 0 .. m - 1
OBVIOUS

\* A page index that has not wrapped is its own I/O virtual page.
LEMMA ModSmall ==
  ASSUME NEW m \in Nat \ {0}, NEW p \in 0 .. m - 1
  PROVE  p % m = p
OBVIOUS

\* Every page has an I/O virtual page.
LEMMA IovaType == \A p \in Int : Iova(p) \in Iovas
BY SizesAssumption, ModRange DEF Iova, Iovas

LEMMA IovaSmall == \A p \in Iovas : Iova(p) = p
BY SizesAssumption, ModSmall DEF Iova, Iovas

\* The zero slot and the zero address exist.
LEMMA ZeroExists == 0 \in Slots /\ 0 \in RxSlots /\ 0 \in Iovas
BY SizesAssumption DEF Slots, RxSlots, Iovas

LEMMA NextSlotType == \A i \in Slots : NextSlot(i) \in Slots
BY SizesAssumption, ModRange DEF NextSlot, Slots

\* Counting on from a slot, modulo the size of the ring, ends in a slot.
LEMMA WrapType == \A i \in Slots : (i + 1) % TX_SIZE \in Slots
BY NextSlotType DEF NextSlot

LEMMA CurrentSlotType ==
  ASSUME tx_index \in Slots
  PROVE  CurrentSlot \in Slots
BY SizesAssumption, ModRange DEF CurrentSlot, Slots

\* iommu_map_va() and iommu_unmap_va() keep the table a table.
LEMMA MapType ==
  ASSUME NEW t \in [Iovas -> Pages], NEW ps \in SUBSET Nat
  PROVE  Map(t, ps) \in [Iovas -> Pages]
<1>1. ASSUME NEW a \in Iovas, \E p \in ps : Iova(p) = a
      PROVE  (CHOOSE p \in ps : Iova(p) = a) \in Pages
  BY <1>1 DEF Pages
<1> QED
  BY <1>1 DEF Map

LEMMA UnmapType ==
  ASSUME NEW t \in [Iovas -> Pages], NEW ps
  PROVE  Unmap(t, ps) \in [Iovas -> Pages]
BY DEF Unmap, Pages

-----------------------------------------------------------------------------
(* Type correctness *)

\* A valid ring has its size, and the router works on valid rings only.
SizeKnown ==
  /\ reg.valid => reg.size = TX_SIZE
  /\ dev.phase # "idle" => reg.valid

\* The half of TypeOK that the library leaves alone while it allocates and frees,
\* but for the mappings.
HardwareOK ==
  /\ reg \in [base : Iovas, prod : Slots, cons : Slots, size : {0, TX_SIZE},
              valid : BOOLEAN]
  /\ rxReg \in [base : Iovas, size : {0, RX_SIZE}, valid : BOOLEAN]
  /\ busMaster \in BOOLEAN
  /\ dev \in [phase : {"idle", "fetched", "sent"}, slot : Slots, addr : Iovas,
              sts : BOOLEAN]
  /\ wire \in Seq([page : Nat, whole : BOOLEAN])
  /\ fault \in BOOLEAN

LEMMA HardwareStutter ==
  ASSUME TypeOK, SizeKnown, UNCHANGED <<reg, rxReg, busMaster, devVars>>
  PROVE  HardwareOK' /\ SizeKnown'
<1>1. HardwareOK
  BY DEF TypeOK, HardwareOK
<1> QED
  BY <1>1 DEF HardwareOK, SizeKnown, devVars

LEMMA DescAtType ==
  ASSUME TypeOK, NEW s
  PROVE  DescAt(s) \in Descs
<1>1. ZeroDesc \in Descs
  BY ZeroExists DEF ZeroDesc, Descs
<1>2. desc \in [Slots -> Descs]
  BY DEF TypeOK
<1>3. CASE \E i \in Slots : InSlot(i, s)
  <2>1. (CHOOSE i \in Slots : InSlot(i, s)) \in Slots
    BY <1>3
  <2> QED
    BY <1>2, <1>3, <2>1 DEF DescAt
<1> QED
  BY <1>1, <1>3 DEF DescAt

LEMMA TypeInit == Init => TypeOK /\ SizeKnown
<1> SUFFICES ASSUME Init PROVE TypeOK /\ SizeKnown
  OBVIOUS
<1> USE ZeroExists
<1>1. /\ desc \in [Slots -> Descs]
      /\ reg \in [base : Iovas, prod : Slots, cons : Slots, size : {0, TX_SIZE},
                  valid : BOOLEAN]
      /\ rxReg \in [base : Iovas, size : {0, RX_SIZE}, valid : BOOLEAN]
      /\ dev \in [phase : {"idle", "fetched", "sent"}, slot : Slots, addr : Iovas,
                  sts : BOOLEAN]
  BY DEF Init, Descs, ZeroDesc, ResetRegs, ResetRxRegs, IdleDev
<1>2. /\ txDesc \in [Slots -> Pages] /\ rxDesc \in [RxSlots -> Pages]
      /\ iommu \in [Iovas -> Pages] /\ buf \in Pages
  BY DEF Init, Pages
<1>3. /\ wire \in Seq([page : Nat, whole : BOOLEAN])
      /\ idx \in [prod : Slots, cons : Slots, size : {0, TX_SIZE}]
  BY DEF Init
<1>4. SizeKnown
  BY DEF Init, SizeKnown, ResetRegs, IdleDev
<1> QED
  BY <1>1, <1>2, <1>3, <1>4 DEF Init, TypeOK, ClientSteps

\* Each step of the library and of the router keeps the types.
LEMMA TypeStep == TypeOK /\ SizeKnown /\ [Next]_vars => TypeOK' /\ SizeKnown'
<1> SUFFICES ASSUME TypeOK, SizeKnown, [Next]_vars
             PROVE  TypeOK' /\ SizeKnown'
  OBVIOUS
<1> USE DEF TypeOK, SizeKnown, ClientSteps, RequestSteps
<1>1. CASE reset_host_interface
  BY <1>1, ZeroExists DEF reset_host_interface, ResetRegs, ResetRxRegs, IdleDev
<1>2. CASE allocate_tx_desc
  <2>1. NewPages(TX_SIZE) \in SUBSET Nat
    BY SizesAssumption DEF NewPages
  <2>2. iommu' \in [Iovas -> Pages]
    BY <1>2, <2>1, MapType DEF allocate_tx_desc
  <2>3. txDesc' \in [Slots -> Pages] /\ page_index' \in Nat
    BY <1>2, SizesAssumption DEF allocate_tx_desc, Slots, Pages
  <2>4. desc' \in [Slots -> Descs]
    BY <1>2, ZeroExists DEF allocate_tx_desc, Descs, ZeroDesc
  <2>5. HardwareOK' /\ SizeKnown'
    BY <1>2, HardwareStutter DEF allocate_tx_desc
  <2> QED
    BY <1>2, <2>2, <2>3, <2>4, <2>5 DEF allocate_tx_desc, HardwareOK, histVars
<1>3. CASE allocate_rx_desc
  <2>1. NewPages(RX_SIZE) \in SUBSET Nat
    BY SizesAssumption DEF NewPages
  <2>2. iommu' \in [Iovas -> Pages]
    BY <1>3, <2>1, MapType DEF allocate_rx_desc
  <2>3. rxDesc' \in [RxSlots -> Pages] /\ page_index' \in Nat
    BY <1>3, SizesAssumption DEF allocate_rx_desc, RxSlots, Pages
  <2>4. HardwareOK' /\ SizeKnown'
    BY <1>3, HardwareStutter DEF allocate_rx_desc
  <2> QED
    BY <1>3, <2>2, <2>3, <2>4 DEF allocate_rx_desc, HardwareOK, histVars
<1>4. CASE init_host_tx
  <2>1. RingBase \in Iovas
    BY ZeroExists, IovaType DEF RingBase, Pages, NoPage
  <2> QED
    BY <1>4, <2>1, ZeroExists, HardwareAssumption DEF init_host_tx, devVars, histVars
<1>5. CASE init_host_rx
  <2>1. Iova(rxDesc[0]) \in Iovas
    BY ZeroExists, IovaType DEF Pages, NoPage
  <2> QED
    BY <1>5, <2>1 DEF init_host_rx, devVars, histVars
<1>6. CASE ArmRequest
  <2>1. iommu' \in [Iovas -> Pages]
    BY <1>6, MapType DEF ArmRequest
  <2>2. ArmedDesc \in Descs
    BY IovaType DEF ArmedDesc, Descs
  <2>3. desc' \in [Slots -> Descs]
    BY <1>6, <2>2 DEF ArmRequest
  <2>4. buf' \in Pages /\ asked' \subseteq Nat /\ page_index' \in Nat
    BY <1>6 DEF ArmRequest, Pages
  <2>5. HardwareOK' /\ SizeKnown'
    BY <1>6, HardwareStutter DEF ArmRequest
  <2> QED
    BY <1>6, <2>1, <2>3, <2>4, <2>5 DEF ArmRequest, HardwareOK
<1>7. CASE FillRequest
  BY <1>7 DEF FillRequest, hostVars, devVars, histVars
<1>8. CASE allow_bus_master
  BY <1>8 DEF allow_bus_master, devVars, histVars
<1>9. CASE ReadIndex
  BY <1>9 DEF ReadIndex, hostVars, devVars, histVars
<1>10. CASE WriteIndex
  <2>1. (idx.prod + 1) % idx.size \in Slots
    BY <1>10, WrapType DEF WriteIndex
  <2>2. tx_index' \in Slots
    BY <1>10, NextSlotType DEF WriteIndex
  <2>3. reg' \in [base : Iovas, prod : Slots, cons : Slots, size : {0, TX_SIZE},
                  valid : BOOLEAN]
        /\ reg'.size = reg.size /\ reg'.valid = reg.valid
    BY <1>10, <2>1 DEF WriteIndex
  <2> QED
    BY <1>10, <2>2, <2>3 DEF WriteIndex, devVars, histVars
<1>11. CASE CheckDone
  BY <1>11 DEF CheckDone, hostVars, devVars, histVars
<1>12. CASE FreeRequest
  <2>1. iommu' \in [Iovas -> Pages] /\ buf' \in Pages
    BY <1>12, UnmapType DEF FreeRequest, Pages
  <2>2. HardwareOK' /\ SizeKnown'
    BY <1>12, HardwareStutter DEF FreeRequest
  <2> QED
    BY <1>12, <2>1, <2>2 DEF FreeRequest, HardwareOK, histVars
<1>13. CASE free_tx_rx_desc
  <2>1. iommu' \in [Iovas -> Pages]
    BY <1>13, UnmapType DEF free_tx_rx_desc
  <2>2. txDesc' \in [Slots -> Pages] /\ rxDesc' \in [RxSlots -> Pages]
    BY <1>13 DEF free_tx_rx_desc, Pages
  <2>3. HardwareOK' /\ SizeKnown'
    BY <1>13, HardwareStutter DEF free_tx_rx_desc
  <2> QED
    BY <1>13, <2>1, <2>2, <2>3 DEF free_tx_rx_desc, HardwareOK, histVars
<1> DEFINE RegType == [base : Iovas, prod : Slots, cons : Slots, size : {0, TX_SIZE},
                       valid : BOOLEAN]
<1>14. ASSUME reg.valid, NEW s \in Slots, Consume(s)
       PROVE  reg' \in RegType /\ reg'.size = reg.size /\ reg'.valid = reg.valid
  <2>1. (s + 1) % reg.size \in Slots
    BY <1>14, WrapType
  <2> QED
    BY <1>14, <2>1 DEF Consume
<1>15. IdleDev \in [phase : {"idle", "fetched", "sent"}, slot : Slots, addr : Iovas,
                    sts : BOOLEAN]
  BY ZeroExists DEF IdleDev
<1>16. CASE Fetch
  <2>1. CASE Drop /\ Consume(reg.cons)
    <3>1. reg.valid /\ reg.cons \in Slots
      BY <1>16 DEF Fetch
    <3>2. reg' \in RegType /\ reg'.size = reg.size /\ reg'.valid = reg.valid
      BY <1>14, <2>1, <3>1
    <3>3. dev' = IdleDev /\ dev'.phase = "idle" /\ fault' \in BOOLEAN
      BY <2>1 DEF Drop, IdleDev
    <3>4. UNCHANGED <<libVars, iommu, rxReg, busMaster, histVars, wire>>
      BY <1>16, <2>1 DEF Fetch, Drop
    <3> QED
      BY <1>15, <3>2, <3>3, <3>4 DEF libVars, histVars
  <2>2. CASE dev' = [phase |-> "fetched", slot |-> reg.cons,
                     addr |-> DescAt(reg.cons).addr, sts |-> DescAt(reg.cons).sts]
             /\ UNCHANGED <<wire, fault, reg>>
    <3>1. DescAt(reg.cons) \in Descs
      BY DescAtType
    <3> QED
      BY <1>16, <2>2, <3>1 DEF Fetch, Descs, libVars, histVars
  <2> QED
    BY <1>16, <2>1, <2>2 DEF Fetch
<1>17. CASE Transmit
  <2>1. CASE Drop /\ Consume(dev.slot)
    <3>1. reg.valid /\ dev.slot \in Slots
      BY <1>17 DEF Transmit
    <3>2. reg' \in RegType /\ reg'.size = reg.size /\ reg'.valid = reg.valid
      BY <1>14, <2>1, <3>1
    <3>3. dev' = IdleDev /\ dev'.phase = "idle" /\ fault' \in BOOLEAN
      BY <2>1 DEF Drop, IdleDev
    <3>4. UNCHANGED <<libVars, iommu, rxReg, busMaster, histVars, wire>>
      BY <1>17, <2>1 DEF Transmit, Drop
    <3> QED
      BY <1>15, <3>2, <3>3, <3>4 DEF libVars, histVars
  <2>2. CASE /\ iommu[dev.addr] # NoPage
             /\ wire' = Append(wire, [page |-> iommu[dev.addr],
                                      whole |-> (iommu[dev.addr] = buf => filled)])
             /\ dev' = [dev EXCEPT !.phase = "sent"]
             /\ UNCHANGED <<fault, reg>>
    <3>1. iommu[dev.addr] \in Nat
      BY <2>2 DEF Pages
    <3>2. wire' \in Seq([page : Nat, whole : BOOLEAN])
      BY <2>2, <3>1
    <3>3. /\ dev' \in [phase : {"idle", "fetched", "sent"}, slot : Slots, addr : Iovas,
                    sts : BOOLEAN]
          /\ reg.valid
      BY <1>17, <2>2 DEF Transmit
    <3> QED
      BY <1>17, <2>2, <3>2, <3>3 DEF Transmit, libVars, histVars
  <2> QED
    BY <1>17, <2>1, <2>2 DEF Transmit
<1>18. CASE WriteBack
  <2>1. desc' \in [Slots -> Descs]
    <3>1. \A i \in Slots : [desc[i] EXCEPT !.done = TRUE] \in Descs
      BY DEF Descs
    <3> QED
      BY <1>18, <3>1 DEF WriteBack
  <2>2. reg.valid /\ dev.slot \in Slots
    BY <1>18 DEF WriteBack
  <2>3. Consume(dev.slot) /\ dev' = IdleDev /\ dev'.phase = "idle"
    BY <1>18 DEF WriteBack, IdleDev
  <2>4. reg' \in RegType /\ reg'.size = reg.size /\ reg'.valid = reg.valid
    BY <1>14, <2>2, <2>3
  <2>5. fault' \in BOOLEAN
    BY <1>18 DEF WriteBack
  <2> QED
    BY <1>15, <1>18, <2>1, <2>3, <2>4, <2>5 DEF WriteBack, histVars
<1>19. CASE UNCHANGED vars
  BY <1>19 DEF vars, libVars, hostVars, devVars, histVars
<1> QED
  BY <1>1, <1>2, <1>3, <1>4, <1>5, <1>6, <1>7, <1>8, <1>9, <1>10, <1>11, <1>12,
     <1>13, <1>16, <1>17, <1>18, <1>19
     DEF Next, Library, InRequest, Router, Ended

\* The variables of TxRing always have their types; in particular a descriptor
\* index never leaves its ring and the router never divides by a size of zero.
THEOREM TypeCorrect == Spec => []TypeOK
<1>1. Spec => [](TypeOK /\ SizeKnown)
  BY TypeInit, TypeStep, PTL DEF Spec
<1> QED
  BY <1>1, PTL
-----------------------------------------------------------------------------
(* The two copies of the producer position *)

\* In the first session both copies start at zero and move together.
IndexInv ==
  /\ sessions = 0 => pc = "closed" /\ tx_index = 0
  /\ sessions = 1 =>
       /\ pc \in {"alloc_tx", "alloc_rx", "init_tx"} => tx_index = 0
       /\ pc \in {"init_rx", "idle", "fill", "master", "read_index", "wait", "free"}
            => tx_index = reg.prod
       /\ pc = "write_index" => tx_index = idx.prod

LEMMA IndexStep ==
  TypeOK /\ SizeKnown /\ IndexInv /\ [Next]_vars => IndexInv'
<1> SUFFICES ASSUME TypeOK, SizeKnown, IndexInv, [Next]_vars
             PROVE  IndexInv'
  OBVIOUS
<1>1. CASE reset_host_interface
  BY <1>1 DEF reset_host_interface, IndexInv, TypeOK
<1>2. CASE allocate_tx_desc \/ allocate_rx_desc
  BY <1>2 DEF allocate_tx_desc, allocate_rx_desc, IndexInv, histVars
<1>3. CASE init_host_tx \/ init_host_rx
  BY <1>3 DEF init_host_tx, init_host_rx, IndexInv, histVars
<1>4. CASE ArmRequest
  BY <1>4 DEF ArmRequest, IndexInv
<1>5. CASE FillRequest \/ allow_bus_master \/ ReadIndex
  BY <1>5 DEF FillRequest, allow_bus_master, ReadIndex, IndexInv, hostVars, histVars
<1>6. CASE WriteIndex
  <2>1. idx.size = TX_SIZE
    BY <1>6 DEF WriteIndex, TypeOK
  <2>2. reg'.prod = (idx.prod + 1) % TX_SIZE
    BY <1>6, <2>1 DEF WriteIndex, TypeOK
  <2>3. sessions = 1 => tx_index' = reg'.prod
    BY <1>6, <2>2 DEF WriteIndex, NextSlot, IndexInv
  <2> QED
    BY <1>6, <2>3 DEF WriteIndex, IndexInv, histVars
<1>7. CASE CheckDone \/ FreeRequest \/ free_tx_rx_desc
  BY <1>7 DEF CheckDone, FreeRequest, free_tx_rx_desc, IndexInv, hostVars, histVars
<1>8. CASE Router
  <2>1. ASSUME NEW s, Consume(s) PROVE reg'.prod = reg.prod
    BY <2>1 DEF Consume, TypeOK
  <2>2. reg'.prod = reg.prod /\ UNCHANGED <<pc, tx_index, idx, sessions>>
    BY <1>8, <2>1 DEF Router, Fetch, Transmit, WriteBack, libVars, histVars
  <2> QED
    BY <2>2 DEF IndexInv
<1>9. CASE UNCHANGED vars
  BY <1>9 DEF vars, libVars, hostVars, histVars, IndexInv
<1> QED
  BY <1>1, <1>2, <1>3, <1>4, <1>5, <1>6, <1>7, <1>8, <1>9
     DEF Next, Library, InRequest, Ended

\* In the first session the descriptor the library picks is the one at the
\* producer position of the ring, for every ring size and request count.
THEOREM IndexAgrees == Spec => []IndexAgreement
<1>1. Init => IndexInv
  BY DEF Init, IndexInv
<1>2. IndexInv => IndexAgreement
  BY DEF IndexInv, IndexAgreement
<1> QED
  BY <1>1, <1>2, TypeInit, TypeStep, IndexStep, PTL DEF Spec

-----------------------------------------------------------------------------
(* The IOMMU *)

RingPages == PagesOf(txDesc, Slots) \cup PagesOf(rxDesc, RxSlots)

\* What is allocated when.
Lifecycle ==
  /\ pc \in {"closed", "alloc_tx"} => \A i \in Slots : txDesc[i] = NoPage
  /\ pc \in {"closed", "alloc_tx", "alloc_rx"} => \A i \in RxSlots : rxDesc[i] = NoPage
  /\ pc \in ClientSteps => buf = NoPage
  /\ pc \in RequestSteps => buf # NoPage

\* Table t maps the pages of H, each to itself, and nothing else.
Identity(t, H) == \A a \in Iovas : t[a] = IF a \in H THEN a ELSE NoPage

Mappings ==
  /\ Held \subseteq 0 .. page_index - 1
  /\ buf \notin RingPages
  /\ NoWrap => Identity(iommu, Held)

IommuInv == TypeOK /\ SizeKnown /\ Lifecycle /\ Mappings

\* New pages that do not wrap land on free addresses.
LEMMA MapFresh ==
  ASSUME NEW t \in [Iovas -> Pages], NEW n \in Nat, NEW k \in Nat,
         NEW H \in SUBSET (0 .. n - 1),
         n + k <= IOVA_PAGES,
         Identity(t, H)
  PROVE  Identity(Map(t, n .. n + k - 1), H \cup n .. n + k - 1)
<1> DEFINE ps == n .. n + k - 1
<1>1. \A p \in ps : p \in Iovas /\ Iova(p) = p
  BY SizesAssumption, IovaSmall DEF Iovas
<1> SUFFICES ASSUME NEW a \in Iovas
             PROVE  Map(t, ps)[a] = IF a \in H \cup ps THEN a ELSE NoPage
  BY DEF Identity
<1>2. (\E p \in ps : Iova(p) = a) <=> a \in ps
  BY <1>1
<1>3. CASE a \in ps
  <2>1. a \notin H
    BY <1>3
  <2>2. t[a] = NoPage
    BY <2>1 DEF Identity
  <2>3. (CHOOSE p \in ps : Iova(p) = a) = a
    BY <1>1, <1>3
  <2> QED
    BY <1>2, <1>3, <2>2, <2>3 DEF Map
<1>4. CASE a \notin ps
  BY <1>2, <1>4 DEF Map, Identity
<1> QED
  BY <1>3, <1>4

\* Unmapping held pages takes away exactly these.
LEMMA UnmapHeld ==
  ASSUME NEW t \in [Iovas -> Pages],
         NEW H \in SUBSET Iovas, NEW ps \in SUBSET H,
         Identity(t, H)
  PROVE  Identity(Unmap(t, ps), H \ ps)
<1> SUFFICES ASSUME NEW a \in Iovas
             PROVE  Unmap(t, ps)[a] = IF a \in H \ ps THEN a ELSE NoPage
  BY DEF Identity
<1>1. (\E p \in ps : Iova(p) = a) <=> a \in ps
  BY IovaSmall
<1> QED
  BY <1>1 DEF Unmap, Identity

\* Steps that allocate and free nothing.
LEMMA MappingsStutter ==
  ASSUME Mappings, UNCHANGED <<page_index, txDesc, rxDesc, buf, iommu>>
  PROVE  Mappings'
BY DEF Mappings, Held, RingPages, PagesOf, NoWrap, Identity

LEMMA LifecycleStep ==
  TypeOK /\ Lifecycle /\ [Next]_vars => Lifecycle'
<1> SUFFICES ASSUME TypeOK, Lifecycle, [Next]_vars
             PROVE  Lifecycle'
  OBVIOUS
<1> USE DEF Lifecycle, ClientSteps, RequestSteps
<1>1. CASE reset_host_interface
  BY <1>1 DEF reset_host_interface
<1>2. CASE allocate_tx_desc
  BY <1>2 DEF allocate_tx_desc
<1>3. CASE allocate_rx_desc
  BY <1>3 DEF allocate_rx_desc
<1>4. CASE init_host_tx \/ init_host_rx
  BY <1>4 DEF init_host_tx, init_host_rx
<1>5. CASE ArmRequest
  BY <1>5 DEF ArmRequest, TypeOK, NoPage
<1>6. CASE FillRequest \/ allow_bus_master \/ ReadIndex \/ WriteIndex \/ CheckDone
  BY <1>6 DEF FillRequest, allow_bus_master, ReadIndex, WriteIndex, CheckDone
<1>7. CASE FreeRequest
  BY <1>7 DEF FreeRequest
<1>8. CASE free_tx_rx_desc
  BY <1>8 DEF free_tx_rx_desc
<1>9. CASE Router
  BY <1>9 DEF Router, Fetch, Transmit, WriteBack, libVars
<1>10. CASE UNCHANGED vars
  BY <1>10 DEF vars, libVars
<1> QED
  BY <1>1, <1>2, <1>3, <1>4, <1>5, <1>6, <1>7, <1>8, <1>9, <1>10
     DEF Next, Library, InRequest, Ended

\* Each allocation and each release keeps the table the identity on Held.
LEMMA MappingsStep == IommuInv /\ [Next]_vars => Mappings'
<1> SUFFICES ASSUME IommuInv, [Next]_vars
             PROVE  Mappings'
  OBVIOUS
<1>1. CASE allocate_tx_desc
  <2>1. Held = {} /\ buf = NoPage
    BY <1>1 DEF allocate_tx_desc, IommuInv, Lifecycle, ClientSteps, Held, PagesOf
  <2>2. PagesOf(txDesc, Slots)' = NewPages(TX_SIZE)
    <3>1. \A p \in NewPages(TX_SIZE) : p - page_index \in Slots
      BY SizesAssumption DEF NewPages, Slots, IommuInv, TypeOK
    <3>2. \A i \in Slots : page_index + i \in NewPages(TX_SIZE) \ {NoPage}
      BY SizesAssumption DEF NewPages, Slots, IommuInv, TypeOK, NoPage
    <3>3. \A p \in NewPages(TX_SIZE) : p = txDesc'[p - page_index] /\ p # NoPage
      BY <1>1, <3>1, SizesAssumption
         DEF allocate_tx_desc, NewPages, IommuInv, TypeOK, NoPage
    <3>4. \A i \in Slots : txDesc'[i] = page_index + i
      BY <1>1 DEF allocate_tx_desc
    <3> QED
      BY <3>1, <3>2, <3>3, <3>4 DEF PagesOf
  <2>3. PagesOf(rxDesc, RxSlots)' = {}
    BY <1>1 DEF allocate_tx_desc, IommuInv, Lifecycle, PagesOf
  <2>4. Held' = NewPages(TX_SIZE) /\ RingPages' = NewPages(TX_SIZE) /\ buf' = NoPage
    BY <1>1, <2>1, <2>2, <2>3 DEF allocate_tx_desc, Held, RingPages
  <2>5. Held' \subseteq 0 .. page_index' - 1 /\ buf' \notin RingPages'
    BY <1>1, <2>4, SizesAssumption
       DEF allocate_tx_desc, NewPages, NoPage, IommuInv, TypeOK
  <2>6. ASSUME NoWrap' PROVE Identity(iommu, Held)' 
    <3>1. page_index + TX_SIZE <= IOVA_PAGES /\ NoWrap
      BY <1>1, <2>6, SizesAssumption DEF allocate_tx_desc, NoWrap, IommuInv, TypeOK
    <3>2. Identity(iommu, {})
      BY <2>1, <3>1 DEF IommuInv, Mappings
    <3>3. Identity(Map(iommu, NewPages(TX_SIZE)), {} \cup NewPages(TX_SIZE))
      BY <3>1, <3>2, MapFresh, SizesAssumption DEF NewPages, IommuInv, TypeOK
    <3> QED
      BY <1>1, <2>4, <3>3 DEF allocate_tx_desc, Identity
  <2> QED
    BY <2>5, <2>6 DEF Mappings
<1>2. CASE allocate_rx_desc
  <2>1. Held = PagesOf(txDesc, Slots) /\ RingPages = Held /\ buf = NoPage
    BY <1>2 DEF allocate_rx_desc, IommuInv, Lifecycle, ClientSteps, Held, RingPages, PagesOf
  <2>2. PagesOf(rxDesc, RxSlots)' = NewPages(RX_SIZE)
    <3>1. \A p \in NewPages(RX_SIZE) : p - page_index \in RxSlots
      BY SizesAssumption DEF NewPages, RxSlots, IommuInv, TypeOK
    <3>2. \A i \in RxSlots : page_index + i \in NewPages(RX_SIZE) \ {NoPage}
      BY SizesAssumption DEF NewPages, RxSlots, IommuInv, TypeOK, NoPage
    <3>3. \A p \in NewPages(RX_SIZE) : p = rxDesc'[p - page_index] /\ p # NoPage
      BY <1>2, <3>1, SizesAssumption
         DEF allocate_rx_desc, NewPages, IommuInv, TypeOK, NoPage
    <3>4. \A i \in RxSlots : rxDesc'[i] = page_index + i
      BY <1>2 DEF allocate_rx_desc
    <3> QED
      BY <3>1, <3>2, <3>3, <3>4 DEF PagesOf
  <2>3. PagesOf(txDesc, Slots)' = PagesOf(txDesc, Slots)
    BY <1>2 DEF allocate_rx_desc, PagesOf
  <2>4. /\ Held' = Held \cup NewPages(RX_SIZE)
        /\ RingPages' = Held'
        /\ buf' = NoPage
    BY <1>2, <2>1, <2>2, <2>3 DEF allocate_rx_desc, Held, RingPages
  <2>5. Held' \subseteq 0 .. page_index' - 1 /\ buf' \notin RingPages'
    <3>1. Held \subseteq 0 .. page_index - 1
      BY DEF IommuInv, Mappings
    <3> QED
      BY <1>2, <2>4, <3>1, SizesAssumption
         DEF allocate_rx_desc, NewPages, NoPage, IommuInv, TypeOK
  <2>6. ASSUME NoWrap' PROVE Identity(iommu, Held)'
    <3>1. page_index + RX_SIZE <= IOVA_PAGES /\ NoWrap
      BY <1>2, <2>6, SizesAssumption DEF allocate_rx_desc, NoWrap, IommuInv, TypeOK
    <3>2. Identity(Map(iommu, NewPages(RX_SIZE)), Held \cup NewPages(RX_SIZE))
      BY <3>1, MapFresh, SizesAssumption DEF NewPages, IommuInv, TypeOK, Mappings
    <3> QED
      BY <1>2, <2>4, <3>2 DEF allocate_rx_desc, Identity
  <2> QED
    BY <2>5, <2>6 DEF Mappings
<1>3. CASE ArmRequest
  <2>1. Held = RingPages /\ buf = NoPage
    BY <1>3 DEF ArmRequest, IommuInv, Lifecycle, ClientSteps, Held, RingPages
  <2>2. RingPages' = RingPages /\ buf' = page_index /\ buf' # NoPage
    BY <1>3 DEF ArmRequest, RingPages, PagesOf, IommuInv, TypeOK, NoPage
  <2>3. Held' = Held \cup {page_index}
    BY <2>1, <2>2 DEF Held, RingPages
  <2>4. Held \subseteq 0 .. page_index - 1 /\ page_index \in Nat
    BY DEF IommuInv, Mappings, TypeOK
  <2>5. Held' \subseteq 0 .. page_index' - 1 /\ buf' \notin RingPages'
    BY <1>3, <2>1, <2>2, <2>3, <2>4 DEF ArmRequest
  <2>6. ASSUME NoWrap' PROVE Identity(iommu, Held)'
    <3>1. page_index + 1 <= IOVA_PAGES /\ NoWrap
      BY <1>3, <2>6, SizesAssumption DEF ArmRequest, NoWrap, IommuInv, TypeOK
    <3>2. {page_index} = page_index .. page_index + 1 - 1
      BY <2>4
    <3>3. Identity(Map(iommu, {page_index}), Held \cup {page_index})
      BY <2>4, <3>1, <3>2, MapFresh DEF IommuInv, TypeOK, Mappings
    <3> QED
      BY <1>3, <2>3, <3>3 DEF ArmRequest, Identity
  <2> QED
    BY <2>5, <2>6 DEF Mappings
<1>4. CASE FreeRequest
  <2>1. RingPages' = RingPages /\ page_index' = page_index /\ buf' = NoPage
    BY <1>4 DEF FreeRequest, RingPages, PagesOf
  <2>2. Held' = Held \ {buf} /\ buf \in Held
    BY <1>4, <2>1
       DEF FreeRequest, Held, RingPages, IommuInv, Lifecycle, RequestSteps, Mappings, PagesOf
  <2>3. buf' \notin RingPages'
    BY <2>1 DEF RingPages, PagesOf
  <2>4. ASSUME NoWrap' PROVE Identity(iommu, Held)'
    <3>1. NoWrap /\ Held \subseteq Iovas
      BY <2>1, <2>4, SizesAssumption DEF NoWrap, Iovas, IommuInv, Mappings, TypeOK
    <3>2. Identity(Unmap(iommu, {buf}), Held \ {buf})
      BY <2>2, <3>1, UnmapHeld DEF IommuInv, Mappings, TypeOK
    <3> QED
      BY <1>4, <2>2, <3>2 DEF FreeRequest, Identity
  <2> QED
    BY <2>1, <2>2, <2>3, <2>4 DEF Mappings, IommuInv
<1>5. CASE free_tx_rx_desc
  <2>1. Held = RingPages /\ buf = NoPage
    BY <1>5 DEF free_tx_rx_desc, IommuInv, Lifecycle, ClientSteps, Held, RingPages
  <2>2. RingPages' = {} /\ Held' = {} /\ page_index' = page_index
    BY <1>5, <2>1 DEF free_tx_rx_desc, Held, RingPages, PagesOf
  <2>3. ASSUME NoWrap' PROVE Identity(iommu, Held)'
    <3>1. NoWrap /\ Held \subseteq Iovas
      BY <2>2, <2>3, SizesAssumption DEF NoWrap, Iovas, IommuInv, Mappings, TypeOK
    <3>2. Identity(Unmap(iommu, RingPages), Held \ RingPages)
      BY <2>1, <3>1, UnmapHeld DEF IommuInv, Mappings, TypeOK
    <3> QED
      BY <1>5, <2>1, <2>2, <3>2 DEF free_tx_rx_desc, RingPages, Identity
  <2> QED
    BY <2>2, <2>3 DEF Mappings
<1>6. CASE reset_host_interface \/ init_host_tx \/ init_host_rx
  BY <1>6, MappingsStutter DEF reset_host_interface, init_host_tx, init_host_rx, IommuInv
<1>7. CASE FillRequest \/ allow_bus_master \/ ReadIndex \/ WriteIndex \/ CheckDone
  BY <1>7, MappingsStutter
     DEF FillRequest, allow_bus_master, ReadIndex, WriteIndex, CheckDone, hostVars, IommuInv
<1>8. CASE Router \/ UNCHANGED vars
  BY <1>8, MappingsStutter
     DEF Router, Fetch, Transmit, WriteBack, vars, libVars, hostVars, IommuInv
<1> QED
  BY <1>1, <1>2, <1>3, <1>4, <1>5, <1>6, <1>7, <1>8
     DEF Next, Library, InRequest, Ended

LEMMA IommuInit == Init => IommuInv
<1> SUFFICES ASSUME Init PROVE IommuInv
  OBVIOUS
<1>1. Held = {} /\ RingPages = {}
  BY DEF Init, Held, RingPages, PagesOf
<1>2. Lifecycle
  BY DEF Init, Lifecycle, ClientSteps, RequestSteps
<1>3. Mappings
  BY <1>1 DEF Init, Mappings, Identity
<1> QED
  BY <1>2, <1>3, TypeInit DEF IommuInv

LEMMA IommuStep == IommuInv /\ [Next]_vars => IommuInv'
BY TypeStep, LifecycleStep, MappingsStep DEF IommuInv

\* Until page_index wraps, the router reaches exactly the pages the library
\* holds: no allocation and no release ever disturbs another one.
THEOREM MappingsCorrect == Spec => []MappedIffHeld
<1>1. IommuInv => MappedIffHeld
  <2> SUFFICES ASSUME IommuInv, NoWrap
               PROVE  /\ \A p \in Held : iommu[Iova(p)] = p
                      /\ \A a \in Iovas : iommu[a] # NoPage => iommu[a] \in Held
    BY DEF MappedIffHeld
  <2>1. Held \subseteq Iovas
    BY SizesAssumption DEF NoWrap, Iovas, IommuInv, Mappings, TypeOK
  <2>2. Identity(iommu, Held)
    BY DEF IommuInv, Mappings
  <2> QED
    BY <2>1, <2>2, IovaSmall DEF Identity
<1> QED
  BY <1>1, IommuInit, IommuStep, PTL DEF Spec
-----------------------------------------------------------------------------
(* The base registers *)

\* Which ring is allocated, which is valid, and where its base points.
Bases ==
  /\ pc \in {"alloc_tx", "alloc_rx", "init_tx"} => ~reg.valid
  /\ pc \in {"alloc_tx", "alloc_rx", "init_tx", "init_rx"} => ~rxReg.valid
  /\ pc \notin {"closed", "alloc_tx"} => txDesc[0] # NoPage
  /\ pc \notin {"closed", "alloc_tx", "alloc_rx"} => rxDesc[0] # NoPage
  /\ pc # "closed" /\ reg.valid => reg.base = Iova(txDesc[0])
  /\ pc # "closed" /\ rxReg.valid => rxReg.base = Iova(rxDesc[0])

\* The router moves the consumer index only.
LEMMA RouterKeepsRegs ==
  ASSUME TypeOK, Router
  PROVE  /\ reg'.base = reg.base /\ reg'.valid = reg.valid
         /\ UNCHANGED <<pc, txDesc, rxDesc, rxReg>>
<1>1. ASSUME NEW s, Consume(s)
      PROVE  reg'.base = reg.base /\ reg'.valid = reg.valid
  BY <1>1 DEF Consume, TypeOK
<1> QED
  BY <1>1 DEF Router, Fetch, Transmit, WriteBack, libVars

LEMMA BasesStep == TypeOK /\ Bases /\ [Next]_vars => Bases'
<1> SUFFICES ASSUME TypeOK, Bases, [Next]_vars
             PROVE  Bases'
  OBVIOUS
<1> USE DEF Bases
<1>1. CASE reset_host_interface
  BY <1>1 DEF reset_host_interface, ResetRegs, ResetRxRegs
<1>2. CASE allocate_tx_desc
  BY <1>2, ZeroExists DEF allocate_tx_desc, TypeOK, NoPage
<1>3. CASE allocate_rx_desc
  BY <1>3, ZeroExists DEF allocate_rx_desc, TypeOK, NoPage
<1>4. CASE init_host_tx
  BY <1>4 DEF init_host_tx, RingBase
<1>5. CASE init_host_rx
  BY <1>5 DEF init_host_rx
<1>6. CASE ArmRequest \/ FillRequest \/ allow_bus_master \/ ReadIndex
  BY <1>6 DEF ArmRequest, FillRequest, allow_bus_master, ReadIndex, hostVars
<1>7. CASE WriteIndex
  <2>1. reg'.base = reg.base /\ reg'.valid = reg.valid
    BY <1>7 DEF WriteIndex, TypeOK
  <2> QED
    BY <1>7, <2>1 DEF WriteIndex
<1>8. CASE CheckDone \/ FreeRequest \/ free_tx_rx_desc
  BY <1>8 DEF CheckDone, FreeRequest, free_tx_rx_desc, hostVars
<1>9. CASE Router
  BY <1>9, RouterKeepsRegs
<1>10. CASE UNCHANGED vars
  BY <1>10 DEF vars, libVars, hostVars
<1> QED
  BY <1>1, <1>2, <1>3, <1>4, <1>5, <1>6, <1>7, <1>8, <1>9, <1>10
     DEF Next, Library, InRequest, Ended

\* While a session lasts and page_index has not wrapped, the base register of a
\* valid ring leads to the ring's first page.
THEOREM RingsStayBacked == Spec => []RingsBacked
<1>1. Init => Bases
  BY DEF Init, Bases, ResetRegs, ResetRxRegs
<1>2. TypeOK /\ Bases /\ MappedIffHeld => RingsBacked
  <2> SUFFICES ASSUME TypeOK, Bases, MappedIffHeld, NoWrap, pc # "closed"
               PROVE  /\ reg.valid => iommu[reg.base] = txDesc[0]
                      /\ rxReg.valid => iommu[rxReg.base] = rxDesc[0]
    BY DEF RingsBacked
  <2>1. reg.valid => txDesc[0] \in Held
    BY ZeroExists DEF Bases, Held, PagesOf
  <2>2. rxReg.valid => rxDesc[0] \in Held
    BY ZeroExists DEF Bases, Held, PagesOf
  <2> QED
    BY <2>1, <2>2 DEF Bases, MappedIffHeld
<1>3. Spec => []TypeOK
  BY TypeCorrect
<1>4. Spec => []MappedIffHeld
  BY MappingsCorrect
<1> QED
  BY <1>1, <1>2, <1>3, <1>4, BasesStep, PTL DEF Spec

-----------------------------------------------------------------------------
(***************************************************************************)
(* What the caller of request_router_cfg() can rely on, in the first       *)
(* session and until page_index wraps.                                     *)
(*                                                                         *)
(* A request is followed from the armed descriptor to the wire: until the  *)
(* producer index has moved the router is busy with other slots, and after *)
(* that it reaches the request's slot once.                                *)
(***************************************************************************)

\* Page p is on the wire.
Transmitted(p) == \E k \in DOMAIN wire : wire[k].page = p

\* The steps before and after the store that moves the producer index.
Before == {"fill", "master", "read_index", "write_index"}
After  == {"wait", "free"}

-----------------------------------------------------------------------------
(* The invariant of a request *)

\* Ring pages are distinct and none is that of a request.
PagesApart ==
  /\ \A i, j \in Slots : txDesc[i] = txDesc[j] /\ txDesc[i] # NoPage => i = j
  /\ asked \subseteq 0 .. page_index - 1
  /\ RingPages \cap asked = {} /\ 0 \notin asked
  /\ pc \in RequestSteps => buf \in asked /\ buf < page_index

\* An address of an earlier request, or that of a zero descriptor.
OldAddr(a) == a = 0 \/ a < page_index

\* Nothing anywhere points beyond the pages handed out.
AddrsOld ==
  /\ \A i \in Slots : OldAddr(desc[i].addr)
  /\ OldAddr(dev.addr)
  /\ \A k \in DOMAIN wire : wire[k].page < page_index

\* The payload is in the buffer from its second step on.
FilledInTime ==
  /\ pc = "fill" => ~filled
  /\ pc \in RequestSteps \ {"fill"} => filled

\* One descriptor points to the buffer: that of the request.
Armed(k) ==
  /\ desc[k].addr = Iova(buf)
  /\ desc[k].sts
  /\ \A i \in Slots \ {k} : desc[i].addr # Iova(buf)

\* Only the descriptor at the start of the ring asks for a status.
StatusFromFirst == dev.phase # "idle" /\ dev.sts => dev.slot = 0

\* Before the producer index moves the router works on other slots, and nothing
\* has become of the request.
NotYetSeen ==
  pc \in Before =>
    /\ Armed(tx_index) /\ ~desc[tx_index].done
    /\ dev.phase # "idle" => dev.slot # tx_index
    /\ dev.phase = "fetched" => dev.addr # Iova(buf)
    /\ ~Transmitted(buf)
    /\ pc = "write_index" => idx.prod = reg.prod

\* Once it has moved the request is transmitted from its own slot, and there is
\* nothing to fetch once it has been.
SeenOnce ==
  pc \in After =>
    /\ Armed(CurrentSlot)
    /\ dev.phase = "fetched" /\ dev.addr = Iova(buf) =>
         dev.slot = CurrentSlot /\ ~Transmitted(buf)
    /\ dev.phase = "fetched" /\ dev.slot = CurrentSlot /\ dev.sts => dev.addr = Iova(buf)
    /\ dev.phase = "sent" /\ dev.slot = CurrentSlot /\ dev.sts => Transmitted(buf)
    /\ Transmitted(buf) => \/ dev.phase = "sent" /\ dev.slot = CurrentSlot
                           \/ dev.phase = "idle" /\ reg.cons = reg.prod
    /\ desc[CurrentSlot].done => Transmitted(buf)
    /\ \A k \in DOMAIN wire : wire[k].page = buf => wire[k].whole

\* What has been decided is backed by the wire.
Honest == pc = "free" /\ ret = 0 => Transmitted(buf)

Followed == AddrsOld /\ StatusFromFirst /\ NotYetSeen /\ SeenOnce /\ Honest

FirstLap == NoWrap /\ sessions <= 1 /\ ~lapped

IInv ==
  /\ IommuInv /\ IndexInv /\ Bases
  /\ PagesApart /\ FilledInTime
  /\ FirstLap => Followed

-----------------------------------------------------------------------------
(* The ring and the pages *)

\* The descriptor before the next of a descriptor is that descriptor.
LEMMA SlotBefore ==
  ASSUME NEW i \in Slots
  PROVE  (NextSlot(i) + TX_SIZE - 1) % TX_SIZE = i
<1>1. CASE i + 1 < TX_SIZE
  <2>1. NextSlot(i) = i + 1
    BY <1>1, SizesAssumption, ModSmall DEF NextSlot, Slots
  <2>2. (i + TX_SIZE) % TX_SIZE = i
    BY SizesAssumption DEF Slots
  <2> QED
    BY <2>1, <2>2, SizesAssumption DEF Slots
<1>2. CASE i = TX_SIZE - 1
  <2>1. NextSlot(i) = 0
    BY <1>2, SizesAssumption DEF NextSlot
  <2>2. (TX_SIZE - 1) % TX_SIZE = i
    BY <1>2, SizesAssumption, ModSmall
  <2> QED
    BY <2>1, <2>2, SizesAssumption
<1> QED
  BY <1>1, <1>2, SizesAssumption DEF Slots

\* And the next is the one after it.
LEMMA SlotAfter ==
  ASSUME tx_index \in Slots
  PROVE  NextSlot(CurrentSlot) = tx_index
<1>1. CASE tx_index = 0
  <2>1. CurrentSlot = TX_SIZE - 1
    BY <1>1, SizesAssumption, ModSmall DEF CurrentSlot
  <2> QED
    BY <1>1, <2>1, SizesAssumption DEF NextSlot
<1>2. CASE tx_index > 0
  <2>1. (tx_index - 1 + TX_SIZE) % TX_SIZE = tx_index - 1
    BY <1>2, SizesAssumption DEF Slots
  <2>2. CurrentSlot = tx_index - 1
    BY <1>2, <2>1, SizesAssumption DEF CurrentSlot, Slots
  <2> QED
    BY <1>2, <2>2, SizesAssumption, ModSmall DEF NextSlot, Slots
<1> QED
  BY <1>1, <1>2, SizesAssumption DEF Slots

\* No step undoes a wrap, a session or a lap.
LEMMA FirstLapOnce ==
  ASSUME TypeOK, [Next]_vars
  PROVE  /\ NoWrap' => NoWrap
         /\ sessions' <= 1 => sessions <= 1
         /\ FirstLap' => FirstLap
<1>1. /\ page_index' \in Nat /\ page_index' >= page_index
      /\ sessions' \in Nat /\ sessions' >= sessions
      /\ lapped => lapped'
  <2> USE DEF TypeOK
  <2>1. CASE reset_host_interface
    BY <2>1 DEF reset_host_interface
  <2>2. CASE allocate_tx_desc \/ allocate_rx_desc
    BY <2>2, SizesAssumption DEF allocate_tx_desc, allocate_rx_desc, histVars
  <2>3. CASE init_host_tx \/ init_host_rx \/ free_tx_rx_desc
    BY <2>3 DEF init_host_tx, init_host_rx, free_tx_rx_desc, histVars
  <2>4. CASE ArmRequest
    BY <2>4 DEF ArmRequest
  <2>5. CASE FillRequest \/ allow_bus_master \/ ReadIndex \/ WriteIndex
    BY <2>5 DEF FillRequest, allow_bus_master, ReadIndex, WriteIndex, histVars
  <2>6. CASE CheckDone \/ FreeRequest
    BY <2>6 DEF CheckDone, FreeRequest, histVars
  <2>7. CASE Router \/ UNCHANGED vars
    BY <2>7 DEF Router, Fetch, Transmit, WriteBack, vars, libVars, histVars
  <2> QED
    BY <2>1, <2>2, <2>3, <2>4, <2>5, <2>6, <2>7 DEF Next, Library, InRequest, Ended
<1> QED
  BY <1>1, SizesAssumption DEF FirstLap, NoWrap, TypeOK

\* What the IOMMU yields is the page of that number, held by the library.
LEMMA Reached ==
  ASSUME IommuInv, NoWrap, NEW a \in Iovas, iommu[a] # NoPage
  PROVE  iommu[a] = a /\ a \in Held /\ a < page_index /\ pc \notin {"closed", "alloc_tx"}
<1>1. iommu[a] = a /\ a \in Held
  BY DEF IommuInv, Mappings, Identity
<1>2. a < page_index
  BY <1>1 DEF IommuInv, Mappings, TypeOK, Iovas
<1>3. pc \in {"closed", "alloc_tx"} => Held = {}
  BY DEF IommuInv, Lifecycle, ClientSteps, Held, PagesOf
<1> QED
  BY <1>1, <1>2, <1>3

\* The only descriptor of the library's the router finds is the first.
LEMMA OnlyFirst ==
  ASSUME IommuInv, Bases, PagesApart, NoWrap, reg.valid, NEW i \in Slots, NEW s, InSlot(i, s)
  PROVE  i = 0 /\ s = 0
<1>1. iommu[reg.base] # NoPage /\ reg.base \in Iovas
  BY DEF InSlot, IommuInv, TypeOK
<1>2. iommu[reg.base] = reg.base /\ pc # "closed"
  BY <1>1, Reached
<1>3. txDesc[0] # NoPage /\ reg.base = Iova(txDesc[0])
  BY <1>2 DEF Bases
<1>4. txDesc[0] \in Held
  BY <1>3, ZeroExists DEF Held, PagesOf
<1>5. Held \subseteq Iovas
  BY SizesAssumption DEF IommuInv, Mappings, NoWrap, Iovas, TypeOK
<1>6. txDesc[i] = txDesc[0]
  BY <1>2, <1>3, <1>4, <1>5, IovaSmall DEF InSlot
<1> QED
  BY <1>6, ZeroExists DEF PagesApart, InSlot

\* So it reads that descriptor, or zeros.
LEMMA DescRead ==
  ASSUME IommuInv, Bases, PagesApart, NoWrap, reg.valid, NEW s
  PROVE  DescAt(s) = ZeroDesc \/ (s = 0 /\ DescAt(s) = desc[0])
<1>1. CASE \E i \in Slots : InSlot(i, s)
  <2>1. (CHOOSE i \in Slots : InSlot(i, s)) \in Slots
        /\ InSlot(CHOOSE i \in Slots : InSlot(i, s), s)
    BY <1>1
  <2>2. (CHOOSE i \in Slots : InSlot(i, s)) = 0 /\ s = 0
    BY <2>1, OnlyFirst
  <2> QED
    BY <1>1, <2>2 DEF DescAt
<1>2. CASE ~(\E i \in Slots : InSlot(i, s))
  <2>1. DescAt(s) = ZeroDesc
    BY <1>2, Zenon DEF DescAt
  <2> QED
    BY <2>1
<1> QED
  BY <1>1, <1>2

-----------------------------------------------------------------------------
(* Steps of the library *)

\* Allocated rings are runs of new pages, and a new buffer is a new page.
LEMMA PagesApartStep ==
  IommuInv /\ Bases /\ PagesApart /\ [Next]_vars => PagesApart'
<1> SUFFICES ASSUME IommuInv, Bases, PagesApart, [Next]_vars
             PROVE  PagesApart'
  OBVIOUS
<1> USE DEF PagesApart, RequestSteps
<1>1. CASE allocate_tx_desc
  <2>1. RingPages' \cap asked = {}
    <3>1. \A i \in Slots : txDesc'[i] >= page_index
      BY <1>1 DEF allocate_tx_desc, Slots, IommuInv, TypeOK
    <3>2. PagesOf(rxDesc, RxSlots)' = {}
      BY <1>1 DEF allocate_tx_desc, IommuInv, Lifecycle, PagesOf
    <3>3. PagesOf(txDesc, Slots)' = {txDesc'[i] : i \in Slots} \ {NoPage}
      BY DEF PagesOf
    <3> QED
      BY <3>1, <3>2, <3>3 DEF RingPages, IommuInv, TypeOK
  <2>2. \A i, j \in Slots : txDesc'[i] = txDesc'[j] => i = j
    BY <1>1 DEF allocate_tx_desc, Slots, IommuInv, TypeOK
  <2>3. asked' \subseteq 0 .. page_index' - 1
    BY <1>1, SizesAssumption DEF allocate_tx_desc, histVars, IommuInv, TypeOK
  <2> QED
    BY <1>1, <2>1, <2>2, <2>3 DEF allocate_tx_desc, histVars
<1>2. CASE allocate_rx_desc
  <2>1. RingPages' \cap asked = {}
    <3>1. \A i \in RxSlots : rxDesc'[i] >= page_index
      BY <1>2 DEF allocate_rx_desc, RxSlots, IommuInv, TypeOK
    <3>2. PagesOf(txDesc, Slots)' = PagesOf(txDesc, Slots)
      BY <1>2 DEF allocate_rx_desc, PagesOf
    <3>3. PagesOf(rxDesc, RxSlots)' = {rxDesc'[i] : i \in RxSlots} \ {NoPage}
      BY DEF PagesOf
    <3> QED
      BY <3>1, <3>2, <3>3 DEF RingPages, IommuInv, TypeOK
  <2>2. asked' \subseteq 0 .. page_index' - 1
    BY <1>2, SizesAssumption DEF allocate_rx_desc, histVars, IommuInv, TypeOK
  <2> QED
    BY <1>2, <2>1, <2>2 DEF allocate_rx_desc, histVars
<1>3. CASE ArmRequest
  <2>1. RingPages' = RingPages /\ RingPages \subseteq 0 .. page_index - 1
    BY <1>3 DEF ArmRequest, RingPages, PagesOf, IommuInv, Mappings, Held
  <2>2. page_index \in Nat
    BY DEF IommuInv, TypeOK
  <2>3. page_index \notin RingPages
    BY <2>1, <2>2
  <2>4. page_index # 0
    <3>1. txDesc[0] \in RingPages
      BY <1>3, ZeroExists DEF ArmRequest, Bases, RingPages, PagesOf
    <3>2. txDesc[0] \in 0 .. page_index - 1
      BY <2>1, <3>1
    <3> QED
      BY <2>2, <3>2
  <2> QED
    BY <1>3, <2>1, <2>2, <2>3, <2>4 DEF ArmRequest
<1>4. CASE free_tx_rx_desc
  <2>1. RingPages' = {}
    BY <1>4 DEF free_tx_rx_desc, RingPages, PagesOf
  <2> QED
    BY <1>4, <2>1 DEF free_tx_rx_desc, histVars
<1>5. ASSUME UNCHANGED <<page_index, txDesc, rxDesc, asked>>,
             pc' \in RequestSteps => UNCHANGED buf /\ pc \in RequestSteps
      PROVE  PagesApart'
  <2>1. RingPages' = RingPages
    BY <1>5 DEF RingPages, PagesOf
  <2> QED
    BY <1>5, <2>1
<1>6. CASE reset_host_interface \/ init_host_tx \/ init_host_rx \/ FreeRequest
  BY <1>5, <1>6 DEF reset_host_interface, init_host_tx, init_host_rx, FreeRequest, histVars
<1>7. CASE FillRequest \/ allow_bus_master \/ ReadIndex \/ WriteIndex \/ CheckDone
  BY <1>5, <1>7
     DEF FillRequest, allow_bus_master, ReadIndex, WriteIndex, CheckDone, histVars
<1>8. CASE Router \/ UNCHANGED vars
  BY <1>5, <1>8 DEF Router, Fetch, Transmit, WriteBack, vars, libVars, histVars
<1> QED
  BY <1>1, <1>2, <1>3, <1>4, <1>6, <1>7, <1>8 DEF Next, Library, InRequest, Ended

LEMMA FilledStep == FilledInTime /\ [Next]_vars => FilledInTime'
<1> SUFFICES ASSUME FilledInTime, [Next]_vars
             PROVE  FilledInTime'
  OBVIOUS
<1> USE DEF FilledInTime, RequestSteps
<1>1. CASE reset_host_interface \/ allocate_tx_desc \/ allocate_rx_desc
  BY <1>1 DEF reset_host_interface, allocate_tx_desc, allocate_rx_desc
<1>2. CASE init_host_tx \/ init_host_rx \/ free_tx_rx_desc \/ ArmRequest
  BY <1>2 DEF init_host_tx, init_host_rx, free_tx_rx_desc, ArmRequest
<1>3. CASE FillRequest \/ allow_bus_master \/ ReadIndex
  BY <1>3 DEF FillRequest, allow_bus_master, ReadIndex
<1>4. CASE WriteIndex \/ CheckDone \/ FreeRequest
  BY <1>4 DEF WriteIndex, CheckDone, FreeRequest
<1>5. CASE Router \/ UNCHANGED vars
  BY <1>5 DEF Router, Fetch, Transmit, WriteBack, vars, libVars
<1> QED
  BY <1>1, <1>2, <1>3, <1>4, <1>5 DEF Next, Library, InRequest, Ended

\* Outside a request there is nothing to follow but what is left over.
LEMMA FollowedOutside ==
  ASSUME AddrsOld', StatusFromFirst', pc' \in ClientSteps
  PROVE  Followed'
BY DEF Followed, NotYetSeen, SeenOnce, Honest, Before, After, ClientSteps

LEMMA WireType ==
  ASSUME TypeOK
  PROVE  \A k \in DOMAIN wire : /\ wire[k] \in [page : Nat, whole : BOOLEAN]
                                /\ wire[k].page \in Nat
<1> DEFINE M == [page : Nat, whole : BOOLEAN]
<1>1. wire \in Seq(M)
  BY DEF TypeOK
<1>2. DOMAIN wire = 1 .. Len(wire)
  BY <1>1
<1>3. \A k \in 1 .. Len(wire) : wire[k] \in M
  <2> HIDE DEF M
  <2> QED
    BY <1>1
<1> QED
  BY <1>2, <1>3

\* Steps that neither move anything nor hand out a page.
LEMMA AddrsKept ==
  ASSUME TypeOK, AddrsOld, StatusFromFirst, page_index' \in Nat, page_index' >= page_index,
         UNCHANGED <<desc, wire, dev>>
  PROVE  AddrsOld' /\ StatusFromFirst'
<1>1. \A i \in Slots : desc[i].addr \in Int
  BY DEF TypeOK, Descs, Iovas
<1>2. dev.addr \in Int
  BY DEF TypeOK, Iovas
<1>3. \A k \in DOMAIN wire : wire[k].page \in Nat
  BY WireType
<1> QED
  BY <1>1, <1>2, <1>3 DEF AddrsOld, OldAddr, StatusFromFirst, TypeOK

\* A new request: its page is beyond everything the router may still hold, and
\* its descriptor is not the one the router works on.
LEMMA FollowedArm ==
  ASSUME IInv, FirstLap', FirstLap, ArmRequest
  PROVE  Followed'
<1> DEFINE n == page_index
<1>1. n \in Nat /\ n + 1 <= IOVA_PAGES
  BY SizesAssumption DEF ArmRequest, FirstLap, NoWrap, IInv, IommuInv, TypeOK
<1>2. Iova(n) = n
  BY <1>1, SizesAssumption, IovaSmall DEF Iovas
<1>3. n > 0
  <2>1. txDesc[0] \in Held
    BY ZeroExists DEF ArmRequest, IInv, Bases, Held, PagesOf
  <2>2. txDesc[0] \in 0 .. n - 1
    BY <2>1 DEF IInv, IommuInv, Mappings
  <2> QED
    BY <1>1, <2>2
<1>4. AddrsOld /\ StatusFromFirst
  BY DEF IInv, Followed
<1>5. \A i \in Slots : desc[i].addr # n /\ desc[i].addr \in Nat
  <2>1. \A i \in Slots : desc[i].addr \in Nat
    BY DEF IInv, IommuInv, TypeOK, Descs, Iovas
  <2> QED
    BY <1>1, <1>3, <1>4, <2>1 DEF AddrsOld, OldAddr
<1>6. dev.addr # n /\ dev.addr \in Nat
  BY <1>1, <1>3, <1>4 DEF AddrsOld, OldAddr, IInv, IommuInv, TypeOK, Iovas
<1>7. ~Transmitted(n)
  BY <1>1, <1>4 DEF AddrsOld, Transmitted
<1>8. tx_index \in Slots /\ desc \in [Slots -> Descs]
  BY DEF IInv, IommuInv, TypeOK
<1>9. /\ desc'[tx_index] = [addr |-> n, sts |-> TRUE, done |-> FALSE]
      /\ \A i \in Slots \ {tx_index} : desc'[i] = desc[i]
  BY <1>2, <1>8 DEF ArmRequest, ArmedDesc
<1>10. /\ pc' = "fill" /\ tx_index' = tx_index /\ buf' = n /\ page_index' = n + 1
       /\ UNCHANGED <<dev, wire>>
  BY DEF ArmRequest, devVars
<1>11. AddrsOld'
  <2>1. \A i \in Slots : OldAddr(desc[i].addr)' 
    BY <1>1, <1>4, <1>5, <1>9, <1>10 DEF AddrsOld, OldAddr
  <2>2. OldAddr(dev.addr)'
    BY <1>1, <1>4, <1>6, <1>10 DEF AddrsOld, OldAddr
  <2>3. \A k \in DOMAIN wire' : wire'[k].page < page_index'
    BY <1>1, <1>4, <1>10, WireType DEF AddrsOld, IInv, IommuInv
  <2> QED
    BY <2>1, <2>2, <2>3 DEF AddrsOld
<1>12. StatusFromFirst'
  BY <1>4, <1>10 DEF StatusFromFirst
<1>13. NotYetSeen'
  <2>1. Armed(tx_index)' /\ ~desc'[tx_index'].done
    BY <1>2, <1>5, <1>8, <1>9, <1>10 DEF Armed
  <2>2. dev'.phase # "idle" => dev'.slot # tx_index'
    BY <1>10 DEF ArmRequest, FirstLap
  <2>3. dev'.addr # Iova(buf') /\ ~Transmitted(buf)'
    BY <1>2, <1>6, <1>7, <1>10 DEF Transmitted
  <2> QED
    BY <1>10, <2>1, <2>2, <2>3 DEF NotYetSeen
<1> QED
  BY <1>10, <1>11, <1>12, <1>13 DEF Followed, SeenOnce, Honest, After

\* The producer index moves: the request's descriptor is now the one before the
\* next, and the router has not reached it.
LEMMA FollowedWrite ==
  ASSUME IInv, FirstLap, WriteIndex
  PROVE  Followed'
<1>1. TypeOK /\ AddrsOld /\ StatusFromFirst /\ NotYetSeen /\ pc = "write_index"
  BY DEF IInv, IommuInv, Followed, WriteIndex
<1>2. tx_index \in Slots /\ tx_index' = NextSlot(tx_index)
  BY <1>1 DEF TypeOK, WriteIndex
<1>3. CurrentSlot' = tx_index
  BY <1>2, SlotBefore DEF CurrentSlot
<1>4. pc' = "wait" /\ UNCHANGED <<page_index, desc, buf, dev, wire>>
  BY DEF WriteIndex, devVars
<1>5. AddrsOld' /\ StatusFromFirst'
  BY <1>1, <1>4, AddrsKept DEF TypeOK
<1>6. /\ Armed(tx_index) /\ ~desc[tx_index].done /\ ~Transmitted(buf)
      /\ dev.phase # "idle" => dev.slot # tx_index
      /\ dev.phase = "fetched" => dev.addr # Iova(buf)
  BY <1>1 DEF NotYetSeen, Before
<1>7. Armed(CurrentSlot)'
  BY <1>3, <1>4, <1>6 DEF Armed
<1>8. ~Transmitted(buf)'
  BY <1>4, <1>6 DEF Transmitted
<1>9. SeenOnce'
  BY <1>3, <1>4, <1>6, <1>7, <1>8 DEF SeenOnce, Transmitted
<1> QED
  BY <1>4, <1>5, <1>9 DEF Followed, NotYetSeen, Honest, Before

\* The other steps of the library.
LEMMA FollowedLibrary ==
  ASSUME IInv, [Next]_vars, FirstLap', FirstLap, Library \/ UNCHANGED vars
  PROVE  Followed'
<1>1. TypeOK /\ AddrsOld /\ StatusFromFirst /\ Followed
  BY DEF IInv, IommuInv, Followed
<1>2. page_index' \in Nat /\ ZeroDesc.addr = 0
  BY TypeStep DEF IInv, IommuInv, TypeOK, ZeroDesc
<1>3. CASE reset_host_interface
  <2>1. AddrsOld' /\ StatusFromFirst' /\ pc' \in ClientSteps
    BY <1>1, <1>3
       DEF reset_host_interface, AddrsOld, OldAddr, StatusFromFirst, IdleDev, ClientSteps
  <2> QED
    BY <2>1, FollowedOutside
<1>4. CASE allocate_tx_desc
  <2>1. \A i \in Slots : desc'[i].addr = 0
    BY <1>2, <1>4 DEF allocate_tx_desc
  <2>2. page_index \in Nat /\ page_index' >= page_index /\ UNCHANGED <<wire, dev>>
    BY <1>1, <1>4, SizesAssumption DEF allocate_tx_desc, devVars, TypeOK
  <2>3. dev.addr \in Int /\ \A k \in DOMAIN wire : wire[k].page \in Nat
    BY <1>1, WireType DEF TypeOK, Iovas
  <2>4. AddrsOld'
    BY <1>1, <1>2, <2>1, <2>2, <2>3 DEF AddrsOld, OldAddr
  <2>5. StatusFromFirst' /\ pc' \in ClientSteps
    BY <1>1, <1>4, <2>2 DEF allocate_tx_desc, StatusFromFirst, ClientSteps
  <2> QED
    BY <2>4, <2>5, FollowedOutside
<1>5. CASE allocate_rx_desc \/ init_host_tx \/ init_host_rx
  <2>1. page_index' >= page_index /\ UNCHANGED <<desc, wire, dev>> /\ pc' \in ClientSteps
    BY <1>1, <1>5, SizesAssumption
       DEF allocate_rx_desc, init_host_tx, init_host_rx, devVars, TypeOK, ClientSteps
  <2> QED
    BY <1>1, <1>2, <2>1, AddrsKept, FollowedOutside
<1>6. CASE FreeRequest \/ free_tx_rx_desc
  <2>1. page_index' >= page_index /\ UNCHANGED <<desc, wire, dev>> /\ pc' \in ClientSteps
    BY <1>1, <1>6 DEF FreeRequest, free_tx_rx_desc, devVars, TypeOK, ClientSteps
  <2> QED
    BY <1>1, <1>2, <2>1, AddrsKept, FollowedOutside
<1>7. CASE ArmRequest
  BY <1>7, FollowedArm
<1>8. CASE WriteIndex
  BY <1>8, FollowedWrite
<1>9. CASE FillRequest \/ allow_bus_master \/ ReadIndex
  <2>1. /\ UNCHANGED <<page_index, tx_index, desc, wire, dev, buf, reg>>
        /\ pc \in Before /\ pc' \in Before
        /\ pc' = "write_index" => idx'.prod = reg.prod
    BY <1>9 DEF FillRequest, allow_bus_master, ReadIndex, hostVars, devVars, Before
  <2>2. AddrsOld' /\ StatusFromFirst'
    BY <1>1, <1>2, <2>1, AddrsKept DEF TypeOK
  <2>3. NotYetSeen'
    BY <1>1, <2>1 DEF Followed, NotYetSeen, Armed, Transmitted
  <2> QED
    BY <2>1, <2>2, <2>3 DEF Followed, SeenOnce, Honest, Before, After
<1>10. CASE CheckDone
  <2>1. /\ UNCHANGED <<page_index, tx_index, desc, wire, dev, buf, reg>>
        /\ pc \in After /\ pc' \in After
        /\ ret' = 0 => desc[CurrentSlot].done
    BY <1>10 DEF CheckDone, hostVars, devVars, After
  <2>2. AddrsOld' /\ StatusFromFirst'
    BY <1>1, <1>2, <2>1, AddrsKept DEF TypeOK
  <2>3. SeenOnce'
    BY <1>1, <2>1 DEF Followed, SeenOnce, Armed, Transmitted, CurrentSlot
  <2>4. Honest'
    BY <1>1, <2>1 DEF Followed, SeenOnce, Honest, Transmitted
  <2> QED
    BY <2>1, <2>2, <2>3, <2>4 DEF Followed, NotYetSeen, Before, After
<1>11. CASE UNCHANGED vars
  BY <1>1, <1>11
     DEF vars, libVars, hostVars, devVars, Followed, AddrsOld, OldAddr, StatusFromFirst,
         NotYetSeen, SeenOnce, Honest, Armed, Transmitted, CurrentSlot
<1> QED
  BY <1>3, <1>4, <1>5, <1>6, <1>7, <1>8, <1>9, <1>10, <1>11 DEF Library, InRequest

-----------------------------------------------------------------------------
(* Steps of the router *)

\* The address of the request's buffer is not that of a zero descriptor.
LEMMA BufferAddr ==
  ASSUME IInv, NoWrap, pc \in RequestSteps
  PROVE  Iova(buf) = buf /\ buf # 0 /\ buf # NoPage
<1>1. buf \in asked /\ buf < page_index /\ buf \in Nat /\ page_index <= IOVA_PAGES
  BY DEF IInv, PagesApart, IommuInv, TypeOK, NoWrap
<1>2. buf \in Iovas
  BY <1>1, SizesAssumption DEF Iovas, IInv, IommuInv, TypeOK
<1> QED
  BY <1>1, <1>2, IovaSmall DEF IInv, PagesApart, NoPage

\* What the indices say while a request is under way.
LEMMA Indices ==
  ASSUME IInv, FirstLap
  PROVE  /\ pc \in Before => tx_index = reg.prod
         /\ pc \in After => reg.prod = tx_index /\ NextSlot(CurrentSlot) = reg.prod
         /\ CurrentSlot \in Slots /\ tx_index \in Slots
<1>1. sessions \in {0, 1} /\ tx_index \in Slots
  BY DEF FirstLap, IInv, IommuInv, TypeOK
<1>2. pc # "closed" => sessions = 1
  BY <1>1 DEF IInv, IndexInv
<1>3. pc \in Before => tx_index = reg.prod
  BY <1>2 DEF IInv, IndexInv, Followed, NotYetSeen, Before
<1>4. pc \in After => tx_index = reg.prod
  BY <1>2 DEF IInv, IndexInv, After
<1> QED
  BY <1>1, <1>3, <1>4, SlotAfter, CurrentSlotType

\* The consumer index moves on by one, and nothing else of the register does.
LEMMA Consumed ==
  ASSUME IInv, reg.valid, NEW s \in Slots, Consume(s)
  PROVE  reg'.cons = NextSlot(s) /\ reg'.prod = reg.prod
BY DEF IInv, IommuInv, TypeOK, SizeKnown, Consume, NextSlot

\* An access that fails leaves the router idle, and the request untransmitted.
LEMMA FollowedDrop ==
  ASSUME IInv, FirstLap, reg.valid, NEW s \in Slots, Drop, Consume(s),
         UNCHANGED <<libVars, histVars>>,
         dev.phase = "fetched" \/ (dev.phase = "idle" /\ reg.prod # reg.cons)
  PROVE  Followed'
<1>1. AddrsOld /\ StatusFromFirst /\ NotYetSeen /\ SeenOnce /\ Honest
  BY DEF IInv, Followed
<1>2. /\ UNCHANGED <<pc, page_index, tx_index, desc, buf, idx, ret, wire>>
      /\ dev' = IdleDev /\ reg'.prod = reg.prod
  BY Consumed DEF Drop, libVars
<1>3. dev'.phase = "idle" /\ dev'.addr = 0
  BY <1>2 DEF IdleDev
<1>4. AddrsOld' /\ StatusFromFirst'
  BY <1>1, <1>2, <1>3 DEF AddrsOld, OldAddr, StatusFromFirst
<1>5. NotYetSeen'
  BY <1>1, <1>2, <1>3 DEF NotYetSeen, Armed, Transmitted
<1>6. pc \in After => ~Transmitted(buf)
  BY <1>1 DEF SeenOnce
<1>7. SeenOnce'
  BY <1>1, <1>2, <1>3, <1>6 DEF SeenOnce, Armed, Transmitted, CurrentSlot
<1>8. Honest'
  BY <1>1, <1>2 DEF Honest, Transmitted
<1> QED
  BY <1>4, <1>5, <1>7, <1>8 DEF Followed

\* The router takes a descriptor: the request's own only in its slot, and only
\* when the request has not been transmitted yet.
LEMMA FollowedFetch ==
  ASSUME IInv, FirstLap, Fetch, iommu[reg.base] # NoPage
  PROVE  Followed'
<1> DEFINE s == reg.cons
           d == DescAt(s)
<1>1. AddrsOld /\ StatusFromFirst /\ NotYetSeen /\ SeenOnce /\ Honest
  BY DEF IInv, Followed
<1>2. /\ UNCHANGED <<pc, page_index, tx_index, desc, buf, idx, ret, wire, reg>>
      /\ dev' = [phase |-> "fetched", slot |-> s, addr |-> d.addr, sts |-> d.sts]
      /\ dev.phase = "idle" /\ reg.valid /\ reg.prod # s
  BY DEF Fetch, libVars
<1>3. d = ZeroDesc \/ (s = 0 /\ d = desc[0])
  BY <1>2, DescRead DEF IInv, FirstLap
<1>4. /\ dev'.phase = "fetched" /\ dev'.slot = s
      /\ dev'.addr = d.addr /\ dev'.sts = d.sts
  BY <1>2
<1>5. AddrsOld'
  <2>1. OldAddr(d.addr)
    BY <1>1, <1>3, ZeroExists DEF AddrsOld, OldAddr, ZeroDesc
  <2> QED
    BY <1>1, <1>2, <1>4, <2>1 DEF AddrsOld, OldAddr
<1>6. StatusFromFirst'
  <2>1. d.sts => s = 0
    BY <1>3 DEF ZeroDesc
  <2> QED
    BY <1>4, <2>1 DEF StatusFromFirst
<1>7. NotYetSeen'
  <2> SUFFICES ASSUME pc \in Before PROVE NotYetSeen'
    BY <1>2 DEF NotYetSeen
  <2>1. s # tx_index
    BY <1>2, Indices
  <2>2. d.addr # Iova(buf)
    <3>1. Iova(buf) # 0
      BY BufferAddr DEF FirstLap, Before, RequestSteps
    <3>2. s = 0 => desc[0].addr # Iova(buf)
      BY <1>1, <2>1, ZeroExists DEF NotYetSeen, Armed
    <3> QED
      BY <1>3, <3>1, <3>2 DEF ZeroDesc
  <2> QED
    BY <1>1, <1>2, <1>4, <2>1, <2>2 DEF NotYetSeen, Armed, Transmitted
<1>8. SeenOnce'
  <2> SUFFICES ASSUME pc \in After PROVE SeenOnce'
    BY <1>2 DEF SeenOnce
  <2>1. ~Transmitted(buf) /\ Armed(CurrentSlot) /\ ~desc[CurrentSlot].done
    BY <1>1, <1>2 DEF SeenOnce
  <2>2. d.addr = Iova(buf) => s = CurrentSlot
    <3>1. Iova(buf) # 0
      BY BufferAddr DEF FirstLap, After, RequestSteps
    <3>2. desc[0].addr = Iova(buf) => CurrentSlot = 0
      BY <2>1, ZeroExists DEF Armed
    <3> QED
      BY <1>3, <3>1, <3>2 DEF ZeroDesc
  <2>3. s = CurrentSlot /\ d.sts => d.addr = Iova(buf)
    BY <1>3, <2>1 DEF Armed, ZeroDesc
  <2> QED
    BY <1>2, <1>4, <2>1, <2>2, <2>3 DEF SeenOnce, Armed, Transmitted, CurrentSlot
<1>9. Honest'
  BY <1>1, <1>2 DEF Honest, Transmitted
<1> QED
  BY <1>5, <1>6, <1>7, <1>8, <1>9 DEF Followed

\* The router sends a page it can reach.  The request's own is whole by now.
LEMMA FollowedTransmit ==
  ASSUME IInv, FirstLap, Transmit, iommu[dev.addr] # NoPage
  PROVE  Followed'
<1> DEFINE p == iommu[dev.addr]
           m == [page |-> p, whole |-> (p = buf => filled)]
<1>1. AddrsOld /\ StatusFromFirst /\ NotYetSeen /\ SeenOnce /\ Honest
  BY DEF IInv, Followed
<1>2. /\ UNCHANGED <<pc, page_index, tx_index, desc, buf, idx, ret, filled, reg>>
      /\ wire' = Append(wire, m) /\ dev' = [dev EXCEPT !.phase = "sent"]
      /\ dev.phase = "fetched"
  BY DEF Transmit, Drop, libVars
<1>3. /\ dev'.phase = "sent" /\ dev'.slot = dev.slot
      /\ dev'.addr = dev.addr /\ dev'.sts = dev.sts
  BY <1>2 DEF IInv, IommuInv, TypeOK
<1>4. p = dev.addr /\ p < page_index
  BY Reached DEF IInv, IommuInv, TypeOK, FirstLap
<1>5. /\ DOMAIN wire' = 1 .. Len(wire) + 1 /\ DOMAIN wire = 1 .. Len(wire)
      /\ wire'[Len(wire) + 1] = m
      /\ \A k \in DOMAIN wire : wire'[k] = wire[k]
      /\ Len(wire) \in Nat
  BY <1>2 DEF IInv, IommuInv, TypeOK
<1>6. \A k \in DOMAIN wire' : k \in DOMAIN wire \/ k = Len(wire) + 1
  BY <1>5
<1>7. \A q : Transmitted(q)' <=> Transmitted(q) \/ q = p
  BY <1>5, <1>6 DEF Transmitted
<1>8. AddrsOld'
  BY <1>1, <1>2, <1>3, <1>4, <1>5, <1>6 DEF AddrsOld, OldAddr
<1>9. StatusFromFirst'
  BY <1>1, <1>2, <1>3 DEF StatusFromFirst
<1>10. Transmitted(buf)' <=> Transmitted(buf) \/ buf = p
  BY <1>2, <1>7
<1>11. NotYetSeen'
  <2> SUFFICES ASSUME pc \in Before PROVE NotYetSeen'
    BY <1>2 DEF NotYetSeen
  <2>1. p # buf /\ ~Transmitted(buf)
    BY <1>1, <1>2, <1>4, BufferAddr DEF NotYetSeen, FirstLap, Before, RequestSteps
  <2> QED
    BY <1>1, <1>2, <1>3, <1>10, <2>1 DEF NotYetSeen, Armed
<1>12. SeenOnce'
  <2> SUFFICES ASSUME pc \in After PROVE SeenOnce'
    BY <1>2 DEF SeenOnce
  <2>1. ~Transmitted(buf) /\ Armed(CurrentSlot) /\ ~desc[CurrentSlot].done
    BY <1>1, <1>2 DEF SeenOnce
  <2>2. filled /\ Iova(buf) = buf
    BY BufferAddr DEF FirstLap, After, RequestSteps, IInv, FilledInTime
  <2>3. p = buf => dev.slot = CurrentSlot
    BY <1>1, <1>2, <1>4, <2>2 DEF SeenOnce
  <2>4. dev.slot = CurrentSlot /\ dev.sts => p = buf
    BY <1>1, <1>2, <1>4, <2>2 DEF SeenOnce
  <2>5. \A k \in DOMAIN wire' : wire'[k].page = buf => wire'[k].whole
    <3>1. m.page = p /\ (m.page = buf => m.whole)
      BY <2>2
    <3>2. \A k \in DOMAIN wire : wire[k].page # buf
      BY <2>1 DEF Transmitted
    <3> QED
      BY <1>5, <1>6, <3>1, <3>2
  <2>6. CurrentSlot' = CurrentSlot /\ Armed(CurrentSlot)'
    BY <1>2, <2>1 DEF CurrentSlot, Armed
  <2> QED
    BY <1>2, <1>3, <1>10, <2>1, <2>3, <2>4, <2>5, <2>6 DEF SeenOnce
<1>13. Honest'
  BY <1>1, <1>2, <1>10 DEF Honest
<1> QED
  BY <1>8, <1>9, <1>11, <1>12, <1>13 DEF Followed

\* The router reports a descriptor and moves on: the request's own only after it
\* has been transmitted.
LEMMA FollowedWriteBack ==
  ASSUME IInv, FirstLap, WriteBack
  PROVE  Followed'
<1>1. AddrsOld /\ StatusFromFirst /\ NotYetSeen /\ SeenOnce /\ Honest
  BY DEF IInv, Followed
<1>2. /\ UNCHANGED <<pc, page_index, tx_index, buf, idx, ret, wire>>
      /\ dev' = IdleDev /\ dev.phase = "sent" /\ reg.valid /\ dev.slot \in Slots
  BY DEF WriteBack, IInv, IommuInv, SizeKnown, TypeOK
<1>3. dev'.phase = "idle" /\ dev'.addr = 0
  BY <1>2 DEF IdleDev
<1>4. reg'.cons = NextSlot(dev.slot) /\ reg'.prod = reg.prod
  BY <1>2, Consumed DEF WriteBack
<1>5. ASSUME NEW i \in Slots
      PROVE  /\ desc'[i].addr = desc[i].addr /\ desc'[i].sts = desc[i].sts
             /\ desc'[i].done => desc[i].done \/ (dev.sts /\ dev.slot = i)
  <2>1. desc[i] \in Descs
    BY DEF IInv, IommuInv, TypeOK
  <2>2. InSlot(i, dev.slot) => dev.slot = i
    BY <1>2, OnlyFirst DEF IInv, FirstLap
  <2> QED
    BY <2>1, <2>2 DEF WriteBack, Descs
<1>6. AddrsOld' /\ StatusFromFirst'
  BY <1>1, <1>2, <1>3, <1>5 DEF AddrsOld, OldAddr, StatusFromFirst
<1>7. ASSUME NEW k \in Slots, Armed(k)
      PROVE  Armed(k)'
  BY <1>2, <1>5, <1>7 DEF Armed
<1>8. NotYetSeen'
  <2> SUFFICES ASSUME pc \in Before PROVE NotYetSeen'
    BY <1>2 DEF NotYetSeen
  <2>1. tx_index \in Slots /\ dev.slot # tx_index
    BY <1>1, <1>2, Indices DEF NotYetSeen
  <2>2. Armed(tx_index)'
    BY <1>1, <1>2, <1>5, <2>1 DEF NotYetSeen, Armed
  <2> QED
    BY <1>1, <1>2, <1>3, <1>4, <1>5, <2>1, <2>2 DEF NotYetSeen, Transmitted
<1>9. SeenOnce'
  <2> SUFFICES ASSUME pc \in After PROVE SeenOnce'
    BY <1>2 DEF SeenOnce
  <2>1. /\ CurrentSlot \in Slots /\ CurrentSlot' = CurrentSlot
        /\ NextSlot(CurrentSlot) = reg.prod
    BY <1>2, Indices DEF CurrentSlot
  <2>2. Armed(CurrentSlot)'
    BY <1>1, <1>2, <1>5, <2>1 DEF SeenOnce, Armed
  <2>3. Transmitted(buf) => reg'.cons = reg'.prod
    BY <1>1, <1>2, <1>4, <2>1 DEF SeenOnce
  <2>4. desc'[CurrentSlot].done => Transmitted(buf)
    BY <1>1, <1>2, <1>5, <2>1 DEF SeenOnce
  <2>5. Transmitted(buf)' <=> Transmitted(buf)
    BY <1>2 DEF Transmitted
  <2> QED
    BY <1>1, <1>2, <1>3, <2>1, <2>2, <2>3, <2>4, <2>5 DEF SeenOnce
<1>10. Honest'
  BY <1>1, <1>2 DEF Honest, Transmitted
<1> QED
  BY <1>6, <1>8, <1>9, <1>10 DEF Followed

LEMMA IInvInit == Init => IInv
<1> SUFFICES ASSUME Init PROVE IInv
  OBVIOUS
<1>1. IommuInv /\ IndexInv /\ Bases
  BY IommuInit DEF Init, IndexInv, Bases, ResetRegs, ResetRxRegs
<1>2. PagesApart /\ FilledInTime
  BY DEF Init, PagesApart, FilledInTime, RequestSteps
<1>3. Followed
  BY DEF Init, Followed, AddrsOld, OldAddr, ZeroDesc, IdleDev, StatusFromFirst,
         NotYetSeen, SeenOnce, Honest, Before, After
<1> QED
  BY <1>1, <1>2, <1>3 DEF IInv

LEMMA IInvStep == IInv /\ [Next]_vars => IInv'
<1> SUFFICES ASSUME IInv, [Next]_vars PROVE IInv'
  OBVIOUS
<1>1. IommuInv' /\ IndexInv' /\ Bases' /\ PagesApart' /\ FilledInTime'
  BY IommuStep, IndexStep, BasesStep, PagesApartStep, FilledStep DEF IInv, IommuInv
<1>2. ASSUME FirstLap' PROVE Followed'
  <2>1. FirstLap
    BY <1>2, FirstLapOnce DEF IInv, IommuInv
  <2>2. CASE Fetch
    <3>1. CASE iommu[reg.base] # NoPage
      BY <2>1, <2>2, <3>1, FollowedFetch
    <3>2. CASE iommu[reg.base] = NoPage
      <4>1. /\ Drop /\ Consume(reg.cons) /\ UNCHANGED <<libVars, histVars>>
            /\ reg.valid /\ dev.phase = "idle" /\ reg.prod # reg.cons
        BY <2>2, <3>2 DEF Fetch
      <4>2. reg.cons \in Slots
        BY DEF IInv, IommuInv, TypeOK
      <4> QED
        BY <2>1, <4>1, <4>2, FollowedDrop
    <3> QED
      BY <3>1, <3>2
  <2>3. CASE Transmit
    <3>1. CASE iommu[dev.addr] # NoPage
      BY <2>1, <2>3, <3>1, FollowedTransmit
    <3>2. CASE iommu[dev.addr] = NoPage
      <4>1. /\ Drop /\ Consume(dev.slot) /\ UNCHANGED <<libVars, histVars>>
            /\ dev.phase = "fetched"
        BY <2>3, <3>2 DEF Transmit
      <4>2. dev.slot \in Slots /\ reg.valid
        BY <4>1 DEF IInv, IommuInv, TypeOK, SizeKnown
      <4> QED
        BY <2>1, <4>1, <4>2, FollowedDrop
    <3> QED
      BY <3>1, <3>2
  <2>4. CASE WriteBack
    BY <2>1, <2>4, FollowedWriteBack
  <2>5. CASE Library \/ UNCHANGED vars
    BY <1>2, <2>1, <2>5, FollowedLibrary
  <2> QED
    BY <2>2, <2>3, <2>4, <2>5 DEF Next, Router, Ended
<1> QED
  BY <1>1, <1>2 DEF IInv

\* In the first session, until page_index wraps, "posted" means that the request
\* of this very call has gone on the wire, whole, for every ring size and
\* whatever a late router is still working on, short of a lap.
THEOREM SuccessStaysGenuine == Spec => [](FirstLap => SuccessIsGenuine)
<1>1. IInv => (FirstLap => SuccessIsGenuine)
  <2> SUFFICES ASSUME IInv, FirstLap, pc = "free", ret = 0
               PROVE  \E k \in DOMAIN wire : wire[k] = [page |-> buf, whole |-> TRUE]
    BY DEF SuccessIsGenuine
  <2>1. PICK k \in DOMAIN wire : wire[k].page = buf
    BY DEF IInv, Followed, Honest, Transmitted
  <2>2. wire[k].whole
    BY <2>1 DEF IInv, Followed, SeenOnce, After
  <2>3. wire[k] \in [page : Nat, whole : BOOLEAN]
    BY <2>1, WireType DEF IInv, IommuInv
  <2> QED
    BY <2>1, <2>2, <2>3
<1> QED
  BY <1>1, IInvInit, IInvStep, PTL DEF Spec

-----------------------------------------------------------------------------
(* The ring implements RequestChannel, but for the promise to return *)

\* What the channel sees of the ring.
current == IF filled THEN buf ELSE NoPage
answer  == CASE pc = "free" /\ ret = 0 -> "posted"
             [] pc = "free" /\ ret # 0 -> "failed"
             [] OTHER -> "none"

LEMMA Answers ==
  /\ pc # "free" => answer = "none"
  /\ pc = "free" /\ ret = 0 => answer = "posted"
  /\ pc = "free" /\ ret # 0 => answer = "failed"
BY DEF answer

LEMMA SentIs ==
  ASSUME TypeOK
  PROVE  /\ Sent \in Seq(Nat) /\ Len(Sent) = Len(wire) /\ DOMAIN Sent = DOMAIN wire
         /\ \A k \in DOMAIN wire : Sent[k] = wire[k].page
<1>1. DOMAIN wire = 1 .. Len(wire) /\ Len(wire) \in Nat
  BY DEF TypeOK
<1> QED
  BY <1>1, WireType DEF Sent

\* A transmission appends a page to what the channel sees.
LEMMA SentGrows ==
  ASSUME TypeOK, NEW p \in Nat, NEW w, wire' = Append(wire, [page |-> p, whole |-> w])
  PROVE  Sent' = Append(Sent, p)
<1> DEFINE n == Len(wire)
           m == [page |-> p, whole |-> w]
<1>1. n \in Nat /\ DOMAIN wire = 1 .. n
  BY DEF TypeOK
<1>2. /\ DOMAIN wire' = 1 .. n + 1 /\ wire'[n + 1] = m
      /\ \A k \in 1 .. n : wire'[k] = wire[k]
  BY DEF TypeOK
<1>3. /\ Sent' \in Seq(Nat) /\ Len(Sent') = n + 1 /\ Sent'[n + 1] = p
      /\ \A k \in 1 .. n : Sent'[k] = wire[k].page
  <2>1. Sent' = [k \in 1 .. n + 1 |-> wire'[k].page]
    BY <1>2 DEF Sent
  <2>2. \A k \in 1 .. n + 1 : k = n + 1 \/ k \in 1 .. n
    BY <1>1
  <2>3. \A k \in 1 .. n + 1 : wire'[k].page \in Nat
    BY <1>1, <1>2, <2>2, WireType
  <2> QED
    BY <1>1, <1>2, <2>1, <2>3
<1>4. Sent \in Seq(Nat) /\ Len(Sent) = n /\ \A k \in 1 .. n : Sent[k] = wire[k].page
  BY <1>1, SentIs
<1>5. /\ Append(Sent, p) \in Seq(Nat) /\ Len(Append(Sent, p)) = n + 1
      /\ Append(Sent, p)[n + 1] = p
      /\ \A k \in 1 .. n : Append(Sent, p)[k] = wire[k].page
  BY <1>1, <1>4
<1>6. \A k \in 1 .. n + 1 : Sent'[k] = Append(Sent, p)[k]
  <2>1. \A k \in 1 .. n + 1 : k = n + 1 \/ k \in 1 .. n
    BY <1>1
  <2> QED
    BY <1>3, <1>5, <2>1
<1> QED
  BY <1>3, <1>5, <1>6, SeqEqual

\* Outside a request all requests have been made and none is in progress.
LEMMA MadeOutside ==
  ASSUME IommuInv, PagesApart, pc \in ClientSteps
  PROVE  Made = asked /\ current = NoPage /\ answer = "none"
<1>1. buf = NoPage /\ NoPage \notin asked
  BY DEF IommuInv, Lifecycle, PagesApart, NoPage
<1>2. pc # "free"
  BY DEF ClientSteps
<1> QED
  BY <1>1, <1>2, Answers DEF Made, current

LEMMA ChannelOutside ==
  ASSUME IInv, IInv', pc \in ClientSteps, pc' \in ClientSteps, UNCHANGED <<asked, wire>>
  PROVE  UNCHANGED <<current, Made, Sent, answer>>
<1>1. Made = asked /\ current = NoPage /\ answer = "none"
  BY MadeOutside DEF IInv
<1>2. Made' = asked' /\ current' = NoPage /\ answer' = "none"
  <2>1. buf' = NoPage /\ NoPage \notin asked'
    BY DEF IInv, IommuInv, Lifecycle, PagesApart, NoPage
  <2>2. pc' # "free"
    BY DEF ClientSteps
  <2> QED
    BY <2>1, <2>2 DEF Made, current, answer
<1>3. Sent' = Sent
  BY DEF Sent
<1> QED
  BY <1>1, <1>2, <1>3

\* Steps the channel does not see.
LEMMA ChannelStutter ==
  ASSUME UNCHANGED <<buf, filled, asked, wire, ret>>,
         pc' = pc \/ (pc # "free" /\ pc' # "free")
  PROVE  UNCHANGED <<current, Made, Sent, answer>>
BY Answers DEF current, Made, Sent, answer

LEMMA OnWireIs ==
  ASSUME TypeOK, NEW p
  PROVE  Channel!OnWire(p) <=> Transmitted(p)
BY SentIs DEF Channel!OnWire, Transmitted

\* Every step of the library and of the router is a step of the channel.
LEMMA ChannelStep ==
  ASSUME IInv, IInv', [Next]_vars, FirstLap, FirstLap'
  PROVE  [Channel!Next]_(Channel!vars)
<1> DEFINE Still == UNCHANGED <<current, Made, Sent, answer>>
<1> SUFFICES Still \/ Channel!Next
  BY DEF Channel!vars, current, answer
<1>1. TypeOK /\ Followed /\ PagesApart /\ FilledInTime /\ IommuInv
  BY DEF IInv, IommuInv
<1>2. CASE reset_host_interface \/ allocate_tx_desc \/ allocate_rx_desc \/ init_host_tx
           \/ init_host_rx \/ free_tx_rx_desc
  <2>1. pc \in ClientSteps /\ pc' \in ClientSteps /\ UNCHANGED <<asked, wire>>
    BY <1>2 DEF reset_host_interface, allocate_tx_desc, allocate_rx_desc, init_host_tx,
                init_host_rx, free_tx_rx_desc, devVars, histVars, ClientSteps
  <2> QED
    BY <2>1, ChannelOutside
<1>3. CASE ArmRequest
  <2>1. Made = asked /\ current = NoPage /\ answer = "none"
    BY <1>1, <1>3, MadeOutside DEF ArmRequest, ClientSteps
  <2>2. page_index \notin asked
    BY <1>1 DEF PagesApart, TypeOK
  <2>3. Made' = asked /\ current' = NoPage
    BY <1>3, <2>2 DEF ArmRequest, Made, current
  <2>4. answer' = "none" /\ Sent' = Sent
    BY <1>3, Answers DEF ArmRequest, answer, Sent, devVars
  <2> QED
    BY <2>1, <2>3, <2>4
<1>4. CASE FillRequest
  <2>1. ~filled /\ buf \in asked /\ asked \subseteq Nat /\ buf # NoPage
    BY <1>1, <1>4
       DEF FillRequest, FilledInTime, PagesApart, RequestSteps, TypeOK, NoPage
  <2>2. current = NoPage /\ current' = buf /\ Made = asked \ {buf} /\ Made' = asked
    BY <1>4, <2>1 DEF FillRequest, current, Made, histVars
  <2>3. ~Transmitted(buf)
    BY <1>1, <1>4 DEF FillRequest, Followed, NotYetSeen, Before
  <2>4. ~Channel!OnWire(buf)
    BY <1>1, <2>3, OnWireIs
  <2>5. answer' = answer /\ Sent' = Sent
    BY <1>4 DEF FillRequest, answer, Sent, devVars
  <2>6. Channel!Ask
    BY <2>1, <2>2, <2>4, <2>5 DEF Channel!Ask, current, answer
  <2> QED
    BY <2>6 DEF Channel!Next
<1>5. CASE allow_bus_master \/ ReadIndex \/ WriteIndex
  <2>1. /\ UNCHANGED <<buf, filled, asked, wire, ret>>
        /\ pc # "free" /\ pc' # "free"
    BY <1>5 DEF allow_bus_master, ReadIndex, WriteIndex, devVars, histVars
  <2> QED
    BY <2>1, ChannelStutter
<1>6. CASE CheckDone
  <2>1. /\ UNCHANGED <<buf, filled, asked, wire>> /\ pc = "wait" /\ pc' = "free"
        /\ ret' = IF desc[CurrentSlot].done THEN 0 ELSE 1
    BY <1>6 DEF CheckDone, devVars, histVars
  <2>2. current = buf /\ buf # NoPage /\ UNCHANGED <<current, Made, Sent>>
    BY <1>1, <2>1
       DEF current, Made, Sent, FilledInTime, RequestSteps, IommuInv, Lifecycle
  <2>3. ret' = 0 => Channel!OnWire(buf)
    BY <1>1, <2>1, OnWireIs DEF Followed, SeenOnce, After
  <2>4. answer = "none"
    BY <2>1, Answers
  <2>5. answer' = "failed" \/ (ret' = 0 /\ answer' = "posted")
    BY <2>1 DEF answer
  <2>6. Channel!Decide
    BY <2>2, <2>3, <2>4, <2>5 DEF Channel!Decide, current, answer
  <2> QED
    BY <2>6 DEF Channel!Next
<1>7. CASE FreeRequest
  <2>1. /\ UNCHANGED <<filled, asked, wire>> /\ pc = "free" /\ pc' = "idle"
        /\ buf' = NoPage /\ filled
    BY <1>1, <1>7 DEF FreeRequest, devVars, histVars, FilledInTime, RequestSteps
  <2>2. current' = NoPage /\ Made' = Made /\ Sent' = Sent /\ answer' = "none"
    BY <2>1 DEF current, Made, Sent, answer
  <2>3. answer # "none"
    BY <2>1, Answers
  <2>4. Channel!Return
    BY <2>2, <2>3 DEF Channel!Return, current, answer
  <2> QED
    BY <2>4 DEF Channel!Next
<1>8. CASE Transmit /\ iommu[dev.addr] # NoPage
  <2> DEFINE p == iommu[dev.addr]
  <2>1. /\ UNCHANGED <<pc, buf, filled, asked, ret>> /\ dev.phase = "fetched"
        /\ wire' = Append(wire, [page |-> p, whole |-> (p = buf => filled)])
    BY <1>8 DEF Transmit, Drop, libVars, histVars
  <2>2. p = dev.addr /\ p \in Held /\ p \in Nat
    BY <1>1, <1>8, Reached DEF FirstLap, TypeOK, Iovas
  <2>3. Sent' = Append(Sent, p)
    BY <1>1, <2>1, <2>2, SentGrows
  <2>4. UNCHANGED <<current, Made, answer>>
    BY <2>1 DEF current, Made, answer
  <2>5. CASE p \in Made
    <3>1. p \in asked
      BY <2>5 DEF Made
    <3>2. p = buf /\ p # NoPage
      BY <1>1, <2>2, <3>1 DEF Held, RingPages, PagesApart
    <3>3. pc \in RequestSteps
      BY <1>1, <3>2 DEF IommuInv, Lifecycle, TypeOK
    <3>4. dev.addr = Iova(buf)
      BY <2>2, <3>2, <3>3, BufferAddr DEF FirstLap
    <3>5. pc \in After
      BY <1>1, <2>1, <3>3, <3>4 DEF Followed, NotYetSeen, Before, After, RequestSteps
    <3>6. ~Transmitted(buf) /\ filled
      BY <1>1, <2>1, <3>3, <3>4, <3>5
         DEF Followed, SeenOnce, FilledInTime, After, RequestSteps
    <3>7. ~Channel!OnWire(buf) /\ current = buf
      BY <1>1, <3>6, OnWireIs DEF current
    <3>8. Channel!Send
      BY <2>3, <2>4, <3>2, <3>7 DEF Channel!Send, current, answer
    <3> QED
      BY <3>8 DEF Channel!Next
  <2>6. CASE p \notin Made
    <3>1. Sent' # <<>> /\ Sent'[Len(Sent')] = p
      BY <1>1, <2>2, <2>3, SentIs
    <3>2. Channel!Stray
      BY <2>2, <2>3, <2>4, <2>6, <3>1 DEF Channel!Stray, current, answer
    <3> QED
      BY <3>2 DEF Channel!Next
  <2> QED
    BY <2>5, <2>6
<1>9. CASE Fetch \/ WriteBack \/ (Transmit /\ iommu[dev.addr] = NoPage)
  <2>1. UNCHANGED <<buf, filled, asked, wire, ret, pc>>
    BY <1>9 DEF Fetch, WriteBack, Transmit, Drop, libVars, histVars
  <2> QED
    BY <2>1, ChannelStutter
<1>10. CASE UNCHANGED vars
  BY <1>10, ChannelStutter DEF vars, libVars, devVars, histVars
<1> QED
  BY <1>2, <1>3, <1>4, <1>5, <1>6, <1>7, <1>8, <1>9, <1>10
     DEF Next, Library, InRequest, Router, Ended

\* The pages handed out for the rings in the first session.
Handed == IF sessions = 0 \/ pc = "alloc_tx" THEN 0
          ELSE IF pc = "alloc_rx" THEN TX_SIZE
          ELSE TX_SIZE + RX_SIZE

\* Every page belongs to a ring or to a request.
Budget ==
  /\ sessions <= MaxSessions
  /\ IsFiniteSet(asked) /\ Cardinality(asked) <= MaxRequests
  /\ sessions <= 1 => page_index <= Handed + Cardinality(asked)

LEMMA BudgetInit == Init => Budget
BY BoundsAssumption, FS_EmptySet DEF Init, Budget, Handed

LEMMA BudgetStep == IInv /\ IInv' /\ Budget /\ [Next]_vars => Budget'
<1> SUFFICES ASSUME IInv, IInv', Budget, [Next]_vars PROVE Budget'
  OBVIOUS
<1>1. /\ page_index \in Nat /\ sessions \in Nat /\ Cardinality(asked) \in Nat
      /\ sessions = 0 => pc = "closed"
  BY FS_CardinalityType DEF IInv, IommuInv, TypeOK, IndexInv, Budget
<1> USE SizesAssumption, BoundsAssumption DEF Budget, Handed
<1>2. CASE reset_host_interface
  BY <1>1, <1>2 DEF reset_host_interface
<1>3. CASE allocate_tx_desc \/ allocate_rx_desc
  BY <1>1, <1>3 DEF allocate_tx_desc, allocate_rx_desc, histVars
<1>4. CASE init_host_tx \/ init_host_rx \/ free_tx_rx_desc
  BY <1>1, <1>4 DEF init_host_tx, init_host_rx, free_tx_rx_desc, histVars
<1>5. CASE ArmRequest
  <2>1. page_index \notin asked
    BY <1>1 DEF IInv, PagesApart
  <2>2. IsFiniteSet(asked') /\ Cardinality(asked') = Cardinality(asked) + 1
    BY <1>5, <2>1, FS_AddElement DEF ArmRequest
  <2> QED
    BY <1>1, <1>5, <2>2 DEF ArmRequest
<1>6. CASE FillRequest \/ allow_bus_master \/ ReadIndex
  BY <1>1, <1>6 DEF FillRequest, allow_bus_master, ReadIndex, histVars
<1>7. CASE WriteIndex \/ CheckDone \/ FreeRequest
  BY <1>1, <1>7 DEF WriteIndex, CheckDone, FreeRequest, histVars
<1>8. CASE Router \/ UNCHANGED vars
  <2>1. UNCHANGED <<pc, page_index, asked, sessions>>
    BY <1>8 DEF Router, Fetch, Transmit, WriteBack, vars, libVars, histVars
  <2> QED
    BY <2>1
<1> QED
  BY <1>2, <1>3, <1>4, <1>5, <1>6, <1>7, <1>8 DEF Next, Library, InRequest, Ended

\* One session in which no page number wraps implements RequestChannel, for every
\* ring size and a router that may be late by any amount short of a lap: of all
\* requests only that of the call in progress is transmitted, whole and at most
\* once, and "posted" is answered only when it has been.
THEOREM RingImplementsChannel ==
  ASSUME MaxSessions <= 1, TX_SIZE + RX_SIZE + MaxRequests <= IOVA_PAGES
  PROVE  LateSpec => Channel!Safety
<1> DEFINE Inv == IInv /\ Budget /\ ~lapped
<1>1. Init => Inv
  BY IInvInit, BudgetInit DEF Init
<1>2. Inv /\ [Next /\ ~lapped']_vars => Inv'
  <2> SUFFICES ASSUME Inv, [Next /\ ~lapped']_vars PROVE Inv'
    OBVIOUS
  <2>1. [Next]_vars
    OBVIOUS
  <2>2. ~lapped'
    BY DEF vars, histVars
  <2> QED
    BY <2>1, <2>2, IInvStep, BudgetStep
<1>3. Inv => FirstLap
  <2> SUFFICES ASSUME Inv PROVE FirstLap
    OBVIOUS
  <2>1. Cardinality(asked) \in Nat /\ page_index \in Nat /\ sessions \in Nat
    BY FS_CardinalityType DEF Budget, IInv, IommuInv, TypeOK
  <2>2. sessions <= 1
    BY <2>1, BoundsAssumption DEF Budget
  <2>3. Handed \in Nat /\ Handed <= TX_SIZE + RX_SIZE
    BY SizesAssumption DEF Handed
  <2>4. page_index <= IOVA_PAGES
    BY <2>1, <2>2, <2>3, SizesAssumption, BoundsAssumption DEF Budget
  <2> QED
    BY <2>2, <2>4 DEF FirstLap, NoWrap
<1>4. Init => Channel!Init
  <2> SUFFICES ASSUME Init PROVE Channel!Init
    OBVIOUS
  <2>1. current = NoPage /\ Made = {} /\ Sent = <<>>
    BY DEF Init, current, Made, Sent
  <2>2. answer = "none"
    BY Answers DEF Init
  <2> QED
    BY <2>1, <2>2 DEF Channel!Init, current, answer
<1>5. Inv /\ Inv' /\ [Next /\ ~lapped']_vars => [Channel!Next]_(Channel!vars)
  <2> SUFFICES ASSUME Inv, Inv', [Next /\ ~lapped']_vars
               PROVE  [Channel!Next]_(Channel!vars)
    OBVIOUS
  <2>1. [Next]_vars
    OBVIOUS
  <2>2. FirstLap
    BY <1>3
  <2>3. FirstLap'
    BY <1>3, PTL
  <2> QED
    BY <2>1, <2>2, <2>3, ChannelStep
<1> HIDE DEF Inv
<1> QED
  BY <1>1, <1>2, <1>4, <1>5, PTL DEF LateSpec, Channel!Safety

-----------------------------------------------------------------------------
(* A prompt router *)

\* Where the first session starts.
FirstPage ==
  /\ sessions = 0 => page_index = 0
  /\ sessions = 1 /\ pc = "alloc_tx" => page_index = 0
  /\ sessions = 1 /\ pc \notin {"closed", "alloc_tx"} => txDesc[0] = 0
  /\ pc \in {"alloc_tx", "alloc_rx", "init_tx"} => reg.cons = 0
  /\ pc \in {"init_rx", "idle"} \cup RequestSteps => reg.valid

\* During the wait the router has the one request to serve, or has served it.
Serving ==
  /\ dev.phase = "idle" => reg.cons \in {CurrentSlot, reg.prod}
  /\ dev.phase # "idle" => dev.slot = CurrentSlot
  /\ dev.phase = "fetched" => dev.addr \in {0, Iova(buf)}
  /\ CurrentSlot = 0 =>
       /\ dev.phase # "idle" => dev.sts
       /\ dev.phase = "idle" /\ reg.cons = reg.prod /\ TX_SIZE > 1 => desc[0].done

\* Outside the wait it has nothing to do.
PromptInv ==
  /\ ~fault /\ ~lapped
  /\ pc # "wait" => Quiet
  /\ pc = "write_index" => idx.cons = reg.cons
  /\ pc = "wait" => Serving
  /\ pc = "free" /\ CurrentSlot = 0 /\ TX_SIZE > 1 => ret = 0

FirstRound == Prompt /\ NoWrap /\ sessions <= 1

PInv == IInv /\ FirstPage /\ (FirstRound => PromptInv)

LEMMA FirstPageStep == IInv /\ FirstPage /\ [Next]_vars => FirstPage'
<1> SUFFICES ASSUME IInv, FirstPage, [Next]_vars PROVE FirstPage'
  OBVIOUS
<1>1. TypeOK /\ IndexInv
  BY DEF IInv, IommuInv
<1> USE DEF FirstPage, RequestSteps
<1>2. CASE reset_host_interface
  BY <1>1, <1>2 DEF reset_host_interface, ResetRegs, TypeOK
<1>3. CASE allocate_tx_desc
  <2>1. txDesc'[0] = page_index
    BY <1>1, <1>3, ZeroExists DEF allocate_tx_desc, TypeOK
  <2> QED
    BY <1>1, <1>3, <2>1 DEF allocate_tx_desc, histVars, IndexInv
<1>4. CASE allocate_rx_desc
  BY <1>1, <1>4 DEF allocate_rx_desc, histVars, IndexInv
<1>5. CASE init_host_tx
  BY <1>1, <1>5 DEF init_host_tx, histVars, IndexInv
<1>6. CASE init_host_rx \/ free_tx_rx_desc
  BY <1>1, <1>6 DEF init_host_rx, free_tx_rx_desc, histVars, IndexInv
<1>7. CASE ArmRequest
  BY <1>1, <1>7 DEF ArmRequest, IndexInv
<1>8. CASE FillRequest \/ allow_bus_master \/ ReadIndex
  BY <1>1, <1>8 DEF FillRequest, allow_bus_master, ReadIndex, hostVars, histVars, IndexInv
<1>9. CASE WriteIndex
  <2>1. reg'.valid = reg.valid
    BY <1>1, <1>9 DEF WriteIndex, TypeOK
  <2> QED
    BY <1>1, <1>9, <2>1 DEF WriteIndex, histVars, IndexInv
<1>10. CASE CheckDone \/ FreeRequest
  BY <1>1, <1>10 DEF CheckDone, FreeRequest, hostVars, histVars, IndexInv
<1>11. CASE Router
  <2>1. UNCHANGED <<pc, txDesc, page_index, sessions>> /\ reg'.valid = reg.valid
    BY <1>1, <1>11, RouterKeepsRegs
       DEF Router, Fetch, Transmit, WriteBack, libVars, histVars
  <2>2. pc \in {"alloc_tx", "alloc_rx", "init_tx"} => reg' = reg
    BY <1>1, <1>11 DEF IInv, Bases, SizeKnown, IommuInv, Router, Fetch, Transmit, WriteBack
  <2> QED
    BY <2>1, <2>2
<1>12. CASE UNCHANGED vars
  BY <1>12 DEF vars, libVars, hostVars, histVars
<1> QED
  BY <1>2, <1>3, <1>4, <1>5, <1>6, <1>7, <1>8, <1>9, <1>10, <1>11, <1>12
     DEF Next, Library, InRequest, Ended

\* While a ring is allocated its base leads to its first page, and slot 0 of it is
\* the library's first descriptor.
LEMMA BaseMapped ==
  ASSUME IInv, NoWrap, reg.valid, pc # "closed"
  PROVE  iommu[reg.base] # NoPage /\ InSlot(0, 0) /\ DescAt(0) = desc[0]
<1>1. txDesc[0] # NoPage /\ reg.base = Iova(txDesc[0])
  BY DEF IInv, Bases
<1>2. txDesc[0] \in Held
  BY <1>1, ZeroExists DEF Held, PagesOf
<1>3. Held \subseteq Iovas
  BY SizesAssumption DEF IInv, IommuInv, Mappings, NoWrap, Iovas, TypeOK
<1>4. iommu[reg.base] = txDesc[0]
  BY <1>1, <1>2, <1>3, IovaSmall DEF IInv, IommuInv, Mappings, Identity
<1>5. InSlot(0, 0)
  BY <1>1, <1>4 DEF InSlot
<1>6. /\ (CHOOSE i \in Slots : InSlot(i, 0)) \in Slots
      /\ InSlot(CHOOSE i \in Slots : InSlot(i, 0), 0)
  BY <1>5, ZeroExists
<1>7. (CHOOSE i \in Slots : InSlot(i, 0)) = 0
  BY <1>6, OnlyFirst DEF IInv
<1>8. DescAt(0) = desc[0]
  BY <1>5, <1>7, ZeroExists DEF DescAt
<1> QED
  BY <1>1, <1>4, <1>5, <1>8

\* With more than one descriptor the next slot is another one.
LEMMA SlotMoves ==
  ASSUME NEW i \in Slots, TX_SIZE > 1
  PROVE  NextSlot(i) # i
<1>1. CASE i + 1 < TX_SIZE
  BY <1>1, SizesAssumption, ModSmall DEF NextSlot, Slots
<1>2. CASE i = TX_SIZE - 1
  BY <1>2, SizesAssumption DEF NextSlot
<1> QED
  BY <1>1, <1>2, SizesAssumption DEF Slots

\* The wait begins with one request to serve.
LEMMA PromptWrite ==
  ASSUME PInv, PromptInv, FirstLap, WriteIndex
  PROVE  PromptInv'
<1>1. TypeOK /\ IInv /\ pc = "write_index" /\ reg.valid /\ tx_index \in Slots
  BY DEF PInv, FirstPage, RequestSteps, WriteIndex, IInv, IommuInv, TypeOK
<1>2. dev.phase = "idle" /\ reg.prod = reg.cons /\ idx.cons = reg.cons
  BY <1>1 DEF PromptInv, Quiet
<1>3. reg.prod = tx_index /\ idx.prod = tx_index
  BY <1>1, Indices DEF Before, IInv, Followed, NotYetSeen
<1>4. reg'.prod = NextSlot(tx_index) /\ reg'.cons = tx_index
  BY <1>1, <1>2, <1>3 DEF WriteIndex, TypeOK, NextSlot
<1>5. CurrentSlot' = tx_index
  BY <1>1, SlotBefore DEF WriteIndex, CurrentSlot
<1>6. pc' = "wait" /\ dev' = dev /\ fault' = fault /\ lapped' = lapped
  BY DEF WriteIndex, devVars, histVars
<1>7. Serving'
  BY <1>1, <1>2, <1>4, <1>5, <1>6, SlotMoves DEF Serving
<1> QED
  BY <1>6, <1>7 DEF PromptInv

\* The wait ends with the request served.
LEMMA PromptCheck ==
  ASSUME PInv, PromptInv, Prompt, CheckDone
  PROVE  PromptInv'
<1>1. /\ UNCHANGED <<tx_index, desc, reg, dev, fault, lapped>>
      /\ pc = "wait" /\ pc' = "free" /\ Quiet /\ reg.valid
      /\ ret' = IF desc[CurrentSlot].done THEN 0 ELSE 1
  BY DEF CheckDone, WaitOver, hostVars, devVars, histVars, PInv, FirstPage, RequestSteps
<1>2. CurrentSlot = 0 /\ TX_SIZE > 1 => ret' = 0
  BY <1>1 DEF PromptInv, Serving, Quiet
<1> QED
  BY <1>1, <1>2 DEF PromptInv, Quiet, CurrentSlot

\* The router takes the descriptor of the request, or what lies in its place.
LEMMA PromptFetch ==
  ASSUME PInv, PromptInv, FirstLap, Fetch
  PROVE  PromptInv'
<1>1. /\ dev.phase = "idle" /\ reg.valid /\ reg.prod # reg.cons
      /\ UNCHANGED <<pc, tx_index, desc, buf, ret, lapped>>
  BY DEF Fetch, libVars, histVars
<1>2. pc = "wait" /\ Serving
  BY <1>1 DEF PromptInv, Quiet
<1>3. IInv /\ NoWrap /\ reg.cons = CurrentSlot
  BY <1>1, <1>2 DEF PInv, FirstLap, Serving
<1>4. iommu[reg.base] # NoPage /\ DescAt(0) = desc[0]
  BY <1>1, <1>2, <1>3, BaseMapped
<1>5. /\ dev' = [phase |-> "fetched", slot |-> reg.cons,
                 addr |-> DescAt(reg.cons).addr, sts |-> DescAt(reg.cons).sts]
      /\ UNCHANGED <<fault, reg>>
  BY <1>4 DEF Fetch
<1>6. /\ dev'.phase = "fetched" /\ dev'.slot = CurrentSlot
      /\ dev'.addr = DescAt(CurrentSlot).addr /\ dev'.sts = DescAt(CurrentSlot).sts
  BY <1>3, <1>5
<1>7. Armed(CurrentSlot)
  BY <1>2, <1>3 DEF FirstLap, IInv, Followed, SeenOnce, After
<1>8. DescAt(CurrentSlot).addr \in {0, Iova(buf)}
  <2>1. DescAt(CurrentSlot) = ZeroDesc \/ (CurrentSlot = 0 /\ DescAt(CurrentSlot) = desc[0])
    BY <1>1, <1>3, DescRead DEF IInv
  <2> QED
    BY <1>7, <2>1 DEF Armed, ZeroDesc
<1>9. CurrentSlot = 0 => DescAt(CurrentSlot).sts
  BY <1>4, <1>7 DEF Armed
<1>10. CurrentSlot' = CurrentSlot
  BY <1>1 DEF CurrentSlot
<1>11. Serving'
  BY <1>1, <1>6, <1>8, <1>9, <1>10 DEF Serving
<1> QED
  BY <1>1, <1>2, <1>5, <1>11 DEF PromptInv

\* Both the buffer and page zero can be reached while the request lasts.
LEMMA PromptTransmit ==
  ASSUME PInv, PromptInv, FirstLap, Transmit
  PROVE  PromptInv'
<1>1. dev.phase = "fetched" /\ UNCHANGED <<pc, tx_index, desc, buf, ret, lapped>>
  BY DEF Transmit, libVars, histVars
<1>2. pc = "wait" /\ Serving
  BY <1>1 DEF PromptInv, Quiet
<1>3. IInv /\ NoWrap /\ TypeOK
  BY DEF PInv, FirstLap, IInv, IommuInv
<1>4. Identity(iommu, Held)
  BY <1>3 DEF IInv, IommuInv, Mappings
<1>5. iommu[0] # NoPage
  <2>1. sessions = 1
    BY <1>2, <1>3 DEF FirstLap, IInv, IndexInv, TypeOK
  <2>2. txDesc[0] = 0
    BY <1>2, <2>1 DEF PInv, FirstPage
  <2>3. 0 \in Held
    BY <2>2, ZeroExists DEF Held, PagesOf, NoPage
  <2> QED
    BY <1>4, <2>3, ZeroExists DEF Identity, NoPage
<1>6. iommu[Iova(buf)] # NoPage
  <2>1. Iova(buf) = buf /\ buf # NoPage
    BY <1>2, <1>3, BufferAddr DEF RequestSteps
  <2>2. buf \in Held /\ Iova(buf) \in Iovas
    BY <1>3, <2>1, IovaType DEF Held, TypeOK, Pages
  <2> QED
    BY <1>4, <2>1, <2>2 DEF Identity
<1>7. iommu[dev.addr] # NoPage
  BY <1>1, <1>2, <1>5, <1>6 DEF Serving
<1>8. dev' = [dev EXCEPT !.phase = "sent"] /\ UNCHANGED <<fault, reg>>
  BY <1>7 DEF Transmit
<1>9. dev'.phase = "sent" /\ dev'.slot = dev.slot /\ dev'.sts = dev.sts
  BY <1>3, <1>8 DEF TypeOK
<1>10. Serving'
  BY <1>1, <1>2, <1>9 DEF Serving, CurrentSlot
<1> QED
  BY <1>1, <1>2, <1>8, <1>10 DEF PromptInv

\* The descriptor is reported and nothing is left to do.
LEMMA PromptWriteBack ==
  ASSUME PInv, PromptInv, FirstLap, WriteBack
  PROVE  PromptInv'
<1>1. dev.phase = "sent" /\ UNCHANGED <<pc, tx_index, buf, ret, lapped>> /\ dev' = IdleDev
  BY DEF WriteBack, histVars
<1>2. pc = "wait" /\ Serving
  BY <1>1 DEF PromptInv, Quiet
<1>3. IInv /\ NoWrap /\ TypeOK /\ reg.valid /\ dev.slot = CurrentSlot
  BY <1>1, <1>2 DEF PInv, FirstLap, IInv, IommuInv, FirstPage, RequestSteps, Serving
<1>4. iommu[reg.base] # NoPage /\ InSlot(0, 0)
  BY <1>2, <1>3, BaseMapped
<1>5. ~fault'
  BY <1>4 DEF WriteBack, PromptInv
<1>6. CurrentSlot \in Slots /\ NextSlot(CurrentSlot) = reg.prod
  BY <1>2, <1>3, Indices DEF After
<1>7. reg'.cons = reg.prod /\ reg'.prod = reg.prod
  BY <1>3, <1>6, Consumed DEF WriteBack
<1>8. CurrentSlot = 0 => desc'[0].done
  <2> SUFFICES ASSUME CurrentSlot = 0 PROVE desc'[0].done
    OBVIOUS
  <2>1. dev.sts /\ InSlot(0, dev.slot)
    BY <1>1, <1>2, <1>3, <1>4 DEF Serving
  <2>2. desc'[0] = [desc[0] EXCEPT !.done = TRUE]
    BY <2>1, ZeroExists DEF WriteBack
  <2> QED
    BY <1>3, <2>2, ZeroExists DEF TypeOK, Descs
<1>9. Serving'
  BY <1>1, <1>7, <1>8 DEF Serving, IdleDev, CurrentSlot
<1> QED
  BY <1>1, <1>2, <1>5, <1>9 DEF PromptInv

LEMMA PromptStep == PInv /\ [Next]_vars => PInv'
<1> SUFFICES ASSUME PInv, [Next]_vars PROVE PInv'
  OBVIOUS
<1>1. IInv' /\ FirstPage'
  BY IInvStep, FirstPageStep DEF PInv
<1>2. ASSUME FirstRound' PROVE PromptInv'
  <2>1. FirstRound /\ PromptInv /\ Prompt
    BY <1>2, FirstLapOnce DEF PInv, IInv, IommuInv, FirstRound
  <2>2. FirstLap
    BY <2>1 DEF FirstRound, FirstLap, PromptInv
  <2>3. CASE WriteIndex \/ CheckDone
    BY <2>1, <2>2, <2>3, PromptWrite, PromptCheck
  <2>4. CASE Router
    BY <2>1, <2>2, <2>4, PromptFetch, PromptTransmit, PromptWriteBack DEF Router
  <2>5. CASE reset_host_interface
    BY <2>1, <2>5 DEF reset_host_interface, PromptInv, Quiet, ResetRegs, IdleDev
  <2>6. CASE allocate_tx_desc \/ allocate_rx_desc \/ init_host_rx \/ free_tx_rx_desc
             \/ FreeRequest
    <3>1. /\ UNCHANGED <<reg, dev, fault, lapped>> /\ pc # "wait"
          /\ pc' \notin {"wait", "write_index", "free"}
      BY <2>6 DEF allocate_tx_desc, allocate_rx_desc, init_host_rx, free_tx_rx_desc,
                  FreeRequest, devVars, histVars
    <3> QED
      BY <2>1, <3>1 DEF PromptInv, Quiet
  <2>7. CASE init_host_tx
    <3>1. reg'.prod = 0 /\ reg'.cons = 0
      BY <2>7 DEF init_host_tx, PInv, FirstPage
    <3> QED
      BY <2>1, <2>7, <3>1 DEF init_host_tx, devVars, histVars, PromptInv, Quiet
  <2>8. CASE ArmRequest
    <3>1. pc # "wait" /\ pc' = "fill" /\ UNCHANGED <<reg, dev, fault>>
      BY <2>8 DEF ArmRequest, devVars
    <3>2. dev.phase = "idle" /\ Quiet
      BY <2>1, <3>1 DEF PromptInv, Quiet
    <3>3. ~lapped'
      BY <2>1, <2>8, <3>2 DEF ArmRequest, PromptInv
    <3> QED
      BY <2>1, <3>1, <3>2, <3>3 DEF PromptInv, Quiet
  <2>9. CASE FillRequest \/ allow_bus_master \/ ReadIndex
    <3>1. /\ UNCHANGED <<reg, dev, fault, lapped>> /\ pc # "wait"
          /\ pc' \notin {"wait", "free"}
          /\ pc' = "write_index" => idx'.cons = reg.cons
      BY <2>9 DEF FillRequest, allow_bus_master, ReadIndex, hostVars, devVars, histVars
    <3> QED
      BY <2>1, <3>1 DEF PromptInv, Quiet
  <2>10. CASE UNCHANGED vars
    BY <2>1, <2>10
       DEF vars, libVars, hostVars, devVars, histVars, PromptInv, Quiet, Serving, CurrentSlot
  <2> QED
    BY <2>3, <2>4, <2>5, <2>6, <2>7, <2>8, <2>9, <2>10
       DEF Next, Library, InRequest, Ended
<1> QED
  BY <1>1, <1>2 DEF PInv

LEMMA PromptInit == Init => PInv
<1> SUFFICES ASSUME Init PROVE PInv
  OBVIOUS
<1>1. FirstPage /\ PromptInv
  BY DEF Init, FirstPage, PromptInv, Quiet, ResetRegs, IdleDev, RequestSteps
<1> QED
  BY <1>1, IInvInit DEF PInv

\* A router that keeps to CTRL_TIMEOUT never reaches for an address that is not
\* mapped: no buffer and no ring is taken away too early, for every ring size.
THEOREM NothingFaults == Spec => []NoFault
<1>1. PInv => NoFault
  BY DEF PInv, NoFault, FirstRound, PromptInv
<1> QED
  BY <1>1, PromptInit, PromptStep, PTL DEF Spec

\* On every lap of a ring of more than one descriptor a prompt router answers the
\* request that uses the first of them.
THEOREM FirstIsServed == ASSUME TX_SIZE > 1 PROVE Spec => []FirstSlotServed
<1>1. PInv => FirstSlotServed
  BY DEF PInv, FirstSlotServed, FirstRound, PromptInv
<1> QED
  BY <1>1, PromptInit, PromptStep, PTL DEF Spec

=============================================================================
