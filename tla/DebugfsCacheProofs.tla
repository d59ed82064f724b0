------------------------- MODULE DebugfsCacheProofs -------------------------
(***************************************************************************)
(* The debugfs cache of lstbt -v for any number of names, routers and      *)
(* adapters and any plugging and unplugging: a lookup answers from a       *)
(* router that stood under the name asked for, a type is of the device     *)
(* that the lines under it are about, and no access leaves an array as     *)
(* long as no router has come since the routers were listed.               *)
(***************************************************************************)
EXTENDS DebugfsCache, FiniteSetTheorems, TLAPS

\* Where a router is being printed, and where all entries are there.
Asking   == {"present", "lookup", "lookup_adp", "answered"}
Printing == Asking \cup {"line"}
Complete == Printing \cup {"router", "release", "free"}

Content == OrNone \cup {Unset}
Arrays  == UNION {[0 .. m - 1 -> Content] : m \in 0 .. MaxAdp}
Entry   == [dev : OrNone, adps : Arrays]

-----------------------------------------------------------------------------
(* The inductive invariant *)

Labels == {"list", "count", "regs", "recount", "fill", "router", "present", "lookup",
           "lookup_adp", "answered", "line", "release", "free", "exit"} \cup Wild

\* The types of the arrays, of the program's other variables, and of the bus.
ArraysTyped ==
  /\ names \in Seq(Router)
  /\ cache \in Seq(Entry)
  /\ Len(cache) <= Len(names)
  /\ room \in 0 .. MaxAdp
  /\ hit \in 0 .. Len(names)

LoopsTyped ==
  /\ pc \in Labels
  /\ n \in Nat
  /\ j \in 0 .. MaxAdp
  /\ todo \in Seq(Decimal)
  /\ phase \in {"types", "header", "lines"}
  /\ filled \in BOOLEAN
  /\ freed \in Nat

ValuesTyped == answer \in OrNone /\ types \in [Adapters -> OrNone]

BusTyped ==
  /\ at \in [Router -> OrNone]
  /\ top \in [Router -> Going .. MaxAdp]
  /\ plugs \in 0 .. MaxPlugs
  /\ changed \in BOOLEAN
  /\ settled \in BOOLEAN
  /\ was \in [Router -> SUBSET Device]

Typed == ArraysTyped /\ LoopsTyped /\ ValuesTyped /\ BusTyped

\* No name is listed twice.
Distinct == \A k, m \in DOMAIN names : names[k] = names[m] => k = m

\* How far the arrays are filled at each step.
Filled ==
  /\ pc = "list" => cache = <<>> /\ hit = 0
  /\ pc = "regs" => Len(cache) < Len(names)
  /\ pc \in {"recount", "fill"} =>
       cache # <<>> /\ DOMAIN cache[Len(cache)].adps = 0 .. room - 1
  /\ pc = "fill" => n <= MaxAdp /\ j <= n /\ j <= room
  /\ pc \in Complete => Len(cache) = Len(names)

\* What each step of a lookup is for.
Phases ==
  /\ pc \in Printing => todo # <<>>
  /\ pc \in Asking /\ phase = "types" => ~filled /\ j \in 1 .. MaxAdp
  /\ pc \in Asking /\ phase = "header" => j = 1
  /\ pc \in Asking /\ phase = "lines" => j \in 1 .. MaxAdp - 1 /\ types[j] # NoDevice
  /\ pc = "line" => phase = "lines" /\ j \in 1 .. MaxAdp
  /\ pc = "lookup_adp" =>
       phase # "header" /\ hit \in DOMAIN names /\ names[hit] = current

\* The copy holds what was at the names.
Copied ==
  /\ \A r \in Router : at[r] \in was[r] \cup {NoDevice}
  /\ \A k \in DOMAIN cache :
       /\ cache[k].dev \in was[names[k]] \cup {NoDevice}
       /\ \A a \in DOMAIN cache[k].adps :
            cache[k].adps[a] \in was[names[k]] \cup {NoDevice, Unset}
  /\ pc = "answered" => answer \in was[current] \cup {NoDevice}

\* The value is a failure or the copy of the adapter of the current router.
IsCopy(v, a) ==
  v = NoDevice \/ \E k \in DOMAIN names : names[k] = current /\ v = cache[k].adps[a]

\* The types are of the current router, up to the adapter the loop is at.
TypesFit ==
  /\ pc \in Asking /\ phase = "types" => \A a \in 1 .. j - 1 : IsCopy(types[a], a)
  /\ pc \in Printing /\ phase # "types" => \A a \in Adapters : IsCopy(types[a], a)
  /\ pc = "answered" /\ phase # "header" => IsCopy(answer, j)

\* No directory outlives its router.
Attached == \A r \in Router : at[r] = NoDevice => top[r] = NoDir

\* get_total_adps_debugfs() by the highest port.
Count(t) == IF t <= 0 THEN 0 ELSE (IF t = MaxAdp THEN MaxAdp ELSE t + 1)

\* The elements the count of the moment reaches are written.
Covered(k) == 0 .. Count(top[names[k]]) - 1 \subseteq Written(cache[k])

\* While none has come since the listing, every count is at most the one an
\* array was allocated with.
BoundedNow ==
  /\ \A r \in Router : at[r] # NoDevice => \E k \in DOMAIN names : names[k] = r
  /\ \A r \in Router : at[r] # NoDevice => top[r] \in {Ports[at[r]], Going}
  /\ pc = "regs" => Count(top[names[Len(cache) + 1]]) <= room
  /\ pc = "recount" => Count(top[names[Len(cache)]]) <= room
  /\ pc = "fill" => /\ Count(top[names[Len(cache)]]) <= n /\ n <= room
                    /\ 0 .. j - 1 \subseteq Written(cache[Len(cache)])
  /\ \A k \in DOMAIN cache :
       k < Len(cache) \/ pc \notin {"recount", "fill"} => Covered(k)
  /\ pc = "free" => n <= Len(names)
  /\ pc \notin Wild

Bounded == settled /\ pc \notin {"list", "exit"} => BoundedNow

IInv == Typed /\ Distinct /\ Filled /\ Phases /\ Copied /\ TypesFit /\ Attached /\ Bounded

\* Routers that sysfs lists, by any name.
Present == {r \in Router : at[r] # NoDevice}

\* Nothing is half there.
Steady == \A r \in Router : top[r] = IF at[r] = NoDevice THEN NoDir ELSE Ports[at[r]]

\* What an adapter's place in the cache ought to hold, and a lookup to answer.
Adapter(r, a) == IF HasPort(r, a) THEN at[r] ELSE NoDevice

\* Every name listed and every name to print has a router, and all are listed.
AllListed ==
  /\ \A k \in DOMAIN names : at[names[k]] # NoDevice
  /\ \A k \in DOMAIN todo : at[todo[k]] # NoDevice
  /\ pc \notin {"list", "exit"} => Len(names) = Cardinality(Present)

\* The entries are copies of what is there now.
Fresh ==
  \A k \in DOMAIN cache :
    /\ cache[k].dev = at[names[k]]
    /\ \A a \in Written(cache[k]) : cache[k].adps[a] = Adapter(names[k], a)

\* An adapter is looked up when its port is there, and found.
Asked ==
  /\ pc = "present" => phase # "header"
  /\ pc \in {"lookup", "lookup_adp"} /\ phase # "header" => HasPort(current, j)
  /\ pc = "answered" /\ Present \subseteq Decimal =>
       IF phase = "header" THEN answer = at[current]
       ELSE j < MaxAdp => answer = Adapter(current, j)

\* As long as nothing has come or gone.
QuietNow == settled /\ Steady /\ AllListed /\ Fresh /\ Asked

Quiet == ~changed => QuietNow

-----------------------------------------------------------------------------
(* Listings and counts *)

\* Sets of names are finite, as ls needs them to be.
LEMMA FiniteNames ==
  ASSUME NEW S \in SUBSET Router
  PROVE  IsFiniteSet(S) /\ Cardinality(S) \in Nat
BY NamesAssumption, FS_Subset, FS_CardinalityType

\* A listing has every name of the set once.
LEMMA ListingIsComplete ==
  ASSUME NEW S \in SUBSET Router, NEW s \in Listings(S)
  PROVE  /\ s \in Seq(S)
         /\ Len(s) = Cardinality(S)
         /\ \A k, m \in DOMAIN s : s[k] = s[m] => k = m
         /\ \A r \in S : \E k \in DOMAIN s : s[k] = r
<1>1. IsFiniteSet(S) /\ Cardinality(S) \in Nat
  BY FiniteNames
<1>2. s \in [1 .. Cardinality(S) -> S] /\ \A k, m \in DOMAIN s : k < m => s[k] < s[m]
  BY DEF Listings
<1>3. s \in Seq(S) /\ Len(s) = Cardinality(S)
  BY <1>1, <1>2
<1>4. ASSUME NEW k \in DOMAIN s, NEW m \in DOMAIN s, s[k] = s[m] PROVE k = m
  <2>1. DOMAIN s = 1 .. Cardinality(S) /\ S \subseteq Nat
    BY <1>2, NamesAssumption
  <2>2. k \in Nat /\ m \in Nat
    BY <1>1, <1>4, <2>1
  <2>3. s[k] \in Nat /\ s[m] \in Nat
    BY <1>2, <1>4, <2>1
  <2>4. ~(k < m) /\ ~(m < k)
    BY <1>2, <1>4, <2>2, <2>3
  <2> QED
    BY <2>2, <2>4
<1>5. s \in Injection(1 .. Cardinality(S), S)
  BY <1>2, <1>4 DEF Injection, IsInjective
<1>6. Cardinality(1 .. Cardinality(S)) = Cardinality(S)
  BY <1>1, FS_Interval
<1>7. s \in Surjection(1 .. Cardinality(S), S)
  BY <1>1, <1>5, <1>6, FS_Injection
<1> QED
  BY <1>2, <1>3, <1>4, <1>7 DEF Surjection

\* A set of listed names is no larger than the list.
LEMMA CountIsBounded ==
  ASSUME NEW s \in Seq(Router), NEW S \in SUBSET Router,
         \A r \in S : \E k \in DOMAIN s : s[k] = r
  PROVE  Cardinality(S) \in Nat /\ Cardinality(S) <= Len(s)
<1> DEFINE D == 1 .. Len(s)
           R == {s[k] : k \in D}
<1>1. s \in [D -> R] /\ S \subseteq R
  OBVIOUS
<1>2. s \in Surjection(D, R)
  BY <1>1 DEF Surjection
<1>3. IsFiniteSet(D) /\ Cardinality(D) = Len(s)
  <2>1. Len(s) \in Nat /\ 1 \in Int
    OBVIOUS
  <2> QED
    BY <2>1, FS_Interval
<1>4. IsFiniteSet(R) /\ Cardinality(R) <= Len(s)
  BY <1>2, <1>3, FS_Surjection
<1>5. Cardinality(S) <= Cardinality(R) /\ Cardinality(R) \in Nat
  BY <1>1, <1>4, FS_Subset, FS_CardinalityType
<1> QED
  BY <1>4, <1>5, FiniteNames

\* Routers in sysfs can be counted.
LEMMA RoutersCounted == TotalRouters \in Nat /\ InSysfs \in SUBSET Router
<1>1. InSysfs \in SUBSET Router
  BY NamesAssumption DEF InSysfs
<1> QED
  BY <1>1, FiniteNames DEF TotalRouters

\* Adapters counted are no more than there can be, and fewer ports are no more
\* adapters.
LEMMA CountOfAdapters ==
  ASSUME NEW r, NEW t, top[r] \in Going .. MaxAdp, top[t] \in Going .. MaxAdp
  PROVE  /\ get_total_adps_debugfs(r) \in 0 .. MaxAdp
         /\ top[r] <= top[t] => get_total_adps_debugfs(r) <= get_total_adps_debugfs(t)
BY AdaptersAssumption DEF get_total_adps_debugfs, Going

-----------------------------------------------------------------------------
(* Entries *)

\* An entry by its fields.
LEMMA EntryFields ==
  ASSUME NEW e \in Entry
  PROVE  /\ e.dev \in OrNone
         /\ \E m \in 0 .. MaxAdp : e.adps \in [0 .. m - 1 -> Content]
BY DEF Entry, Arrays

\* get_router_regs() allocates an entry.
LEMMA AllocatedEntry ==
  ASSUME NEW d \in OrNone, NEW m \in 0 .. MaxAdp
  PROVE  [dev |-> d, adps |-> [a \in 0 .. m - 1 |-> Unset]] \in Entry
<1>1. [a \in 0 .. m - 1 |-> Unset] \in [0 .. m - 1 -> Content]
  BY DEF Content
<1>2. [a \in 0 .. m - 1 |-> Unset] \in Arrays
  BY <1>1 DEF Arrays
<1> QED
  BY <1>2 DEF Entry

\* get_adps_config() writes an element.
LEMMA WrittenEntry ==
  ASSUME NEW e \in Entry, NEW a \in DOMAIN e.adps, NEW v \in OrNone
  PROVE  /\ [e EXCEPT !.adps[a] = v] \in Entry
         /\ [e EXCEPT !.adps[a] = v].dev = e.dev
         /\ [e EXCEPT !.adps[a] = v].adps = [e.adps EXCEPT ![a] = v]
<1>1. PICK m \in 0 .. MaxAdp : e.adps \in [0 .. m - 1 -> Content]
  BY EntryFields
<1>2. [e.adps EXCEPT ![a] = v] \in [0 .. m - 1 -> Content]
  BY <1>1 DEF Content
<1>3. [e.adps EXCEPT ![a] = v] \in Arrays
  BY <1>2 DEF Arrays
<1> QED
  BY <1>3 DEF Entry

\* What get_adps_config() leaves as it is and what it changes.
LEMMA FillingElement ==
  ASSUME Typed, Filled, get_adps_config, j < room
  PROVE  /\ Len(cache) \in DOMAIN cache /\ cache' \in Seq(Entry) /\ Len(cache') = Len(cache)
         /\ j \in DOMAIN cache[Len(cache)].adps
         /\ \A k \in DOMAIN cache : k # Len(cache) => cache'[k] = cache[k]
         /\ cache'[Len(cache)].dev = cache[Len(cache)].dev
         /\ cache'[Len(cache)].adps =
              [cache[Len(cache)].adps EXCEPT
                 ![j] = IF HasPort(Filling, j) THEN at[Filling] ELSE NoDevice]
<1> DEFINE v == IF HasPort(Filling, j) THEN at[Filling] ELSE NoDevice
           e == cache[Len(cache)]
           f == [e EXCEPT !.adps[j] = v]
<1>1. cache \in Seq(Entry) /\ Len(cache) \in Nat /\ Len(cache) <= Len(names)
  BY DEF Typed, ArraysTyped
<1>2. pc = "fill" /\ cache # <<>> /\ DOMAIN e.adps = 0 .. room - 1
  BY DEF get_adps_config, Filled
<1>3. Len(cache) \in DOMAIN cache /\ e \in Entry
  BY <1>1, <1>2
<1>4. j \in DOMAIN e.adps
  BY <1>2 DEF Typed, ArraysTyped, LoopsTyped
<1>5. v \in OrNone
  <2>1. Filling \in Router
    BY <1>1, <1>3 DEF Filling, Typed, ArraysTyped
  <2> QED
    BY <2>1 DEF Typed, BusTyped, OrNone
<1>6. f \in Entry /\ f.dev = e.dev /\ f.adps = [e.adps EXCEPT ![j] = v]
  BY <1>3, <1>4, <1>5, WrittenEntry
<1>7. cache' = [cache EXCEPT ![Len(cache)] = f]
  <2>1. ~(j >= room)
    BY DEF Typed, ArraysTyped, LoopsTyped
  <2> QED
    BY <2>1 DEF get_adps_config
<1> HIDE DEF e, f, v
<1>8. /\ cache' \in Seq(Entry) /\ Len(cache') = Len(cache)
      /\ \A k \in DOMAIN cache : k # Len(cache) => cache'[k] = cache[k]
      /\ cache'[Len(cache)] = f
  BY <1>1, <1>3, <1>6, <1>7
<1> QED
  BY <1>3, <1>4, <1>6, <1>8 DEF e, v

-----------------------------------------------------------------------------
(* Each step keeps each part *)

\* The arrays keep their types.
LEMMA ArraysTypedStep ==
  ASSUME IInv, [Next]_vars
  PROVE  ArraysTyped'
<1> USE DEF ArraysTyped, initVars, lookupVars, Goto
<1>1. ArraysTyped /\ Filled /\ LoopsTyped /\ BusTyped
  BY DEF IInv, Typed
<1>2. Len(cache) \in Nat /\ Len(names) \in Nat
  BY <1>1
<1>3. ASSUME UNCHANGED <<initVars, hit>> PROVE ArraysTyped'
  BY <1>1, <1>3
<1>4. CASE ListRouters
  <2>1. CASE UNCHANGED names
    BY <1>1, <1>4, <2>1 DEF ListRouters
  <2>2. CASE names' \in Listings(InDebugfs)
    <3>1. InDebugfs \in SUBSET Router
      BY DEF InDebugfs
    <3>2. names' \in Seq(InDebugfs)
      BY <2>2, <3>1, ListingIsComplete
    <3>3. names' \in Seq(Router) /\ Len(names') \in Nat
      BY <3>1, <3>2
    <3>4. cache' = <<>> /\ hit' = 0 /\ room' = room
      BY <1>1, <1>4 DEF Filled, ListRouters
    <3>5. cache' \in Seq(Entry) /\ Len(cache') = 0
      BY <3>4
    <3> QED
      BY <1>1, <3>3, <3>4, <3>5
  <2> QED
    BY <1>4, <2>1, <2>2 DEF ListRouters
<1>5. CASE CountAdapters
  <2>1. names[Len(cache) + 1] \in Router
    BY <1>1, <1>2, <1>5 DEF CountAdapters
  <2>2. room' \in 0 .. MaxAdp
    BY <1>1, <1>5, <2>1, CountOfAdapters DEF CountAdapters, BusTyped
  <2> QED
    BY <1>1, <1>5, <2>2 DEF CountAdapters
<1>6. CASE get_router_regs
  <2> DEFINE d == IF top[names[Len(cache) + 1]] >= 0 THEN at[names[Len(cache) + 1]]
                  ELSE NoDevice
             e == [dev |-> d, adps |-> [a \in 0 .. room - 1 |-> Unset]]
  <2>1. Len(cache) < Len(names)
    BY <1>1, <1>6 DEF Filled, get_router_regs
  <2>2. d \in OrNone
    BY <1>1, <1>2, <2>1 DEF BusTyped, OrNone
  <2>3. e \in Entry
    BY <1>1, <2>2, AllocatedEntry
  <2>4. cache' = Append(cache, e)
    BY <1>6 DEF get_router_regs
  <2> HIDE DEF e
  <2>5. cache' \in Seq(Entry) /\ Len(cache') = Len(cache) + 1
    BY <1>1, <2>3, <2>4
  <2> QED
    BY <1>1, <1>2, <1>6, <2>1, <2>5 DEF get_router_regs
<1>7. CASE get_adps_config
  <2>1. CASE j >= room
    BY <1>1, <1>7, <2>1 DEF get_adps_config, LoopsTyped
  <2>2. CASE j < room
    BY <1>1, <1>7, <2>2, FillingElement DEF get_adps_config, IInv
  <2> QED
    BY <1>1, <2>1, <2>2 DEF LoopsTyped
<1>8. CASE get_router_config_item
  <2>1. hit' \in 0 .. Len(names)
    BY <1>1, <1>2, <1>8, RoutersCounted DEF get_router_config_item, Compared
  <2> QED
    BY <1>1, <1>8, <2>1 DEF get_router_config_item
<1>9. CASE RecountAdapters \/ NextEntry \/ LinkFound \/ lstbt_v
  BY <1>3, <1>9 DEF RecountAdapters, NextEntry, LinkFound, lstbt_v
<1>10. CASE is_adp_present \/ get_adp_config_item
  BY <1>3, <1>10 DEF is_adp_present, get_adp_config_item
<1>11. CASE Dump
  BY <1>3, <1>11 DEF Dump, dump_router_verbose, fill_adp_types_in_router, dump_header,
    dump_adapter, dump_line, AllPrinted
<1>12. CASE debugfs_config_exit \/ FreeEntry \/ AllFreed
  BY <1>3, <1>12 DEF debugfs_config_exit, FreeEntry, AllFreed
<1>13. CASE Bus
  BY <1>3, <1>13 DEF Bus, Plug, Show, Hide, Unplug, progVars
<1>14. CASE UNCHANGED vars
  BY <1>3, <1>14 DEF vars
<1> QED
  BY <1>4, <1>5, <1>6, <1>7, <1>8, <1>9, <1>10, <1>11, <1>12, <1>13, <1>14
    DEF Next, Program, debugfs_config_init, Lookup

\* The program's other variables keep theirs.
LEMMA LoopsTypedStep ==
  ASSUME IInv, [Next]_vars
  PROVE  LoopsTyped'
<1> USE AdaptersAssumption DEF LoopsTyped, Labels, Wild, initVars, lookupVars, typeVars, Goto
<1>1. LoopsTyped /\ Filled /\ Phases /\ ArraysTyped /\ BusTyped
  BY DEF IInv, Typed
<1>0. MaxAdp \in Nat /\ MaxAdp >= 1 /\ 1 \in 0 .. MaxAdp
  OBVIOUS
<1>2. CASE ListRouters \/ CountAdapters \/ get_router_regs \/ NextEntry \/ LinkFound
  BY <1>1, <1>2 DEF ListRouters, CountAdapters, get_router_regs, NextEntry, LinkFound
<1>3. CASE RecountAdapters
  <2>1. Filling \in Router
    BY <1>1, <1>3 DEF RecountAdapters, Filled, Filling, ArraysTyped
  <2>2. n' \in 0 .. MaxAdp
    BY <1>1, <1>3, <2>1, CountOfAdapters DEF RecountAdapters, BusTyped
  <2> QED
    BY <1>1, <1>3, <2>2 DEF RecountAdapters
<1>4. CASE get_adps_config
  BY <1>1, <1>4 DEF get_adps_config, Filled, ArraysTyped
<1>5. CASE lstbt_v
  <2>1. ASSUME NEW S \in SUBSET InSysfs, todo' \in Listings(S) PROVE todo' \in Seq(Decimal)
    <3>1. S \in SUBSET Router /\ S \subseteq Decimal
      BY RoutersCounted DEF InSysfs
    <3>2. todo' \in Seq(S)
      BY <2>1, <3>1, ListingIsComplete
    <3> QED
      BY <3>1, <3>2
  <2> QED
    BY <1>1, <1>5, <2>1 DEF lstbt_v
<1>6. CASE is_adp_present \/ get_router_config_item \/ get_adp_config_item
  BY <1>1, <1>6 DEF is_adp_present, get_router_config_item, get_adp_config_item
<1>7. CASE dump_router_verbose
  BY <1>1, <1>0, <1>7 DEF dump_router_verbose, TypesKept
<1>8. CASE fill_adp_types_in_router \/ dump_line
  <2>1. j' \in 0 .. MaxAdp
    BY <1>1, <1>0, <1>8 DEF fill_adp_types_in_router, dump_line, Phases, Asking, Increment
  <2> QED
    BY <1>1, <1>8, <2>1 DEF fill_adp_types_in_router, dump_line
<1>9. CASE dump_header \/ dump_adapter
  <2>1. todo # <<>>
    BY <1>1, <1>9 DEF dump_header, dump_adapter, Phases, Printing, Asking
  <2>2. Tail(todo) \in Seq(Decimal)
    BY <1>1, <2>1
  <2>3. j' \in 0 .. MaxAdp
    BY <1>1, <1>0, <1>9 DEF dump_header, dump_adapter
  <2> QED
    BY <1>1, <1>9, <2>2, <2>3 DEF dump_header, dump_adapter
<1>10. CASE AllPrinted \/ AllFreed
  BY <1>1, <1>10 DEF AllPrinted, AllFreed
<1>11. CASE debugfs_config_exit
  <2>1. InDebugfs \in SUBSET Router
    BY DEF InDebugfs
  <2> QED
    BY <1>1, <1>11, <2>1, FiniteNames DEF debugfs_config_exit
<1>12. CASE FreeEntry
  BY <1>1, <1>12 DEF FreeEntry
<1>13. CASE Bus
  BY <1>1, <1>13 DEF Bus, Plug, Show, Hide, Unplug, progVars
<1>14. CASE UNCHANGED vars
  BY <1>1, <1>14 DEF vars
<1> QED
  BY <1>2, <1>3, <1>4, <1>5, <1>6, <1>7, <1>8, <1>9, <1>10, <1>11, <1>12, <1>13, <1>14
    DEF Next, Program, debugfs_config_init, Lookup, Dump

\* Registers looked up keep theirs.
LEMMA ValuesTypedStep ==
  ASSUME IInv, [Next]_vars
  PROVE  ValuesTyped'
<1> USE DEF ValuesTyped, initVars, lookupVars, typeVars
<1>1. ValuesTyped /\ Filled /\ Phases /\ ArraysTyped /\ LoopsTyped
  BY DEF IInv, Typed
<1>2. ASSUME UNCHANGED <<answer, types>> PROVE ValuesTyped'
  BY <1>1, <1>2
<1>3. CASE debugfs_config_init
  BY <1>2, <1>3 DEF debugfs_config_init, ListRouters, CountAdapters, get_router_regs,
    RecountAdapters, get_adps_config, NextEntry
<1>4. CASE LinkFound \/ lstbt_v \/ debugfs_config_exit \/ FreeEntry \/ AllFreed
  BY <1>2, <1>4 DEF LinkFound, lstbt_v, debugfs_config_exit, FreeEntry, AllFreed
<1>5. CASE is_adp_present
  BY <1>1, <1>5 DEF is_adp_present, OrNone
<1>6. CASE get_router_config_item
  <2>1. ASSUME NEW k \in Compared PROVE cache[k].dev \in OrNone
    <3>1. k \in DOMAIN cache
      BY <1>1, <1>6, RoutersCounted
        DEF get_router_config_item, Compared, Filled, Complete, Printing, Asking, ArraysTyped
    <3>2. cache[k] \in Entry
      BY <1>1, <3>1 DEF ArraysTyped
    <3> QED
      BY <3>2, EntryFields
  <2>2. answer' \in OrNone /\ UNCHANGED types
    BY <1>1, <1>6, <2>1 DEF get_router_config_item, OrNone
  <2> QED
    BY <1>1, <2>2
<1>7. CASE get_adp_config_item
  <2>1. ASSUME j \in Written(cache[hit]) PROVE cache[hit].adps[j] \in OrNone
    <3>1. hit \in DOMAIN cache
      BY <1>1, <1>7 DEF get_adp_config_item, Filled, Phases, Complete, Printing, Asking, ArraysTyped
    <3>2. cache[hit] \in Entry
      BY <1>1, <3>1 DEF ArraysTyped
    <3>3. PICK m \in 0 .. MaxAdp : cache[hit].adps \in [0 .. m - 1 -> Content]
      BY <3>2, EntryFields
    <3> QED
      BY <2>1, <3>3 DEF Written, Content
  <2>2. answer' \in OrNone /\ UNCHANGED types
    BY <1>1, <1>7, <2>1 DEF get_adp_config_item, OrNone, LoopsTyped
  <2> QED
    BY <1>1, <2>2
<1>8. CASE fill_adp_types_in_router
  BY <1>1, <1>8 DEF fill_adp_types_in_router
<1>9. CASE dump_router_verbose \/ dump_header \/ dump_adapter \/ dump_line \/ AllPrinted
  BY <1>2, <1>9 DEF dump_router_verbose, dump_header, dump_adapter, dump_line, AllPrinted
<1>10. CASE Bus
  BY <1>2, <1>10 DEF Bus, Plug, Show, Hide, Unplug, progVars
<1>11. CASE UNCHANGED vars
  BY <1>2, <1>11 DEF vars
<1> QED
  BY <1>3, <1>4, <1>5, <1>6, <1>7, <1>8, <1>9, <1>10, <1>11 DEF Next, Program, Lookup, Dump

\* So does the bus.
LEMMA BusTypedStep ==
  ASSUME IInv, [Next]_vars
  PROVE  BusTyped'
<1> USE AdaptersAssumption DEF BusTyped, busVars, OrNone
<1>1. BusTyped
  BY DEF IInv, Typed
<1>2. ASSUME UNCHANGED <<at, top, plugs, changed, was>>, settled' \in BOOLEAN PROVE BusTyped'
  BY <1>1, <1>2
<1>3. CASE debugfs_config_init
  BY <1>1, <1>2, <1>3 DEF debugfs_config_init, ListRouters, CountAdapters, get_router_regs,
    RecountAdapters, get_adps_config, NextEntry
<1>4. CASE LinkFound \/ lstbt_v \/ debugfs_config_exit \/ FreeEntry \/ AllFreed
  BY <1>1, <1>2, <1>4 DEF LinkFound, lstbt_v, debugfs_config_exit, FreeEntry, AllFreed
<1>5. CASE Lookup
  BY <1>1, <1>2, <1>5 DEF Lookup, is_adp_present, get_router_config_item, get_adp_config_item
<1>6. CASE Dump
  BY <1>1, <1>2, <1>6 DEF Dump, dump_router_verbose, fill_adp_types_in_router, dump_header,
    dump_adapter, dump_line, AllPrinted
<1>7. ASSUME NEW r \in Router, NEW d \in Device, Plug(r, d) PROVE BusTyped'
  <2>1. at' \in [Router -> OrNone] /\ was' \in [Router -> SUBSET Device]
    BY <1>1, <1>7 DEF Plug
  <2>2. plugs' \in 0 .. MaxPlugs
    BY <1>1, <1>7 DEF Plug
  <2> QED
    BY <1>1, <1>7, <2>1, <2>2 DEF Plug
<1>8. ASSUME NEW r \in Router, Show(r) PROVE BusTyped'
  BY <1>1, <1>8 DEF Show, Going
<1>9. ASSUME NEW r \in Router, Hide(r) \/ Unplug(r) PROVE BusTyped'
  <2>1. top' \in [Router -> Going .. MaxAdp]
    BY <1>1, <1>9 DEF Hide, Unplug, Going, NoDir
  <2>2. at' \in [Router -> OrNone]
    BY <1>1, <1>9 DEF Hide, Unplug
  <2> QED
    BY <1>1, <1>9, <2>1, <2>2 DEF Hide, Unplug
<1>10. CASE UNCHANGED vars
  BY <1>1, <1>2, <1>10 DEF vars
<1> QED
  BY <1>3, <1>4, <1>5, <1>6, <1>7, <1>8, <1>9, <1>10 DEF Next, Program, Bus

\* ListRouters lists every name once, and no other step lists.
LEMMA DistinctStep ==
  ASSUME IInv, [Next]_vars
  PROVE  Distinct'
<1> USE DEF Distinct, initVars
<1>1. ASSUME UNCHANGED names PROVE Distinct'
  BY <1>1 DEF IInv
<1>2. CASE ListRouters
  <2>1. ASSUME names' \in Listings(InDebugfs) PROVE Distinct'
    <3>1. InDebugfs \in SUBSET Router
      BY DEF InDebugfs
    <3> QED
      BY <2>1, <3>1, ListingIsComplete
  <2> QED
    BY <1>1, <1>2, <2>1 DEF ListRouters
<1>3. CASE debugfs_config_init /\ ~ListRouters
  BY <1>1, <1>3 DEF debugfs_config_init, CountAdapters, get_router_regs, RecountAdapters,
    get_adps_config, NextEntry
<1>4. CASE LinkFound \/ lstbt_v \/ debugfs_config_exit \/ FreeEntry \/ AllFreed
  BY <1>1, <1>4 DEF LinkFound, lstbt_v, debugfs_config_exit, FreeEntry, AllFreed
<1>5. CASE Lookup
  BY <1>1, <1>5 DEF Lookup, is_adp_present, get_router_config_item, get_adp_config_item
<1>6. CASE Dump
  BY <1>1, <1>6 DEF Dump, dump_router_verbose, fill_adp_types_in_router, dump_header,
    dump_adapter, dump_line, AllPrinted
<1>7. CASE Bus
  BY <1>1, <1>7 DEF Bus, Plug, Show, Hide, Unplug, progVars
<1>8. CASE UNCHANGED vars
  BY <1>1, <1>8 DEF vars
<1> QED
  BY <1>2, <1>3, <1>4, <1>5, <1>6, <1>7, <1>8 DEF Next, Program

\* The arrays are filled one element after the other, to the count taken last.
LEMMA FilledStep ==
  ASSUME IInv, [Next]_vars
  PROVE  Filled'
<1> USE DEF Filled, Complete, Printing, Asking, Goto, initVars, lookupVars, typeVars
<1>1. Filled /\ ArraysTyped /\ LoopsTyped /\ BusTyped
  BY DEF IInv, Typed
<1>2. Len(cache) \in Nat /\ Len(names) \in Nat
  BY <1>1 DEF ArraysTyped
<1>3. CASE ListRouters \/ CountAdapters \/ LinkFound
  BY <1>1, <1>3 DEF ListRouters, CountAdapters, LinkFound
<1>4. CASE get_router_regs
  <2> DEFINE e == [dev  |-> IF top[names[Len(cache) + 1]] >= 0 THEN at[names[Len(cache) + 1]]
                            ELSE NoDevice,
                   adps |-> [a \in 0 .. room - 1 |-> Unset]]
  <2>1. cache' = Append(cache, e) /\ DOMAIN e.adps = 0 .. room - 1
    BY <1>4 DEF get_router_regs
  <2> HIDE DEF e
  <2>2. cache' # <<>> /\ cache'[Len(cache')] = e
    BY <1>1, <2>1 DEF ArraysTyped
  <2> QED
    BY <1>4, <2>1, <2>2 DEF get_router_regs
<1>5. CASE RecountAdapters
  <2>1. Filling \in Router
    BY <1>1, <1>5 DEF RecountAdapters, Filling, ArraysTyped
  <2>2. n' \in 0 .. MaxAdp /\ room \in Nat
    BY <1>1, <1>5, <2>1, CountOfAdapters, AdaptersAssumption
      DEF RecountAdapters, BusTyped, ArraysTyped
  <2> QED
    BY <1>1, <1>5, <2>2 DEF RecountAdapters
<1>6. CASE get_adps_config
  <2>1. CASE j < room
    <3>1. cache' # <<>> /\ DOMAIN cache'[Len(cache')].adps = 0 .. room - 1
      BY <1>1, <1>6, <2>1, FillingElement DEF IInv, get_adps_config
    <3>2. j' <= n /\ j' <= room
      BY <1>1, <1>6, <2>1 DEF get_adps_config, ArraysTyped, LoopsTyped
    <3> QED
      BY <1>1, <1>6, <3>1, <3>2 DEF get_adps_config
  <2> QED
    BY <1>1, <1>6, <2>1 DEF get_adps_config
<1>7. CASE NextEntry \/ lstbt_v
  BY <1>1, <1>7 DEF NextEntry, lstbt_v
<1>8. CASE debugfs_config_exit \/ FreeEntry \/ AllFreed
  BY <1>1, <1>8 DEF debugfs_config_exit, FreeEntry, AllFreed
<1>9. CASE Lookup
  BY <1>1, <1>9 DEF Lookup, is_adp_present, get_router_config_item, get_adp_config_item
<1>10. CASE Dump
  BY <1>1, <1>10 DEF Dump, dump_router_verbose, fill_adp_types_in_router, dump_header,
    dump_adapter, dump_line, AllPrinted
<1>11. CASE Bus
  BY <1>1, <1>11 DEF Bus, Plug, Show, Hide, Unplug, progVars
<1>12. CASE UNCHANGED vars
  BY <1>1, <1>12 DEF vars
<1> QED
  BY <1>3, <1>4, <1>5, <1>6, <1>7, <1>8, <1>9, <1>10, <1>11, <1>12
    DEF Next, Program, debugfs_config_init

\* A lookup goes through its steps for the adapter the loop is at.
LEMMA PhasesStep ==
  ASSUME IInv, [Next]_vars
  PROVE  Phases'
<1> USE DEF Phases, Printing, Asking, Goto, initVars, lookupVars, typeVars
<1>1. Phases /\ LoopsTyped /\ ValuesTyped
  BY DEF IInv, Typed
<1>2. MaxAdp \in Nat /\ MaxAdp >= 1 /\ 1 \in 1 .. MaxAdp
  BY AdaptersAssumption
<1>3. CASE debugfs_config_init
  BY <1>1, <1>3 DEF debugfs_config_init, ListRouters, CountAdapters, get_router_regs,
    RecountAdapters, get_adps_config, NextEntry
<1>4. CASE LinkFound \/ lstbt_v \/ debugfs_config_exit \/ FreeEntry \/ AllFreed
  BY <1>1, <1>4 DEF LinkFound, lstbt_v, debugfs_config_exit, FreeEntry, AllFreed
<1>5. CASE dump_router_verbose
  BY <1>1, <1>2, <1>5 DEF dump_router_verbose, TypesKept
<1>6. CASE is_adp_present
  BY <1>1, <1>6 DEF is_adp_present
<1>7. CASE get_router_config_item
  <2>1. ASSUME NEW k \in Compared, Matches(k)
        PROVE  k \in DOMAIN names /\ names[k] = current
    BY <2>1, RoutersCounted DEF Compared, Matches, IInv, Typed, ArraysTyped
  <2>2. phase # "header" /\ pc' = "lookup_adp" => hit' \in DOMAIN names /\ names[hit'] = current
    BY <1>7, <2>1 DEF get_router_config_item
  <2> QED
    BY <1>1, <1>7, <2>2 DEF get_router_config_item, current
<1>8. CASE get_adp_config_item
  BY <1>1, <1>8 DEF get_adp_config_item
<1>9. CASE fill_adp_types_in_router
  <2>1. CASE j < MaxAdp
    BY <1>1, <1>2, <1>9, <2>1 DEF fill_adp_types_in_router, Increment, LoopsTyped
  <2>2. CASE j = MaxAdp
    BY <1>1, <1>2, <1>9, <2>2 DEF fill_adp_types_in_router, LoopsTyped
  <2> QED
    BY <1>9, <2>1, <2>2 DEF fill_adp_types_in_router
<1>10. CASE dump_header
  BY <1>1, <1>2, <1>10 DEF dump_header
<1>11. CASE dump_adapter
  BY <1>1, <1>2, <1>11 DEF dump_adapter, LoopsTyped
<1>12. CASE dump_line
  BY <1>1, <1>2, <1>12 DEF dump_line, Increment, LoopsTyped
<1>13. CASE AllPrinted
  BY <1>1, <1>13 DEF AllPrinted
<1>14. CASE Bus
  BY <1>1, <1>14 DEF Bus, Plug, Show, Hide, Unplug, progVars, current
<1>15. CASE UNCHANGED vars
  BY <1>1, <1>15 DEF vars, current
<1> QED
  BY <1>3, <1>4, <1>5, <1>6, <1>7, <1>8, <1>9, <1>10, <1>11, <1>12, <1>13, <1>14, <1>15
    DEF Next, Program, Lookup, Dump

\* What is copied, and what a lookup answers, was at the name.
LEMMA CopiedStep ==
  ASSUME IInv, [Next]_vars
  PROVE  Copied'
<1> USE DEF Copied, Goto, initVars, lookupVars, typeVars, busVars
<1>1. Copied /\ Filled /\ Phases /\ ArraysTyped /\ LoopsTyped /\ BusTyped
  BY DEF IInv, Typed
<1>2. Len(cache) \in Nat /\ Len(names) \in Nat /\ DOMAIN cache = 1 .. Len(cache)
        /\ DOMAIN names = 1 .. Len(names)
  BY <1>1 DEF ArraysTyped
<1>3. ASSUME UNCHANGED <<names, cache, at, was>>,
             pc' = "answered" => answer' \in was[todo'[1]] \cup {NoDevice}
      PROVE  Copied'
  BY <1>1, <1>3 DEF current
<1>4. CASE ListRouters
  <2>1. cache' = <<>> /\ UNCHANGED <<at, was>> /\ pc' # "answered"
    BY <1>1, <1>4 DEF ListRouters, Filled
  <2> QED
    BY <1>1, <2>1
<1>5. CASE CountAdapters \/ RecountAdapters \/ NextEntry
  BY <1>3, <1>5 DEF CountAdapters, RecountAdapters, NextEntry
<1>6. CASE get_router_regs
  <2> DEFINE r == names[Len(cache) + 1]
             e == [dev  |-> IF top[r] >= 0 THEN at[r] ELSE NoDevice,
                   adps |-> [a \in 0 .. room - 1 |-> Unset]]
  <2>1. cache' = Append(cache, e) /\ UNCHANGED <<names, at, was>> /\ pc' # "answered"
    BY <1>6 DEF get_router_regs
  <2>2. r \in Router /\ Len(cache) < Len(names)
    <3>1. Len(cache) < Len(names)
      BY <1>1, <1>6 DEF Filled, get_router_regs
    <3>2. Len(cache) + 1 \in DOMAIN names
      BY <1>2, <3>1
    <3> QED
      BY <1>1, <3>1, <3>2 DEF ArraysTyped
  <2>3. /\ e.dev \in was[r] \cup {NoDevice}
        /\ \A a \in DOMAIN e.adps : e.adps[a] \in was[r] \cup {NoDevice, Unset}
    BY <1>1, <2>2
  <2> HIDE DEF e
  <2>4. /\ DOMAIN cache' = 1 .. Len(cache) + 1
        /\ cache'[Len(cache) + 1] = e
        /\ \A k \in DOMAIN cache : cache'[k] = cache[k]
    BY <1>1, <1>2, <2>1 DEF ArraysTyped
  <2>5. ASSUME NEW k \in DOMAIN cache'
        PROVE  /\ cache'[k].dev \in was[names[k]] \cup {NoDevice}
               /\ \A a \in DOMAIN cache'[k].adps :
                    cache'[k].adps[a] \in was[names[k]] \cup {NoDevice, Unset}
    <3>1. CASE k = Len(cache) + 1
      BY <2>3, <2>4, <3>1
    <3>2. CASE k # Len(cache) + 1
      <4>1. k \in DOMAIN cache
        BY <1>2, <2>4, <3>2
      <4> QED
        BY <1>1, <2>4, <4>1
    <3> QED
      BY <3>1, <3>2
  <2> QED
    BY <1>1, <2>1, <2>5
<1>7. CASE get_adps_config
  <2>1. CASE j < room
    <3> DEFINE L == Len(cache)
               v == IF HasPort(Filling, j) THEN at[Filling] ELSE NoDevice
    <3>1. UNCHANGED <<names, at, was>> /\ pc' = "fill"
      BY <1>7, <2>1, <1>1 DEF get_adps_config, LoopsTyped, ArraysTyped
    <3>2. /\ L \in DOMAIN cache /\ cache' \in Seq(Entry) /\ Len(cache') = Len(cache)
          /\ \A k \in DOMAIN cache : k # L => cache'[k] = cache[k]
          /\ cache'[L].dev = cache[L].dev
          /\ cache'[L].adps = [cache[L].adps EXCEPT ![j] = v]
      BY <1>1, <1>7, <2>1, FillingElement DEF IInv
    <3>3. Filling = names[L] /\ names[L] \in Router /\ v \in was[names[L]] \cup {NoDevice}
      BY <1>1, <1>2, <3>2 DEF Filling, ArraysTyped
    <3> HIDE DEF L, v
    <3>4. DOMAIN cache' = DOMAIN cache
      BY <1>2, <3>2 DEF L
    <3>5. \A a \in DOMAIN cache'[L].adps : cache'[L].adps[a] = v \/ cache'[L].adps[a] = cache[L].adps[a]
      BY <3>2
    <3> QED
      BY <1>1, <3>1, <3>2, <3>3, <3>4, <3>5
  <2>2. CASE ~(j < room)
    BY <1>1, <1>3, <1>7, <2>2 DEF get_adps_config, LoopsTyped, ArraysTyped
  <2> QED
    BY <2>1, <2>2
<1>8. CASE LinkFound \/ lstbt_v \/ debugfs_config_exit \/ FreeEntry \/ AllFreed
  BY <1>3, <1>8 DEF LinkFound, lstbt_v, debugfs_config_exit, FreeEntry, AllFreed
<1>9. CASE is_adp_present
  BY <1>3, <1>9 DEF is_adp_present
<1>10. CASE get_router_config_item
  <2>1. ASSUME NEW k \in Compared, Matches(k)
        PROVE  cache[k].dev \in was[current] \cup {NoDevice}
    <3>1. k \in DOMAIN cache /\ names[k] = current
      BY <1>1, <1>2, <1>10, <2>1, RoutersCounted
        DEF get_router_config_item, Compared, Matches, Filled, Complete, Printing, Asking
    <3> QED
      BY <1>1, <3>1
  <2>2. pc' = "answered" => answer' \in was[current] \cup {NoDevice}
    BY <1>10, <2>1 DEF get_router_config_item
  <2> QED
    BY <1>3, <1>10, <2>2 DEF get_router_config_item, current
<1>11. CASE get_adp_config_item
  <2>1. ASSUME j \in Written(cache[hit])
        PROVE  cache[hit].adps[j] \in was[current] \cup {NoDevice}
    <3>1. hit \in DOMAIN cache /\ names[hit] = current
      BY <1>1, <1>2, <1>11 DEF get_adp_config_item, Phases, Filled, Complete, Printing, Asking
    <3> QED
      BY <1>1, <2>1, <3>1 DEF Written
  <2>2. pc' = "answered" => answer' \in was[current] \cup {NoDevice}
    BY <1>1, <1>11, <2>1 DEF get_adp_config_item, LoopsTyped
  <2> QED
    BY <1>3, <1>11, <2>2 DEF get_adp_config_item, current
<1>12. CASE Dump
  BY <1>3, <1>12 DEF Dump, dump_router_verbose, fill_adp_types_in_router, dump_header,
    dump_adapter, dump_line, AllPrinted
<1>13. ASSUME NEW r \in Router, NEW d \in Device, Plug(r, d) PROVE Copied'
  <2>1. /\ UNCHANGED <<names, cache, todo, pc, answer>>
        /\ at' = [at EXCEPT ![r] = d] /\ was' = [was EXCEPT ![r] = @ \cup {d}]
    BY <1>13 DEF Plug, progVars
  <2>2. \A s \in Router : was[s] \subseteq was'[s] /\ at'[s] \in was'[s] \cup {NoDevice}
    BY <1>1, <2>1 DEF BusTyped
  <2>3. \A k \in DOMAIN cache : names[k] \in Router
    BY <1>1, <1>2 DEF ArraysTyped
  <2>4. pc = "answered" => current \in Router
    <3>1. ASSUME pc = "answered" PROVE current \in Decimal
      BY <1>1, <3>1 DEF Phases, Printing, Asking, LoopsTyped, current
    <3> QED
      BY <3>1, NamesAssumption
  <2> QED
    BY <1>1, <2>1, <2>2, <2>3, <2>4 DEF current
<1>14. ASSUME NEW r \in Router, Show(r) \/ Hide(r) PROVE Copied'
  BY <1>1, <1>3, <1>14 DEF Show, Hide, progVars, current
<1>15. ASSUME NEW r \in Router, Unplug(r) PROVE Copied'
  <2>1. /\ UNCHANGED <<names, cache, todo, pc, answer, was>>
        /\ at' = [at EXCEPT ![r] = NoDevice]
    BY <1>15 DEF Unplug, progVars
  <2> QED
    BY <1>1, <2>1 DEF BusTyped, current
<1>16. CASE UNCHANGED vars
  BY <1>1, <1>3, <1>16 DEF vars, current
<1> QED
  BY <1>4, <1>5, <1>6, <1>7, <1>8, <1>9, <1>10, <1>11, <1>12, <1>13, <1>14, <1>15, <1>16
    DEF Next, Program, Bus, debugfs_config_init, Lookup

\* A copy stays a copy while the cache and the current router are the same.
LEMMA CopyStays ==
  ASSUME NEW v, NEW a, IsCopy(v, a), UNCHANGED <<names, cache, todo>>
  PROVE  IsCopy(v, a)'
BY DEF IsCopy, current

\* The types are those of the current router.
LEMMA TypesFitStep ==
  ASSUME IInv, [Next]_vars
  PROVE  TypesFit'
<1> USE DEF Printing, Asking, Goto, initVars, lookupVars, typeVars
<1>1. TypesFit /\ Phases /\ Filled /\ ArraysTyped /\ LoopsTyped /\ ValuesTyped
  BY DEF IInv, Typed
<1>2. MaxAdp \in Nat /\ MaxAdp >= 1 /\ Adapters = 1 .. MaxAdp
  BY AdaptersAssumption DEF Adapters
<1>3. ASSUME pc' \notin Printing PROVE TypesFit'
  BY <1>3 DEF TypesFit
<1>4. ASSUME UNCHANGED <<pc, names, cache, todo, phase, j, types, answer>> PROVE TypesFit'
  BY <1>1, <1>4, CopyStays DEF TypesFit
<1>5. CASE debugfs_config_init
  BY <1>3, <1>5 DEF debugfs_config_init, ListRouters, CountAdapters, get_router_regs,
    RecountAdapters, get_adps_config, NextEntry
<1>6. CASE LinkFound \/ lstbt_v \/ debugfs_config_exit \/ FreeEntry \/ AllFreed \/ AllPrinted
  BY <1>3, <1>6 DEF LinkFound, lstbt_v, debugfs_config_exit, FreeEntry, AllFreed, AllPrinted
<1>7. CASE dump_router_verbose
  BY <1>7 DEF dump_router_verbose, TypesFit
<1>8. CASE is_adp_present
  <2>1. pc' = "answered" => answer' = NoDevice
    BY <1>8 DEF is_adp_present
  <2>2. UNCHANGED <<names, cache, todo, phase, j, types>> /\ pc \in Asking /\ pc' \in Asking
    BY <1>8 DEF is_adp_present
  <2>3. pc' = "answered" => IsCopy(answer, j)'
    BY <2>1 DEF IsCopy
  <2> QED
    BY <1>1, <2>2, <2>3, CopyStays DEF TypesFit
<1>9. CASE get_router_config_item
  <2>1. pc' = "answered" /\ phase # "header" => answer' = NoDevice
    BY <1>9 DEF get_router_config_item
  <2>2. /\ UNCHANGED <<names, cache, todo, phase, j, types>> /\ pc \in Asking
        /\ pc' \in Asking \/ pc' = "wild_lookup"
    BY <1>9 DEF get_router_config_item
  <2>3. pc' = "answered" /\ phase # "header" => IsCopy(answer, j)'
    BY <2>1 DEF IsCopy
  <2> QED
    BY <1>1, <2>2, <2>3, CopyStays DEF TypesFit
<1>10. CASE get_adp_config_item
  <2>1. pc' = "answered" => answer' \in {NoDevice, cache[hit].adps[j]}
    BY <1>10 DEF get_adp_config_item
  <2>2. /\ UNCHANGED <<names, cache, todo, phase, j, types>> /\ pc \in Asking
        /\ pc' \in Asking \/ pc' = "wild_lookup"
    BY <1>10 DEF get_adp_config_item
  <2>3. hit \in DOMAIN names /\ names[hit] = current
    BY <1>1, <1>10 DEF get_adp_config_item, Phases
  <2>4. pc' = "answered" => IsCopy(answer, j)'
    BY <2>1, <2>2, <2>3 DEF IsCopy, current
  <2> QED
    BY <1>1, <2>2, <2>4, CopyStays DEF TypesFit
<1>11. CASE fill_adp_types_in_router
  <2>1. /\ ~filled /\ j \in 1 .. MaxAdp /\ pc = "answered" /\ phase = "types"
        /\ UNCHANGED <<names, cache, todo>>
    BY <1>1, <1>11 DEF fill_adp_types_in_router, Phases
  <2>2. types' = [types EXCEPT ![j] = answer]
    BY <1>11, <2>1 DEF fill_adp_types_in_router
  <2>3. ASSUME NEW a \in 1 .. j PROVE IsCopy(types[a], a)'
    <3>1. CASE a = j
      <4>1. types'[a] = answer
        BY <1>1, <1>2, <2>1, <2>2, <3>1 DEF ValuesTyped
      <4>2. IsCopy(answer, a)
        BY <1>1, <2>1, <3>1 DEF TypesFit
      <4> QED
        BY <2>1, <4>1, <4>2 DEF IsCopy, current
    <3>2. CASE a # j
      <4>1. a \in 1 .. j - 1 /\ types'[a] = types[a]
        BY <1>1, <1>2, <2>1, <2>2, <3>2 DEF ValuesTyped
      <4>2. IsCopy(types[a], a)
        BY <1>1, <2>1, <4>1 DEF TypesFit
      <4> QED
        BY <2>1, <4>1, <4>2 DEF IsCopy, current
    <3> QED
      BY <3>1, <3>2
  <2>4. CASE j < MaxAdp
    <3>1. pc' = "present" /\ phase' = "types" /\ j' = j + 1
      BY <1>2, <1>11, <2>1, <2>4 DEF fill_adp_types_in_router, Increment
    <3> QED
      BY <2>1, <2>3, <3>1 DEF TypesFit
  <2>5. CASE j = MaxAdp
    <3>1. pc' = "lookup" /\ phase' = "header"
      BY <1>2, <1>11, <2>5 DEF fill_adp_types_in_router
    <3> QED
      BY <1>2, <2>3, <2>5, <3>1 DEF TypesFit
  <2> QED
    BY <1>11, <2>4, <2>5 DEF fill_adp_types_in_router
<1>12. CASE dump_header
  <2>1. CASE pc' = "router"
    BY <1>3, <2>1
  <2>2. CASE pc' # "router"
    <3>1. pc = "answered" /\ phase = "header" /\ pc' = "line" /\ UNCHANGED <<names, cache, todo, types>>
      BY <1>12, <2>2 DEF dump_header
    <3> QED
      BY <1>1, <3>1, CopyStays DEF TypesFit
  <2> QED
    BY <2>1, <2>2
<1>13. CASE dump_adapter
  <2>1. CASE pc' = "router"
    BY <1>3, <2>1
  <2>2. CASE pc' # "router"
    <3>1. /\ pc = "line" /\ phase = "lines" /\ pc' \in {"line", "present"}
          /\ UNCHANGED <<names, cache, todo, types, phase>>
      BY <1>1, <1>13, <2>2 DEF dump_adapter, Phases
    <3> QED
      BY <1>1, <3>1, CopyStays DEF TypesFit
  <2> QED
    BY <2>1, <2>2
<1>14. CASE dump_line
  <2>1. /\ pc = "answered" /\ phase = "lines" /\ pc' = "line"
        /\ UNCHANGED <<names, cache, todo, types, phase>>
    BY <1>14 DEF dump_line
  <2> QED
    BY <1>1, <2>1, CopyStays DEF TypesFit
<1>15. CASE Bus
  BY <1>4, <1>15 DEF Bus, Plug, Show, Hide, Unplug, progVars
<1>16. CASE UNCHANGED vars
  BY <1>4, <1>16 DEF vars
<1> QED
  BY <1>5, <1>6, <1>7, <1>8, <1>9, <1>10, <1>11, <1>12, <1>13, <1>14, <1>15, <1>16
    DEF Next, Program, Lookup, Dump

\* A directory shows up after its router and goes before it.
LEMMA AttachedStep ==
  ASSUME IInv, [Next]_vars
  PROVE  Attached'
<1> USE DEF Attached, busVars
<1>1. Attached /\ BusTyped
  BY DEF IInv, Typed
<1>2. ASSUME UNCHANGED <<at, top>> PROVE Attached'
  BY <1>1, <1>2
<1>3. CASE debugfs_config_init
  BY <1>2, <1>3 DEF debugfs_config_init, ListRouters, CountAdapters, get_router_regs,
    RecountAdapters, get_adps_config, NextEntry
<1>4. CASE LinkFound \/ lstbt_v \/ debugfs_config_exit \/ FreeEntry \/ AllFreed
  BY <1>2, <1>4 DEF LinkFound, lstbt_v, debugfs_config_exit, FreeEntry, AllFreed
<1>5. CASE Lookup
  BY <1>2, <1>5 DEF Lookup, is_adp_present, get_router_config_item, get_adp_config_item
<1>6. CASE Dump
  BY <1>2, <1>6 DEF Dump, dump_router_verbose, fill_adp_types_in_router, dump_header,
    dump_adapter, dump_line, AllPrinted
<1>7. ASSUME NEW r \in Router, NEW d \in Device, Plug(r, d) PROVE Attached'
  BY <1>1, <1>7, DevicesAssumption DEF Plug, BusTyped
<1>8. ASSUME NEW r \in Router, Show(r) \/ Hide(r) \/ Unplug(r) PROVE Attached'
  BY <1>1, <1>8 DEF Show, Hide, Unplug, BusTyped, Going, NoDir
<1>9. CASE UNCHANGED vars
  BY <1>2, <1>9 DEF vars
<1> QED
  BY <1>3, <1>4, <1>5, <1>6, <1>7, <1>8, <1>9 DEF Next, Program, Bus

\* Fewer ports are no more adapters.
LEMMA CountIsMonotone ==
  ASSUME NEW t \in Going .. MaxAdp
  PROVE  /\ Count(t) \in 0 .. MaxAdp
         /\ \A u \in Going .. t : Count(u) <= Count(t)
BY AdaptersAssumption DEF Count, Going

\* No count of a step reaches past an array, the program's steps first.
LEMMA BoundedProgram ==
  ASSUME IInv, Program, settled', pc' # "exit"
  PROVE  BoundedNow'
<1> USE DEF BoundedNow, Covered, Goto, Wild, initVars, lookupVars, typeVars, busVars
<1>1. Filled /\ Phases /\ Attached /\ ArraysTyped /\ LoopsTyped /\ BusTyped
  BY DEF IInv, Typed
<1>2. /\ Len(cache) \in Nat /\ Len(names) \in Nat /\ DOMAIN cache = 1 .. Len(cache)
      /\ DOMAIN names = 1 .. Len(names) /\ room \in Nat /\ j \in Nat /\ n \in Nat
  BY <1>1 DEF ArraysTyped, LoopsTyped
<1>3. ASSUME settled, pc \notin {"list", "exit"} PROVE BoundedNow
  BY <1>3 DEF IInv, Bounded
<1>4. \A k \in DOMAIN names : Count(top[names[k]]) \in 0 .. MaxAdp
  BY <1>1, CountIsMonotone DEF ArraysTyped, BusTyped
<1>5. \A r : get_total_adps_debugfs(r) = Count(top[r])
  BY DEF get_total_adps_debugfs, Count
<1>6. ASSUME UNCHANGED <<names, cache, at, top, settled>>,
             pc \notin {"list", "exit", "recount", "fill"},
             pc' \notin {"regs", "recount", "fill", "free"} \cup Wild
      PROVE  BoundedNow'
  BY <1>3, <1>6
<1>0. ASSUME pc \in {"recount", "fill"} PROVE Len(cache) \in DOMAIN names
  <2>1. cache # <<>> /\ cache \in Seq(Entry) /\ Len(cache) <= Len(names)
    BY <1>0, <1>1 DEF Filled, ArraysTyped
  <2>2. Len(cache) # 0
    BY <2>1
  <2> QED
    BY <1>2, <2>1, <2>2
<1>7. CASE ListRouters
  <2>1. /\ names' \in Listings(InDebugfs) /\ cache' = <<>> /\ pc' = "count"
        /\ UNCHANGED <<at, top>>
        /\ \A r \in Router : at[r] # NoDevice => top[r] = Ports[at[r]]
    BY <1>1, <1>7 DEF ListRouters, Filled
  <2>2. InDebugfs \in SUBSET Router
    BY DEF InDebugfs
  <2>3. \A r \in InDebugfs : \E k \in DOMAIN names' : names'[k] = r
    BY <2>1, <2>2, ListingIsComplete
  <2>4. ASSUME NEW r \in Router, at[r] # NoDevice PROVE r \in InDebugfs
    <3>1. at[r] \in Device
      BY <1>1, <2>4 DEF BusTyped, OrNone
    <3>2. Ports[at[r]] >= 0
      BY <3>1, AdaptersAssumption
    <3> QED
      BY <2>1, <2>4, <3>2 DEF InDebugfs
  <2> QED
    BY <2>1, <2>3, <2>4
<1>8. CASE CountAdapters
  <2>1. room' = Count(top[names[Len(cache) + 1]]) /\ pc = "count" /\ pc' = "regs"
        /\ UNCHANGED <<names, cache, at, top, settled>>
    BY <1>5, <1>8 DEF CountAdapters
  <2>2. room' <= room' /\ Len(cache) + 1 \in DOMAIN names
    BY <1>2, <1>4, <1>8, <2>1 DEF CountAdapters
  <2> QED
    BY <1>2, <1>3, <1>4, <2>1, <2>2
<1>9. CASE get_router_regs
  <2> DEFINE e == [dev  |-> IF top[names[Len(cache) + 1]] >= 0
                            THEN at[names[Len(cache) + 1]] ELSE NoDevice,
                   adps |-> [a \in 0 .. room - 1 |-> Unset]]
  <2>1. /\ cache' = Append(cache, e) /\ pc = "regs" /\ pc' = "recount"
        /\ UNCHANGED <<names, room, at, top, settled>>
    BY <1>9 DEF get_router_regs
  <2> HIDE DEF e
  <2>2. /\ Len(cache') = Len(cache) + 1 /\ DOMAIN cache' = 1 .. Len(cache) + 1
        /\ \A k \in DOMAIN cache : cache'[k] = cache[k]
    BY <1>1, <1>2, <2>1 DEF ArraysTyped
  <2>3. \A k \in DOMAIN cache' : k < Len(cache') => k \in DOMAIN cache
    BY <1>2, <2>2
  <2> QED
    BY <1>3, <2>1, <2>2, <2>3
<1>10. CASE RecountAdapters
  <2>1. /\ n' = Count(top[names[Len(cache)]]) /\ j' = 0 /\ pc = "recount" /\ pc' = "fill"
        /\ UNCHANGED <<names, cache, room, at, top, settled>>
    BY <1>5, <1>10 DEF RecountAdapters, Filling
  <2>2. Len(cache) \in DOMAIN names
    BY <1>0, <2>1
  <2>3. n' <= n' /\ n' <= room /\ 0 .. j' - 1 = {}
    BY <1>3, <1>4, <2>1, <2>2
  <2> QED
    BY <1>3, <2>1, <2>3
<1>11. CASE get_adps_config
  <2>1. BoundedNow /\ pc = "fill" /\ j < n /\ n <= room /\ j < room
    BY <1>2, <1>3, <1>11 DEF get_adps_config
  <2> DEFINE L == Len(cache)
             v == IF HasPort(Filling, j) THEN at[Filling] ELSE NoDevice
  <2>2. /\ pc' = "fill" /\ j' = j + 1 /\ UNCHANGED <<names, room, n, at, top, settled>>
    <3>1. ~(j >= room)
      BY <1>2, <2>1
    <3> QED
      BY <1>11, <3>1 DEF get_adps_config
  <2>3. /\ L \in DOMAIN cache /\ Len(cache') = L /\ cache' \in Seq(Entry)
        /\ j \in DOMAIN cache[L].adps
        /\ \A k \in DOMAIN cache : k # L => cache'[k] = cache[k]
        /\ cache'[L].adps = [cache[L].adps EXCEPT ![j] = v]
    BY <1>11, <2>1, FillingElement DEF IInv
  <2>4. v # Unset
    <3>1. Filling \in Router
      BY <1>1, <2>3 DEF Filling, ArraysTyped
    <3> QED
      BY <1>1, <3>1, DevicesAssumption DEF BusTyped, OrNone, NoDevice, Unset
  <2> HIDE DEF L, v
  <2>5. \A a \in 0 .. j : a \in 0 .. j - 1 \/ a = j
    BY <1>2
  <2>6. 0 .. j' - 1 \subseteq Written(cache'[L])
    BY <1>2, <2>1, <2>2, <2>3, <2>4, <2>5 DEF Written, L
  <2>7. DOMAIN cache' = DOMAIN cache
    BY <1>2, <2>3 DEF L
  <2> QED
    BY <1>2, <2>1, <2>2, <2>3, <2>6, <2>7 DEF L
<1>12. CASE NextEntry
  <2>1. BoundedNow /\ pc = "fill" /\ j >= n /\ pc' = "count"
        /\ UNCHANGED <<names, cache, at, top, settled>>
    BY <1>3, <1>12 DEF NextEntry
  <2>2. Len(cache) \in DOMAIN names
    BY <1>0, <2>1
  <2>3. 0 .. Count(top[names[Len(cache)]]) - 1 \subseteq 0 .. j - 1
    BY <1>2, <1>4, <2>1, <2>2
  <2>4. \A k \in DOMAIN cache : k < Len(cache) \/ k = Len(cache)
    BY <1>2
  <2>5. \A k \in DOMAIN cache : Covered(k)
    BY <2>1, <2>3, <2>4
  <2> QED
    BY <2>1, <2>5
<1>13. CASE LinkFound \/ AllFreed
  BY <1>13 DEF LinkFound, AllFreed
<1>14. CASE lstbt_v \/ is_adp_present
  BY <1>6, <1>14 DEF lstbt_v, is_adp_present
<1>15. CASE get_router_config_item
  <2>1. BoundedNow
    BY <1>3, <1>15 DEF get_router_config_item
  <2>2. \A r \in InSysfs : \E k \in DOMAIN names : names[k] = r
    BY <2>1, RoutersCounted DEF InSysfs
  <2>3. Cardinality(InSysfs) <= Len(names)
    BY <1>1, <2>2, RoutersCounted, CountIsBounded DEF ArraysTyped
  <2>4. ~(TotalRouters > Len(names))
    BY <1>2, <2>3, RoutersCounted DEF TotalRouters
  <2> QED
    BY <1>6, <1>15, <2>4 DEF get_router_config_item
<1>16. CASE get_adp_config_item
  <2>1. BoundedNow /\ pc = "lookup_adp"
    BY <1>3, <1>16 DEF get_adp_config_item
  <2>2. hit \in DOMAIN cache /\ hit \in DOMAIN names /\ names[hit] = current
    BY <1>1, <1>2, <2>1 DEF Phases, Filled, Complete, Printing, Asking
  <2> DEFINE total == Count(top[current])
  <2>3. 0 .. total - 1 \subseteq Written(cache[hit]) /\ total \in Nat
    BY <1>4, <2>1, <2>2
  <2> HIDE DEF total
  <2>4. 0 .. (IF j < total THEN j ELSE total - 1) \subseteq Written(cache[hit])
    BY <1>2, <2>3
  <2>5. get_total_adps_debugfs(current) = total
    BY <1>5 DEF total
  <2> QED
    BY <1>6, <1>16, <2>4, <2>5 DEF get_adp_config_item
<1>17. CASE Dump
  BY <1>6, <1>17 DEF Dump, dump_router_verbose, fill_adp_types_in_router, dump_header,
    dump_adapter, dump_line, AllPrinted
<1>18. CASE debugfs_config_exit
  <2>1. /\ BoundedNow /\ pc = "release" /\ pc' = "free" /\ n' = Cardinality(InDebugfs)
        /\ UNCHANGED <<names, cache, at, top, settled>>
    BY <1>3, <1>18 DEF debugfs_config_exit
  <2>2. InDebugfs \in SUBSET Router /\ \A r \in InDebugfs : at[r] # NoDevice
    BY <1>1 DEF InDebugfs, Attached, NoDir
  <2>3. n' <= Len(names)
    BY <1>1, <2>1, <2>2, CountIsBounded DEF ArraysTyped
  <2> QED
    BY <2>1, <2>3
<1>19. CASE FreeEntry
  <2>1. BoundedNow /\ pc = "free" /\ freed < n /\ n <= Len(names)
    BY <1>3, <1>19 DEF FreeEntry, MoreToFree
  <2>2. freed < Len(names) /\ freed + 1 \in DOMAIN cache
    BY <1>1, <1>2, <2>1 DEF Filled, Complete, LoopsTyped
  <2>3. Covered(freed + 1)
    BY <2>1, <2>2
  <2>4. pc' = "free" /\ UNCHANGED <<names, cache, n, at, top, settled>>
    BY <1>5, <1>19, <2>1, <2>2, <2>3 DEF FreeEntry
  <2> QED
    BY <2>1, <2>4
<1> QED
  BY <1>7, <1>8, <1>9, <1>10, <1>11, <1>12, <1>13, <1>14, <1>15, <1>16, <1>17, <1>18, <1>19
    DEF Program, debugfs_config_init, Lookup

\* Nor does a count after a router has gone.
LEMMA BoundedBus ==
  ASSUME IInv, Bus, settled', pc \notin {"list", "exit"}
  PROVE  BoundedNow'
<1> USE DEF BusTyped
<1>1. Attached /\ ArraysTyped /\ LoopsTyped /\ BusTyped /\ Filled
  BY DEF IInv, Typed
<1>2. PICK r \in Router : Show(r) \/ Hide(r) \/ Unplug(r)
  BY DEF Bus, Plug
<1>3. BoundedNow /\ UNCHANGED <<pc, names, cache, room, n, j>>
  BY <1>2 DEF IInv, Bounded, Show, Hide, Unplug, progVars, initVars
<1>4. ~Show(r)
  <2> SUFFICES ASSUME Show(r) PROVE FALSE
    OBVIOUS
  <2>1. at[r] # NoDevice /\ top[r] # Going /\ top[r] < Ports[at[r]]
    BY DEF Show
  <2>2. at[r] \in Device
    BY <1>1, <2>1 DEF OrNone
  <2>3. Ports[at[r]] \in Nat /\ top[r] = Ports[at[r]]
    BY <1>3, <2>1, <2>2, AdaptersAssumption DEF BoundedNow
  <2> QED
    BY <2>1, <2>3
<1>5. /\ \A s \in Router : at'[s] # NoDevice => at'[s] = at[s]
      /\ \A s \in Router : top'[s] = top[s] \/ (top'[s] = Going /\ at'[s] = at[s])
                             \/ (top'[s] = NoDir /\ at'[s] = NoDevice)
  BY <1>1, <1>2, <1>4 DEF Hide, Unplug
<1>6. \A s \in Router : Count(top'[s]) <= Count(top[s]) /\ Count(top'[s]) \in Nat
                          /\ Count(top[s]) \in Nat
  BY <1>1, <1>5, CountIsMonotone, AdaptersAssumption DEF Count, Going, NoDir
<1>7. /\ \A s \in Router : at'[s] # NoDevice => \E k \in DOMAIN names : names[k] = s
      /\ \A s \in Router : at'[s] # NoDevice => top'[s] \in {Ports[at'[s]], Going}
  BY <1>3, <1>5 DEF BoundedNow
<1>8. \A k \in DOMAIN names : names[k] \in Router
  BY <1>1 DEF ArraysTyped
<1>9. ASSUME NEW k \in DOMAIN cache, Covered(k) PROVE Covered(k)'
  <2>1. k \in DOMAIN names
    BY <1>1 DEF ArraysTyped
  <2>2. 0 .. Count(top'[names[k]]) - 1 \subseteq 0 .. Count(top[names[k]]) - 1
    BY <1>6, <1>8, <2>1
  <2> QED
    BY <1>3, <1>9, <2>2 DEF Covered
<1>10. cache \in Seq(Entry) /\ names \in Seq(Router) /\ Len(cache) <= Len(names)
         /\ room \in Nat /\ n \in Nat
  BY <1>1 DEF ArraysTyped, LoopsTyped
<1>11. pc = "regs" => Count(top'[names[Len(cache) + 1]]) <= room
  <2>1. ASSUME pc = "regs" PROVE Len(cache) + 1 \in DOMAIN names
    BY <1>1, <1>10, <2>1 DEF Filled
  <2> QED
    BY <1>3, <1>6, <1>8, <1>10, <2>1 DEF BoundedNow
<1>12. ASSUME pc \in {"recount", "fill"}
       PROVE  /\ Count(top'[names[Len(cache)]]) <= Count(top[names[Len(cache)]])
              /\ Count(top'[names[Len(cache)]]) \in Nat
              /\ Count(top[names[Len(cache)]]) \in Nat
  <2>1. cache # <<>>
    BY <1>1, <1>12 DEF Filled
  <2>2. Len(cache) \in DOMAIN names
    BY <1>10, <2>1
  <2> QED
    BY <1>6, <1>8, <2>2
<1>13. /\ pc = "recount" => Count(top'[names[Len(cache)]]) <= room
       /\ pc = "fill" => Count(top'[names[Len(cache)]]) <= n
  BY <1>3, <1>10, <1>12 DEF BoundedNow
<1> QED
  BY <1>3, <1>7, <1>9, <1>11, <1>13 DEF BoundedNow

-----------------------------------------------------------------------------
(* As long as nothing comes or goes *)

\* The program itself leaves the bus alone.
LEMMA ProgramLeavesBus ==
  ASSUME Program
  PROVE  UNCHANGED <<at, top, changed>> /\ (ListRouters \/ UNCHANGED settled)
BY DEF Program, debugfs_config_init, Lookup, Dump, ListRouters, CountAdapters, get_router_regs,
  RecountAdapters, get_adps_config, NextEntry, LinkFound, lstbt_v, dump_router_verbose,
  AllPrinted, is_adp_present, get_router_config_item, get_adp_config_item,
  fill_adp_types_in_router, dump_header, dump_adapter, dump_line, debugfs_config_exit,
  FreeEntry, AllFreed, busVars

\* A step after which nothing has changed is one of the program.
LEMMA QuietStays ==
  ASSUME IInv, Quiet, [Next]_vars, ~changed'
  PROVE  QuietNow /\ (Program \/ UNCHANGED vars)
<1>1. BusTyped
  BY DEF IInv, Typed
<1>2. CASE Program
  BY <1>2, ProgramLeavesBus DEF Quiet
<1>3. CASE UNCHANGED vars
  BY <1>3 DEF Quiet, vars, busVars
<1>4. ASSUME NEW r \in Router, NEW d \in Device, Plug(r, d) PROVE FALSE
  BY <1>4 DEF Plug
<1>5. ASSUME NEW r \in Router, Hide(r) PROVE FALSE
  BY <1>5 DEF Hide
<1>6. ASSUME NEW r \in Router, Show(r) PROVE FALSE
  <2>1. ~changed /\ at[r] \in Device /\ top[r] < Ports[at[r]]
    BY <1>1, <1>6 DEF Show, BusTyped, OrNone
  <2>2. top[r] = Ports[at[r]] /\ Ports[at[r]] \in Nat
    BY <1>6, <2>1, AdaptersAssumption DEF Show, Quiet, QuietNow, Steady
  <2> QED
    BY <2>1, <2>2
<1>7. ASSUME NEW r \in Router, Unplug(r) PROVE FALSE
  <2>1. ~changed /\ top[r] = Going
    BY <1>7 DEF Unplug
  <2>2. top[r] = NoDir \/ top[r] \in Nat
    BY <1>1, <2>1, AdaptersAssumption DEF Quiet, QuietNow, Steady, BusTyped, OrNone
  <2> QED
    BY <2>1, <2>2 DEF Going, NoDir
<1> QED
  BY <1>2, <1>3, <1>4, <1>5, <1>6, <1>7 DEF Next, Bus

\* A router that is there has all its ports.
LEMMA PortsOfPresent ==
  ASSUME IInv, Steady, NEW r \in Router
  PROVE  /\ at[r] # NoDevice => at[r] \in Device /\ top[r] \in 1 .. MaxAdp
         /\ at[r] = NoDevice => top[r] = NoDir
         /\ top[r] >= 0 <=> at[r] # NoDevice
<1>1. at[r] \in OrNone
  BY DEF IInv, Typed, BusTyped
<1> QED
  BY <1>1, AdaptersAssumption DEF Steady, OrNone, NoDir

\* The listing is of what is there, and so are the lists of what to print.
LEMMA AllListedStep ==
  ASSUME IInv, QuietNow, Program
  PROVE  AllListed'
<1> USE DEF initVars, lookupVars, typeVars, Goto
<1>1. AllListed /\ Steady /\ UNCHANGED at
  BY ProgramLeavesBus DEF QuietNow
<1>2. names \in Seq(Router) /\ todo \in Seq(Decimal)
  BY DEF IInv, Typed, ArraysTyped, LoopsTyped
<1>3. Present' = Present
  BY <1>1 DEF Present
<1>4. ASSUME UNCHANGED <<names, todo>>, pc \notin {"list", "exit"} \/ pc' = "exit"
      PROVE  AllListed'
  BY <1>1, <1>3, <1>4 DEF AllListed
<1>5. CASE ListRouters
  <2>1. CASE pc' = "exit" /\ UNCHANGED names
    BY <1>4, <1>5, <2>1 DEF ListRouters
  <2>2. CASE names' \in Listings(InDebugfs)
    <3>1. InDebugfs = Present
      BY <1>1, PortsOfPresent DEF InDebugfs, Present
    <3>2. Present \in SUBSET Router
      BY DEF Present
    <3>3. Len(names') = Cardinality(Present) /\ names' \in Seq(Present)
      BY <2>2, <3>1, <3>2, ListingIsComplete
    <3>4. \A k \in DOMAIN names' : at[names'[k]] # NoDevice
      BY <3>3 DEF Present
    <3>5. UNCHANGED todo
      BY <1>5 DEF ListRouters
    <3> QED
      BY <1>1, <1>3, <3>3, <3>4, <3>5 DEF AllListed
  <2> QED
    BY <1>5, <2>1, <2>2 DEF ListRouters
<1>6. CASE CountAdapters \/ get_router_regs \/ RecountAdapters \/ get_adps_config \/ NextEntry
  BY <1>4, <1>6 DEF CountAdapters, get_router_regs, RecountAdapters, get_adps_config, NextEntry
<1>7. CASE LinkFound \/ debugfs_config_exit \/ FreeEntry \/ AllFreed \/ Lookup
  BY <1>4, <1>7 DEF LinkFound, debugfs_config_exit, FreeEntry, AllFreed, Lookup,
    is_adp_present, get_router_config_item, get_adp_config_item
<1>8. CASE lstbt_v
  <2>1. CASE UNCHANGED todo
    BY <1>4, <1>8, <2>1 DEF lstbt_v
  <2>2. ASSUME NEW S \in SUBSET InSysfs, todo' \in Listings(S) PROVE AllListed'
    <3>1. S \in SUBSET Router /\ \A r \in S : at[r] # NoDevice
      BY RoutersCounted DEF InSysfs
    <3>2. todo' \in Seq(S)
      BY <2>2, <3>1, ListingIsComplete
    <3>3. \A k \in DOMAIN todo' : at[todo'[k]] # NoDevice
      BY <3>1, <3>2
    <3>4. UNCHANGED names /\ pc = "count"
      BY <1>8 DEF lstbt_v
    <3> QED
      BY <1>1, <1>3, <3>3, <3>4 DEF AllListed
  <2> QED
    BY <1>8, <2>1, <2>2 DEF lstbt_v
<1>9. CASE Dump
  <2>1. UNCHANGED names /\ pc \in {"router", "answered", "line"}
        /\ (todo' = todo \/ (todo' = Tail(todo) /\ pc \in Printing))
    BY <1>9 DEF Dump, dump_router_verbose, fill_adp_types_in_router, dump_header, dump_adapter,
      dump_line, AllPrinted, Printing, Asking
  <2>2. CASE todo' = todo
    BY <1>4, <2>1, <2>2
  <2>3. CASE todo' = Tail(todo) /\ pc \in Printing
    <3>1. todo # <<>>
      BY <2>3 DEF IInv, Phases
    <3>2. \A k \in DOMAIN Tail(todo) : k + 1 \in DOMAIN todo /\ Tail(todo)[k] = todo[k + 1]
      BY <1>2, <3>1
    <3> QED
      BY <1>1, <1>3, <2>1, <2>3, <3>2 DEF AllListed
  <2> QED
    BY <2>1, <2>2, <2>3
<1> QED
  BY <1>5, <1>6, <1>7, <1>8, <1>9 DEF Program, debugfs_config_init

\* What is copied is what stays there.
LEMMA FreshStep ==
  ASSUME IInv, QuietNow, Program
  PROVE  Fresh'
<1> USE DEF initVars, Goto
<1>1. Fresh /\ AllListed /\ Steady /\ UNCHANGED <<at, top>>
  BY ProgramLeavesBus DEF QuietNow
<1>2. ArraysTyped /\ Filled /\ LoopsTyped
  BY DEF IInv, Typed
<1>3. cache \in Seq(Entry) /\ names \in Seq(Router) /\ Len(cache) \in Nat
      /\ Len(cache) <= Len(names)
  BY <1>2 DEF ArraysTyped
<1>4. \A r, a : Adapter(r, a)' = Adapter(r, a)
  BY <1>1 DEF Adapter, HasPort
<1>5. ASSUME UNCHANGED <<names, cache>> PROVE Fresh'
  BY <1>1, <1>4, <1>5 DEF Fresh, Written
<1>6. CASE ListRouters
  <2>1. cache' = <<>>
    BY <1>2, <1>6 DEF ListRouters, Filled
  <2> QED
    BY <2>1 DEF Fresh
<1>7. CASE get_router_regs
  <2> DEFINE r == names[Len(cache) + 1]
             e == [dev |-> IF top[r] >= 0 THEN at[r] ELSE NoDevice,
                   adps |-> [a \in 0 .. room - 1 |-> Unset]]
  <2>1. cache' = Append(cache, e) /\ UNCHANGED names
    BY <1>7 DEF get_router_regs
  <2>2. Len(cache) + 1 \in DOMAIN names
    BY <1>2, <1>3, <1>7 DEF get_router_regs, Filled
  <2>3. r \in Router /\ at[r] # NoDevice
    BY <1>1, <1>3, <2>2 DEF AllListed
  <2>4. e.dev = at[r]
    BY <1>1, <2>3, PortsOfPresent
  <2>5. Written(e) = {}
    BY DEF Written
  <2>6. e \in Entry
    <3>1. e.dev \in OrNone
      BY <2>3, <2>4 DEF IInv, Typed, BusTyped
    <3> QED
      BY <1>2, <3>1, AllocatedEntry DEF ArraysTyped
  <2> HIDE DEF e
  <2>7. ASSUME NEW k \in DOMAIN cache'
        PROVE  \/ k \in DOMAIN cache /\ cache'[k] = cache[k]
               \/ k = Len(cache) + 1 /\ cache'[k] = e
    <3>1. DOMAIN cache' = 1 .. Len(cache) + 1
      BY <1>3, <2>1, <2>6
    <3>2. k \in 1 .. Len(cache) \/ k = Len(cache) + 1
      BY <1>3, <3>1
    <3> QED
      BY <1>3, <2>1, <2>6, <3>2
  <2>8. ASSUME NEW k \in DOMAIN cache'
        PROVE  /\ cache'[k].dev = at[names[k]]
               /\ \A a \in Written(cache'[k]) : cache'[k].adps[a] = Adapter(names[k], a)
    <3>1. CASE k \in DOMAIN cache /\ cache'[k] = cache[k]
      BY <1>1, <3>1 DEF Fresh
    <3>2. CASE k = Len(cache) + 1 /\ cache'[k] = e
      BY <2>4, <2>5, <3>2
    <3> QED
      BY <2>7, <3>1, <3>2
  <2>9. at' = at /\ names' = names
    BY <1>1, <2>1
  <2> QED
    BY <1>4, <2>8, <2>9 DEF Fresh, Written
<1>8. CASE get_adps_config
  <2>1. CASE UNCHANGED cache
    BY <1>5, <1>8, <2>1 DEF get_adps_config
  <2>2. CASE j < room
    <3> DEFINE L == Len(cache)
    <3>1. /\ L \in DOMAIN cache /\ Len(cache') = L /\ cache' \in Seq(Entry)
          /\ \A k \in DOMAIN cache : k # L => cache'[k] = cache[k]
          /\ cache'[L].dev = cache[L].dev
          /\ cache'[L].adps = [cache[L].adps EXCEPT ![j] = Adapter(names[L], j)]
      BY <1>8, <2>2, FillingElement DEF IInv, Adapter, Filling
    <3>2. DOMAIN cache' = DOMAIN cache /\ UNCHANGED names
      BY <1>3, <1>8, <3>1 DEF get_adps_config
    <3> HIDE DEF L
    <3>3. ASSUME NEW a \in Written(cache'[L])
          PROVE  cache'[L].adps[a] = Adapter(names[L], a)
      <4>1. CASE a = j
        BY <3>1, <3>3, <4>1 DEF Written
      <4>2. CASE a # j
        <5>1. a \in Written(cache[L]) /\ cache'[L].adps[a] = cache[L].adps[a]
          BY <3>1, <3>3, <4>2 DEF Written
        <5> QED
          BY <1>1, <3>1, <5>1 DEF Fresh
      <4> QED
        BY <4>1, <4>2
    <3>4. ASSUME NEW k \in DOMAIN cache
          PROVE  /\ cache'[k].dev = at[names[k]]
                 /\ \A a \in Written(cache'[k]) : cache'[k].adps[a] = Adapter(names[k], a)
      <4>1. CASE k = L
        BY <1>1, <3>1, <3>3, <4>1 DEF Fresh
      <4>2. CASE k # L
        <5>1. cache'[k] = cache[k]
          BY <3>1, <4>2
        <5> QED
          BY <1>1, <5>1 DEF Fresh
      <4> QED
        BY <4>1, <4>2
    <3>5. at' = at /\ names' = names
      BY <1>1, <3>2
    <3> QED
      BY <1>4, <3>2, <3>4, <3>5 DEF Fresh, Written
  <2> QED
    BY <1>8, <2>1, <2>2 DEF get_adps_config
<1>9. CASE CountAdapters \/ RecountAdapters \/ NextEntry \/ LinkFound \/ lstbt_v
  BY <1>5, <1>9 DEF CountAdapters, RecountAdapters, NextEntry, LinkFound, lstbt_v
<1>10. CASE Lookup
  BY <1>5, <1>10 DEF Lookup, is_adp_present, get_router_config_item, get_adp_config_item
<1>11. CASE Dump
  BY <1>5, <1>11 DEF Dump, dump_router_verbose, fill_adp_types_in_router, dump_header,
    dump_adapter, dump_line, AllPrinted
<1>12. CASE debugfs_config_exit \/ FreeEntry \/ AllFreed
  BY <1>5, <1>12 DEF debugfs_config_exit, FreeEntry, AllFreed
<1> QED
  BY <1>6, <1>7, <1>8, <1>9, <1>10, <1>11, <1>12 DEF Program, debugfs_config_init

\* The search of a router compares every entry and ends at the router's own.
LEMMA RouterIsFound ==
  ASSUME IInv, QuietNow, get_router_config_item, pc' = "answered" \/ pc' = "lookup_adp"
  PROVE  /\ UNCHANGED answer \/ answer' \in {NoDevice, at[current]}
         /\ phase = "header" => pc' = "answered"
         /\ Present \subseteq Decimal => pc' = (IF phase = "header" THEN "answered" ELSE "lookup_adp")
                                           /\ answer' = at[current]
<1>1. /\ pc = "lookup" /\ ArraysTyped /\ Filled /\ Phases /\ LoopsTyped
      /\ settled /\ AllListed /\ Fresh /\ BoundedNow /\ Steady
  BY DEF get_router_config_item, IInv, Typed, QuietNow, Bounded
<1>2. Len(cache) = Len(names) /\ todo # <<>> /\ names \in Seq(Router) /\ cache \in Seq(Entry)
  BY <1>1 DEF Filled, Complete, Printing, Asking, Phases, ArraysTyped
<1>3. TotalRouters \in Nat
  BY RoutersCounted
<1>4. ASSUME NEW k \in Compared, Matches(k) PROVE cache[k].dev = at[current]
  <2>1. k \in DOMAIN cache /\ names[k] = current
    BY <1>2, <1>3, <1>4 DEF Compared, Matches
  <2> QED
    BY <1>1, <2>1 DEF Fresh
<1>5. ASSUME Present \subseteq Decimal PROVE \E k \in Compared : Matches(k)
  <2>1. InSysfs = Present
    BY <1>5, NamesAssumption DEF InSysfs, Present
  <2>2. TotalRouters = Len(names)
    BY <1>1, <2>1 DEF TotalRouters, AllListed
  <2>3. Compared = DOMAIN names
    BY <1>2, <2>2 DEF Compared
  <2>4. current \in Router /\ at[current] # NoDevice
    <3>1. 1 \in DOMAIN todo /\ todo[1] \in Decimal
      BY <1>1, <1>2 DEF LoopsTyped
    <3> QED
      BY <1>1, <3>1, NamesAssumption DEF AllListed, current
  <2> QED
    BY <1>1, <2>3, <2>4 DEF BoundedNow, Matches
<1> QED
  BY <1>4, <1>5, Zenon DEF get_router_config_item, Goto

\* A lookup asks for what is there and finds it.
LEMMA AskedStep ==
  ASSUME IInv, QuietNow, Program
  PROVE  Asked'
<1> USE DEF Goto, initVars, lookupVars, typeVars
<1>1. Asked /\ Phases /\ LoopsTyped /\ UNCHANGED <<at, top>>
  BY ProgramLeavesBus DEF QuietNow, IInv, Typed
<1>2. Present' = Present /\ \A r, a : Adapter(r, a)' = Adapter(r, a) /\ HasPort(r, a)' = HasPort(r, a)
  BY <1>1 DEF Present, Adapter, HasPort
<1>3. ASSUME pc' \notin Asking PROVE Asked'
  BY <1>3 DEF Asked, Asking
<1>4. CASE debugfs_config_init
  BY <1>3, <1>4 DEF debugfs_config_init, ListRouters, CountAdapters, get_router_regs,
    RecountAdapters, get_adps_config, NextEntry, Asking
<1>5. CASE LinkFound \/ lstbt_v \/ debugfs_config_exit \/ FreeEntry \/ AllFreed \/ AllPrinted
  BY <1>3, <1>5 DEF LinkFound, lstbt_v, debugfs_config_exit, FreeEntry, AllFreed, AllPrinted, Asking
<1>6. CASE dump_header \/ dump_line
  BY <1>3, <1>6 DEF dump_header, dump_line, Asking
<1>7. CASE dump_router_verbose
  BY <1>7 DEF dump_router_verbose, Asked
<1>8. CASE fill_adp_types_in_router
  BY <1>1, <1>8 DEF fill_adp_types_in_router, Asked
<1>9. CASE dump_adapter
  BY <1>1, <1>9 DEF dump_adapter, Asked, Phases
<1>10. CASE is_adp_present
  <2>1. pc = "present" /\ phase # "header" /\ UNCHANGED <<phase, j, todo>>
    BY <1>1, <1>10 DEF is_adp_present, Asked
  <2>2. CASE HasPort(current, j) /\ pc' = "lookup"
    BY <1>1, <1>2, <2>1, <2>2 DEF Asked, current
  <2>3. CASE ~HasPort(current, j) /\ pc' = "answered" /\ answer' = NoDevice
    BY <1>1, <1>2, <2>1, <2>3 DEF Asked, current, Adapter
  <2> QED
    BY <1>10, <2>2, <2>3 DEF is_adp_present
<1>11. CASE get_router_config_item
  <2>1. pc = "lookup" /\ UNCHANGED <<phase, j, todo>>
    BY <1>11 DEF get_router_config_item
  <2>2. pc' \in {"answered", "lookup_adp", "wild_lookup"}
    BY <1>11 DEF get_router_config_item
  <2>3. CASE pc' = "wild_lookup"
    BY <1>3, <2>3 DEF Asking
  <2>4. CASE pc' = "answered"
    BY <1>1, <1>2, <1>11, <2>1, <2>4, RouterIsFound DEF Asked, current
  <2>5. CASE pc' = "lookup_adp"
    BY <1>1, <1>2, <1>11, <2>1, <2>5, RouterIsFound DEF Asked, current
  <2> QED
    BY <2>2, <2>3, <2>4, <2>5
<1>12. CASE get_adp_config_item
  <2>1. /\ pc = "lookup_adp" /\ UNCHANGED <<phase, j, todo>>
        /\ phase # "header" /\ hit \in DOMAIN names /\ names[hit] = current
    BY <1>1, <1>12 DEF get_adp_config_item, Phases
  <2>2. pc' \in {"answered", "wild_lookup"}
    BY <1>12 DEF get_adp_config_item
  <2>3. CASE pc' = "wild_lookup"
    BY <1>3, <2>3 DEF Asking
  <2>4. ASSUME pc' = "answered", j < MaxAdp PROVE answer' = Adapter(current, j)
    <3>1. HasPort(current, j) /\ top[current] \in Going .. MaxAdp /\ j \in Nat
      <4>1. todo # <<>> /\ todo \in Seq(Decimal)
        BY <1>1, <2>1 DEF Phases, Printing, Asking, LoopsTyped
      <4>2. current \in Router
        <5>1. todo[1] \in Decimal
          BY <4>1
        <5> QED
          BY <5>1, NamesAssumption DEF current
      <4> QED
        BY <1>1, <2>1, <4>2 DEF Asked, IInv, Typed, BusTyped, LoopsTyped
    <3>2. j < get_total_adps_debugfs(current)
      BY <2>4, <3>1, AdaptersAssumption DEF get_total_adps_debugfs, HasPort, Going
    <3>3. answer' = cache[hit].adps[j] /\ j \in Written(cache[hit])
      <4>1. j \in 0 .. j
        BY <3>1
      <4> QED
        BY <1>12, <2>4, <3>2, <4>1 DEF get_adp_config_item
    <3>4. hit \in DOMAIN cache
      BY <2>1 DEF IInv, Typed, ArraysTyped, Filled, Complete, Printing, Asking
    <3> QED
      BY <2>1, <3>3, <3>4 DEF QuietNow, Fresh
  <2>5. CASE pc' = "answered"
    <3>1. j < MaxAdp => answer' = Adapter(current, j)
      BY <2>4, <2>5
    <3> QED
      BY <1>2, <2>1, <2>5, <3>1 DEF Asked, current
  <2> QED
    BY <2>2, <2>3, <2>5
<1> QED
  BY <1>4, <1>5, <1>6, <1>7, <1>8, <1>9, <1>10, <1>11, <1>12 DEF Program, Lookup, Dump

\* Nothing is stale before something comes or goes.
LEMMA QuietStep == IInv /\ Quiet /\ [Next]_vars => Quiet'
<1> SUFFICES ASSUME IInv, Quiet, [Next]_vars, ~changed' PROVE QuietNow'
  BY DEF Quiet
<1>1. QuietNow /\ (Program \/ UNCHANGED vars)
  BY QuietStays
<1>2. CASE UNCHANGED vars
  BY <1>1, <1>2 DEF vars, initVars, lookupVars, busVars, QuietNow, Steady, AllListed, Fresh, Asked,
    Present, Adapter, HasPort, Written, current
<1>3. CASE Program
  <2>1. Steady' /\ UNCHANGED <<at, top>>
    BY <1>1, <1>3, ProgramLeavesBus DEF QuietNow, Steady
  <2>2. ASSUME ListRouters PROVE settled'
    BY <1>1, <2>2 DEF ListRouters, QuietNow, Steady
  <2>3. settled'
    BY <1>1, <1>3, <2>2, ProgramLeavesBus DEF QuietNow
  <2> QED
    BY <1>1, <1>3, <2>1, <2>3, AllListedStep, FreshStep, AskedStep DEF QuietNow
<1> QED
  BY <1>1, <1>2, <1>3

-----------------------------------------------------------------------------
(* The theorems *)

\* The program begins with nothing listed and no router half there.
LEMMA InitHolds == Init => IInv
<1> SUFFICES ASSUME Init PROVE IInv
  OBVIOUS
<1> USE AdaptersAssumption, DevicesAssumption DEF Init
<1>1. ArraysTyped
  <2>1. names \in Seq(Router) /\ cache \in Seq(Entry) /\ Len(names) = 0 /\ Len(cache) = 0
    OBVIOUS
  <2> QED
    BY <2>1 DEF ArraysTyped
<1>7. LoopsTyped
  <2>1. todo \in Seq(Decimal) /\ 0 \in 0 .. MaxAdp /\ 0 \in Nat
    OBVIOUS
  <2>2. /\ pc = "list" /\ n = 0 /\ j = 0 /\ phase = "types" /\ filled = FALSE /\ freed = 0
    OBVIOUS
  <2> QED
    BY <2>1, <2>2, Zenon DEF LoopsTyped, Labels
<1>8. ValuesTyped
  BY DEF ValuesTyped, OrNone
<1>2. at \in [Router -> OrNone]
  BY DEF OrNone
<1>3. top \in [Router -> Going .. MaxAdp]
  BY <1>2 DEF Going, NoDir, OrNone
<1>4. BusTyped
  <2>1. was \in [Router -> SUBSET Device]
    BY <1>2 DEF OrNone
  <2>2. 0 \in 0 .. MaxPlugs
    OBVIOUS
  <2>3. plugs \in 0 .. MaxPlugs /\ changed \in BOOLEAN /\ settled \in BOOLEAN
    BY <2>2, Zenon
  <2> QED
    BY <1>2, <1>3, <2>1, <2>3, Zenon DEF BusTyped
<1>5. Distinct /\ Filled /\ Phases /\ TypesFit /\ Bounded
  BY DEF Distinct, Filled, Phases, TypesFit, Bounded, Complete, Printing, Asking
<1>6. Copied /\ Attached
  BY <1>2 DEF Copied, Attached
<1> QED
  BY <1>1, <1>4, <1>5, <1>6, <1>7, <1>8 DEF IInv, Typed

\* The invariant is inductive.
LEMMA StepHolds == IInv /\ [Next]_vars => IInv'
<1> SUFFICES ASSUME IInv, [Next]_vars PROVE IInv'
  OBVIOUS
<1>1. Typed'
  BY ArraysTypedStep, LoopsTypedStep, ValuesTypedStep, BusTypedStep DEF Typed
<1>2. Bounded'
  <2>1. CASE Program
    BY <2>1, BoundedProgram DEF Bounded
  <2>2. CASE Bus
    <3>1. pc \notin {"exit"} /\ pc' = pc
      BY <2>2 DEF Bus, Plug, Show, Hide, Unplug, Ended, progVars
    <3> QED
      BY <2>2, <3>1, BoundedBus DEF Bounded
  <2>3. CASE UNCHANGED vars
    BY <2>3 DEF vars, initVars, busVars, IInv, Bounded, BoundedNow, Covered
  <2> QED
    BY <2>1, <2>2, <2>3 DEF Next
<1> QED
  BY <1>1, <1>2, DistinctStep, FilledStep, PhasesStep, CopiedStep, TypesFitStep, AttachedStep
    DEF IInv

\* Every variable of the program and of the bus keeps its type.
THEOREM TypeCorrect == Spec => []TypeOK
<1>1. IInv => TypeOK
  <2> SUFFICES ASSUME IInv PROVE TypeOK
    OBVIOUS
  <2>1. ASSUME NEW k \in DOMAIN cache
        PROVE  /\ cache[k].dev \in OrNone
               /\ cache[k].adps \in [DOMAIN cache[k].adps -> OrNone \cup {Unset}]
    <3>1. cache[k] \in Entry
      BY DEF IInv, Typed, ArraysTyped
    <3> QED
      BY <3>1, EntryFields DEF Content
  <2> QED
    BY <2>1 DEF IInv, Typed, ArraysTyped, LoopsTyped, ValuesTyped, BusTyped, TypeOK, Labels
<1> QED
  BY InitHolds, StepHolds, <1>1, PTL DEF Spec

\* A lookup of lstbt -v that does not fail gives what was copied from a router
\* that stood under the name asked for, however routers come and go.
THEOREM AnswersAreOfTheirRouter == Spec => []AnswerIsOfRouter
<1>1. IInv => AnswerIsOfRouter
  BY DEF IInv, Copied, AnswerIsOfRouter
<1> QED
  BY InitHolds, StepHolds, <1>1, PTL DEF Spec

\* The type an adapter is printed under and the registers printed are of one
\* device: adp_types is dropped before the next router.
THEOREM TypesFitAnswers == Spec => []TypeFitsAnswer
<1>1. IInv => TypeFitsAnswer
  <2> SUFFICES ASSUME IInv, pc = "answered", phase = "lines", answer # NoDevice
               PROVE  types[j] = answer
    BY DEF TypeFitsAnswer
  <2>1. j \in Adapters /\ types[j] # NoDevice
    BY AdaptersAssumption DEF IInv, Phases, Asking, Adapters
  <2>2. IsCopy(types[j], j) /\ IsCopy(answer, j)
    BY <2>1 DEF IInv, TypesFit, Printing, Asking
  <2> QED
    BY <2>1, <2>2 DEF IsCopy, IInv, Distinct
<1> QED
  BY InitHolds, StepHolds, <1>1, PTL DEF Spec

\* The counts taken while filling, looking up and freeing stay inside the arrays
\* allocated by earlier ones while routers are only unplugged.
THEOREM NoAccessIsWild == Spec => []NoWildAccess
<1>1. IInv => NoWildAccess
  BY DEF IInv, Bounded, BoundedNow, NoWildAccess, Wild
<1> QED
  BY InitHolds, StepHolds, <1>1, PTL DEF Spec

\* When nothing comes or goes and no name has a letter in it, a lookup of
\* lstbt -v gives the registers of exactly what is there, for any number of
\* routers and adapters below the last.
THEOREM QuietAnswersAreRight == Spec => []QuietAnswer
<1>1. Init => Quiet
  <2> SUFFICES ASSUME Init PROVE QuietNow
    BY DEF Quiet
  <2>1. settled /\ Steady
    BY DEF Init, Steady
  <2>2. names = <<>> /\ todo = <<>> /\ cache = <<>> /\ pc = "list"
    BY DEF Init
  <2> QED
    BY <2>1, <2>2 DEF QuietNow, AllListed, Fresh, Asked
<1>2. Quiet => QuietAnswer
  BY DEF Quiet, QuietNow, Asked, QuietAnswer, Present, Adapter
<1> QED
  BY InitHolds, StepHolds, QuietStep, <1>1, <1>2, PTL DEF Spec
=============================================================================
