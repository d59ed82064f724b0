---------------------------- MODULE DebugfsCache ----------------------------
(***************************************************************************)
(* The debugfs cache of lstbt -v (lib/helpers.c): debugfs_config_init()    *)
(* copies the registers of all routers and of their adapters, lstbt_v()    *)
(* looks registers up in the copy, and debugfs_config_exit() frees it.     *)
(* Each of the three counts routers and adapters again, by running ls, and *)
(* trusts that count as the length of arrays that were allocated with an   *)
(* earlier one, while routers are plugged and unplugged.                   *)
(*                                                                         *)
(* The cache of adapter types (lib/adapter.c) lives on top: it is filled   *)
(* for one router and dropped before the next one is printed.              *)
(*                                                                         *)
(* What is copied of a router or an adapter is one value, the device it    *)
(* was copied from.                                                        *)
(***************************************************************************)
EXTENDS Integers, FiniteSets, Sequences

CONSTANTS
  Router,    \* names of routers, as numbers in the order ls prints them
  Decimal,   \* names without a hexadecimal letter: is_router_format()
  Device,    \* routers that can be plugged in
  MaxAdp,    \* highest adapter number (63)
  Ports,     \* highest adapter of each device
  MaxPlugs   \* bound on routers plugged in while lstbt runs

NoDevice == "no device"
Unset    == "not initialised"

ASSUME NamesAssumption ==
  Router \subseteq Nat /\ IsFiniteSet(Router) /\ Decimal \subseteq Router
ASSUME DevicesAssumption == NoDevice \notin Device /\ Unset \notin Device
ASSUME AdaptersAssumption ==
  /\ MaxAdp \in Nat \ {0}
  /\ Ports \in [Device -> 1 .. MaxAdp]
  /\ MaxPlugs \in Nat

VARIABLES
  \* the program
  pc,       \* next step
  names,    \* routers listed by debugfs_config_init(): the array allocated
  cache,    \* entries filled so far
  room,     \* adapters counted before the adapter array is allocated
  n,        \* the count the loop at hand goes by
  j,        \* the adapter the loop at hand is at
  todo,     \* routers still to print, the current one first
  phase,    \* what a lookup is for: "types", "header" or "lines"
  hit,      \* entry of the current router
  answer,   \* what the lookup returned, NoDevice for ~0
  types,    \* adp_types: device whose adapter gave the type
  filled,   \* are_adp_types_filled
  freed,    \* entries freed
  \* the bus
  at,       \* device at each name, NoDevice when sysfs does not list it
  top,      \* highest port in the router's debugfs directory
  plugs,    \* routers plugged in
  changed,  \* a router came or went
  settled,  \* none has come since the routers were listed, nor was coming or
            \* going then
  was       \* devices each name has stood for

initVars   == <<names, cache, room>>
lookupVars == <<phase, hit, answer>>
typeVars   == <<types, filled>>
busVars    == <<at, top, plugs, changed, was, settled>>
vars == <<pc, initVars, n, j, todo, lookupVars, typeVars, freed, busVars>>

-----------------------------------------------------------------------------
NoDir    == -1     \* no debugfs directory yet
Going    == -2     \* no debugfs directory any more
Adapters == 1 .. MaxAdp

\* The one sequence of a set of names in the order ls prints them.
Listings(S) == {s \in [1 .. Cardinality(S) -> S] :
                  \A k, m \in DOMAIN s : k < m => s[k] < s[m]}

\* What ls prints in debugfs, and what is_router_format() accepts in sysfs.
InDebugfs == {r \in Router : top[r] >= 0}
InSysfs   == {r \in Decimal : at[r] # NoDevice}

\* Variant: the search starts at the highest number.
get_total_adps_debugfs_Full(r) == IF top[r] <= 0 THEN 0 ELSE top[r] + 1

\* The search starts one below the highest number.
get_total_adps_debugfs(r) ==
  IF top[r] <= 0 THEN 0 ELSE (IF top[r] = MaxAdp THEN MaxAdp ELSE top[r] + 1)

HasPort(r, a) == 1 <= a /\ a <= top[r]

Goto(l) == pc' = l

-----------------------------------------------------------------------------
(* debugfs_config_init() *)

ListRouters ==
  /\ pc = "list"
  /\ \/ Goto("exit") /\ UNCHANGED names      \* debugfs is not mounted
     \/ /\ names' \in Listings(InDebugfs)
        /\ Goto("count")
  /\ settled' = \A r \in Router : at[r] # NoDevice => top[r] = Ports[at[r]]
  /\ UNCHANGED <<cache, room, n, j, todo, lookupVars, typeVars, freed,
                 at, top, plugs, changed, was>>

Filling == names[Len(cache)]

CountAdapters ==
  /\ pc = "count"
  /\ Len(cache) < Len(names)
  /\ room' = get_total_adps_debugfs(names[Len(cache) + 1])
  /\ Goto("regs")
  /\ UNCHANGED <<names, cache, n, j, todo, lookupVars, typeVars, freed, busVars>>

\* Also the allocation, by the count above.
get_router_regs ==
  /\ pc = "regs"
  /\ LET r == names[Len(cache) + 1] IN
       cache' = Append(cache, [dev  |-> IF top[r] >= 0 THEN at[r] ELSE NoDevice,
                               adps |-> [a \in 0 .. room - 1 |-> Unset]])
  /\ Goto("recount")
  /\ UNCHANGED <<names, room, n, j, todo, lookupVars, typeVars, freed, busVars>>

\* get_adps_config() counts anew ...
RecountAdapters ==
  /\ pc = "recount"
  /\ n' = get_total_adps_debugfs(Filling)
  /\ j' = 0
  /\ Goto("fill")
  /\ UNCHANGED <<initVars, todo, lookupVars, typeVars, freed, busVars>>

\* ... and fills one element after the other.
get_adps_config ==
  /\ pc = "fill"
  /\ j < n
  /\ \/ /\ j >= room
        /\ Goto("wild_fill")
        /\ UNCHANGED <<cache, j>>
     \/ /\ j < room
        /\ cache' = [cache EXCEPT ![Len(cache)].adps[j] =
                       IF HasPort(Filling, j) THEN at[Filling] ELSE NoDevice]
        /\ j' = j + 1
        /\ UNCHANGED pc
  /\ UNCHANGED <<names, room, n, todo, lookupVars, typeVars, freed, busVars>>

NextEntry ==
  /\ pc = "fill"
  /\ j >= n
  /\ Goto("count")
  /\ UNCHANGED <<initVars, n, j, todo, lookupVars, typeVars, freed, busVars>>

\* is_link_nabs() ends the process where a link or a directory is found instead
\* of a file.
LinkFound ==
  /\ pc \in {"regs", "fill", "line"}
  /\ Goto("exit")
  /\ UNCHANGED <<initVars, n, j, todo, lookupVars, typeVars, freed, busVars>>

-----------------------------------------------------------------------------
(* lstbt_v() *)

\* No domain or invalid arguments; one router; or those of a domain and depth.
lstbt_v ==
  /\ pc = "count"
  /\ Len(cache) = Len(names)
  /\ \/ Goto("release") /\ UNCHANGED todo
     \/ /\ \E S \in SUBSET InSysfs : todo' \in Listings(S)
        /\ Goto("router")
  /\ UNCHANGED <<initVars, n, j, lookupVars, typeVars, freed, busVars>>

\* Variant: the types of the router before are kept.
TypesKept_All == filled

\* are_adp_types_filled at the start of dump_router_verbose()
TypesKept == FALSE

dump_router_verbose ==
  /\ pc = "router"
  /\ todo # <<>>
  /\ filled' = TypesKept
  /\ phase' = "types"
  /\ j' = 1
  /\ Goto("present")
  /\ UNCHANGED <<initVars, n, todo, hit, answer, types, freed, busVars>>

AllPrinted ==
  /\ pc = "router"
  /\ todo = <<>>
  /\ Goto("release")
  /\ UNCHANGED <<initVars, n, j, todo, lookupVars, typeVars, freed, busVars>>

-----------------------------------------------------------------------------
(* A lookup: three looks at the bus, in this order *)

current == todo[1]

is_adp_present ==
  /\ pc = "present"
  /\ \/ /\ HasPort(current, j)
        /\ Goto("lookup")
        /\ UNCHANGED answer
     \/ /\ ~HasPort(current, j)
        /\ answer' = NoDevice
        /\ Goto("answered")
  /\ UNCHANGED <<initVars, n, j, todo, phase, hit, typeVars, freed, busVars>>

\* Variant: the host router is not counted.
TotalRouters_Devices == Cardinality(InSysfs \ {1})

\* Routers of all domains, in sysfs.
TotalRouters == Cardinality(InSysfs)

\* Variant: strcmp() without the negation.
Matches_Differs(k) == names[k] # current

Matches(k) == names[k] = current

\* Entries the search compares before it runs past the array.
Compared == 1 .. IF TotalRouters < Len(names) THEN TotalRouters ELSE Len(names)

get_router_config_item ==
  /\ pc = "lookup"
  /\ \/ /\ \E k \in Compared :
             /\ Matches(k) /\ \A m \in 1 .. k - 1 : ~Matches(m)
             /\ hit' = k
             /\ answer' = cache[k].dev
        /\ IF phase = "header" THEN Goto("answered") ELSE Goto("lookup_adp")
     \/ /\ \A k \in Compared : ~Matches(k)
        /\ TotalRouters > Len(names)
        /\ Goto("wild_lookup")
        /\ UNCHANGED <<hit, answer>>
     \/ /\ \A k \in Compared : ~Matches(k)
        /\ TotalRouters <= Len(names)
        /\ answer' = NoDevice
        /\ Goto("answered")
        /\ UNCHANGED hit
  /\ UNCHANGED <<initVars, n, j, todo, phase, typeVars, freed, busVars>>

\* Elements of an entry that have been written.
Written(e) == {a \in DOMAIN e.adps : e.adps[a] # Unset}

\* The search stops at the adapter, which is at its own index.
get_adp_config_item ==
  /\ pc = "lookup_adp"
  /\ LET total    == get_total_adps_debugfs(current)
         found    == j < total
         compared == 0 .. (IF found THEN j ELSE total - 1)
         inside   == compared \subseteq Written(cache[hit])
     IN \/ /\ ~inside
           /\ Goto("wild_lookup")
           /\ UNCHANGED answer
        \/ /\ inside
           /\ answer' = IF found THEN cache[hit].adps[j] ELSE NoDevice
           /\ Goto("answered")
  /\ UNCHANGED <<initVars, n, j, todo, phase, hit, typeVars, freed, busVars>>

-----------------------------------------------------------------------------
(* What dump_router_verbose() does with the answers *)

\* Variant: a loop goes on without its increment.
Increment_None == j

Increment == j + 1

\* is_adp_lane() and its like do not ask while the types are filled.
fill_adp_types_in_router ==
  /\ pc = "answered"
  /\ phase = "types"
  /\ types' = IF filled THEN types ELSE [types EXCEPT ![j] = answer]
  /\ \/ /\ j < MaxAdp
        /\ j' = Increment
        /\ Goto("present")
        /\ UNCHANGED <<phase, filled>>
     \/ /\ j = MaxAdp
        /\ j' = 1
        /\ filled' = TRUE
        /\ phase' = "header"
        /\ Goto("lookup")
  /\ UNCHANGED <<initVars, n, todo, hit, answer, freed, busVars>>

\* A router without a topology ID is given up.
dump_header ==
  /\ pc = "answered"
  /\ phase = "header"
  /\ \/ /\ answer = NoDevice
        /\ todo' = Tail(todo)
        /\ Goto("router")
        /\ UNCHANGED phase
     \/ /\ answer # NoDevice
        /\ phase' = "lines"
        /\ Goto("line")
        /\ UNCHANGED todo
  /\ UNCHANGED <<initVars, n, j, hit, answer, typeVars, freed, busVars>>

\* The loops over the adapters of one type stop before the last one.
dump_adapter ==
  /\ pc = "line"
  /\ \/ /\ j >= MaxAdp
        /\ todo' = Tail(todo)
        /\ Goto("router")
        /\ UNCHANGED j
     \/ /\ j < MaxAdp
        /\ types[j] = NoDevice
        /\ j' = j + 1
        /\ UNCHANGED <<pc, todo>>
     \/ /\ j < MaxAdp
        /\ types[j] # NoDevice
        /\ Goto("present")
        /\ UNCHANGED <<j, todo>>
  /\ UNCHANGED <<initVars, n, lookupVars, typeVars, freed, busVars>>

dump_line ==
  /\ pc = "answered"
  /\ phase = "lines"
  /\ j' = Increment
  /\ Goto("line")
  /\ UNCHANGED <<initVars, n, todo, lookupVars, typeVars, freed, busVars>>

-----------------------------------------------------------------------------
(* debugfs_config_exit() *)

debugfs_config_exit ==
  /\ pc = "release"
  /\ n' = Cardinality(InDebugfs)
  /\ Goto("free")
  /\ UNCHANGED <<initVars, j, todo, lookupVars, typeVars, freed, busVars>>

\* Variant: one entry too many.
MoreToFree_Past == freed <= n

MoreToFree == freed < n

\* free_adp_config() and free_router_config() of one entry.
FreeEntry ==
  /\ pc = "free"
  /\ MoreToFree
  /\ LET inside ==
           /\ freed < Len(names)
           /\ 0 .. get_total_adps_debugfs(names[freed + 1]) - 1
                \subseteq Written(cache[freed + 1])
     IN \/ ~inside /\ Goto("wild_free") /\ UNCHANGED freed
        \/ inside /\ freed' = freed + 1 /\ UNCHANGED pc
  /\ UNCHANGED <<initVars, n, j, todo, lookupVars, typeVars, busVars>>

AllFreed ==
  /\ pc = "free"
  /\ ~MoreToFree
  /\ Goto("exit")
  /\ UNCHANGED <<initVars, n, j, todo, lookupVars, typeVars, freed, busVars>>

-----------------------------------------------------------------------------
(* The bus *)

Wild  == {"wild_fill", "wild_lookup", "wild_free"}
Ended == pc \in {"exit"} \cup Wild

progVars == <<pc, initVars, n, j, todo, lookupVars, typeVars, freed>>

\* A router shows up in sysfs, then in debugfs, then its ports do.
Plug(r, d) ==
  /\ ~Ended
  /\ plugs < MaxPlugs
  /\ at[r] = NoDevice /\ \A s \in Router : at[s] # d
  /\ at' = [at EXCEPT ![r] = d]
  /\ was' = [was EXCEPT ![r] = @ \cup {d}]
  /\ plugs' = plugs + 1
  /\ changed' = TRUE
  /\ settled' = FALSE
  /\ UNCHANGED <<progVars, top>>

Show(r) ==
  /\ ~Ended
  /\ at[r] # NoDevice /\ top[r] # Going /\ top[r] < Ports[at[r]]
  /\ top' = [top EXCEPT ![r] = @ + 1]
  /\ UNCHANGED <<progVars, at, plugs, changed, was, settled>>

\* It leaves debugfs, then sysfs.
Hide(r) ==
  /\ ~Ended
  /\ top[r] >= 0
  /\ top' = [top EXCEPT ![r] = Going]
  /\ changed' = TRUE
  /\ UNCHANGED <<progVars, at, plugs, was, settled>>

Unplug(r) ==
  /\ ~Ended
  /\ top[r] = Going
  /\ top' = [top EXCEPT ![r] = NoDir]
  /\ at' = [at EXCEPT ![r] = NoDevice]
  /\ UNCHANGED <<progVars, plugs, changed, was, settled>>

-----------------------------------------------------------------------------
Init ==
  /\ pc = "list"
  /\ names = <<>> /\ cache = <<>> /\ room = 0
  /\ n = 0 /\ j = 0 /\ todo = <<>>
  /\ phase = "types" /\ hit = 0 /\ answer = NoDevice
  /\ types = [a \in Adapters |-> NoDevice] /\ filled = FALSE
  /\ freed = 0
  /\ at \in {f \in [Router -> Device \cup {NoDevice}] :
               \A r, s \in Router : f[r] = f[s] /\ r # s => f[r] = NoDevice}
  /\ top = [r \in Router |-> IF at[r] = NoDevice THEN NoDir ELSE Ports[at[r]]]
  /\ plugs = 0 /\ changed = FALSE /\ settled = TRUE
  /\ was = [r \in Router |-> {at[r]} \ {NoDevice}]

debugfs_config_init == ListRouters \/ CountAdapters \/ get_router_regs
                         \/ RecountAdapters \/ get_adps_config \/ NextEntry

Lookup == is_adp_present \/ get_router_config_item \/ get_adp_config_item

Dump == dump_router_verbose \/ fill_adp_types_in_router \/ dump_header
          \/ dump_adapter \/ dump_line \/ AllPrinted

Program == \/ debugfs_config_init
           \/ LinkFound \/ lstbt_v \/ Lookup \/ Dump
           \/ debugfs_config_exit \/ FreeEntry \/ AllFreed

Bus == \/ \E r \in Router, d \in Device : Plug(r, d)
       \/ \E r \in Router : Show(r) \/ Hide(r) \/ Unplug(r)

Next == Program \/ Bus \/ (Ended /\ UNCHANGED vars)

Spec == Init /\ [][Next]_vars /\ WF_vars(Program)
-----------------------------------------------------------------------------
OrNone == Device \cup {NoDevice}

TypeOK ==
  /\ pc \in {"list", "count", "regs", "recount", "fill", "router", "present", "lookup",
             "lookup_adp", "answered", "line", "release", "free", "exit"} \cup Wild
  /\ names \in Seq(Router)
  /\ Len(cache) <= Len(names)
  /\ \A k \in DOMAIN cache :
       /\ cache[k].dev \in OrNone
       /\ cache[k].adps \in [DOMAIN cache[k].adps -> OrNone \cup {Unset}]
  /\ room \in 0 .. MaxAdp
  /\ n \in Nat
  /\ j \in 0 .. MaxAdp
  /\ todo \in Seq(Decimal)
  /\ phase \in {"types", "header", "lines"}
  /\ hit \in 0 .. Len(names)
  /\ answer \in OrNone
  /\ types \in [Adapters -> OrNone]
  /\ filled \in BOOLEAN
  /\ freed \in Nat
  /\ at \in [Router -> OrNone]
  /\ top \in [Router -> Going .. MaxAdp]
  /\ plugs \in 0 .. MaxPlugs
  /\ changed \in BOOLEAN
  /\ settled \in BOOLEAN
  /\ was \in [Router -> SUBSET Device]

\* The three counts of routers and of adapters keep every access inside the
\* arrays, filling, looking up and freeing, while routers are unplugged at any
\* moment, provided none was half plugged or unplugged when they were listed:
\* every later count is at most the one an array was allocated with.
NoWildAccess == settled => pc \notin Wild

\* A lookup that does not fail answers with what was copied from a router that
\* stood under the name asked for, however names and devices have been paired
\* since.
AnswerIsOfRouter ==
  pc = "answered" /\ answer # NoDevice => answer \in was[current]

\* What is printed about an adapter under the heading of a type comes from the
\* same device as the type: types never outlive the router they were read for.
TypeFitsAnswer ==
  pc = "answered" /\ phase = "lines" /\ answer # NoDevice => types[j] = answer

\* When no router comes or goes and no name has a letter in it, a lookup gives
\* the registers of exactly what is there: all routers and all adapters below
\* the last are found, and nothing else.
QuietAnswer ==
  pc = "answered" /\ ~changed /\ {r \in Router : at[r] # NoDevice} \subseteq Decimal
    /\ (phase # "header" => j < MaxAdp)
    => answer = IF phase = "header" \/ HasPort(current, j) THEN at[current] ELSE NoDevice

\* lstbt ends, whatever is plugged and unplugged.
Terminates == <>Ended

-----------------------------------------------------------------------------
(* What comments of the code say and the code does not keep *)

\* lib/helpers.c:804, "Return a value of (u64)~0 if something goes wrong": a
\* lookup of a router that is not in the cache ends in this value.
LookupFailsSafely == pc # "wild_lookup"
=============================================================================
