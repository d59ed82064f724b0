------------------------------ MODULE Listing -------------------------------
(***************************************************************************)
(* lstbt from its command line to its exit: main() and its argument loop,  *)
(* and the listings of lib/lstbt.c, lib/lstbt_t.c (tree), lib/lstbt_r.c    *)
(* (retimers) and the outer loops of lib/lstbt_v.c.  They differ in how a  *)
(* name is selected and in what is read about it; all of them run ls and   *)
(* then, name by name, further commands, while routers come and go.        *)
(*                                                                         *)
(* A router is its domain and its route; the program sees its name only.   *)
(* The lines printed about a router are one entry, with the numbers that   *)
(* were computed from the name.                                            *)
(***************************************************************************)
EXTENDS RouterNames, FiniteSets, SequencesExt

CONSTANTS
  Populations,   \* sets of routers that may be there at the start
  Retimers,      \* [at: router, port]
  CommandLines,  \* sequences of words
  VerboseWraps,  \* the u8 that counts -v: 256
  MaxArgs,       \* pointers in the array of arguments, MAX_LEN: 1024
  Movable,       \* routers that come and go while lstbt runs
  MaxChanges     \* bound on routers plugged in or unplugged

MaxDepthPossible == 8

\* A topology ID has seven bytes.
IsRouter(r) ==
  /\ r \in [dom : 0 .. 99, route : Seq(1 .. 63)]
  /\ Len(r.route) < MaxDepthPossible

ASSUME PopulationsAssumption ==
  \A S \in Populations : IsFiniteSet(S) /\ \A r \in S :
    /\ IsRouter(r)
    /\ \A k \in 0 .. Len(r.route) - 1 : [r EXCEPT !.route = SubSeq(@, 1, k)] \in S
ASSUME RetimersAssumption ==
  IsFiniteSet(Retimers) /\ \A t \in Retimers : t.port \in 1 .. 63
ASSUME ChangesAssumption ==
  MaxChanges \in Nat /\ \A r \in Movable : IsRouter(r)

ASSUME VerboseWrapsAssumption == VerboseWraps \in Nat \ {0}
ASSUME MaxArgsAssumption == MaxArgs \in Nat \ {0}

VARIABLES
  \* the program
  pc, argv,
  opts,      \* what the argument loop made of the command line
  domains,   \* routers' domains, counted before the arguments are validated
  i,         \* domain at hand
  stack,     \* names still to do, and their depth in the output, per recursion
  item,      \* name at hand
  printed,   \* entries
  found, status, told,
  \* the bus
  present,   \* routers in sysfs
  changes,
  gone       \* names unplugged

outcome  == <<found, status, told>>
progVars == <<pc, argv, opts, domains, i, stack, item, printed, outcome>>
busVars  == <<present, changes, gone>>
vars     == <<progVars, busVars>>

-----------------------------------------------------------------------------
(* Names *)

NameOf(r) == Name(r.dom, r.route)
NoName == [dom |-> -1, hex |-> <<>>]

Names == {NameOf(r) : r \in present}
Exists(name) == name \in Names
RouterOf(name) == CHOOSE r \in present : NameOf(r) = name

\* The order of ls, as far as it matters: "0-0" before "0-10" before "0-10:1.1".
PortOf(a) == IF "port" \in DOMAIN a THEN a.port ELSE 0

Precedes(a, b) ==
  \/ a.dom < b.dom
  \/ a.dom = b.dom /\ a.hex = b.hex /\ PortOf(a) < PortOf(b)
  \/ a.dom = b.dom /\ \E k \in 1 .. Len(b.hex) :
       /\ \A m \in 1 .. k - 1 : m <= Len(a.hex) /\ a.hex[m] = b.hex[m]
       /\ k > Len(a.hex) \/ a.hex[k] < b.hex[k]

ls(S) == [k \in 1 .. Cardinality(S) |->
            CHOOSE a \in S : Cardinality({b \in S : Precedes(b, a)}) = k - 1]

\* A domain is there as long as its host router is.
total_domains == Cardinality({r.dom : r \in present})

-----------------------------------------------------------------------------
(* The command line.  A word begins with a dash and consists of letters, or *)
(* is a number, a name or neither.                                          *)

Text(num, name) == [opt |-> "text", num |-> num, name |-> name]
Opt(l) == [Text(-1, NoName) EXCEPT !.opt = l]
NoArg  == Opt("none")

Letters(s) == [dash |-> TRUE, letters |-> s, text |-> NoArg]
Plain(t)   == [dash |-> FALSE, letters |-> <<>>, text |-> t]

\* A letter is any but the mark of a missing argument; "" is a dash alone.
Letter   == STRING \ {NoArg.opt}
Argument == [opt : Letter \cup {""}, num : Int, name : [dom : Int, hex : Seq(Nat)]]

\* What a shell may pass.
ASSUME CommandLinesAssumption ==
  \A words \in CommandLines :
    words \in Seq([dash : {TRUE}, letters : Seq(Letter), text : {NoArg}]
                    \cup [dash : {FALSE}, letters : {<<>>}, text : Argument])

ameliorate_args(words) ==
  FlattenSeq([k \in 1 .. Len(words) |->
    IF ~words[k].dash THEN <<words[k].text>>
    ELSE IF words[k].letters = <<>> THEN <<Opt("")>>
    ELSE [m \in 1 .. Len(words[k].letters) |-> Opt(words[k].letters[m])]])

WithValue == {"D", "d", "s"}
Switches  == {"r", "t"}
Tells     == {"V", "h"}

Unparsed == [D |-> NoArg, d |-> NoArg, s |-> NoArg, r |-> 0, t |-> 0, v |-> 0,
             prev |-> "", end |-> ""]

\* Variant: the last value counts.
TakeValue_Last(old, arg) == arg

TakeValue(old, arg) == IF old = NoArg THEN arg ELSE old

ParseArg(p, arg) ==
  CASE p.end # "" -> p
    [] p.end = "" /\ p.prev # "" ->
         [p EXCEPT !.prev = "", ![p.prev] = TakeValue(@, arg)]
    [] p.end = "" /\ p.prev = "" ->
         CASE arg.opt \in WithValue -> [p EXCEPT !.prev = arg.opt]
           [] arg.opt = "v"         -> [p EXCEPT !.v = (@ + 1) % VerboseWraps]
           [] arg.opt \in Switches  -> [p EXCEPT ![arg.opt] = 1]
           [] arg.opt \in Tells     -> [p EXCEPT !.end = "told"]
           [] OTHER                 -> [p EXCEPT !.end = "invalid"]

Parse(words) ==
  LET args == ameliorate_args(words)
      parsed[k \in 0 .. Len(args)] ==
        IF k = 0 THEN Unparsed ELSE ParseArg(parsed[k - 1], args[k])
  IN parsed[Len(args)]

mode == IF opts.t > 0 THEN "tree" ELSE IF opts.r > 0 THEN "retimer"
        ELSE IF opts.v > 0 THEN "verbose" ELSE "plain"

Given(a) == a # NoArg

is_input_printable == \A k \in 1 .. Len(argv) : argv[k].text.opt # "unprintable"

Goto(l) == pc' = l

Exit(s, t) == Goto("exit") /\ status' = s /\ told' = t /\ UNCHANGED found

\* The arguments and the NULL behind them.
Fits(args) == Len(args) < MaxArgs

\* ameliorate_args() writes on behind its array.
Overrun ==
  /\ pc = "main"
  /\ is_input_printable /\ ~Fits(ameliorate_args(argv))
  /\ Goto("overrun")
  /\ UNCHANGED <<argv, opts, domains, i, stack, item, printed, outcome, busVars>>

main ==
  /\ pc = "main"
  /\ is_input_printable => Fits(ameliorate_args(argv))
  /\ opts' = IF is_input_printable THEN Parse(argv) ELSE opts
  /\ LET p == opts' IN
       CASE ~is_input_printable                  -> Exit(1, "unprintable")
         [] p.end = "told"                       -> Exit(0, "told")
         [] p.end = "invalid"                    -> Exit(1, "invalid option")
         [] p.end = "" /\ p.prev # ""            -> Exit(1, "missing")
         [] p.end = "" /\ p.prev = "" /\ p.t > 0 /\ p.r > 0 -> Exit(1, "refused")
         [] OTHER -> \/ Goto("count") /\ UNCHANGED outcome
                     \/ p.v > 0 /\ p.t = 0 /\ p.r = 0 /\ Exit(1, "no debugfs")
  /\ UNCHANGED <<argv, domains, i, stack, item, printed, busVars>>

-----------------------------------------------------------------------------
(* lstbt(), lstbt_t(), lstbt_r() and lstbt_v() *)

Count ==
  /\ pc = "count"
  /\ domains' = total_domains
  /\ IF domains' = 0 THEN Exit(1, "no thunderbolt")
     ELSE Goto("validate") /\ UNCHANGED outcome
  /\ UNCHANGED <<argv, opts, i, stack, item, printed, busVars>>

IsNumBelow(a, n) == a.num >= 0 /\ a.num < n

\* validate_args() and validate_args_r(), with domains counted again.
validate_args ==
  IF Given(opts.s)
  THEN /\ ~Given(opts.D) /\ ~Given(opts.d)
       /\ \E d \in 0 .. total_domains - 1 : is_router_format(opts.s.name, d)
  ELSE /\ Given(opts.D) => IsNumBelow(opts.D, total_domains)
       /\ Given(opts.d) => mode # "retimer" /\ IsNumBelow(opts.d, MaxDepthPossible)

Validate ==
  /\ pc = "validate"
  /\ \/ ~validate_args /\ Exit(1, "refused") /\ UNCHANGED i
     \/ /\ validate_args
        /\ i' = IF Given(opts.D) THEN opts.D.num ELSE 0
        /\ IF Given(opts.s) THEN Goto("device") ELSE Goto("ls")
        /\ UNCHANGED outcome
  /\ UNCHANGED <<argv, opts, domains, stack, item, printed, busVars>>

\* Variant: the device is not looked for.
is_router_present_Skip(name) == TRUE

is_router_present(name) == Exists(name)

Device ==
  /\ pc = "device"
  /\ IF is_router_present(opts.s.name) THEN Goto("ls") /\ UNCHANGED outcome
     ELSE Exit(1, "invalid device")
  /\ UNCHANGED <<argv, opts, domains, i, stack, item, printed, busVars>>

RetimerOf(t) == [dom |-> t.at.dom, hex |-> NameOf(t.at).hex, port |-> t.port]
RouterName(name) == [dom |-> name.dom, hex |-> name.hex]

\* Routers of a domain, all or those of a depth.
InDomain ==
  {a \in Names : is_router_format(a, i)
                   /\ (Given(opts.d) => is_router_depth(a, opts.d.num))}

\* enumerate_domain(), dump_domain_verbose(), the first host router of a
\* domain in enumerate_domain_tree(), the retimers of a domain or a router: a
\* router's are looked for in the domain its first character names.
Selected ==
  CASE mode = "retimer" ->
         ls({RetimerOf(t) : t \in {u \in Retimers : u.at \in present
               /\ IF Given(opts.s)
                  THEN /\ NameOf(u.at) = opts.s.name
                       /\ u.at.dom = domain_of_router(opts.s.name)
                  ELSE u.at.dom = i}})
    [] mode # "retimer" /\ Given(opts.s) -> <<opts.s.name>>
    [] mode = "tree" /\ ~Given(opts.s) /\ ~Given(opts.d) ->
         LET hosts == {a \in InDomain : is_host_router(a) /\ domain_of_router(a) = i}
         IN IF hosts = {} THEN <<>> ELSE <<ls(hosts)[1]>>
    [] OTHER -> ls(InDomain)

Ls ==
  /\ pc = "ls"
  /\ stack' = <<[depth |-> 0, todo |-> Selected]>>
  /\ Goto("next")
  /\ UNCHANGED <<argv, opts, domains, i, item, printed, outcome, busVars>>

top == Last(stack)

NextName ==
  /\ pc = "next"
  /\ stack # <<>> /\ top.todo # <<>>
  /\ item' = Head(top.todo)
  /\ stack' = [stack EXCEPT ![Len(stack)].todo = Tail(@)]
  /\ IF mode = "plain" THEN Goto("present") ELSE Goto("header")
  /\ UNCHANGED <<argv, opts, domains, i, printed, outcome, busVars>>

\* A list is done: back to the caller.
Return ==
  /\ pc = "next"
  /\ stack # <<>> /\ top.todo = <<>>
  /\ stack' = Front(stack)
  /\ UNCHANGED <<pc, argv, opts, domains, i, item, printed, outcome, busVars>>

\* Variant: the loop over the domains stays where it is.
NextIndex_Same(k) == k

NextIndex(k) == k + 1

NextDomain ==
  /\ pc = "next"
  /\ stack = <<>>
  /\ ~Given(opts.s) /\ ~Given(opts.D) /\ i + 1 < domains
  /\ i' = NextIndex(i)
  /\ Goto("ls")
  /\ UNCHANGED <<argv, opts, domains, stack, item, printed, outcome, busVars>>

Finish ==
  /\ pc = "next"
  /\ stack = <<>>
  /\ Given(opts.s) \/ Given(opts.D) \/ i + 1 >= domains
  /\ Exit(0, IF found \/ (Given(opts.s) /\ mode \in {"plain", "tree"})
             THEN "listed" ELSE "nothing found")
  /\ UNCHANGED <<argv, opts, domains, i, stack, item, printed, busVars>>

-----------------------------------------------------------------------------
(* dump_router(), dump_router_verbose(), enumerate_dev_tree() and           *)
(* dump_retimer(): about one name                                           *)

Present ==
  /\ pc = "present"
  /\ IF Exists(item) THEN Goto("header") ELSE Goto("next")
  /\ UNCHANGED <<argv, opts, domains, i, stack, item, printed, outcome, busVars>>

\* The numbers in front of a line: "Domain Port" for a retimer, "Domain Depth"
\* for a router, but "Port" for one that stands below another in the tree.
Labels(a, row) ==
  IF "port" \in DOMAIN a THEN [domain |-> domain_of_router(a), port |-> a.port]
  ELSE IF row = 0 THEN [domain |-> domain_of_router(a), depth |-> depth_of_router(a)]
  ELSE [port |-> downstream_port(a)]

Entry == [item |-> item, row |-> top.depth, labels |-> Labels(item, top.depth)]

\* The verbose dump gives up on a router whose topology ID cannot be read.
Header ==
  /\ pc = "header"
  /\ \/ /\ printed' = Append(printed, Entry)
        /\ found' = TRUE
        /\ IF mode = "verbose" THEN Goto("generation") ELSE Goto("ids")
     \/ /\ mode = "verbose"
        /\ Goto("next")
        /\ UNCHANGED <<printed, found>>
  /\ UNCHANGED <<argv, opts, domains, i, stack, item, status, told, busVars>>

\* What a file contains is converted without a look at whether it could be
\* read.
ReadOr(next) == IF Exists(RouterName(item)) THEN Goto(next) ELSE Goto("crash")

dump_vdid ==
  /\ pc = "ids"
  /\ ReadOr(IF mode = "retimer" THEN "next" ELSE "generation")
  /\ UNCHANGED <<argv, opts, domains, i, stack, item, printed, outcome, busVars>>

dump_generation ==
  /\ pc = "generation"
  /\ ReadOr(CASE mode = "plain" -> "next"
              [] mode = "tree" /\ opts.v = 0 -> "children"
              [] OTHER -> "auth")
  /\ UNCHANGED <<argv, opts, domains, i, stack, item, printed, outcome, busVars>>

dump_auth_sts ==
  /\ pc = "auth"
  /\ ReadOr(IF mode = "tree" THEN "children" ELSE "next")
  /\ UNCHANGED <<argv, opts, domains, i, stack, item, printed, outcome, busVars>>

\* Variant: all devices are listed, not those below the router.
ChildrenOf_All(name) == {a \in Names : is_router_format(a, domain_of_router(name))}

\* ls of the router's directory.
ChildrenOf(name) ==
  {NameOf(r) : r \in {q \in present :
     /\ Exists(name) /\ q.route # <<>>
     /\ RouterOf(name) = [q EXCEPT !.route = Front(@)]
     /\ is_router_format(NameOf(q), domain_of_router(name))}}

\* Variant: one list for all rows.
Deeper_Same(depth) == depth

Deeper(depth) == depth + 1

enumerate_dev_tree ==
  /\ pc = "children"
  /\ stack' = Append(stack, [depth |-> Deeper(top.depth), todo |-> ls(ChildrenOf(item))])
  /\ Goto("next")
  /\ UNCHANGED <<argv, opts, domains, i, item, printed, outcome, busVars>>

\* is_link_nabs() in any of them.
LinkFound ==
  /\ pc \in {"ids", "generation", "auth"}
  /\ Exit(1, "corrupt")
  /\ UNCHANGED <<argv, opts, domains, i, stack, item, printed, busVars>>

-----------------------------------------------------------------------------
(* The bus *)

Ended == pc \in {"exit", "crash", "overrun"}

Universe == Movable \cup UNION Populations

Parent(r) == [r EXCEPT !.route = Front(@)]

Plug(r) ==
  /\ ~Ended /\ changes < MaxChanges
  /\ r \notin present
  /\ r.route = <<>> \/ Parent(r) \in present
  /\ present' = present \cup {r}
  /\ changes' = changes + 1
  /\ UNCHANGED <<progVars, gone>>

\* The routers below it have gone before.
Unplug(r) ==
  /\ ~Ended /\ changes < MaxChanges
  /\ r \in present
  /\ \A q \in present : q.route # <<>> => Parent(q) # r
  /\ present' = present \ {r}
  /\ changes' = changes + 1
  /\ gone' = gone \cup {NameOf(r)}
  /\ UNCHANGED progVars

-----------------------------------------------------------------------------
Init ==
  /\ pc = "main"
  /\ argv \in CommandLines
  /\ opts = Unparsed
  /\ domains = 0 /\ i = 0 /\ stack = <<>> /\ item = NoName
  /\ printed = <<>>
  /\ found = FALSE /\ status = 0 /\ told = ""
  /\ present \in Populations
  /\ changes = 0 /\ gone = {}

About == Present \/ Header \/ dump_vdid \/ dump_generation \/ dump_auth_sts
           \/ enumerate_dev_tree

Program == \/ main \/ Overrun \/ Count \/ Validate \/ Device \/ Ls
           \/ NextName \/ Return \/ NextDomain \/ Finish
           \/ About \/ LinkFound

Bus == \E r \in Movable : Plug(r) \/ Unplug(r)

Next == Program \/ Bus \/ (Ended /\ UNCHANGED vars)

Spec == Init /\ [][Next]_vars /\ WF_vars(Program)
-----------------------------------------------------------------------------
\* Names of routers as lstbt takes them to be: one character per number.
Decimal(r) == r.dom <= 9 /\ \A k \in 1 .. Len(r.route) : r.route[k] <= 9

TypeOK ==
  /\ pc \in {"main", "count", "validate", "device", "ls", "next", "present", "header",
             "ids", "generation", "auth", "children", "exit", "crash", "overrun"}
  /\ argv \in CommandLines
  /\ opts.r \in {0, 1} /\ opts.t \in {0, 1} /\ opts.v \in 0 .. VerboseWraps - 1
  /\ domains \in Nat /\ i \in Nat
  /\ \A k \in 1 .. Len(stack) : stack[k].depth = k - 1
  /\ \A k \in 1 .. Len(printed) : printed[k].row \in 0 .. MaxDepthPossible
  /\ found \in BOOLEAN /\ status \in {0, 1}
  /\ present \subseteq Universe
  /\ changes \in 0 .. MaxChanges

\* The argument loop of main(), one pass with a pending option, reads a command
\* line that the array of arguments holds as it is written: an argument is a
\* value exactly when an odd number of options with values stands right before
\* it, the value of an option is the argument after its first occurrence, and
\* -v counts as often as it occurs, up to what a u8 holds.
ParsedAsWritten ==
  LET a == ameliorate_args(argv)
      Takes(k) == a[k].opt \in WithValue
      IsValue(k) == \E m \in 1 .. k - 1 :
                      /\ (k - m) % 2 = 1
                      /\ \A q \in m .. k - 1 : Takes(q)
                      /\ m = 1 \/ ~Takes(m - 1)
      Occurs(l) == {k \in 1 .. Len(a) : ~IsValue(k) /\ a[k].opt = l}
  IN opts # Unparsed /\ opts.end = "" /\ opts.prev = "" =>
       /\ \A l \in WithValue :
            opts[l] = IF Occurs(l) = {} THEN NoArg
                      ELSE a[1 + CHOOSE k \in Occurs(l) : \A m \in Occurs(l) : k <= m]
       /\ \A l \in Switches : opts[l] = IF Occurs(l) = {} THEN 0 ELSE 1
       /\ opts.v = Cardinality(Occurs("v")) % VerboseWraps

\* What the arguments ask for, by route and not by name.
Roots ==
  {r \in present :
     /\ Given(opts.D) => r.dom = opts.D.num
     /\ Given(opts.d) => Len(r.route) = opts.d.num
     /\ Given(opts.s) => NameOf(r) = opts.s.name
     /\ mode = "tree" /\ ~Given(opts.d) /\ ~Given(opts.s) => r.route = <<>>}

Wanted ==
  CASE mode = "tree" ->
         {NameOf(r) : r \in {q \in present : \E a \in Roots :
                               a.dom = q.dom /\ IsPrefix(a.route, q.route)}}
    [] mode = "retimer" -> {RetimerOf(t) : t \in {u \in Retimers : u.at \in Roots}}
    [] OTHER -> {NameOf(r) : r \in Roots}

Listed == {printed[k].item : k \in 1 .. Len(printed)}

\* When nothing comes or goes, domains are numbered without a gap and names are
\* decimal, a listing shows exactly the routers or retimers its arguments ask
\* for; a verbose one may leave out what it cannot read.
QuietListing ==
  pc = "exit" /\ told \in {"listed", "nothing found"} /\ changes = 0
    /\ (\A r \in present : Decimal(r))
    /\ {r.dom : r \in present} = 0 .. total_domains - 1
    => IF mode = "verbose" THEN Listed \subseteq Wanted ELSE Listed = Wanted

\* No router with a decimal name is shown twice, whatever comes and goes between
\* the listings of the domains and, in the tree, of the routers' directories.
EachOnce ==
  \A k, m \in 1 .. Len(printed) :
    k # m /\ printed[k].item = printed[m].item =>
      \A r \in Universe : Decimal(r) => NameOf(r) # RouterName(printed[k].item)

\* In the tree a router stands below the router it is connected to, however the
\* bus has changed between the two lines.
TreeShape ==
  \A k \in 1 .. Len(printed) : printed[k].row > 0 =>
    \E m \in 1 .. k - 1 :
      /\ printed[m].row = printed[k].row - 1
      /\ \A q \in m + 1 .. k - 1 : printed[q].row >= printed[k].row
      /\ \E r \in Universe : r.route # <<>> /\ NameOf(r) = printed[k].item
                               /\ NameOf(Parent(r)) = printed[m].item

\* The domain and depth shown about a router, its port in the tree, and the
\* domain shown about a retimer are the router's although they are cut from
\* names, for all decimal names; no host router is shown as hanging at a port.
LabelsAreTrue ==
  \A k \in 1 .. Len(printed) : \A r \in Universe :
    LET shown == printed[k].labels
    IN NameOf(r) = RouterName(printed[k].item) /\ Decimal(r) =>
         /\ "domain" \in DOMAIN shown => shown.domain = r.dom
         /\ "depth" \in DOMAIN shown => shown.depth = Len(r.route)
         /\ "port" \in DOMAIN shown =>
              \/ "port" \in DOMAIN printed[k].item
              \/ r.route # <<>> /\ shown.port = Last(r.route)

\* Only a router that has been unplugged makes lstbt convert what it could not
\* read: no command line alone does.
NoCrash == pc = "crash" => RouterName(item) \in gone

\* lstbt ends, whatever comes and goes.
Terminates == <>Ended
=============================================================================
