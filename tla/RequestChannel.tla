--------------------------- MODULE RequestChannel ---------------------------
(***************************************************************************)
(* What request_router_cfg() promises its caller, without ring, IOMMU or   *)
(* registers.  Requests are made one at a time and never again.  A request *)
(* goes on the wire at most once and only while its call lasts; "posted"   *)
(* is answered only for a request that is on the wire; every call returns. *)
(* What is on the wire besides is no request, neither one of the past nor  *)
(* one of the future.                                                      *)
(***************************************************************************)
EXTENDS Integers, Sequences

CONSTANTS
  Request,   \* the requests there can be
  None       \* not one of them

VARIABLES
  current,   \* the request of the call in progress, None between calls
  made,      \* the requests made so far
  sent,      \* what is on the wire, in order
  answer     \* what the call in progress has decided to return

vars == <<current, made, sent, answer>>

OnWire(r) == \E i \in DOMAIN sent : sent[i] = r

Init ==
  /\ current = None
  /\ made = {}
  /\ sent = <<>>
  /\ answer = "none"

Ask ==
  /\ current = None
  /\ current' \in Request \ made
  /\ ~OnWire(current')
  /\ made' = made \cup {current'}
  /\ UNCHANGED <<sent, answer>>

Send ==
  /\ current # None
  /\ ~OnWire(current)
  /\ sent' = Append(sent, current)
  /\ UNCHANGED <<current, made, answer>>

\* Something that is not a request.
Stray ==
  /\ sent' # <<>>
  /\ LET r == sent'[Len(sent')] IN r \in Request \ made /\ sent' = Append(sent, r)
  /\ UNCHANGED <<current, made, answer>>

Decide ==
  /\ current # None
  /\ answer = "none"
  /\ \/ answer' = "failed"
     \/ OnWire(current) /\ answer' = "posted"
  /\ UNCHANGED <<current, made, sent>>

Return ==
  /\ answer # "none"
  /\ current' = None
  /\ answer' = "none"
  /\ UNCHANGED <<made, sent>>

Next == Ask \/ Send \/ Stray \/ Decide \/ Return

\* What a step may do, without the promise to return.
Safety == Init /\ [][Next]_vars

Spec == Safety /\ WF_vars(Decide) /\ WF_vars(Return)
=============================================================================
