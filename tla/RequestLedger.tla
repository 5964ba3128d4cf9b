---------------------------- MODULE RequestLedger ----------------------------
(***************************************************************************)
(* What the guarded SSD increase promises to whoever reads its decision    *)
(* archive next to the service's own history, whatever invocations,        *)
(* crashes and failed writes lie in between:                               *)
(*   - a request is made only with its intent on record, and at most once; *)
(*   - no request is made while an earlier one is not closed on record;    *)
(*   - a request is not closed on record while the service works on it.    *)
(* Abstract specification (docs/en/capacity-automation-t4-design.md,       *)
(* "Lock states"); SsdAutoIncrease implements it.                          *)
(***************************************************************************)
CONSTANT Id

VARIABLES
  intended,   \* evaluations whose intent is on record
  asked,      \* requests the service has seen
  open,       \* accepted requests the service has not finished
  closed      \* evaluations whose end is on record

ledgerVars == <<intended, asked, open, closed>>

LedgerInit ==
  /\ intended = {} /\ asked = {} /\ open = {} /\ closed = {}

Intend(id) ==
  /\ intended' = intended \cup {id}
  /\ UNCHANGED <<asked, open, closed>>

\* The service accepts the request, or does not.
Ask(id) ==
  /\ id \in intended \ (asked \cup closed)
  /\ asked \subseteq closed
  /\ asked' = asked \cup {id}
  /\ open' \in {open, open \cup {id}}
  /\ UNCHANGED <<intended, closed>>

Finish(id) ==
  /\ open' = open \ {id}
  /\ UNCHANGED <<intended, asked, closed>>

Close(id) ==
  /\ id \notin open
  /\ closed' = closed \cup {id}
  /\ UNCHANGED <<intended, asked, open>>

LedgerNext == \E id \in Id : Intend(id) \/ Ask(id) \/ Finish(id) \/ Close(id)

LedgerSpec == LedgerInit /\ [][LedgerNext]_ledgerVars

\* At most one request is in flight, it was asked for on record, and its
\* record is not closed.
LedgerSafe ==
  /\ open \subseteq asked \ closed
  /\ asked \subseteq intended
  /\ \A i, j \in asked \ closed : i = j
=============================================================================
