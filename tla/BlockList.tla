------------------------------ MODULE BlockList ------------------------------
(***************************************************************************)
(* What the automated response promises of its blocks, whatever the rules  *)
(* behind them are: a subject (an address or a user) is blocked until      *)
(* somebody asks to have a block lifted that matches it.  The promise ends *)
(* where lifts are overtaken: a lift during which another caller changes   *)
(* the rules may go astray and lift any block.                             *)
(***************************************************************************)
CONSTANTS
  Subjects,  \* addresses or users
  Clients    \* callers that may overlap

VARIABLES
  blocked,  \* subjects that some deny rule covers
  lifting   \* lifting[c]: subjects that match the block c is lifting

absVars == <<blocked, lifting>>

AbsTypeOK ==
  /\ blocked \subseteq Subjects
  /\ lifting \in [Clients -> SUBSET Subjects]

AbsInit ==
  /\ blocked = {}
  /\ lifting = [c \in Clients |-> {}]

\* Lifts under way in from may go astray when c changes the rules.
GoAstray(c, from) ==
  \E astray \in SUBSET {d \in Clients \ {c} : from[d] # {}} :
    lifting' = [d \in Clients |-> IF d \in astray THEN Subjects ELSE from[d]]

Block(c, s) ==
  /\ lifting[c] = {}
  /\ blocked' = blocked \cup {s}
  /\ GoAstray(c, lifting)

BeginLift(c) ==
  /\ lifting[c] = {}
  /\ \E matched \in SUBSET Subjects : lifting' = [lifting EXCEPT ![c] = matched]
  /\ UNCHANGED blocked

Lift(c) ==
  /\ lifting[c] # {}
  /\ \E lifted \in SUBSET lifting[c] : blocked' = blocked \ lifted
  /\ GoAstray(c, lifting)

\* The call returns or raises, with its last deletion or after it.
EndLift(c) ==
  /\ lifting[c] # {}
  /\ \E lifted \in SUBSET lifting[c] : blocked' = blocked \ lifted
  /\ GoAstray(c, [lifting EXCEPT ![c] = {}])

AbsNext ==
  \E c \in Clients :
    \/ \E s \in Subjects : Block(c, s)
    \/ BeginLift(c) \/ Lift(c) \/ EndLift(c)

AbsSpec == AbsInit /\ [][AbsNext]_absVars
=============================================================================
