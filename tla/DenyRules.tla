------------------------------ MODULE DenyRules ------------------------------
(***************************************************************************)
(* The blocks of the automated response, in one of three lists of rules:   *)
(*   acl      ingress entries of a VPC network ACL, numbered within a      *)
(*            reserved range (shared/python/network_block.py);             *)
(*   export   rules of an NFS export policy, entered at index 1, and       *)
(*   mapping  name mappings of SMB users, entered at index 1               *)
(*            (shared/python/ontap_response.py).                           *)
(* All three are deleted one by one, by the number that was read before,   *)
(* and nothing keeps calls from overlapping.                               *)
(*                                                                         *)
(* EC2 and ONTAP are external.  EC2 refuses a number in use; ONTAP moves   *)
(* the entry at a taken index and all after it up by one.  Both refuse to  *)
(* delete a number that is free, and leave the other numbers alone.        *)
(***************************************************************************)
EXTENDS Integers, FiniteSets

CONSTANTS
  Callers,   \* invocations that may overlap
  Subjects,  \* addresses or users
  Within,    \* pairs of subjects: the text of the first is part of the second's
  MaxRules,  \* size of the reserved range; bound on the other lists
  MaxFailures  \* bound: calls that fail

ASSUME RulesAssumption ==
  /\ Within \subseteq Subjects \X Subjects
  /\ MaxRules \in Nat \ {0}
  /\ MaxFailures \in Nat

VARIABLES
  layer,   \* the list the run is about
  rules,   \* external: the entry at each number in use
  call,  \* per invocation: where it is and its local variables
  failures   \* failures still to come

ruleVars == <<layer, rules, call, failures>>

Layers == {"acl", "export", "mapping"}
Numbers == 1..MaxRules
Pcs == {"idle", "find", "create", "post", "read", "delete"}
Results == {"none", "blocked", "unblocked", "not_found", "error"}
\* who: the subject of the call, in a set; todo: the number found, or those of
\* matching rules not yet deleted.  History, while this call deletes: since, the
\* numbers the subject got from others; overtaken, another call took one of the
\* numbers in todo away or shifted them.
Call == [pc : Pcs, who : SUBSET Subjects, todo : SUBSET Numbers, since : SUBSET Numbers,
         overtaken : BOOLEAN, result : Results]
Idle(result) == [pc |-> "idle", who |-> {}, todo |-> {}, since |-> {}, overtaken |-> FALSE,
                 result |-> result]

\* A rule of the response, or one of the site's own.
Rule == [by : {"response", "site"}, who : Subjects]
DenyRule(s) == [by |-> "response", who |-> s]

RulesTypeOK ==
  /\ layer \in Layers
  /\ DOMAIN rules \subseteq Numbers
  /\ \A n \in DOMAIN rules : rules[n] \in Rule
  /\ call \in [Callers -> Call]
  /\ \A c \in Callers : Cardinality(call[c].who) = IF call[c].pc = "idle" THEN 0 ELSE 1
  /\ failures \in Nat

\* The reserved range is empty; the other lists hold an entry of the site's, for an
\* address or a user that may be blocked as well.
RulesInit ==
  /\ layer \in Layers
  /\ \E u \in Subjects :
       rules = [n \in IF layer = "acl" THEN {} ELSE {1} |-> [by |-> "site", who |-> u]]
  /\ call = [c \in Callers |-> Idle("none")]
  /\ failures = MaxFailures

Failure == failures > 0 /\ failures' = failures - 1

Stands(c, pc) == call[c].pc = pc
Return(c, result) == call' = [call EXCEPT ![c] = Idle(result)]
Unblocking(c) == call[c].pc \in {"read", "delete"}

Deleting == {d \in Callers : Stands(d, "delete")}

\* c goes on as mine; the calls in passed have been overtaken by it.
Overtakes(c, mine, passed) ==
  call' = [d \in Callers |->
             IF d = c THEN mine
             ELSE IF d \in passed THEN [call[d] EXCEPT !.overtaken = TRUE] ELSE call[d]]

Unused == Numbers \ DOMAIN rules
With(n, s) == [m \in DOMAIN rules \cup {n} |-> IF m = n THEN DenyRule(s) ELSE rules[m]]
Without(n) == [m \in DOMAIN rules \ {n} |-> rules[m]]

-----------------------------------------------------------------------------
(* NetworkBlockClient.block_ip.                                            *)

StartBlock(c, s) ==
  /\ layer = "acl"
  /\ Stands(c, "idle")
  /\ call' = [call EXCEPT ![c] = [Idle("none") EXCEPT !.pc = "find", !.who = {s}]]
  /\ UNCHANGED <<layer, rules, failures>>

\* _find_next_rule_number: the first free number.
FindNumber(c) ==
  /\ Stands(c, "find")
  /\ \/ \E n \in Unused :
          /\ \A m \in Unused : n <= m
          /\ call' = [call EXCEPT ![c].pc = "create", ![c].todo = {n}]
          /\ UNCHANGED failures
     \/ Unused = {} /\ Return(c, "error") /\ UNCHANGED failures
     \/ Failure /\ Return(c, "error")
  /\ UNCHANGED <<layer, rules>>

\* c returns from the creation of entry n; those that delete rules of the same
\* subject take note.
Noted(c, n, result) ==
  call' = [d \in Callers |->
               IF d = c THEN Idle(result)
               ELSE IF Stands(d, "delete") /\ call[d].who = call[c].who
                    THEN [call[d] EXCEPT !.since = @ \cup {n}]
                    ELSE call[d]]

\* create_network_acl_entry.  A call that fails may have been applied.
\* Mutant: an entry in the way is replaced.
CreateOverEntry(c) ==
  /\ Stands(c, "create")
  /\ \E n \in call[c].todo, s \in call[c].who :
       rules' = With(n, s) /\ Noted(c, n, "blocked")
  /\ UNCHANGED <<layer, failures>>
Create(c) ==
  /\ Stands(c, "create")
  /\ \E n \in call[c].todo, s \in call[c].who :
       \/ n \in Unused /\ rules' = With(n, s) /\ Noted(c, n, "blocked") /\ UNCHANGED failures
       \/ n \notin Unused /\ Return(c, "error") /\ UNCHANGED <<rules, failures>>
       \/ Failure /\ Return(c, "error") /\ UNCHANGED rules
       \/ Failure /\ n \in Unused /\ rules' = With(n, s) /\ Noted(c, n, "error")
  /\ UNCHANGED layer

-----------------------------------------------------------------------------
(* block_nfs_ip, block_smb_user.                                           *)

StartPost(c, s) ==
  /\ layer # "acl"
  /\ Stands(c, "idle")
  /\ call' = [call EXCEPT ![c] = [Idle("none") EXCEPT !.pc = "post", !.who = {s}]]
  /\ UNCHANGED <<layer, rules, failures>>

\* The list after a POST with index 1.
Inserted(s) ==
  IF 1 \in DOMAIN rules
  THEN [n \in {1} \cup {m + 1 : m \in DOMAIN rules} |-> IF n = 1 THEN DenyRule(s) ELSE rules[n - 1]]
  ELSE With(1, s)

\* One that fails may have been applied.  Bound: a list of MaxRules is full.
PostRule(c) ==
  /\ Stands(c, "post")
  /\ \E s \in call[c].who :
       IF DOMAIN Inserted(s) \subseteq Numbers
       THEN \/ rules' = Inserted(s) /\ Overtakes(c, Idle("blocked"), Deleting) /\ UNCHANGED failures
            \/ Failure /\ rules' = Inserted(s) /\ Overtakes(c, Idle("error"), Deleting)
            \/ Failure /\ Return(c, "error") /\ UNCHANGED rules
       ELSE Return(c, "error") /\ UNCHANGED <<rules, failures>>
  /\ UNCHANGED layer

-----------------------------------------------------------------------------
(* unblock_ip, unblock_nfs_ip, unblock_smb_user.                           *)

StartUnblock(c, s) ==
  /\ Stands(c, "idle")
  /\ call' = [call EXCEPT ![c] = [Idle("none") EXCEPT !.pc = "read", !.who = {s}]]
  /\ UNCHANGED <<layer, rules, failures>>

\* An ACL entry has the subject as a whole and lies in the reserved range; so has a
\* mapping, of whoever made it; an export rule has the marker of the response and the
\* text of the address somewhere.
\* Mutant: the marker is not asked for.
MatchesWithoutMarker(rule, s) ==
  rule.who = s \/ (layer = "export" /\ <<s, rule.who>> \in Within)
Matches(rule, s) ==
  IF layer = "export" THEN rule.by = "response" /\ (rule.who = s \/ <<s, rule.who>> \in Within)
                      ELSE rule.who = s

ReadRules(c) ==
  /\ Stands(c, "read")
  /\ \/ \E s \in call[c].who :
          LET found == {n \in DOMAIN rules : Matches(rules[n], s)}
          IN  /\ IF found = {} THEN Return(c, "not_found")
                 ELSE call' = [call EXCEPT ![c].pc = "delete", ![c].todo = found]
              /\ UNCHANGED failures
     \/ Failure /\ Return(c, "error")
  /\ UNCHANGED <<layer, rules>>

\* Calls that are about to delete number n.
About(n) == {d \in Deleting : n \in call[d].todo}

\* One DELETE by number; ONTAP's answers come in index order.  Any error ends the
\* call, a number that is free by now included.
\* Mutant: the call ends with the first deletion.
DeleteFirstOnly(c) ==
  /\ Stands(c, "delete")
  /\ \E n \in call[c].todo \cap DOMAIN rules : rules' = Without(n)
  /\ Return(c, "unblocked")
  /\ UNCHANGED <<layer, failures>>
DeleteRule(c) ==
  /\ Stands(c, "delete")
  /\ \E n \in call[c].todo :
       /\ layer = "acl" \/ \A m \in call[c].todo : n <= m
       /\ \/ /\ n \in DOMAIN rules
             /\ rules' = Without(n)
             /\ Overtakes(c, IF call[c].todo = {n} THEN Idle("unblocked")
                             ELSE [call[c] EXCEPT !.todo = @ \ {n}], About(n))
             /\ UNCHANGED failures
          \/ n \notin DOMAIN rules /\ Return(c, "error") /\ UNCHANGED <<rules, failures>>
          \/ /\ Failure
             /\ n \in DOMAIN rules
             /\ rules' = Without(n)
             /\ Overtakes(c, Idle("error"), About(n))
          \/ Failure /\ Return(c, "error") /\ UNCHANGED rules
  /\ UNCHANGED layer

-----------------------------------------------------------------------------
\* list_active_blocks.
ActiveBlocks == {s \in Subjects : \E n \in DOMAIN rules : rules[n] = DenyRule(s)}

RulesNext ==
  \E c \in Callers :
    \/ \E s \in Subjects : StartBlock(c, s) \/ StartPost(c, s) \/ StartUnblock(c, s)
    \/ FindNumber(c) \/ Create(c) \/ PostRule(c) \/ ReadRules(c) \/ DeleteRule(c)

RulesSpec == RulesInit /\ [][RulesNext]_ruleVars

-----------------------------------------------------------------------------
(* Properties.                                                             *)

\* A subject stays blocked until an unblock that matches it runs, however many calls
\* overlap and race for a number, fail before or after they took effect, and shift the
\* indexes: each list implements the list of blocks.  What the code cannot promise is
\* part of that list: an unblock that another call overtook may lift any block.
Lifting ==
  [c \in Callers |->
     IF call[c].overtaken THEN Subjects
     ELSE IF Unblocking(c)
          THEN {s \in Subjects : \E t \in call[c].who : Matches(DenyRule(s), t)}
          ELSE {}]
Promise == INSTANCE BlockList WITH Clients <- Callers, blocked <- ActiveBlocks, lifting <- Lifting
ImplementsBlockList == Promise!AbsSpec

\* "Finds rules containing our response marker": the site's own entry stays, behind
\* every block so that none is out-ranked by it, whatever stale numbers overlapping
\* unblocks delete; only an unblock of the user of the site's mapping takes it, for
\* mappings carry no marker.
SiteRuleStays ==
  [][\A n \in DOMAIN rules : rules[n].by = "site" =>
       \/ \E k \in DOMAIN rules' : rules'[k] = rules[n] /\ \A m \in DOMAIN rules' : m <= k
       \/ \E c \in Deleting :
            /\ n \in call[c].todo /\ call'[c] # call[c]
            /\ layer = "mapping" /\ rules[n].who \in call[c].who]_ruleVars

\* An unblock that reports success, and that no other call overtook, leaves no block of
\* the subject but those made after it read the list, however often the subject was
\* blocked, also when earlier calls failed after they took effect.
UnblockIsComplete ==
  [][\A c \in Callers :
       Unblocking(c) /\ ~call[c].overtaken /\ call'[c].result \in {"unblocked", "not_found"} =>
         \A n \in DOMAIN rules', s \in call[c].who : rules'[n] = DenyRule(s) => n \in call[c].since
    ]_ruleVars
=============================================================================
