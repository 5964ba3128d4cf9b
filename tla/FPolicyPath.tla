------------------------------ MODULE FPolicyPath ------------------------------
(***************************************************************************)
(* The path of a file event: ONTAP notifies the FPolicy server             *)
(* (shared/fpolicy-server/fpolicy_server.py) over one of its connections,  *)
(* the server sends the event to SQS, and the handlers of EventShippers    *)
(* bring it to the vendor.  The server runs one thread per connection,     *)
(* which reads a notification, waits WRITE_COMPLETE_DELAY_SEC and sends.   *)
(*                                                                         *)
(* ONTAP opens connections, begins each with NEGO_REQ and does not repeat  *)
(* a notification of a connection that closed.  Messages that change no    *)
(* state (KEEP_ALIVE, ALERT_MSG, STATUS_REQ) are left out.                 *)
(***************************************************************************)
EXTENDS EventShippers, Sequences

CONSTANTS
  Conns,       \* connections of ONTAP nodes
  Svms,        \* storage virtual machines
  SvmOf,       \* the one behind each connection
  NoSvm,       \* no name: "" in the code
  DefaultSvmName  \* SVM_NAME of the server's environment, which may be the name of
                  \* any SVM, or "unknown"

ASSUME SvmAssumption ==
  /\ SvmOf \in [Conns -> Svms]
  /\ NoSvm \notin Svms \cup Conns \cup {DefaultSvmName}

VARIABLES
  mode,        \* FPOLICY_MODE, chosen once
  up,          \* connections that a thread serves
  conn_ctx,    \* per connection: the svm_name of its handshake
  inbox,       \* per connection: messages sent and not read, in order
  holding,     \* per connection: the notification in its delay
  svm_name,    \* svm_name of the events built
  origin,      \* history: the connection of a notification
  introduced,  \* history: the connections whose last handshake was sent with a name
  anonymous,   \* history: the notifications without a name, over a connection whose
               \* handshake had none
  fate         \* history: how a notification ended before the queue

sent == <<origin, introduced, anonymous>>
ontap == <<inbox, sent>>
server == <<mode, up, conn_ctx, ontap, holding, svm_name, fate>>
vars == <<server, shipperVars>>

Fates == {"none", "pathless", "logged", "failed", "lost"}

Nego(named) == [type |-> "NEGO_REQ", event |-> 0, named |-> named, path |-> FALSE]
Noti(e, named, path) == [type |-> "NOTI_REQ", event |-> e, named |-> named, path |-> path]
Messages == {Nego(named) : named \in BOOLEAN}
            \cup {Noti(e, named, path) : e \in Events, named \in BOOLEAN, path \in BOOLEAN}

Unread(c) == {inbox[c][n].event : n \in DOMAIN inbox[c]} \ {0}
Held(c) == Unread(c) \cup holding[c]

\* Everything has its type; a connection that is down holds nothing, a thread
\* is in one delay at a time, and what it holds came over its own connection
\* and is not on the queue.
TypeOK ==
  /\ ShippersTypeOK
  /\ mode \in {"realtime", "log"}
  /\ up \subseteq Conns
  /\ conn_ctx \in [Conns -> Svms \cup {NoSvm}]
  /\ \A c \in Conns : \A n \in DOMAIN inbox[c] : inbox[c][n] \in Messages
  /\ holding \in [Conns -> SUBSET Events]
  /\ svm_name \in [Events -> Svms \cup {NoSvm, DefaultSvmName}]
  /\ origin \in [Events -> Conns \cup {NoSvm}]
  /\ introduced \subseteq Conns /\ anonymous \subseteq Events
  /\ fate \in [Events -> Fates]
  /\ \A c \in Conns : /\ c \notin up => Held(c) = {} /\ conn_ctx[c] = NoSvm
                      /\ Cardinality(holding[c]) <= 1
                      /\ \A e \in Held(c) :
                           origin[e] = c /\ place[e] = "none" /\ fate[e] = "none"

Init ==
  /\ ShippersInit
  /\ mode \in {"realtime", "log"} /\ (mode = "log" => shipper = NewRelicSqs)
  /\ up = {}
  /\ conn_ctx = [c \in Conns |-> NoSvm]
  /\ inbox = [c \in Conns |-> <<>>]
  /\ holding = [c \in Conns |-> {}]
  /\ svm_name = [e \in Events |-> NoSvm]
  /\ origin = [e \in Events |-> NoSvm]
  /\ introduced = {} /\ anonymous = {}
  /\ fate = [e \in Events |-> "none"]

-----------------------------------------------------------------------------
(* ONTAP, and another program that sends to the queue what is no event.    *)

Unused == {e \in Events : origin[e] = NoSvm /\ place[e] = "none"}

\* One is notified over an open connection, or over a new one.
Notify(c) ==
  /\ shipper.via \in {"queue", "bus"}
  /\ up' = up \cup {c}
  /\ \E e \in Unused, named, hello, path \in BOOLEAN :
       /\ \A f \in Unused : e <= f
       /\ c \in up => (hello <=> c \in introduced)
       /\ introduced' = IF hello THEN introduced \cup {c} ELSE introduced \ {c}
       /\ anonymous' = IF named \/ hello THEN anonymous ELSE anonymous \cup {e}
       /\ origin' = [origin EXCEPT ![e] = c]
       /\ inbox' = [inbox EXCEPT ![c] = @ \o (IF c \in up THEN <<>> ELSE <<Nego(hello)>>)
                                         \o <<Noti(e, named, path)>>]
  /\ UNCHANGED <<mode, conn_ctx, holding, svm_name, fate, shipperVars>>

Foreign ==
  /\ mode = "realtime" /\ Unused # {} /\ Cardinality(garbage) < MaxGarbage
  /\ Put(Min(Unused), FALSE)
  /\ UNCHANGED <<server, faults>>

-----------------------------------------------------------------------------
(* The thread of a connection.                                             *)

Reads(c, type) ==
  c \in up /\ holding[c] = {} /\ inbox[c] # <<>> /\ Head(inbox[c]).type = type

\* _handle_nego_req: the handshake may name the SVM.
\* Mutant: the context is the server's, _session_context.
HandshakeOfServer(c) ==
  /\ Reads(c, "NEGO_REQ")
  /\ inbox' = [inbox EXCEPT ![c] = Tail(@)]
  /\ conn_ctx' = IF Head(inbox[c]).named
                 THEN [d \in Conns |-> IF d \in up THEN SvmOf[c] ELSE NoSvm] ELSE conn_ctx
  /\ UNCHANGED <<mode, up, sent, holding, svm_name, fate, shipperVars>>
Handshake(c) ==
  /\ Reads(c, "NEGO_REQ")
  /\ inbox' = [inbox EXCEPT ![c] = Tail(@)]
  /\ conn_ctx' = IF Head(inbox[c]).named THEN [conn_ctx EXCEPT ![c] = SvmOf[c]] ELSE conn_ctx
  /\ UNCHANGED <<mode, up, sent, holding, svm_name, fate, shipperVars>>

\* The svm_name of an event: the body's, the handshake's, the environment's.
SvmName(c, named) ==
  CASE named -> SvmOf[c]
    [] ~named /\ conn_ctx[c] # NoSvm -> conn_ctx[c]
    [] ~named /\ conn_ctx[c] = NoSvm -> DefaultSvmName

\* handle_noti_req, up to the delay.
Read(c) ==
  /\ Reads(c, "NOTI_REQ")
  /\ LET message == Head(inbox[c])
         e == message.event
     IN  /\ inbox' = [inbox EXCEPT ![c] = Tail(@)]
         /\ IF ~message.path
            THEN fate' = [fate EXCEPT ![e] = "pathless"] /\ UNCHANGED <<holding, svm_name>>
            ELSE /\ holding' = [holding EXCEPT ![c] = {e}]
                 /\ svm_name' = [svm_name EXCEPT ![e] = SvmName(c, message.named)]
                 /\ UNCHANGED fate
  /\ UNCHANGED <<mode, up, conn_ctx, sent, shipperVars>>

\* The delay is over: _send_to_sqs, which counts a failure and goes on.
SendToSqs(c, e) ==
  \/ Put(e, TRUE) /\ UNCHANGED <<fate, faults>>
  \/ /\ Fault
     /\ fate' = [fate EXCEPT ![e] = "failed"]
     /\ UNCHANGED <<shipper, garbage, queue, busVars, run, histories>>

SendEvent(c) ==
  /\ mode = "realtime"
  /\ \E e \in holding[c] : SendToSqs(c, e)
  /\ holding' = [holding EXCEPT ![c] = {}]
  /\ UNCHANGED <<mode, up, conn_ctx, ontap, svm_name>>

\* The connections in closed end, with what was not read and, when the process
\* ends, what is in its delay.
End(closed, ended) ==
  /\ up' = up \ closed
  /\ conn_ctx' = [c \in Conns |-> IF c \in closed THEN NoSvm ELSE conn_ctx[c]]
  /\ inbox' = [c \in Conns |-> IF c \in closed THEN <<>> ELSE inbox[c]]
  /\ holding' = [c \in Conns |-> IF c \in closed THEN {} ELSE holding[c]]
  /\ fate' = [e \in Events |-> IF e \in ended THEN "lost" ELSE fate[e]]
  /\ UNCHANGED <<mode, svm_name, sent>>

\* _write_to_log, which may raise: the thread closes its connection.
WriteToLog(c) ==
  /\ mode = "log" /\ holding[c] # {}
  /\ \/ /\ fate' = [e \in Events |-> IF e \in holding[c] THEN "logged" ELSE fate[e]]
        /\ holding' = [holding EXCEPT ![c] = {}]
        /\ UNCHANGED <<mode, up, conn_ctx, ontap, svm_name, faults>>
     \/ Fault /\ End({c}, Held(c))
  /\ UNCHANGED <<shipper, garbage, queue, busVars, run, histories>>

\* A frame that cannot be read, or an answer that cannot be written.
Close(c) ==
  /\ c \in up /\ holding[c] = {} /\ inbox[c] # <<>>
  /\ Fault
  /\ End({c}, Unread(c))
  /\ UNCHANGED <<shipper, garbage, queue, busVars, run, histories>>

\* SOCKET_TIMEOUT_SEC without a message, or ONTAP closed after the last one.
TimeOut(c) ==
  /\ c \in up /\ Unused # {} /\ holding[c] = {} /\ inbox[c] = <<>>
  /\ End({c}, {})
  /\ UNCHANGED shipperVars

\* The process ends; its threads are daemons.
Exit ==
  /\ up # {}
  /\ Fault
  /\ End(up, UNION {Held(c) : c \in up})
  /\ UNCHANGED <<shipper, garbage, queue, busVars, run, histories>>

Next ==
  \/ \E c \in Conns : \/ Notify(c) \/ Handshake(c) \/ Read(c)
                      \/ SendEvent(c) \/ WriteToLog(c) \/ Close(c) \/ TimeOut(c)
  \/ Foreign \/ Exit
  \/ ShippersNext /\ UNCHANGED server

Spec == Init /\ [][Next]_vars

-----------------------------------------------------------------------------
(* Properties.                                                             *)

\* Every notification is somewhere: unread or in its delay, on its way behind
\* the queue, ended there, counted as an ingestion failure, in the log file, or
\* lost with a connection or without a path.
NothingVanishes ==
  /\ \A e \in Events : origin[e] # NoSvm =>
       \/ e \in Held(origin[e]) \/ fate[e] # "none"
       \/ InHand(e) \/ Ended(e)
  /\ \A e \in Events : place[e] # "none" => InHand(e) \/ Ended(e)

\* An event carries the SVM's name its connection belongs to, whatever other
\* connections negotiate meanwhile.  Only one that neither it nor the handshake of
\* its connection named carries SVM_NAME, which may be the name of another SVM.
EventsCarryTheirSvm ==
  \A e \in Events : svm_name[e] # NoSvm =>
    svm_name[e] = IF e \in anonymous THEN DefaultSvmName ELSE SvmOf[origin[e]]
=============================================================================
