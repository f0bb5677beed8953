------------------------------ MODULE PkDaemon ------------------------------
(***************************************************************************)
(* External: packagekitd's side of one transaction object and the bus      *)
(* between it and the bridge, as the code under native/ uses them.         *)
(*                                                                         *)
(* The bus delivers the bridge's requests in order and the daemon's        *)
(* signals in order.  A request is a synchronous call: `call` is what its  *)
(* caller sees.  A caller that gave up (a timeout) leaves its request in   *)
(* the inbox, and the daemon may still act on it.                          *)
(***************************************************************************)
EXTENDS TransactionMessages

CONSTANTS
  DaemonForms,   \* the forms the daemon's items take
  Faults         \* which failures happen

ASSUME DaemonAssumption ==
  /\ DaemonForms \subseteq Forms
  /\ Faults \subseteq {"refuse", "expire", "timeout", "crash"}

VARIABLES
  daemon,        \* the transaction object on the daemon
  inbox,         \* requests on their way to the daemon
  call,          \* the bridge's synchronous call: none, waiting, ok or error
  emitted,       \* history: the form of every item emitted
  daemonExit,    \* the exit code the daemon finished with
  wire           \* signals on their way to the bridge

daemonVars == <<daemon, inbox, call, emitted, daemonExit, wire>>

DaemonInit ==
  /\ daemon = "none"
  /\ inbox = <<>>
  /\ call = "none"
  /\ emitted = <<>>
  /\ daemonExit = NoExit
  /\ wire = <<>>

Requests == {"hints", "invoke", "cancel"}

DaemonTypeOK ==
  /\ daemon \in {"none", "new", "running", "done", "gone"}
  /\ inbox \in Seq(Requests)
  /\ call \in {"none", "waiting", "ok", "error"}
  /\ emitted \in Seq(Forms)
  /\ daemonExit \in DaemonExits \cup {NoExit}
  /\ wire \in Seq(Signals)

(* CreateTransaction made a transaction object.                            *)
NewTransaction ==
  /\ daemon = "none"
  /\ daemon' = "new"
  /\ UNCHANGED <<inbox, call, emitted, daemonExit, wire>>

(* The bridge sends a request and waits for its reply.                     *)
Request(op) ==
  /\ call = "none"
  /\ inbox' = Append(inbox, op)
  /\ call' = "waiting"
  /\ UNCHANGED <<daemon, emitted, daemonExit, wire>>

(* The caller is still waiting for the reply to the oldest request.        *)
Answer(outcome) ==
  call' = IF call = "waiting" /\ Len(inbox) = 1 THEN outcome ELSE call

CanAccept(op) ==
  CASE op = "hints"  -> daemon = "new"
    [] op = "invoke" -> daemon = "new"
    [] op = "cancel" -> daemon = "running"

(* A transaction object accepts its method once; hints and a cancel that   *)
(* is granted leave its state alone (the cancel shows in a later Finished).*)
Accept ==
  /\ inbox # <<>>
  /\ CanAccept(Head(inbox))
  /\ daemon' = IF Head(inbox) = "invoke" THEN "running" ELSE daemon
  /\ inbox' = Tail(inbox)
  /\ Answer("ok")
  /\ UNCHANGED <<emitted, daemonExit, wire>>

(* An error reply: the object cannot take the request, or policy forbids it*)
(* (no authorization, not cancellable, an unsupported hint).               *)
Refuse ==
  /\ inbox # <<>>
  /\ CanAccept(Head(inbox)) => "refuse" \in Faults
  /\ inbox' = Tail(inbox)
  /\ Answer("error")
  /\ UNCHANGED <<daemon, emitted, daemonExit, wire>>

(* A data signal: one item, or two in the plural form the hints ask for.   *)
Emit(form) ==
  LET n == Len(emitted)
      size == IF form = "batch" THEN 2 ELSE 1
      items == [i \in 1..size |-> n + i]
  IN
  /\ daemon = "running"
  /\ n + size <= MaxItems
  /\ emitted' = emitted \o [i \in 1..size |-> form]
  /\ wire' = Append(wire, Signal(form, items, NoExit))
  /\ UNCHANGED <<daemon, inbox, call, daemonExit>>

Finish(exit) ==
  /\ daemon = "running"
  /\ daemon' = "done"
  /\ daemonExit' = exit
  /\ wire' = Append(wire, Signal("finished", <<>>, exit))
  /\ UNCHANGED <<inbox, call, emitted>>

(* The object goes away: after Finished, or because its method never came. *)
Destroy ==
  /\ daemon = "done" \/ (daemon = "new" /\ "expire" \in Faults)
  /\ daemon' = "gone"
  /\ wire' = Append(wire, Signal("destroy", <<>>, NoExit))
  /\ UNCHANGED <<inbox, call, emitted, daemonExit>>

(* packagekitd dies: the bus answers the outstanding call with an error.   *)
Crash ==
  /\ "crash" \in Faults
  /\ daemon \in {"new", "running", "done"}
  /\ daemon' = "gone"
  /\ inbox' = <<>>
  /\ call' = IF call = "waiting" THEN "error" ELSE call
  /\ UNCHANGED <<emitted, daemonExit, wire>>

(* The caller takes its reply, or gives up waiting for one.                *)
Replied(outcome) ==
  /\ call = outcome
  /\ call' = "none"
  /\ UNCHANGED <<daemon, inbox, emitted, daemonExit, wire>>

TimedOut ==
  /\ "timeout" \in Faults
  /\ call = "waiting"
  /\ call' = "none"
  /\ UNCHANGED <<daemon, inbox, emitted, daemonExit, wire>>

DaemonTurn ==
  \/ Accept
  \/ Refuse
  \/ \E form \in DaemonForms : Emit(form)
  \/ \E exit \in DaemonExits : Finish(exit)
  \/ Destroy
  \/ Crash
=============================================================================
