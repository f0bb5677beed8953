------------------------------ MODULE PkClient ------------------------------
(***************************************************************************)
(* class PkClient (lib/src/packagekit_client.dart) over class PkManager    *)
(* (native/src/pk_manager.cpp): connect with its property load and its     *)
(* timeout, the daemon's events on their way to daemonEvents, and close.   *)
(*                                                                         *)
(* The isolate's thread makes the native calls, which block it; the event  *)
(* loop's thread runs the manager's signal handlers.  Both post to the     *)
(* events port; a timer that fires goes into the same queue of the isolate.*)
(* A signal stands for a new state of the daemon, numbered from 1: a       *)
(* NetworkStateChanged carries it, the other two announce it.              *)
(***************************************************************************)
EXTENDS Integers, Sequences, SequencesExt

CONSTANTS
  MaxEvents,     \* bound: signals of the daemon
  Installed,     \* whether a PackageKit service can answer on the bus
  VmMajors,      \* the versions that the Dart VM's API may have
  ApiMajor       \* DART_API_DL_MAJOR_VERSION, which the library was built with

ASSUME ClientAssumption == MaxEvents \in Nat /\ Installed \subseteq BOOLEAN

VARIABLES
  vm,            \* the version of the running VM
  api,           \* the function pointers *_DL: NULL or bound
  installed,     \* PackageKit is on this system
  phase,         \* what connect and close have reached
  manager,       \* the native handle: none, null, live, freed, dead
  snapshot,      \* the state that readProperties read, or None
  read,          \* the outcome of readProperties
  emitted,       \* the daemon's state: signals it has emitted
  wire,          \* those on their way to the event loop
  posting,       \* the one the running handler has yet to post
  port,          \* the events port is open
  queue,         \* what the isolate's event loop has yet to handle
  props,         \* the state in _props, or None while _props is null
  first,         \* the future of _loadProperties: none, waiting, done, StateError
  listening,     \* the application listens to daemonEvents
  handled,       \* the last state that came in or preceded the subscription
  missed,        \* that state when the application began to listen
  delivered      \* the events it got

systemVars    == <<vm, installed>>
nativeVars    == <<api, manager, wire, posting>>
readVars      == <<snapshot, read>>
listenerVars  == <<listening, missed>>
incomingVars  == <<props, first, handled, delivered>>

vars == <<systemVars, nativeVars, readVars, listenerVars, incomingVars, phase, emitted, port, queue>>

None == -1

(* In the queue of the isolate: an event by its number, the properties, or *)
(* the timer of _loadProperties.                                           *)
Props   == 0
Timeout == -1

Init ==
  /\ vm \in VmMajors
  /\ api = "NULL"
  /\ installed \in Installed
  /\ phase = "start"
  /\ manager = "none"
  /\ snapshot = None
  /\ read = "none"
  /\ emitted = 0
  /\ wire = <<>>
  /\ posting = <<>>
  /\ port = FALSE
  /\ queue = <<>>
  /\ props = None
  /\ first = "none"
  /\ listening = FALSE
  /\ handled = 0
  /\ missed = 0
  /\ delivered = <<>>

-----------------------------------------------------------------------------
(* The isolate's thread.                                                   *)

(* pk_bridge_init: Dart_InitializeApiDL refuses another major version, and *)
(* its result is ignored.                                                  *)
InitializeApiDL == api' = IF vm = ApiMajor THEN "bound" ELSE "NULL"

InitBridge ==
  /\ phase = "start"
  /\ InitializeApiDL
  /\ phase' = "initialized"
  /\ UNCHANGED <<systemVars, readVars, listenerVars, incomingVars, manager, wire, posting,
                 emitted, port, queue>>

(* pk_manager_create returns null: no system bus.                          *)
ConnectThrows ==
  /\ phase = "initialized"
  /\ manager' = "null"
  /\ phase' = "failed"
  /\ UNCHANGED <<systemVars, readVars, listenerVars, incomingVars, api, wire, posting,
                 emitted, port, queue>>

(* The manager registers its handlers and starts its event loop; then      *)
(* _loadProperties waits for the first PkPropsEvent.                       *)
Connect ==
  /\ phase = "initialized"
  /\ manager' = "live"
  /\ port' = TRUE
  /\ handled' = emitted
  /\ first' = "waiting"
  /\ phase' = "reading"
  /\ UNCHANGED <<systemVars, readVars, listenerVars, props, delivered, api, wire, posting,
                 emitted, queue>>

(* readProperties gets thirteen properties one by one, then posts them     *)
(* all.  Signals arrive all the while.                                     *)
GetNetworkState ==
  /\ phase = "reading"
  /\ snapshot = None
  /\ installed
  /\ snapshot' = emitted
  /\ UNCHANGED <<systemVars, nativeVars, read, listenerVars, incomingVars, phase, emitted,
                 port, queue>>

ReadAfterTimer ==
  /\ phase = "reading"
  /\ snapshot # None
  /\ api = "bound"
  /\ read' = "ok"
  /\ queue' = queue \o <<Timeout, Props>>
  /\ phase' = "waiting"
  /\ UNCHANGED <<systemVars, nativeVars, snapshot, listenerVars, incomingVars, emitted, port>>

PostProps ==
  /\ phase = "reading"
  /\ snapshot # None
  /\ api = "bound"
  /\ read' = "ok"
  /\ queue' = Append(queue, Props)
  /\ phase' = "waiting"
  /\ UNCHANGED <<systemVars, nativeVars, snapshot, listenerVars, incomingVars, emitted, port>>

(* One of the reads throws: nothing is posted and PK_TRY swallows the      *)
(* error.                                                                  *)
ReadFails ==
  /\ phase = "reading"
  /\ read' = "failed"
  /\ phase' = "waiting"
  /\ UNCHANGED <<systemVars, nativeVars, snapshot, listenerVars, incomingVars, emitted, port, queue>>

(* The ten seconds that _loadProperties allows start after the read.       *)
TimerNeverFires == FALSE

TimerFires ==
  /\ phase = "waiting"
  /\ ~Contains(queue, Timeout)
  /\ queue' = Append(queue, Timeout)
  /\ UNCHANGED <<systemVars, nativeVars, readVars, listenerVars, incomingVars, phase, emitted, port>>

(* The listener of the events port.  The properties are stored and passed  *)
(* on, which completes first; with it, or with the timer, connect returns. *)
HandleProps ==
  /\ props' = snapshot
  /\ first' = "done"
  /\ phase' = IF phase = "waiting" THEN "connected" ELSE phase
  /\ UNCHANGED <<handled, delivered>>

TimeoutAsEvent ==
  /\ phase' = IF phase = "waiting" THEN "connected" ELSE phase
  /\ delivered' = Append(delivered, Timeout)
  /\ UNCHANGED <<props, first, handled>>

HandleTimeout ==
  /\ phase' = IF phase = "waiting" THEN "connected" ELSE phase
  /\ UNCHANGED incomingVars

(* daemonEvents is a broadcast stream: an event that comes before its      *)
(* listener is lost.                                                       *)
HandleDaemonEvent(e) ==
  /\ handled' = e
  /\ delivered' = IF listening THEN Append(delivered, e) ELSE delivered
  /\ UNCHANGED <<phase, props, first>>

OnManagerEvent ==
  /\ phase \in {"waiting", "connected", "closed"}
  /\ queue # <<>>
  /\ queue' = Tail(queue)
  /\ LET e == Head(queue) IN
     \/ e = Props /\ HandleProps
     \/ e = Timeout /\ HandleTimeout
     \/ e > 0 /\ HandleDaemonEvent(e)
  /\ UNCHANGED <<systemVars, nativeVars, readVars, listenerVars, emitted, port>>

Listen ==
  /\ phase = "connected"
  /\ ~listening
  /\ listening' = TRUE
  /\ missed' = handled
  /\ UNCHANGED <<systemVars, nativeVars, readVars, incomingVars, phase, emitted, port, queue>>

(* close: ~PkManager leaves the event loop and joins its thread; then the  *)
(* port and the controller close, and a first that still waits fails with  *)
(* a StateError that nobody catches.                                       *)
Close ==
  /\ phase = "connected"
  /\ phase' = "closing"
  /\ UNCHANGED <<systemVars, nativeVars, readVars, listenerVars, incomingVars, emitted, port, queue>>

CloseController ==
  /\ first' = IF first = "waiting" THEN "StateError" ELSE first
  /\ UNCHANGED <<props, handled, delivered>>

NotJoined ==
  /\ phase = "closing"
  /\ manager' = "freed"
  /\ port' = FALSE
  /\ queue' = <<>>
  /\ CloseController
  /\ phase' = "closed"
  /\ UNCHANGED <<systemVars, api, wire, posting, readVars, listenerVars, emitted>>

PortLeftOpen ==
  /\ phase = "closing"
  /\ posting = <<>>
  /\ manager' = "freed"
  /\ CloseController
  /\ phase' = "closed"
  /\ UNCHANGED <<systemVars, api, wire, posting, readVars, listenerVars, emitted, port, queue>>

Join ==
  /\ phase = "closing"
  /\ posting = <<>>
  /\ manager' = "freed"
  /\ port' = FALSE
  /\ queue' = <<>>
  /\ CloseController
  /\ phase' = "closed"
  /\ UNCHANGED <<systemVars, api, wire, posting, readVars, listenerVars, emitted>>

-----------------------------------------------------------------------------
(* The event loop's thread: onUpdatesChanged, onRepoListChanged and        *)
(* onNetworkStateChanged post one event each.                              *)
CoalesceSignals ==
  /\ manager = "live"
  /\ posting = <<>>
  /\ wire # <<>>
  /\ posting' = <<Head(wire)>>
  /\ wire' = <<>>
  /\ UNCHANGED <<systemVars, readVars, listenerVars, incomingVars, api, manager, phase, emitted,
                 port, queue>>

OnDaemonSignal ==
  /\ manager = "live"
  /\ posting = <<>>
  /\ wire # <<>>
  /\ posting' = <<Head(wire)>>
  /\ wire' = Tail(wire)
  /\ UNCHANGED <<systemVars, readVars, listenerVars, incomingVars, api, manager, phase, emitted,
                 port, queue>>

PostUnlessBusy ==
  /\ posting # <<>>
  /\ api = "bound"
  /\ queue' = IF port /\ Len(queue) < 2 THEN queue \o posting ELSE queue
  /\ posting' = <<>>
  /\ UNCHANGED <<systemVars, readVars, listenerVars, incomingVars, api, manager, wire, phase,
                 emitted, port>>

PostEvent ==
  /\ posting # <<>>
  /\ api = "bound"
  /\ queue' = IF port THEN queue \o posting ELSE queue
  /\ posting' = <<>>
  /\ UNCHANGED <<systemVars, readVars, listenerVars, incomingVars, api, manager, wire, phase,
                 emitted, port>>

(* A post through a function pointer that is NULL kills the process.       *)
PostThroughNull ==
  /\ api = "NULL"
  /\ posting # <<>> \/ (phase = "reading" /\ snapshot # None)
  /\ phase' = "crashed"
  /\ manager' = "dead"
  /\ posting' = <<>>
  /\ wire' = <<>>
  /\ queue' = <<>>
  /\ port' = FALSE
  /\ UNCHANGED <<systemVars, readVars, listenerVars, incomingVars, api, emitted>>

(* External: the daemon emits a signal of its manager object.              *)
Emit ==
  /\ installed
  /\ emitted < MaxEvents
  /\ emitted' = emitted + 1
  /\ wire' = IF manager = "live" THEN Append(wire, emitted + 1) ELSE wire
  /\ UNCHANGED <<systemVars, readVars, listenerVars, incomingVars, api, manager, posting, phase,
                 port, queue>>

-----------------------------------------------------------------------------
Isolate ==
  \/ InitBridge \/ ConnectThrows \/ Connect
  \/ GetNetworkState \/ PostProps \/ ReadFails
  \/ OnManagerEvent
  \/ Join

EventLoop == OnDaemonSignal \/ PostEvent

Next == Isolate \/ TimerFires \/ Listen \/ Close \/ EventLoop \/ PostThroughNull \/ Emit

(* Threads run and timers fire; the application need not listen or close,  *)
(* the daemon need not emit.                                               *)
Fairness ==
  /\ WF_vars(Isolate)
  /\ WF_vars(EventLoop)
  /\ WF_vars(PostThroughNull)
  /\ WF_vars(TimerFires)

SafetySpec == Init /\ [][Next]_vars

Spec == SafetySpec /\ Fairness

-----------------------------------------------------------------------------
(* Every variable of client and manager has its type.                      *)
TypeOK ==
  /\ vm \in VmMajors
  /\ api \in {"NULL", "bound"}
  /\ installed \in BOOLEAN
  /\ phase \in {"start", "initialized", "failed", "reading", "waiting", "connected",
                "closing", "closed", "crashed"}
  /\ manager \in {"none", "null", "live", "freed", "dead"}
  /\ snapshot \in None..MaxEvents
  /\ read \in {"none", "ok", "failed"}
  /\ emitted \in 0..MaxEvents
  /\ wire \in Seq(1..MaxEvents)
  /\ posting \in Seq(1..MaxEvents)
  /\ port \in BOOLEAN
  /\ queue \in Seq(Timeout..MaxEvents)
  /\ props \in None..MaxEvents
  /\ first \in {"none", "waiting", "done", "StateError"}
  /\ listening \in BOOLEAN
  /\ handled \in 0..MaxEvents
  /\ missed \in 0..MaxEvents
  /\ delivered \in Seq(1..MaxEvents)

(* A client that connect returned knows the daemon's properties, unless    *)
(* reading them failed: a read that succeeds never loses the race with the *)
(* timeout of _loadProperties, however long it blocked the isolate.        *)
PropertiesUnlessReadFailed ==
  phase \in {"connected", "closing", "closed"} /\ props = None => read = "failed"

(* A handler of the manager never runs on freed memory (~PkManager joins). *)
HandlersAreLive == posting # <<>> => manager = "live"

(* From its first event on, a listener misses none and sees them in order. *)
NoEventMissed ==
  \A i \in 1..(Len(delivered) - 1) : delivered[i + 1] = delivered[i] + 1

(* No event is added to a closed controller, which would throw: close      *)
(* closes the port first.                                                  *)
SilentAfterClose == [][phase = "closed" => UNCHANGED <<delivered, props>>]_vars

(* Every event that is handled after the application began to listen, or   *)
(* is on its way by then, reaches it, unless it closes the client first or *)
(* the process dies.  What was handled before, be it after the snapshot of *)
(* the properties was read, does not: nobody tells the application.        *)
EveryEventArrives ==
  \A n \in 1..MaxEvents :
    phase = "connected" /\ listening /\ missed < n /\ n <= emitted
      ~> Contains(delivered, n) \/ phase # "connected"

(* connect always completes in a VM that the library was built for: with   *)
(* properties, without them after the timeout, or by throwing.             *)
ConnectCompletes == vm = ApiMajor => <>(phase \in {"connected", "failed"})

(* README: without PackageKit, connect throws.                             *)
ThrowsWithoutPackageKit == phase = "connected" => installed
=============================================================================
