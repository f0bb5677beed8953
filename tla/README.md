# packagekit_dart in TLA+

TLA+ models of `packagekit_dart`, a Dart client for PackageKit: a C++ bridge
(sdbus-c++) talks to `packagekitd` over D-Bus and posts encoded messages to
Dart ports, where a dispatcher turns them into streams and a future.  TLC checks
the models on small instances; TLAPS proves the main safety properties for all
values of the constants.

## 1. Inventory

| Part | State | Operations | Hard because |
| --- | --- | --- | --- |
| `PkClient._startQuery` (packagekit_client.dart) | port, handle, dispatcher | create transaction, `setHints`, the method, port listener, `closeAll`, `cancel` | synchronous calls block the isolate while signals arrive; `finished` is tested before the microtask that sets it |
| `PkTransactionBridge` (pk_transaction.cpp, pk_bridge.cpp) | proxy, port number | one handler per signal, method calls, `postError`, destructor | two threads post to one port; a failed call posts a made-up end |
| `TransactionDispatcher` (dispatcher.dart) | completer, controllers, `_finished` | `dispatch`, `close` | errors, double ends, closed controllers, unhandled errors |
| `PkManager` / `PkClient` (pk_manager.cpp, dart_api_dl.c) | bound API, connection, event-loop thread, `_props`, `daemonEvents` | bind the Dart API, connect, load properties with a timeout, forward events, close | a blocking read against a timer; a snapshot against the signals around it; close against a running handler |
| Connection lifetime | the connection of `PkManager` | `close` beside open transactions | bridges borrow what `close` frees |
| Install plans (transaction.dart, `_collectPlan`) | collected packages | drain, await, sort | two awaits on one transaction; default category |
| Wire codec (glaze_meta.h, pk_types.h, codec.dart) | read offset | native encoder and decoder, thirteen Dart decoders, package ids, enum lookups | hand-written tables in two languages, no tags, length prefixes |
| FFI bindings (bindings.dart, pk_bridge.h, pk_bridge.cpp) | native memory of a call | combine bit fields, copy arguments down, call, free | the arguments change their names in four layers and are tied by position only; memory on the path of an exception |
| Build hook (hook/build.dart) | directories on disk | probe, fetch, build, register | each step can fail and the next run finds the remains |
| `packagekitd` and the bus | transaction object, inbox, signals | external | refuses, expires, answers late, dies |
| Enums | none | `fromInt`, `combine` | modelled with the codec and the bindings (`combine` bit by bit) |
| Value classes, loader, examples, vendored headers | none | accessors, candidate paths | not modelled (section 6) |

How they interact: the isolate's thread calls down through FFI and blocks in
D-Bus calls; the manager's event-loop thread runs every signal handler; both
post to ports with `Dart_PostCObject_DL`; the isolate handles one port message
per turn, and the microtasks of a turn run before the next message.

`PROJECT.json` lists the hazards of each part at its line, with the properties
that would catch them.

## 2. Modules

| Module | Models | State and actions |
| --- | --- | --- |
| `TransactionMessages` | message kinds, exits, signal forms | `FromInt` is `PkExit.fromInt`; a payload is its number |
| `PkDaemon` (external) | `packagekitd` and the bus, as the bridge uses them | `inbox` requests, `call` the reply, `wire` signals; `Accept`, `Refuse`, `Emit`, `Finish`, `Destroy`, `Crash`; an abandoned call stays in the inbox |
| `PkTransactionBridge` | the native bridge and the port | `posting[thread]` is what a running call or handler has yet to post, one message per step |
| `TransactionDispatcher` | `dispatch`, `close`, microtasks | `done`, `finished`, `seen`; tasks `close`, `report` (an error reaches its listeners or is uncaught), `listen` (a stream-first caller) |
| `PkTransaction` | the composition above, `_startQuery`, `cancel` | `pc` is where the isolate's thread is: create, hints, invoke, idle, cancel, destroy |
| `TransactionContract` | abstract: streams, result, end | refined by `PkTransaction`; environment of `InstallPlan` |
| `ClientLifetime` | `PkTransaction` beside the application of the README's quick start, which drains its streams, awaits `result` and closes | `connection` live or freed; `CloseClient` |
| `PkClient` | binding of the API, connect, properties, events, close | the isolate's thread, the event loop and a timer on one queue; `vm`, `api` the binding; `snapshot` and `read` the native read; `props` and `first` what `_loadProperties` waits for; `missed` the last signal handled when the application subscribed; `InitBridge`, `Connect`, `PostProps`, `ReadFails`, `TimerFires`, `OnManagerEvent`, `Listen`, `Close`, `Join`, `OnDaemonSignal`, `PostEvent` |
| `InstallPlan` | `_collectPlan`, `planFromPackages`, `allIds` | runs against `TransactionContract` |
| `GlazeCodec` | the native encoder and decoder, the field tables of both languages, `_Reader`, `PkPackageId.parse`, the enum lookups | one step per field that `_Reader` reads |
| `NativeCalls` | an operation from its Dart arguments through `PkBindings`, the C ABI and `to_vec` to the message on the bus | `todo` what the operation has yet to do, `heap` its native memory, `params` and `bus` what the lower layers got |
| `FfiBoundary`, `MCFfiBoundary` | the two directions together: the call, then a message | neither reads the other's state, so each call is followed by one message and each message preceded by one call; `MCFfiBoundary` supplies the inputs |
| `BuildHook` | the build hook over several runs | one action per external command; `source` what the marker test of the next run finds, `Remains` what a git command leaves that does not end well, `orphans` those that outlive a killed hook, `abandoned` that the last clone was not followed by its checkout |
| `LoopLemmas` | induction for the proofs | no state |
| `*_proofs` | TLAPS proofs | extend the module they are about |

Operators named for a bug (`LenientFromInt`, `FreeAtOnce`, `Swapped`, ...)
stand before the definition they vary.  They are never used by a specification:
each is a plausible defect that one property must detect, paired in
`PROJECT.json`.

Abstractions.  Items are numbers in the order they are sent; 0 is the error that
the bridge makes up itself.  The eleven stream controllers are one history:
they are closed together, each message goes to one, and each keeps its own order.
D-Bus methods other than hints and cancel are one request: they go through the
same macro.  sdbus may hold its bus lock during a synchronous call; the model lets
handlers run then as well, which only adds behaviours.  `unregister` and the join
of the event loop wait for a handler that runs.  In `GlazeCodec` a byte has `Base` values:
lengths keep four bytes and sizes eight, and arithmetic is that of `Base^4` (`Word`) and
`Base^8` (`DoubleWord`), so `Base = 3` meets the sign bit and the largest
length, with one byte value that is the separator of package ids (`Semicolon`) and two that
are not.  In `PkClient` a daemon signal is a new state of the daemon, numbered from 1; what
a signal says beyond that is its payload.  In `BuildHook` sources are told apart by what the marker test
and the build see: no `CMakeLists.txt`, one of the tip (whole or not), one of the pinned commit.  A killed
hook takes its git command with it, at any point of its work, or leaves it at work; deleting or
cleaning the directory ends such an orphan, and it changes the sources only where it finds none.  A value of a struct fits its type
(`InputsAssumption`): in particular no string and no list has as many members as four bytes
can count, where the encoder would cut the length.  `NativeCalls` keeps the real bits of filters and
flags, below 2^31, and a text is a sequence in which a zero may occur, since a C string ends there.

## 3. Runs

| Run | Bounds | Shows |
| --- | --- | --- |
| `transaction_safety` | 2 items in every form, exits success and one unknown, all faults, both kinds of callers, 1 cancel | a success is the daemon's own and complete; streams end after result; items once and in order; an exit that the daemon did not send is explained in `errors`; no call or handler on a freed bridge; refinement of `TransactionContract` (safety) |
| `transaction_liveness` | 1 item, faults without crash | refinement with fairness: result completes, streams end; `DartThreadReturns` |
| `client` | 4 events, a VM of the library's API version and one of another, with and without PackageKit | properties unless the read failed, whatever the timer does; handlers run on a live manager; from the subscription on every event arrives (`EveryEventArrives`), without a gap (`NoEventMissed`); silence after close; connect completes in a VM of the right version |
| `plan` | 2 ids, 7 infos, 3 packages | plan whole, successful and complete; `allIds`; a simulation ends |
| `codec` | every struct in 5 fillings, cut at every byte, in a buffer of its own or a view at offset 3; a string whose length has the top bit set, numbers beyond the enums, ids with two and with three separators; every operation with every choice of texts (one with a zero), of repeated flags and filters, taken or refused by the bus | the tables agree, also with the native decoder; whole messages decode to the last byte, truncated ones throw; ids survive; arguments and bits arrive in their places; hints go first; no native memory is left behind |
| `hook` | 3 runs, missing tools, every git command whole, failed with half of its work done, killed, or left at work by a killed hook; cleaned sources | what is registered was built in this run; unpinned sources only where the last clone was never followed by its checkout |

Two items are enough for order, batches and an item on either side of a failure;
one cancel and the two calls of `_startQuery` give three synthetic ends, more than any
interleaving of two threads needs; a third run of the hook can register what the
first left after the second changed it.

`CHECK_DEADLOCK FALSE` is set because transactions, clients, decoders and hooks end.
A thread that is stuck inside the bridge is covered by `DartThreadReturns`, a caller
that waits forever by `KeepsContract`, `SimulationEnds`, `EveryEventArrives` and `ConnectCompletes`.

### Statements of the sources that do not hold

Each has a run that expects a violation, and an entry under `findings`.  `transaction_leak` and
`lifetime` are two sides of one test, packagekit_client.dart:379: in an ordinary transaction no
message follows the sentinel, so the bridge is never dropped; where one does (a cancel refused
because the daemon has just finished, a call that timed out, a payload that does not decode) the
bridge is dropped a turn late, when the application may have closed the client.  A repair of one
must mind the other.

| Run | Statement | What happens |
| --- | --- | --- |
| `transaction_leak` | pk_transaction.cpp:439 | the bridge and the port of an ordinary transaction are never dropped |
| `transaction_crash` | transaction.dart:205 | result stays pending when the daemon dies |
| `transaction_uncaught` | example/install.dart:114 | draining a stream first makes the failure an unhandled error; `_collectPlan` does so itself |
| `client_readme` | README.md:26 | connect returns after ten seconds instead of throwing |
| `hook_pin` | hook/build.dart:58 | after a clone that failed with files left behind, or a failed checkout, the next run builds the branch tip |
| `lifetime` | pk_transaction.h:29 | a bridge uses the connection of a client that was closed after its streams had ended with a success |

The models also show behaviour that a comment may be read against, without a
run of its own:
- a refused call (an early cancel) makes result `failed` while the daemon goes on and may
  succeed; `SyntheticExitIsExplained` and `NoFalseSuccess` say what still holds;
- the properties are read once, while `PkPropsEvent` is described as following them
  (packagekit_client.dart:21, :99).  An event that is handled before the application listens is
  lost, `daemonEvents` being a broadcast stream; when that is a `NetworkStateChanged` handled after
  the read, the application keeps a stale state.  `missed` may exceed `snapshot`, and
  `EveryEventArrives` speaks of what comes after the subscription only;
- a close after a property read that failed makes `first` fail with a `StateError` that nobody
  handles (`CloseController`);
- in a VM of another major version than the library's the first post calls a null function
  (`PostThroughNull`): `pk_bridge_init` ignores what `Dart_InitializeApiDL` returns.
  `ConnectCompletes` exempts such a VM, and `EveryEventArrives` a process that died;
- a `Details` value of an unexpected type loses its signal (form `throws`), a text ends at a zero
  (`UpToNul`), a uint64 of 2^63 or more turns negative (`Signed`): the properties next to them
  are stated for what the code does there and do not refute it;
- the payloads are copied typed data (pk_transaction.cpp:454, pk_manager.cpp:121), where
  pk_bridge.h:4 and pk_types.h:2 say `kExternalTypedData`, and the exit code of Finished takes
  four bytes, where pk_types.h:16 says one; both sides of the code agree with each other;
- a host without git makes the build hook throw (`SubmoduleUpdate`), though
  hook/build.dart:8-11 says that it returns.

## 4. Fairness

`PkTransaction!Spec`: weak fairness of the isolate's thread and of the event loop
(both are OS threads that run while they have work), and, external, of a daemon that
answers its requests and finishes what it runs.  The application need never cancel;
faults, emitted items and destruction are never fair.  `ResultCompletes` is violated under this
same fairness because the daemon is gone.  `PkClient!Spec`: the two threads, the crash of a thread
that calls a null function (that thread has no other step), and the timer.
`InstallPlan!Spec`: the fairness of the contract (which `KeepsContract` shows of the
implementation) and of the collector.

## 5. Proofs

All are checked by `tlapm` with SMT, Zenon and LS4, from the named `ASSUME`s of the
modules only (`EveryBridgeLeaks` states its own); nothing is assumed about bounds beyond being natural numbers.

- `PkTransaction_proofs`
  - `TypeCorrect`: `TypeOK` is inductive; lemmas give the types of what
    `OnSignal`, `PostError` and the queues hold.
  - `BridgeSafe`: `LifeInv` adds that the handle is live exactly while the thread is
    between create and destroy, and that `Free` waits for the event loop.
  - `ResultBeforeEnd`: `EndInv` says that wherever a sentinel is (in a handler's
    remaining messages, in the queue, or as a scheduled close), a Finished is ahead of it or the
    result is known.  The property alone is not inductive: it says nothing of sentinels under way.
  - `SuccessIsTheDaemons`: `ExitInv` says that each Finished(success) under way, on the
    wire, in `posting` or in the queue, is the exit that the daemon finished with.
  - `Refinement`: initial states map to initial states and each step to a step of
    the contract or a stutter, from `EndInv`; `ScheduleClose` and messages that are dropped stutter.
  - `SyntheticExits`: `ExplainInv`, that at every station an end is the daemon's own or
    has the bridge's error (item 0) ahead of it.  A station is a handler's remaining messages,
    the queue or what was handled; "ahead" spans stations, which is why the property,
    which looks at the last one only, is not inductive.
  - `SuccessIsComplete`: `CompleteInv`, that while result is pending each item that the
    dispatcher can decode is still on its way, and ahead of each success under way.
  - `OrderKept`: `OrderInv`, that items rise at each station and from one station to the next.
- `PkClient_proofs`, on `TypeOK` and four invariants
  - `LifeInv` ties `phase`, `manager` and `port` together: `ManagerOutlivesHandlers`,
    `QuietAfterClose` (`TypeCorrect` needs only `TypeOK`).
  - `LoadInv` follows the properties from the read through the queue to `_props`, ahead of any
    timer: `PropertiesAreLoaded`.
  - `WayInv` says that the signals on the wire, in `posting`, in the queue and handled are contiguous.
  - `ListenInv` says that a listener has got exactly those handled since it subscribed:
    `EventsAreContiguous`, and with `WayInv` `ListenersCatchUp`, the part of `EveryEventArrives`
    that needs no fairness: once nothing is on its way, all that came since has arrived.
- `BridgeLeak_proofs`, `EveryBridgeLeaks`: the finding of `transaction_leak` holds of every
  transaction without faults, cancels and payloads that do not decode (`CleanTransaction`), in
  every interleaving.  `CallInv` says that the calls of `_startQuery` succeed, `LastInv` that the
  sentinel is the last message at every station it passes; so no message is left that could wake
  `closeAll` when the streams have ended, and bridge and port stay (`Undropped`).
- `LoopLemmas`: what a loop computes.  The induction theorems of the library take an operator as a
  parameter, which no prover here instantiates; `NatSetInduction` states induction for a set of
  numbers instead, from the well-foundedness of the naturals, and `LoopExists` that a function
  defined by recursion on a counter exists.  The recursive functions of the models are loops of
  the code, and each proof about one has the same form: the function exists, hence satisfies its
  equation; a set `S` of counters at which the claim holds contains them all.
- `InstallPlan_proofs`
  - `PlanIsWhole`: `CollectInv`, that a drained stream stays drained because an ended transaction
    delivers nothing.
  - `CollectorTypes`, `PlanLosesNothing`, `RemovalsStayOut`: a loop invariant of `planFromPackages`:
    after n packages each list holds the packages among them of its category, each as often as it
    occurs; so no `for` skips one and none is in two lists.
- `GlazeCodec_proofs`, for every struct, every value of each type, every byte base and every cut
  - Lemmas on the primitives: a number is read back from its little-endian bytes, a string from
    its length and bytes, and both only from bytes that the encoder wrote there; `FlattenSeq` puts
    part i behind the lengths of the parts before it, which gives each field of a struct and each
    string of a list its place (`Here`, `ItemHere`).
  - `ReaderInv`, the inductive invariant: at field i the reader stands where the encoder put
    field i, within a list where it put the string, and `out` and `items` are what was sent so far.
    None of the checked properties is inductive: they speak of the end, or of one offset.
  - `ReaderTypeOK`, `ReaderStaysInView`, `ValuesArrive`, `TruncationThrows` follow: a view that is
    cut is shorter than the place behind some field, so a bounds check fails before the end.
  - `NativeRoundTrip`: the same places, for the decoder in C++; `BothDecodersAgree` from both.
  - `PackageIdsAreWhole`: the separators cut an id into parts that are put together again, and there
    is one part more than there are separators.
- `FfiBoundary_proofs`, for all texts, lists and fields
  - `CallInv`, the inductive invariant: what is left to call determines the messages on the bus;
    during a call native memory is what the arguments were copied to and the parameters are
    what was copied back; between calls native memory is empty.  `CallsLeakNothing` and
    `HintsFirst` follow.
  - `TablesAgree`: the tables of four layers have, for each operation, matching names at each
    position; with `TextSurvives` (a C string ends at the first zero) `ArgumentsReachTheBus`.
  - `BitsReachTheBus`: `BitOr` has a bit where either number has it, `Combine` where any value has
    it, and the values of the enums are single bits; so a value listed twice changes nothing.
  - `ReaderIsUndisturbed`, `CodecAtTheBoundary`: a behaviour of the boundary is one of the reader,
    and what is proved of the codec holds there.
- `BuildHook_proofs`: `HookTypes`; `HookInv`, that unpinned sources are on their way to the
  checkout or were abandoned, that a clone is only left at work by an abandoned run, and that what
  waits for registration was built from the sources present.

Every safety property of the passing runs is a theorem.  Only model-checked are liveness and
the fair refinement (`KeepsContract`, `DartThreadReturns`, `SimulationEnds`, `EveryEventArrives`,
`ConnectCompletes`), which are out of the provers' reach, and the six statements that do not hold.

What the proofs take from outside the sources: that the host is little-endian, as every
platform of the package is, and the D-Bus interface of a transaction (`Interface`), which is external.

## 6. Not modelled

- The value classes (immutable records), the library loader (a list of paths, tried in
  order), the examples, the CMake files, scripts and tests.
- The vendored Dart API: dart_api.h, dart_native_api.h and dart_api_dl.h are declarations
  from the Dart SDK, 4491 lines that hold no behaviour of this package (its own C++ is some 1500
  lines); the loader in dart_api_dl.c is modelled (`InitializeApiDL`).
- `TransactionListChanged`: its handler posts nothing.
- `pk_search_groups` and `pk_get_old_transactions`: exported by the bridge, without a
  binding in Dart, so that no operation reaches them.
- Several transactions of one client at once: they share nothing but the connection and its
  thread.
- A second `close` deletes the manager twice: undefined behaviour with no later state to
  say anything about, and outside the use that the sources describe.

## 7. Plan

Done, in this order: transaction chain and contract, its proofs, client, lifetime,
plans, codec, build hook; then the client anew (binding, snapshot against events) with its
proofs, the FFI boundary in both directions, and the proofs about order, completeness,
synthetic ends and the leak of every clean transaction;
and then the loops: install plans, the codec's round trip and the calls across the
boundary, so that every safety property of the runs is proved.

Next:
1. `ClientLifetime` with two transactions on one event loop.
2. An end-to-end statement: the plan of `_collectPlan` over `PkTransaction` itself, from
   `Refinement` and `PlanIsWhole`.
3. The library loader, as a search over the candidates that exist.
