-------------------------- MODULE PkClient_proofs ---------------------------
(***************************************************************************)
(* What an application can rely on of a client, for any number of signals, *)
(* whatever threads, timer and daemon interleave.                          *)
(***************************************************************************)
EXTENDS PkClient, SequenceTheorems, TLAPS

-----------------------------------------------------------------------------
(* Sequences.                                                              *)

(* What Append does to a queue.                                            *)
LEMMA AppendIs ==
  ASSUME NEW S, NEW s \in Seq(S), NEW e \in S
  PROVE  /\ Append(s, e) \in Seq(S)
         /\ DOMAIN Append(s, e) = 1..(Len(s) + 1)
         /\ Len(Append(s, e)) = Len(s) + 1
         /\ \A i \in 1..Len(s) : Append(s, e)[i] = s[i]
         /\ Append(s, e)[Len(s) + 1] = e
         /\ Append(s, e) # <<>>
OBVIOUS

(* What Head and Tail do to a queue.                                       *)
LEMMA TailIs ==
  ASSUME NEW S, NEW s \in Seq(S), s # <<>>
  PROVE  /\ Head(s) = s[1]
         /\ Head(s) \in S
         /\ Len(s) >= 1
         /\ Tail(s) \in Seq(S)
         /\ DOMAIN Tail(s) = 1..(Len(s) - 1)
         /\ Len(Tail(s)) = Len(s) - 1
         /\ \A i \in 1..(Len(s) - 1) : Tail(s)[i] = s[i + 1]
OBVIOUS

(* A sequence of one element is appended like that element.                *)
LEMMA ConcatOne ==
  ASSUME NEW S, NEW s \in Seq(S), NEW t \in Seq(S), Len(t) = 1
  PROVE  /\ s \o t \in Seq(S)
         /\ DOMAIN (s \o t) = 1..(Len(s) + 1)
         /\ Len(s \o t) = Len(s) + 1
         /\ \A i \in 1..Len(s) : (s \o t)[i] = s[i]
         /\ (s \o t)[Len(s) + 1] = t[1]
BY ConcatProperties

(* A sequence of one element, and one over a larger set.                   *)
LEMMA OneIs ==
  ASSUME NEW S, NEW e \in S
  PROVE  <<e>> \in Seq(S) /\ Len(<<e>>) = 1 /\ <<e>>[1] = e /\ <<e>> # <<>>
OBVIOUS

LEMMA Widen ==
  ASSUME NEW S, NEW T, S \subseteq T, NEW s \in Seq(S)
  PROVE  s \in Seq(T)
OBVIOUS

-----------------------------------------------------------------------------
(* Types.                                                                  *)

(* The variables of client and manager keep their types, for any number of *)
(* signals.                                                                *)
THEOREM TypeCorrect == SafetySpec => []TypeOK
<1> USE ClientAssumption DEF ClientAssumption
<1>1. Init => TypeOK
  <2> SUFFICES ASSUME Init PROVE TypeOK
    OBVIOUS
  <2>1. installed \in BOOLEAN
    BY Zenon DEF Init
  <2>2. <<>> \in Seq(1..MaxEvents) /\ <<>> \in Seq(Timeout..MaxEvents)
    OBVIOUS
  <2>3. 0 \in 0..MaxEvents /\ None \in None..MaxEvents
    BY DEF None
  <2> QED
    BY <2>1, <2>2, <2>3 DEF Init, TypeOK
<1>2. TypeOK /\ [Next]_vars => TypeOK'
  <2> SUFFICES ASSUME TypeOK, [Next]_vars
               PROVE  TypeOK'
    OBVIOUS
  <2> USE DEF TypeOK, systemVars, readVars, listenerVars, incomingVars, nativeVars, None,
              Timeout, Props
  <2>1. CASE InitBridge
    BY <2>1 DEF InitBridge, InitializeApiDL
  <2>2. CASE ConnectThrows
    BY <2>2 DEF ConnectThrows
  <2>3. CASE Connect
    BY <2>3 DEF Connect
  <2>4. CASE GetNetworkState
    BY <2>4 DEF GetNetworkState
  <2>5. CASE PostProps
    <3>1. Append(queue, Props) \in Seq(Timeout..MaxEvents)
      BY AppendIs
    <3> QED
      BY <2>5, <3>1 DEF PostProps
  <2>6. CASE ReadFails
    BY <2>6 DEF ReadFails
  <2>7. CASE OnManagerEvent
    <3>1. /\ Head(queue) \in Timeout..MaxEvents
          /\ Tail(queue) \in Seq(Timeout..MaxEvents)
      <4>1. queue \in Seq(Timeout..MaxEvents) /\ queue # <<>>
        BY <2>7 DEF OnManagerEvent
      <4> QED
        BY <4>1, TailIs, Zenon
    <3>2. CASE HandleProps
      BY <2>7, <3>1, <3>2 DEF OnManagerEvent, HandleProps
    <3>3. CASE HandleTimeout
      BY <2>7, <3>1, <3>3 DEF OnManagerEvent, HandleTimeout
    <3>4. CASE Head(queue) > 0 /\ HandleDaemonEvent(Head(queue))
      <4>1. Head(queue) \in 1..MaxEvents
        BY <3>1, <3>4
      <4>2. Append(delivered, Head(queue)) \in Seq(1..MaxEvents)
        BY <4>1, AppendIs, Zenon
      <4>3. delivered' \in Seq(1..MaxEvents)
        BY <3>4, <4>2, Zenon DEF HandleDaemonEvent
      <4> QED
        BY <2>7, <3>1, <3>4, <4>1, <4>3 DEF OnManagerEvent, HandleDaemonEvent
    <3> QED
      BY <2>7, <3>2, <3>3, <3>4 DEF OnManagerEvent
  <2>8. CASE Join
    <3>1. <<>> \in Seq(Timeout..MaxEvents)
      OBVIOUS
    <3> QED
      BY <2>8, <3>1 DEF Join, CloseController
  <2>9. CASE TimerFires
    <3>1. Append(queue, Timeout) \in Seq(Timeout..MaxEvents)
      BY AppendIs
    <3> QED
      BY <2>9, <3>1 DEF TimerFires
  <2>10. CASE Listen
    BY <2>10 DEF Listen
  <2>11. CASE Close
    BY <2>11 DEF Close
  <2>12. CASE OnDaemonSignal
    <3>1. wire \in Seq(1..MaxEvents) /\ wire # <<>>
      BY <2>12 DEF OnDaemonSignal
    <3>2. /\ Head(wire) \in 1..MaxEvents
          /\ Tail(wire) \in Seq(1..MaxEvents)
      BY <3>1, TailIs, Zenon
    <3>3. <<Head(wire)>> \in Seq(1..MaxEvents)
      BY <3>2, OneIs, Zenon
    <3> QED
      BY <2>12, <3>2, <3>3 DEF OnDaemonSignal
  <2>13. CASE PostEvent
    <3>1. posting \in Seq(Timeout..MaxEvents)
      <4>1. 1..MaxEvents \subseteq Timeout..MaxEvents
        OBVIOUS
      <4> QED
        BY <4>1, Widen, Zenon
    <3>2. queue \o posting \in Seq(Timeout..MaxEvents)
      BY <3>1, ConcatProperties
    <3>3. queue' \in Seq(Timeout..MaxEvents)
      BY <2>13, <3>2, Zenon DEF PostEvent
    <3>4. <<>> \in Seq(1..MaxEvents)
      OBVIOUS
    <3> QED
      BY <2>13, <3>3, <3>4 DEF PostEvent
  <2>14. CASE PostThroughNull
    <3>1. <<>> \in Seq(1..MaxEvents) /\ <<>> \in Seq(Timeout..MaxEvents)
      OBVIOUS
    <3> QED
      BY <2>14, <3>1 DEF PostThroughNull
  <2>15. CASE Emit
    <3>1. emitted + 1 \in 1..MaxEvents
      BY <2>15 DEF Emit
    <3>2. Append(wire, emitted + 1) \in Seq(1..MaxEvents)
      BY <3>1, AppendIs
    <3>3. wire' \in Seq(1..MaxEvents) /\ emitted' \in 0..MaxEvents
      <4>1. wire' \in Seq(1..MaxEvents)
        BY <2>15, <3>2, Zenon DEF Emit
      <4> QED
        BY <2>15, <3>1, <4>1 DEF Emit
    <3> QED
      BY <2>15, <3>3 DEF Emit
  <2>16. CASE UNCHANGED vars
    BY <2>16 DEF vars
  <2> QED
    BY <2>1, <2>2, <2>3, <2>4, <2>5, <2>6, <2>7, <2>8, <2>9, <2>10, <2>11, <2>12, <2>13,
       <2>14, <2>15, <2>16 DEF Next, Isolate, EventLoop
<1> QED
  BY <1>1, <1>2, PTL DEF SafetySpec

-----------------------------------------------------------------------------
(* The life of the manager.                                                *)

LifeInv ==
  /\ manager = "live" <=> phase \in {"reading", "waiting", "connected", "closing"}
  /\ manager # "live" => posting = <<>> /\ queue = <<>>
  /\ manager \in {"none", "null"} => wire = <<>>
  /\ phase \in {"start", "initialized"} => manager = "none"
  /\ manager = "live" => port
  /\ listening => manager \notin {"none", "null"}

LEMMA LifeStep == LifeInv /\ [Next]_vars => LifeInv'
<1> SUFFICES ASSUME LifeInv, [Next]_vars
             PROVE  LifeInv'
  OBVIOUS
<1> USE DEF LifeInv, systemVars, nativeVars, listenerVars
<1>1. CASE InitBridge
  BY <1>1 DEF InitBridge, InitializeApiDL
<1>2. CASE ConnectThrows \/ Connect
  BY <1>2 DEF ConnectThrows, Connect
<1>3. CASE GetNetworkState \/ PostProps \/ ReadFails
  BY <1>3 DEF GetNetworkState, PostProps, ReadFails
<1>4. CASE OnManagerEvent
  BY <1>4 DEF OnManagerEvent, HandleProps, HandleTimeout, HandleDaemonEvent
<1>5. CASE Join
  BY <1>5 DEF Join
<1>6. CASE TimerFires
  BY <1>6 DEF TimerFires
<1>7. CASE Listen \/ Close
  BY <1>7 DEF Listen, Close
<1>8. CASE OnDaemonSignal \/ PostEvent
  BY <1>8 DEF OnDaemonSignal, PostEvent
<1>9. CASE PostThroughNull
  BY <1>9 DEF PostThroughNull
<1>10. CASE Emit
  BY <1>10 DEF Emit
<1>11. CASE UNCHANGED vars
  BY <1>11 DEF vars
<1> QED
  BY <1>1, <1>2, <1>3, <1>4, <1>5, <1>6, <1>7, <1>8, <1>9, <1>10, <1>11
     DEF Next, Isolate, EventLoop

LEMMA Life == SafetySpec => []LifeInv
<1>1. Init => LifeInv
  BY DEF Init, LifeInv
<1> QED
  BY <1>1, LifeStep, PTL DEF SafetySpec

(* No handler of the manager runs on freed memory: the destructor joins    *)
(* the event loop before the memory goes.                                  *)
THEOREM ManagerOutlivesHandlers == SafetySpec => []HandlersAreLive
<1>1. LifeInv => HandlersAreLive
  BY DEF LifeInv, HandlersAreLive
<1> QED
  BY <1>1, Life, PTL

-----------------------------------------------------------------------------
(* The property load.                                                      *)

(* The properties are queued ahead of the timer.                           *)
PropsBeforeTimer ==
  \E i \in DOMAIN queue : queue[i] = Props /\ \A j \in 1..(i - 1) : queue[j] # Timeout

LoadInv ==
  /\ phase = "reading" => \A i \in DOMAIN queue : queue[i] > 0
  /\ read = "ok" => snapshot # None
  /\ \A i \in DOMAIN queue : queue[i] = Props => snapshot # None
  /\ phase = "waiting" => read \in {"ok", "failed"}
  /\ phase = "waiting" /\ read = "ok" => PropsBeforeTimer
  /\ phase \in {"connected", "closing", "closed"} => props # None \/ read = "failed"

LEMMA LoadStep == TypeOK /\ LifeInv /\ LoadInv /\ [Next]_vars => LoadInv'
<1> SUFFICES ASSUME TypeOK, LifeInv, LoadInv, [Next]_vars
             PROVE  LoadInv'
  OBVIOUS
<1>q. queue \in Seq(Timeout..MaxEvents)
  BY DEF TypeOK
<1> USE DEF LoadInv, PropsBeforeTimer, systemVars, nativeVars, readVars, listenerVars,
            incomingVars
<1>1. CASE InitBridge \/ ConnectThrows
  BY <1>1 DEF InitBridge, ConnectThrows
<1>2. CASE Connect
  BY <1>2 DEF Connect, LifeInv
<1>3. CASE GetNetworkState
  BY <1>3, ClientAssumption DEF GetNetworkState, TypeOK, None, ClientAssumption
<1>4. CASE PostProps
  <2>1. Props \in Timeout..MaxEvents
    BY ClientAssumption DEF Props, Timeout, ClientAssumption
  <2>2. /\ queue' = Append(queue, Props)
        /\ DOMAIN queue = 1..Len(queue) /\ Len(queue) \in Nat
        /\ DOMAIN queue' = 1..(Len(queue) + 1)
        /\ \A i \in 1..Len(queue) : queue'[i] = queue[i] /\ queue[i] > 0
        /\ queue'[Len(queue) + 1] = Props
    BY <1>4, <1>q, <2>1, AppendIs DEF PostProps
  <2>3. PropsBeforeTimer'
    BY <2>2 DEF Timeout, Props
  <2> QED
    BY <1>4, <2>2, <2>3 DEF PostProps, Props
<1>5. CASE ReadFails
  BY <1>5 DEF ReadFails
<1>6. CASE OnManagerEvent
  <2>1. /\ queue' = Tail(queue) /\ Head(queue) = queue[1] /\ Len(queue) \in Nat \ {0}
        /\ DOMAIN queue = 1..Len(queue)
        /\ DOMAIN queue' = 1..(Len(queue) - 1)
        /\ \A i \in 1..(Len(queue) - 1) : queue'[i] = queue[i + 1]
    BY <1>6, <1>q, TailIs DEF OnManagerEvent
  <2>2. phase \in {"waiting", "connected"} /\ UNCHANGED <<snapshot, read>>
    BY <1>6 DEF OnManagerEvent, LifeInv
  <2>3. \A i \in DOMAIN queue' : queue'[i] = Props => snapshot' # None
    BY <2>1, <2>2
  <2>4. CASE Head(queue) = Props /\ HandleProps
    BY <2>1, <2>2, <2>3, <2>4 DEF HandleProps
  <2>5. CASE Head(queue) = Timeout /\ HandleTimeout
    <3>1. ~(phase = "waiting" /\ read = "ok")
      <4> SUFFICES ASSUME PropsBeforeTimer PROVE FALSE
        OBVIOUS
      <4>1. PICK i \in DOMAIN queue : queue[i] = Props /\ \A j \in 1..(i - 1) : queue[j] # Timeout
        OBVIOUS
      <4> QED
        BY <2>1, <2>5, <4>1 DEF Props, Timeout
    <3> QED
      BY <2>1, <2>2, <2>3, <2>5, <3>1 DEF HandleTimeout
  <2>6. CASE Head(queue) > 0 /\ HandleDaemonEvent(Head(queue))
    <3>1. UNCHANGED <<phase, props, first>>
      BY <2>6 DEF HandleDaemonEvent
    <3>2. ASSUME PropsBeforeTimer PROVE PropsBeforeTimer'
      <4>1. PICK i \in DOMAIN queue : queue[i] = Props /\ \A j \in 1..(i - 1) : queue[j] # Timeout
        BY <3>2
      <4>2. i > 1
        BY <2>1, <2>6, <4>1 DEF Props
      <4>3. /\ i - 1 \in DOMAIN queue' /\ queue'[i - 1] = Props
            /\ \A j \in 1..(i - 2) : queue'[j] # Timeout
        BY <2>1, <4>1, <4>2
      <4> QED
        BY <2>1, <4>3
    <3> QED
      BY <2>2, <2>3, <3>1, <3>2
  <2> QED
    BY <1>6, <2>4, <2>5, <2>6 DEF OnManagerEvent
<1>7. CASE Join
  BY <1>7, <1>q DEF Join, CloseController
<1>8. CASE TimerFires
  <2>1. Timeout \in Timeout..MaxEvents
    BY ClientAssumption DEF Timeout, ClientAssumption
  <2>2. /\ queue' = Append(queue, Timeout)
        /\ DOMAIN queue = 1..Len(queue) /\ Len(queue) \in Nat
        /\ DOMAIN queue' = 1..(Len(queue) + 1)
        /\ \A i \in 1..Len(queue) : queue'[i] = queue[i]
        /\ queue'[Len(queue) + 1] = Timeout
    BY <1>8, <1>q, <2>1, AppendIs DEF TimerFires
  <2>3. PropsBeforeTimer => PropsBeforeTimer'
    BY <2>2
  <2> QED
    BY <1>8, <2>2, <2>3 DEF TimerFires, Props, Timeout
<1>9. CASE Listen \/ Close
  BY <1>9 DEF Listen, Close
<1>10. CASE OnDaemonSignal
  BY <1>10 DEF OnDaemonSignal
<1>11. CASE PostEvent
  <2>1. CASE queue' = queue
    BY <1>11, <2>1 DEF PostEvent
  <2>2. CASE queue' = queue \o posting
    <3>1. posting \in Seq(Timeout..MaxEvents)
      <4>1. 1..MaxEvents \subseteq Timeout..MaxEvents
        BY ClientAssumption DEF Timeout, ClientAssumption
      <4> QED
        BY <4>1, Widen, Zenon DEF TypeOK
    <3>2. /\ DOMAIN queue = 1..Len(queue) /\ Len(queue) \in Nat /\ Len(posting) \in Nat
          /\ DOMAIN queue' = 1..(Len(queue) + Len(posting))
          /\ \A i \in 1..Len(queue) : queue'[i] = queue[i]
          /\ \A i \in DOMAIN queue' : i > Len(queue) => queue'[i] > 0
      <4>1. \A k \in 1..Len(posting) : posting[k] > 0
        <5>1. posting \in Seq(1..MaxEvents)
          BY DEF TypeOK
        <5> QED
          BY <5>1, ClientAssumption DEF ClientAssumption
      <4>2. /\ DOMAIN queue = 1..Len(queue) /\ Len(queue) \in Nat /\ Len(posting) \in Nat
            /\ queue' \in Seq(Timeout..MaxEvents)
            /\ Len(queue') = Len(queue) + Len(posting)
            /\ \A i \in 1..(Len(queue) + Len(posting)) :
                 queue'[i] = IF i <= Len(queue) THEN queue[i] ELSE posting[i - Len(queue)]
        BY <1>q, <2>2, <3>1, ConcatProperties
      <4> QED
        BY <4>1, <4>2
    <3>3. PropsBeforeTimer => PropsBeforeTimer'
      BY <3>2
    <3>4. UNCHANGED <<phase, first, read, snapshot, props>>
      BY <1>11 DEF PostEvent
    <3>5. /\ phase = "reading" => \A i \in DOMAIN queue' : queue'[i] > 0
          /\ \A i \in DOMAIN queue' : queue'[i] = Props => snapshot # None
      BY <3>2 DEF Props
    <3> QED
      BY <3>3, <3>4, <3>5
  <2> QED
    BY <1>11, <2>1, <2>2 DEF PostEvent
<1>12. CASE PostThroughNull
  BY <1>12 DEF PostThroughNull
<1>13. CASE Emit
  BY <1>13 DEF Emit
<1>14. CASE UNCHANGED vars
  BY <1>14 DEF vars
<1> QED
  BY <1>1, <1>2, <1>3, <1>4, <1>5, <1>6, <1>7, <1>8, <1>9, <1>10, <1>11, <1>12, <1>13, <1>14
     DEF Next, Isolate, EventLoop

LEMMA Load == SafetySpec => []LoadInv
<1>1. Init => LoadInv
  BY DEF Init, LoadInv, PropsBeforeTimer
<1> QED
  BY <1>1, LoadStep, TypeCorrect, Life, PTL DEF SafetySpec

(* A client that connect returned knows the properties unless a read       *)
(* failed: the read blocks the isolate, so that its message is queued      *)
(* before the timer of _loadProperties exists.                             *)
THEOREM PropertiesAreLoaded == SafetySpec => []PropertiesUnlessReadFailed
<1>1. LoadInv => PropertiesUnlessReadFailed
  BY DEF LoadInv, PropertiesUnlessReadFailed
<1> QED
  BY <1>1, Load, PTL

-----------------------------------------------------------------------------
(* The way of the events.                                                  *)

(* The last state that has reached the port.                               *)
Posted == emitted - Len(wire) - Len(posting)

(* What is between the isolate and the daemon is the states since the last *)
(* that was handled, each once and in order.                               *)
WireStates ==
  /\ Len(posting) <= 1
  /\ handled <= Posted
  /\ \A k \in 1..Len(wire) : wire[k] = emitted - Len(wire) + k
  /\ posting # <<>> => posting[1] = Posted + 1

QueueStates ==
  \A e \in 1..MaxEvents : (\E i \in DOMAIN queue : queue[i] = e) <=> handled < e /\ e <= Posted

QueueOrdered ==
  \A i, j \in DOMAIN queue : i < j /\ queue[i] > 0 /\ queue[j] > 0 => queue[i] < queue[j]

WayInv == manager = "live" => WireStates /\ QueueStates /\ QueueOrdered

(* The application has got what was handled since it began to listen.      *)
ListenInv ==
  /\ ~listening => delivered = <<>>
  /\ listening => /\ Len(delivered) = handled - missed
                  /\ \A i \in DOMAIN delivered : delivered[i] = missed + i

(* The event that the isolate handles is the one after the last.           *)
LEMMA NextIsHandled ==
  ASSUME TypeOK, QueueStates, QueueOrdered, queue # <<>>, Head(queue) > 0, Posted \in Int
  PROVE  /\ Head(queue) \in 1..MaxEvents
         /\ Head(queue) = handled + 1
         /\ Head(queue) <= Posted
<1>m. MaxEvents \in Nat
  BY ClientAssumption DEF ClientAssumption
<1>t. queue \in Seq(Timeout..MaxEvents) /\ handled \in 0..MaxEvents
  BY DEF TypeOK
<1>1. Head(queue) = queue[1] /\ Head(queue) \in Timeout..MaxEvents /\ 1 \in DOMAIN queue
  <2>1. Head(queue) = queue[1] /\ Head(queue) \in Timeout..MaxEvents /\ Len(queue) >= 1
    BY <1>t, TailIs, Zenon
  <2>2. DOMAIN queue = 1..Len(queue) /\ Len(queue) \in Nat
    BY <1>t
  <2> QED
    BY <2>1, <2>2
<1>2. Head(queue) \in 1..MaxEvents
  BY <1>m, <1>1 DEF Timeout
<1>3. Head(queue) > handled /\ Head(queue) <= Posted
  BY <1>1, <1>2 DEF QueueStates
<1>4. ~(handled + 1 < Head(queue))
  <2> SUFFICES ASSUME handled + 1 < Head(queue) PROVE FALSE
    OBVIOUS
  <2>1. handled + 1 \in 1..MaxEvents /\ handled + 1 <= Posted /\ handled < handled + 1
    BY <1>m, <1>t, <1>2, <1>3
  <2>2. PICK i \in DOMAIN queue : queue[i] = handled + 1
    BY <2>1 DEF QueueStates
  <2>3. i # 1
    BY <1>1, <2>2
  <2>4. 1 < i
    BY <1>t, <2>2, <2>3
  <2>5. queue[1] < queue[i]
    BY <1>1, <1>t, <2>2, <2>4 DEF QueueOrdered
  <2> QED
    BY <1>1, <1>2, <1>t, <2>2, <2>5
<1> QED
  BY <1>m, <1>t, <1>2, <1>3, <1>4

LEMMA WayStep == TypeOK /\ LifeInv /\ WayInv /\ [Next]_vars => WayInv'
<1> SUFFICES ASSUME TypeOK, LifeInv, WayInv, [Next]_vars, manager' = "live"
             PROVE  WireStates' /\ QueueStates' /\ QueueOrdered'
  BY DEF WayInv
<1>m. MaxEvents \in Nat
  BY ClientAssumption DEF ClientAssumption
<1>t. /\ queue \in Seq(Timeout..MaxEvents) /\ wire \in Seq(1..MaxEvents)
      /\ posting \in Seq(1..MaxEvents) /\ emitted \in 0..MaxEvents /\ handled \in 0..MaxEvents
  BY DEF TypeOK
<1>l. Len(queue) \in Nat /\ DOMAIN queue = 1..Len(queue) /\ Len(wire) \in Nat /\ Len(posting) \in Nat
  BY <1>t
<1>i. /\ emitted \in Int /\ handled \in Int /\ Posted \in Int
      /\ \A i \in DOMAIN queue : queue[i] \in Int /\ queue[i] >= Timeout
  BY <1>t, <1>l, <1>m DEF Posted, Timeout
<1>1. CASE InitBridge \/ ConnectThrows \/ Join \/ PostThroughNull
  BY <1>1 DEF InitBridge, ConnectThrows, Join, PostThroughNull, LifeInv
<1>2. CASE Connect
  <2>1. /\ posting' = <<>> /\ queue' = <<>> /\ handled' = emitted /\ emitted' = emitted
        /\ wire' = wire
    BY <1>2 DEF Connect, LifeInv
  <2>2. wire = <<>>
    BY <1>2 DEF Connect, LifeInv
  <2> QED
    BY <1>t, <2>1, <2>2 DEF WireStates, QueueStates, QueueOrdered, Posted
<1>3. CASE GetNetworkState \/ ReadFails \/ Listen \/ Close \/ UNCHANGED vars
  <2>1. UNCHANGED <<manager, emitted, wire, posting, handled, queue>>
    BY <1>3 DEF GetNetworkState, ReadFails, Listen, Close, vars, nativeVars, incomingVars
  <2> QED
    BY <2>1 DEF WayInv, WireStates, QueueStates, QueueOrdered, Posted
<1> SUFFICES ASSUME WireStates, QueueStates, QueueOrdered, manager = "live",
                    PostProps \/ TimerFires \/ OnManagerEvent \/ OnDaemonSignal \/ PostEvent \/ Emit
             PROVE  WireStates' /\ QueueStates' /\ QueueOrdered'
  <2>1. CASE PostProps \/ TimerFires \/ OnManagerEvent \/ OnDaemonSignal \/ PostEvent \/ Emit
    <3>1. manager = "live"
      BY <2>1 DEF PostProps, TimerFires, OnManagerEvent, OnDaemonSignal, PostEvent, Emit, nativeVars
    <3> QED
      BY <2>1, <3>1 DEF WayInv
  <2> QED
    BY <1>1, <1>2, <1>3, <2>1 DEF Next, Isolate, EventLoop
<1>4. CASE PostProps \/ TimerFires
  <2>1. PICK x \in {Props, Timeout} : queue' = Append(queue, x)
    BY <1>4 DEF PostProps, TimerFires
  <2>2. UNCHANGED <<emitted, wire, posting, handled>>
    BY <1>4 DEF PostProps, TimerFires, nativeVars, incomingVars
  <2>3. x \in Timeout..MaxEvents /\ x <= 0 /\ x \in Int
    BY <1>m, <2>1 DEF Props, Timeout
  <2>4. /\ DOMAIN queue' = 1..(Len(queue) + 1)
        /\ \A i \in 1..Len(queue) : queue'[i] = queue[i]
        /\ queue'[Len(queue) + 1] = x
    BY <1>t, <2>1, <2>3, AppendIs
  <2>5. \A e \in 1..MaxEvents :
          (\E i \in DOMAIN queue' : queue'[i] = e) <=> (\E i \in DOMAIN queue : queue[i] = e)
    BY <1>l, <2>3, <2>4
  <2>6. QueueOrdered'
    BY <1>l, <2>3, <2>4 DEF QueueOrdered
  <2> QED
    BY <2>2, <2>5, <2>6 DEF WireStates, QueueStates, Posted
<1>5. CASE OnManagerEvent
  <2>0. queue # <<>> /\ queue' = Tail(queue) /\ UNCHANGED <<emitted, wire, posting>>
    BY <1>5 DEF OnManagerEvent, nativeVars
  <2>1. /\ Head(queue) = queue[1] /\ Len(queue) \in Nat \ {0}
        /\ DOMAIN queue' = 1..(Len(queue) - 1)
        /\ \A i \in 1..(Len(queue) - 1) : queue'[i] = queue[i + 1]
    BY <2>0, <1>t, <1>l, TailIs
  <2>2. QueueOrdered'
    <3> SUFFICES ASSUME NEW i \in DOMAIN queue', NEW j \in DOMAIN queue', i < j,
                        queue'[i] > 0, queue'[j] > 0
                 PROVE  queue'[i] < queue'[j]
      BY DEF QueueOrdered
    <3>1. /\ i + 1 \in DOMAIN queue /\ j + 1 \in DOMAIN queue /\ i + 1 < j + 1
          /\ queue'[i] = queue[i + 1] /\ queue'[j] = queue[j + 1]
      BY <1>l, <2>1
    <3> QED
      BY <3>1 DEF QueueOrdered
  <2>3. \A i \in DOMAIN queue : i # 1 => i - 1 \in DOMAIN queue' /\ queue'[i - 1] = queue[i]
    BY <1>l, <2>1
  <2>4. \A i \in DOMAIN queue' : i + 1 \in DOMAIN queue /\ i + 1 > 1 /\ queue'[i] = queue[i + 1]
    BY <1>l, <2>1
  <2>5. CASE Head(queue) <= 0 /\ handled' = handled
    <3>1. \A e \in 1..MaxEvents :
            (\E i \in DOMAIN queue' : queue'[i] = e) <=> (\E i \in DOMAIN queue : queue[i] = e)
      BY <2>1, <2>3, <2>4, <2>5
    <3> QED
      BY <2>0, <2>2, <2>5, <3>1 DEF WireStates, QueueStates, Posted
  <2>6. CASE Head(queue) > 0 /\ handled' = Head(queue)
    <3>1. handled' = handled + 1 /\ handled + 1 <= Posted /\ queue[1] = handled + 1
      BY <1>i, <2>0, <2>1, <2>6, NextIsHandled
    <3>2. \A e \in 1..MaxEvents :
            (\E i \in DOMAIN queue' : queue'[i] = e) <=> handled + 1 < e /\ e <= Posted
      <4> TAKE e \in 1..MaxEvents
      <4>1. ASSUME NEW i \in DOMAIN queue', queue'[i] = e
            PROVE  handled + 1 < e /\ e <= Posted
        <5>1. 1 \in DOMAIN queue /\ queue[1] > 0 /\ queue[i + 1] > 0
          BY <1>l, <2>1, <2>4, <2>6, <4>1
        <5>2. queue[1] < queue[i + 1]
          BY <2>4, <4>1, <5>1 DEF QueueOrdered
        <5> QED
          BY <2>4, <3>1, <4>1, <5>2 DEF QueueStates
      <4>2. ASSUME handled + 1 < e, e <= Posted
            PROVE  \E i \in DOMAIN queue' : queue'[i] = e
        <5>1. PICK j \in DOMAIN queue : queue[j] = e
          BY <1>i, <4>2 DEF QueueStates
        <5>2. j # 1
          BY <1>i, <3>1, <4>2, <5>1
        <5> QED
          BY <2>3, <5>1, <5>2
      <4> QED
        BY <4>1, <4>2
    <3>3. Posted' = Posted
      BY <2>0 DEF Posted
    <3>4. WireStates'
      BY <2>0, <3>1, <3>3 DEF WireStates
    <3> QED
      BY <2>2, <3>1, <3>2, <3>3, <3>4 DEF QueueStates
  <2> QED
    BY <1>5, <2>5, <2>6 DEF OnManagerEvent, HandleProps, HandleTimeout, HandleDaemonEvent,
       incomingVars, Props, Timeout
<1>6. CASE OnDaemonSignal
  <2>1. /\ posting' = <<Head(wire)>> /\ wire' = Tail(wire) /\ posting = <<>> /\ wire # <<>>
        /\ UNCHANGED <<emitted, queue, handled>>
    BY <1>6 DEF OnDaemonSignal, incomingVars
  <2>2. /\ Head(wire) = wire[1] /\ Len(wire) >= 1
        /\ Len(wire') = Len(wire) - 1
        /\ \A k \in 1..(Len(wire) - 1) : wire'[k] = wire[k + 1]
    BY <1>t, <2>1, TailIs
  <2>3. Len(posting') = 1 /\ posting'[1] = wire[1] /\ Len(posting) = 0
    BY <2>1, <2>2
  <2>4. wire[1] = emitted - Len(wire) + 1
    BY <1>l, <2>2 DEF WireStates
  <2>5. Posted' = Posted /\ Posted = emitted - Len(wire)
    BY <1>i, <1>l, <2>1, <2>2, <2>3 DEF Posted
  <2>6. WireStates'
    <3>1. \A k \in 1..Len(wire') : wire'[k] = emitted - Len(wire') + k
      <4> TAKE k \in 1..Len(wire')
      <4>1. wire'[k] = wire[k + 1] /\ k + 1 \in 1..Len(wire)
        BY <1>l, <2>2
      <4> QED
        BY <1>i, <1>l, <2>2, <4>1 DEF WireStates
    <3> QED
      BY <2>1, <2>3, <2>4, <2>5, <3>1 DEF WireStates
  <2> QED
    BY <2>1, <2>5, <2>6 DEF QueueStates, QueueOrdered
<1>7. CASE PostEvent
  <2>1. posting # <<>> /\ posting' = <<>> /\ UNCHANGED <<emitted, wire, handled>>
    BY <1>7 DEF PostEvent, incomingVars
  <2>2. queue' = queue \o posting
    <3>1. port
      BY DEF LifeInv
    <3> QED
      BY <1>7, <3>1, Zenon DEF PostEvent
  <2>3. Len(posting) = 1 /\ Len(posting') = 0
    <3>1. Len(posting) # 0
      BY <1>t, <2>1
    <3>2. Len(posting) <= 1
      BY DEF WireStates
    <3>3. \A n \in Nat : n # 0 /\ n <= 1 => n = 1
      OBVIOUS
    <3>4. Len(posting) = 1
      BY <1>l, <3>1, <3>2, <3>3, Zenon
    <3> QED
      BY <2>1, <3>4
  <2>4. posting[1] = Posted + 1 /\ Posted' = Posted + 1
    BY <1>i, <1>l, <2>1, <2>3 DEF Posted, WireStates
  <2>5. /\ DOMAIN queue' = 1..(Len(queue) + 1)
        /\ \A i \in 1..Len(queue) : queue'[i] = queue[i]
        /\ queue'[Len(queue) + 1] = Posted + 1
    <3>1. 1..MaxEvents \subseteq Timeout..MaxEvents
      BY <1>m DEF Timeout
    <3>2. posting \in Seq(Timeout..MaxEvents)
      BY <1>t, <3>1, Widen, Zenon
    <3> QED
      BY <1>t, <2>2, <2>3, <2>4, <3>2, ConcatOne
  <2>6. \A i \in DOMAIN queue : queue[i] > 0 => queue[i] <= Posted
    <3> TAKE i \in DOMAIN queue
    <3> HAVE queue[i] > 0
    <3>1. queue[i] \in 1..MaxEvents
      <4>1. queue[i] \in Timeout..MaxEvents
        BY <1>t, <1>l, ElementOfSeq, Zenon
      <4> QED
        BY <1>m, <4>1 DEF Timeout
    <3> QED
      BY <3>1 DEF QueueStates
  <2>7. \A e \in 1..MaxEvents :
          (\E i \in DOMAIN queue' : queue'[i] = e) <=>
            (\E i \in DOMAIN queue : queue[i] = e) \/ e = Posted + 1
    BY <1>l, <2>5
  <2>8. QueueStates'
    <3>1. handled <= Posted
      BY DEF WireStates
    <3> QED
      BY <1>i, <2>1, <2>4, <2>7, <3>1 DEF QueueStates
  <2>9. QueueOrdered'
    BY <1>i, <1>l, <2>5, <2>6 DEF QueueOrdered
  <2>10. WireStates'
    BY <1>i, <2>1, <2>3, <2>4 DEF WireStates
  <2> QED
    BY <2>8, <2>9, <2>10
<1>8. CASE Emit
  <2>1. /\ emitted' = emitted + 1 /\ UNCHANGED <<posting, queue, handled>> /\ emitted < MaxEvents
    BY <1>8 DEF Emit, incomingVars
  <2>2. wire' = Append(wire, emitted + 1) /\ emitted + 1 \in 1..MaxEvents
    <3>1. emitted + 1 \in 1..MaxEvents
      BY <1>t, <1>m, <2>1
    <3> QED
      BY <1>8, <3>1, Zenon DEF Emit
  <2>3. /\ Len(wire') = Len(wire) + 1
        /\ \A k \in 1..Len(wire) : wire'[k] = wire[k]
        /\ wire'[Len(wire) + 1] = emitted + 1
    BY <1>t, <2>2, AppendIs
  <2>4. Posted' = Posted
    BY <1>i, <1>l, <2>1, <2>3 DEF Posted
  <2>5. \A k \in 1..Len(wire') : wire'[k] = emitted' - Len(wire') + k
    <3> TAKE k \in 1..Len(wire')
    <3>1. CASE k \in 1..Len(wire)
      <4>1. wire[k] = emitted - Len(wire) + k
        BY <3>1 DEF WireStates
      <4> QED
        BY <1>i, <1>l, <2>1, <2>3, <3>1, <4>1
    <3>2. CASE k = Len(wire) + 1
      BY <1>i, <1>l, <2>1, <2>3, <3>2
    <3> QED
      BY <1>l, <2>3, <3>1, <3>2
  <2>6. WireStates'
    BY <2>1, <2>4, <2>5 DEF WireStates
  <2> QED
    BY <2>1, <2>4, <2>6 DEF QueueStates, QueueOrdered
<1> QED
  BY <1>4, <1>5, <1>6, <1>7, <1>8

LEMMA ListenStep == TypeOK /\ LifeInv /\ WayInv /\ ListenInv /\ [Next]_vars => ListenInv'
<1> SUFFICES ASSUME TypeOK, LifeInv, WayInv, ListenInv, [Next]_vars
             PROVE  ListenInv'
  OBVIOUS
<1>t. /\ delivered \in Seq(1..MaxEvents) /\ handled \in 0..MaxEvents /\ missed \in 0..MaxEvents
      /\ emitted \in 0..MaxEvents /\ MaxEvents \in Nat
      /\ wire \in Seq(1..MaxEvents) /\ posting \in Seq(1..MaxEvents)
  BY ClientAssumption DEF TypeOK, ClientAssumption
<1>1. CASE Connect
  BY <1>1 DEF Connect, LifeInv, ListenInv, listenerVars
<1>2. ASSUME OnManagerEvent, Head(queue) > 0, HandleDaemonEvent(Head(queue)), listening
      PROVE  ListenInv'
  <2>1. queue # <<>> /\ manager = "live" /\ UNCHANGED listenerVars
    BY <1>2 DEF OnManagerEvent, LifeInv
  <2>2. WireStates /\ QueueStates /\ QueueOrdered /\ Posted \in Int
    BY <1>t, <2>1 DEF WayInv, Posted
  <2>3. Head(queue) = handled + 1 /\ Head(queue) \in 1..MaxEvents
    BY <1>2, <2>1, <2>2, NextIsHandled
  <2>4. delivered' = Append(delivered, Head(queue)) /\ handled' = Head(queue)
    BY <1>2, Zenon DEF HandleDaemonEvent
  <2>5. /\ Len(delivered') = Len(delivered) + 1 /\ Len(delivered) \in Nat
        /\ DOMAIN delivered = 1..Len(delivered) /\ DOMAIN delivered' = 1..(Len(delivered) + 1)
        /\ \A i \in 1..Len(delivered) : delivered'[i] = delivered[i]
        /\ delivered'[Len(delivered) + 1] = handled + 1
    BY <1>t, <2>3, <2>4, AppendIs
  <2>6. /\ Len(delivered) = handled - missed
        /\ \A i \in 1..Len(delivered) : delivered[i] = missed + i
    BY <1>2, <2>5 DEF ListenInv
  <2>7. listening' /\ missed' = missed
    BY <1>2, <2>1 DEF listenerVars
  <2>8. Len(delivered') = handled' - missed'
    BY <1>t, <2>3, <2>4, <2>5, <2>6, <2>7
  <2>9. \A i \in DOMAIN delivered' : delivered'[i] = missed' + i
    <3> TAKE i \in DOMAIN delivered'
    <3>1. CASE i \in 1..Len(delivered)
      BY <2>5, <2>6, <2>7, <3>1
    <3>2. CASE i = Len(delivered) + 1
      BY <1>t, <2>5, <2>6, <2>7, <3>2
    <3> QED
      BY <2>5, <3>1, <3>2
  <2> QED
    BY <2>7, <2>8, <2>9 DEF ListenInv
<1>3. CASE OnManagerEvent
  <2>1. UNCHANGED listenerVars
    BY <1>3 DEF OnManagerEvent
  <2>2. CASE HandleProps \/ HandleTimeout
    BY <2>1, <2>2 DEF HandleProps, HandleTimeout, ListenInv, incomingVars, listenerVars
  <2>3. CASE Head(queue) > 0 /\ HandleDaemonEvent(Head(queue))
    <3>1. CASE ~listening
      <4>1. delivered' = delivered /\ ~listening'
        BY <2>1, <2>3, <3>1, Zenon DEF HandleDaemonEvent, listenerVars
      <4> QED
        BY <3>1, <4>1 DEF ListenInv
    <3> QED
      BY <1>2, <1>3, <2>3, <3>1
  <2> QED
    BY <1>3, <2>2, <2>3 DEF OnManagerEvent
<1>4. CASE Listen
  <2>1. /\ delivered' = <<>> /\ missed' = handled /\ handled' = handled
    BY <1>4 DEF Listen, ListenInv, incomingVars
  <2>2. Len(delivered') = handled' - missed' /\ DOMAIN delivered' = {}
    BY <1>t, <2>1
  <2> QED
    BY <2>1, <2>2 DEF ListenInv
<1>5. CASE \/ InitBridge \/ ConnectThrows \/ GetNetworkState \/ PostProps \/ ReadFails \/ Join
           \/ TimerFires \/ Close \/ OnDaemonSignal \/ PostEvent \/ PostThroughNull \/ Emit
           \/ UNCHANGED vars
  <2>1. UNCHANGED <<listening, missed, delivered, handled>>
    BY <1>5 DEF InitBridge, ConnectThrows, GetNetworkState, PostProps, ReadFails, Join,
       TimerFires, Close, OnDaemonSignal, PostEvent, PostThroughNull, Emit, vars, listenerVars,
       incomingVars, CloseController
  <2> QED
    BY <2>1 DEF ListenInv
<1> QED
  BY <1>1, <1>3, <1>4, <1>5 DEF Next, Isolate, EventLoop

LEMMA Way == SafetySpec => [](WayInv /\ ListenInv)
<1>1. Init => WayInv /\ ListenInv
  BY DEF Init, WayInv, ListenInv
<1> QED
  BY <1>1, WayStep, ListenStep, TypeCorrect, Life, PTL DEF SafetySpec

(* From its first event on, a listener gets every event once, in order:    *)
(* between the daemon and the isolate no signal is lost or overtaken.      *)
THEOREM EventsAreContiguous == SafetySpec => []NoEventMissed
<1>1. TypeOK /\ ListenInv => NoEventMissed
  <2> SUFFICES ASSUME TypeOK, ListenInv, NEW i \in 1..(Len(delivered) - 1)
               PROVE  delivered[i + 1] = delivered[i] + 1
    BY DEF NoEventMissed
  <2>1. delivered \in Seq(1..MaxEvents) /\ missed \in 0..MaxEvents /\ MaxEvents \in Nat
    BY ClientAssumption DEF TypeOK, ClientAssumption
  <2>2. listening
    BY <2>1 DEF ListenInv
  <2>3. i \in DOMAIN delivered /\ i + 1 \in DOMAIN delivered
    BY <2>1
  <2>4. delivered[i] = missed + i /\ delivered[i + 1] = missed + (i + 1)
    BY <2>2, <2>3 DEF ListenInv
  <2> QED
    BY <2>1, <2>4
<1> QED
  BY <1>1, TypeCorrect, Way, PTL

(* Nothing of the daemon's signals is on its way any more.                 *)
Settled == wire = <<>> /\ posting = <<>> /\ \A i \in DOMAIN queue : queue[i] <= 0

(* A listener that has caught up has got each signal since the last one    *)
(* that was handled before it listened, and nothing else.                  *)
CaughtUp ==
  phase = "connected" /\ listening /\ Settled =>
    delivered = [i \in 1..(emitted - missed) |-> missed + i]

(* Once all signals have been handled, a listener has got every one since  *)
(* it began to listen, however many there were and however they fell       *)
(* between the read of the properties, the timer and the subscription.     *)
THEOREM ListenersCatchUp == SafetySpec => []CaughtUp
<1>1. TypeOK /\ LifeInv /\ WayInv /\ ListenInv => CaughtUp
  <2> SUFFICES ASSUME TypeOK, LifeInv, WayInv, ListenInv,
                      phase = "connected", listening, Settled
               PROVE  delivered = [i \in 1..(emitted - missed) |-> missed + i]
    BY DEF CaughtUp
  <2>1. WireStates /\ QueueStates
    BY DEF LifeInv, WayInv
  <2>2. /\ emitted \in 0..MaxEvents /\ handled \in 0..MaxEvents /\ MaxEvents \in Nat
        /\ delivered \in Seq(1..MaxEvents)
    BY ClientAssumption DEF TypeOK, ClientAssumption
  <2>3. Posted = emitted /\ handled <= emitted
    <3>1. Len(wire) = 0 /\ Len(posting) = 0
      BY DEF Settled
    <3> QED
      BY <2>1, <2>2, <3>1 DEF Posted, WireStates
  <2>4. handled = emitted
    <3> SUFFICES ASSUME handled < emitted PROVE FALSE
      BY <2>2, <2>3
    <3>1. emitted \in 1..MaxEvents
      BY <2>2
    <3>2. PICK i \in DOMAIN queue : queue[i] = emitted
      BY <2>1, <2>3, <3>1 DEF QueueStates
    <3> QED
      BY <3>1, <3>2 DEF Settled
  <2>5. /\ DOMAIN delivered = 1..(emitted - missed)
        /\ \A i \in DOMAIN delivered : delivered[i] = missed + i
    BY <2>2, <2>4 DEF ListenInv
  <2>6. delivered = [i \in DOMAIN delivered |-> delivered[i]]
    BY <2>2
  <2> QED
    BY <2>5, <2>6
<1> QED
  BY <1>1, TypeCorrect, Life, Way, PTL

(* After close nothing is delivered: the port is closed before the         *)
(* controller.                                                             *)
THEOREM QuietAfterClose == SafetySpec => SilentAfterClose
<1>1. LifeInv /\ [Next]_vars => (phase = "closed" => UNCHANGED <<delivered, props>>)
  <2> SUFFICES ASSUME LifeInv, [Next]_vars, phase = "closed"
               PROVE  UNCHANGED <<delivered, props>>
    OBVIOUS
  <2>1. queue = <<>>
    BY DEF LifeInv
  <2> QED
    BY <2>1 DEF Next, Isolate, EventLoop, InitBridge, ConnectThrows, Connect, GetNetworkState,
       PostProps, ReadFails, OnManagerEvent, Join, TimerFires, Listen, Close, OnDaemonSignal,
       PostEvent, PostThroughNull, Emit, vars, incomingVars
<1> QED
  BY <1>1, Life, PTL DEF SafetySpec, SilentAfterClose
=============================================================================
