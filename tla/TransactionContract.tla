------------------------- MODULE TransactionContract -------------------------
(***************************************************************************)
(* What the documentation of class PkTransaction promises to its caller,   *)
(* without the bus, the native bridge or the port: the streams deliver     *)
(* events until they end, `result` completes exactly once, and the streams *)
(* only end when the result is known.                                      *)
(***************************************************************************)
EXTENDS Sequences

CONSTANTS
  Events,        \* what may come out of a stream
  Results        \* how `result` may complete

VARIABLES
  events,        \* what the streams have delivered
  result,        \* "pending" until the future completes
  ended          \* the streams are closed

contractVars == <<events, result, ended>>

ContractInit ==
  /\ events = <<>>
  /\ result = "pending"
  /\ ended = FALSE

Deliver ==
  /\ ~ended
  /\ \E e \in Events : events' = Append(events, e)
  /\ UNCHANGED <<result, ended>>

Complete ==
  /\ result = "pending"
  /\ \E r \in Results : result' = r
  /\ UNCHANGED <<events, ended>>

End ==
  /\ result # "pending"
  /\ ~ended
  /\ ended' = TRUE
  /\ UNCHANGED <<events, result>>

(* No transaction could be made: both happen before the caller sees it.    *)
Refuse ==
  /\ result = "pending"
  /\ events = <<>>
  /\ ~ended
  /\ \E r \in Results : result' = r
  /\ ended' = TRUE
  /\ UNCHANGED events

ContractNext == Deliver \/ Complete \/ End \/ Refuse

ContractSafety == ContractInit /\ [][ContractNext]_contractVars

ContractFairness ==
  /\ WF_contractVars(Complete \/ Refuse)
  /\ WF_contractVars(End)

ContractSpec == ContractSafety /\ ContractFairness
=============================================================================
