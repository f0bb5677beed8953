----------------------------- MODULE InstallPlan ----------------------------
(***************************************************************************)
(* simulateInstall, simulateRemove and simulateUpdate: _collectPlan drains *)
(* the packages stream of a transaction, awaits its result and sorts what  *)
(* it collected with planFromPackages.                                     *)
(*                                                                         *)
(* The transaction is its contract: whatever PkTransaction was shown to    *)
(* implement may happen here.                                              *)
(***************************************************************************)
EXTENDS Naturals, Sequences, FiniteSets, Functions

CONSTANTS
  Ids,           \* package ids
  Infos,         \* values of PkInfo that the daemon sends
  Failures,      \* how result completes when it is an error
  MaxPackages    \* bound: packages in one transaction

ASSUME PlanAssumption ==
  /\ MaxPackages \in Nat
  /\ Failures \cap {"pending", "success"} = {}

VARIABLES
  events, result, ended,   \* the transaction: packages, result, end of streams
  phase,         \* what _collectPlan awaits, or how it completed
  pkgs,          \* the packages it collected
  plan           \* the plan it returned

transactionVars == <<events, result, ended>>
collectVars     == <<phase, pkgs, plan>>
vars            == <<transactionVars, collectVars>>

Packages == [id : Ids, info : Infos]

Transaction == INSTANCE TransactionContract WITH
  Events <- Packages, Results <- {"success"} \cup Failures

(* The six lists of PkInstallPlan.                                         *)
Categories == {"installing", "updating", "removing", "reinstalling", "downgrading", "obsoleting"}

NoPlan == [c \in Categories |-> <<>>]

(* The switch of planFromPackages, a default clause included.              *)
CategoryOrNone(p) == p.info

Category(p) == IF p.info \in Categories THEN p.info ELSE "installing"

PlanByInfo(packages) ==
  [i \in {p.info : p \in Range(packages)} |-> SelectSeq(packages, LAMBDA p : p.info = i)]

(* The loop of planFromPackages; the lists are as they are after n turns.  *)
planFromPackages(packages) ==
  LET after[n \in 0..Len(packages)] ==
        IF n = 0 THEN NoPlan
        ELSE [after[n - 1] EXCEPT ![Category(packages[n])] = Append(@, packages[n])]
  IN  after[Len(packages)]

EveryId(p) ==
  LET All == p.installing \o p.updating \o p.reinstalling \o p.downgrading \o p.obsoleting
  IN  [i \in DOMAIN All |-> All[i].id]

allIds(p) ==
  LET Kept == p.installing \o p.updating \o p.reinstalling \o p.downgrading
  IN  [i \in DOMAIN Kept |-> Kept[i].id]

-----------------------------------------------------------------------------
Init ==
  /\ Transaction!ContractInit
  /\ phase = "packages"
  /\ pkgs = <<>>
  /\ plan = NoPlan

(* One turn of `await for`.                                                *)
NextPackage ==
  /\ phase = "packages"
  /\ Len(pkgs) < Len(events)
  /\ pkgs' = Append(pkgs, events[Len(pkgs) + 1])
  /\ UNCHANGED <<transactionVars, phase, plan>>

(* The done event of a stream comes after all it has buffered.             *)
DoneWithTheResult ==
  /\ phase = "packages"
  /\ result # "pending"
  /\ phase' = "result"
  /\ UNCHANGED <<transactionVars, pkgs, plan>>

DoneAfterTheFirst ==
  /\ phase = "packages"
  /\ ended
  /\ pkgs = events
  /\ pkgs # <<>>
  /\ phase' = "result"
  /\ UNCHANGED <<transactionVars, pkgs, plan>>

StreamDone ==
  /\ phase = "packages"
  /\ ended
  /\ pkgs = events
  /\ phase' = "result"
  /\ UNCHANGED <<transactionVars, pkgs, plan>>

ReturnRegardless ==
  /\ phase = "result"
  /\ result # "pending"
  /\ phase' = "returned"
  /\ plan' = planFromPackages(pkgs)
  /\ UNCHANGED <<transactionVars, pkgs>>

ReturnPlan ==
  /\ phase = "result"
  /\ result = "success"
  /\ phase' = "returned"
  /\ plan' = planFromPackages(pkgs)
  /\ UNCHANGED <<transactionVars, pkgs>>

ThrowError ==
  /\ phase = "result"
  /\ result \in Failures
  /\ phase' = "threw"
  /\ UNCHANGED <<transactionVars, pkgs, plan>>

CollectPlan == NextPackage \/ StreamDone \/ ReturnPlan \/ ThrowError

TransactionStep ==
  /\ \/ Len(events) < MaxPackages /\ Transaction!Deliver
     \/ Transaction!Complete
     \/ Transaction!End
     \/ Transaction!Refuse
  /\ UNCHANGED collectVars

Next == CollectPlan \/ TransactionStep

SafetySpec == Init /\ [][Next]_vars

(* The transaction keeps its promises, and the isolate runs.               *)
Spec == SafetySpec /\ Transaction!ContractFairness /\ WF_vars(CollectPlan)

-----------------------------------------------------------------------------
(* Every variable of the collector has its type.                           *)
TypeOK ==
  /\ phase \in {"packages", "result", "returned", "threw"}
  /\ pkgs \in Seq(Packages)
  /\ plan \in [Categories -> Seq(Packages)]

(* A plan is only returned for a simulation that succeeded, and then it is *)
(* of all the packages the transaction delivers, late ones included.       *)
PlanOfWholeSuccess == phase = "returned" => result = "success" /\ ended /\ pkgs = events

Occurrences(list, p) == Cardinality({i \in DOMAIN list : list[i] = p})

(* Each package is in one list of the plan, as often as it was delivered   *)
(* and in no other: a category nobody listed loses nothing.                *)
PlanAccountsForAll ==
  phase = "returned" =>
    \A p \in Packages :
      \E c \in Categories :
        /\ Occurrences(plan[c], p) = Occurrences(events, p)
        /\ \A d \in Categories \ {c} : p \notin Range(plan[d])

(* allIds names what stays or comes, never a package the daemon only       *)
(* removes or obsoletes.                                                   *)
RemovalsAreNotInstalled ==
  phase = "returned" =>
    Range(allIds(plan)) = {p.id : p \in {q \in Range(events) : q.info \notin {"removing", "obsoleting"}}}

(* A simulation ends: draining the stream before awaiting the result never *)
(* waits for a future or for a stream that has been given up.              *)
SimulationEnds == <>(phase \in {"returned", "threw"})
=============================================================================
