-------------------------- MODULE BuildHook_proofs --------------------------
(***************************************************************************)
(* What the build hook registers, over any number of runs, failures,       *)
(* kills and cleanings.                                                    *)
(***************************************************************************)
EXTENDS BuildHook, TLAPS

(* Between two steps of the hook: sources that are there without the       *)
(* pinned commit are on their way to it or were given up, and so were      *)
(* those that an orphan may yet put there; the steps of cmake have         *)
(* sources; what waits to be registered was built from them.               *)
HookInv ==
  /\ source = "head" => phase \in {"checkout", "fetch"} \/ abandoned
  /\ "clone" \in orphans => abandoned
  /\ orphans \subseteq {"submodule", "clone"}
  /\ phase \in {"configure", "build", "register"} => source # "none"
  /\ phase = "register" => library = source

LEMMA HookInit == Init => HookInv
BY DEF Init, HookInv

LEMMA HookStep == HookInv /\ [Next]_vars => HookInv'
<1> SUFFICES ASSUME HookInv, [Next]_vars
             PROVE  HookInv'
  OBVIOUS
<1> USE DEF HookInv, End, gitVars, Remains, GitSteps
<1>1. CASE Start
  BY <1>1 DEF Start
<1>2. CASE Probe
  BY <1>2 DEF Probe
<1>3. CASE SubmoduleUpdate
  BY <1>3 DEF SubmoduleUpdate
<1>4. CASE Clone
  BY <1>4 DEF Clone
<1>5. CASE Checkout
  BY <1>5 DEF Checkout
<1>6. CASE Retry
  BY <1>6 DEF Retry
<1>7. CASE Configure
  BY <1>7 DEF Configure
<1>8. CASE BuildAndInstall
  BY <1>8 DEF BuildAndInstall
<1>9. CASE Register
  BY <1>9 DEF Register
<1>10. CASE Killed
  BY <1>10 DEF Killed
<1>11. CASE CleanSource
  BY <1>11 DEF CleanSource
<1>12. CASE OrphanEnds
  BY <1>12 DEF OrphanEnds
<1>13. CASE UNCHANGED vars
  BY <1>13 DEF vars
<1> QED
  BY <1>1, <1>2, <1>3, <1>4, <1>5, <1>6, <1>7, <1>8, <1>9, <1>10, <1>11, <1>12, <1>13
  DEF Next, Hook

(* Only Register makes an asset, and it registers the library.             *)
LEMMA AssetStep ==
  ASSUME [Next]_vars, asset' # "none", asset' # asset
  PROVE  phase = "register" /\ asset' = library /\ UNCHANGED gitVars
<1>1. ~Start
  BY DEF Start
<1>2. ~Probe /\ ~SubmoduleUpdate /\ ~Clone /\ ~Checkout /\ ~Retry
  BY DEF Probe, SubmoduleUpdate, Clone, Checkout, Retry
<1>3. ~Configure /\ ~BuildAndInstall /\ ~Killed /\ ~OrphanEnds /\ ~CleanSource
  BY DEF Configure, BuildAndInstall, Killed, OrphanEnds, CleanSource
<1>4. ~UNCHANGED vars
  BY DEF vars
<1>5. Register
  BY <1>1, <1>2, <1>3, <1>4 DEF Next, Hook
<1> QED
  BY <1>5 DEF Register

(* A run registers the library it has built from the sources it found.     *)
THEOREM RegistersWhatItBuilt == Spec => AssetIsOfThisRun
<1>1. HookInv /\ [Next]_vars => [asset' # "none" => asset' \in {asset, source}]_vars
  BY AssetStep DEF HookInv, gitVars
<1> QED
  BY <1>1, HookInit, HookStep, PTL DEF Spec, AssetIsOfThisRun

(* However often the hook fails, is killed or leaves a git command at work,*)
(* it builds sources without the pinned commit only where the last clone   *)
(* was not followed by its checkout.                                       *)
THEOREM UnpinnedNeedsAbandon == Spec => UnpinnedOnlyAfterAbandon
<1>1. HookInv /\ [Next]_vars => [asset' = "head" /\ asset # "head" => abandoned]_vars
  BY AssetStep DEF HookInv, gitVars
<1> QED
  BY <1>1, HookInit, HookStep, PTL DEF Spec, UnpinnedOnlyAfterAbandon

(* The disk, the tools and the outcome have their types after any number   *)
(* of runs of the hook: sources and libraries are pinned, unpinned or gone.*)
THEOREM HookTypes == Spec => []TypeOK
<1>1. Init => TypeOK
  <2> SUFFICES ASSUME Init PROVE TypeOK
    OBVIOUS
  <2>1. runs \in 0..MaxRuns
    BY RunsAssumption DEF Init
  <2>2. tools \subseteq Programs /\ {source, library, asset} \subseteq Sources
    BY DEF Init, Sources
  <2> QED BY <2>1, <2>2 DEF Init, TypeOK
<1>2. TypeOK /\ [Next]_vars => TypeOK'
  <2> SUFFICES ASSUME TypeOK, [Next]_vars PROVE TypeOK'
    OBVIOUS
  <2> USE RunsAssumption DEF TypeOK, Sources, End, gitVars, Remains, GitSteps
  <2>1. CASE Start
    <3>1. runs' \in 0..MaxRuns
      <4>1. runs < MaxRuns /\ runs' = runs + 1
        BY <2>1, Zenon DEF Start
      <4> QED BY <4>1
    <3>2. tools' \subseteq Programs /\ asset' = "none" /\ UNCHANGED <<target, gitVars, library>>
      BY <2>1, Zenon DEF Start
    <3>3. phase' \in {"idle", "probe"} /\ outcome' \in {"running", "threw", "returned"}
      BY <2>1 DEF Start
    <3> QED BY <3>1, <3>2, <3>3
  <2>2. CASE Probe \/ SubmoduleUpdate \/ Clone
    BY <2>2 DEF Probe, SubmoduleUpdate, Clone
  <2>3. CASE Checkout \/ Retry
    BY <2>3 DEF Checkout, Retry
  <2>4. CASE Configure \/ BuildAndInstall \/ Register
    BY <2>4 DEF Configure, BuildAndInstall, Register
  <2>5. CASE Killed \/ OrphanEnds \/ CleanSource
    BY <2>5 DEF Killed, OrphanEnds, CleanSource
  <2>6. CASE UNCHANGED vars
    BY <2>6 DEF vars
  <2> QED BY <2>1, <2>2, <2>3, <2>4, <2>5, <2>6 DEF Next, Hook
<1> QED
  BY <1>1, <1>2, PTL DEF Spec
=============================================================================
