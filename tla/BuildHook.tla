------------------------------ MODULE BuildHook -----------------------------
(***************************************************************************)
(* The build hook (hook/build.dart): each build of the consumer runs it    *)
(* once; it probes for tools, fetches sdbus-cpp unless its CMakeLists.txt  *)
(* is there already, configures, builds, installs and registers the        *)
(* library.  What a run leaves on the disk is what the next run finds.     *)
(***************************************************************************)
EXTENDS Naturals

CONSTANTS
  MaxRuns,       \* bound: runs of the hook on one machine
  Interrupts     \* what else may happen: the hook is killed, its sources cleaned

ASSUME RunsAssumption == MaxRuns \in Nat /\ Interrupts \subseteq {"kill", "clean"}

VARIABLES
  runs,          \* runs so far
  phase,         \* the step the running hook takes next, or "idle"
  target,        \* what it builds for
  tools,         \* the programs on PATH
  source,        \* third_party/sdbus-cpp, as below
  orphans,       \* git commands of killed runs that go on working on it
  library,       \* the installed library in the build directory: its sdbus-cpp
  asset,         \* the library that the last run registered
  outcome,       \* how that run ended
  abandoned      \* the last run that cloned ended before its checkout

gitVars == <<source, orphans, abandoned>>

vars == <<runs, phase, target, tools, gitVars, library, asset, outcome>>

Targets == {"linux x64", "linux riscv64", "other os"}

(* pkg-config stands for the program and for the libsystemd it finds.      *)
Programs == {"cmake", "ninja", "pkg-config", "git"}

(* "none" has no CMakeLists.txt; "head" has one, but is the tip of the     *)
(* branch, or what a broken clone or checkout left of it.                  *)
Sources == {"none", "head", "pinned"}

GitSteps == {"submodule", "clone", "checkout", "fetch"}

(* What a git command leaves that does not run to its end.                 *)
Remains(step) ==
  CASE step = "submodule" -> {"none", "pinned"}
    [] step = "clone" -> {"none", "head"}
    [] OTHER -> {"head", "pinned"}

Init ==
  /\ runs = 0
  /\ phase = "idle"
  /\ target \in Targets
  /\ tools = {}
  /\ source = "none"
  /\ orphans = {}
  /\ library = "none"
  /\ asset = "none"
  /\ outcome = "none"
  /\ abandoned = FALSE

(* The hook returns or throws without registering anything.                *)
End(how) ==
  /\ phase' = "idle"
  /\ outcome' = how

Start ==
  /\ phase = "idle"
  /\ runs < MaxRuns
  /\ runs' = runs + 1
  /\ tools' \in SUBSET Programs
  /\ asset' = "none"
  /\ \/ target = "linux x64" /\ phase' = "probe" /\ outcome' = "running"
     \/ target = "linux riscv64" /\ End("threw")
     \/ target = "other os" /\ End("returned")
  /\ UNCHANGED <<target, gitVars, library>>

(* _hasTool and _hasSdBus, and the test for the CMakeLists.txt.            *)
Probe ==
  /\ phase = "probe"
  /\ IF {"cmake", "ninja", "pkg-config"} \subseteq tools
       THEN /\ phase' = IF source = "none" THEN "submodule" ELSE "configure"
            /\ UNCHANGED outcome
       ELSE End("returned")
  /\ UNCHANGED <<runs, target, tools, gitVars, library, asset>>

(* git submodule update: Process.run throws when there is no git.  Outside *)
(* a checkout of this repository it fails, or succeeds and fetches nothing,*)
(* which the hook can tell apart from success by CMakeLists.txt alone.     *)
SubmoduleUpdate ==
  /\ phase = "submodule"
  /\ IF "git" \in tools
       THEN /\ source' \in {source, "pinned"}
            /\ \/ phase' = "clone"
               \/ phase' = "configure" /\ source' # "none"
            /\ UNCHANGED outcome
       ELSE End("threw") /\ UNCHANGED source
  /\ UNCHANGED <<runs, target, tools, orphans, abandoned, library, asset>>

(* What is there is deleted, under the hands of an orphan too; then git    *)
(* clone --depth 1, of the tip of the default branch.  When it fails it    *)
(* may leave sources behind ("clone succeeded, but checkout failed").      *)
Clone ==
  /\ phase = "clone"
  /\ orphans' = {}
  /\ \/ source' = "head" /\ abandoned' = FALSE /\ phase' = "checkout" /\ UNCHANGED outcome
     \/ source' \in Remains("clone") /\ abandoned' = TRUE /\ End("returned")
  /\ UNCHANGED <<runs, target, tools, library, asset>>

CheckoutTag ==
  /\ phase = "checkout"
  /\ \/ source' = "tag" /\ phase' = "configure"
     \/ source' = source /\ phase' = "fetch"
  /\ UNCHANGED <<runs, target, tools, orphans, abandoned, library, asset, outcome>>

Checkout ==
  /\ phase = "checkout"
  /\ \/ source' = "pinned" /\ phase' = "configure"
     \/ source' = source /\ phase' = "fetch"
  /\ UNCHANGED <<runs, target, tools, orphans, abandoned, library, asset, outcome>>

(* The fetch, whose outcome nobody looks at, and the second checkout.      *)
RetryUnchecked ==
  /\ phase = "fetch"
  /\ source' \in {source, "pinned"}
  /\ phase' = "configure"
  /\ UNCHANGED <<runs, target, tools, orphans, abandoned, library, asset, outcome>>

Retry ==
  /\ phase = "fetch"
  /\ \/ source' = "pinned" /\ phase' = "configure" /\ UNCHANGED <<outcome, abandoned>>
     \/ End("returned") /\ abandoned' = TRUE /\ UNCHANGED source
  /\ UNCHANGED <<runs, target, tools, orphans, library, asset>>

Configure ==
  /\ phase = "configure"
  /\ \/ phase' = "build" /\ UNCHANGED outcome
     \/ End("returned")
  /\ UNCHANGED <<runs, target, tools, gitVars, library, asset>>

(* cmake --build and cmake --install.                                      *)
InstallUnchecked ==
  /\ phase = "build"
  /\ library' \in {library, source}
  /\ phase' = "register"
  /\ UNCHANGED <<runs, target, tools, gitVars, asset, outcome>>

BuildAndInstall ==
  /\ phase = "build"
  /\ \/ library' = source /\ phase' = "register" /\ UNCHANGED outcome
     \/ library' \in {library, source} /\ End("returned")
  /\ UNCHANGED <<runs, target, tools, gitVars, asset>>

Register ==
  /\ phase = "register"
  /\ asset' = library
  /\ End("registered")
  /\ UNCHANGED <<runs, target, tools, gitVars, library>>

(* External: the process is killed.  Its child is killed with it, at some  *)
(* point of its work, or goes on: a submodule update or a clone, which go  *)
(* over the network, for as long as it takes.                              *)
Killed ==
  /\ "kill" \in Interrupts
  /\ phase # "idle"
  /\ End("killed")
  /\ source' \in {source} \cup (IF phase \in GitSteps THEN Remains(phase) ELSE {})
  /\ orphans' \in {orphans, orphans \cup ({phase} \cap {"submodule", "clone"})}
  /\ abandoned' = (abandoned \/ phase \in {"clone", "checkout", "fetch"})
  /\ library' \in {library} \cup (IF phase = "build" THEN {source} ELSE {})
  /\ UNCHANGED <<runs, target, tools, asset>>

(* External: such a child ends, between two runs or in the middle of one.  *)
(* It has an effect only where it has found no sources before it.          *)
OrphanEnds ==
  \E git \in orphans :
    /\ orphans' = orphans \ {git}
    /\ source' \in {source} \cup (IF source = "none" THEN Remains(git) ELSE {})
    /\ UNCHANGED <<runs, phase, target, tools, abandoned, library, asset, outcome>>

(* External: the sources are cleaned between two runs (a repair of the     *)
(* package cache), which leaves an orphan nothing to work on.              *)
CleanSource ==
  /\ "clean" \in Interrupts
  /\ phase = "idle"
  /\ source' = "none"
  /\ orphans' = {}
  /\ abandoned' = FALSE
  /\ UNCHANGED <<runs, phase, target, tools, library, asset, outcome>>

Hook ==
  \/ Start \/ Probe
  \/ SubmoduleUpdate \/ Clone \/ Checkout \/ Retry
  \/ Configure \/ BuildAndInstall \/ Register

Next == Hook \/ Killed \/ OrphanEnds \/ CleanSource

Spec == Init /\ [][Next]_vars

-----------------------------------------------------------------------------
(* What a run leaves behind has its type.                                  *)
TypeOK ==
  /\ runs \in 0..MaxRuns
  /\ phase \in {"idle", "probe", "submodule", "clone", "checkout", "fetch", "configure",
                "build", "register"}
  /\ target \in Targets
  /\ tools \subseteq Programs
  /\ {source, library, asset} \subseteq Sources
  /\ orphans \subseteq {"submodule", "clone"}
  /\ outcome \in {"none", "running", "returned", "threw", "killed", "registered"}
  /\ abandoned \in BOOLEAN

(* The library that a run registers is the one it has built from the       *)
(* sources it found, never one that an earlier run left in the directory.  *)
AssetIsOfThisRun == [][asset' # "none" => asset' \in {asset, source}]_vars

(* Sources without the pinned commit are only built where the last clone   *)
(* was never followed by its checkout: it failed and left its files, the   *)
(* checkout failed, or the run was killed, whatever became of its git.     *)
UnpinnedOnlyAfterAbandon ==
  [][asset' = "head" /\ asset # "head" => abandoned]_vars

(* A statement of the sources' comments that the code does not keep.       *)

(* "from pub.dev there is no .git directory so we clone the pinned commit  *)
(* directly": every library comes from the pinned sdbus-cpp.               *)
BuildsThePinnedCommit == asset # "head"
=============================================================================
