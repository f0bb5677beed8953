----------------------------- MODULE NativeCalls -----------------------------
(***************************************************************************)
(* An operation of PkClient on its way down: its arguments are combined    *)
(* and copied into native memory (PkBindings), passed by position through  *)
(* the C ABI (pk_bridge.h), copied again (to_vec), and put into a message  *)
(* on the bus (PkTransactionBridge); then the native memory is freed.      *)
(* Four layers name the arguments anew, and nothing but their order ties   *)
(* the names together.                                                     *)
(*                                                                         *)
(* A text is a sequence of characters, one of which may be the zero that   *)
(* ends a C string.                                                        *)
(***************************************************************************)
EXTENDS Integers, Sequences, FiniteSets, SequencesExt, Functions

CONSTANTS
  Nul,           \* the character that ends a C string
  Chars,         \* the characters of a text
  Locale,        \* the text "en_US.UTF-8"
  Texts,         \* texts a caller may pass
  TextLists,     \* lists of names, package ids or paths
  FilterLists,   \* lists of PkFilter values
  FlagLists      \* lists of PkTransactionFlag values

(* 1 << k                                                                  *)
Bit[k \in 0..30] == IF k = 0 THEN 1 ELSE 2 * Bit[k - 1]

PkFilter == {0} \cup {Bit[k] : k \in 2..27}

PkTransactionFlag == {Bit[k] : k \in 1..6}

Simulate == Bit[2]

ASSUME CallAssumption ==
  /\ FilterLists \subseteq Seq(PkFilter)
  /\ FlagLists \subseteq Seq(PkTransactionFlag)
  /\ Texts \subseteq Seq(Chars)
  /\ TextLists \subseteq Seq(Seq(Chars))
  /\ Locale \in Seq(Chars \ {Nul})

(* n & (1 << k): what is odd after k shifts to the right.                  *)
HasBit(n, k) ==
  LET shifted[i \in 0..k] == IF i = 0 THEN n ELSE shifted[i - 1] \div 2
  IN  shifted[k] % 2 = 1

(* a | b, for numbers of at most 31 bits.                                  *)
BitOr(a, b) ==
  LET from[k \in 0..31] ==
        IF k = 31 THEN 0
        ELSE (IF HasBit(a, k) \/ HasBit(b, k) THEN 1 ELSE 0) + 2 * from[k + 1]
  IN  from[0]

(* PkFilter.combine and PkTransactionFlag.combine.                         *)
AddUp(values) == FoldSeq(LAMBDA v, acc : acc + v, 0, values)

Combine(values) ==
  LET acc[i \in 0..Len(values)] == IF i = 0 THEN 0 ELSE BitOr(acc[i - 1], values[i])
  IN  acc[Len(values)]

-----------------------------------------------------------------------------
(* The operations of PkClient and the arguments each takes.                *)

Searches    == {"searchName", "searchDetails", "searchFiles"}
Lists       == {"getPackages", "getUpdates", "getRepoList"}
Resolutions == {"resolve", "whatProvides"}
Lookups     == {"getDetails", "getUpdateDetail", "getFiles"}
Relations   == {"dependsOn", "requiredBy"}
Changes     == {"installPackages", "updatePackages", "installFiles"}
Simulations == [simulateInstall |-> "installPackages", simulateRemove |-> "removePackages",
                simulateUpdate |-> "updatePackages"]

Others      == {"getDistroUpgrades", "refreshCache", "downloadPackages", "repoEnable",
                "acceptEula"}

(* The methods of a transaction, and the operations that call them.        *)
Methods ==
  Searches \cup Lists \cup Resolutions \cup Lookups \cup Relations \cup Changes
    \cup {"removePackages"} \cup Others

Operations == Methods \cup DOMAIN Simulations

(* What an operation passes to its function of PkBindings, in order.       *)
Passes ==
  [op \in Operations |->
     CASE op \in Searches -> <<"filters", "text">>
       [] op \in Lists -> <<"filters">>
       [] op \in Resolutions -> <<"filters", "texts">>
       [] op \in Lookups -> <<"texts">>
       [] op \in Relations -> <<"filters", "texts", "recursive">>
       [] op \in Changes \cup {"simulateInstall", "simulateUpdate"} -> <<"flags", "texts">>
       [] op \in {"removePackages", "simulateRemove"} ->
            <<"flags", "texts", "allowDeps", "autoremove">>
       [] op = "getDistroUpgrades" -> <<>>
       [] op = "refreshCache" -> <<"force">>
       [] op = "downloadPackages" -> <<"storeInCache", "texts">>
       [] op = "repoEnable" -> <<"text", "enabled">>
       [] op = "acceptEula" -> <<"text">>]

(* An argument as the operation hands it on.                               *)
Passed(op, args, name) ==
  CASE name = "filters" -> Combine(args.filters)
    [] name = "flags" /\ op \in DOMAIN Simulations -> Combine(Append(args.flags, Simulate))
    [] name = "flags" /\ op \notin DOMAIN Simulations -> Combine(args.flags)
    [] name = "text" /\ op \in Searches -> <<args.text>>
    [] OTHER -> args[name]

(* The functions of pk_bridge.h and the names of their parameters; an      *)
(* array and its count are one.                                            *)
BridgeParams ==
  [fn \in {"setHints"} \cup Methods |->
     CASE fn = "setHints" -> <<"locale", "interactive">>
       [] fn \in Searches \cup {"whatProvides"} -> <<"filter", "values">>
       [] fn \in Lists -> <<"filter">>
       [] fn = "resolve" -> <<"filter", "ids">>
       [] fn \in Lookups -> <<"ids">>
       [] fn \in Relations -> <<"filter", "ids", "recursive">>
       [] fn \in {"installPackages", "updatePackages"} -> <<"flags", "ids">>
       [] fn = "installFiles" -> <<"flags", "paths">>
       [] fn = "removePackages" -> <<"flags", "ids", "allow_deps", "autoremove">>
       [] fn = "getDistroUpgrades" -> <<>>
       [] fn = "refreshCache" -> <<"force">>
       [] fn = "downloadPackages" -> <<"store_in_cache", "ids">>
       [] fn = "repoEnable" -> <<"repo_id", "enabled">>
       [] fn = "acceptEula" -> <<"eula_id">>]

ArrayParams == {"values", "ids", "paths"}
TextParams  == {"locale", "repo_id", "eula_id"}

(* buildHints, with each hint as a field.                                  *)
BuildHints(locale, interactive) ==
  [locale |-> locale, background |-> FALSE, pluralSignals |-> TRUE,
   interactive |-> interactive]

(* The message that a method of PkTransactionBridge sends.                 *)
Swapped(fn, p) ==
  IF fn = "setHints" THEN <<BuildHints(p.locale, p.interactive)>>
  ELSE IF fn = "removePackages" THEN <<p.flags, p.ids, p.autoremove, p.allow_deps>>
  ELSE [k \in DOMAIN BridgeParams[fn] |-> p[BridgeParams[fn][k]]]

WithArguments(fn, p) ==
  CASE fn = "setHints" -> <<BuildHints(p.locale, p.interactive)>>
    [] fn \in Searches \cup {"whatProvides"} -> <<p.filter, p.values>>
    [] fn \in Lists -> <<p.filter>>
    [] fn = "resolve" -> <<p.filter, p.ids>>
    [] fn \in Lookups -> <<p.ids>>
    [] fn \in Relations -> <<p.filter, p.ids, p.recursive>>
    [] fn \in {"installPackages", "updatePackages"} -> <<p.flags, p.ids>>
    [] fn = "installFiles" -> <<p.flags, p.paths>>
    [] fn = "removePackages" -> <<p.flags, p.ids, p.allow_deps, p.autoremove>>
    [] fn = "getDistroUpgrades" -> <<>>
    [] fn = "refreshCache" -> <<p.force>>
    [] fn = "downloadPackages" -> <<p.store_in_cache, p.ids>>
    [] fn = "repoEnable" -> <<p.repo_id, p.enabled>>
    [] fn = "acceptEula" -> <<p.eula_id>>

-----------------------------------------------------------------------------
VARIABLES
  call,          \* the operation, its arguments by name, and _interactive
  todo,          \* the calls of PkBindings that _startQuery still makes
  step,          \* where the isolate's thread is
  heap,          \* native memory of the bindings: what is at an address
  params,        \* the parameters of the bridge's method, by name
  bus,           \* the messages sent
  refused        \* the functions whose message the bus did not take

callVars == <<call, todo, step, heap, params, bus, refused>>

(* _startQuery: the hints, then the method.                                *)
Hints(c) == [fn |-> "setHints", passed |-> <<Locale, c.interactive>>]

Method(c) ==
  [fn |-> IF c.op \in DOMAIN Simulations THEN Simulations[c.op] ELSE c.op,
   passed |-> [k \in DOMAIN Passes[c.op] |-> Passed(c.op, c.args, Passes[c.op][k])]]

MethodFirst(c) == <<Method(c), Hints(c)>>

StartQuery(c) == <<Hints(c), Method(c)>>

(* A caller's choice of arguments, as far as the operation takes them.     *)
CallInit ==
  /\ \E op \in Operations, filters \in FilterLists, flags \in FlagLists,
        texts \in TextLists, text \in Texts, b \in BOOLEAN, c \in BOOLEAN, d \in BOOLEAN :
       LET given == [filters |-> filters, flags |-> flags, texts |-> texts, text |-> text,
                     recursive |-> b, allowDeps |-> b, autoremove |-> c, force |-> b,
                     storeInCache |-> b, enabled |-> b]
       IN  call = [op |-> op, args |-> [name \in Range(Passes[op]) |-> given[name]],
                   interactive |-> d]
  /\ todo = StartQuery(call)
  /\ step = "dart"
  /\ heap = <<>>
  /\ params = <<>>
  /\ bus = <<>>
  /\ refused = {}

Fn == Head(todo).fn

Position(fn, name) == CHOOSE k \in DOMAIN BridgeParams[fn] : BridgeParams[fn][k] = name

(* The parameters that are pointers, by their positions.                   *)
Pointers(fn, names) == {k \in DOMAIN BridgeParams[fn] : BridgeParams[fn][k] \in names}

(* toNativeUtf8                                                            *)
NativeUtf8(text) == Append(text, Nul)

(* _allocStringArray, with the array at 0 and its texts from 1 on.         *)
StringArray(texts) ==
  [a \in 0..Len(texts) |-> IF a = 0 THEN [i \in DOMAIN texts |-> i]
                                    ELSE NativeUtf8(texts[a])]

(* A function of PkBindings allocates and calls.                           *)
Enter ==
  /\ step = "dart"
  /\ todo # <<>>
  /\ heap' = IF Pointers(Fn, ArrayParams) # {}
             THEN StringArray(Head(todo).passed[CHOOSE k \in Pointers(Fn, ArrayParams) : TRUE])
             ELSE [k \in Pointers(Fn, TextParams) |-> NativeUtf8(Head(todo).passed[k])]
  /\ step' = "native"
  /\ UNCHANGED <<call, todo, params, bus, refused>>

(* std::string(const char* ): up to the first zero.                        *)
CText(block) == SubSeq(block, 1, SelectInSeq(block, LAMBDA c : c = Nul) - 1)

Freed == <<"freed">>

ReadText(at) == IF at \in DOMAIN heap THEN CText(heap[at]) ELSE Freed

(* to_vec                                                                  *)
ToVec == IF 0 \in DOMAIN heap THEN [i \in DOMAIN heap[0] |-> ReadText(heap[0][i])]
                              ELSE Freed

(* A function of pk_bridge.cpp binds its parameters and copies the texts.  *)
Copy ==
  /\ step = "native"
  /\ params' = [name \in Range(BridgeParams[Fn]) |->
                  IF name \in ArrayParams THEN ToVec
                  ELSE IF name \in TextParams THEN ReadText(Position(Fn, name))
                  ELSE Head(todo).passed[Position(Fn, name)]]
  /\ step' = "calling"
  /\ UNCHANGED <<call, todo, heap, bus, refused>>

CallMethod ==
  /\ step = "calling"
  /\ bus' = Append(bus, [fn |-> Fn, arguments |-> WithArguments(Fn, params)])
  /\ step' = "returned"
  /\ UNCHANGED <<call, todo, heap, params, refused>>

(* The proxy throws before the message is sent; PK_TX_TRY catches.         *)
CallRefused ==
  /\ step = "calling"
  /\ refused' = refused \cup {Fn}
  /\ step' = "returned"
  /\ UNCHANGED <<call, todo, heap, params, bus>>

(* _freeStringArray, or the one text.                                      *)
FreedButArray ==
  IF Pointers(Fn, ArrayParams) # {} THEN Range(heap[0]) ELSE Pointers(Fn, TextParams)

FreedBlocks ==
  IF Pointers(Fn, ArrayParams) # {} THEN Range(heap[0]) \cup {0} ELSE Pointers(Fn, TextParams)

Leave ==
  /\ step = "returned"
  /\ heap' = Restrict(heap, DOMAIN heap \ FreedBlocks)
  /\ todo' = Tail(todo)
  /\ step' = "dart"
  /\ UNCHANGED <<call, params, bus, refused>>

CallNext == Enter \/ Copy \/ CallMethod \/ CallRefused \/ Leave

-----------------------------------------------------------------------------
(* The D-Bus interface of a transaction: the arguments of each method, in  *)
(* order, under the names PkClient has for them.                           *)
Interface ==
  [fn \in Methods |->
     CASE fn \in Searches -> <<"filters", "text">>
       [] fn \in Lists -> <<"filters">>
       [] fn \in Resolutions -> <<"filters", "texts">>
       [] fn \in Lookups -> <<"texts">>
       [] fn \in Relations -> <<"filters", "texts", "recursive">>
       [] fn \in Changes -> <<"flags", "texts">>
       [] fn = "removePackages" -> <<"flags", "texts", "allowDeps", "autoremove">>
       [] fn = "getDistroUpgrades" -> <<>>
       [] fn = "refreshCache" -> <<"force">>
       [] fn = "downloadPackages" -> <<"storeInCache", "texts">>
       [] fn = "repoEnable" -> <<"text", "enabled">>
       [] fn = "acceptEula" -> <<"text">>]

Arguments(name) ==
  UNION {LET names == Interface[bus[i].fn]
         IN  {bus[i].arguments[k] : k \in {j \in DOMAIN names : names[j] = name}} :
           i \in {j \in DOMAIN bus : bus[j].fn # "setHints"}}

BitValues(n) == {Bit[k] : k \in {j \in 0..30 : HasBit(n, j)}}

(* The bit fields that reach the daemon hold the caller's filters or flags *)
(* and no others, however often one is listed; a simulate* operation       *)
(* always adds Simulate, so that it never changes a package.               *)
BitsArrive ==
  /\ \A v \in Arguments("filters") : BitValues(v) = Range(call.args.filters) \ {0}
  /\ \A v \in Arguments("flags") :
       BitValues(v) = Range(call.args.flags) \cup
                        (IF call.op \in DOMAIN Simulations THEN {Simulate} ELSE {})

UpToNul(text) ==
  CHOOSE t \in Prefixes(text) :
    /\ Nul \notin Range(t)
    /\ Len(t) < Len(text) => text[Len(t) + 1] = Nul

(* Every other argument reaches the daemon in its place through all four   *)
(* layers, and each text whole: as far as its first zero, if it has one,   *)
(* never from memory that has been freed.                                  *)
ArgumentsArrive ==
  /\ \A v \in Arguments("text") :
       LET text == UpToNul(call.args.text)
       IN  v = IF call.op \in Searches THEN <<text>> ELSE text
  /\ \A v \in Arguments("texts") :
       v = [i \in DOMAIN call.args.texts |-> UpToNul(call.args.texts[i])]
  /\ \A name \in {"recursive", "allowDeps", "autoremove", "force", "storeInCache", "enabled"} :
       \A v \in Arguments(name) : v = call.args[name]

(* After the call, and after one that failed, no native memory is left.    *)
NothingLeaks == step = "dart" => DOMAIN heap = {}

(* The daemon knows whether it may ask the user for authorization before   *)
(* it gets the method (without the hint it must not), unless it refused    *)
(* the hints.                                                              *)
HintsComeFirst ==
  \A i \in DOMAIN bus :
    bus[i].fn # "setHints" /\ "setHints" \notin refused =>
      \E j \in 1..(i - 1) :
        /\ bus[j].fn = "setHints"
        /\ bus[j].arguments[1].interactive = call.interactive
        /\ bus[j].arguments[1].locale = Locale
=============================================================================
