----------------------------- MODULE BootScripts -----------------------------
(***************************************************************************)
(* How the Lua scripts of the mods get into the game                       *)
(* (pokemon_sv/common/src/lua_hooks.cpp and its copy for Legends Z-A): the *)
(* hook runs after each file the game loads; after the one that is last    *)
(* before the game's own code (the sixth, in Z-A the second) it registers  *)
(* the functions of the mod and runs the files of script/lua/boot, in the  *)
(* order of their names.                                                   *)
(***************************************************************************)
EXTENDS Sequences, SequencesExt, Integers

CONSTANT LastLoad     \* the load after which the scripts run

ASSUME BootAssumption == LastLoad \in Nat \ {0}

VARIABLES
  loads,      \* counter
  luaState,   \* gLuaState is set
  globals,    \* what the scripts can use
  todo,       \* sortedFiles, from the one that is next
  ran,        \* history: the scripts that were run
  failed,     \* history: the scripts in which an error occurred
  broken      \* history: the scripts that are wrong by themselves

bootVars == <<loads, luaState, globals, todo, ran, failed, broken>>

(* The scripts by the numbers their names begin with, what each brings and *)
(* what it needs; 0 stands for lua_mod_code and 1 for registerLuaUtils.    *)
Scripts == {"00_debug", "01_trampolines", "02_notice", "02_tick",
            "50_api", "50_hooks"}
NameOrder == <<"00_debug", "01_trampolines", "02_notice", "02_tick",
               "50_api", "50_hooks">>
Brings == [s \in Scripts |->
  CASE s = "00_debug" -> {"API"}
    [] s = "01_trampolines" -> {"_trampoline"}
    [] s = "02_notice" -> {"pushNotice"}
    [] s = "02_tick" -> {"addTickListener"}
    [] s = "50_api" -> {"CC_"}
    [] s = "50_hooks" -> {"hooks"}]
Needs == [s \in Scripts |->
  CASE s = "00_debug" -> {"_FuncPtr"}
    [] s = "01_trampolines" -> {}
    [] s = "02_notice" -> {"API", "_trampoline"}
    [] s = "02_tick" -> {"API"}
    [] s = "50_api" -> {"API", "cc_Tick", "addTickListener"}
    [] s = "50_hooks" -> {"API", "_trampoline", "CC_", "cc_Start"}]

BootInit ==
  /\ loads = 0
  /\ luaState = FALSE
  /\ globals = {}
  /\ todo = <<>>
  /\ ran = <<>>
  /\ failed = {}
  /\ broken = {}

-----------------------------------------------------------------------------
(* registerLuaUtils and lua_mod_code.                                      *)
RegisterLuaUtils == {"_FuncPtr", "_BufString", "debug"}
LuaModCode == {"cc_Start", "cc_Init", "cc_Tick"}

(* std::ranges::sort by name, of whatever order the directory has: what    *)
(* was listed, each file after those with smaller names.                   *)
(* Mutant: the order of the directory.                                     *)
AsListed(listing) == listing
Before(a, b) ==
  \E i, j \in 1 .. Len(NameOrder) : NameOrder[i] = a /\ NameOrder[j] = b /\ i < j
ByName(listing) ==
  CHOOSE sorted \in [DOMAIN listing -> ToSet(listing)] :
    \A i, j \in DOMAIN listing : i < j => Before(sorted[i], sorted[j])

(* The directory as the file system lists it: in order, the other way      *)
(* round, or from the middle.                                              *)
Listings == {NameOrder, Reverse(NameOrder),
             SubSeq(NameOrder, 4, 6) \o SubSeq(NameOrder, 1, 3)}

AfterMainHook ==
  /\ todo = <<>>
  /\ loads < LastLoad + 1
  /\ loads' = loads + 1
  /\ luaState' = TRUE
  /\ IF loads' = LastLoad
       THEN /\ globals' = globals \cup RegisterLuaUtils \cup LuaModCode
            /\ \E listing \in Listings : todo' = ByName(listing)
            /\ broken' \in SUBSET Scripts
       ELSE UNCHANGED <<globals, todo, broken>>
  /\ UNCHANGED <<ran, failed>>

(* A script that fails is logged, and the next one runs all the same.      *)
Rest(ok) == Tail(todo)
RunScript ==
  LET s == Head(todo)
      ok == s \notin broken /\ Needs[s] \subseteq globals
  IN
  /\ todo # <<>>
  /\ todo' = Rest(ok)
  /\ ran' = Append(ran, s)
  /\ IF ok THEN globals' = globals \cup Brings[s] /\ UNCHANGED failed
           ELSE failed' = failed \cup {s} /\ UNCHANGED globals
  /\ UNCHANGED <<loads, luaState, broken>>

BootNext == AfterMainHook \/ RunScript

BootSpec == BootInit /\ [][BootNext]_bootVars

-----------------------------------------------------------------------------
(* A script that fails is wrong itself or uses something of one that       *)
(* failed: no script runs before what it uses, in whatever order the       *)
(* directory lists them.                                                   *)
FailsForAReason ==
  \A s \in failed :
    s \in broken \/ \E t \in failed : Brings[t] \cap Needs[s] # {}
=============================================================================
