---------------------------- MODULE RomfsRedirect ----------------------------
(***************************************************************************)
(* The hooks that let a mod replace the files of the game                  *)
(* (pokemon_sv/common/src/romfs_redirect.cpp and its copy for Legends      *)
(* Z-A): the loader of the game opens a file, is told its size, and reads  *)
(* it into a buffer.  The copy for Z-A redirects the reads of mode 3 only. *)
(***************************************************************************)
EXTENDS Integers

CONSTANTS OwnSize, ModSize    \* the sizes of the game's file and the mod's

ASSUME RomfsAssumption == OwnSize \in Nat \ {0} /\ ModSize \in Nat \ {0}

VARIABLES
  readModes,  \* the modes whose reads the build redirects
  replaced,   \* whether the mod has a file of that name
  loader,     \* the loader: its mode, mSize and mPosition
  ownAt,      \* where the game's own handle is in its file
  buffer,     \* the buffer: the file it was read from, first and last byte
  refused     \* history: nn::fs::OpenFile failed

romfsVars == <<readModes, replaced, loader, ownAt, buffer, refused>>

Closed == [mode |-> 0, size |-> 0, position |-> 0]
Nothing == [file |-> "none", first |-> 0, last |-> 0]
Smaller(m, n) == IF m < n THEN m ELSE n

RomfsInit ==
  /\ readModes \in {{2, 3}, {3}}
  /\ replaced \in BOOLEAN
  /\ loader = Closed
  /\ ownAt = 0
  /\ buffer = Nothing
  /\ refused = FALSE

(* The original Open, and then the size of the file of the mod, if any.    *)
(* Mutant: the size stays.                                                 *)
SizeKept == OwnSize
SizeTold == IF replaced THEN ModSize ELSE OwnSize
FlatBufferOpenHook ==
  /\ loader = Closed
  /\ \E mode \in {2, 3} :
       loader' = [mode |-> mode, size |-> SizeTold, position |-> 0]
  /\ ownAt' = 0
  /\ UNCHANGED <<readModes, replaced, buffer, refused>>

(* A read of the mod's file opens it anew, so it starts at its beginning.  *)
ReadMod(n) ==
  /\ buffer' = [file |-> "mod", first |-> 0, last |-> Smaller(n, ModSize)]
  /\ loader' = [loader EXCEPT !.position = Smaller(n, ModSize)]
  /\ UNCHANGED <<ownAt, refused>>
ReadOwn(n) ==
  LET to == Smaller(ownAt + n, OwnSize) IN
  /\ buffer' = [file |-> "own", first |-> ownAt, last |-> to]
  /\ loader' = [loader EXCEPT !.position = to]
  /\ ownAt' = to
Redirects == replaced /\ loader.mode \in readModes
FlatBufferReadHook(n) ==
  /\ loader # Closed
  /\ \/ Redirects /\ ReadMod(n)
     \/ Redirects /\ ReadOwn(n) /\ refused' = TRUE
     \/ ~Redirects /\ ReadOwn(n) /\ UNCHANGED refused
  /\ UNCHANGED <<readModes, replaced>>

CloseLoader ==
  /\ loader # Closed
  /\ loader' = Closed
  /\ buffer' = Nothing
  /\ refused' = FALSE
  /\ UNCHANGED <<readModes, replaced, ownAt>>

RomfsNext ==
  \/ FlatBufferOpenHook
  \/ \E n \in 1 .. loader.size : FlatBufferReadHook(n)
  \/ CloseLoader

RomfsSpec == RomfsInit /\ [][RomfsNext]_romfsVars

-----------------------------------------------------------------------------
(* A loader that reads as much as it was told in one piece has the whole   *)
(* file, and the file of the mod when there is one: Open and Read, which   *)
(* look for it on their own, must agree.  Exceptions are a file of the mod *)
(* that cannot be opened, and in Z-A a loader of another mode, which is    *)
(* told the size of the mod's file and reads the game's.                   *)
InOnePiece == buffer.first = 0 /\ loader.position = loader.size
ToldSizeIsRead ==
  loader # Closed /\ InOnePiece /\ ~refused /\ loader.mode \in readModes =>
    buffer = [file  |-> IF replaced THEN "mod" ELSE "own", first |-> 0,
              last  |-> IF replaced THEN ModSize ELSE OwnSize]
=============================================================================
