---------------------------- MODULE CrashReport ----------------------------
(***************************************************************************)
(* reportException (common/src/main.cpp), called by the hook on aborts and *)
(* by the handler of exceptions: it walks the frames of the stack and      *)
(* writes what it finds to a buffer of fixed size, then shows it.  The     *)
(* stack is what the crash left: frame records may be linked in any way,   *)
(* and lead to an address that cannot be read.                             *)
(***************************************************************************)
EXTENDS FiniteSets, Naturals, Sequences

CONSTANTS
  StackFrame,  \* addresses of frame records
  Null,
  Wild,        \* an address that cannot be read
  Modules,     \* loaded modules other than nnrtld
  BufferLines  \* lines the FixedBuffer holds

ASSUME ReportAssumption ==
  Null \notin StackFrame /\ Wild \notin StackFrame \cup {Null} /\ BufferLines \in Nat

Rtld == "nnrtld"      \* module 0
Unknown == "unknown"  \* no module
Place == Modules \cup {Rtld, Unknown}
Headings == {<<"header">>, <<"noTrace">>, <<"modules">>, <<"registers">>}

VARIABLES
  rp,          \* place in reportException
  rendering,   \* the crash was on the render thread
  prev,        \* the stack: the record before each
  returnTo,    \* and where its return address is
  registers,   \* where PC and LR are, or <<>> after an abort
  fp,          \* the record the loop is at
  module,      \* the variable "module": never initialised
  lines        \* lines of the buffer: a heading, or <<real, shown>> place

reportVars == <<rp, rendering, prev, returnTo, registers, fp, module, lines>>

ReturnAddress == Place \cup {"zero"}
Pointer == StackFrame \cup {Null, Wild}

ReportTypeOK ==
  /\ rp \in {"start", "pc", "lr", "walk", "modules", "registers", "show", "shown",
            "fault"}
  /\ rendering \in BOOLEAN
  /\ prev \in [StackFrame -> Pointer]
  /\ returnTo \in [StackFrame -> ReturnAddress]
  /\ fp \in Pointer
  /\ module \in Modules \cup {Rtld, Null, "garbage"}
  /\ lines \in Seq(Headings \cup (Place \X Place)) /\ Len(lines) <= BufferLines

ReportInit ==
  /\ rp = "start"
  /\ rendering \in BOOLEAN
  /\ prev \in [StackFrame -> Pointer]
  /\ returnTo \in [StackFrame -> ReturnAddress]
  /\ registers \in {<<>>} \cup {<<pc, lr>> : pc, lr \in Place}
  /\ fp \in Pointer
  /\ module \in {Null, "garbage"}
  /\ lines = <<>>

(* FixedBuffer: what does not fit is dropped.                              *)
Appended(line) ==
  IF Len(lines) < BufferLines THEN Append(lines, line) ELSE lines

(* The search over the modules sets "module" when one has the address, and *)
(* leaves it as it was when none has; what it held is then taken for one.  *)
(* The search for a register and that for a frame have a variable each,    *)
(* never initialised; they stand as one here.                              *)
Found(place) == IF place = Unknown THEN module ELSE place
ShowAddress(place) ==
  /\ module' = Found(place)
  /\ Found(place) # "garbage"
  /\ lines' = Appended(<<place, IF Found(place) = Null THEN Unknown
                                ELSE Found(place)>>)
(* The instruction at an address taken to be in a module is read, be it    *)
(* there or not.                                                           *)
Fails == rp' = "fault" /\ UNCHANGED <<fp, module, lines>>
Fault(place) ==
  /\ Found(place) = "garbage" \/ (place = Unknown /\ Found(place) # Null)
  /\ Fails

-----------------------------------------------------------------------------
Stack == <<rendering, prev, returnTo, registers>>

Header ==
  /\ rp = "start"
  /\ lines' = IF fp = Null THEN <<<<"header">>, <<"noTrace">>>>
            ELSE <<<<"header">>>>
  /\ rp' = IF fp = Null THEN "modules"
           ELSE IF registers = <<>> THEN "walk" ELSE "pc"
  /\ UNCHANGED <<Stack, fp, module>>

ShowRegister(i, here, next) ==
  /\ rp = here
  /\ \/ ShowAddress(registers[i]) /\ rp' = next /\ UNCHANGED fp
     \/ Fault(registers[i])
  /\ UNCHANGED Stack

(* The loop: it stops at a return address of 0, in nnrtld, and after the   *)
(* last record.  Mutant: it does not go on to the next.                    *)
Stays == fp
Advanced == prev[fp]
IsLast(r) == returnTo[r] \in {"zero", Rtld}
WalkStops ==
  /\ rp = "walk"
  /\ fp \in StackFrame /\ IsLast(fp)
  /\ rp' = "modules"
  /\ UNCHANGED <<Stack, fp, module, lines>>
WalkFrame ==
  /\ rp = "walk"
  /\ fp \in StackFrame /\ ~IsLast(fp)
  /\ \/ /\ ShowAddress(returnTo[fp])
        /\ fp' = Advanced
        /\ rp' = IF fp' = Null THEN "modules" ELSE "walk"
     \/ Fault(returnTo[fp])
  /\ UNCHANGED Stack
WalkFaults ==
  /\ rp = "walk" /\ fp = Wild
  /\ Fails
  /\ UNCHANGED Stack

ListModules ==
  /\ rp = "modules"
  /\ lines' = Appended(<<"modules">>)
  /\ rp' = "registers"
  /\ UNCHANGED <<Stack, fp, module>>
(* The last of the registers is the instruction before PC, read wherever   *)
(* that is.                                                                *)
ListRegisters ==
  /\ rp = "registers"
  /\ \/ /\ lines' = Appended(<<"registers">>)
        /\ rp' = "show"
        /\ UNCHANGED <<fp, module>>
     \/ registers # <<>> /\ registers[1] = Unknown /\ Fails
  /\ UNCHANGED Stack

(* The log and the popup.  As the FIXME says, they crash on the render     *)
(* thread.                                                                 *)
Show ==
  /\ rp = "show"
  /\ rp' = IF rendering THEN "fault" ELSE "shown"
  /\ UNCHANGED <<Stack, fp, module, lines>>

ReportNext ==
  \/ Header \/ ShowRegister(1, "pc", "lr") \/ ShowRegister(2, "lr", "walk")
  \/ WalkStops \/ WalkFrame \/ WalkFaults
  \/ ListModules \/ ListRegisters \/ Show

ReportFairness == WF_reportVars(ReportNext)
ReportSpec == ReportInit /\ [][ReportNext]_reportVars /\ ReportFairness

-----------------------------------------------------------------------------
(* A report that has begun is shown, whatever line the buffer ends at.     *)
(* Left out are the crashes whose report crashes or hangs: those on the    *)
(* render thread, those whose frame records form a ring, which the loop    *)
(* follows for ever, or lead to an address that cannot be read, and those  *)
(* with an address outside all modules, since "module" may still hold a    *)
(* module, or what the stack held before.                                  *)
WalkEnds ==
  LET at[n \in 0..Cardinality(StackFrame)] ==
        IF n = 0 THEN fp
        ELSE IF at[n - 1] \in StackFrame /\ ~IsLast(at[n - 1])
               THEN prev[at[n - 1]] ELSE at[n - 1]
      end == at[Cardinality(StackFrame)]
  IN end = Null \/ (end \in StackFrame /\ IsLast(end))
PlacesKnown ==
  /\ \A r \in StackFrame : returnTo[r] # Unknown
  /\ \A i \in 1..Len(registers) : registers[i] # Unknown
CrashIsShown ==
  rp # "start" /\ ~rendering /\ WalkEnds /\ PlacesKnown ~> rp = "shown"
=============================================================================
