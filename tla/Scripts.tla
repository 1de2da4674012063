------------------------------ MODULE Scripts ------------------------------
(***************************************************************************)
(* Lines, scripts and runs inside each other: parse_input and               *)
(* execute_script (simulate/cmd_parser.c), run_sim and sim_step             *)
(* (simulate/simulate.c), and the script action of a breakpoint             *)
(* (simulate/breakpoints.c).  A line can be "run", a step of the run can    *)
(* reach a breakpoint, its script has lines again.  The activations that    *)
(* are not finished are the C stack of the one thread.  What an instruction *)
(* or the table can be is in Simulator; here an instruction only moves the  *)
(* PC, and a breakpoint is a PC with a script.                              *)
(***************************************************************************)
EXTENDS Integers, SequencesExt

CONSTANTS ScrSetups,   \* records: files, by name the lines of a script; bps, the
                       \* breakpoints <<PC, name>>; typed, the lines the user types
          ScrProgram,  \* by PC the next PC relative to it, a loop
          ScrOpenMax,  \* open files a process may have
          ScrForever

ScrLineType == [cmd : {"run", "read", "setpc", "s", "bad"}, arg : Nat]

ASSUME ScrAssumption ==
    /\ ScrOpenMax \in Nat /\ ScrForever \in Nat \ {0}
    /\ \A pc \in DOMAIN ScrProgram : ScrProgram[pc] \in Int
    /\ \A s \in ScrSetups :
          /\ \A name \in DOMAIN s.files : s.files[name] \in Seq(ScrLineType)
          /\ s.bps \in Seq(Int \X Nat)
          /\ \A l \in s.typed : l \in ScrLineType /\ l.cmd # "bad"

VARIABLE scr
\* scr.setup   one of ScrSetups
\* scr.pc      PC
\* scr.arg     args[0], the argument of the line parsed last
\* scr.stack   the activations, innermost last
\* scr.open    FILEs open;  scr.failed  history: scripts ended by a bad line
\* scr.sigint  sigint_received
\* scr.done    history: <<steps asked for, steps done>> of the last finished run

ScrNoDone == <<0, 0>>

ScrInit ==
    \E s \in ScrSetups :
       scr = [setup |-> s, pc |-> 0, arg |-> 0, stack |-> <<>>, open |-> 0,
              failed |-> 0, sigint |-> FALSE, done |-> ScrNoDone]

\* execute_script: the lines of the file that are still to be read.
ScriptFrame(lines) == [kind |-> "script", rest |-> lines]

\* run_sim in the loop, or inside the walk of its sim_step over breakpoint idx
\* with the decoded instruction.  asked is history: what the line said.
RunFrame(n) ==
    [kind |-> "run", nb_steps |-> n, step |-> 1, asked |-> n, phase |-> "step", idx |-> 1,
     instr |-> 0, stop |-> FALSE]

ScrTop == Last(scr.stack)
ScrAt(kind) == scr.stack # <<>> /\ ScrTop.kind = kind
ScrReplaced(f) == [scr EXCEPT !.stack = Front(@) \o <<f>>]

\* fopen
CanOpen(s, file) == file \in DOMAIN s.setup.files /\ s.open < ScrOpenMax
Opened(s, file) ==
    [s EXCEPT !.stack = Append(@, ScriptFrame(s.setup.files[file])), !.open = @ + 1]

ScrSimple(s, pc) == IF pc \in DOMAIN ScrProgram THEN [s EXCEPT !.pc = pc + ScrProgram[pc]] ELSE s

\* parse_input of a line that is not bad.  The handler of "read" ignores what
\* execute_script returns; "s", the last one, walks over no breakpoint.
Parsed(s0, l) ==
    LET s == IF l.cmd = "s" THEN s0 ELSE [s0 EXCEPT !.arg = l.arg]
    IN CASE l.cmd = "run" -> IF l.arg = 0 THEN s ELSE [s EXCEPT !.stack = Append(@, RunFrame(l.arg))]
         [] l.cmd = "read" -> IF CanOpen(s, l.arg) THEN Opened(s, l.arg) ELSE s
         [] l.cmd = "setpc" -> [s EXCEPT !.pc = l.arg]
         [] OTHER -> ScrSimple(s, s.pc)

\* A line at the prompt; one that is not accepted does nothing.
ScrType ==
    /\ scr.stack = <<>>
    /\ \E l \in scr.setup.typed : scr' = Parsed(scr, l)

----------------------------------------------------------------------------
(* execute_script                                                          *)

\* The loop over the breakpoints goes on after one that asks for a stop.
WalkedOn(f, failed) == [f EXCEPT !.idx = @ + 1, !.stop = @ \/ failed]

\* What the caller does with the result: a run inside its walk stops when the
\* script failed; a "read" line and the prompt do not look at it.
Returned(s, failed) ==
    IF s.stack = <<>> \/ Last(s.stack).kind = "script" THEN s
    ELSE [s EXCEPT !.stack = Front(@) \o <<WalkedOn(Last(@), failed)>>]

ScrLine ==
    /\ ScrAt("script") /\ ScrTop.rest # <<>>
    /\ Head(ScrTop.rest).cmd # "bad"
    /\ scr' = Parsed(ScrReplaced([ScrTop EXCEPT !.rest = Tail(@)]), Head(ScrTop.rest))

\* A bad line returns without fclose.
ScrBadLine ==
    /\ ScrAt("script") /\ ScrTop.rest # <<>>
    /\ Head(ScrTop.rest).cmd = "bad"
    /\ scr' = Returned([scr EXCEPT !.stack = Front(@), !.failed = @ + 1], TRUE)

ScrEnd ==
    /\ ScrAt("script") /\ ScrTop.rest = <<>>
    /\ scr' = Returned([scr EXCEPT !.stack = Front(@), !.open = @ - 1], FALSE)

----------------------------------------------------------------------------
(* run_sim and sim_step                                                    *)

\* The instruction is decoded before the walk.
ScrStep ==
    /\ ScrAt("run") /\ ScrTop.phase = "step"
    /\ scr' = IF scr.pc \in DOMAIN ScrProgram
              THEN ScrReplaced([ScrTop EXCEPT !.phase = "walk", !.idx = 1, !.stop = FALSE,
                                              !.instr = ScrProgram[scr.pc]])
              ELSE [scr EXCEPT !.stack = Front(@)]

ScrBps == scr.setup.bps

\* simulate_check_for_breakpoints with handle_breakpoint: a script that cannot
\* be opened stops the run.
ScrWalk ==
    /\ ScrAt("run") /\ ScrTop.phase = "walk" /\ ScrTop.idx <= Len(ScrBps)
    /\ LET b == ScrBps[ScrTop.idx]
       IN scr' = CASE b[1] # scr.pc -> Returned(scr, FALSE)
                   [] b[1] = scr.pc /\ CanOpen(scr, b[2]) -> Opened(scr, b[2])
                   [] OTHER -> Returned(scr, TRUE)

\* Variant of ScrLast: the number of steps is taken from args, not from its copy.
ScrLastOfArgs(f) == scr.arg # ScrForever /\ f.step >= scr.arg

\* The loop condition of run_sim, after a step without error.
ScrLast(f) == f.nb_steps # ScrForever /\ f.step >= f.nb_steps

\* Variant of ScrInterrupted: "run forever" does not look at the flag.
ScrInterruptedBounded(f) == scr.sigint /\ f.nb_steps # ScrForever

ScrInterrupted(f) == scr.sigint

\* The rest of the step, with the instruction decoded before the scripts ran,
\* and of the iteration.
ScrStepEnd ==
    /\ ScrAt("run") /\ ScrTop.phase = "walk" /\ ScrTop.idx > Len(ScrBps)
    /\ LET moved == [scr EXCEPT !.pc = @ + ScrTop.instr]
           ended == [moved EXCEPT !.stack = Front(@)]
           next == [ScrTop EXCEPT !.phase = "step",
                                  !.step = IF ScrTop.asked = ScrForever THEN @ ELSE @ + 1]
       IN scr' = IF ScrTop.stop THEN [scr EXCEPT !.stack = Front(@)]
                 ELSE IF ScrInterrupted(ScrTop) THEN [ended EXCEPT !.sigint = FALSE]
                 ELSE IF ScrLast(ScrTop) THEN [ended EXCEPT !.done = <<ScrTop.asked, ScrTop.step>>]
                 ELSE [moved EXCEPT !.stack = Front(@) \o <<next>>]

\* handler_sigint
ScrCtrlC == ~scr.sigint /\ scr' = [scr EXCEPT !.sigint = TRUE]

ScrThread == ScrLine \/ ScrBadLine \/ ScrEnd \/ ScrStep \/ ScrWalk \/ ScrStepEnd

ScrNext == ScrType \/ ScrThread \/ ScrCtrlC

\* The thread waits for nothing while a line is executed.
ScrFairness == WF_scr(ScrThread)

----------------------------------------------------------------------------
ScrActive(kind) == {i \in DOMAIN scr.stack : scr.stack[i].kind = kind}

(***************************************************************************)
(* The activations keep what is theirs although all lines share args and   *)
(* the strtok buffer: a run that ends regularly has done the steps its own *)
(* line asked for, whatever lines ran inside it, and the open files are    *)
(* those of the active scripts and of the scripts a bad line ended         *)
(* (cmd_parser.c:94-98, simulate.c:1047-1048).                             *)
(***************************************************************************)
ScrKeepsItsOwn ==
    /\ scr.done[1] = scr.done[2]
    /\ scr.open = Cardinality(ScrActive("script")) + scr.failed

(***************************************************************************)
(* The user gets the prompt back, whatever scripts read themselves and     *)
(* whatever runs start runs: only "run forever" stays, and Ctrl+C ends the *)
(* innermost run, if not an error ends it first.                           *)
(***************************************************************************)
ScrPrompt == scr.stack = <<>>
ScrEndless == \E i \in ScrActive("run") : scr.stack[i].asked = ScrForever
ScrEnds ==
    /\ []<>(ScrPrompt \/ ScrEndless)
    /\ scr.sigint ~> (~scr.sigint \/ ScrPrompt)
=============================================================================
