----------------------------- MODULE StackFrame -----------------------------
(***************************************************************************)
(* What the firmware uses load and store multiple for: a function saves    *)
(* registers, uses them, and restores them with the mirrored instruction.  *)
(* The user has breakpoints on the reads of the restore: each can end the  *)
(* load in the middle, and the next "run" or "s" executes it again.        *)
(***************************************************************************)
EXTENDS LoadStoreMultiple

CONSTANTS Saves,     \* the store instructions
          Bases      \* values of the base register

ASSUME FrameAssumption ==
    /\ Saves \subseteq LsmOps
    /\ \A i \in Saves : ~(i.modify /\ i.a \in RegList(i))   \* no ISA defines these
    /\ Bases \subseteq {4 * n : n \in 0 .. Space \div 4 - 1}

VARIABLES save,    \* the instruction that saves
          regs, mem,
          at,      \* where the function is
          regs0, mem0   \* history: the registers and the memory before

framevars == <<save, regs, mem, at, regs0, mem0>>

\* The instruction that restores: before and after, up and down change places
\* when the base moves.
Restore ==
    IF save.modify THEN [save EXCEPT !.after = ~@, !.down = ~@] ELSE save

WordAddrs == {4 * n : n \in 0 .. Space \div 4 - 1}

FrameInit ==
    /\ save \in Saves
    /\ \E b \in Bases :
          regs = [r \in GPR |-> IF r = save.a THEN b ELSE 1000 + r]
    /\ mem \in {[w \in WordAddrs |-> u] : u \in {0, Undef}}
    /\ at = "save" /\ regs0 = regs /\ mem0 = mem

\* OPC_LSMW of simulate(): smw and smwa.  ERRX ends the simulator after the words.
Push ==
    /\ at = "save"
    /\ IF StoreError(save, regs[save.a])
       THEN at' = "exit" /\ UNCHANGED <<regs, mem>>
       ELSE /\ at' = "body"
            /\ mem' = Stored(save, regs, mem)
            /\ regs' = Updated(save, regs)
    /\ UNCHANGED <<save, regs0, mem0>>

\* The function uses the registers it saved, and gives the base back.
Body ==
    /\ at = "body" /\ at' = "restore"
    /\ regs' = [r \in GPR |-> IF r \in RegList(save) \ {save.a} THEN 0 ELSE regs[r]]
    /\ UNCHANGED <<save, mem, regs0, mem0>>

\* lmw and lmwa: a breakpoint ends the load before word n + 1 is in its register.
PopStopped ==
    /\ at = "restore"
    /\ \E n \in 0 .. Readable(Restore, regs, mem) :
          /\ n < Cardinality(RegList(Restore))
          /\ regs' = Loaded(Restore, regs, mem, n)
    /\ UNCHANGED <<save, mem, at, regs0, mem0>>

Pop ==
    /\ at = "restore"
    /\ Readable(Restore, regs, mem) = Cardinality(RegList(Restore))
    /\ IF AddrError(Restore, regs[save.a])
       THEN at' = "exit" /\ UNCHANGED regs
       ELSE /\ at' = "done"
            /\ regs' = Updated(Restore, Loaded(Restore, regs, mem, Cardinality(RegList(Restore))))
    /\ UNCHANGED <<save, mem, regs0, mem0>>

FrameNext == Push \/ Body \/ PopStopped \/ Pop

----------------------------------------------------------------------------
(***************************************************************************)
(* A restore undoes its save: every register of the list and the base come *)
(* back, also when breakpoints ended the load in the middle and it was     *)
(* executed again from the first word, and when the frame wraps around the *)
(* end of the address space.                                               *)
(***************************************************************************)
RestoreUndoesSave == at = "done" => regs = regs0

(***************************************************************************)
(* A push changes memory only between the new and the old stack pointer:   *)
(* what an interrupted caller has below or above its own frame survives.   *)
(***************************************************************************)
FrameOnly ==
    (at \in {"body", "restore"} /\ save.down /\ save.after /\ save.modify) =>
        \A w \in WordAddrs :
            mem[w] # mem0[w] => (w - regs[save.a]) % Space
                                    < (regs0[save.a] - regs[save.a]) % Space

NamedTwice == RangeRegs(save) \cap EnabledRegs(save) # {}

(***************************************************************************)
(* The simulator gives up on an instruction exactly when it names a        *)
(* register twice or asks smwa to store r31, and never in a restore.       *)
(***************************************************************************)
ExitsOnlyOnBadList ==
    at # "save" =>
        (at = "exit" <=> NamedTwice \/ (save.aligned /\ 31 \in RegList(save)))
=============================================================================
