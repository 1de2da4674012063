------------------------------ MODULE OsCalls ------------------------------
(***************************************************************************)
(* The tracer of the firmware's operating system calls, simulate/os_info.c: *)
(* when the simulated program enters OSSemPend() it stacks the pointer to   *)
(* the return code (perr), when the program leaves it the pointer on top is *)
(* taken and the code behind it is reported.  The stack is one for all      *)
(* tasks of the firmware, and the tasks are switched inside OSSemPend().    *)
(* Whoever waits longest may return first: the tasks and their scheduler    *)
(* (uC/OS, part of the firmware image) are modelled by what they do to the  *)
(* tracer, any task may call and any waiting task may return.               *)
(***************************************************************************)
EXTENDS Integers, Sequences, FiniteSets

CONSTANTS Task, PerrMax,   \* PERR_MAX: 5
          MaxCalls         \* bound: calls traced in a session

ASSUME OsAssumption == IsFiniteSet(Task) /\ PerrMax \in Nat \ {0} /\ MaxCalls \in Nat

\* A pointer is named for the call that brought it.
Ptr == 1 .. MaxCalls

VARIABLES
    waiting,   \* the calls inside OSSemPend(), by task: the pointer, or 0
    nested,    \* history: only the newest waiting call has ever returned
    perr,      \* perr[0 .. nb_perr - 1]
    calls,     \* history: calls traced so far
    reports,   \* history: <<pointer of the call that returned, pointer reported>>
    exited     \* ERRX has ended the simulator

osvars == <<waiting, nested, perr, calls, reports, exited>>

OsInit ==
    /\ waiting = [t \in Task |-> 0] /\ nested = TRUE /\ perr = <<>>
    /\ calls = 0 /\ reports = <<>> /\ exited = FALSE

Outstanding == {waiting[t] : t \in Task} \ {0}

\* sem_pend(START) with push.
PendStart(t) ==
    /\ ~exited /\ waiting[t] = 0 /\ calls < MaxCalls
    /\ calls' = calls + 1
    /\ IF Len(perr) < PerrMax
       THEN /\ perr' = Append(perr, calls + 1)
            /\ waiting' = [waiting EXCEPT ![t] = calls + 1]
            /\ UNCHANGED exited
       ELSE exited' = TRUE /\ UNCHANGED <<perr, waiting>>
    /\ UNCHANGED <<reports, nested>>

\* No call that came after p still waits.
IsNewest(p) == \A q \in Outstanding : q <= p

\* Variant of PendEnd: the pointers come out first in, first out.
PendEndFifo(t) ==
    /\ ~exited /\ waiting[t] # 0
    /\ IF perr # <<>>
       THEN /\ reports' = Append(reports, <<waiting[t], perr[1]>>)
            /\ perr' = Tail(perr)
            /\ waiting' = [waiting EXCEPT ![t] = 0]
            /\ nested' = (nested /\ IsNewest(waiting[t]))
            /\ UNCHANGED exited
       ELSE exited' = TRUE /\ UNCHANGED <<reports, perr, waiting, nested>>
    /\ UNCHANGED calls

\* sem_pend(END) with pop.
PendEnd(t) ==
    /\ ~exited /\ waiting[t] # 0
    /\ IF perr # <<>>
       THEN /\ reports' = Append(reports, <<waiting[t], perr[Len(perr)]>>)
            /\ perr' = SubSeq(perr, 1, Len(perr) - 1)
            /\ waiting' = [waiting EXCEPT ![t] = 0]
            /\ nested' = (nested /\ IsNewest(waiting[t]))
            /\ UNCHANGED exited
       ELSE exited' = TRUE /\ UNCHANGED <<reports, perr, waiting, nested>>
    /\ UNCHANGED calls

OsNext == \E t \in Task : PendStart(t) \/ PendEnd(t)

OsSpec == OsInit /\ [][OsNext]_osvars

----------------------------------------------------------------------------
(***************************************************************************)
(* os_info.c, "there can be another call to OSSemPend before the first     *)
(* returns, so we need a LIFO/stack to keep track of the pointers to where *)
(* the returncode is": the code reported is the one of the call that        *)
(* returned.                                                                *)
(***************************************************************************)
ReportsItsOwnCode == \A i \in DOMAIN reports : reports[i][1] = reports[i][2]

\* Every pointer is reported once, though it may be for another call.
Reported == {reports[i][2] : i \in DOMAIN reports}
ReportedOnce ==
    /\ Len(reports) = Cardinality(Reported)
    /\ \A i \in DOMAIN perr : perr[i] \notin Reported

(***************************************************************************)
(* The tracer is right as long as the tasks leave OSSemPend() in the        *)
(* reverse order, it reports every call once in any order, and gives up     *)
(* only when more than PERR_MAX tasks wait.                                 *)
(***************************************************************************)
TracerIsRight ==
    /\ nested => ReportsItsOwnCode
    /\ ReportedOnce
    /\ exited => Cardinality(Outstanding) = PerrMax
=============================================================================
