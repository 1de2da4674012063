--------------------------- MODULE PeriodicTimer ---------------------------
(***************************************************************************)
(* What TIMER1 promises to the firmware, without counters: once programmed *)
(* it raises its interrupt after exactly "left" simulated steps and then   *)
(* every "period" steps, until it is reprogrammed; the request stays up    *)
(* until it is acknowledged.  Variable beat changes with every simulated    *)
(* step and with nothing else: a step cannot pass for an access of the      *)
(* firmware, nor an access for a step.                                     *)
(***************************************************************************)
EXTENDS Integers

VARIABLES on, left, period, pending, beat

pvars == <<on, left, period, pending, beat>>

TypeOK == /\ on \in BOOLEAN /\ pending \in BOOLEAN /\ beat \in BOOLEAN
          /\ left \in Nat \ {0} /\ period \in Nat \ {0}

Init ==
    /\ on = FALSE /\ pending = FALSE /\ beat \in BOOLEAN
    /\ left \in Nat \ {0} /\ period \in Nat \ {0}

\* A step passes and the interval has not elapsed.
Wait == on /\ left > 1 /\ left' = left - 1 /\ UNCHANGED <<on, period, pending>>

\* The interval elapses: the request is raised and the next interval starts.
Fire == on /\ left = 1 /\ left' = period /\ pending' = TRUE /\ UNCHANGED <<on, period>>

\* A step passes while the timer is stopped.
Rest == ~on /\ UNCHANGED <<on, left, period, pending>>

Step == beat' = ~beat /\ (Wait \/ Fire \/ Rest)

\* The firmware stops or starts the timer; the interval is frozen meanwhile.
Switch == on' \in BOOLEAN /\ UNCHANGED <<left, period, pending>>

\* The firmware writes counter, reload or match value.
Reprogram == left' \in Nat \ {0} /\ period' \in Nat \ {0} /\ UNCHANGED <<on, pending>>

Acknowledge == pending' = FALSE /\ UNCHANGED <<on, left, period>>

Access == UNCHANGED beat /\ (Switch \/ Reprogram \/ Acknowledge)

Next == Step \/ Access

Spec == Init /\ [][Next]_pvars
=============================================================================
