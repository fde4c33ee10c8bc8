------------------------------- MODULE Ltimer -------------------------------
(***************************************************************************)
(* The timer device: its interrupt once a second, and the time of day that *)
(* ltimer_gettime puts together from three reads.  A second has NSEC       *)
(* steps, and SMALL of them stand for the 5 ms of the code.                *)
(***************************************************************************)
EXTENDS Lamebus

CONSTANTS NSEC, SMALL, GAP
\* With interrupts off, the three reads take no longer than that.
ASSUME LtimerAssumptions == /\ {NSEC, SMALL, GAP} \subseteq Nat
                            /\ GAP <= SMALL /\ SMALL + GAP < NSEC

VARIABLES lt     \* the registers, and lt_timerclock
ltvars == <<lt>>

LtimerInit == lt = [sec |-> 0, nsec |-> 0, irq |-> 0, timerclock |-> FALSE]
LtimerAsserts == lt.irq > 0

\* havetimerclock: the first one is the timer clock.
ConfigLtimer ==
    /\ Config("ltimer") /\ Configured("ltimer")
    /\ lt' = [lt EXCEPT !.timerclock = TRUE]

Now == lt.sec * NSEC + lt.nsec
Asking == {t \in Threads : call[t].fn = "gettime"}
Tick ==
    LET last == lt.nsec = NSEC - 1 IN
    /\ Outside /\ Spend("ticks")
    /\ \A t \in Asking : Now - call[t].from < GAP
    /\ lt' = [lt EXCEPT !.nsec = IF last THEN 0 ELSE @ + 1,
                        !.sec = IF last THEN @ + 1 ELSE @,
                        !.irq = IF last /\ lt.timerclock THEN 1 ELSE @]

\* Reading the register clears the interrupt; whom timerclock wakes is left
\* out.
LtimerIrq ==
    /\ InIrq("ltimer", "start") /\ IrqReturn
    /\ lt' = [lt EXCEPT !.irq = 0]

(***************************************************************************)
(* ltimer_gettime.                                                         *)
(***************************************************************************)
Gettime(t) ==
    /\ Calls(t, "gettime") /\ "ltimer" \in bus.ready /\ UNCHANGED ltvars
    /\ Do(t, [fn |-> "gettime", pc |-> "nsec", secs1 |-> lt.sec, nsec |-> 0,
              sec |-> 0, from |-> Now])
GettimeNsec(t) ==
    /\ At(t, "gettime", "nsec") /\ UNCHANGED <<ltvars, budget>>
    /\ Do(t, [call[t] EXCEPT !.pc = "sec", !.nsec = lt.nsec])
TvSec(nsec, secs1, secs2) == IF nsec < SMALL THEN secs2 ELSE secs1
GettimeSec(t) ==
    /\ At(t, "gettime", "sec") /\ UNCHANGED <<ltvars, budget>>
    /\ Do(t, [call[t] EXCEPT !.pc = "end",
                !.sec = TvSec(call[t].nsec, call[t].secs1,
                               lt.sec)])
GettimeEnd(t) == At(t, "gettime", "end") /\ Return(t) /\ UNCHANGED ltvars

LtimerThread(t) == GettimeNsec(t) \/ GettimeSec(t) \/ GettimeEnd(t)
LtimerNext == ConfigLtimer \/ Tick \/ LtimerIrq
              \/ \E t \in Threads : Gettime(t) \/ LtimerThread(t)

(***************************************************************************)
(* The time a thread gets is one of those between its call and its return, *)
(* so that it never goes back.                                             *)
(***************************************************************************)
LtimerRight ==
    \A t \in Asking : call[t].pc = "end" =>
      call[t].sec * NSEC + call[t].nsec \in call[t].from .. Now

=============================================================================
