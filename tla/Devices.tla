------------------------------ MODULE Devices ------------------------------
(***************************************************************************)
(* The devices of the bus together: the disk, the emulator's file system,  *)
(* the console and the timer, from autoconf on.                            *)
(***************************************************************************)
EXTENDS Lhd, Emu, Console, Ltimer

vars == <<busvars, lhdvars, emuvars, convars, ltvars>>
Init == LamebusInit /\ LhdInit /\ EmuInit /\ ConInit /\ LtimerInit

Asserts(dev) == CASE dev = "lhd" -> LhdAsserts
                  [] dev = "emu" -> EmuAsserts
                  [] dev = "lser" -> LserAsserts
                  [] dev = "ltimer" -> LtimerAsserts
                  [] OTHER -> "stuck" \in env
\* The register lamebus_interrupt reads.
Irqs == {s \in Slots : Asserts(Board[s])}

BusStep == /\ BusNext \/ Interrupt(Irqs) \/ Stray \/ HandlerReturns(Irqs)
           /\ UNCHANGED <<lhdvars, emuvars, convars, ltvars>>
LhdStep == LhdNext /\ UNCHANGED <<emuvars, convars, ltvars>>
EmuStep == EmuNext /\ UNCHANGED <<lhdvars, convars, ltvars>>
ConStep == ConNext /\ UNCHANGED <<lhdvars, emuvars, ltvars>>
LtimerStep == LtimerNext /\ UNCHANGED <<lhdvars, emuvars, convars>>
Next == BusStep \/ LhdStep \/ EmuStep \/ ConStep \/ LtimerStep

\* The devices finish what they are told, the processors run, and the boot
\* processor takes its interrupts; nobody has to call, to type or to fail.
Thread(t) == \/ LhdThread(t) /\ UNCHANGED <<emuvars, convars, ltvars>>
             \/ EmuThread(t) /\ UNCHANGED <<lhdvars, convars, ltvars>>
             \/ /\ PrintThread(t) \/ ReadThread(t)
                /\ UNCHANGED <<lhdvars, emuvars, ltvars>>
             \/ LtimerThread(t) /\ UNCHANGED <<lhdvars, emuvars, convars>>
Handler == \/ LhdHandler /\ UNCHANGED <<emuvars, convars, ltvars>>
           \/ EmuHandler /\ UNCHANGED <<lhdvars, convars, ltvars>>
           \/ ConHandler /\ UNCHANGED <<lhdvars, emuvars, ltvars>>
           \/ LtimerIrq /\ UNCHANGED <<lhdvars, emuvars, convars>>
           \/ /\ Interrupt(Irqs) \/ HandlerReturns(Irqs)
              /\ UNCHANGED <<lhdvars, emuvars, convars, ltvars>>
Autoconf == \/ BusNext /\ UNCHANGED <<lhdvars, emuvars, convars, ltvars>>
            \/ ConfigLhd /\ UNCHANGED <<emuvars, convars, ltvars>>
            \/ ConfigEmu /\ UNCHANGED <<lhdvars, convars, ltvars>>
            \/ /\ ConfigLser \/ AttachCon \/ ConfigCon
               /\ UNCHANGED <<lhdvars, emuvars, ltvars>>
            \/ ConfigLtimer /\ UNCHANGED <<lhdvars, emuvars, convars>>
Fairness ==
    /\ WF_vars(Autoconf) /\ WF_vars(Handler)
    /\ WF_vars(LhdFinish /\ UNCHANGED <<emuvars, convars, ltvars>>)
    /\ WF_vars(HostFinish /\ UNCHANGED <<lhdvars, convars, ltvars>>)
    /\ WF_vars(Shown /\ UNCHANGED <<lhdvars, emuvars, ltvars>>)
    /\ \A t \in Threads : WF_vars(Thread(t))
Spec == Init /\ [][Next]_vars /\ Fairness

(***************************************************************************)
(* Properties.                                                             *)
(***************************************************************************)
\* What each event can make of the assertions and panics of the drivers.
Breaks ==
    [stuck |-> {"too many dud interrupts"},
     two_readers |-> {},
     typed_early |-> {"not initialised"},
     spinlock_held |-> {"deadlock on spinlock", "spinlock not held"},
     no_memory |-> {"not initialised", "no console", "delayed_outbuf full"}]

\* lser_write is never called before the device is clear, the emulator never
\* refuses a handle, no slot is taken twice, and no driver is called before
\* it is set up; each event breaks what is listed for it and no more.
NoPanic == panic \in {"none"} \union UNION {Breaks[e] : e \in env}

\* lhd_io, the operations of emu.c, putch, getch and gettime each get what is
\* theirs, whatever the others and the interrupts do meanwhile.
IoRight == LhdRight /\ EmuRight /\ OutputRight /\ InputRight /\ LtimerRight

\* Every call but a read of the console returns: no completion is lost
\* between a device, lamebus_interrupt, its handler and the caller.
CallsReturn == \A t \in Threads :
    (env = {} /\ call[t].fn \notin {"read", "kgets"}) ~> (call[t] = Idle)

=============================================================================
