------------------------------ MODULE Lamebus ------------------------------
(***************************************************************************)
(* The system bus: autoconf finds the devices, one slot after another, and *)
(* lamebus_interrupt calls the handlers of the slots that interrupt.       *)
(* Interrupts go to the boot processor only; threads run on others while   *)
(* it is in a handler.  autoconf runs on the boot processor, so not while  *)
(* that is in an interrupt.  ls_lock is held where nothing else can see    *)
(* the steps, so that what is done under it is one.                        *)
(***************************************************************************)
EXTENDS Naturals, Sequences, FiniteSets
Sets == INSTANCE FiniteSetsExt

CONSTANTS
    Threads, Boot,  \* Boot runs autoconf first
    Board,          \* which device each slot has, in order
    MAXDUDS,        \* 10000 in the code
    Settings, NULL

\* How often what the environment does happens, and how often threads call.
Budgets == {"disk", "emu", "print", "read", "gettime", "media", "faults",
            "typed", "ticks", "strays"}

\* A board has one device of a kind, among them a console, and no more stray
\* interrupts than are put up with.
ASSUME LamebusAssumptions ==
    /\ Boot \in Threads /\ MAXDUDS \in Nat
    /\ NULL \notin Threads \union Nat \union (Threads \X Nat)
                      \union {"emu", "ltimer", "lhd", "lser"}
    /\ Board \in Seq(STRING)
    /\ \A s, r \in DOMAIN Board :
          Board[s] = Board[r] /\ Board[s] # "unknown" => s = r
    /\ \E s \in DOMAIN Board : Board[s] = "lser"
    /\ \A s \in Settings : /\ s.budget \in [Budgets -> Nat]
                            /\ s.budget.strays <= MAXDUDS

VARIABLES
    bus,            \* ls_slotsinuse, ls_irqfuncs, duds, and what is in vfs
    intr,           \* the interrupt the boot processor is in
    call,           \* the call each thread is in
    spins,          \* the boot processor spins for a spinlock: it takes no
                    \* interrupts until it has it
    panic, env, budget

busvars == <<bus, intr, call, spins, panic, env, budget>>

Slots == DOMAIN Board
Idle == [fn |-> "none", pc |-> "none"]
NoIntr == [fn |-> "none", pc |-> "none", slot |-> 0, new |-> 0, val |-> NULL]
\* Those that take no interrupts (ltrace, lrandom) are left out.
Drivers == <<"emu", "ltimer", "lhd", "lser">>

LamebusInit ==
    /\ bus = [slotsinuse |-> {}, irqfuncs |-> [s \in Slots |-> NULL],
              duds |-> 0, ready |-> {}]
    /\ intr = NoIntr
    /\ call = [t \in Threads |->
                 IF t = Boot THEN [fn |-> "autoconf", pc |-> "probe",
                                   dev |-> 1, slot |-> 0]
                 ELSE Idle]
    /\ panic = "none" /\ spins = FALSE
    /\ \E s \in Settings : env = s.env /\ budget = s.budget

(***************************************************************************)
(* Steps of a thread, of a handler, and of the world outside.              *)
(***************************************************************************)
At(t, fn, pc) == /\ panic = "none" /\ call[t].fn = fn /\ call[t].pc = pc
                 /\ UNCHANGED <<bus, intr, spins, env>>
Do(t, c) == call' = [call EXCEPT ![t] = c] /\ UNCHANGED panic
Goto(t, label) == Do(t, [call[t] EXCEPT !.pc = label]) /\ UNCHANGED budget
Return(t) == Do(t, Idle) /\ UNCHANGED budget
Spend(what) == /\ budget[what] > 0
               /\ budget' = [budget EXCEPT ![what] = @ - 1]
\* There are no threads to call before boot() is done with the bus.
Booted == call[Boot].fn \notin {"autoconf", "flush"}
Calls(t, what) == Booted /\ At(t, "none", "none") /\ Spend(what)
Panic(why) == panic' = why /\ UNCHANGED <<call, budget>>

InIrq(fn, pc) == /\ panic = "none" /\ intr.fn = fn /\ intr.pc = pc
                 /\ UNCHANGED <<bus, call, spins, env, budget>>
IrqGoto(label) == intr' = [intr EXCEPT !.pc = label] /\ UNCHANGED panic
IrqReturn == IrqGoto("return")

Outside == panic = "none" /\ UNCHANGED <<bus, intr, call, spins, panic, env>>

(***************************************************************************)
(* lamebus_interrupt, with the slots that interrupt as an argument.        *)
(***************************************************************************)
Handled(irqs) == {s \in irqs : /\ s \in bus.slotsinuse
                               /\ bus.irqfuncs[s] # NULL}
\* From the slot after the last one: to the next handler, or to the end.
Dispatch(irqs, last, before) ==
    LET left == {s \in irqs : s > last}
        slot == Sets!Min(Handled(left))
        found == Handled(left) # {}
        dud == IF found THEN {s \in left : s < slot} ELSE left
        new == before + Cardinality(dud)
        duds == bus.duds + new - intr.new
    IN IF found
       THEN /\ intr' = [fn |-> bus.irqfuncs[slot], pc |-> "start",
                        slot |-> slot, new |-> new, val |-> NULL]
            /\ bus' = [bus EXCEPT !.duds = duds]
            /\ UNCHANGED panic
       ELSE /\ intr' = NoIntr
            /\ bus' = [bus EXCEPT !.duds = IF new = 0 THEN 0 ELSE duds]
            /\ panic' = IF duds > MAXDUDS THEN "too many dud interrupts"
                        ELSE panic

Interrupt(irqs) ==
    /\ panic = "none" /\ intr.fn = "none" /\ irqs # {} /\ ~spins
    /\ Dispatch(irqs, 0, 0)
    /\ UNCHANGED <<call, spins, env, budget>>
\* No slot interrupts when the register is read.
Stray ==
    /\ panic = "none" /\ intr.fn = "none" /\ ~spins /\ Spend("strays")
    /\ Dispatch({}, 0, 1)
    /\ UNCHANGED <<call, spins, env>>
\* A handler has returned; the register is read again.
HandlerReturns(irqs) ==
    /\ panic = "none" /\ intr.pc = "return"
    /\ Dispatch(irqs, intr.slot, intr.new)
    /\ UNCHANGED <<call, spins, env, budget>>

(***************************************************************************)
(* autoconf_lamebus: each driver is tried until its attach function finds  *)
(* no slot, or no memory.                                                  *)
(***************************************************************************)
Booting(pc) == /\ panic = "none" /\ intr.fn = "none"
               /\ call[Boot].fn = "autoconf" /\ call[Boot].pc = pc
               /\ UNCHANGED <<intr, spins, env, budget>>
Driver == Drivers[call[Boot].dev]
NextDriver(c) == IF c.dev = Len(Drivers) THEN Idle
                 ELSE [c EXCEPT !.dev = @ + 1, !.pc = "probe"]

LamebusProbe ==
    LET c == call[Boot]
        fits == {s \in Slots \ bus.slotsinuse : Board[s] = Driver}
    IN /\ Booting("probe") /\ UNCHANGED bus
       /\ \/ /\ fits # {}
             /\ Do(Boot, [c EXCEPT !.pc = "mark", !.slot = Sets!Min(fits)])
          \/ /\ fits = {} \/ "no_memory" \in env
             /\ Do(Boot, NextDriver(c))

Marked(slot) == bus.slotsinuse \union {slot}
LamebusMark ==
    LET slot == call[Boot].slot IN
    /\ Booting("mark")
    /\ IF slot \in bus.slotsinuse
       THEN Panic("slot already in use") /\ UNCHANGED bus
       ELSE /\ bus' = [bus EXCEPT !.slotsinuse = Marked(slot)]
            /\ Do(Boot, [call[Boot] EXCEPT !.pc = "attach"])

LamebusAttachInterrupt ==
    LET slot == call[Boot].slot IN
    /\ Booting("attach")
    /\ IF slot \notin bus.slotsinuse \/ bus.irqfuncs[slot] # NULL
       THEN Panic("slot not free") /\ UNCHANGED bus
       ELSE /\ bus' = [bus EXCEPT !.irqfuncs[slot] = Driver]
            /\ Do(Boot, [call[Boot] EXCEPT !.pc = "config"])

\* The part of tryattach every config function ends with.
Config(dev) == Booting("config") /\ Driver = dev
NoMemory == "no_memory" \in env
Configured(dev) == /\ bus' = [bus EXCEPT !.ready = @ \union {dev}]
                   /\ Do(Boot, [call[Boot] EXCEPT !.pc = "probe"])
ConfigFails == /\ NoMemory /\ UNCHANGED bus
               /\ Do(Boot, [call[Boot] EXCEPT !.pc = "probe"])

BusNext == LamebusProbe \/ LamebusMark \/ LamebusAttachInterrupt

=============================================================================
