------------------------------ MODULE Console ------------------------------
(***************************************************************************)
(* The console: dev/generic/console.c over dev/lamebus/lser.c, with the    *)
(* callers that print (kprintf, kprintf after splhigh, which is polled, a  *)
(* write to con:) and that read (a read of con:, the menu's kgets).  The   *)
(* device shows a character at a time and has one typed character until    *)
(* lser_irq has read it.                                                   *)
(***************************************************************************)
EXTENDS Lamebus
Seqs == INSTANCE SequencesExt

CONSTANTS CONSOLE_INPUT_BUFFER_SIZE, DELAYBUFSIZE, MESSAGE, LINE

ASSUME ConsoleAssumptions ==
    /\ {DELAYBUFSIZE, MESSAGE} \subseteq Nat
    /\ {CONSOLE_INPUT_BUFFER_SIZE, LINE} \subseteq Nat \ {0}

VARIABLES
    con,    \* the softc, the_console, and the locks of those who print
    lser,   \* ls_lock, ls_wbusy, and whether ls_start and ls_input are set
    port,   \* the device's registers, and what is on the screen
    ghost   \* not in the code: what was typed, kept, read and printed
convars == <<con, lser, port, ghost>>

Slot == 0 .. (CONSOLE_INPUT_BUFFER_SIZE - 1)
Lock(fn) == CASE fn = "kprintf" -> "kprintf_lock"
              [] fn = "polled" -> "kprintf_spinlock"
              [] fn = "write" -> "con_userlock_write"
              [] fn = "read" -> "con_userlock_read"
Locks == {"kprintf_lock", "kprintf_spinlock", "con_userlock_write",
          "con_userlock_read"}
ConInit ==
    /\ con = [present |-> FALSE, rsem |-> 0, wsem |-> 0, head |-> 0,
              tail |-> 0, gotchars |-> [s \in Slot |-> 0],
              delayed |-> 1, lock |-> [l \in Locks |-> NULL]]
    /\ lser = [lock |-> NULL, wbusy |-> FALSE, attached |-> FALSE]
    /\ port = [wirq |-> {}, rirq |-> {}, ch |-> 0, sending |-> NULL,
               screen |-> << >>]
    /\ ghost = [typed |-> 0, kept |-> << >>, got |-> << >>,
                said |-> [t \in Threads |-> 0]]

LserAsserts == \/ {"enable", "active"} \subseteq port.wirq
               \/ "force" \in port.wirq
               \/ {"enable", "active"} \subseteq port.rirq

(***************************************************************************)
(* The device.  A character written while another is sent replaces it.     *)
(***************************************************************************)
Shown == /\ Outside /\ port.sending # NULL /\ UNCHANGED <<con, lser, ghost>>
         /\ port' = [port EXCEPT !.sending = NULL,
                                 !.wirq = @ \union {"active"},
                                 !.screen = Append(@, port.sending)]
         /\ UNCHANGED budget
Typed == /\ Outside /\ Spend("typed") /\ "active" \notin port.rirq
         /\ con.present \/ NoMemory \/ "typed_early" \in env
         /\ port' = [port EXCEPT !.rirq = @ \union {"active"},
                       !.ch = ghost.typed + 1]
         /\ ghost' = [ghost EXCEPT !.typed = @ + 1]
         /\ UNCHANGED <<con, lser>>

(***************************************************************************)
(* config_lser enables the interrupts; then attach_con_to_lser and         *)
(* config_con, which prints what was delayed.                              *)
(***************************************************************************)
ConfigLser ==
    /\ Config("lser") /\ UNCHANGED <<con, bus, ghost>>
    /\ lser' = [lser EXCEPT !.wbusy = FALSE]
    /\ port' = [port EXCEPT !.rirq = {"enable"}, !.wirq = {"enable"}]
    /\ Do(Boot, [call[Boot] EXCEPT !.pc = "con"])
AttachCon ==
    /\ Booting("con") /\ UNCHANGED <<con, port, bus, ghost>>
    /\ \/ /\ lser' = [lser EXCEPT !.attached = TRUE]
          /\ Do(Boot, [call[Boot] EXCEPT !.pc = "config con"])
       \/ NoMemory /\ UNCHANGED lser /\ Do(Boot, Idle)
WSEM_two == 2  \* mutant
WSEM == 1
ConfigCon ==
    /\ Booting("config con") /\ UNCHANGED <<lser, port, bus, ghost>>
    /\ \/ /\ con' = [con EXCEPT !.present = TRUE, !.wsem = WSEM]
          /\ Do(Boot, [fn |-> "flush", pc |-> "putch", left |-> con.delayed])
       \/ NoMemory /\ UNCHANGED con /\ Do(Boot, Idle)

(***************************************************************************)
(* lser_irq, then con_start and con_input.  What is not set up holds       *)
(* anything: a call of it does nothing, or goes wrong.                     *)
(***************************************************************************)
Active(irq) == "active" \in irq
LserIrq ==
    /\ InIrq("lser", "start") /\ lser.lock = NULL /\ UNCHANGED <<con, ghost>>
    /\ lser' = IF Active(port.wirq) THEN [lser EXCEPT !.wbusy = FALSE]
               ELSE lser
    /\ port' = [port EXCEPT !.wirq = IF Active(@) THEN {"enable"} ELSE @,
                            !.rirq = IF Active(@) THEN {"enable"} ELSE @]
    /\ intr' = [intr EXCEPT
         !.pc = IF Active(port.wirq) THEN "con_start" ELSE "con_input",
         !.val = IF Active(port.rirq) THEN port.ch ELSE NULL]
    /\ UNCHANGED panic
ConStart ==
    /\ InIrq("lser", "con_start") /\ UNCHANGED <<lser, port, ghost>>
    /\ con' = [con EXCEPT !.wsem = @ + 1]
    /\ IrqGoto("con_input")
Next1(n) == (n + 1) % CONSOLE_INPUT_BUFFER_SIZE
Full_never(head, tail) == FALSE  \* mutant
Full(head, tail) == Next1(head) = tail
ConInput ==
    LET ch == intr.val IN
    /\ InIrq("lser", "con_input") /\ UNCHANGED <<lser, port>>
    /\ \/ /\ ch = NULL /\ IrqReturn /\ UNCHANGED <<con, ghost>>
       \/ /\ ch # NULL /\ ~con.present /\ UNCHANGED <<con, ghost>>
          /\ \/ IrqReturn
             \/ panic' = "not initialised" /\ UNCHANGED intr
       \/ /\ ch # NULL /\ con.present
          /\ IF Full(con.head, con.tail)
             THEN IrqReturn /\ UNCHANGED <<con, ghost>>
             ELSE /\ con' = [con EXCEPT !.gotchars[con.head] = ch,
                                        !.head = Next1(@)]
                  /\ ghost' = [ghost EXCEPT !.kept = Append(@, ch)]
                  /\ IrqGoto("V")
ConInputV ==
    /\ InIrq("lser", "V") /\ UNCHANGED <<lser, port, ghost>>
    /\ con' = [con EXCEPT !.rsem = @ + 1]
    /\ IrqReturn

(***************************************************************************)
(* Printing: the caller's lock, then putch for every character.  Neither   *)
(* kprintf nor putch knows of the spinlocks its caller holds (c_spinlocks  *)
(* stays 0): "spinlock_held" has every kprintf that is not polled made by  *)
(* kheap_printstats, with kmalloc_spinlock.                                *)
(***************************************************************************)
Held(t) == "spinlock_held" \in env /\ call[t].fn = "kprintf"
Prints(t) ==
    /\ Calls(t, "print") /\ UNCHANGED convars
    /\ \E fn \in {"kprintf", "polled", "write"} :
         /\ fn = "write" => con.present
         /\ fn = "kprintf" => ~\E u \in Threads : Held(u)
         /\ Do(t, [fn |-> fn, pc |-> "lock", left |-> MESSAGE])
Printing(t) == call[t].fn \in {"kprintf", "polled", "write", "flush"}
PrintAt(t, pc) == Printing(t) /\ At(t, call[t].fn, pc)
TakeLock(t) ==
    LET l == Lock(call[t].fn) IN
    /\ call[t].fn \in {"kprintf", "polled", "write", "read"}
    /\ At(t, call[t].fn, "lock") /\ con.lock[l] = NULL
    /\ con' = [con EXCEPT !.lock[l] = t]
    /\ Goto(t, IF call[t].fn = "read" THEN "getch" ELSE "putch")
    /\ UNCHANGED <<lser, port, ghost>>
\* putch: delayed, with a P, or polled (t_curspl is above 0); con_io's uiomove
\* may fail before.
Putch(t) ==
    LET c == call[t] IN
    /\ PrintAt(t, "putch") /\ UNCHANGED <<lser, port>>
    /\ \/ /\ c.left = 0 /\ UNCHANGED <<con, ghost>>
          /\ Goto(t, "end")
       \/ /\ c.left > 0 /\ c.fn = "write" /\ Spend("faults")
          /\ Do(t, [c EXCEPT !.pc = "end"]) /\ UNCHANGED <<con, ghost>>
       \/ /\ c.left > 0 /\ ~con.present /\ UNCHANGED ghost
          /\ IF con.delayed >= DELAYBUFSIZE
             THEN Panic("delayed_outbuf full") /\ UNCHANGED con
             ELSE /\ con' = [con EXCEPT !.delayed = @ + 1]
                  /\ Do(t, [c EXCEPT !.left = @ - 1]) /\ UNCHANGED budget
       \/ /\ c.left > 0 /\ con.present /\ UNCHANGED con
          /\ ghost' = [ghost EXCEPT !.said[t] = @ + 1]
          /\ Goto(t, IF c.fn = "polled" THEN "poll" ELSE "P")
PutchIntr(t) ==
    /\ PrintAt(t, "P") /\ con.wsem > 0 /\ UNCHANGED <<lser, port, ghost>>
    /\ con' = [con EXCEPT !.wsem = @ - 1]
    /\ Goto(t, "send")
Char(t) == <<t, ghost.said[t]>>
Sends(t) == [port EXCEPT !.sending = Char(t)]
Done1(t) == /\ Do(t, [call[t] EXCEPT !.pc = "putch", !.left = @ - 1])
            /\ UNCHANGED budget
LserWrite(t) ==
    /\ PrintAt(t, "send") /\ lser.lock = NULL /\ UNCHANGED <<con, ghost>>
    /\ IF lser.wbusy
       THEN Panic("Not clear to write") /\ UNCHANGED <<lser, port>>
       ELSE /\ lser' = [lser EXCEPT !.wbusy = TRUE]
            /\ port' = Sends(t)
            /\ Done1(t)
LserWritepolled(t) ==
    /\ PrintAt(t, "poll") /\ lser.lock = NULL /\ UNCHANGED <<con, ghost>>
    /\ lser' = [lser EXCEPT !.lock = t]
    /\ port' = IF lser.wbusy THEN port ELSE [port EXCEPT !.wirq = {}]
    /\ Goto(t, IF lser.wbusy THEN "drain" ELSE "send polled")
LserDrain(t) ==
    /\ PrintAt(t, "drain") /\ Active(port.wirq)
    /\ port' = [port EXCEPT !.wirq = {"enable", "force"}]
    /\ Goto(t, "send polled") /\ UNCHANGED <<con, lser, ghost>>
LserSend(t) ==
    /\ PrintAt(t, "send polled") /\ port' = Sends(t)
    /\ Goto(t, "sent") /\ UNCHANGED <<con, lser, ghost>>
\* A pending interrupt stays: it has the next writer waiting for it.
Reenabled_always(wirq) == {"enable"}  \* mutant
Reenabled(wirq) == IF lser.wbusy THEN wirq ELSE {"enable"}
LserSent(t) ==
    /\ PrintAt(t, "sent") /\ Active(port.wirq) /\ UNCHANGED <<con, ghost>>
    /\ port' = [port EXCEPT !.wirq = Reenabled(@)]
    /\ lser' = [lser EXCEPT !.lock = NULL]
    /\ Done1(t)
PrintEnd(t) ==
    /\ PrintAt(t, "end") /\ UNCHANGED <<lser, port, ghost>>
    /\ con' = IF call[t].fn = "flush" THEN [con EXCEPT !.delayed = 0]
              ELSE [con EXCEPT !.lock[Lock(call[t].fn)] = NULL]
    /\ Return(t)

\* Others want the spinlock: the boot processor until it is free, or the
\* processor of a holder who sleeps, whose panic it is; a holder may also wake
\* up on another one, and cannot release it there.
SpinlockWanted ==
    /\ panic = "none" /\ intr.fn = "none" /\ ~spins
    /\ \E t \in Threads : Held(t)
    /\ spins' = TRUE
    /\ UNCHANGED <<bus, intr, call, panic, env, budget, convars>>
SpinlockFree ==
    /\ panic = "none" /\ spins /\ ~\E t \in Threads : Held(t)
    /\ spins' = FALSE
    /\ UNCHANGED <<bus, intr, call, panic, env, budget, convars>>
SpinlockLost(t) ==
    /\ panic = "none" /\ Held(t) /\ call[t].pc \in {"lock", "P", "end"}
    /\ panic' = IF call[t].pc = "end" THEN "spinlock not held"
                ELSE "deadlock on spinlock"
    /\ UNCHANGED <<bus, intr, call, spins, env, budget, convars>>

(***************************************************************************)
(* Reading: con_io under its lock, and kgets without one, to the end of a  *)
(* line.                                                                   *)
(***************************************************************************)
Readers(fn) == {t \in Threads : call[t].fn = fn}
Reads(t) ==
    /\ Calls(t, "read") /\ UNCHANGED convars
    /\ \E fn \in {"read", "kgets"} :
         /\ fn = "read" => con.present
         \* The menu is one thread, which waits while its program runs.
         /\ fn = "kgets" => Readers("kgets") = {}
         /\ \/ "two_readers" \in env
            \/ Readers(IF fn = "read" THEN "kgets" ELSE "read") = {}
         /\ Do(t, [fn |-> fn, pc |-> IF fn = "read" THEN "lock" ELSE "getch",
                   ch |-> 0])
ReadAt(t, pc) == call[t].fn \in {"read", "kgets"} /\ At(t, call[t].fn, pc)
Getch(t) ==
    /\ ReadAt(t, "getch") /\ UNCHANGED <<lser, port, ghost>>
    /\ IF ~con.present
       THEN Panic("no console") /\ UNCHANGED con
       ELSE /\ con.rsem > 0
            /\ con' = [con EXCEPT !.rsem = @ - 1]
            /\ Goto(t, "char")
GetchChar(t) ==
    LET ch == con.gotchars[con.tail] IN
    /\ ReadAt(t, "char") /\ UNCHANGED <<con, lser, port, budget>>
    /\ ghost' = [ghost EXCEPT !.got = Append(@, ch)]
    /\ Do(t, [call[t] EXCEPT !.pc = "tail", !.ch = ch])
EndOfLine(ch) == ch % LINE = 0
GetchTail(t) ==
    /\ ReadAt(t, "tail") /\ UNCHANGED <<lser, port, ghost>>
    /\ con' = [con EXCEPT !.tail = Next1(@)]
    /\ \/ Goto(t, IF EndOfLine(call[t].ch) THEN "read end" ELSE "getch")
       \/ /\ call[t].fn = "read" /\ Spend("faults")
          /\ Do(t, [call[t] EXCEPT !.pc = "read end"])
ReadEnd(t) ==
    /\ ReadAt(t, "read end") /\ UNCHANGED <<lser, port, ghost>>
    /\ con' = IF call[t].fn = "read"
              THEN [con EXCEPT !.lock["con_userlock_read"] = NULL] ELSE con
    /\ Return(t)

PrintThread(t) ==
    \/ TakeLock(t) \/ Putch(t) \/ PutchIntr(t) \/ LserWrite(t)
    \/ LserWritepolled(t) \/ LserDrain(t) \/ LserSend(t) \/ LserSent(t)
    \/ PrintEnd(t)
ReadThread(t) == Getch(t) \/ GetchChar(t) \/ GetchTail(t) \/ ReadEnd(t)
ConHandler == LserIrq \/ ConStart \/ ConInput \/ ConInputV
ConNext == \/ ConfigLser \/ AttachCon \/ ConfigCon \/ Shown \/ Typed
           \/ ConHandler \/ SpinlockWanted \/ SpinlockFree
           \/ \E t \in Threads : \/ Prints(t) \/ PrintThread(t)
                               \/ SpinlockLost(t) \/ Reads(t) \/ ReadThread(t)

(***************************************************************************)
(* What threads print is on the screen or on its way, each character once  *)
(* and in the thread's order; the messages under one lock are not mixed;   *)
(* and who is clear to write is one: the semaphore, a thread, the device   *)
(* or its interrupt.                                                       *)
(***************************************************************************)
OnScreen(t) == {i \in DOMAIN port.screen : port.screen[i][1] = t}
Unsent(t) == Printing(t) /\ call[t].pc \in {"P", "send", "poll", "drain",
                                            "send polled"}
OutputRight ==
    /\ \A t \in Threads :
         /\ \A i \in OnScreen(t) : port.screen[i] =
                <<t, Cardinality({j \in OnScreen(t) : j <= i})>>
         /\ Cardinality(OnScreen(t)) = ghost.said[t]
              - (IF Unsent(t) THEN 1 ELSE 0)
              - (IF port.sending # NULL /\ port.sending[1] = t THEN 1 ELSE 0)
    /\ con.present =>
         con.wsem + Cardinality({t \in Threads : Printing(t)
                                                 /\ call[t].pc = "send"})
           + (IF lser.wbusy THEN 1 ELSE 0)
           + (IF intr.fn = "lser" /\ intr.pc = "con_start" THEN 1 ELSE 0) = 1

(***************************************************************************)
(* The characters read are those kept, in their order; the ones not read   *)
(* yet are in the ring; cs_rsem counts those nobody is about to take.      *)
(***************************************************************************)
Taking(label) == {t \in Threads : /\ call[t].fn \in {"read", "kgets"}
                                  /\ call[t].pc = label}
InRing == (con.head + CONSOLE_INPUT_BUFFER_SIZE - con.tail)
            % CONSOLE_INPUT_BUFFER_SIZE
InputRight == "two_readers" \notin env =>
    /\ Seqs!IsPrefix(ghost.got, ghost.kept)
    /\ Len(ghost.kept) - Len(ghost.got)
         = InRing - Cardinality(Taking("tail"))
    /\ con.rsem + Cardinality(Taking("char") \union Taking("tail"))
         + (IF intr.fn = "lser" /\ intr.pc = "V" THEN 1 ELSE 0) = InRing

=============================================================================
