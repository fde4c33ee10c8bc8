-------------------------------- MODULE Emu --------------------------------
(***************************************************************************)
(* The driver of the emulator's file system, dev/lamebus/emu.c up to       *)
(* emu_trunc, and the host behind it.  An operation's offset, length, name *)
(* and data are one argument; the host answers with the operation and the  *)
(* argument it was given, so that a mixed-up answer shows.                 *)
(***************************************************************************)
EXTENDS Lamebus

CONSTANTS EMU_MAXHANDLES, RETRIES

ASSUME EmuAssumptions == EMU_MAXHANDLES \in Nat /\ RETRIES \in Nat

VARIABLES es,    \* the softc: e_lock, e_sem, e_result
          host   \* the registers, the buffer, and the open handles
emuvars == <<es, host>>

EMU_ROOTHANDLE == 0
EmuHandles == 1 .. EMU_MAXHANDLES
EmuInit ==
    /\ es = [lock |-> NULL, sem |-> 0, result |-> "none",
             fds |-> [t \in Threads |-> {}]]    \* not in the code
    /\ host = [handle |-> 0, arg |-> << >>, oper |-> "none",
               result |-> "none", open |-> {EMU_ROOTHANDLE}]
EmuAsserts == host.result # "none"

ConfigEmu == /\ Config("emu") /\ UNCHANGED emuvars
             /\ Configured("emu") \/ ConfigFails

\* The host carries out what is in its registers.
HostEnds(result, handle, open) ==
    /\ host' = [host EXCEPT !.oper = "none", !.result = result,
                  !.handle = handle, !.open = open,
                  !.arg = <<host.oper, host.handle, host.arg>>]
HostFinish ==
    LET h == host.handle
        free == EmuHandles \ host.open
    IN /\ Outside /\ host.oper # "none" /\ UNCHANGED es
       /\ \/ /\ h \in host.open /\ Spend("media")
             /\ HostEnds("EIO", h, host.open)
          \/ /\ UNCHANGED budget
             /\ CASE h \notin host.open ->
                       HostEnds("BADHANDLE", h, host.open)
                  [] h \in host.open /\ host.oper = "open" /\ free = {} ->
                       HostEnds("ENFILE", h, host.open)
                  [] h \in host.open /\ host.oper = "open" /\ free # {} ->
                       LET new == Sets!Min(free)
                       IN HostEnds("ok", new, host.open \union {new})
                  [] h \in host.open /\ host.oper = "close" ->
                       HostEnds("ok", h, host.open \ {h})
                  [] h \in host.open /\ host.oper = "io" ->
                       HostEnds("ok", h, host.open)

(***************************************************************************)
(* emu_irq: the register is read and cleared, then V(e_sem).               *)
(***************************************************************************)
EmuIrq ==
    /\ InIrq("emu", "start")
    /\ es' = [es EXCEPT !.result = host.result]
    /\ host' = [host EXCEPT !.result = "none"]
    /\ IrqGoto("V")
EmuIrqV ==
    /\ InIrq("emu", "V") /\ UNCHANGED host
    /\ es' = [es EXCEPT !.sem = @ + 1]
    /\ IrqReturn

(***************************************************************************)
(* emu_open, emu_close, and the operations on a handle.                    *)
(***************************************************************************)
EmuOp(t) ==
    /\ Calls(t, "emu") /\ "emu" \in bus.ready /\ UNCHANGED emuvars
    /\ \E op \in {"open", "close", "io"} :
         \E h \in IF op = "open" THEN {EMU_ROOTHANDLE} ELSE es.fds[t] :
           Do(t, [fn |-> "emu", pc |-> "lock", op |-> op, handle |-> h,
                  retries |-> 0, result |-> "none", got |-> NULL])
Arg(t) == <<t, call[t].op>>
EmuLock(t) ==
    /\ At(t, "emu", "lock") /\ es.lock = NULL /\ UNCHANGED host
    /\ es' = [es EXCEPT !.lock = t]
    /\ Goto(t, "args")
\* emu_write's uiomove may fail; emu_open has a name of the kernel's.
EmuArgs(t) ==
    /\ At(t, "emu", "args") /\ UNCHANGED es
    /\ \/ /\ host' = [host EXCEPT !.handle = call[t].handle, !.arg = Arg(t)]
          /\ Goto(t, "oper")
       \/ /\ call[t].op = "io" /\ Spend("faults") /\ UNCHANGED host
          /\ Do(t, [call[t] EXCEPT !.pc = "out", !.result = "EFAULT"])
EmuOper(t) ==
    /\ At(t, "emu", "oper") /\ UNCHANGED es
    /\ host' = [host EXCEPT !.oper = call[t].op]
    /\ Goto(t, "waitdone")
\* translate_err, and emu_close's way back.
EmuWaitdone(t) ==
    LET c == call[t] IN
    /\ At(t, "emu", "waitdone") /\ es.sem > 0 /\ UNCHANGED <<host, budget>>
    /\ es' = [es EXCEPT !.sem = @ - 1]
    /\ CASE es.result = "BADHANDLE" ->
              panic' = "fatal result code" /\ UNCHANGED call
         [] es.result = "EIO" /\ c.op = "close" /\ c.retries < RETRIES ->
              Do(t, [c EXCEPT !.pc = "args", !.retries = @ + 1])
         [] es.result = "ok" ->
              Do(t, [c EXCEPT !.pc = "collect", !.result = "ok"])
         [] OTHER -> Do(t, [c EXCEPT !.pc = "out", !.result = es.result])
\* What is read from the registers and the buffer; emu_doread's uiomove may
\* fail.
EmuCollect(t) ==
    /\ At(t, "emu", "collect") /\ UNCHANGED host
    /\ \/ /\ es' = [es EXCEPT !.fds[t] =
                      CASE call[t].op = "open" -> @ \union {host.handle}
                        [] call[t].op = "close" -> @ \ {call[t].handle}
                        [] OTHER -> @]
          /\ Do(t, [call[t] EXCEPT !.pc = "out", !.got = host.arg])
          /\ UNCHANGED budget
       \/ /\ call[t].op = "io" /\ Spend("faults") /\ UNCHANGED es
          /\ Do(t, [call[t] EXCEPT !.pc = "out", !.result = "EFAULT"])
EmuOut(t) ==
    /\ At(t, "emu", "out") /\ UNCHANGED host
    /\ es' = [es EXCEPT !.lock = NULL]
    /\ Return(t)

EmuThread(t) == \/ EmuLock(t) \/ EmuArgs(t) \/ EmuOper(t)
                \/ EmuWaitdone(t) \/ EmuCollect(t) \/ EmuOut(t)
EmuHandler == EmuIrq \/ EmuIrqV
EmuNext == ConfigEmu \/ HostFinish \/ EmuHandler
           \/ \E t \in Threads : EmuOp(t) \/ EmuThread(t)

(***************************************************************************)
(* A thread gets the answer to its own operation, the handles the threads  *)
(* have are open and different, and no completion is left for another.     *)
(***************************************************************************)
EmuRight ==
    /\ \A t \in Threads : call[t].fn = "emu" /\ call[t].pc = "out" =>
         LET c == call[t] IN
         c.result = "ok" => c.got = <<c.op, c.handle, Arg(t)>>
    /\ \A t \in Threads :
         /\ EMU_ROOTHANDLE \notin es.fds[t]
         /\ \A h \in es.fds[t] \ host.open :
              call[t].fn = "emu" /\ call[t].op = "close" /\ call[t].handle = h
         /\ \A u \in Threads \ {t} : es.fds[t] \intersect es.fds[u] = {}
    /\ es.sem > 0 => \E t \in Threads : /\ es.lock = t
                                        /\ call[t].pc = "waitdone"

=============================================================================
